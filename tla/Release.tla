------------------------------- MODULE Release ------------------------------
(***************************************************************************)
(* pc release: what is tried, one thing after the other, to get a serial   *)
(* port back from a program that has died or still holds it, and how the   *)
(* outcome is summed up.  The other programs go on meanwhile: one of them  *)
(* may remove its lock file, or close the port, between any two steps.     *)
(*                                                                         *)
(* Two of the directories for lock files are commonly one: /var/lock and   *)
(* /var/run/lock.  So a file may be found under two names.                 *)
(***************************************************************************)
EXTENDS Integers, Sequences, FiniteSets

CONSTANTS
  LockPaths,  \* sequence of the names tried, nine in the code
  FileOf,     \* function from those names to files
  Holders,    \* the processes that may have the port open
  Systems     \* inputs: what the system is like, a set of System

Files == {FileOf[LockPaths[i]] : i \in 1 .. Len(LockPaths)}

System ==
  [ locks : [Files -> {"absent",  \* no such file
                       "own",     \* a file that we may remove
                       "root",    \* one that root may remove
                       "stuck"}], \* one that nobody can
    held : SUBSET Holders,        \* the processes that have the port open
    seen : SUBSET Holders,        \* those whose files an ordinary user may see
    opens : BOOLEAN,              \* an unused port can be opened and closed
    lsof : BOOLEAN, fuser : BOOLEAN, sudo : BOOLEAN,  \* the tool works
    active : Nat ]                \* how many services of the port are active

ASSUME ReleaseAssumption ==
  /\ Len(LockPaths) \in Nat
  /\ Systems \subseteq System

VARIABLES
  sys,       \* the system
  at0,       \* the system at the start
  nth,         \* the name of a lock file that is next
  removed,   \* how many files are said to be removed
  named,     \* the processes that were listed
  task,      \* "stat", "remove", "open", "procs", "sudo", "services", "done"
  success    \* what the summary will say

releaseVars == <<sys, at0, nth, removed, named, task, success>>

ReleaseStart ==
  /\ at0 = sys
  /\ nth = 1
  /\ removed = 0
  /\ named = {}
  /\ task = "stat"
  /\ success = FALSE

ReleaseInit == sys \in Systems /\ ReleaseStart

File == FileOf[LockPaths[nth]]

\* Variant with a bug: rm -f is asked to decide whether there is a file.
Stat_Skipped ==
  /\ task = "stat" /\ nth <= Len(LockPaths)
  /\ task' = "remove"
  /\ UNCHANGED <<sys, at0, nth, removed, named, success>>

\* removeLockFiles, for every name: first os.Stat ...
Stat ==
  /\ task = "stat" /\ nth <= Len(LockPaths)
  /\ IF sys.locks[File] # "absent"
     THEN task' = "remove" /\ UNCHANGED nth
     ELSE nth' = nth + 1 /\ UNCHANGED task
  /\ UNCHANGED <<sys, at0, removed, named, success>>

\* ... then os.Remove and, if that fails, sudo rm -f, which does not mind that
\* the file is gone by now.
Removable ==
  \/ sys.locks[File] = "own"
  \/ sys.sudo /\ sys.locks[File] # "stuck"

RemoveLock ==
  /\ task = "remove"
  /\ IF Removable
     THEN /\ removed' = removed + 1
          /\ sys' = [sys EXCEPT !.locks[File] = "absent"]
     ELSE UNCHANGED <<sys, removed>>
  /\ nth' = nth + 1
  /\ task' = "stat"
  /\ UNCHANGED <<at0, named, success>>

LocksDone ==
  /\ task = "stat" /\ nth > Len(LockPaths)
  /\ task' = "open"
  /\ success' = (removed > 0)
  /\ UNCHANGED <<sys, at0, nth, removed, named>>

\* openAndClose.  Who has the port open has it for himself.
OpenAndClose ==
  /\ task = "open"
  /\ task' = "procs"
  /\ success' = (success \/ (sys.opens /\ sys.held = {}))
  /\ UNCHANGED <<sys, at0, nth, removed, named>>

\* lsof, and fuser if that lists nothing.
Listed(visible) == IF sys.lsof \/ sys.fuser THEN sys.held \cap visible ELSE {}

FindProcesses ==
  /\ task = "procs"
  /\ named' = Listed(sys.seen)
  /\ task' = IF named' = {} THEN "sudo" ELSE "services"
  /\ success' = (success \/ named' # {})
  /\ UNCHANGED <<sys, at0, nth, removed>>

\* Variant with a bug: the second attempt lacks the privileges as well.
FindProcessesWithSudo_Without ==
  /\ task = "sudo"
  /\ named' = Listed(sys.seen)
  /\ task' = "services"
  /\ success' = (success \/ named' # {})
  /\ UNCHANGED <<sys, at0, nth, removed>>

FindProcessesWithSudo ==
  /\ task = "sudo"
  /\ named' = IF sys.sudo THEN Listed(Holders) ELSE {}
  /\ task' = "services"
  /\ success' = (success \/ named' # {})
  /\ UNCHANGED <<sys, at0, nth, removed>>

CheckServices ==
  /\ task = "services"
  /\ task' = "done"
  /\ success' = (success \/ sys.active > 0)
  /\ UNCHANGED <<sys, at0, nth, removed, named>>

(* Other programs.                                                         *)

Quit(p) ==
  /\ task # "done" /\ p \in sys.held
  /\ sys' = [sys EXCEPT !.held = @ \ {p}]
  /\ UNCHANGED <<at0, nth, removed, named, task, success>>

Unlock(f) ==
  /\ task # "done" /\ sys.locks[f] # "absent"
  /\ sys' = [sys EXCEPT !.locks[f] = "absent"]
  /\ UNCHANGED <<at0, nth, removed, named, task, success>>

ReleaseNext ==
  \/ Stat \/ RemoveLock \/ LocksDone \/ OpenAndClose \/ FindProcesses
  \/ FindProcessesWithSudo \/ CheckServices
  \/ \E p \in Holders : Quit(p)
  \/ \E f \in Files : Unlock(f)

ReleaseSpec == ReleaseInit /\ [][ReleaseNext]_releaseVars
-----------------------------------------------------------------------------
(* Properties.                                                             *)

Gone == {f \in Files : at0.locks[f] # "absent" /\ sys.locks[f] = "absent"}

\* removeLockFiles: no file is counted that was not there, and none twice,
\* though it may have two names and may vanish while it is being removed; and
\* what is left is out of reach.
LocksAccounted ==
  task = "done" =>
    /\ removed <= Cardinality(Gone)
    /\ \A f \in Files :
         sys.locks[f] \in {"absent", "stuck"} \cup (IF sys.sudo THEN {} ELSE {"root"})

\* The summary of runRelease: it owns up to failure only if the port cannot be
\* opened, or could not be just before, no service uses it and no tool that
\* there is shows a process that still does.  As long as a process keeps the
\* port and can be seen, one is listed, and none that did not have it.
VerdictHonest ==
  task = "done" =>
    /\ ~success => /\ sys.opens => at0.held # {}
                   /\ sys.active = 0
                   /\ removed = 0
    /\ (sys.lsof \/ sys.fuser)
         /\ sys.held \cap (IF sys.sudo THEN Holders ELSE sys.seen) # {} =>
       named # {} /\ success
    /\ named \subseteq at0.held
=============================================================================
