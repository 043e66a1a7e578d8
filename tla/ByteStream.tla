----------------------------- MODULE ByteStream -----------------------------
(***************************************************************************)
(* What a reader of the bus may rely on, whatever happens below it.  Bytes *)
(* are numbered in the order in which the bus delivers them.  A byte can   *)
(* get lost before it is taken, but it is taken at most once, and the      *)
(* bytes that are taken come in the order of their arrival.                *)
(***************************************************************************)
EXTENDS Naturals

VARIABLES
  sent,   \* how many bytes the bus has delivered
  queue,  \* the bytes that can still be taken
  last    \* the byte taken last, 0 before the first

streamVars == <<sent, queue, last>>

Init ==
  /\ sent = 0
  /\ queue = {}
  /\ last = 0

Send ==
  /\ sent' = sent + 1
  /\ queue' = queue \cup {sent + 1}
  /\ UNCHANGED last

\* Only the oldest byte left can be taken.
Take ==
  \E b \in queue :
    /\ \A x \in queue : b <= x
    /\ last' = b
    /\ queue' = queue \ {b}
    /\ UNCHANGED sent

Lose ==
  /\ queue' \in SUBSET queue
  /\ UNCHANGED <<sent, last>>

Next == Send \/ Take \/ Lose

Spec == Init /\ [][Next]_streamVars
=============================================================================
