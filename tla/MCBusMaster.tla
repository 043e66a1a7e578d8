----------------------------- MODULE MCBusMaster -----------------------------
(***************************************************************************)
(* BusMaster for TLC: a bus with up to three devices.                      *)
(***************************************************************************)
EXTENDS BusMaster

Target(a, m) == [addr |-> a, mode |-> m]

\* Scans of three addresses: a patient one, and one that gives up too early.
Scan(net, patient) ==
  [cmd |-> "scan", net |-> net, patient |-> patient, settles |-> patient,
   targets |-> [k \in 1 .. 3 |-> Target(k, "probe")]]

\* Nothing in cat may rest on the gap.
Cat(net, patient, targets) ==
  [cmd |-> "cat", net |-> net, patient |-> patient, settles |-> FALSE, targets |-> targets]

\* Two or three targets in every mode; an address twice; targets that Read
\* refuses, with and without a read before them.
CatTargets ==
  {<<Target(1, m), Target(2, "ud1"), Target(1, "ud2")>> : m \in {"nke", "ud2"}} \cup
  {<<Target(1, "ud2"), Target(2, m)>> : m \in {"other", "foreign"}} \cup
  {<<Target(1, "other")>>}

AllJobs ==
  {Scan("rtu", patient) : patient \in BOOLEAN} \cup
  {Cat(net, patient, targets) : net \in {"rtu", "tcp"}, patient \in BOOLEAN, targets \in CatTargets}

ScanTCP == {Scan("tcp", TRUE)}

\* No device has address 0.
AnyBus == {b \in [Primaries -> Answers] : b[0] = "none"}
=============================================================================
