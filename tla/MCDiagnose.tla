----------------------------- MODULE MCDiagnose -----------------------------
(***************************************************************************)
(* Diagnose for TLC: three configurations and many devices, or two and a    *)
(* device that works in the first of them.                                 *)
(***************************************************************************)
EXTENDS Diagnose

\* Devices for three configurations: every way to answer in the first two beside
\* silence in the third, so that what is left over has no other sender; and some
\* that work in the third.
SomeDevices == {d \in [1 .. 3 -> Answers] : d[3] = "none" \/ (d[3] = "full" /\ d[1] = d[2])}

\* A device that works in the first of two configurations.
FirstOnly == {<<"full", "none">>}
=============================================================================
