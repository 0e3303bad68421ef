------------------------------- MODULE Mirror -------------------------------
(***************************************************************************)
(* What the service promises whoever searches: of every source it shows    *)
(* something the source has held, and in the end what it holds.            *)
(***************************************************************************)
EXTENDS Naturals

CONSTANT Sources

VARIABLES disk, shown   \* source -> version

mirrorVars == <<disk, shown>>

\* What an earlier run of the service kept may still be all there is.
Init == disk = [s \in Sources |-> 1] /\ shown \in [Sources -> {0, 1}]

Change(s) == disk' = [disk EXCEPT ![s] = @ + 1] /\ UNCHANGED shown

\* Something each of them has held.
Show ==
    /\ shown' \in [Sources -> UNION {0..disk[s] : s \in Sources}]
    /\ \A s \in Sources : shown'[s] <= disk[s]
    /\ UNCHANGED disk

\* A search finds all of a source.
CatchUp(s) == shown[s] # disk[s] /\ Show /\ shown'[s] = disk[s]

Next == Show \/ \E s \in Sources : Change(s)

Spec ==
    /\ Init /\ [][Next]_mirrorVars
    /\ \A s \in Sources : WF_mirrorVars(CatchUp(s))
=============================================================================
