------------------------------ MODULE MCWorker ------------------------------
(***************************************************************************)
(* The engine's worker, in two kinds of behaviour: `part' is "worker" when *)
(* it is never stopped and calls may fail, "ending" when it may be stopped *)
(* at any moment.                                                          *)
(***************************************************************************)
EXTENDS Worker

VARIABLE part

E == INSTANCE Worker WITH Stops <- TRUE, MaxFaults <- 0
\* A behaviour that ends promises nothing, and stands for one that shows everything.
M == INSTANCE Mirror WITH disk <- IF part = "worker" THEN disk ELSE [s \in Sources |-> 1],
                          shown <- IF part = "worker" THEN shown ELSE [s \in Sources |-> 1]

RetryOf == <<1, 2>>

MCInit == part \in {"worker", "ending"} /\ Init

Runs(A) == part = "worker" /\ A /\ UNCHANGED part
Ends(A) == part = "ending" /\ A /\ UNCHANGED part

MCNext == Runs(Next) \/ Ends(E!Next)

\* The worker runs and time passes.  A subtree that waits to be walked comes due in
\* the end, which is PendingWalks' to show.
MCSpec ==
    /\ MCInit /\ [][MCNext]_<<part, workVars>>
    /\ WF_<<part, workVars>>(Runs(WorkerStep)) /\ SF_<<part, workVars>>(Runs(Tick))
    /\ SF_<<part, workVars>>(Runs(BeginWalks(lost)))

-----------------------------------------------------------------------------
\* What a source holds is shown and written down in the end.
Catches == part = "worker" => Mirrored
\* Worker implements Mirror: it shows nothing a source has not held, and in the end
\* all it holds.
IsMirror == M!Spec
=============================================================================
