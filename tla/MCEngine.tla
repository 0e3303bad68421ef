------------------------------ MODULE MCEngine ------------------------------
(***************************************************************************)
(* The parts of the engine that do not share state, each in behaviours of  *)
(* its own: `part' says which one runs, and the variables of the others    *)
(* keep their initial values.                                              *)
(*   walks   PendingWalks, over a root, a directory "d" holding "e" and    *)
(*           "f", and a file "y" beside "d"                                *)
(*   pulses  Pulses                                                        *)
(*   revs    Revisions                                                     *)
(***************************************************************************)
EXTENDS PendingWalks

CONSTANTS
    Every, Floor, Patience, Least, Poll, Reconcile, WatchedEvery, Factor, FirstRetry,
    MaxCost, Never,
    Clients, Hold, MaxVersion, MaxSwaps, None

VARIABLES
    part,
    covered, hasPulse, known, moved, pending, sinceCheck, sinceWalk, sinceWhole, floor, rest,
    fallback, safety, silent, cost, retry, unseen,
    version, revision, wakeAge, owed, doing, made, told, client, since, view, prepared,
    preparing, swap, first, swaps, raced

\* Pulses: instants are natural numbers, and Never is none.
ASSUME PulsesAssumption ==
    /\ {Every, Floor, Patience, Least, Poll, Reconcile, WatchedEvery, Factor, FirstRetry,
        MaxCost} \subseteq Nat
    /\ Never \notin Nat

P == INSTANCE Pulses
R == INSTANCE Revisions

PathsOf == {"/", "d", "e", "f", "y"}
UnderOf == {<<p, p>> : p \in PathsOf} \cup {<<p, "/">> : p \in PathsOf}
             \cup {<<"e", "d">>, <<"f", "d">>}

pulseOf == <<covered, hasPulse, known, moved, pending, sinceCheck, sinceWalk, sinceWhole, floor,
             rest, fallback, safety, silent, cost, retry, unseen>>
revOf == <<version, revision, wakeAge, owed, doing, made, told, client, since, view, prepared,
           preparing, swap, first, swaps, raced>>
mcVars == <<part, vars, pulseOf, revOf>>

\* Only the part that runs has more than one initial state.
MCInit ==
    /\ part \in {"walks", "pulses", "revs"}
    /\ Init /\ P!Init /\ R!Init
    /\ part # "pulses" => covered /\ hasPulse

WalksStep(A)  == part = "walks"  /\ A /\ UNCHANGED <<part, pulseOf, revOf>>
PulsesStep(A) == part = "pulses" /\ A /\ UNCHANGED <<part, vars, revOf>>
RevsStep(A)   == part = "revs"   /\ A /\ UNCHANGED <<part, vars, pulseOf>>

MCNext ==
    \/ WalksStep(Next)
    \/ PulsesStep(P!Next)
    \/ RevsStep(R!Next)

\* Threads run and time passes.
MCSpec ==
    /\ MCInit /\ [][MCNext]_mcVars
    /\ WF_mcVars(WalksStep(TakeDue)) /\ WF_mcVars(WalksStep(Tick))
    /\ WF_mcVars(RevsStep(R!ThreadStep)) /\ WF_mcVars(RevsStep(R!Tick))
    /\ WF_mcVars(RevsStep(R!PrepareStep)) /\ WF_mcVars(RevsStep(R!SwapStep))
    /\ \A c \in Clients : WF_mcVars(RevsStep(R!ClientStep(c)))

-----------------------------------------------------------------------------
\* Pulses: an unwatched change is walked as soon as the source has rested, and a watched
\* source is walked whole once in two of its intervals.
WalkedInTime == part = "pulses" => P!ChangeWalked /\ P!WatchedChecked

\* Revisions: a client that waits shows everything announced so far, unless the engine
\* it waited in was being replaced.
CurrentUnlessRaced == R!CurrentUnlessRaced
\* Revisions: a page served from the prepared answer is as new as the last announcement.
PreparedFresh == R!PreparedFresh
\* Revisions: every client comes to show what the index holds.
Current == part = "revs" => R!Current
=============================================================================
