------------------------------- MODULE MCWatch -------------------------------
(***************************************************************************)
(* The filesystem source: parts that do not share state, each in           *)
(* behaviours of its own.                                                  *)
(*   fan      Fanotify, over two directories and a file, one name excluded *)
(*   tuned    the same, with the rules edited once                         *)
(*   mounts   Mounts                                                       *)
(*   revisit  Revisit                                                      *)
(*   scan     Scan, over two roots                                         *)
(***************************************************************************)
EXTENDS Fanotify

CONSTANTS
    Points, Inside, Ignored, MaxMounts, MaxSwaps, \* of Mounts
    Mapped, Tiers, Remember, MaxWrites, Nobody, \* of Revisit
    Roots, Folders, Leaves, LeftOut, Threads, Batch, InFlight, MaxBlind, MaxFailures \* of Scan

VARIABLES
    part,
    mounted, marked, subscribed, swaps, begun, known, noted, base, uncovered, again, toWalk,
    mounts,
    file, open, events, row, list, reading, looking, overtaken, dropped, writes,
    tree, away, indexed, phase, before, todo, thread, sent, blind, tooBlind, got, stop,
    cancelled, first, cycled, nameless, broken

T == INSTANCE Fanotify WITH MaxOps <- 1, MaxTunes <- 1
M == INSTANCE Mounts
V == INSTANCE Revisit WITH Paths <- Mapped
S == INSTANCE Scan WITH Excluded <- LeftOut, MaxFaults <- MaxFailures,
                        disk <- tree, rows <- indexed, chan <- sent, faults <- broken

ASSUME RevisitWellFormed == V!WellFormed
ASSUME ScanWellFormed == S!WellFormed

Place(p, n) == [parent |-> p, name |-> <<n>>]
TreesOf == {<<Absent, Absent, Absent>>,
            <<Place(0, "a"), Place(1, "a"), Place(2, "f")>>,
            <<Place(0, "x"), Place(1, "a"), Place(2, "f")>>}
TiersOf == <<1, 2>>
FoldersOf == {<<"r">>, <<"r", "d">>, <<"s">>, <<"s", "x">>}
LeavesOf == {<<"r", "f">>, <<"r", "d", "g">>, <<"s", "x", "h">>}
LeftOutOf == {<<"s", "x">>}
\* What a scan finds on its disks: one file of the index is gone.
HeldOf == {<<"r">>, <<"r", "d">>, <<"r", "d", "g">>, <<"s">>, <<"s", "x">>,
           <<"s", "x", "h">>}

mountsOf == <<mounted, marked, subscribed, swaps, begun, known, noted, base, uncovered, again,
              toWalk, mounts>>
revisitOf == <<file, open, events, row, list, reading, looking, overtaken, dropped, writes>>
scanOf == <<tree, away, indexed, phase, before, todo, thread, sent, blind, tooBlind, got, stop,
            cancelled, first, cycled, nameless, broken>>
mcVars == <<part, fanVars, mountsOf, revisitOf, scanOf>>

\* Only the part that runs has more than one initial state.
MCInit ==
    /\ part \in {"fan", "tuned", "mounts", "revisit", "scan"}
    /\ Init /\ M!Init /\ V!Init /\ S!Init
    /\ part \notin {"fan", "tuned"} => disk = <<Absent, Absent, Absent>> /\ ~running
    /\ part # "mounts" => mounted = {}
    /\ IF part = "scan" THEN tree = HeldOf /\ "r" \notin away
                        ELSE tree = {<<r>> : r \in Roots} /\ away = {}

FanStep(A)     == part = "fan"     /\ A /\ UNCHANGED <<part, mountsOf, revisitOf, scanOf>>
TunedStep(A)   == part = "tuned"   /\ A /\ UNCHANGED <<part, mountsOf, revisitOf, scanOf>>
MountsStep(A)  == part = "mounts"  /\ A /\ UNCHANGED <<part, fanVars, revisitOf, scanOf>>
RevisitStep(A) == part = "revisit" /\ A /\ UNCHANGED <<part, fanVars, mountsOf, scanOf>>
ScanStep(A)    == part = "scan"    /\ A /\ UNCHANGED <<part, fanVars, mountsOf, revisitOf>>

MCNext ==
    \/ FanStep(Next)
    \/ TunedStep(T!Next)
    \/ MountsStep(M!Next)
    \/ RevisitStep(V!Next)
    \/ ScanStep(S!Next)

\* Threads run, time passes, and a poll of the channel comes round.  (A part never
\* changes, so a promise about one of several steps is one about the part that runs.)
Reads == \/ FanStep(ReaderStep) \/ TunedStep(T!ReaderStep)
         \/ RevisitStep(V!ReaderStep) \/ ScanStep(S!ThreadStep)
Works == \/ FanStep(WorkerStep) \/ TunedStep(T!WorkerStep)
         \/ RevisitStep(V!RevisitStep) \/ ScanStep(S!Receives)
Ends  == TunedStep(T!TuneEnds) \/ RevisitStep(V!Tick) \/ ScanStep(S!Finish)
MCSpec ==
    /\ MCInit /\ [][MCNext]_mcVars
    /\ WF_mcVars(Reads) /\ WF_mcVars(Works) /\ WF_mcVars(Ends)

-----------------------------------------------------------------------------
\* Fanotify: whatever the disk did and the queue lost, the reader and the worker come
\* to rest.  Scan: a walk ends.
AtRest == (part \in {"fan", "tuned"} => Quiet) /\ (part = "scan" => phase # "walking")
Rests == []<>AtRest
\* Mounts: what was mounted since the source subscribed and the reader began is said to be
\* unheard, unless a point was mounted again between two polls.
SaidUnlessAgain == M!SaidUnlessAgain
\* Revisit: two threads that look at one file leave its row right, unless one of them
\* sent late what the other had already said.
SettledUnlessOvertaken == V!SettledUnlessOvertaken
\* Revisit: a write no event tells of is shown in the end.
MappedSeen == V!MappedSeen
\* Scan: a file that was there throughout keeps its row, unless its disk left and came
\* back within the walk or a listing broke off without saying where.
\* And what was gone from a root the walk could see is swept.
SweptRight == S!SweptRight
=============================================================================
