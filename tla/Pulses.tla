------------------------------- MODULE Pulses -------------------------------
(***************************************************************************)
(* When the worker walks a source nobody asked it to                       *)
(* (crates/scour-engine/src/reconcile.rs, and the turn of engine.rs's      *)
(* worker that reads the pulses).  A pulse is a number that moves when a   *)
(* partition does; a source without a watcher is walked when its pulse has *)
(* moved, one with a watcher when the pulse moves and no event comes, and  *)
(* both once in a long while.  Sources do not see each other here, so this *)
(* is one source.                                                          *)
(*                                                                         *)
(* Instants are ages and times left, counted no further than they are      *)
(* compared.                                                               *)
(***************************************************************************)
EXTENDS Naturals

CONSTANTS
    Every,          \* Pulses::EVERY
    Floor,          \* Pulses::FLOOR
    Patience,       \* Pulses::PATIENCE, in readings
    Least,          \* Source::patience
    Poll,           \* EngineOptions::poll_interval
    Reconcile,      \* EngineOptions::reconcile_interval
    WatchedEvery,   \* EngineOptions::watched_reconcile
    Factor,         \* what a walk's cost is multiplied by to say how long it rests
    FirstRetry,     \* the first of RETRY_AFTER
    MaxCost,        \* bound: how long a walk takes
    Never

VARIABLES
    covered,        \* a watcher covers the whole source
    hasPulse,       \* the source has a pulse to read
    known,          \* a reading has been taken: `last' is Some
    moved,          \* the pulse is not what it was at the last reading
    pending,        \* it moved, and nothing has been done about it
    sinceCheck, sinceWalk, sinceWhole,      \* checked, walked, whole_at
    floor, rest,    \* pulse_floor, scan_rest
    fallback, safety,                       \* time left to each
    silent,         \* moved_since_event
    cost,           \* how long the walk that runs has taken; Never when none does
    retry,          \* time left to the retry of a failed walk; Never when none waits
    unseen          \* age of the oldest change no walk has begun after

pulseVars == <<covered, hasPulse, known, moved, pending, sinceCheck, sinceWalk, sinceWhole,
               floor, rest, fallback, safety, silent, cost, retry, unseen>>

Max2(a, b) == IF a > b THEN a ELSE b
Max3(a, b, c) == Max2(a, Max2(b, c))
Age(a, cap) == IF a = Never \/ a >= cap THEN a ELSE a + 1
Left(a) == IF a = Never \/ a = 0 THEN a ELSE a - 1
LongestRest == Max3(Floor, Factor * MaxCost, Least)

Init ==
    /\ covered \in BOOLEAN /\ hasPulse \in BOOLEAN
    /\ known = FALSE /\ moved = FALSE /\ pending = FALSE
    /\ sinceCheck = 0 /\ sinceWalk = Floor /\ sinceWhole = 0    \* walked is back-dated
    /\ floor = Max2(Floor, Least) /\ rest = 0                   \* be_patient
    /\ fallback = Poll /\ safety = Reconcile
    /\ silent = 0 /\ cost = Never /\ retry = Never /\ unseen = Never

-----------------------------------------------------------------------------
\* defer: a whole pass has just ended, or is about to begin.
Defer(r) ==
    /\ sinceWalk' = 0 /\ sinceWhole' = 0 /\ pending' = FALSE
    /\ floor' = Max3(Floor, r, Least)
    /\ fallback' = Max2(Poll, r) /\ safety' = Max2(Reconcile, r)

\* The worker walks the source, unless a failed walk of it waits to be tried again.
Walks ==
    /\ cost' = IF retry = Never THEN 0 ELSE cost
    /\ unseen' = IF retry = Never THEN Never ELSE unseen

IsDue == sinceCheck >= Every /\ cost = Never

CheckDue == covered /\ sinceWhole >= WatchedEvery

SafetyDue == ~covered /\ safety = 0
PollingDue == ~covered /\ ~hasPulse /\ fallback = 0

\* decide, for a watched source on its slow clock: on a quiet machine, or an
\* interval late.
LateNever == FALSE
Late == sinceWhole >= 2 * WatchedEvery
DecideCheck(quiet) ==
    /\ IsDue /\ CheckDue
    /\ Late \/ quiet
    /\ Defer(rest)
    /\ known' = hasPulse /\ moved' = FALSE /\ silent' = 0
    /\ Walks
    /\ sinceCheck' = 0
    /\ UNCHANGED <<covered, hasPulse, rest, retry>>

Passed(quiet) == CheckDue => ~(Late \/ quiet)

\* decide, for an unwatched one: its safety net, or its polling where there is no
\* pulse to read.
DecideReconcile ==
    /\ IsDue
    /\ SafetyDue \/ PollingDue
    /\ Defer(rest)
    /\ known' = hasPulse /\ moved' = FALSE /\ silent' = 0
    /\ Walks
    /\ sinceCheck' = 0
    /\ UNCHANGED <<covered, hasPulse, rest, retry>>

\* decide, nothing to read.
DecideNothing(quiet) ==
    /\ IsDue /\ Passed(quiet)
    /\ ~hasPulse /\ ~SafetyDue /\ ~PollingDue
    /\ sinceCheck' = 0
    /\ UNCHANGED <<covered, hasPulse, known, moved, pending, sinceWalk, sinceWhole, floor,
                   rest, fallback, safety, silent, cost, retry, unseen>>

\* decide, by the reading: a movement is remembered until the floor has passed, and
\* a watched source has to have moved many times with nothing arriving.
PendingForgotten(stirs) == stirs
Pending(stirs) == pending \/ stirs
DecideByPulse(quiet) ==
    LET stirs == known /\ moved
        waits == Pending(stirs)
        count == IF covered /\ stirs THEN Age(silent, Patience) ELSE silent
        walks == /\ sinceWalk >= floor
                 /\ IF covered THEN count >= Patience ELSE waits
    IN  /\ IsDue /\ Passed(quiet)
        /\ hasPulse /\ ~SafetyDue
        /\ known' = TRUE /\ moved' = FALSE
        /\ silent' = IF walks /\ covered THEN 0 ELSE count
        /\ pending' = IF walks THEN FALSE ELSE waits
        /\ sinceWalk' = IF walks THEN 0 ELSE sinceWalk
        /\ IF walks THEN Walks ELSE UNCHANGED <<cost, unseen>>
        /\ sinceCheck' = 0
        /\ UNCHANGED <<covered, hasPulse, sinceWhole, floor, rest, fallback, safety, retry>>

-----------------------------------------------------------------------------
\* A whole walk ends: scanned.  One that could not see everything is tried again,
\* after its own rest.
Scanned == Factor * cost
WalkEnds(ok) ==
    /\ cost # Never
    /\ rest' = Scanned
    /\ Defer(rest')
    /\ cost' = Never
    /\ retry' = IF ok \/ retry # Never THEN retry ELSE Max2(FirstRetry, rest')
    /\ unseen' = IF ok \/ unseen # Never THEN unseen ELSE 0
    /\ UNCHANGED <<covered, hasPulse, known, moved, sinceCheck, silent>>

\* begin_generation fails: nothing was walked, so nothing is put off.
WalkRefused ==
    /\ cost = 0 /\ cost' = Never
    /\ retry' = IF retry # Never THEN retry ELSE Max2(FirstRetry, rest)
    /\ unseen' = IF unseen # Never THEN unseen ELSE 0
    /\ UNCHANGED <<covered, hasPulse, known, moved, pending, sinceCheck, sinceWalk, sinceWhole,
                   floor, rest, fallback, safety, silent>>

\* The retry comes due, or somebody asks for the walk; a subtree's walk tells the
\* pulses nothing.
RetryRuns ==
    /\ cost = Never /\ retry = 0
    /\ cost' = 0 /\ retry' = Never /\ unseen' = Never
    /\ UNCHANGED <<covered, hasPulse, known, moved, pending, sinceCheck, sinceWalk, sinceWhole,
                   floor, rest, fallback, safety, silent>>

\* Something changes on the partition; with a watcher an event may come of it.  The
\* first reading is only what the later ones are compared with.
Moves ==
    /\ moved' = TRUE
    /\ unseen' = IF known /\ unseen = Never THEN 0 ELSE unseen
    /\ UNCHANGED <<covered, hasPulse, known, pending, sinceCheck, sinceWalk, sinceWhole, floor,
                   rest, fallback, safety, silent, cost, retry>>

SawEvent ==
    /\ covered
    /\ silent' = 0
    /\ UNCHANGED <<covered, hasPulse, known, moved, pending, sinceCheck, sinceWalk, sinceWhole,
                   floor, rest, fallback, safety, cost, retry, unseen>>

\* A watcher loses a subtree, or gets it back: `unwatched' is asked at every reading.
CoverChanges ==
    /\ covered' = ~covered
    /\ unseen' = IF unseen = Never THEN Never ELSE 0
    /\ UNCHANGED <<hasPulse, known, moved, pending, sinceCheck, sinceWalk, sinceWhole, floor,
                   rest, fallback, safety, silent, cost, retry>>

\* Time passes; the worker wakes at next_due unless it walks.
LongestWait == LongestRest + Every + MaxCost
LongestWhole == Max3(2 * WatchedEvery, Reconcile, Factor * MaxCost) + Every
Tick ==
    /\ ~IsDue /\ (cost = Never => retry # 0)
    /\ cost # Never => cost < MaxCost
    /\ sinceCheck' = Age(sinceCheck, Every)
    /\ sinceWalk' = Age(sinceWalk, LongestRest + Every)
    /\ sinceWhole' = Age(sinceWhole, LongestWhole + 1)
    /\ fallback' = Left(fallback) /\ safety' = Left(safety) /\ retry' = Left(retry)
    /\ cost' = Age(cost, MaxCost)
    /\ unseen' = Age(unseen, LongestWait + 1)
    /\ UNCHANGED <<covered, hasPulse, known, moved, pending, floor, rest, silent>>

Decide == \E quiet \in BOOLEAN : DecideCheck(quiet) \/ DecideNothing(quiet) \/ DecideByPulse(quiet)

Next ==
    \/ Decide \/ DecideReconcile
    \/ \E ok \in BOOLEAN : WalkEnds(ok)
    \/ WalkRefused
    \/ RetryRuns
    \/ Moves \/ SawEvent \/ CoverChanges
    \/ Tick

Spec == Init /\ [][Next]_pulseVars

-----------------------------------------------------------------------------
\* A change of an unwatched source whose pulse is read is followed by a walk that
\* began after it as soon as the source has rested: no movement falls between two
\* readings, a floor and a walk that was already running.  One made before the first
\* reading is told by no pulse.
ChangeWalked ==
    ~covered /\ hasPulse /\ known /\ retry = Never /\ unseen # Never => unseen <= LongestWait

\* A watched source is walked whole once in two of its intervals, however busy the
\* machine stays; the safety net of the time it was not watched may be the longer one.
WatchedChecked ==
    covered /\ retry = Never /\ cost = Never => sinceWhole <= LongestWhole
=============================================================================
