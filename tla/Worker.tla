------------------------------- MODULE Worker -------------------------------
(***************************************************************************)
(* The engine's worker (crates/scour-engine/src/engine.rs, `run'): one     *)
(* thread that takes walks, changes and maintenance off two channels, and  *)
(* in every turn of its loop walks what is due, publishes what is staged,  *)
(* writes down what is published, retries what failed and tidies up.       *)
(*                                                                         *)
(* What a source holds is a version.  The index has it staged, shown (a    *)
(* search finds it) and kept (it survives the process).  When pulses ask   *)
(* for a walk is the subject of Pulses, how walks wait for their           *)
(* neighbours that of PendingWalks; here either may happen at any turn.    *)
(***************************************************************************)
EXTENDS Naturals, Sequences, FiniteSets

CONSTANTS
    Sources,
    CommitInterval, CommitWatched, CommitIdle, IdleAfter, PersistEvery,  \* EngineOptions
    RetryAfter,     \* RETRY_AFTER, a sequence
    MaxVersion,     \* bound: changes of a source
    MaxFeed,        \* bound: changes in the channel
    MaxAsks,        \* bound: walks and maintenance somebody asks for
    MaxFaults,      \* bound: walks, applies and writes that fail
    Stops,          \* whether the engine may be stopped
    NoWalk

Walk == [source : Sources, read : Nat, for : {"job", "walking", "nudging", "retrying"}]

ASSUME WorkerAssumption ==
    /\ CommitInterval \in Nat \ {0} /\ PersistEvery \in Nat \ {0}
    /\ RetryAfter \in Seq(Nat \ {0}) /\ RetryAfter # <<>>
    /\ NoWalk \notin Walk

VARIABLES
    fed,        \* sources with a watcher
    disk, staged, shown, kept,  \* source -> version
    stirred,    \* sources without a watcher whose pulse has moved
    feed,       \* the channel of changes: <<source, version>>, version 0 for a Rescan
    queued,     \* Shared::queued, and the walks in the channel of jobs
    lost,       \* pending_walks: sources with a subtree waiting to be walked
    retries,    \* source -> [left, attempt]
    phase,      \* where in its turn the worker is
    todo,       \* the sources this phase has still to walk
    walk,       \* the walk that runs: its source, what it read, what it is for
    dirty, idleDone, settled, published, full,
    watched,    \* a client waits in await_change
    sinceCommit, sinceBusy, sincePersist,
    late,       \* deadlines past when the turn began
    still,      \* no time has passed since
    faults, asks,
    stopping    \* Job::Stop has been sent

workVars == <<fed, disk, staged, shown, kept, stirred, feed, queued, lost, retries, phase,
              todo, walk, dirty, idleDone, settled, published, full, watched, sinceCommit,
              sinceBusy, sincePersist, late, still, faults, asks, stopping>>

store  == <<staged, shown, kept>>
owing  == <<queued, lost, retries>>
flags  == <<dirty, idleDone, settled, published, full>>
clocks == <<sinceCommit, sinceBusy, sincePersist>>
world  == <<fed, disk, stirred, feed, watched, asks, stopping>>
turn   == <<late, still>>

Fails == faults < MaxFaults /\ faults' = faults + 1

\* retry_delay, and schedule_retry, which does not queue a second one.
RetryDelay(attempt) == RetryAfter[IF attempt < Len(RetryAfter) THEN attempt + 1
                                                                ELSE Len(RetryAfter)]
ScheduleRetry(r, s) ==
    IF s \in DOMAIN r THEN r
    ELSE [q \in DOMAIN r \cup {s} |->
            IF q = s THEN [left |-> RetryDelay(0), attempt |-> 0] ELSE r[q]]
Without(r, gone) == [s \in DOMAIN r \ gone |-> r[s]]

Init ==
    /\ fed \in SUBSET Sources
    /\ disk = [s \in Sources |-> 1]
    /\ staged = [s \in Sources |-> 0] /\ shown = staged /\ kept = staged
    /\ stirred = {} /\ feed = <<>>
    /\ queued = Sources             \* cover_then_walk
    /\ lost = {} /\ retries = <<>>
    /\ phase = "select" /\ todo = {} /\ walk = NoWalk
    /\ dirty = FALSE /\ idleDone = FALSE /\ settled = FALSE /\ published = FALSE
    /\ full = FALSE /\ watched \in BOOLEAN
    /\ sinceCommit = 0 /\ sinceBusy = 0 /\ sincePersist = 0
    /\ late = {} /\ still = FALSE /\ faults = 0 /\ asks = 0 /\ stopping = FALSE

-----------------------------------------------------------------------------
\* The sources and whoever asks for something.
Forward(s) ==
    IF s \in fed
      THEN \/ feed' = Append(feed, <<s, disk'[s]>>)
           \/ feed' = Append(feed, <<s, 0>>)      \* the watcher lost track
      ELSE UNCHANGED feed
DiskChanges(s) ==
    /\ disk[s] < MaxVersion /\ Len(feed) < MaxFeed /\ phase # "ended"
    /\ disk' = [disk EXCEPT ![s] = @ + 1]
    /\ Forward(s)
    /\ stirred' = IF s \in fed THEN stirred ELSE stirred \cup {s}
    /\ still' = FALSE
    /\ UNCHANGED <<store, owing, phase, todo, walk, flags, clocks, late, faults, asks, fed,
                   watched, stopping>>

\* queue_whole: a walk already queued is not queued again.
Rescan(s) ==
    /\ ~stopping /\ asks < MaxAsks
    /\ asks' = asks + 1
    /\ queued' = queued \cup {s}
    /\ UNCHANGED <<store, lost, retries, phase, todo, walk, flags, clocks, turn, faults, fed,
                   disk, stirred, feed, watched, stopping>>

Shutdown ==
    /\ Stops /\ ~stopping
    /\ stopping' = TRUE
    /\ UNCHANGED <<store, owing, phase, todo, walk, flags, clocks, turn, faults, asks, fed,
                   disk, stirred, feed, watched>>

-----------------------------------------------------------------------------
\* The deadlines the loop waits for.
CommitPatience == IF watched THEN CommitWatched ELSE CommitIdle
CompactDue == settled /\ ~dirty
CommitDueFull == dirty /\ full /\ sinceCommit >= CommitInterval
CommitDue == dirty /\ sinceCommit >= CommitInterval /\ (full \/ sinceCommit >= CommitPatience)
IdleDueAgain == ~dirty /\ sinceBusy >= IdleAfter
IdleDue == ~dirty /\ ~idleDone /\ sinceBusy >= IdleAfter
PersistDue == published /\ sincePersist >= PersistEvery
RetryNever == {}
RetryDue == {s \in DOMAIN retries : retries[s].left = 0}
Deadlines ==
    {d \in {"commit", "compact", "idle", "persist", "retry"} :
        \/ d = "commit"  /\ CommitDue
        \/ d = "compact" /\ CompactDue
        \/ d = "idle"    /\ IdleDue
        \/ d = "persist" /\ PersistDue
        \/ d = "retry"   /\ RetryDue # {}}

Goes(to) == phase' = to
Turns == Goes("walks") /\ late' = Deadlines /\ still' = TRUE

\* The wait runs out with nothing in either channel: at a deadline, or for the pulses.
Wakes ==
    /\ phase = "select" /\ walk = NoWalk
    /\ queued = {} /\ feed = <<>> /\ ~stopping
    /\ Turns
    /\ UNCHANGED <<store, owing, todo, walk, flags, clocks, faults, world>>

\* A job: a walk.  From here a new request is about what this walk has passed.
TakeWalk(s) ==
    /\ phase = "select" /\ walk = NoWalk
    /\ s \in queued
    /\ queued' = queued \ {s}
    /\ walk' = [source |-> s, read |-> disk[s], for |-> "job"]
    /\ shown' = staged
    /\ Goes("job") /\ late' = Deadlines /\ still' = TRUE
    /\ UNCHANGED <<staged, kept, lost, retries, todo, flags, clocks, faults, world>>

\* A job: maintenance, which writes down what is staged; not what is only published.
Flushes ==
    /\ shown' = staged
    /\ kept' = [s \in Sources |-> IF staged[s] # shown[s] THEN staged[s] ELSE kept[s]]
TakeMaintenance ==
    /\ phase = "select" /\ walk = NoWalk
    /\ asks < MaxAsks /\ asks' = asks + 1
    /\ Turns
    /\ sinceCommit' = 0
    /\ \/ Flushes /\ dirty' = FALSE /\ full' = FALSE /\ UNCHANGED faults
       \/ Fails /\ dirty' = TRUE /\ UNCHANGED <<shown, kept, full>>
    /\ UNCHANGED <<staged, owing, todo, walk, idleDone, settled, published, sinceBusy,
                   sincePersist, fed, disk, stirred, feed, watched, stopping>>

\* The changes waiting, as many as fit in a batch; the walks among them are put aside.
Batch(n) == SubSeq(feed, 1, n)
Applied(b) == {s \in Sources : \E i \in DOMAIN b : b[i][1] = s /\ b[i][2] # 0}
Asked(b) == {s \in Sources : \E i \in DOMAIN b : b[i] = <<s, 0>>}
Newest(b, s) ==
    LET at == {i \in DOMAIN b : b[i][1] = s /\ b[i][2] # 0}
    IN  b[CHOOSE i \in at : \A j \in at : j <= i][2]
RefusedForgotten == retries
Refused == [s \in Sources |-> ScheduleRetry(retries, s)[s]]
TakeChanges(n) ==
    LET b == Batch(n)
    IN  /\ phase = "select" /\ walk = NoWalk
        /\ Turns
        /\ feed' = SubSeq(feed, n + 1, Len(feed))
        /\ lost' = lost \cup Asked(b)
        /\ sinceBusy' = 0
        /\ \/ Applied(b) = {} /\ UNCHANGED <<staged, retries, dirty, idleDone, full, faults>>
           \/ /\ Applied(b) # {}
              /\ dirty' = TRUE /\ idleDone' = FALSE
              /\ full' \in {full, TRUE}
              /\ \/ /\ staged' = [s \in Sources |-> IF s \in Applied(b) THEN Newest(b, s)
                                                                       ELSE staged[s]]
                    /\ UNCHANGED <<retries, faults>>
                 \/ Fails /\ retries' = Refused /\ UNCHANGED staged
        /\ UNCHANGED <<shown, kept, queued, todo, walk, settled, published, sinceCommit,
                       sincePersist, fed, disk, stirred, watched, asks, stopping>>

\* A job: the stop, behind whatever was queued before it.
TakeStop ==
    /\ phase = "select" /\ walk = NoWalk
    /\ stopping /\ queued = {}
    /\ Goes("ended")
    /\ shown' = staged /\ kept' = staged      \* commit
    /\ full' = FALSE
    /\ UNCHANGED <<staged, owing, todo, walk, dirty, idleDone, settled, published, clocks, turn,
                   faults, world>>

-----------------------------------------------------------------------------
\* One phase ends when nothing is left to walk in it; the next begins with what it
\* has to walk.
Ready(from) == phase = from /\ walk = NoWalk
\* take_due: any of the subtrees that wait may be due.
BeginWalks(due) ==
    /\ Ready("walks")
    /\ todo' = due /\ lost' = lost \ due
    /\ Goes("walking")
    /\ UNCHANGED <<store, queued, retries, walk, flags, clocks, turn, faults, world>>

\* decide: a source that moved with nobody watching, and any other once in a while;
\* one with a retry waiting is left to it.
Nudged(some) == some \ DOMAIN retries
BeginNudges ==
    /\ Ready("walking") /\ todo = {}
    /\ \E some \in SUBSET Sources :
          stirred \subseteq some /\ todo' = Nudged(some) /\ stirred' = {}
    /\ Goes("nudging")
    /\ UNCHANGED <<store, owing, walk, flags, clocks, turn, faults, asks, fed, disk, feed,
                   watched, stopping>>

\* scan: the walk reads the source, into a generation that publishes what was staged.
BeginWalk(s) ==
    /\ phase \in {"walking", "nudging", "retrying"} /\ walk = NoWalk /\ s \in todo
    /\ todo' = todo \ {s}
    /\ walk' = [source |-> s, read |-> disk[s], for |-> phase]
    /\ shown' = staged
    /\ UNCHANGED <<staged, kept, owing, phase, flags, clocks, turn, faults, world>>

\* What a walk found is staged whether or not it saw everything it came for; whoever
\* asked for the walk schedules the retry of one that did not.
FoundFully == [staged EXCEPT ![walk.source] = walk.read]
Widens(s) ==
    LET n == retries[s].attempt + 1
    IN  [left |-> RetryDelay(n), attempt |-> IF n < Len(RetryAfter) THEN n ELSE Len(RetryAfter)]
AfterWalk(ok) ==
    LET s == walk.source
    IN  retries' = IF ok THEN IF walk.for \in {"job", "retrying"} THEN Without(retries, {s})
                                                                ELSE retries
                   ELSE IF walk.for = "retrying" THEN [retries EXCEPT ![s] = Widens(s)]
                                                 ELSE ScheduleRetry(retries, s)
DirtyAfterSuccess(ok) == ok
DirtyAfter(ok) == ok \/ walk.for # "retrying"
EndWalk(ok) ==
    /\ walk # NoWalk
    /\ ok => ~stopping
    /\ IF ok THEN staged' = FoundFully /\ UNCHANGED faults
             ELSE /\ IF stopping THEN UNCHANGED faults ELSE Fails
                  /\ staged' \in {staged, FoundFully}
    /\ AfterWalk(ok)
    /\ IF DirtyAfter(ok)
         THEN dirty' = TRUE /\ idleDone' = FALSE /\ sinceBusy' = 0
         ELSE UNCHANGED <<dirty, idleDone, sinceBusy>>
    /\ walk' = NoWalk
    /\ IF walk.for = "job" THEN Goes("walks") ELSE UNCHANGED phase
    /\ UNCHANGED <<shown, kept, queued, lost, todo, settled, published, full, sinceCommit,
                   sincePersist, turn, world>>

-----------------------------------------------------------------------------
\* The rest of the turn.
Publishes ==
    /\ Ready("nudging") /\ todo = {}
    /\ Goes("persist")
    /\ IF ~CommitDue THEN UNCHANGED <<shown, dirty, published, full, settled, idleDone, faults,
                                      sinceCommit>>
       ELSE /\ sinceCommit' = 0
            /\ \/ /\ shown' = staged
                  /\ published' = TRUE /\ full' = FALSE /\ dirty' = FALSE
                  /\ settled' = TRUE /\ idleDone' = FALSE
                  /\ UNCHANGED faults
               \/ Fails /\ UNCHANGED <<shown, dirty, published, full, settled, idleDone>>
    /\ UNCHANGED <<staged, kept, owing, todo, walk, sinceBusy, sincePersist, turn, world>>

Persists ==
    /\ Ready("persist")
    /\ IF ~PersistDue THEN UNCHANGED <<shown, kept, published, faults, sincePersist>>
       ELSE /\ sincePersist' = 0
            /\ \/ /\ shown' = staged /\ kept' = staged /\ published' = FALSE
                  /\ UNCHANGED faults
               \/ Fails /\ UNCHANGED <<shown, kept, published>>
    /\ todo' = RetryDue
    /\ Goes("retrying")
    /\ UNCHANGED <<staged, owing, walk, dirty, idleDone, settled, full, sinceCommit, sinceBusy,
                   turn, world>>

\* Compaction flushes too; it is judged once after each publish.
Compacts ==
    /\ Ready("retrying") /\ todo = {}
    /\ Goes("idle")
    /\ IF CompactDue THEN /\ settled' = FALSE
                          /\ \/ Flushes /\ sinceCommit' = 0
                             \/ UNCHANGED <<shown, kept, sinceCommit>>
                     ELSE UNCHANGED <<settled, shown, kept, sinceCommit>>
    /\ UNCHANGED <<staged, owing, todo, walk, dirty, idleDone, published, full, sinceBusy,
                   sincePersist, turn, faults, world>>

\* Housekeeping, once the machine is quiet; then the loop begins again, or ends.
Idles ==
    /\ Ready("idle")
    /\ IF ~IdleDue THEN UNCHANGED <<shown, kept, published, idleDone, sincePersist, faults>>
       ELSE /\ idleDone' = TRUE
            /\ \/ /\ shown' = staged /\ kept' = staged /\ published' = FALSE
                  /\ sincePersist' = 0 /\ UNCHANGED faults
               \/ Fails /\ UNCHANGED <<shown, kept, published, sincePersist>>
    /\ Goes("select")
    /\ UNCHANGED <<staged, owing, todo, walk, dirty, settled, full, sinceCommit, sinceBusy, turn,
                   world>>

\* Time passes while the worker waits or walks.
Age(a, cap) == IF a < cap THEN a + 1 ELSE a
Tick ==
    /\ phase = "select" \/ walk # NoWalk
    /\ sinceCommit' = Age(sinceCommit, CommitIdle)
    /\ sinceBusy' = Age(sinceBusy, IdleAfter)
    /\ sincePersist' = Age(sincePersist, PersistEvery)
    /\ retries' = [s \in DOMAIN retries |->
                     [retries[s] EXCEPT !.left = IF @ = 0 THEN 0 ELSE @ - 1]]
    /\ still' = FALSE
    /\ UNCHANGED <<store, queued, lost, phase, todo, walk, flags, late, faults, world>>

\* What the worker does by itself.
WorkerStep ==
    \/ Wakes \/ TakeStop
    \/ \E n \in 1..Len(feed) : TakeChanges(n)
    \/ \E s \in Sources : TakeWalk(s) \/ BeginWalk(s)
    \/ \E due \in SUBSET lost : BeginWalks(due)
    \/ BeginNudges
    \/ \E ok \in BOOLEAN : EndWalk(ok)
    \/ Publishes \/ Persists \/ Compacts \/ Idles

Next ==
    \/ \E s \in Sources : DiskChanges(s) \/ Rescan(s)
    \/ TakeMaintenance \/ Shutdown
    \/ WorkerStep
    \/ Tick

Spec == Init /\ [][Next]_workVars

-----------------------------------------------------------------------------
\* No change is forgotten: while a search does not show what a source holds, its
\* change is in the channel, a walk of it is queued, waiting, owed or under way with
\* what it read still current, or what was found is staged and will be published.
OnItsWay(s) ==
    \/ \E n \in 1..Len(feed) : feed[n] \in {<<s, disk[s]>>, <<s, 0>>}
    \/ s \in queued \cup lost \cup stirred \cup DOMAIN retries \cup todo
    \/ walk # NoWalk /\ walk.source = s /\ walk.read = disk[s]
    \/ staged[s] = disk[s] /\ dirty
NothingForgotten ==
    phase # "ended" => \A s \in Sources : shown[s] # disk[s] => OnItsWay(s)

\* The worker never spins: a deadline past when a turn begins is not past when it
\* ends, unless time went by or something arrived.
NoSpin == phase = "select" /\ still => late \cap Deadlines = {}

\* "the walk's own upserts are staged and announce themselves at the commit"
StagedAnnounced == \A s \in Sources : phase = "select" /\ staged[s] # shown[s] => dirty
AnnouncedUnlessRetried == StagedAnnounced \/ \E s \in DOMAIN retries : retries[s].attempt > 0

\* "Stop watching, finish what is queued, and commit."
StopFinishes == phase = "ended" => feed = <<>> /\ lost = {}

\* Once the sources are quiet, searches come to show what they hold, whatever failed
\* on the way; if nothing did, it is written down as well.
Mirrored == <>[](shown = disk /\ (faults = 0 => kept = disk))

\* The same for what is written down after a failure, which the code does not
\* promise: housekeeping that fails is not tried again.
KeptAnyway == <>[](kept = disk)
=============================================================================
