----------------------------- MODULE Revisions -----------------------------
(***************************************************************************)
(* How a client learns that a search would now answer differently          *)
(* (crates/scour-engine/src/engine.rs): the revision, the clients asleep   *)
(* in `await_change', the wake-ups held back by `await_hold', and the      *)
(* answer prepared ahead of its page.  A revision outlives an engine: the  *)
(* one that replaces it (apps/scourd/src/live.rs, `swap') counts on.       *)
(*                                                                         *)
(* What the index answers is a version.  Two threads change it: the worker *)
(* (`touched') and a request that is itself a change (`touched_now').      *)
(***************************************************************************)
EXTENDS Naturals

CONSTANTS
    Clients,        \* threads that show a list and wait for it to change
    Hold,           \* EngineOptions::await_hold
    MaxVersion,     \* bound: changes of the index in one behaviour
    MaxSwaps,       \* bound: engines replaced in one behaviour
    None

Threads == {"worker", "request"}

VARIABLES
    version,    \* what a search of the index answers
    revision,   \* Shared::revision of the engine in use
    wakeAge,    \* how long ago wake_at was, counted up to Hold
    owed,       \* wake_owed
    doing,      \* thread -> the next step of its change
    made,       \* thread -> the version it made and has not announced
    told,       \* the newest version a bump has announced
    client,     \* client -> out, asleep, back (answered) or stale (to search again)
    since,      \* client -> the revision it saw last
    view,       \* client -> the version it shows
    prepared,   \* the prepared answer: its revision and the version it was found in
    preparing,  \* the same for the one being prepared
    swap,       \* where the replacing of the engine is
    first,      \* the revision the next engine starts with
    swaps,      \* engines replaced
    raced       \* the engine being replaced bumped, or owed a bump, after it was read

revVars == <<version, revision, wakeAge, owed, doing, made, told, client, since, view,
             prepared, preparing, swap, first, swaps, raced>>

Init ==
    /\ version = 0 /\ revision = 0 /\ told = 0
    /\ wakeAge = Hold /\ owed = FALSE
    /\ doing = [t \in Threads |-> "idle"] /\ made = [t \in Threads |-> 0]
    /\ client = [c \in Clients |-> "out"]
    /\ since = [c \in Clients |-> 0] /\ view = [c \in Clients |-> 0]
    /\ prepared = None /\ preparing = None
    /\ swap = "no" /\ first = 0 /\ swaps = 0 /\ raced = FALSE

Go(t, from, to) == doing[t] = from /\ doing' = [doing EXCEPT ![t] = to]

\* notify_all.
WakeAll == client' = [c \in Clients |-> IF client[c] = "asleep" THEN "back" ELSE client[c]]

-----------------------------------------------------------------------------
\* The index has changed: a publish, a removal, a sweep.  The engine being replaced
\* still works until it has stopped.
Changes(t) ==
    /\ Go(t, "idle", "changed")
    /\ version < MaxVersion
    /\ t = "worker" => swap \notin {"stopped", "built"}
    /\ version' = version + 1
    /\ made' = [made EXCEPT ![t] = version + 1]
    /\ UNCHANGED <<revision, wakeAge, owed, told, client, since, view, prepared, preparing,
                   swap, first, swaps, raced>>

\* touched and touched_now: the bump, under the waiters' lock.
Bump(t) ==
    /\ Go(t, "changed", "bumped")
    /\ revision' = revision + 1
    /\ told' = IF made[t] > told THEN made[t] ELSE told
    /\ made' = [made EXCEPT ![t] = 0]
    /\ raced' = (raced \/ swap # "no")
    /\ UNCHANGED <<version, wakeAge, owed, client, since, view, prepared, preparing, swap,
                   first, swaps>>

\* announce: the waiters are woken unless some were less than a hold ago; a bump
\* held back is owed.
Announce ==
    \/ /\ wakeAge >= Hold
       /\ Go("worker", "bumped", "notify")
       /\ wakeAge' = 0 /\ owed' = FALSE
    \/ /\ wakeAge < Hold
       /\ Go("worker", "bumped", "idle")
       /\ owed' = TRUE /\ UNCHANGED wakeAge
WorkerAnnounces ==
    /\ Announce
    /\ UNCHANGED <<version, revision, made, told, client, since, view, prepared, preparing,
                   swap, first, swaps, raced>>

\* touched_now skips the hold: wake_at, then wake_owed, then the waiters.
Resets ==
    /\ Go("request", "bumped", "clear")
    /\ wakeAge' = 0
    /\ UNCHANGED <<version, revision, owed, made, told, client, since, view, prepared,
                   preparing, swap, first, swaps, raced>>
Clears ==
    /\ Go("request", "clear", "notify")
    /\ owed' = FALSE
    /\ UNCHANGED <<version, revision, wakeAge, made, told, client, since, view, prepared,
                   preparing, swap, first, swaps, raced>>

Notifies(t) ==
    /\ Go(t, "notify", "idle")
    /\ WakeAll
    /\ UNCHANGED <<version, revision, wakeAge, owed, made, told, since, view, prepared,
                   preparing, swap, first, swaps, raced>>

\* The worker's loop, at wake_due: a held wake-up is paid.
WakeNever == owed /\ wakeAge > Hold
WakeDue == owed /\ wakeAge >= Hold
Pays ==
    /\ WakeDue
    /\ Go("worker", "idle", "notify")
    /\ wakeAge' = 0 /\ owed' = FALSE
    /\ UNCHANGED <<version, revision, made, told, client, since, view, prepared, preparing,
                   swap, first, swaps, raced>>

Tick ==
    /\ wakeAge < Hold
    /\ wakeAge' = wakeAge + 1
    /\ UNCHANGED <<version, revision, owed, doing, made, told, client, since, view, prepared,
                   preparing, swap, first, swaps, raced>>

-----------------------------------------------------------------------------
\* await_change: asleep only while the revision is the one seen, looked at under the
\* waiters' lock; an engine that is stopping answers at once.
Sleeps(c) == revision = since[c] /\ swap \in {"no", "read"}
Awaits(c) ==
    /\ client[c] = "out"
    /\ client' = [client EXCEPT ![c] = IF Sleeps(c) THEN "asleep" ELSE "back"]
    /\ UNCHANGED <<version, revision, wakeAge, owed, doing, made, told, since, view, prepared,
                   preparing, swap, first, swaps, raced>>

\* The call's timeout, which is the same to the client as a wake-up.
TimesOut(c) ==
    /\ client[c] = "asleep"
    /\ client' = [client EXCEPT ![c] = "back"]
    /\ UNCHANGED <<version, revision, wakeAge, owed, doing, made, told, since, view, prepared,
                   preparing, swap, first, swaps, raced>>

\* status: the revision as it is now.  The face searches again when it has moved.
MovedSince(c) == revision > since[c] + 1
Moved(c) == revision # since[c]
Answered(c) ==
    /\ client[c] = "back"
    /\ since' = [since EXCEPT ![c] = revision]
    /\ client' = [client EXCEPT ![c] = IF Moved(c) THEN "stale" ELSE "out"]
    /\ UNCHANGED <<version, revision, wakeAge, owed, doing, made, told, view, prepared,
                   preparing, swap, first, swaps, raced>>

\* search, page_of: from the prepared answer if it is of this very revision, and
\* from the index otherwise.
Sliced == prepared # None /\ prepared.revision = revision
Page(c) == view' = [view EXCEPT ![c] = IF Sliced THEN prepared.version ELSE version]
Searches(c) ==
    /\ client[c] = "stale"
    /\ Page(c)
    /\ client' = [client EXCEPT ![c] = "out"]
    /\ UNCHANGED <<version, revision, wakeAge, owed, doing, made, told, since, prepared,
                   preparing, swap, first, swaps, raced>>

-----------------------------------------------------------------------------
\* prepare_loop: the revision is read, the index searched, and the result kept if
\* the revision is still the one read.
Prepares ==
    /\ preparing = None
    /\ swap = "no"
    /\ preparing' = [revision |-> revision, version |-> None]
    /\ UNCHANGED <<version, revision, wakeAge, owed, doing, made, told, client, since, view,
                   prepared, swap, first, swaps, raced>>
PrepareSearches ==
    /\ preparing # None /\ preparing.version = None
    /\ preparing' = [preparing EXCEPT !.version = version]
    /\ UNCHANGED <<version, revision, wakeAge, owed, doing, made, told, client, since, view,
                   prepared, swap, first, swaps, raced>>
KeptRestamped == [preparing EXCEPT !.revision = revision]
Kept == IF preparing.revision = revision THEN preparing ELSE prepared
PrepareEnds ==
    /\ preparing # None /\ preparing.version # None
    /\ prepared' = Kept
    /\ preparing' = None
    /\ UNCHANGED <<version, revision, wakeAge, owed, doing, made, told, client, since, view,
                   swap, first, swaps, raced>>

-----------------------------------------------------------------------------
\* swap: the revision the new engine starts with is read before the old engine
\* stops; the stop wakes everyone and waits for the worker and the preparer.
SwapReads ==
    /\ swap = "no" /\ swaps < MaxSwaps
    /\ first' = revision + 1
    /\ swap' = "read"
    /\ UNCHANGED <<version, revision, wakeAge, owed, doing, made, told, client, since, view,
                   prepared, preparing, swaps, raced>>
SwapStops ==
    /\ swap = "read"
    /\ swap' = "stopped"
    /\ WakeAll
    /\ UNCHANGED <<version, revision, wakeAge, owed, doing, made, told, since, view, prepared,
                   preparing, first, swaps, raced>>

\* The new engine drops the rows of the sources that are gone, and is put in place.
\* Whoever is still inside the old one, a request that changes the index or a client
\* on its way out of await_change, ends there: its bump or its answer is the old one's.
SwapBuilds ==
    /\ swap = "stopped"
    /\ doing["worker"] = "idle"
    /\ preparing = None
    /\ version < MaxVersion
    /\ version' = version + 1
    /\ swap' = "built"
    /\ UNCHANGED <<revision, wakeAge, owed, doing, made, told, client, since, view, prepared,
                   preparing, first, swaps, raced>>
SwapEnds ==
    /\ swap = "built"
    /\ doing' = [doing EXCEPT !["request"] = "idle"]
    /\ since' = [c \in Clients |-> IF client[c] = "back" THEN revision ELSE since[c]]
    /\ client' = [c \in Clients |->
                    IF client[c] # "back" THEN client[c]
                    ELSE IF revision = since[c] THEN "out" ELSE "stale"]
    /\ revision' = first
    /\ told' = version
    /\ wakeAge' = Hold /\ owed' = FALSE
    /\ prepared' = None
    /\ swap' = "no" /\ swaps' = swaps + 1 /\ first' = 0
    /\ raced' = (raced \/ made["request"] # 0)
    /\ made' = [made EXCEPT !["request"] = 0]
    /\ UNCHANGED <<version, view, preparing>>

-----------------------------------------------------------------------------
ThreadStep ==
    \/ \E t \in Threads : Bump(t) \/ Notifies(t)
    \/ WorkerAnnounces \/ Resets \/ Clears \/ Pays
ClientStep(c) == Awaits(c) \/ Answered(c) \/ Searches(c)
PrepareStep == PrepareSearches \/ PrepareEnds
SwapStep == SwapStops \/ SwapBuilds \/ SwapEnds

Next ==
    \/ \E t \in Threads : Changes(t)
    \/ ThreadStep \/ Tick
    \/ \E c \in Clients : ClientStep(c) \/ TimesOut(c)
    \/ Prepares \/ PrepareStep
    \/ SwapReads \/ SwapStep

Spec == Init /\ [][Next]_revVars

-----------------------------------------------------------------------------
\* A client that waits shows everything announced so far: nothing it was told of is
\* missing from its list, the prepared answer it may have come from included.
SleeperIsCurrent ==
    \A c \in Clients : client[c] = "asleep" /\ since[c] = revision => view[c] >= told
CurrentUnlessRaced == raced \/ SleeperIsCurrent

\* A page served from the prepared answer is never older than the last announcement.
PreparedFresh == Sliced => prepared.version >= told

\* Once the index stops changing, every client comes to show what it holds.
Current == <>[](raced \/ \A c \in Clients : view[c] = version)
=============================================================================
