---------------------------- MODULE NativeIndex ----------------------------
(***************************************************************************)
(* The native index (crates/scour-index-native/src/index.rs): a list of    *)
(* immutable segments with a live bitmap each, a staging buffer, removals  *)
(* pending as hidden prefixes, segments being built on other threads, and  *)
(* a manifest on disk that names the segments a restart will open.         *)
(*                                                                         *)
(* A call on the index is a PROGRAM: the sequence of steps still to run,   *)
(* kept in th[t].prog.  Steps between two releases of the write lock are   *)
(* separate actions of the thread that holds `lock', so a crash may fall   *)
(* between any two of them, and the steps the code runs with no lock held  *)
(* interleave with the locked steps of every other thread.  A step with an *)
(* error path either succeeds or, while `faults' last, takes that path.    *)
(***************************************************************************)
EXTENDS PathTree, Integers, Sequences, FiniteSets

CONSTANTS
    Sources,            \* the SourceIds rows carry
    Metas,              \* what an entry looks like, whatever it records
    Entries,            \* the entries this instance upserts
    Removed,            \* the paths it removes
    Scopes,             \* the sets of roots a walk vouches for
    Spares,             \* the sets of subtrees a walk could not enter
    Threads,            \* callers of the index
    Worker,             \* the engine's worker thread, the one that walks
    NoThread,
    Absent,             \* no entry at a key
    Ops,                \* Ops[t]: the calls thread t makes
    FaultKinds,         \* the steps that may fail
    MaxStaged,          \* MAX_STAGED
    PublishMaxStaged,   \* PUBLISH_MAX_STAGED
    UnwrittenMaxRows,   \* UNWRITTEN_MAX_ROWS
    MaxBuilding,        \* MAX_BUILDING
    MaxSegment,         \* bound: no call begins past this segment number
    MaxGeneration,      \* bound: no walk begins past this generation
    MaxFaults,          \* bound: failures in one behaviour
    MaxCrashes          \* bound: crashes in one behaviour

Entry == [source : Sources, path : Paths, meta : Metas]
Keys  == Sources \X Paths

ASSUME NativeIndexAssumption ==
    /\ Entries \subseteq Entry
    /\ Removed \subseteq Paths
    /\ \A s \in Scopes \cup Spares : s \subseteq Paths
    /\ Worker \in Threads /\ NoThread \notin Threads
    /\ Absent \notin Metas
    /\ {MaxStaged, MaxBuilding} \subseteq Nat \ {0}
    /\ {PublishMaxStaged, UnwrittenMaxRows, MaxSegment, MaxGeneration,
        MaxFaults, MaxCrashes} \subseteq Nat

VARIABLES
    \* struct Inner, behind the read-write lock
    segments,       \* number -> [generation, rows, alive]
    meta_dirty,     \* the manifest is older than the list
    dirty_alive,    \* segments whose bitmap is newer than its file
    pending_erase,  \* files to erase once the manifest stops naming them
    staged,         \* upserts in no segment yet
    stale,          \* staged keys that staged_at no longer finds
    seen,           \* <<number, row>>: rows a walk found unchanged
    sources,        \* every source a row was handed in for
    hidden,         \* hidden_prefixes
    generation,
    open,           \* the generation handed out and not reconciled, 0 if none
    next_segment,
    unwritten,      \* segments that exist only in memory
    lock,           \* who holds the write lock
    \* struct Building, behind its own mutex
    flights,        \* number -> [rows, generation, doomed, gone, landed]
    landed,         \* finished builds, in the order they finished
    persisting,     \* who holds the `persisting' mutex
    \* the index directory
    files,          \* number -> [complete, rows, alive]
    manifest,       \* [generation, next_segment, segments]
    \* the callers
    th,             \* what each thread is in the middle of
    walk,           \* the generation of the walk under way, 0 if none
    trust,          \* no batch of that walk was refused, so it may sweep
    faults, crashes,
    \* what the changes applied so far ask of the index
    want,           \* key -> the meta last upserted, or Absent
    revoked,        \* keys under a removed directory upserted again meanwhile
    walked          \* keys the walk under way has upserted

lists   == <<segments, pending_erase, unwritten, seen>>
buffers == <<staged, stale, sources, hidden>>
stamps  == <<generation, open>>
air     == <<flights, landed>>
disk    == <<files, manifest>>
ghosts  == <<want, revoked, walked>>
walking == <<walk, trust>>
vars    == <<lists, buffers, stamps, air, disk, ghosts, walking, meta_dirty,
             dirty_alive, next_segment, lock, persisting, th, faults, crashes>>

-----------------------------------------------------------------------------
\* Rows.  Entries are keyed by source and path; a segment is built once and
\* only its live bits change, so a row is the entry it holds.
Key(e)     == <<e.source, e.path>>
KeysOf(S)  == {Key(e) : e \in S}
MaxOf(S)   == CHOOSE n \in S : \A m \in S : m <= n
MinOf(S)   == CHOOSE n \in S : \A m \in S : n <= m
Without(f, S)   == [n \in DOMAIN f \ S |-> f[n]]
With(f, n, v)   == [m \in DOMAIN f \cup {n} |-> IF m = n THEN v ELSE f[m]]
Written         == DOMAIN segments \ unwritten
EmptyPending    == [staged |-> {}, number |-> 0, generation |-> 0,
                    alive |-> <<>>, prefixes |-> {}, restore |-> FALSE]
NoSnapshot      == [number |-> 0, generation |-> 0, rows |-> {}, alive |-> <<>>]
Idle == [op |-> "none", prog |-> <<>>, pend |-> EmptyPending, todo |-> <<>>, added |-> FALSE,
         failed |-> FALSE, queue |-> {}, groups |-> {}, group |-> {},
         durable |-> FALSE, folded |-> TRUE, snap |-> NoSnapshot,
         source |-> 0, under |-> {}, spare |-> {}]

\* What a search finds: live rows no pending removal covers.
Visible == UNION {{r \in segments[n].alive : ~Covers(hidden, r.path)} :
                     n \in DOMAIN segments}

\* What the next open_or_create will hold.
Named     == DOMAIN manifest.segments
Recovered == UNION {files[n].alive : n \in Named \cap DOMAIN files}

-----------------------------------------------------------------------------
\* Programs: the steps of each call.
Settle   == <<"settle", "collect", "unlock">>
Publish  == Settle \o <<"collect", "publish">>
Flush    == Settle \o <<"collect", "flush", "unlock">>
Persist  == <<"persist", "groups", "writeDirty", "saveIfDirty", "release">>
Commit   == Settle \o <<"collect", "commit">> \o Persist
Fold     == <<"foldCheck", "foldRead", "foldWrite", "foldSwap">>

Running(t, l) == th[t].prog # <<>> /\ Head(th[t].prog) = l
Resting(t)    == th[t].prog = <<>>
Rest(t)       == Tail(th[t].prog)
Drop(s, k)    == SubSeq(s, k + 1, Len(s))
Free(t)       == lock \in {NoThread, t}
If(b, s)      == IF b THEN s ELSE <<>>

\* Thread t goes on with program p.
Goto(t, p)    == th' = [th EXCEPT ![t].prog = p]

\* The step done, r is at the next one, or at rest after the last.
Onward(r) == IF Len(r.prog) = 1 THEN Idle ELSE [r EXCEPT !.prog = Tail(@)]

May(kind) == kind \in FaultKinds /\ faults > 0 /\ faults' = faults - 1
Sound     == faults' = faults

-----------------------------------------------------------------------------
\* restore: what a failed call was carrying is put back, its rows behind
\* whatever was staged meanwhile.
RestoredNothing(p) == staged
RestoredStaged(p) == staged \cup {e \in p.staged : Key(e) \notin KeysOf(staged)}
RestoredHidden(p) == Extend(p.prefixes, hidden) \ {e.path : e \in staged}
RestoredClean(p)  == {}
RestoredDirty(p)  == DOMAIN p.alive \cap DOMAIN segments

\* Return an error from thread t: what a flush carried is restored, the bitmaps
\* still owed are stamped again, and the thread's locks go.
Fail(t) ==
    LET p == th[t].pend
    IN  /\ Free(t)
        /\ staged' = RestoredStaged(p)
        /\ stale' = IF p.staged = {} THEN stale ELSE {}
        /\ hidden' = IF p.restore THEN RestoredHidden(p) ELSE hidden
        /\ dirty_alive' = dirty_alive \cup RestoredDirty(p)
        /\ lock' = NoThread
        /\ persisting' = IF persisting = t THEN NoThread ELSE persisting
        /\ th' = [th EXCEPT ![t] = Idle]
        /\ trust' = (trust /\ th[t].op \notin {"upsert", "sweep"})
        /\ UNCHANGED <<sources, walk>>

\* The calls thread t may make now.  A walk occupies the worker: until it ends,
\* the worker's only calls are the walk's own.
WalkOps  == {"upsert", "publish", "sweep", "abandon"}
Calls(t) == IF t = Worker /\ walk # 0 THEN Ops[t] \cap WalkOps
                                      ELSE Ops[t] \ {"sweep", "abandon"}

Begin(t, op, p) ==
    /\ op \in Calls(t)
    /\ Resting(t)
    /\ next_segment <= MaxSegment
    /\ th' = [th EXCEPT ![t] = [Idle EXCEPT !.op = op, !.prog = p]]
    /\ UNCHANGED <<lists, buffers, stamps, air, disk, ghosts, walking, meta_dirty,
                   dirty_alive, next_segment, lock, persisting, faults, crashes>>

-----------------------------------------------------------------------------
\* Index::apply, one change to a holding of the lock.

\* Where a staged path sits is remembered in staged_at; one it has lost is
\* staged a second time.
Stage(e) ==
    IF Key(e) \in stale
      THEN staged \cup {e}
      ELSE {s \in staged : Key(s) # Key(e)} \cup {e}

Upsert(t, e) ==
    /\ "upsert" \in Calls(t)
    /\ Resting(t) /\ lock = NoThread
    /\ next_segment <= MaxSegment
    /\ sources' = sources \cup {e.source}
    /\ hidden' = Forget(hidden, e.path)
    /\ staged' = Stage(e)
    /\ stale' = stale \ {Key(e)}
    /\ IF Cardinality(staged') >= MaxStaged
         THEN /\ lock' = t
              /\ th' = [th EXCEPT ![t] =
                          [Idle EXCEPT !.op = "upsert",
                                       !.prog = <<"collect", "overflow", "unlock">>]]
         ELSE UNCHANGED <<lock, th>>
    /\ want' = IF Covers(hidden', e.path) THEN want
                                          ELSE [want EXCEPT ![Key(e)] = e.meta]
    /\ revoked' =
          (IF e.path \in hidden
             THEN revoked \cup {k \in Keys : /\ Under(k[2], e.path)
                                             /\ want[k] = Absent
                                             /\ ~Covers(hidden', k[2])}
             ELSE revoked) \ {Key(e)}
    /\ walked' = IF t = Worker /\ walk # 0 THEN walked \cup {Key(e)} ELSE walked
    /\ UNCHANGED <<lists, stamps, air, disk, walking, meta_dirty, dirty_alive,
                   next_segment, persisting, faults, crashes>>

RemoveSubtree(t, p) ==
    /\ "remove" \in Calls(t)
    /\ Resting(t) /\ lock = NoThread
    /\ hidden' = Extend(hidden, {p})
    /\ want' = [k \in Keys |-> IF Under(k[2], p) THEN Absent ELSE want[k]]
    /\ revoked' = {k \in revoked : ~Under(k[2], p)}
    /\ UNCHANGED <<lists, staged, stale, sources, stamps, air, disk, walked, walking,
                   meta_dirty, dirty_alive, next_segment, lock, persisting, th,
                   faults, crashes>>

-----------------------------------------------------------------------------
\* settle and collect: finished builds get their place in the list.

\* settle waits until every flight has landed.
AllCollected == DOMAIN flights = {}
AllLanded    == Len(landed) >= Cardinality(DOMAIN flights)

SettleStep(t) ==
    /\ Running(t, "settle")
    /\ lock = NoThread
    /\ AllLanded
    /\ lock' = t
    /\ Goto(t, Rest(t))
    /\ UNCHANGED <<lists, buffers, stamps, air, disk, ghosts, walking, meta_dirty,
                   dirty_alive, next_segment, persisting, faults, crashes>>

CollectStep(t) ==
    /\ Running(t, "collect")
    /\ Free(t)
    /\ lock' = t
    /\ landed' = <<>>
    /\ th' = [th EXCEPT ![t].prog = If(landed # <<>>, <<"land">>) \o Rest(t),
                        ![t].todo = landed,
                        ![t].added = FALSE, ![t].failed = FALSE]
    /\ UNCHANGED <<lists, buffers, stamps, flights, disk, ghosts, walking, meta_dirty,
                   dirty_alive, next_segment, persisting, faults, crashes>>

LandingReplaced(f) == {r \in f.rows : ~Covers(f.gone, r.path)}

\* What is left of a flight's rows once the removals that overtook it are made.
Landing(f) == {r \in f.rows : Key(r) \notin f.doomed /\ ~Covers(f.gone, r.path)}
Overtaken(f) == f.doomed # {} \/ f.gone # {}

\* The thread goes on to the next landed build, or to what collect does last.
Landed(t, added, failed) ==
    LET more == Len(th[t].todo) > 1
    IN  [prog   |-> IF more THEN th[t].prog
                            ELSE If(added, <<"save">>) \o If(failed, <<"error">>)
                                   \o Rest(t),
         added  |-> added /\ more,
         failed |-> failed /\ more]

LandBuilt(t) ==
    LET n == Head(th[t].todo).number
        f == flights[n]
        next == Landed(t, TRUE, th[t].failed)
    IN  /\ Running(t, "land") /\ th[t].todo # <<>>
        /\ Head(th[t].todo).built
        /\ files' = IF Overtaken(f) THEN [files EXCEPT ![n].alive = Landing(f)] ELSE files
        /\ segments' = With(segments, n, [generation |-> f.generation,
                                          rows |-> f.rows, alive |-> Landing(f)])
        /\ flights' = Without(flights, {n})
        /\ next_segment' = MaxOf({next_segment, n + 1})
        /\ meta_dirty' = TRUE
        /\ th' = [th EXCEPT ![t].prog = next.prog, ![t].added = next.added,
                            ![t].failed = next.failed, ![t].todo = Tail(@)]
        /\ Sound
        /\ UNCHANGED <<pending_erase, unwritten, seen, buffers, stamps, landed,
                       manifest, ghosts, walking, dirty_alive, lock, persisting, crashes>>

\* The bitmap could not be written: this build and the rest stay landed.
LandBuiltFails(t) ==
    /\ Running(t, "land") /\ th[t].todo # <<>>
    /\ Head(th[t].todo).built
    /\ Overtaken(flights[Head(th[t].todo).number])
    /\ May("alive")
    /\ landed' = landed \o th[t].todo
    /\ Fail(t)
    /\ UNCHANGED <<lists, stamps, flights, disk, ghosts, meta_dirty, next_segment,
                   crashes>>

LandFailed(t) ==
    LET n == Head(th[t].todo).number
        p == [EmptyPending EXCEPT !.staged = flights[n].rows]
        next == Landed(t, th[t].added, TRUE)
    IN  /\ Running(t, "land") /\ th[t].todo # <<>>
        /\ ~Head(th[t].todo).built
        /\ flights' = Without(flights, {n})
        /\ staged' = RestoredStaged(p)
        /\ hidden' = RestoredHidden(p)
        /\ stale' = {}
        /\ th' = [th EXCEPT ![t].prog = next.prog, ![t].added = next.added,
                            ![t].failed = next.failed, ![t].todo = Tail(@)]
        /\ Sound
        /\ UNCHANGED <<lists, sources, stamps, landed, disk, ghosts, walking, meta_dirty,
                       dirty_alive, next_segment, lock, persisting, crashes>>

\* collect found a failed build and says so.
CollectError(t) ==
    /\ Running(t, "error")
    /\ Fail(t)
    /\ UNCHANGED <<lists, stamps, air, disk, ghosts, meta_dirty, next_segment,
                   faults, crashes>>

Unlock(t) ==
    /\ Running(t, "unlock")
    /\ lock' = IF lock = t THEN NoThread ELSE lock
    /\ th' = [th EXCEPT ![t] = Onward(@)]
    /\ UNCHANGED <<lists, buffers, stamps, air, disk, ghosts, walking, meta_dirty,
                   dirty_alive, next_segment, persisting, faults, crashes>>

-----------------------------------------------------------------------------
\* save_meta: the manifest names what is written, and only then do the files
\* it no longer names go.
ManifestOfAll == [generation |-> generation, next_segment |-> next_segment,
                  segments |-> [n \in DOMAIN segments |-> segments[n].generation]]
ManifestOf == [generation |-> generation, next_segment |-> next_segment,
               segments |-> [n \in Written |-> segments[n].generation]]

\* A flush with nothing more to write has nothing more to hand back.
Spent(p) == IF p.staged = {} /\ p.alive = <<>> THEN EmptyPending ELSE p

Save(t) ==
    /\ \/ Running(t, "save")
       \/ Running(t, "saveIfDirty") /\ meta_dirty
    /\ manifest' = ManifestOf
    /\ meta_dirty' = FALSE
    /\ th' = [th EXCEPT ![t].prog = If(pending_erase # {}, <<"erase">>) \o Rest(t),
                        ![t].pend = Spent(@)]
    /\ Sound
    /\ UNCHANGED <<lists, buffers, stamps, air, files, ghosts, walking, dirty_alive,
                   next_segment, lock, persisting, crashes>>

SaveFails(t) ==
    /\ \/ Running(t, "save")
       \/ Running(t, "saveIfDirty") /\ meta_dirty
    /\ May("meta")
    /\ meta_dirty' = TRUE
    /\ Fail(t)
    /\ UNCHANGED <<lists, stamps, air, disk, ghosts, next_segment, crashes>>

SaveClean(t) ==
    /\ Running(t, "saveIfDirty")
    /\ ~meta_dirty
    /\ th' = [th EXCEPT ![t].prog = Rest(t), ![t].pend = Spent(@)]
    /\ UNCHANGED <<lists, buffers, stamps, air, disk, ghosts, walking, meta_dirty, dirty_alive,
                   next_segment, lock, persisting, faults, crashes>>

Erase(t) ==
    /\ Running(t, "erase")
    /\ files' = Without(files, pending_erase)
    /\ pending_erase' = {}
    /\ Goto(t, Rest(t))
    /\ UNCHANGED <<segments, unwritten, seen, buffers, stamps, air, manifest, ghosts, walking,
                   meta_dirty, dirty_alive, next_segment, lock, persisting, faults,
                   crashes>>

-----------------------------------------------------------------------------
\* flush_prepare: everything of a flush but building and writing the segment.

\* kill_leaves answers a prefix with no row below it in segment n from the
\* identity table, which is keyed on the sources learned so far.
Leaf(n, p) ==
    /\ sources # {} /\ p # Root
    /\ \A r \in segments[n].rows : Under(r.path, p) => r.path = p

\* The rows of segment n that the pending removals take (kill_leaves, kill_under).
HiddenKills(n) ==
    {r \in segments[n].alive :
        \E p \in hidden : IF Leaf(n, p) THEN r.path = p /\ r.source \in sources
                                        ELSE Under(r.path, p)}

\* spare_unchanged: inside a walk, a staged entry that the oldest segment
\* holding its key has exactly so is not written again; the row is marked.
Holding(live, e) == {n \in DOMAIN segments : Key(e) \in KeysOf(live[n])}
Unchanged(live, S) ==
    {e \in S : /\ open # 0
               /\ Holding(live, e) # {}
               /\ e \in live[MinOf(Holding(live, e))]}
Marks(live, S) ==
    {<<MinOf(Holding(live, e)), e>> : e \in Unchanged(live, S)}

\* forget_empty: segments with rows and none alive.
Emptied(live) ==
    {n \in DOMAIN segments : segments[n].rows # {} /\ live[n] = {}}

\* The bitmaps newer than their files, lifted out for one durable write.
DirtyAlive(dirty, live) ==
    [n \in (dirty \cap DOMAIN live) \ unwritten |-> live[n]]

Durable(mode) == mode \in {"commit", "flush", "overflow"}

\* What each caller of flush_prepare does with what it returns.
AfterPrepare(mode, p, save) ==
    LET write == If(p.alive # <<>>, <<"writeAlive">>)
        built == p.staged # {}
    IN  CASE mode = "commit"   -> If(save, <<"save">>) \o <<"unlock">> \o write
                                    \o If(built, <<"writeSeg", "install", "unlock">>)
          [] mode = "flush"    -> If(save, <<"save">>) \o write
                                    \o If(built, <<"writeSeg", "install">>)
          [] mode = "overflow" -> If(save, <<"save">>) \o write
                                    \o If(built, <<"dispatch">>)
          [] mode = "publish"  -> <<"unlock">> \o If(built, <<"push", "unlock">>)
          [] mode = "publishLocked" -> If(built, <<"push">>)

Prepare(t, mode) ==
    LET nothing == staged = {} /\ hidden = {} /\ dirty_alive = {}
        live1   == [n \in DOMAIN segments |-> segments[n].alive \ HiddenKills(n)]
        staged1 == {e \in staged : ~Covers(hidden, e.path)}
        spared  == Unchanged(live1, staged1)
        staged2 == staged1 \ spared
        live2   == [n \in DOMAIN segments |->
                      {r \in live1[n] : Key(r) \notin KeysOf(staged2)}]
        touched == {n \in DOMAIN segments : live2[n] # segments[n].alive}
        takes   == /\ staged2 # {}
                   /\ mode = "overflow" => Cardinality(staged2) >= MaxStaged
        empty   == IF nothing THEN {} ELSE Emptied(live2)
        bits    == Without(DirtyAlive(dirty_alive \cup touched, live2), empty)
        dirty   == \/ meta_dirty
                   \/ takes /\ Durable(mode)
                   \/ empty \ unwritten # {}
        save    == Durable(mode) /\ dirty
        carried == [staged     |-> IF takes THEN staged2 ELSE {},
                    number     |-> IF takes THEN next_segment ELSE 0,
                    generation |-> IF takes THEN generation ELSE 0,
                    alive      |-> IF Durable(mode) THEN bits ELSE <<>>,
                    prefixes   |-> hidden,
                    restore    |-> TRUE]
        pend    == IF save THEN carried ELSE Spent(carried)
    IN  /\ Running(t, mode)
        /\ segments' = [n \in DOMAIN segments \ empty |->
                          [segments[n] EXCEPT !.alive = live2[n]]]
        /\ pending_erase' = pending_erase \cup (empty \ unwritten)
        /\ unwritten' = unwritten \ empty
        /\ seen' = seen \cup Marks(live1, staged1)
        /\ flights' = [n \in DOMAIN flights |->
                         [flights[n] EXCEPT
                            !.gone = Extend(@, hidden),
                            !.doomed = @ \cup (KeysOf(staged2) \cap
                                                 KeysOf(flights[n].rows))]]
        /\ staged' = IF takes THEN {} ELSE staged2
        /\ IF takes \/ spared # {} \/ staged1 = staged
             THEN stale' = IF takes \/ spared # {} THEN {} ELSE stale
             ELSE stale' \in SUBSET KeysOf(staged2)
        /\ hidden' = {}
        /\ next_segment' = IF takes THEN next_segment + 1 ELSE next_segment
        /\ meta_dirty' = dirty
        /\ dirty_alive' = IF Durable(mode) THEN {} ELSE DOMAIN bits
        /\ th' = [th EXCEPT ![t].prog = AfterPrepare(mode, pend, save) \o Rest(t),
                            ![t].pend = pend,
                            ![t].queue = DOMAIN pend.alive]
        /\ UNCHANGED <<sources, stamps, landed, disk, ghosts, walking, lock, persisting,
                       faults, crashes>>

-----------------------------------------------------------------------------
\* The halves of a flush that do input and output.

\* Pending::write_alive, one bitmap after another.  Replacing a bitmap whose
\* segment is gone leaves a file that makes no segment.
WriteAlive(t) ==
    LET n == MinOf(th[t].queue)
        b == th[t].pend.alive[n]
        last == th[t].queue = {n}
    IN  /\ Running(t, "writeAlive")
        /\ files' = IF n \in DOMAIN files
                      THEN [files EXCEPT ![n].alive = b]
                      ELSE With(files, n, [complete |-> FALSE, rows |-> {}, alive |-> b])
        /\ th' = [th EXCEPT
                    ![t].queue = @ \ {n},
                    ![t].prog = IF last THEN Tail(@) ELSE @,
                    ![t].pend = IF last /\ @.staged = {} THEN EmptyPending ELSE @]
        /\ Sound
        /\ UNCHANGED <<lists, buffers, stamps, air, manifest, ghosts, walking, meta_dirty,
                       dirty_alive, next_segment, lock, persisting, crashes>>

WriteAliveFails(t) ==
    /\ Running(t, "writeAlive")
    /\ May("alive")
    /\ Fail(t)
    /\ UNCHANGED <<lists, stamps, air, disk, ghosts, meta_dirty, next_segment, crashes>>

\* Live::write: whatever a crash left under the number goes first, the live
\* bits come last.
Complete(rows, alive) == [complete |-> TRUE, rows |-> rows, alive |-> alive]
Partial == [complete |-> FALSE, rows |-> {}, alive |-> {}]

WriteSeg(t) ==
    LET p == th[t].pend
    IN  /\ Running(t, "writeSeg")
        /\ files' = With(files, p.number, Complete(p.staged, p.staged))
        /\ Goto(t, Rest(t))
        /\ Sound
        /\ UNCHANGED <<lists, buffers, stamps, air, manifest, ghosts, walking, meta_dirty,
                       dirty_alive, next_segment, lock, persisting, crashes>>

WriteSegFails(t) ==
    /\ Running(t, "writeSeg")
    /\ May("write")
    /\ files' = With(files, th[t].pend.number, Partial)
    /\ Fail(t)
    /\ UNCHANGED <<lists, stamps, air, manifest, ghosts, meta_dirty, next_segment,
                   crashes>>

\* The new segment joins the list, and the manifest is written.
Built(p) == [generation |-> p.generation, rows |-> p.staged, alive |-> p.staged]

Install(t) ==
    LET p == th[t].pend
    IN  /\ Running(t, "install")
        /\ Free(t)
        /\ lock' = t
        /\ segments' = With(segments, p.number, Built(p))
        /\ next_segment' = MaxOf({next_segment, p.number + 1})
        /\ meta_dirty' = TRUE
        /\ th' = [th EXCEPT ![t].prog = <<"save">> \o Tail(@),
                            ![t].pend = EmptyPending]
        /\ UNCHANGED <<pending_erase, unwritten, seen, buffers, stamps, air, disk,
                       ghosts, walking, dirty_alive, persisting, faults, crashes>>

\* publish: the segment is built in memory and joins the list unwritten.
Push(t) ==
    LET p == th[t].pend
    IN  /\ Running(t, "push")
        /\ Free(t)
        /\ lock' = t
        /\ segments' = With(segments, p.number, Built(p))
        /\ unwritten' = unwritten \cup {p.number}
        /\ next_segment' = MaxOf({next_segment, p.number + 1})
        /\ th' = [th EXCEPT ![t].prog = Tail(@), ![t].pend = EmptyPending]
        /\ Sound
        /\ UNCHANGED <<pending_erase, seen, buffers, stamps, air, disk, ghosts, walking,
                       meta_dirty, dirty_alive, persisting, crashes>>

PushFails(t) ==
    /\ Running(t, "push")
    /\ May("assemble")
    /\ Fail(t)
    /\ UNCHANGED <<lists, stamps, air, disk, ghosts, meta_dirty, next_segment, crashes>>

\* A buffer that overflowed is built on another thread, if one is free.
Dispatch(t) ==
    LET p == th[t].pend
        full == Cardinality(DOMAIN flights) >= MaxBuilding
    IN  /\ Running(t, "dispatch")
        /\ flights' = IF full THEN flights
                      ELSE With(flights, p.number,
                                [rows |-> p.staged, generation |-> p.generation,
                                 doomed |-> {}, gone |-> {}, landed |-> FALSE])
        /\ th' = [th EXCEPT ![t].prog = If(full, <<"writeSeg", "install">>) \o Tail(@),
                            ![t].pend = IF full THEN @ ELSE EmptyPending]
        /\ Sound
        /\ UNCHANGED <<lists, buffers, stamps, landed, disk, ghosts, walking, meta_dirty,
                       dirty_alive, next_segment, lock, persisting, crashes>>

\* No thread to be had: the flight is withdrawn and the error returned.
DispatchFails(t) ==
    /\ Running(t, "dispatch")
    /\ Cardinality(DOMAIN flights) < MaxBuilding
    /\ May("spawn")
    /\ lock' = NoThread
    /\ th' = [th EXCEPT ![t] = Idle]
    /\ trust' = FALSE
    /\ UNCHANGED <<lists, buffers, stamps, air, disk, ghosts, walk, meta_dirty,
                   dirty_alive, next_segment, persisting, crashes>>

\* A builder thread ends.  It never takes the index lock.
Build(n) ==
    /\ ~flights[n].landed
    /\ files' = With(files, n, Complete(flights[n].rows, flights[n].rows))
    /\ flights' = [flights EXCEPT ![n].landed = TRUE]
    /\ landed' = Append(landed, [number |-> n, built |-> TRUE])
    /\ Sound
    /\ UNCHANGED <<lists, buffers, stamps, manifest, ghosts, walking, meta_dirty, dirty_alive,
                   next_segment, lock, persisting, th, crashes>>

BuildFails(n) ==
    /\ ~flights[n].landed
    /\ May("build")
    /\ files' = With(files, n, Partial)
    /\ flights' = [flights EXCEPT ![n].landed = TRUE]
    /\ landed' = Append(landed, [number |-> n, built |-> FALSE])
    /\ UNCHANGED <<lists, buffers, stamps, manifest, ghosts, walking, meta_dirty, dirty_alive,
                   next_segment, lock, persisting, th, crashes>>

-----------------------------------------------------------------------------
\* Walks: begin_generation, sweep, abandon_generation; and forget.

\* Whatever was open is closed before the flush, so that the flush marks no row.
OpenNone(t) ==
    /\ Running(t, "openNone")
    /\ lock = NoThread
    /\ lock' = t
    /\ open' = 0
    /\ seen' = {}
    /\ Goto(t, Rest(t))
    /\ UNCHANGED <<segments, pending_erase, unwritten, buffers, generation, air, disk,
                   ghosts, walking, meta_dirty, dirty_alive, next_segment, persisting, faults,
                   crashes>>

OpenNext(t) ==
    /\ Running(t, "openNext")
    /\ generation' = generation + 1
    /\ open' = generation + 1
    /\ walk' = generation + 1
    /\ trust' = TRUE
    /\ walked' = {}
    /\ meta_dirty' = TRUE
    /\ Goto(t, Rest(t))
    /\ UNCHANGED <<lists, buffers, air, disk, want, revoked, dirty_alive, next_segment,
                   lock, persisting, faults, crashes>>

\* close_generation
CloseGeneration(g) ==
    /\ open' = IF open = g THEN 0 ELSE open
    /\ generation' = IF open = g THEN generation + 1 ELSE generation
    /\ meta_dirty' = (meta_dirty \/ open = g)

\* What a walk that saw nothing at p says of it: an empty list of roots stands for
\* the whole source, and a subtree it could not enter for nothing.
Vouched(p, under, spare) ==
    /\ under # {} => \E q \in under : Under(p, q)
    /\ \A q \in spare : ~Under(p, q)

InScopeListed(under, p) == Covers(under, p)
InScope(under, p) == under = {} \/ Covers(under, p)

\* The rows of a segment older than the walk that the walk did not see.
SweepUnmarked(n, source, under, spare) ==
    {r \in segments[n].alive :
        /\ segments[n].generation < walk
        /\ InScope(under, r.path)
        /\ r.source = source
        /\ ~Covers(spare, r.path)}
SweepLate(n, source, under, spare) ==
    {r \in segments[n].alive :
        /\ segments[n].generation + 1 < walk
        /\ <<n, r>> \notin seen
        /\ InScope(under, r.path)
        /\ r.source = source
        /\ ~Covers(spare, r.path)}
SweepBlind(n, source, under, spare) ==
    {r \in segments[n].alive :
        /\ segments[n].generation < walk
        /\ <<n, r>> \notin seen
        /\ InScope(under, r.path)
        /\ r.source = source}
SweepVictims(n, source, under, spare) ==
    {r \in segments[n].alive :
        /\ segments[n].generation < walk
        /\ <<n, r>> \notin seen
        /\ InScope(under, r.path)
        /\ r.source = source
        /\ ~Covers(spare, r.path)}

Sweep(t) ==
    LET s     == th[t].source
        live  == [n \in DOMAIN segments |-> segments[n].alive \
                     SweepVictims(n, s, th[t].under, th[t].spare)]
        dirty == {n \in DOMAIN segments : live[n] # segments[n].alive}
        empty == Emptied(live)
        gone  == {k \in Keys \ walked : k[1] = s /\ Vouched(k[2], th[t].under, th[t].spare)}
    IN  /\ Running(t, "sweep")
        /\ open' = IF open = walk THEN 0 ELSE open
        /\ generation' = IF open = walk THEN generation + 1 ELSE generation
        /\ meta_dirty' = (meta_dirty \/ open = walk \/ empty \ unwritten # {})
        /\ seen' = {}
        /\ segments' = [n \in DOMAIN segments \ empty |->
                          [segments[n] EXCEPT !.alive = live[n]]]
        /\ pending_erase' = pending_erase \cup (empty \ unwritten)
        /\ unwritten' = unwritten \ empty
        /\ dirty_alive' = dirty_alive \cup dirty
        /\ walk' = 0
        /\ walked' = {}
        /\ UNCHANGED trust
        /\ want' = [k \in Keys |-> IF k \in gone THEN Absent ELSE want[k]]
        /\ revoked' = revoked \ gone
        /\ Goto(t, Rest(t))
        /\ UNCHANGED <<buffers, air, disk, next_segment, lock, persisting, faults,
                       crashes>>

BeginGeneration(t) ==
    /\ t = Worker /\ walk = 0 /\ generation < MaxGeneration
    /\ Begin(t, "begin",
             Settle \o <<"openNone", "collect", "publishLocked", "openNext", "unlock">>)

\* A walk that could look ends in one sweep over every root it vouched for.
BeginSweep(t, source, under, spare) ==
    /\ "sweep" \in Calls(t) /\ Resting(t) /\ trust
    /\ next_segment <= MaxSegment
    /\ th' = [th EXCEPT ![t] =
                [Idle EXCEPT !.op = "sweep",
                             !.prog = Settle \o Publish \o
                                        <<"collect", "publishLocked", "sweep", "unlock">>,
                             !.source = source, !.under = under, !.spare = spare]]
    /\ UNCHANGED <<lists, buffers, stamps, air, disk, ghosts, walking, meta_dirty, dirty_alive,
                   next_segment, lock, persisting, faults, crashes>>

\* A walk that could not look ends without one.
AbandonGeneration(t) ==
    /\ "abandon" \in Calls(t) /\ Resting(t)
    /\ lock = NoThread
    /\ CloseGeneration(walk)
    /\ seen' = {}
    /\ walk' = 0
    /\ walked' = {}
    /\ UNCHANGED trust
    /\ UNCHANGED <<segments, pending_erase, unwritten, buffers, air, disk, want,
                   revoked, dirty_alive, next_segment, lock, persisting, th, faults,
                   crashes>>

\* forget: every row of a source that is no longer configured.
ForgetKill(t) ==
    LET s    == th[t].source
        live == [n \in DOMAIN segments |-> {r \in segments[n].alive : r.source # s}]
        dirty == {n \in DOMAIN segments : live[n] # segments[n].alive}
    IN  /\ Running(t, "forget")
        /\ segments' = [n \in DOMAIN segments |-> [segments[n] EXCEPT !.alive = live[n]]]
        /\ dirty_alive' = dirty_alive \cup dirty
        /\ want' = [k \in Keys |-> IF k[1] = s THEN Absent ELSE want[k]]
        /\ revoked' = {k \in revoked : k[1] # s}
        /\ Goto(t, If(dirty # {}, <<"writeDirty", "forgetEmpty", "save">>) \o Rest(t))
        /\ UNCHANGED <<pending_erase, unwritten, seen, buffers, stamps, air, disk,
                       walked, walking, meta_dirty, next_segment, lock, persisting, faults,
                       crashes>>

ForgetEmpty(t) ==
    LET empty == Emptied([n \in DOMAIN segments |-> segments[n].alive])
    IN  /\ Running(t, "forgetEmpty")
        /\ segments' = Without(segments, empty)
        /\ pending_erase' = pending_erase \cup (empty \ unwritten)
        /\ unwritten' = unwritten \ empty
        /\ meta_dirty' = (meta_dirty \/ empty \ unwritten # {})
        /\ Goto(t, Rest(t))
        /\ UNCHANGED <<seen, buffers, stamps, air, disk, ghosts, walking, dirty_alive,
                       next_segment, lock, persisting, faults, crashes>>

BeginForget(t, source) ==
    /\ "forget" \in Calls(t) /\ Resting(t)
    /\ next_segment <= MaxSegment
    /\ th' = [th EXCEPT ![t] =
                [Idle EXCEPT !.op = "forget",
                             !.prog = Settle \o <<"collect", "flush", "forget", "unlock">>,
                             !.source = source]]
    /\ UNCHANGED <<lists, buffers, stamps, air, disk, ghosts, walking, meta_dirty, dirty_alive,
                   next_segment, lock, persisting, faults, crashes>>

-----------------------------------------------------------------------------
\* Groups of segments a fold may take together: all of them outside a walk,
\* one generation apiece inside one.
Groups ==
    IF open = 0
      THEN {DOMAIN segments}
      ELSE {{m \in DOMAIN segments : segments[m].generation = segments[n].generation} :
               n \in DOMAIN segments}
UnwrittenGroups == {g \cap unwritten : g \in Groups} \ {{}}
WrittenGroups   == {g \ unwritten : g \in Groups} \ {{}}

\* persist_unwritten, one caller at a time.
PersistStep(t) ==
    /\ Running(t, "persist")
    /\ persisting = NoThread /\ lock = NoThread
    /\ persisting' = t
    /\ th' = [th EXCEPT ![t].prog = Tail(@), ![t].groups = UnwrittenGroups,
                        ![t].durable = TRUE]
    /\ UNCHANGED <<lists, buffers, stamps, air, disk, ghosts, walking, meta_dirty,
                   dirty_alive, next_segment, lock, faults, crashes>>

\* A group of several is folded into one file; a group of one is written as it is.
PersistGroup(t) ==
    /\ Running(t, "groups")
    /\ IF th[t].groups = {}
         THEN Goto(t, Rest(t))
         ELSE \E g \in th[t].groups :
                th' = [th EXCEPT
                         ![t].prog = If(Cardinality(g) > 1, Fold) \o <<"writeEach">> \o @,
                         ![t].groups = @ \ {g}, ![t].group = g, ![t].queue = g,
                         ![t].folded = FALSE]
    /\ UNCHANGED <<lists, buffers, stamps, air, disk, ghosts, walking, meta_dirty,
                   dirty_alive, next_segment, lock, persisting, faults, crashes>>

\* write_unwritten, for each of a group no fold took: what to write is read
\* under the read lock, or found to be nobody's concern any more.
WriteUnwrittenRead(t) ==
    LET todo == IF th[t].folded THEN {} ELSE th[t].queue
        n    == MinOf(todo)
        due  == n \in DOMAIN segments /\ n \in unwritten
    IN  /\ Running(t, "writeEach")
        /\ lock = NoThread
        /\ th' = IF todo = {}
             THEN [th EXCEPT ![t].prog = Tail(@), ![t].queue = {}, ![t].group = {},
                             ![t].folded = TRUE]
             ELSE [th EXCEPT
                     ![t].queue = @ \ {n},
                     ![t].prog = If(due, <<"writeOne", "adoptOne">>) \o @,
                     ![t].snap = IF ~due THEN @ ELSE
                        [number |-> n, generation |-> segments[n].generation,
                         rows |-> segments[n].rows,
                         alive |-> [m \in {n} |-> segments[n].alive]]]
        /\ UNCHANGED <<lists, buffers, stamps, air, disk, ghosts, walking, meta_dirty,
                       dirty_alive, next_segment, lock, persisting, faults, crashes>>

WriteUnwritten(t) ==
    LET s == th[t].snap
    IN  /\ Running(t, "writeOne")
        /\ files' = With(files, s.number, Complete(s.rows, s.alive[s.number]))
        /\ Goto(t, Rest(t))
        /\ Sound
        /\ UNCHANGED <<lists, buffers, stamps, air, manifest, ghosts, walking, meta_dirty,
                       dirty_alive, next_segment, lock, persisting, crashes>>

\* Shared by every durable write of a segment that is already in the list.
WriteFails(t, label, n) ==
    /\ Running(t, label)
    /\ May("write")
    /\ files' = With(files, n, Partial)
    /\ Fail(t)
    /\ UNCHANGED <<lists, stamps, air, manifest, ghosts, meta_dirty, next_segment,
                   crashes>>

\* Rows died while the copy of the segment was being written.
DiedSinceNever(s) == FALSE
DiedSince(s) == segments[s.number].alive # s.alive[s.number]

\* The written copy takes the place of the one in memory, unless that is gone.
AdoptWritten(t) ==
    LET s == th[t].snap
        n == s.number
        here == n \in DOMAIN segments
    IN  /\ Running(t, "adoptOne")
        /\ lock = NoThread
        /\ files' = IF here THEN files ELSE Without(files, {n})
        /\ dirty_alive' = IF here /\ DiedSince(s) THEN dirty_alive \cup {n} ELSE dirty_alive
        /\ unwritten' = unwritten \ {n}
        /\ meta_dirty' = (meta_dirty \/ here)
        /\ th' = [th EXCEPT ![t].prog = Tail(@), ![t].snap = NoSnapshot]
        /\ UNCHANGED <<segments, pending_erase, seen, buffers, stamps, air, manifest,
                       ghosts, walking, next_segment, lock, persisting, faults, crashes>>

\* write_dirty_alive: the stamps are taken and the bitmaps written, lock held.
TakeDirty(t) ==
    LET bits == DirtyAlive(dirty_alive, [n \in DOMAIN segments |-> segments[n].alive])
    IN  /\ Running(t, "writeDirty")
        /\ Free(t)
        /\ lock' = t
        /\ dirty_alive' = {}
        /\ th' = [th EXCEPT ![t].prog = If(bits # <<>>, <<"writeAlive">>) \o Tail(@),
                            ![t].pend = [EmptyPending EXCEPT !.alive = bits],
                            ![t].queue = DOMAIN bits]
        /\ UNCHANGED <<lists, buffers, stamps, air, disk, ghosts, walking, meta_dirty,
                       next_segment, persisting, faults, crashes>>

\* The end of persist_unwritten: both locks go.
Release(t) ==
    /\ Running(t, "release")
    /\ lock' = NoThread
    /\ persisting' = NoThread
    /\ th' = [th EXCEPT ![t] = Onward(@)]
    /\ UNCHANGED <<lists, buffers, stamps, air, disk, ghosts, walking, meta_dirty,
                   dirty_alive, next_segment, faults, crashes>>

-----------------------------------------------------------------------------
\* fold_to: several segments become one while the index goes on being used.

\* Refused while a walk has marked a member: the marks know it by its number.
FoldCheck(t) ==
    LET marked == \E m \in seen : m[1] \in th[t].group
    IN  /\ Running(t, "foldCheck")
        /\ lock = NoThread
        /\ th' = [th EXCEPT ![t].folded = FALSE,
                            ![t].prog = IF marked THEN Drop(@, 4) ELSE Tail(@)]
        /\ UNCHANGED <<lists, buffers, stamps, air, disk, ghosts, walking, meta_dirty,
                       dirty_alive, next_segment, lock, persisting, faults, crashes>>

\* The number a fold will use is taken before anything is built.
UnclaimedNext == next_segment
ClaimedNext   == next_segment + 1

\* A number is claimed, and the live rows read with the stamps they were read at.
FoldRead(t) ==
    LET here == th[t].group \cap DOMAIN segments
        idle == /\ Cardinality(here) < 2
                /\ \A n \in here : segments[n].alive = segments[n].rows
    IN  /\ Running(t, "foldRead")
        /\ lock = NoThread
        /\ next_segment' = ClaimedNext
        /\ meta_dirty' = (meta_dirty \/ th[t].durable)
        /\ th' = [th EXCEPT
                    ![t].prog = IF idle THEN Drop(@, 3) ELSE Tail(@),
                    ![t].snap = IF idle THEN @ ELSE
                       [number |-> next_segment,
                        generation |-> MaxOf({segments[n].generation : n \in here}),
                        rows |-> UNION {segments[n].alive : n \in here},
                        alive |-> [n \in here |-> segments[n].alive]]]
        /\ UNCHANGED <<lists, buffers, stamps, air, disk, ghosts, walking, dirty_alive,
                       lock, persisting, faults, crashes>>

FoldWrite(t) ==
    LET s == th[t].snap
    IN  /\ Running(t, "foldWrite")
        /\ files' = IF th[t].durable /\ s.rows # {}
                      THEN With(files, s.number, Complete(s.rows, s.rows)) ELSE files
        /\ Goto(t, Rest(t))
        /\ Sound
        /\ UNCHANGED <<lists, buffers, stamps, air, manifest, ghosts, walking, meta_dirty,
                       dirty_alive, next_segment, lock, persisting, crashes>>

\* The inputs of a fold are no longer only in memory: they are gone.
UnwrittenKept(g)  == unwritten
UnwrittenAfter(g) == unwritten \ g

\* Every input still there, and no row of it dead since.
FoldPresent(group, s) == DOMAIN s.alive = group /\ group \subseteq DOMAIN segments
FoldCurrent(group, s) ==
    /\ DOMAIN s.alive = group
    /\ \A n \in group : n \in DOMAIN segments /\ segments[n].alive = s.alive[n]

FoldSwap(t) ==
    LET s    == th[t].snap
        g    == th[t].group
        made == IF s.rows = {} THEN {} ELSE {s.number}
        old  == g \ unwritten
    IN  /\ Running(t, "foldSwap")
        /\ lock = NoThread
        /\ FoldCurrent(g, s)
        /\ lock' = t
        /\ segments' = [n \in (DOMAIN segments \ g) \cup made |->
                           IF n \in made THEN [generation |-> s.generation,
                                               rows |-> s.rows, alive |-> s.rows]
                                         ELSE segments[n]]
        /\ unwritten' = UnwrittenAfter(g) \cup (IF th[t].durable THEN {} ELSE made)
        /\ next_segment' = MaxOf({next_segment, s.number + 1})
        /\ meta_dirty' = (meta_dirty \/ th[t].durable \/ old # {})
        /\ pending_erase' = pending_erase \cup old
        /\ th' = [th EXCEPT ![t].prog = <<"saveIfDirty", "unlock">> \o Tail(@),
                            ![t].snap = NoSnapshot, ![t].folded = TRUE]
        /\ UNCHANGED <<seen, buffers, stamps, air, disk, ghosts, walking, dirty_alive,
                       persisting, faults, crashes>>

\* Overtaken by a commit: what was written is erased and the fold refused.
FoldRefused(t) ==
    LET s == th[t].snap
    IN  /\ Running(t, "foldSwap")
        /\ lock = NoThread
        /\ ~FoldCurrent(th[t].group, s)
        /\ files' = IF th[t].durable THEN Without(files, {s.number}) ELSE files
        /\ th' = [th EXCEPT ![t].prog = Tail(@), ![t].snap = NoSnapshot]
        /\ UNCHANGED <<lists, buffers, stamps, air, manifest, ghosts, walking, meta_dirty,
                       dirty_alive, next_segment, lock, persisting, faults, crashes>>

-----------------------------------------------------------------------------
\* maintain.

\* The groups a compaction folds in memory, or a rebuild on disk, fixed before
\* the first fold.
ChooseFolds(t) ==
    LET rebuild == Running(t, "chooseAll")
    IN  /\ Running(t, "chooseMemory") \/ Running(t, "chooseAll")
        /\ lock = NoThread
        /\ th' = [th EXCEPT
                    ![t].prog = Tail(@), ![t].durable = rebuild, ![t].folded = TRUE,
                    ![t].groups =
                      IF rebuild
                        THEN IF open = 0 /\ Cardinality(DOMAIN segments) > 1
                               THEN {DOMAIN segments}
                               ELSE {g \in Groups \ {{}} :
                                       \/ Cardinality(g) > 1
                                       \/ \E n \in g : segments[n].alive # segments[n].rows}
                        ELSE {g \in UnwrittenGroups : Cardinality(g) > 1}]
        /\ UNCHANGED <<lists, buffers, stamps, air, disk, ghosts, walking, meta_dirty,
                       dirty_alive, next_segment, lock, persisting, faults, crashes>>

\* A refusal ends a rebuild; a compaction goes on to the next group.
FoldEach(t) ==
    LET over == th[t].groups = {} \/ (th[t].durable /\ ~th[t].folded)
    IN  /\ Running(t, "foldEach")
        /\ IF over
             THEN th' = [th EXCEPT ![t].prog = Tail(@), ![t].groups = {},
                                   ![t].group = {}, ![t].folded = TRUE]
             ELSE \E g \in th[t].groups :
                    th' = [th EXCEPT ![t].prog = Fold \o @, ![t].groups = @ \ {g},
                                     ![t].group = g]
        /\ UNCHANGED <<lists, buffers, stamps, air, disk, ghosts, walking, meta_dirty,
                       dirty_alive, next_segment, lock, persisting, faults, crashes>>

\* The loop of a compaction goes on only after a fold that was made.
LastFolded(t) == th[t].folded

\* next_head: some members of a group of three or more written segments, or
\* nothing.  Which of them head_of picks is a matter of cost alone, so any.
NextHead(t) ==
    /\ Running(t, "nextHead")
    /\ lock = NoThread
    /\ \/ th' = [th EXCEPT ![t] = Onward(@)]
       \/ /\ LastFolded(t)
          /\ \E g \in {w \in WrittenGroups : Cardinality(w) >= 3} :
               \E h \in SUBSET g \ {{}} :
                  th' = [th EXCEPT ![t].prog = Fold \o @, ![t].group = h,
                                   ![t].durable = TRUE]
    /\ UNCHANGED <<lists, buffers, stamps, air, disk, ghosts, walking, meta_dirty,
                   dirty_alive, next_segment, lock, persisting, faults, crashes>>

\* publish commits a batch too large to keep, and persists what has grown so.
PublishLarge(t) ==
    /\ Cardinality(staged) > PublishMaxStaged
    /\ Begin(t, "publish", Commit)

PublishSmall(t) ==
    /\ Cardinality(staged) <= PublishMaxStaged
    /\ Begin(t, "publish", Publish \o <<"heldRows">>)

HeldRows(t) ==
    LET held == UNION {{<<n, r>> : r \in segments[n].rows} :
                          n \in unwritten \cap DOMAIN segments}
    IN  /\ Running(t, "heldRows")
        /\ lock = NoThread
        /\ th' = [th EXCEPT ![t] =
                     IF Cardinality(held) > UnwrittenMaxRows
                       THEN [@ EXCEPT !.prog = Persist] ELSE Idle]
        /\ UNCHANGED <<lists, buffers, stamps, air, disk, ghosts, walking, meta_dirty,
                       dirty_alive, next_segment, lock, persisting, faults, crashes>>

BeginCall(t) ==
    \/ PublishLarge(t)
    \/ PublishSmall(t)
    \/ Begin(t, "commit", Commit)
    \/ Begin(t, "flush", Flush \o Persist)
    \/ Begin(t, "compact", Flush \o <<"chooseMemory", "foldEach", "nextHead">>)
    \/ Begin(t, "rebuild", Flush \o <<"chooseAll", "foldEach">> \o Persist)

-----------------------------------------------------------------------------
\* A crash, and open_or_create over what it left.  Every segment the manifest
\* names has to open; what it does not name and is behind its next number goes.
Openable(n) == n \in DOMAIN files /\ files[n].complete
Orphans     == {n \in DOMAIN files \ Named : n < manifest.next_segment}

Crash ==
    /\ crashes < MaxCrashes
    /\ \A n \in Named : Openable(n)
    /\ crashes' = crashes + 1
    /\ files' = Without(files, Orphans)
    /\ segments' = [n \in Named |-> [generation |-> manifest.segments[n],
                                     rows |-> files[n].rows, alive |-> files[n].alive]]
    /\ generation' = manifest.generation
    /\ next_segment' = manifest.next_segment
    /\ meta_dirty' = FALSE
    /\ staged' = {} /\ stale' = {} /\ seen' = {} /\ sources' = {} /\ hidden' = {}
    /\ dirty_alive' = {} /\ pending_erase' = {} /\ unwritten' = {}
    /\ open' = 0 /\ walk' = 0 /\ trust' = FALSE
    /\ flights' = <<>> /\ landed' = <<>>
    /\ lock' = NoThread /\ persisting' = NoThread
    /\ th' = [t \in Threads |-> Idle]
    /\ want' = [k \in Keys |->
                  IF k \in KeysOf(Recovered)
                    THEN (CHOOSE r \in Recovered : Key(r) = k).meta ELSE Absent]
    /\ revoked' = {} /\ walked' = {}
    /\ UNCHANGED <<manifest, faults>>

\* Between calls an index may rest.  (A search only reads: it takes the read
\* lock, which no step here waits for a second time, and is no action.)
AtRest ==
    /\ \A t \in Threads : Resting(t)
    /\ \A n \in DOMAIN flights : flights[n].landed
    /\ UNCHANGED vars

Init ==
    /\ segments = <<>> /\ files = <<>> /\ flights = <<>> /\ landed = <<>>
    /\ manifest = [generation |-> 0, next_segment |-> 1, segments |-> <<>>]
    /\ generation = 0 /\ next_segment = 1 /\ open = 0 /\ walk = 0
    /\ meta_dirty = FALSE /\ trust = FALSE
    /\ staged = {} /\ stale = {} /\ seen = {} /\ sources = {} /\ hidden = {}
    /\ dirty_alive = {} /\ pending_erase = {} /\ unwritten = {}
    /\ lock = NoThread /\ persisting = NoThread
    /\ th = [t \in Threads |-> Idle]
    /\ want = [k \in Keys |-> Absent] /\ revoked = {} /\ walked = {}
    /\ faults = MaxFaults /\ crashes = 0

Modes == {"commit", "flush", "overflow", "publish", "publishLocked"}

\* The steps of a call already begun.
Step(t) ==
    \/ SettleStep(t) \/ CollectStep(t) \/ LandBuilt(t) \/ LandFailed(t)
    \/ CollectError(t) \/ Unlock(t) \/ Save(t) \/ SaveClean(t) \/ Erase(t)
    \/ \E mode \in Modes : Prepare(t, mode)
    \/ WriteAlive(t) \/ WriteSeg(t) \/ Install(t) \/ Push(t) \/ Dispatch(t)
    \/ OpenNone(t) \/ OpenNext(t) \/ Sweep(t) \/ ForgetKill(t) \/ ForgetEmpty(t)
    \/ PersistStep(t) \/ PersistGroup(t) \/ WriteUnwrittenRead(t)
    \/ WriteUnwritten(t) \/ AdoptWritten(t) \/ TakeDirty(t) \/ Release(t)
    \/ FoldCheck(t) \/ FoldRead(t) \/ FoldWrite(t) \/ FoldSwap(t) \/ FoldRefused(t)
    \/ ChooseFolds(t) \/ FoldEach(t) \/ NextHead(t) \/ HeldRows(t)

\* The same steps taking their error paths.
StepFails(t) ==
    \/ LandBuiltFails(t) \/ SaveFails(t) \/ WriteAliveFails(t) \/ WriteSegFails(t)
    \/ PushFails(t) \/ DispatchFails(t)
    \/ WriteFails(t, "writeOne", th[t].snap.number)
    \/ /\ th[t].durable /\ th[t].snap.rows # {}
       /\ WriteFails(t, "foldWrite", th[t].snap.number)

Call(t) ==
    \/ \E e \in Entries : Upsert(t, e)
    \/ \E p \in Removed : RemoveSubtree(t, p)
    \/ BeginCall(t)
    \/ BeginGeneration(t)
    \/ \E s \in Sources, u \in Scopes, b \in Spares : BeginSweep(t, s, u, b)
    \/ AbandonGeneration(t)
    \/ \E s \in Sources : BeginForget(t, s)

Builder == \E n \in DOMAIN flights : Build(n) \/ BuildFails(n)

Next ==
    \/ \E t \in Threads : Step(t) \/ StepFails(t) \/ Call(t)
    \/ Builder
    \/ Crash
    \/ AtRest

Spec == Init /\ [][Next]_vars

\* A builder ends, and a thread inside a call goes on with it: the locks are
\* parking_lot's, which hand themselves to whoever has waited long enough.
FairSpec ==
    /\ Spec
    /\ \A t \in Threads : SF_vars(Step(t))
    /\ WF_vars(\E n \in DOMAIN flights : Build(n))

-----------------------------------------------------------------------------
\* Properties.

\* The files and the memory have the shapes the code gives them, and a lock has
\* one holder that is inside a call.
Segment == [generation : Nat, rows : SUBSET Entry, alive : SUBSET Entry]
SegFile == [complete : BOOLEAN, rows : SUBSET Entry, alive : SUBSET Entry]
TypeOK ==
    /\ \A n \in DOMAIN segments : /\ n \in Nat \ {0}
                                  /\ segments[n] \in Segment
                                  /\ segments[n].alive \subseteq segments[n].rows
    /\ \A n \in DOMAIN files : n \in Nat \ {0} /\ files[n] \in SegFile
    /\ manifest.generation \in Nat /\ manifest.next_segment \in Nat \ {0}
    /\ generation \in Nat /\ open \in Nat /\ next_segment \in Nat \ {0}
    /\ staged \subseteq Entry /\ hidden \subseteq Paths /\ sources \subseteq Sources
    /\ unwritten \subseteq DOMAIN segments
    /\ lock \in Threads \cup {NoThread} /\ persisting \in Threads \cup {NoThread}
    /\ \A t \in {lock, persisting} \ {NoThread} : th[t].prog # <<>>

\* A number names one segment for good: what a thread is building, what a builder
\* has in the air and what the list or the manifest names never share one, so no
\* writer writes its files over another's.
ClaimsOf(r) == ({r.pend.number} \cup ({r.snap.number} \ DOMAIN r.snap.alive)) \ {0}
NoSharedNumber ==
    /\ \A t \in Threads :
          ClaimsOf(th[t]) \cap (DOMAIN segments \cup DOMAIN flights \cup Named) = {}
    /\ \A t, u \in Threads : t # u => ClaimsOf(th[t]) \cap ClaimsOf(th[u]) = {}
    /\ (DOMAIN flights \ {0}) \cap (DOMAIN segments \cup Named) = {}

\* At every instant the directory can be opened: the manifest names only
\* segments whose files are all there, whatever step a crash falls after.
Reopenable == \A n \in Named : Openable(n)

\* A path appears once: no two live rows a search can see hold the same key.
OneRow ==
    \A m, n \in DOMAIN segments :
        \A r \in segments[m].alive, s \in segments[n].alive :
            Key(r) = Key(s) /\ {r, s} \subseteq Visible => m = n /\ r = s

\* What was removed, by a change or by a sweep, stays out of every answer until
\* it, or the directory whose removal took it, is upserted again.
NoGhost == \A r \in Visible : want[Key(r)] # Absent \/ Key(r) \in revoked

\* The rows held anywhere: in a segment, waiting, or on their way to one.
Held ==
    staged \cup UNION {segments[n].alive : n \in DOMAIN segments}
           \cup UNION {th[t].pend.staged : t \in Threads}
           \cup UNION {Landing(flights[n]) : n \in DOMAIN flights}

\* The newest version of every wanted entry is held somewhere, whatever flush,
\* build, fold or sweep is under way and whichever of them failed.
NotLost ==
    \A k \in Keys : want[k] # Absent =>
        [source |-> k[1], path |-> k[2], meta |-> want[k]] \in Held

\* When persist_unwritten ends, the manifest names exactly the segments that
\* are not only in memory, and each bitmap on disk is the one in memory, unless
\* a commit of another thread is still on its way to write it.
PersistDurable ==
    \A t \in Threads : Running(t, "release") =>
        /\ Named = Written
        /\ \A n \in Written :
              \/ files[n].alive = segments[n].alive
              \/ \E u \in Threads \ {t} : n \in th[u].queue \cap DOMAIN th[u].pend.alive

\* Whenever the index believes it owes the disk nothing, a restart would answer
\* every search as it does now.
Quiet ==
    /\ \A t \in Threads : Resting(t)
    /\ staged = {} /\ hidden = {} /\ DOMAIN flights = {}
    /\ ~meta_dirty /\ dirty_alive = {} /\ unwritten = {}
QuietIsDurable == Quiet => Recovered = Visible

\* The rows a restart would hold never include two of one key.
DiskOneRow ==
    \A m, n \in Named \cap DOMAIN files :
        \A r \in files[m].alive, s \in files[n].alive :
            Key(r) = Key(s) => m = n /\ r = s

\* Every call returns: no thread waits for ever on a build, a lock or a fold.
CallsEnd == \A t \in Threads : []<>(th[t].prog = <<>>)
=============================================================================
