------------------------------ MODULE LiveSwap ------------------------------
(***************************************************************************)
(* The engine in use and what replaces it (apps/scourd/src/live.rs).  An   *)
(* engine takes its sources once; when the disks change, the old one is    *)
(* stopped and a new one built over the same index.  Two threads ask for   *)
(* that: the one that follows the disks, and a request that carries a      *)
(* person's answer about one.  A freshly built engine watches and then     *)
(* queues its walks on a thread of its own (`start').                      *)
(*                                                                         *)
(* Of the engine (crates/scour-engine/src/engine.rs) this keeps what a     *)
(* swap looks at: the walks queued, the walk running and whether it has    *)
(* been stopped.                                                           *)
(***************************************************************************)
EXTENDS Naturals, FiniteSets

CONSTANTS
    Names,          \* the sources there could be
    Watcher,        \* the thread that follows the disks
    Client,         \* the thread of a request that answers about a disk
    NoThread,
    MaxEngines,     \* bound: engines built in one behaviour
    MaxChanges      \* bound: changes of the disks in one behaviour

Threads == {Watcher, Client}

ASSUME LiveSwapAssumption ==
    /\ Watcher # Client /\ NoThread \notin Threads
    /\ MaxEngines \in Nat \ {0} /\ MaxChanges \in Nat

VARIABLES
    world,      \* what Kept::plan would say now
    notice,     \* the disks changed and their follower has not looked yet
    changes,    \* changes so far
    plan,       \* Live::plan
    swapping,   \* who holds Live::swapping
    at,         \* thread -> where in replan it is
    walk,       \* thread -> the sources its new engine is to walk
    engine,     \* the number of the engine requests are answered with
    engines,    \* number -> engine
    request,    \* the engine a rescan request holds, 0 if none
    refused,    \* a request was told that the worker has stopped
    walked      \* sources walked to the end since they were last planned

vars == <<world, notice, changes, plan, swapping, at, walk, engine, engines,
          request, refused, walked>>

-----------------------------------------------------------------------------
\* An engine just built: its worker runs, nothing is queued, and the thread that
\* starts it has still to watch and then to queue the walks `todo'.
NewEngine(names, todo) ==
    [names |-> names, stop |-> FALSE, running |-> TRUE, queued |-> {}, taken |-> {},
     scanning |-> {}, starter |-> "watch", todo |-> todo]

\* Engine::walking: a walk running, or one queued.
Walking(e) == engines[e].scanning # {} \/ engines[e].queued # {}

Set(e, r) == engines' = [engines EXCEPT ![e] = r]

Init ==
    /\ world \in SUBSET Names /\ notice = FALSE /\ changes = 0
    /\ plan = world
    /\ swapping = NoThread
    /\ at = [t \in Threads |-> "idle"] /\ walk = [t \in Threads |-> {}]
    /\ engine = 1
    /\ \E todo \in {world, {}} :      \* main: walked at the start, or warm and not
          /\ engines = [e \in {1} |-> NewEngine(world, todo)]
          /\ walked = world \ todo
    /\ request = 0 /\ refused = FALSE

-----------------------------------------------------------------------------
\* The disks.
Change(w) ==
    /\ w # world
    /\ changes < MaxChanges
    /\ world' = w
    /\ changes' = changes + 1

\* A disk comes or goes, and its follower will hear of it.
DiskChanges(w) ==
    /\ Change(w)
    /\ notice' = TRUE
    /\ UNCHANGED <<plan, swapping, at, walk, engine, engines, request, refused, walked>>

\* follow_disks: once a burst has settled.
WatcherAsks ==
    /\ notice /\ at[Watcher] = "idle"
    /\ notice' = FALSE
    /\ at' = [at EXCEPT ![Watcher] = "ask"]
    /\ UNCHANGED <<world, changes, plan, swapping, walk, engine, engines, request,
                   refused, walked>>

\* choose, postpone: the answer is kept, then the disks are looked at again.
ClientAnswers(w) ==
    /\ at[Client] = "idle"
    /\ Change(w)
    /\ at' = [at EXCEPT ![Client] = "ask"]
    /\ UNCHANGED <<notice, plan, swapping, walk, engine, engines, request, refused,
                   walked>>

-----------------------------------------------------------------------------
\* replan and swap, one caller at a time: the second waits for the first.
Turn(t) == at[t] = "ask" /\ swapping = NoThread

Replan(t) ==
    /\ Turn(t)
    /\ IF plan = world
         THEN at' = [at EXCEPT ![t] = "idle"] /\ UNCHANGED <<plan, swapping>>
         ELSE /\ Cardinality(DOMAIN engines) < MaxEngines
              /\ plan' = world
              /\ swapping' = t
              /\ at' = [at EXCEPT ![t] = "decide"]
    /\ UNCHANGED <<world, notice, changes, walk, engine, engines, request, refused,
                   walked>>

\* Which sources the new engine walks: every one if the old was walking, otherwise
\* the ones it did not have.
Decide(t) ==
    /\ at[t] = "decide"
    /\ walk' = [walk EXCEPT ![t] = IF Walking(engine) THEN plan
                                                      ELSE plan \ engines[engine].names]
    /\ at' = [at EXCEPT ![t] = "stop"]
    /\ UNCHANGED <<world, notice, changes, plan, swapping, engine, engines, request,
                   refused, walked>>

\* Engine::shutdown: the flag, then the worker is waited for.
Stop(t) ==
    /\ at[t] = "stop"
    /\ Set(engine, [engines[engine] EXCEPT !.stop = TRUE])
    /\ at' = [at EXCEPT ![t] = "join"]
    /\ UNCHANGED <<world, notice, changes, plan, swapping, walk, engine, request,
                   refused, walked>>

JoinAtOnce(t) == TRUE
JoinAlone(t) == ~engines[engine].running /\ request # engine
Joined(t) == ~engines[engine].running

\* The new engine; the rows of a source no longer planned go.
Build(t) ==
    LET n == Cardinality(DOMAIN engines) + 1
    IN  /\ at[t] = "join"
        /\ Joined(t)
        /\ engines' = [e \in DOMAIN engines \cup {n} |->
                         IF e = n THEN NewEngine(plan, walk[t]) ELSE engines[e]]
        /\ walked' = walked \cap plan
        /\ at' = [at EXCEPT ![t] = "publish"]
        /\ UNCHANGED <<world, notice, changes, plan, swapping, walk, engine, request,
                       refused>>

\* Requests are answered with it from here on, and its starter runs.
Publish(t) ==
    /\ at[t] = "publish"
    /\ engine' = Cardinality(DOMAIN engines)
    /\ swapping' = NoThread
    /\ at' = [at EXCEPT ![t] = "idle"]
    /\ walk' = [walk EXCEPT ![t] = {}]
    /\ UNCHANGED <<world, notice, changes, plan, engines, request, refused, walked>>

-----------------------------------------------------------------------------
\* start: watch, then walk.  Only a published engine has been handed to it.
Started(e) == e <= engine

Watch(e) ==
    /\ Started(e) /\ engines[e].starter = "watch"
    /\ Set(e, [engines[e] EXCEPT !.starter = "queue"])
    /\ UNCHANGED <<world, notice, changes, plan, swapping, at, walk, engine, request,
                   refused, walked>>

\* queue_whole, for one source after another; a stopped worker takes no job, and
\* the rest are then not asked for.
Queue(e) ==
    /\ Started(e) /\ engines[e].starter = "queue" /\ engines[e].todo # {}
    /\ \E n \in engines[e].todo :
          Set(e, IF engines[e].running
                   THEN [engines[e] EXCEPT !.queued = @ \cup {n}, !.todo = @ \ {n}]
                   ELSE [engines[e] EXCEPT !.todo = {}])
    /\ UNCHANGED <<world, notice, changes, plan, swapping, at, walk, engine, request,
                   refused, walked>>

\* The worker.  A walk is taken off the queue before it is seen to be running.
Worker(e) == engines[e].running /\ ~engines[e].stop

TakeWalk(e) ==
    /\ Worker(e) /\ engines[e].taken = {} /\ engines[e].scanning = {}
    /\ \E n \in engines[e].queued :
          Set(e, [engines[e] EXCEPT !.queued = @ \ {n}, !.taken = {n}])
    /\ UNCHANGED <<world, notice, changes, plan, swapping, at, walk, engine, request,
                   refused, walked>>

RunWalk(e) ==
    /\ Worker(e) /\ engines[e].taken # {}
    /\ Set(e, [engines[e] EXCEPT !.taken = {}, !.scanning = engines[e].taken])
    /\ UNCHANGED <<world, notice, changes, plan, swapping, at, walk, engine, request,
                   refused, walked>>

\* A walk past its last entry ends as a whole one, stopped or not.
EndWalk(e) ==
    /\ engines[e].running /\ engines[e].scanning # {}
    /\ walked' = walked \cup engines[e].scanning
    /\ Set(e, [engines[e] EXCEPT !.scanning = {}])
    /\ UNCHANGED <<world, notice, changes, plan, swapping, at, walk, engine, request,
                   refused>>

\* Stopped: a walk is abandoned, and what is queued is not run.
WorkerEnds(e) ==
    /\ engines[e].stop /\ engines[e].running
    /\ Set(e, [engines[e] EXCEPT !.running = FALSE, !.queued = {}, !.taken = {},
                                 !.scanning = {}])
    /\ UNCHANGED <<world, notice, changes, plan, swapping, at, walk, engine, request,
                   refused, walked>>

-----------------------------------------------------------------------------
\* A request to walk a source again holds the engine it found for as long as it
\* takes.
RequestBegins ==
    /\ request = 0
    /\ request' = engine
    /\ UNCHANGED <<world, notice, changes, plan, swapping, at, walk, engine, engines,
                   refused, walked>>

RequestEnds ==
    /\ request # 0
    /\ request' = 0
    /\ refused' = (refused \/ ~engines[request].running)
    /\ \/ /\ engines[request].running
          /\ \E n \in engines[request].names :
                Set(request, [engines[request] EXCEPT !.queued = @ \cup {n}])
       \/ /\ ~engines[request].running \/ engines[request].names = {}
          /\ UNCHANGED engines
    /\ UNCHANGED <<world, notice, changes, plan, swapping, at, walk, engine, walked>>

-----------------------------------------------------------------------------
Swap(t) == Replan(t) \/ Decide(t) \/ Stop(t) \/ Build(t) \/ Publish(t)
Runs(e) == Watch(e) \/ Queue(e) \/ TakeWalk(e) \/ RunWalk(e) \/ EndWalk(e) \/ WorkerEnds(e)

Next ==
    \/ \E w \in SUBSET Names : DiskChanges(w) \/ ClientAnswers(w)
    \/ WatcherAsks
    \/ \E t \in Threads : Swap(t)
    \/ \E e \in DOMAIN engines : Runs(e)
    \/ RequestBegins \/ RequestEnds

Spec == Init /\ [][Next]_vars

\* Threads run.  Nobody is kept from the mutex for ever: the disks change, and so
\* a swap is asked for, a finite number of times.
FairSpec ==
    /\ Spec
    /\ WF_vars(WatcherAsks)
    /\ \A t \in Threads : WF_vars(Swap(t))
    /\ \A e \in 1..MaxEngines : WF_vars(e \in DOMAIN engines /\ Runs(e))

-----------------------------------------------------------------------------
\* Two engines never write at once: a worker that still runs belongs to the last
\* engine built, so the rows of a source that is gone are dropped after its last walk.
OneWriter ==
    \A e \in DOMAIN engines :
        engines[e].running => e = Cardinality(DOMAIN engines)

\* Once the disks stop changing, the service ends up with the sources they call for.
Converges == <>[](engines[engine].names = world /\ engines[engine].running)

\* No walk is lost: a planned source has been walked, is being walked, or is on
\* its way to be.
NoWalkLost ==
    swapping = NoThread =>
        LET e == engines[engine]
        IN  e.names \subseteq walked \cup e.queued \cup e.taken \cup e.scanning \cup e.todo

\* A request never meets a stopped engine.
NeverRefused == ~refused
=============================================================================
