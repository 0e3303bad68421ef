---------------------------- MODULE SourcesProofs ----------------------------
(***************************************************************************)
(* Two engines never write at once, for any number of engines and changes  *)
(* of the disks; and no two sources share a number, and rows belong to     *)
(* their source, for any set of names and any faults.  SourceIds is proved *)
(* about as MCSources instantiates it, under the prefix N, with its        *)
(* constants left open.                                                    *)
(***************************************************************************)
EXTENDS MCSources, FiniteSetTheorems, WellFoundedInduction, TLAPS

-----------------------------------------------------------------------------
\* LiveSwap.

\* Engines are numbered in the order they are built.
Last == Cardinality(DOMAIN engines)

Engine == [names : SUBSET Names, stop : BOOLEAN, running : BOOLEAN,
           queued : SUBSET Names, taken : SUBSET Names, scanning : SUBSET Names,
           starter : {"watch", "queue"}, todo : SUBSET Names]

\* The places in replan at which a thread holds the swap.
Inside == {"decide", "stop", "join", "publish"}

LiveType ==
    /\ world \in SUBSET Names /\ plan \in SUBSET Names
    /\ at \in [Threads -> {"idle", "ask"} \cup Inside]
    /\ walk \in [Threads -> SUBSET Names]
    /\ Last \in Nat \ {0}
    /\ engines \in [1..Last -> Engine]
    /\ request \in 0..Last

\* One thread at a time is inside a swap.
OneSwap == \A t \in Threads : at[t] \in Inside <=> swapping = t

\* Requests are answered with the last engine, but for the moment between its being
\* built and its being published.
Serving ==
    /\ engine \in 1..Last
    /\ \A t \in Threads : at[t] = "publish" => engine = Last - 1
    /\ (\A t \in Threads : at[t] # "publish") => engine = Last

LiveInv == LiveType /\ OneSwap /\ Serving /\ OneWriter

-----------------------------------------------------------------------------
\* The number of engines after one more is built.
LEMMA CountOfInterval == \A n \in Nat : Cardinality(1..n) = n
<1>1. \A n \in Nat : Cardinality(1..n) = IF 1 > n THEN 0 ELSE n - 1 + 1
  BY FS_Interval
<1> QED BY <1>1

\* The first engine, built by main.
LEMMA LiveInit == Init => LiveInv
<1> SUFFICES ASSUME Init PROVE LiveInv
  OBVIOUS
<1>1. PICK todo \in {world, {}} : engines = [e \in {1} |-> NewEngine(world, todo)]
  BY DEF Init
<1>2. DOMAIN engines = 1..1
  BY <1>1
<1>3. Last = 1
  BY <1>2, CountOfInterval DEF Last
<1>4. NewEngine(world, todo) \in Engine
  BY <1>1 DEF NewEngine, Engine, Init
<1>5. engines \in [1..Last -> Engine]
  BY <1>1, <1>2, <1>3, <1>4
<1>6. LiveType
  BY <1>3, <1>5 DEF LiveType, Init
<1>7. OneSwap
  BY LiveSwapAssumption DEF OneSwap, Init, Inside, Threads
<1>8. Serving
  BY <1>3 DEF Serving, Init
<1>9. OneWriter
  BY <1>2, <1>3 DEF OneWriter, Last
<1> QED BY <1>6, <1>7, <1>8, <1>9 DEF LiveInv

\* A step that replaces the record of one engine, leaves its worker stopped if it
\* was, and moves no thread into or out of a swap.
LEMMA LiveSet ==
    ASSUME LiveInv, NEW e \in DOMAIN engines, NEW r \in Engine, Set(e, r),
           r.running => engines[e].running,
           world' \in SUBSET Names, plan' = plan, walk' = walk, swapping' = swapping,
           engine' = engine, request' \in {0, request},
           at' \in [Threads -> {"idle", "ask"} \cup Inside],
           \A t \in Threads : /\ at'[t] \in Inside <=> at[t] \in Inside
                              /\ at'[t] = "publish" <=> at[t] = "publish"
    PROVE  LiveInv'
<1>1. /\ engines' = [engines EXCEPT ![e] = r]
      /\ DOMAIN engines' = DOMAIN engines
  BY DEF Set
<1>2. Last' = Last
  BY <1>1 DEF Last
<1>3. LiveType'
  BY <1>1, <1>2 DEF LiveInv, LiveType
<1>4. OneSwap'
  BY DEF LiveInv, OneSwap
<1>5. Serving'
  BY <1>2 DEF LiveInv, Serving
<1>6. OneWriter'
  BY <1>1 DEF LiveInv, OneWriter, LiveType
<1> QED BY <1>3, <1>4, <1>5, <1>6 DEF LiveInv

\* A step that leaves the engines alone, and moves no thread into or out of a swap.
LEMMA LiveKept ==
    ASSUME LiveInv, UNCHANGED <<plan, swapping, walk, engine, engines>>,
           world' \in SUBSET Names, request' \in 0..Last,
           at' \in [Threads -> {"idle", "ask"} \cup Inside],
           \A t \in Threads : /\ at'[t] \in Inside <=> at[t] \in Inside
                              /\ at'[t] = "publish" <=> at[t] = "publish"
    PROVE  LiveInv'
<1>1. Last' = Last
  BY DEF Last
<1>2. LiveType'
  BY <1>1 DEF LiveInv, LiveType
<1>3. OneSwap'
  BY DEF LiveInv, OneSwap
<1>4. Serving'
  BY <1>1 DEF LiveInv, Serving
<1>5. OneWriter'
  BY DEF LiveInv, OneWriter
<1> QED BY <1>2, <1>3, <1>4, <1>5 DEF LiveInv
-----------------------------------------------------------------------------
\* replan and swap.  Only Build adds an engine, when the worker of the last one has
\* ended, and only Publish changes which engine is served.
LEMMA LiveSwapStep ==
    ASSUME LiveInv, NEW t \in Threads, Swap(t)
    PROVE  LiveInv'
<1> USE DEF LiveInv
<1>1. CASE Replan(t)
  <2>1. Last' = Last /\ OneWriter'
    BY <1>1 DEF Replan, Last, OneWriter
  <2>2. LiveType'
    BY <1>1, <2>1 DEF Replan, LiveType, Inside
  <2>3. OneSwap'
    BY <1>1, LiveSwapAssumption DEF Replan, Turn, OneSwap, LiveType, Inside
  <2>4. Serving'
    BY <1>1, <2>1 DEF Replan, Turn, Serving, LiveType
  <2> QED BY <2>1, <2>2, <2>3, <2>4
<1>2. CASE Decide(t)
  <2>1. Last' = Last /\ OneWriter'
    BY <1>2 DEF Decide, Last, OneWriter
  <2>2. engines[engine].names \in SUBSET Names
    BY DEF LiveType, Engine, Serving
  <2>3. LiveType'
    BY <1>2, <2>1, <2>2 DEF Decide, LiveType, Inside
  <2>4. OneSwap'
    BY <1>2 DEF Decide, OneSwap, LiveType, Inside
  <2>5. Serving'
    BY <1>2, <2>1 DEF Decide, Serving, LiveType
  <2> QED BY <2>1, <2>3, <2>4, <2>5
<1>3. CASE Stop(t)
  <2> DEFINE r == [engines[engine] EXCEPT !.stop = TRUE]
  <2>1. engine \in DOMAIN engines /\ engines[engine] \in Engine
    BY DEF LiveType, Serving
  <2>2. r \in Engine /\ r.running = engines[engine].running
    BY <2>1 DEF Engine
  <2>3. Set(engine, r)
    BY <1>3 DEF Stop
  <2>4. /\ at' \in [Threads -> {"idle", "ask"} \cup Inside]
        /\ \A u \in Threads : /\ at'[u] \in Inside <=> at[u] \in Inside
                              /\ at'[u] = "publish" <=> at[u] = "publish"
    BY <1>3 DEF Stop, LiveType, Inside
  <2>5. world' \in SUBSET Names /\ request' \in {0, request}
        /\ UNCHANGED <<plan, walk, swapping, engine>>
    BY <1>3 DEF Stop, LiveType
  <2> HIDE DEF r
  <2> QED BY <2>1, <2>2, <2>3, <2>4, <2>5, LiveSet
<1>4. CASE Build(t)
  <2>1. swapping = t /\ \A u \in Threads : at[u] # "publish"
    BY <1>4 DEF Build, OneSwap, Inside
  <2>2. engine = Last
    BY <2>1 DEF Serving
  <2>3. \A e \in DOMAIN engines : ~engines[e].running
    BY <1>4, <2>2 DEF Build, Joined, OneWriter, Last
  <2>4. /\ engines' = [e \in DOMAIN engines \cup {Last + 1} |->
                         IF e = Last + 1 THEN NewEngine(plan, walk[t]) ELSE engines[e]]
        /\ at' = [at EXCEPT ![t] = "publish"]
        /\ UNCHANGED <<world, plan, swapping, walk, engine, request>>
    BY <1>4 DEF Build, Last
  <2>5. DOMAIN engines = 1..Last /\ Last \in Nat \ {0}
    BY DEF LiveType
  <2>6. DOMAIN engines' = 1..(Last + 1)
    BY <2>4, <2>5
  <2>7. Last' = Last + 1
    BY <2>5, <2>6, CountOfInterval DEF Last
  <2>8. NewEngine(plan, walk[t]) \in Engine
    BY DEF NewEngine, Engine, LiveType
  <2>9. engines' \in [1..(Last + 1) -> Engine]
    BY <2>4, <2>5, <2>6, <2>8 DEF LiveType
  <2>10. LiveType'
    BY <2>4, <2>5, <2>7, <2>9 DEF LiveType, Inside
  <2>11. OneSwap'
    BY <1>4, <2>4 DEF Build, OneSwap, LiveType, Inside
  <2>12. Serving'
    BY <2>2, <2>4, <2>5, <2>7 DEF Serving, LiveType
  <2>13. OneWriter'
    BY <2>3, <2>4, <2>5, <2>6, <2>7 DEF OneWriter, Last
  <2> QED BY <2>10, <2>11, <2>12, <2>13
<1>5. CASE Publish(t)
  <2>1. Last' = Last /\ OneWriter' /\ engine' = Last
    BY <1>5 DEF Publish, Last, OneWriter
  <2>2. LiveType'
    BY <1>5, <2>1 DEF Publish, LiveType, Inside
  <2>3. OneSwap'
    BY <1>5, LiveSwapAssumption DEF Publish, OneSwap, LiveType, Inside
  <2>4. \A u \in Threads : at'[u] # "publish"
    BY <1>5 DEF Publish, OneSwap, LiveType, Inside
  <2>5. Serving'
    BY <2>1, <2>4 DEF Serving, LiveType
  <2> QED BY <2>1, <2>2, <2>3, <2>5
<1> QED BY <1>1, <1>2, <1>3, <1>4, <1>5 DEF Swap

\* The starter and the worker of an engine: a worker ends and never begins again.
LEMMA LiveRunStep ==
    ASSUME LiveInv, NEW e \in DOMAIN engines, Runs(e)
    PROVE  LiveInv'
<1>1. engines[e] \in Engine
  BY DEF LiveInv, LiveType
<1>2. \E r \in Engine : Set(e, r) /\ (r.running => engines[e].running)
  <2>1. CASE Watch(e)
    BY <1>1, <2>1 DEF Watch, Engine
  <2>2. CASE Queue(e)
    <3>1. PICK n \in engines[e].todo :
            Set(e, IF engines[e].running
                     THEN [engines[e] EXCEPT !.queued = @ \cup {n}, !.todo = @ \ {n}]
                     ELSE [engines[e] EXCEPT !.todo = {}])
      BY <2>2 DEF Queue
    <3> DEFINE r == [engines[e] EXCEPT !.queued = @ \cup {n}, !.todo = @ \ {n}]
               s == [engines[e] EXCEPT !.todo = {}]
    <3>2. r \in Engine /\ r.running = engines[e].running
      BY <1>1 DEF Engine
    <3>3. s \in Engine /\ s.running = engines[e].running
      BY <1>1 DEF Engine
    <3>4. Set(e, r) \/ Set(e, s)
      BY <3>1
    <3> HIDE DEF r, s
    <3> QED BY <3>2, <3>3, <3>4
  <2>3. CASE TakeWalk(e)
    <3>1. PICK n \in engines[e].queued :
            Set(e, [engines[e] EXCEPT !.queued = @ \ {n}, !.taken = {n}])
      BY <2>3 DEF TakeWalk
    <3> DEFINE r == [engines[e] EXCEPT !.queued = @ \ {n}, !.taken = {n}]
    <3>2. r \in Engine /\ r.running = engines[e].running
      BY <1>1 DEF Engine
    <3>3. Set(e, r)
      BY <3>1
    <3> HIDE DEF r
    <3> QED BY <3>2, <3>3
  <2>4. CASE RunWalk(e)
    <3> DEFINE r == [engines[e] EXCEPT !.taken = {}, !.scanning = engines[e].taken]
    <3>1. r \in Engine /\ r.running = engines[e].running
      BY <1>1 DEF Engine
    <3>2. Set(e, r)
      BY <2>4 DEF RunWalk
    <3> HIDE DEF r
    <3> QED BY <3>1, <3>2
  <2>5. CASE EndWalk(e)
    BY <1>1, <2>5 DEF EndWalk, Engine
  <2>6. CASE WorkerEnds(e)
    BY <1>1, <2>6 DEF WorkerEnds, Engine
  <2> QED BY <2>1, <2>2, <2>3, <2>4, <2>5, <2>6 DEF Runs
<1>3. UNCHANGED <<world, plan, swapping, at, walk, engine, request>>
  BY DEF Runs, Watch, Queue, TakeWalk, RunWalk, EndWalk, WorkerEnds
<1> QED BY <1>2, <1>3, LiveSet DEF LiveInv, LiveType

\* Every step.
LEMMA LiveNext == LiveInv /\ [Next]_vars => LiveInv'
<1> SUFFICES ASSUME LiveInv, [Next]_vars PROVE LiveInv'
  OBVIOUS
<1>1. ASSUME NEW w \in SUBSET Names, DiskChanges(w) PROVE LiveInv'
  BY <1>1, LiveKept DEF DiskChanges, Change, LiveInv, LiveType
<1>2. ASSUME NEW w \in SUBSET Names, ClientAnswers(w) PROVE LiveInv'
  <2>1. /\ at' \in [Threads -> {"idle", "ask"} \cup Inside]
        /\ \A u \in Threads : /\ at'[u] \in Inside <=> at[u] \in Inside
                              /\ at'[u] = "publish" <=> at[u] = "publish"
    BY <1>2 DEF ClientAnswers, LiveInv, LiveType, Inside, Threads
  <2> QED BY <1>2, <2>1, LiveKept DEF ClientAnswers, Change, LiveInv, LiveType
<1>3. CASE WatcherAsks
  <2>1. /\ at' \in [Threads -> {"idle", "ask"} \cup Inside]
        /\ \A u \in Threads : /\ at'[u] \in Inside <=> at[u] \in Inside
                              /\ at'[u] = "publish" <=> at[u] = "publish"
    BY <1>3 DEF WatcherAsks, LiveInv, LiveType, Inside, Threads
  <2> QED BY <1>3, <2>1, LiveKept DEF WatcherAsks, LiveInv, LiveType
<1>4. CASE RequestBegins
  BY <1>4, LiveKept DEF RequestBegins, LiveInv, LiveType, Serving
<1>5. CASE RequestEnds
  <2>1. /\ 0 \in 0..Last /\ request \in DOMAIN engines /\ engines[request] \in Engine
    BY <1>5 DEF RequestEnds, LiveInv, LiveType
  <2>2. CASE UNCHANGED engines
    BY <1>5, <2>1, <2>2, LiveKept DEF RequestEnds, LiveInv, LiveType
  <2>3. ASSUME NEW n \in engines[request].names,
               Set(request, [engines[request] EXCEPT !.queued = @ \cup {n}])
        PROVE  LiveInv'
    <3> DEFINE r == [engines[request] EXCEPT !.queued = @ \cup {n}]
    <3>1. r \in Engine /\ r.running = engines[request].running
      BY <2>1 DEF Engine
    <3>2. Set(request, r)
      BY <2>3
    <3> HIDE DEF r
    <3> QED BY <1>5, <2>1, <3>1, <3>2, LiveSet DEF RequestEnds, LiveInv, LiveType
  <2> QED BY <1>5, <2>2, <2>3 DEF RequestEnds
<1>6. CASE UNCHANGED vars
  BY <1>6, LiveKept DEF vars, LiveInv, LiveType
<1> QED BY <1>1, <1>2, <1>3, <1>4, <1>5, <1>6, LiveSwapStep, LiveRunStep DEF Next

-----------------------------------------------------------------------------
\* One thread at a time is inside a swap, requests are answered with the last engine
\* built or the one before it, and only the last one's worker runs.
THEOREM LiveInvariant == Spec => []LiveInv
BY LiveInit, LiveNext, PTL DEF Spec

\* Two engines never write at once, however often the disks change (live.rs: "so two
\* never write at once").
THEOREM EnginesOneWriter == Spec => []OneWriter
<1>1. LiveInv => OneWriter
  BY DEF LiveInv
<1> QED BY <1>1, LiveInvariant, PTL

-----------------------------------------------------------------------------
\* SourceIds.

\* Numbers given to some of the names, no two alike.
Numbering(f) ==
    /\ DOMAIN f \subseteq SourceNames
    /\ f \in [DOMAIN f -> 0..MaxId]
    /\ \A m, n \in DOMAIN f : f[m] = f[n] => m = n

\* Where the file and the rows have not been left disagreeing, a row carries the number
\* the file has for its source, or one that is about to be forgotten.
Kept ==
    ~harmed => /\ \/ file = ids
                  \/ ~up /\ dropped = {} /\ ids = <<>>
               /\ \A r \in numbered : \/ r[2] \in DOMAIN file /\ file[r[2]] = r[1]
                                  \/ r[1] \in dropped

SourceInv ==
    /\ Numbering(file) /\ Numbering(ids)
    /\ up => dropped = {}
    /\ Kept

\* The finite sets of the module N instantiates are those of this one.
LEMMA SameSets ==
    ASSUME NEW S
    PROVE  N!Cardinality(S) = Cardinality(S) /\ N!IsFiniteSet(S) = IsFiniteSet(S)
<1>1. N!Cardinality(S) = Cardinality(S)
  BY DEF N!Cardinality, Cardinality
<1>2. N!IsFiniteSet(S) = IsFiniteSet(S)
  BY DEF N!IsFiniteSet, IsFiniteSet
<1> QED BY <1>1, <1>2

\* A set of numbers within bounds has a largest.
LEMMA HasLargest ==
    ASSUME N!WellFormed, NEW S \in SUBSET (0..MaxId), S # {}
    PROVE  \E m \in S : \A k \in S : k <= m
<1> DEFINE gaps == {MaxId - k : k \in S}
<1>1. MaxId \in Nat
  BY DEF N!WellFormed
<1>2. gaps \subseteq Nat /\ gaps # {}
  <2>1. \A k \in S : MaxId - k \in Nat
    BY <1>1
  <2>2. PICK k \in S : TRUE
    OBVIOUS
  <2>3. MaxId - k \in gaps
    BY <2>2
  <2> QED BY <2>1, <2>3
<1> DEFINE less == {ss \in Nat \X Nat : ss[1] < ss[2]}
<1>3. IsWellFoundedOn(less, Nat)
  BY NatLessThanWellFounded DEF OpToRel
<1>4. PICK x \in gaps : \A y \in gaps : ~(y < x)
  <2> HIDE DEF less, gaps
  <2>1. PICK x \in gaps : \A y \in gaps : ~(<<y, x>> \in less)
    BY <1>2, <1>3, WFMin
  <2>2. \A y \in gaps : ~(y < x)
    BY <1>2, <2>1 DEF less
  <2> QED BY <2>2
<1>5. PICK m \in S : x = MaxId - m
  OBVIOUS
<1>6. \A k \in S : MaxId - k \in gaps
  OBVIOUS
<1> HIDE DEF gaps
<1>7. \A k \in S : k <= m
  BY <1>1, <1>4, <1>5, <1>6
<1> QED BY <1>7

\* Counting starts above every number in the file.
LEMMA AboveAll ==
    ASSUME N!WellFormed, NEW f, Numbering(f)
    PROVE  N!FirstFree(f) \in Nat /\ \A n \in DOMAIN f : f[n] < N!FirstFree(f)
<1>1. CASE DOMAIN f = {}
  BY <1>1 DEF N!FirstFree
<1>2. CASE DOMAIN f # {}
  <2>1. N!Numbers(f) \in SUBSET (0..MaxId) /\ N!Numbers(f) # {}
    BY <1>2 DEF N!Numbers, Numbering
  <2>2. \E m \in N!Numbers(f) : \A k \in N!Numbers(f) : k <= m
    BY <2>1, HasLargest
  <2> DEFINE top == CHOOSE m \in N!Numbers(f) : \A k \in N!Numbers(f) : k <= m
  <2>3. top \in N!Numbers(f) /\ \A k \in N!Numbers(f) : k <= top
    BY <2>2
  <2>4. N!FirstFree(f) = 1 + top
    BY <1>2 DEF N!FirstFree
  <2>5. \A n \in DOMAIN f : f[n] \in N!Numbers(f)
    BY DEF N!Numbers
  <2> HIDE DEF top
  <2> QED BY <2>1, <2>3, <2>4, <2>5 DEF N!WellFormed
<1> QED BY <1>1, <1>2

\* What assign returns is a numbering again: names that had a number keep it, and the
\* others get one that nothing in the file has.
LEMMA AssignNumbers ==
    ASSUME N!WellFormed, NEW names \in SUBSET SourceNames, Numbering(file),
           N!FirstFree(file) + Cardinality(names \ DOMAIN file) <= MaxId + 1,
           NEW g \in N!Numberings(file, names \ DOMAIN file),
           NEW f, f = [n \in names |-> IF n \in DOMAIN file THEN file[n] ELSE g[n]]
    PROVE  Numbering(f)
<1> DEFINE new == names \ DOMAIN file
<1>1. Cardinality(new) \in Nat
  BY SameSets, FS_Subset, FS_CardinalityType DEF N!WellFormed
<1>2. N!FirstFree(file) \in Nat /\ \A n \in DOMAIN file : file[n] < N!FirstFree(file)
  BY AboveAll
<1>3. /\ g \in [new -> N!FirstFree(file)..(N!FirstFree(file) + Cardinality(new) - 1)]
      /\ \A m, n \in new : g[m] = g[n] => m = n
  BY SameSets DEF N!Numberings
<1>4. \A n \in new : g[n] \in 0..MaxId /\ g[n] >= N!FirstFree(file)
  <2> HIDE DEF new
  <2>1. N!FirstFree(file) + Cardinality(new) <= MaxId + 1
    BY DEF new
  <2> QED BY <1>1, <1>2, <1>3, <2>1 DEF N!WellFormed
<1>5. \A n \in DOMAIN file : file[n] \in 0..MaxId
  BY DEF Numbering
<1>6. DOMAIN f = names /\ f \in [names -> 0..MaxId]
  BY <1>4, <1>5
<1>7. ASSUME NEW m \in names, NEW n \in names, f[m] = f[n] PROVE m = n
  <2>1. CASE m \in DOMAIN file /\ n \in DOMAIN file
    BY <1>7, <2>1 DEF Numbering
  <2>2. CASE m \in new /\ n \in new
    BY <1>3, <1>7, <2>2
  <2>3. CASE m \in DOMAIN file /\ n \in new
    BY <1>2, <1>4, <1>5, <1>7, <2>3
  <2>4. CASE m \in new /\ n \in DOMAIN file
    BY <1>2, <1>4, <1>5, <1>7, <2>4
  <2> QED BY <2>1, <2>2, <2>3, <2>4
<1> QED BY <1>6, <1>7 DEF Numbering

-----------------------------------------------------------------------------
\* A file that is absent or cannot be read.
LEMMA NoNumbers == Numbering(<<>>)
BY DEF Numbering

\* Nothing is numbered before the first plan.
LEMMA SourceInit == N!Init => SourceInv
BY NoNumbers DEF N!Init, SourceInv, Kept

\* One step per action.
LEMMA SourceNext == N!WellFormed /\ SourceInv /\ [N!Next]_N!sourceVars => SourceInv'
<1> SUFFICES ASSUME N!WellFormed, SourceInv, [N!Next]_N!sourceVars PROVE SourceInv'
  OBVIOUS
<1> USE DEF SourceInv
<1>1. ASSUME NEW names \in SUBSET SourceNames, N!Assign(names) PROVE SourceInv'
  <2> DEFINE F(g) == [n \in names |-> IF n \in DOMAIN file THEN file[n] ELSE g[n]]
  <2>1. PICK g \in N!Numberings(file, names \ DOMAIN file) :
          /\ ids' = F(g)
          /\ \/ file' = F(g) /\ UNCHANGED harmed
             \/ file' \in {file, <<>>} /\ harmed' = TRUE
    BY <1>1 DEF N!Assign
  <2>2. Numbering(F(g))
    BY <1>1, AssignNumbers, SameSets DEF N!Assign
  <2>3. Numbering(ids)' /\ Numbering(file)'
    <3>1. Numbering(ids') /\ Numbering(file')
      <4> HIDE DEF F
      <4> QED BY <2>1, <2>2, NoNumbers
    <3> QED BY <3>1 DEF Numbering
  <2>4. (up => dropped = {})'
    BY <1>1 DEF N!Assign
  <2>5. Kept'
    <3>1. SUFFICES ASSUME ~harmed' PROVE Kept'
      BY DEF Kept
    <3>2. file' = F(g) /\ ids' = F(g) /\ ~harmed /\ numbered' = numbered
      BY <1>1, <2>1, <3>1 DEF N!Assign
    <3>3. dropped = {} /\ dropped' = {file[n] : n \in DOMAIN file \ names}
      BY <1>1 DEF N!Assign, N!Dropped
    <3>4. \A r \in numbered : r[2] \in DOMAIN file /\ file[r[2]] = r[1]
      BY <3>2, <3>3 DEF Kept
    <3>5. \A n \in DOMAIN file : \/ n \in DOMAIN F(g) /\ F(g)[n] = file[n]
                                 \/ file[n] \in dropped'
      BY <3>3
    <3> HIDE DEF F
    <3>6. \A r \in numbered' : \/ r[2] \in DOMAIN file' /\ file'[r[2]] = r[1]
                           \/ r[1] \in dropped'
      BY <3>2, <3>4, <3>5
    <3>7. file' = ids'
      BY <3>2
    <3> QED BY <3>6, <3>7 DEF Kept
  <2> QED BY <2>3, <2>4, <2>5
<1>2. ASSUME NEW i \in dropped, N!ForgetNext(i) PROVE SourceInv'
  <2>1. Numbering(file)' /\ Numbering(ids)'
    BY <1>2 DEF N!ForgetNext, Numbering
  <2>2. Kept'
    BY <1>2 DEF N!ForgetNext, Kept
  <2>3. (up => dropped = {})'
    BY <1>2 DEF N!ForgetNext
  <2> QED BY <2>1, <2>2, <2>3
<1>3. ASSUME NEW n \in SourceNames, N!Walk(n) PROVE SourceInv'
  <2>1. Numbering(file)' /\ Numbering(ids)'
    BY <1>3 DEF N!Walk, Numbering
  <2>2. Kept'
    BY <1>3 DEF N!Walk, Kept
  <2> QED BY <1>3, <2>1, <2>2 DEF N!Walk
<1>4. CASE N!Crash
  <2>1. Numbering(file)' /\ Numbering(ids)'
    BY <1>4, NoNumbers DEF N!Crash, Numbering
  <2>2. Kept'
    BY <1>4 DEF N!Crash, Kept
  <2> QED BY <1>4, <2>1, <2>2 DEF N!Crash
<1>5. CASE N!CrashTorn
  <2>1. Numbering(file)' /\ Numbering(ids)'
    BY <1>5, NoNumbers DEF N!CrashTorn, Numbering
  <2> QED BY <1>5, <2>1 DEF N!CrashTorn, Kept
<1>6. CASE UNCHANGED N!sourceVars
  BY <1>6 DEF N!sourceVars, Numbering, Kept
<1> QED BY <1>1, <1>2, <1>3, <1>4, <1>5, <1>6 DEF N!Next

-----------------------------------------------------------------------------
\* The file and the numbers in use give no number twice, and rows carry the number the
\* file has for their source or one still to be forgotten, until a fault comes between.
THEOREM SourceInvariant == N!Spec => []SourceInv
<1>1. SourceInv /\ [N!Next]_N!sourceVars => SourceInv'
  BY SourceNext, NumbersWellFormed
<1> QED BY <1>1, SourceInit, PTL DEF N!Spec

\* Two sources never share a number, whatever came and went and whatever failed
\* (sources.rs, `assign').
THEOREM SourcesOneNumberEach == N!Spec => []OneNumberEach
<1>1. SourceInv => OneNumberEach
  BY DEF SourceInv, Numbering, OneNumberEach, N!OneNumberEach
<1> QED BY <1>1, SourceInvariant, PTL

\* Rows belong to a planned source and carry its number, unless a fault came between the
\* writing of the numbers and the forgetting of rows (wire.rs, `engine').
THEOREM SourcesRowsOwned == N!Spec => []RowsOwned
<1>1. SourceInv => RowsOwned
  BY DEF SourceInv, Kept, RowsOwned, N!RowsOwned, N!Owned
<1> QED BY <1>1, SourceInvariant, PTL
=============================================================================
