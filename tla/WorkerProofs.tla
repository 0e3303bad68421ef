---------------------------- MODULE WorkerProofs ----------------------------
(***************************************************************************)
(* The worker forgets no change and shows nothing a source has not held,   *)
(* for any sources, any patience and any faults.                           *)
(***************************************************************************)
EXTENDS Worker, SequenceTheorems, WellFoundedInduction, TLAPS

M == INSTANCE Mirror

Retry == [left : Nat, attempt : Nat]

Types ==
    /\ disk \in [Sources -> Nat \ {0}]
    /\ staged \in [Sources -> Nat] /\ shown \in [Sources -> Nat]
    /\ feed \in Seq(fed \X Nat) /\ fed \subseteq Sources
    /\ DOMAIN retries \subseteq Sources /\ retries \in [DOMAIN retries -> Retry]
    /\ walk \in Walk \cup {NoWalk}

\* Where in its turn the worker walks, and what.
Phases ==
    /\ phase \in {"select", "job", "walks", "persist", "idle", "ended"} => todo = {}
    /\ walk # NoWalk => phase = walk.for /\ walk.source \notin todo
    /\ phase = "retrying" => todo \subseteq DOMAIN retries
    /\ walk # NoWalk /\ phase = "retrying" => walk.source \in DOMAIN retries

\* Position j of the channel tells what s holds now, or asks for a walk.
Tells(j, s) == feed[j] \in {<<s, disk[s]>>, <<s, 0>>}
Told(s) == \E j \in 1..Len(feed) : Tells(j, s)
Waits(s) == s \in queued \cup lost \cup stirred \cup DOMAIN retries \cup todo
Reads(s) == walk # NoWalk /\ walk.source = s /\ walk.read = disk[s]
Owed(s) == Told(s) \/ Waits(s) \/ Reads(s)

\* No entry of the channel is the last word on its source unless it is still right.
LastWord == \A i \in 1..Len(feed) : \E j \in i..Len(feed) : Tells(j, feed[i][1])

\* What a walk has read is current, or what came since is known.
ReadOrTold ==
    walk # NoWalk /\ walk.read # disk[walk.source] =>
        Told(walk.source) \/ walk.source \in stirred

\* What is not staged as it is now is owed, what is not shown is owed or announced.
Safe(s) ==
    /\ staged[s] # disk[s] => Owed(s)
    /\ staged[s] = disk[s] /\ shown[s] # disk[s] => dirty \/ Owed(s)
NoneForgotten == phase # "ended" => \A s \in Sources : Safe(s)

WorkerInv == Types /\ Phases /\ LastWord /\ ReadOrTold /\ NoneForgotten

\* What is found, told and shown has been held.
Held ==
    /\ \A s \in Sources : staged[s] <= disk[s] /\ shown[s] <= disk[s]
    /\ \A i \in 1..Len(feed) : feed[i][2] <= disk[feed[i][1]]
    /\ walk # NoWalk => walk.read <= disk[walk.source]

\* While no time passes in a turn, a deadline its step has passed is not past any more.
CommitSpent ==
    \/ "commit" \notin late
    \/ sinceCommit = 0
    \/ phase \in {"job", "walks", "walking", "nudging"} /\ CommitDue
CompactSpent == phase \in {"idle", "select"} => ~CompactDue
IdleSpent    == phase = "select" => ~IdleDue
PersistSpent == phase \in {"retrying", "idle", "select"} => ~PersistDue
RetrySpent ==
    /\ phase = "retrying" => \A s \in RetryDue \ todo : walk # NoWalk /\ walk.source = s
    /\ phase \in {"idle", "select"} => RetryDue = {}
Spent == still => CommitSpent /\ CompactSpent /\ IdleSpent /\ PersistSpent /\ RetrySpent

\* A retry that failed once may have staged what nothing announces.
Announced ==
    \/ \A s \in Sources : staged[s] # shown[s] => dirty
    \/ \E s \in DOMAIN retries : retries[s].attempt > 0

-----------------------------------------------------------------------------
\* A set of positions in the channel has a last one.
LEMMA HasLast ==
    ASSUME NEW n \in Nat, NEW S \in SUBSET (1..n), S # {}
    PROVE  \E m \in S : \A k \in S : k <= m
<1> DEFINE T == {n - k : k \in S}
<1>1. T \subseteq Nat /\ T # {}
  <2>1. \A k \in S : n - k \in Nat
    OBVIOUS
  <2>2. PICK k \in S : TRUE
    OBVIOUS
  <2>3. n - k \in T
    BY <2>2
  <2> QED BY <2>1, <2>3
<1> DEFINE R == {ss \in Nat \X Nat : ss[1] < ss[2]}
<1>2. IsWellFoundedOn(R, Nat)
  BY NatLessThanWellFounded DEF OpToRel
<1>3. PICK x \in T : \A y \in T : ~(y < x)
  <2> HIDE DEF R, T
  <2>1. PICK x \in T : \A y \in T : ~(<<y, x>> \in R)
    BY <1>1, <1>2, WFMin
  <2>2. \A y \in T : ~(y < x)
    BY <1>1, <2>1 DEF R
  <2> QED BY <2>2
<1>4. PICK m \in S : x = n - m
  OBVIOUS
<1>5. \A k \in S : n - k \in T
  OBVIOUS
<1> HIDE DEF T
<1>6. \A k \in S : k <= m
  BY <1>3, <1>4, <1>5
<1> QED BY <1>6

\* A retry is put off by some number of rounds.
LEMMA DelayIsNat == \A a \in Nat : RetryDelay(a) \in Nat \ {0}
<1>1. Len(RetryAfter) \in Nat \ {0}
  BY WorkerAssumption, EmptySeq, LenProperties
<1>2. \A i \in 1..Len(RetryAfter) : RetryAfter[i] \in Nat \ {0}
  BY WorkerAssumption, ElementOfSeq
<1> QED BY <1>1, <1>2 DEF RetryDelay

\* The first n changes of the channel, and what they leave.
LEMMA Split ==
    ASSUME Types, NEW n \in 1..Len(feed)
    PROVE  /\ Len(feed) \in Nat
           /\ DOMAIN Batch(n) = 1..n
           /\ \A i \in 1..n : Batch(n)[i] = feed[i] /\ feed[i] \in fed \X Nat
           /\ SubSeq(feed, n + 1, Len(feed)) \in Seq(fed \X Nat)
           /\ Len(SubSeq(feed, n + 1, Len(feed))) = Len(feed) - n
           /\ \A i \in 1..(Len(feed) - n) : SubSeq(feed, n + 1, Len(feed))[i] = feed[n + i]
<1>1. Len(feed) \in Nat /\ feed \in Seq(fed \X Nat)
  BY LenProperties DEF Types
<1>2. \A i \in 1..Len(feed) : feed[i] \in fed \X Nat
  BY <1>1, ElementOfSeq
<1>3. /\ Batch(n) \in Seq(fed \X Nat) /\ Len(Batch(n)) = n
      /\ \A i \in 1..n : Batch(n)[i] = feed[i]
  <2>1. \A i \in 1..n : feed[i] \in fed \X Nat
    BY <1>1, <1>2
  <2> QED BY <1>1, <2>1, SubSeqProperties DEF Batch
<1>4. DOMAIN Batch(n) = 1..n
  BY <1>3, LenProperties
<1> DEFINE rest == SubSeq(feed, n + 1, Len(feed))
<1>5. /\ rest \in Seq(fed \X Nat)
      /\ Len(rest) = IF n + 1 <= Len(feed) THEN Len(feed) - (n + 1) + 1 ELSE 0
      /\ \A i \in 1..(Len(feed) - (n + 1) + 1) : rest[i] = feed[n + 1 + i - 1]
  <2>1. \A i \in (n + 1)..Len(feed) : feed[i] \in fed \X Nat
    BY <1>1, <1>2
  <2>2. n + 1 \in Int /\ Len(feed) \in Int
    BY <1>1
  <2> QED BY <2>1, <2>2, SubSeqProperties
<1> HIDE DEF rest
<1>6. Len(rest) = Len(feed) - n
  BY <1>1, <1>5
<1>7. \A i \in 1..(Len(feed) - n) : rest[i] = feed[n + i]
  BY <1>1, <1>5
<1> QED BY <1>1, <1>2, <1>3, <1>4, <1>5, <1>6, <1>7, SMTT(30) DEF rest

\* What the index is given of a source is the last the batch tells of it.
LEMMA NewestIsLast ==
    ASSUME Types, NEW n \in 1..Len(feed), NEW s \in Applied(Batch(n))
    PROVE  \E k \in 1..n :
              /\ feed[k][1] = s /\ feed[k][2] # 0
              /\ Newest(Batch(n), s) = feed[k][2]
              /\ \A j \in 1..n : feed[j][1] = s /\ feed[j][2] # 0 => j <= k
<1> DEFINE b == Batch(n)
<1> DEFINE at == {i \in DOMAIN b : b[i][1] = s /\ b[i][2] # 0}
<1>1. /\ DOMAIN b = 1..n
      /\ \A i \in 1..n : b[i] = feed[i]
  BY Split
<1>2. n \in Nat /\ at \in SUBSET (1..n) /\ at # {}
  <2>1. \E i \in DOMAIN b : b[i][1] = s /\ b[i][2] # 0
    BY DEF Applied
  <2> QED BY <1>1, <2>1, LenProperties DEF Types
<1>3. \E i \in at : \A j \in at : j <= i
  <2> HIDE DEF at
  <2> QED BY <1>2, HasLast
<1> DEFINE k == CHOOSE i \in at : \A j \in at : j <= i
<1>4. k \in at /\ \A j \in at : j <= k
  BY <1>3
<1>5. Newest(b, s) = b[k][2]
  BY DEF Newest
<1> HIDE DEF k
<1>6. k \in 1..n /\ b[k] = feed[k] /\ feed[k][1] = s /\ feed[k][2] # 0
  BY <1>1, <1>4
<1>7. \A j \in 1..n : feed[j][1] = s /\ feed[j][2] # 0 => j <= k
  BY <1>1, <1>4
<1> QED BY <1>5, <1>6, <1>7

-----------------------------------------------------------------------------
\* Retries stay well formed whichever is added, widened, dropped or comes nearer.
LEMMA RetriesTyped ==
    ASSUME Types
    PROVE  /\ \A s \in Sources : ScheduleRetry(retries, s) \in
                                   [DOMAIN ScheduleRetry(retries, s) -> Retry]
           /\ \A s \in Sources : DOMAIN ScheduleRetry(retries, s) = DOMAIN retries \cup {s}
           /\ \A s \in Sources : ScheduleRetry(retries, s)[s] \in Retry
           /\ \A s \in DOMAIN retries :
                 Widens(s) \in Retry /\ Widens(s).attempt > 0 /\ Widens(s).left # 0
<1>1. RetryDelay(0) \in Nat
  BY DelayIsNat
<1>2. ASSUME NEW s \in Sources
      PROVE  /\ ScheduleRetry(retries, s) \in [DOMAIN ScheduleRetry(retries, s) -> Retry]
             /\ DOMAIN ScheduleRetry(retries, s) = DOMAIN retries \cup {s}
             /\ ScheduleRetry(retries, s)[s] \in Retry
  BY <1>1 DEF ScheduleRetry, Types, Retry
<1>3. ASSUME NEW s \in DOMAIN retries
      PROVE  Widens(s) \in Retry /\ Widens(s).attempt > 0 /\ Widens(s).left # 0
  <2>1. retries[s].attempt \in Nat
    BY DEF Types, Retry
  <2>2. RetryDelay(retries[s].attempt + 1) \in Nat \ {0}
    BY <2>1, DelayIsNat
  <2>3. Len(RetryAfter) \in Nat \ {0}
    BY WorkerAssumption, EmptySeq, LenProperties
  <2> QED BY <2>1, <2>2, <2>3 DEF Widens, Retry
<1> QED BY <1>2, <1>3

LEMMA TypesStep ==
    ASSUME Types, Phases, [Next]_workVars
    PROVE  Types'
<1>1. ASSUME NEW s \in Sources, DiskChanges(s) PROVE Types'
  <2>1. disk' \in [Sources -> Nat \ {0}]
    BY <1>1 DEF DiskChanges, Types
  <2>2. feed' \in Seq(fed \X Nat)
    <3>1. CASE s \in fed
      <4>1. disk'[s] \in Nat /\ 0 \in Nat
        BY <2>1
      <4>2. <<s, disk'[s]>> \in fed \X Nat /\ <<s, 0>> \in fed \X Nat
        BY <3>1, <4>1
      <4>3. feed \in Seq(fed \X Nat)
        BY DEF Types
      <4>4. feed' = Append(feed, <<s, disk'[s]>>) \/ feed' = Append(feed, <<s, 0>>)
        BY <1>1, <3>1 DEF DiskChanges, Forward
      <4>5. \A e \in fed \X Nat : Append(feed, e) \in Seq(fed \X Nat)
        BY <4>3, AppendProperties
      <4> QED BY <4>2, <4>4, <4>5
    <3>2. CASE s \notin fed
      BY <1>1, <3>2 DEF DiskChanges, Forward, Types
    <3> QED BY <3>1, <3>2
  <2> QED BY <1>1, <2>1, <2>2 DEF DiskChanges, Types, store, owing
<1>2. ASSUME NEW n \in 1..Len(feed), TakeChanges(n) PROVE Types'
  <2>1. feed' \in Seq(fed \X Nat)
    BY <1>2, Split DEF TakeChanges
  <2>2. staged' \in [Sources -> Nat]
    <3>1. \A s \in Applied(Batch(n)) : Newest(Batch(n), s) \in Nat
      <4>1. \A k \in 1..n : feed[k] \in fed \X Nat
        BY Split
      <4> QED BY <4>1, NewestIsLast
    <3>2. staged' = staged \/ staged' = [s \in Sources |-> IF s \in Applied(Batch(n))
                                                           THEN Newest(Batch(n), s) ELSE staged[s]]
      BY <1>2 DEF TakeChanges
    <3>3. staged \in [Sources -> Nat]
      BY DEF Types
    <3> QED BY <3>1, <3>2, <3>3
  <2>3. DOMAIN retries' \subseteq Sources /\ retries' \in [DOMAIN retries' -> Retry]
    <3>1. Refused \in [Sources -> Retry]
      BY RetriesTyped DEF Refused
    <3> QED BY <1>2, <3>1 DEF TakeChanges, Types
  <2> QED BY <1>2, <2>1, <2>2, <2>3 DEF TakeChanges, Types
<1>3. ASSUME NEW s \in Sources, TakeWalk(s) PROVE Types'
  BY <1>3 DEF TakeWalk, Types, Walk, world, flags, clocks
<1>4. ASSUME NEW s \in Sources, BeginWalk(s) PROVE Types'
  BY <1>4 DEF BeginWalk, Types, Walk, world, flags, clocks, owing, turn
<1>5. ASSUME NEW ok \in BOOLEAN, EndWalk(ok) PROVE Types'
  <2>1. walk \in Walk
    BY <1>5 DEF EndWalk, Types
  <2>2. staged' \in [Sources -> Nat]
    BY <1>5, <2>1 DEF EndWalk, FoundFully, Types, Walk
  <2>3. DOMAIN retries' \subseteq Sources /\ retries' \in [DOMAIN retries' -> Retry]
    <3>1. walk.source \in Sources
      BY <2>1 DEF Walk
    <3>2. CASE ok
      <4>1. retries' = Without(retries, {walk.source}) \/ retries' = retries
        BY <1>5, <3>2 DEF EndWalk, AfterWalk
      <4> QED BY <4>1 DEF Without, Types
    <3>3. CASE ~ok /\ walk.for = "retrying"
      <4>1. walk.source \in DOMAIN retries
        BY <1>5, <3>3 DEF EndWalk, Phases
      <4>2. retries' = [retries EXCEPT ![walk.source] = Widens(walk.source)]
        BY <1>5, <3>3 DEF EndWalk, AfterWalk
      <4> QED BY <4>1, <4>2, RetriesTyped DEF Types
    <3>4. CASE ~ok /\ walk.for # "retrying"
      <4>1. retries' = ScheduleRetry(retries, walk.source)
        BY <1>5, <3>4 DEF EndWalk, AfterWalk
      <4>2. DOMAIN retries' = DOMAIN retries \cup {walk.source}
        BY <3>1, <4>1, RetriesTyped
      <4>3. retries' \in [DOMAIN retries' -> Retry]
        BY <3>1, <4>1, RetriesTyped
      <4> QED BY <3>1, <4>2, <4>3 DEF Types
    <3> QED BY <3>2, <3>3, <3>4
  <2> QED BY <1>5, <2>2, <2>3 DEF EndWalk, Types, world
<1>6. CASE Tick
  <2>1. retries' \in [DOMAIN retries -> Retry] /\ DOMAIN retries' = DOMAIN retries
    <3>1. \A s \in DOMAIN retries :
             [retries[s] EXCEPT !.left = IF @ = 0 THEN 0 ELSE @ - 1] \in Retry
      <4>1. \A r \in Retry : [r EXCEPT !.left = IF @ = 0 THEN 0 ELSE @ - 1] \in Retry
        BY DEF Retry
      <4> QED BY <4>1 DEF Types
    <3> QED BY <1>6, <3>1 DEF Tick
  <2> QED BY <1>6, <2>1 DEF Tick, Types, store, world
<1>7. CASE \/ \E s \in Sources : Rescan(s)
           \/ TakeMaintenance \/ Shutdown \/ Wakes \/ TakeStop
           \/ \E due \in SUBSET lost : BeginWalks(due)
           \/ BeginNudges \/ Publishes \/ Persists \/ Compacts \/ Idles
           \/ UNCHANGED workVars
  <2>1. UNCHANGED <<disk, staged, feed, fed, retries, walk>> /\ shown' \in {shown, staged}
    BY <1>7 DEF Rescan, TakeMaintenance, Shutdown, Wakes, TakeStop, BeginWalks, BeginNudges,
                Publishes, Persists, Compacts, Idles, Flushes, workVars, store, owing, world
  <2> QED BY <2>1 DEF Types
<1> QED BY <1>1, <1>2, <1>3, <1>4, <1>5, <1>6, <1>7 DEF Next, WorkerStep

LEMMA PhasesStep ==
    ASSUME Types, Phases, [Next]_workVars
    PROVE  Phases'
<1>1. ASSUME NEW s \in Sources, DiskChanges(s) \/ Rescan(s) PROVE Phases'
  BY <1>1 DEF DiskChanges, Rescan, Phases, owing
<1>2. CASE TakeMaintenance \/ Shutdown \/ Wakes \/ TakeStop
  BY <1>2 DEF TakeMaintenance, Shutdown, Wakes, TakeStop, Phases, owing, Turns, Goes
<1>3. ASSUME NEW n \in 1..Len(feed), TakeChanges(n) PROVE Phases'
  BY <1>3 DEF TakeChanges, Phases, Turns, Goes
<1>4. ASSUME NEW s \in Sources, TakeWalk(s) PROVE Phases'
  <2>1. walk'.for = "job" /\ phase' = "job"
    BY <1>4 DEF TakeWalk, Goes
  <2> QED BY <1>4, <2>1 DEF TakeWalk, Phases
<1>5. ASSUME NEW s \in Sources, BeginWalk(s) PROVE Phases'
  <2>1. walk'.for = phase /\ walk'.source = s /\ s \in todo
    BY <1>5 DEF BeginWalk
  <2> QED BY <1>5, <2>1 DEF BeginWalk, Phases, owing
<1>6. ASSUME NEW ok \in BOOLEAN, EndWalk(ok) PROVE Phases'
  <2>1. walk \in Walk /\ phase = walk.for /\ walk' = NoWalk
    BY <1>6 DEF EndWalk, Types, Phases
  <2>2. CASE walk.for = "job"
    BY <1>6, <2>1, <2>2 DEF EndWalk, Phases, Goes
  <2>3. CASE walk.for # "job" /\ phase # "retrying"
    BY <1>6, <2>1, <2>3 DEF EndWalk, Phases
  <2>4. CASE phase = "retrying"
    <3>1. DOMAIN retries \ {walk.source} \subseteq DOMAIN retries'
      BY <1>6, <2>1, <2>4 DEF EndWalk, AfterWalk, Without
    <3>2. todo' = todo /\ todo \subseteq DOMAIN retries \ {walk.source}
      BY <1>6, <2>1, <2>4 DEF EndWalk, Phases
    <3> QED BY <1>6, <2>1, <2>4, <3>1, <3>2 DEF EndWalk, Phases
  <2> QED BY <2>2, <2>3, <2>4
<1>7. ASSUME NEW due \in SUBSET lost, BeginWalks(due) PROVE Phases'
  BY <1>7 DEF BeginWalks, Ready, Goes, Phases
<1>8. CASE BeginNudges \/ Publishes
  BY <1>8 DEF BeginNudges, Publishes, Ready, Goes, Phases, owing
<1>9. CASE Persists
  <2>1. todo' \subseteq DOMAIN retries' /\ phase' = "retrying" /\ walk' = NoWalk
    BY <1>9 DEF Persists, Ready, Goes, owing, RetryDue
  <2> QED BY <2>1 DEF Phases
<1>10. CASE Compacts \/ Idles
  BY <1>10 DEF Compacts, Idles, Ready, Goes, Phases, owing
<1>11. CASE Tick
  <2>1. UNCHANGED <<phase, todo, walk>> /\ DOMAIN retries' = DOMAIN retries
    BY <1>11 DEF Tick
  <2> QED BY <2>1 DEF Phases
<1>12. CASE UNCHANGED workVars
  BY <1>12 DEF workVars, Phases
<1> QED BY <1>1, <1>2, <1>3, <1>4, <1>5, <1>6, <1>7, <1>8, <1>9, <1>10, <1>11, <1>12
        DEF Next, WorkerStep

-----------------------------------------------------------------------------
\* Only a change of a source and the worker's taking of changes move the channel.
LEMMA ChannelMoves ==
    ASSUME [Next]_workVars
    PROVE  \/ \E s \in Sources : DiskChanges(s)
           \/ \E n \in 1..Len(feed) : TakeChanges(n)
           \/ UNCHANGED <<disk, feed>>
<1>1. ASSUME NEW s \in Sources, Rescan(s) \/ TakeWalk(s) \/ BeginWalk(s)
      PROVE  UNCHANGED <<disk, feed>>
  BY <1>1 DEF Rescan, TakeWalk, BeginWalk, world
<1>2. ASSUME \/ \E ok \in BOOLEAN : EndWalk(ok)
             \/ \E due \in SUBSET lost : BeginWalks(due)
             \/ TakeMaintenance \/ Shutdown \/ Wakes \/ TakeStop \/ BeginNudges
      PROVE  UNCHANGED <<disk, feed>>
  BY <1>2 DEF EndWalk, BeginWalks, TakeMaintenance, Shutdown, Wakes, TakeStop, BeginNudges, world
<1>3. ASSUME Publishes \/ Persists \/ Compacts \/ Idles \/ Tick \/ UNCHANGED workVars
      PROVE  UNCHANGED <<disk, feed>>
  BY <1>3 DEF Publishes, Persists, Compacts, Idles, Tick, world, workVars
<1> QED BY <1>1, <1>2, <1>3 DEF Next, WorkerStep

\* A change of a watched source is told at the end of the channel; of any other, by
\* its pulse.
LEMMA ChangeIsTold ==
    ASSUME Types, NEW s \in Sources, DiskChanges(s)
    PROVE  /\ Len(feed) \in Nat /\ Len(feed') \in {Len(feed), Len(feed) + 1}
           /\ \A i \in 1..Len(feed) : feed'[i] = feed[i] /\ feed[i] \in fed \X Nat
           /\ \A q \in Sources \ {s} : disk'[q] = disk[q]
           /\ s \in fed => Len(feed') = Len(feed) + 1 /\ Tells(Len(feed), s)'
           /\ s \notin fed => feed' = feed /\ s \in stirred'
<1>1. /\ feed \in Seq(fed \X Nat) /\ Len(feed) \in Nat
      /\ \A i \in 1..Len(feed) : feed[i] \in fed \X Nat
  BY LenProperties, ElementOfSeq DEF Types
<1>2. \A q \in Sources \ {s} : disk'[q] = disk[q]
  BY DEF DiskChanges, Types
<1>3. CASE s \notin fed
  BY <1>1, <1>2, <1>3 DEF DiskChanges, Forward
<1>4. CASE s \in fed
  <2>1. disk'[s] \in Nat
    BY DEF DiskChanges, Types
  <2>2. PICK v \in {disk'[s], 0} : feed' = Append(feed, <<s, v>>)
    BY <1>4 DEF DiskChanges, Forward
  <2>3. <<s, v>> \in fed \X Nat
    BY <1>4, <2>1
  <2>4. /\ Len(feed') = Len(feed) + 1 /\ feed'[Len(feed) + 1] = <<s, v>>
        /\ \A i \in 1..Len(feed) : feed'[i] = feed[i]
    <3>1. \A e \in fed \X Nat :
             /\ Len(Append(feed, e)) = Len(feed) + 1
             /\ \A i \in 1..Len(feed) : Append(feed, e)[i] = feed[i]
             /\ Append(feed, e)[Len(feed) + 1] = e
      BY <1>1, AppendProperties
    <3> QED BY <2>2, <2>3, <3>1
  <2>5. Tells(Len(feed), s)'
    BY <2>4 DEF Tells
  <2> QED BY <1>1, <1>2, <1>4, <2>4, <2>5
<1> QED BY <1>3, <1>4

LEMMA LastWordStep ==
    ASSUME Types, LastWord, [Next]_workVars
    PROVE  LastWord'
<1>1. ASSUME NEW s \in Sources, DiskChanges(s) PROVE LastWord'
  <2>1. SUFFICES ASSUME NEW i \in 1..Len(feed')
                 PROVE  \E j \in i..Len(feed') : Tells(j, feed[i][1])'
    BY DEF LastWord
  <2>2. CASE i \in 1..Len(feed) /\ feed[i][1] # s
    <3>1. PICK j \in i..Len(feed) : Tells(j, feed[i][1])
      BY <2>2 DEF LastWord
    <3>2. feed[i][1] \in Sources /\ feed'[i] = feed[i] /\ feed'[j] = feed[j]
      <4>0. Len(feed) \in Nat
        BY <1>1, ChangeIsTold
      <4>1. fed \subseteq Sources
        BY DEF Types
      <4>3. j \in 1..Len(feed)
        BY <2>2, <4>0
      <4>2. feed[i] \in fed \X Nat
        BY <1>1, <2>2, ChangeIsTold
      <4> QED BY <1>1, <2>2, <4>1, <4>2, <4>3, ChangeIsTold
    <3>3. disk'[feed[i][1]] = disk[feed[i][1]]
      BY <1>1, <2>2, <3>2, ChangeIsTold
    <3>4. Tells(j, feed[i][1])'
      BY <3>1, <3>2, <3>3 DEF Tells
    <3>5. j \in i..Len(feed')
      BY <1>1, ChangeIsTold
    <3> QED BY <3>4, <3>5
  <2>3. CASE i \in 1..Len(feed) /\ feed[i][1] = s
    <3>1. feed'[i][1] = s /\ s \in fed
      BY <1>1, <2>3, ChangeIsTold
    <3>2. Tells(Len(feed), s)' /\ Len(feed') \in i..Len(feed')
      BY <1>1, <2>3, <3>1, ChangeIsTold
    <3> QED BY <3>1, <3>2
  <2>4. CASE i \notin 1..Len(feed)
    <3>1. s \in fed /\ i = Len(feed')
      BY <1>1, <2>4, ChangeIsTold
    <3>2. Tells(Len(feed), s)' /\ Len(feed') \in i..Len(feed')
      BY <1>1, <3>1, ChangeIsTold
    <3>3. feed'[i][1] = s
      BY <3>1, <3>2 DEF Tells
    <3> QED BY <3>2, <3>3
  <2> QED BY <2>2, <2>3, <2>4
<1>2. ASSUME NEW n \in 1..Len(feed), TakeChanges(n) PROVE LastWord'
  <2>1. /\ Len(feed) \in Nat /\ Len(feed') = Len(feed) - n /\ disk' = disk
        /\ \A i \in 1..(Len(feed) - n) : feed'[i] = feed[n + i]
    BY <1>2, Split DEF TakeChanges
  <2>2. SUFFICES ASSUME NEW i \in 1..Len(feed')
                 PROVE  \E j \in i..Len(feed') : Tells(j, feed[i][1])'
    BY DEF LastWord
  <2>3. PICK j \in (n + i)..Len(feed) : Tells(j, feed[n + i][1])
    <3>1. n + i \in 1..Len(feed)
      BY <2>1
    <3> QED BY <3>1 DEF LastWord
  <2>4. j - n \in i..Len(feed') /\ n + (j - n) = j /\ j - n \in 1..(Len(feed) - n)
    BY <2>1
  <2>5. feed'[j - n] = feed[j] /\ feed'[i] = feed[n + i]
    BY <2>1, <2>4
  <2>6. Tells(j - n, feed[i][1])'
    BY <2>1, <2>3, <2>5 DEF Tells
  <2> QED BY <2>4, <2>6
<1>3. CASE UNCHANGED <<disk, feed>>
  BY <1>3 DEF LastWord, Tells
<1> QED BY <1>1, <1>2, <1>3, ChannelMoves

\* A change of one source leaves what is told of the others.
LEMMA ToldStays ==
    ASSUME Types, NEW s \in Sources, DiskChanges(s)
    PROVE  /\ \A q \in Sources \ {s} : Told(q) => Told(q)'
           /\ Told(s)' \/ s \in stirred'
<1>1. ASSUME NEW q \in Sources \ {s}, Told(q) PROVE Told(q)'
  <2>1. PICK j \in 1..Len(feed) : Tells(j, q)
    BY <1>1 DEF Told
  <2>2. feed'[j] = feed[j] /\ disk'[q] = disk[q] /\ j \in 1..Len(feed')
    BY ChangeIsTold
  <2>3. Tells(j, q)'
    BY <2>1, <2>2 DEF Tells
  <2> QED BY <2>2, <2>3 DEF Told
<1>2. CASE s \in fed
  <2>1. Tells(Len(feed), s)' /\ Len(feed') \in 1..Len(feed')
    BY <1>2, ChangeIsTold
  <2> QED BY <1>1, <2>1 DEF Told
<1>3. CASE s \notin fed
  BY <1>1, <1>3, ChangeIsTold
<1> QED BY <1>1, <1>2, <1>3

LEMMA ReadOrToldStep ==
    ASSUME Types, ReadOrTold, [Next]_workVars
    PROVE  ReadOrTold'
<1>1. ASSUME NEW s \in Sources, DiskChanges(s) PROVE ReadOrTold'
  <2>1. walk' = walk
    BY <1>1 DEF DiskChanges
  <2>2. CASE walk # NoWalk /\ walk.source # s /\ walk.source \in Sources
    <3>1. disk'[walk.source] = disk[walk.source]
      BY <1>1, <2>2, ChangeIsTold
    <3>2. Told(walk.source) => Told(walk.source)'
      <4>1. \A q \in Sources \ {s} : Told(q) => Told(q)'
        BY <1>1, ToldStays
      <4>2. ASSUME NEW q, q = walk.source, Told(q) PROVE Told(q)'
        BY <2>2, <4>1, <4>2
      <4> QED BY <2>1, <4>2 DEF Told, Tells
    <3>3. stirred \subseteq stirred'
      BY <1>1 DEF DiskChanges
    <3> QED BY <2>1, <3>1, <3>2, <3>3 DEF ReadOrTold, Told, Tells
  <2>3. CASE walk # NoWalk /\ walk.source = s
    <3>1. Told(s)' \/ s \in stirred'
      BY <1>1, ToldStays
    <3> QED BY <2>1, <2>3, <3>1 DEF ReadOrTold, Told, Tells
  <2>4. walk # NoWalk => walk.source \in Sources
    BY DEF Types, Walk
  <2> QED BY <2>1, <2>2, <2>3, <2>4 DEF ReadOrTold
<1>2. ASSUME NEW s \in Sources, TakeWalk(s) \/ BeginWalk(s) PROVE ReadOrTold'
  <2>1. walk'.read = disk[s] /\ walk'.source = s /\ disk' = disk
    BY <1>2 DEF TakeWalk, BeginWalk, world
  <2> QED BY <2>1 DEF ReadOrTold
<1>3. CASE \/ \E n \in 1..Len(feed) : TakeChanges(n)
           \/ \E ok \in BOOLEAN : EndWalk(ok)
           \/ BeginNudges
  <2>1. walk' = NoWalk
    BY <1>3 DEF TakeChanges, EndWalk, BeginNudges, Ready
  <2> QED BY <2>1 DEF ReadOrTold
<1>4. CASE \/ \E s \in Sources : Rescan(s)
           \/ \E due \in SUBSET lost : BeginWalks(due)
           \/ TakeMaintenance \/ Shutdown \/ Wakes \/ TakeStop
           \/ Publishes \/ Persists \/ Compacts \/ Idles \/ Tick \/ UNCHANGED workVars
  <2>1. UNCHANGED <<walk, disk, feed, stirred>>
    BY <1>4 DEF Rescan, BeginWalks, TakeMaintenance, Shutdown, Wakes, TakeStop, Publishes,
                Persists, Compacts, Idles, Tick, world, workVars
  <2> QED BY <2>1 DEF ReadOrTold, Told, Tells
<1> QED BY <1>1, <1>2, <1>3, <1>4 DEF Next, WorkerStep

-----------------------------------------------------------------------------
\* An engine that has ended stays so.
LEMMA EndsForGood ==
    ASSUME Types, Phases, [Next]_workVars, phase' # "ended"
    PROVE  phase # "ended"
<1>1. ASSUME NEW s \in Sources, DiskChanges(s) \/ Rescan(s) \/ Shutdown \/ UNCHANGED workVars
      PROVE  phase' = phase
  BY <1>1 DEF DiskChanges, Rescan, Shutdown, workVars
<1>2. walk # NoWalk => phase # "ended"
  BY DEF Types, Phases, Walk
<1>3. ASSUME \/ \E s \in Sources : TakeWalk(s) \/ BeginWalk(s)
             \/ \E n \in 1..Len(feed) : TakeChanges(n)
             \/ \E due \in SUBSET lost : BeginWalks(due)
             \/ TakeMaintenance \/ Wakes \/ TakeStop \/ BeginNudges
             \/ Publishes \/ Persists \/ Compacts \/ Idles
      PROVE  phase # "ended"
  BY <1>3 DEF TakeWalk, BeginWalk, TakeChanges, BeginWalks, TakeMaintenance, Wakes, TakeStop,
              BeginNudges, Publishes, Persists, Compacts, Idles, Ready
<1>4. ASSUME Tick \/ (\E ok \in BOOLEAN : EndWalk(ok)) PROVE phase # "ended"
  BY <1>2, <1>4 DEF Tick, EndWalk
<1>5. CASE Shutdown \/ UNCHANGED workVars
  BY <1>5 DEF Shutdown, workVars
<1> QED BY <1>1, <1>3, <1>4, <1>5 DEF Next, WorkerStep

\* A step that stages nothing, keeps what is owed and drops `dirty' only when it shows
\* what is staged leaves a source safe.
LEMMA SafeKept ==
    ASSUME NEW s \in Sources, Safe(s), UNCHANGED <<disk, staged>>, Owed(s) => Owed(s)',
           shown' = staged \/ (shown' = shown /\ (dirty => dirty'))
    PROVE  Safe(s)'
<1>1. CASE staged[s] # disk[s]
  BY <1>1 DEF Safe
<1>2. CASE staged[s] = disk[s] /\ shown' = staged
  BY <1>2 DEF Safe
<1>3. CASE staged[s] = disk[s] /\ shown' = shown /\ (dirty => dirty')
  BY <1>3 DEF Safe
<1> QED BY <1>1, <1>2, <1>3

LEMMA SafeShown ==
    ASSUME NEW s \in Sources, Safe(s), UNCHANGED <<disk, staged>>, Owed(s) => Owed(s)',
           shown' = staged
    PROVE  Safe(s)'
BY DEF Safe

LEMMA NoneForgottenChange ==
    ASSUME WorkerInv, NEW s \in Sources, DiskChanges(s), phase # "ended", NEW q \in Sources
    PROVE  Safe(q)'
<1>1. UNCHANGED <<staged, shown, queued, lost, retries, todo, walk, dirty>> /\ stirred \subseteq stirred'
  BY DEF DiskChanges, store, owing, flags
<1>2. CASE q = s
  <2>1. Told(s)' \/ s \in stirred'
    BY ToldStays DEF WorkerInv
  <2>2. Owed(s)'
    BY <2>1 DEF Owed, Waits
  <2> QED BY <1>2, <2>2 DEF Safe
<1>3. CASE q # s
  <2>1. disk'[q] = disk[q] /\ (Told(q) => Told(q)')
    BY <1>3, ToldStays, ChangeIsTold DEF WorkerInv
  <2>2. Waits(q) => Waits(q)'
    BY <1>1 DEF Waits
  <2>3. Reads(q) => Reads(q)'
    BY <1>1, <2>1 DEF Reads
  <2>4. Owed(q) => Owed(q)'
    BY <2>1, <2>2, <2>3 DEF Owed
  <2>5. Safe(q)
    BY DEF WorkerInv, NoneForgotten
  <2> QED BY <1>1, <2>1, <2>4, <2>5 DEF Safe
<1> QED BY <1>2, <1>3

LEMMA NoneForgottenTake ==
    ASSUME WorkerInv, NEW n \in 1..Len(feed), TakeChanges(n), NEW q \in Sources
    PROVE  Safe(q)'
<1> DEFINE b == Batch(n)
<1>1. /\ Len(feed) \in Nat /\ Len(feed') = Len(feed) - n
      /\ \A i \in 1..(Len(feed) - n) : feed'[i] = feed[n + i]
      /\ DOMAIN b = 1..n
      /\ \A i \in 1..n : b[i] = feed[i] /\ feed[i] \in fed \X Nat
  BY Split DEF WorkerInv, TakeChanges
<1>2. /\ UNCHANGED <<disk, shown, queued, stirred, todo>> /\ lost \subseteq lost'
      /\ walk = NoWalk /\ Asked(b) \subseteq lost'
      /\ DOMAIN retries \subseteq DOMAIN retries' /\ (dirty => dirty')
  <2>1. /\ UNCHANGED <<disk, shown, queued, stirred, todo>> /\ lost' = lost \cup Asked(b)
        /\ walk = NoWalk
    BY DEF TakeChanges
  <2>2. DOMAIN retries \subseteq DOMAIN retries'
    <3>1. retries' = retries \/ retries' = Refused
      BY DEF TakeChanges
    <3>2. DOMAIN Refused = Sources /\ DOMAIN retries \subseteq Sources
      BY DEF Refused, WorkerInv, Types
    <3> QED BY <3>1, <3>2
  <2>3. dirty' = dirty \/ dirty' = TRUE
    BY DEF TakeChanges
  <2>4. dirty => dirty'
    BY <2>3
  <2> QED BY <2>1, <2>2, <2>4
<1>3. Safe(q)
  BY DEF TakeChanges, WorkerInv, NoneForgotten
<1>4. Waits(q) => Waits(q)'
  BY <1>2 DEF Waits
<1>5. ASSUME NEW j \in (n + 1)..Len(feed), Tells(j, q) PROVE Owed(q)'
  <2>1. j - n \in 1..Len(feed') /\ feed'[j - n] = feed[j]
    BY <1>1
  <2>2. Tells(j - n, q)'
    BY <1>2, <1>5, <2>1 DEF Tells
  <2> QED BY <2>1, <2>2 DEF Told, Owed
<1>6. CASE q \in Asked(b)
  BY <1>2, <1>6 DEF Safe, Owed, Waits
<1>7. CASE q \in Applied(b) /\ q \notin Asked(b)
  <2>1. CASE staged' # [s \in Sources |-> IF s \in Applied(b) THEN Newest(b, s) ELSE staged[s]]
    <3>1. retries' = Refused
      BY <1>7, <2>1 DEF TakeChanges
    <3> QED BY <3>1 DEF Refused, Safe, Owed, Waits
  <2>2. CASE staged' = [s \in Sources |-> IF s \in Applied(b) THEN Newest(b, s) ELSE staged[s]]
    <3>1. PICK k \in 1..n :
             /\ feed[k][1] = q /\ feed[k][2] # 0
             /\ Newest(b, q) = feed[k][2]
             /\ \A j \in 1..n : feed[j][1] = q /\ feed[j][2] # 0 => j <= k
      BY <1>7, NewestIsLast DEF WorkerInv
    <3>2. PICK j \in k..Len(feed) : Tells(j, feed[k][1])
      BY <1>1 DEF WorkerInv, LastWord
    <3>3. CASE j \in (n + 1)..Len(feed)
      BY <1>5, <3>1, <3>2, <3>3 DEF Safe
    <3>4. CASE j \in 1..n
      <4>1. b[j] # <<q, 0>>
        BY <1>1, <1>7, <3>4 DEF Asked
      <4>2. feed[j] = <<q, disk[q]>> /\ disk[q] # 0
        BY <1>1, <3>1, <3>2, <3>4, <4>1 DEF Tells, WorkerInv, Types
      <4>3. j = k
        BY <1>1, <3>1, <4>2, <3>4
      <4>4. staged'[q] = disk[q]
        BY <1>7, <2>2, <3>1, <4>2, <4>3
      <4>5. dirty'
        BY <1>7 DEF TakeChanges
      <4> QED BY <1>2, <4>4, <4>5 DEF Safe
    <3> QED BY <1>1, <3>3, <3>4
  <2> QED BY <2>1, <2>2
<1>8. CASE q \notin Applied(b) /\ q \notin Asked(b)
  <2>1. staged'[q] = staged[q]
    BY <1>8 DEF TakeChanges, WorkerInv, Types
  <2>2. ASSUME Told(q) PROVE Owed(q)'
    <3>1. PICK j \in 1..Len(feed) : Tells(j, q)
      BY <2>2 DEF Told
    <3>2. disk[q] # 0
      BY DEF WorkerInv, Types
    <3>3. j \notin 1..n
      <4>1. SUFFICES ASSUME j \in 1..n PROVE FALSE
        OBVIOUS
      <4>2. j \in DOMAIN b /\ b[j] \in {<<q, disk[q]>>, <<q, 0>>}
        BY <1>1, <3>1, <4>1 DEF Tells
      <4>3. CASE b[j] = <<q, 0>>
        BY <1>8, <4>2, <4>3 DEF Asked
      <4>4. CASE b[j] = <<q, disk[q]>>
        BY <1>8, <3>2, <4>2, <4>4 DEF Applied
      <4> QED BY <4>2, <4>3, <4>4
    <3> QED BY <1>1, <1>5, <3>1, <3>3
  <2>3. ~Reads(q)
    BY <1>2 DEF Reads
  <2>4. Owed(q) => Owed(q)'
    BY <1>4, <2>2, <2>3 DEF Owed
  <2> QED BY <1>2, <1>3, <2>1, <2>4 DEF Safe
<1> QED BY <1>6, <1>7, <1>8

LEMMA NoneForgottenWalked ==
    ASSUME WorkerInv, NEW ok \in BOOLEAN, EndWalk(ok), NEW q \in Sources
    PROVE  Safe(q)'
<1>1. /\ UNCHANGED <<disk, feed, shown, queued, lost, stirred, todo>>
      /\ walk \in Walk /\ phase = walk.for
      /\ DOMAIN retries \ {walk.source} \subseteq DOMAIN retries'
  <2>1. UNCHANGED <<disk, feed, shown, queued, lost, stirred, todo>> /\ walk \in Walk
        /\ phase = walk.for
    BY DEF EndWalk, world, WorkerInv, Types, Phases
  <2>2. CASE ok
    <3>1. retries' = Without(retries, {walk.source}) \/ retries' = retries
      BY <2>2 DEF EndWalk, AfterWalk
    <3> QED BY <2>1, <3>1 DEF Without
  <2>3. CASE ~ok
    <3>1. \/ retries' = [retries EXCEPT ![walk.source] = Widens(walk.source)]
          \/ retries' = ScheduleRetry(retries, walk.source)
      BY <2>3 DEF EndWalk, AfterWalk
    <3> QED BY <2>1, <3>1 DEF ScheduleRetry
  <2> QED BY <2>2, <2>3
<1>2. Safe(q)
  <2>1. phase # "ended"
    BY <1>1 DEF Walk
  <2> QED BY <2>1 DEF WorkerInv, NoneForgotten
<1>3. Told(q) => Told(q)'
  BY <1>1 DEF Told, Tells
<1>4. CASE q # walk.source
  <2>1. staged'[q] = staged[q]
    <3>1. staged' = FoundFully \/ staged' = staged
      BY DEF EndWalk
    <3> QED BY <1>4, <3>1 DEF FoundFully, WorkerInv, Types
  <2>2. dirty' = TRUE \/ dirty' = dirty
    BY DEF EndWalk
  <2>3. Owed(q) => Owed(q)'
    BY <1>1, <1>3, <1>4 DEF Owed, Waits, Reads
  <2> QED BY <1>1, <1>2, <2>1, <2>2, <2>3 DEF Safe
<1>5. CASE q = walk.source /\ ok
  <2>1. staged'[q] = walk.read /\ dirty'
    BY <1>5 DEF EndWalk, FoundFully, DirtyAfter, WorkerInv, Types
  <2>2. walk.read # disk[q] => Owed(q)'
    <3>1. walk.read # disk[q] => Told(q) \/ q \in stirred
      BY <1>1, <1>5, WorkerAssumption DEF WorkerInv, ReadOrTold
    <3> QED BY <1>1, <1>3, <3>1 DEF Owed, Waits
  <2> QED BY <1>1, <2>1, <2>2 DEF Safe
<1>6. CASE q = walk.source /\ ~ok
  <2>1. q \in DOMAIN retries'
    <3>1. CASE walk.for = "retrying"
      <4>1. q \in DOMAIN retries
        BY <1>1, <1>6, <3>1, WorkerAssumption DEF WorkerInv, Phases
      <4> QED BY <1>6, <3>1, <4>1 DEF EndWalk, AfterWalk
    <3>2. CASE walk.for # "retrying"
      BY <1>6, <3>2 DEF EndWalk, AfterWalk, ScheduleRetry
    <3> QED BY <3>1, <3>2
  <2> QED BY <2>1 DEF Safe, Owed, Waits
<1> QED BY <1>4, <1>5, <1>6

LEMMA NoneForgottenStep ==
    ASSUME WorkerInv, [Next]_workVars
    PROVE  NoneForgotten'
<1> SUFFICES ASSUME phase' # "ended", NEW q \in Sources PROVE Safe(q)'
  BY DEF NoneForgotten
<1>1. phase # "ended" /\ Safe(q)
  BY EndsForGood DEF WorkerInv, NoneForgotten
<1>2. ASSUME NEW s \in Sources, DiskChanges(s) PROVE Safe(q)'
  BY <1>1, <1>2, NoneForgottenChange
<1>3. ASSUME NEW n \in 1..Len(feed), TakeChanges(n) PROVE Safe(q)'
  BY <1>3, NoneForgottenTake
<1>4. ASSUME NEW ok \in BOOLEAN, EndWalk(ok) PROVE Safe(q)'
  BY <1>4, NoneForgottenWalked
<1>5. ASSUME NEW s \in Sources, TakeWalk(s) PROVE Safe(q)'
  <2>1. /\ UNCHANGED <<disk, feed, staged, lost, retries, stirred, todo>> /\ shown' = staged
        /\ queued' = queued \ {s} /\ walk = NoWalk
        /\ walk' = [source |-> s, read |-> disk[s], for |-> "job"]
    BY <1>5 DEF TakeWalk, world
  <2>2. walk' # NoWalk
    <3>1. disk[s] \in Nat
      BY DEF WorkerInv, Types
    <3>2. walk' \in Walk
      BY <2>1, <3>1 DEF Walk
    <3> QED BY <3>2, WorkerAssumption
  <2>3. Owed(q) => Owed(q)'
    BY <2>1, <2>2 DEF Owed, Told, Tells, Waits, Reads
  <2> QED BY <1>1, <2>1, <2>3, SafeShown
<1>6. ASSUME NEW s \in Sources, BeginWalk(s) PROVE Safe(q)'
  <2>1. /\ UNCHANGED <<disk, feed, staged, queued, lost, retries, stirred>> /\ shown' = staged
        /\ todo' = todo \ {s} /\ walk = NoWalk
        /\ walk' = [source |-> s, read |-> disk[s], for |-> phase]
        /\ phase \in {"walking", "nudging", "retrying"}
    BY <1>6 DEF BeginWalk, world, owing
  <2>2. walk' # NoWalk
    <3>1. disk[s] \in Nat
      BY DEF WorkerInv, Types
    <3>2. walk' \in Walk
      BY <2>1, <3>1 DEF Walk
    <3> QED BY <3>2, WorkerAssumption
  <2>3. Owed(q) => Owed(q)'
    BY <2>1, <2>2 DEF Owed, Told, Tells, Waits, Reads
  <2> QED BY <1>1, <2>1, <2>3, SafeShown
<1>7. ASSUME NEW s \in Sources, Rescan(s) PROVE Safe(q)'
  <2>1. /\ UNCHANGED <<disk, feed, staged, shown, lost, retries, stirred, todo, walk, dirty>>
        /\ queued \subseteq queued'
    BY <1>7 DEF Rescan, store, flags
  <2>2. Owed(q) => Owed(q)'
    BY <2>1 DEF Owed, Told, Tells, Waits, Reads
  <2> QED BY <1>1, <2>1, <2>2, SafeKept
<1>8. ASSUME NEW due \in SUBSET lost, BeginWalks(due) PROVE Safe(q)'
  <2>1. /\ UNCHANGED <<disk, feed, staged, shown, queued, retries, stirred, walk, dirty>>
        /\ lost' = lost \ due /\ todo' = due /\ todo = {}
    BY <1>8 DEF BeginWalks, Ready, store, flags, world, WorkerInv, Phases
  <2>2. Owed(q) => Owed(q)'
    BY <2>1 DEF Owed, Told, Tells, Waits, Reads
  <2> QED BY <1>1, <2>1, <2>2, SafeKept
<1>9. CASE BeginNudges
  <2>1. /\ UNCHANGED <<disk, feed, staged, shown, queued, lost, retries, walk, dirty>>
        /\ todo = {} /\ stirred \ DOMAIN retries \subseteq todo'
    BY <1>9 DEF BeginNudges, Nudged, store, owing, flags
  <2>2. Owed(q) => Owed(q)'
    BY <2>1 DEF Owed, Told, Tells, Waits, Reads
  <2> QED BY <1>1, <2>1, <2>2, SafeKept
<1>10. CASE TakeMaintenance \/ Publishes
  <2>1. UNCHANGED <<disk, feed, staged, queued, lost, retries, stirred, todo, walk>>
    BY <1>10 DEF TakeMaintenance, Publishes, owing, world
  <2>2. shown' = staged \/ (shown' = shown /\ (dirty => dirty'))
    <3>1. \/ shown' = staged
          \/ shown' = shown /\ dirty' = TRUE
          \/ shown' = shown /\ dirty' = dirty
      <4>1. CASE TakeMaintenance
        BY <4>1 DEF TakeMaintenance, Flushes
      <4>2. CASE Publishes
        BY <4>2 DEF Publishes
      <4> QED BY <1>10, <4>1, <4>2
    <3> QED BY <3>1
  <2>3. Owed(q) => Owed(q)'
    BY <2>1 DEF Owed, Told, Tells, Waits, Reads
  <2> QED BY <1>1, <2>1, <2>2, <2>3, SafeKept
<1>11. CASE Persists
  <2>1. /\ UNCHANGED <<disk, feed, staged, queued, lost, retries, stirred, walk, dirty>>
        /\ todo = {} /\ (shown' = staged \/ shown' = shown)
    BY <1>11 DEF Persists, Ready, owing, world, WorkerInv, Phases
  <2>2. Owed(q) => Owed(q)'
    BY <2>1 DEF Owed, Told, Tells, Waits, Reads
  <2> QED BY <1>1, <2>1, <2>2, SafeKept
<1>12. CASE Compacts \/ Idles \/ Wakes \/ Shutdown \/ UNCHANGED workVars
  <2>1. /\ UNCHANGED <<disk, feed, staged, queued, lost, retries, stirred, todo, walk, dirty>>
        /\ (shown' = staged \/ shown' = shown)
    BY <1>12 DEF Compacts, Idles, Wakes, Shutdown, Flushes, owing, world, store, flags, workVars
  <2>2. Owed(q) => Owed(q)'
    BY <2>1 DEF Owed, Told, Tells, Waits, Reads
  <2> QED BY <1>1, <2>1, <2>2, SafeKept
<1>13. CASE Tick
  <2>1. /\ UNCHANGED <<disk, feed, staged, shown, queued, lost, stirred, todo, walk, dirty>>
        /\ DOMAIN retries' = DOMAIN retries
    BY <1>13 DEF Tick, store, flags, world
  <2>2. Owed(q) => Owed(q)'
    BY <2>1 DEF Owed, Told, Tells, Waits, Reads
  <2> QED BY <1>1, <2>1, <2>2, SafeKept
<1>14. CASE TakeStop
  BY <1>14 DEF TakeStop, Goes
<1> QED BY <1>2, <1>3, <1>4, <1>5, <1>6, <1>7, <1>8, <1>9, <1>10, <1>11, <1>12, <1>13, <1>14
        DEF Next, WorkerStep

-----------------------------------------------------------------------------
LEMMA WorkerInvInit == Init => WorkerInv
<1> SUFFICES ASSUME Init PROVE WorkerInv
  OBVIOUS
<1>1. feed = <<>> /\ Len(feed) = 0 /\ feed \in Seq(fed \X Nat)
  BY EmptySeq DEF Init
<1>2. Types
  BY <1>1 DEF Init, Types
<1>3. Phases
  BY DEF Init, Phases
<1>4. LastWord /\ ReadOrTold
  BY <1>1 DEF Init, LastWord, ReadOrTold
<1>5. NoneForgotten
  BY DEF Init, NoneForgotten, Safe, Owed, Waits
<1> QED BY <1>2, <1>3, <1>4, <1>5 DEF WorkerInv

LEMMA WorkerInvStep ==
    ASSUME WorkerInv, [Next]_workVars
    PROVE  WorkerInv'
<1>1. Types' /\ Phases' /\ LastWord' /\ ReadOrTold'
  BY TypesStep, PhasesStep, LastWordStep, ReadOrToldStep DEF WorkerInv
<1>2. NoneForgotten'
  BY NoneForgottenStep
<1> QED BY <1>1, <1>2 DEF WorkerInv

THEOREM WorkerAlways == Spec => []WorkerInv
BY WorkerInvInit, WorkerInvStep, PTL DEF Spec

\* While the worker runs, what a search does not show of a source is in the channel,
\* queued, waiting, owed, under way or about to be published: for any number of sources,
\* any patience, and however often a walk or a write fails.
THEOREM WorkerNothingForgotten == Spec => []NothingForgotten
<1>1. WorkerInv => NothingForgotten
  <2> SUFFICES ASSUME WorkerInv, phase # "ended", NEW s \in Sources, shown[s] # disk[s]
               PROVE  OnItsWay(s)
    BY DEF NothingForgotten
  <2>1. Safe(s)
    BY DEF WorkerInv, NoneForgotten
  <2>2. Owed(s) => OnItsWay(s)
    <3>1. Told(s) => \E n \in 1..Len(feed) : feed[n] \in {<<s, disk[s]>>, <<s, 0>>}
      BY DEF Told, Tells
    <3> QED BY <3>1 DEF Owed, Waits, Reads, OnItsWay
  <2>3. CASE staged[s] # disk[s]
    BY <2>1, <2>2, <2>3 DEF Safe
  <2>4. CASE staged[s] = disk[s]
    BY <2>1, <2>2, <2>4 DEF Safe, OnItsWay
  <2> QED BY <2>3, <2>4
<1> QED BY <1>1, WorkerAlways, PTL

-----------------------------------------------------------------------------
LEMMA AnnouncedStep ==
    ASSUME WorkerInv, Announced, [Next]_workVars
    PROVE  Announced'
<1> DEFINE All == \A s \in Sources : staged[s] # shown[s] => dirty
<1> DEFINE Late == \E s \in DOMAIN retries : retries[s].attempt > 0
<1>1. CASE shown' = staged /\ staged' = staged
  BY <1>1 DEF Announced
<1>2. CASE dirty' = TRUE
  BY <1>2 DEF Announced
<1>3. CASE UNCHANGED <<staged, shown, dirty, retries>>
  BY <1>3 DEF Announced
<1>4. ASSUME NEW s \in Sources, \/ DiskChanges(s) \/ Rescan(s) \/ TakeWalk(s) \/ BeginWalk(s)
      PROVE  Announced'
  <2>1. \/ UNCHANGED <<staged, shown, dirty, retries>>
        \/ shown' = staged /\ staged' = staged
    BY <1>4 DEF DiskChanges, Rescan, TakeWalk, BeginWalk, store, owing, flags
  <2> QED BY <1>1, <1>3, <2>1
<1>5. ASSUME NEW n \in 1..Len(feed), TakeChanges(n) PROVE Announced'
  <2>1. dirty' = TRUE \/ UNCHANGED <<staged, shown, dirty, retries>>
    BY <1>5 DEF TakeChanges
  <2> QED BY <1>2, <1>3, <2>1
<1>6. ASSUME NEW ok \in BOOLEAN, EndWalk(ok) PROVE Announced'
  <2>1. walk \in Walk /\ phase = walk.for
    BY <1>6 DEF EndWalk, WorkerInv, Types, Phases
  <2>2. CASE ok \/ walk.for # "retrying"
    <3>1. dirty' = TRUE
      BY <1>6, <2>2 DEF EndWalk, DirtyAfter
    <3> QED BY <1>2, <3>1
  <2>3. CASE ~ok /\ walk.for = "retrying"
    <3>1. walk.source \in DOMAIN retries
      BY <2>1, <2>3, WorkerAssumption DEF WorkerInv, Phases
    <3>2. Widens(walk.source).attempt > 0
      BY <3>1, RetriesTyped DEF WorkerInv
    <3>3. retries' = [retries EXCEPT ![walk.source] = Widens(walk.source)]
      BY <1>6, <2>3 DEF EndWalk, AfterWalk
    <3>4. walk.source \in DOMAIN retries' /\ retries'[walk.source].attempt > 0
      BY <3>1, <3>2, <3>3
    <3> QED BY <3>4 DEF Announced
  <2> QED BY <2>2, <2>3
<1>7. CASE \/ \E due \in SUBSET lost : BeginWalks(due)
           \/ Shutdown \/ Wakes \/ TakeStop \/ BeginNudges
           \/ Persists \/ Compacts \/ Idles \/ UNCHANGED workVars
  <2>1. \/ UNCHANGED <<staged, shown, dirty, retries>>
        \/ shown' = staged /\ staged' = staged
    BY <1>7 DEF BeginWalks, Shutdown, Wakes, TakeStop, BeginNudges, Persists, Compacts, Idles,
                Flushes, store, owing, flags, workVars
  <2> QED BY <1>1, <1>3, <2>1
<1>8. CASE TakeMaintenance
  <2>1. \/ dirty' = TRUE
        \/ shown' = staged /\ staged' = staged
    BY <1>8 DEF TakeMaintenance, Flushes
  <2> QED BY <1>1, <1>2, <2>1
<1>9. CASE Publishes
  <2>1. \/ UNCHANGED <<staged, shown, dirty, retries>>
        \/ shown' = staged /\ staged' = staged
    BY <1>9 DEF Publishes, owing
  <2> QED BY <1>1, <1>3, <2>1
<1>10. CASE Tick
  <2>1. UNCHANGED <<staged, shown, dirty>> /\ DOMAIN retries' = DOMAIN retries
    BY <1>10 DEF Tick, store, flags
  <2>2. \A s \in DOMAIN retries : retries'[s].attempt = retries[s].attempt
    <3>1. \A r \in Retry : [r EXCEPT !.left = IF @ = 0 THEN 0 ELSE @ - 1].attempt = r.attempt
      BY DEF Retry
    <3>2. \A s \in DOMAIN retries : retries[s] \in Retry
      BY DEF WorkerInv, Types
    <3> QED BY <1>10, <3>1, <3>2 DEF Tick
  <2> QED BY <2>1, <2>2 DEF Announced
<1> QED BY <1>4, <1>5, <1>6, <1>7, <1>8, <1>9, <1>10 DEF Next, WorkerStep

\* What is staged and not yet shown has a publish ahead of it, unless a retry has failed
\* more than once.
THEOREM WorkerAnnounced == Spec => []AnnouncedUnlessRetried
<1>1. Init => Announced
  BY DEF Init, Announced
<1>2. Announced => AnnouncedUnlessRetried
  BY DEF Announced, AnnouncedUnlessRetried, StagedAnnounced
<1> QED BY <1>1, <1>2, AnnouncedStep, WorkerAlways, PTL DEF Spec

-----------------------------------------------------------------------------
LEMMA HeldStep ==
    ASSUME WorkerInv, Held, [Next]_workVars
    PROVE  Held'
<1>1. ASSUME NEW s \in Sources, DiskChanges(s) PROVE Held'
  <2>1. /\ UNCHANGED <<staged, shown, walk>>
        /\ \A q \in Sources : disk[q] \in Nat /\ disk'[q] \in Nat /\ disk[q] <= disk'[q]
    BY <1>1 DEF DiskChanges, store, WorkerInv, Types
  <2>2. \A q \in Sources : staged'[q] <= disk'[q] /\ shown'[q] <= disk'[q]
    BY <2>1 DEF Held, WorkerInv, Types
  <2>3. ASSUME NEW i \in 1..Len(feed') PROVE feed'[i][2] <= disk'[feed'[i][1]]
    <3>1. CASE i \in 1..Len(feed)
      <4>1. feed'[i] = feed[i] /\ feed[i] \in fed \X Nat /\ fed \subseteq Sources
        BY <1>1, <3>1, ChangeIsTold DEF WorkerInv, Types
      <4>2. feed[i][2] <= disk[feed[i][1]]
        BY <3>1 DEF Held
      <4> QED BY <2>1, <4>1, <4>2
    <3>2. CASE i \notin 1..Len(feed)
      <4>1. i = Len(feed') /\ Tells(Len(feed), s)'
        BY <1>1, <3>2, ChangeIsTold DEF WorkerInv
      <4>2. feed'[i] \in {<<s, disk'[s]>>, <<s, 0>>}
        BY <4>1 DEF Tells
      <4> QED BY <2>1, <4>2
    <3> QED BY <3>1, <3>2
  <2>4. walk' # NoWalk => walk'.read <= disk'[walk'.source]
    BY <2>1 DEF Held, WorkerInv, Types, Walk
  <2> QED BY <2>2, <2>3, <2>4 DEF Held
<1>2. ASSUME NEW n \in 1..Len(feed), TakeChanges(n) PROVE Held'
  <2>1. /\ UNCHANGED <<disk, shown, walk>>
        /\ Len(feed) \in Nat /\ Len(feed') = Len(feed) - n
        /\ \A i \in 1..(Len(feed) - n) : feed'[i] = feed[n + i]
    BY <1>2, Split DEF TakeChanges, WorkerInv
  <2>2. ASSUME NEW s \in Sources PROVE staged'[s] <= disk[s]
    <3>1. CASE staged'[s] = staged[s]
      BY <3>1 DEF Held
    <3>2. CASE staged'[s] # staged[s]
      <4>1. s \in Applied(Batch(n)) /\ staged'[s] = Newest(Batch(n), s)
        BY <1>2, <3>2 DEF TakeChanges, WorkerInv, Types
      <4>2. PICK k \in 1..n : feed[k][1] = s /\ Newest(Batch(n), s) = feed[k][2]
        BY <4>1, NewestIsLast DEF WorkerInv
      <4>3. k \in 1..Len(feed)
        BY <2>1
      <4> QED BY <4>1, <4>2, <4>3 DEF Held
    <3> QED BY <3>1, <3>2
  <2>3. ASSUME NEW i \in 1..Len(feed') PROVE feed'[i][2] <= disk[feed'[i][1]]
    <3>1. n + i \in 1..Len(feed) /\ feed'[i] = feed[n + i]
      BY <2>1
    <3> QED BY <3>1 DEF Held
  <2> QED BY <2>1, <2>2, <2>3 DEF Held
<1>3. ASSUME NEW s \in Sources, TakeWalk(s) \/ BeginWalk(s) PROVE Held'
  <2>1. /\ UNCHANGED <<disk, feed, staged>> /\ shown' = staged
        /\ walk'.source = s /\ walk'.read = disk[s] /\ disk[s] \in Nat
    BY <1>3 DEF TakeWalk, BeginWalk, world, WorkerInv, Types
  <2> QED BY <2>1 DEF Held
<1>4. ASSUME NEW ok \in BOOLEAN, EndWalk(ok) PROVE Held'
  <2>1. /\ UNCHANGED <<disk, feed, shown>> /\ walk \in Walk /\ walk' = NoWalk
        /\ (staged' = staged \/ staged' = FoundFully)
    BY <1>4 DEF EndWalk, world, WorkerInv, Types
  <2>2. \A s \in Sources : staged'[s] <= disk[s]
    BY <2>1, WorkerAssumption DEF FoundFully, Held, WorkerInv, Types, Walk
  <2> QED BY <2>1, <2>2 DEF Held
<1>5. CASE \/ \E s \in Sources : Rescan(s)
           \/ \E due \in SUBSET lost : BeginWalks(due)
           \/ TakeMaintenance \/ Shutdown \/ Wakes \/ TakeStop \/ BeginNudges
           \/ Publishes \/ Persists \/ Compacts \/ Idles \/ Tick \/ UNCHANGED workVars
  <2>1. UNCHANGED <<disk, feed, staged, walk>> /\ (shown' = staged \/ shown' = shown)
    BY <1>5 DEF Rescan, BeginWalks, TakeMaintenance, Shutdown, Wakes, TakeStop, BeginNudges,
                Publishes, Persists, Compacts, Idles, Tick, Flushes, store, world, workVars
  <2> QED BY <2>1 DEF Held
<1> QED BY <1>1, <1>2, <1>3, <1>4, <1>5 DEF Next, WorkerStep

\* Every step of the worker changes one source or shows what each of them has held.
LEMMA MirrorStep ==
    ASSUME WorkerInv, WorkerInv', Held, Held', [Next]_workVars
    PROVE  [M!Next]_M!mirrorVars
<1>1. ASSUME NEW s \in Sources, DiskChanges(s) PROVE M!Change(s)
  BY <1>1 DEF DiskChanges, store, M!Change
<1>2. CASE disk' = disk
  <2>1. \A s \in Sources : shown'[s] \in 0..disk[s]
    BY <1>2 DEF WorkerInv, Types, Held
  <2>2. shown' \in [Sources -> UNION {0..disk[s] : s \in Sources}]
    BY <2>1 DEF WorkerInv, Types
  <2> QED BY <1>2, <2>1, <2>2 DEF M!Next, M!Show
<1> QED BY <1>1, <1>2, ChannelMoves DEF M!Next, TakeChanges

\* What the worker shows is what Mirror allows: of each source something it has held.
\* That it gets to all of it in the end is the runs' to show.
THEOREM WorkerIsMirror == Spec => M!Init /\ [][M!Next]_M!mirrorVars
<1>1. Init => Held /\ M!Init
  <2> SUFFICES ASSUME Init PROVE Held /\ M!Init
    OBVIOUS
  <2>1. Len(feed) = 0
    BY EmptySeq DEF Init
  <2> QED BY <2>1 DEF Init, Held, M!Init
<1> QED BY <1>1, HeldStep, MirrorStep, WorkerAlways, PTL DEF Spec

-----------------------------------------------------------------------------
\* The worker begins a turn.
LEMMA SpentTurn ==
    ASSUME Turns \/ \E s \in Sources : TakeWalk(s),
           CommitDue => CommitDue' \/ sinceCommit' = 0
    PROVE  Spent'
<1>1. phase' \in {"job", "walks"} /\ late' = Deadlines
  BY DEF Turns, TakeWalk, Goes
<1>2. CommitSpent'
  <2>1. "commit" \in Deadlines => CommitDue
    BY DEF Deadlines
  <2> QED BY <1>1, <2>1 DEF CommitSpent
<1>3. CompactSpent' /\ IdleSpent' /\ PersistSpent' /\ RetrySpent'
  BY <1>1 DEF CompactSpent, IdleSpent, PersistSpent, RetrySpent
<1> QED BY <1>2, <1>3 DEF Spent

\* A walk that ends only makes a commit due, and its retry is dropped or put off.
LEMMA SpentWalked ==
    ASSUME WorkerInv, Spent, NEW ok \in BOOLEAN, EndWalk(ok)
    PROVE  Spent'
<1> SUFFICES ASSUME still' PROVE CommitSpent' /\ CompactSpent' /\ IdleSpent'
                                  /\ PersistSpent' /\ RetrySpent'
  BY DEF Spent
<1>1. /\ UNCHANGED <<todo, late, still, published, full, watched, sinceCommit, sincePersist>>
      /\ walk \in Walk /\ phase = walk.for /\ walk' = NoWalk
      /\ phase' = IF walk.for = "job" THEN "walks" ELSE phase
      /\ walk.source \notin todo
  BY WorkerAssumption DEF EndWalk, turn, world, Goes, WorkerInv, Types, Phases
<1>2. phase \in {"job", "walking", "nudging", "retrying"}
  BY <1>1 DEF Walk
<1>3. CommitSpent'
  <2>1. dirty' = TRUE \/ dirty' = dirty
    BY DEF EndWalk
  <2>2. CommitDue => CommitDue'
    BY <1>1, <2>1 DEF CommitDue, CommitPatience
  <2> QED BY <1>1, <1>2, <2>2 DEF Spent, CommitSpent
<1>4. CompactSpent' /\ IdleSpent'
  BY <1>1, <1>2 DEF CompactSpent, IdleSpent
<1>5. PersistSpent'
  BY <1>1, <1>2 DEF Spent, PersistSpent, PersistDue
<1>6. RetrySpent'
  <2>1. CASE phase # "retrying"
    BY <1>1, <1>2, <2>1 DEF RetrySpent
  <2>2. CASE phase = "retrying"
    <3> DEFINE s == walk.source
    <3>1. s \in DOMAIN retries
      BY <1>1, <2>2, WorkerAssumption DEF WorkerInv, Phases
    <3>2. Widens(s).left # 0
      BY <3>1, RetriesTyped DEF WorkerInv
    <3>3. retries' = Without(retries, {s}) \/ retries' = [retries EXCEPT ![s] = Widens(s)]
      BY <1>1, <2>2 DEF EndWalk, AfterWalk
    <3>4. RetryDue' \subseteq RetryDue \ {s}
      BY <3>1, <3>2, <3>3 DEF RetryDue, Without
    <3>5. RetryDue \ todo \subseteq {s}
      BY <1>1, <2>2 DEF Spent, RetrySpent
    <3> QED BY <1>1, <2>2, <3>4, <3>5 DEF RetrySpent
  <2> QED BY <2>1, <2>2
<1> QED BY <1>3, <1>4, <1>5, <1>6

LEMMA SpentStep ==
    ASSUME WorkerInv, Spent, [Next]_workVars
    PROVE  Spent'
<1>1. ASSUME NEW s \in Sources, DiskChanges(s) PROVE Spent'
  BY <1>1 DEF DiskChanges, Spent
<1>2. CASE Tick
  BY <1>2 DEF Tick, Spent
<1>3. CASE Wakes
  <2>1. CommitDue => CommitDue'
    BY <1>3 DEF Wakes, CommitDue, CommitPatience, flags, clocks, world
  <2> QED BY <1>3, <2>1, SpentTurn DEF Wakes
<1>4. ASSUME NEW s \in Sources, TakeWalk(s) PROVE Spent'
  <2>1. CommitDue => CommitDue'
    BY <1>4 DEF TakeWalk, CommitDue, CommitPatience, flags, clocks, world
  <2> QED BY <1>4, <2>1, SpentTurn
<1>5. CASE TakeMaintenance
  BY <1>5, SpentTurn DEF TakeMaintenance
<1>6. ASSUME NEW n \in 1..Len(feed), TakeChanges(n) PROVE Spent'
  <2>1. UNCHANGED <<sinceCommit, watched>>
    BY <1>6 DEF TakeChanges
  <2>2. dirty' = dirty \/ dirty' = TRUE
    BY <1>6 DEF TakeChanges
  <2>3. full' = full \/ full' = TRUE
    BY <1>6 DEF TakeChanges
  <2>4. CommitDue => CommitDue'
    BY <2>1, <2>2, <2>3 DEF CommitDue, CommitPatience
  <2> QED BY <1>6, <2>4, SpentTurn DEF TakeChanges
<1>7. ASSUME NEW ok \in BOOLEAN, EndWalk(ok) PROVE Spent'
  BY <1>7, SpentWalked
<1>8. ASSUME NEW s \in Sources, BeginWalk(s) PROVE Spent'
  <2>1. /\ UNCHANGED <<dirty, idleDone, settled, published, full, watched, sinceCommit,
                       sinceBusy, sincePersist, late, still, retries, phase>>
        /\ walk = NoWalk /\ todo' = todo \ {s} /\ walk'.source = s
        /\ phase \in {"walking", "nudging", "retrying"}
    BY <1>8 DEF BeginWalk, flags, clocks, owing, turn, world
  <2>2. walk' # NoWalk
    <3>1. walk' \in Walk
      BY <1>8 DEF BeginWalk, Walk, WorkerInv, Types
    <3> QED BY <3>1, WorkerAssumption
  <2>3. CommitSpent => CommitSpent'
    BY <2>1 DEF CommitSpent, CommitDue, CommitPatience
  <2>4. RetrySpent => RetrySpent'
    BY <2>1, <2>2 DEF RetrySpent, RetryDue
  <2>5. PersistSpent => PersistSpent'
    BY <2>1 DEF PersistSpent, PersistDue
  <2> QED BY <2>1, <2>3, <2>4, <2>5 DEF Spent, CompactSpent, IdleSpent
<1>9. ASSUME \/ \E due \in SUBSET lost : BeginWalks(due)
             \/ BeginNudges
      PROVE  Spent'
  <2>1. /\ UNCHANGED <<dirty, full, watched, sinceCommit, late, still>>
        /\ phase \in {"walks", "walking"} /\ phase' \in {"walking", "nudging"}
    BY <1>9 DEF BeginWalks, BeginNudges, Ready, Goes, flags, clocks, turn, world
  <2>2. CommitSpent => CommitSpent'
    BY <2>1 DEF CommitSpent, CommitDue, CommitPatience
  <2> QED BY <2>1, <2>2 DEF Spent, CompactSpent, IdleSpent, PersistSpent, RetrySpent
<1>10. CASE Publishes
  <2>1. /\ UNCHANGED <<late, still>> /\ phase' = "persist"
    BY <1>10 DEF Publishes, Goes, turn
  <2>2. Spent => (still => CommitSpent')
    <3>1. CASE CommitDue
      BY <1>10, <3>1 DEF Publishes, CommitSpent
    <3>2. CASE ~CommitDue
      BY <1>10, <3>2 DEF Publishes, Spent, CommitSpent, turn
    <3> QED BY <3>1, <3>2
  <2> QED BY <2>1, <2>2 DEF Spent, CompactSpent, IdleSpent, PersistSpent, RetrySpent
<1>11. CASE Persists
  <2>1. /\ UNCHANGED <<late, still, retries, sinceCommit>> /\ phase = "persist"
        /\ phase' = "retrying" /\ todo' = RetryDue
    BY <1>11 DEF Persists, Ready, Goes, turn, owing
  <2>2. ~PersistDue'
    <3>1. CASE PersistDue
      BY <1>11, <3>1, WorkerAssumption DEF Persists, PersistDue
    <3>2. CASE ~PersistDue
      BY <1>11, <3>2 DEF Persists, PersistDue
    <3> QED BY <3>1, <3>2
  <2>3. RetrySpent'
    BY <2>1 DEF RetrySpent, RetryDue
  <2> QED BY <2>1, <2>2, <2>3 DEF Spent, CommitSpent, CompactSpent, IdleSpent, PersistSpent
<1>12. CASE Compacts
  <2>1. /\ UNCHANGED <<late, still, retries, published, sincePersist, dirty>>
        /\ phase = "retrying" /\ phase' = "idle" /\ todo = {} /\ walk = NoWalk
        /\ (sinceCommit' = sinceCommit \/ sinceCommit' = 0)
    BY <1>12 DEF Compacts, Ready, Goes, turn, owing
  <2>2. ~CompactDue'
    BY <1>12 DEF Compacts, CompactDue
  <2>3. Spent => (still => RetrySpent')
    BY <2>1 DEF Spent, RetrySpent, RetryDue
  <2> QED BY <2>1, <2>2, <2>3
          DEF Spent, CommitSpent, CompactSpent, IdleSpent, PersistSpent, PersistDue
<1>13. CASE Idles
  <2>1. /\ UNCHANGED <<late, still, retries, sinceCommit, settled, dirty, sinceBusy>>
        /\ phase = "idle" /\ phase' = "select"
    BY <1>13 DEF Idles, Ready, Goes, turn, owing
  <2>2. ~IdleDue'
    BY <1>13 DEF Idles, IdleDue
  <2>3. PersistDue' => PersistDue
    BY <1>13 DEF Idles, PersistDue
  <2> QED BY <2>1, <2>2, <2>3
          DEF Spent, CommitSpent, CompactSpent, CompactDue, IdleSpent, PersistSpent, RetrySpent, RetryDue
<1>14. CASE \/ \E s \in Sources : Rescan(s)
            \/ Shutdown \/ UNCHANGED workVars
  <2>1. UNCHANGED <<dirty, idleDone, settled, published, full, watched, sinceCommit, sinceBusy,
                    sincePersist, late, still, retries, phase, todo, walk>>
    BY <1>14 DEF Rescan, Shutdown, flags, clocks, turn, world, owing, workVars
  <2> QED BY <2>1 DEF Spent, CommitSpent, CompactSpent, IdleSpent, PersistSpent, RetrySpent,
                      CommitDue, CommitPatience, CompactDue, IdleDue, PersistDue, RetryDue
<1>15. CASE TakeStop
  <2>1. UNCHANGED <<late, still, sinceCommit>> /\ phase = "select" /\ phase' = "ended"
    BY <1>15 DEF TakeStop, Goes, clocks, turn
  <2> QED BY <2>1 DEF Spent, CommitSpent, CompactSpent, IdleSpent, PersistSpent, RetrySpent
<1> QED BY <1>1, <1>2, <1>3, <1>4, <1>5, <1>6, <1>7, <1>8, <1>9, <1>10, <1>11, <1>12, <1>13,
           <1>14, <1>15 DEF Next, WorkerStep

\* However many sources, retries and failures, a turn leaves no deadline past that was
\* past when it began: the loop waits, and does not spin.
THEOREM WorkerNoSpin == Spec => []NoSpin
<1>1. Init => Spent
  BY DEF Init, Spent
<1>2. Spent => NoSpin
  <2> SUFFICES ASSUME Spent, phase = "select", still, NEW d \in late \cap Deadlines PROVE FALSE
    BY DEF NoSpin
  <2>1. /\ sinceCommit = 0 \/ "commit" \notin late
        /\ ~CompactDue /\ ~IdleDue /\ ~PersistDue /\ RetryDue = {}
    BY DEF Spent, CommitSpent, CompactSpent, IdleSpent, PersistSpent, RetrySpent
  <2>2. sinceCommit = 0 => ~CommitDue
    BY WorkerAssumption DEF CommitDue
  <2> QED BY <2>1, <2>2 DEF Deadlines
<1> QED BY <1>1, <1>2, SpentStep, WorkerAlways, PTL DEF Spec
=============================================================================
