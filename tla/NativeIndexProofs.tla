------------------------- MODULE NativeIndexProofs -------------------------
(***************************************************************************)
(* Segment numbers, for every set of threads, every program of calls, and  *)
(* every number of faults and crashes.  A segment number is handed out by  *)
(* whoever holds the lock and used long after, with the lock released: by  *)
(* a commit writing its segment, a fold writing its own, a builder thread. *)
(* That no two of them ever write files under one number is not inductive  *)
(* by itself; it needs every number in use to be below next_segment, and   *)
(* the builds that have landed to be nobody's claim.                       *)
(*                                                                         *)
(* Nothing here depends on the order of the steps inside a call, so the    *)
(* result survives a change to any of the programs.  The number 0 stands   *)
(* for "none", as in the code's default Pending.                           *)
(***************************************************************************)
EXTENDS NativeIndex, TLAPS

Finished == [number : Nat, built : BOOLEAN]
Numbers(s) == {s[i].number : i \in DOMAIN s}
PendClaim(r) == {r.pend.number} \ {0}
SnapClaim(r) == ({r.snap.number} \ DOMAIN r.snap.alive) \ {0}
Fields == DOMAIN Idle

NumberTypes ==
    /\ next_segment \in Nat \ {0}
    /\ manifest.next_segment \in Nat \ {0}
    /\ manifest.next_segment <= next_segment
    /\ landed \in Seq(Finished)
    /\ DOMAIN th = Threads
    /\ \A t \in Threads : /\ DOMAIN th[t] = Fields
                          /\ th[t].todo \in Seq(Finished)
                          /\ th[t].pend.number \in Nat
                          /\ th[t].snap.number \in Nat

\* Every number in use was handed out, and the manifest's own counter is past
\* what it names: a restart hands out none of them again.
NumbersBelow ==
    /\ \A n \in DOMAIN segments \cup DOMAIN flights \cup Numbers(landed) :
          n \in Nat /\ n < next_segment
    /\ \A n \in Named : n \in Nat /\ n < manifest.next_segment
    /\ \A t \in Threads :
          \A n \in PendClaim(th[t]) \cup SnapClaim(th[t]) \cup Numbers(th[t].todo) :
             n \in Nat /\ n < next_segment

\* Nobody's claim is a build that has landed, nor the same thread's other claim.
NumbersApart ==
    /\ \A t \in Threads : PendClaim(th[t]) \cap SnapClaim(th[t]) = {}
    /\ \A t \in Threads : ClaimsOf(th[t]) \cap Numbers(landed) = {}
    /\ \A t, u \in Threads : ClaimsOf(th[t]) \cap Numbers(th[u].todo) = {}

NumberInv == NumberTypes /\ NumbersBelow /\ NumbersApart /\ NoSharedNumber

\* Only thread t moved.
OnlyThread(t) ==
    /\ DOMAIN th' = Threads
    /\ DOMAIN th'[t] = Fields
    /\ \A u \in Threads \ {t} : th'[u] = th[u]

-----------------------------------------------------------------------------
LEMMA IdleShape ==
    /\ Fields = {"op", "prog", "pend", "todo", "added", "failed", "queue", "groups",
                 "group", "durable", "folded", "snap", "source", "under", "spare"}
    /\ EmptyPending.number = 0 /\ NoSnapshot.number = 0
    /\ Idle.pend = EmptyPending /\ Idle.snap = NoSnapshot /\ Idle.todo = <<>>
    /\ Idle.todo \in Seq(Finished) /\ Numbers(Idle.todo) = {}
    /\ PendClaim(Idle) = {} /\ SnapClaim(Idle) = {}
BY DEF Fields, Idle, EmptyPending, NoSnapshot, Numbers, PendClaim, SnapClaim

LEMMA ClaimsSplit ==
    ASSUME NEW r PROVE ClaimsOf(r) = PendClaim(r) \cup SnapClaim(r)
BY DEF ClaimsOf, PendClaim, SnapClaim

LEMMA MaxOfPast ==
    ASSUME NEW m \in Nat, NEW n \in Nat, n < m PROVE MaxOf({m, n + 1}) = m
<1>1. \A k \in {m, n + 1} : k <= m
  OBVIOUS
<1>2. \A x \in {m, n + 1} : (\A k \in {m, n + 1} : k <= x) => x = m
  OBVIOUS
<1> QED BY <1>1, <1>2 DEF MaxOf

LEMMA NumbersOfTail ==
    ASSUME NEW s \in Seq(Finished), s # <<>>
    PROVE  /\ Tail(s) \in Seq(Finished) /\ Numbers(Tail(s)) \subseteq Numbers(s)
           /\ Head(s).number \in Nat /\ Head(s).number \in Numbers(s)
<1>1. Head(s) = s[1] /\ Head(s) \in Finished /\ 1 \in DOMAIN s
  OBVIOUS
<1>2. Tail(s) \in Seq(Finished) /\ \A i \in DOMAIN Tail(s) : Tail(s)[i] = s[i + 1] /\ i + 1 \in DOMAIN s
  OBVIOUS
<1>3. Numbers(Tail(s)) \subseteq Numbers(s)
  BY <1>2 DEF Numbers
<1> QED BY <1>1, <1>2, <1>3 DEF Numbers, Finished

LEMMA NumbersOfBoth ==
    ASSUME NEW s \in Seq(Finished), NEW r \in Seq(Finished)
    PROVE  /\ s \o r \in Seq(Finished)
           /\ Numbers(s \o r) \subseteq Numbers(s) \cup Numbers(r)
<1>1. \A i \in DOMAIN (s \o r) : (\E j \in DOMAIN s : (s \o r)[i] = s[j])
                              \/ (\E j \in DOMAIN r : (s \o r)[i] = r[j])
  <2> SUFFICES ASSUME NEW i \in 1..(Len(s) + Len(r))
               PROVE (\E j \in DOMAIN s : (s \o r)[i] = s[j])
                              \/ (\E j \in DOMAIN r : (s \o r)[i] = r[j])
    OBVIOUS
  <2>1. CASE i <= Len(s) BY <2>1
  <2>2. CASE i > Len(s)
    <3>1. (s \o r)[i] = r[i - Len(s)] /\ i - Len(s) \in DOMAIN r
      BY <2>2
    <3> QED BY <3>1
  <2> QED BY <2>1, <2>2
<1> QED BY <1>1 DEF Numbers

LEMMA NumbersOfOne ==
    ASSUME NEW s \in Seq(Finished), NEW n \in Nat, NEW b \in BOOLEAN
    PROVE  /\ Append(s, [number |-> n, built |-> b]) \in Seq(Finished)
           /\ Numbers(Append(s, [number |-> n, built |-> b])) \subseteq Numbers(s) \cup {n}
<1> DEFINE r == [number |-> n, built |-> b]
<1>1. r \in Finished /\ r.number = n
  BY DEF Finished
<1> HIDE DEF r
<1>2. \A i \in DOMAIN Append(s, r) : (i \in DOMAIN s /\ Append(s, r)[i] = s[i]) \/ Append(s, r)[i] = r
  BY <1>1
<1>3. Append(s, r) \in Seq(Finished) /\ Numbers(Append(s, r)) \subseteq Numbers(s) \cup {n}
  BY <1>1, <1>2 DEF Numbers
<1> QED BY <1>3 DEF r

\* A step after which no number is held that was not, and none is handed out.
LEMMA FewerNumbers ==
    ASSUME NumberInv, NEW t \in Threads, OnlyThread(t),
           PendClaim(th'[t]) \subseteq PendClaim(th[t]), th'[t].pend.number \in Nat,
           SnapClaim(th'[t]) \subseteq SnapClaim(th[t]), th'[t].snap.number \in Nat,
           th'[t].todo \in Seq(Finished),
           Numbers(th'[t].todo) \subseteq Numbers(th[t].todo) \cup Numbers(landed),
           landed' \in Seq(Finished),
           Numbers(landed') \subseteq Numbers(landed) \cup Numbers(th[t].todo),
           DOMAIN segments' \subseteq DOMAIN segments,
           DOMAIN flights' \subseteq DOMAIN flights,
           manifest' = manifest, next_segment' = next_segment
    PROVE  NumberInv'
<1>1. \A u \in Threads : /\ PendClaim(th'[u]) \subseteq PendClaim(th[u])
                         /\ SnapClaim(th'[u]) \subseteq SnapClaim(th[u])
                         /\ ClaimsOf(th'[u]) \subseteq ClaimsOf(th[u])
                         /\ Numbers(th'[u].todo) \subseteq Numbers(th[u].todo) \cup Numbers(landed)
  BY ClaimsSplit DEF OnlyThread
<1>2. NumberTypes'
  BY DEF NumberInv, NumberTypes, OnlyThread
<1>3. NumbersBelow'
  BY <1>1 DEF NumberInv, NumbersBelow, Named
<1>4. NumbersApart'
  BY <1>1 DEF NumberInv, NumbersApart
<1>5. NoSharedNumber'
  BY <1>1 DEF NumberInv, NoSharedNumber, Named
<1> QED BY <1>2, <1>3, <1>4, <1>5 DEF NumberInv

-----------------------------------------------------------------------------
\* A step of thread t that changes neither a number nor the builds it has taken.
LEMMA SameNumbers ==
    ASSUME NumberInv, NEW t \in Threads, OnlyThread(t),
           th'[t].pend = th[t].pend \/ th'[t].pend.number = 0,
           th'[t].snap = th[t].snap \/ th'[t].snap.number = 0,
           th'[t].todo = th[t].todo \/ th'[t].todo = <<>>,
           UNCHANGED <<landed, manifest, next_segment>>,
           DOMAIN segments' \subseteq DOMAIN segments,
           DOMAIN flights' \subseteq DOMAIN flights
    PROVE  NumberInv'
<1>1. /\ th[t].todo \in Seq(Finished) /\ landed \in Seq(Finished)
      /\ th[t].pend.number \in Nat /\ th[t].snap.number \in Nat
  BY DEF NumberInv, NumberTypes
<1>2. th'[t].todo \in Seq(Finished) /\ Numbers(th'[t].todo) \subseteq Numbers(th[t].todo)
  <2>1. <<>> \in Seq(Finished) /\ Numbers(<<>>) = {}
    BY DEF Numbers
  <2> QED BY <1>1, <2>1
<1>3. /\ PendClaim(th'[t]) \subseteq PendClaim(th[t]) /\ th'[t].pend.number \in Nat
      /\ SnapClaim(th'[t]) \subseteq SnapClaim(th[t]) /\ th'[t].snap.number \in Nat
  BY <1>1 DEF PendClaim, SnapClaim
<1> QED BY <1>1, <1>2, <1>3, FewerNumbers

\* Returning an error, or starting over, lets go of every number.
LEMMA BackToIdle ==
    ASSUME NumberInv, NEW t \in Threads, th' = [th EXCEPT ![t] = Idle]
    PROVE  /\ OnlyThread(t) /\ th'[t].pend.number = 0 /\ th'[t].snap.number = 0
           /\ th'[t].todo = <<>>
<1>1. DOMAIN th = Threads
  BY DEF NumberInv, NumberTypes
<1>2. DOMAIN th' = Threads /\ th'[t] = Idle /\ \A u \in Threads \ {t} : th'[u] = th[u]
  BY <1>1
<1> QED BY <1>2, IdleShape DEF OnlyThread, Fields

LEMMA GotoNumbers ==
    ASSUME NumberInv, NEW t \in Threads, NEW p, Goto(t, p)
    PROVE  /\ OnlyThread(t) /\ th'[t].pend = th[t].pend /\ th'[t].snap = th[t].snap
           /\ th'[t].todo = th[t].todo
BY IdleShape DEF NumberInv, NumberTypes, OnlyThread, Goto

LEMMA SettleStepNumbers == ASSUME NumberInv, NEW t \in Threads, SettleStep(t) PROVE NumberInv'
BY GotoNumbers, SameNumbers DEF SettleStep, lists, air, disk

LEMMA CollectStepNumbers == ASSUME NumberInv, NEW t \in Threads, CollectStep(t) PROVE NumberInv'
<1>1. /\ OnlyThread(t) /\ th'[t].pend = th[t].pend /\ th'[t].snap = th[t].snap
      /\ th'[t].todo = landed
  BY IdleShape DEF NumberInv, NumberTypes, OnlyThread, CollectStep
<1>2. landed' = <<>> /\ landed' \in Seq(Finished) /\ Numbers(landed') = {}
  BY DEF CollectStep, Numbers
<1>3. landed \in Seq(Finished) /\ th[t].pend.number \in Nat /\ th[t].snap.number \in Nat
  BY DEF NumberInv, NumberTypes
<1> QED BY <1>1, <1>2, <1>3, FewerNumbers DEF CollectStep, lists, disk, PendClaim, SnapClaim

LEMMA EraseNumbers == ASSUME NumberInv, NEW t \in Threads, Erase(t) PROVE NumberInv'
BY GotoNumbers, SameNumbers DEF Erase, lists, air, disk, stamps

LEMMA WriteSegNumbers == ASSUME NumberInv, NEW t \in Threads, WriteSeg(t) PROVE NumberInv'
BY GotoNumbers, SameNumbers DEF WriteSeg, lists, air, disk, stamps

LEMMA OpenNoneNumbers == ASSUME NumberInv, NEW t \in Threads, OpenNone(t) PROVE NumberInv'
BY GotoNumbers, SameNumbers DEF OpenNone, lists, air, disk, stamps

LEMMA OpenNextNumbers == ASSUME NumberInv, NEW t \in Threads, OpenNext(t) PROVE NumberInv'
BY GotoNumbers, SameNumbers DEF OpenNext, lists, air, disk, stamps

LEMMA WriteUnwrittenNumbers == ASSUME NumberInv, NEW t \in Threads, WriteUnwritten(t) PROVE NumberInv'
BY GotoNumbers, SameNumbers DEF WriteUnwritten, lists, air, disk, stamps

LEMMA FoldWriteNumbers == ASSUME NumberInv, NEW t \in Threads, FoldWrite(t) PROVE NumberInv'
BY GotoNumbers, SameNumbers DEF FoldWrite, lists, air, disk, stamps

LEMMA SweepNumbers == ASSUME NumberInv, NEW t \in Threads, Sweep(t) PROVE NumberInv'
<1>1. DOMAIN segments' \subseteq DOMAIN segments
  BY DEF Sweep, Without
<1> QED BY <1>1, GotoNumbers, SameNumbers DEF Sweep, air, disk

LEMMA ForgetKillNumbers == ASSUME NumberInv, NEW t \in Threads, ForgetKill(t) PROVE NumberInv'
<1>1. DOMAIN segments' \subseteq DOMAIN segments
  BY DEF ForgetKill, Without
<1> QED BY <1>1, GotoNumbers, SameNumbers DEF ForgetKill, air, disk

LEMMA ForgetEmptyNumbers == ASSUME NumberInv, NEW t \in Threads, ForgetEmpty(t) PROVE NumberInv'
<1>1. DOMAIN segments' \subseteq DOMAIN segments
  BY DEF ForgetEmpty, Without
<1> QED BY <1>1, GotoNumbers, SameNumbers DEF ForgetEmpty, air, disk

LEMMA CollectErrorNumbers == ASSUME NumberInv, NEW t \in Threads, CollectError(t) PROVE NumberInv'
BY BackToIdle, SameNumbers DEF CollectError, Fail, lists, air, disk

LEMMA SaveFailsNumbers == ASSUME NumberInv, NEW t \in Threads, SaveFails(t) PROVE NumberInv'
BY BackToIdle, SameNumbers DEF SaveFails, Fail, lists, air, disk

LEMMA WriteAliveFailsNumbers == ASSUME NumberInv, NEW t \in Threads, WriteAliveFails(t) PROVE NumberInv'
BY BackToIdle, SameNumbers DEF WriteAliveFails, Fail, lists, air, disk

LEMMA WriteSegFailsNumbers == ASSUME NumberInv, NEW t \in Threads, WriteSegFails(t) PROVE NumberInv'
BY BackToIdle, SameNumbers DEF WriteSegFails, Fail, lists, air, disk

LEMMA PushFailsNumbers == ASSUME NumberInv, NEW t \in Threads, PushFails(t) PROVE NumberInv'
BY BackToIdle, SameNumbers DEF PushFails, Fail, lists, air, disk

LEMMA DispatchFailsNumbers == ASSUME NumberInv, NEW t \in Threads, DispatchFails(t) PROVE NumberInv'
BY BackToIdle, SameNumbers DEF DispatchFails, Fail, lists, air, disk

LEMMA WriteFailsNumbers == ASSUME NumberInv, NEW t \in Threads, NEW label, NEW n, WriteFails(t, label, n) PROVE NumberInv'
BY BackToIdle, SameNumbers DEF WriteFails, Fail, lists, air, disk

LEMMA OnwardNumbers ==
    ASSUME NumberInv, NEW t \in Threads, th' = [th EXCEPT ![t] = Onward(@)]
    PROVE  /\ OnlyThread(t)
           /\ th'[t].pend = th[t].pend \/ th'[t].pend.number = 0
           /\ th'[t].snap = th[t].snap \/ th'[t].snap.number = 0
           /\ th'[t].todo = th[t].todo \/ th'[t].todo = <<>>
<1>1. CASE Len(th[t].prog) = 1
  <2>1. th' = [th EXCEPT ![t] = Idle]
    BY <1>1 DEF Onward
  <2> QED BY <2>1, BackToIdle
<1>2. CASE Len(th[t].prog) # 1
  <2>1. Goto(t, Rest(t))
    BY <1>2 DEF Onward, Goto, Rest
  <2> QED BY <2>1, GotoNumbers
<1> QED BY <1>1, <1>2

LEMMA UnlockNumbers == ASSUME NumberInv, NEW t \in Threads, Unlock(t) PROVE NumberInv'
BY OnwardNumbers, SameNumbers DEF Unlock, lists, air, disk

LEMMA ReleaseNumbers == ASSUME NumberInv, NEW t \in Threads, Release(t) PROVE NumberInv'
BY OnwardNumbers, SameNumbers DEF Release, lists, air, disk

LEMMA SaveCleanNumbers == ASSUME NumberInv, NEW t \in Threads, SaveClean(t) PROVE NumberInv'
<1>1. /\ OnlyThread(t)
      /\ th'[t].pend = th[t].pend \/ th'[t].pend.number = 0
      /\ th'[t].snap = th[t].snap \/ th'[t].snap.number = 0
      /\ th'[t].todo = th[t].todo
  BY IdleShape DEF NumberInv, NumberTypes, OnlyThread, SaveClean, Spent
<1> QED BY <1>1, SameNumbers DEF SaveClean, lists, air, disk

LEMMA WriteAliveNumbers == ASSUME NumberInv, NEW t \in Threads, WriteAlive(t) PROVE NumberInv'
<1>1. /\ OnlyThread(t)
      /\ th'[t].pend = th[t].pend \/ th'[t].pend.number = 0
      /\ th'[t].snap = th[t].snap \/ th'[t].snap.number = 0
      /\ th'[t].todo = th[t].todo
  BY IdleShape DEF NumberInv, NumberTypes, OnlyThread, WriteAlive, Spent
<1> QED BY <1>1, SameNumbers DEF WriteAlive, lists, air, disk

LEMMA PersistStepNumbers == ASSUME NumberInv, NEW t \in Threads, PersistStep(t) PROVE NumberInv'
<1>1. /\ OnlyThread(t)
      /\ th'[t].pend = th[t].pend \/ th'[t].pend.number = 0
      /\ th'[t].snap = th[t].snap \/ th'[t].snap.number = 0
      /\ th'[t].todo = th[t].todo
  BY IdleShape DEF NumberInv, NumberTypes, OnlyThread, PersistStep, Spent
<1> QED BY <1>1, SameNumbers DEF PersistStep, lists, air, disk

LEMMA TakeDirtyNumbers == ASSUME NumberInv, NEW t \in Threads, TakeDirty(t) PROVE NumberInv'
<1>1. /\ OnlyThread(t)
      /\ th'[t].pend = th[t].pend \/ th'[t].pend.number = 0
      /\ th'[t].snap = th[t].snap \/ th'[t].snap.number = 0
      /\ th'[t].todo = th[t].todo
  <2>1. PICK b, q, d :
          th' = [th EXCEPT ![t].prog = q, ![t].pend = [EmptyPending EXCEPT !.alive = b],
                           ![t].queue = d]
    BY DEF TakeDirty
  <2>2. [EmptyPending EXCEPT !.alive = b].number = 0
    BY DEF EmptyPending
  <2> QED BY <2>1, <2>2, IdleShape DEF NumberInv, NumberTypes, OnlyThread
<1> QED BY <1>1, SameNumbers DEF TakeDirty, lists, air, disk

LEMMA AdoptWrittenNumbers == ASSUME NumberInv, NEW t \in Threads, AdoptWritten(t) PROVE NumberInv'
<1>1. /\ OnlyThread(t)
      /\ th'[t].pend = th[t].pend \/ th'[t].pend.number = 0
      /\ th'[t].snap = th[t].snap \/ th'[t].snap.number = 0
      /\ th'[t].todo = th[t].todo
  BY IdleShape DEF NumberInv, NumberTypes, OnlyThread, AdoptWritten, Spent
<1> QED BY <1>1, SameNumbers DEF AdoptWritten, lists, air, disk

LEMMA FoldCheckNumbers == ASSUME NumberInv, NEW t \in Threads, FoldCheck(t) PROVE NumberInv'
<1>1. /\ OnlyThread(t)
      /\ th'[t].pend = th[t].pend \/ th'[t].pend.number = 0
      /\ th'[t].snap = th[t].snap \/ th'[t].snap.number = 0
      /\ th'[t].todo = th[t].todo
  BY IdleShape DEF NumberInv, NumberTypes, OnlyThread, FoldCheck, Spent
<1> QED BY <1>1, SameNumbers DEF FoldCheck, lists, air, disk

LEMMA FoldRefusedNumbers == ASSUME NumberInv, NEW t \in Threads, FoldRefused(t) PROVE NumberInv'
<1>1. /\ OnlyThread(t)
      /\ th'[t].pend = th[t].pend \/ th'[t].pend.number = 0
      /\ th'[t].snap = th[t].snap \/ th'[t].snap.number = 0
      /\ th'[t].todo = th[t].todo
  BY IdleShape DEF NumberInv, NumberTypes, OnlyThread, FoldRefused, Spent
<1> QED BY <1>1, SameNumbers DEF FoldRefused, lists, air, disk

LEMMA ChooseFoldsNumbers == ASSUME NumberInv, NEW t \in Threads, ChooseFolds(t) PROVE NumberInv'
<1>1. /\ OnlyThread(t)
      /\ th'[t].pend = th[t].pend \/ th'[t].pend.number = 0
      /\ th'[t].snap = th[t].snap \/ th'[t].snap.number = 0
      /\ th'[t].todo = th[t].todo
  BY IdleShape DEF NumberInv, NumberTypes, OnlyThread, ChooseFolds, Spent
<1> QED BY <1>1, SameNumbers DEF ChooseFolds, lists, air, disk

LEMMA PersistGroupNumbers == ASSUME NumberInv, NEW t \in Threads, PersistGroup(t) PROVE NumberInv'
<1>1. /\ OnlyThread(t)
      /\ th'[t].pend = th[t].pend \/ th'[t].pend.number = 0
      /\ th'[t].snap = th[t].snap \/ th'[t].snap.number = 0
      /\ th'[t].todo = th[t].todo \/ th'[t].todo = <<>>
  <2>1. CASE th[t].groups = {}
    BY <2>1, GotoNumbers DEF PersistGroup
  <2>2. CASE th[t].groups # {}
    <3>1. PICK g \in th[t].groups :
            th' = [th EXCEPT
                     ![t].prog = If(Cardinality(g) > 1, Fold) \o <<"writeEach">> \o @,
                     ![t].groups = @ \ {g}, ![t].group = g, ![t].queue = g,
                     ![t].folded = FALSE]
      BY <2>2 DEF PersistGroup
    <3> QED BY <3>1, IdleShape DEF NumberInv, NumberTypes, OnlyThread
  <2> QED BY <2>1, <2>2
<1> QED BY <1>1, SameNumbers DEF PersistGroup, lists, air, disk

\* The copy write_unwritten makes keeps the number its segment already has.
LEMMA WriteUnwrittenReadNumbers ==
    ASSUME NumberInv, NEW t \in Threads, WriteUnwrittenRead(t) PROVE NumberInv'
<1> DEFINE todo == IF th[t].folded THEN {} ELSE th[t].queue
           n    == MinOf(todo)
           due  == n \in DOMAIN segments /\ n \in unwritten
           copy == [number |-> n, generation |-> segments[n].generation,
                    rows |-> segments[n].rows, alive |-> [m \in {n} |-> segments[n].alive]]
<1>2. /\ OnlyThread(t) /\ th'[t].pend = th[t].pend /\ th'[t].todo = th[t].todo
      /\ \/ th'[t].snap = th[t].snap
         \/ n \in DOMAIN segments /\ th'[t].snap.number = n /\ DOMAIN th'[t].snap.alive = {n}
  <2>1. CASE todo = {}
    <3>1. th' = [th EXCEPT ![t].prog = Tail(@), ![t].queue = {}, ![t].group = {},
                           ![t].folded = TRUE]
      BY <2>1 DEF WriteUnwrittenRead
    <3> QED BY <3>1, IdleShape DEF NumberInv, NumberTypes, OnlyThread
  <2>2. CASE todo # {}
    <3>1. th' = [th EXCEPT ![t].queue = @ \ {n},
                           ![t].prog = If(due, <<"writeOne", "adoptOne">>) \o @,
                           ![t].snap = IF ~due THEN @ ELSE copy]
      BY <2>2 DEF WriteUnwrittenRead
    <3> HIDE DEF n, due, copy
    <3>2. /\ OnlyThread(t) /\ th'[t].pend = th[t].pend /\ th'[t].todo = th[t].todo
          /\ th'[t].snap = IF ~due THEN th[t].snap ELSE copy
      BY <3>1, IdleShape DEF NumberInv, NumberTypes, OnlyThread
    <3>3. due => n \in DOMAIN segments
      BY DEF due
    <3>4. copy.number = n /\ DOMAIN copy.alive = {n}
      BY DEF copy
    <3> QED BY <3>2, <3>3, <3>4
  <2> QED BY <2>1, <2>2
<1> HIDE DEF n
<1>3. PendClaim(th'[t]) \subseteq PendClaim(th[t]) /\ SnapClaim(th'[t]) \subseteq SnapClaim(th[t])
  BY <1>2 DEF PendClaim, SnapClaim
<1>4. th'[t].snap.number \in Nat
  BY <1>2 DEF NumberInv, NumberTypes, NumbersBelow
<1>5. /\ th[t].todo \in Seq(Finished) /\ landed \in Seq(Finished)
      /\ th[t].pend.number \in Nat
  BY DEF NumberInv, NumberTypes
<1> QED BY <1>2, <1>3, <1>4, <1>5, FewerNumbers DEF WriteUnwrittenRead, lists, air, disk

LEMMA FoldEachNumbers == ASSUME NumberInv, NEW t \in Threads, FoldEach(t) PROVE NumberInv'
<1>1. /\ OnlyThread(t)
      /\ th'[t].pend = th[t].pend \/ th'[t].pend.number = 0
      /\ th'[t].snap = th[t].snap \/ th'[t].snap.number = 0
      /\ th'[t].todo = th[t].todo \/ th'[t].todo = <<>>
  <2> DEFINE over == th[t].groups = {} \/ (th[t].durable /\ ~th[t].folded)
  <2>1. CASE over
    <3>1. th' = [th EXCEPT ![t].prog = Tail(@), ![t].groups = {}, ![t].group = {},
                           ![t].folded = TRUE]
      BY <2>1 DEF FoldEach
    <3> QED BY <3>1, IdleShape DEF NumberInv, NumberTypes, OnlyThread
  <2>2. CASE ~over
    <3>1. PICK g \in th[t].groups :
            th' = [th EXCEPT ![t].prog = Fold \o @, ![t].groups = @ \ {g}, ![t].group = g]
      BY <2>2 DEF FoldEach
    <3> QED BY <3>1, IdleShape DEF NumberInv, NumberTypes, OnlyThread
  <2> QED BY <2>1, <2>2
<1> QED BY <1>1, SameNumbers DEF FoldEach, lists, air, disk

LEMMA NextHeadNumbers == ASSUME NumberInv, NEW t \in Threads, NextHead(t) PROVE NumberInv'
<1>1. /\ OnlyThread(t)
      /\ th'[t].pend = th[t].pend \/ th'[t].pend.number = 0
      /\ th'[t].snap = th[t].snap \/ th'[t].snap.number = 0
      /\ th'[t].todo = th[t].todo \/ th'[t].todo = <<>>
  <2>1. CASE th' = [th EXCEPT ![t] = Onward(@)]
    BY <2>1, OnwardNumbers
  <2>2. CASE \E h : th' = [th EXCEPT ![t].prog = Fold \o @, ![t].group = h, ![t].durable = TRUE]
    BY <2>2, IdleShape DEF NumberInv, NumberTypes, OnlyThread
  <2> QED BY <2>1, <2>2 DEF NextHead
<1> QED BY <1>1, SameNumbers DEF NextHead, lists, air, disk

LEMMA HeldRowsNumbers == ASSUME NumberInv, NEW t \in Threads, HeldRows(t) PROVE NumberInv'
<1>1. /\ OnlyThread(t)
      /\ th'[t].pend = th[t].pend \/ th'[t].pend.number = 0
      /\ th'[t].snap = th[t].snap \/ th'[t].snap.number = 0
      /\ th'[t].todo = th[t].todo \/ th'[t].todo = <<>>
  <2>1. CASE th' = [th EXCEPT ![t] = Idle]
    BY <2>1, BackToIdle
  <2>2. CASE th' = [th EXCEPT ![t] = [@ EXCEPT !.prog = Persist]]
    BY <2>2, IdleShape DEF NumberInv, NumberTypes, OnlyThread
  <2> QED BY <2>1, <2>2 DEF HeldRows
<1> QED BY <1>1, SameNumbers DEF HeldRows, lists, air, disk

-----------------------------------------------------------------------------
\* A call begins with no number of its own.
LEMMA BegunNumbers ==
    ASSUME NumberInv, NEW t \in Threads, NEW r,
           DOMAIN r = Fields, r.pend = Idle.pend, r.snap = Idle.snap, r.todo = Idle.todo,
           th' = [th EXCEPT ![t] = r]
    PROVE  /\ OnlyThread(t) /\ th'[t].pend.number = 0 /\ th'[t].snap.number = 0
           /\ th'[t].todo = <<>>
<1>1. DOMAIN th = Threads
  BY DEF NumberInv, NumberTypes
<1>2. DOMAIN th' = Threads /\ th'[t] = r /\ \A u \in Threads \ {t} : th'[u] = th[u]
  BY <1>1
<1> QED BY <1>2, IdleShape DEF OnlyThread

LEMMA BeginNumbers ==
    ASSUME NumberInv, NEW t \in Threads, NEW op, NEW p, Begin(t, op, p) PROVE NumberInv'
<1> DEFINE r == [Idle EXCEPT !.op = op, !.prog = p]
<1>1. DOMAIN r = Fields /\ r.pend = Idle.pend /\ r.snap = Idle.snap /\ r.todo = Idle.todo
  BY DEF Idle, Fields
<1>2. th' = [th EXCEPT ![t] = r]
  BY DEF Begin
<1> HIDE DEF r
<1> QED BY <1>1, <1>2, BegunNumbers, SameNumbers DEF Begin, lists, air, disk

LEMMA UpsertNumbers ==
    ASSUME NumberInv, NEW t \in Threads, NEW e, Upsert(t, e) PROVE NumberInv'
<1> DEFINE r == [Idle EXCEPT !.op = "upsert", !.prog = <<"collect", "overflow", "unlock">>]
<1>1. DOMAIN r = Fields /\ r.pend = Idle.pend /\ r.snap = Idle.snap /\ r.todo = Idle.todo
  BY DEF Idle, Fields
<1>2. th' = [th EXCEPT ![t] = r] \/ th' = th
  BY DEF Upsert
<1> HIDE DEF r
<1>3. /\ OnlyThread(t)
      /\ th'[t].pend = th[t].pend \/ th'[t].pend.number = 0
      /\ th'[t].snap = th[t].snap \/ th'[t].snap.number = 0
      /\ th'[t].todo = th[t].todo \/ th'[t].todo = <<>>
  BY <1>1, <1>2, BegunNumbers DEF NumberInv, NumberTypes, OnlyThread
<1> QED BY <1>3, SameNumbers DEF Upsert, lists, air, disk

LEMMA BeginSweepNumbers ==
    ASSUME NumberInv, NEW t \in Threads, NEW s, NEW u, NEW b, BeginSweep(t, s, u, b)
    PROVE  NumberInv'
<1>1. PICK p : th' = [th EXCEPT ![t] = [Idle EXCEPT !.op = "sweep", !.prog = p,
                                          !.source = s, !.under = u, !.spare = b]]
  BY DEF BeginSweep
<1> DEFINE r == [Idle EXCEPT !.op = "sweep", !.prog = p, !.source = s, !.under = u, !.spare = b]
<1>2. DOMAIN r = Fields /\ r.pend = Idle.pend /\ r.snap = Idle.snap /\ r.todo = Idle.todo
  BY DEF Idle, Fields
<1>3. th' = [th EXCEPT ![t] = r]
  BY <1>1
<1> HIDE DEF r
<1> QED BY <1>2, <1>3, BegunNumbers, SameNumbers DEF BeginSweep, lists, air, disk

LEMMA BeginForgetNumbers ==
    ASSUME NumberInv, NEW t \in Threads, NEW s, BeginForget(t, s) PROVE NumberInv'
<1>1. PICK p : th' = [th EXCEPT ![t] = [Idle EXCEPT !.op = "forget", !.prog = p, !.source = s]]
  BY DEF BeginForget
<1> DEFINE r == [Idle EXCEPT !.op = "forget", !.prog = p, !.source = s]
<1>2. DOMAIN r = Fields /\ r.pend = Idle.pend /\ r.snap = Idle.snap /\ r.todo = Idle.todo
  BY DEF Idle, Fields
<1>3. th' = [th EXCEPT ![t] = r]
  BY <1>1
<1> HIDE DEF r
<1> QED BY <1>2, <1>3, BegunNumbers, SameNumbers DEF BeginForget, lists, air, disk

\* A step of no thread's own program that leaves every number where it is.
LEMMA StillNumbers ==
    ASSUME NumberInv, NEW t \in Threads,
           UNCHANGED <<segments, flights, landed, manifest, next_segment, th>>
    PROVE  NumberInv'
<1>1. OnlyThread(t)
  BY DEF NumberInv, NumberTypes, OnlyThread
<1> QED BY <1>1, SameNumbers

LEMMA CallNumbers == ASSUME NumberInv, NEW t \in Threads, Call(t) PROVE NumberInv'
<1>1. ASSUME NEW p, RemoveSubtree(t, p) PROVE NumberInv'
  BY <1>1, StillNumbers DEF RemoveSubtree, lists, air, disk
<1>2. CASE AbandonGeneration(t)
  BY <1>2, StillNumbers DEF AbandonGeneration, air, disk
<1>3. CASE BeginCall(t)
  BY <1>3, BeginNumbers DEF BeginCall, PublishLarge, PublishSmall
<1>4. CASE BeginGeneration(t)
  BY <1>4, BeginNumbers DEF BeginGeneration
<1> QED BY <1>1, <1>2, <1>3, <1>4, UpsertNumbers, BeginSweepNumbers, BeginForgetNumbers DEF Call

-----------------------------------------------------------------------------
\* One number, held by thread t or taken off its builds, enters the list or the
\* air, and the thread lets go of it.
LEMMA ArrivedNumber ==
    ASSUME NumberInv, NEW t \in Threads, OnlyThread(t), NEW n \in Nat, n < next_segment,
           PendClaim(th'[t]) \subseteq PendClaim(th[t]) \ {n}, th'[t].pend.number \in Nat,
           SnapClaim(th'[t]) \subseteq SnapClaim(th[t]) \ {n}, th'[t].snap.number \in Nat,
           \A u \in Threads \ {t} : n \notin ClaimsOf(th[u]),
           th'[t].todo \in Seq(Finished), Numbers(th'[t].todo) \subseteq Numbers(th[t].todo),
           UNCHANGED <<landed, manifest, next_segment>>,
           \/ /\ DOMAIN segments' \subseteq DOMAIN segments \cup {n}
              /\ DOMAIN flights' \subseteq DOMAIN flights
              /\ n # 0 => n \notin DOMAIN flights'
           \/ /\ DOMAIN segments' \subseteq DOMAIN segments
              /\ DOMAIN flights' \subseteq DOMAIN flights \cup {n}
              /\ n # 0 => n \notin DOMAIN segments \cup Named
    PROVE  NumberInv'
<1>1. \A u \in Threads : /\ PendClaim(th'[u]) \subseteq PendClaim(th[u])
                         /\ SnapClaim(th'[u]) \subseteq SnapClaim(th[u])
                         /\ ClaimsOf(th'[u]) \subseteq ClaimsOf(th[u]) \ {n}
                         /\ Numbers(th'[u].todo) \subseteq Numbers(th[u].todo)
  BY ClaimsSplit DEF OnlyThread
<1>2. NumberTypes'
  BY DEF NumberInv, NumberTypes, OnlyThread
<1>3. NumbersBelow'
  BY <1>1 DEF NumberInv, NumbersBelow, Named
<1>4. NumbersApart'
  BY <1>1 DEF NumberInv, NumbersApart
<1>5. NoSharedNumber'
  <2>1. ASSUME NEW u \in Threads
        PROVE  ClaimsOf(th'[u]) \cap (DOMAIN segments' \cup DOMAIN flights' \cup Named') = {}
    BY <1>1 DEF NumberInv, NoSharedNumber, Named
  <2>2. \A u, v \in Threads : u # v => ClaimsOf(th'[u]) \cap ClaimsOf(th'[v]) = {}
    BY <1>1 DEF NumberInv, NoSharedNumber
  <2>3. (DOMAIN flights' \ {0}) \cap (DOMAIN segments' \cup Named') = {}
    BY DEF NumberInv, NoSharedNumber, Named
  <2> QED BY <2>1, <2>2, <2>3 DEF NoSharedNumber
<1> QED BY <1>2, <1>3, <1>4, <1>5 DEF NumberInv

\* Thread t is handed the next number, for a segment or for a fold.
LEMMA FreshNumber ==
    ASSUME NumberInv, NEW t \in Threads, OnlyThread(t),
           PendClaim(th'[t]) \subseteq PendClaim(th[t]) \cup {next_segment},
           SnapClaim(th'[t]) \subseteq SnapClaim(th[t]) \cup {next_segment},
           next_segment \notin PendClaim(th'[t]) \cap SnapClaim(th'[t]),
           th'[t].pend.number \in Nat, th'[t].snap.number \in Nat,
           th'[t].todo = th[t].todo,
           UNCHANGED <<landed, manifest>>, next_segment' = next_segment + 1,
           DOMAIN segments' \subseteq DOMAIN segments,
           DOMAIN flights' \subseteq DOMAIN flights
    PROVE  NumberInv'
<1>1. /\ next_segment \in Nat /\ next_segment # 0 /\ manifest.next_segment <= next_segment
      /\ manifest.next_segment \in Nat
  BY DEF NumberInv, NumberTypes
<1>2. /\ next_segment \notin DOMAIN segments \cup DOMAIN flights \cup Named \cup Numbers(landed)
      /\ \A u \in Threads : next_segment \notin PendClaim(th[u]) \cup SnapClaim(th[u])
                                \cup ClaimsOf(th[u]) \cup Numbers(th[u].todo)
  BY <1>1, ClaimsSplit DEF NumberInv, NumbersBelow
<1>3. /\ \A u \in Threads : Numbers(th'[u].todo) = Numbers(th[u].todo)
      /\ \A u \in Threads \ {t} : th'[u] = th[u]
      /\ ClaimsOf(th'[t]) \subseteq ClaimsOf(th[t]) \cup {next_segment}
      /\ Numbers(landed') = Numbers(landed)
  BY ClaimsSplit DEF OnlyThread
<1>4. NumberTypes'
  <2>1. /\ next_segment' \in Nat \ {0} /\ manifest'.next_segment \in Nat \ {0}
        /\ manifest'.next_segment <= next_segment' /\ landed' \in Seq(Finished)
    BY <1>1 DEF NumberInv, NumberTypes
  <2>2. DOMAIN th' = Threads
    BY DEF OnlyThread
  <2>3. ASSUME NEW u \in Threads
        PROVE  /\ DOMAIN th'[u] = Fields /\ th'[u].todo \in Seq(Finished)
               /\ th'[u].pend.number \in Nat /\ th'[u].snap.number \in Nat
    BY DEF NumberInv, NumberTypes, OnlyThread
  <2> QED BY <2>1, <2>2, <2>3 DEF NumberTypes
<1>5. NumbersBelow'
  <2>1. \A n \in DOMAIN segments' \cup DOMAIN flights' \cup Numbers(landed') :
           n \in Nat /\ n < next_segment'
    BY <1>1, <1>3 DEF NumberInv, NumbersBelow
  <2>2. \A n \in Named' : n \in Nat /\ n < manifest'.next_segment
    BY DEF NumberInv, NumbersBelow, Named
  <2>3. ASSUME NEW u \in Threads,
               NEW n \in PendClaim(th'[u]) \cup SnapClaim(th'[u]) \cup Numbers(th'[u].todo)
        PROVE  n \in Nat /\ n < next_segment'
    BY <1>1, <1>3 DEF NumberInv, NumbersBelow
  <2> QED BY <2>1, <2>2, <2>3 DEF NumbersBelow
<1>6. NumbersApart'
  <2>1. \A u \in Threads : PendClaim(th'[u]) \cap SnapClaim(th'[u]) = {}
    BY <1>2, <1>3 DEF NumberInv, NumbersApart
  <2>2. \A u \in Threads : ClaimsOf(th'[u]) \cap Numbers(landed') = {}
    BY <1>2, <1>3 DEF NumberInv, NumbersApart
  <2>3. \A u, v \in Threads : ClaimsOf(th'[u]) \cap Numbers(th'[v].todo) = {}
    BY <1>2, <1>3 DEF NumberInv, NumbersApart
  <2> QED BY <2>1, <2>2, <2>3 DEF NumbersApart
<1>7. NoSharedNumber'
  <2>1. ASSUME NEW u \in Threads
        PROVE  ClaimsOf(th'[u]) \cap (DOMAIN segments' \cup DOMAIN flights' \cup Named') = {}
    BY <1>2, <1>3 DEF NumberInv, NoSharedNumber, Named
  <2>2. ASSUME NEW u \in Threads, NEW v \in Threads, u # v
        PROVE  ClaimsOf(th'[u]) \cap ClaimsOf(th'[v]) = {}
    BY <2>2, <1>2, <1>3 DEF NumberInv, NoSharedNumber
  <2>3. (DOMAIN flights' \ {0}) \cap (DOMAIN segments' \cup Named') = {}
    BY DEF NumberInv, NoSharedNumber, Named
  <2> QED BY <2>1, <2>2, <2>3 DEF NoSharedNumber
<1> QED BY <1>4, <1>5, <1>6, <1>7 DEF NumberInv

-----------------------------------------------------------------------------
\* What thread t holds is a number.
LEMMA HeldNumbers ==
    ASSUME NumberInv, NEW t \in Threads
    PROVE  /\ th[t].todo \in Seq(Finished) /\ landed \in Seq(Finished)
           /\ th[t].pend.number \in Nat /\ th[t].snap.number \in Nat
           /\ next_segment \in Nat /\ next_segment # 0
           /\ th[t].pend.number < next_segment
           /\ \A n \in SnapClaim(th[t]) \cup Numbers(th[t].todo) : n \in Nat /\ n < next_segment
<1>1. next_segment \in Nat \ {0} /\ th[t].pend.number \in Nat
  BY DEF NumberInv, NumberTypes
<1>2. th[t].pend.number < next_segment
  BY <1>1 DEF NumberInv, NumbersBelow, PendClaim
<1> QED BY <1>1, <1>2 DEF NumberInv, NumberTypes, NumbersBelow

\* The number in a thread's Pending is its own.
LEMMA PendIsOwn ==
    ASSUME NumberInv, NEW t \in Threads
    PROVE  /\ \A u \in Threads \ {t} : th[t].pend.number \notin ClaimsOf(th[u])
           /\ th[t].pend.number \notin SnapClaim(th[t])
           /\ th[t].pend.number # 0 => th[t].pend.number \notin DOMAIN segments \cup Named
                                                                  \cup DOMAIN flights
<1>1. \A u \in Threads : 0 \notin ClaimsOf(th[u]) /\ 0 \notin SnapClaim(th[u])
  BY DEF ClaimsOf, SnapClaim
<1>2. th[t].pend.number # 0 => th[t].pend.number \in PendClaim(th[t])
  BY DEF PendClaim
<1>3. th[t].pend.number # 0 => th[t].pend.number \in ClaimsOf(th[t])
  BY <1>2, ClaimsSplit
<1> QED BY <1>1, <1>2, <1>3 DEF NumberInv, NumbersApart, NoSharedNumber

LEMMA LandBuiltNumbers == ASSUME NumberInv, NEW t \in Threads, LandBuilt(t) PROVE NumberInv'
<1> DEFINE n == Head(th[t].todo).number
<1>1. th[t].todo \in Seq(Finished) /\ th[t].todo # <<>>
  BY HeldNumbers DEF LandBuilt
<1>2. /\ n \in Nat /\ n \in Numbers(th[t].todo)
      /\ Tail(th[t].todo) \in Seq(Finished) /\ Numbers(Tail(th[t].todo)) \subseteq Numbers(th[t].todo)
  BY <1>1, NumbersOfTail
<1>3. n < next_segment /\ next_segment \in Nat
  BY <1>2, HeldNumbers
<1>4. \A u \in Threads : n \notin ClaimsOf(th[u])
  BY <1>2 DEF NumberInv, NumbersApart
<1>5. PICK nx : th' = [th EXCEPT ![t].prog = nx.prog, ![t].added = nx.added,
                                 ![t].failed = nx.failed, ![t].todo = Tail(@)]
  BY DEF LandBuilt
<1>6. /\ OnlyThread(t) /\ th'[t].pend = th[t].pend /\ th'[t].snap = th[t].snap
      /\ th'[t].todo = Tail(th[t].todo)
  BY <1>5, IdleShape DEF NumberInv, NumberTypes, OnlyThread
<1>7. /\ DOMAIN segments' = DOMAIN segments \cup {n} /\ DOMAIN flights' = DOMAIN flights \ {n}
      /\ UNCHANGED <<landed, manifest>> /\ next_segment' = MaxOf({next_segment, n + 1})
  BY DEF LandBuilt, With, Without
<1>8. next_segment' = next_segment
  BY <1>2, <1>3, <1>7, MaxOfPast
<1>9. /\ PendClaim(th'[t]) \subseteq PendClaim(th[t]) \ {n}
      /\ SnapClaim(th'[t]) \subseteq SnapClaim(th[t]) \ {n}
  BY <1>4, <1>6, ClaimsSplit DEF PendClaim, SnapClaim
<1> HIDE DEF n
<1> QED BY <1>2, <1>3, <1>4, <1>6, <1>7, <1>8, <1>9, HeldNumbers, ArrivedNumber

LEMMA LandFailedNumbers == ASSUME NumberInv, NEW t \in Threads, LandFailed(t) PROVE NumberInv'
<1>1. th[t].todo \in Seq(Finished) /\ th[t].todo # <<>>
  BY HeldNumbers DEF LandFailed
<1>2. Tail(th[t].todo) \in Seq(Finished) /\ Numbers(Tail(th[t].todo)) \subseteq Numbers(th[t].todo)
  BY <1>1, NumbersOfTail
<1>3. PICK nx : th' = [th EXCEPT ![t].prog = nx.prog, ![t].added = nx.added,
                                 ![t].failed = nx.failed, ![t].todo = Tail(@)]
  BY DEF LandFailed
<1>4. /\ OnlyThread(t) /\ th'[t].pend = th[t].pend /\ th'[t].snap = th[t].snap
      /\ th'[t].todo = Tail(th[t].todo)
  BY <1>3, IdleShape DEF NumberInv, NumberTypes, OnlyThread
<1>5. /\ DOMAIN segments' = DOMAIN segments /\ DOMAIN flights' \subseteq DOMAIN flights
      /\ UNCHANGED <<landed, manifest, next_segment>>
  BY DEF LandFailed, Without, lists, disk
<1>6. PendClaim(th'[t]) = PendClaim(th[t]) /\ SnapClaim(th'[t]) = SnapClaim(th[t])
  BY <1>4 DEF PendClaim, SnapClaim
<1> QED BY <1>2, <1>4, <1>5, <1>6, HeldNumbers, FewerNumbers

LEMMA LandBuiltFailsNumbers ==
    ASSUME NumberInv, NEW t \in Threads, LandBuiltFails(t) PROVE NumberInv'
<1>1. landed' = landed \o th[t].todo
  BY DEF LandBuiltFails
<1>2. landed' \in Seq(Finished) /\ Numbers(landed') \subseteq Numbers(landed) \cup Numbers(th[t].todo)
  BY <1>1, HeldNumbers, NumbersOfBoth
<1>3. th' = [th EXCEPT ![t] = Idle]
  BY DEF LandBuiltFails, Fail
<1>4. th'[t] = Idle /\ OnlyThread(t)
  BY <1>3, BackToIdle DEF NumberInv, NumberTypes
<1>5. /\ PendClaim(th'[t]) = {} /\ SnapClaim(th'[t]) = {} /\ Numbers(th'[t].todo) = {}
      /\ th'[t].todo \in Seq(Finished) /\ th'[t].pend.number = 0 /\ th'[t].snap.number = 0
  BY <1>4, IdleShape
<1>6. UNCHANGED <<segments, flights, manifest, next_segment>>
  BY DEF LandBuiltFails, lists, disk
<1> QED BY <1>2, <1>4, <1>5, <1>6, FewerNumbers, SMTT(30)

\* save_meta: the manifest takes the counter along with the list.
LEMMA SaveNumbers == ASSUME NumberInv, NEW t \in Threads, Save(t) PROVE NumberInv'
<1>1. /\ OnlyThread(t)
      /\ th'[t].pend = th[t].pend \/ th'[t].pend.number = 0
      /\ th'[t].snap = th[t].snap /\ th'[t].todo = th[t].todo
  BY IdleShape DEF NumberInv, NumberTypes, OnlyThread, Save, Spent
<1>2. /\ manifest'.next_segment = next_segment
      /\ DOMAIN manifest'.segments \subseteq DOMAIN segments
  BY DEF Save, ManifestOf, Written
<1>3. UNCHANGED <<segments, flights, landed, next_segment>>
  BY DEF Save, lists, air
<1>4. \A u \in Threads : /\ PendClaim(th'[u]) \subseteq PendClaim(th[u])
                         /\ SnapClaim(th'[u]) \subseteq SnapClaim(th[u])
                         /\ ClaimsOf(th'[u]) \subseteq ClaimsOf(th[u])
                         /\ th'[u].todo = th[u].todo
  BY <1>1, ClaimsSplit DEF OnlyThread, PendClaim, SnapClaim
<1>5. NumberTypes'
  BY <1>1, <1>2, <1>3, SMTT(30) DEF NumberInv, NumberTypes, OnlyThread
<1>6. NumbersBelow'
  BY <1>2, <1>3, <1>4 DEF NumberInv, NumbersBelow, Named
<1>7. NumbersApart'
  BY <1>3, <1>4 DEF NumberInv, NumbersApart
<1>8. NoSharedNumber'
  BY <1>2, <1>3, <1>4 DEF NumberInv, NoSharedNumber, Named
<1> QED BY <1>5, <1>6, <1>7, <1>8 DEF NumberInv

LEMMA InstallNumbers == ASSUME NumberInv, NEW t \in Threads, Install(t) PROVE NumberInv'
<1> DEFINE n == th[t].pend.number
<1>1. /\ OnlyThread(t) /\ th'[t].pend = EmptyPending /\ th'[t].snap = th[t].snap
      /\ th'[t].todo = th[t].todo
  BY IdleShape DEF NumberInv, NumberTypes, OnlyThread, Install
<1>2. /\ DOMAIN segments' = DOMAIN segments \cup {n} /\ UNCHANGED <<flights, landed, manifest>>
      /\ next_segment' = MaxOf({next_segment, n + 1})
  BY DEF Install, With, air, disk
<1>3. n \in Nat /\ n < next_segment /\ next_segment' = next_segment
  BY <1>2, HeldNumbers, MaxOfPast
<1>4. /\ PendClaim(th'[t]) \subseteq PendClaim(th[t]) \ {n} /\ th'[t].pend.number \in Nat
      /\ SnapClaim(th'[t]) \subseteq SnapClaim(th[t]) \ {n}
  BY <1>1, IdleShape, PendIsOwn DEF PendClaim, SnapClaim
<1> QED BY <1>1, <1>2, <1>3, <1>4, HeldNumbers, PendIsOwn, ArrivedNumber

LEMMA PushNumbers == ASSUME NumberInv, NEW t \in Threads, Push(t) PROVE NumberInv'
<1> DEFINE n == th[t].pend.number
<1>1. /\ OnlyThread(t) /\ th'[t].pend = EmptyPending /\ th'[t].snap = th[t].snap
      /\ th'[t].todo = th[t].todo
  BY IdleShape DEF NumberInv, NumberTypes, OnlyThread, Push
<1>2. /\ DOMAIN segments' = DOMAIN segments \cup {n} /\ UNCHANGED <<flights, landed, manifest>>
      /\ next_segment' = MaxOf({next_segment, n + 1})
  BY DEF Push, With, air, disk
<1>3. n \in Nat /\ n < next_segment /\ next_segment' = next_segment
  BY <1>2, HeldNumbers, MaxOfPast
<1>4. /\ PendClaim(th'[t]) \subseteq PendClaim(th[t]) \ {n} /\ th'[t].pend.number \in Nat
      /\ SnapClaim(th'[t]) \subseteq SnapClaim(th[t]) \ {n}
  BY <1>1, IdleShape, PendIsOwn DEF PendClaim, SnapClaim
<1> QED BY <1>1, <1>2, <1>3, <1>4, HeldNumbers, PendIsOwn, ArrivedNumber

\* The number goes from the caller to the builder.
LEMMA DispatchNumbers == ASSUME NumberInv, NEW t \in Threads, Dispatch(t) PROVE NumberInv'
<1> DEFINE n    == th[t].pend.number
           full == Cardinality(DOMAIN flights) >= MaxBuilding
<1>1. /\ OnlyThread(t) /\ th'[t].snap = th[t].snap /\ th'[t].todo = th[t].todo
      /\ th'[t].pend = IF full THEN th[t].pend ELSE EmptyPending
  BY IdleShape DEF NumberInv, NumberTypes, OnlyThread, Dispatch
<1>2. UNCHANGED <<segments, landed, manifest, next_segment>>
  BY DEF Dispatch, lists, disk
<1>3. CASE full
  <2>1. flights' = flights
    BY <1>3 DEF Dispatch
  <2> QED BY <1>1, <1>2, <1>3, <2>1, SameNumbers
<1>4. CASE ~full
  <2>1. DOMAIN flights' = DOMAIN flights \cup {n}
    BY <1>4 DEF Dispatch, With
  <2>2. /\ PendClaim(th'[t]) \subseteq PendClaim(th[t]) \ {n} /\ th'[t].pend.number \in Nat
        /\ SnapClaim(th'[t]) \subseteq SnapClaim(th[t]) \ {n}
    BY <1>1, <1>4, IdleShape, PendIsOwn DEF PendClaim, SnapClaim
  <2> QED BY <1>1, <1>2, <2>1, <2>2, HeldNumbers, PendIsOwn, ArrivedNumber
<1> QED BY <1>3, <1>4

\* A fold's own number joins the list, and the numbers it consumed leave it.
LEMMA FoldSwapNumbers == ASSUME NumberInv, NEW t \in Threads, FoldSwap(t) PROVE NumberInv'
<1> DEFINE n == th[t].snap.number
<1>1. /\ OnlyThread(t) /\ th'[t].pend = th[t].pend /\ th'[t].snap = NoSnapshot
      /\ th'[t].todo = th[t].todo
  BY IdleShape DEF NumberInv, NumberTypes, OnlyThread, FoldSwap
<1>2. /\ DOMAIN segments' \subseteq DOMAIN segments \cup {n}
      /\ UNCHANGED <<flights, landed, manifest>>
      /\ next_segment' = MaxOf({next_segment, n + 1})
  BY DEF FoldSwap, air, disk
<1>3. n \in DOMAIN th[t].snap.alive => n \in DOMAIN segments
  BY DEF FoldSwap, FoldCurrent
<1>4. n = 0 \/ n \in DOMAIN segments \/ n \in SnapClaim(th[t])
  BY <1>3 DEF SnapClaim
<1>5. n \in Nat /\ n < next_segment
  BY <1>4, HeldNumbers DEF NumberInv, NumbersBelow
<1>6. next_segment' = next_segment
  BY <1>2, <1>5, HeldNumbers, MaxOfPast
<1>7. /\ n \notin PendClaim(th[t])
      /\ \A u \in Threads \ {t} : n \notin ClaimsOf(th[u])
      /\ n # 0 => n \notin DOMAIN flights
  <2>1. CASE n = 0
    BY <2>1 DEF PendClaim, ClaimsOf
  <2>2. CASE n \in DOMAIN segments /\ n # 0
    BY <2>2, ClaimsSplit DEF NumberInv, NoSharedNumber
  <2>3. CASE n \in SnapClaim(th[t])
    BY <2>3, ClaimsSplit DEF NumberInv, NoSharedNumber, NumbersApart
  <2> QED BY <1>4, <2>1, <2>2, <2>3
<1>8. /\ PendClaim(th'[t]) \subseteq PendClaim(th[t]) \ {n} /\ th'[t].snap.number \in Nat
      /\ SnapClaim(th'[t]) \subseteq SnapClaim(th[t]) \ {n}
  BY <1>1, <1>7, IdleShape DEF PendClaim, SnapClaim
<1> QED BY <1>1, <1>2, <1>5, <1>6, <1>7, <1>8, HeldNumbers, ArrivedNumber

LEMMA FoldReadNumbers == ASSUME NumberInv, NEW t \in Threads, FoldRead(t) PROVE NumberInv'
<1> DEFINE here == th[t].group \cap DOMAIN segments
<1>1. /\ OnlyThread(t) /\ th'[t].pend = th[t].pend /\ th'[t].todo = th[t].todo
      /\ \/ th'[t].snap = th[t].snap
         \/ th'[t].snap = [number |-> next_segment,
                           generation |-> MaxOf({segments[n].generation : n \in here}),
                           rows |-> UNION {segments[n].alive : n \in here},
                           alive |-> [n \in here |-> segments[n].alive]]
  BY IdleShape DEF NumberInv, NumberTypes, OnlyThread, FoldRead
<1>2. /\ UNCHANGED <<segments, flights, landed, manifest>> /\ next_segment' = next_segment + 1
  BY DEF FoldRead, ClaimedNext, lists, air, disk
<1>3. /\ SnapClaim(th'[t]) \subseteq SnapClaim(th[t]) \cup {next_segment}
      /\ th'[t].snap.number \in Nat
  BY <1>1, HeldNumbers DEF SnapClaim
<1>4. PendClaim(th'[t]) = PendClaim(th[t]) /\ next_segment \notin PendClaim(th[t])
  BY <1>1, HeldNumbers DEF PendClaim
<1> QED BY <1>1, <1>2, <1>3, <1>4, HeldNumbers, FreshNumber

\* flush_prepare takes the next number together with the rows it takes.
LEMMA PrepareNumbers ==
    ASSUME NumberInv, NEW t \in Threads, NEW mode, Prepare(t, mode) PROVE NumberInv'
<1>1. DOMAIN segments' \subseteq DOMAIN segments
  BY DEF Prepare
<1>2. DOMAIN flights' = DOMAIN flights
  BY DEF Prepare
<1>3. UNCHANGED <<landed, manifest>>
  BY DEF Prepare, disk
<1> DEFINE nothing == staged = {} /\ hidden = {} /\ dirty_alive = {}
           live1   == [n \in DOMAIN segments |-> segments[n].alive \ HiddenKills(n)]
           staged1 == {e \in staged : ~Covers(hidden, e.path)}
           staged2 == staged1 \ Unchanged(live1, staged1)
           live2   == [n \in DOMAIN segments |->
                         {r \in live1[n] : Key(r) \notin KeysOf(staged2)}]
           touched == {n \in DOMAIN segments : live2[n] # segments[n].alive}
           takes   == /\ staged2 # {}
                      /\ mode = "overflow" => Cardinality(staged2) >= MaxStaged
           empty   == IF nothing THEN {} ELSE Emptied(live2)
           bits    == Without(DirtyAlive(dirty_alive \cup touched, live2), empty)
           dirty   == \/ meta_dirty
                      \/ takes /\ Durable(mode)
                      \/ empty \ unwritten # {}
           save    == Durable(mode) /\ dirty
           carried == [staged     |-> IF takes THEN staged2 ELSE {},
                       number     |-> IF takes THEN next_segment ELSE 0,
                       generation |-> IF takes THEN generation ELSE 0,
                       alive      |-> IF Durable(mode) THEN bits ELSE <<>>,
                       prefixes   |-> hidden,
                       restore    |-> TRUE]
           p       == IF save THEN carried ELSE Spent(carried)
<1>4. /\ th' = [th EXCEPT ![t].prog = AfterPrepare(mode, p, save) \o Rest(t), ![t].pend = p,
                         ![t].queue = DOMAIN p.alive]
      /\ next_segment' = IF takes THEN next_segment + 1 ELSE next_segment
  BY DEF Prepare
<1>5. p.number = 0 \/ (takes /\ p.number = next_segment)
  <2> HIDE DEF takes, save, staged2, bits
  <2>1. carried.number = IF takes THEN next_segment ELSE 0
    OBVIOUS
  <2> HIDE DEF carried
  <2> QED BY <2>1, IdleShape DEF Spent
<1> HIDE DEF takes, p, save
<1>6. /\ OnlyThread(t) /\ th'[t].pend = p /\ th'[t].snap = th[t].snap
      /\ th'[t].todo = th[t].todo
  BY <1>4, IdleShape DEF NumberInv, NumberTypes, OnlyThread
<1>7. CASE ~takes
  BY <1>5, <1>1, <1>2, <1>3, <1>4, <1>6, <1>7, SameNumbers
<1>8. CASE takes
  <2>1. /\ PendClaim(th'[t]) \subseteq {next_segment} /\ th'[t].pend.number \in Nat
        /\ SnapClaim(th'[t]) = SnapClaim(th[t]) /\ next_segment \notin SnapClaim(th[t])
    <3>1. th'[t].pend.number = 0 \/ th'[t].pend.number = next_segment
      BY <1>5, <1>6
    <3>2. next_segment \notin SnapClaim(th[t]) /\ next_segment \in Nat
      BY HeldNumbers
    <3> QED BY <3>1, <3>2, <1>6 DEF PendClaim, SnapClaim
  <2> QED BY <1>1, <1>2, <1>3, <1>4, <1>6, <1>8, <2>1, HeldNumbers, FreshNumber
<1> QED BY <1>7, <1>8

-----------------------------------------------------------------------------
\* A builder ends: its number is among the landed, and still in the air.
LEMMA BuilderNumbers == ASSUME NumberInv, Builder PROVE NumberInv'
<1>1. PICK n \in DOMAIN flights : Build(n) \/ BuildFails(n)
  BY DEF Builder
<1>2. PICK b \in BOOLEAN : landed' = Append(landed, [number |-> n, built |-> b])
  BY <1>1 DEF Build, BuildFails
<1>3. /\ DOMAIN flights' = DOMAIN flights /\ UNCHANGED <<segments, manifest, next_segment, th>>
  BY <1>1 DEF Build, BuildFails, lists
<1>4. n \in Nat /\ n < next_segment
  BY DEF NumberInv, NumbersBelow
<1>5. landed' \in Seq(Finished) /\ Numbers(landed') \subseteq Numbers(landed) \cup {n}
  BY <1>2, <1>4, NumbersOfOne DEF NumberInv, NumberTypes
<1>6. \A t \in Threads : n \notin ClaimsOf(th[t])
  BY DEF NumberInv, NoSharedNumber
<1>7. NumberTypes'
  BY <1>3, <1>5 DEF NumberInv, NumberTypes
<1>8. NumbersBelow'
  BY <1>3, <1>4, <1>5 DEF NumberInv, NumbersBelow, Named
<1>9. NumbersApart'
  BY <1>3, <1>5, <1>6 DEF NumberInv, NumbersApart
<1>10. NoSharedNumber'
  BY <1>3 DEF NumberInv, NoSharedNumber, Named
<1> QED BY <1>7, <1>8, <1>9, <1>10 DEF NumberInv

\* open_or_create: only what the manifest names comes back, under the counter it
\* was saved with.
LEMMA CrashNumbers == ASSUME NumberInv, Crash PROVE NumberInv'
<1>1. /\ DOMAIN segments' = Named /\ next_segment' = manifest.next_segment
      /\ DOMAIN flights' = {} /\ landed' = <<>> /\ manifest' = manifest
      /\ DOMAIN th' = Threads /\ \A t \in Threads : th'[t] = Idle
  BY DEF Crash
<1>2. landed' \in Seq(Finished) /\ Numbers(landed') = {}
  BY <1>1 DEF Numbers
<1>3. \A t \in Threads : /\ PendClaim(th'[t]) = {} /\ SnapClaim(th'[t]) = {}
                         /\ ClaimsOf(th'[t]) = {} /\ Numbers(th'[t].todo) = {}
                         /\ DOMAIN th'[t] = Fields /\ th'[t].todo \in Seq(Finished)
                         /\ th'[t].pend.number = 0 /\ th'[t].snap.number = 0
  BY <1>1, IdleShape, ClaimsSplit DEF Fields
<1>4. NumberTypes'
  BY <1>1, <1>2, <1>3 DEF NumberInv, NumberTypes
<1>5. NumbersBelow'
  BY <1>1, <1>2, <1>3 DEF NumberInv, NumbersBelow, Named
<1>6. NumbersApart'
  BY <1>2, <1>3 DEF NumbersApart
<1>7. NoSharedNumber'
  BY <1>1, <1>3 DEF NoSharedNumber
<1> QED BY <1>4, <1>5, <1>6, <1>7 DEF NumberInv

LEMMA InitNumbers == Init => NumberInv
<1> SUFFICES ASSUME Init PROVE NumberInv
  OBVIOUS
<1>1. /\ DOMAIN segments = {} /\ DOMAIN flights = {} /\ landed = <<>> /\ next_segment = 1
      /\ manifest.next_segment = 1 /\ Named = {}
      /\ DOMAIN th = Threads /\ \A t \in Threads : th[t] = Idle
  BY DEF Init, Named
<1>2. landed \in Seq(Finished) /\ Numbers(landed) = {}
  BY <1>1 DEF Numbers
<1>3. \A t \in Threads : /\ PendClaim(th[t]) = {} /\ SnapClaim(th[t]) = {}
                         /\ ClaimsOf(th[t]) = {} /\ Numbers(th[t].todo) = {}
                         /\ DOMAIN th[t] = Fields /\ th[t].todo \in Seq(Finished)
                         /\ th[t].pend.number = 0 /\ th[t].snap.number = 0
  BY <1>1, IdleShape, ClaimsSplit DEF Fields
<1>4. NumberTypes
  BY <1>1, <1>2, <1>3 DEF NumberTypes
<1>5. NumbersBelow
  BY <1>1, <1>2, <1>3 DEF NumbersBelow
<1>6. NumbersApart
  BY <1>2, <1>3 DEF NumbersApart
<1>7. NoSharedNumber
  BY <1>1, <1>3 DEF NoSharedNumber
<1> QED BY <1>4, <1>5, <1>6, <1>7 DEF NumberInv

LEMMA StepNumbers == ASSUME NumberInv, NEW t \in Threads, Step(t) PROVE NumberInv'
BY SettleStepNumbers, CollectStepNumbers, LandBuiltNumbers, LandFailedNumbers,
   CollectErrorNumbers, UnlockNumbers, SaveNumbers, SaveCleanNumbers, EraseNumbers,
   PrepareNumbers, WriteAliveNumbers, WriteSegNumbers, InstallNumbers, PushNumbers,
   DispatchNumbers, OpenNoneNumbers, OpenNextNumbers, SweepNumbers, ForgetKillNumbers,
   ForgetEmptyNumbers, PersistStepNumbers, PersistGroupNumbers, WriteUnwrittenReadNumbers,
   WriteUnwrittenNumbers, AdoptWrittenNumbers, TakeDirtyNumbers, ReleaseNumbers,
   FoldCheckNumbers, FoldReadNumbers, FoldWriteNumbers, FoldSwapNumbers, FoldRefusedNumbers,
   ChooseFoldsNumbers, FoldEachNumbers, NextHeadNumbers, HeldRowsNumbers
   DEF Step

LEMMA StepFailsNumbers == ASSUME NumberInv, NEW t \in Threads, StepFails(t) PROVE NumberInv'
BY LandBuiltFailsNumbers, SaveFailsNumbers, WriteAliveFailsNumbers, WriteSegFailsNumbers,
   PushFailsNumbers, DispatchFailsNumbers, WriteFailsNumbers
   DEF StepFails

\* The numbers stay below the counter that hands them out, and apart.
THEOREM NumberInvariant == Spec => []NumberInv
<1>1. NumberInv /\ [Next]_vars => NumberInv'
  <2> SUFFICES ASSUME NumberInv, [Next]_vars PROVE NumberInv'
    OBVIOUS
  <2>1. ASSUME NEW t \in Threads, Step(t) \/ StepFails(t) \/ Call(t) PROVE NumberInv'
    BY <2>1, StepNumbers, StepFailsNumbers, CallNumbers
  <2>2. CASE UNCHANGED vars
    <3>1. UNCHANGED <<segments, flights, landed, manifest, next_segment, th>>
      BY <2>2 DEF vars, lists, air, disk
    <3> QED BY <3>1, StillNumbers, NativeIndexAssumption
  <2>3. CASE AtRest
    BY <2>3, <2>2 DEF AtRest
  <2> QED BY <2>1, <2>2, <2>3, BuilderNumbers, CrashNumbers DEF Next
<1> QED BY <1>1, InitNumbers, PTL DEF Spec

\* No two writers ever share a segment number, and none takes a number the list or
\* the manifest names: a commit, a publish, a fold and the builder threads write
\* their files with the lock released, whatever else runs, fails or crashes
\* meanwhile (next_segment in flush_prepare, fold_to, collect and open_or_create).
THEOREM NumbersNeverShared == Spec => []NoSharedNumber
BY NumberInvariant, PTL DEF NumberInv
=============================================================================
