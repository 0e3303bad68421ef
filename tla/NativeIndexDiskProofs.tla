------------------------ MODULE NativeIndexDiskProofs ------------------------
(***************************************************************************)
(* The directory, at every instant a crash may come: every segment the     *)
(* manifest names has all its files.  Reopenable is not inductive.  The    *)
(* manifest is written from the list of segments, so what the list calls   *)
(* written must be on the disk; it gets there by threads that write with   *)
(* the lock released, so nobody may write, or rewrite, under a number that *)
(* is in use (Used, and NumberInv for the numbers), a build that landed    *)
(* must be in one place (Air), and the step that takes a segment into the  *)
(* list must find what an earlier step wrote (Openings).  Files are        *)
(* removed as well: what is waiting to be erased is in no list, and erase  *)
(* runs right after a manifest that names none of it, in the same holding  *)
(* of the lock, which is where the shape of the programs comes in.         *)
(***************************************************************************)
EXTENDS NativeIndexControlProofs

-----------------------------------------------------------------------------
\* The directory.  A segment opens when its files are all there.
Opens(fs, n) == n \in DOMAIN fs /\ "complete" \in DOMAIN fs[n] /\ fs[n].complete

\* The numbers a thread writes under, and the one that copies a segment in the list.
Uses(r) == {r.pend.number, r.snap.number} \ {0}
Copied(r) == ({r.snap.number} \cap DOMAIN r.snap.alive) \ {0}

At(p, l) == p # <<>> /\ Head(p) = l

\* The steps that need what an earlier step wrote.
Needing == {"install", "adoptOne", "foldSwap", "erase"}

Lists ==
    /\ 0 \notin DOMAIN segments \cup DOMAIN flights \cup Named
    /\ unwritten \subseteq DOMAIN segments
    /\ Named \cap unwritten = {}
    /\ pending_erase \cap (DOMAIN segments \cup DOMAIN flights) = {}
    /\ \A n \in pending_erase : n \in Nat \ {0} /\ n < next_segment

\* No thread writes under a number that is on the disk already, on its way there
\* or on its way out, nor under another thread's.
Used ==
    /\ \A t \in Threads : \A n \in Uses(th[t]) :
          /\ n < next_segment
          /\ n \notin Written \cup Named \cup DOMAIN flights \cup pending_erase
    /\ \A t, u \in Threads : t # u => Uses(th[t]) \cap Uses(th[u]) = {}
    /\ \A t \in Threads : th[t].pend.number = th[t].snap.number => th[t].pend.number = 0

\* A build that has landed is one flight's, and is in one place.
Apart(s) == \A i, j \in DOMAIN s : s[i].number = s[j].number => i = j
InAir(s, fl, fs) ==
    \A i \in DOMAIN s : /\ s[i].number \in DOMAIN fl
                        /\ fl[s[i].number].landed
                        /\ s[i].built => Opens(fs, s[i].number)
Air ==
    /\ \A n \in DOMAIN flights : "landed" \in DOMAIN flights[n]
    /\ Apart(landed) /\ InAir(landed, flights, files)
    /\ \A t \in Threads : /\ Apart(th[t].todo) /\ InAir(th[t].todo, flights, files)
                          /\ Numbers(landed) \cap Numbers(th[t].todo) = {}
    /\ \A t, u \in Threads : t # u => Numbers(th[t].todo) \cap Numbers(th[u].todo) = {}

\* What the next step of a thread relies on; `clash' is what it would erase and
\* the manifest names.
Ready(fs, r, clash) ==
    /\ At(r.prog, "install") => Opens(fs, r.pend.number)
    /\ At(r.prog, "adoptOne") => r.snap.number = 0 \/ Opens(fs, r.snap.number)
    /\ At(r.prog, "foldSwap") /\ r.durable /\ r.snap.rows # {} => Opens(fs, r.snap.number)
    /\ At(r.prog, "erase") => clash = {}
    /\ r.snap.rows # {} => r.snap.number # 0
    /\ Copied(r) # {} => At(r.prog, "writeOne") \/ At(r.prog, "adoptOne")

Clash == pending_erase \cap Named

Openings ==
    /\ \A n \in Written \cup Named : Opens(files, n)
    /\ \A t \in Threads : Ready(files, th[t], Clash)

DiskInv == Lists /\ Used /\ Air /\ Openings

-----------------------------------------------------------------------------
LEMMA FirstStep ==
    ASSUME NEW p \in Program, NEW l
    PROVE  At(p, l) <=> p # <<>> /\ p[1] = l
BY DEF At, Program

LEMMA AtNone == ASSUME NEW l PROVE ~At(<<>>, l)
BY DEF At

\* The first step of a program put together from two.
LEMMA FirstOfBoth ==
    ASSUME NEW p \in Program, NEW q \in Program, NEW l, At(p \o q, l)
    PROVE  At(p, l) \/ (p = <<>> /\ At(q, l))
<1>1. CASE p = <<>>
  <2>1. p \o q = q
    BY <1>1, OfNone DEF Program
  <2> QED BY <1>1, <2>1
<1>2. CASE p # <<>>
  <2>1. p \o q \in Program /\ p \o q # <<>> /\ (p \o q)[1] = p[1]
    <3>1. Len(p) \in Nat /\ Len(p) > 0 /\ Len(q) \in Nat
      BY <1>2, SomeSteps
    <3>2. p \o q \in Program /\ Len(p \o q) = Len(p) + Len(q)
      BY DEF Program
    <3>3. (p \o q)[1] = p[1]
      BY <3>1 DEF Program
    <3> QED BY <3>1, <3>2, <3>3, SomeSteps
  <2> QED BY <1>2, <2>1, FirstStep
<1> QED BY <1>1, <1>2

LEMMA FirstOfOne ==
    ASSUME NEW a \in Steps, NEW b \in BOOLEAN, NEW l
    PROVE  /\ <<a>> \in Program /\ (At(<<a>>, l) => l = a)
           /\ If(b, <<a>>) \in Program /\ (At(If(b, <<a>>), l) => l = a)
BY ShapeOfNone DEF At, If, Program

\* After most steps comes one that needs nothing written before it.
LEMMA NextNeeds ==
    ASSUME Control, NEW t \in Threads, NEW l, Running(t, l),
           l \notin {"writeSeg", "writeOne", "foldWrite"}, NEW k \in Needing
    PROVE  ~At(Rest(t), k) /\ Rest(t) \in Program
<1> DEFINE p == th[t].prog
           q == Tail(p)
<1>1. p \in Program /\ Shape(p) /\ p # <<>> /\ p[1] = l
  BY Now
<1> HIDE DEF p
<1>2. q \in Program /\ (q # <<>> => Fits(l, q[1]))
  BY <1>1, ShapeOfTail
<1> HIDE DEF q
<1>3. q # <<>> => q[1] # k
  BY <1>2 DEF Fits, Needing
<1>4. ~At(q, k)
  BY <1>2, <1>3, FirstStep
<1> QED BY <1>2, <1>4 DEF p, q, Rest

LEMMA LeadsTo ==
    ASSUME Control, NEW t \in Threads, NEW a, NEW b, Running(t, a),
           <<a, b>> \in {<<"writeSeg", "install">>, <<"writeOne", "adoptOne">>,
                         <<"foldWrite", "foldSwap">>, <<"foldRead", "foldWrite">>},
           NEW l, At(Rest(t), l)
    PROVE  l = b
<1> DEFINE p == th[t].prog
           q == Tail(p)
<1>1. p \in Program /\ Shape(p) /\ p # <<>> /\ p[1] = a
  BY Now
<1> HIDE DEF p
<1>2. q \in Program /\ (q # <<>> => Fits(a, q[1]))
  BY <1>1, ShapeOfTail
<1> HIDE DEF q
<1>3. At(q, l)
  BY DEF p, q, Rest
<1>4. q # <<>> /\ q[1] = l
  BY <1>2, <1>3, FirstStep
<1> QED BY <1>2, <1>4 DEF Fits

LEMMA RunningAt ==
    ASSUME NEW t, NEW l PROVE Running(t, l) <=> At(th[t].prog, l)
BY DEF Running, At

\* A thread reads a segment of the list to copy it only while it writes the copy,
\* and that is under the `persisting' mutex.
LEMMA NoCopy ==
    ASSUME Openings, NEW t \in Threads, Copied(th[t]) # {}
    PROVE  Running(t, "writeOne") \/ Running(t, "adoptOne")
BY RunningAt DEF Openings, Ready

LEMMA Persists ==
    ASSUME Control, NEW t \in Threads, NEW l \in Within, Running(t, l)
    PROVE  persisting = t
<1> DEFINE p == th[t].prog
<1>1. p # <<>> /\ p \in Program /\ Shape(p) /\ p[1] = l /\ Own(t, p, th[t].pend, lock, persisting)
  BY Now
<1> HIDE DEF p
<1>2. /\ Labels(p) = {l} \cup Labels(Tail(p))
      /\ "persist" \in Labels(Tail(p)) => l \notin Within
  BY <1>1, ShapeOfTail
<1>3. l # "persist"
  BY DEF Within
<1> QED BY <1>1, <1>2, <1>3 DEF Own

LEMMA Carries ==
    ASSUME Control, NEW t \in Threads, NEW l \in Carrying, Running(t, l)
    PROVE  th[t].pend.number # 0 /\ th[t].pend.staged # {}
<1> DEFINE p == th[t].prog
<1>1. p # <<>> /\ p \in Program /\ Shape(p) /\ p[1] = l /\ Own(t, p, th[t].pend, lock, persisting)
  BY Now
<1> HIDE DEF p
<1>2. l \in Labels(p)
  BY <1>1, ShapeOfTail
<1> QED BY <1>1, <1>2 DEF Own

LEMMA UsesAre ==
    ASSUME NEW r PROVE ClaimsOf(r) \subseteq Uses(r) /\ Uses(r) = ClaimsOf(r) \cup Copied(r)
BY DEF ClaimsOf, Uses, Copied

-----------------------------------------------------------------------------
\* What a step leaves as it was.
LEMMA UsedKept ==
    ASSUME NumberInv, Used, NEW t \in Threads, OnlyThread(t),
           th'[t].pend.number \in {th[t].pend.number, 0},
           th'[t].snap.number \in {th[t].snap.number, 0},
           NEW fresh, \A u \in Threads : fresh \cap Uses(th'[u]) = {},
           Written' \subseteq Written \cup fresh,
           DOMAIN flights' \subseteq DOMAIN flights \cup fresh,
           Named' \subseteq Named \cup Written \cup fresh,
           pending_erase' \subseteq pending_erase \cup Written,
           next_segment' \in {next_segment, next_segment + 1}
    PROVE  Used'
<1>1. \A u \in Threads : Uses(th'[u]) \subseteq Uses(th[u])
  BY DEF OnlyThread, Uses
<1>2. \A u \in Threads : th'[u].pend.number = th'[u].snap.number => th'[u].pend.number = 0
  BY DEF OnlyThread, Used
<1>3. \A u, v \in Threads : u # v => Uses(th'[u]) \cap Uses(th'[v]) = {}
  BY <1>1 DEF Used
<1>4. ASSUME NEW u \in Threads, NEW n \in Uses(th'[u])
      PROVE  /\ n < next_segment'
             /\ n \notin Written' \cup Named' \cup DOMAIN flights' \cup pending_erase'
  <2>1. n \in Uses(th[u]) /\ n \notin fresh
    BY <1>1, <1>4
  <2>2. /\ n < next_segment
        /\ n \notin Written \cup Named \cup DOMAIN flights \cup pending_erase
    BY <2>1 DEF Used
  <2>3. n \in Nat /\ next_segment \in Nat
    BY <2>1 DEF Uses, NumberInv, NumberTypes
  <2> QED BY <2>1, <2>2, <2>3
<1> QED BY <1>2, <1>3, <1>4 DEF Used

LEMMA AirKept ==
    ASSUME Air, NEW t \in Threads, OnlyThread(t), landed' = landed,
           th'[t].todo \in {th[t].todo, <<>>},
           \A n \in DOMAIN flights : flights[n].landed =>
              /\ n \in DOMAIN flights' /\ flights'[n].landed
              /\ Opens(files, n) => Opens(files', n),
           \A n \in DOMAIN flights' : "landed" \in DOMAIN flights'[n]
    PROVE  Air'
<1>1. \A s : InAir(s, flights, files) => InAir(s, flights', files')
  BY DEF InAir
<1>2. Apart(<<>>) /\ InAir(<<>>, flights', files') /\ Numbers(<<>>) = {}
  BY DEF Apart, InAir, Numbers
<1>3. \A u \in Threads : th'[u].todo = th[u].todo \/ th'[u].todo = <<>>
  BY DEF OnlyThread
<1>4. Apart(landed') /\ InAir(landed', flights', files')
  BY <1>1 DEF Air
<1>5. \A u \in Threads : /\ Apart(th'[u].todo) /\ InAir(th'[u].todo, flights', files')
                         /\ Numbers(th'[u].todo) \subseteq Numbers(th[u].todo)
  BY <1>1, <1>2, <1>3 DEF Air
<1>6. \A u \in Threads : Numbers(landed') \cap Numbers(th'[u].todo) = {}
  BY <1>5 DEF Air
<1>7. \A u, v \in Threads : u # v => Numbers(th'[u].todo) \cap Numbers(th'[v].todo) = {}
  BY <1>5 DEF Air
<1> QED BY <1>4, <1>5, <1>6, <1>7 DEF Air

LEMMA ReadyKept ==
    ASSUME Control, Openings, NEW u \in Threads, NEW fs, NEW clash, NEW lost,
           \A n : n \notin lost /\ Opens(files, n) => Opens(fs, n),
           lost \cap Uses(th[u]) = {}, Running(u, "erase") => clash = {}
    PROVE  Ready(fs, th[u], clash)
<1> DEFINE r == th[u]
<1>1. Ready(files, r, Clash)
  BY DEF Openings
<1>2. At(r.prog, "install") => r.pend.number # 0
  BY RunningAt, Carries DEF Carrying
<1>3. At(r.prog, "erase") => clash = {}
  BY RunningAt
<1> HIDE DEF r
<1>4. /\ r.pend.number # 0 => r.pend.number \notin lost
      /\ r.snap.number # 0 => r.snap.number \notin lost
  BY DEF Uses, r
<1>5. Ready(fs, r, clash)
  BY <1>1, <1>2, <1>3, <1>4 DEF Ready
<1> QED BY <1>5 DEF r

LEMMA OpeningsKept ==
    ASSUME Control, Openings, NEW t \in Threads, OnlyThread(t),
           NEW lost, \A n : n \notin lost /\ Opens(files, n) => Opens(files', n),
           \A u \in Threads \ {t} : lost \cap Uses(th[u]) = {},
           \A u \in Threads \ {t} : Running(u, "erase") => Clash' = {},
           \A n \in Written' \cup Named' : Opens(files', n),
           Ready(files', th'[t], Clash')
    PROVE  Openings'
<1>1. ASSUME NEW u \in Threads, u # t PROVE Ready(files', th'[u], Clash')
  <2>1. th'[u] = th[u] /\ lost \cap Uses(th[u]) = {} /\ (Running(u, "erase") => Clash' = {})
    BY <1>1 DEF OnlyThread
  <2>2. Ready(files', th[u], Clash')
    BY <2>1, ReadyKept
  <2> QED BY <2>1, <2>2
<1>2. \A u \in Threads : Ready(files', th'[u], Clash')
  BY <1>1
<1> QED BY <1>2 DEF Openings

LEMMA ReadyPlain ==
    ASSUME NEW fs, NEW r, NEW clash, \A k \in Needing : ~At(r.prog, k),
           r.snap.rows # {} => r.snap.number # 0, Copied(r) = {}
    PROVE  Ready(fs, r, clash)
BY DEF Ready, Needing

LEMMA NoSnapshotIs ==
    /\ NoSnapshot.number = 0 /\ NoSnapshot.rows = {}
    /\ \A r : r.snap = NoSnapshot => Copied(r) = {}
BY DEF NoSnapshot, Copied

\* The snapshot of a thread that is not copying a segment, kept or let go of.
LEMMA SnapKept ==
    ASSUME Openings, NEW t \in Threads,
           \/ th'[t].snap = th[t].snap /\ ~Running(t, "writeOne") /\ ~Running(t, "adoptOne")
           \/ th'[t].snap = NoSnapshot
    PROVE  /\ th'[t].snap.rows # {} => th'[t].snap.number # 0
           /\ Copied(th'[t]) = {}
           /\ th'[t].snap.number \in {th[t].snap.number, 0}
<1>1. CASE th'[t].snap = th[t].snap /\ ~Running(t, "writeOne") /\ ~Running(t, "adoptOne")
  <2>1. Copied(th[t]) = {}
    BY <1>1, NoCopy
  <2> QED BY <1>1, <2>1 DEF Openings, Ready, Copied
<1>2. CASE th'[t].snap = NoSnapshot
  BY <1>2, NoSnapshotIs
<1> QED BY <1>1, <1>2

\* A step that leaves the list, the builds and the directory alone.
LEMMA QuietDisk ==
    ASSUME NumberInv, Control, DiskInv, NEW t \in Threads, OnlyThread(t),
           UNCHANGED <<segments, unwritten, pending_erase, flights, landed, files, manifest,
                       next_segment>>,
           th'[t].pend = th[t].pend \/ th'[t].pend.number = 0,
           \/ th'[t].snap = th[t].snap /\ ~Running(t, "writeOne") /\ ~Running(t, "adoptOne")
           \/ th'[t].snap = NoSnapshot,
           th'[t].todo = th[t].todo \/ th'[t].todo = <<>>,
           \A k \in Needing : ~At(th'[t].prog, k)
    PROVE  DiskInv'
<1>1. Written' = Written /\ Named' = Named /\ Clash' = Clash
  BY DEF Written, Named, Clash
<1>2. Lists'
  BY <1>1 DEF DiskInv, Lists
<1>3. /\ th'[t].snap.rows # {} => th'[t].snap.number # 0
      /\ Copied(th'[t]) = {}
      /\ th'[t].snap.number \in {th[t].snap.number, 0}
  BY SnapKept DEF DiskInv
<1>4. Used'
  <2> DEFINE none == {}
  <2>1. \A u \in Threads : none \cap Uses(th'[u]) = {}
    OBVIOUS
  <2>2. /\ Written' \subseteq Written \cup none
        /\ DOMAIN flights' \subseteq DOMAIN flights \cup none
        /\ Named' \subseteq Named \cup Written \cup none
        /\ pending_erase' \subseteq pending_erase \cup Written
    BY <1>1
  <2> HIDE DEF none
  <2> QED BY <1>3, <2>1, <2>2, UsedKept DEF DiskInv
<1>5. Air'
  BY AirKept DEF DiskInv, Air
<1>6. Ready(files', th'[t], Clash')
  BY <1>3, ReadyPlain
<1>7. Openings'
  <2> DEFINE none == {}
  <2>1. \A u \in Threads \ {t} : none \cap Uses(th[u]) = {}
    OBVIOUS
  <2>2. \A u \in Threads : Running(u, "erase") => Clash' = {}
    BY <1>1, RunningAt DEF DiskInv, Openings, Ready
  <2>3. \A n \in Written' \cup Named' : Opens(files', n)
    BY <1>1 DEF DiskInv, Openings
  <2> HIDE DEF none
  <2> QED BY <1>6, <2>1, <2>2, <2>3, OpeningsKept DEF DiskInv
<1> QED BY <1>2, <1>4, <1>5, <1>7 DEF DiskInv

-----------------------------------------------------------------------------
\* Steps of the call itself: the program, the locks, the buffers.
LEMMA IdleDisk ==
    ASSUME NumberInv, Control, DiskInv, NEW t \in Threads, th' = [th EXCEPT ![t] = Idle],
           UNCHANGED <<segments, unwritten, pending_erase, flights, landed, files, manifest,
                       next_segment>>
    PROVE  DiskInv'
<1>1. OnlyThread(t) /\ th'[t] = Idle
  BY BackToIdle DEF NumberInv, NumberTypes
<1>2. /\ th'[t].pend.number = 0 /\ th'[t].snap = NoSnapshot /\ th'[t].todo = <<>>
      /\ th'[t].prog = <<>>
  BY <1>1, IdleShape DEF Idle
<1>3. \A k \in Needing : ~At(th'[t].prog, k)
  BY <1>2, AtNone
<1> QED BY <1>1, <1>2, <1>3, QuietDisk

LEMMA StillDisk ==
    ASSUME DiskInv,
           UNCHANGED <<segments, unwritten, pending_erase, flights, landed, files, manifest,
                       next_segment, th>>
    PROVE  DiskInv'
<1>1. Written' = Written /\ Named' = Named /\ Clash' = Clash
  BY DEF Written, Named, Clash
<1> QED BY <1>1 DEF DiskInv, Lists, Used, Air, Openings

LEMMA TailDisk ==
    ASSUME NumberInv, Control, DiskInv, NEW t \in Threads, NEW l, Running(t, l),
           l \notin {"writeSeg", "writeOne", "adoptOne", "foldWrite"},
           OnlyThread(t), th'[t].prog = Rest(t),
           th'[t].pend = th[t].pend \/ th'[t].pend.number = 0,
           th'[t].snap = th[t].snap, th'[t].todo = th[t].todo,
           UNCHANGED <<segments, unwritten, pending_erase, flights, landed, files, manifest,
                       next_segment>>
    PROVE  DiskInv'
<1>1. \A k \in Needing : ~At(th'[t].prog, k)
  BY NextNeeds
<1>2. ~Running(t, "writeOne") /\ ~Running(t, "adoptOne")
  BY DEF Running
<1> QED BY <1>1, <1>2, QuietDisk

LEMMA GotoDisk ==
    ASSUME NumberInv, Control, DiskInv, NEW t \in Threads, NEW l, Running(t, l),
           l \notin {"writeSeg", "writeOne", "adoptOne", "foldWrite"}, Goto(t, Rest(t)),
           UNCHANGED <<segments, unwritten, pending_erase, flights, landed, files, manifest,
                       next_segment>>
    PROVE  DiskInv'
<1>1. /\ OnlyThread(t) /\ th'[t].prog = Rest(t) /\ th'[t].pend = th[t].pend
      /\ th'[t].snap = th[t].snap /\ th'[t].todo = th[t].todo
  BY Went, GotoNumbers
<1> QED BY <1>1, TailDisk

LEMMA OnwardDisk ==
    ASSUME NumberInv, Control, DiskInv, NEW t \in Threads, NEW l, Running(t, l),
           l \notin {"writeSeg", "writeOne", "adoptOne", "foldWrite"},
           th' = [th EXCEPT ![t] = Onward(@)],
           UNCHANGED <<segments, unwritten, pending_erase, flights, landed, files, manifest,
                       next_segment>>
    PROVE  DiskInv'
<1>1. CASE Len(th[t].prog) = 1
  <2>1. th' = [th EXCEPT ![t] = Idle]
    BY <1>1 DEF Onward
  <2> QED BY <2>1, IdleDisk
<1>2. CASE Len(th[t].prog) # 1
  <2>1. Goto(t, Rest(t))
    BY <1>2 DEF Onward, Goto, Rest
  <2> QED BY <2>1, GotoDisk
<1> QED BY <1>1, <1>2

LEMMA PlainDisk ==
    ASSUME NumberInv, Control, DiskInv, NEW t \in Threads,
           \/ SettleStep(t) \/ Unlock(t) \/ SaveClean(t) \/ OpenNone(t) \/ OpenNext(t)
           \/ PersistStep(t) \/ Release(t) \/ ChooseFolds(t) \/ CollectError(t)
           \/ SaveFails(t) \/ WriteAliveFails(t) \/ PushFails(t) \/ DispatchFails(t)
    PROVE  DiskInv'
<1>1. CASE SettleStep(t)
  BY <1>1, GotoDisk DEF SettleStep, lists, air, disk
<1>2. CASE Unlock(t)
  BY <1>2, OnwardDisk DEF Unlock, lists, air, disk
<1>3. CASE SaveClean(t)
  <2>1. /\ OnlyThread(t) /\ th'[t].prog = Rest(t)
        /\ th'[t].pend = th[t].pend \/ th'[t].pend.number = 0
        /\ th'[t].snap = th[t].snap /\ th'[t].todo = th[t].todo
    BY <1>3, IdleShape DEF NumberInv, NumberTypes, OnlyThread, SaveClean, Spent
  <2> QED BY <1>3, <2>1, TailDisk DEF SaveClean, lists, air, disk
<1>4. CASE OpenNone(t)
  BY <1>4, GotoDisk DEF OpenNone, air, disk
<1>5. CASE OpenNext(t)
  BY <1>5, GotoDisk DEF OpenNext, lists, air, disk
<1>6. CASE PersistStep(t)
  <2>1. /\ OnlyThread(t) /\ th'[t].prog = Rest(t) /\ th'[t].pend = th[t].pend
        /\ th'[t].snap = th[t].snap /\ th'[t].todo = th[t].todo
    BY <1>6, IdleShape DEF NumberInv, NumberTypes, OnlyThread, PersistStep, Rest
  <2> QED BY <1>6, <2>1, TailDisk DEF PersistStep, lists, air, disk
<1>7. CASE Release(t)
  BY <1>7, OnwardDisk DEF Release, lists, air, disk
<1>8. CASE ChooseFolds(t)
  <2>1. /\ OnlyThread(t) /\ th'[t].prog = Rest(t) /\ th'[t].pend = th[t].pend
        /\ th'[t].snap = th[t].snap /\ th'[t].todo = th[t].todo
    BY <1>8, IdleShape DEF NumberInv, NumberTypes, OnlyThread, ChooseFolds, Rest
  <2>2. PICK l \in {"chooseMemory", "chooseAll"} : Running(t, l)
    BY <1>8 DEF ChooseFolds
  <2> QED BY <1>8, <2>1, <2>2, TailDisk DEF ChooseFolds, lists, air, disk
<1>9. CASE CollectError(t)
  BY <1>9, IdleDisk DEF CollectError, Fail, lists, air, disk
<1>10. CASE SaveFails(t)
  BY <1>10, IdleDisk DEF SaveFails, Fail, lists, air, disk
<1>11. CASE WriteAliveFails(t)
  BY <1>11, IdleDisk DEF WriteAliveFails, Fail, lists, air, disk
<1>12. CASE PushFails(t)
  BY <1>12, IdleDisk DEF PushFails, Fail, lists, air, disk
<1>13. CASE DispatchFails(t)
  BY <1>13, IdleDisk DEF DispatchFails, lists, air, disk
<1> QED BY <1>1, <1>2, <1>3, <1>4, <1>5, <1>6, <1>7, <1>8, <1>9, <1>10, <1>11, <1>12, <1>13

-----------------------------------------------------------------------------
\* The programs a call begins or goes on with.
Plain(p) == p \in Program /\ \A k \in Needing : ~At(p, k)

LEMMA PlainBoth ==
    ASSUME NEW p, Plain(p), NEW q, Plain(q) PROVE Plain(p \o q)
<1>1. p \o q \in Program
  BY Regroup DEF Plain
<1> QED BY <1>1, FirstOfBoth DEF Plain

LEMMA PlainOne ==
    ASSUME NEW a \in Steps, a \notin Needing
    PROVE  Plain(<<a>>) /\ \A b \in BOOLEAN : Plain(If(b, <<a>>))
BY FirstOfOne DEF Plain

LEMMA PlainNone == Plain(<<>>)
BY AtNone, ShapeOfNone DEF Plain

LEMMA PlainIf ==
    ASSUME NEW b \in BOOLEAN, NEW p, Plain(p) PROVE Plain(If(b, p))
BY PlainNone DEF If

LEMMA PlainNow ==
    ASSUME Control, NEW t \in Threads, NEW l, Running(t, l), l \notin Needing
    PROVE  Plain(th[t].prog)
BY Now, RunningAt DEF Plain, At, Running

LEMMA PlainRest ==
    ASSUME Control, NEW t \in Threads, NEW l, Running(t, l),
           l \notin {"writeSeg", "writeOne", "foldWrite"}
    PROVE  Plain(Rest(t))
<1>1. \A k \in Needing : ~At(Rest(t), k) /\ Rest(t) \in Program
  BY NextNeeds
<1>2. "install" \in Needing
  BY DEF Needing
<1> QED BY <1>1, <1>2 DEF Plain

LEMMA PlainLiterals ==
    /\ Plain(Settle) /\ Plain(Publish) /\ Plain(Flush) /\ Plain(Persist) /\ Plain(Commit)
    /\ Plain(Fold)
<1>1. Settle \in Program /\ \A k : At(Settle, k) => k = "settle"
  BY Literals DEF At, Settle
<1>2. Persist \in Program /\ \A k : At(Persist, k) => k = "persist"
  BY Literals DEF At, Persist
<1>3. Fold \in Program /\ \A k : At(Fold, k) => k = "foldCheck"
  BY StepNames DEF At, Fold, Program
<1>4. Plain(Settle) /\ Plain(Persist) /\ Plain(Fold)
  BY <1>1, <1>2, <1>3 DEF Plain, Needing
<1>5. /\ Plain(<<"collect", "publish">>) /\ Plain(<<"collect", "flush", "unlock">>)
      /\ Plain(<<"collect", "commit">>)
  BY Literals DEF Plain, Needing, At
<1> QED BY <1>4, <1>5, PlainBoth DEF Publish, Flush, Commit

\* A step after which the thread is at a step that needs nothing.
LEMMA PlainlyDisk ==
    ASSUME NumberInv, Control, DiskInv, NEW t \in Threads, OnlyThread(t),
           UNCHANGED <<segments, unwritten, pending_erase, flights, landed, files, manifest,
                       next_segment>>,
           th'[t].pend = th[t].pend \/ th'[t].pend.number = 0,
           \/ th'[t].snap = th[t].snap /\ ~Running(t, "writeOne") /\ ~Running(t, "adoptOne")
           \/ th'[t].snap = NoSnapshot,
           th'[t].todo = th[t].todo \/ th'[t].todo = <<>>,
           Plain(th'[t].prog)
    PROVE  DiskInv'
BY QuietDisk DEF Plain

LEMMA BegunDisk ==
    ASSUME NumberInv, Control, DiskInv, NEW t \in Threads, NEW p, Plain(p),
           NEW r, th' = [th EXCEPT ![t] = r], DOMAIN r = Fields, r.prog = p,
           r.pend = EmptyPending, r.snap = NoSnapshot, r.todo = <<>>,
           UNCHANGED <<segments, unwritten, pending_erase, flights, landed, files, manifest,
                       next_segment>>
    PROVE  DiskInv'
<1>1. OnlyThread(t) /\ th'[t] = r
  BY DEF NumberInv, NumberTypes, OnlyThread
<1>2. th'[t].pend.number = 0
  BY <1>1, IdleShape
<1> QED BY <1>1, <1>2, PlainlyDisk

LEMMA BeginDisk ==
    ASSUME NumberInv, Control, DiskInv, NEW t \in Threads, NEW op, NEW p, Plain(p),
           Begin(t, op, p)
    PROVE  DiskInv'
<1> DEFINE r == [Idle EXCEPT !.op = op, !.prog = p]
<1>1. /\ DOMAIN r = Fields /\ r.prog = p /\ r.pend = EmptyPending /\ r.snap = NoSnapshot
      /\ r.todo = <<>>
  BY IdleShape DEF Idle, Fields
<1>2. /\ th' = [th EXCEPT ![t] = r]
      /\ UNCHANGED <<segments, unwritten, pending_erase, flights, landed, files, manifest,
                     next_segment>>
  BY DEF Begin, lists, air, disk
<1> HIDE DEF r
<1> QED BY <1>1, <1>2, BegunDisk

LEMMA BeginCallDisk ==
    ASSUME NumberInv, Control, DiskInv, NEW t \in Threads,
           BeginCall(t) \/ BeginGeneration(t)
    PROVE  DiskInv'
<1>1. Plain(<<"heldRows">>)
  BY StepNames, PlainOne DEF Needing
<1>2. Plain(<<"chooseMemory", "foldEach", "nextHead">>) /\ Plain(<<"chooseAll", "foldEach">>)
  <2>1. /\ <<"chooseMemory", "foldEach", "nextHead">> \in Program
        /\ <<"chooseAll", "foldEach">> \in Program
    BY StepNames DEF Program
  <2> QED BY <2>1 DEF Plain, At, Needing
<1>3. Plain(<<"openNone", "collect", "publishLocked", "openNext", "unlock">>)
  <2>1. <<"openNone", "collect", "publishLocked", "openNext", "unlock">> \in Program
    BY StepNames DEF Program
  <2> QED BY <2>1 DEF Plain, At, Needing
<1>4. /\ Plain(Publish \o <<"heldRows">>) /\ Plain(Flush \o Persist) /\ Plain(Commit)
      /\ Plain(Flush \o <<"chooseMemory", "foldEach", "nextHead">>)
      /\ Plain(Flush \o <<"chooseAll", "foldEach">> \o Persist)
      /\ Plain(Settle \o <<"openNone", "collect", "publishLocked", "openNext", "unlock">>)
  BY <1>1, <1>2, <1>3, PlainLiterals, PlainBoth
<1>5. CASE BeginGeneration(t)
  BY <1>4, <1>5, BeginDisk DEF BeginGeneration
<1>6. CASE BeginCall(t)
  BY <1>4, <1>6, BeginDisk DEF BeginCall, PublishLarge, PublishSmall
<1> QED BY <1>5, <1>6

LEMMA BeginSweepDisk ==
    ASSUME NumberInv, Control, DiskInv, NEW t \in Threads, NEW s, NEW u, NEW b,
           BeginSweep(t, s, u, b)
    PROVE  DiskInv'
<1> DEFINE l == <<"collect", "publishLocked", "sweep", "unlock">>
           prog == Settle \o Publish \o l
           r == [Idle EXCEPT !.op = "sweep", !.prog = prog, !.source = s, !.under = u,
                             !.spare = b]
<1>1. Plain(l)
  <2>1. l \in Program
    BY StepNames DEF Program
  <2> QED BY <2>1 DEF Plain, At, Needing
<1>2. /\ th' = [th EXCEPT ![t] = r]
      /\ UNCHANGED <<segments, unwritten, pending_erase, flights, landed, files, manifest,
                     next_segment>>
  BY DEF BeginSweep, lists, air, disk
<1> HIDE DEF l
<1>3. Plain(prog)
  BY <1>1, PlainLiterals, PlainBoth
<1> HIDE DEF prog
<1>4. /\ DOMAIN r = Fields /\ r.prog = prog /\ r.pend = EmptyPending /\ r.snap = NoSnapshot
      /\ r.todo = <<>>
  BY IdleShape DEF Idle, Fields
<1> HIDE DEF r
<1> QED BY <1>2, <1>3, <1>4, BegunDisk

LEMMA BeginForgetDisk ==
    ASSUME NumberInv, Control, DiskInv, NEW t \in Threads, NEW s, BeginForget(t, s)
    PROVE  DiskInv'
<1> DEFINE l == <<"collect", "flush", "forget", "unlock">>
           prog == Settle \o l
           r == [Idle EXCEPT !.op = "forget", !.prog = prog, !.source = s]
<1>1. Plain(l)
  <2>1. l \in Program
    BY StepNames DEF Program
  <2> QED BY <2>1 DEF Plain, At, Needing
<1>2. /\ th' = [th EXCEPT ![t] = r]
      /\ UNCHANGED <<segments, unwritten, pending_erase, flights, landed, files, manifest,
                     next_segment>>
  BY DEF BeginForget, lists, air, disk
<1> HIDE DEF l
<1>3. Plain(prog)
  BY <1>1, PlainLiterals, PlainBoth
<1> HIDE DEF prog
<1>4. /\ DOMAIN r = Fields /\ r.prog = prog /\ r.pend = EmptyPending /\ r.snap = NoSnapshot
      /\ r.todo = <<>>
  BY IdleShape DEF Idle, Fields
<1> HIDE DEF r
<1> QED BY <1>2, <1>3, <1>4, BegunDisk

LEMMA UpsertDisk ==
    ASSUME NumberInv, Control, DiskInv, NEW t \in Threads, NEW e, Upsert(t, e) PROVE DiskInv'
<1> DEFINE l == <<"collect", "overflow", "unlock">>
           r == [Idle EXCEPT !.op = "upsert", !.prog = l]
<1>1. Plain(l)
  <2>1. l \in Program
    BY StepNames DEF Program
  <2> QED BY <2>1 DEF Plain, At, Needing
<1>2. /\ UNCHANGED th \/ th' = [th EXCEPT ![t] = r]
      /\ UNCHANGED <<segments, unwritten, pending_erase, flights, landed, files, manifest,
                     next_segment>>
  BY DEF Upsert, lists, air, disk
<1> HIDE DEF l
<1>3. /\ DOMAIN r = Fields /\ r.prog = l /\ r.pend = EmptyPending /\ r.snap = NoSnapshot
      /\ r.todo = <<>>
  BY IdleShape DEF Idle, Fields
<1> HIDE DEF r
<1>4. CASE UNCHANGED th
  BY <1>2, <1>4, StillDisk
<1>5. CASE th' = [th EXCEPT ![t] = r]
  BY <1>1, <1>2, <1>3, <1>5, BegunDisk
<1> QED BY <1>2, <1>4, <1>5

LEMMA CallDisk ==
    ASSUME NumberInv, Control, DiskInv, NEW t \in Threads, Call(t) PROVE DiskInv'
<1>1. ASSUME NEW p, RemoveSubtree(t, p) PROVE DiskInv'
  BY <1>1, StillDisk DEF RemoveSubtree, lists, air, disk
<1>2. CASE AbandonGeneration(t)
  BY <1>2, StillDisk, SMTT(30) DEF AbandonGeneration, air, disk
<1> QED BY <1>1, <1>2, UpsertDisk, BeginCallDisk, BeginSweepDisk, BeginForgetDisk DEF Call

-----------------------------------------------------------------------------
\* Steps that choose what is written or folded next.
LEMMA PersistGroupDisk ==
    ASSUME NumberInv, Control, DiskInv, NEW t \in Threads, PersistGroup(t) PROVE DiskInv'
<1>1. /\ Running(t, "groups")
      /\ UNCHANGED <<segments, unwritten, pending_erase, flights, landed, files, manifest,
                     next_segment>>
  BY DEF PersistGroup, lists, air, disk
<1>2. CASE Goto(t, Rest(t))
  BY <1>1, <1>2, GotoDisk
<1>3. CASE \E g : th' = [th EXCEPT
                         ![t].prog = If(Cardinality(g) > 1, Fold) \o <<"writeEach">> \o @,
                         ![t].groups = @ \ {g}, ![t].group = g, ![t].queue = g,
                         ![t].folded = FALSE]
  <2>1. PICK g : th' = [th EXCEPT
                         ![t].prog = If(Cardinality(g) > 1, Fold) \o <<"writeEach">> \o @,
                         ![t].groups = @ \ {g}, ![t].group = g, ![t].queue = g,
                         ![t].folded = FALSE]
    BY <1>3
  <2> DEFINE f == If(Cardinality(g) > 1, Fold)
  <2>2. Plain(f) /\ Plain(<<"writeEach">>) /\ Plain(th[t].prog)
    <3>1. Plain(<<"writeEach">>) /\ Plain(th[t].prog)
      BY <1>1, StepNames, PlainOne, PlainNow DEF Needing
    <3>2. Plain(f)
      BY PlainLiterals, PlainNone DEF If
    <3> QED BY <3>1, <3>2
  <2> HIDE DEF f
  <2>3. Plain(f \o <<"writeEach">> \o th[t].prog)
    BY <2>2, PlainBoth
  <2>4. /\ OnlyThread(t) /\ th'[t].prog = f \o <<"writeEach">> \o th[t].prog
        /\ th'[t].pend = th[t].pend /\ th'[t].snap = th[t].snap /\ th'[t].todo = th[t].todo
    BY <2>1, IdleShape, ZenonT(30) DEF NumberInv, NumberTypes, OnlyThread, f
  <2>5. ~Running(t, "writeOne") /\ ~Running(t, "adoptOne")
    BY <1>1 DEF Running
  <2> QED BY <1>1, <2>3, <2>4, <2>5, PlainlyDisk
<1> QED BY <1>2, <1>3, ZenonT(30) DEF PersistGroup

LEMMA TakeDirtyDisk ==
    ASSUME NumberInv, Control, DiskInv, NEW t \in Threads, TakeDirty(t) PROVE DiskInv'
<1> DEFINE bits == DirtyAlive(dirty_alive, [n \in DOMAIN segments |-> segments[n].alive])
           w == If(bits # <<>>, <<"writeAlive">>)
<1>1. /\ Running(t, "writeDirty")
      /\ th' = [th EXCEPT ![t].prog = w \o Rest(t),
                          ![t].pend = [EmptyPending EXCEPT !.alive = bits],
                          ![t].queue = DOMAIN bits]
      /\ UNCHANGED <<segments, unwritten, pending_erase, flights, landed, files, manifest,
                     next_segment>>
  BY DEF TakeDirty, lists, air, disk, Rest
<1>2. Plain(w)
  BY StepNames, PlainOne DEF Needing
<1> HIDE DEF bits, w
<1>3. Plain(w \o Rest(t))
  BY <1>1, <1>2, PlainRest, PlainBoth
<1>4. /\ OnlyThread(t) /\ th'[t].prog = w \o Rest(t) /\ th'[t].pend.number = 0
      /\ th'[t].snap = th[t].snap /\ th'[t].todo = th[t].todo
  BY <1>1, IdleShape DEF NumberInv, NumberTypes, OnlyThread, EmptyPending
<1>5. ~Running(t, "writeOne") /\ ~Running(t, "adoptOne")
  BY <1>1 DEF Running
<1> QED BY <1>1, <1>3, <1>4, <1>5, PlainlyDisk

\* What comes after the fold that a program goes past.
LEMMA PlainPast ==
    ASSUME Control, NEW t \in Threads
    PROVE  /\ Running(t, "foldCheck") => Plain(Drop(th[t].prog, 4)) /\ Plain(Rest(t))
           /\ Running(t, "foldRead") => Plain(Drop(th[t].prog, 3))
<1> DEFINE p == th[t].prog
<1>0. ASSUME NEW d, d \in Program, d # <<>> => Fits("foldSwap", d[1]) PROVE Plain(d)
  BY <1>0, FirstStep DEF Plain, Needing, Fits
<1>1. ASSUME Running(t, "foldCheck") PROVE Plain(Drop(p, 4)) /\ Plain(Rest(t))
  <2>1. p # <<>> /\ p[1] = "foldCheck" /\ Own(t, p, th[t].pend, lock, persisting)
    BY <1>1, Now
  <2>2. Plain(Rest(t))
    BY <1>1, PlainRest
  <2> HIDE DEF p
  <2>3. Drop(p, 4) \in Program /\ (Drop(p, 4) # <<>> => Fits("foldSwap", Drop(p, 4)[1]))
    BY <2>1, FoldSkipped DEF Own
  <2> DEFINE d == Drop(p, 4)
  <2>4. d \in Program /\ (d # <<>> => Fits("foldSwap", d[1]))
    BY <2>3
  <2> HIDE DEF d
  <2>5. Plain(d)
    BY <2>4, <1>0
  <2> QED BY <2>2, <2>5 DEF d
<1>2. ASSUME Running(t, "foldRead") PROVE Plain(Drop(p, 3))
  <2>1. p # <<>> /\ p[1] = "foldRead" /\ Own(t, p, th[t].pend, lock, persisting)
    BY <1>2, Now
  <2> HIDE DEF p
  <2>3. Drop(p, 3) \in Program /\ (Drop(p, 3) # <<>> => Fits("foldSwap", Drop(p, 3)[1]))
    BY <2>1, FoldSkipped DEF Own
  <2> DEFINE d == Drop(p, 3)
  <2>4. d \in Program /\ (d # <<>> => Fits("foldSwap", d[1]))
    BY <2>3
  <2> HIDE DEF d
  <2>5. Plain(d)
    BY <2>4, <1>0
  <2> QED BY <2>5 DEF d
<1> QED BY <1>1, <1>2

LEMMA FoldCheckDisk ==
    ASSUME NumberInv, Control, DiskInv, NEW t \in Threads, FoldCheck(t) PROVE DiskInv'
<1>1. /\ OnlyThread(t) /\ th'[t].pend = th[t].pend /\ th'[t].snap = th[t].snap
      /\ th'[t].todo = th[t].todo
      /\ th'[t].prog = Drop(th[t].prog, 4) \/ th'[t].prog = Rest(t)
  BY IdleShape DEF NumberInv, NumberTypes, OnlyThread, FoldCheck, Rest
<1>2. /\ Running(t, "foldCheck")
      /\ UNCHANGED <<segments, unwritten, pending_erase, flights, landed, files, manifest,
                     next_segment>>
  BY DEF FoldCheck, lists, air, disk
<1>3. ~Running(t, "writeOne") /\ ~Running(t, "adoptOne")
  BY <1>2 DEF Running
<1> QED BY <1>1, <1>2, <1>3, PlainPast, PlainlyDisk

LEMMA FoldEachDisk ==
    ASSUME NumberInv, Control, DiskInv, NEW t \in Threads, FoldEach(t) PROVE DiskInv'
<1> DEFINE over == th[t].groups = {} \/ (th[t].durable /\ ~th[t].folded)
<1>1. /\ Running(t, "foldEach")
      /\ UNCHANGED <<segments, unwritten, pending_erase, flights, landed, files, manifest,
                     next_segment>>
  BY DEF FoldEach, lists, air, disk
<1>2. Plain(Rest(t)) /\ Plain(Fold \o th[t].prog)
  BY <1>1, PlainRest, PlainNow, PlainLiterals, PlainBoth DEF Needing
<1>3. /\ OnlyThread(t) /\ th'[t].pend = th[t].pend /\ th'[t].snap = th[t].snap
      /\ th'[t].todo = th[t].todo
      /\ th'[t].prog = Rest(t) \/ th'[t].prog = Fold \o th[t].prog
  <2>1. CASE over
    <3>1. th' = [th EXCEPT ![t].prog = Tail(@), ![t].groups = {},
                           ![t].group = {}, ![t].folded = TRUE]
      BY <2>1 DEF FoldEach
    <3> QED BY <3>1, IdleShape DEF NumberInv, NumberTypes, OnlyThread, Rest
  <2>2. CASE ~over
    <3>1. PICK g : th' = [th EXCEPT ![t].prog = Fold \o @, ![t].groups = @ \ {g}, ![t].group = g]
      BY <2>2 DEF FoldEach
    <3> HIDE DEF over
    <3> QED BY <3>1, IdleShape DEF NumberInv, NumberTypes, OnlyThread
  <2> QED BY <2>1, <2>2
<1>4. ~Running(t, "writeOne") /\ ~Running(t, "adoptOne")
  BY <1>1 DEF Running
<1> QED BY <1>1, <1>2, <1>3, <1>4, PlainlyDisk

LEMMA NextHeadDisk ==
    ASSUME NumberInv, Control, DiskInv, NEW t \in Threads, NextHead(t) PROVE DiskInv'
<1>1. /\ Running(t, "nextHead")
      /\ UNCHANGED <<segments, unwritten, pending_erase, flights, landed, files, manifest,
                     next_segment>>
  BY DEF NextHead, lists, air, disk
<1>2. CASE th' = [th EXCEPT ![t] = Onward(@)]
  BY <1>1, <1>2, OnwardDisk
<1>3. CASE \E h : th' = [th EXCEPT ![t].prog = Fold \o @, ![t].group = h, ![t].durable = TRUE]
  <2>1. PICK h : th' = [th EXCEPT ![t].prog = Fold \o @, ![t].group = h, ![t].durable = TRUE]
    BY <1>3
  <2>2. /\ OnlyThread(t) /\ th'[t].prog = Fold \o th[t].prog /\ th'[t].pend = th[t].pend
        /\ th'[t].snap = th[t].snap /\ th'[t].todo = th[t].todo
    BY <2>1, IdleShape DEF NumberInv, NumberTypes, OnlyThread
  <2>3. Plain(Fold \o th[t].prog)
    BY <1>1, PlainNow, PlainLiterals, PlainBoth DEF Needing
  <2>4. ~Running(t, "writeOne") /\ ~Running(t, "adoptOne")
    BY <1>1 DEF Running
  <2> QED BY <1>1, <2>2, <2>3, <2>4, PlainlyDisk
<1> QED BY <1>2, <1>3 DEF NextHead

LEMMA HeldRowsDisk ==
    ASSUME NumberInv, Control, DiskInv, NEW t \in Threads, HeldRows(t) PROVE DiskInv'
<1>1. /\ Running(t, "heldRows")
      /\ UNCHANGED <<segments, unwritten, pending_erase, flights, landed, files, manifest,
                     next_segment>>
  BY DEF HeldRows, lists, air, disk
<1>2. CASE th' = [th EXCEPT ![t] = Idle]
  BY <1>1, <1>2, IdleDisk
<1>3. CASE th' = [th EXCEPT ![t] = [@ EXCEPT !.prog = Persist]]
  <2>1. /\ OnlyThread(t) /\ th'[t].prog = Persist /\ th'[t].pend = th[t].pend
        /\ th'[t].snap = th[t].snap /\ th'[t].todo = th[t].todo
    BY <1>3, IdleShape DEF NumberInv, NumberTypes, OnlyThread
  <2>2. ~Running(t, "writeOne") /\ ~Running(t, "adoptOne")
    BY <1>1 DEF Running
  <2> QED BY <1>1, <2>1, <2>2, PlainLiterals, PlainlyDisk
<1>4. \/ th' = [th EXCEPT ![t] = Idle]
      \/ th' = [th EXCEPT ![t] = [@ EXCEPT !.prog = Persist]]
  BY DEF HeldRows
<1> QED BY <1>2, <1>3, <1>4

-----------------------------------------------------------------------------
\* Builds in the air and landed.
LEMMA HeadAndTail ==
    ASSUME NEW s \in Seq(Finished), s # <<>>, Apart(s)
    PROVE  /\ Apart(Tail(s)) /\ Head(s).number \notin Numbers(Tail(s))
           /\ Numbers(Tail(s)) \subseteq Numbers(s)
           /\ Head(s).number \in Numbers(s)
           /\ \A fl, fs : InAir(s, fl, fs) =>
                 /\ InAir(Tail(s), fl, fs)
                 /\ Head(s).number \in DOMAIN fl
                 /\ fl[Head(s).number].landed
                 /\ Head(s).built => Opens(fs, Head(s).number)
<1>1. /\ 1 \in DOMAIN s /\ Head(s) = s[1]
      /\ \A i \in DOMAIN Tail(s) : /\ i + 1 \in DOMAIN s /\ Tail(s)[i] = s[i + 1]
                                   /\ i \in Nat /\ i # 0
  OBVIOUS
<1>2. Apart(Tail(s))
  <2> SUFFICES ASSUME NEW i \in DOMAIN Tail(s), NEW j \in DOMAIN Tail(s),
                      Tail(s)[i].number = Tail(s)[j].number
               PROVE  i = j
    BY DEF Apart
  <2>1. i + 1 = j + 1
    BY <1>1 DEF Apart
  <2> QED BY <1>1, <2>1
<1>3. \A i \in DOMAIN Tail(s) : Tail(s)[i].number # Head(s).number
  <2> SUFFICES ASSUME NEW i \in DOMAIN Tail(s), Tail(s)[i].number = Head(s).number PROVE FALSE
    OBVIOUS
  <2>1. i + 1 = 1
    BY <1>1 DEF Apart
  <2> QED BY <1>1, <2>1
<1>4. \A fl, fs : InAir(s, fl, fs) => InAir(Tail(s), fl, fs)
  BY <1>1 DEF InAir
<1>5. \A fl, fs : InAir(s, fl, fs) =>
                 /\ Head(s).number \in DOMAIN fl
                 /\ fl[Head(s).number].landed
                 /\ Head(s).built => Opens(fs, Head(s).number)
  BY <1>1 DEF InAir
<1> QED BY <1>2, <1>3, <1>4, <1>5, NumbersOfTail DEF Numbers

LEMMA BothApart ==
    ASSUME NEW s \in Seq(Finished), NEW r \in Seq(Finished), Apart(s), Apart(r),
           Numbers(s) \cap Numbers(r) = {}
    PROVE  /\ Apart(s \o r)
           /\ \A fl, fs : InAir(s, fl, fs) /\ InAir(r, fl, fs) => InAir(s \o r, fl, fs)
<1> DEFINE b == s \o r
<1>1. ASSUME NEW i \in DOMAIN b
      PROVE  \/ i \in DOMAIN s /\ b[i] = s[i]
             \/ i - Len(s) \in DOMAIN r /\ b[i] = r[i - Len(s)] /\ i \in Nat
  <2>1. i \in 1..(Len(s) + Len(r))
    OBVIOUS
  <2>2. CASE i <= Len(s) BY <2>1, <2>2
  <2>3. CASE i > Len(s) BY <2>1, <2>3
  <2> QED BY <2>1, <2>2, <2>3
<1>0. Len(s) \in Nat
  OBVIOUS
<1> HIDE DEF b
<1>2. Apart(b)
  <2> SUFFICES ASSUME NEW i \in DOMAIN b, NEW j \in DOMAIN b, b[i].number = b[j].number
               PROVE  i = j
    BY DEF Apart
  <2>1. CASE i \in DOMAIN s /\ b[i] = s[i] /\ j \in DOMAIN s /\ b[j] = s[j]
    BY <2>1 DEF Apart
  <2>2. CASE i \in DOMAIN s /\ b[i] = s[i] /\ j - Len(s) \in DOMAIN r /\ b[j] = r[j - Len(s)]
    BY <2>2 DEF Numbers
  <2>3. CASE j \in DOMAIN s /\ b[j] = s[j] /\ i - Len(s) \in DOMAIN r /\ b[i] = r[i - Len(s)]
    BY <2>3 DEF Numbers
  <2>4. CASE /\ i - Len(s) \in DOMAIN r /\ b[i] = r[i - Len(s)] /\ i \in Nat
             /\ j - Len(s) \in DOMAIN r /\ b[j] = r[j - Len(s)] /\ j \in Nat
    <3>1. i - Len(s) = j - Len(s)
      BY <2>4 DEF Apart
    <3> QED BY <1>0, <2>4, <3>1
  <2> QED BY <1>1, <2>1, <2>2, <2>3, <2>4
<1>3. \A fl, fs : InAir(s, fl, fs) /\ InAir(r, fl, fs) => InAir(b, fl, fs)
  BY <1>1 DEF InAir
<1> QED BY <1>2, <1>3 DEF b

LEMMA OneMoreApart ==
    ASSUME NEW s \in Seq(Finished), NEW n \in Nat, NEW b \in BOOLEAN, Apart(s),
           n \notin Numbers(s)
    PROVE  /\ Apart(Append(s, [number |-> n, built |-> b]))
           /\ \A fl, fs : /\ InAir(s, fl, fs) /\ n \in DOMAIN fl /\ fl[n].landed
                          /\ b => Opens(fs, n)
                          => InAir(Append(s, [number |-> n, built |-> b]), fl, fs)
<1> DEFINE r == [number |-> n, built |-> b]
           a == Append(s, r)
<1>1. r \in Finished /\ r.number = n /\ r.built = b
  BY DEF Finished
<1> HIDE DEF r
<1>2. \A i \in DOMAIN a : \/ i \in DOMAIN s /\ a[i] = s[i]
                          \/ i = Len(s) + 1 /\ a[i] = r
  BY <1>1
<1> HIDE DEF a
<1>3. Apart(a)
  BY <1>1, <1>2 DEF Apart, Numbers
<1>4. \A fl, fs : /\ InAir(s, fl, fs) /\ n \in DOMAIN fl /\ fl[n].landed
                  /\ b => Opens(fs, n)
                  => InAir(a, fl, fs)
  BY <1>1, <1>2 DEF InAir
<1> QED BY <1>3, <1>4 DEF a, r

\* Builds change hands: `new' ones land, those in `gone' are dealt with.
Moves(t, new, gone) ==
    /\ \A n \in DOMAIN flights \ gone : flights[n].landed =>
              /\ n \in DOMAIN flights' /\ flights'[n].landed
              /\ Opens(files, n) => Opens(files', n)
    /\ \A n \in DOMAIN flights' : "landed" \in DOMAIN flights'[n]
    /\ Apart(landed') /\ InAir(landed', flights', files')
    /\ Apart(th'[t].todo) /\ InAir(th'[t].todo, flights', files')
    /\ Numbers(landed') \cap Numbers(th'[t].todo) = {}
    /\ Numbers(landed') \cup Numbers(th'[t].todo)
              \subseteq Numbers(landed) \cup Numbers(th[t].todo) \cup new
    /\ \A u \in Threads \ {t} : (new \cup gone) \cap Numbers(th[u].todo) = {}

LEMMA AirMoved ==
    ASSUME Air, NEW t \in Threads, OnlyThread(t), NEW new, NEW gone, Moves(t, new, gone)
    PROVE  Air'
<1>1. ASSUME NEW u \in Threads, u # t
      PROVE  /\ th'[u] = th[u]
             /\ Apart(th'[u].todo) /\ InAir(th'[u].todo, flights', files')
             /\ (Numbers(landed') \cup Numbers(th'[t].todo)) \cap Numbers(th'[u].todo) = {}
  <2>1. th'[u] = th[u] /\ Apart(th[u].todo) /\ InAir(th[u].todo, flights, files)
    BY <1>1 DEF OnlyThread, Air
  <2>2. InAir(th[u].todo, flights', files')
    BY <1>1, <2>1 DEF InAir, Numbers, Moves
  <2>3. (Numbers(landed) \cup Numbers(th[t].todo)) \cap Numbers(th[u].todo) = {}
    BY <1>1 DEF Air
  <2>4. (new \cup gone) \cap Numbers(th[u].todo) = {}
    BY <1>1 DEF Moves
  <2> QED BY <2>1, <2>2, <2>3, <2>4 DEF Moves
<1>2. \A u, v \in Threads : u # v => Numbers(th'[u].todo) \cap Numbers(th'[v].todo) = {}
  BY <1>1 DEF Air
<1>3. \A u \in Threads : /\ Apart(th'[u].todo) /\ InAir(th'[u].todo, flights', files')
                         /\ Numbers(landed') \cap Numbers(th'[u].todo) = {}
  BY <1>1 DEF Moves
<1> QED BY <1>2, <1>3 DEF Air, Moves

\* Two steps of the same thread that need nothing, seen from the directory.
LEMMA ReadyNext ==
    ASSUME Openings, NEW t \in Threads, NEW l, Running(t, l),
           l \notin {"writeOne", "adoptOne"},
           th'[t].snap = th[t].snap, Plain(th'[t].prog), NEW fs, NEW clash
    PROVE  Ready(fs, th'[t], clash)
<1>1. ~Running(t, "writeOne") /\ ~Running(t, "adoptOne")
  BY DEF Running
<1>2. /\ th'[t].snap.rows # {} => th'[t].snap.number # 0
      /\ Copied(th'[t]) = {}
  BY <1>1, SnapKept
<1> QED BY <1>2, ReadyPlain DEF Plain

\* The write lock keeps every other thread from erasing anything.
LEMMA ErasesAlone ==
    ASSUME Control, NEW t \in Threads, lock \in {NoThread, t}, NEW u \in Threads \ {t}
    PROVE  ~Running(u, "erase")
<1>1. u # NoThread
  BY NativeIndexAssumption
<1>2. Running(u, "erase") => lock = u
  BY Now DEF Locked
<1> QED BY <1>1, <1>2

LEMMA CollectStepDisk ==
    ASSUME NumberInv, Control, DiskInv, NEW t \in Threads, CollectStep(t) PROVE DiskInv'
<1> DEFINE b == landed # <<>>
           s == If(b, <<"land">>)
<1>1. /\ Running(t, "collect") /\ landed' = <<>>
      /\ UNCHANGED <<segments, unwritten, pending_erase, flights, files, manifest, next_segment>>
  BY DEF CollectStep, lists, disk
<1>2. Plain(s)
  BY StepNames, PlainOne DEF Needing
<1>3. /\ OnlyThread(t) /\ th'[t].prog = s \o Rest(t) /\ th'[t].pend = th[t].pend
      /\ th'[t].snap = th[t].snap /\ th'[t].todo = landed
  BY IdleShape DEF NumberInv, NumberTypes, OnlyThread, CollectStep
<1> HIDE DEF s, b
<1>4. Plain(th'[t].prog)
  BY <1>1, <1>2, <1>3, PlainRest, PlainBoth
<1>5. Written' = Written /\ Named' = Named /\ Clash' = Clash
  BY <1>1 DEF Written, Named, Clash
<1>6. Lists'
  BY <1>1, <1>5 DEF DiskInv, Lists
<1>7. Used'
  <2>1. \A u \in Threads : {} \cap Uses(th'[u]) = {}
    OBVIOUS
  <2> QED BY <1>1, <1>3, <1>5, <2>1, UsedKept DEF DiskInv
<1>8. Air'
  <2> DEFINE none == {}
  <2>1. Apart(<<>>) /\ InAir(<<>>, flights', files') /\ Numbers(<<>>) = {}
    BY DEF Apart, InAir, Numbers
  <2>2. \A u \in Threads \ {t} : (none \cup none) \cap Numbers(th[u].todo) = {}
    OBVIOUS
  <2>3. \A u \in Threads \ {t} : Numbers(landed) \cap Numbers(th[u].todo) = {}
    BY DEF DiskInv, Air
  <2>4. /\ Apart(th'[t].todo) /\ InAir(th'[t].todo, flights', files')
        /\ \A n \in DOMAIN flights' : "landed" \in DOMAIN flights'[n]
    BY <1>1, <1>3 DEF DiskInv, Air
  <2>5. \A n \in DOMAIN flights \ none : flights[n].landed =>
              /\ n \in DOMAIN flights' /\ flights'[n].landed
              /\ Opens(files, n) => Opens(files', n)
    BY <1>1
  <2>6. /\ Numbers(landed') \cap Numbers(th'[t].todo) = {}
        /\ Numbers(landed') \cup Numbers(th'[t].todo)
              \subseteq Numbers(landed) \cup Numbers(th[t].todo) \cup none
        /\ Apart(landed') /\ InAir(landed', flights', files')
    BY <1>1, <1>3, <2>1
  <2>7. OnlyThread(t) /\ Air
    BY <1>3 DEF DiskInv
  <2> HIDE DEF none
  <2>8. Moves(t, none, none)
    BY <2>2, <2>4, <2>5, <2>6 DEF Moves
  <2> QED BY <2>7, <2>8, AirMoved
<1>9. Openings'
  <2>1. \A u \in Threads \ {t} : {} \cap Uses(th[u]) = {}
    OBVIOUS
  <2>2. \A u \in Threads : Running(u, "erase") => Clash' = {}
    BY <1>5, RunningAt DEF DiskInv, Openings, Ready
  <2>3. \A n \in Written' \cup Named' : Opens(files', n)
    BY <1>1, <1>5 DEF DiskInv, Openings
  <2>4. Ready(files', th'[t], Clash')
    BY <1>1, <1>3, <1>4, ReadyNext DEF DiskInv
  <2> QED BY <1>1, <1>3, <2>1, <2>2, <2>3, <2>4, OpeningsKept DEF DiskInv
<1> QED BY <1>6, <1>7, <1>8, <1>9 DEF DiskInv

LEMMA UsedLess ==
    ASSUME NumberInv, Used, NEW t \in Threads, OnlyThread(t),
           th'[t].pend.number \in {th[t].pend.number, 0},
           th'[t].snap.number \in {th[t].snap.number, 0},
           Written' \subseteq Written, DOMAIN flights' \subseteq DOMAIN flights,
           Named' \subseteq Named \cup Written,
           pending_erase' \subseteq pending_erase \cup Written,
           next_segment' \in {next_segment, next_segment + 1}
    PROVE  Used'
<1> DEFINE none == {}
<1>1. /\ Written' \subseteq Written \cup none
      /\ DOMAIN flights' \subseteq DOMAIN flights \cup none
      /\ Named' \subseteq Named \cup Written \cup none
      /\ \A u \in Threads : none \cap Uses(th'[u]) = {}
  OBVIOUS
<1> HIDE DEF none
<1> QED BY <1>1, UsedKept

LEMMA OpeningsLess ==
    ASSUME Control, Openings, NEW t \in Threads, OnlyThread(t),
           \A n : Opens(files, n) => Opens(files', n),
           \A u \in Threads \ {t} : Running(u, "erase") => Clash' = {},
           \A n \in Written' \cup Named' : Opens(files', n),
           Ready(files', th'[t], Clash')
    PROVE  Openings'
<1> DEFINE none == {}
<1>1. /\ \A u \in Threads \ {t} : none \cap Uses(th[u]) = {}
      /\ \A n : n \notin none /\ Opens(files, n) => Opens(files', n)
  OBVIOUS
<1> HIDE DEF none
<1> QED BY <1>1, OpeningsKept

\* Whoever is at rest needs nothing.
LEMMA IdleReady ==
    ASSUME NEW t \in Threads, th'[t] = Idle, NEW fs, NEW clash
    PROVE  Ready(fs, th'[t], clash)
<1>1. th'[t].prog = <<>> /\ th'[t].snap = NoSnapshot
  BY IdleShape DEF Idle
<1> QED BY <1>1, AtNone, NoSnapshotIs, ReadyPlain

LEMMA LandBuiltFailsDisk ==
    ASSUME NumberInv, Control, DiskInv, NEW t \in Threads, LandBuiltFails(t) PROVE DiskInv'
<1>1. /\ landed' = landed \o th[t].todo
      /\ UNCHANGED <<segments, unwritten, pending_erase, flights, files, manifest, next_segment>>
  BY DEF LandBuiltFails, lists, disk
<1>2. OnlyThread(t) /\ th'[t] = Idle
  BY BackToIdle DEF NumberInv, NumberTypes, LandBuiltFails, Fail
<1>3. /\ th'[t].pend.number = 0 /\ th'[t].snap.number = 0 /\ th'[t].todo = <<>>
  BY <1>2, IdleShape
<1>4. Written' = Written /\ Named' = Named /\ Clash' = Clash
  BY <1>1 DEF Written, Named, Clash
<1>5. Lists'
  BY <1>1, <1>4 DEF DiskInv, Lists
<1>6. Used'
  BY <1>1, <1>2, <1>3, <1>4, UsedLess DEF DiskInv
<1>7. Air'
  <2> DEFINE none == {}
             mine == th[t].todo
  <2>1. /\ landed \in Seq(Finished) /\ mine \in Seq(Finished) /\ Apart(landed) /\ Apart(mine)
        /\ Numbers(landed) \cap Numbers(mine) = {}
        /\ InAir(landed, flights, files) /\ InAir(mine, flights, files)
    BY HeldNumbers DEF DiskInv, Air
  <2>2. /\ Apart(landed') /\ InAir(landed', flights', files')
        /\ Numbers(landed') \subseteq Numbers(landed) \cup Numbers(mine)
    <3> HIDE DEF mine
    <3>1. /\ Apart(landed \o mine) /\ InAir(landed \o mine, flights, files)
          /\ Numbers(landed \o mine) \subseteq Numbers(landed) \cup Numbers(mine)
      BY <2>1, BothApart, NumbersOfBoth
    <3> QED BY <1>1, <3>1 DEF mine
  <2>3. /\ Apart(th'[t].todo) /\ InAir(th'[t].todo, flights', files') /\ Numbers(th'[t].todo) = {}
    BY <1>3 DEF Apart, InAir, Numbers
  <2>4. \A n \in DOMAIN flights' : "landed" \in DOMAIN flights'[n]
    BY <1>1 DEF DiskInv, Air
  <2>5. \A n \in DOMAIN flights \ none : flights[n].landed =>
              /\ n \in DOMAIN flights' /\ flights'[n].landed
              /\ Opens(files, n) => Opens(files', n)
    BY <1>1
  <2>6. /\ Numbers(landed') \cap Numbers(th'[t].todo) = {}
        /\ Numbers(landed') \cup Numbers(th'[t].todo)
              \subseteq Numbers(landed) \cup Numbers(th[t].todo) \cup none
        /\ \A u \in Threads \ {t} : (none \cup none) \cap Numbers(th[u].todo) = {}
    BY <2>2, <2>3
  <2>7. OnlyThread(t) /\ Air
    BY <1>2 DEF DiskInv
  <2> HIDE DEF none, mine
  <2>8. Moves(t, none, none)
    BY <2>2, <2>3, <2>4, <2>5, <2>6 DEF Moves
  <2> QED BY <2>7, <2>8, AirMoved
<1>8. Openings'
  <2>1. \A u \in Threads : Running(u, "erase") => Clash' = {}
    BY <1>4, RunningAt DEF DiskInv, Openings, Ready
  <2>2. \A n \in Written' \cup Named' : Opens(files', n)
    BY <1>1, <1>4 DEF DiskInv, Openings
  <2> QED BY <1>1, <1>2, <2>1, <2>2, IdleReady, OpeningsLess DEF DiskInv
<1> QED BY <1>5, <1>6, <1>7, <1>8 DEF DiskInv

\* The program of a thread that has put a build in its place.
LEMMA PlainLanded ==
    ASSUME NumberInv, Control, NEW t \in Threads, LandBuilt(t) \/ LandFailed(t)
    PROVE  /\ Running(t, "land") /\ OnlyThread(t) /\ Plain(th'[t].prog)
           /\ th'[t].pend = th[t].pend /\ th'[t].snap = th[t].snap
           /\ th'[t].todo = Tail(th[t].todo)
<1> DEFINE more == Len(th[t].todo) > 1
           after(a, f) == (If(a, <<"save">>) \o If(f, <<"error">>)) \o Rest(t)
<1>1. Running(t, "land")
  BY DEF LandBuilt, LandFailed
<1>2. /\ OnlyThread(t) /\ th'[t].pend = th[t].pend /\ th'[t].snap = th[t].snap
      /\ th'[t].todo = Tail(th[t].todo)
      /\ \/ th'[t].prog = Landed(t, TRUE, th[t].failed).prog
         \/ th'[t].prog = Landed(t, th[t].added, TRUE).prog
  <2>0. PICK nx \in {Landed(t, TRUE, th[t].failed), Landed(t, th[t].added, TRUE)} :
           th' = [th EXCEPT ![t].prog = nx.prog, ![t].added = nx.added,
                            ![t].failed = nx.failed, ![t].todo = Tail(@)]
    BY DEF LandBuilt, LandFailed
  <2>1. /\ OnlyThread(t) /\ th'[t].pend = th[t].pend /\ th'[t].snap = th[t].snap
        /\ th'[t].todo = Tail(th[t].todo) /\ th'[t].prog = nx.prog
    BY <2>0, IdleShape DEF NumberInv, NumberTypes, OnlyThread
  <2> QED BY <2>0, <2>1
<1>3. /\ Landed(t, TRUE, th[t].failed).prog
              = IF more THEN th[t].prog ELSE after(TRUE, th[t].failed)
      /\ Landed(t, th[t].added, TRUE).prog
              = IF more THEN th[t].prog ELSE after(th[t].added, TRUE)
  BY DEF Landed
<1>4. /\ If(TRUE, <<"save">>) \in {<<>>, <<"save">>} /\ If(TRUE, <<"error">>) \in {<<>>, <<"error">>}
      /\ If(th[t].failed, <<"error">>) \in {<<>>, <<"error">>}
      /\ If(th[t].added, <<"save">>) \in {<<>>, <<"save">>}
  BY DEF If
<1>5. /\ \A s \in {<<>>, <<"save">>} : Plain(s)
      /\ \A e \in {<<>>, <<"error">>} : Plain(e)
      /\ Plain(Rest(t)) /\ Plain(th[t].prog)
  BY <1>1, StepNames, PlainOne, PlainNone, PlainRest, PlainNow DEF Needing
<1>6. \A s \in {<<>>, <<"save">>}, e \in {<<>>, <<"error">>} : Plain((s \o e) \o Rest(t))
  BY <1>5, PlainBoth
<1>7. Plain(after(TRUE, th[t].failed)) /\ Plain(after(th[t].added, TRUE))
  BY <1>4, <1>6
<1> HIDE DEF after, more
<1> QED BY <1>1, <1>2, <1>3, <1>5, <1>7

\* The head of what a thread has to place leaves the air.
LEMMA LandedAir ==
    ASSUME NumberInv, Air, NEW t \in Threads, OnlyThread(t), th[t].todo # <<>>,
           th'[t].todo = Tail(th[t].todo), landed' = landed,
           flights' = Without(flights, {Head(th[t].todo).number}),
           \A n : Opens(files, n) => Opens(files', n)
    PROVE  Air'
<1> DEFINE n == Head(th[t].todo).number
           gone == {n}
           none == {}
<1>1. th[t].todo \in Seq(Finished)
  BY HeldNumbers
<1>2. /\ Apart(Tail(th[t].todo)) /\ n \notin Numbers(Tail(th[t].todo))
      /\ Numbers(Tail(th[t].todo)) \subseteq Numbers(th[t].todo)
      /\ n \in Numbers(th[t].todo) /\ InAir(Tail(th[t].todo), flights, files)
  BY <1>1, HeadAndTail DEF Air
<1>3. /\ n \notin Numbers(landed)
      /\ \A u \in Threads \ {t} : n \notin Numbers(th[u].todo)
  BY <1>2 DEF Air
<1>4. \A m \in DOMAIN flights \ gone : m \in DOMAIN flights' /\ flights'[m] = flights[m]
  BY DEF Without
<1>5. DOMAIN flights' = DOMAIN flights \ gone
  BY DEF Without
<1>6. \A s : InAir(s, flights, files) /\ n \notin Numbers(s) => InAir(s, flights', files')
  <2> SUFFICES ASSUME NEW s, InAir(s, flights, files), n \notin Numbers(s)
               PROVE  InAir(s, flights', files')
    OBVIOUS
  <2>1. \A i \in DOMAIN s : s[i].number # n
    BY DEF Numbers
  <2> HIDE DEF n
  <2> QED BY <1>4, <2>1 DEF InAir, gone
<1>7. /\ Apart(th'[t].todo) /\ InAir(th'[t].todo, flights', files')
      /\ Apart(landed') /\ InAir(landed', flights', files')
  BY <1>2, <1>3, <1>6 DEF Air
<1>8. \A m \in DOMAIN flights \ gone : flights[m].landed =>
              /\ m \in DOMAIN flights' /\ flights'[m].landed
              /\ Opens(files, m) => Opens(files', m)
  BY <1>4
<1>9. \A m \in DOMAIN flights' : "landed" \in DOMAIN flights'[m]
  BY <1>4, <1>5 DEF Air
<1>10. /\ Numbers(landed') \cap Numbers(th'[t].todo) = {}
       /\ Numbers(landed') \cup Numbers(th'[t].todo)
              \subseteq Numbers(landed) \cup Numbers(th[t].todo) \cup none
       /\ \A u \in Threads \ {t} : (none \cup gone) \cap Numbers(th[u].todo) = {}
  BY <1>2, <1>3 DEF Air
<1> HIDE DEF gone, none, n
<1>11. Moves(t, none, gone)
  BY <1>7, <1>8, <1>9, <1>10 DEF Moves
<1> QED BY <1>11, AirMoved

LEMMA LandFailedDisk ==
    ASSUME NumberInv, Control, DiskInv, NEW t \in Threads, LandFailed(t) PROVE DiskInv'
<1> DEFINE n == Head(th[t].todo).number
<1>1. /\ flights' = Without(flights, {n}) /\ th[t].todo # <<>>
      /\ UNCHANGED <<segments, unwritten, pending_erase, landed, files, manifest, next_segment>>
  BY DEF LandFailed, lists, disk
<1>2. /\ Running(t, "land") /\ OnlyThread(t) /\ Plain(th'[t].prog)
      /\ th'[t].pend = th[t].pend /\ th'[t].snap = th[t].snap
      /\ th'[t].todo = Tail(th[t].todo)
  BY PlainLanded
<1>3. DOMAIN flights' \subseteq DOMAIN flights
  BY <1>1 DEF Without
<1>4. Written' = Written /\ Named' = Named /\ Clash' = Clash
  BY <1>1 DEF Written, Named, Clash
<1>5. Lists'
  BY <1>1, <1>3, <1>4 DEF DiskInv, Lists
<1>6. Used'
  BY <1>1, <1>2, <1>3, <1>4, UsedLess DEF DiskInv
<1>7. Air'
  BY <1>1, <1>2, LandedAir DEF DiskInv
<1>8. Openings'
  <2>1. \A u \in Threads : Running(u, "erase") => Clash' = {}
    BY <1>4, RunningAt DEF DiskInv, Openings, Ready
  <2>2. \A m \in Written' \cup Named' : Opens(files', m)
    BY <1>1, <1>4 DEF DiskInv, Openings
  <2>3. Ready(files', th'[t], Clash')
    BY <1>2, ReadyNext DEF DiskInv
  <2> QED BY <1>1, <1>2, <2>1, <2>2, <2>3, OpeningsLess DEF DiskInv
<1> QED BY <1>5, <1>6, <1>7, <1>8 DEF DiskInv

\* A new bitmap takes nothing from the other files of a segment.
LEMMA BitmapOpens ==
    ASSUME NEW fs, NEW n, n \in DOMAIN fs, NEW b, NEW m, Opens(fs, m)
    PROVE  Opens([fs EXCEPT ![n].alive = b], m)
BY SMTT(30) DEF Opens

LEMMA WithOpens ==
    ASSUME NEW fs, NEW n, NEW f
    PROVE  /\ \A m : m # n /\ Opens(fs, m) => Opens(With(fs, n, f), m)
           /\ \A rows, alive : f = Complete(rows, alive) => Opens(With(fs, n, f), n)
BY SMTT(30) DEF Opens, With, Complete

LEMMA LandBuiltDisk ==
    ASSUME NumberInv, Control, DiskInv, NEW t \in Threads, LandBuilt(t) PROVE DiskInv'
<1> DEFINE n == Head(th[t].todo).number
<1>1. /\ th[t].todo \in Seq(Finished) /\ th[t].todo # <<>> /\ Head(th[t].todo).built
      /\ UNCHANGED <<unwritten, pending_erase, landed, manifest>>
      /\ flights' = Without(flights, {n}) /\ next_segment' = MaxOf({next_segment, n + 1})
      /\ DOMAIN segments' = DOMAIN segments \cup {n}
  BY HeldNumbers DEF LandBuilt, With
<1>2. n \in DOMAIN flights /\ Opens(files, n) /\ n \in Numbers(th[t].todo) /\ n \in Nat
  <2>1. Apart(th[t].todo) /\ InAir(th[t].todo, flights, files)
    BY DEF DiskInv, Air
  <2> QED BY <1>1, <2>1, HeadAndTail, NumbersOfTail
<1>3. n < next_segment /\ n # 0 /\ next_segment' = next_segment
  BY <1>1, <1>2, HeldNumbers, MaxOfPast DEF DiskInv, Lists
<1>4. /\ Running(t, "land") /\ OnlyThread(t) /\ Plain(th'[t].prog)
      /\ th'[t].pend = th[t].pend /\ th'[t].snap = th[t].snap
      /\ th'[t].todo = Tail(th[t].todo)
  BY PlainLanded, SMTT(30)
<1>5. n \in DOMAIN files /\ (files' = files \/ \E b : files' = [files EXCEPT ![n].alive = b])
  BY <1>2 DEF LandBuilt, Opens
<1>6. ASSUME NEW m, Opens(files, m) PROVE Opens(files', m)
  <2>1. CASE files' = files
    BY <1>6, <2>1
  <2>2. CASE \E b : files' = [files EXCEPT ![n].alive = b]
    <3>1. PICK b : files' = [files EXCEPT ![n].alive = b]
      BY <2>2
    <3> HIDE DEF n
    <3>2. Opens([files EXCEPT ![n].alive = b], m)
      BY <1>5, <1>6, BitmapOpens
    <3> QED BY <3>1, <3>2
  <2> QED BY <1>5, <2>1, <2>2
<1>7. /\ n \notin DOMAIN segments \cup Named \cup pending_erase
      /\ \A u \in Threads : n \notin Uses(th[u])
  BY <1>2, <1>3 DEF NumberInv, NoSharedNumber, DiskInv, Lists, Used
<1>8. /\ Written' = Written \cup {n} /\ Named' = Named /\ Clash' = Clash
      /\ DOMAIN flights' \subseteq DOMAIN flights
  BY <1>1, <1>7 DEF Written, Named, Clash, Without, DiskInv, Lists
<1> HIDE DEF n
<1>9. Lists'
  BY <1>1, <1>3, <1>7, <1>8 DEF DiskInv, Lists
<1>10. Used'
  <2> DEFINE fresh == {n}
  <2>1. \A u \in Threads : fresh \cap Uses(th'[u]) = {}
    BY <1>4, <1>7 DEF Uses, OnlyThread
  <2>2. /\ Written' \subseteq Written \cup fresh
        /\ DOMAIN flights' \subseteq DOMAIN flights \cup fresh
        /\ Named' \subseteq Named \cup Written \cup fresh
        /\ pending_erase' \subseteq pending_erase \cup Written
    BY <1>1, <1>8
  <2> HIDE DEF fresh
  <2> QED BY <1>3, <1>4, <2>1, <2>2, UsedKept DEF DiskInv
<1>11. Air'
  BY <1>1, <1>4, <1>6, LandedAir DEF DiskInv, n
<1>12. Openings'
  <2>1. \A u \in Threads : Running(u, "erase") => Clash' = {}
    BY <1>8, RunningAt DEF DiskInv, Openings, Ready
  <2>2. \A m \in Written' \cup Named' : Opens(files', m)
    BY <1>2, <1>6, <1>8 DEF DiskInv, Openings
  <2>3. Ready(files', th'[t], Clash')
    BY <1>4, ReadyNext DEF DiskInv
  <2> QED BY <1>4, <1>6, <2>1, <2>2, <2>3, OpeningsLess DEF DiskInv
<1> QED BY <1>9, <1>10, <1>11, <1>12 DEF DiskInv

\* A builder ends: what it wrote is nobody else's.
LEMMA BuiltDisk ==
    ASSUME NumberInv, Control, DiskInv, NEW n \in DOMAIN flights, ~flights[n].landed,
           NEW b \in BOOLEAN, flights' = [flights EXCEPT ![n].landed = TRUE],
           landed' = Append(landed, [number |-> n, built |-> b]),
           b => Opens(files', n), \A m : m # n /\ Opens(files, m) => Opens(files', m),
           UNCHANGED <<segments, unwritten, pending_erase, manifest, next_segment, th>>
    PROVE  DiskInv'
<1> DEFINE t == Worker
           new == {n}
           none == {}
<1>1. t \in Threads /\ OnlyThread(t)
  BY NativeIndexAssumption DEF OnlyThread, NumberInv, NumberTypes
<1>2. /\ n \in Nat /\ n # 0 /\ n \notin Written \cup Named
      /\ \A u \in Threads : n \notin Uses(th[u])
  BY DEF NumberInv, NumbersBelow, NoSharedNumber, DiskInv, Lists, Used, Written
<1>3. Written' = Written /\ Named' = Named /\ Clash' = Clash /\ DOMAIN flights' = DOMAIN flights
  BY DEF Written, Named, Clash
<1>4. Lists'
  BY <1>3 DEF DiskInv, Lists
<1>5. Used'
  BY <1>1, <1>3, UsedLess DEF DiskInv
<1>6. /\ landed \in Seq(Finished) /\ n \notin Numbers(landed)
      /\ \A u \in Threads : n \notin Numbers(th[u].todo)
  <2>1. \A s : InAir(s, flights, files) => n \notin Numbers(s)
    BY DEF InAir, Numbers
  <2>2. landed \in Seq(Finished)
    BY DEF NumberInv, NumberTypes
  <2> QED BY <2>1, <2>2 DEF DiskInv, Air
<1>7. /\ \A m \in DOMAIN flights' : "landed" \in DOMAIN flights'[m]
      /\ flights'[n].landed /\ n \in DOMAIN flights'
      /\ \A m \in DOMAIN flights : m # n => flights'[m] = flights[m]
  BY DEF DiskInv, Air
<1>8. \A s : InAir(s, flights, files) => InAir(s, flights', files')
  <2> SUFFICES ASSUME NEW s, InAir(s, flights, files) PROVE InAir(s, flights', files')
    OBVIOUS
  <2>1. \A i \in DOMAIN s : s[i].number # n
    BY DEF InAir
  <2> QED BY <1>3, <1>7, <2>1 DEF InAir
<1>9. Air'
  <2>1. Apart(landed') /\ InAir(landed', flights', files')
    <3>1. Apart(landed) /\ InAir(landed, flights', files')
      BY <1>8 DEF DiskInv, Air
    <3> QED BY <1>2, <1>6, <1>7, <3>1, OneMoreApart
  <2>2. Apart(th'[t].todo) /\ InAir(th'[t].todo, flights', files')
    BY <1>1, <1>8 DEF DiskInv, Air
  <2>3. \A m \in DOMAIN flights \ none : flights[m].landed =>
              /\ m \in DOMAIN flights' /\ flights'[m].landed
              /\ Opens(files, m) => Opens(files', m)
    BY <1>3, <1>7
  <2>4. /\ Numbers(landed') \cap Numbers(th'[t].todo) = {}
        /\ Numbers(landed') \cup Numbers(th'[t].todo)
              \subseteq Numbers(landed) \cup Numbers(th[t].todo) \cup new
        /\ \A u \in Threads \ {t} : (new \cup none) \cap Numbers(th[u].todo) = {}
    <3>1. Numbers(landed') \subseteq Numbers(landed) \cup {n}
      BY <1>2, <1>6, NumbersOfOne
    <3>2. Numbers(landed) \cap Numbers(th[t].todo) = {}
      BY <1>1 DEF DiskInv, Air
    <3> QED BY <1>1, <1>6, <3>1, <3>2
  <2> HIDE DEF new, none, t
  <2>5. Moves(t, new, none)
    BY <1>7, <2>1, <2>2, <2>3, <2>4 DEF Moves
  <2> QED BY <1>1, <2>5, AirMoved DEF DiskInv
<1>10. Openings'
  <2>1. \A m \in Written' \cup Named' : Opens(files', m)
    BY <1>2, <1>3 DEF DiskInv, Openings
  <2>2. ASSUME NEW u \in Threads PROVE Ready(files', th'[u], Clash')
    <3>1. new \cap Uses(th[u]) = {} /\ \A m : m \notin new /\ Opens(files, m) => Opens(files', m)
      BY <1>2
    <3>2. Running(u, "erase") => Clash' = {}
      BY <1>3, RunningAt DEF DiskInv, Openings, Ready
    <3> HIDE DEF new
    <3> QED BY <3>1, <3>2, ReadyKept DEF DiskInv
  <2> QED BY <2>1, <2>2 DEF Openings
<1> QED BY <1>4, <1>5, <1>9, <1>10 DEF DiskInv

LEMMA BuilderDisk ==
    ASSUME NumberInv, Control, DiskInv, Builder PROVE DiskInv'
<1>1. ASSUME NEW n \in DOMAIN flights, Build(n) PROVE DiskInv'
  <2>1. files' = With(files, n, Complete(flights[n].rows, flights[n].rows))
    BY <1>1 DEF Build
  <2>2. Opens(files', n) /\ \A m : m # n /\ Opens(files, m) => Opens(files', m)
    BY <2>1, WithOpens
  <2> QED BY <1>1, <2>2, BuiltDisk DEF Build, lists
<1>2. ASSUME NEW n \in DOMAIN flights, BuildFails(n) PROVE DiskInv'
  <2>1. \A m : m # n /\ Opens(files, m) => Opens(files', m)
    BY <1>2, WithOpens DEF BuildFails
  <2> QED BY <1>2, <2>1, BuiltDisk DEF BuildFails, lists
<1> QED BY <1>1, <1>2 DEF Builder

-----------------------------------------------------------------------------
\* Segments leave the list: their files wait for the manifest to let them go.
Thins(E) ==
    /\ E \subseteq DOMAIN segments /\ DOMAIN segments' = DOMAIN segments \ E
    /\ pending_erase' = pending_erase \cup (E \ unwritten)
    /\ unwritten' = unwritten \ E
    /\ UNCHANGED <<landed, files, manifest>>
    /\ DOMAIN flights' = DOMAIN flights
    /\ \A n \in DOMAIN flights : "landed" \in DOMAIN flights[n] =>
          "landed" \in DOMAIN flights'[n] /\ flights'[n].landed = flights[n].landed
    /\ next_segment' \in {next_segment, next_segment + 1}

\* A thread is handed the next number.
LEMMA UsedFresh ==
    ASSUME NumberInv, Lists, Used, NEW t \in Threads, OnlyThread(t),
           Uses(th'[t]) \subseteq Uses(th[t]) \cup {next_segment},
           th'[t].pend.number = th'[t].snap.number => th'[t].pend.number = 0,
           Written' \subseteq Written, DOMAIN flights' \subseteq DOMAIN flights,
           Named' \subseteq Named \cup Written,
           pending_erase' \subseteq pending_erase \cup Written,
           next_segment' = next_segment + 1
    PROVE  Used'
<1>1. next_segment \in Nat /\ \A u \in Threads : \A n \in Uses(th[u]) : n \in Nat
  BY DEF NumberInv, NumberTypes, Uses
<1>2. /\ next_segment \notin DOMAIN segments \cup DOMAIN flights \cup pending_erase
      /\ \A u \in Threads : next_segment \notin Uses(th[u])
  BY <1>1 DEF NumberInv, NumbersBelow, Lists, Used
<1>3. next_segment \notin Named
  BY <1>1 DEF NumberInv, NumbersBelow, NumberTypes
<1>4. next_segment \notin Written
  BY <1>2 DEF Written
<1>5. \A u \in Threads \ {t} : th'[u] = th[u]
  BY DEF OnlyThread
<1>6. \A u \in Threads : th'[u].pend.number = th'[u].snap.number => th'[u].pend.number = 0
  BY <1>5 DEF Used
<1>7. \A u, v \in Threads : u # v => Uses(th'[u]) \cap Uses(th'[v]) = {}
  BY <1>2, <1>5 DEF Used
<1>8. ASSUME NEW u \in Threads, NEW n \in Uses(th'[u])
      PROVE  /\ n < next_segment'
             /\ n \notin Written' \cup Named' \cup DOMAIN flights' \cup pending_erase'
  <2>1. n \in Uses(th[u]) \/ n = next_segment
    BY <1>5, <1>8
  <2>2. CASE n \in Uses(th[u])
    <3>1. /\ n < next_segment /\ n \in Nat
          /\ n \notin Written \cup Named \cup DOMAIN flights \cup pending_erase
      BY <1>1, <2>2 DEF Used
    <3> QED BY <1>1, <3>1
  <2>3. CASE n = next_segment
    BY <1>1, <1>2, <1>3, <1>4, <2>3
  <2> QED BY <2>1, <2>2, <2>3
<1> QED BY <1>6, <1>7, <1>8 DEF Used

LEMMA ThinnedDisk ==
    ASSUME NumberInv, Control, DiskInv, NEW t \in Threads, NEW l, Running(t, l),
           l \notin {"writeOne", "adoptOne"}, lock = t, NEW E, Thins(E),
           OnlyThread(t), Plain(th'[t].prog), th'[t].snap = th[t].snap,
           th'[t].todo = th[t].todo,
           \/ th'[t].pend.number \in {th[t].pend.number, 0}
           \/ th'[t].pend.number = next_segment /\ next_segment' = next_segment + 1
    PROVE  DiskInv'
<1>1. /\ Written' = Written \ E /\ Named' = Named /\ pending_erase' \subseteq pending_erase \cup Written
      /\ DOMAIN flights' = DOMAIN flights
  BY DEF Thins, Written, Named
<1>2. next_segment \in Nat /\ next_segment' \in {next_segment, next_segment + 1}
  BY HeldNumbers DEF Thins
<1>3. Lists'
  <2>1. /\ 0 \notin DOMAIN segments' \cup DOMAIN flights' \cup Named'
        /\ unwritten' \subseteq DOMAIN segments' /\ Named' \cap unwritten' = {}
    BY <1>1 DEF DiskInv, Lists, Thins
  <2>2. pending_erase' \cap (DOMAIN segments' \cup DOMAIN flights') = {}
    <3>1. E \cap DOMAIN flights = {}
      BY DEF NumberInv, NoSharedNumber, DiskInv, Lists, Thins
    <3> QED BY <3>1 DEF DiskInv, Lists, Thins
  <2>3. ASSUME NEW n \in pending_erase' PROVE n \in Nat \ {0} /\ n < next_segment'
    <3>1. n \in Nat \ {0} /\ n < next_segment
      BY DEF NumberInv, NumbersBelow, DiskInv, Lists, Thins
    <3> QED BY <1>2, <3>1
  <2> QED BY <2>1, <2>2, <2>3 DEF Lists
<1>4. Used'
  <2>1. CASE th'[t].pend.number \in {th[t].pend.number, 0}
    BY <1>1, <1>2, <2>1, UsedLess DEF DiskInv
  <2>2. CASE th'[t].pend.number = next_segment /\ next_segment' = next_segment + 1
    <3>1. Uses(th'[t]) \subseteq Uses(th[t]) \cup {next_segment}
      BY <2>2 DEF Uses
    <3>2. th'[t].pend.number # th'[t].snap.number
      <4>1. th[t].snap.number < next_segment
        <5>1. th[t].snap.number \in Uses(th[t]) \/ th[t].snap.number = 0
          BY DEF Uses
        <5>2. next_segment \in Nat /\ next_segment # 0
          BY HeldNumbers
        <5> QED BY <5>1, <5>2 DEF DiskInv, Used
      <4>2. next_segment \in Nat /\ next_segment # 0 /\ th[t].snap.number \in Nat
        BY HeldNumbers
      <4> QED BY <2>2, <4>1, <4>2
    <3> QED BY <1>1, <2>2, <3>1, <3>2, UsedFresh DEF DiskInv
  <2> QED BY <2>1, <2>2
<1>5. Air'
  <2>1. \A n \in DOMAIN flights : flights[n].landed =>
              /\ n \in DOMAIN flights' /\ flights'[n].landed
              /\ Opens(files, n) => Opens(files', n)
    BY DEF DiskInv, Air, Thins
  <2>2. \A n \in DOMAIN flights' : "landed" \in DOMAIN flights'[n]
    BY DEF DiskInv, Air, Thins
  <2>3. landed' = landed
    BY DEF Thins
  <2> QED BY <2>1, <2>2, <2>3, AirKept DEF DiskInv
<1>6. Openings'
  <2>1. files' = files
    BY DEF Thins
  <2>2. \A u \in Threads \ {t} : Running(u, "erase") => Clash' = {}
    BY ErasesAlone
  <2>3. \A n \in Written' \cup Named' : Opens(files', n)
    BY <1>1, <2>1 DEF DiskInv, Openings
  <2>4. Ready(files', th'[t], Clash')
    BY ReadyNext DEF DiskInv
  <2> QED BY <2>1, <2>2, <2>3, <2>4, OpeningsLess DEF DiskInv
<1> QED BY <1>3, <1>4, <1>5, <1>6 DEF DiskInv

LEMMA SweepDisk ==
    ASSUME NumberInv, Control, DiskInv, NEW t \in Threads, Sweep(t) PROVE DiskInv'
<1> DEFINE live == [n \in DOMAIN segments |-> segments[n].alive \
                       SweepVictims(n, th[t].source, th[t].under, th[t].spare)]
           E == Emptied(live)
<1>1. /\ DOMAIN segments' = DOMAIN segments \ E
      /\ pending_erase' = pending_erase \cup (E \ unwritten) /\ unwritten' = unwritten \ E
      /\ UNCHANGED <<landed, files, manifest, flights, next_segment>>
      /\ Running(t, "sweep") /\ Goto(t, Rest(t))
  BY DEF Sweep, air, disk
<1>2. Thins(E)
  BY <1>1 DEF Thins, Emptied
<1> HIDE DEF E
<1>3. lock = t /\ Plain(Rest(t))
  BY <1>1, Now, PlainRest DEF Locked
<1>4. /\ OnlyThread(t) /\ th'[t].prog = Rest(t) /\ th'[t].pend = th[t].pend
      /\ th'[t].snap = th[t].snap /\ th'[t].todo = th[t].todo
  BY <1>1, Went, GotoNumbers
<1> QED BY <1>1, <1>2, <1>3, <1>4, ThinnedDisk

LEMMA ForgetEmptyDisk ==
    ASSUME NumberInv, Control, DiskInv, NEW t \in Threads, ForgetEmpty(t) PROVE DiskInv'
<1> DEFINE E == Emptied([n \in DOMAIN segments |-> segments[n].alive])
<1>1. /\ DOMAIN segments' = DOMAIN segments \ E
      /\ pending_erase' = pending_erase \cup (E \ unwritten) /\ unwritten' = unwritten \ E
      /\ UNCHANGED <<landed, files, manifest, flights, next_segment>>
      /\ Running(t, "forgetEmpty") /\ Goto(t, Rest(t))
  BY DEF ForgetEmpty, air, disk, Without
<1>2. Thins(E)
  BY <1>1 DEF Thins, Emptied
<1> HIDE DEF E
<1>3. lock = t /\ Plain(Rest(t))
  BY <1>1, Now, PlainRest DEF Locked
<1>4. /\ OnlyThread(t) /\ th'[t].prog = Rest(t) /\ th'[t].pend = th[t].pend
      /\ th'[t].snap = th[t].snap /\ th'[t].todo = th[t].todo
  BY <1>1, Went, GotoNumbers
<1> QED BY <1>1, <1>2, <1>3, <1>4, ThinnedDisk

LEMMA ForgetKillDisk ==
    ASSUME NumberInv, Control, DiskInv, NEW t \in Threads, ForgetKill(t) PROVE DiskInv'
<1> DEFINE some == <<"writeDirty", "forgetEmpty", "save">>
           E == {}
<1>1. /\ Running(t, "forget") /\ \E b \in BOOLEAN : Goto(t, If(b, some) \o Rest(t))
      /\ DOMAIN segments' = DOMAIN segments
      /\ UNCHANGED <<landed, files, manifest, flights, next_segment, pending_erase, unwritten>>
  BY DEF ForgetKill, air, disk
<1>2. PICK b \in BOOLEAN : Goto(t, If(b, some) \o Rest(t))
  BY <1>1
<1>3. Plain(some)
  <2>1. some \in Program
    BY StepNames DEF Program
  <2> QED BY <2>1 DEF Plain, At, Needing
<1> HIDE DEF some
<1>4. lock = t /\ Plain(If(b, some) \o Rest(t))
  <2>1. Plain(If(b, some)) /\ Plain(Rest(t))
    BY <1>1, <1>3, PlainIf, PlainRest
  <2> QED BY <1>1, <2>1, Now, PlainBoth DEF Locked
<1>5. /\ OnlyThread(t) /\ th'[t].prog = If(b, some) \o Rest(t) /\ th'[t].pend = th[t].pend
      /\ th'[t].snap = th[t].snap /\ th'[t].todo = th[t].todo
  BY <1>2, Went, GotoNumbers, ZenonT(30)
<1>6. Thins(E)
  BY <1>1 DEF Thins
<1> HIDE DEF E
<1> QED BY <1>1, <1>4, <1>5, <1>6, ThinnedDisk

\* flush_prepare
LEMMA PreparedThins ==
    ASSUME NEW t \in Threads, NEW mode, Prepare(t, mode) PROVE \E E : Thins(E)
<1> DEFINE nothing == staged = {} /\ hidden = {} /\ dirty_alive = {}
           live1   == [n \in DOMAIN segments |-> segments[n].alive \ HiddenKills(n)]
           staged1 == {e \in staged : ~Covers(hidden, e.path)}
           staged2 == staged1 \ Unchanged(live1, staged1)
           live2   == [n \in DOMAIN segments |->
                         {r \in live1[n] : Key(r) \notin KeysOf(staged2)}]
           takes   == /\ staged2 # {}
                      /\ mode = "overflow" => Cardinality(staged2) >= MaxStaged
           E       == IF nothing THEN {} ELSE Emptied(live2)
<1>1. /\ segments' = [n \in DOMAIN segments \ E |-> [segments[n] EXCEPT !.alive = live2[n]]]
      /\ pending_erase' = pending_erase \cup (E \ unwritten) /\ unwritten' = unwritten \ E
      /\ flights' = [n \in DOMAIN flights |->
                         [flights[n] EXCEPT
                            !.gone = Extend(@, hidden),
                            !.doomed = @ \cup (KeysOf(staged2) \cap
                                                 KeysOf(flights[n].rows))]]
      /\ next_segment' = IF takes THEN next_segment + 1 ELSE next_segment
      /\ UNCHANGED <<landed, files, manifest>>
  BY DEF Prepare, disk
<1>2. E \subseteq DOMAIN segments
  BY DEF Emptied
<1> HIDE DEF E, takes, live2, staged2
<1>3. /\ DOMAIN segments' = DOMAIN segments \ E /\ DOMAIN flights' = DOMAIN flights
      /\ next_segment' \in {next_segment, next_segment + 1}
  BY <1>1
<1>4. ASSUME NEW n \in DOMAIN flights, "landed" \in DOMAIN flights[n]
      PROVE  "landed" \in DOMAIN flights'[n] /\ flights'[n].landed = flights[n].landed
  BY <1>1, <1>4
<1>5. Thins(E)
  BY <1>1, <1>2, <1>3, <1>4 DEF Thins
<1> QED BY <1>5

LEMMA PlainPrepared ==
    ASSUME NEW mode \in Modes, NEW p, NEW save \in BOOLEAN
    PROVE  Plain(AfterPrepare(mode, p, save))
<1> DEFINE built == p.staged # {}
           write == p.alive # <<>>
           s == If(save, <<"save">>)
           w == If(write, <<"writeAlive">>)
           b3 == If(built, <<"writeSeg", "install", "unlock">>)
           b2 == If(built, <<"writeSeg", "install">>)
           b1 == If(built, <<"dispatch">>)
           u2 == If(built, <<"push", "unlock">>)
           u1 == If(built, <<"push">>)
<1>1. Plain(s) /\ Plain(w) /\ Plain(b1) /\ Plain(u1) /\ Plain(<<"unlock">>)
  BY StepNames, PlainOne DEF Needing
<1>2. Plain(b3) /\ Plain(b2) /\ Plain(u2)
  <2>1. /\ <<"writeSeg", "install", "unlock">> \in Program
        /\ <<"writeSeg", "install">> \in Program /\ <<"push", "unlock">> \in Program
    BY StepNames DEF Program
  <2>2. /\ Plain(<<"writeSeg", "install", "unlock">>) /\ Plain(<<"writeSeg", "install">>)
        /\ Plain(<<"push", "unlock">>)
    BY <2>1 DEF Plain, At, Needing
  <2> QED BY <2>2, PlainIf
<1>3. /\ mode = "commit"   => AfterPrepare(mode, p, save) = s \o <<"unlock">> \o w \o b3
      /\ mode = "flush"    => AfterPrepare(mode, p, save) = s \o w \o b2
      /\ mode = "overflow" => AfterPrepare(mode, p, save) = s \o w \o b1
      /\ mode = "publish"  => AfterPrepare(mode, p, save) = <<"unlock">> \o u2
      /\ mode = "publishLocked" => AfterPrepare(mode, p, save) = u1
  BY DEF AfterPrepare
<1> HIDE DEF s, w, b3, b2, b1, u2, u1
<1>4. /\ Plain(s \o <<"unlock">> \o w \o b3) /\ Plain(s \o w \o b2) /\ Plain(s \o w \o b1)
      /\ Plain(<<"unlock">> \o u2)
  BY <1>1, <1>2, PlainBoth
<1> QED BY <1>1, <1>3, <1>4 DEF Modes

LEMMA PrepareDisk ==
    ASSUME NumberInv, Control, DiskInv, NEW t \in Threads, NEW mode \in Modes,
           Prepare(t, mode)
    PROVE  DiskInv'
<1>1. PICK pend : \E save \in BOOLEAN :
              /\ OnlyThread(t) /\ th'[t].prog = AfterPrepare(mode, pend, save) \o Rest(t)
              /\ th'[t].pend = pend /\ th'[t].snap = th[t].snap /\ th'[t].todo = th[t].todo
              /\ pend.staged # {} =>
                    pend.number = next_segment /\ next_segment' = next_segment + 1
              /\ pend.number # 0 => pend.staged # {}
  BY Prepared, ZenonT(30)
<1>2. PICK save \in BOOLEAN :
              /\ OnlyThread(t) /\ th'[t].prog = AfterPrepare(mode, pend, save) \o Rest(t)
              /\ th'[t].pend = pend /\ th'[t].snap = th[t].snap /\ th'[t].todo = th[t].todo
              /\ pend.staged # {} =>
                    pend.number = next_segment /\ next_segment' = next_segment + 1
              /\ pend.number # 0 => pend.staged # {}
  BY <1>1
<1>3. PICK E : Thins(E)
  BY PreparedThins
<1>4. Running(t, mode) /\ mode \in Locked /\ mode \notin {"writeSeg", "writeOne", "foldWrite", "adoptOne"}
  BY DEF Prepare, Modes, Locked
<1>5. lock = t /\ Plain(Rest(t)) /\ Plain(AfterPrepare(mode, pend, save))
  BY <1>4, Now, PlainRest, PlainPrepared
<1>6. Plain(th'[t].prog)
  BY <1>2, <1>5, PlainBoth
<1> QED BY <1>2, <1>3, <1>4, <1>5, <1>6, ThinnedDisk

-----------------------------------------------------------------------------
\* A thread writes, or gives up, the files under the numbers it uses.
LEMMA WrittenDisk ==
    ASSUME NumberInv, Control, DiskInv, NEW t \in Threads, OnlyThread(t),
           UNCHANGED <<segments, unwritten, pending_erase, flights, landed, manifest,
                       next_segment>>,
           NEW lost, lost \subseteq Uses(th[t]) \cup {0},
           \A n : n \notin lost /\ Opens(files, n) => Opens(files', n),
           th'[t].pend.number \in {th[t].pend.number, 0},
           th'[t].snap.number \in {th[t].snap.number, 0},
           th'[t].todo \in {th[t].todo, <<>>},
           Ready(files', th'[t], Clash)
    PROVE  DiskInv'
<1>1. Written' = Written /\ Named' = Named /\ Clash' = Clash
  BY DEF Written, Named, Clash
<1>2. /\ lost \cap (Written \cup Named \cup DOMAIN flights) = {}
      /\ \A u \in Threads \ {t} : lost \cap Uses(th[u]) = {}
  <2>1. /\ 0 \notin Written \cup Named \cup DOMAIN flights
        /\ \A u \in Threads : 0 \notin Uses(th[u])
    BY DEF DiskInv, Lists, Written, Uses
  <2> QED BY <2>1 DEF DiskInv, Used
<1>3. Lists'
  BY <1>1 DEF DiskInv, Lists
<1>4. Used'
  BY <1>1, UsedLess DEF DiskInv
<1>5. Air'
  <2>1. \A n \in DOMAIN flights : flights[n].landed =>
              /\ n \in DOMAIN flights' /\ flights'[n].landed
              /\ Opens(files, n) => Opens(files', n)
    BY <1>2
  <2>2. \A n \in DOMAIN flights' : "landed" \in DOMAIN flights'[n]
    BY DEF DiskInv, Air
  <2> QED BY <2>1, <2>2, AirKept DEF DiskInv
<1>6. Openings'
  <2>1. \A u \in Threads \ {t} : Running(u, "erase") => Clash' = {}
    BY <1>1, RunningAt DEF DiskInv, Openings, Ready
  <2>2. \A n \in Written' \cup Named' : Opens(files', n)
    BY <1>1, <1>2 DEF DiskInv, Openings
  <2>3. Ready(files', th'[t], Clash')
    BY <1>1
  <2> QED BY <1>2, <2>1, <2>2, <2>3, OpeningsKept DEF DiskInv
<1> QED BY <1>3, <1>4, <1>5, <1>6 DEF DiskInv

\* A write that failed, and the error it makes the call return.
LEMMA FailedWriteDisk ==
    ASSUME NumberInv, Control, DiskInv, NEW t \in Threads, NEW n, n \in Uses(th[t]) \cup {0},
           files' = With(files, n, Partial), th' = [th EXCEPT ![t] = Idle],
           UNCHANGED <<segments, unwritten, pending_erase, flights, landed, manifest,
                       next_segment>>
    PROVE  DiskInv'
<1> DEFINE lost == {n}
<1>1. lost \subseteq Uses(th[t]) \cup {0} /\ \A m : m \notin lost /\ Opens(files, m) => Opens(files', m)
  BY WithOpens
<1>2. OnlyThread(t) /\ th'[t] = Idle
  BY BackToIdle DEF NumberInv, NumberTypes
<1>3. /\ th'[t].pend.number = 0 /\ th'[t].snap.number = 0 /\ th'[t].todo = <<>>
  BY <1>2, IdleShape
<1>4. Ready(files', th'[t], Clash)
  BY <1>2, IdleReady
<1> HIDE DEF lost
<1> QED BY <1>1, <1>2, <1>3, <1>4, WrittenDisk

LEMMA WriteSegFailsDisk ==
    ASSUME NumberInv, Control, DiskInv, NEW t \in Threads, WriteSegFails(t) PROVE DiskInv'
<1>1. th[t].pend.number # 0
  BY Carries DEF WriteSegFails, Carrying
<1>2. th[t].pend.number \in Uses(th[t])
  BY <1>1 DEF Uses
<1>3. /\ files' = With(files, th[t].pend.number, Partial) /\ th' = [th EXCEPT ![t] = Idle]
      /\ UNCHANGED <<segments, unwritten, pending_erase, flights, landed, manifest,
                     next_segment>>
  BY DEF WriteSegFails, Fail, lists, air
<1> QED BY <1>2, <1>3, FailedWriteDisk

LEMMA WriteFailsDisk ==
    ASSUME NumberInv, Control, DiskInv, NEW t \in Threads, NEW label,
           WriteFails(t, label, th[t].snap.number)
    PROVE  DiskInv'
<1>1. th[t].snap.number \in Uses(th[t]) \cup {0}
  BY DEF Uses
<1>2. /\ files' = With(files, th[t].snap.number, Partial) /\ th' = [th EXCEPT ![t] = Idle]
      /\ UNCHANGED <<segments, unwritten, pending_erase, flights, landed, manifest,
                     next_segment>>
  BY DEF WriteFails, Fail, lists, air
<1> QED BY <1>1, <1>2, FailedWriteDisk

\* Pending::write_alive: a bitmap is replaced, never the rows.
LEMMA WriteAliveDisk ==
    ASSUME NumberInv, Control, DiskInv, NEW t \in Threads, WriteAlive(t) PROVE DiskInv'
<1> DEFINE n == MinOf(th[t].queue)
           b == th[t].pend.alive[n]
           none == {}
<1>1. /\ Running(t, "writeAlive")
      /\ UNCHANGED <<segments, unwritten, pending_erase, flights, landed, manifest,
                     next_segment>>
      /\ files' = IF n \in DOMAIN files
                    THEN [files EXCEPT ![n].alive = b]
                    ELSE With(files, n, [complete |-> FALSE, rows |-> {}, alive |-> b])
  BY DEF WriteAlive, lists, air
<1>2. /\ OnlyThread(t) /\ th'[t].pend.number \in {th[t].pend.number, 0}
      /\ th'[t].snap = th[t].snap /\ th'[t].todo = th[t].todo
      /\ th'[t].prog = th[t].prog \/ th'[t].prog = Rest(t)
  BY IdleShape DEF NumberInv, NumberTypes, OnlyThread, WriteAlive, Rest
<1> HIDE DEF n, b
<1>3. ASSUME NEW m, Opens(files, m) PROVE Opens(files', m)
  <2>1. CASE n \in DOMAIN files
    BY <1>1, <1>3, <2>1, BitmapOpens
  <2>2. CASE n \notin DOMAIN files
    <3>1. m # n
      BY <1>3, <2>2 DEF Opens
    <3> QED BY <1>1, <1>3, <2>2, <3>1, WithOpens
  <2> QED BY <2>1, <2>2
<1>4. Plain(th'[t].prog)
  BY <1>1, <1>2, PlainNow, PlainRest DEF Needing
<1>5. Ready(files', th'[t], Clash)
  BY <1>1, <1>2, <1>4, ReadyNext DEF DiskInv
<1>6. none \subseteq Uses(th[t]) \cup {0} /\ \A m : m \notin none /\ Opens(files, m) => Opens(files', m)
  BY <1>3
<1> HIDE DEF none
<1> QED BY <1>1, <1>2, <1>5, <1>6, WrittenDisk

\* A copy comes whole before the step that counts on it.
LEMMA CopyReady ==
    ASSUME Control, Openings, NEW t \in Threads, NEW a, NEW b, Running(t, a),
           <<a, b>> \in {<<"writeSeg", "install">>, <<"writeOne", "adoptOne">>,
                         <<"foldWrite", "foldSwap">>},
           th'[t].prog = Rest(t), th'[t].pend = th[t].pend, th'[t].snap = th[t].snap,
           th'[t].durable = th[t].durable,
           NEW fs, NEW clash,
           b = "install" => Opens(fs, th[t].pend.number),
           b = "adoptOne" => Opens(fs, th[t].snap.number),
           b = "foldSwap" /\ th[t].durable /\ th[t].snap.rows # {}
              => Opens(fs, th[t].snap.number)
    PROVE  Ready(fs, th'[t], clash)
<1>1. \A l : At(th'[t].prog, l) => l = b
  BY LeadsTo
<1>2. b # "erase"
  OBVIOUS
<1>3. th'[t].snap.rows # {} => th'[t].snap.number # 0
  BY DEF Openings, Ready
<1>4. Copied(th'[t]) # {} => At(th'[t].prog, "writeOne") \/ At(th'[t].prog, "adoptOne")
  <2>1. SUFFICES ASSUME Copied(th[t]) # {}
                 PROVE  At(Rest(t), "writeOne") \/ At(Rest(t), "adoptOne")
    BY DEF Copied
  <2>2. Running(t, "writeOne") \/ Running(t, "adoptOne")
    BY <2>1, NoCopy
  <2>3. a = "writeOne" /\ b = "adoptOne"
    BY <2>2 DEF Running
  <2>4. Rest(t) \in Program /\ Rest(t) # <<>> /\ Fits("writeOne", Rest(t)[1])
    <3> DEFINE p == th[t].prog
    <3>1. p \in Program /\ Shape(p) /\ p # <<>> /\ p[1] = "writeOne"
      BY <2>3, Now
    <3> HIDE DEF p
    <3>2. Tail(p) \in Program /\ Tail(p) # <<>> /\ Fits("writeOne", Tail(p)[1])
      BY <3>1, ShapeOfTail DEF Leads
    <3> QED BY <3>2 DEF p, Rest
  <2>5. Rest(t)[1] = "adoptOne"
    BY <2>4 DEF Fits
  <2> QED BY <2>4, <2>5, FirstStep
<1> QED BY <1>1, <1>2, <1>3, <1>4 DEF Ready

LEMMA WholeDisk ==
    ASSUME NumberInv, Control, DiskInv, NEW t \in Threads,
           WriteSeg(t) \/ WriteUnwritten(t) \/ FoldWrite(t)
    PROVE  DiskInv'
<1>1. /\ OnlyThread(t) /\ th'[t].prog = Rest(t) /\ th'[t].pend = th[t].pend
      /\ th'[t].snap = th[t].snap /\ th'[t].todo = th[t].todo
      /\ th'[t].durable = th[t].durable
  BY IdleShape DEF NumberInv, NumberTypes, OnlyThread, WriteSeg, WriteUnwritten, FoldWrite, Goto
<1>2. UNCHANGED <<segments, unwritten, pending_erase, flights, landed, manifest, next_segment>>
  BY DEF WriteSeg, WriteUnwritten, FoldWrite, lists, air
<1>3. PICK n, rows, alive : \/ files' = files
                            \/ files' = With(files, n, Complete(rows, alive))
  BY DEF WriteSeg, WriteUnwritten, FoldWrite
<1>4. \A m : Opens(files, m) => Opens(files', m)
  BY <1>3, WithOpens
<1>5. Ready(files', th'[t], Clash)
  <2>1. CASE WriteSeg(t)
    <3>1. Running(t, "writeSeg") /\ Opens(files', th[t].pend.number)
      BY <2>1, WithOpens DEF WriteSeg
    <3> QED BY <1>1, <3>1, CopyReady DEF DiskInv
  <2>2. CASE WriteUnwritten(t)
    <3>1. Running(t, "writeOne") /\ Opens(files', th[t].snap.number)
      BY <2>2, WithOpens DEF WriteUnwritten
    <3> QED BY <1>1, <3>1, CopyReady DEF DiskInv
  <2>3. CASE FoldWrite(t)
    <3>1. /\ Running(t, "foldWrite")
          /\ th[t].durable /\ th[t].snap.rows # {} => Opens(files', th[t].snap.number)
      BY <2>3, WithOpens DEF FoldWrite
    <3> QED BY <1>1, <3>1, CopyReady DEF DiskInv
  <2> QED BY <2>1, <2>2, <2>3
<1> DEFINE none == {}
<1>6. none \subseteq Uses(th[t]) \cup {0} /\ \A m : m \notin none /\ Opens(files, m) => Opens(files', m)
  BY <1>4
<1> HIDE DEF none
<1> QED BY <1>1, <1>2, <1>5, <1>6, WrittenDisk

\* A fold that came too late takes its own file away.
LEMMA FoldRefusedDisk ==
    ASSUME NumberInv, Control, DiskInv, NEW t \in Threads, FoldRefused(t) PROVE DiskInv'
<1> DEFINE n == th[t].snap.number
           lost == {n}
<1>1. /\ Running(t, "foldSwap")
      /\ UNCHANGED <<segments, unwritten, pending_erase, flights, landed, manifest,
                     next_segment>>
      /\ files' = files \/ files' = Without(files, {n})
  BY DEF FoldRefused, lists, air
<1>2. /\ OnlyThread(t) /\ th'[t].prog = Rest(t) /\ th'[t].pend = th[t].pend
      /\ th'[t].snap = NoSnapshot /\ th'[t].todo = th[t].todo
  BY IdleShape DEF NumberInv, NumberTypes, OnlyThread, FoldRefused, Rest
<1>3. lost \subseteq Uses(th[t]) \cup {0} /\ \A m : m \notin lost /\ Opens(files, m) => Opens(files', m)
  BY <1>1 DEF Uses, Opens, Without
<1>4. Plain(th'[t].prog)
  BY <1>1, <1>2, PlainRest
<1>5. Ready(files', th'[t], Clash)
  BY <1>2, <1>4, NoSnapshotIs, ReadyPlain DEF Plain
<1>6. th'[t].snap.number = 0
  BY <1>2, NoSnapshotIs
<1> HIDE DEF lost
<1> QED BY <1>1, <1>2, <1>3, <1>5, <1>6, WrittenDisk

-----------------------------------------------------------------------------
\* The manifest, and what it lets go of.
LEMMA SaveDisk ==
    ASSUME NumberInv, Control, DiskInv, NEW t \in Threads, Save(t) PROVE DiskInv'
<1> DEFINE b == pending_erase # {}
           s == If(b, <<"erase">>)
<1>1. PICK l \in {"save", "saveIfDirty"} : Running(t, l)
  BY DEF Save
<1>2. /\ UNCHANGED <<segments, unwritten, pending_erase, flights, landed, files, next_segment>>
      /\ Named' = Written
  BY DEF Save, Named, ManifestOf, lists, air
<1>3. /\ OnlyThread(t) /\ th'[t].prog = s \o Rest(t)
      /\ th'[t].pend = th[t].pend \/ th'[t].pend.number = 0
      /\ th'[t].snap = th[t].snap /\ th'[t].todo = th[t].todo
  BY IdleShape DEF NumberInv, NumberTypes, OnlyThread, Save, Spent
<1>4. Written' = Written /\ Clash' = {}
  BY <1>2 DEF Written, Clash, DiskInv, Lists
<1>5. Lists'
  BY <1>2, <1>4 DEF DiskInv, Lists, Written
<1>6. Used'
  BY <1>2, <1>3, <1>4, UsedLess DEF DiskInv
<1>7. Air'
  <2>1. \A n \in DOMAIN flights : flights[n].landed =>
              /\ n \in DOMAIN flights' /\ flights'[n].landed
              /\ Opens(files, n) => Opens(files', n)
    BY <1>2
  <2>2. \A n \in DOMAIN flights' : "landed" \in DOMAIN flights'[n]
    BY <1>2 DEF DiskInv, Air
  <2> QED BY <1>2, <1>3, <2>1, <2>2, AirKept DEF DiskInv
<1>8. Openings'
  <2>1. \A n : Opens(files, n) => Opens(files', n)
    BY <1>2
  <2>2. \A n \in Written' \cup Named' : Opens(files', n)
    BY <1>2, <1>4 DEF DiskInv, Openings
  <2>3. s \in Program /\ \A k : At(s, k) => k = "erase"
    BY StepNames, FirstOfOne
  <2>4. Plain(Rest(t))
    BY <1>1, PlainRest
  <2> HIDE DEF s
  <2>5. \A k \in Needing : At(th'[t].prog, k) => k = "erase"
    BY <1>3, <2>3, <2>4, FirstOfBoth DEF Plain
  <2>6. ~Running(t, "writeOne") /\ ~Running(t, "adoptOne")
    BY <1>1 DEF Running
  <2>7. th'[t].snap.rows # {} => th'[t].snap.number # 0
    BY <1>3, <2>6, SnapKept DEF DiskInv
  <2>8. Copied(th'[t]) = {}
    BY <1>3, <2>6, SnapKept DEF DiskInv
  <2>9. Ready(files', th'[t], Clash')
    BY <1>4, <2>5, <2>7, <2>8 DEF Ready, Needing
  <2> QED BY <1>3, <1>4, <2>1, <2>2, <2>9, OpeningsLess DEF DiskInv
<1> QED BY <1>5, <1>6, <1>7, <1>8 DEF DiskInv

LEMMA EraseDisk ==
    ASSUME NumberInv, Control, DiskInv, NEW t \in Threads, Erase(t) PROVE DiskInv'
<1> DEFINE lost == pending_erase
<1>1. /\ Running(t, "erase") /\ pending_erase' = {} /\ files' = Without(files, pending_erase)
      /\ UNCHANGED <<segments, unwritten, flights, landed, manifest, next_segment>>
  BY DEF Erase, air
<1>2. /\ OnlyThread(t) /\ th'[t].prog = Rest(t) /\ th'[t].pend = th[t].pend
      /\ th'[t].snap = th[t].snap /\ th'[t].todo = th[t].todo
  <2>1. Goto(t, Rest(t))
    BY DEF Erase
  <2> QED BY <2>1, Went, GotoNumbers
<1>3. Written' = Written /\ Named' = Named /\ Clash' = {}
  BY <1>1 DEF Written, Named, Clash
<1>4. Clash = {}
  BY <1>1, RunningAt DEF DiskInv, Openings, Ready
<1>5. /\ lost \cap (Written \cup Named \cup DOMAIN flights) = {}
      /\ \A u \in Threads : lost \cap Uses(th[u]) = {}
  <2>1. lost \cap Named = {}
    BY <1>4 DEF Clash
  <2>2. lost \cap (Written \cup DOMAIN flights) = {}
    BY DEF DiskInv, Lists, Written
  <2>3. \A u \in Threads : lost \cap Uses(th[u]) = {}
    BY DEF DiskInv, Used
  <2> QED BY <2>1, <2>2, <2>3
<1>6. \A n : n \notin lost /\ Opens(files, n) => Opens(files', n)
  BY <1>1 DEF Opens, Without
<1> HIDE DEF lost
<1>7. Lists'
  BY <1>1, <1>3 DEF DiskInv, Lists
<1>8. Used'
  BY <1>1, <1>2, <1>3, UsedLess DEF DiskInv
<1>9. Air'
  <2>1. \A n \in DOMAIN flights : flights[n].landed =>
              /\ n \in DOMAIN flights' /\ flights'[n].landed
              /\ Opens(files, n) => Opens(files', n)
    BY <1>1, <1>5, <1>6
  <2>2. \A n \in DOMAIN flights' : "landed" \in DOMAIN flights'[n]
    BY <1>1 DEF DiskInv, Air
  <2> QED BY <1>1, <1>2, <2>1, <2>2, AirKept DEF DiskInv
<1>10. Openings'
  <2>1. \A n \in Written' \cup Named' : Opens(files', n)
    BY <1>3, <1>5, <1>6 DEF DiskInv, Openings
  <2>2. Plain(th'[t].prog)
    BY <1>1, <1>2, PlainRest
  <2>3. Ready(files', th'[t], Clash')
    BY <1>1, <1>2, <2>2, ReadyNext DEF DiskInv
  <2> QED BY <1>2, <1>3, <1>5, <1>6, <2>1, <2>3, OpeningsKept DEF DiskInv
<1> QED BY <1>7, <1>8, <1>9, <1>10 DEF DiskInv

-----------------------------------------------------------------------------
\* The segment a flush carried joins the list, written or in memory.
LEMMA ArrivesDisk ==
    ASSUME NumberInv, Control, DiskInv, NEW t \in Threads, NEW l \in Carrying, Running(t, l),
           NEW n, n = th[t].pend.number,
           DOMAIN segments' = DOMAIN segments \cup {n},
           next_segment' = MaxOf({next_segment, n + 1}),
           UNCHANGED <<pending_erase, flights, landed, files, manifest>>,
           \/ unwritten' = unwritten /\ Opens(files, n)
           \/ unwritten' = unwritten \cup {n},
           OnlyThread(t), th'[t].pend.number = 0, th'[t].snap = th[t].snap,
           th'[t].todo = th[t].todo, Plain(th'[t].prog)
    PROVE  DiskInv'
<1>1. n \in Nat /\ n # 0 /\ n < next_segment /\ next_segment' = next_segment
  BY HeldNumbers, MaxOfPast, Carries
<1>2. n \in Uses(th[t])
  BY <1>1 DEF Uses
<1>3. /\ n \notin Written \cup Named \cup DOMAIN flights \cup pending_erase
      /\ \A u \in Threads \ {t} : n \notin Uses(th[u])
      /\ th[t].snap.number # n
  BY <1>1, <1>2 DEF DiskInv, Used
<1>4. /\ Named' = Named /\ Clash' = Clash
      /\ Written' \subseteq Written \cup {n}
      /\ n \in Written' => Opens(files, n)
  BY DEF Written, Named, Clash, DiskInv, Lists
<1>5. Lists'
  BY <1>1, <1>3, <1>4 DEF DiskInv, Lists
<1>6. Used'
  <2> DEFINE fresh == {n}
  <2>1. \A u \in Threads : fresh \cap Uses(th'[u]) = {}
    BY <1>3 DEF Uses, OnlyThread
  <2>2. /\ Written' \subseteq Written \cup fresh
        /\ DOMAIN flights' \subseteq DOMAIN flights \cup fresh
        /\ Named' \subseteq Named \cup Written \cup fresh
        /\ pending_erase' \subseteq pending_erase \cup Written
    BY <1>4
  <2> HIDE DEF fresh
  <2> QED BY <1>1, <2>1, <2>2, UsedKept DEF DiskInv
<1>7. Air'
  BY AirKept DEF DiskInv, Air
<1>8. Openings'
  <2>1. \A m \in Written' \cup Named' : Opens(files', m)
    BY <1>4 DEF DiskInv, Openings
  <2>2. \A u \in Threads \ {t} : Running(u, "erase") => Clash' = {}
    BY <1>4, RunningAt DEF DiskInv, Openings, Ready
  <2>3. l \notin {"writeOne", "adoptOne"}
    BY DEF Carrying
  <2>4. Ready(files', th'[t], Clash')
    BY <2>3, ReadyNext DEF DiskInv
  <2> QED BY <2>1, <2>2, <2>4, OpeningsLess DEF DiskInv
<1> QED BY <1>5, <1>6, <1>7, <1>8 DEF DiskInv

LEMMA InstallDisk ==
    ASSUME NumberInv, Control, DiskInv, NEW t \in Threads, Install(t) PROVE DiskInv'
<1> DEFINE n == th[t].pend.number
<1>1. /\ Running(t, "install") /\ DOMAIN segments' = DOMAIN segments \cup {n}
      /\ next_segment' = MaxOf({next_segment, n + 1})
      /\ UNCHANGED <<unwritten, pending_erase, flights, landed, files, manifest>>
  BY DEF Install, With, air, disk
<1>2. /\ OnlyThread(t) /\ th'[t].prog = <<"save">> \o Rest(t) /\ th'[t].pend.number = 0
      /\ th'[t].snap = th[t].snap /\ th'[t].todo = th[t].todo
  BY IdleShape DEF NumberInv, NumberTypes, OnlyThread, Install, Rest
<1>3. Plain(th'[t].prog)
  <2>1. Plain(<<"save">>) /\ Plain(Rest(t))
    BY <1>1, StepNames, PlainOne, PlainRest DEF Needing
  <2> QED BY <1>2, <2>1, PlainBoth
<1>4. Opens(files, n)
  BY <1>1, RunningAt DEF DiskInv, Openings, Ready
<1> QED BY <1>1, <1>2, <1>3, <1>4, ArrivesDisk DEF Carrying

LEMMA PushDisk ==
    ASSUME NumberInv, Control, DiskInv, NEW t \in Threads, Push(t) PROVE DiskInv'
<1> DEFINE n == th[t].pend.number
<1>1. /\ Running(t, "push") /\ DOMAIN segments' = DOMAIN segments \cup {n}
      /\ next_segment' = MaxOf({next_segment, n + 1})
      /\ unwritten' = unwritten \cup {n}
      /\ UNCHANGED <<pending_erase, flights, landed, files, manifest>>
  BY DEF Push, With, air, disk
<1>2. /\ OnlyThread(t) /\ th'[t].prog = Rest(t) /\ th'[t].pend.number = 0
      /\ th'[t].snap = th[t].snap /\ th'[t].todo = th[t].todo
  BY IdleShape DEF NumberInv, NumberTypes, OnlyThread, Push, Rest
<1>3. Plain(th'[t].prog)
  BY <1>1, <1>2, PlainRest
<1> QED BY <1>1, <1>2, <1>3, ArrivesDisk DEF Carrying

\* The number goes to a builder.
LEMMA DispatchDisk ==
    ASSUME NumberInv, Control, DiskInv, NEW t \in Threads, Dispatch(t) PROVE DiskInv'
<1> DEFINE n    == th[t].pend.number
           full == Cardinality(DOMAIN flights) >= MaxBuilding
           two  == <<"writeSeg", "install">>
<1>1. /\ OnlyThread(t) /\ th'[t].snap = th[t].snap /\ th'[t].todo = th[t].todo
      /\ th'[t].pend = IF full THEN th[t].pend ELSE EmptyPending
      /\ th'[t].prog = If(full, two) \o Rest(t)
  BY IdleShape DEF NumberInv, NumberTypes, OnlyThread, Dispatch, Rest
<1>2. /\ Running(t, "dispatch")
      /\ UNCHANGED <<segments, unwritten, pending_erase, landed, files, manifest, next_segment>>
      /\ full => flights' = flights
      /\ ~full => \E rows, gen : flights' = With(flights, n,
              [rows |-> rows, generation |-> gen, doomed |-> {}, gone |-> {},
               landed |-> FALSE])
  BY DEF Dispatch, lists, disk
<1>3. n \in Nat /\ n # 0 /\ n < next_segment
  BY <1>2, HeldNumbers, Carries DEF Carrying
<1>4. Plain(two)
  <2>1. two \in Program
    BY StepNames DEF Program
  <2> QED BY <2>1 DEF Plain, At, Needing
<1> HIDE DEF full, two, n
<1>5. Plain(th'[t].prog)
  <2>1. CASE full
    BY <1>1, <1>2, <1>4, <2>1, PlainRest, PlainBoth DEF If
  <2>2. CASE ~full
    BY <1>1, <1>2, <2>2, PlainNone, PlainRest, PlainBoth DEF If
  <2> QED BY <2>1, <2>2
<1>6. CASE full
  <2>1. ~Running(t, "writeOne") /\ ~Running(t, "adoptOne")
    BY <1>2 DEF Running
  <2> QED BY <1>1, <1>2, <1>5, <1>6, <2>1, PlainlyDisk
<1>7. CASE ~full
  <2>1. n \in Uses(th[t])
    BY <1>3 DEF Uses, n
  <2>2. /\ n \notin Written \cup Named \cup DOMAIN flights \cup pending_erase
        /\ \A u \in Threads \ {t} : n \notin Uses(th[u])
        /\ th[t].snap.number # n
    BY <1>3, <2>1 DEF DiskInv, Used, n
  <2>3. /\ DOMAIN flights' = DOMAIN flights \cup {n}
        /\ \A m \in DOMAIN flights : m # n => flights'[m] = flights[m]
        /\ "landed" \in DOMAIN flights'[n]
    BY <1>2, <1>7 DEF With
  <2>4. Written' = Written /\ Named' = Named /\ Clash' = Clash
    BY <1>2 DEF Written, Named, Clash
  <2>5. th'[t].pend.number = 0
    BY <1>1, <1>7, IdleShape
  <2>6. Lists'
    BY <1>2, <1>3, <2>2, <2>3, <2>4 DEF DiskInv, Lists
  <2>7. Used'
    <3> DEFINE fresh == {n}
    <3>1. \A u \in Threads : fresh \cap Uses(th'[u]) = {}
      BY <1>1, <2>2, <2>5 DEF Uses, OnlyThread
    <3>2. /\ Written' \subseteq Written \cup fresh
          /\ DOMAIN flights' \subseteq DOMAIN flights \cup fresh
          /\ Named' \subseteq Named \cup Written \cup fresh
          /\ pending_erase' \subseteq pending_erase \cup Written
      BY <1>2, <2>3, <2>4
    <3> HIDE DEF fresh
    <3> QED BY <1>1, <1>2, <2>5, <3>1, <3>2, UsedKept DEF DiskInv
  <2>8. Air'
    <3>1. \A m \in DOMAIN flights : flights[m].landed =>
              /\ m \in DOMAIN flights' /\ flights'[m].landed
              /\ Opens(files, m) => Opens(files', m)
      BY <1>2, <2>2, <2>3
    <3>2. \A m \in DOMAIN flights' : "landed" \in DOMAIN flights'[m]
      BY <2>3 DEF DiskInv, Air
    <3> QED BY <1>1, <1>2, <3>1, <3>2, AirKept DEF DiskInv
  <2>9. Openings'
    <3>1. \A m \in Written' \cup Named' : Opens(files', m)
      BY <1>2, <2>4 DEF DiskInv, Openings
    <3>2. \A u \in Threads \ {t} : Running(u, "erase") => Clash' = {}
      BY <2>4, RunningAt DEF DiskInv, Openings, Ready
    <3>3. Ready(files', th'[t], Clash')
      BY <1>1, <1>2, <1>5, ReadyNext DEF DiskInv
    <3>4. \A m : Opens(files, m) => Opens(files', m)
      BY <1>2
    <3> QED BY <1>1, <3>1, <3>2, <3>3, <3>4, OpeningsLess DEF DiskInv
  <2> QED BY <2>6, <2>7, <2>8, <2>9 DEF DiskInv
<1> QED BY <1>6, <1>7

-----------------------------------------------------------------------------
\* persist_unwritten, one segment at a time.
LEMMA FirstOfSome ==
    ASSUME NEW p \in Program, NEW q \in Program, p # <<>>, NEW l
    PROVE  p \o q \in Program /\ (At(p \o q, l) <=> p[1] = l)
<1>1. Len(p) \in Nat /\ Len(p) > 0 /\ Len(q) \in Nat
  BY SomeSteps
<1>2. p \o q \in Program /\ Len(p \o q) = Len(p) + Len(q)
  BY DEF Program
<1>3. (p \o q)[1] = p[1]
  BY <1>1 DEF Program
<1>4. p \o q # <<>>
  BY <1>1, <1>2, SomeSteps
<1> QED BY <1>2, <1>3, <1>4, FirstStep

\* The only thread copying a segment is the one that holds `persisting'.
LEMMA CopiesAlone ==
    ASSUME Control, Openings, NEW t \in Threads, NEW l \in Within, Running(t, l),
           NEW u \in Threads \ {t}
    PROVE  Copied(th[u]) = {}
<1>1. persisting = t
  BY Persists
<1>2. Running(u, "writeOne") \/ Running(u, "adoptOne") => persisting = u
  BY Persists DEF Within
<1> QED BY <1>1, <1>2, NoCopy

LEMMA WriteUnwrittenReadDisk ==
    ASSUME NumberInv, Control, DiskInv, NEW t \in Threads, WriteUnwrittenRead(t)
    PROVE  DiskInv'
<1> DEFINE todo == IF th[t].folded THEN {} ELSE th[t].queue
           n    == MinOf(todo)
           due  == n \in DOMAIN segments /\ n \in unwritten
           two  == <<"writeOne", "adoptOne">>
           copy == [number |-> n, generation |-> segments[n].generation,
                    rows |-> segments[n].rows, alive |-> [m \in {n} |-> segments[n].alive]]
<1>1. /\ Running(t, "writeEach")
      /\ UNCHANGED <<segments, unwritten, pending_erase, flights, landed, files, manifest,
                     next_segment>>
  BY DEF WriteUnwrittenRead, lists, air, disk
<1>2. /\ OnlyThread(t) /\ th'[t].pend = th[t].pend /\ th'[t].todo = th[t].todo
      /\ \/ /\ th'[t].snap = th[t].snap
            /\ th'[t].prog = Rest(t) \/ th'[t].prog = If(FALSE, two) \o th[t].prog
         \/ due /\ th'[t].snap = copy /\ th'[t].prog = two \o th[t].prog
  <2>1. CASE todo = {}
    <3>1. th' = [th EXCEPT ![t].prog = Tail(@), ![t].queue = {}, ![t].group = {},
                           ![t].folded = TRUE]
      BY <2>1 DEF WriteUnwrittenRead
    <3> QED BY <3>1, IdleShape DEF NumberInv, NumberTypes, OnlyThread, Rest
  <2>2. CASE todo # {}
    <3>1. th' = [th EXCEPT ![t].queue = @ \ {n}, ![t].prog = If(due, two) \o @,
                           ![t].snap = IF ~due THEN @ ELSE copy]
      BY <2>2 DEF WriteUnwrittenRead
    <3>2. due \in BOOLEAN
      OBVIOUS
    <3> HIDE DEF n, due, copy, two
    <3>3. /\ OnlyThread(t) /\ th'[t].pend = th[t].pend /\ th'[t].todo = th[t].todo
          /\ th'[t].snap = IF ~due THEN th[t].snap ELSE copy
          /\ th'[t].prog = If(due, two) \o th[t].prog
      BY <3>1, IdleShape DEF NumberInv, NumberTypes, OnlyThread
    <3>4. CASE due
      BY <3>3, <3>4 DEF If
    <3>5. CASE ~due
      BY <3>3, <3>5 DEF If
    <3> QED BY <3>4, <3>5
  <2> QED BY <2>1, <2>2
<1>3. two \in Program /\ two # <<>> /\ two[1] = "writeOne"
  BY StepNames DEF Program
<1>4. due => n \in DOMAIN segments /\ n \in unwritten
  OBVIOUS
<1>5. copy.number = n /\ DOMAIN copy.alive = {n}
  OBVIOUS
<1> HIDE DEF n, due, copy, two
<1>6. CASE /\ th'[t].snap = th[t].snap
           /\ th'[t].prog = Rest(t) \/ th'[t].prog = If(FALSE, two) \o th[t].prog
  <2>1. If(FALSE, two) = <<>>
    BY DEF If
  <2>2. Plain(th'[t].prog)
    BY <1>1, <1>6, <2>1, PlainNone, PlainNow, PlainRest, PlainBoth DEF Needing
  <2>3. ~Running(t, "writeOne") /\ ~Running(t, "adoptOne")
    BY <1>1 DEF Running
  <2> QED BY <1>1, <1>2, <1>6, <2>2, <2>3, PlainlyDisk
<1>7. CASE due /\ th'[t].snap = copy /\ th'[t].prog = two \o th[t].prog
  <2>1. /\ n \in Nat /\ n # 0 /\ n < next_segment
        /\ n \notin Written \cup Named \cup DOMAIN flights \cup pending_erase
    BY <1>4, <1>7 DEF NumberInv, NumbersBelow, NoSharedNumber, DiskInv, Lists, Written
  <2>2. \A u \in Threads : n \notin ClaimsOf(th[u])
    BY <1>4, <1>7 DEF NumberInv, NoSharedNumber
  <2>3. th[t].pend.number # n
    BY <2>1, <2>2 DEF ClaimsOf
  <2>4. \A u \in Threads \ {t} : n \notin Uses(th[u])
    <3>1. \A u \in Threads \ {t} : Copied(th[u]) = {}
      BY <1>1, CopiesAlone DEF Within, DiskInv
    <3> QED BY <2>2, <3>1, UsesAre
  <2>5. Uses(th'[t]) \subseteq Uses(th[t]) \cup {n}
    BY <1>2, <1>5, <1>7 DEF Uses
  <2>6. Written' = Written /\ Named' = Named /\ Clash' = Clash
    BY <1>1 DEF Written, Named, Clash
  <2>7. Lists'
    BY <1>1, <2>6 DEF DiskInv, Lists
  <2>8. Used'
    <3>1. \A u \in Threads \ {t} : th'[u] = th[u]
      BY <1>2 DEF OnlyThread
    <3>2. \A u \in Threads : th'[u].pend.number = th'[u].snap.number => th'[u].pend.number = 0
      BY <1>2, <1>5, <1>7, <2>3, <3>1 DEF DiskInv, Used
    <3>3. \A u, v \in Threads : u # v => Uses(th'[u]) \cap Uses(th'[v]) = {}
      BY <2>4, <2>5, <3>1 DEF DiskInv, Used
    <3>4. ASSUME NEW u \in Threads, NEW m \in Uses(th'[u])
          PROVE  /\ m < next_segment'
                 /\ m \notin Written' \cup Named' \cup DOMAIN flights' \cup pending_erase'
      <4>1. m \in Uses(th[u]) \/ m = n
        BY <2>5, <3>1, <3>4
      <4> QED BY <1>1, <2>1, <2>6, <4>1 DEF DiskInv, Used
    <3> QED BY <3>2, <3>3, <3>4 DEF Used
  <2>9. Air'
    BY <1>1, <1>2, AirKept DEF DiskInv, Air
  <2>10. Openings'
    <3>1. th[t].prog \in Program
      BY <1>1, Now
    <3>2. \A l : At(th'[t].prog, l) <=> l = "writeOne"
      BY <1>3, <1>7, <3>1, FirstOfSome
    <3>3. Ready(files', th'[t], Clash')
      BY <1>5, <1>7, <2>1, <3>2 DEF Ready
    <3>4. \A u \in Threads \ {t} : Running(u, "erase") => Clash' = {}
      BY <2>6, RunningAt DEF DiskInv, Openings, Ready
    <3>5. \A m \in Written' \cup Named' : Opens(files', m)
      BY <1>1, <2>6 DEF DiskInv, Openings
    <3>6. \A m : Opens(files, m) => Opens(files', m)
      BY <1>1
    <3> QED BY <1>2, <3>3, <3>4, <3>5, <3>6, OpeningsLess DEF DiskInv
  <2> QED BY <2>7, <2>8, <2>9, <2>10 DEF DiskInv
<1> QED BY <1>2, <1>6, <1>7

LEMMA AdoptWrittenDisk ==
    ASSUME NumberInv, Control, DiskInv, NEW t \in Threads, AdoptWritten(t) PROVE DiskInv'
<1> DEFINE n == th[t].snap.number
<1>1. /\ Running(t, "adoptOne") /\ unwritten' = unwritten \ {n}
      /\ UNCHANGED <<segments, pending_erase, flights, landed, manifest, next_segment>>
      /\ n \in DOMAIN segments => files' = files
      /\ n \notin DOMAIN segments => files' = Without(files, {n})
  BY DEF AdoptWritten, air
<1>2. /\ OnlyThread(t) /\ th'[t].prog = Rest(t) /\ th'[t].pend = th[t].pend
      /\ th'[t].snap = NoSnapshot /\ th'[t].todo = th[t].todo
  BY IdleShape DEF NumberInv, NumberTypes, OnlyThread, AdoptWritten, Rest
<1>3. \A fs, clash : Ready(fs, th'[t], clash)
  <2>1. Plain(th'[t].prog)
    BY <1>1, <1>2, PlainRest
  <2> QED BY <1>2, <2>1, NoSnapshotIs, ReadyPlain DEF Plain
<1>4. th'[t].snap.number = 0
  BY <1>2, NoSnapshotIs
<1>5. n \in Uses(th[t]) \cup {0}
  BY DEF Uses
<1> HIDE DEF n
<1>6. CASE n \notin DOMAIN segments
  <2> DEFINE lost == {n}
  <2>1. /\ lost \subseteq Uses(th[t]) \cup {0}
        /\ \A m : m \notin lost /\ Opens(files, m) => Opens(files', m)
    BY <1>1, <1>5, <1>6 DEF Opens, Without
  <2>2. unwritten' = unwritten
    BY <1>1, <1>6 DEF DiskInv, Lists
  <2> HIDE DEF lost
  <2> QED BY <1>1, <1>2, <1>3, <1>4, <2>1, <2>2, WrittenDisk
<1>7. CASE n \in DOMAIN segments
  <2>1. n # 0 /\ n \in Uses(th[t])
    BY <1>5, <1>7 DEF DiskInv, Lists
  <2>2. Opens(files, n)
    BY <1>1, <2>1, RunningAt DEF DiskInv, Openings, Ready, n
  <2>3. /\ \A u \in Threads \ {t} : n \notin Uses(th[u])
        /\ th[t].pend.number # n
    BY <2>1 DEF DiskInv, Used, n
  <2>4. /\ Written' \subseteq Written \cup {n} /\ Named' = Named /\ Clash' = Clash
    BY <1>1 DEF Written, Named, Clash
  <2>5. Lists'
    BY <1>1, <2>4 DEF DiskInv, Lists
  <2>6. Used'
    <3> DEFINE fresh == {n}
    <3>1. \A u \in Threads : fresh \cap Uses(th'[u]) = {}
      BY <1>2, <1>4, <2>1, <2>3 DEF Uses, OnlyThread
    <3>2. /\ Written' \subseteq Written \cup fresh
          /\ DOMAIN flights' \subseteq DOMAIN flights \cup fresh
          /\ Named' \subseteq Named \cup Written \cup fresh
          /\ pending_erase' \subseteq pending_erase \cup Written
      BY <1>1, <2>4
    <3> HIDE DEF fresh
    <3> QED BY <1>1, <1>2, <1>4, <3>1, <3>2, UsedKept DEF DiskInv
  <2>7. Air'
    BY <1>1, <1>2, <1>7, AirKept DEF DiskInv, Air
  <2>8. Openings'
    <3>1. \A m \in Written' \cup Named' : Opens(files', m)
      BY <1>1, <1>7, <2>2, <2>4 DEF DiskInv, Openings
    <3>2. \A u \in Threads \ {t} : Running(u, "erase") => Clash' = {}
      BY <2>4, RunningAt DEF DiskInv, Openings, Ready
    <3>3. \A m : Opens(files, m) => Opens(files', m)
      BY <1>1, <1>7
    <3> QED BY <1>2, <1>3, <3>1, <3>2, <3>3, OpeningsLess DEF DiskInv
  <2> QED BY <2>5, <2>6, <2>7, <2>8 DEF DiskInv
<1> QED BY <1>6, <1>7

-----------------------------------------------------------------------------
\* fold_to.
LEMMA FoldReadDisk ==
    ASSUME NumberInv, Control, DiskInv, NEW t \in Threads, FoldRead(t) PROVE DiskInv'
<1> DEFINE here == th[t].group \cap DOMAIN segments
           off == /\ Cardinality(here) < 2
                  /\ \A n \in here : segments[n].alive = segments[n].rows
           made == [number |-> next_segment,
                    generation |-> MaxOf({segments[n].generation : n \in here}),
                    rows |-> UNION {segments[n].alive : n \in here},
                    alive |-> [n \in here |-> segments[n].alive]]
<1>1. /\ Running(t, "foldRead") /\ next_segment' = next_segment + 1
      /\ UNCHANGED <<segments, unwritten, pending_erase, flights, landed, files, manifest>>
  BY DEF FoldRead, ClaimedNext, lists, air, disk
<1>2. /\ OnlyThread(t) /\ th'[t].pend = th[t].pend /\ th'[t].todo = th[t].todo
      /\ \/ th'[t].prog = Drop(th[t].prog, 3) /\ th'[t].snap = th[t].snap
         \/ th'[t].prog = Rest(t) /\ th'[t].snap = made
  <2>1. th' = [th EXCEPT ![t].prog = IF off THEN Drop(@, 3) ELSE Tail(@),
                         ![t].snap = IF off THEN @ ELSE made]
    BY DEF FoldRead
  <2> HIDE DEF off, made, here
  <2>2. CASE off
    BY <2>1, <2>2, IdleShape DEF NumberInv, NumberTypes, OnlyThread
  <2>3. CASE ~off
    BY <2>1, <2>3, IdleShape DEF NumberInv, NumberTypes, OnlyThread, Rest
  <2> QED BY <2>2, <2>3
<1>3. /\ made.number = next_segment /\ DOMAIN made.alive \subseteq DOMAIN segments
  OBVIOUS
<1> HIDE DEF off, made, here
<1>4. Written' = Written /\ Named' = Named /\ Clash' = Clash
  BY <1>1 DEF Written, Named, Clash
<1>5. next_segment \in Nat /\ next_segment # 0 /\ next_segment \notin DOMAIN segments
  BY HeldNumbers DEF NumberInv, NumbersBelow
<1>6. Lists'
  BY <1>1, <1>4, <1>5 DEF DiskInv, Lists
<1>7. Air'
  BY <1>1, <1>2, AirKept DEF DiskInv, Air
<1>8. ~Running(t, "writeOne") /\ ~Running(t, "adoptOne")
  BY <1>1 DEF Running
<1>9. Used' /\ Ready(files', th'[t], Clash')
  <2>1. CASE th'[t].prog = Drop(th[t].prog, 3) /\ th'[t].snap = th[t].snap
    <3>1. Used'
      BY <1>1, <1>2, <1>4, <2>1, UsedLess DEF DiskInv
    <3>2. Plain(th'[t].prog)
      BY <1>1, <2>1, PlainPast
    <3>3. Ready(files', th'[t], Clash')
      BY <1>1, <2>1, <3>2, ReadyNext DEF DiskInv
    <3> QED BY <3>1, <3>3
  <2>2. CASE th'[t].prog = Rest(t) /\ th'[t].snap = made
    <3>1. Uses(th'[t]) \subseteq Uses(th[t]) \cup {next_segment}
      BY <1>2, <1>3, <2>2 DEF Uses
    <3>2. th'[t].pend.number # th'[t].snap.number
      <4>1. th[t].pend.number < next_segment
        BY HeldNumbers
      <4> QED BY <1>2, <1>3, <1>5, <2>2, <4>1
    <3>3. Used'
      BY <1>1, <1>2, <1>4, <3>1, <3>2, UsedFresh DEF DiskInv
    <3>4. \A l : At(th'[t].prog, l) => l = "foldWrite"
      BY <1>1, <2>2, LeadsTo
    <3>5. Copied(th'[t]) = {}
      BY <1>3, <1>5, <2>2 DEF Copied
    <3>6. Ready(files', th'[t], Clash')
      BY <1>3, <1>5, <2>2, <3>4, <3>5, ReadyPlain DEF Needing
    <3> QED BY <3>3, <3>6
  <2> QED BY <1>2, <2>1, <2>2
<1>10. Openings'
  <2>1. \A m \in Written' \cup Named' : Opens(files', m)
    BY <1>1, <1>4 DEF DiskInv, Openings
  <2>2. \A u \in Threads \ {t} : Running(u, "erase") => Clash' = {}
    BY <1>4, RunningAt DEF DiskInv, Openings, Ready
  <2>3. \A m : Opens(files, m) => Opens(files', m)
    BY <1>1
  <2> QED BY <1>2, <1>9, <2>1, <2>2, <2>3, OpeningsLess DEF DiskInv
<1> QED BY <1>6, <1>7, <1>9, <1>10 DEF DiskInv

\* The segment made joins the list, and those it was made of wait to be erased.
LEMMA FoldSwapDisk ==
    ASSUME NumberInv, Control, DiskInv, NEW t \in Threads, FoldSwap(t) PROVE DiskInv'
<1> DEFINE s == th[t].snap
           n == s.number
           g == th[t].group
           made == IF s.rows = {} THEN {} ELSE {n}
           kept == IF th[t].durable THEN {} ELSE made
           two == <<"saveIfDirty", "unlock">>
<1>1. /\ Running(t, "foldSwap") /\ lock = NoThread
      /\ DOMAIN segments' = (DOMAIN segments \ g) \cup made
      /\ unwritten' = (unwritten \ g) \cup kept
      /\ next_segment' = MaxOf({next_segment, n + 1})
      /\ pending_erase' = pending_erase \cup (g \ unwritten)
      /\ UNCHANGED <<flights, landed, files, manifest>>
  BY DEF FoldSwap, UnwrittenAfter, air, disk
<1>2. /\ OnlyThread(t) /\ th'[t].prog = two \o Rest(t) /\ th'[t].pend = th[t].pend
      /\ th'[t].snap = NoSnapshot /\ th'[t].todo = th[t].todo
  BY IdleShape DEF NumberInv, NumberTypes, OnlyThread, FoldSwap, Rest
<1>3. DOMAIN s.alive = g /\ g \subseteq DOMAIN segments
  BY DEF FoldSwap, FoldCurrent
<1>4. Plain(th'[t].prog)
  <2>1. two \in Program
    BY StepNames DEF Program
  <2>2. Plain(two)
    BY <2>1 DEF Plain, At, Needing
  <2> HIDE DEF two
  <2> QED BY <1>1, <1>2, <2>2, PlainRest, PlainBoth
<1> HIDE DEF two
<1>5. n = 0 \/ n \in Uses(th[t])
  BY DEF Uses
<1>6. n \in Nat /\ n < next_segment /\ next_segment' = next_segment
  <2>1. n \in Nat /\ next_segment \in Nat /\ next_segment # 0
    BY HeldNumbers
  <2>2. n < next_segment
    BY <1>5, <2>1 DEF DiskInv, Used
  <2> QED BY <1>1, <2>1, <2>2, MaxOfPast
<1>7. /\ made \subseteq {n} /\ made \subseteq Uses(th[t])
      /\ made \cap DOMAIN segments = {}
  <2>1. made # {} => n # 0
    BY DEF DiskInv, Openings, Ready
  <2>2. n \in DOMAIN s.alive => n = 0
    <3>1. ~Running(t, "writeOne") /\ ~Running(t, "adoptOne")
      BY <1>1 DEF Running
    <3>2. Copied(th[t]) = {}
      BY <3>1, NoCopy DEF DiskInv
    <3> QED BY <3>2 DEF Copied
  <2>3. n # 0 => n \in ClaimsOf(th[t])
    BY <2>2 DEF ClaimsOf
  <2>4. n # 0 => n \notin DOMAIN segments
    BY <2>3 DEF NumberInv, NoSharedNumber
  <2> QED BY <1>5, <2>1, <2>4
<1>8. made # {} /\ th[t].durable => Opens(files, n)
  BY <1>1, RunningAt DEF DiskInv, Openings, Ready
<1>9. kept \subseteq made /\ (made = kept \/ th[t].durable)
  OBVIOUS
<1> HIDE DEF made, kept, s, n, g
<1>10. /\ made \cap (Written \cup Named \cup DOMAIN flights \cup pending_erase) = {}
       /\ \A u \in Threads \ {t} : made \cap Uses(th[u]) = {}
       /\ th[t].pend.number \notin made
  <2>1. 0 \notin made
    BY <1>7 DEF Uses
  <2>2. n \in made => th[t].pend.number # n
    BY <2>1 DEF DiskInv, Used, n, s
  <2> QED BY <1>7, <2>1, <2>2 DEF DiskInv, Used
<1>11. /\ Named' = Named /\ Written' \subseteq Written \cup (made \ kept)
       /\ g \ unwritten \subseteq Written
  BY <1>1, <1>3 DEF Named, Written
<1>12. Lists'
  <2>1. /\ 0 \notin DOMAIN segments' \cup DOMAIN flights' \cup Named'
        /\ unwritten' \subseteq DOMAIN segments' /\ Named' \cap unwritten' = {}
    BY <1>1, <1>7, <1>9, <1>10, <1>11 DEF DiskInv, Lists, Uses
  <2>2. pending_erase' \cap (DOMAIN segments' \cup DOMAIN flights') = {}
    <3>1. DOMAIN flights \cap DOMAIN segments = {}
      BY DEF NumberInv, NoSharedNumber, DiskInv, Lists
    <3> QED BY <1>1, <1>3, <1>7, <1>10, <3>1 DEF DiskInv, Lists
  <2>3. \A m \in pending_erase' : m \in Nat \ {0} /\ m < next_segment'
    BY <1>1, <1>3, <1>6 DEF DiskInv, Lists, NumberInv, NumbersBelow
  <2> QED BY <2>1, <2>2, <2>3 DEF Lists
<1>13. th'[t].snap.number = 0
  BY <1>2, NoSnapshotIs
<1>14. Used'
  <2>1. \A u \in Threads : made \cap Uses(th'[u]) = {}
    BY <1>2, <1>10, <1>13 DEF Uses, OnlyThread
  <2>2. /\ Written' \subseteq Written \cup made
        /\ DOMAIN flights' \subseteq DOMAIN flights \cup made
        /\ Named' \subseteq Named \cup Written \cup made
        /\ pending_erase' \subseteq pending_erase \cup Written
    BY <1>1, <1>11
  <2> QED BY <1>2, <1>6, <1>13, <2>1, <2>2, UsedKept DEF DiskInv
<1>15. Air'
  BY <1>1, <1>2, AirKept DEF DiskInv, Air
<1>16. Openings'
  <2>1. \A m \in Written' \cup Named' : Opens(files', m)
    BY <1>1, <1>7, <1>8, <1>9, <1>11 DEF DiskInv, Openings
  <2>2. \A u \in Threads \ {t} : Running(u, "erase") => Clash' = {}
    BY <1>1, ErasesAlone
  <2>3. Ready(files', th'[t], Clash')
    BY <1>2, <1>4, NoSnapshotIs, ReadyPlain DEF Plain
  <2>4. \A m : Opens(files, m) => Opens(files', m)
    BY <1>1
  <2> QED BY <1>2, <2>1, <2>2, <2>3, <2>4, OpeningsLess DEF DiskInv
<1> QED BY <1>12, <1>14, <1>15, <1>16 DEF DiskInv

-----------------------------------------------------------------------------
\* A crash leaves what the manifest names, and nobody in the middle of anything.
LEMMA FreshDisk ==
    ASSUME UNCHANGED manifest, DOMAIN segments' = Named, unwritten' = {}, pending_erase' = {},
           flights' = <<>>, landed' = <<>>, \A t \in Threads : th'[t] = Idle,
           \A n \in Named : Opens(files', n), 0 \notin Named
    PROVE  DiskInv'
<1>1. Named' = Named /\ Written' = Named /\ Clash' = {} /\ DOMAIN flights' = {}
  BY DEF Named, Written, Clash
<1>2. \A t \in Threads : /\ th'[t].pend.number = 0 /\ th'[t].snap.number = 0
                         /\ th'[t].todo = <<>> /\ Uses(th'[t]) = {}
  BY IdleShape DEF Uses
<1>3. Lists'
  BY <1>1 DEF Lists
<1>4. Used'
  BY <1>2 DEF Used
<1>5. Air'
  BY <1>1, <1>2 DEF Air, Apart, InAir, Numbers
<1>6. \A t \in Threads : Ready(files', th'[t], Clash')
  BY IdleReady
<1>7. Openings'
  BY <1>1, <1>6 DEF Openings
<1> QED BY <1>3, <1>4, <1>5, <1>7 DEF DiskInv

LEMMA CrashDisk ==
    ASSUME NumberInv, Control, DiskInv, Crash PROVE DiskInv'
<1>1. /\ UNCHANGED manifest /\ DOMAIN segments' = Named /\ unwritten' = {} /\ pending_erase' = {}
      /\ flights' = <<>> /\ landed' = <<>> /\ \A t \in Threads : th'[t] = Idle
  BY DEF Crash
<1>2. \A n \in Named : Opens(files', n)
  BY DEF Crash, Without, Orphans, DiskInv, Openings, Opens
<1>3. 0 \notin Named
  BY DEF DiskInv, Lists
<1> QED BY <1>1, <1>2, <1>3, FreshDisk

LEMMA InitDisk == Init => DiskInv
<1> SUFFICES ASSUME Init PROVE DiskInv
  OBVIOUS
<1>1. /\ DOMAIN segments = {} /\ DOMAIN flights = {} /\ Named = {} /\ Written = {} /\ Clash = {}
      /\ pending_erase = {} /\ unwritten = {} /\ landed = <<>>
      /\ \A t \in Threads : th[t] = Idle
  BY DEF Init, Named, Written, Clash
<1>2. \A t \in Threads : /\ th[t].pend.number = 0 /\ th[t].snap = NoSnapshot
                         /\ th[t].snap.number = 0
                         /\ th[t].todo = <<>> /\ Uses(th[t]) = {} /\ th[t].prog = <<>>
  BY <1>1, IdleShape DEF Uses, Idle
<1>3. Lists
  BY <1>1 DEF Lists
<1>4. Used
  BY <1>2 DEF Used
<1>5. Air
  BY <1>1, <1>2 DEF Air, Apart, InAir, Numbers
<1>6. \A t \in Threads : Ready(files, th[t], Clash)
  BY <1>2, AtNone, NoSnapshotIs, ReadyPlain
<1>7. Openings
  BY <1>1, <1>6 DEF Openings
<1> QED BY <1>3, <1>4, <1>5, <1>7 DEF DiskInv

LEMMA StepDisk ==
    ASSUME NumberInv, Control, DiskInv, NEW t \in Threads, Step(t) PROVE DiskInv'
BY PlainDisk, CollectStepDisk, LandBuiltDisk, LandFailedDisk, SaveDisk, EraseDisk, PrepareDisk,
   WriteAliveDisk, WholeDisk, InstallDisk, PushDisk, DispatchDisk, SweepDisk, ForgetKillDisk,
   ForgetEmptyDisk, PersistGroupDisk, WriteUnwrittenReadDisk, AdoptWrittenDisk, TakeDirtyDisk,
   FoldCheckDisk, FoldReadDisk, FoldSwapDisk, FoldRefusedDisk, FoldEachDisk, NextHeadDisk,
   HeldRowsDisk
   DEF Step

LEMMA StepFailsDisk ==
    ASSUME NumberInv, Control, DiskInv, NEW t \in Threads, StepFails(t) PROVE DiskInv'
BY PlainDisk, LandBuiltFailsDisk, WriteSegFailsDisk, WriteFailsDisk DEF StepFails

LEMMA NextDisk ==
    ASSUME NumberInv, Control, DiskInv, [Next]_vars PROVE DiskInv'
<1>1. ASSUME NEW t \in Threads, Step(t) \/ StepFails(t) \/ Call(t) PROVE DiskInv'
  BY <1>1, StepDisk, StepFailsDisk, CallDisk
<1>2. CASE UNCHANGED vars
  BY <1>2, StillDisk DEF vars, lists, air, disk
<1>3. CASE AtRest
  BY <1>2, <1>3 DEF AtRest
<1> QED BY <1>1, <1>2, <1>3, BuilderDisk, CrashDisk DEF Next

\* At every instant the directory agrees with what the index and its callers
\* believe of it: what the list calls written and what the manifest names has all
\* its files; nobody writes under a number that is on the disk, in a builder's
\* hands or waiting to be erased; a landed build is in one place; and a step that
\* counts on an earlier write finds it (Inner::save_meta, Live::write,
\* Index::collect_finished, index.rs).
THEOREM DiskAlways == Spec => []DiskInv
<1> QED BY NumberInvariant, ControlAlways, InitDisk, NextDisk, PTL DEF Spec

\* Whatever step a crash or a failed write falls after, and however many threads
\* commit, persist, fold and collect at once, the manifest names only segments
\* whose files are all there, so open_or_create finds an index it can open.
THEOREM ManifestReopens == Spec => []Reopenable
<1>1. DiskInv => Reopenable
  BY DEF DiskInv, Openings, Opens, Reopenable, Openable
<1> QED BY <1>1, DiskAlways, PTL
=============================================================================
