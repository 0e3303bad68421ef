---------------------- MODULE NativeIndexControlProofs ----------------------
(***************************************************************************)
(* The order of the steps inside a call.  A call of the index is a program *)
(* of steps that a thread has still to run; the steps themselves put new   *)
(* ones in front: a flush found too large puts a fold there, a fold its    *)
(* three parts, a failure takes the rest away.  Control says what every    *)
(* such remainder looks like, for every set of threads, calls, faults and  *)
(* crashes: who runs in a holding of the write lock holds it, what runs    *)
(* under `persisting' holds that, what writes a segment has its rows.      *)
(*                                                                         *)
(* One relation between neighbours, Fits, and a few facts about any two    *)
(* steps make up Shape, which survives taking the first step off           *)
(* (ShapeOfTail) and putting a fitting one in front (PutBefore); a step's    *)
(* lemma then has only its own new first steps to look at.                 *)
(***************************************************************************)
EXTENDS NativeIndexProofs, SequenceTheorems

-----------------------------------------------------------------------------
\* What the programs are made of.

\* The steps that run in a holding of the write lock they did not take themselves,
\* and the steps that end with the lock held.
Locked ==
    {"land", "save", "saveIfDirty", "erase", "commit", "flush", "overflow", "publish",
     "publishLocked", "openNext", "sweep", "forget", "forgetEmpty", "dispatch", "unlock",
     "release"}
Keeping ==
    (Locked \ {"commit", "publish", "unlock", "release"})
      \cup {"settle", "collect", "error", "install", "push", "openNone", "writeDirty",
            "writeAlive"}

\* The steps that need what the flush took, and those that may come before them.
Carrying == {"writeSeg", "install", "push", "dispatch"}
Passing  == {"save", "erase", "unlock", "writeAlive", "writeSeg"}

\* The steps inside persist_unwritten, and those that another always follows.
Within == {"groups", "writeEach", "writeOne", "adoptOne", "release"}
Leads  == {"foldCheck", "foldRead", "foldWrite", "writeSeg", "writeOne"}

\* May step b come right after step a?
Fits(a, b) ==
    /\ b \in Locked => a \in Keeping
    /\ (a = "foldCheck") <=> (b = "foldRead")
    /\ (a = "foldRead") <=> (b = "foldWrite")
    /\ (a = "foldWrite") <=> (b = "foldSwap")
    /\ (a = "writeSeg") <=> (b = "install")
    /\ (a = "writeOne") <=> (b = "adoptOne")
    /\ b = "writeAlive" => a \in {"save", "erase", "unlock"}
    /\ b # "erase" /\ a # "release"

Steps ==
    Locked \cup Keeping \cup Carrying \cup Within \cup Leads
      \cup {"persist", "foldSwap", "foldEach", "chooseMemory", "chooseAll", "nextHead",
            "heldRows"}
Program == Seq(Steps)
Labels(p) == {p[i] : i \in DOMAIN p}

Shape(p) ==
    /\ \A i, j \in DOMAIN p : j = i + 1 => Fits(p[i], p[j])
    /\ \A i, j \in DOMAIN p : i < j /\ p[j] \in Carrying => p[i] \in Passing
    /\ \A i, j \in DOMAIN p : i < j /\ p[j] = "persist" => p[i] \notin Within
    /\ \A i \in DOMAIN p : p[i] \in Leads => i < Len(p)
    /\ \A i \in DOMAIN p :
          p[i] = "unlock" /\ i + 2 <= Len(p) /\ p[i + 1] = "writeAlive" =>
             p[i + 2] \notin Locked

\* The program goes on in a holding of the lock.
Holds(p) ==
    /\ p # <<>>
    /\ \/ p[1] \in Locked
       \/ p[1] = "writeAlive" /\ Len(p) > 1 /\ p[2] \in Locked

-----------------------------------------------------------------------------
LEMMA StepNames ==
    {"land", "save", "saveIfDirty", "erase", "commit", "flush", "overflow", "publish",
     "publishLocked", "openNext", "sweep", "forget", "forgetEmpty", "dispatch", "unlock",
     "release", "settle", "collect", "error", "install", "push", "openNone", "writeDirty",
     "writeAlive", "writeSeg", "groups", "writeEach", "writeOne", "adoptOne", "foldCheck",
     "foldRead", "foldWrite", "foldSwap", "foldEach", "chooseMemory", "chooseAll",
     "nextHead", "heldRows", "persist"} \subseteq Steps
BY DEF Steps, Locked, Keeping, Carrying, Within, Leads

LEMMA ShapeOfNone == <<>> \in Program /\ Shape(<<>>) /\ Labels(<<>>) = {} /\ ~Holds(<<>>)
BY DEF Program, Shape, Labels, Holds

LEMMA SomeSteps ==
    ASSUME NEW p \in Program
    PROVE  Len(p) \in Nat /\ DOMAIN p = 1..Len(p) /\ (p # <<>> <=> Len(p) > 0)
BY DEF Program

LEMMA ShapeOfTail ==
    ASSUME NEW p \in Program, Shape(p), p # <<>>
    PROVE  /\ Tail(p) \in Program /\ Shape(Tail(p))
           /\ p[1] \in Steps /\ Head(p) = p[1]
           /\ Labels(p) = {p[1]} \cup Labels(Tail(p))
           /\ Tail(p) # <<>> => Fits(p[1], Tail(p)[1])
           /\ Holds(Tail(p)) => p[1] \in Keeping
           /\ Labels(Tail(p)) \cap Carrying # {} => p[1] \in Passing
           /\ "persist" \in Labels(Tail(p)) => p[1] \notin Within
           /\ p[1] \in Leads => Tail(p) # <<>>
           /\ p[1] = "unlock" /\ Tail(p) # <<>> /\ Tail(p)[1] = "writeAlive" => ~Holds(Tail(p))
<1> DEFINE q == Tail(p)
<1>1. /\ q \in Program /\ Len(p) \in Nat \ {0} /\ Len(q) = Len(p) - 1 /\ DOMAIN p = 1..Len(p)
      /\ DOMAIN q = 1..Len(q) /\ \A i \in DOMAIN q : q[i] = p[i + 1] /\ i + 1 \in DOMAIN p
      /\ p[1] \in Steps /\ Head(p) = p[1] /\ 1 \in DOMAIN p
      /\ q # <<>> <=> Len(q) > 0
  <2>1. Len(p) \in Nat \ {0} /\ DOMAIN p = 1..Len(p) /\ Head(p) = p[1]
    BY DEF Program
  <2>2. q \in Seq(Steps) /\ Len(q) = Len(p) - 1 /\ \A i \in 1..Len(q) : q[i] = p[i + 1]
    BY DEF Program
  <2>3. DOMAIN q = 1..Len(q) /\ (q # <<>> <=> Len(q) > 0)
    BY <2>2, SomeSteps DEF Program
  <2>4. 1 \in DOMAIN p /\ p[1] \in Steps /\ \A i \in DOMAIN q : i + 1 \in DOMAIN p
    BY <2>1, <2>2, <2>3 DEF Program
  <2> QED BY <2>1, <2>2, <2>3, <2>4 DEF Program
<1> HIDE DEF q
<1>2. Shape(q)
  <2>1. \A i, j \in DOMAIN q : j = i + 1 => Fits(q[i], q[j])
    <3> SUFFICES ASSUME NEW i \in DOMAIN q, NEW j \in DOMAIN q, j = i + 1 PROVE Fits(q[i], q[j])
      OBVIOUS
    <3>1. j + 1 = (i + 1) + 1 /\ i + 1 \in DOMAIN p /\ j + 1 \in DOMAIN p
      BY <1>1
    <3>2. Fits(p[i + 1], p[j + 1])
      BY <3>1 DEF Shape
    <3> QED BY <3>2, <1>1
  <2>2. \A i, j \in DOMAIN q : i < j /\ q[j] \in Carrying => q[i] \in Passing
    BY <1>1 DEF Shape
  <2>3. \A i, j \in DOMAIN q : i < j /\ q[j] = "persist" => q[i] \notin Within
    BY <1>1 DEF Shape
  <2>4. \A i \in DOMAIN q : q[i] \in Leads => i < Len(q)
    BY <1>1 DEF Shape
  <2>5. \A i \in DOMAIN q : q[i] = "unlock" /\ i + 2 <= Len(q) /\ q[i + 1] = "writeAlive" =>
                               q[i + 2] \notin Locked
    <3> SUFFICES ASSUME NEW i \in DOMAIN q, q[i] = "unlock", i + 2 <= Len(q),
                        q[i + 1] = "writeAlive"
                 PROVE  q[i + 2] \notin Locked
      OBVIOUS
    <3>1. /\ i \in Nat /\ i + 1 \in DOMAIN q /\ i + 2 \in DOMAIN q
          /\ q[i] = p[i + 1] /\ q[i + 1] = p[(i + 1) + 1] /\ q[i + 2] = p[(i + 1) + 2]
          /\ (i + 1) + 2 <= Len(p) /\ i + 1 \in DOMAIN p
      BY <1>1
    <3>2. p[(i + 1) + 2] \notin Locked
      BY <3>1 DEF Shape
    <3> QED BY <3>1, <3>2
  <2> QED BY <2>1, <2>2, <2>3, <2>4, <2>5 DEF Shape
<1>3. Labels(p) = {p[1]} \cup Labels(q)
  <2>1. \A i \in DOMAIN p : i = 1 \/ (i - 1 \in DOMAIN q /\ q[i - 1] = p[i])
    BY <1>1
  <2> QED BY <1>1, <2>1 DEF Labels
<1>4. q # <<>> => Fits(p[1], q[1])
  <2> SUFFICES ASSUME q # <<>> PROVE Fits(p[1], q[1])
    OBVIOUS
  <2>1. 1 \in DOMAIN p /\ 2 \in DOMAIN p /\ 2 = 1 + 1 /\ q[1] = p[2]
    BY <1>1
  <2> QED BY <2>1 DEF Shape
<1>5. p[1] = "unlock" /\ q # <<>> /\ q[1] = "writeAlive" => ~Holds(q)
  <2> SUFFICES ASSUME p[1] = "unlock", q # <<>>, q[1] = "writeAlive", Len(q) > 1
               PROVE  q[2] \notin Locked
    BY DEF Holds, Locked
  <2>1. 1 + 2 <= Len(p) /\ q[1] = p[1 + 1] /\ q[2] = p[1 + 2]
    BY <1>1
  <2> QED BY <1>1, <2>1 DEF Shape
<1>6. Holds(q) => p[1] \in Keeping
  BY <1>4, <1>5 DEF Holds, Fits, Keeping, Locked
<1>7. Labels(q) \cap Carrying # {} => p[1] \in Passing
  BY <1>1 DEF Shape, Labels
<1>8. "persist" \in Labels(q) => p[1] \notin Within
  BY <1>1 DEF Shape, Labels
<1>9. p[1] \in Leads => q # <<>>
  BY <1>1 DEF Shape
<1> QED BY <1>1, <1>2, <1>3, <1>4, <1>5, <1>6, <1>7, <1>8, <1>9 DEF q

\* One step put before a program.
LEMMA ShapeOfMore ==
    ASSUME NEW a \in Steps, NEW q \in Program, Shape(q),
           q # <<>> => Fits(a, q[1]),
           a \in Leads => q # <<>>,
           Labels(q) \cap Carrying # {} => a \in Passing,
           "persist" \in Labels(q) => a \notin Within,
           a = "unlock" /\ q # <<>> /\ q[1] = "writeAlive" => ~Holds(q)
    PROVE  /\ <<a>> \o q \in Program /\ Shape(<<a>> \o q)
           /\ Labels(<<a>> \o q) = {a} \cup Labels(q)
           /\ <<a>> \o q # <<>> /\ (<<a>> \o q)[1] = a
           /\ Holds(<<a>> \o q) <=>
                 a \in Locked \/ (a = "writeAlive" /\ q # <<>> /\ q[1] \in Locked)
<1> DEFINE p == <<a>> \o q
<1>1. /\ p \in Program /\ Len(q) \in Nat /\ Len(p) = Len(q) + 1 /\ DOMAIN p = 1..Len(p)
      /\ DOMAIN q = 1..Len(q) /\ (q # <<>> <=> Len(q) > 0)
      /\ p[1] = a /\ \A i \in DOMAIN p : i # 1 => i - 1 \in DOMAIN q /\ p[i] = q[i - 1]
  <2>1. Len(q) \in Nat /\ DOMAIN q = 1..Len(q) /\ (q # <<>> <=> Len(q) > 0)
    BY SomeSteps
  <2>2. p \in Program /\ Len(p) = Len(q) + 1 /\ DOMAIN p = 1..Len(p) /\ p[1] = a
    BY <2>1 DEF Program
  <2>3. \A i \in 1..Len(p) : i # 1 => i - 1 \in DOMAIN q /\ p[i] = q[i - 1]
    BY <2>1, <2>2 DEF Program
  <2> QED BY <2>1, <2>2, <2>3
<1>2. p # <<>>
  BY <1>1, SomeSteps
<1> HIDE DEF p
<1>3. Labels(p) = {a} \cup Labels(q)
  <2>1. \A i \in DOMAIN q : i + 1 \in DOMAIN p /\ p[i + 1] = q[i]
    BY <1>1
  <2>2. 1 \in DOMAIN p
    BY <1>1
  <2> QED BY <1>1, <2>1, <2>2 DEF Labels
<1>4. Shape(p)
  <2>1. \A i, j \in DOMAIN p : j = i + 1 => Fits(p[i], p[j])
    <3> SUFFICES ASSUME NEW i \in DOMAIN p, NEW j \in DOMAIN p, j = i + 1 PROVE Fits(p[i], p[j])
      OBVIOUS
    <3>1. CASE i = 1
      <4>1. p[i] = a /\ p[j] = q[1] /\ q # <<>>
        BY <1>1, <3>1
      <4> QED BY <4>1
    <3>2. CASE i # 1
      <4>1. /\ i - 1 \in DOMAIN q /\ j - 1 \in DOMAIN q /\ j - 1 = (i - 1) + 1
            /\ p[i] = q[i - 1] /\ p[j] = q[j - 1]
        BY <1>1, <3>2
      <4> QED BY <4>1 DEF Shape
    <3> QED BY <3>1, <3>2
  <2>2. \A i, j \in DOMAIN p : i < j /\ p[j] \in Carrying => p[i] \in Passing
    <3> SUFFICES ASSUME NEW i \in DOMAIN p, NEW j \in DOMAIN p, i < j, p[j] \in Carrying
                 PROVE  p[i] \in Passing
      OBVIOUS
    <3>1. j - 1 \in DOMAIN q /\ p[j] = q[j - 1]
      BY <1>1
    <3>2. CASE i = 1
      BY <3>1, <3>2, <1>1 DEF Labels
    <3>3. CASE i # 1
      <4>1. i - 1 \in DOMAIN q /\ p[i] = q[i - 1] /\ i - 1 < j - 1
        BY <1>1, <3>3
      <4> QED BY <4>1, <3>1 DEF Shape
    <3> QED BY <3>2, <3>3
  <2>3. \A i, j \in DOMAIN p : i < j /\ p[j] = "persist" => p[i] \notin Within
    <3> SUFFICES ASSUME NEW i \in DOMAIN p, NEW j \in DOMAIN p, i < j, p[j] = "persist"
                 PROVE  p[i] \notin Within
      OBVIOUS
    <3>1. j - 1 \in DOMAIN q /\ p[j] = q[j - 1]
      BY <1>1
    <3>2. CASE i = 1
      BY <3>1, <3>2, <1>1 DEF Labels
    <3>3. CASE i # 1
      <4>1. i - 1 \in DOMAIN q /\ p[i] = q[i - 1] /\ i - 1 < j - 1
        BY <1>1, <3>3
      <4> QED BY <4>1, <3>1 DEF Shape
    <3> QED BY <3>2, <3>3
  <2>4. \A i \in DOMAIN p : p[i] \in Leads => i < Len(p)
    <3> SUFFICES ASSUME NEW i \in DOMAIN p, p[i] \in Leads PROVE i < Len(p)
      OBVIOUS
    <3>1. CASE i = 1
      BY <3>1, <1>1
    <3>2. CASE i # 1
      <4>1. i - 1 \in DOMAIN q /\ p[i] = q[i - 1]
        BY <1>1, <3>2
      <4>2. i - 1 < Len(q)
        BY <4>1 DEF Shape
      <4> QED BY <4>1, <4>2, <1>1
    <3> QED BY <3>1, <3>2
  <2>5. \A i \in DOMAIN p : p[i] = "unlock" /\ i + 2 <= Len(p) /\ p[i + 1] = "writeAlive" =>
                               p[i + 2] \notin Locked
    <3> SUFFICES ASSUME NEW i \in DOMAIN p, p[i] = "unlock", i + 2 <= Len(p),
                        p[i + 1] = "writeAlive"
                 PROVE  p[i + 2] \notin Locked
      OBVIOUS
    <3>1. CASE i = 1
      <4>1. q # <<>> /\ Len(q) > 1 /\ q[1] = "writeAlive" /\ p[i + 2] = q[2] /\ a = "unlock"
        BY <1>1, <3>1
      <4> QED BY <4>1 DEF Holds
    <3>2. CASE i # 1
      <4>1. /\ i - 1 \in DOMAIN q /\ p[i] = q[i - 1] /\ p[i + 1] = q[(i - 1) + 1]
            /\ p[i + 2] = q[(i - 1) + 2] /\ (i - 1) + 2 <= Len(q)
        BY <1>1, <3>2
      <4> QED BY <4>1 DEF Shape
    <3> QED BY <3>1, <3>2
  <2> QED BY <2>1, <2>2, <2>3, <2>4, <2>5 DEF Shape
<1>5. Holds(p) <=> a \in Locked \/ (a = "writeAlive" /\ q # <<>> /\ q[1] \in Locked)
  <2>1. Len(p) > 1 <=> q # <<>>
    BY <1>1
  <2>2. q # <<>> => p[2] = q[1]
    BY <1>1
  <2> QED BY <1>1, <1>2, <2>1, <2>2 DEF Holds
<1> QED BY <1>1, <1>2, <1>3, <1>4, <1>5 DEF p

\* Concatenation, taken apart one step at a time.
LEMMA Regroup ==
    ASSUME NEW p \in Program, NEW q \in Program, NEW r \in Program
    PROVE  p \o q \in Program /\ (p \o q) \o r = p \o (q \o r)
BY DEF Program

LEMMA OfNone ==
    ASSUME NEW S, NEW q \in Seq(S)
    PROVE  <<>> \in Seq(S) /\ <<>> \o q = q /\ q \o <<>> = q
BY ConcatEmptySeq

LEMMA OfTwo ==
    ASSUME NEW a \in Steps, NEW b \in Steps, NEW q \in Program
    PROVE  <<a, b>> \o q = <<a>> \o (<<b>> \o q)
<1>1. <<a>> \in Program /\ <<b>> \in Program /\ <<a, b>> \in Program /\ <<a>> \o <<b>> \in Program
  BY DEF Program
<1>2. Len(<<a, b>>) = 2 /\ Len(<<a>> \o <<b>>) = 2
  BY <1>1 DEF Program
<1>3. \A i \in 1..2 : <<a, b>>[i] = (<<a>> \o <<b>>)[i]
  BY <1>1 DEF Program
<1>4. <<a, b>> = <<a>> \o <<b>>
  BY <1>1, <1>2, <1>3, SeqEqual DEF Program
<1> QED BY <1>1, <1>4, ConcatAssociative DEF Program

LEMMA OfThree ==
    ASSUME NEW a \in Steps, NEW b \in Steps, NEW c \in Steps, NEW q \in Program
    PROVE  <<a, b, c>> \o q = <<a>> \o (<<b>> \o (<<c>> \o q))
<1>1. <<c>> \in Program /\ <<c>> \o q \in Program /\ <<a, b, c>> \in Program /\ <<a, b>> \in Program
      /\ <<a, b>> \o <<c>> \in Program
  BY DEF Program
<1>2. Len(<<a, b, c>>) = 3 /\ Len(<<a, b>> \o <<c>>) = 3
  BY <1>1 DEF Program
<1>3. \A i \in 1..3 : <<a, b, c>>[i] = (<<a, b>> \o <<c>>)[i]
  BY <1>1 DEF Program
<1>4. <<a, b, c>> = <<a, b>> \o <<c>>
  BY <1>1, <1>2, <1>3, SeqEqual DEF Program
<1>5. (<<a, b>> \o <<c>>) \o q = <<a, b>> \o (<<c>> \o q)
  BY <1>1, ConcatAssociative DEF Program
<1> DEFINE x == <<c>> \o q
<1>6. x \in Program
  BY <1>1 DEF Program
<1> HIDE DEF x
<1>7. <<a, b>> \o x = <<a>> \o (<<b>> \o x)
  BY <1>6, OfTwo
<1> QED BY <1>1, <1>4, <1>5, <1>7 DEF x

LEMMA OfFour ==
    ASSUME NEW a \in Steps, NEW b \in Steps, NEW c \in Steps, NEW d \in Steps, NEW q \in Program
    PROVE  <<a, b, c, d>> \o q = <<a>> \o (<<b>> \o (<<c>> \o (<<d>> \o q)))
<1>1. <<d>> \in Program /\ <<d>> \o q \in Program /\ <<a, b, c, d>> \in Program
      /\ <<a, b, c>> \in Program /\ <<a, b, c>> \o <<d>> \in Program
  BY DEF Program
<1>2. Len(<<a, b, c, d>>) = 4 /\ Len(<<a, b, c>> \o <<d>>) = 4
  BY <1>1 DEF Program
<1>3. \A i \in 1..4 : <<a, b, c, d>>[i] = (<<a, b, c>> \o <<d>>)[i]
  BY <1>1 DEF Program
<1>4. <<a, b, c, d>> = <<a, b, c>> \o <<d>>
  BY <1>1, <1>2, <1>3, SeqEqual DEF Program
<1>5. (<<a, b, c>> \o <<d>>) \o q = <<a, b, c>> \o (<<d>> \o q)
  BY <1>1, ConcatAssociative DEF Program
<1> DEFINE x == <<d>> \o q
<1>6. x \in Program
  BY <1>1 DEF Program
<1> HIDE DEF x
<1>7. <<a, b, c>> \o x = <<a>> \o (<<b>> \o (<<c>> \o x))
  BY <1>6, OfThree
<1> QED BY <1>1, <1>4, <1>5, <1>7 DEF x

\* Five steps before q are one step before the four others before q.
Five(a, b, c, d, e, q) ==
    <<a, b, c, d, e>> \o q = <<a>> \o (<<b>> \o (<<c>> \o (<<d>> \o (<<e>> \o q))))
LEMMA OfFive ==
    ASSUME NEW a \in Steps, NEW b \in Steps, NEW c \in Steps, NEW d \in Steps, NEW e \in Steps,
           NEW q \in Program
    PROVE  Five(a, b, c, d, e, q)
<1> DEFINE x == <<c, d, e>> \o q
<1>1. /\ <<c, d, e>> \in Program /\ <<a, b, c, d, e>> \in Program /\ <<a, b>> \in Program
      /\ <<a, b>> \o <<c, d, e>> \in Program
  BY DEF Program
<1>2. Len(<<a, b, c, d, e>>) = 5 /\ Len(<<a, b>> \o <<c, d, e>>) = 5
  BY <1>1 DEF Program
<1>3. \A i \in 1..5 : <<a, b, c, d, e>>[i] = (<<a, b>> \o <<c, d, e>>)[i]
  BY <1>1 DEF Program
<1>4. <<a, b, c, d, e>> = <<a, b>> \o <<c, d, e>>
  BY <1>1, <1>2, <1>3, SeqEqual DEF Program
<1>5. (<<a, b>> \o <<c, d, e>>) \o q = <<a, b>> \o x
  BY <1>1, ConcatAssociative DEF Program
<1>6. x \in Program
  BY <1>1 DEF Program
<1>7. x = <<c>> \o (<<d>> \o (<<e>> \o q))
  BY OfThree
<1> HIDE DEF x
<1>8. <<a, b>> \o x = <<a>> \o (<<b>> \o x)
  BY <1>6, OfTwo
<1> QED BY <1>4, <1>5, <1>7, <1>8 DEF Five

-----------------------------------------------------------------------------
\* What the program p of thread t, with what its flush carries, asks of the locks.
Own(t, p, pend, lk, ps) ==
    /\ p \in Program /\ Shape(p)
    /\ Holds(p) => lk = t
    /\ Labels(p) \cap Within # {} /\ "persist" \notin Labels(p) => ps = t
    /\ Labels(p) \cap Carrying # {} => pend.staged # {} /\ pend.number # 0

Control == \A t \in Threads : Own(t, th[t].prog, th[t].pend, lock, persisting)

LEMMA Rested ==
    ASSUME NEW t, NEW pend, NEW lk, NEW ps PROVE Own(t, <<>>, pend, lk, ps)
BY ShapeOfNone DEF Own

LEMMA PutBefore ==
    ASSUME NEW t, NEW q, NEW pend, NEW lk, NEW ps, Own(t, q, pend, lk, ps), NEW a \in Steps,
           q # <<>> => Fits(a, q[1]),
           a \in Leads => q # <<>>,
           Labels(q) \cap Carrying # {} => a \in Passing,
           "persist" \in Labels(q) => a \notin Within,
           a = "unlock" /\ q # <<>> /\ q[1] = "writeAlive" => ~Holds(q),
           a \in Locked => lk = t,
           a \in Within => ps = t,
           a \in Carrying => pend.staged # {} /\ pend.number # 0
    PROVE  /\ Own(t, <<a>> \o q, pend, lk, ps)
           /\ <<a>> \o q # <<>> /\ (<<a>> \o q)[1] = a
           /\ Labels(<<a>> \o q) = {a} \cup Labels(q)
           /\ Holds(<<a>> \o q) <=>
                 a \in Locked \/ (a = "writeAlive" /\ q # <<>> /\ q[1] \in Locked)
<1> DEFINE p == <<a>> \o q
<1>1. q \in Program /\ Shape(q)
  BY DEF Own
<1>2. /\ p \in Program /\ Shape(p) /\ Labels(p) = {a} \cup Labels(q) /\ p # <<>> /\ p[1] = a
      /\ Holds(p) <=> a \in Locked \/ (a = "writeAlive" /\ q # <<>> /\ q[1] \in Locked)
  BY <1>1, ShapeOfMore
<1> HIDE DEF p
<1>3. Holds(p) => lk = t
  <2>1. a = "writeAlive" /\ q # <<>> /\ q[1] \in Locked => Holds(q)
    BY DEF Holds
  <2> QED BY <1>2, <2>1 DEF Own
<1>4. Labels(p) \cap Within # {} /\ "persist" \notin Labels(p) => ps = t
  BY <1>2 DEF Own
<1>5. Labels(p) \cap Carrying # {} => pend.staged # {} /\ pend.number # 0
  BY <1>2 DEF Own
<1>6. Own(t, p, pend, lk, ps)
  BY <1>2, <1>3, <1>4, <1>5 DEF Own
<1> QED BY <1>2, <1>6 DEF p

\* The first step done, the rest goes on: under the lock, if that step keeps it.
LEMMA GoOn ==
    ASSUME NEW t, NEW p, NEW pend, NEW lk, NEW ps, Own(t, p, pend, lk, ps), p # <<>>,
           NEW pend2, NEW lk2, NEW ps2,
           \/ lk2 = t
           \/ p[1] \notin Keeping
           \/ lk2 = lk /\ p[1] \in Locked \cup {"writeAlive"},
           IF p[1] = "persist" THEN ps2 = t ELSE ps2 = ps,
           pend2 = pend \/ pend.staged = {} \/ p[1] \notin Passing
    PROVE  Own(t, Tail(p), pend2, lk2, ps2)
<1> DEFINE q == Tail(p)
<1>1. p \in Program /\ Shape(p)
  BY DEF Own
<1>2. /\ q \in Program /\ Shape(q) /\ Labels(p) = {p[1]} \cup Labels(q)
      /\ q # <<>> => Fits(p[1], q[1])
      /\ Holds(q) => p[1] \in Keeping
      /\ Labels(q) \cap Carrying # {} => p[1] \in Passing
      /\ "persist" \in Labels(q) => p[1] \notin Within
  BY <1>1, ShapeOfTail
<1>3. p[1] \in Locked \/ (p[1] = "writeAlive" /\ q # <<>> /\ q[1] \in Locked) => Holds(p)
  <2>1. q # <<>> => Len(p) > 1 /\ q[1] = p[2]
    BY <1>1, <1>2, SomeSteps DEF Program
  <2> QED BY <2>1 DEF Holds
<1> HIDE DEF q
<1>4. Holds(q) => lk2 = t
  <2>1. ASSUME Holds(q), p[1] = "writeAlive" PROVE q # <<>> /\ q[1] \in Locked
    BY <1>2, <2>1 DEF Holds, Fits
  <2> QED BY <1>2, <1>3, <2>1 DEF Own
<1>5. Labels(q) \cap Within # {} /\ "persist" \notin Labels(q) => ps2 = t
  BY <1>2 DEF Own
<1>6. Labels(q) \cap Carrying # {} => pend2.staged # {} /\ pend2.number # 0
  BY <1>2 DEF Own
<1>7. Own(t, q, pend2, lk2, ps2)
  BY <1>2, <1>4, <1>5, <1>6 DEF Own
<1> QED BY <1>7 DEF q

-----------------------------------------------------------------------------
\* The other threads' programs ask what they asked: no lock of theirs was taken.
LEMMA Others ==
    ASSUME Control, NEW t \in Threads, OnlyThread(t),
           lock' = lock \/ lock \in {NoThread, t},
           persisting' = persisting \/ persisting \in {NoThread, t},
           Own(t, th'[t].prog, th'[t].pend, lock', persisting')
    PROVE  Control'
<1> SUFFICES ASSUME NEW u \in Threads, u # t
             PROVE  Own(u, th'[u].prog, th'[u].pend, lock', persisting')
  BY DEF Control
<1>1. th'[u] = th[u] /\ Own(u, th[u].prog, th[u].pend, lock, persisting)
  BY DEF Control, OnlyThread
<1>2. u # NoThread
  BY NativeIndexAssumption
<1>3. lock = u => lock' = u
  BY <1>2
<1>4. persisting = u => persisting' = u
  BY <1>2
<1> QED BY <1>1, <1>3, <1>4 DEF Own

LEMMA Now ==
    ASSUME Control, NEW t \in Threads, NEW l, Running(t, l)
    PROVE  /\ th[t].prog # <<>> /\ th[t].prog \in Program /\ Shape(th[t].prog)
           /\ th[t].prog[1] = l
           /\ Own(t, th[t].prog, th[t].pend, lock, persisting)
           /\ l \in Locked => lock = t
<1>1. Own(t, th[t].prog, th[t].pend, lock, persisting) /\ th[t].prog # <<>>
  BY DEF Control, Running
<1>2. th[t].prog[1] = l
  BY <1>1, ShapeOfTail DEF Own, Running
<1> QED BY <1>1, <1>2 DEF Own, Holds

LEMMA TailControl ==
    ASSUME Control, NEW t \in Threads, NEW l, Running(t, l), OnlyThread(t),
           th'[t].prog = Tail(th[t].prog),
           \/ lock' = t /\ lock \in {NoThread, t}
           \/ lock' = lock /\ l \notin Keeping
           \/ lock' = lock /\ l \in Locked \cup {"writeAlive"}
           \/ lock' = NoThread /\ lock = t /\ l \notin Keeping,
           IF l = "persist" THEN persisting = NoThread /\ persisting' = t
                            ELSE persisting' = persisting,
           \/ th'[t].pend = th[t].pend
           \/ th[t].pend.staged = {}
           \/ l \notin Passing
    PROVE  Control'
<1>1. /\ th[t].prog # <<>> /\ th[t].prog[1] = l
      /\ Own(t, th[t].prog, th[t].pend, lock, persisting)
  BY Now
<1>2. Own(t, Tail(th[t].prog), th'[t].pend, lock', persisting')
  BY <1>1, GoOn
<1> QED BY <1>2, Others

LEMMA IdleControl ==
    ASSUME NumberInv, Control, NEW t \in Threads, th' = [th EXCEPT ![t] = Idle],
           lock' = lock \/ lock \in {NoThread, t},
           persisting' = persisting \/ persisting \in {NoThread, t}
    PROVE  Control'
<1>1. OnlyThread(t) /\ th'[t] = Idle
  BY BackToIdle DEF NumberInv, NumberTypes
<1>2. Own(t, th'[t].prog, th'[t].pend, lock', persisting')
  BY <1>1, Rested DEF Idle
<1> QED BY <1>1, <1>2, Others

LEMMA StillControl ==
    ASSUME NumberInv, Control, UNCHANGED <<th, lock, persisting>> PROVE Control'
BY DEF Control

-----------------------------------------------------------------------------
\* The programs calls begin with: nothing in them is under a lock yet.
Calm(p) ==
    /\ p \in Program /\ Shape(p)
    /\ Labels(p) \cap Carrying = {}
    /\ Labels(p) \cap Within # {} => "persist" \in Labels(p)

Simple == Steps \ (Carrying \cup Within \cup Leads)

LEMMA CalmOwn ==
    ASSUME NEW p, Calm(p), ~Holds(p), NEW t, NEW pend, NEW lk, NEW ps
    PROVE  Own(t, p, pend, lk, ps)
BY DEF Calm, Own

LEMMA CalmBefore ==
    ASSUME NEW q, Calm(q), NEW a \in Simple,
           q # <<>> => Fits(a, q[1]),
           a = "unlock" => q = <<>> \/ q[1] # "writeAlive"
    PROVE  /\ Calm(<<a>> \o q) /\ <<a>> \o q # <<>> /\ (<<a>> \o q)[1] = a
           /\ a \notin Locked \cup {"writeAlive"} => ~Holds(<<a>> \o q)
<1> DEFINE p == <<a>> \o q
<1>1. a \in Steps /\ a \notin Carrying /\ a \notin Within /\ a \notin Leads
  BY DEF Simple
<1>2. /\ p \in Program /\ Shape(p) /\ Labels(p) = {a} \cup Labels(q) /\ p # <<>> /\ p[1] = a
      /\ Holds(p) <=> a \in Locked \/ (a = "writeAlive" /\ q # <<>> /\ q[1] \in Locked)
  BY <1>1, ShapeOfMore DEF Calm
<1> HIDE DEF p
<1>3. Calm(p)
  BY <1>1, <1>2 DEF Calm
<1>4. a \notin Locked \cup {"writeAlive"} => ~Holds(p)
  BY <1>2
<1> QED BY <1>2, <1>3, <1>4 DEF p

LEMMA CalmNone == Calm(<<>>)
BY ShapeOfNone DEF Calm

LEMMA PersistCalm ==
    Calm(Persist) /\ Persist # <<>> /\ Persist[1] = "persist" /\ ~Holds(Persist)
<1> DEFINE p6 == <<>>
           p5 == <<"release">> \o p6
           p4 == <<"saveIfDirty">> \o p5
           p3 == <<"writeDirty">> \o p4
           p2 == <<"groups">> \o p3
           p1 == <<"persist">> \o p2
<1>0. /\ "persist" \in Steps /\ "groups" \in Steps /\ "writeDirty" \in Steps
      /\ "saveIfDirty" \in Steps /\ "release" \in Steps
  BY StepNames
<1>1. Persist = p1
  <2>1. <<>> \in Program
    BY DEF Program
  <2>2. Persist = Persist \o <<>>
    BY <1>0 DEF Persist
  <2>3. ASSUME NEW x \in Program
        PROVE  /\ Persist \o x = <<"persist">> \o (<<"groups">> \o (<<"writeDirty">> \o
                                     (<<"saveIfDirty">> \o (<<"release">> \o x))))
    <3> DEFINE a == "persist"
               b == "groups"
               c == "writeDirty"
               d == "saveIfDirty"
               e == "release"
    <3>1. a \in Steps /\ b \in Steps /\ c \in Steps /\ d \in Steps /\ e \in Steps
      BY <1>0
    <3>2. Persist = <<a, b, c, d, e>>
      BY DEF Persist
    <3> HIDE DEF a, b, c, d, e
    <3>3. Five(a, b, c, d, e, x)
      BY <3>1, OfFive
    <3> QED BY <3>2, <3>3 DEF Five, a, b, c, d, e
  <2> QED BY <2>1, <2>2, <2>3
<1> DEFINE O(p) == Own(0, p, Idle.pend, 0, 0)
<1>2. /\ O(p6) /\ Labels(p6) = {}
      /\ p6 # <<>> => Fits("release", p6[1])
  BY Rested, ShapeOfNone
<1> HIDE DEF p6
<1>3. O(p5) /\ p5 # <<>> /\ p5[1] = "release" /\ Labels(p5) = {"release"}
  <2>1. "release" \notin Leads /\ "release" \notin Carrying
    BY DEF Leads, Carrying
  <2> QED BY <1>0, <1>2, <2>1, PutBefore
<1> HIDE DEF p5
<1>4. O(p4) /\ p4 # <<>> /\ p4[1] = "saveIfDirty" /\ Labels(p4) = {"saveIfDirty", "release"}
  BY <1>3, StepNames, PutBefore DEF Fits, Locked, Keeping, Leads, Carrying, Within
<1> HIDE DEF p4
<1>5. O(p3) /\ p3 # <<>> /\ p3[1] = "writeDirty"
      /\ Labels(p3) = {"writeDirty", "saveIfDirty", "release"}
  BY <1>4, StepNames, PutBefore DEF Fits, Locked, Keeping, Leads, Carrying, Within
<1> HIDE DEF p3
<1>6. O(p2) /\ p2 # <<>> /\ p2[1] = "groups"
      /\ Labels(p2) = {"groups", "writeDirty", "saveIfDirty", "release"}
  BY <1>5, StepNames, PutBefore DEF Fits, Locked, Keeping, Leads, Carrying, Within
<1> HIDE DEF p2
<1>7. /\ O(p1) /\ p1 # <<>> /\ p1[1] = "persist" /\ ~Holds(p1)
      /\ Labels(p1) = {"persist", "groups", "writeDirty", "saveIfDirty", "release"}
  BY <1>6, StepNames, PutBefore DEF Fits, Locked, Keeping, Leads, Carrying, Within
<1> HIDE DEF p1
<1>8. Calm(p1)
  BY <1>7 DEF Calm, Own, Carrying, Within
<1> QED BY <1>1, <1>7, <1>8

\* What can follow an unlock that ends a call's first part.
After(q) ==
    q # <<>> => Fits("unlock", q[1]) /\ q[1] # "writeAlive"

LEMMA SettleCalm ==
    ASSUME NEW q, Calm(q), After(q)
    PROVE  /\ Calm(Settle \o q) /\ Settle \o q # <<>> /\ (Settle \o q)[1] = "settle"
           /\ ~Holds(Settle \o q)
<1> DEFINE p3 == <<"unlock">> \o q
           p2 == <<"collect">> \o p3
           p1 == <<"settle">> \o p2
<1>0. "settle" \in Steps /\ "collect" \in Steps /\ "unlock" \in Steps /\ q \in Program
  BY StepNames DEF Calm
<1>1. Settle \o q = p1
  BY <1>0, OfThree DEF Settle
<1>2. Calm(p3) /\ p3 # <<>> /\ p3[1] = "unlock"
  BY StepNames, CalmBefore DEF After, Simple, Carrying, Within, Leads
<1> HIDE DEF p3
<1>3. Calm(p2) /\ p2 # <<>> /\ p2[1] = "collect"
  BY <1>2, StepNames, CalmBefore DEF Simple, Carrying, Within, Leads, Fits, Locked, Keeping
<1> HIDE DEF p2
<1>4. Calm(p1) /\ p1 # <<>> /\ p1[1] = "settle" /\ ~Holds(p1)
  BY <1>3, StepNames, CalmBefore DEF Simple, Carrying, Within, Leads, Fits, Locked, Keeping
<1> QED BY <1>1, <1>4

LEMMA Literals ==
    /\ Settle \in Program /\ Publish \in Program /\ Flush \in Program /\ Persist \in Program
    /\ <<"collect", "publish">> \in Program
    /\ <<"collect", "flush", "unlock">> \in Program
    /\ <<"collect", "commit">> \in Program
<1>1. Settle \in Program /\ Persist \in Program
  BY StepNames DEF Settle, Persist, Program
<1>2. /\ <<"collect", "publish">> \in Program
      /\ <<"collect", "flush", "unlock">> \in Program
      /\ <<"collect", "commit">> \in Program
  BY StepNames DEF Program
<1> QED BY <1>1, <1>2, Regroup DEF Publish, Flush

\* settle, then collect under the lock, then one step of flush_prepare's callers.
LEMMA PublishCalm ==
    ASSUME NEW q, Calm(q), q # <<>> => q[1] \notin Locked /\ Fits("publish", q[1])
    PROVE  Calm(Publish \o q) /\ ~Holds(Publish \o q) /\ (Publish \o q)[1] = "settle"
<1> DEFINE p2 == <<"publish">> \o q
           p1 == <<"collect">> \o p2
<1>1. q \in Program
  BY DEF Calm
<1>2. Publish \o q = Settle \o p1
  <2> DEFINE s == <<"collect", "publish">>
  <2>1. "collect" \in Steps /\ "publish" \in Steps
    BY StepNames
  <2>2. s \in Program /\ s \o q = p1
    BY <1>1, <2>1, OfTwo DEF Program
  <2>3. Publish = Settle \o s
    BY DEF Publish
  <2> HIDE DEF s, p1
  <2>4. Settle \in Program
    BY Literals
  <2>5. (Settle \o s) \o q = Settle \o (s \o q)
    BY <1>1, <2>2, <2>4, Regroup
  <2> QED BY <2>2, <2>3, <2>5
<1>3. Calm(p2) /\ p2 # <<>> /\ p2[1] = "publish"
  BY StepNames, CalmBefore DEF Simple, Carrying, Within, Leads
<1> HIDE DEF p2
<1>4. Calm(p1) /\ p1 # <<>> /\ p1[1] = "collect"
  BY <1>3, StepNames, CalmBefore DEF Simple, Carrying, Within, Leads, Fits, Locked, Keeping
<1> HIDE DEF p1
<1>5. After(p1)
  BY <1>4 DEF After, Fits, Locked, Keeping
<1> QED BY <1>2, <1>4, <1>5, SettleCalm

LEMMA CommitCalm ==
    ASSUME NEW q, Calm(q), q # <<>> => q[1] \notin Locked /\ Fits("commit", q[1])
    PROVE  /\ Calm((Settle \o <<"collect", "commit">>) \o q)
           /\ ~Holds((Settle \o <<"collect", "commit">>) \o q)
<1> DEFINE p2 == <<"commit">> \o q
           p1 == <<"collect">> \o p2
<1>1. q \in Program
  BY DEF Calm
<1>2. (Settle \o <<"collect", "commit">>) \o q = Settle \o p1
  <2> DEFINE s == <<"collect", "commit">>
  <2>1. "collect" \in Steps /\ "commit" \in Steps
    BY StepNames
  <2>2. s \in Program /\ s \o q = p1
    BY <1>1, <2>1, OfTwo DEF Program
  <2>3. (Settle \o <<"collect", "commit">>) = Settle \o s
    OBVIOUS
  <2> HIDE DEF s, p1
  <2>4. Settle \in Program
    BY Literals
  <2>5. (Settle \o s) \o q = Settle \o (s \o q)
    BY <1>1, <2>2, <2>4, Regroup
  <2> QED BY <2>2, <2>3, <2>5
<1>3. Calm(p2) /\ p2 # <<>> /\ p2[1] = "commit"
  BY StepNames, CalmBefore DEF Simple, Carrying, Within, Leads
<1> HIDE DEF p2
<1>4. Calm(p1) /\ p1 # <<>> /\ p1[1] = "collect"
  BY <1>3, StepNames, CalmBefore DEF Simple, Carrying, Within, Leads, Fits, Locked, Keeping
<1> HIDE DEF p1
<1>5. After(p1)
  BY <1>4 DEF After, Fits, Locked, Keeping
<1> QED BY <1>2, <1>4, <1>5, SettleCalm

LEMMA FlushCalm ==
    ASSUME NEW q, Calm(q), After(q)
    PROVE  Calm(Flush \o q) /\ ~Holds(Flush \o q)
<1> DEFINE p3 == <<"unlock">> \o q
           p2 == <<"flush">> \o p3
           p1 == <<"collect">> \o p2
<1>1. q \in Program
  BY DEF Calm
<1>2. Flush \o q = Settle \o p1
  <2> DEFINE s == <<"collect", "flush", "unlock">>
  <2>1. "collect" \in Steps /\ "flush" \in Steps /\ "unlock" \in Steps
    BY StepNames
  <2>2. s \in Program /\ s \o q = p1
    BY <1>1, <2>1, OfThree DEF Program
  <2>3. Flush = Settle \o s
    BY DEF Flush
  <2> HIDE DEF s, p1
  <2>4. Settle \in Program
    BY Literals
  <2>5. (Settle \o s) \o q = Settle \o (s \o q)
    BY <1>1, <2>2, <2>4, Regroup
  <2> QED BY <2>2, <2>3, <2>5
<1>3. Calm(p3) /\ p3 # <<>> /\ p3[1] = "unlock"
  BY StepNames, CalmBefore DEF After, Simple, Carrying, Within, Leads
<1> HIDE DEF p3
<1>4. Calm(p2) /\ p2 # <<>> /\ p2[1] = "flush"
  BY <1>3, StepNames, CalmBefore DEF Simple, Carrying, Within, Leads, Fits, Locked, Keeping
<1> HIDE DEF p2
<1>5. Calm(p1) /\ p1 # <<>> /\ p1[1] = "collect"
  BY <1>4, StepNames, CalmBefore DEF Simple, Carrying, Within, Leads, Fits, Locked, Keeping
<1> HIDE DEF p1
<1>6. After(p1)
  BY <1>5 DEF After, Fits, Locked, Keeping
<1> QED BY <1>2, <1>5, <1>6, SettleCalm

\* A thread that rests takes up a program of that kind.
LEMMA BegunControl ==
    ASSUME NumberInv, Control, NEW t \in Threads, NEW p, Calm(p), ~Holds(p),
           NEW r, th' = [th EXCEPT ![t] = r], DOMAIN r = Fields, r.prog = p,
           UNCHANGED <<lock, persisting>>
    PROVE  Control'
<1>1. OnlyThread(t) /\ th'[t] = r
  BY DEF NumberInv, NumberTypes, OnlyThread
<1>2. Own(t, th'[t].prog, th'[t].pend, lock', persisting')
  BY <1>1, CalmOwn
<1> QED BY <1>1, <1>2, Others

LEMMA BeginControl ==
    ASSUME NumberInv, Control, NEW t \in Threads, NEW op, NEW p, Calm(p), ~Holds(p),
           Begin(t, op, p)
    PROVE  Control'
<1> DEFINE r == [Idle EXCEPT !.op = op, !.prog = p]
<1>1. DOMAIN r = Fields /\ r.prog = p
  BY IdleShape DEF Idle, Fields
<1>2. th' = [th EXCEPT ![t] = r] /\ UNCHANGED <<lock, persisting>>
  BY DEF Begin
<1> HIDE DEF r
<1> QED BY <1>1, <1>2, BegunControl

LEMMA CommitProgram == Calm(Commit) /\ ~Holds(Commit)
BY PersistCalm, CommitCalm DEF Commit, Fits, Locked, Keeping

LEMMA BeginCallControl ==
    ASSUME NumberInv, Control, NEW t \in Threads, BeginCall(t) PROVE Control'
<1>1. ASSUME PublishSmall(t) PROVE Control'
  <2> DEFINE q == <<"heldRows">> \o <<>>
  <2>1. <<"heldRows">> = q
    BY OfNone
  <2>2. Calm(q) /\ q # <<>> /\ q[1] = "heldRows"
    BY CalmNone, StepNames, CalmBefore DEF Simple, Carrying, Within, Leads
  <2> HIDE DEF q
  <2>3. Calm(Publish \o q) /\ ~Holds(Publish \o q)
    BY <2>2, PublishCalm DEF Fits, Locked, Keeping
  <2> QED BY <1>1, <2>1, <2>3, BeginControl DEF PublishSmall
<1>2. ASSUME Begin(t, "flush", Flush \o Persist) PROVE Control'
  <2>1. Calm(Flush \o Persist) /\ ~Holds(Flush \o Persist)
    BY PersistCalm, FlushCalm DEF After, Fits, Locked, Keeping
  <2> QED BY <1>2, <2>1, BeginControl
<1>3. ASSUME Begin(t, "compact", Flush \o <<"chooseMemory", "foldEach", "nextHead">>)
      PROVE  Control'
  <2> DEFINE p3 == <<"nextHead">> \o <<>>
             p2 == <<"foldEach">> \o p3
             p1 == <<"chooseMemory">> \o p2
  <2>1. <<"chooseMemory", "foldEach", "nextHead">> = p1
    BY StepNames, OfThree, OfNone
  <2>2. Calm(p3) /\ p3 # <<>> /\ p3[1] = "nextHead"
    BY CalmNone, StepNames, CalmBefore DEF Simple, Carrying, Within, Leads
  <2> HIDE DEF p3
  <2>3. Calm(p2) /\ p2 # <<>> /\ p2[1] = "foldEach"
    BY <2>2, StepNames, CalmBefore DEF Simple, Carrying, Within, Leads, Fits, Locked, Keeping
  <2> HIDE DEF p2
  <2>4. Calm(p1) /\ p1 # <<>> /\ p1[1] = "chooseMemory"
    BY <2>3, StepNames, CalmBefore DEF Simple, Carrying, Within, Leads, Fits, Locked, Keeping
  <2> HIDE DEF p1
  <2>5. Calm(Flush \o p1) /\ ~Holds(Flush \o p1)
    BY <2>4, FlushCalm DEF After, Fits, Locked, Keeping
  <2> QED BY <1>3, <2>1, <2>5, BeginControl
<1>4. ASSUME Begin(t, "rebuild", Flush \o <<"chooseAll", "foldEach">> \o Persist)
      PROVE  Control'
  <2> DEFINE p2 == <<"foldEach">> \o Persist
             p1 == <<"chooseAll">> \o p2
  <2>1. (Flush \o <<"chooseAll", "foldEach">>) \o Persist = Flush \o p1
    <3> DEFINE s == <<"chooseAll", "foldEach">>
    <3>1. "chooseAll" \in Steps /\ "foldEach" \in Steps
      BY StepNames
    <3>2. s \in Program /\ s \o Persist = p1
      BY <3>1, OfTwo, Literals DEF Program
    <3> HIDE DEF s, p1
    <3>3. Flush \in Program /\ Persist \in Program
      BY Literals
    <3>4. (Flush \o s) \o Persist = Flush \o (s \o Persist)
      BY <3>2, <3>3, Regroup, ZenonT(30)
    <3> QED BY <3>2, <3>4 DEF s
  <2>2. Calm(p2) /\ p2 # <<>> /\ p2[1] = "foldEach"
    BY PersistCalm, StepNames, CalmBefore DEF Simple, Carrying, Within, Leads, Fits, Locked, Keeping
  <2> HIDE DEF p2
  <2>3. Calm(p1) /\ p1 # <<>> /\ p1[1] = "chooseAll"
    BY <2>2, StepNames, CalmBefore DEF Simple, Carrying, Within, Leads, Fits, Locked, Keeping
  <2> HIDE DEF p1
  <2>4. Calm(Flush \o p1) /\ ~Holds(Flush \o p1)
    BY <2>3, FlushCalm DEF After, Fits, Locked, Keeping
  <2> QED BY <1>4, <2>1, <2>4, BeginControl
<1> QED BY <1>1, <1>2, <1>3, <1>4, CommitProgram, BeginControl DEF BeginCall, PublishLarge

LEMMA BeginGenerationControl ==
    ASSUME NumberInv, Control, NEW t \in Threads, BeginGeneration(t) PROVE Control'
<1> DEFINE p5 == <<"unlock">> \o <<>>
           p4 == <<"openNext">> \o p5
           p3 == <<"publishLocked">> \o p4
           p2 == <<"collect">> \o p3
           p1 == <<"openNone">> \o p2
<1>0. /\ "openNone" \in Steps /\ "collect" \in Steps /\ "publishLocked" \in Steps
      /\ "openNext" \in Steps /\ "unlock" \in Steps
  BY StepNames
<1>1. <<"openNone", "collect", "publishLocked", "openNext", "unlock">> = p1
  <2> DEFINE s == <<"openNone", "collect", "publishLocked", "openNext", "unlock">>
  <2>1. <<>> \in Program /\ s = s \o <<>>
    BY <1>0 DEF Program
  <2>2. ASSUME NEW x \in Program
        PROVE  /\ s \o x = <<"openNone">> \o (<<"collect">> \o (<<"publishLocked">> \o
                               (<<"openNext">> \o (<<"unlock">> \o x))))
    <3> DEFINE a == "openNone"
               b == "collect"
               c == "publishLocked"
               d == "openNext"
               e == "unlock"
    <3>1. a \in Steps /\ b \in Steps /\ c \in Steps /\ d \in Steps /\ e \in Steps
      BY <1>0
    <3>2. s = <<a, b, c, d, e>>
      OBVIOUS
    <3> HIDE DEF s, a, b, c, d, e
    <3>3. Five(a, b, c, d, e, x)
      BY <3>1, OfFive
    <3> QED BY <3>2, <3>3 DEF Five, a, b, c, d, e
  <2> QED BY <2>1, <2>2
<1>2. Calm(p5) /\ p5 # <<>> /\ p5[1] = "unlock"
  BY CalmNone, StepNames, CalmBefore DEF Simple, Carrying, Within, Leads
<1> HIDE DEF p5
<1>3. Calm(p4) /\ p4 # <<>> /\ p4[1] = "openNext"
  BY <1>2, StepNames, CalmBefore DEF Simple, Carrying, Within, Leads, Fits, Locked, Keeping
<1> HIDE DEF p4
<1>4. Calm(p3) /\ p3 # <<>> /\ p3[1] = "publishLocked"
  BY <1>3, StepNames, CalmBefore DEF Simple, Carrying, Within, Leads, Fits, Locked, Keeping
<1> HIDE DEF p3
<1>5. Calm(p2) /\ p2 # <<>> /\ p2[1] = "collect"
  BY <1>4, StepNames, CalmBefore DEF Simple, Carrying, Within, Leads, Fits, Locked, Keeping
<1> HIDE DEF p2
<1>6. Calm(p1) /\ p1 # <<>> /\ p1[1] = "openNone"
  BY <1>5, StepNames, CalmBefore DEF Simple, Carrying, Within, Leads, Fits, Locked, Keeping
<1> HIDE DEF p1
<1>7. Calm(Settle \o p1) /\ ~Holds(Settle \o p1)
  BY <1>6, SettleCalm DEF After, Fits, Locked, Keeping
<1> QED BY <1>1, <1>7, BeginControl DEF BeginGeneration

LEMMA BeginSweepControl ==
    ASSUME NumberInv, Control, NEW t \in Threads, NEW s, NEW u, NEW b, BeginSweep(t, s, u, b)
    PROVE  Control'
<1> DEFINE p4 == <<"unlock">> \o <<>>
           p3 == <<"sweep">> \o p4
           p2 == <<"publishLocked">> \o p3
           p1 == <<"collect">> \o p2
           prog == Settle \o (Publish \o p1)
           r == [Idle EXCEPT !.op = "sweep", !.prog = prog, !.source = s, !.under = u,
                             !.spare = b]
<1>0. /\ "collect" \in Steps /\ "publishLocked" \in Steps /\ "sweep" \in Steps
      /\ "unlock" \in Steps
  BY StepNames
<1>1. <<"collect", "publishLocked", "sweep", "unlock">> = p1 /\ p1 \in Program
  BY <1>0, OfFour, OfNone, SMTT(30) DEF Program
<1>2. Calm(p4) /\ p4 # <<>> /\ p4[1] = "unlock"
  BY CalmNone, StepNames, CalmBefore DEF Simple, Carrying, Within, Leads
<1> HIDE DEF p4
<1>3. Calm(p3) /\ p3 # <<>> /\ p3[1] = "sweep"
  BY <1>2, StepNames, CalmBefore DEF Simple, Carrying, Within, Leads, Fits, Locked, Keeping
<1> HIDE DEF p3
<1>4. Calm(p2) /\ p2 # <<>> /\ p2[1] = "publishLocked"
  BY <1>3, StepNames, CalmBefore DEF Simple, Carrying, Within, Leads, Fits, Locked, Keeping
<1> HIDE DEF p2
<1>5. Calm(p1) /\ p1 # <<>> /\ p1[1] = "collect"
  BY <1>4, StepNames, CalmBefore DEF Simple, Carrying, Within, Leads, Fits, Locked, Keeping
<1> HIDE DEF p1
<1>6. /\ Calm(Publish \o p1) /\ Publish \o p1 # <<>>
      /\ (Publish \o p1)[1] = "settle"
  <2>1. Calm(Publish \o p1) /\ (Publish \o p1)[1] = "settle"
    BY <1>5, PublishCalm DEF Fits, Locked, Keeping
  <2>2. Publish \o p1 # <<>>
    BY <1>1, <1>5, Literals, ConcatEqualIffEmpty DEF Program
  <2> QED BY <2>1, <2>2
<1>7. Calm(prog) /\ ~Holds(prog)
  BY <1>6, SettleCalm DEF After, Fits, Locked, Keeping
<1>8. (Settle \o Publish) \o p1 = prog
  <2>1. Settle \in Program /\ Publish \in Program
    BY Literals
  <2>2. p1 \in Program
    BY <1>1
  <2> HIDE DEF p1
  <2> QED BY <2>1, <2>2, Regroup, ZenonT(30)
<1>9. th' = [th EXCEPT ![t] = r] /\ UNCHANGED <<lock, persisting>>
  BY <1>1, <1>8 DEF BeginSweep
<1>10. DOMAIN r = Fields /\ r.prog = prog
  BY IdleShape DEF Idle, Fields
<1> HIDE DEF r, prog
<1> QED BY <1>7, <1>9, <1>10, BegunControl

LEMMA BeginForgetControl ==
    ASSUME NumberInv, Control, NEW t \in Threads, NEW s, BeginForget(t, s) PROVE Control'
<1> DEFINE p4 == <<"unlock">> \o <<>>
           p3 == <<"forget">> \o p4
           p2 == <<"flush">> \o p3
           p1 == <<"collect">> \o p2
           prog == Settle \o p1
           r == [Idle EXCEPT !.op = "forget", !.prog = prog, !.source = s]
<1>0. "collect" \in Steps /\ "flush" \in Steps /\ "forget" \in Steps /\ "unlock" \in Steps
  BY StepNames
<1>1. <<"collect", "flush", "forget", "unlock">> = p1
  <2> DEFINE four == <<"collect", "flush", "forget", "unlock">>
  <2>1. <<>> \in Program /\ four = four \o <<>>
    BY <1>0 DEF Program
  <2>2. four \o <<>> = p1
    BY <1>0, <2>1, OfFour
  <2> QED BY <2>1, <2>2
<1>2. Calm(p4) /\ p4 # <<>> /\ p4[1] = "unlock"
  BY CalmNone, StepNames, CalmBefore DEF Simple, Carrying, Within, Leads
<1> HIDE DEF p4
<1>3. Calm(p3) /\ p3 # <<>> /\ p3[1] = "forget"
  BY <1>2, StepNames, CalmBefore DEF Simple, Carrying, Within, Leads, Fits, Locked, Keeping
<1> HIDE DEF p3
<1>4. Calm(p2) /\ p2 # <<>> /\ p2[1] = "flush"
  BY <1>3, StepNames, CalmBefore DEF Simple, Carrying, Within, Leads, Fits, Locked, Keeping
<1> HIDE DEF p2
<1>5. Calm(p1) /\ p1 # <<>> /\ p1[1] = "collect"
  BY <1>4, StepNames, CalmBefore DEF Simple, Carrying, Within, Leads, Fits, Locked, Keeping
<1> HIDE DEF p1
<1>6. Calm(prog) /\ ~Holds(prog)
  BY <1>5, SettleCalm DEF After, Fits, Locked, Keeping
<1>7. th' = [th EXCEPT ![t] = r] /\ UNCHANGED <<lock, persisting>>
  BY <1>1 DEF BeginForget
<1>8. DOMAIN r = Fields /\ r.prog = prog
  BY IdleShape DEF Idle, Fields
<1> HIDE DEF r, prog
<1> QED BY <1>6, <1>7, <1>8, BegunControl

-----------------------------------------------------------------------------
\* What is left of the program, and what it lets come right before it.
LEMMA Rests ==
    ASSUME Control, NEW t \in Threads, NEW l, Running(t, l),
           NEW pend2, NEW lk2,
           lk2 = t \/ (lk2 = lock /\ (l \notin Keeping \/ l \in Locked)),
           l # "persist",
           pend2 = th[t].pend \/ th[t].pend.staged = {} \/ l \notin Passing
    PROVE  /\ Own(t, Rest(t), pend2, lk2, persisting) /\ Rest(t) \in Program
           /\ Rest(t) # <<>> => Fits(l, Rest(t)[1])
           /\ Labels(Rest(t)) \cap Carrying # {} => l \in Passing
           /\ "persist" \in Labels(Rest(t)) => l \notin Within
           /\ l \in Leads => Rest(t) # <<>>
           /\ Labels(th[t].prog) = {l} \cup Labels(Rest(t))
<1> DEFINE p == th[t].prog
<1>1. /\ p # <<>> /\ p \in Program /\ Shape(p) /\ p[1] = l
      /\ Own(t, p, th[t].pend, lock, persisting)
  BY Now
<1> HIDE DEF p
<1>2. Own(t, Tail(p), pend2, lk2, persisting)
  BY <1>1, GoOn DEF p
<1>3. /\ Tail(p) \in Program
      /\ Tail(p) # <<>> => Fits(l, Tail(p)[1])
      /\ Labels(Tail(p)) \cap Carrying # {} => l \in Passing
      /\ "persist" \in Labels(Tail(p)) => l \notin Within
      /\ l \in Leads => Tail(p) # <<>>
      /\ Labels(p) = {l} \cup Labels(Tail(p))
  BY <1>1, ShapeOfTail
<1> QED BY <1>2, <1>3 DEF p, Rest

LEMMA RestsHeld ==
    ASSUME Control, NEW t \in Threads, NEW l, Running(t, l), NEW pend2, l # "persist",
           pend2 = th[t].pend \/ th[t].pend.staged = {} \/ l \notin Passing
    PROVE  /\ Own(t, Rest(t), pend2, t, persisting) /\ Rest(t) \in Program
           /\ Rest(t) # <<>> => Fits(l, Rest(t)[1])
           /\ Labels(Rest(t)) \cap Carrying # {} => l \in Passing
           /\ "persist" \in Labels(Rest(t)) => l \notin Within
<1> DEFINE p == th[t].prog
<1>1. /\ p # <<>> /\ p \in Program /\ Shape(p) /\ p[1] = l
      /\ Own(t, p, th[t].pend, lock, persisting)
  BY Now
<1> HIDE DEF p
<1>2. Own(t, Tail(p), pend2, t, persisting)
  BY <1>1, GoOn DEF p
<1>3. /\ Tail(p) \in Program
      /\ Tail(p) # <<>> => Fits(l, Tail(p)[1])
      /\ Labels(Tail(p)) \cap Carrying # {} => l \in Passing
      /\ "persist" \in Labels(Tail(p)) => l \notin Within
  BY <1>1, ShapeOfTail
<1> QED BY <1>2, <1>3 DEF p, Rest

LEMMA OfIf ==
    ASSUME NEW b \in BOOLEAN, NEW s \in Program, NEW r \in Program
    PROVE  If(b, s) \in Program /\ If(b, s) \o r = IF b THEN s \o r ELSE r
BY ShapeOfNone, OfNone DEF If, Program

\* One step, or none, put before what is left.
LEMMA PutMaybe ==
    ASSUME NEW t, NEW q, NEW pend, NEW lk, NEW ps, Own(t, q, pend, lk, ps), NEW a \in Steps,
           NEW b \in BOOLEAN,
           q # <<>> => Fits(a, q[1]),
           a \notin Leads, a \notin Within,
           Labels(q) \cap Carrying # {} => a \in Passing,
           a = "unlock" /\ q # <<>> /\ q[1] = "writeAlive" => ~Holds(q),
           a \in Locked => lk = t,
           a \in Carrying => (b => pend.staged # {} /\ pend.number # 0),
           NEW s, s = If(b, <<a>>)
    PROVE  /\ Own(t, s \o q, pend, lk, ps) /\ s \o q \in Program /\ s \in Program
           /\ \/ s \o q = q
              \/ /\ (s \o q)[1] = a /\ Labels(s \o q) = {a} \cup Labels(q)
                 /\ Holds(s \o q) <=>
                       a \in Locked \/ (a = "writeAlive" /\ q # <<>> /\ q[1] \in Locked)
           /\ b => s \o q # <<>>
<1>1. q \in Program /\ <<a>> \in Program
  BY DEF Own, Program
<1>2. s \in Program /\ s \o q = IF b THEN <<a>> \o q ELSE q
  BY <1>1, OfIf, ZenonT(30)
<1>3. CASE b
  <2>1. /\ Own(t, <<a>> \o q, pend, lk, ps) /\ (<<a>> \o q)[1] = a
        /\ Labels(<<a>> \o q) = {a} \cup Labels(q) /\ <<a>> \o q # <<>>
        /\ Holds(<<a>> \o q) <=>
              a \in Locked \/ (a = "writeAlive" /\ q # <<>> /\ q[1] \in Locked)
    BY <1>3, PutBefore
  <2> QED BY <1>2, <1>3, <2>1 DEF Own
<1>4. CASE ~b
  BY <1>1, <1>2, <1>4
<1> QED BY <1>3, <1>4

\* A fold put before what is left.
LEMMA FoldBefore ==
    ASSUME NEW t, NEW q, NEW pend, NEW lk, NEW ps, Own(t, q, pend, lk, ps),
           q # <<>> => Fits("foldSwap", q[1]),
           Labels(q) \cap Carrying = {}
    PROVE  Own(t, Fold \o q, pend, lk, ps) /\ Fold \in Program
<1> DEFINE p4 == <<"foldSwap">> \o q
           p3 == <<"foldWrite">> \o p4
           p2 == <<"foldRead">> \o p3
           p1 == <<"foldCheck">> \o p2
<1>1. q \in Program
  BY DEF Own
<1>0. /\ "foldCheck" \in Steps /\ "foldRead" \in Steps /\ "foldWrite" \in Steps
      /\ "foldSwap" \in Steps
  BY StepNames
<1>2. Fold \o q = p1 /\ Fold \in Program
  <2>1. Fold \in Program
    BY <1>0 DEF Fold, Program
  <2>2. Fold \o q = p1
    BY <1>0, <1>1, OfFour, SMTT(60) DEF Fold
  <2> QED BY <2>1, <2>2
<1>3. Own(t, p4, pend, lk, ps) /\ p4 # <<>> /\ p4[1] = "foldSwap"
      /\ Labels(p4) \cap Carrying = {}
  BY StepNames, PutBefore DEF Leads, Carrying, Within, Locked
<1> HIDE DEF p4
<1>4. Own(t, p3, pend, lk, ps) /\ p3 # <<>> /\ p3[1] = "foldWrite"
      /\ Labels(p3) \cap Carrying = {}
  BY <1>3, StepNames, PutBefore DEF Leads, Carrying, Within, Locked, Fits, Keeping
<1> HIDE DEF p3
<1>5. Own(t, p2, pend, lk, ps) /\ p2 # <<>> /\ p2[1] = "foldRead"
      /\ Labels(p2) \cap Carrying = {}
  BY <1>4, StepNames, PutBefore DEF Leads, Carrying, Within, Locked, Fits, Keeping
<1> HIDE DEF p2
<1>6. Own(t, p1, pend, lk, ps)
  BY <1>5, StepNames, PutBefore DEF Leads, Carrying, Within, Locked, Fits, Keeping
<1> HIDE DEF p1
<1> QED BY <1>2, <1>6

-----------------------------------------------------------------------------
\* Steps that only go on, and steps that end in an error.
LEMMA Went ==
    ASSUME NumberInv, NEW t \in Threads, NEW p, Goto(t, p)
    PROVE  OnlyThread(t) /\ th'[t].prog = p /\ th'[t].pend = th[t].pend
BY IdleShape DEF NumberInv, NumberTypes, OnlyThread, Goto

LEMMA GoneOnControl ==
    ASSUME NumberInv, Control, NEW t \in Threads, NEW l, Running(t, l), l # "persist",
           Goto(t, Rest(t)), UNCHANGED persisting,
           \/ lock' = t /\ lock \in {NoThread, t}
           \/ lock' = lock /\ (l \notin Keeping \/ l \in Locked)
    PROVE  Control'
<1>1. OnlyThread(t) /\ th'[t].prog = Tail(th[t].prog) /\ th'[t].pend = th[t].pend
  BY Went DEF Rest
<1> QED BY <1>1, TailControl

LEMMA PlainControl ==
    ASSUME NumberInv, Control, NEW t \in Threads,
           \/ SettleStep(t) \/ Erase(t) \/ WriteSeg(t) \/ OpenNone(t) \/ OpenNext(t)
           \/ Sweep(t) \/ ForgetEmpty(t) \/ WriteUnwritten(t) \/ FoldWrite(t)
    PROVE  Control'
<1>1. CASE SettleStep(t)
  BY <1>1, GoneOnControl DEF SettleStep
<1>2. CASE Erase(t)
  BY <1>2, GoneOnControl DEF Erase, Locked
<1>3. CASE WriteSeg(t)
  BY <1>3, GoneOnControl DEF WriteSeg, Keeping, Locked
<1>4. CASE OpenNone(t)
  BY <1>4, GoneOnControl DEF OpenNone
<1>5. CASE OpenNext(t)
  BY <1>5, GoneOnControl DEF OpenNext, Locked
<1>6. CASE Sweep(t)
  BY <1>6, GoneOnControl DEF Sweep, Locked
<1>7. CASE ForgetEmpty(t)
  BY <1>7, GoneOnControl DEF ForgetEmpty, Locked
<1>8. CASE WriteUnwritten(t)
  BY <1>8, GoneOnControl DEF WriteUnwritten, Keeping, Locked
<1>9. CASE FoldWrite(t)
  BY <1>9, GoneOnControl DEF FoldWrite, Keeping, Locked
<1> QED BY <1>1, <1>2, <1>3, <1>4, <1>5, <1>6, <1>7, <1>8, <1>9

LEMMA FailControl ==
    ASSUME NumberInv, Control, NEW t \in Threads, Fail(t) PROVE Control'
BY IdleControl DEF Fail, Free

LEMMA StepFailsControl ==
    ASSUME NumberInv, Control, NEW t \in Threads, StepFails(t) PROVE Control'
<1>1. ASSUME DispatchFails(t) PROVE Control'
  <2>1. Running(t, "dispatch")
    BY <1>1 DEF DispatchFails
  <2>2. th' = [th EXCEPT ![t] = Idle] /\ lock' = NoThread /\ persisting' = persisting
    BY <1>1 DEF DispatchFails
  <2>3. lock = t
    BY <2>1, Now DEF Locked
  <2> QED BY <2>2, <2>3, IdleControl
<1>2. DispatchFails(t) \/ Fail(t)
  BY DEF StepFails, LandBuiltFails, SaveFails, WriteAliveFails, WriteSegFails, PushFails,
         WriteFails
<1> QED BY <1>1, <1>2, FailControl

LEMMA CollectErrorControl ==
    ASSUME NumberInv, Control, NEW t \in Threads, CollectError(t) PROVE Control'
BY FailControl DEF CollectError

LEMMA SaveCleanControl ==
    ASSUME NumberInv, Control, NEW t \in Threads, SaveClean(t) PROVE Control'
<1>1. OnlyThread(t) /\ th'[t].prog = Tail(th[t].prog)
  BY IdleShape DEF NumberInv, NumberTypes, OnlyThread, SaveClean, Rest
<1> QED BY <1>1, TailControl DEF SaveClean, Locked, Passing

LEMMA WriteAliveControl ==
    ASSUME NumberInv, Control, NEW t \in Threads, WriteAlive(t) PROVE Control'
<1> DEFINE last == th[t].queue = {MinOf(th[t].queue)}
<1>1. /\ OnlyThread(t)
      /\ th'[t].prog = (IF last THEN Tail(th[t].prog) ELSE th[t].prog)
      /\ th'[t].pend = IF last /\ th[t].pend.staged = {} THEN EmptyPending ELSE th[t].pend
  BY IdleShape DEF NumberInv, NumberTypes, OnlyThread, WriteAlive
<1>2. Running(t, "writeAlive") /\ lock' = lock /\ persisting' = persisting
  BY DEF WriteAlive
<1>3. CASE last
  BY <1>1, <1>2, <1>3, TailControl
<1>4. CASE ~last
  <2>1. Own(t, th'[t].prog, th'[t].pend, lock', persisting')
    BY <1>1, <1>2, <1>4, Now
  <2> QED BY <1>1, <1>2, <2>1, Others
<1> QED BY <1>3, <1>4

LEMMA PushControl ==
    ASSUME NumberInv, Control, NEW t \in Threads, Push(t) PROVE Control'
<1>1. OnlyThread(t) /\ th'[t].prog = Tail(th[t].prog)
  BY IdleShape DEF NumberInv, NumberTypes, OnlyThread, Push
<1> QED BY <1>1, TailControl DEF Push, Free, Passing

LEMMA PersistStepControl ==
    ASSUME NumberInv, Control, NEW t \in Threads, PersistStep(t) PROVE Control'
<1>1. OnlyThread(t) /\ th'[t].prog = Tail(th[t].prog) /\ th'[t].pend = th[t].pend
  BY IdleShape DEF NumberInv, NumberTypes, OnlyThread, PersistStep
<1> QED BY <1>1, TailControl DEF PersistStep, Keeping, Locked

LEMMA AdoptWrittenControl ==
    ASSUME NumberInv, Control, NEW t \in Threads, AdoptWritten(t) PROVE Control'
<1>1. OnlyThread(t) /\ th'[t].prog = Tail(th[t].prog) /\ th'[t].pend = th[t].pend
  BY IdleShape DEF NumberInv, NumberTypes, OnlyThread, AdoptWritten
<1> QED BY <1>1, TailControl DEF AdoptWritten, Keeping, Locked

LEMMA FoldRefusedControl ==
    ASSUME NumberInv, Control, NEW t \in Threads, FoldRefused(t) PROVE Control'
<1>1. OnlyThread(t) /\ th'[t].prog = Tail(th[t].prog) /\ th'[t].pend = th[t].pend
  BY IdleShape DEF NumberInv, NumberTypes, OnlyThread, FoldRefused
<1> QED BY <1>1, TailControl DEF FoldRefused, Keeping, Locked

LEMMA ChooseFoldsControl ==
    ASSUME NumberInv, Control, NEW t \in Threads, ChooseFolds(t) PROVE Control'
<1>1. OnlyThread(t) /\ th'[t].prog = Tail(th[t].prog) /\ th'[t].pend = th[t].pend
  BY IdleShape DEF NumberInv, NumberTypes, OnlyThread, ChooseFolds
<1>2. PICK l \in {"chooseMemory", "chooseAll"} : Running(t, l)
  BY DEF ChooseFolds
<1> QED BY <1>1, <1>2, TailControl DEF ChooseFolds, Keeping, Locked

\* The step done, on to the next one or back to rest.
LEMMA OnwardControl ==
    ASSUME NumberInv, Control, NEW t \in Threads, NEW l, Running(t, l),
           l \notin Keeping, l # "persist",
           th' = [th EXCEPT ![t] = Onward(@)], UNCHANGED persisting,
           lock' = lock \/ (lock' = NoThread /\ lock = t)
    PROVE  Control'
<1>1. CASE Len(th[t].prog) = 1
  <2>1. th' = [th EXCEPT ![t] = Idle]
    BY <1>1 DEF Onward
  <2> QED BY <2>1, IdleControl
<1>2. CASE Len(th[t].prog) # 1
  <2>1. Goto(t, Rest(t))
    BY <1>2 DEF Onward, Goto, Rest
  <2>2. OnlyThread(t) /\ th'[t].prog = Tail(th[t].prog) /\ th'[t].pend = th[t].pend
    BY <2>1, Went DEF Rest
  <2> QED BY <2>2, TailControl
<1> QED BY <1>1, <1>2

LEMMA UnlockControl ==
    ASSUME NumberInv, Control, NEW t \in Threads, Unlock(t) PROVE Control'
<1>1. Running(t, "unlock") /\ lock = t
  BY Now DEF Unlock, Locked
<1> QED BY <1>1, OnwardControl DEF Unlock, Keeping, Locked

LEMMA ReleaseControl ==
    ASSUME NumberInv, Control, NEW t \in Threads, Release(t) PROVE Control'
<1> DEFINE p == th[t].prog
<1>1. Running(t, "release")
  BY DEF Release
<1>2. /\ Own(t, Rest(t), th[t].pend, lock, persisting) /\ Rest(t) \in Program
      /\ Rest(t) # <<>> => Fits("release", Rest(t)[1])
      /\ Labels(p) = {"release"} \cup Labels(Rest(t))
  BY <1>1, Rests DEF Keeping
<1>3. Rest(t) = <<>>
  BY <1>2 DEF Fits
<1>4. /\ p \in Program /\ p # <<>> /\ lock = t
      /\ Own(t, p, th[t].pend, lock, persisting)
  BY <1>1, Now DEF Locked
<1>5. Len(p) = 1
  <2>1. ASSUME NEW q \in Program, q # <<>>, Tail(q) = <<>> PROVE Len(q) = 1
    <3>1. Len(q) \in Nat \ {0} /\ Len(Tail(q)) = Len(q) - 1
      BY <2>1 DEF Program
    <3>2. ASSUME NEW r \in Program, r = <<>> PROVE Len(r) = 0
      BY <3>2, SomeSteps
    <3>3. Tail(q) \in Program
      BY <2>1 DEF Program
    <3> QED BY <2>1, <3>1, <3>2, <3>3
  <2> QED BY <1>3, <1>4, <2>1 DEF Rest
<1>6. persisting = t
  BY <1>2, <1>3, <1>4, ShapeOfNone DEF Own, Within
<1>7. th' = [th EXCEPT ![t] = Idle] /\ lock' = NoThread /\ persisting' = NoThread
  BY <1>5 DEF Release, Onward
<1> QED BY <1>4, <1>6, <1>7, IdleControl

-----------------------------------------------------------------------------
\* Steps that put others before what is left.
LEMMA CollectStepControl ==
    ASSUME NumberInv, Control, NEW t \in Threads, CollectStep(t) PROVE Control'
<1> DEFINE q == Rest(t)
           b == landed # <<>>
           s == If(b, <<"land">>)
<1>1. OnlyThread(t) /\ th'[t].prog = s \o q /\ th'[t].pend = th[t].pend
  BY IdleShape DEF NumberInv, NumberTypes, OnlyThread, CollectStep
<1>2. Running(t, "collect") /\ lock' = t /\ lock \in {NoThread, t} /\ persisting' = persisting
  BY DEF CollectStep, Free
<1>3. /\ Own(t, q, th[t].pend, t, persisting)
      /\ q # <<>> => Fits("collect", q[1])
      /\ Labels(q) \cap Carrying # {} => "collect" \in Passing
  BY <1>2, RestsHeld
<1> HIDE DEF q
<1>4. q # <<>> => Fits("land", q[1])
  BY <1>3 DEF Fits, Keeping, Locked
<1>5. s = If(b, <<"land">>) /\ b \in BOOLEAN
  OBVIOUS
<1> HIDE DEF s, b
<1>6. Own(t, s \o q, th[t].pend, t, persisting)
  BY <1>3, <1>4, <1>5, StepNames, PutMaybe DEF Leads, Within, Passing, Carrying
<1> QED BY <1>1, <1>2, <1>6, Others

\* What collect does after the last of what had landed.
LEMMA LandedProgram ==
    ASSUME Control, NEW t \in Threads, Running(t, "land")
    PROVE  /\ Own(t, Rest(t), th[t].pend, lock, persisting) /\ Rest(t) \in Program
           /\ Own(t, <<"error">> \o Rest(t), th[t].pend, lock, persisting)
           /\ Own(t, <<"save">> \o Rest(t), th[t].pend, lock, persisting)
           /\ Own(t, <<"save">> \o (<<"error">> \o Rest(t)), th[t].pend, lock, persisting)
<1> DEFINE q == Rest(t)
           r == <<"error">> \o q
<1>1. /\ Own(t, q, th[t].pend, lock, persisting) /\ q \in Program
      /\ q # <<>> => Fits("land", q[1])
      /\ Labels(q) \cap Carrying # {} => "land" \in Passing
  BY Rests DEF Locked
<1>2. lock = t
  BY Now DEF Locked
<1> HIDE DEF q
<1>3. /\ q # <<>> => Fits("error", q[1])
      /\ q # <<>> => Fits("save", q[1])
      /\ Labels(q) \cap Carrying = {}
  BY <1>1 DEF Fits, Keeping, Locked, Passing
<1>4. Own(t, <<"save">> \o q, th[t].pend, lock, persisting)
  BY <1>1, <1>2, <1>3, StepNames, PutBefore DEF Leads, Within, Carrying
<1>5. /\ Own(t, r, th[t].pend, lock, persisting) /\ r # <<>> /\ r[1] = "error"
      /\ Labels(r) = {"error"} \cup Labels(q)
  BY <1>1, <1>2, <1>3, StepNames, PutBefore DEF Leads, Within, Carrying
<1> HIDE DEF r
<1>6. Fits("save", r[1]) /\ Labels(r) \cap Carrying = {}
  BY <1>3, <1>5 DEF Fits, Locked, Keeping, Carrying
<1>7. Own(t, <<"save">> \o r, th[t].pend, lock, persisting)
  BY <1>2, <1>5, <1>6, StepNames, PutBefore DEF Leads, Within, Carrying
<1> QED BY <1>1, <1>4, <1>5, <1>7 DEF q, r

LEMMA LandingControl ==
    ASSUME NumberInv, Control, NEW t \in Threads, LandBuilt(t) \/ LandFailed(t) PROVE Control'
<1> DEFINE more == Len(th[t].todo) > 1
           after(a, f) == (If(a, <<"save">>) \o If(f, <<"error">>)) \o Rest(t)
<1>1. Running(t, "land") /\ lock' = lock /\ persisting' = persisting
  BY ZenonT(30) DEF LandBuilt, LandFailed
<1>2. /\ OnlyThread(t) /\ th'[t].pend = th[t].pend
      /\ \/ th'[t].prog = Landed(t, TRUE, th[t].failed).prog
         \/ th'[t].prog = Landed(t, th[t].added, TRUE).prog
  <2>1. ASSUME NEW next, th' = [th EXCEPT ![t].prog = next.prog, ![t].added = next.added,
                                          ![t].failed = next.failed, ![t].todo = Tail(@)]
        PROVE  OnlyThread(t) /\ th'[t].pend = th[t].pend /\ th'[t].prog = next.prog
    BY <2>1, IdleShape DEF NumberInv, NumberTypes, OnlyThread
  <2>2. CASE LandBuilt(t)
    <3> DEFINE next == Landed(t, TRUE, th[t].failed)
    <3>1. th' = [th EXCEPT ![t].prog = next.prog, ![t].added = next.added,
                           ![t].failed = next.failed, ![t].todo = Tail(@)]
      BY <2>2, Zenon DEF LandBuilt
    <3> HIDE DEF next
    <3>2. OnlyThread(t) /\ th'[t].pend = th[t].pend /\ th'[t].prog = next.prog
      BY <2>1, <3>1, Zenon
    <3> QED BY <3>2, Zenon DEF next
  <2>3. CASE LandFailed(t)
    <3> DEFINE next == Landed(t, th[t].added, TRUE)
    <3>1. th' = [th EXCEPT ![t].prog = next.prog, ![t].added = next.added,
                           ![t].failed = next.failed, ![t].todo = Tail(@)]
      BY <2>3, Zenon DEF LandFailed
    <3> HIDE DEF next
    <3>2. OnlyThread(t) /\ th'[t].pend = th[t].pend /\ th'[t].prog = next.prog
      BY <2>1, <3>1, Zenon
    <3> QED BY <3>2, Zenon DEF next
  <2> QED BY <2>2, <2>3, Zenon
<1>3. ASSUME NEW s \in {<<>>, <<"save">>}, NEW e \in {<<>>, <<"error">>}
      PROVE  Own(t, (s \o e) \o Rest(t), th[t].pend, lock, persisting)
  <2>1. Rest(t) \in Program /\ <<"save">> \in Program /\ <<"error">> \in Program
    BY <1>1, LandedProgram, StepNames DEF Program
  <2>2. (<<"save">> \o <<"error">>) \o Rest(t) = <<"save">> \o (<<"error">> \o Rest(t))
    BY <2>1, Regroup
  <2>3. <<"save">> \o <<>> = <<"save">> /\ <<>> \o <<"error">> = <<"error">>
    BY <2>1, OfNone DEF Program
  <2>4. <<>> \o <<>> = <<>> /\ <<>> \o Rest(t) = Rest(t)
    BY <2>1, OfNone, ShapeOfNone DEF Program
  <2>5. CASE s = <<>> /\ e = <<>>
    BY <2>4, <2>5, <1>1, LandedProgram
  <2>6. CASE s = <<>> /\ e = <<"error">>
    BY <2>3, <2>6, <1>1, LandedProgram
  <2>7. CASE s = <<"save">> /\ e = <<>>
    BY <2>3, <2>7, <1>1, LandedProgram
  <2>8. CASE s = <<"save">> /\ e = <<"error">>
    BY <2>2, <2>8, <1>1, LandedProgram
  <2> QED BY <2>5, <2>6, <2>7, <2>8
<1>4. Own(t, th[t].prog, th[t].pend, lock, persisting)
  BY <1>1, Now
<1>5. /\ Landed(t, TRUE, th[t].failed).prog
              = IF more THEN th[t].prog ELSE after(TRUE, th[t].failed)
      /\ Landed(t, th[t].added, TRUE).prog
              = IF more THEN th[t].prog ELSE after(th[t].added, TRUE)
  BY DEF Landed
<1>6. /\ Own(t, after(TRUE, th[t].failed), th[t].pend, lock, persisting)
      /\ Own(t, after(th[t].added, TRUE), th[t].pend, lock, persisting)
  <2>1. /\ If(TRUE, <<"save">>) = <<"save">> /\ If(TRUE, <<"error">>) = <<"error">>
        /\ If(th[t].failed, <<"error">>) \in {<<>>, <<"error">>}
        /\ If(th[t].added, <<"save">>) \in {<<>>, <<"save">>}
    BY DEF If
  <2> QED BY <1>3, <2>1
<1> HIDE DEF after, more
<1>7. Own(t, th'[t].prog, th'[t].pend, lock', persisting')
  BY <1>1, <1>2, <1>4, <1>5, <1>6
<1> QED BY <1>1, <1>2, <1>7, Others, SMTT(30)

LEMMA SaveControl ==
    ASSUME NumberInv, Control, NEW t \in Threads, Save(t) PROVE Control'
<1> DEFINE q == Rest(t)
           b == pending_erase # {}
           s == If(b, <<"erase">>)
           pend2 == Spent(th[t].pend)
<1>1. OnlyThread(t) /\ th'[t].prog = s \o q /\ th'[t].pend = pend2
  BY IdleShape DEF NumberInv, NumberTypes, OnlyThread, Save
<1>2. PICK l \in {"save", "saveIfDirty"} : Running(t, l)
  BY DEF Save
<1>3. lock' = lock /\ persisting' = persisting /\ lock = t
  BY <1>2, Now DEF Save, Locked
<1>4. pend2 = th[t].pend \/ th[t].pend.staged = {}
  BY DEF Spent
<1>5. /\ Own(t, q, pend2, t, persisting)
      /\ q # <<>> => Fits(l, q[1])
  <2> HIDE DEF pend2
  <2> QED BY <1>2, <1>4, RestsHeld
<1>8. s = If(b, <<"erase">>) /\ b \in BOOLEAN
  OBVIOUS
<1> HIDE DEF q, pend2, s, b
<1>6. q # <<>> => Fits("erase", q[1])
  BY <1>2, <1>5 DEF Fits, Keeping, Locked
<1>7. Own(t, s \o q, pend2, t, persisting)
  BY <1>5, <1>6, <1>8, StepNames, PutMaybe DEF Leads, Within, Passing, Carrying
<1> QED BY <1>1, <1>3, <1>7, Others

LEMMA InstallControl ==
    ASSUME NumberInv, Control, NEW t \in Threads, Install(t) PROVE Control'
<1> DEFINE q == Rest(t)
<1>1. OnlyThread(t) /\ th'[t].prog = <<"save">> \o q /\ th'[t].pend = EmptyPending
  BY IdleShape DEF NumberInv, NumberTypes, OnlyThread, Install, Rest
<1>2. Running(t, "install") /\ lock' = t /\ lock \in {NoThread, t} /\ persisting' = persisting
  BY DEF Install, Free
<1>3. /\ Own(t, q, EmptyPending, t, persisting)
      /\ q # <<>> => Fits("install", q[1])
      /\ Labels(q) \cap Carrying # {} => "install" \in Passing
  BY <1>2, RestsHeld DEF Passing
<1> HIDE DEF q
<1>4. q # <<>> => Fits("save", q[1])
  BY <1>3 DEF Fits, Keeping, Locked
<1>5. Own(t, <<"save">> \o q, EmptyPending, t, persisting)
  BY <1>3, <1>4, StepNames, PutBefore DEF Leads, Within, Passing, Carrying
<1> QED BY <1>1, <1>2, <1>5, Others

LEMMA DispatchControl ==
    ASSUME NumberInv, Control, NEW t \in Threads, Dispatch(t) PROVE Control'
<1> DEFINE q == Rest(t)
           full == Cardinality(DOMAIN flights) >= MaxBuilding
           r == <<"install">> \o q
<1>1. /\ OnlyThread(t) /\ th'[t].prog = If(full, <<"writeSeg", "install">>) \o q
      /\ th'[t].pend = IF full THEN th[t].pend ELSE EmptyPending
  BY IdleShape DEF NumberInv, NumberTypes, OnlyThread, Dispatch, Rest
<1>2. Running(t, "dispatch") /\ lock' = lock /\ lock = t /\ persisting' = persisting
  BY Now DEF Dispatch, Locked
<1>3. /\ Own(t, q, th[t].pend, lock, persisting) /\ Own(t, q, EmptyPending, lock, persisting)
      /\ q \in Program
      /\ q # <<>> => Fits("dispatch", q[1])
      /\ Labels(q) \cap Carrying # {} => "dispatch" \in Passing
      /\ Labels(th[t].prog) = {"dispatch"} \cup Labels(q)
  BY <1>2, Rests DEF Passing, Locked
<1>4. th[t].pend.staged # {} /\ th[t].pend.number # 0
  BY <1>2, <1>3, Now DEF Own, Carrying
<1> HIDE DEF q
<1>5. q # <<>> => Fits("install", q[1])
  BY <1>3 DEF Fits, Keeping, Locked
<1>6. Own(t, r, th[t].pend, lock, persisting) /\ r # <<>> /\ r[1] = "install"
  BY <1>3, <1>4, <1>5, StepNames, PutBefore DEF Leads, Within, Passing, Carrying, Locked
<1> HIDE DEF r
<1>7. Own(t, <<"writeSeg">> \o r, th[t].pend, lock, persisting)
  BY <1>4, <1>6, StepNames, PutBefore DEF Leads, Within, Passing, Carrying, Locked, Fits, Keeping
<1>8. "writeSeg" \in Steps /\ "install" \in Steps
  BY StepNames
<1>9. CASE full
  <2>1. If(full, <<"writeSeg", "install">>) \o q = <<"writeSeg">> \o r
    BY <1>3, <1>8, <1>9, OfTwo DEF If, r
  <2> QED BY <1>1, <1>2, <1>7, <1>9, <2>1, Others
<1>10. CASE ~full
  <2>1. If(full, <<"writeSeg", "install">>) \o q = q
    BY <1>3, <1>10, OfNone DEF If, Program
  <2> QED BY <1>1, <1>2, <1>3, <1>10, <2>1, Others
<1> QED BY <1>9, <1>10

LEMMA ForgetKillControl ==
    ASSUME NumberInv, Control, NEW t \in Threads, ForgetKill(t) PROVE Control'
<1> DEFINE q == Rest(t)
           some == <<"writeDirty", "forgetEmpty", "save">>
           r3 == <<"save">> \o q
           r2 == <<"forgetEmpty">> \o r3
           r1 == <<"writeDirty">> \o r2
<1>1. /\ OnlyThread(t) /\ th'[t].pend = th[t].pend
      /\ th'[t].prog = some \o q \/ th'[t].prog = <<>> \o q
  <2>1. PICK b : Goto(t, If(b, some) \o q)
    BY DEF ForgetKill
  <2>2. OnlyThread(t) /\ th'[t].prog = If(b, some) \o q /\ th'[t].pend = th[t].pend
    BY <2>1, Went
  <2> QED BY <2>2 DEF If
<1>2. Running(t, "forget") /\ lock' = lock /\ lock = t /\ persisting' = persisting
  BY Now DEF ForgetKill, Locked
<1>3. /\ Own(t, q, th[t].pend, lock, persisting) /\ q \in Program
      /\ q # <<>> => Fits("forget", q[1])
      /\ Labels(q) \cap Carrying # {} => "forget" \in Passing
  <2>1. "forget" \in Locked /\ "forget" # "persist"
    BY DEF Locked
  <2> QED BY <1>2, <2>1, Rests
<1> HIDE DEF q
<1>4. /\ q # <<>> => Fits("save", q[1])
      /\ Labels(q) \cap Carrying = {}
  BY <1>3 DEF Fits, Keeping, Locked, Passing
<1>5. /\ Own(t, r3, th[t].pend, lock, persisting) /\ r3 # <<>> /\ r3[1] = "save"
      /\ Labels(r3) \cap Carrying = {}
  BY <1>2, <1>3, <1>4, StepNames, PutBefore DEF Leads, Within, Carrying
<1> HIDE DEF r3
<1>6. /\ Own(t, r2, th[t].pend, lock, persisting) /\ r2 # <<>> /\ r2[1] = "forgetEmpty"
      /\ Labels(r2) \cap Carrying = {}
  BY <1>2, <1>5, StepNames, PutBefore DEF Leads, Within, Carrying, Fits, Keeping, Locked
<1> HIDE DEF r2
<1>7. Own(t, r1, th[t].pend, lock, persisting)
  BY <1>2, <1>6, StepNames, PutBefore DEF Leads, Within, Carrying, Fits, Keeping, Locked
<1> HIDE DEF r1
<1>8. "writeDirty" \in Steps /\ "forgetEmpty" \in Steps /\ "save" \in Steps
  BY StepNames
<1>9. some \o q = r1
  BY <1>3, <1>8, OfThree, SMTT(60) DEF r1, r2, r3
<1>10. <<>> \o q = q
  BY <1>3, OfNone DEF Program
<1>11. Own(t, th'[t].prog, th'[t].pend, lock', persisting')
  BY <1>1, <1>2, <1>3, <1>7, <1>9, <1>10
<1> QED BY <1>1, <1>2, <1>11, Others


-----------------------------------------------------------------------------
\* What a flush does once it has taken what it carries.
LEMMA RegroupMore ==
    ASSUME NEW a \in Program, NEW b \in Program, NEW c \in Program, NEW q \in Program
    PROVE  /\ (a \o b) \o c \in Program
           /\ ((a \o b) \o c) \o q = a \o (b \o (c \o q))
<1> DEFINE h == a \o b
           r == c \o q
<1>1. h \in Program /\ r \in Program
  BY DEF Program
<1>2. h \o r = a \o (b \o r)
  <2> HIDE DEF r
  <2> QED BY <1>1, ConcatAssociative, SMTT(30) DEF h, Program
<1>3. h \o c \in Program /\ (h \o c) \o q = h \o r
  <2> HIDE DEF h
  <2> QED BY <1>1, ConcatAssociative, ConcatProperties, SMTT(30) DEF r, Program
<1> QED BY <1>2, <1>3

LEMMA Prepared ==
    ASSUME NumberInv, NEW t \in Threads, NEW mode, Prepare(t, mode)
    PROVE  \E pend : \E save \in BOOLEAN :
              /\ OnlyThread(t) /\ th'[t].prog = AfterPrepare(mode, pend, save) \o Rest(t)
              /\ th'[t].pend = pend /\ th'[t].snap = th[t].snap /\ th'[t].todo = th[t].todo
              /\ th'[t].durable = th[t].durable
              /\ pend.number \in {0, next_segment}
              /\ pend.staged # {} =>
                    pend.number = next_segment /\ next_segment' = next_segment + 1
              /\ pend.number # 0 => pend.staged # {}
              /\ next_segment' \in {next_segment, next_segment + 1}
<1> DEFINE nothing == staged = {} /\ hidden = {} /\ dirty_alive = {}
           live1   == [n \in DOMAIN segments |-> segments[n].alive \ HiddenKills(n)]
           staged1 == {e \in staged : ~Covers(hidden, e.path)}
           staged2 == staged1 \ Unchanged(live1, staged1)
           live2   == [n \in DOMAIN segments |->
                         {r \in live1[n] : Key(r) \notin KeysOf(staged2)}]
           touched == {n \in DOMAIN segments : live2[n] # segments[n].alive}
           takes   == /\ staged2 # {}
                      /\ mode = "overflow" => Cardinality(staged2) >= MaxStaged
           empty   == IF nothing THEN {} ELSE Emptied(live2)
           bits    == Without(DirtyAlive(dirty_alive \cup touched, live2), empty)
           dirty   == \/ meta_dirty
                      \/ takes /\ Durable(mode)
                      \/ empty \ unwritten # {}
           save    == Durable(mode) /\ dirty
           carried == [staged     |-> IF takes THEN staged2 ELSE {},
                       number     |-> IF takes THEN next_segment ELSE 0,
                       generation |-> IF takes THEN generation ELSE 0,
                       alive      |-> IF Durable(mode) THEN bits ELSE <<>>,
                       prefixes   |-> hidden,
                       restore    |-> TRUE]
           p       == IF save THEN carried ELSE Spent(carried)
<1>1. /\ th' = [th EXCEPT ![t].prog = AfterPrepare(mode, p, save) \o Rest(t), ![t].pend = p,
                         ![t].queue = DOMAIN p.alive]
      /\ next_segment' = IF takes THEN next_segment + 1 ELSE next_segment
  BY DEF Prepare
<1>2. takes => staged2 # {}
  OBVIOUS
<1>3. /\ p.number = 0 \/ (takes /\ p.number = next_segment)
      /\ p.staged # {} => takes /\ p.number = next_segment
      /\ p.number # 0 => p.staged # {}
  <2>1. EmptyPending.staged = {} /\ EmptyPending.number = 0
    BY DEF EmptyPending
  <2> HIDE DEF takes, save, staged2, bits
  <2>2. /\ carried.number = IF takes THEN next_segment ELSE 0
        /\ carried.staged = IF takes THEN staged2 ELSE {}
    OBVIOUS
  <2> HIDE DEF carried
  <2> QED BY <1>2, <2>1, <2>2 DEF Spent
<1>4. save \in BOOLEAN
  BY DEF Durable
<1> HIDE DEF takes, p, save
<1>5. /\ OnlyThread(t) /\ th'[t].prog = AfterPrepare(mode, p, save) \o Rest(t)
      /\ th'[t].pend = p /\ th'[t].snap = th[t].snap
      /\ th'[t].todo = th[t].todo /\ th'[t].durable = th[t].durable
  BY <1>1, IdleShape DEF NumberInv, NumberTypes, OnlyThread
<1> QED BY <1>1, <1>3, <1>4, <1>5

\* A segment to write, and its place in the list, put before what is left.
LEMMA WriteBefore ==
    ASSUME NEW t, NEW q, NEW pend, NEW lk, NEW ps, Own(t, q, pend, lk, ps),
           Labels(q) \cap Carrying = {}, q # <<>> => Fits("install", q[1]),
           pend.staged # {}, pend.number # 0
    PROVE  /\ Own(t, <<"writeSeg">> \o (<<"install">> \o q), pend, lk, ps)
           /\ <<"writeSeg">> \o (<<"install">> \o q) # <<>>
           /\ (<<"writeSeg">> \o (<<"install">> \o q))[1] = "writeSeg"
<1> DEFINE r == <<"install">> \o q
<1>1. Own(t, r, pend, lk, ps) /\ r # <<>> /\ r[1] = "install"
  BY StepNames, PutBefore DEF Leads, Within, Passing, Carrying, Locked
<1> HIDE DEF r
<1>2. /\ Own(t, <<"writeSeg">> \o r, pend, lk, ps) /\ <<"writeSeg">> \o r # <<>>
      /\ (<<"writeSeg">> \o r)[1] = "writeSeg"
  BY <1>1, StepNames, PutBefore DEF Leads, Within, Passing, Carrying, Locked, Fits, Keeping
<1> QED BY <1>2 DEF r

LEMMA WriteAliveBefore ==
    ASSUME NEW t, NEW x, NEW pend, NEW lk, NEW ps, Own(t, x, pend, lk, ps),
           x # <<>> => Fits("writeAlive", x[1]),
           NEW write \in BOOLEAN, NEW w, w = If(write, <<"writeAlive">>)
    PROVE  /\ Own(t, w \o x, pend, lk, ps)
           /\ \/ w \o x = x
              \/ /\ (w \o x)[1] = "writeAlive"
                 /\ Holds(w \o x) <=> x # <<>> /\ x[1] \in Locked
<1>1. /\ "writeAlive" \in Steps /\ "writeAlive" \notin Leads \cup Within \cup Locked \cup Carrying
      /\ "writeAlive" \in Passing
  BY StepNames DEF Leads, Within, Passing, Carrying, Locked
<1> QED BY <1>1, PutMaybe, ZenonT(30)

\* The bitmaps to write, and the manifest before them, put before what is left.
LEMMA SaveWriteBefore ==
    ASSUME NEW t, NEW x, NEW pend, NEW ps, Own(t, x, pend, t, ps),
           x # <<>> => Fits("writeAlive", x[1]) /\ Fits("save", x[1]),
           NEW save \in BOOLEAN, NEW write \in BOOLEAN
    PROVE  Own(t, If(save, <<"save">>) \o (If(write, <<"writeAlive">>) \o x), pend, t, ps)
<1> DEFINE s == If(save, <<"save">>)
           w == If(write, <<"writeAlive">>)
           y == w \o x
<1>1. s = If(save, <<"save">>) /\ w = If(write, <<"writeAlive">>)
  OBVIOUS
<1> HIDE DEF s, w
<1>2. /\ Own(t, y, pend, t, ps)
      /\ y = x \/ y[1] = "writeAlive"
  <2>1. /\ "writeAlive" \in Steps /\ "writeAlive" \notin Leads \cup Within \cup Locked \cup Carrying
        /\ "writeAlive" \in Passing
    BY StepNames DEF Leads, Within, Passing, Carrying, Locked
  <2> QED BY <1>1, <2>1, PutMaybe, ZenonT(30)
<1> HIDE DEF y
<1>3. y # <<>> => Fits("save", y[1])
  BY <1>2 DEF Fits, Keeping, Locked
<1>4. Own(t, s \o y, pend, t, ps)
  <2>1. /\ "save" \in Steps /\ "save" \notin Leads \cup Within \cup Carrying
        /\ "save" \in Passing
    BY StepNames DEF Leads, Within, Passing, Carrying
  <2> QED BY <1>1, <1>2, <1>3, <2>1, PutMaybe
<1> QED BY <1>4 DEF s, w, y

LEMMA AfterCommit ==
    ASSUME NEW t, NEW q, NEW pend, NEW ps, Own(t, q, pend, t, ps),
           Labels(q) \cap Carrying = {}, q # <<>> => Fits("commit", q[1]),
           pend.staged # {} => pend.number # 0, NEW save \in BOOLEAN
    PROVE  Own(t, AfterPrepare("commit", pend, save) \o q, pend, t, ps)
<1> DEFINE built == pend.staged # {}
           write == pend.alive # <<>>
           wiu   == <<"writeSeg", "install", "unlock">>
           s == If(save, <<"save">>)
           u == <<"unlock">>
           w == If(write, <<"writeAlive">>)
           b == If(built, wiu)
           x1 == b \o q
           x2 == w \o x1
           x3 == u \o x2
<1>1. q \in Program /\ (q # <<>> => /\ Fits("unlock", q[1]) /\ Fits("writeAlive", q[1])
                                    /\ q[1] \notin Locked \cup {"writeAlive"})
  BY DEF Own, Fits, Keeping, Locked
<1>2. s \in Program /\ u \in Program /\ w \in Program /\ b \in Program /\ wiu \in Program
  BY StepNames, ShapeOfNone DEF If, Program
<1>3. AfterPrepare("commit", pend, save) = ((s \o u) \o w) \o b
  BY DEF AfterPrepare
<1>4. (((s \o u) \o w) \o b) \o q = s \o x3
  <2> DEFINE h == (s \o u) \o w
  <2> HIDE DEF s, u, w, b
  <2>1. x1 \in Program
    BY <1>1, <1>2, Regroup
  <2>2. h \in Program
    BY <1>1, <1>2, RegroupMore
  <2>3. (h \o b) \o q = h \o x1
    <3>1. b \in Program /\ q \in Program
      BY <1>1, <1>2
    <3> HIDE DEF h
    <3> QED BY <2>2, <3>1, Regroup
  <2>4. h \o x1 = s \o (u \o (w \o x1))
    <3> HIDE DEF x1
    <3>1. s \in Program /\ u \in Program /\ w \in Program
      BY <1>2
    <3> QED BY <2>1, <3>1, SMTT(30) DEF Program, h
  <2> QED BY <2>3, <2>4
<1>5. Own(t, x1, pend, t, ps) /\ (x1 = q \/ (x1 # <<>> /\ x1[1] = "writeSeg"))
  <2>1. CASE built
    <3> DEFINE y == <<"unlock">> \o q
    <3>0. /\ "unlock" \in Steps /\ "unlock" \notin Leads \cup Within \cup Carrying
          /\ "unlock" \in Passing
      BY StepNames DEF Leads, Within, Passing, Carrying
    <3>1. /\ Own(t, y, pend, t, ps) /\ y # <<>> /\ y[1] = "unlock"
          /\ Labels(y) = {"unlock"} \cup Labels(q) /\ y \in Program
      <4>1. /\ Own(t, y, pend, t, ps) /\ y # <<>> /\ y[1] = "unlock"
            /\ Labels(y) = {"unlock"} \cup Labels(q)
        BY <1>1, <3>0, PutBefore
      <4> QED BY <4>1 DEF Own
    <3>2. "writeSeg" \in Steps /\ "install" \in Steps /\ "unlock" \in Steps
      BY StepNames
    <3>3. x1 = <<"writeSeg">> \o (<<"install">> \o y)
      BY <1>1, <2>1, <3>2, OfThree DEF If
    <3> HIDE DEF y
    <3>4. Labels(y) \cap Carrying = {} /\ Fits("install", y[1])
      BY <3>1 DEF Carrying, Fits, Locked, Keeping
    <3> QED BY <2>1, <3>1, <3>3, <3>4, WriteBefore
  <2>2. CASE ~built
    BY <1>1, <2>2, OfNone DEF If, Program
  <2> QED BY <2>1, <2>2
<1>6. w = If(write, <<"writeAlive">>) /\ s = If(save, <<"save">>) /\ write \in BOOLEAN
  OBVIOUS
<1> HIDE DEF x1, w, s, write
<1>7. x1 # <<>> => Fits("writeAlive", x1[1]) /\ Fits("unlock", x1[1]) /\ x1[1] \notin Locked
                   /\ x1[1] # "writeAlive"
  BY <1>1, <1>5 DEF Fits, Locked, Keeping
<1>8. /\ Own(t, x2, pend, t, ps)
      /\ x2 = x1 \/ (x2[1] = "writeAlive" /\ (Holds(x2) <=> x1 # <<>> /\ x1[1] \in Locked))
  BY <1>5, <1>6, <1>7, WriteAliveBefore
<1> HIDE DEF x2
<1>9. x2 # <<>> => Fits("unlock", x2[1]) /\ (x2[1] = "writeAlive" => ~Holds(x2))
  BY <1>7, <1>8 DEF Fits, Locked, Keeping
<1>10. Own(t, x3, pend, t, ps) /\ x3 # <<>> /\ x3[1] = "unlock"
  BY <1>8, <1>9, StepNames, PutBefore DEF Leads, Within, Passing, Carrying
<1> HIDE DEF x3
<1>11. Own(t, s \o x3, pend, t, ps)
  <2>1. Fits("save", x3[1])
    BY <1>10 DEF Fits, Keeping, Locked
  <2> QED BY <1>6, <1>10, <2>1, StepNames, PutMaybe DEF Leads, Within, Passing, Carrying
<1> QED BY <1>3, <1>4, <1>11

LEMMA AfterFlush ==
    ASSUME NEW t, NEW q, NEW pend, NEW ps, Own(t, q, pend, t, ps),
           Labels(q) \cap Carrying = {},
           NEW mode \in {"flush", "overflow"}, q # <<>> => Fits(mode, q[1]),
           pend.staged # {} => pend.number # 0, NEW save \in BOOLEAN
    PROVE  Own(t, AfterPrepare(mode, pend, save) \o q, pend, t, ps)
<1> DEFINE built == pend.staged # {}
           write == pend.alive # <<>>
           work  == IF mode = "flush" THEN <<"writeSeg", "install">> ELSE <<"dispatch">>
           s == If(save, <<"save">>)
           w == If(write, <<"writeAlive">>)
           b == If(built, work)
           x == b \o q
<1>1. q \in Program /\ (q # <<>> => /\ Fits("install", q[1]) /\ Fits("dispatch", q[1])
                                    /\ Fits("writeAlive", q[1]) /\ Fits("save", q[1]))
  BY DEF Own, Fits, Keeping, Locked
<1>2. s \in Program /\ w \in Program /\ b \in Program
  BY StepNames, ShapeOfNone DEF If, Program
<1>3. AfterPrepare(mode, pend, save) = (s \o w) \o b
  BY DEF AfterPrepare
<1>4. ((s \o w) \o b) \o q = s \o (w \o x)
  <2> HIDE DEF s, w, b
  <2>1. ((s \o w) \o b) \o q = s \o (w \o (b \o q))
    <3>1. q \in Program
      BY <1>1
    <3>2. s \o w \in Program /\ b \o q \in Program
      BY <1>2, <3>1, Regroup
    <3>3. ((s \o w) \o b) \o q = (s \o w) \o (b \o q)
      <4> DEFINE h == s \o w
      <4>1. h \in Program
        BY <3>2
      <4> HIDE DEF h
      <4>2. (h \o b) \o q = h \o (b \o q)
        BY <1>2, <3>1, <4>1, ConcatAssociative, SMTT(30) DEF Program
      <4> QED BY <4>2 DEF h
    <3>4. (s \o w) \o (b \o q) = s \o (w \o (b \o q))
      <4> DEFINE h == b \o q
      <4>1. h \in Program
        BY <3>2
      <4> HIDE DEF h
      <4>2. (s \o w) \o h = s \o (w \o h)
        BY <1>2, <3>1, <4>1, ConcatAssociative, SMTT(30) DEF Program
      <4> QED BY <4>2 DEF h
    <3> QED BY <3>3, <3>4
  <2> QED BY <2>1
<1>5. Own(t, x, pend, t, ps) /\ (x = q \/ (x # <<>> /\ x[1] \in {"writeSeg", "dispatch"}))
  <2>1. CASE built /\ mode = "flush"
    <3>1. "writeSeg" \in Steps /\ "install" \in Steps
      BY StepNames
    <3>2. x = <<"writeSeg">> \o (<<"install">> \o q)
      BY <1>1, <2>1, <3>1, OfTwo DEF If
    <3> HIDE DEF x
    <3> QED BY <1>1, <2>1, <3>2, WriteBefore
  <2>2. CASE built /\ mode = "overflow"
    <3>1. x = <<"dispatch">> \o q
      BY <2>2 DEF If
    <3> HIDE DEF x
    <3> QED BY <1>1, <2>2, <3>1, StepNames, PutBefore DEF Leads, Within, Passing, Carrying
  <2>3. CASE ~built
    BY <1>1, <2>3, OfNone DEF If, Program
  <2> QED BY <2>1, <2>2, <2>3
<1>6. write \in BOOLEAN
  OBVIOUS
<1> HIDE DEF x, write
<1>7. x # <<>> => Fits("writeAlive", x[1]) /\ Fits("save", x[1])
  BY <1>1, <1>5 DEF Fits, Locked, Keeping
<1>8. Own(t, s \o (w \o x), pend, t, ps)
  BY <1>5, <1>6, <1>7, SaveWriteBefore
<1> QED BY <1>3, <1>4, <1>8

LEMMA AfterPublish ==
    ASSUME NEW t, NEW q, NEW pend, NEW ps, Own(t, q, pend, t, ps),
           Labels(q) \cap Carrying = {},
           NEW mode \in {"publish", "publishLocked"}, q # <<>> => Fits(mode, q[1]),
           pend.staged # {} => pend.number # 0, NEW save \in BOOLEAN
    PROVE  Own(t, AfterPrepare(mode, pend, save) \o q, pend, t, ps)
<1> DEFINE built == pend.staged # {}
           b == If(built, <<"push">>)
           c == If(built, <<"push", "unlock">>)
           x == c \o q
<1>1. q \in Program /\ (q # <<>> => Fits("push", q[1]) /\ q[1] # "writeAlive")
  BY DEF Own, Fits, Keeping, Locked
<1>2. CASE mode = "publishLocked"
  <2>1. AfterPrepare(mode, pend, save) = b
    BY <1>2 DEF AfterPrepare
  <2>2. b = If(built, <<"push">>) /\ built \in BOOLEAN
    OBVIOUS
  <2> HIDE DEF b
  <2>3. Own(t, b \o q, pend, t, ps)
    <3>1. /\ "push" \in Steps /\ "push" \notin Leads \cup Within \cup Locked
          /\ "push" # "unlock"
      BY StepNames DEF Leads, Within, Locked
    <3>2. CASE built
      <4>1. b = <<"push">>
        BY <2>2, <3>2 DEF If
      <4>2. Own(t, <<"push">> \o q, pend, t, ps)
        BY <1>1, <3>1, <3>2, PutBefore
      <4> QED BY <4>1, <4>2
    <3>3. CASE ~built
      <4>1. b \o q = q
        BY <1>1, <2>2, <3>3, OfNone DEF If, Program
      <4> QED BY <4>1
    <3> QED BY <3>2, <3>3
  <2> QED BY <2>1, <2>3
<1>3. CASE mode = "publish"
  <2>1. AfterPrepare(mode, pend, save) = <<"unlock">> \o c
    BY <1>3 DEF AfterPrepare
  <2>2. <<"unlock">> \in Program /\ c \in Program
    BY StepNames, ShapeOfNone DEF If, Program
  <2>3. (<<"unlock">> \o c) \o q = <<"unlock">> \o x
    <3> DEFINE u == <<"unlock">>
    <3>1. u \in Program
      BY <2>2
    <3> HIDE DEF u, c
    <3>2. (u \o c) \o q = u \o (c \o q)
      BY <1>1, <2>2, <3>1, Regroup
    <3> QED BY <3>2 DEF u
  <2>4. q # <<>> => Fits("unlock", q[1]) /\ q[1] \notin Locked
    BY <1>3 DEF Fits, Keeping, Locked
  <2>5. Own(t, x, pend, t, ps) /\ (x = q \/ (x # <<>> /\ x[1] = "push"))
    <3>1. CASE built
      <4> DEFINE y == <<"unlock">> \o q
      <4>0. /\ "unlock" \in Steps /\ "unlock" \notin Leads \cup Within \cup Carrying
            /\ "unlock" \in Passing
        BY StepNames DEF Leads, Within, Passing, Carrying
      <4>1. /\ Own(t, y, pend, t, ps) /\ y # <<>> /\ y[1] = "unlock"
            /\ Labels(y) = {"unlock"} \cup Labels(q) /\ y \in Program
        <5>1. /\ Own(t, y, pend, t, ps) /\ y # <<>> /\ y[1] = "unlock"
              /\ Labels(y) = {"unlock"} \cup Labels(q)
          BY <1>1, <2>4, <4>0, PutBefore
        <5> QED BY <5>1 DEF Own
      <4>2. "push" \in Steps /\ "unlock" \in Steps
        BY StepNames
      <4>3. x = <<"push">> \o y
        BY <1>1, <3>1, <4>2, OfTwo DEF If
      <4> HIDE DEF y, x
      <4>4. Labels(y) \cap Carrying = {} /\ Fits("push", y[1])
        BY <4>1 DEF Carrying, Fits, Locked, Keeping
      <4> QED BY <3>1, <4>1, <4>3, <4>4, StepNames, PutBefore
              DEF Leads, Within, Passing, Carrying, Locked
    <3>2. CASE ~built
      BY <1>1, <3>2, OfNone DEF If, Program
    <3> QED BY <3>1, <3>2
  <2> HIDE DEF x
  <2>6. x # <<>> => Fits("unlock", x[1]) /\ x[1] # "writeAlive"
    BY <1>1, <2>4, <2>5 DEF Fits, Locked, Keeping
  <2>7. Own(t, <<"unlock">> \o x, pend, t, ps)
    BY <2>5, <2>6, StepNames, PutBefore DEF Leads, Within, Passing, Carrying
  <2> QED BY <2>1, <2>3, <2>7
<1> QED BY <1>2, <1>3

LEMMA PrepareControl ==
    ASSUME NumberInv, Control, NEW t \in Threads, NEW mode \in Modes, Prepare(t, mode)
    PROVE  Control'
<1> DEFINE q == Rest(t)
<1>1. PICK pend : \E save \in BOOLEAN :
              /\ OnlyThread(t) /\ th'[t].prog = AfterPrepare(mode, pend, save) \o Rest(t)
              /\ th'[t].pend = pend
              /\ pend.staged # {} => pend.number = next_segment
  BY Prepared, SMTT(30)
<1>2. PICK save \in BOOLEAN :
              /\ OnlyThread(t) /\ th'[t].prog = AfterPrepare(mode, pend, save) \o q
              /\ th'[t].pend = pend
              /\ pend.staged # {} => pend.number = next_segment
  BY <1>1
<1>3. /\ Running(t, mode) /\ lock' = lock /\ persisting' = persisting
      /\ mode \in Locked /\ mode \notin Passing /\ mode # "persist"
  BY DEF Prepare, Modes, Locked, Passing
<1>4. lock = t
  BY <1>3, Now
<1>5. /\ Own(t, q, pend, t, persisting)
      /\ q # <<>> => Fits(mode, q[1])
      /\ Labels(q) \cap Carrying = {}
  BY <1>3, RestsHeld
<1>6. pend.staged # {} => pend.number # 0
  BY <1>2, HeldNumbers
<1> HIDE DEF q
<1>7. Own(t, AfterPrepare(mode, pend, save) \o q, pend, t, persisting)
  <2>1. CASE mode = "commit"
    BY <1>5, <1>6, <2>1, AfterCommit
  <2>2. CASE mode \in {"flush", "overflow"}
    BY <1>5, <1>6, <2>2, AfterFlush
  <2>3. CASE mode \in {"publish", "publishLocked"}
    BY <1>5, <1>6, <2>3, AfterPublish
  <2> QED BY <2>1, <2>2, <2>3 DEF Modes
<1> QED BY <1>2, <1>3, <1>4, <1>7, Others, ZenonT(30)

-----------------------------------------------------------------------------
\* persist_unwritten: whoever is inside it holds its mutex.
LEMMA Inside ==
    ASSUME Control, NEW t \in Threads, NEW l \in {"groups", "writeEach", "writeOne", "adoptOne"},
           Running(t, l)
    PROVE  /\ th[t].prog \in Program /\ th[t].prog # <<>> /\ th[t].prog[1] = l
           /\ Own(t, th[t].prog, th[t].pend, lock, persisting)
           /\ "persist" \notin Labels(th[t].prog) /\ Labels(th[t].prog) \cap Carrying = {}
           /\ persisting = t
<1> DEFINE p == th[t].prog
<1>1. /\ p \in Program /\ Shape(p) /\ p # <<>> /\ p[1] = l
      /\ Own(t, p, th[t].pend, lock, persisting)
  BY Now
<1> HIDE DEF p
<1>2. /\ Labels(p) = {l} \cup Labels(Tail(p))
      /\ Labels(Tail(p)) \cap Carrying # {} => l \in Passing
      /\ "persist" \in Labels(Tail(p)) => l \notin Within
  BY <1>1, ShapeOfTail
<1>3. "persist" \notin Labels(p) /\ Labels(p) \cap Carrying = {} /\ Labels(p) \cap Within # {}
  BY <1>2 DEF Within, Passing, Carrying
<1>4. persisting = t
  BY <1>1, <1>3 DEF Own
<1> QED BY <1>1, <1>3, <1>4 DEF p

LEMMA PersistGroupControl ==
    ASSUME NumberInv, Control, NEW t \in Threads, PersistGroup(t) PROVE Control'
<1> DEFINE p == th[t].prog
           x == <<"writeEach">> \o p
<1>1. Running(t, "groups") /\ lock' = lock /\ persisting' = persisting
  BY DEF PersistGroup
<1>2. CASE th[t].groups = {}
  BY <1>1, <1>2, GoneOnControl DEF PersistGroup, Keeping, Locked
<1>3. CASE th[t].groups # {}
  <2>1. PICK g \in th[t].groups :
           th' = [th EXCEPT
                    ![t].prog = If(Cardinality(g) > 1, Fold) \o <<"writeEach">> \o @,
                    ![t].groups = @ \ {g}, ![t].group = g, ![t].queue = g,
                    ![t].folded = FALSE]
    BY <1>3 DEF PersistGroup
  <2>2. /\ OnlyThread(t) /\ th'[t].pend = th[t].pend
        /\ th'[t].prog = (If(Cardinality(g) > 1, Fold) \o <<"writeEach">>) \o p
    BY <2>1, IdleShape DEF NumberInv, NumberTypes, OnlyThread
  <2>3. /\ p \in Program /\ p # <<>> /\ p[1] = "groups"
        /\ Own(t, p, th[t].pend, lock, persisting)
        /\ "persist" \notin Labels(p) /\ Labels(p) \cap Carrying = {} /\ persisting = t
    BY <1>1, Inside
  <2> HIDE DEF p
  <2>4. /\ Own(t, x, th[t].pend, lock, persisting) /\ x # <<>> /\ x[1] = "writeEach"
        /\ Labels(x) = {"writeEach"} \cup Labels(p) /\ x \in Program
    <3>1. Fits("writeEach", p[1])
      BY <2>3 DEF Fits, Locked, Keeping
    <3> QED BY <2>3, <3>1, StepNames, PutBefore DEF Leads, Carrying, Locked, Own
  <2>5. Labels(x) \cap Carrying = {} /\ Fits("foldSwap", x[1])
    BY <2>3, <2>4 DEF Carrying, Fits, Locked, Keeping
  <2>6. Own(t, Fold \o x, th[t].pend, lock, persisting) /\ Fold \in Program
    <3> HIDE DEF x
    <3> QED BY <2>4, <2>5, FoldBefore
  <2>7. <<"writeEach">> \in Program
    BY StepNames DEF Program
  <2>8. /\ (Fold \o <<"writeEach">>) \o p = Fold \o x
        /\ (<<>> \o <<"writeEach">>) \o p = x
    BY <2>3, <2>6, <2>7, Regroup, OfNone DEF Program
  <2>9. th'[t].prog = Fold \o x \/ th'[t].prog = x
    BY <2>2, <2>8 DEF If
  <2> HIDE DEF x
  <2>10. Own(t, th'[t].prog, th'[t].pend, lock', persisting')
    BY <1>1, <2>2, <2>4, <2>6, <2>9
  <2> QED BY <1>1, <2>2, <2>10, Others
<1> QED BY <1>2, <1>3, SMTT(30)

LEMMA WriteUnwrittenReadControl ==
    ASSUME NumberInv, Control, NEW t \in Threads, WriteUnwrittenRead(t) PROVE Control'
<1> DEFINE p == th[t].prog
           todo == IF th[t].folded THEN {} ELSE th[t].queue
           n    == MinOf(todo)
           due  == n \in DOMAIN segments /\ n \in unwritten
           x == <<"adoptOne">> \o p
           y == <<"writeOne">> \o x
<1>1. Running(t, "writeEach") /\ lock' = lock /\ persisting' = persisting
  BY DEF WriteUnwrittenRead
<1>2. CASE todo = {}
  <2>1. th' = [th EXCEPT ![t].prog = Tail(@), ![t].queue = {}, ![t].group = {},
                         ![t].folded = TRUE]
    BY <1>2 DEF WriteUnwrittenRead
  <2>2. OnlyThread(t) /\ th'[t].prog = Tail(p) /\ th'[t].pend = th[t].pend
    BY <2>1, IdleShape, SMTT(30) DEF NumberInv, NumberTypes, OnlyThread
  <2> QED BY <1>1, <2>2, TailControl DEF Keeping, Locked
<1>3. CASE todo # {}
  <2>1. PICK s : th' = [th EXCEPT ![t].queue = @ \ {n},
                                  ![t].prog = If(due, <<"writeOne", "adoptOne">>) \o @,
                                  ![t].snap = s]
    BY <1>3 DEF WriteUnwrittenRead
  <2>2. /\ OnlyThread(t) /\ th'[t].pend = th[t].pend
        /\ th'[t].prog = If(due, <<"writeOne", "adoptOne">>) \o p
    <3> HIDE DEF due, n, todo
    <3> QED BY <2>1, IdleShape DEF NumberInv, NumberTypes, OnlyThread
  <2> HIDE DEF due
  <2>3. /\ p \in Program /\ p # <<>> /\ p[1] = "writeEach"
        /\ Own(t, p, th[t].pend, lock, persisting)
        /\ "persist" \notin Labels(p) /\ Labels(p) \cap Carrying = {} /\ persisting = t
    BY <1>1, Inside
  <2> HIDE DEF p
  <2>4. /\ Own(t, x, th[t].pend, lock, persisting) /\ x # <<>> /\ x[1] = "adoptOne"
        /\ Labels(x) = {"adoptOne"} \cup Labels(p)
    <3>1. Fits("adoptOne", p[1])
      BY <2>3 DEF Fits, Locked, Keeping
    <3> QED BY <2>3, <3>1, StepNames, PutBefore DEF Leads, Carrying, Locked
  <2>5. Own(t, y, th[t].pend, lock, persisting)
    <3>1. Fits("writeOne", x[1]) /\ Labels(x) \cap Carrying = {} /\ "persist" \notin Labels(x)
      BY <2>3, <2>4 DEF Fits, Locked, Keeping, Carrying
    <3> HIDE DEF x
    <3> QED BY <2>3, <2>4, <3>1, StepNames, PutBefore DEF Leads, Carrying, Locked
  <2>6. "writeOne" \in Steps /\ "adoptOne" \in Steps
    BY StepNames
  <2>7. <<"writeOne", "adoptOne">> \o p = y /\ <<>> \o p = p
    BY <2>3, <2>6, OfTwo, OfNone DEF Program
  <2>8. th'[t].prog = y \/ th'[t].prog = p
    BY <2>2, <2>7 DEF If
  <2> HIDE DEF y, x
  <2>9. Own(t, th'[t].prog, th'[t].pend, lock', persisting')
    BY <1>1, <2>2, <2>3, <2>5, <2>8
  <2> QED BY <1>1, <2>2, <2>9, Others
<1> QED BY <1>2, <1>3

LEMMA TakeDirtyControl ==
    ASSUME NumberInv, Control, NEW t \in Threads, TakeDirty(t) PROVE Control'
<1> DEFINE q == Rest(t)
           bits == DirtyAlive(dirty_alive, [n \in DOMAIN segments |-> segments[n].alive])
           b == bits # <<>>
           s == If(b, <<"writeAlive">>)
           pend2 == [EmptyPending EXCEPT !.alive = bits]
<1>1. OnlyThread(t) /\ th'[t].prog = s \o q /\ th'[t].pend = pend2
  BY IdleShape DEF NumberInv, NumberTypes, OnlyThread, TakeDirty, Rest
<1>2. /\ Running(t, "writeDirty") /\ lock' = t /\ lock \in {NoThread, t}
      /\ persisting' = persisting
  BY DEF TakeDirty, Free
<1> HIDE DEF pend2
<1>3. /\ Own(t, q, pend2, t, persisting)
      /\ q # <<>> => Fits("writeDirty", q[1])
      /\ Labels(q) \cap Carrying # {} => "writeDirty" \in Passing
  BY <1>2, RestsHeld DEF Passing
<1>4. s = If(b, <<"writeAlive">>) /\ b \in BOOLEAN
  OBVIOUS
<1> HIDE DEF q, s, b
<1>5. q # <<>> => Fits("writeAlive", q[1])
  BY <1>3 DEF Fits, Keeping, Locked
<1>6. Own(t, s \o q, pend2, t, persisting)
  BY <1>3, <1>4, <1>5, StepNames, PutMaybe DEF Leads, Within, Passing, Carrying, Locked
<1> QED BY <1>1, <1>2, <1>6, Others

-----------------------------------------------------------------------------
\* Folds.
LEMMA DropOne ==
    ASSUME NEW p \in Program, NEW k \in 0..(Len(p) - 1)
    PROVE  /\ Drop(p, k) \in Program /\ Drop(p, k) # <<>>
           /\ Tail(Drop(p, k)) = Drop(p, k + 1)
<1>1. Len(p) \in Nat /\ DOMAIN p = 1..Len(p)
  BY SomeSteps
<1>2. ASSUME NEW j \in 0..Len(p)
      PROVE  /\ Drop(p, j) \in Program /\ Len(Drop(p, j)) = Len(p) - j
             /\ \A i \in 1..(Len(p) - j) : Drop(p, j)[i] = p[j + i]
  <2>1. \A i \in (j + 1)..Len(p) : p[i] \in Steps
    BY <1>1 DEF Program
  <2>2. /\ SubSeq(p, j + 1, Len(p)) \in Seq(Steps)
        /\ Len(SubSeq(p, j + 1, Len(p))) = IF j + 1 <= Len(p) THEN Len(p) - (j + 1) + 1 ELSE 0
        /\ \A i \in 1..(Len(p) - (j + 1) + 1) :
              SubSeq(p, j + 1, Len(p))[i] = p[(j + 1) + i - 1]
    BY <1>1, <2>1, SubSeqProperties
  <2> DEFINE d == SubSeq(p, j + 1, Len(p))
  <2>3. Len(d) = Len(p) - j /\ \A i \in 1..(Len(p) - j) : d[i] = p[j + i]
    <3>1. \A i \in 1..(Len(p) - j) : i \in 1..(Len(p) - (j + 1) + 1) /\ (j + 1) + i - 1 = j + i
      BY <1>1
    <3>2. \A i \in 1..(Len(p) - j) : d[i] = p[(j + 1) + i - 1]
      BY <2>2, <3>1
    <3> DEFINE n == Len(p)
               m == Len(d)
    <3>3. m = (IF j + 1 <= n THEN n - (j + 1) + 1 ELSE 0) /\ n \in Nat
      BY <1>1, <2>2
    <3> HIDE DEF d, m, n
    <3>4. m = n - j
      <4>1. j \in 0..n
        BY DEF n
      <4> QED BY <3>3, <4>1
    <3> USE DEF m, n
    <3> QED BY <3>1, <3>2, <3>4
  <2>4. Drop(p, j) = d /\ d \in Program
    BY <2>2 DEF Drop, Program
  <2> HIDE DEF d
  <2> QED BY <2>3, <2>4
<1> DEFINE x == Drop(p, k)
           y == Drop(p, k + 1)
<1>3. /\ x \in Program /\ Len(x) = Len(p) - k /\ y \in Program /\ Len(y) = Len(p) - (k + 1)
      /\ \A i \in 1..(Len(p) - k) : x[i] = p[k + i]
      /\ \A i \in 1..(Len(p) - (k + 1)) : y[i] = p[(k + 1) + i]
  <2>1. k \in 0..Len(p) /\ k + 1 \in 0..Len(p)
    BY <1>1
  <2>2. /\ x \in Program /\ Len(x) = Len(p) - k
        /\ \A i \in 1..(Len(p) - k) : x[i] = p[k + i]
    <3>1. k \in 0..Len(p) BY <2>1
    <3> QED BY <3>1, <1>2
  <2>3. /\ y \in Program /\ Len(y) = Len(p) - (k + 1)
        /\ \A i \in 1..(Len(p) - (k + 1)) : y[i] = p[(k + 1) + i]
    <3> DEFINE m == k + 1
    <3>1. m \in 0..Len(p) BY <2>1
    <3> HIDE DEF m
    <3>2. /\ Drop(p, m) \in Program /\ Len(Drop(p, m)) = Len(p) - m
          /\ \A i \in 1..(Len(p) - m) : Drop(p, m)[i] = p[m + i]
      BY <3>1, <1>2
    <3> QED BY <3>2 DEF m
  <2> QED BY <2>2, <2>3
<1> HIDE DEF x, y
<1>4. x # <<>>
  BY <1>1, <1>3, SomeSteps
<1>5. /\ Tail(x) \in Program /\ Len(Tail(x)) = Len(x) - 1
      /\ \A i \in 1..(Len(x) - 1) : Tail(x)[i] = x[i + 1]
  BY <1>3, <1>4 DEF Program
<1> DEFINE z == Tail(x)
<1>6. /\ z \in Seq(Steps) /\ y \in Seq(Steps) /\ Len(z) = Len(y)
      /\ \A i \in 1..Len(z) : z[i] = y[i]
  <2>1. z \in Seq(Steps) /\ Len(z) = Len(x) - 1 /\ \A i \in 1..(Len(x) - 1) : z[i] = x[i + 1]
    BY <1>5 DEF Program
  <2> HIDE DEF z
  <2>2. Len(z) = Len(y) /\ Len(z) = Len(p) - (k + 1)
    BY <1>1, <1>3, <2>1
  <2>3. ASSUME NEW i \in 1..Len(z) PROVE z[i] = y[i]
    <3>1. i + 1 \in 1..(Len(p) - k) /\ i \in 1..(Len(x) - 1) /\ k + (i + 1) = (k + 1) + i
      BY <1>1, <1>3, <2>2
    <3>2. z[i] = p[k + (i + 1)]
      BY <1>3, <2>1, <3>1
    <3>3. y[i] = p[(k + 1) + i]
      BY <1>3, <2>2
    <3> QED BY <3>1, <3>2, <3>3
  <2> QED BY <1>3, <2>1, <2>2, <2>3 DEF Program
<1> HIDE DEF z
<1>7. z = y
  BY <1>6, SeqEqual
<1> QED BY <1>3, <1>4, <1>7 DEF x, y, z

\* A step of a fold leads to the next.
LEMMA FoldLeads ==
    ASSUME NEW t, NEW p, NEW pend, NEW lk, NEW ps, Own(t, p, pend, lk, ps), p # <<>>,
           NEW a, NEW b, p[1] = a,
           <<a, b>> \in {<<"foldCheck", "foldRead">>, <<"foldRead", "foldWrite">>,
                         <<"foldWrite", "foldSwap">>}
    PROVE  Own(t, Tail(p), pend, lk, ps) /\ Tail(p) # <<>> /\ Tail(p)[1] = b
<1>1. a \notin Keeping /\ a # "persist" /\ a \in Leads
  BY DEF Keeping, Locked, Leads
<1>2. Own(t, Tail(p), pend, lk, ps)
  BY <1>1, GoOn
<1>3. Tail(p) # <<>> /\ Fits(p[1], Tail(p)[1])
  BY <1>1, ShapeOfTail DEF Own
<1> QED BY <1>2, <1>3 DEF Fits

\* A fold that is not made.
LEMMA FoldSkipped ==
    ASSUME NEW t, NEW p, NEW pend, NEW lk, NEW ps, Own(t, p, pend, lk, ps), p # <<>>
    PROVE  /\ p[1] = "foldRead" => Own(t, Drop(p, 3), pend, lk, ps)
           /\ p[1] = "foldCheck" => Own(t, Drop(p, 4), pend, lk, ps)
           /\ p[1] = "foldRead" /\ Drop(p, 3) # <<>> => Fits("foldSwap", Drop(p, 3)[1])
           /\ p[1] = "foldCheck" /\ Drop(p, 4) # <<>> => Fits("foldSwap", Drop(p, 4)[1])
<1>1. ASSUME NEW r, Own(t, r, pend, lk, ps), r # <<>>, r[1] = "foldRead"
      PROVE  /\ Own(t, Tail(Tail(Tail(r))), pend, lk, ps)
             /\ Tail(r) # <<>> /\ Tail(Tail(r)) # <<>>
             /\ Tail(Tail(Tail(r))) # <<>> => Fits("foldSwap", Tail(Tail(Tail(r)))[1])
  <2>1. Own(t, Tail(r), pend, lk, ps) /\ Tail(r) # <<>> /\ Tail(r)[1] = "foldWrite"
    BY <1>1, FoldLeads
  <2>2. /\ Own(t, Tail(Tail(r)), pend, lk, ps) /\ Tail(Tail(r)) # <<>>
        /\ Tail(Tail(r))[1] = "foldSwap"
    <3> DEFINE z == Tail(r)
    <3>1. Own(t, z, pend, lk, ps) /\ z # <<>> /\ z[1] = "foldWrite"
      BY <2>1
    <3> HIDE DEF z
    <3>2. Own(t, Tail(z), pend, lk, ps) /\ Tail(z) # <<>> /\ Tail(z)[1] = "foldSwap"
      BY <3>1, FoldLeads
    <3> QED BY <3>2 DEF z
  <2>3. /\ Own(t, Tail(Tail(Tail(r))), pend, lk, ps)
        /\ Tail(Tail(Tail(r))) # <<>> => Fits("foldSwap", Tail(Tail(Tail(r)))[1])
    <3> DEFINE z == Tail(Tail(r))
    <3>1. Own(t, z, pend, lk, ps) /\ z # <<>> /\ z[1] = "foldSwap"
      BY <2>2
    <3> HIDE DEF z
    <3>2. "foldSwap" \notin Keeping
      BY DEF Keeping, Locked
    <3>3. Own(t, Tail(z), pend, lk, ps)
      BY <3>1, <3>2, GoOn
    <3>4. Tail(z) # <<>> => Fits("foldSwap", Tail(z)[1])
      BY <3>1, ShapeOfTail DEF Own
    <3> QED BY <3>3, <3>4 DEF z
  <2> QED BY <2>1, <2>2, <2>3
<1>2. ASSUME NEW r \in Program, r # <<>>
      PROVE  Len(r) > 0 /\ Tail(r) \in Program /\ Len(r) \in Nat /\ Len(Tail(r)) = Len(r) - 1
             /\ Drop(r, 0) = r
  <2>1. Len(r) \in Nat /\ Len(r) > 0 /\ Tail(r) \in Program /\ Len(Tail(r)) = Len(r) - 1
    BY <1>2, SomeSteps DEF Program
  <2>2. SubSeq(r, 1, Len(r)) = r
    BY <2>1, SubSeqFull DEF Program
  <2> QED BY <2>1, <2>2 DEF Drop
<1>3. p \in Program
  BY DEF Own
<1>4. CASE p[1] = "foldRead"
  <2>1. Len(p) \in Nat /\ Len(p) >= 3
    <3>1. Tail(p) # <<>> /\ Tail(Tail(p)) # <<>>
      BY <1>1, <1>4
    <3> QED BY <1>2, <1>3, <3>1
  <2>2. /\ Drop(p, 1) = Tail(p) /\ Drop(p, 2) = Tail(Drop(p, 1))
        /\ Drop(p, 3) = Tail(Drop(p, 2))
    <3>1. Drop(p, 0) = p
      BY <1>2, <1>3
    <3>2. /\ Tail(Drop(p, 0)) = Drop(p, 0 + 1) /\ Tail(Drop(p, 1)) = Drop(p, 1 + 1)
          /\ Tail(Drop(p, 2)) = Drop(p, 2 + 1)
      BY <1>3, <2>1, DropOne
    <3> QED BY <3>1, <3>2
  <2> QED BY <1>1, <1>4, <2>2
<1>5. CASE p[1] = "foldCheck"
  <2>1. Own(t, Tail(p), pend, lk, ps) /\ Tail(p) # <<>> /\ Tail(p)[1] = "foldRead"
    BY <1>5, FoldLeads
  <2>2. /\ Own(t, Tail(Tail(Tail(Tail(p)))), pend, lk, ps)
        /\ Tail(Tail(p)) # <<>> /\ Tail(Tail(Tail(p))) # <<>>
        /\ Tail(Tail(Tail(Tail(p)))) # <<>> =>
              Fits("foldSwap", Tail(Tail(Tail(Tail(p))))[1])
    BY <1>1, <2>1
  <2>3. Len(p) \in Nat /\ Len(p) >= 4
    BY <1>2, <1>3, <2>1, <2>2
  <2>4. /\ Drop(p, 1) = Tail(p) /\ Drop(p, 2) = Tail(Drop(p, 1))
        /\ Drop(p, 3) = Tail(Drop(p, 2)) /\ Drop(p, 4) = Tail(Drop(p, 3))
    <3>1. Drop(p, 0) = p
      BY <1>2, <1>3
    <3>2. /\ Tail(Drop(p, 0)) = Drop(p, 0 + 1) /\ Tail(Drop(p, 1)) = Drop(p, 1 + 1)
          /\ Tail(Drop(p, 2)) = Drop(p, 2 + 1) /\ Tail(Drop(p, 3)) = Drop(p, 3 + 1)
      BY <1>3, <2>3, DropOne
    <3> QED BY <3>1, <3>2
  <2> QED BY <2>2, <2>4, <1>5
<1> QED BY <1>4, <1>5

LEMMA FoldCheckControl ==
    ASSUME NumberInv, Control, NEW t \in Threads, FoldCheck(t) PROVE Control'
<1> DEFINE p == th[t].prog
           marked == \E m \in seen : m[1] \in th[t].group
<1>1. /\ OnlyThread(t) /\ th'[t].pend = th[t].pend
      /\ th'[t].prog = IF marked THEN Drop(p, 4) ELSE Tail(p)
  BY IdleShape DEF NumberInv, NumberTypes, OnlyThread, FoldCheck
<1>2. Running(t, "foldCheck") /\ lock' = lock /\ persisting' = persisting
  BY DEF FoldCheck
<1>3. p # <<>> /\ p[1] = "foldCheck" /\ Own(t, p, th[t].pend, lock, persisting)
  BY <1>2, Now
<1>4. CASE marked
  <2>1. Own(t, Drop(p, 4), th[t].pend, lock, persisting)
    <3> HIDE DEF p
    <3> QED BY <1>3, FoldSkipped
  <2> QED BY <1>1, <1>2, <1>4, <2>1, Others
<1>5. CASE ~marked
  BY <1>1, <1>2, <1>5, TailControl DEF Keeping, Locked
<1> QED BY <1>4, <1>5

LEMMA FoldReadControl ==
    ASSUME NumberInv, Control, NEW t \in Threads, FoldRead(t) PROVE Control'
<1> DEFINE p == th[t].prog
<1>1. PICK idle \in BOOLEAN : \E s :
         th' = [th EXCEPT ![t].prog = IF idle THEN Drop(@, 3) ELSE Tail(@), ![t].snap = s]
  <2> DEFINE here == th[t].group \cap DOMAIN segments
             off == /\ Cardinality(here) < 2
                    /\ \A n \in here : segments[n].alive = segments[n].rows
  <2>1. off \in BOOLEAN
    OBVIOUS
  <2>2. \E s : th' = [th EXCEPT ![t].prog = IF off THEN Drop(@, 3) ELSE Tail(@), ![t].snap = s]
    <3> DEFINE made == [number |-> next_segment,
                        generation |-> MaxOf({segments[n].generation : n \in here}),
                        rows |-> UNION {segments[n].alive : n \in here},
                        alive |-> [n \in here |-> segments[n].alive]]
    <3>1. th' = [th EXCEPT ![t].prog = IF off THEN Drop(@, 3) ELSE Tail(@),
                           ![t].snap = IF off THEN @ ELSE made]
      BY DEF FoldRead
    <3>2. th' = [th EXCEPT ![t].prog = IF off THEN Drop(@, 3) ELSE Tail(@),
                           ![t].snap = IF off THEN th[t].snap ELSE made]
      <4> HIDE DEF off, made, here
      <4> QED BY <3>1, IdleShape DEF NumberInv, NumberTypes
    <3> HIDE DEF off, made
    <3> QED BY <3>2
  <2> HIDE DEF off
  <2> QED BY <2>1, <2>2
<1>2. /\ OnlyThread(t) /\ th'[t].pend = th[t].pend
      /\ th'[t].prog = IF idle THEN Drop(p, 3) ELSE Tail(p)
  BY <1>1, IdleShape DEF NumberInv, NumberTypes, OnlyThread
<1>3. Running(t, "foldRead") /\ lock' = lock /\ persisting' = persisting
  BY DEF FoldRead
<1>4. p # <<>> /\ p[1] = "foldRead" /\ Own(t, p, th[t].pend, lock, persisting)
  BY <1>3, Now
<1>5. CASE idle
  <2>1. Own(t, Drop(p, 3), th[t].pend, lock, persisting)
    <3> HIDE DEF p
    <3> QED BY <1>4, FoldSkipped
  <2> QED BY <1>2, <1>3, <1>5, <2>1, Others
<1>6. CASE ~idle
  BY <1>2, <1>3, <1>6, TailControl DEF Keeping, Locked
<1> QED BY <1>5, <1>6

LEMMA FoldSwapControl ==
    ASSUME NumberInv, Control, NEW t \in Threads, FoldSwap(t) PROVE Control'
<1> DEFINE q == Rest(t)
           x == <<"unlock">> \o q
           y == <<"saveIfDirty">> \o x
<1>1. /\ OnlyThread(t) /\ th'[t].prog = <<"saveIfDirty", "unlock">> \o q
      /\ th'[t].pend = th[t].pend
  BY IdleShape DEF NumberInv, NumberTypes, OnlyThread, FoldSwap, Rest
<1>2. Running(t, "foldSwap") /\ lock' = t /\ lock = NoThread /\ persisting' = persisting
  BY DEF FoldSwap
<1>3. /\ Own(t, q, th[t].pend, t, persisting) /\ q \in Program
      /\ q # <<>> => Fits("foldSwap", q[1])
      /\ Labels(q) \cap Carrying # {} => "foldSwap" \in Passing
  BY <1>2, RestsHeld
<1> HIDE DEF q
<1>4. /\ Labels(q) \cap Carrying = {}
      /\ q # <<>> => Fits("unlock", q[1]) /\ q[1] # "writeAlive"
  BY <1>3 DEF Fits, Keeping, Locked, Passing
<1>5. /\ Own(t, x, th[t].pend, t, persisting) /\ x # <<>> /\ x[1] = "unlock"
      /\ Labels(x) = {"unlock"} \cup Labels(q)
  BY <1>3, <1>4, StepNames, PutBefore DEF Leads, Within, Carrying
<1> HIDE DEF x
<1>6. Own(t, y, th[t].pend, t, persisting)
  <2>1. Fits("saveIfDirty", x[1]) /\ Labels(x) \cap Carrying = {}
    BY <1>4, <1>5 DEF Fits, Keeping, Locked, Carrying
  <2> QED BY <1>5, <2>1, StepNames, PutBefore DEF Leads, Within, Carrying
<1>7. "saveIfDirty" \in Steps /\ "unlock" \in Steps
  BY StepNames
<1>8. <<"saveIfDirty", "unlock">> \o q = y
  BY <1>3, <1>7, OfTwo DEF x, y
<1> HIDE DEF y
<1> QED BY <1>1, <1>2, <1>6, <1>8, Others

LEMMA FoldFirstControl ==
    ASSUME NumberInv, Control, NEW t \in Threads, NEW l \in {"foldEach", "nextHead"},
           Running(t, l), OnlyThread(t), th'[t].prog = Fold \o th[t].prog,
           th'[t].pend = th[t].pend, UNCHANGED <<lock, persisting>>
    PROVE  Control'
<1> DEFINE p == th[t].prog
<1>1. /\ p \in Program /\ Shape(p) /\ p # <<>> /\ p[1] = l
      /\ Own(t, p, th[t].pend, lock, persisting)
  BY Now
<1> HIDE DEF p
<1>2. /\ Labels(p) = {l} \cup Labels(Tail(p))
      /\ Labels(Tail(p)) \cap Carrying # {} => l \in Passing
  BY <1>1, ShapeOfTail
<1>3. Labels(p) \cap Carrying = {} /\ Fits("foldSwap", p[1])
  BY <1>1, <1>2 DEF Carrying, Passing, Fits, Locked, Keeping
<1>4. Own(t, Fold \o p, th[t].pend, lock, persisting)
  BY <1>1, <1>3, FoldBefore
<1> QED BY <1>4, Others DEF p

LEMMA FoldEachControl ==
    ASSUME NumberInv, Control, NEW t \in Threads, FoldEach(t) PROVE Control'
<1> DEFINE over == th[t].groups = {} \/ (th[t].durable /\ ~th[t].folded)
<1>1. Running(t, "foldEach") /\ lock' = lock /\ persisting' = persisting
  BY DEF FoldEach
<1>2. CASE over
  <2>1. th' = [th EXCEPT ![t].prog = Tail(@), ![t].groups = {},
                         ![t].group = {}, ![t].folded = TRUE]
    BY <1>2 DEF FoldEach
  <2>2. OnlyThread(t) /\ th'[t].prog = Tail(th[t].prog) /\ th'[t].pend = th[t].pend
    BY <2>1, IdleShape DEF NumberInv, NumberTypes, OnlyThread
  <2> QED BY <1>1, <2>2, TailControl DEF Keeping, Locked
<1>3. CASE ~over
  <2>1. PICK g : th' = [th EXCEPT ![t].prog = Fold \o @, ![t].groups = @ \ {g}, ![t].group = g]
    BY <1>3 DEF FoldEach
  <2>2. OnlyThread(t) /\ th'[t].prog = Fold \o th[t].prog /\ th'[t].pend = th[t].pend
    <3> HIDE DEF over
    <3> QED BY <2>1, IdleShape DEF NumberInv, NumberTypes, OnlyThread
  <2> QED BY <1>1, <2>2, FoldFirstControl
<1> QED BY <1>2, <1>3

LEMMA NextHeadControl ==
    ASSUME NumberInv, Control, NEW t \in Threads, NextHead(t) PROVE Control'
<1>1. Running(t, "nextHead") /\ lock' = lock /\ persisting' = persisting
  BY DEF NextHead
<1>2. CASE th' = [th EXCEPT ![t] = Onward(@)]
  BY <1>1, <1>2, OnwardControl DEF Keeping, Locked
<1>3. CASE \E h : th' = [th EXCEPT ![t].prog = Fold \o @, ![t].group = h, ![t].durable = TRUE]
  <2>1. PICK h : th' = [th EXCEPT ![t].prog = Fold \o @, ![t].group = h, ![t].durable = TRUE]
    BY <1>3
  <2>2. OnlyThread(t) /\ th'[t].prog = Fold \o th[t].prog /\ th'[t].pend = th[t].pend
    BY <2>1, IdleShape DEF NumberInv, NumberTypes, OnlyThread
  <2> QED BY <1>1, <2>2, FoldFirstControl
<1> QED BY <1>2, <1>3 DEF NextHead

LEMMA HeldRowsControl ==
    ASSUME NumberInv, Control, NEW t \in Threads, HeldRows(t) PROVE Control'
<1>1. lock' = lock /\ persisting' = persisting
  BY DEF HeldRows
<1>2. CASE th' = [th EXCEPT ![t] = Idle]
  BY <1>1, <1>2, IdleControl
<1>3. CASE th' = [th EXCEPT ![t] = [@ EXCEPT !.prog = Persist]]
  <2>1. OnlyThread(t) /\ th'[t].prog = Persist
    BY <1>3, IdleShape DEF NumberInv, NumberTypes, OnlyThread
  <2>2. Own(t, th'[t].prog, th'[t].pend, lock', persisting')
    BY <2>1, PersistCalm, CalmOwn
  <2> QED BY <1>1, <2>1, <2>2, Others
<1>4. \/ th' = [th EXCEPT ![t] = Idle]
      \/ th' = [th EXCEPT ![t] = [@ EXCEPT !.prog = Persist]]
  BY DEF HeldRows
<1> QED BY <1>2, <1>3, <1>4

LEMMA UpsertControl ==
    ASSUME NumberInv, Control, NEW t \in Threads, NEW e, Upsert(t, e) PROVE Control'
<1> DEFINE x3 == <<"unlock">> \o <<>>
           x2 == <<"overflow">> \o x3
           x1 == <<"collect">> \o x2
           r == [Idle EXCEPT !.op = "upsert", !.prog = <<"collect", "overflow", "unlock">>]
<1>1. lock = NoThread /\ persisting' = persisting
  BY DEF Upsert
<1>2. CASE UNCHANGED <<lock, th>>
  BY <1>1, <1>2, StillControl
<1>3. CASE lock' = t /\ th' = [th EXCEPT ![t] = r]
  <2>0. "collect" \in Steps /\ "overflow" \in Steps /\ "unlock" \in Steps /\ <<>> \in Program
    BY StepNames, ShapeOfNone
  <2>1. DOMAIN r = Fields /\ r.prog = x1
    <3>1. <<"collect", "overflow", "unlock">> = <<"collect", "overflow", "unlock">> \o <<>>
      BY <2>0 DEF Program
    <3>2. <<"collect", "overflow", "unlock">> \o <<>> = x1
      BY <2>0, OfThree
    <3>3. r.prog = <<"collect", "overflow", "unlock">> /\ DOMAIN r = Fields
      BY IdleShape DEF Idle, Fields
    <3> QED BY <3>1, <3>2, <3>3
  <2> HIDE DEF r
  <2>2. OnlyThread(t) /\ th'[t].prog = x1
    BY <1>3, <2>1 DEF NumberInv, NumberTypes, OnlyThread
  <2> DEFINE pd == th'[t].pend
  <2> HIDE DEF pd
  <2>3. /\ Own(t, x3, pd, t, persisting) /\ x3 # <<>> /\ x3[1] = "unlock"
        /\ Labels(x3) = {"unlock"} \cup Labels(<<>>)
    BY <2>0, Rested, ShapeOfNone, PutBefore DEF Leads, Within, Carrying
  <2>4. Labels(x3) = {"unlock"}
    BY <2>3, ShapeOfNone
  <2> HIDE DEF x3
  <2>5. /\ Own(t, x2, pd, t, persisting) /\ x2 # <<>> /\ x2[1] = "overflow"
        /\ Labels(x2) = {"overflow"} \cup Labels(x3)
    BY <2>0, <2>3, <2>4, PutBefore DEF Leads, Within, Carrying, Fits, Locked, Keeping
  <2> HIDE DEF x2
  <2>6. Own(t, x1, pd, t, persisting)
    BY <2>0, <2>4, <2>5, PutBefore DEF Leads, Within, Carrying, Fits, Locked, Keeping
  <2> HIDE DEF x1
  <2> QED BY <1>1, <1>3, <2>2, <2>6, Others DEF pd
<1> QED BY <1>2, <1>3 DEF Upsert

LEMMA CallControl ==
    ASSUME NumberInv, Control, NEW t \in Threads, Call(t) PROVE Control'
<1>1. ASSUME NEW p, RemoveSubtree(t, p) PROVE Control'
  BY <1>1, StillControl DEF RemoveSubtree
<1>2. CASE AbandonGeneration(t)
  BY <1>2, StillControl DEF AbandonGeneration
<1> QED BY <1>1, <1>2, UpsertControl, BeginCallControl, BeginGenerationControl,
           BeginSweepControl, BeginForgetControl DEF Call

LEMMA StepControl ==
    ASSUME NumberInv, Control, NEW t \in Threads, Step(t) PROVE Control'
BY CollectStepControl, LandingControl, CollectErrorControl, UnlockControl, SaveControl,
   SaveCleanControl, PrepareControl, WriteAliveControl, InstallControl, PushControl,
   DispatchControl, ForgetKillControl, PersistStepControl, PersistGroupControl,
   WriteUnwrittenReadControl, AdoptWrittenControl, TakeDirtyControl, ReleaseControl,
   FoldCheckControl, FoldReadControl, FoldSwapControl, FoldRefusedControl,
   ChooseFoldsControl, FoldEachControl, NextHeadControl, HeldRowsControl, PlainControl
   DEF Step

LEMMA InitControl == Init => Control
<1> SUFFICES ASSUME Init PROVE Control
  OBVIOUS
<1>1. \A t \in Threads : th[t].prog = <<>>
  BY DEF Init, Idle
<1> QED BY <1>1, Rested DEF Control

LEMMA NextControl ==
    ASSUME NumberInv, Control, [Next]_vars PROVE Control'
<1>1. ASSUME NEW t \in Threads, Step(t) \/ StepFails(t) \/ Call(t) PROVE Control'
  BY <1>1, StepControl, StepFailsControl, CallControl
<1>2. CASE UNCHANGED vars
  BY <1>2, StillControl DEF vars
<1>3. CASE AtRest
  BY <1>2, <1>3 DEF AtRest
<1>4. CASE Builder
  BY <1>4, StillControl DEF Builder, Build, BuildFails
<1>5. CASE Crash
  <2>1. \A t \in Threads : th'[t].prog = <<>>
    BY <1>5 DEF Crash, Idle
  <2> QED BY <2>1, Rested DEF Control
<1> QED BY <1>1, <1>2, <1>3, <1>4, <1>5 DEF Next

\* At every instant each call's remaining steps are a program the code could have
\* written: what has to run in a holding of the write lock is run by its holder,
\* every step of persist_unwritten under the `persisting' mutex, and a segment is
\* written only by a flush that took rows and a number (Index::save_locked to
\* fold_group, index.rs).
THEOREM ControlAlways == Spec => []Control
<1> QED BY NumberInvariant, InitControl, NextControl, PTL DEF Spec
=============================================================================
