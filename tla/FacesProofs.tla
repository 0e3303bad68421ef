----------------------------- MODULE FacesProofs -----------------------------
(***************************************************************************)
(* The terminal and the window, each with its constants left open, where   *)
(* MCFaces gives them small values: F is the terminal, W the window, and P *)
(* the pages both hold.                                                    *)
(***************************************************************************)
EXTENDS MCFaces, SequenceTheorems, WellFoundedInduction, TLAPS

CONSTANTS Room, First, MaxQuestions, MaxScrolls, MaxStops

P == INSTANCE Pages
F == INSTANCE Terminal WITH Window <- FALSE
W == INSTANCE Window WITH Window <- TRUE

-----------------------------------------------------------------------------
(***************************************************************************)
(* Pages.                                                                  *)
(***************************************************************************)
Fields == {"held", "order", "total", "asked", "revision", "served"}

\* Whose answers the pages held are.
Of(p, q) == \A k \in DOMAIN p.held : p.held[k].question = q

\* Both faces use the same operators.
LEMMA TerminalPages ==
    /\ F!NoPages = P!NoPages
    /\ \A p : F!Emptied(p) = P!Emptied(p) /\ F!Unasked(p) = P!Unasked(p)
    /\ \A p, x : F!Marked(p, x) = P!Marked(p, x)
    /\ \A p, x : F!Asking(p, x) = P!Asking(p, x)
    /\ \A p, x : F!WithTotal(p, x) = P!WithTotal(p, x)
    /\ \A p, x, y, z : F!Put(p, x, y, z) = P!Put(p, x, y, z)
    /\ \A p, x, y, z, u : F!NextPages(p, x, y, z, u) = P!NextPages(p, x, y, z, u)
  BY DEF F!Emptied, P!Emptied, F!Marked, P!Marked, F!Asking, P!Asking, F!Unasked, P!Unasked,
         F!WithTotal, P!WithTotal, F!NoPages, P!NoPages, F!Put, P!Put, F!Evicted, P!Evicted,
         F!Stamp, P!Stamp, F!OutFor, P!OutFor, F!Settled, P!Settled, F!Touched, P!Touched,
         F!Greater, P!Greater, F!NextPages, P!NextPages, F!Wanting, P!Wanting, F!Holds, P!Holds,
         F!Least, P!Least, F!Lesser, P!Lesser, F!PageOf, P!PageOf

LEMMA WindowPages ==
    /\ W!NoPages = P!NoPages
    /\ \A p : W!Emptied(p) = P!Emptied(p) /\ W!Unasked(p) = P!Unasked(p)
    /\ \A p, x : W!Marked(p, x) = P!Marked(p, x)
    /\ \A p, x : W!Asking(p, x) = P!Asking(p, x)
    /\ \A p, x : W!WithTotal(p, x) = P!WithTotal(p, x)
    /\ \A p, x, y, z : W!Put(p, x, y, z) = P!Put(p, x, y, z)
    /\ \A p, x, y, z, u : W!NextPages(p, x, y, z, u) = P!NextPages(p, x, y, z, u)
  BY DEF W!Emptied, P!Emptied, W!Marked, P!Marked, W!Asking, P!Asking, W!Unasked, P!Unasked,
         W!WithTotal, P!WithTotal, W!NoPages, P!NoPages, W!Put, P!Put, W!Evicted, P!Evicted,
         W!Stamp, P!Stamp, W!OutFor, P!OutFor, W!Settled, P!Settled, W!Touched, P!Touched,
         W!Greater, P!Greater, W!NextPages, P!NextPages, W!Wanting, P!Wanting, W!Holds, P!Holds,
         W!Least, P!Least, W!Lesser, P!Lesser, W!PageOf, P!PageOf

\* What the operators of Pages leave of a value.
LEMMA PagesKept ==
    ASSUME NEW p, DOMAIN p = Fields, NEW x
    PROVE  /\ DOMAIN P!Emptied(p) = Fields /\ DOMAIN P!Emptied(p).held = {}
           /\ DOMAIN P!Marked(p, x) = Fields /\ P!Marked(p, x).held = p.held
           /\ DOMAIN P!Asking(p, x) = Fields /\ P!Asking(p, x).held = p.held
           /\ DOMAIN P!Unasked(p) = Fields /\ P!Unasked(p).held = p.held
           /\ DOMAIN P!WithTotal(p, x) = Fields /\ P!WithTotal(p, x).held = p.held
  BY DEF Fields, P!Emptied, P!Marked, P!Asking, P!Unasked, P!WithTotal

LEMMA PagesEvicted ==
    ASSUME NEW p, DOMAIN p = Fields
    PROVE  /\ DOMAIN P!Evicted(p) = Fields
           /\ DOMAIN P!Evicted(p).held \subseteq DOMAIN p.held
           /\ \A k \in DOMAIN P!Evicted(p).held : P!Evicted(p).held[k] = p.held[k]
           /\ \A f \in {"total", "asked", "revision", "served"} : P!Evicted(p)[f] = p[f]
  BY DEF Fields, P!Evicted

\* A page that has landed is of its own question and stamped; the others are as they were.
LEMMA PagesPut ==
    ASSUME NEW p, DOMAIN p = Fields, NEW page, NEW rows, NEW total
    PROVE  /\ DOMAIN P!Put(p, page, rows, total) = Fields
           /\ P!Put(p, page, rows, total).total = total
           /\ P!Put(p, page, rows, total).revision = p.revision
           /\ P!Put(p, page, rows, total).served = P!Greater(p.served, rows.count)
           /\ P!Put(p, page, rows, total).asked = IF P!OutFor(p, page) THEN None ELSE p.asked
           /\ \A k \in DOMAIN P!Put(p, page, rows, total).held :
                 \/ /\ k \in DOMAIN p.held
                    /\ P!Put(p, page, rows, total).held[k] = p.held[k]
                 \/ /\ P!Put(p, page, rows, total).held[k].question = rows.question
                    /\ P!Put(p, page, rows, total).held[k].seen = rows.seen
                    /\ P!Put(p, page, rows, total).held[k].revision = P!Stamp(p, page)
<1> DEFINE here == [count |-> rows.count, revision |-> P!Stamp(p, page),
                    settled |-> P!Settled(p, page, rows.count),
                    question |-> rows.question, seen |-> rows.seen]
           held == [q \in DOMAIN p.held \cup {page} |-> IF q = page THEN here ELSE p.held[q]]
           due == IF P!OutFor(p, page) THEN None ELSE p.asked
           served == P!Greater(p.served, rows.count)
           order == P!Touched(p.order, page)
           next == [p EXCEPT !.served = served, !.held = held, !.asked = due, !.order = order,
                             !.total = total]
<1>1. P!Put(p, page, rows, total) = P!Evicted(next)
  BY DEF P!Put
<1>2. here.question = rows.question /\ here.seen = rows.seen /\ here.revision = P!Stamp(p, page)
  OBVIOUS
<1>3. DOMAIN held = DOMAIN p.held \cup {page} /\ held[page] = here
      /\ \A k \in DOMAIN p.held \ {page} : held[k] = p.held[k]
  OBVIOUS
<1> HIDE DEF here, held, due, served, order
<1>4. /\ DOMAIN next = Fields /\ next.held = held /\ next.total = total /\ next.asked = due
      /\ next.served = served /\ next.revision = p.revision
  BY DEF Fields
<1> HIDE DEF next
<1>5. /\ DOMAIN P!Evicted(next) = Fields
      /\ DOMAIN P!Evicted(next).held \subseteq DOMAIN held
      /\ \A k \in DOMAIN P!Evicted(next).held : P!Evicted(next).held[k] = held[k]
      /\ P!Evicted(next).total = total /\ P!Evicted(next).asked = due
      /\ P!Evicted(next).served = served /\ P!Evicted(next).revision = p.revision
  BY <1>4, PagesEvicted
<1>6. \A k \in DOMAIN P!Evicted(next).held :
         \/ k \in DOMAIN p.held /\ P!Evicted(next).held[k] = p.held[k]
         \/ P!Evicted(next).held[k] = here
  BY <1>3, <1>5
<1> QED BY <1>1, <1>2, <1>5, <1>6 DEF due, served

-----------------------------------------------------------------------------
(***************************************************************************)
(* Every page held is of the question on the screen.                       *)
(***************************************************************************)
Mine == DOMAIN pages = Fields /\ Of(pages, question)

LEMMA HeldMine ==
    ASSUME NEW p, NEW r, NEW q, Of(p, q), DOMAIN r = Fields, r.held = p.held
    PROVE  DOMAIN r = Fields /\ Of(r, q)
  BY DEF Of

LEMMA NoneMine ==
    ASSUME NEW r, NEW q, DOMAIN r = Fields, DOMAIN r.held = {}
    PROVE  DOMAIN r = Fields /\ Of(r, q)
  BY DEF Of

LEMMA PutMine ==
    ASSUME NEW p, DOMAIN p = Fields, NEW page, NEW rows, NEW total, Of(p, rows.question)
    PROVE  /\ DOMAIN P!Put(p, page, rows, total) = Fields
           /\ Of(P!Put(p, page, rows, total), rows.question)
  BY PagesPut DEF Of

LEMMA TerminalWants ==
    ASSUME NEW p, DOMAIN p = Fields, NEW found, NEW w \in F!Wants(p, found)
    PROVE  DOMAIN w.pages = Fields /\ w.pages.held = p.held
<1>1. w.pages = p \/ \E page \in found : w.pages = P!Asking(p, page)
  BY TerminalPages DEF F!Wants
<1> QED BY <1>1, PagesKept

LEMMA TerminalBegins == F!Init => Mine
<1> SUFFICES ASSUME F!Init PROVE Mine
  OBVIOUS
<1>1. pages = P!Asking(P!NoPages, 0)
  BY TerminalPages DEF F!Init
<1>2. DOMAIN P!NoPages = Fields /\ DOMAIN P!NoPages.held = {}
  BY DEF P!NoPages, Fields
<1> QED BY <1>1, <1>2, PagesKept, NoneMine DEF Mine

LEMMA TerminalStep == Mine /\ [F!Next]_F!vars => Mine'
<1> SUFFICES ASSUME Mine, [F!Next]_F!vars PROVE Mine'
  OBVIOUS
<1>0. DOMAIN pages = Fields /\ Of(pages, question)
  BY DEF Mine
<1>h. ASSUME question' = question, DOMAIN pages' = Fields, pages'.held = pages.held PROVE Mine'
  BY <1>0, <1>h, HeldMine DEF Mine
<1>e. ASSUME DOMAIN pages' = Fields, DOMAIN pages'.held = {} PROVE Mine'
  BY <1>e, NoneMine DEF Mine
<1>1. CASE F!Typed
  <2>1. pages' = P!Asking(P!WithTotal(P!Emptied(pages), 0), 0)
    BY <1>1, TerminalPages DEF F!Typed
  <2>2. /\ DOMAIN P!WithTotal(P!Emptied(pages), 0) = Fields
        /\ DOMAIN P!WithTotal(P!Emptied(pages), 0).held = {}
    BY <1>0, PagesKept
  <2> QED BY <2>1, <2>2, <1>e, PagesKept
<1>2. CASE F!Reasked
  <2>1. pages' = P!Asking(P!Emptied(pages), 0)
    BY <1>2, TerminalPages DEF F!Reasked
  <2> QED BY <2>1, <1>0, <1>e, PagesKept
<1>3. CASE F!Scroll
  <2>1. PICK w \in F!Wants(pages, F!Followed(pages, top', TRUE, FALSE)) : pages' = w.pages
    BY <1>3 DEF F!Scroll
  <2>2. question' = question
    BY <1>3 DEF F!Scroll
  <2> QED BY <2>1, <2>2, <1>0, <1>h, TerminalWants
<1>4. CASE F!Drop(Head(inbox))
  BY <1>4, <1>0, <1>h DEF F!Drop, F!faceVars
<1>5. CASE F!Land(Head(inbox))
  <2> DEFINE m == Head(inbox)
             rows == [count |-> m.rows, question |-> m.question, seen |-> m.seen]
  <2>1. PICK total : \E found : \E w \in F!Wants(P!Put(pages, m.page, rows, total), found) : pages' = w.pages
    BY <1>5, TerminalPages DEF F!Land
  <2>2. m.question = question /\ question' = question
    BY <1>5 DEF F!Land, F!Overtaken
  <2>3. rows.question = question
    BY <2>2
  <2> HIDE DEF m, rows
  <2>4. DOMAIN P!Put(pages, m.page, rows, total) = Fields
        /\ Of(P!Put(pages, m.page, rows, total), question)
    BY <1>0, <2>3, PutMine
  <2>5. DOMAIN pages' = Fields /\ pages'.held = P!Put(pages, m.page, rows, total).held
    BY <2>1, <2>4, TerminalWants
  <2> QED BY <2>2, <2>4, <2>5, HeldMine DEF Mine
<1>6. CASE F!Counted(Head(inbox))
  <2>1. question' = question /\ \E t : pages' = P!WithTotal(pages, t) \/ pages' = pages
    BY <1>6, TerminalPages DEF F!Counted
  <2> QED BY <2>1, <1>0, <1>h, PagesKept
<1>7. CASE F!Awake(Head(inbox))
  <2> DEFINE r == Head(inbox).revision
  <2>1. question' = question
        /\ \/ pages' = pages
           \/ \E found : \E w \in F!Wants(P!Marked(pages, r), found) : pages' = w.pages
    BY <1>7, TerminalPages DEF F!Awake
  <2> HIDE DEF r
  <2>2. DOMAIN P!Marked(pages, r) = Fields /\ P!Marked(pages, r).held = pages.held
    BY <1>0, PagesKept
  <2> QED BY <2>1, <2>2, <1>0, <1>h, TerminalWants
<1>8. CASE F!Upset(Head(inbox))
  <2>1. question' = question /\ (pages' = P!Unasked(pages) \/ pages' = pages)
    BY <1>8, TerminalPages DEF F!Upset
  <2> QED BY <2>1, <1>0, <1>h, PagesKept
<1>9. CASE UNCHANGED F!faceVars \/ F!Quiet
  BY <1>9, <1>0, <1>h DEF F!faceVars, F!Quiet
<1> QED
  BY <1>1, <1>2, <1>3, <1>4, <1>5, <1>6, <1>7, <1>8, <1>9
     DEF F!Next, F!User, F!Press, F!Click, F!Hear, F!Lane, F!vars

\* The terminal's pages are of its question (landed, typed, reask): an answer to an
\* overtaken question never lands among them, however late it comes.
THEOREM TerminalBelongs == F!Spec => []Belongs
<1>1. Mine => Belongs
  BY DEF Mine, Of, Belongs, T!Belongs
<1> QED BY <1>1, TerminalBegins, TerminalStep, PTL DEF F!Spec

LEMMA WindowFollow ==
    ASSUME NEW p, DOMAIN p = Fields, NEW first, NEW cheap, NEW quiet, NEW now,
           NEW f \in W!Follow(p, first, cheap, quiet, now)
    PROVE  DOMAIN f.pages = Fields /\ f.pages.held = p.held
<1>1. f.pages = p \/ \E page : f.pages = P!Asking(P!Marked(p, now), page)
  BY WindowPages DEF W!Follow
<1>2. DOMAIN P!Marked(p, now) = Fields /\ P!Marked(p, now).held = p.held
  BY PagesKept
<1> QED BY <1>1, <1>2, PagesKept

LEMMA WindowBegins == W!Init => Mine
<1> SUFFICES ASSUME W!Init PROVE Mine
  OBVIOUS
<1>1. pages = P!NoPages
  BY WindowPages DEF W!Init
<1>2. DOMAIN P!NoPages = Fields /\ DOMAIN P!NoPages.held = {}
  BY DEF P!NoPages, Fields
<1> QED BY <1>1, <1>2, NoneMine DEF Mine

LEMMA WindowStep == Mine /\ [W!Next]_W!vars => Mine'
<1> SUFFICES ASSUME Mine, [W!Next]_W!vars PROVE Mine'
  OBVIOUS
<1>0. DOMAIN pages = Fields /\ Of(pages, question)
  BY DEF Mine
<1>h. ASSUME question' = question, DOMAIN pages' = Fields, pages'.held = pages.held PROVE Mine'
  BY <1>0, <1>h, HeldMine DEF Mine
<1>1. CASE W!Type \/ W!Order
  <2>1. pages' = P!Emptied(pages)
    BY <1>1, WindowPages DEF W!Type, W!Order
  <2> QED BY <2>1, <1>0, NoneMine, PagesKept DEF Mine
<1>2. CASE W!Scroll
  BY <1>2, <1>0, <1>h, WindowFollow DEF W!Scroll
<1>3. CASE W!Backstop
  <2>1. question' = question
        /\ \E cheap, quiet : \E f \in W!Follow(pages, top, cheap, quiet, mine) : pages' = f.pages
    BY <1>3 DEF W!Backstop
  <2> QED BY <2>1, <1>0, <1>h, WindowFollow
<1>4. CASE W!Drop(Head(inbox)) \/ W!CameUp(Head(inbox)) \/ W!FirstStatus(Head(inbox))
  BY <1>4, <1>0, <1>h DEF W!Drop, W!CameUp, W!FirstStatus, W!faceVars
<1>5. CASE W!Land(Head(inbox))
  <2> DEFINE m == Head(inbox)
             rows == [count |-> m.rows, question |-> m.question, seen |-> m.seen]
  <2>1. PICK total : \E first, cheap, quiet, now :
           \E f \in W!Follow(P!Put(pages, m.page, rows, total), first, cheap, quiet, now) :
              pages' = f.pages
    BY <1>5, WindowPages DEF W!Land
  <2>2. m.question = question /\ question' = question
    BY <1>5 DEF W!Land, W!Overtaken
  <2>3. rows.question = question
    BY <2>2
  <2> HIDE DEF m, rows
  <2>4. DOMAIN P!Put(pages, m.page, rows, total) = Fields
        /\ Of(P!Put(pages, m.page, rows, total), question)
    BY <1>0, <2>3, PutMine
  <2>5. DOMAIN pages' = Fields /\ pages'.held = P!Put(pages, m.page, rows, total).held
    <3>1. PICK first, cheap, quiet, now :
             \E f \in W!Follow(P!Put(pages, m.page, rows, total), first, cheap, quiet, now) :
                pages' = f.pages
      BY <2>1
    <3> QED BY <3>1, <2>4, WindowFollow
  <2> QED BY <2>2, <2>4, <2>5, HeldMine DEF Mine
<1>6. CASE W!Counted(Head(inbox))
  <2>1. question' = question /\ \E t : pages' = P!WithTotal(pages, t) \/ pages' = pages
    BY <1>6, WindowPages DEF W!Counted
  <2> QED BY <2>1, <1>0, <1>h, PagesKept
<1>7. CASE W!Doze(Head(inbox))
  <2>1. question' = question /\ pages' = P!Marked(pages, Head(inbox).revision)
    BY <1>7, WindowPages DEF W!Doze
  <2> QED BY <2>1, <1>0, <1>h, PagesKept
<1>8. CASE W!Awake(Head(inbox))
  <2> DEFINE r == Head(inbox).revision
  <2>1. question' = question
        /\ \/ pages' = pages
           \/ \E cheap, quiet : \E f \in W!Follow(P!Marked(pages, r), top, cheap, quiet, r) :
                 pages' = f.pages
    BY <1>8, WindowPages DEF W!Awake
  <2> HIDE DEF r
  <2>2. DOMAIN P!Marked(pages, r) = Fields /\ P!Marked(pages, r).held = pages.held
    BY <1>0, PagesKept
  <2> QED BY <2>1, <2>2, <1>0, <1>h, WindowFollow
<1>9. CASE W!WentDown(Head(inbox))
  <2>1. question' = question /\ pages' = P!Unasked(pages)
    BY <1>9, WindowPages DEF W!WentDown
  <2> QED BY <2>1, <1>0, <1>h, PagesKept
<1>10. CASE UNCHANGED W!faceVars \/ W!Timer
  BY <1>10, <1>0, <1>h DEF W!faceVars, W!Timer, W!Background, W!Again, W!DozeAgain
<1> QED
  BY <1>1, <1>2, <1>3, <1>4, <1>5, <1>6, <1>7, <1>8, <1>9, <1>10
     DEF W!Next, W!User, W!Hear, W!Lane, W!vars

\* The window's pages are of its question (on_query_changed, on_sort_by, apply).
THEOREM WindowBelongs == W!Spec => []Belongs
<1>1. Mine => Belongs
  BY DEF Mine, Of, Belongs, T!Belongs
<1> QED BY <1>1, WindowBegins, WindowStep, PTL DEF W!Spec

-----------------------------------------------------------------------------
(***************************************************************************)
(* What is in a list of requests or of answers.                            *)
(***************************************************************************)
IsList(s) == \E E : s \in Seq(E)
In(s) == {s[n] : n \in DOMAIN s}
Kinds(s, K) == \A m \in In(s) : m.kind \in K

LEMMA NoneListed == IsList(<<>>) /\ In(<<>>) = {}
  BY <<>> \in Seq({}) DEF IsList, In

LEMMA OneListed == ASSUME NEW x PROVE IsList(<<x>>) /\ In(<<x>>) = {x} /\ <<x>> # <<>>
<1>1. <<x>> \in Seq({x})
  OBVIOUS
<1>2. DOMAIN <<x>> = {1} /\ <<x>>[1] = x /\ <<x>> # <<>>
  OBVIOUS
<1>3. IsList(<<x>>)
  BY <1>1 DEF IsList
<1> DEFINE s == <<x>>
<1>4. DOMAIN s = {1} /\ s[1] = x
  BY <1>2
<1> HIDE DEF s
<1>5. In(s) = {x}
  BY <1>4 DEF In
<1> QED BY <1>2, <1>3, <1>5 DEF s

LEMMA BothListed ==
    ASSUME NEW s, NEW t, IsList(s), IsList(t)
    PROVE  IsList(s \o t) /\ In(s \o t) = In(s) \cup In(t)
<1>1. PICK A : s \in Seq(A)
  BY DEF IsList
<1>2. PICK B : t \in Seq(B)
  BY DEF IsList
<1> DEFINE E == A \cup B
<1>3. s \in Seq(E) /\ t \in Seq(E)
  BY <1>1, <1>2
<1> HIDE DEF E
<1>4. s \o t \in Seq(E)
  BY <1>3
<1>5. DOMAIN s = 1..Len(s) /\ DOMAIN t = 1..Len(t) /\ DOMAIN (s \o t) = 1..(Len(s) + Len(t))
      /\ Len(s) \in Nat /\ Len(t) \in Nat
  BY <1>3
<1>6. \A n \in 1..(Len(s) + Len(t)) : (s \o t)[n] = IF n <= Len(s) THEN s[n] ELSE t[n - Len(s)]
  BY <1>3
<1>7. In(s \o t) \subseteq In(s) \cup In(t)
  BY <1>5, <1>6 DEF In
<1>8. In(s) \subseteq In(s \o t)
  BY <1>5, <1>6 DEF In
<1>9. \A n \in 1..Len(t) : n + Len(s) \in 1..(Len(s) + Len(t)) /\ (s \o t)[n + Len(s)] = t[n]
  BY <1>5, <1>6
<1>10. In(t) \subseteq In(s \o t)
  BY <1>5, <1>9 DEF In
<1> QED BY <1>4, <1>7, <1>8, <1>10 DEF IsList

LEMMA LastIs == ASSUME NEW s, NEW x, IsList(s) PROVE Append(s, x) = s \o <<x>>
<1>1. PICK A : s \in Seq(A)
  BY DEF IsList
<1> QED BY <1>1

LEMMA LastListed ==
    ASSUME NEW s, NEW x, IsList(s)
    PROVE  IsList(Append(s, x)) /\ In(Append(s, x)) = In(s) \cup {x}
<1>1. Append(s, x) = s \o <<x>>
  BY LastIs
<1> QED BY <1>1, BothListed, OneListed

LEMMA HeadListed ==
    ASSUME NEW s, IsList(s), s # <<>>
    PROVE  IsList(Tail(s)) /\ In(s) = {Head(s)} \cup In(Tail(s))
<1>1. PICK A : s \in Seq(A)
  BY DEF IsList
<1>2. Len(s) \in Nat /\ Len(s) > 0 /\ DOMAIN s = 1..Len(s) /\ Head(s) = s[1]
  BY <1>1
<1>3. Tail(s) \in Seq(A) /\ DOMAIN Tail(s) = 1..(Len(s) - 1)
      /\ \A n \in 1..(Len(s) - 1) : Tail(s)[n] = s[n + 1]
  BY <1>1, <1>2
<1>4. In(s) \subseteq {Head(s)} \cup In(Tail(s))
  <2>1. ASSUME NEW n \in 1..Len(s) PROVE s[n] \in {Head(s)} \cup In(Tail(s))
    <3>1. CASE n = 1
      BY <3>1, <1>2
    <3>2. CASE n # 1
      <4>1. n - 1 \in 1..(Len(s) - 1) /\ Tail(s)[n - 1] = s[n]
        BY <3>2, <1>2, <1>3
      <4> QED BY <4>1, <1>3 DEF In
    <3> QED BY <3>1, <3>2
  <2> QED BY <2>1, <1>2 DEF In
<1>5. In(Tail(s)) \subseteq In(s)
  BY <1>2, <1>3 DEF In
<1>6. Head(s) \in In(s)
  BY <1>2 DEF In
<1> QED BY <1>3, <1>4, <1>5, <1>6 DEF IsList

LEMMA Empty == ASSUME NEW s, IsList(s) PROVE s = <<>> <=> In(s) = {}
<1>1. PICK A : s \in Seq(A)
  BY DEF IsList
<1>2. s # <<>> => 1 \in DOMAIN s
  BY <1>1
<1> QED BY <1>2, NoneListed DEF In

-----------------------------------------------------------------------------
(***************************************************************************)
(* The window's long poll.  Until its service has stopped, one is waiting, *)
(* answered, heard or set to be asked for again; before the first status   *)
(* is heard, that is still to come.                                        *)
(***************************************************************************)
Three == {"fast", "slow", "wait"}

Queues ==
    /\ DOMAIN queue = Three /\ \A l \in Three : IsList(queue[l])
    /\ Kinds(queue["wait"], {"await"})
Answers ==
    /\ DOMAIN answer = Three
    /\ answer["wait"] # None => answer["wait"].kind = "awake"
Serving ==
    /\ revision \in Nat /\ stops \in Nat /\ DOMAIN conn = Three
    /\ stops = 0 => up
    /\ stops = 0 => \A l \in Three : conn[l] # "dead"
Counters == again \in Nat /\ nap \in Nat /\ dozing \in BOOLEAN
Tended == Queues /\ Answers /\ Serving /\ Counters /\ IsList(inbox)

Napping == dozing /\ nap > 0
Waiting ==
    \/ queue["wait"] # <<>> \/ answer["wait"] # None
    \/ \E m \in In(inbox) : m.kind = "awake"
FirstPoll ==
    /\ mine = 0
    /\ \/ \E m \in In(queue["slow"]) : m.kind = "status"
       \/ answer["slow"] # None /\ answer["slow"].kind = "status"
       \/ \E m \in In(inbox) : m.kind = "status"
Attended == stops = 0 => Waiting \/ again > 0 \/ Napping \/ FirstPoll

\* What a face's own step leaves of the link.
Sent ==
    /\ Queues'
    /\ queue["wait"] # <<>> => queue'["wait"] # <<>>
    /\ In(queue["slow"]) \subseteq In(queue'["slow"])
    /\ UNCHANGED <<revision, stops, up, conn, answer>>

LEMMA WindowSends ==
    ASSUME Queues, NEW fast, NEW slow, NEW wait, W!Sends(fast, slow, wait),
           IsList(fast), IsList(slow), IsList(wait), Kinds(wait, {"await"})
    PROVE  Sent /\ (wait # <<>> => queue'["wait"] # <<>>)
<1>1. /\ DOMAIN queue' = Three
      /\ queue'["fast"] = queue["fast"] \o fast
      /\ queue'["slow"] = queue["slow"] \o slow
      /\ queue'["wait"] = queue["wait"] \o wait
  BY DEF W!Sends, W!Lanes, Three
<1>2. IsList(queue["fast"]) /\ IsList(queue["slow"]) /\ IsList(queue["wait"])
  BY DEF Queues, Three
<1>3. /\ IsList(queue'["fast"]) /\ IsList(queue'["slow"]) /\ IsList(queue'["wait"])
      /\ In(queue'["slow"]) = In(queue["slow"]) \cup In(slow)
      /\ In(queue'["wait"]) = In(queue["wait"]) \cup In(wait)
  BY <1>1, <1>2, BothListed
<1>4. Kinds(queue'["wait"], {"await"})
  BY <1>3 DEF Queues, Kinds
<1>5. Queues'
  BY <1>1, <1>3, <1>4 DEF Queues, Three
<1>6. queue["wait"] # <<>> \/ wait # <<>> => queue'["wait"] # <<>>
  BY <1>2, <1>3, Empty
<1> QED BY <1>3, <1>5, <1>6 DEF Sent, W!Sends, W!service

\* What the window sends is a list, and of its long polls a list of long polls.
LEMMA WindowAsks ==
    /\ IsList(<<>>) /\ Kinds(<<>>, {"await"})
    /\ \A a : IsList(<<a>>)
    /\ \A r : Kinds(<<W!Await(r)>>, {"await"}) /\ <<W!Await(r)>> # <<>>
    /\ IsList(W!Roused) /\ Kinds(W!Roused, {"await"})
    /\ dozing => W!Roused # <<>>
<1>1. \A r : W!Await(r).kind = "await"
  BY DEF W!Await
<1>2. \A r : Kinds(<<W!Await(r)>>, {"await"}) /\ <<W!Await(r)>> # <<>>
  BY <1>1, OneListed DEF Kinds
<1>3. Kinds(<<>>, {"await"})
  BY NoneListed DEF Kinds
<1>4. W!Roused = <<W!Await(mine)>> \/ (~dozing /\ W!Roused = <<>>)
  BY DEF W!Roused
<1> QED BY <1>2, <1>3, <1>4, NoneListed, OneListed

LEMMA WindowFetches ==
    ASSUME NEW p, NEW first, NEW cheap, NEW quiet, NEW now,
           NEW f \in W!Follow(p, first, cheap, quiet, now)
    PROVE  IsList(f.fast)
<1>1. f.fast = <<>> \/ \E a : f.fast = <<a>>
  BY DEF W!Follow
<1> QED BY <1>1, WindowAsks

LEMMA StillTended ==
    ASSUME Tended, Sent, IsList(inbox'), again' \in Nat, nap' \in Nat, dozing' \in BOOLEAN
    PROVE  Tended'
<1>1. Queues' /\ Answers'
  BY DEF Tended, Sent, Answers
<1>2. Serving'
  BY DEF Tended, Sent, Serving
<1> QED BY <1>1, <1>2 DEF Tended, Counters

LEMMA StillWaiting ==
    ASSUME Sent, \A m \in In(inbox) : m.kind \in {"awake", "status"} => m \in In(inbox')
    PROVE  (Waiting => Waiting') /\ (mine' = mine /\ FirstPoll => FirstPoll')
<1>1. Waiting => Waiting'
  BY DEF Waiting, Sent
<1>2. mine' = mine /\ FirstPoll => FirstPoll'
  BY DEF FirstPoll, Sent
<1> QED BY <1>1, <1>2

\* What somebody does here, and what the window does by itself: a nap that ends early
\* is a long poll at once.
LEMMA WindowTouched ==
    ASSUME Tended, Attended, NEW fast, IsList(fast), W!Sends(fast, <<>>, W!Roused),
           dozing' = FALSE, UNCHANGED <<inbox, mine, again, nap>>
    PROVE  Tended' /\ Attended'
<1>1. Sent /\ (W!Roused # <<>> => queue'["wait"] # <<>>)
  BY WindowSends, WindowAsks DEF Tended
<1>2. Tended'
  BY <1>1, StillTended DEF Tended, Counters
<1>3. (Waiting => Waiting') /\ (FirstPoll => FirstPoll')
  BY <1>1, StillWaiting
<1>4. Napping => W!Roused # <<>>
  BY WindowAsks DEF Napping
<1>5. Napping => Waiting'
  BY <1>1, <1>4 DEF Waiting
<1>6. stops' = stops
  BY <1>1 DEF Sent
<1> QED BY <1>2, <1>3, <1>5, <1>6 DEF Attended

LEMMA WindowAlone ==
    ASSUME Tended, Attended, NEW fast, IsList(fast), NEW slow, IsList(slow),
           W!Sends(fast, slow, <<>>), UNCHANGED <<inbox, mine, dozing, again, nap>>
    PROVE  Tended' /\ Attended'
<1>1. Sent
  BY WindowSends, WindowAsks DEF Tended
<1>2. Tended'
  BY <1>1, StillTended DEF Tended, Counters
<1>3. (Waiting => Waiting') /\ (FirstPoll => FirstPoll')
  BY <1>1, StillWaiting
<1>4. Napping' <=> Napping
  BY DEF Napping
<1>5. stops' = stops
  BY <1>1 DEF Sent
<1> QED BY <1>2, <1>3, <1>4, <1>5 DEF Attended

\* A message that is no long poll's.
LEMMA WindowHears ==
    ASSUME Tended, Attended, NEW fast, IsList(fast), W!Sends(fast, <<>>, <<>>),
           inbox # <<>>, inbox' = Tail(inbox), Head(inbox).kind \notin {"awake", "status"},
           UNCHANGED <<mine, dozing, again, nap>>
    PROVE  Tended' /\ Attended'
<1>1. Sent
  BY WindowSends, WindowAsks DEF Tended
<1>2. IsList(inbox') /\ In(inbox) = {Head(inbox)} \cup In(inbox')
  BY HeadListed DEF Tended
<1>3. Tended'
  BY <1>1, <1>2, StillTended DEF Tended, Counters
<1>4. (Waiting => Waiting') /\ (FirstPoll => FirstPoll')
  BY <1>1, <1>2, StillWaiting
<1>5. Napping' <=> Napping
  BY DEF Napping
<1>6. stops' = stops
  BY <1>1 DEF Sent
<1> QED BY <1>3, <1>4, <1>5, <1>6 DEF Attended

\* The timers of the long poll.
LEMMA WindowAsksAgain == Tended /\ Attended /\ (W!Again \/ W!DozeAgain) => Tended' /\ Attended'
<1> SUFFICES ASSUME Tended, Attended, W!Again \/ W!DozeAgain PROVE Tended' /\ Attended'
  OBVIOUS
<1>1. CASE W!Again
  <2>1. /\ again' \in Nat /\ UNCHANGED <<dozing, nap, inbox>>
        /\ W!Sends(<<>>, <<>>, <<W!Await(mine)>>)
    BY <1>1 DEF W!Again, Tended, Counters
  <2>2. Sent /\ queue'["wait"] # <<>>
    BY <2>1, WindowSends, WindowAsks DEF Tended
  <2>3. Tended'
    BY <2>1, <2>2, StillTended DEF Tended, Counters
  <2> QED BY <2>2, <2>3 DEF Attended, Waiting
<1>2. CASE W!DozeAgain
  <2>1. /\ nap' \in Nat /\ UNCHANGED <<dozing, again, inbox, mine>>
        /\ W!Sends(<<>>, <<>>, IF dozing THEN <<W!Await(mine)>> ELSE <<>>)
    BY <1>2 DEF W!DozeAgain, Tended, Counters
  <2>2. CASE dozing
    <3>1. W!Sends(<<>>, <<>>, <<W!Await(mine)>>)
      BY <2>1, <2>2
    <3>2. Sent /\ queue'["wait"] # <<>>
      BY <3>1, WindowSends, WindowAsks DEF Tended
    <3>3. Tended'
      BY <2>1, <3>2, StillTended DEF Tended, Counters
    <3> QED BY <3>2, <3>3 DEF Attended, Waiting
  <2>3. CASE ~dozing
    <3>1. W!Sends(<<>>, <<>>, <<>>)
      BY <2>1, <2>3
    <3>2. Sent
      BY <3>1, WindowSends, WindowAsks DEF Tended
    <3>3. Tended'
      BY <2>1, <3>2, StillTended DEF Tended, Counters
    <3>4. (Waiting => Waiting') /\ (FirstPoll => FirstPoll')
      BY <2>1, <3>2, StillWaiting
    <3>5. ~Napping
      BY <2>3 DEF Napping
    <3>6. stops' = stops /\ again' = again
      BY <2>1, <3>2 DEF Sent
    <3> QED BY <3>3, <3>4, <3>5, <3>6 DEF Attended
  <2> QED BY <2>2, <2>3
<1> QED BY <1>1, <1>2

\* What the long poll says is answered by another, or by a timer for one.
LEMMA WindowAwake ==
    ASSUME Tended, Attended, inbox # <<>>, inbox' = Tail(inbox), NEW m, m = Head(inbox),
           W!Doze(m) \/ W!Awake(m) \/ W!FirstStatus(m)
    PROVE  Tended' /\ Attended'
<1>0. IsList(inbox') /\ In(inbox) = {m} \cup In(inbox')
  BY HeadListed DEF Tended
<1>1. CASE W!Doze(m)
  <2>1. W!Sends(<<>>, <<>>, <<>>) /\ again' = again /\ dozing' = TRUE /\ nap' = nap + 1
    BY <1>1 DEF W!Doze
  <2>2. Sent
    BY <2>1, WindowSends, WindowAsks DEF Tended
  <2>3. again' \in Nat /\ nap' \in Nat /\ nap' > 0 /\ dozing' \in BOOLEAN
    BY <2>1 DEF Tended, Counters
  <2>4. Napping'
    BY <2>1, <2>3 DEF Napping
  <2> QED BY <1>0, <2>2, <2>3, <2>4, StillTended DEF Attended
<1>2. CASE W!Awake(m) /\ m.revision = mine
  <2>1. W!Sends(<<>>, <<>>, <<W!Await(mine)>>) /\ UNCHANGED <<again, nap, dozing>>
    BY <1>2 DEF W!Awake
  <2>2. Sent /\ queue'["wait"] # <<>>
    BY <2>1, WindowSends, WindowAsks DEF Tended
  <2>3. Tended'
    BY <1>0, <2>1, <2>2, StillTended DEF Tended, Counters
  <2> QED BY <2>2, <2>3 DEF Attended, Waiting
<1>3. CASE W!Awake(m) /\ m.revision # mine
  <2>1. /\ again' = again + 1 /\ UNCHANGED <<nap, dozing>>
        /\ \E cheap, quiet : \E f \in W!Follow(W!Marked(pages, m.revision), top, cheap, quiet, m.revision) :
              W!Sends(f.fast, <<>>, <<>>)
    BY <1>3 DEF W!Awake
  <2>2. PICK fast : IsList(fast) /\ W!Sends(fast, <<>>, <<>>)
    BY <2>1, WindowFetches
  <2>3. Sent
    BY <2>2, WindowSends, WindowAsks DEF Tended
  <2>4. again' \in Nat /\ again' > 0
    BY <2>1 DEF Tended, Counters
  <2>5. Tended'
    BY <1>0, <2>1, <2>3, <2>4, StillTended DEF Tended, Counters
  <2> QED BY <2>4, <2>5 DEF Attended
<1>4. CASE W!FirstStatus(m) /\ mine = 0
  <2>1. PICK r : W!Sends(<<>>, <<>>, <<W!Await(r)>>) /\ UNCHANGED <<again, nap, dozing>>
    BY <1>4 DEF W!FirstStatus
  <2>2. Sent /\ queue'["wait"] # <<>>
    BY <2>1, WindowSends, WindowAsks DEF Tended
  <2>3. Tended'
    BY <1>0, <2>1, <2>2, StillTended DEF Tended, Counters
  <2> QED BY <2>2, <2>3 DEF Attended, Waiting
<1>5. CASE W!FirstStatus(m) /\ mine # 0
  <2>1. /\ W!Sends(<<>>, <<>>, <<>>) /\ UNCHANGED <<again, nap, dozing>>
        /\ m.kind = "status"
    BY <1>5 DEF W!FirstStatus
  <2>2. Sent
    BY <2>1, WindowSends, WindowAsks DEF Tended
  <2>3. Tended'
    BY <1>0, <2>1, <2>2, StillTended DEF Tended, Counters
  <2>4. Waiting => Waiting'
    BY <1>0, <2>1, <2>2 DEF Waiting, Sent
  <2>5. ~FirstPoll /\ (Napping' <=> Napping) /\ again' = again /\ stops' = stops
    BY <1>5, <2>1, <2>2 DEF FirstPoll, Napping, Sent
  <2> QED BY <2>3, <2>4, <2>5 DEF Attended
<1> QED BY <1>1, <1>2, <1>3, <1>4, <1>5

LEMMA WindowFaces ==
    ASSUME Tended, Attended,
           W!User \/ W!Backstop \/ W!Timer \/ W!Hear
    PROVE  Tended' /\ Attended'
<1>1. CASE W!Type \/ W!Order
  <2>1. /\ W!Sends(<<W!Dispatched>>, <<>>, W!Roused) /\ dozing' = FALSE
        /\ UNCHANGED <<inbox, mine, again, nap>>
    BY <1>1 DEF W!Type, W!Order
  <2>2. PICK fast : IsList(fast) /\ W!Sends(fast, <<>>, W!Roused)
    BY <2>1, WindowAsks
  <2> QED BY <2>1, <2>2, WindowTouched
<1>2. CASE W!Scroll
  <2>1. /\ \E cheap, quiet : \E f \in W!Follow(pages, top', cheap, quiet, mine) :
              W!Sends(f.fast, <<>>, W!Roused)
        /\ dozing' = FALSE /\ UNCHANGED <<inbox, mine, again, nap>>
    BY <1>2 DEF W!Scroll
  <2>2. PICK fast : IsList(fast) /\ W!Sends(fast, <<>>, W!Roused)
    BY <2>1, WindowFetches
  <2> QED BY <2>1, <2>2, WindowTouched
<1>3. CASE W!Backstop
  <2>1. /\ \E cheap, quiet : \E f \in W!Follow(pages, top, cheap, quiet, mine) :
              W!Sends(f.fast, <<>>, <<>>)
        /\ UNCHANGED <<inbox, mine, dozing, again, nap>>
    BY <1>3 DEF W!Backstop
  <2>2. PICK fast : IsList(fast) /\ W!Sends(fast, <<>>, <<>>)
    BY <2>1, WindowFetches
  <2> QED BY <2>1, <2>2, WindowAlone, NoneListed
<1>4. CASE W!Background
  <2>1. PICK slow : IsList(slow) /\ W!Sends(<<>>, slow, <<>>)
    BY <1>4, WindowAsks DEF W!Background
  <2>2. UNCHANGED <<inbox, mine, dozing, again, nap>>
    BY <1>4 DEF W!Background
  <2> QED BY <2>1, <2>2, WindowAlone, NoneListed
<1>5. CASE W!Again \/ W!DozeAgain
  BY <1>5, WindowAsksAgain
<1>6. CASE W!Hear
  <2> DEFINE m == Head(inbox)
  <2>1. inbox # <<>> /\ inbox' = Tail(inbox)
    BY <1>6 DEF W!Hear
  <2>2. CASE W!Doze(m) \/ W!Awake(m) \/ W!FirstStatus(m)
    BY <2>1, <2>2, WindowAwake
  <2>3. CASE W!Land(m)
    <3>1. /\ m.kind = "search" /\ UNCHANGED <<mine, dozing, again, nap>>
          /\ \E p, first, cheap, quiet, now : \E f \in W!Follow(p, first, cheap, quiet, now) :
                W!Sends(f.fast, <<>>, <<>>)
      BY <2>3 DEF W!Land
    <3>2. PICK fast : IsList(fast) /\ W!Sends(fast, <<>>, <<>>)
      BY <3>1, WindowFetches
    <3> QED BY <2>1, <3>1, <3>2, WindowHears
  <2>4. CASE W!Drop(m) \/ W!Counted(m) \/ W!WentDown(m) \/ W!CameUp(m)
    <3>1. /\ m.kind \notin {"awake", "status"} /\ UNCHANGED <<mine, dozing, again, nap>>
          /\ W!Sends(<<>>, <<>>, <<>>)
      BY <2>4 DEF W!Drop, W!Counted, W!WentDown, W!CameUp, W!faceVars
    <3> QED BY <2>1, <3>1, WindowHears, NoneListed
  <2> QED BY <1>6, <2>2, <2>3, <2>4 DEF W!Hear
<1> QED BY <1>1, <1>2, <1>3, <1>4, <1>5, <1>6 DEF W!User, W!Timer

-----------------------------------------------------------------------------
\* A lane takes one request, and what it takes of the long poll it answers.
LEMMA WindowTakes ==
    ASSUME Queues, NEW lane \in Three, W!Asks(lane), W!Done(lane)
    PROVE  /\ Queues'
           /\ lane # "wait" => queue'["wait"] = queue["wait"]
           /\ lane # "slow" => queue'["slow"] = queue["slow"]
           /\ lane = "slow" => In(queue["slow"]) = {W!Ask(lane)} \cup In(queue'["slow"])
           /\ lane = "wait" => W!Ask(lane).kind = "await"
<1>1. IsList(queue[lane]) /\ queue[lane] # <<>> /\ DOMAIN queue = Three
  BY DEF Queues, W!Asks
<1>2. DOMAIN queue' = Three /\ (\A l \in Three \ {lane} : queue'[l] = queue[l])
      /\ queue'[lane] \in {<<>>, Tail(queue[lane])}
      /\ (lane # "fast" => queue'[lane] = Tail(queue[lane]) /\ W!Ask(lane) = Head(queue[lane]))
  BY <1>1 DEF W!Done, W!NewestOnly, W!Ask
<1>3. IsList(Tail(queue[lane])) /\ In(queue[lane]) = {Head(queue[lane])} \cup In(Tail(queue[lane]))
  BY <1>1, HeadListed
<1>4. \A l \in Three : IsList(queue'[l])
  BY <1>2, <1>3, NoneListed DEF Queues
<1>5. Kinds(queue'["wait"], {"await"})
  BY <1>2, <1>3 DEF Queues, Kinds, Three
<1>6. lane = "wait" => W!Ask(lane).kind = "await"
  BY <1>2, <1>3 DEF Queues, Kinds
<1> QED BY <1>2, <1>3, <1>4, <1>5, <1>6 DEF Queues, Three

LEMMA WindowLanes ==
    ASSUME Tended, Attended, NEW lane \in Three, W!LaneStep(lane), UNCHANGED W!faceVars
    PROVE  Tended' /\ Attended'
<1>0. /\ UNCHANGED <<mine, again, nap, dozing>> /\ Counters'
      /\ (Napping' <=> Napping)
  BY DEF W!faceVars, Tended, Counters, Napping
<1>1. CASE W!Skip(lane)
  <2>1. /\ W!Asks(lane) /\ W!Done(lane) /\ W!Ask(lane).kind \in {"search", "count"}
        /\ UNCHANGED <<revision, stops, up, conn, answer, inbox>>
    BY <1>1 DEF W!Skip, W!Stale, W!service
  <2>2. /\ Queues' /\ queue'["wait"] = queue["wait"]
        /\ lane # "slow" => queue'["slow"] = queue["slow"]
        /\ lane = "slow" => In(queue["slow"]) = {W!Ask(lane)} \cup In(queue'["slow"])
    BY <2>1, WindowTakes DEF Tended
  <2>3. Tended'
    BY <1>0, <2>1, <2>2 DEF Tended, Answers, Serving
  <2>4. Waiting' <=> Waiting
    BY <2>1, <2>2 DEF Waiting
  <2>5. FirstPoll => FirstPoll'
    BY <1>0, <2>1, <2>2 DEF FirstPoll
  <2> QED BY <1>0, <2>1, <2>3, <2>4, <2>5 DEF Attended
<1>2. CASE W!Connect(lane)
  <2>1. /\ UNCHANGED <<revision, stops, up, answer, queue>>
        /\ conn' = [conn EXCEPT ![lane] = "open"]
        /\ inbox' = inbox \/ \E m : inbox' = Append(inbox, m)
    BY <1>2 DEF W!Connect, W!service
  <2>2. IsList(inbox') /\ In(inbox) \subseteq In(inbox')
    <3>1. CASE inbox' = inbox
      BY <3>1 DEF Tended
    <3>2. CASE \E m : inbox' = Append(inbox, m)
      BY <3>2, LastListed DEF Tended
    <3> QED BY <2>1, <3>1, <3>2
  <2>3. Serving'
    BY <2>1 DEF Tended, Serving
  <2>4. Tended'
    BY <1>0, <2>1, <2>2, <2>3 DEF Tended, Queues, Answers
  <2>5. Waiting => Waiting'
    BY <2>1, <2>2 DEF Waiting
  <2>6. FirstPoll => FirstPoll'
    BY <1>0, <2>1, <2>2 DEF FirstPoll
  <2> QED BY <1>0, <2>1, <2>4, <2>5, <2>6 DEF Attended
<1>3. CASE W!Boot(lane)
  <2>1. ~up /\ UNCHANGED <<revision, stops, conn, answer, queue, inbox>>
    BY <1>3 DEF W!Boot
  <2>2. Tended'
    BY <1>0, <2>1 DEF Tended, Serving, Queues, Answers
  <2>3. (Waiting' <=> Waiting) /\ (FirstPoll' <=> FirstPoll)
    BY <1>0, <2>1 DEF Waiting, FirstPoll
  <2> QED BY <1>0, <2>1, <2>2, <2>3 DEF Attended
<1>4. CASE W!Unreached(lane)
  <2>1. /\ W!Asks(lane) /\ W!Done(lane) /\ ~up
        /\ UNCHANGED <<revision, stops, up, conn, answer>>
        /\ (inbox' = inbox \/ \E m : inbox' = Append(inbox, m))
    BY <1>4 DEF W!Unreached, W!service
  <2>2. stops # 0
    BY <2>1 DEF Tended, Serving
  <2>3. Queues' /\ IsList(inbox')
    BY <2>1, WindowTakes, LastListed DEF Tended
  <2>4. Tended'
    BY <1>0, <2>1, <2>3 DEF Tended, Serving, Answers
  <2> QED BY <2>1, <2>2, <2>4 DEF Attended
<1>5. CASE W!Call(lane)
  <2>1. /\ W!Asks(lane) /\ W!Done(lane) /\ DOMAIN answer' = Three
        /\ answer' = [answer EXCEPT ![lane] = W!Answer(W!Ask(lane))]
        /\ UNCHANGED <<revision, stops, up, conn, inbox>>
    BY <1>5 DEF W!Call, W!service, Tended, Answers
  <2>2. /\ Queues'
        /\ lane # "wait" => queue'["wait"] = queue["wait"]
        /\ lane # "slow" => queue'["slow"] = queue["slow"]
        /\ lane = "slow" => In(queue["slow"]) = {W!Ask(lane)} \cup In(queue'["slow"])
        /\ lane = "wait" => W!Ask(lane).kind = "await"
    BY <2>1, WindowTakes DEF Tended
  <2>3. \A k : k \in {"status", "awake"} =>
           [kind |-> k, revision |-> revision] # None
    BY FacesAssumption DEF Tended, Serving
  <2>4. W!Ask(lane).kind = "await" => W!Answer(W!Ask(lane)) = [kind |-> "awake", revision |-> revision]
    BY DEF W!Answer
  <2>5. W!Ask(lane).kind = "status" => W!Answer(W!Ask(lane)) = [kind |-> "status", revision |-> revision]
    BY DEF W!Answer
  <2>6. lane = "wait" => answer'["wait"] # None /\ answer'["wait"].kind = "awake"
    BY <2>1, <2>2, <2>3, <2>4 DEF Tended, Answers
  <2>7. \A l \in Three \ {lane} : answer'[l] = answer[l]
    BY <2>1 DEF Tended, Answers
  <2>8. Answers'
    BY <2>1, <2>6, <2>7 DEF Tended, Answers, Three
  <2>9. Tended'
    BY <1>0, <2>1, <2>2, <2>8 DEF Tended, Serving
  <2>10. Waiting => Waiting'
    <3>1. CASE lane = "wait"
      BY <3>1, <2>6 DEF Waiting
    <3>2. CASE lane # "wait"
      BY <3>2, <2>1, <2>2, <2>7 DEF Waiting, Three
    <3> QED BY <3>1, <3>2
  <2>11. FirstPoll => FirstPoll'
    <3>1. CASE lane # "slow"
      BY <3>1, <1>0, <2>1, <2>2, <2>7 DEF FirstPoll, Three
    <3>2. CASE lane = "slow"
      <4>1. answer["slow"] = None
        BY <3>2, <2>1 DEF W!Asks
      <4>2. W!Ask(lane).kind = "status" => answer'["slow"] # None /\ answer'["slow"].kind = "status"
        BY <3>2, <2>1, <2>3, <2>5 DEF Tended, Answers
      <4> QED BY <3>2, <4>1, <4>2, <1>0, <2>1, <2>2 DEF FirstPoll
    <3> QED BY <3>1, <3>2
  <2> QED BY <1>0, <2>1, <2>9, <2>10, <2>11 DEF Attended
<1>6. CASE W!CallFails(lane)
  <2>1. /\ W!Asks(lane) /\ W!Done(lane) /\ conn[lane] = "dead"
        /\ conn' = [conn EXCEPT ![lane] = "none"]
        /\ UNCHANGED <<revision, stops, up, answer>>
        /\ \E m : inbox' = Append(inbox, m)
    BY <1>6 DEF W!CallFails, W!service
  <2>2. stops # 0
    BY <2>1 DEF Tended, Serving
  <2>3. Queues' /\ IsList(inbox')
    BY <2>1, WindowTakes, LastListed DEF Tended
  <2>4. Serving'
    BY <2>1, <2>2 DEF Tended, Serving
  <2>5. Tended'
    BY <1>0, <2>1, <2>3, <2>4 DEF Tended, Answers
  <2> QED BY <2>1, <2>2, <2>5 DEF Attended
<1>7. CASE W!Say(lane)
  <2>1. /\ answer[lane] # None /\ inbox' = Append(inbox, answer[lane])
        /\ answer' = [answer EXCEPT ![lane] = None]
        /\ UNCHANGED <<revision, stops, up, conn, queue>>
    BY <1>7 DEF W!Say, W!service
  <2>2. IsList(inbox') /\ In(inbox') = In(inbox) \cup {answer[lane]}
    BY <2>1, LastListed DEF Tended
  <2>3. /\ DOMAIN answer' = Three /\ answer'[lane] = None
        /\ \A l \in Three \ {lane} : answer'[l] = answer[l]
    BY <2>1 DEF Tended, Answers
  <2>4. Answers'
    BY <2>3 DEF Tended, Answers, Three
  <2>5. Tended'
    BY <1>0, <2>1, <2>2, <2>4 DEF Tended, Serving, Queues
  <2>6. lane = "wait" => answer[lane].kind = "awake"
    BY <2>1 DEF Tended, Answers
  <2>7. Waiting => Waiting'
    BY <2>1, <2>2, <2>3, <2>6 DEF Waiting, Three
  <2>8. FirstPoll => FirstPoll'
    BY <1>0, <2>1, <2>2, <2>3 DEF FirstPoll, Three
  <2> QED BY <1>0, <2>1, <2>5, <2>7, <2>8 DEF Attended
<1> QED BY <1>1, <1>2, <1>3, <1>4, <1>5, <1>6, <1>7 DEF W!LaneStep

LEMMA WindowServed ==
    ASSUME Tended, Attended, W!ServiceStep, UNCHANGED W!faceVars
    PROVE  Tended' /\ Attended'
<1>0. /\ UNCHANGED <<mine, again, nap, dozing, answer, queue, inbox>> /\ Counters'
      /\ (Napping' <=> Napping)
  BY DEF W!faceVars, Tended, Counters, Napping, W!ServiceStep, W!IndexMoves, W!ServiceStops,
         W!ServiceStarts
<1>1. Queues' /\ Answers' /\ IsList(inbox') /\ (Waiting' <=> Waiting) /\ (FirstPoll' <=> FirstPoll)
  BY <1>0 DEF Tended, Queues, Answers, Waiting, FirstPoll
<1>2. CASE W!IndexMoves
  <2>1. revision' = revision + 1 /\ UNCHANGED <<up, stops, conn>>
    BY <1>2 DEF W!IndexMoves
  <2>2. Serving'
    BY <2>1 DEF Tended, Serving
  <2> QED BY <1>0, <1>1, <2>1, <2>2 DEF Tended, Attended
<1>3. CASE W!ServiceStops
  <2>1. revision' = 0 /\ stops' = stops + 1 /\ DOMAIN conn' = Three
    BY <1>3 DEF W!ServiceStops, W!Lanes, Three
  <2>2. stops' \in Nat /\ stops' # 0
    BY <2>1 DEF Tended, Serving
  <2>3. Serving'
    BY <2>1, <2>2 DEF Serving
  <2> QED BY <1>0, <1>1, <2>2, <2>3 DEF Tended, Attended
<1>4. CASE W!ServiceStarts
  <2>1. up' = TRUE /\ UNCHANGED <<revision, stops, conn>>
    BY <1>4 DEF W!ServiceStarts
  <2>2. Serving'
    BY <2>1 DEF Tended, Serving
  <2> QED BY <1>0, <1>1, <2>1, <2>2 DEF Tended, Attended
<1> QED BY <1>2, <1>3, <1>4 DEF W!ServiceStep

LEMMA WindowStarts == W!Init => Tended /\ Attended
<1> SUFFICES ASSUME W!Init PROVE Tended /\ Attended
  OBVIOUS
<1>1. /\ queue = [l \in Three |-> CASE l = "fast" -> <<W!Search(0, 0, 0, First)>>
                                    [] l = "slow" -> <<W!Status>> [] l = "wait" -> <<>>]
      /\ revision \in {0, 1} /\ stops \in {0, 1} /\ (stops = 0 => up)
      /\ conn = [l \in Three |-> "none"] /\ answer = [l \in Three |-> None] /\ inbox = <<>>
      /\ mine = 0 /\ dozing = FALSE /\ again = 0 /\ nap = 0
  BY DEF W!Init, W!LinkInit, W!Lanes, Three
<1>2. /\ DOMAIN queue = Three /\ queue["fast"] = <<W!Search(0, 0, 0, First)>>
      /\ queue["slow"] = <<W!Status>> /\ queue["wait"] = <<>>
  BY <1>1 DEF Three
<1>3. Queues
  BY <1>2, NoneListed, OneListed DEF Queues, Kinds, Three
<1>4. Answers /\ IsList(inbox)
  BY <1>1, NoneListed DEF Answers, Three
<1>5. Serving
  BY <1>1 DEF Serving
<1>6. Counters
  BY <1>1 DEF Counters
<1>7. W!Status \in In(queue["slow"]) /\ W!Status.kind = "status"
  BY <1>2, OneListed DEF W!Status
<1> QED BY <1>1, <1>3, <1>4, <1>5, <1>6, <1>7 DEF Tended, Attended, FirstPoll

LEMMA WindowAttends == Tended /\ Attended /\ [W!Next]_W!vars => Tended' /\ Attended'
<1> SUFFICES ASSUME Tended, Attended, [W!Next]_W!vars PROVE Tended' /\ Attended'
  OBVIOUS
<1>1. CASE W!User \/ W!Backstop \/ W!Timer \/ W!Hear
  BY <1>1, WindowFaces
<1>2. CASE \E l \in W!Lanes : W!Lane(l)
  BY <1>2, WindowLanes DEF W!Lanes, Three, W!Lane
<1>3. CASE W!ServiceStep /\ UNCHANGED W!faceVars
  BY <1>3, WindowServed
<1>4. CASE UNCHANGED W!vars
  <2>1. UNCHANGED <<queue, answer, revision, stops, up, conn, inbox, again, nap, dozing, mine>>
    BY <1>4 DEF W!vars, W!linkVars, W!service, W!faceVars
  <2> QED BY <2>1 DEF Tended, Attended, Queues, Answers, Serving, Counters, Waiting, Napping,
                      FirstPoll
<1> QED BY <1>1, <1>2, <1>3, <1>4 DEF W!Next

LEMMA AttendedPolls == Tended /\ Attended => Polling
<1> SUFFICES ASSUME Tended, Attended, stops = 0 PROVE Y!Polling
  BY DEF Polling, Y!Polling
<1>1. \A s, n : n \in DOMAIN s /\ s[n].kind \in {"status", "await", "awake"} => n \in Y!PollsIn(s)
  BY DEF Y!PollsIn, Y!Poll
<1>2. \A s, m : m \in In(s) /\ m.kind \in {"status", "await", "awake"} => Y!PollsIn(s) # {}
  BY <1>1 DEF In
<1>3. CASE Waiting
  <2>1. CASE queue["wait"] # <<>>
    <3>1. PICK m : m \in In(queue["wait"])
      BY <2>1, Empty DEF Tended, Queues, Three
    <3>2. m.kind = "await"
      BY <3>1 DEF Tended, Queues, Kinds
    <3> QED BY <3>1, <3>2, <1>2 DEF Y!Polling
  <2>2. CASE answer["wait"] # None
    BY <2>2 DEF Y!Polling, Y!OnTheWay, Y!Poll, Y!Lanes, Tended, Answers
  <2>3. CASE \E m \in In(inbox) : m.kind = "awake"
    BY <2>3, <1>2 DEF Y!Polling
  <2> QED BY <1>3, <2>1, <2>2, <2>3 DEF Waiting
<1>4. CASE FirstPoll
  BY <1>4, <1>2 DEF FirstPoll, Y!Polling, Y!OnTheWay, Y!Poll, Y!Lanes
<1>5. CASE again > 0 \/ Napping
  <2>1. (IF dozing THEN nap ELSE 0) \in Nat /\ (Napping => (IF dozing THEN nap ELSE 0) > 0)
    BY DEF Tended, Counters, Napping
  <2>2. Y!Timers > 0
    BY <1>5, <2>1 DEF Y!Timers, Tended, Counters
  <2> QED BY <2>2 DEF Y!Polling
<1> QED BY <1>3, <1>4, <1>5 DEF Attended

\* The window never loses its long poll (apply, stir, AWAIT_AGAIN and DOZE_AGAIN): while
\* its service runs one is always out or due, whatever is typed, moved, dozed through
\* or overtaken, so no change of the index goes unheard for good.
THEOREM WindowPolls == W!Spec => []Polling
<1> QED BY WindowStarts, WindowAttends, AttendedPolls, PTL DEF W!Spec

-----------------------------------------------------------------------------
(***************************************************************************)
(* The terminal's one search.  Of the question on the screen at most one   *)
(* search is anywhere: waiting for a key, in the fast lane's queue,        *)
(* answered, or said; and it is the one the pages wait for.                *)
(***************************************************************************)
Cur(m, q)   == m.kind = "search" /\ m.question = q
Alone(s, q) == \A i, j \in DOMAIN s : Cur(s[i], q) /\ Cur(s[j], q) => i = j
Clear(s, q) == \A m \in In(s) : ~Cur(m, q)

\* pend: what waits for a key; fast: the lane's queue; ans: what the lane has been
\* answered; box: what was said; due: what the pages wait for.
Gone(q, pend, fast, ans, box) ==
    /\ pend = None \/ pend.question # q
    /\ ans = None \/ ~Cur(ans, q)
    /\ Clear(fast, q) /\ Clear(box, q)
OneOut(q, due, pend, fast, ans, box) ==
    /\ Alone(fast, q) /\ Alone(box, q)
    /\ pend # None /\ pend.question = q =>
          /\ Clear(fast, q) /\ Clear(box, q) /\ (ans = None \/ ~Cur(ans, q))
          /\ due # None /\ due.page = pend.page
    /\ ~Clear(fast, q) => Clear(box, q) /\ (ans = None \/ ~Cur(ans, q))
    /\ ans # None /\ Cur(ans, q) =>
          Clear(box, q) /\ due # None /\ due.page = ans.page /\ due.revision <= ans.seen
    /\ \A m \in In(fast) : Cur(m, q) => due # None /\ due.page = m.page
    /\ \A m \in In(box) : Cur(m, q) => due # None /\ due.page = m.page /\ due.revision <= m.seen

LEMMA ClearAlone == ASSUME NEW s, NEW q, Clear(s, q) PROVE Alone(s, q)
  BY DEF Clear, Alone, In

LEMMA GoneOut ==
    ASSUME NEW q, NEW due, NEW pend, NEW fast, NEW ans, NEW box, Gone(q, pend, fast, ans, box)
    PROVE  OneOut(q, due, pend, fast, ans, box)
  BY ClearAlone DEF Gone, OneOut, Clear

LEMMA NoneDue ==
    ASSUME NEW q, NEW pend, NEW fast, NEW ans, NEW box, OneOut(q, None, pend, fast, ans, box)
    PROVE  Gone(q, pend, fast, ans, box)
  BY DEF Gone, OneOut, Clear

LEMMA AloneLast ==
    ASSUME NEW s, IsList(s), NEW x, NEW q, Alone(s, q), ~Cur(x, q) \/ Clear(s, q)
    PROVE  Alone(Append(s, x), q)
<1>1. PICK A : s \in Seq(A)
  BY DEF IsList
<1>2. /\ Len(s) \in Nat /\ DOMAIN s = 1..Len(s) /\ DOMAIN Append(s, x) = 1..(Len(s) + 1)
      /\ \A i \in 1..Len(s) : Append(s, x)[i] = s[i]
      /\ Append(s, x)[Len(s) + 1] = x
  BY <1>1
<1> QED BY <1>2 DEF Alone, Clear, In

LEMMA AloneTail ==
    ASSUME NEW s, IsList(s), s # <<>>, NEW q, Alone(s, q)
    PROVE  /\ Alone(Tail(s), q)
           /\ Cur(Head(s), q) => Clear(Tail(s), q)
           /\ Clear(s, q) => Clear(Tail(s), q)
<1>1. PICK A : s \in Seq(A)
  BY DEF IsList
<1>2. Len(s) \in Nat /\ Len(s) > 0 /\ DOMAIN s = 1..Len(s) /\ Head(s) = s[1]
  BY <1>1
<1>3. DOMAIN Tail(s) = 1..(Len(s) - 1) /\ \A n \in 1..(Len(s) - 1) : Tail(s)[n] = s[n + 1]
  BY <1>1, <1>2
<1>4. Alone(Tail(s), q)
  <2>1. ASSUME NEW i \in 1..(Len(s) - 1), NEW j \in 1..(Len(s) - 1),
               Cur(Tail(s)[i], q), Cur(Tail(s)[j], q)
        PROVE  i = j
    <3>1. i + 1 \in 1..Len(s) /\ j + 1 \in 1..Len(s) /\ Cur(s[i + 1], q) /\ Cur(s[j + 1], q)
      BY <2>1, <1>2, <1>3
    <3>2. i + 1 = j + 1
      BY <3>1, <1>2 DEF Alone
    <3> QED BY <3>2
  <2> QED BY <2>1, <1>3 DEF Alone
<1>5. Cur(Head(s), q) => Clear(Tail(s), q)
  <2>1. ASSUME Cur(Head(s), q), NEW i \in 1..(Len(s) - 1), Cur(Tail(s)[i], q) PROVE FALSE
    <3>1. 1 \in 1..Len(s) /\ i + 1 \in 1..Len(s) /\ Cur(s[1], q) /\ Cur(s[i + 1], q)
      BY <2>1, <1>2, <1>3
    <3>2. i + 1 = 1
      BY <3>1, <1>2 DEF Alone
    <3> QED BY <3>2
  <2> QED BY <2>1, <1>3 DEF Clear, In
<1>6. Clear(s, q) => Clear(Tail(s), q)
  BY HeadListed DEF Clear
<1> QED BY <1>4, <1>5, <1>6

\* A search is sent, or left to wait for a key, for the page that is due.
LEMMA OutSent ==
    ASSUME NEW q, NEW due, NEW pend, NEW fast, NEW ans, NEW box, NEW x,
           Gone(q, pend, fast, ans, box), IsList(fast), due # None, due.page = x.page
    PROVE  OneOut(q, due, pend, Append(fast, x), ans, box)
<1>1. In(Append(fast, x)) = In(fast) \cup {x} /\ Alone(Append(fast, x), q) /\ Alone(box, q)
  BY LastListed, AloneLast, ClearAlone DEF Gone
<1> QED BY <1>1 DEF Gone, OneOut, Clear

LEMMA OutPending ==
    ASSUME NEW q, NEW due, NEW pend, NEW pend2, NEW fast, NEW ans, NEW box,
           Gone(q, pend, fast, ans, box), due # None, due.page = pend2.page
    PROVE  OneOut(q, due, pend2, fast, ans, box)
  BY ClearAlone DEF Gone, OneOut, Clear

\* The key has been waited for.
LEMMA OutWaited ==
    ASSUME NEW q, NEW due, NEW pend, NEW fast, NEW ans, NEW box, NEW x, pend # None,
           OneOut(q, due, pend, fast, ans, box), IsList(fast),
           x.question = pend.question, x.page = pend.page
    PROVE  OneOut(q, due, None, Append(fast, x), ans, box)
<1>1. /\ In(Append(fast, x)) = In(fast) \cup {x} /\ Alone(Append(fast, x), q) /\ Alone(box, q)
  BY LastListed, AloneLast DEF OneOut, Cur
<1>2. CASE Cur(x, q)
  <2>1. Gone(q, None, fast, ans, box) /\ due # None /\ due.page = x.page
    BY <1>2 DEF OneOut, Gone, Cur
  <2> QED BY <2>1, OutSent
<1>3. CASE ~Cur(x, q)
  BY <1>1, <1>3 DEF OneOut, Clear
<1> QED BY <1>2, <1>3

\* What was said is heard.
LEMMA OutHeard ==
    ASSUME NEW q, NEW due, NEW pend, NEW fast, NEW ans, NEW box,
           OneOut(q, due, pend, fast, ans, box), IsList(box), box # <<>>
    PROVE  /\ OneOut(q, due, pend, fast, ans, Tail(box))
           /\ Cur(Head(box), q) => /\ Gone(q, pend, fast, ans, Tail(box))
                                   /\ due # None /\ due.page = Head(box).page
                                   /\ due.revision <= Head(box).seen
<1>1. /\ In(box) = {Head(box)} \cup In(Tail(box)) /\ Alone(Tail(box), q)
      /\ Cur(Head(box), q) => Clear(Tail(box), q)
      /\ Clear(box, q) => Clear(Tail(box), q)
  BY HeadListed, AloneTail DEF OneOut
<1>2. OneOut(q, due, pend, fast, ans, Tail(box))
  BY <1>1 DEF OneOut
<1>3. Cur(Head(box), q) => ~Clear(box, q)
  BY <1>1 DEF Clear
<1>4. Cur(Head(box), q) => /\ Gone(q, pend, fast, ans, Tail(box))
                           /\ due # None /\ due.page = Head(box).page
                           /\ due.revision <= Head(box).seen
  BY <1>1, <1>3 DEF OneOut, Gone
<1> QED BY <1>2, <1>4

\* The lane is answered, and says so; and it says something else.
LEMMA OutAnswered ==
    ASSUME NEW q, NEW due, NEW pend, NEW fast, NEW box, NEW ans2,
           OneOut(q, due, pend, fast, None, box), IsList(fast), fast # <<>>,
           Cur(ans2, q) => Cur(Head(fast), q) /\ Head(fast).page = ans2.page,
           due # None => due.revision <= ans2.seen
    PROVE  OneOut(q, due, pend, Tail(fast), ans2, box)
<1>1. /\ In(fast) = {Head(fast)} \cup In(Tail(fast)) /\ Alone(Tail(fast), q)
      /\ Cur(Head(fast), q) => Clear(Tail(fast), q)
      /\ Clear(fast, q) => Clear(Tail(fast), q)
  BY HeadListed, AloneTail DEF OneOut
<1>2. Cur(ans2, q) => ~Clear(fast, q)
  BY <1>1 DEF Clear
<1> QED BY <1>1, <1>2 DEF OneOut

LEMMA OutSaid ==
    ASSUME NEW q, NEW due, NEW pend, NEW fast, NEW ans, NEW box,
           OneOut(q, due, pend, fast, ans, box), ans # None, IsList(box)
    PROVE  OneOut(q, due, pend, fast, None, Append(box, ans))
<1>1. /\ In(Append(box, ans)) = In(box) \cup {ans}
      /\ Alone(Append(box, ans), q)
  BY LastListed, AloneLast DEF OneOut
<1> QED BY <1>1 DEF OneOut, Clear

LEMMA OutOther ==
    ASSUME NEW q, NEW due, NEW pend, NEW fast, NEW ans, NEW box, NEW x,
           OneOut(q, due, pend, fast, ans, box), IsList(box), ~Cur(x, q)
    PROVE  OneOut(q, due, pend, fast, ans, Append(box, x))
<1>1. /\ In(Append(box, x)) = In(box) \cup {x}
      /\ Alone(Append(box, x), q)
  BY LastListed, AloneLast DEF OneOut
<1> QED BY <1>1 DEF OneOut, Clear

-----------------------------------------------------------------------------
(***************************************************************************)
(* What is asked and said is well formed.                                  *)
(***************************************************************************)
Fetch == [page : Int, revision : Nat]
PagesOk(p) ==
    /\ DOMAIN p = Fields /\ p.total \in Int /\ p.served \in Int /\ p.revision \in Nat
    /\ p.asked = None \/ p.asked \in Fetch

LEMMA LeastIn ==
    ASSUME NEW a \in Int, NEW X \in SUBSET Int, X # {}, \A n \in X : a <= n
    PROVE  P!Least(X) \in X
<1> DEFINE above == {n - a : n \in X}
           less == {ss \in Nat \X Nat : ss[1] < ss[2]}
<1>1. above \subseteq Nat /\ above # {}
  <2>1. \A n \in X : n - a \in Nat
    OBVIOUS
  <2>2. PICK n \in X : TRUE
    OBVIOUS
  <2>3. n - a \in above
    BY <2>2
  <2> QED BY <2>1, <2>3
<1>2. IsWellFoundedOn(less, Nat)
  BY NatLessThanWellFounded DEF OpToRel
<1>3. PICK x \in above : \A y \in above : ~(y < x)
  <2> HIDE DEF less, above
  <2>1. PICK x \in above : \A y \in above : ~(<<y, x>> \in less)
    BY <1>1, <1>2, WFMin
  <2>2. \A y \in above : ~(y < x)
    BY <1>1, <2>1 DEF less
  <2> QED BY <2>2
<1>4. PICK m \in X : x = m - a
  OBVIOUS
<1>5. \A n \in X : n - a \in above
  OBVIOUS
<1> HIDE DEF above
<1>6. \A n \in X : m <= n
  BY <1>3, <1>4, <1>5
<1>7. \E n \in X : \A y \in X : n <= y
  BY <1>6
<1> QED BY <1>7 DEF P!Least

\* The page to fetch next is a page, and none is out already.
LEMMA NextIsPage ==
    ASSUME NEW p, PagesOk(p), NEW first \in Int, NEW last \in Int, NEW near, NEW again2,
           NEW page \in P!NextPages(p, first, last, near, again2)
    PROVE  page \in Int /\ p.asked = None
<1> DEFINE from == P!PageOf(P!Lesser(first, p.total - 1))
           to   == P!PageOf(P!Lesser(last, p.total - 1))
<1>1. from \in Int /\ to \in Int
  <2>1. P!Lesser(first, p.total - 1) \in Int /\ P!Lesser(last, p.total - 1) \in Int
    BY DEF PagesOk, P!Lesser
  <2>2. \A n \in Int : P!PageOf(n) \in Int
    BY FacesAssumption DEF P!PageOf
  <2> QED BY <2>1, <2>2
<1>2. \A X \in SUBSET (from..to) : X # {} => P!Least(X) \in X
  <2> SUFFICES ASSUME NEW X \in SUBSET (from..to), X # {} PROVE P!Least(X) \in X
    OBVIOUS
  <2> HIDE DEF from, to
  <2>1. X \in SUBSET Int /\ \A n \in X : from <= n
    BY <1>1
  <2> QED BY <1>1, <2>1, LeastIn
<1>3. p.asked = None
  BY DEF P!NextPages
<1>4. PICK X \in SUBSET (from..to) :
         page \in {to + 1} \/ page \in {from - 1} \/ (X # {} /\ page = P!Least(X))
  BY DEF P!NextPages
<1> HIDE DEF from, to
<1>5. X # {} /\ page = P!Least(X) => page \in from..to
  <2>1. X # {} => P!Least(X) \in X
    BY <1>2
  <2> QED BY <2>1
<1> QED BY <1>1, <1>3, <1>4, <1>5

\* What the operators of Pages make of well-formed pages.
LEMMA PagesStayOk ==
    ASSUME NEW p, PagesOk(p)
    PROVE  /\ PagesOk(P!Emptied(p)) /\ P!Emptied(p).asked = None
           /\ P!Emptied(p).revision = p.revision
           /\ PagesOk(P!Unasked(p)) /\ P!Unasked(p).asked = None
           /\ P!Unasked(p).revision = p.revision
           /\ \A r \in Nat : /\ PagesOk(P!Marked(p, r)) /\ P!Marked(p, r).revision = r
                             /\ P!Marked(p, r).asked = p.asked
           /\ \A n \in Int : /\ PagesOk(P!WithTotal(p, n))
                             /\ P!WithTotal(p, n).revision = p.revision
                             /\ P!WithTotal(p, n).asked = p.asked
  BY DEF PagesOk, Fields, P!Emptied, P!Unasked, P!Marked, P!WithTotal

LEMMA PagesAsking ==
    ASSUME NEW p, PagesOk(p), NEW page \in Int
    PROVE  /\ PagesOk(P!Asking(p, page)) /\ P!Asking(p, page).revision = p.revision
           /\ P!Asking(p, page).asked # None
           /\ P!Asking(p, page).asked.page = page
           /\ P!Asking(p, page).asked.revision = p.revision
<1> DEFINE a == [page |-> page, revision |-> p.revision]
<1>1. a \in Fetch /\ a.page = page /\ a.revision = p.revision
  BY DEF Fetch, PagesOk
<1>2. a # None
  BY <1>1, FacesAssumption DEF Fetch
<1>3. P!Asking(p, page) = [p EXCEPT !.asked = a]
  BY DEF P!Asking
<1> HIDE DEF a
<1>4. /\ P!Asking(p, page).asked = a /\ DOMAIN P!Asking(p, page) = Fields
      /\ P!Asking(p, page).total = p.total /\ P!Asking(p, page).served = p.served
      /\ P!Asking(p, page).revision = p.revision
  BY <1>3 DEF PagesOk, Fields
<1> QED BY <1>1, <1>2, <1>4 DEF PagesOk

LEMMA PagesLand ==
    ASSUME NEW p, PagesOk(p), NEW page, NEW rows, rows.count \in Int, NEW total \in Int
    PROVE  /\ PagesOk(P!Put(p, page, rows, total))
           /\ P!Put(p, page, rows, total).revision = p.revision
           /\ P!Put(p, page, rows, total).asked \in {p.asked, None}
<1>1. P!Greater(p.served, rows.count) \in Int
  BY DEF PagesOk, P!Greater
<1> QED BY <1>1, PagesPut DEF PagesOk

SearchAsk  == [kind : {"search"}, question : Nat, query : Nat, page : Int, limit : Int]
SearchSaid == [kind : {"search"}, question : Nat, page : Int, limit : Int, rows : Int,
               seen : Nat, total : Int, capped : BOOLEAN]

\* Nothing asked or said is of a question not asked yet.
Said(m, q) ==
    /\ m.kind = "search" => m \in SearchSaid /\ m.question <= q
    /\ m.kind = "count" => m.total \in Int
    /\ m.kind = "awake" => m.revision \in Nat
WantOk(w, q) == w = None \/ w \in [question : 0..q, page : Int]
QueueOk(qu, q) ==
    /\ DOMAIN qu = Three /\ \A l \in Three : IsList(qu[l])
    /\ \A m \in In(qu["fast"]) : m \in SearchAsk /\ m.question <= q
    /\ \A m \in In(qu["slow"]) : m.kind = "count"
    /\ \A m \in In(qu["wait"]) : m.kind = "await"
AnswerOk(an, q) ==
    /\ DOMAIN an = Three /\ \A l \in Three : an[l] # None => Said(an[l], q)
    /\ \A l \in {"slow", "wait"} : an[l] # None => an[l].kind \in {"count", "awake"}
InboxOk(b, q) == IsList(b) /\ \A m \in In(b) : Said(m, q)

Link == QueueOk(queue, question) /\ AnswerOk(answer, question) /\ InboxOk(inbox, question)
Face == question \in Nat /\ top \in Int /\ PagesOk(pages) /\ WantOk(pending, question)

\* Until the service stops nothing is newer than the index, and one search is out.
Told(m, r) == m.kind # "trouble" /\ (m.kind = "awake" => m.revision <= r)
NoNewer(r, p) ==
    /\ p.revision <= r
    /\ p.asked # None => p.asked.revision <= r
    /\ \A k \in DOMAIN p.held : p.held[k].seen >= p.held[k].revision
Fresh(r, p, pend, fast, an, b, q) ==
    /\ NoNewer(r, p)
    /\ \A l \in Three : an[l] # None => Told(an[l], r)
    /\ \A m \in In(b) : Told(m, r)
    /\ OneOut(q, p.asked, pend, fast, an["fast"], b)
FreshNow ==
    stops = 0 => Fresh(revision, pages, pending, queue["fast"], answer, inbox, question)

TerminalInv == Link /\ Face /\ FreshNow /\ Serving /\ size \in Int

\* A new question leaves what was asked and said as it was.
LEMMA StillOk ==
    ASSUME NEW q \in Nat, NEW r \in Nat, q <= r, NEW x
    PROVE  /\ QueueOk(x, q) => QueueOk(x, r)
           /\ AnswerOk(x, q) => AnswerOk(x, r)
           /\ InboxOk(x, q) => InboxOk(x, r)
           /\ WantOk(x, q) => WantOk(x, r)
<1>0. \A n \in Nat : n <= q => n <= r
  OBVIOUS
<1>1. \A m : Said(m, q) => Said(m, r)
  BY <1>0 DEF Said, SearchSaid
<1>2. QueueOk(x, q) => QueueOk(x, r)
  BY <1>0 DEF QueueOk, SearchAsk
<1>3. WantOk(x, q) => WantOk(x, r)
  BY DEF WantOk
<1> QED BY <1>1, <1>2, <1>3 DEF AnswerOk, InboxOk

\* Of a question not asked yet nothing is out.
LEMMA NewGone ==
    ASSUME NEW q \in Nat, NEW pend, WantOk(pend, q), NEW qu, QueueOk(qu, q),
           NEW an, AnswerOk(an, q), NEW b, InboxOk(b, q)
    PROVE  Gone(q + 1, pend, qu["fast"], an["fast"], b)
<1>0. \A n \in Nat : n <= q => n # q + 1
  OBVIOUS
<1>1. pend = None \/ pend.question # q + 1
  BY <1>0 DEF WantOk
<1>2. \A m : Said(m, q) => ~Cur(m, q + 1)
  BY <1>0 DEF Said, Cur, SearchSaid
<1>3. Clear(qu["fast"], q + 1)
  BY <1>0 DEF QueueOk, SearchAsk, Clear, Cur
<1> QED BY <1>1, <1>2, <1>3 DEF Gone, AnswerOk, InboxOk, Clear, Three

\* A want is sent, or nothing is.
Added(fast, fast2, w) ==
    IF w = None THEN fast2 = fast
    ELSE \E x : fast2 = Append(fast, x) /\ x.question = w.question /\ x.page = w.page

LEMMA TerminalSends ==
    ASSUME NEW q \in Nat, QueueOk(queue, q), NEW w, WantOk(w, q), NEW wait, IsList(wait),
           \A m \in In(wait) : m.kind = "await",
           F!Sends(F!FastOf(w), F!SlowOf(w), wait)
    PROVE  /\ QueueOk(queue', q) /\ Added(queue["fast"], queue'["fast"], w)
           /\ UNCHANGED <<revision, size, up, stops, conn, answer>>
<1> DEFINE x == F!Search(w.question, w.question, w.page, Span)
           c == F!Count(w.question)
<1>1. /\ DOMAIN queue' = Three
      /\ queue'["fast"] = queue["fast"] \o F!FastOf(w)
      /\ queue'["slow"] = queue["slow"] \o F!SlowOf(w)
      /\ queue'["wait"] = queue["wait"] \o wait
      /\ UNCHANGED <<revision, size, up, stops, conn, answer>>
  BY DEF F!Sends, F!Lanes, F!service, Three
<1>2. IsList(queue["fast"]) /\ IsList(queue["slow"]) /\ IsList(queue["wait"])
  BY DEF QueueOk, Three
<1>3. /\ w = None => F!FastOf(w) = <<>>
      /\ w # None => F!FastOf(w) = <<x>>
      /\ F!SlowOf(w) = <<>> \/ F!SlowOf(w) = <<c>>
  BY DEF F!FastOf, F!SlowOf
<1>4. w # None => x \in SearchAsk /\ x.question <= q /\ x.question = w.question /\ x.page = w.page
  BY FacesAssumption DEF SearchAsk, WantOk, F!Search
<1>5. c.kind = "count"
  BY DEF F!Count
<1> HIDE DEF x, c
<1>6. /\ IsList(F!FastOf(w)) /\ \A m \in In(F!FastOf(w)) : m \in SearchAsk /\ m.question <= q
      /\ IsList(F!SlowOf(w)) /\ \A m \in In(F!SlowOf(w)) : m.kind = "count"
  BY <1>3, <1>4, <1>5, NoneListed, OneListed
<1>7. /\ IsList(queue'["fast"]) /\ IsList(queue'["slow"]) /\ IsList(queue'["wait"])
      /\ In(queue'["fast"]) = In(queue["fast"]) \cup In(F!FastOf(w))
      /\ In(queue'["slow"]) = In(queue["slow"]) \cup In(F!SlowOf(w))
      /\ In(queue'["wait"]) = In(queue["wait"]) \cup In(wait)
  BY <1>1, <1>2, <1>6, BothListed
<1>8. QueueOk(queue', q)
  BY <1>1, <1>6, <1>7 DEF QueueOk, Three
<1>9. Added(queue["fast"], queue'["fast"], w)
  <2>1. PICK A : queue["fast"] \in Seq(A)
    BY <1>2 DEF IsList
  <2>2. w = None => queue'["fast"] = queue["fast"]
    BY <1>1, <1>3, <2>1
  <2>3. w # None => queue'["fast"] = Append(queue["fast"], x)
    BY <1>1, <1>2, <1>3, LastIs
  <2> QED BY <2>2, <2>3, <1>4 DEF Added
<1> QED BY <1>1, <1>8, <1>9

\* What follows a step that leaves no search out, or the one that was.
LEMMA TerminalWant ==
    ASSUME Room \in Nat, NEW p, PagesOk(p), question \in Nat, NEW first \in Int, NEW spec,
           NEW stale, NEW w \in F!Wants(p, F!Followed(p, first, spec, stale))
    PROVE  /\ PagesOk(w.pages) /\ WantOk(w.want, question)
           /\ w.pages.held = p.held /\ w.pages.revision = p.revision
           /\ \/ w.want = None /\ w.pages.asked = p.asked
              \/ /\ p.asked = None /\ w.pages.asked # None
                 /\ w.pages.asked.page = w.want.page /\ w.pages.asked.revision = p.revision
<1>1. F!Followed(p, first, spec, stale) = P!NextPages(p, first, first + Room - 1, spec, stale)
  BY TerminalPages DEF F!Followed
<1>2. CASE w = [pages |-> p, want |-> None]
  BY <1>2 DEF WantOk
<1>3. CASE \E page \in F!Followed(p, first, spec, stale) :
              w = [pages |-> F!Asking(p, page), want |-> F!Want(question, page)]
  <2>1. PICK page \in F!Followed(p, first, spec, stale) :
           w = [pages |-> F!Asking(p, page), want |-> F!Want(question, page)]
    BY <1>3
  <2>2. w.pages = P!Asking(p, page) /\ w.want = [question |-> question, page |-> page]
    BY <2>1, TerminalPages DEF F!Want
  <2>3. page \in Int /\ p.asked = None
    BY <1>1, NextIsPage
  <2>4. WantOk(w.want, question) /\ w.want.page = page
    BY <2>2, <2>3 DEF WantOk
  <2>5. w.pages.held = p.held
    BY <2>2, PagesKept DEF PagesOk
  <2> QED BY <2>2, <2>3, <2>4, <2>5, PagesAsking
<1> QED BY <1>2, <1>3 DEF F!Wants

LEMMA WantOut ==
    ASSUME NEW q, NEW p, NEW w, NEW pend, NEW fast, NEW fast2, NEW ans, NEW box,
           OneOut(q, p.asked, pend, fast, ans, box), IsList(fast), Added(fast, fast2, w.want),
           \/ w.want = None /\ w.pages.asked = p.asked
           \/ p.asked = None /\ w.pages.asked # None /\ w.pages.asked.page = w.want.page
    PROVE  OneOut(q, w.pages.asked, pend, fast2, ans, box)
<1>1. CASE w.want = None /\ w.pages.asked = p.asked
  BY <1>1 DEF Added
<1>2. CASE p.asked = None /\ w.pages.asked # None /\ w.pages.asked.page = w.want.page
  <2>1. Gone(q, pend, fast, ans, box)
    BY <1>2, NoneDue
  <2>2. CASE w.want = None
    BY <2>1, <2>2, GoneOut DEF Added
  <2>3. CASE w.want # None
    <3>1. PICK x : fast2 = Append(fast, x) /\ x.page = w.want.page
      BY <2>3 DEF Added
    <3> QED BY <1>2, <2>1, <3>1, OutSent
  <2> QED BY <2>2, <2>3
<1> QED BY <1>1, <1>2

\* A step of the face alone.
LEMMA TerminalTurns ==
    ASSUME TerminalInv, UNCHANGED <<revision, size, up, stops, conn, answer>>,
           question' \in Nat, question <= question', top' \in Int, PagesOk(pages'),
           WantOk(pending', question'), QueueOk(queue', question'),
           InboxOk(inbox', question'), In(inbox') \subseteq In(inbox),
           stops = 0 => /\ NoNewer(revision, pages')
                        /\ OneOut(question', pages'.asked, pending', queue'["fast"],
                                  answer["fast"], inbox')
    PROVE  TerminalInv'
<1>1. AnswerOk(answer, question')
  BY StillOk DEF TerminalInv, Link, Face
<1>2. Link' /\ Face'
  BY <1>1 DEF Link, Face
<1>3. Serving' /\ size' \in Int
  BY DEF TerminalInv, Serving
<1>4. FreshNow'
  BY DEF TerminalInv, FreshNow, Fresh
<1> QED BY <1>2, <1>3, <1>4 DEF TerminalInv

LEMMA TerminalActs ==
    ASSUME NEW q \in Nat, QueueOk(queue, q), NEW w, WantOk(w, q), F!Act(w)
    PROVE  /\ QueueOk(queue', q) /\ Added(queue["fast"], queue'["fast"], w)
           /\ UNCHANGED <<revision, size, up, stops, conn, answer>>
  BY TerminalSends, NoneListed DEF F!Act

\* A new question: nothing of it is out yet.
LEMMA TerminalTypes ==
    ASSUME TerminalInv, F!Typed \/ F!Reasked
    PROVE  /\ question' = question + 1 /\ question' \in Nat /\ top' \in Int
           /\ PagesOk(pages') /\ pages'.asked # None /\ pages'.asked.page = 0
           /\ stops = 0 => /\ NoNewer(revision, pages')
                           /\ Gone(question', pending, queue["fast"], answer["fast"], inbox)
           /\ \A x : QueueOk(x, question) => QueueOk(x, question')
           /\ WantOk(pending, question') /\ InboxOk(inbox, question')
<1>0. /\ question \in Nat /\ PagesOk(pages) /\ WantOk(pending, question)
      /\ QueueOk(queue, question) /\ AnswerOk(answer, question) /\ InboxOk(inbox, question)
  BY DEF TerminalInv, Face, Link
<1>1. question' = question + 1 /\ top' = 0
  BY DEF F!Typed, F!Reasked
<1>2. question' \in Nat /\ question <= question'
  BY <1>0, <1>1
<1>3. \E p : /\ PagesOk(p) /\ DOMAIN p.held = {} /\ p.revision = pages.revision
             /\ pages' = P!Asking(p, 0)
  <2> DEFINE e == P!Emptied(pages)
  <2>1. PagesOk(e) /\ DOMAIN e.held = {} /\ e.revision = pages.revision
    BY <1>0, PagesStayOk, PagesKept DEF PagesOk
  <2>2. CASE F!Reasked
    BY <2>1, <2>2, TerminalPages DEF F!Reasked
  <2>3. CASE F!Typed
    <3>1. pages' = P!Asking(P!WithTotal(e, 0), 0)
      BY <2>3, TerminalPages DEF F!Typed
    <3> HIDE DEF e
    <3>2. PagesOk(P!WithTotal(e, 0)) /\ P!WithTotal(e, 0).revision = e.revision
      BY <2>1, PagesStayOk
    <3>3. P!WithTotal(e, 0).held = e.held
      BY <2>1, PagesKept DEF PagesOk
    <3> QED BY <2>1, <3>1, <3>2, <3>3
  <2> QED BY <2>2, <2>3
<1>4. PICK p : /\ PagesOk(p) /\ DOMAIN p.held = {} /\ p.revision = pages.revision
               /\ pages' = P!Asking(p, 0)
  BY <1>3
<1>5. /\ PagesOk(pages') /\ pages'.asked # None /\ pages'.asked.page = 0
      /\ pages'.asked.revision = pages.revision /\ pages'.revision = pages.revision
  BY <1>4, PagesAsking
<1>6. DOMAIN pages'.held = {}
  BY <1>4, PagesKept DEF PagesOk
<1>7. stops = 0 => NoNewer(revision, pages')
  BY <1>5, <1>6 DEF TerminalInv, FreshNow, Fresh, NoNewer
<1>8. Gone(question', pending, queue["fast"], answer["fast"], inbox)
  BY <1>0, <1>1, NewGone
<1>9. (\A x : QueueOk(x, question) => QueueOk(x, question'))
      /\ WantOk(pending, question') /\ InboxOk(inbox, question')
  BY <1>0, <1>2, StillOk
<1> QED BY <1>1, <1>2, <1>5, <1>7, <1>8, <1>9

LEMMA TerminalFirstPage ==
    ASSUME NEW q \in Nat
    PROVE  WantOk(F!Want(q, 0), q) /\ F!Want(q, 0).page = 0 /\ F!Want(q, 0).question = q
  BY DEF WantOk, F!Want

LEMMA TerminalPresses == ASSUME TerminalInv, F!Press \/ F!Click PROVE TerminalInv'
<1>1. F!Typed \/ F!Reasked
  BY DEF F!Press, F!Click
<1> DEFINE w == F!Want(question', 0)
<1>2. /\ question' = question + 1 /\ question' \in Nat /\ top' \in Int
      /\ PagesOk(pages') /\ pages'.asked # None /\ pages'.asked.page = 0
      /\ stops = 0 => /\ NoNewer(revision, pages')
                      /\ Gone(question', pending, queue["fast"], answer["fast"], inbox)
      /\ \A x : QueueOk(x, question) => QueueOk(x, question')
      /\ WantOk(pending, question') /\ InboxOk(inbox, question')
  BY <1>1, TerminalTypes
<1>3. QueueOk(queue, question') /\ question <= question'
  BY <1>2 DEF TerminalInv, Link, Face
<1>4. WantOk(w, question') /\ w.page = 0
  BY <1>2, TerminalFirstPage
<1>5. CASE F!Press
  <2>1. pending' = w /\ UNCHANGED <<revision, size, up, stops, conn, answer, queue, inbox>>
    BY <1>5 DEF F!Press, F!linkVars, F!service
  <2> HIDE DEF w
  <2>2. stops = 0 => OneOut(question', pages'.asked, pending', queue'["fast"], answer["fast"], inbox')
    BY <1>2, <1>4, <2>1, OutPending
  <2> QED BY <1>2, <1>3, <1>4, <2>1, <2>2, TerminalTurns
<1>6. CASE F!Click
  <2>1. F!Act(w) /\ pending' = pending /\ inbox' = inbox
    BY <1>6 DEF F!Click
  <2> HIDE DEF w
  <2>2. /\ QueueOk(queue', question') /\ Added(queue["fast"], queue'["fast"], w)
        /\ UNCHANGED <<revision, size, up, stops, conn, answer>>
    BY <1>2, <1>3, <1>4, <2>1, TerminalActs
  <2>3. IsList(queue["fast"])
    BY <1>3 DEF QueueOk, Three
  <2>4. ASSUME stops = 0
        PROVE  OneOut(question', pages'.asked, pending', queue'["fast"], answer["fast"], inbox')
    <3>1. CASE w = None
      BY <1>2, <2>1, <2>2, <2>4, <3>1, GoneOut DEF Added
    <3>2. CASE w # None
      <4>1. PICK x : queue'["fast"] = Append(queue["fast"], x) /\ x.page = w.page
        BY <2>2, <3>2 DEF Added
      <4> QED BY <1>2, <1>4, <2>1, <2>3, <2>4, <4>1, OutSent
    <3> QED BY <3>1, <3>2
  <2> QED BY <1>2, <1>3, <2>1, <2>2, <2>4, TerminalTurns
<1> QED BY <1>5, <1>6

LEMMA TerminalScrolls == ASSUME Room \in Nat, TerminalInv, F!Scroll PROVE TerminalInv'
<1>0. /\ question \in Nat /\ PagesOk(pages) /\ WantOk(pending, question)
      /\ QueueOk(queue, question) /\ InboxOk(inbox, question) /\ IsList(queue["fast"])
  BY DEF TerminalInv, Face, Link, QueueOk, Three
<1>1. PICK w \in F!Wants(pages, F!Followed(pages, top', TRUE, FALSE)) :
         /\ pages' = w.pages
         /\ IF w.want # None /\ question # asked
              THEN pending' = w.want /\ F!Act(None)
              ELSE F!Act(w.want) /\ pending' = pending
  BY DEF F!Scroll
<1>2. question' = question /\ inbox' = inbox /\ top' \in Int
  BY <1>0 DEF F!Scroll, F!Views
<1>3. \E spec, stale : w \in F!Wants(pages, F!Followed(pages, top', spec, stale))
  BY <1>1
<1>4. /\ PagesOk(w.pages) /\ WantOk(w.want, question)
      /\ w.pages.held = pages.held /\ w.pages.revision = pages.revision
      /\ \/ w.want = None /\ w.pages.asked = pages.asked
         \/ /\ pages.asked = None /\ w.pages.asked # None
            /\ w.pages.asked.page = w.want.page /\ w.pages.asked.revision = pages.revision
  BY <1>0, <1>2, <1>3, TerminalWant
<1>5. stops = 0 => NoNewer(revision, pages')
  BY <1>1, <1>4 DEF TerminalInv, FreshNow, Fresh, NoNewer
<1>6. CASE w.want # None /\ question # asked
  <2>1. pending' = w.want /\ F!Act(None) /\ WantOk(None, question)
    BY <1>1, <1>6 DEF WantOk
  <2>2. /\ QueueOk(queue', question) /\ Added(queue["fast"], queue'["fast"], None)
        /\ UNCHANGED <<revision, size, up, stops, conn, answer>>
    BY <1>0, <2>1, TerminalActs
  <2>3. ASSUME stops = 0
        PROVE  OneOut(question', pages'.asked, pending', queue'["fast"], answer["fast"], inbox')
    <3>1. Gone(question, pending, queue["fast"], answer["fast"], inbox)
      BY <1>4, <1>6, <2>3, NoneDue DEF TerminalInv, FreshNow, Fresh
    <3>2. pages'.asked # None /\ pages'.asked.page = pending'.page
      BY <1>1, <1>4, <1>6, <2>1
    <3>3. queue'["fast"] = queue["fast"]
      BY <2>2 DEF Added
    <3> QED BY <1>2, <3>1, <3>2, <3>3, OutPending
  <2> QED BY <1>0, <1>1, <1>2, <1>4, <1>5, <2>1, <2>2, <2>3, TerminalTurns
<1>7. CASE ~(w.want # None /\ question # asked)
  <2>1. pending' = pending /\ F!Act(w.want)
    BY <1>1, <1>7
  <2>2. /\ QueueOk(queue', question) /\ Added(queue["fast"], queue'["fast"], w.want)
        /\ UNCHANGED <<revision, size, up, stops, conn, answer>>
    BY <1>0, <1>4, <2>1, TerminalActs
  <2>3. ASSUME stops = 0
        PROVE  OneOut(question', pages'.asked, pending', queue'["fast"], answer["fast"], inbox')
    <3>1. OneOut(question, pages.asked, pending, queue["fast"], answer["fast"], inbox)
      BY <2>3 DEF TerminalInv, FreshNow, Fresh
    <3>2. OneOut(question, w.pages.asked, pending, queue'["fast"], answer["fast"], inbox)
      BY <1>0, <1>4, <2>2, <3>1, WantOut
    <3> QED BY <1>1, <1>2, <2>1, <3>2
  <2> QED BY <1>0, <1>1, <1>2, <1>4, <1>5, <2>1, <2>2, <2>3, TerminalTurns
<1> QED BY <1>6, <1>7

LEMMA TerminalQuiet == ASSUME TerminalInv, F!Quiet PROVE TerminalInv'
<1>0. /\ question \in Nat /\ PagesOk(pages) /\ WantOk(pending, question) /\ top \in Int
      /\ QueueOk(queue, question) /\ InboxOk(inbox, question) /\ IsList(queue["fast"])
  BY DEF TerminalInv, Face, Link, QueueOk, Three
<1>1. /\ pending # None /\ F!Act(pending) /\ pending' = None
      /\ UNCHANGED <<question, pages, top, inbox>>
  BY DEF F!Quiet
<1>2. /\ QueueOk(queue', question) /\ Added(queue["fast"], queue'["fast"], pending)
      /\ UNCHANGED <<revision, size, up, stops, conn, answer>>
  BY <1>0, <1>1, TerminalActs
<1>3. WantOk(None, question)
  BY DEF WantOk
<1>4. PICK x : /\ queue'["fast"] = Append(queue["fast"], x)
               /\ x.question = pending.question /\ x.page = pending.page
  BY <1>1, <1>2 DEF Added
<1>5. ASSUME stops = 0
      PROVE  OneOut(question', pages'.asked, pending', queue'["fast"], answer["fast"], inbox')
  <2>1. OneOut(question, pages.asked, pending, queue["fast"], answer["fast"], inbox)
    BY <1>5 DEF TerminalInv, FreshNow, Fresh
  <2>2. OneOut(question, pages.asked, None, Append(queue["fast"], x), answer["fast"], inbox)
    BY <1>0, <1>1, <1>4, <2>1, OutWaited
  <2> QED BY <1>1, <1>4, <2>2
<1>6. stops = 0 => NoNewer(revision, pages')
  BY <1>1 DEF TerminalInv, FreshNow, Fresh
<1> QED BY <1>0, <1>1, <1>2, <1>3, <1>5, <1>6, TerminalTurns

\* What is heard: the pages it makes of the ones held, and the want that follows.
LEMMA TerminalFollows ==
    ASSUME Room \in Nat, TerminalInv, inbox # <<>>, inbox' = Tail(inbox),
           NEW p, PagesOk(p),
           stops = 0 => /\ NoNewer(revision, p)
                        /\ OneOut(question, p.asked, pending, queue["fast"], answer["fast"], inbox'),
           NEW first \in Int, NEW spec, NEW stale,
           NEW w \in F!Wants(p, F!Followed(p, first, spec, stale)), pages' = w.pages,
           NEW wait, IsList(wait), \A m \in In(wait) : m.kind = "await",
           F!Sends(F!FastOf(w.want), F!SlowOf(w.want), wait),
           question' = question, pending' = pending, top' \in Int
    PROVE  TerminalInv'
<1>0. /\ question \in Nat /\ WantOk(pending, question)
      /\ QueueOk(queue, question) /\ InboxOk(inbox, question) /\ IsList(queue["fast"])
  BY DEF TerminalInv, Face, Link, QueueOk, Three
<1>1. InboxOk(inbox', question) /\ In(inbox') \subseteq In(inbox)
  BY <1>0, HeadListed DEF InboxOk
<1>2. /\ PagesOk(w.pages) /\ WantOk(w.want, question)
      /\ w.pages.held = p.held /\ w.pages.revision = p.revision
      /\ \/ w.want = None /\ w.pages.asked = p.asked
         \/ /\ p.asked = None /\ w.pages.asked # None
            /\ w.pages.asked.page = w.want.page /\ w.pages.asked.revision = p.revision
  BY <1>0, TerminalWant
<1>3. /\ QueueOk(queue', question) /\ Added(queue["fast"], queue'["fast"], w.want)
      /\ UNCHANGED <<revision, size, up, stops, conn, answer>>
  BY <1>0, <1>2, TerminalSends
<1>4. ASSUME stops = 0
      PROVE  /\ NoNewer(revision, pages')
             /\ OneOut(question', pages'.asked, pending', queue'["fast"], answer["fast"], inbox')
  <2>1. NoNewer(revision, w.pages)
    BY <1>2, <1>4 DEF NoNewer
  <2>2. OneOut(question, w.pages.asked, pending, queue'["fast"], answer["fast"], inbox')
    BY <1>0, <1>2, <1>3, <1>4, WantOut
  <2> QED BY <2>1, <2>2
<1> QED BY <1>0, <1>1, <1>2, <1>3, <1>4, TerminalTurns

\* Nothing is sent for what is heard.
LEMMA TerminalTakes ==
    ASSUME TerminalInv, inbox # <<>>, inbox' = Tail(inbox),
           NEW p, PagesOk(p), pages' = p,
           stops = 0 => /\ NoNewer(revision, p)
                        /\ OneOut(question, p.asked, pending, queue["fast"], answer["fast"], inbox'),
           NEW wait, IsList(wait), \A m \in In(wait) : m.kind = "await",
           F!Sends(<<>>, <<>>, wait), question' = question, pending' = pending, top' = top
    PROVE  TerminalInv'
<1>0. /\ question \in Nat /\ WantOk(pending, question) /\ top \in Int
      /\ QueueOk(queue, question) /\ InboxOk(inbox, question) /\ WantOk(None, question)
  BY DEF TerminalInv, Face, Link, WantOk
<1>1. InboxOk(inbox', question) /\ In(inbox') \subseteq In(inbox)
  BY <1>0, HeadListed DEF InboxOk
<1>2. F!FastOf(None) = <<>> /\ F!SlowOf(None) = <<>>
  BY DEF F!FastOf, F!SlowOf
<1>3. /\ QueueOk(queue', question) /\ Added(queue["fast"], queue'["fast"], None)
      /\ UNCHANGED <<revision, size, up, stops, conn, answer>>
  BY <1>0, <1>2, TerminalSends
<1>4. queue'["fast"] = queue["fast"]
  BY <1>3 DEF Added
<1> QED BY <1>0, <1>1, <1>3, <1>4, TerminalTurns

LEMMA TerminalHears == ASSUME Room \in Nat, TerminalInv, F!Hear PROVE TerminalInv'
<1>0. /\ question \in Nat /\ top \in Int /\ PagesOk(pages) /\ InboxOk(inbox, question)
      /\ inbox # <<>> /\ inbox' = Tail(inbox)
  BY DEF TerminalInv, Face, Link, F!Hear
<1>1. PICK m : m = Head(inbox)
  OBVIOUS
<1>2. m \in In(inbox) /\ Said(m, question)
  BY <1>0, <1>1, HeadListed DEF InboxOk
<1>3. ASSUME stops = 0
      PROVE  /\ NoNewer(revision, pages) /\ Told(m, revision)
             /\ OneOut(question, pages.asked, pending, queue["fast"], answer["fast"], inbox')
             /\ Cur(m, question) =>
                   /\ Gone(question, pending, queue["fast"], answer["fast"], inbox')
                   /\ pages.asked # None /\ pages.asked.page = m.page
                   /\ pages.asked.revision <= m.seen
  <2>1. Fresh(revision, pages, pending, queue["fast"], answer, inbox, question)
    BY <1>3 DEF TerminalInv, FreshNow
  <2>2. NoNewer(revision, pages) /\ Told(m, revision)
        /\ OneOut(question, pages.asked, pending, queue["fast"], answer["fast"], inbox)
    BY <1>2, <2>1 DEF Fresh
  <2>3. IsList(inbox)
    BY <1>0 DEF InboxOk
  <2>4. /\ OneOut(question, pages.asked, pending, queue["fast"], answer["fast"], Tail(inbox))
        /\ Cur(Head(inbox), question) =>
              /\ Gone(question, pending, queue["fast"], answer["fast"], Tail(inbox))
              /\ pages.asked # None /\ pages.asked.page = Head(inbox).page
              /\ pages.asked.revision <= Head(inbox).seen
    BY <1>0, <2>2, <2>3, OutHeard
  <2> QED BY <1>0, <1>1, <2>2, <2>4
<1>4. IsList(<<>>) /\ \A x \in In(<<>>) : x.kind = "await"
  BY NoneListed
<1>5. \A r : IsList(<<F!Await(r)>>) /\ \A x \in In(<<F!Await(r)>>) : x.kind = "await"
  BY OneListed DEF F!Await
<1>6. CASE F!Drop(m)
  <2>1. F!Sends(<<>>, <<>>, <<>>) /\ UNCHANGED <<question, pages, pending, top>>
    BY <1>6 DEF F!Drop, F!faceVars
  <2> QED BY <1>0, <1>3, <1>4, <2>1, TerminalTakes
<1>7. CASE F!Counted(m)
  <2>1. /\ m.kind = "count" /\ F!Sends(<<>>, <<>>, <<>>) /\ UNCHANGED <<question, pending, top>>
        /\ pages' = P!WithTotal(pages, m.total) \/ pages' = pages
    BY <1>7, TerminalPages DEF F!Counted
  <2>2. m.total \in Int
    BY <1>2, <2>1 DEF Said
  <2>3. PICK p : pages' = p /\ (p = P!WithTotal(pages, m.total) \/ p = pages)
    BY <2>1
  <2>4. PagesOk(p) /\ p.revision = pages.revision /\ p.asked = pages.asked /\ p.held = pages.held
    <3>1. DOMAIN pages = Fields
      BY <1>0 DEF PagesOk
    <3>2. P!WithTotal(pages, m.total).held = pages.held
      BY <3>1, PagesKept
    <3>3. /\ PagesOk(P!WithTotal(pages, m.total))
          /\ P!WithTotal(pages, m.total).revision = pages.revision
          /\ P!WithTotal(pages, m.total).asked = pages.asked
      BY <1>0, <2>2, PagesStayOk
    <3> QED BY <1>0, <2>3, <3>2, <3>3
  <2>5. stops = 0 => NoNewer(revision, p)
    BY <1>3, <2>4 DEF NoNewer
  <2> QED BY <1>0, <1>3, <1>4, <2>1, <2>3, <2>4, <2>5, TerminalTakes
<1>8. CASE F!Upset(m)
  <2>1. /\ m.kind = "trouble" /\ F!Sends(<<>>, <<>>, <<>>) /\ UNCHANGED <<question, pending, top>>
        /\ pages' = P!Unasked(pages) \/ pages' = pages
    BY <1>8, TerminalPages DEF F!Upset
  <2>2. PagesOk(pages')
    BY <1>0, <2>1, PagesStayOk
  <2>3. stops # 0
    BY <1>3, <2>1 DEF Told
  <2> QED BY <1>0, <1>4, <2>1, <2>2, <2>3, TerminalTakes
<1>9. CASE F!Awake(m)
  <2>1. m.kind = "awake" /\ UNCHANGED <<question, pending, top>>
    BY <1>9 DEF F!Awake
  <2>2. m.revision \in Nat /\ (stops = 0 => m.revision <= revision)
    BY <1>2, <1>3, <2>1 DEF Said, Told
  <2>3. CASE m.revision = mine
    <3>1. pages' = pages /\ F!Sends(<<>>, <<>>, <<F!Await(mine)>>)
      BY <1>9, <2>3 DEF F!Awake
    <3> QED BY <1>0, <1>3, <1>5, <2>1, <3>1, TerminalTakes
  <2>4. CASE m.revision # mine
    <3> DEFINE p == P!Marked(pages, m.revision)
    <3>1. PICK w \in F!Wants(p, F!Followed(p, top, FALSE, TRUE)) :
             /\ pages' = w.pages
             /\ F!Sends(F!FastOf(w.want), F!SlowOf(w.want), <<F!Await(m.revision)>>)
      BY <1>9, <2>4, TerminalPages DEF F!Awake
    <3>2. PagesOk(p) /\ p.revision = m.revision /\ p.asked = pages.asked /\ p.held = pages.held
      <4>1. DOMAIN pages = Fields
        BY <1>0 DEF PagesOk
      <4>2. p.held = pages.held
        BY <4>1, PagesKept
      <4> QED BY <1>0, <2>2, <4>2, PagesStayOk
    <3> HIDE DEF p
    <3>3. stops = 0 => NoNewer(revision, p)
      BY <1>3, <2>2, <3>2 DEF NoNewer
    <3>4. \E spec, stale : w \in F!Wants(p, F!Followed(p, top, spec, stale))
      BY <3>1
    <3>5. stops = 0 =>
             OneOut(question, p.asked, pending, queue["fast"], answer["fast"], inbox')
      BY <1>3, <3>2
    <3> QED BY <1>0, <1>5, <2>1, <3>1, <3>2, <3>3, <3>4, <3>5, TerminalFollows
  <2> QED BY <2>3, <2>4
<1>10. CASE F!Land(m)
  <2> DEFINE total == F!Greater(F!Length(pages, m.page, m.rows, m.limit), m.total)
             rows  == [count |-> m.rows, question |-> m.question, seen |-> m.seen]
             p     == P!Put(pages, m.page, rows, total)
  <2>1. /\ m.kind = "search" /\ m.question = question
        /\ top' \in {top} \cup F!Views(total)
        /\ UNCHANGED <<question, pending>>
    BY <1>10 DEF F!Land, F!Overtaken
  <2>2. PICK w \in F!Wants(p, F!Followed(p, top', TRUE, FALSE)) :
           pages' = w.pages /\ F!Sends(F!FastOf(w.want), F!SlowOf(w.want), <<>>)
    BY <1>10, TerminalPages DEF F!Land, F!Act
  <2>3. m \in SearchSaid /\ Cur(m, question)
    BY <1>2, <2>1 DEF Said, Cur
  <2>4. total \in Int
    <3>1. m.page \in Int /\ m.rows \in Int /\ m.limit \in Int /\ m.total \in Int
      BY <2>3 DEF SearchSaid
    <3>2. F!Length(pages, m.page, m.rows, m.limit) \in Int
      BY <1>0, <3>1, FacesAssumption DEF F!Length, PagesOk
    <3> QED BY <3>1, <3>2 DEF F!Greater
  <2>5. rows.count = m.rows /\ rows.count \in Int /\ rows.seen = m.seen
    BY <2>3 DEF SearchSaid
  <2> HIDE DEF total, rows
  <2>6. top' \in Int
    BY <1>0, <2>1, <2>4 DEF F!Views
  <2>7. /\ PagesOk(p) /\ p.revision = pages.revision /\ p.asked \in {pages.asked, None}
    BY <1>0, <2>4, <2>5, PagesLand
  <2>8. DOMAIN pages = Fields
    BY <1>0 DEF PagesOk
  <2>9. ASSUME stops = 0
        PROVE  /\ NoNewer(revision, p)
               /\ OneOut(question, p.asked, pending, queue["fast"], answer["fast"], inbox')
    <3>1. /\ Gone(question, pending, queue["fast"], answer["fast"], inbox')
          /\ pages.asked # None /\ pages.asked.page = m.page /\ pages.asked.revision <= m.seen
      BY <1>3, <2>3, <2>9
    <3>2. P!Stamp(pages, m.page) = pages.asked.revision
      BY <3>1 DEF P!Stamp, P!OutFor
    <3>3. \A k \in DOMAIN p.held :
             \/ k \in DOMAIN pages.held /\ p.held[k] = pages.held[k]
             \/ p.held[k].seen = rows.seen /\ p.held[k].revision = P!Stamp(pages, m.page)
      BY <2>8, PagesPut
    <3>4. m.seen \in Nat /\ pages.asked.revision \in Nat
      BY <1>0, <2>3, <3>1 DEF SearchSaid, PagesOk, Fetch
    <3> HIDE DEF p
    <3>5. NoNewer(revision, pages)
      BY <1>3, <2>9
    <3>6. \A k \in DOMAIN p.held : p.held[k].seen >= p.held[k].revision
      BY <2>5, <3>1, <3>2, <3>3, <3>4, <3>5 DEF NoNewer
    <3>7. NoNewer(revision, p)
      BY <2>7, <3>5, <3>6 DEF NoNewer
    <3> QED BY <3>1, <3>7, GoneOut
  <2>10. \E spec, stale : w \in F!Wants(p, F!Followed(p, top', spec, stale))
    BY <2>2
  <2> HIDE DEF p
  <2> QED BY <1>0, <1>4, <2>1, <2>2, <2>6, <2>7, <2>9, <2>10, TerminalFollows
<1> QED BY <1>1, <1>6, <1>7, <1>8, <1>9, <1>10 DEF F!Hear

-----------------------------------------------------------------------------
\* A step of the link alone.
LEMMA TerminalLinks ==
    ASSUME TerminalInv, UNCHANGED <<question, top, pages, pending>>, Link', Serving',
           size' \in Int,
           stops' = 0 =>
              Fresh(revision', pages, pending, queue'["fast"], answer', inbox', question)
    PROVE  TerminalInv'
<1>1. Face'
  BY DEF TerminalInv, Face
<1>2. FreshNow'
  BY DEF FreshNow
<1> QED BY <1>1, <1>2 DEF TerminalInv

\* A lane takes its oldest request.
LEMMA TerminalLaneTakes ==
    ASSUME QueueOk(queue, question), NEW lane \in Three, F!Asks(lane), F!Done(lane)
    PROVE  /\ QueueOk(queue', question) /\ answer[lane] = None
           /\ queue[lane] # <<>> /\ IsList(queue[lane])
           /\ F!Ask(lane) = Head(queue[lane]) /\ queue'[lane] = Tail(queue[lane])
           /\ \A l \in Three \ {lane} : queue'[l] = queue[l]
           /\ F!Ask(lane) \in In(queue[lane])
<1>1. /\ IsList(queue[lane]) /\ queue[lane] # <<>> /\ DOMAIN queue = Three /\ answer[lane] = None
  BY DEF QueueOk, F!Asks
<1>2. /\ DOMAIN queue' = Three /\ (\A l \in Three \ {lane} : queue'[l] = queue[l])
      /\ queue'[lane] = Tail(queue[lane]) /\ F!Ask(lane) = Head(queue[lane])
  BY <1>1 DEF F!Done, F!NewestOnly, F!Ask
<1>3. IsList(Tail(queue[lane])) /\ In(queue[lane]) = {Head(queue[lane])} \cup In(Tail(queue[lane]))
  BY <1>1, HeadListed
<1>4. \A l \in Three : IsList(queue'[l]) /\ In(queue'[l]) \subseteq In(queue[l])
  BY <1>2, <1>3 DEF QueueOk
<1>5. QueueOk(queue', question)
  BY <1>2, <1>4 DEF QueueOk, Three
<1> QED BY <1>1, <1>2, <1>3, <1>5

LEMMA TerminalAnswers ==
    ASSUME revision \in Nat, size \in Int, NEW q \in Nat, NEW ask,
           (ask \in SearchAsk /\ ask.question <= q) \/ ask.kind \in {"count", "await"}
    PROVE  /\ Said(F!Answer(ask), q) /\ Told(F!Answer(ask), revision)
           /\ ask.kind = "count" => F!Answer(ask).kind = "count"
           /\ ask.kind = "await" => F!Answer(ask).kind = "awake"
           /\ ask.kind = "search" => /\ F!Answer(ask).page = ask.page
                                     /\ F!Answer(ask).question = ask.question
                                     /\ F!Answer(ask).seen = revision
<1>1. CASE ask.kind = "search"
  <2> DEFINE n == F!Matching(ask)
             t == F!Lesser(size, Cap)
             c == (size >= Cap)
  <2>1. F!Answer(ask) = [kind |-> "search", question |-> ask.question, page |-> ask.page,
                         limit |-> ask.limit, rows |-> n, seen |-> revision, total |-> t, capped |-> c]
    BY <1>1 DEF F!Answer
  <2>2. ask \in SearchAsk /\ ask.question <= q
    BY <1>1
  <2>3. n \in Int /\ t \in Int /\ c \in BOOLEAN
    <3>1. ask.limit \in Int /\ ask.page \in Int
      BY <2>2 DEF SearchAsk
    <3>2. size - ask.page * Span \in Int
      BY <3>1, FacesAssumption
    <3> QED BY <3>1, <3>2, FacesAssumption DEF F!Matching, F!Lesser, F!Greater
  <2> HIDE DEF n, t, c
  <2>4. F!Answer(ask) \in SearchSaid
    BY <2>1, <2>2, <2>3 DEF SearchSaid, SearchAsk
  <2> QED BY <1>1, <2>1, <2>2, <2>4 DEF Said, Told
<1>2. CASE ask.kind = "count"
  <2>1. F!Answer(ask) = [kind |-> "count", query |-> ask.query, total |-> size]
    BY <1>2 DEF F!Answer
  <2> QED BY <1>2, <2>1 DEF Said, Told
<1>3. CASE ask.kind = "await"
  <2>1. F!Answer(ask) = [kind |-> "awake", revision |-> revision]
    BY <1>3 DEF F!Answer
  <2> QED BY <1>3, <2>1 DEF Said, Told
<1> QED BY <1>1, <1>2, <1>3 DEF SearchAsk

LEMMA TerminalHeard ==
    ASSUME InboxOk(inbox, question), NEW x, Said(x, question), inbox' = Append(inbox, x)
    PROVE  InboxOk(inbox', question) /\ In(inbox') = In(inbox) \cup {x}
<1>1. IsList(inbox') /\ In(inbox') = In(inbox) \cup {x}
  BY LastListed DEF InboxOk
<1> QED BY <1>1 DEF InboxOk

LEMMA TerminalCalls ==
    ASSUME TerminalInv, NEW lane \in Three, F!Call(lane), UNCHANGED F!faceVars
    PROVE  TerminalInv'
<1>0. /\ question \in Nat /\ PagesOk(pages) /\ revision \in Nat /\ size \in Int
      /\ QueueOk(queue, question) /\ AnswerOk(answer, question) /\ InboxOk(inbox, question)
  BY DEF TerminalInv, Link, Face, Serving
<1> DEFINE ask == F!Ask(lane)
           said == F!Answer(ask)
<1>1. /\ F!Asks(lane) /\ F!Done(lane) /\ answer' = [answer EXCEPT ![lane] = said]
      /\ UNCHANGED <<revision, size, up, stops, conn, inbox, question, top, pages, pending>>
  BY DEF F!Call, F!service, F!faceVars
<1>2. /\ QueueOk(queue', question) /\ answer[lane] = None
      /\ queue[lane] # <<>> /\ IsList(queue[lane])
      /\ ask = Head(queue[lane]) /\ queue'[lane] = Tail(queue[lane])
      /\ \A l \in Three \ {lane} : queue'[l] = queue[l]
      /\ ask \in In(queue[lane])
  BY <1>0, <1>1, TerminalLaneTakes
<1>3. /\ lane = "fast" => ask \in SearchAsk /\ ask.question <= question
      /\ lane = "slow" => ask.kind = "count"
      /\ lane = "wait" => ask.kind = "await"
  BY <1>0, <1>2 DEF QueueOk
<1>4. (ask \in SearchAsk /\ ask.question <= question) \/ ask.kind \in {"count", "await"}
  BY <1>3 DEF Three
<1> HIDE DEF ask
<1>5. /\ Said(said, question) /\ Told(said, revision)
      /\ ask.kind = "count" => said.kind = "count"
      /\ ask.kind = "await" => said.kind = "awake"
      /\ ask.kind = "search" => /\ said.page = ask.page /\ said.question = ask.question
                                /\ said.seen = revision
  BY <1>0, <1>4, TerminalAnswers
<1> HIDE DEF said
<1>6. /\ DOMAIN answer' = Three /\ answer'[lane] = said
      /\ \A l \in Three \ {lane} : answer'[l] = answer[l]
  BY <1>0, <1>1 DEF AnswerOk
<1>7. AnswerOk(answer', question)
  <2>1. \A l \in Three : answer'[l] # None => Said(answer'[l], question)
    BY <1>0, <1>5, <1>6 DEF AnswerOk
  <2>2. \A l \in {"slow", "wait"} : answer'[l] # None => answer'[l].kind \in {"count", "awake"}
    BY <1>0, <1>3, <1>5, <1>6 DEF AnswerOk, Three
  <2> QED BY <1>6, <2>1, <2>2 DEF AnswerOk
<1>8. Link' /\ Serving' /\ size' \in Int
  BY <1>0, <1>1, <1>2, <1>7 DEF Link, TerminalInv, Serving
<1>9. ASSUME stops = 0
      PROVE  Fresh(revision, pages, pending, queue'["fast"], answer', inbox, question)
  <2>1. Fresh(revision, pages, pending, queue["fast"], answer, inbox, question)
    BY <1>9 DEF TerminalInv, FreshNow
  <2>2. \A l \in Three : answer'[l] # None => Told(answer'[l], revision)
    BY <1>5, <1>6, <2>1 DEF Fresh
  <2>3. OneOut(question, pages.asked, pending, queue'["fast"], answer'["fast"], inbox)
    <3>1. CASE lane = "fast"
      <4>1. /\ Cur(said, question) => Cur(ask, question) /\ ask.page = said.page
            /\ said.seen = revision
        BY <1>3, <1>5, <3>1 DEF Cur, SearchAsk
      <4>2. pages.asked # None => pages.asked.revision <= said.seen
        BY <2>1, <4>1 DEF Fresh, NoNewer
      <4>3. OneOut(question, pages.asked, pending, queue["fast"], None, inbox)
        BY <1>2, <2>1, <3>1 DEF Fresh
      <4>4. OneOut(question, pages.asked, pending, Tail(queue["fast"]), said, inbox)
        BY <1>2, <3>1, <4>1, <4>2, <4>3, OutAnswered
      <4> QED BY <1>2, <1>6, <3>1, <4>4
    <3>2. CASE lane # "fast"
      <4>1. queue'["fast"] = queue["fast"] /\ answer'["fast"] = answer["fast"]
        BY <1>2, <1>6, <3>2 DEF Three
      <4> QED BY <2>1, <4>1 DEF Fresh
    <3> QED BY <3>1, <3>2
  <2> QED BY <2>1, <2>2, <2>3 DEF Fresh
<1> QED BY <1>1, <1>8, <1>9, TerminalLinks

LEMMA TerminalSays ==
    ASSUME TerminalInv, NEW lane \in Three, F!Say(lane), UNCHANGED F!faceVars
    PROVE  TerminalInv'
<1>0. /\ AnswerOk(answer, question) /\ InboxOk(inbox, question) /\ QueueOk(queue, question)
      /\ IsList(inbox)
  BY DEF TerminalInv, Link, InboxOk
<1>1. PICK x : x = answer[lane]
  OBVIOUS
<1>2. /\ x # None /\ inbox' = Append(inbox, x) /\ answer' = [answer EXCEPT ![lane] = None]
      /\ UNCHANGED <<revision, size, up, stops, conn, queue, question, top, pages, pending>>
  BY <1>1 DEF F!Say, F!service, F!faceVars
<1>3. /\ DOMAIN answer' = Three /\ answer'[lane] = None
      /\ \A l \in Three \ {lane} : answer'[l] = answer[l]
  BY <1>0, <1>2 DEF AnswerOk
<1>4. Said(x, question)
  BY <1>0, <1>1, <1>2 DEF AnswerOk
<1>5. InboxOk(inbox', question) /\ In(inbox') = In(inbox) \cup {x}
  BY <1>0, <1>2, <1>4, TerminalHeard
<1>6. AnswerOk(answer', question)
  BY <1>0, <1>3 DEF AnswerOk, Three
<1>7. Link' /\ Serving' /\ size' \in Int
  BY <1>0, <1>2, <1>5, <1>6 DEF Link, TerminalInv, Serving
<1>8. ASSUME stops = 0
      PROVE  Fresh(revision, pages, pending, queue["fast"], answer', inbox', question)
  <2>1. Fresh(revision, pages, pending, queue["fast"], answer, inbox, question)
    BY <1>8 DEF TerminalInv, FreshNow
  <2>2. \A l \in Three : answer'[l] # None => Told(answer'[l], revision)
    BY <1>3, <2>1 DEF Fresh
  <2>3. \A m \in In(inbox') : Told(m, revision)
    BY <1>1, <1>2, <1>5, <2>1 DEF Fresh
  <2>4. OneOut(question, pages.asked, pending, queue["fast"], answer'["fast"], inbox')
    <3>1. OneOut(question, pages.asked, pending, queue["fast"], answer["fast"], inbox)
      BY <2>1 DEF Fresh
    <3>2. CASE lane = "fast"
      <4>1. OneOut(question, pages.asked, pending, queue["fast"], None, Append(inbox, answer["fast"]))
        BY <1>0, <1>1, <1>2, <3>1, <3>2, OutSaid
      <4> QED BY <1>1, <1>2, <1>3, <3>2, <4>1
    <3>3. CASE lane # "fast"
      <4>1. x.kind \in {"count", "awake"}
        BY <1>0, <1>1, <1>2, <3>3 DEF AnswerOk, Three
      <4>2. ~Cur(x, question)
        BY <4>1 DEF Cur
      <4>3. answer'["fast"] = answer["fast"]
        BY <1>3, <3>3 DEF Three
      <4> QED BY <1>0, <1>2, <3>1, <4>2, <4>3, OutOther
    <3> QED BY <3>2, <3>3
  <2> QED BY <2>1, <2>2, <2>3, <2>4 DEF Fresh
<1> QED BY <1>2, <1>7, <1>8, TerminalLinks

\* A lane connects, starts a service, or fails; only a service that stopped fails it.
LEMMA TerminalReaches ==
    ASSUME TerminalInv, NEW lane \in Three, UNCHANGED F!faceVars,
           F!Connect(lane) \/ F!Boot(lane) \/ F!Unreached(lane) \/ F!CallFails(lane)
    PROVE  TerminalInv'
<1>0. /\ question \in Nat /\ QueueOk(queue, question) /\ AnswerOk(answer, question)
      /\ InboxOk(inbox, question) /\ IsList(inbox) /\ DOMAIN conn = Three
      /\ UNCHANGED <<question, top, pages, pending>>
  BY DEF TerminalInv, Link, Face, InboxOk, Serving, F!faceVars
<1>1. CASE F!Connect(lane)
  <2>1. /\ UNCHANGED <<revision, size, up, stops, queue, answer>>
        /\ conn' = [conn EXCEPT ![lane] = "open"]
        /\ inbox' = inbox \/ inbox' = Append(inbox, F!Up)
    BY <1>1 DEF F!Connect, F!service
  <2>2. Serving' /\ size' \in Int
    BY <2>1 DEF TerminalInv, Serving
  <2>3. CASE inbox' = inbox
    <3>1. Link'
      BY <1>0, <2>1, <2>3 DEF Link
    <3>2. stops' = 0 =>
             Fresh(revision', pages, pending, queue'["fast"], answer', inbox', question)
      BY <2>1, <2>3 DEF TerminalInv, FreshNow
    <3> QED BY <1>0, <2>2, <3>1, <3>2, TerminalLinks
  <2>4. CASE inbox' = Append(inbox, F!Up)
    <3> DEFINE x == F!Up
    <3>1. Said(x, question) /\ Told(x, revision) /\ ~Cur(x, question)
      BY DEF F!Up, Said, Told, Cur
    <3> HIDE DEF x
    <3>2. InboxOk(inbox', question) /\ In(inbox') = In(inbox) \cup {x}
      BY <1>0, <2>4, <3>1, TerminalHeard DEF x
    <3>3. Link'
      BY <1>0, <2>1, <3>2 DEF Link
    <3>4. ASSUME stops = 0
          PROVE  Fresh(revision, pages, pending, queue["fast"], answer, inbox', question)
      <4>1. Fresh(revision, pages, pending, queue["fast"], answer, inbox, question)
        BY <3>4 DEF TerminalInv, FreshNow
      <4>2. OneOut(question, pages.asked, pending, queue["fast"], answer["fast"], inbox)
        BY <4>1 DEF Fresh
      <4>3. OneOut(question, pages.asked, pending, queue["fast"], answer["fast"], Append(inbox, x))
        BY <1>0, <3>1, <4>2, OutOther
      <4>4. inbox' = Append(inbox, x)
        BY <2>4 DEF x
      <4> QED BY <3>1, <3>2, <4>1, <4>3, <4>4 DEF Fresh
    <3> QED BY <1>0, <2>1, <2>2, <3>3, <3>4, TerminalLinks
  <2> QED BY <2>1, <2>3, <2>4
<1>2. CASE F!Boot(lane)
  <2>1. ~up /\ UNCHANGED <<revision, size, stops, conn, queue, answer, inbox>>
    BY <1>2 DEF F!Boot
  <2>2. Link' /\ Serving' /\ size' \in Int
    BY <1>0, <2>1 DEF Link, TerminalInv, Serving
  <2>3. stops' = 0 =>
           Fresh(revision', pages, pending, queue'["fast"], answer', inbox', question)
    BY <2>1 DEF TerminalInv, FreshNow
  <2> QED BY <1>0, <2>2, <2>3, TerminalLinks
<1>3. CASE F!Unreached(lane) \/ F!CallFails(lane)
  <2>1. /\ F!Asks(lane) /\ F!Done(lane) /\ (~up \/ conn[lane] = "dead")
        /\ UNCHANGED <<revision, size, up, stops, answer>>
        /\ conn' = conn \/ conn' = [conn EXCEPT ![lane] = "none"]
        /\ inbox' = Append(inbox, F!Trouble(F!Ask(lane)))
    BY <1>3 DEF F!Unreached, F!CallFails, F!service
  <2> DEFINE x == F!Trouble(F!Ask(lane))
  <2>2. Said(x, question)
    BY DEF F!Trouble, Said
  <2> HIDE DEF x
  <2>3. InboxOk(inbox', question)
    BY <1>0, <2>1, <2>2, TerminalHeard DEF x
  <2>4. QueueOk(queue', question)
    BY <1>0, <2>1, TerminalLaneTakes
  <2>5. stops # 0 /\ stops' = stops
    BY <2>1 DEF TerminalInv, Serving
  <2>6. Serving' /\ size' \in Int
    <3>1. DOMAIN conn' = Three
      BY <1>0, <2>1
    <3> QED BY <2>1, <2>5, <3>1 DEF TerminalInv, Serving
  <2>7. Link'
    BY <1>0, <2>1, <2>3, <2>4 DEF Link
  <2> QED BY <1>0, <2>5, <2>6, <2>7, TerminalLinks
<1> QED BY <1>1, <1>2, <1>3

LEMMA TerminalServed ==
    ASSUME TerminalInv, F!ServiceStep, UNCHANGED F!faceVars
    PROVE  TerminalInv'
<1>0. /\ question \in Nat /\ PagesOk(pages) /\ revision \in Nat
      /\ AnswerOk(answer, question) /\ InboxOk(inbox, question)
      /\ UNCHANGED <<question, top, pages, pending, queue, answer, inbox>>
  BY DEF TerminalInv, Link, Face, Serving, F!faceVars, F!ServiceStep, F!IndexMoves,
         F!ServiceStops, F!ServiceStarts
<1>1. Link'
  BY <1>0 DEF TerminalInv, Link
<1>2. CASE F!IndexMoves
  <2>1. revision' = revision + 1 /\ UNCHANGED <<up, stops, conn>> /\ size' \in Int
    BY <1>2, FacesAssumption DEF F!IndexMoves
  <2>2. Serving'
    BY <1>0, <2>1 DEF TerminalInv, Serving
  <2>3. ASSUME stops = 0
        PROVE  Fresh(revision', pages, pending, queue["fast"], answer, inbox, question)
    <3>1. Fresh(revision, pages, pending, queue["fast"], answer, inbox, question)
      BY <2>3 DEF TerminalInv, FreshNow
    <3>2. \A m : Said(m, question) /\ Told(m, revision) => Told(m, revision')
      BY <1>0, <2>1 DEF Said, Told
    <3>3. NoNewer(revision', pages)
      <4>1. pages.revision <= revision'
        BY <1>0, <2>1, <3>1 DEF Fresh, NoNewer, PagesOk
      <4>2. pages.asked # None => pages.asked.revision <= revision'
        BY <1>0, <2>1, <3>1 DEF Fresh, NoNewer, PagesOk, Fetch
      <4> QED BY <3>1, <4>1, <4>2 DEF Fresh, NoNewer
    <3>4. (\A l \in Three : answer[l] # None => Told(answer[l], revision'))
          /\ \A m \in In(inbox) : Told(m, revision')
      BY <1>0, <3>1, <3>2 DEF Fresh, AnswerOk, InboxOk
    <3> QED BY <3>1, <3>3, <3>4 DEF Fresh
  <2> QED BY <1>0, <1>1, <2>1, <2>2, <2>3, TerminalLinks
<1>3. CASE F!ServiceStops
  <2>1. revision' = 0 /\ stops' = stops + 1 /\ DOMAIN conn' = Three /\ size' = size
    BY <1>3 DEF F!ServiceStops, F!Lanes, Three
  <2>2. stops' \in Nat /\ stops' # 0
    BY <2>1 DEF TerminalInv, Serving
  <2>3. Serving' /\ size' \in Int
    BY <2>1, <2>2 DEF Serving, TerminalInv
  <2> QED BY <1>0, <1>1, <2>2, <2>3, TerminalLinks
<1>4. CASE F!ServiceStarts
  <2>1. up' = TRUE /\ UNCHANGED <<revision, size, stops, conn>>
    BY <1>4 DEF F!ServiceStarts
  <2>2. Serving' /\ size' \in Int
    BY <2>1 DEF TerminalInv, Serving
  <2>3. stops' = 0 =>
           Fresh(revision', pages, pending, queue'["fast"], answer', inbox', question)
    BY <1>0, <2>1 DEF TerminalInv, FreshNow
  <2> QED BY <1>0, <1>1, <2>2, <2>3, TerminalLinks
<1> QED BY <1>2, <1>3, <1>4 DEF F!ServiceStep

LEMMA TerminalStarts == F!Init => TerminalInv
<1> SUFFICES ASSUME F!Init PROVE TerminalInv
  OBVIOUS
<1> DEFINE w == F!Want(1, 0)
           x == F!Search(1, 1, 0, Span)
           a == [l \in Three |-> None]
<1>1. /\ queue = [l \in Three |-> CASE l = "fast" -> F!FastOf(w) [] l = "slow" -> F!SlowOf(w)
                                    [] l = "wait" -> <<F!Await(0)>>]
      /\ revision \in {0, 1} /\ stops \in {0, 1} /\ (stops = 0 => up)
      /\ conn = [l \in Three |-> "none"] /\ size \in Int
      /\ answer = a /\ inbox = <<>> /\ question = 1 /\ top = 0 /\ pending = None
  BY FacesAssumption DEF F!Init, F!LinkInit, F!Lanes, Three
<1>2. pages = P!Asking(P!NoPages, 0)
  BY TerminalPages DEF F!Init
<1>3. PagesOk(P!NoPages) /\ P!NoPages.revision = 0
  BY DEF P!NoPages, PagesOk, Fields
<1>4. DOMAIN P!NoPages = Fields /\ DOMAIN P!NoPages.held = {}
  BY DEF P!NoPages, Fields
<1>5. PagesOk(pages) /\ pages.revision = 0 /\ pages.asked # None /\ pages.asked.page = 0
      /\ pages.asked.revision = 0
  BY <1>2, <1>3, PagesAsking
<1>6. DOMAIN pages.held = {}
  BY <1>2, <1>4, PagesKept
<1>7. Face
  BY <1>1, <1>5 DEF Face, WantOk
<1>8. /\ F!FastOf(w) = <<>> \/ F!FastOf(w) = <<x>>
      /\ F!SlowOf(w) = <<>> \/ F!SlowOf(w) = <<F!Count(1)>>
  BY DEF F!FastOf, F!SlowOf, F!Want
<1>9. x \in SearchAsk /\ x.question = 1 /\ x.page = 0 /\ F!Count(1).kind = "count"
      /\ F!Await(0).kind = "await"
  BY FacesAssumption DEF F!Search, SearchAsk, F!Count, F!Await
<1>10. /\ DOMAIN queue = Three /\ queue["fast"] = F!FastOf(w) /\ queue["slow"] = F!SlowOf(w)
       /\ queue["wait"] = <<F!Await(0)>>
  BY <1>1 DEF Three
<1> HIDE DEF w, x
<1>11. QueueOk(queue, 1)
  <2>1. IsList(queue["fast"]) /\ \A m \in In(queue["fast"]) : m \in SearchAsk /\ m.question <= 1
    BY <1>8, <1>9, <1>10, NoneListed, OneListed
  <2>2. IsList(queue["slow"]) /\ \A m \in In(queue["slow"]) : m.kind = "count"
    BY <1>8, <1>9, <1>10, NoneListed, OneListed
  <2>3. IsList(queue["wait"]) /\ \A m \in In(queue["wait"]) : m.kind = "await"
    BY <1>9, <1>10, OneListed
  <2> QED BY <1>10, <2>1, <2>2, <2>3 DEF QueueOk, Three
<1>12. AnswerOk(answer, 1) /\ InboxOk(inbox, 1)
  BY <1>1, NoneListed DEF AnswerOk, InboxOk, Three
<1>13. Link
  BY <1>1, <1>11, <1>12 DEF Link
<1>14. Serving
  BY <1>1 DEF Serving
<1>15. Gone(1, None, <<>>, None, <<>>)
  BY NoneListed DEF Gone, Clear
<1>16. OneOut(1, pages.asked, None, queue["fast"], None, <<>>)
  <2>1. CASE F!FastOf(w) = <<>>
    BY <1>10, <1>15, <2>1, GoneOut
  <2>2. CASE F!FastOf(w) = <<x>>
    <3>1. queue["fast"] = Append(<<>>, x)
      BY <1>10, <2>2
    <3> QED BY <1>5, <1>9, <1>15, <3>1, NoneListed, OutSent
  <2> QED BY <1>8, <2>1, <2>2
<1>17. FreshNow
  <2>1. NoNewer(revision, pages)
    BY <1>1, <1>5, <1>6 DEF NoNewer
  <2>2. answer["fast"] = None /\ \A l \in Three : answer[l] = None
    BY <1>1 DEF Three
  <2> QED BY <1>1, <1>16, <2>1, <2>2, NoneListed DEF FreshNow, Fresh
<1> QED BY <1>1, <1>7, <1>13, <1>14, <1>17 DEF TerminalInv

LEMMA TerminalStays ==
    ASSUME Room \in Nat, TerminalInv, [F!Next]_F!vars
    PROVE  TerminalInv'
<1>1. CASE F!User
  BY <1>1, TerminalPresses, TerminalScrolls DEF F!User
<1>2. CASE F!Quiet
  BY <1>2, TerminalQuiet
<1>3. CASE F!Hear
  BY <1>3, TerminalHears
<1>4. ASSUME NEW lane \in Three, F!LaneStep(lane), UNCHANGED F!faceVars PROVE TerminalInv'
  <2>1. ~F!Skip(lane)
    BY DEF F!Skip, F!Stale
  <2> QED BY <1>4, <2>1, TerminalReaches, TerminalCalls, TerminalSays DEF F!LaneStep
<1>5. CASE \E l \in F!Lanes : F!Lane(l)
  BY <1>4, <1>5 DEF F!Lanes, Three, F!Lane
<1>6. CASE F!ServiceStep /\ UNCHANGED F!faceVars
  BY <1>6, TerminalServed
<1>7. CASE UNCHANGED F!vars
  <2>1. UNCHANGED <<revision, size, up, stops, queue, conn, answer, inbox, question, top, pages,
                    pending>>
    BY <1>7 DEF F!vars, F!linkVars, F!service, F!faceVars
  <2>2. Link' /\ Face' /\ Serving' /\ size' \in Int
    BY <2>1 DEF TerminalInv, Link, Face, Serving
  <2>3. FreshNow'
    BY <2>1 DEF TerminalInv, FreshNow
  <2> QED BY <2>2, <2>3 DEF TerminalInv
<1> QED BY <1>1, <1>2, <1>3, <1>5, <1>6, <1>7 DEF F!Next

\* The terminal never takes a page for newer than the index it was read from (put, and
\* typed, landed and follow around it), however its one search, the change of the index
\* and the next key overtake one another: a page it took so would never be read again.
THEOREM TerminalHonest ==
    ASSUME Room \in Nat
    PROVE  F!Spec => []Honest
<1>1. TerminalInv => Honest
  <2> SUFFICES ASSUME TerminalInv, stops = 0
               PROVE  \A q \in DOMAIN pages.held : pages.held[q].seen >= pages.held[q].revision
    BY DEF Honest, T!Honest
  <2> QED BY DEF TerminalInv, FreshNow, Fresh, NoNewer
<1>2. TerminalInv /\ [F!Next]_F!vars => TerminalInv'
  BY TerminalStays
<1> QED BY <1>1, <1>2, TerminalStarts, PTL DEF F!Spec
=============================================================================
