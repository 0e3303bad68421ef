------------------------------- MODULE Pages -------------------------------
(***************************************************************************)
(* crates/scour-page/src/lib.rs: the pages a face holds of a result it     *)
(* never has whole.  Operators on one value of `Pages', for the faces to   *)
(* use.  A page is its number of rows; with them goes what no face can     *)
(* see, the question they answer and the revision they were read at.       *)
(***************************************************************************)
EXTENDS Integers, Sequences, FiniteSets, SequencesExt

CONSTANTS
    Span,   \* SPAN: rows to a page, and the most the service gives
    Kept,   \* KEPT: pages before the least recently used goes
    None    \* no fetch is out

Least(S)   == CHOOSE x \in S : \A y \in S : x <= y
Lesser(a, b)  == IF a < b THEN a ELSE b
Greater(a, b) == IF a < b THEN b ELSE a

PageOf(row) == row \div Span

\* Pages::default
NoPages == [held |-> <<>>, order |-> <<>>, total |-> 0, asked |-> None, revision |-> 0,
            served |-> 0]

\* empty: the length stays, or the view collapses and springs back.
Emptied(p) == [p EXCEPT !.held = <<>>, !.order = <<>>, !.asked = None]

Marked(p, revision)  == [p EXCEPT !.revision = revision]
Asking(p, page)      == [p EXCEPT !.asked = [page |-> page, revision |-> p.revision]]
UnaskedNever(p)      == p
Unasked(p)           == [p EXCEPT !.asked = None]
WithTotal(p, total)  == [p EXCEPT !.total = total]

Holds(p, page) == page \in DOMAIN p.held /\ p.held[page].count > 0
OutFor(p, page) == p.asked # None /\ p.asked.page = page

\* touch and evict: never the page a fetch is out for.
Touched(order, page) == Append(SelectSeq(order, LAMBDA q : q # page), page)
Evicted(p) ==
    IF Len(p.order) <= Kept THEN p
    ELSE LET oldest == Head(p.order)
         IN  IF OutFor(p, oldest) THEN [p EXCEPT !.order = Append(Tail(@), oldest)]
             ELSE [p EXCEPT !.order = Tail(@),
                            !.held = [q \in DOMAIN @ \ {oldest} |-> @[q]]]

\* put: stamped with the revision the request went out at, if it is this page's.
StampNow(p, page) == p.revision
Stamp(p, page) == IF OutFor(p, page) THEN p.asked.revision ELSE p.revision
Settled(p, page, count) == page \in DOMAIN p.held /\ p.held[page].count >= count
Put(p, page, rows, total) ==
    LET here == [count |-> rows.count, revision |-> Stamp(p, page),
                 settled |-> Settled(p, page, rows.count),
                 question |-> rows.question, seen |-> rows.seen]
    IN  Evicted([p EXCEPT
            !.served = Greater(@, rows.count),
            !.held = [q \in DOMAIN @ \cup {page} |-> IF q = page THEN here ELSE @[q]],
            !.asked = IF OutFor(p, page) THEN None ELSE @,
            !.order = Touched(@, page),
            !.total = total])

\* length: a page short by both measures ends the result.
Length(p, page, arrived, wanted) ==
    IF arrived < wanted /\ arrived < Greater(p.served, 1) THEN page * Span + arrived
                                                           ELSE p.total

\* next_page: the first page the eye is on that is missing, cut short or, when there
\* is time, stale; then one ahead or behind.  None if there is nothing to fetch.
Wanting(p, page, last, refresh) ==
    LET seen == Lesser(Lesser(last, page * Span + Span - 1), p.total - 1)
    IN  \/ ~Holds(p, page)
        \/ ~p.held[page].settled /\ seen >= page * Span + p.held[page].count
        \/ refresh /\ p.held[page].revision # p.revision

NextPages(p, first, last, speculate, refresh) ==
    LET from == PageOf(Lesser(first, p.total - 1))
        to   == PageOf(Lesser(last, p.total - 1))
        eye  == {q \in from..to : Wanting(p, q, last, refresh)}
        near == {q \in {to + 1} : to < PageOf(p.total - 1) /\ ~Holds(p, q)}
        back == {q \in {from - 1} : from > 0 /\ ~Holds(p, q)}
    IN  IF p.total = 0 \/ p.asked # None THEN {}
        ELSE IF eye # {} THEN {Least(eye)}
        ELSE IF ~speculate THEN {}
        ELSE IF near # {} THEN near ELSE back
=============================================================================
