------------------------------- MODULE Search -------------------------------
(***************************************************************************)
(* Answering a query (crates/scour-index-native/src/search.rs, and search  *)
(* and reach of index.rs): each segment picks the rows that can still be   *)
(* on the page, opening its blocks in the order that lets it stop soonest, *)
(* and what the segments hand over is merged.                              *)
(*                                                                         *)
(* A segment is a sequence of rows, newest first and by path within a      *)
(* date.  `hit' says whether a row is live, matches and is not concealed;  *)
(* `key' is what the other orders read; a name's sort value is the first   *)
(* bytes of it.  `opened' are the blocks the trigram index and the stored  *)
(* ranges leave: those with a row that matches, and any others.            *)
(***************************************************************************)
EXTENDS Integers, Sequences, SequencesExt, FiniteSetsExt

CONSTANTS
    Block,          \* BLOCK
    ReachFrom,      \* REACH_FROM
    TieSteps,       \* TIE_STEPS
    NamedTries,     \* NAMED_STREAM_TRIES
    NamedShare,     \* NAMED_STREAM_SHARE
    HeadOf,         \* what of a name its sort value holds: a divisor of keys
    Corpora,        \* what the index may hold
    Wants,          \* what it is asked
    Nothing

VARIABLES
    views,           \* segments
    request,           \* the last request
    reply          \* what it was answered

searchVars == <<views, request, reply>>

Cap(w) == Max({1, w.cap})
Need(w) == w.offset + w.limit

\* The sort value, and what it abbreviates.  Relevance scores every row alike when the
\* query has no terms.
Scored(w) == w.query = "names"
FullKey(w, r) ==
    CASE w.sort = "modified" -> r.mtime
      [] w.sort = "path" -> r.path
      [] w.sort = "relevance" /\ ~Scored(w) -> 0
      [] OTHER -> r.key
SortValue(w, r) == IF w.sort = "name" THEN r.key \div HeadOf ELSE FullKey(w, r)
Exact(w) == w.sort # "name"
Better(w, a, b) == IF w.desc THEN a > b ELSE a < b

\* A query with no conditions and nothing concealed matches every live row; what was
\* removed and is not erased yet is hidden by a veto, which reads names.
MatchesAll(w) == w.query = "none"
NeedsName(w) == w.query = "names"
HasVeto(w) == w.query = "concealed"

\* The members of a finite set, in a strict order.
Ranked(S, Before(_, _)) ==
    [i \in 1..Cardinality(S) |-> CHOOSE x \in S : Cardinality({y \in S : Before(y, x)}) = i - 1]

-----------------------------------------------------------------------------
\* page_order; narrow: the rows that can still reach the page, with those tied at its
\* end where the value is only the beginning of the key; out_of_page, out_of_reach.
PageBefore(w, a, b) == Better(w, a.value, b.value) \/ (a.value = b.value /\ a.row < b.row)
Worst(w, keyed) ==
    CHOOSE k \in keyed : Cardinality({j \in keyed : PageBefore(w, j, k)}) = Need(w) - 1
NarrowCut(w, keyed) ==
    IF Cardinality(keyed) < Need(w) THEN keyed
    ELSE {k \in keyed : ~PageBefore(w, Worst(w, keyed), k)}
Narrow(w, keyed) ==
    IF Need(w) = 0 THEN {}
    ELSE IF Cardinality(keyed) < Need(w) THEN keyed
    ELSE LET From(end) == {k \in keyed :
                              \/ ~PageBefore(w, end, k)
                              \/ ~Exact(w) /\ k.value = end.value}
         IN  From(Worst(w, keyed))
OutOfPage(w, bar, k) ==
    bar # Nothing /\ (Better(w, bar.value, k.value)
                        \/ (bar.value = k.value /\ Exact(w) /\ k.row > bar.row))

BlockOf(row) == (row - 1) \div Block
RowsOf(seg, block) == {row \in 1..Len(seg.rows) : BlockOf(row) = block}
Blocks(seg) == {BlockOf(row) : row \in 1..Len(seg.rows)}
\* What a block's stored range says it could hold at best.
BestOf(w, seg, block) ==
    LET values == {FullKey(w, seg.rows[row]) : row \in RowsOf(seg, block)}
    IN  IF w.desc THEN Max(values) ELSE Min(values)
OutOfReach(w, seg, worst, block) ==
    worst # Nothing /\ (Better(w, worst.value, BestOf(w, seg, block))
                          \/ (worst.value = BestOf(w, seg, block) /\ worst.row < Block * block + 1))
ZoneBefore(w, seg, a, b) ==
    LET x == BestOf(w, seg, a) y == BestOf(w, seg, b) IN Better(w, x, y) \/ (x = y /\ a < b)

-----------------------------------------------------------------------------
\* How a segment is walked, and what of it is told apart.
StoredForward(w) == (w.sort = "modified" /\ w.desc) \/ (w.sort = "relevance" /\ ~Scored(w))
Streams(w, seg, named) ==
    /\ w.sort \in {"path", "name"} /\ Need(w) > 0
    /\ ~NeedsName(w) \/ named
    /\ seg.ordered
    /\ 2 * Cardinality(seg.opened) >= Cardinality(Blocks(seg))
Backwards(w) == w.sort = "modified" /\ ~w.desc /\ ~NeedsName(w) /\ ~HasVeto(w)
Bounded(w) == Need(w) > 0 /\ w.sort \in {"modified", "size"}
Way(w, seg, named) ==
    IF StoredForward(w) \/ Streams(w, seg, named) THEN "stored"
    ELSE IF Backwards(w) THEN "backwards" ELSE "keyed"

Start == [counted |-> 0, kept |-> <<>>, edge |-> Nothing, keyed |-> {}, trim |-> 0,
          mark |-> Nothing, closed |-> FALSE, go |-> TRUE]

\* In the order asked for: the page is full, and enough is counted.
VisitStored(w, seg, cap, s, row) ==
    LET kept == IF Len(s.kept) < Need(w) THEN Append(s.kept, row) ELSE s.kept
    IN  [s EXCEPT !.kept = kept, !.go = ~(Len(kept) >= Need(w) /\ s.counted >= cap)]
\* From the far end: paths come reversed within a date, so the date the page ends on is
\* walked to its end.
VisitBack(w, seg, cap, s, row) ==
    LET when == seg.rows[row].mtime
    IN  IF Len(s.kept) < Need(w)
          THEN [s EXCEPT !.kept = Append(@, row),
                         !.edge = IF Len(s.kept) + 1 = Need(w) THEN when ELSE @]
        ELSE IF s.edge = when THEN [s EXCEPT !.kept = Append(@, row)]
        ELSE [s EXCEPT !.go = s.counted < cap]
\* Any other order: a page's worth of candidates, trimmed as they double, with the
\* page's worst row as a mark for the rows (or, where they have ranges, the blocks) to
\* come.  Closed, the walk only counts.
VisitKeyed(w, seg, cap, s, row) ==
    LET k == [value |-> SortValue(w, seg.rows[row]), row |-> row]
        more == s.keyed \cup {k}
        trim == Max({s.trim, Need(w)})
        Trimmed(kept) == [s EXCEPT !.keyed = kept, !.trim = 2 * Cardinality(kept),
                                   !.mark = Worst(w, kept)]
    IN  IF s.closed THEN [s EXCEPT !.go = s.counted < cap]
        ELSE IF Need(w) = 0 \/ (~Bounded(w) /\ OutOfPage(w, s.mark, k)) THEN s
        ELSE IF Cardinality(more) < trim THEN [s EXCEPT !.keyed = more]
        ELSE Trimmed(Narrow(w, more))

Visit(w, seg, cap, way, s, row) ==
    LET c == [s EXCEPT !.counted = @ + 1]
    IN  IF ~s.go \/ ~seg.rows[row].hit THEN s
        ELSE CASE way = "stored" -> VisitStored(w, seg, cap, c, row)
               [] way = "backwards" -> VisitBack(w, seg, cap, c, row)
               [] way = "keyed" -> VisitKeyed(w, seg, cap, c, row)
Walk(w, seg, cap, way, s, rows) ==
    FoldLeft(LAMBDA t, row : Visit(w, seg, cap, way, t, row), s, rows)

Ascending(S) == Ranked(S, <)
OpenRows(seg, blocks) == Ascending(UNION {RowsOf(seg, b) : b \in blocks})

\* A stored order of paths or names: descending, paths are read from the end, and names
\* by groups, in which they stay newest first.
Positions(w, seg) ==
    Ranked(1..Len(seg.rows),
           LAMBDA a, b : \/ Better(w, FullKey(w, seg.rows[a]), FullKey(w, seg.rows[b]))
                         \/ /\ FullKey(w, seg.rows[a]) = FullKey(w, seg.rows[b])
                            /\ IF w.sort = "path" /\ w.desc THEN a > b ELSE a < b)

\* Best block first.  Blocks are opened as they come until there is a page, then in the
\* order of what they could hold, until none can reach it; then the rest, to count.
OpenBlock(w, seg, cap, t, block) ==
    [t EXCEPT !.s = Walk(w, seg, cap, "keyed", @, OpenRows(seg, {block})),
              !.left = @ \ {block}]
WalkZones(w, seg, cap) ==
    LET Open(t, b) == OpenBlock(w, seg, cap, t, b)
        First(t, b) == IF t.s.mark # Nothing THEN t ELSE Open(t, b)
        Reaching(t, b) == IF OutOfReach(w, seg, t.s.mark, b) THEN t ELSE Open(t, b)
        Best(first) == FoldLeft(Reaching, first,
                                Ranked(first.left, LAMBDA a, b : ZoneBefore(w, seg, a, b)))
        Counted(best) ==
            IF best.s.counted >= cap THEN best.s
            ELSE Walk(w, seg, cap, "keyed", [best.s EXCEPT !.closed = TRUE],
                      OpenRows(seg, best.left))
    IN  Counted(Best(FoldLeft(First, [s |-> Start, left |-> seg.opened], Ascending(seg.opened))))

WalkSegment(w, seg, cap, named) ==
    LET way == Way(w, seg, named)
    IN  IF Streams(w, seg, named) THEN Walk(w, seg, cap, way, Start, Positions(w, seg))
        ELSE IF way = "keyed" /\ Bounded(w) THEN WalkZones(w, seg, cap)
        ELSE LET rows == OpenRows(seg, seg.opened)
             IN  Walk(w, seg, cap, way, Start, IF way = "backwards" THEN Reverse(rows) ELSE rows)

\* A query that reads names may be answered from a stored order too, for as many
\* positions as its budget; when they run out the ordinary walk answers.
NamedBudget(w, cap) == Max({Need(w), cap}) * NamedTries
RunsOut(w, seg, cap) ==
    /\ Streams(w, seg, TRUE) /\ NamedBudget(w, cap) < Len(seg.rows)
    /\ Walk(w, seg, cap, "stored", Start, SubSeq(Positions(w, seg), 1, NamedBudget(w, cap))).go
ByName(w, seg, cap) ==
    /\ NeedsName(w) /\ Need(w) > 0 /\ w.sort \in {"name", "path"}
    /\ NamedBudget(w, cap) <= Len(seg.rows) \div NamedShare
    /\ ~RunsOut(w, seg, cap)
RunWith(w, seg, cap) ==
    LET Run(named, s) ==
            [rows |-> IF Way(w, seg, named) = "keyed" THEN {k.row : k \in Narrow(w, s.keyed)}
                      ELSE ToSet(s.kept),
             total |-> Min({s.counted, cap})]
        Walked(named) == Run(named, WalkSegment(w, seg, cap, named))
    IN  Walked(ByName(w, seg, cap))

-----------------------------------------------------------------------------
\* index.rs, search.  What is left of the count is what the next segment counts up to;
\* the pool is ordered as the rows will be, before any is built.
Row(at) == views[at[1]].rows[at[2]]
Hits(seg) == {row \in 1..Len(seg.rows) : seg.rows[row].hit}

Before(w, a, b) ==
    \/ Better(w, FullKey(w, Row(a)), FullKey(w, Row(b)))
    \/ /\ FullKey(w, Row(a)) = FullKey(w, Row(b))
       /\ \/ Row(a).mtime > Row(b).mtime
          \/ /\ Row(a).mtime = Row(b).mtime
             /\ IF a[1] = b[1] THEN a[2] < b[2] ELSE Row(a).path < Row(b).path

Page(w, pool) ==
    SubSeq(Ranked(pool, LAMBDA a, b : Before(w, a, b)), w.offset + 1,
           Min({Need(w), Cardinality(pool)}))
Merged(w) ==
    LET Counted(t, i, total, rows) ==
            [counted |-> t.counted + total,
             budget |-> Max({t.budget - total, 0}),
             pool |-> t.pool \cup {<<i, row>> : row \in rows}]
        Ran(t, i, run) ==
            Counted(t, i, IF MatchesAll(w) THEN Cardinality(Hits(views[i])) ELSE run.total,
                    IF MatchesAll(w) /\ Need(w) = 0 THEN {} ELSE run.rows)
        Gather(t, i) ==
            Ran(t, i, RunWith(w, views[i], IF MatchesAll(w) THEN Need(w) ELSE t.budget))
    IN  FoldLeft(Gather, [counted |-> 0, budget |-> Cap(w), pool |-> {}],
                 [i \in 1..Len(views) |-> i])

\* reach: a deep page of everything, newest first.  The date it begins on is found by
\* counting the live rows that are newer, and the rows of that date are stepped through.
Everything == UNION {{<<i, row>> : row \in Hits(views[i])} : i \in 1..Len(views)}
Newer(t) == Cardinality({at \in Everything : Row(at).mtime > t})
Dates == UNION {{views[i].rows[row].mtime : row \in 1..Len(views[i].rows)} : i \in 1..Len(views)}
When(w) == Min({t \in Min(Dates)..Max(Dates) : Newer(t) <= w.offset})
Reaches(w) ==
    /\ w.offset >= ReachFrom /\ MatchesAll(w)
    /\ w.sort \in {"modified", "relevance"} /\ w.desc
    /\ \/ w.offset >= Cardinality(Everything)
       \/ w.offset - Newer(When(w)) <= TieSteps
Reach(w) ==
    IF w.offset >= Cardinality(Everything) THEN <<>>
    ELSE LET from == {at \in Everything : Row(at).mtime <= When(w)}
             skip == w.offset - Newer(When(w))
             rest == Ranked(from, LAMBDA a, b : Before([w EXCEPT !.sort = "modified"], a, b))
         IN  SubSeq(rest, skip + 1, Min({skip + w.limit, Len(rest)}))

Answer(w) ==
    LET Of(hits, counted) == [hits |-> hits, total |-> Min({counted, Cap(w)}),
                              capped |-> counted >= Cap(w)]
        From(found) == Of(Page(w, found.pool), found.counted)
    IN  IF Reaches(w) THEN Of(Reach(w), Cardinality(Everything)) ELSE From(Merged(w))

Init == views \in Corpora /\ request = Nothing /\ reply = Nothing
Ask ==
    \E w \in Wants :
        /\ request = Nothing
        /\ request' = w /\ reply' = Answer(w)
        /\ UNCHANGED views

Returns == request # Nothing /\ request' = Nothing /\ reply' = Nothing /\ UNCHANGED views

Next == Ask \/ Returns
Spec == Init /\ [][Next]_searchVars

-----------------------------------------------------------------------------
\* Whatever blocks were not opened, rows not kept and segments not counted, a page is
\* the slice of all the matching rows in their order, and the count is theirs up to
\* the cap.
PagesRight ==
    request # Nothing =>
        /\ reply.hits = Page(request, Everything)
        /\ reply.total = Min({Cardinality(Everything), Cap(request)})
        /\ reply.capped = (Cardinality(Everything) >= Cap(request))
=============================================================================
