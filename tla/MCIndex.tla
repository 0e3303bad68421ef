------------------------------ MODULE MCIndex ------------------------------
(***************************************************************************)
(* The index without failures in three kinds of behaviours, what it is     *)
(* asked about paths in a fourth, and what it is searched for in a fifth.  *)
(*   walk     entries and removals beside walks, of all or of a subtree,   *)
(*            that are swept or abandoned                                  *)
(*   sources  two sources that share a path, walked under several scopes,  *)
(*            one of them forgotten, with publishes past every bound       *)
(*   flush    removals, commits and publishes beside a client's flush      *)
(*   prefixes sets of paths, over the names "a" and "a-b": the hyphen      *)
(*            sorts below the separator                                    *)
(*   search   two segments, their rows and blocks, and one request         *)
(***************************************************************************)
EXTENDS MCNativeIndex

VARIABLES
    part,
    prefixes, found, wanted, asked,     \* of PrefixSet
    views, request, reply               \* of Search

sets == <<prefixes, found, wanted, asked>>
searches == <<views, request, reply>>

G == INSTANCE NativeIndex WITH
        Sources <- {1, 2}, Metas <- {"a"}, Entries <- SharedPath,
        Scopes <- {{}, {"d"}}, Spares <- {{}, {"d"}}, Ops <- OpsSources,
        MaxStaged <- 2, PublishMaxStaged <- 1, UnwrittenMaxRows <- 0, MaxSegment <- 3,
        MaxGeneration <- 1

F == INSTANCE NativeIndex WITH
        Entries <- XYa, Removed <- {"x"}, Ops <- OpsFlush,
        MaxStaged <- 5, MaxSegment <- 3, MaxGeneration <- 1

Letter  == 97
Hyphen  == 45
NamesOf == {<<Letter>>, <<Letter, Hyphen, Letter + 1>>}
P == INSTANCE PrefixSet WITH
        paths <- prefixes, lookup <- found, pending <- wanted, ever <- asked,
        Names <- NamesOf, MaxDepth <- 2, Slash <- 47, ScanLimit <- 2

\* Four rows in two blocks, with any keys; or six in three, so that a block is passed
\* over and another opened; and one row of a second segment, its path between theirs.
Seg(dates, paths, keys, hits, opened, ordered) ==
    [rows |-> [i \in 1..Len(dates) |-> [mtime |-> dates[i], path |-> paths[i], key |-> keys[i],
                                       hit |-> i \in hits]],
     opened |-> opened, ordered |-> ordered]
Other == Seg(<<1>>, <<4>>, <<1>>, {1}, {0}, TRUE)
Dated == {<<<<1, 1, 0, 0>>, <<2, 6, 1, 5>>>>, <<<<2, 1, 1, 0>>, <<6, 1, 2, 5>>>>,
          <<<<1, 1, 1, 1>>, <<1, 2, 5, 6>>>>}
HitsOf == {<<1..4, {0, 1}>>, <<{1, 2}, {0}>>, <<{1, 4}, {0, 1}>>}
CorporaOf ==
    {<<Seg(d[1], d[2], keys, h[1], h[2], TRUE), Other>> :
        d \in Dated, keys \in {k \in [1..4 -> 0..2] : k[4] = 1}, h \in HitsOf}
    \cup {<<Seg(<<1, 1, 1, 0, 0, 0>>, <<1, 2, 3, 5, 6, 7>>, keys, 1..6, 0..2, FALSE), Other>> :
            keys \in {k \in [1..6 -> 0..2] : k[1] = 0 /\ k[2] = 1}}
Asked(offsets, limit) ==
    [sort : {"modified", "size", "relevance", "name", "path"}, desc : BOOLEAN,
     query : {"none", "concealed", "columns", "names"}, offset : offsets, limit : {limit},
     cap : {1, 9}]
WantsOf == Asked({0}, 0) \cup Asked({0, 1}, 1)
Q == INSTANCE Search WITH
        Block <- 2, ReachFrom <- 1, TieSteps <- 1, NamedTries <- 2, NamedShare <- 1,
        HeadOf <- 2, Corpora <- CorporaOf, Wants <- WantsOf, Nothing <- NoThread

MCInit ==
    /\ P!Init
    /\ \/ part = "walk" /\ Init
       \/ part = "sources" /\ G!Init
       \/ part = "flush" /\ F!Init
       \/ part = "prefixes" /\ Init
       \/ part = "search" /\ Init
    /\ Q!Init /\ (part # "search" => views = CHOOSE c \in CorporaOf : TRUE)

WalkStep(A)    == part = "walk"     /\ A /\ UNCHANGED <<part, sets, searches>>
SourcesStep(A) == part = "sources"  /\ A /\ UNCHANGED <<part, sets, searches>>
FlushStep(A)   == part = "flush"    /\ A /\ UNCHANGED <<part, sets, searches>>
PrefixStep(A)  == part = "prefixes" /\ A /\ UNCHANGED <<part, vars, searches>>
SearchStep(A)  == part = "search"   /\ A /\ UNCHANGED <<part, vars, sets>>

MCNext ==
    \/ WalkStep(Next)
    \/ SourcesStep(G!Next)
    \/ FlushStep(F!Next)
    \/ PrefixStep(P!Next)
    \/ SearchStep(Q!Next)
MCSpec == MCInit /\ [][MCNext]_<<part, sets, searches, vars>>

-----------------------------------------------------------------------------
\* No row the callers want is lost, in any of them.
Kept == IF part = "sources" THEN G!NotLost ELSE NotLost
\* The index's fields and files have the shapes the code gives them.
WellTyped == IF part = "sources" THEN G!TypeOK ELSE TypeOK
\* A set of paths covers what is at or below one asked for, and nothing else.
CoversRight == part = "prefixes" => P!CoversRight
\* A page is the slice of all the matching rows in their order, and the count theirs.
PagesRight == part = "search" => Q!PagesRight
=============================================================================
