----------------------------- MODULE SourceIds -----------------------------
(***************************************************************************)
(* Which number belongs to which source (apps/scourd/src/sources.rs), and  *)
(* what becomes of the rows of a source that is no longer planned          *)
(* (apps/scourd/src/wire.rs, `engine').  Every row of the index carries a  *)
(* number; the names that go with the numbers are kept in a file beside    *)
(* it.  The name is the identity.                                          *)
(***************************************************************************)
EXTENDS Integers, FiniteSets

CONSTANTS
    Names,      \* names of sources
    MaxId,      \* bound: no plan is taken past this number
    Faults      \* what may go wrong: "forget", "write", "crash", "torn"

WellFormed ==
    /\ IsFiniteSet(Names) /\ MaxId \in Nat
    /\ Faults \subseteq {"forget", "write", "crash", "torn"}

VARIABLES
    file,       \* sources.json: name -> number; empty when it cannot be read
    ids,        \* name -> number, of the engine in use
    dropped,    \* numbers whose rows are still to be forgotten
    up,         \* an engine is in use
    rows,       \* <<number, name>>: the index holds rows of that source, so numbered
    harmed      \* the file and the rows were left disagreeing

sourceVars == <<file, ids, dropped, up, rows, harmed>>

Numbers(f) == {f[n] : n \in DOMAIN f}

\* One past the highest number in the file; counting from it, a name without a
\* number takes the next.
CountNames(f) == Cardinality(DOMAIN f)
FirstFree(f) ==
    IF DOMAIN f = {} THEN 0
    ELSE 1 + CHOOSE m \in Numbers(f) : \A k \in Numbers(f) : k <= m

\* Every way of giving the new names numbers, as the plan's order decides.
Numberings(f, new) ==
    {g \in [new -> FirstFree(f)..(FirstFree(f) + Cardinality(new) - 1)] :
        \A m, n \in new : g[m] = g[n] => m = n}

\* Numbers whose source is no longer planned.
DroppedAfter(f, names) == {}
Dropped(f, names) == {f[n] : n \in DOMAIN f \ names}

Init ==
    /\ file = <<>> /\ ids = <<>> /\ dropped = {} /\ up = FALSE
    /\ rows = {} /\ harmed = FALSE

\* wire::engine: numbers are assigned and the file written; that it could not be,
\* or not to its end, is not noticed.
Assign(names) ==
    /\ dropped = {}
    /\ FirstFree(file) + Cardinality(names \ DOMAIN file) <= MaxId + 1
    /\ \E g \in Numberings(file, names \ DOMAIN file) :
          LET f == [n \in names |-> IF n \in DOMAIN file THEN file[n] ELSE g[n]]
          IN  /\ ids' = f
              /\ \/ file' = f /\ UNCHANGED harmed
                 \/ "write" \in Faults /\ file' \in {file, <<>>} /\ harmed' = TRUE
    /\ dropped' = Dropped(file, names)
    /\ up' = (dropped' = {})
    /\ UNCHANGED rows

\* Then the rows of what was dropped are forgotten, a number at a time; a number
\* whose rows could not be is only noted.
ForgetNext(i) ==
    /\ i \in dropped
    /\ dropped' = dropped \ {i}
    /\ up' = (dropped' = {})
    /\ \/ rows' = {r \in rows : r[1] # i} /\ UNCHANGED harmed
       \/ "forget" \in Faults /\ rows' = rows /\ harmed' = TRUE
    /\ UNCHANGED <<file, ids>>

\* A source is walked; its rows carry its number.
Walk(n) ==
    /\ up /\ n \in DOMAIN ids
    /\ rows' = rows \cup {<<ids[n], n>>}
    /\ UNCHANGED <<file, ids, dropped, up, harmed>>

\* The service stops, and the file and the rows are what is left: rows still to be
\* forgotten among them, which the file no longer knows of.
Crash ==
    /\ "crash" \in Faults
    /\ harmed' = (harmed \/ dropped # {})
    /\ ids' = <<>> /\ dropped' = {} /\ up' = FALSE
    /\ UNCHANGED <<file, rows>>

\* The file is written in place: a stop in the middle leaves one that cannot be
\* read, which is treated as absent.
CrashTorn ==
    /\ "torn" \in Faults /\ DOMAIN file # {}
    /\ harmed' = TRUE
    /\ file' = <<>> /\ ids' = <<>> /\ dropped' = {} /\ up' = FALSE
    /\ UNCHANGED rows

Next ==
    \/ \E names \in SUBSET Names : Assign(names)
    \/ \E i \in dropped : ForgetNext(i)
    \/ \E n \in Names : Walk(n)
    \/ Crash
    \/ CrashTorn

Spec == Init /\ [][Next]_sourceVars

-----------------------------------------------------------------------------
\* Two sources never share a number, whatever came and went and whatever failed.
OneNumberEach == \A m, n \in DOMAIN ids : ids[m] = ids[n] => m = n

\* A number means the same thing twice: every row the engine in use answers with
\* belongs to a planned source and carries its number, through every restart that
\* did not fall between the writing of the numbers and the forgetting of the rows.
Owned == \A r \in rows : r[2] \in DOMAIN ids /\ ids[r[2]] = r[1]
RowsOwned == up /\ ~harmed => Owned

\* "a changed name is a new source and the old one's rows are dropped"
AlwaysOwned == up => Owned
=============================================================================
