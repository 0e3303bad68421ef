----------------------------- MODULE PrefixSet -----------------------------
(***************************************************************************)
(* crates/scour-core/src/types/prefix.rs: a set of paths asked whether     *)
(* anything is under it.  Everything the set does, it does with the bytes  *)
(* of a path: it sorts them, and keeps a path when the last one kept is no *)
(* string prefix of it ending at a separator.  So here a path is a         *)
(* sequence of bytes, rendered from the names that lead to it, and what    *)
(* "under" ought to mean is said of the names.                             *)
(***************************************************************************)
EXTENDS Integers, Sequences, FiniteSets, SequencesExt

CONSTANTS
    Names,      \* the names of files, sequences of bytes other than Slash
    MaxDepth,   \* bound: the names in a path
    Slash,      \* b'/'
    ScanLimit   \* the members `covers' still scans rather than look up

VARIABLES
    paths,      \* sorted and reduced
    lookup,     \* the same paths, for one path's ancestors
    pending,    \* locations asked for, none below another, not forgotten since
    ever        \* locations asked for and not forgotten as members since

vars == <<paths, lookup, pending, ever>>

-----------------------------------------------------------------------------
\* Locations and their rendering.
Locations == UNION {[1..d -> Names] : d \in 0..MaxDepth}
Text(loc) == FoldLeft(LAMBDA text, name : text \o <<Slash>> \o name, <<>>, loc)
Beneath(a, b) == IsPrefix(b, a)
SomeBeneath(loc, S) == \E s \in S : Beneath(loc, s)

\* What a caller may hand in: with a separator at the end or without.
Spellings(loc) == {Text(loc), Text(loc) \o <<Slash>>}

-----------------------------------------------------------------------------
\* str::trim_end_matches('/')
Trim(text) ==
    LET kept == {n \in 1..Len(text) : text[n] # Slash}
    IN  IF kept = {} THEN <<>> ELSE SubSeq(text, 1, CHOOSE n \in kept : \A m \in kept : m <= n)

\* The order of str: bytes, a proper prefix first.
Before(a, b) ==
    \/ IsStrictPrefix(a, b)
    \/ \E n \in 1..Len(a) :
          /\ n <= Len(b) /\ a[n] < b[n]
          /\ SubSeq(a, 1, n - 1) = SubSeq(b, 1, n - 1)

Sorted(S) == [n \in 1..Cardinality(S) |->
                CHOOSE t \in S : Cardinality({u \in S : Before(u, t)}) = n - 1]

\* under: a separator boundary, not a string prefix.
UnderString(path, prefix) == IsPrefix(Trim(prefix), path)
UnderText(path, prefix) ==
    LET p == Trim(prefix)
    IN  \/ p = <<>>
        \/ path = p
        \/ Len(path) > Len(p) /\ IsPrefix(p, path) /\ path[Len(p) + 1] = Slash

\* reduce: each path against the last one kept.
Keep(kept, p) == IF kept = <<>> \/ ~UnderText(p, kept[Len(kept)]) THEN Append(kept, p)
                                                                  ELSE kept
Reduced(S) == FoldLeft(Keep, <<>>, Sorted({Trim(t) : t \in S}))

\* A path, its parent, and so on down to the empty string.
Ancestors(path) ==
    {Trim(path)} \cup {SubSeq(path, 1, n - 1) : n \in {m \in 1..Len(Trim(path)) : path[m] = Slash}}

\* covers, its two ways of answering.
ByScan(path)   == \E n \in 1..Len(paths) : UnderText(path, paths[n])
ByLookup(path) == Ancestors(path) \cap lookup # {}
Covers(path)   == IF Len(paths) <= ScanLimit THEN ByScan(path) ELSE ByLookup(path)

-----------------------------------------------------------------------------
Init == paths = <<>> /\ lookup = {} /\ pending = {} /\ ever = {}

\* extend, with one more path; `new' is the same from an empty set.
Extend(loc, text) ==
    /\ paths' = Reduced(Range(paths) \cup {text})
    /\ lookup' = Range(paths')
    /\ pending' = IF SomeBeneath(loc, pending) THEN pending
                  ELSE {p \in pending : ~Beneath(p, loc)} \cup {loc}
    /\ ever' = ever \cup {loc}

Forget(loc, text) ==
    LET member == Trim(text) \in lookup
    IN  /\ lookup' = lookup \ {Trim(text)}
        /\ paths' = IF member THEN SelectSeq(paths, LAMBDA p : p # Trim(text)) ELSE paths
        /\ pending' = pending \ {loc}
        /\ ever' = IF member THEN ever \ {loc} ELSE ever

Clear == paths' = <<>> /\ lookup' = {} /\ pending' = {} /\ ever' = {}

Next ==
    \/ \E loc \in Locations : \E text \in Spellings(loc) : Extend(loc, text) \/ Forget(loc, text)
    \/ Clear

Spec == Init /\ [][Next]_vars

-----------------------------------------------------------------------------
\* Whatever was asked for, merged or forgotten, and in whatever order: a path at
\* or below what is pending is covered, and a covered path is at or below
\* something asked for and not forgotten, on either side of the length at which a scan
\* gives way to a lookup.
CoversRight ==
    \A loc \in Locations :
        /\ SomeBeneath(loc, pending) => Covers(Text(loc))
        /\ Covers(Text(loc)) => SomeBeneath(loc, ever)

\* "Paths, reduced so that none is under another."
NoneUnderAnother ==
    \A m, n \in 1..Len(paths) : UnderText(paths[m], paths[n]) => m = n
=============================================================================
