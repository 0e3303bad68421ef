------------------------------ MODULE PathTree ------------------------------
(***************************************************************************)
(* Paths and sets of paths, as crates/scour-core/src/types/prefix.rs keeps *)
(* them.  A path is an opaque value; all the program ever asks of two of   *)
(* them is whether one is at or below the other, with a separator boundary *)
(* and not a string prefix (`under`).  Root is the path that normalises to *)
(* the empty string, which `under` reads as "everything".                  *)
(***************************************************************************)
CONSTANTS
    Paths,      \* every path of the instance
    Root,       \* "/" once its separators are trimmed
    UnderRel    \* the pairs <<p, q>> with p at or below q

ASSUME PathTreeAssumption ==
    /\ Root \in Paths
    /\ UnderRel \subseteq Paths \X Paths
    /\ \A p \in Paths : <<p, p>> \in UnderRel /\ <<p, Root>> \in UnderRel
    /\ \A p, q \in Paths :
          <<p, q>> \in UnderRel /\ <<q, p>> \in UnderRel => p = q
    /\ \A p, q, r \in Paths :
          <<p, q>> \in UnderRel /\ <<q, r>> \in UnderRel => <<p, r>> \in UnderRel
    /\ \A p, q, r \in Paths :      \* the ancestors of a path form a chain
          <<p, q>> \in UnderRel /\ <<p, r>> \in UnderRel =>
             <<q, r>> \in UnderRel \/ <<r, q>> \in UnderRel

\* Is p at or below q?
Under(p, q) == <<p, q>> \in UnderRel

\* Is p at or below a member of S?
Covers(S, p) == \E q \in S : Under(p, q)

\* Drop the members that lie below another one.
Reduce(S) == {p \in S : \A q \in S : Under(p, q) => q = p}

\* More paths, and the set reduced again.
Extend(S, T) == Reduce(S \cup T)

\* One path dropped if it is a member in its own right; a path merely under a
\* member stays covered.
Forget(S, p) == S \ {p}
=============================================================================
