---------------------------- MODULE PendingWalks ----------------------------
(***************************************************************************)
(* The subtree walks the engine's worker has been asked for and has not    *)
(* run yet (crates/scour-engine/src/engine.rs, struct PendingWalks).  Each *)
(* waits for its neighbours: until nothing under it was asked for during   *)
(* `walk_debounce', and never longer than `walk_debounce_cap'.             *)
(*                                                                         *)
(* Only differences of instants matter to the code, so the state keeps     *)
(* ages: how long ago a walk was first and last asked for, each counted no *)
(* further than the limit it is compared with.                             *)
(***************************************************************************)
EXTENDS PathTree, Naturals

CONSTANTS
    Debounce,   \* EngineOptions::walk_debounce
    Cap         \* EngineOptions::walk_debounce_cap

ASSUME PendingWalksAssumption == Debounce \in Nat /\ Cap \in Nat

VARIABLES
    at,         \* waiting path -> [first, last], the ages of its two instants
    asked       \* what the walks are for: requested path -> age of the request

vars == <<at, asked>>

Waiting == DOMAIN at
Older(age, limit) == IF age < limit THEN age + 1 ELSE age

Init == at = <<>> /\ asked = <<>>

-----------------------------------------------------------------------------
\* A request is noted the first time; asking again while it waits changes nothing.
Note(p) == asked' = [q \in DOMAIN asked \cup {p} |->
                       IF q \in DOMAIN asked THEN asked[q] ELSE 0]

\* A watcher that lost track and cannot say where: one walk of everything.
AddRoot ==
    /\ at' = [q \in {Root} |-> [first |-> 0, last |-> 0]]
    /\ Note(Root)

\* Covered by a waiting walk, whose clock is refreshed.
AddCovered(p) ==
    /\ p # Root
    /\ \E q \in Waiting : Under(p, q) /\ at' = [at EXCEPT ![q].last = 0]
    /\ Note(p)

\* A new walk, which takes the place of those it covers and the age of the oldest.
Below(p) == {q \in Waiting : Under(q, p)}
AgesNew(p) == {0}
Ages(p) == {0} \cup {at[q].first : q \in Below(p)}
AddNew(p) ==
    /\ p # Root
    /\ ~Covers(Waiting, p)
    /\ \E first \in Ages(p) :
          /\ \A age \in Ages(p) : age <= first
          /\ at' = [q \in (Waiting \ Below(p)) \cup {p} |->
                      IF q = p THEN [first |-> first, last |-> 0] ELSE at[q]]
    /\ Note(p)

Add(p) == (p = Root /\ AddRoot) \/ AddCovered(p) \/ AddNew(p)

\* due_at, as a test: quiet for the debounce, or waiting since the cap.
DueQuiet(p) == p = Root \/ at[p].last >= Debounce
Due(p) == p = Root \/ at[p].last >= Debounce \/ at[p].first >= Cap

\* take_due: the walks that are due go, and with them whatever they cover; what
\* the worker is handed to walk is reduced.
HandedNone(due) == {p \in due : \A q \in due : ~Under(p, q)}
Handed(due) == Reduce(due)
TakeDue ==
    LET due == {p \in Waiting : Due(p)}
    IN  /\ due # {}
        /\ at' = [p \in {q \in Waiting \ due : ~Covers(due, q)} |-> at[p]]
        /\ asked' = [p \in {q \in DOMAIN asked : ~Covers(Handed(due), q)} |-> asked[p]]

\* Time passes.
Tick ==
    /\ at' = [p \in Waiting |-> [first |-> Older(at[p].first, Cap),
                                 last  |-> Older(at[p].last, Debounce)]]
    /\ asked' = [p \in DOMAIN asked |-> Older(asked[p], Cap)]

Next == (\E p \in Paths : Add(p)) \/ TakeDue \/ Tick

Spec == Init /\ [][Next]_vars

\* The worker wakes at next_due, and time goes on.
FairSpec == Spec /\ WF_vars(TakeDue) /\ WF_vars(Tick)

-----------------------------------------------------------------------------
\* The shapes of the two tables.
TypeOK ==
    /\ Waiting \subseteq Paths
    /\ at = [p \in Waiting |-> at[p]]
    /\ \A p \in Waiting : at[p] \in [first : 0..Cap, last : 0..Debounce]
    /\ DOMAIN asked \subseteq Paths
    /\ asked = [p \in DOMAIN asked |-> asked[p]]
    /\ \A p \in DOMAIN asked : asked[p] \in 0..Cap

\* No waiting walk lies under another: the same ground is never walked twice over.
Antichain == \A p, q \in Waiting : Under(p, q) => p = q

\* None is dropped: every request not yet served is covered by a waiting walk.
NoneDropped == \A p \in DOMAIN asked : Covers(Waiting, p)

\* No merge postpones a deadline: the walk that covers a request is the whole
\* disk's, which does not wait, or has waited at least as long as the request has.
NothingPostponed ==
    \A p \in DOMAIN asked : \E q \in Waiting :
        Under(p, q) /\ (q = Root \/ asked[p] <= at[q].first)

\* Every request is served, however many more keep arriving around it.
Served == \A p \in Paths : []<>(p \notin DOMAIN asked)
=============================================================================
