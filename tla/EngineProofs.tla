---------------------------- MODULE EngineProofs ----------------------------
(***************************************************************************)
(* Of the parts of the engine that MCEngine brings together, with their    *)
(* constants left open: merging requests for walks drops none and          *)
(* postpones none (PendingWalks); a client that waits shows all that was   *)
(* announced, and so does a page that was prepared (Revisions, under the   *)
(* prefix R); a change told by a pulse is walked for in time, and a        *)
(* watched source is walked whole in two of its intervals (Pulses, P).     *)
(***************************************************************************)
EXTENDS MCEngine, TLAPS

WalksInv == TypeOK /\ Antichain /\ NothingPostponed

-----------------------------------------------------------------------------
\* `under' is reflexive, transitive and antisymmetric, and everything is under
\* the root.
LEMMA UnderOrder ==
    /\ Root \in Paths
    /\ \A p \in Paths : Under(p, p) /\ Under(p, Root)
    /\ \A p, q \in Paths : Under(p, q) /\ Under(q, p) => p = q
    /\ \A p, q, r \in Paths : Under(p, q) /\ Under(q, r) => Under(p, r)
BY PathTreeAssumption DEF Under

\* Reducing (`coalesce') a set of waiting walks changes nothing: none covers another.
LEMMA ReduceAntichain ==
    ASSUME NEW S, \A p, q \in S : Under(p, q) => p = q
    PROVE  Reduce(S) = S
BY DEF Reduce

\* Growing older up to a common limit keeps the order of two ages.
LEMMA OlderMonotone ==
    ASSUME NEW limit \in Nat, NEW a \in 0..limit, NEW b \in 0..limit, a <= b
    PROVE  /\ Older(a, limit) \in 0..limit
           /\ Older(b, limit) \in 0..limit
           /\ Older(a, limit) <= Older(b, limit)
BY DEF Older

-----------------------------------------------------------------------------
\* Noting a request keeps the table of requests well-formed.
LEMMA NoteType ==
    ASSUME TypeOK, NEW p \in Paths, Note(p)
    PROVE  /\ DOMAIN asked' = DOMAIN asked \cup {p}
           /\ asked' = [q \in DOMAIN asked' |-> asked'[q]]
           /\ \A q \in DOMAIN asked' : asked'[q] \in 0..Cap
           /\ \A q \in DOMAIN asked : asked'[q] = asked[q]
           /\ p \notin DOMAIN asked => asked'[p] = 0
BY PendingWalksAssumption DEF TypeOK, Note

LEMMA AddRootInv == ASSUME WalksInv, AddRoot PROVE WalksInv'
<1>1. TypeOK' /\ DOMAIN at' = {Root}
  <2>1. /\ at' = [q \in {Root} |-> [first |-> 0, last |-> 0]]
        /\ Note(Root) /\ Root \in Paths /\ TypeOK
    BY UnderOrder DEF AddRoot, WalksInv
  <2>2. /\ DOMAIN at' = {Root} /\ at' = [q \in DOMAIN at' |-> at'[q]]
        /\ \A q \in DOMAIN at' : at'[q] \in [first : 0..Cap, last : 0..Debounce]
    BY <2>1, PendingWalksAssumption
  <2>3. /\ DOMAIN asked' \subseteq Paths
        /\ asked' = [q \in DOMAIN asked' |-> asked'[q]]
        /\ \A q \in DOMAIN asked' : asked'[q] \in 0..Cap
    BY <2>1, NoteType DEF TypeOK
  <2> QED BY <2>1, <2>2, <2>3 DEF TypeOK, Waiting
<1>2. Antichain'
  BY <1>1 DEF Antichain, Waiting
<1>3. NothingPostponed'
  BY <1>1, UnderOrder DEF NothingPostponed, TypeOK, Waiting
<1> QED BY <1>1, <1>2, <1>3 DEF WalksInv

LEMMA AddCoveredInv == ASSUME WalksInv, NEW p \in Paths, AddCovered(p) PROVE WalksInv'
<1>1. PICK q \in Waiting : Under(p, q) /\ at' = [at EXCEPT ![q].last = 0]
  BY DEF AddCovered
<1>2. Note(p)
  BY DEF AddCovered
<1>3. /\ DOMAIN at' = DOMAIN at
      /\ \A r \in Waiting : at'[r].first = at[r].first
      /\ \A r \in Waiting : at'[r] \in [first : 0..Cap, last : 0..Debounce]
      /\ at' = [r \in Waiting |-> at'[r]]
  <2>1. at' = [r \in Waiting |-> IF r = q THEN [at[q] EXCEPT !.last = 0] ELSE at[r]]
    BY <1>1 DEF WalksInv, TypeOK, Waiting
  <2>2. \A r \in Waiting : at[r] \in [first : 0..Cap, last : 0..Debounce]
    BY DEF WalksInv, TypeOK
  <2>3. DOMAIN at' = Waiting /\ at' = [r \in Waiting |-> at'[r]]
    BY <2>1
  <2>4. \A r \in Waiting : at'[r] = IF r = q THEN [at[q] EXCEPT !.last = 0] ELSE at[r]
    BY <2>1
  <2>5. /\ [at[q] EXCEPT !.last = 0] \in [first : 0..Cap, last : 0..Debounce]
        /\ [at[q] EXCEPT !.last = 0].first = at[q].first
    <3>1. at[q] \in [first : 0..Cap, last : 0..Debounce]
      BY <2>2
    <3> QED BY <3>1, PendingWalksAssumption
  <2>6. \A r \in Waiting : at'[r].first = at[r].first
    BY <2>4, <2>5
  <2>7. \A r \in Waiting : at'[r] \in [first : 0..Cap, last : 0..Debounce]
    BY <2>2, <2>4, <2>5
  <2> QED BY <2>3, <2>6, <2>7 DEF Waiting
<1>4. TypeOK'
  <2>1. TypeOK
    BY DEF WalksInv
  <2>2. /\ DOMAIN asked' \subseteq Paths
        /\ asked' = [r \in DOMAIN asked' |-> asked'[r]]
        /\ \A r \in DOMAIN asked' : asked'[r] \in 0..Cap
    BY <2>1, <1>2, NoteType DEF TypeOK
  <2> QED BY <2>1, <2>2, <1>3 DEF TypeOK, Waiting
<1>5. Antichain'
  BY <1>3 DEF WalksInv, Antichain, Waiting
<1>6. NothingPostponed'
  <2> SUFFICES ASSUME NEW r \in DOMAIN asked'
               PROVE  \E s \in Waiting' : Under(r, s) /\ (s = Root \/ asked'[r] <= at'[s].first)
    BY DEF NothingPostponed
  <2>1. CASE r \in DOMAIN asked
    BY <2>1, <1>2, <1>3, NoteType DEF WalksInv, NothingPostponed, Waiting
  <2>2. CASE r \notin DOMAIN asked
    <3>1. r = p /\ asked'[r] = 0
      BY <2>2, <1>2, NoteType DEF WalksInv
    <3>2. at'[q].first \in 0..Cap
      BY <1>1, <1>3
    <3> QED BY <3>1, <3>2, <1>1, <1>3, PendingWalksAssumption DEF Waiting
  <2> QED BY <2>1, <2>2
<1> QED BY <1>4, <1>5, <1>6 DEF WalksInv

LEMMA AddNewInv == ASSUME WalksInv, NEW p \in Paths, AddNew(p) PROVE WalksInv'
<1>1. PICK oldest \in Ages(p) :
         /\ \A age \in Ages(p) : age <= oldest
         /\ at' = [q \in (Waiting \ Below(p)) \cup {p} |->
                     IF q = p THEN [first |-> oldest, last |-> 0] ELSE at[q]]
  BY DEF AddNew
<1>2. Note(p) /\ p # Root /\ ~Covers(Waiting, p)
  BY DEF AddNew
<1>3. p \notin Waiting
  BY <1>2, UnderOrder DEF Covers
<1>4. oldest \in 0..Cap
  BY PendingWalksAssumption DEF Ages, Below, WalksInv, TypeOK
<1>5. /\ Waiting' = (Waiting \ Below(p)) \cup {p}
      /\ at'[p] = [first |-> oldest, last |-> 0]
      /\ \A q \in Waiting \ Below(p) : at'[q] = at[q]
  BY <1>1, <1>3 DEF Waiting
<1>6. TypeOK'
  <2>1. TypeOK
    BY DEF WalksInv
  <2>2. /\ DOMAIN asked' \subseteq Paths
        /\ asked' = [r \in DOMAIN asked' |-> asked'[r]]
        /\ \A r \in DOMAIN asked' : asked'[r] \in 0..Cap
    BY <2>1, <1>2, NoteType DEF TypeOK
  <2>3. at' = [r \in Waiting' |-> at'[r]]
    BY <1>1 DEF Waiting
  <2>4. \A r \in Waiting' : at'[r] \in [first : 0..Cap, last : 0..Debounce]
    BY <2>1, <1>4, <1>5, PendingWalksAssumption DEF TypeOK
  <2> QED BY <2>1, <2>2, <2>3, <2>4, <1>5 DEF TypeOK
<1>7. Antichain'
  BY <1>2, <1>5 DEF WalksInv, Antichain, Below, Covers
<1>8. NothingPostponed'
  <2> SUFFICES ASSUME NEW r \in DOMAIN asked'
               PROVE  \E s \in Waiting' : Under(r, s) /\ (s = Root \/ asked'[r] <= at'[s].first)
    BY DEF NothingPostponed
  <2>1. CASE r \notin DOMAIN asked
    <3>1. r = p /\ asked'[r] = 0
      BY <2>1, <1>2, NoteType DEF WalksInv
    <3> QED BY <3>1, <1>4, <1>5, UnderOrder
  <2>2. CASE r \in DOMAIN asked
    <3>1. PICK q \in Waiting : Under(r, q) /\ (q = Root \/ asked[r] <= at[q].first)
      BY <2>2 DEF WalksInv, NothingPostponed
    <3>2. asked'[r] = asked[r] /\ asked[r] \in 0..Cap /\ r \in Paths /\ q \in Paths
      BY <2>2, <1>2, NoteType DEF WalksInv, TypeOK
    <3>3. CASE q \notin Below(p)
      BY <3>1, <3>2, <3>3, <1>5
    <3>4. CASE q \in Below(p)
      <4>1. q # Root
        BY <3>4, <1>2, UnderOrder DEF Below
      <4>2. at[q].first \in Ages(p) /\ at[q].first \in 0..Cap
        BY <3>4 DEF Ages, Below, WalksInv, TypeOK
      <4>3. asked'[r] <= at'[p].first
        BY <1>1, <1>4, <1>5, <3>1, <3>2, <4>1, <4>2, PendingWalksAssumption
      <4>4. Under(r, p)
        BY <3>1, <3>2, <3>4, UnderOrder DEF Below
      <4> QED BY <4>3, <4>4, <1>5
    <3> QED BY <3>3, <3>4
  <2> QED BY <2>1, <2>2
<1> QED BY <1>6, <1>7, <1>8 DEF WalksInv

LEMMA TakeDueInv == ASSUME WalksInv, TakeDue PROVE WalksInv'
<1> DEFINE due == {p \in Waiting : Due(p)}
<1>1. Handed(due) = due
  <2>1. \A p, q \in due : Under(p, q) => p = q
    BY DEF WalksInv, Antichain
  <2> QED BY <2>1, ReduceAntichain DEF Handed
<1>2. /\ at' = [p \in {q \in Waiting \ due : ~Covers(due, q)} |-> at[p]]
      /\ asked' = [p \in {q \in DOMAIN asked : ~Covers(due, q)} |-> asked[p]]
  BY <1>1 DEF TakeDue
<1> HIDE DEF due
<1>3. /\ Waiting' = {q \in Waiting \ due : ~Covers(due, q)}
      /\ \A q \in Waiting' : at'[q] = at[q]
      /\ DOMAIN asked' = {q \in DOMAIN asked : ~Covers(due, q)}
      /\ \A q \in DOMAIN asked' : asked'[q] = asked[q]
  BY <1>2 DEF Waiting
<1>4. TypeOK'
  BY <1>2, <1>3 DEF WalksInv, TypeOK, Waiting
<1>5. Antichain'
  BY <1>3 DEF WalksInv, Antichain
<1>6. NothingPostponed'
  <2> SUFFICES ASSUME NEW r \in DOMAIN asked'
               PROVE  \E s \in Waiting' : Under(r, s) /\ (s = Root \/ asked'[r] <= at'[s].first)
    BY DEF NothingPostponed
  <2>1. PICK q \in Waiting : Under(r, q) /\ (q = Root \/ asked[r] <= at[q].first)
    BY <1>3 DEF WalksInv, NothingPostponed
  <2>2. r \in Paths /\ q \in Paths /\ due \subseteq Paths /\ ~Covers(due, r)
    BY <1>3, <2>1 DEF WalksInv, TypeOK, due
  <2>3. ~Covers(due, q)
    BY <2>1, <2>2, UnderOrder DEF Covers
  <2>4. q \notin due
    BY <2>2, <2>3, UnderOrder DEF Covers
  <2> QED BY <2>1, <2>3, <2>4, <1>3
<1> QED BY <1>4, <1>5, <1>6 DEF WalksInv

LEMMA TickInv == ASSUME WalksInv, Tick PROVE WalksInv'
<1>1. /\ Waiting' = Waiting
      /\ \A p \in Waiting : at'[p] = [first |-> Older(at[p].first, Cap),
                                      last  |-> Older(at[p].last, Debounce)]
      /\ DOMAIN asked' = DOMAIN asked
      /\ \A p \in DOMAIN asked : asked'[p] = Older(asked[p], Cap)
  BY DEF Tick, Waiting
<1>2. /\ \A p \in Waiting : at[p].first \in 0..Cap /\ at[p].last \in 0..Debounce
      /\ \A p \in DOMAIN asked : asked[p] \in 0..Cap
  BY DEF WalksInv, TypeOK
<1>3. /\ \A p \in Waiting : /\ Older(at[p].first, Cap) \in 0..Cap
                            /\ Older(at[p].last, Debounce) \in 0..Debounce
      /\ \A p \in DOMAIN asked : Older(asked[p], Cap) \in 0..Cap
  BY <1>2, PendingWalksAssumption DEF Older
<1>4. TypeOK'
  BY <1>1, <1>3 DEF Tick, WalksInv, TypeOK, Waiting
<1>5. Antichain'
  BY <1>1 DEF WalksInv, Antichain
<1>6. NothingPostponed'
  <2> SUFFICES ASSUME NEW r \in DOMAIN asked'
               PROVE  \E s \in Waiting' : Under(r, s) /\ (s = Root \/ asked'[r] <= at'[s].first)
    BY DEF NothingPostponed
  <2>1. PICK q \in Waiting : Under(r, q) /\ (q = Root \/ asked[r] <= at[q].first)
    BY <1>1 DEF WalksInv, NothingPostponed
  <2>2. CASE q = Root
    BY <2>1, <2>2, <1>1
  <2>3. CASE asked[r] <= at[q].first
    <3>1. Older(asked[r], Cap) <= Older(at[q].first, Cap)
      BY <2>3, <1>1, <1>2, OlderMonotone, PendingWalksAssumption
    <3>2. asked'[r] = Older(asked[r], Cap) /\ at'[q].first = Older(at[q].first, Cap)
      <4>1. r \in DOMAIN asked /\ asked'[r] = Older(asked[r], Cap)
        BY <1>1
      <4>2. at'[q] = [first |-> Older(at[q].first, Cap), last |-> Older(at[q].last, Debounce)]
        BY <1>1
      <4> QED BY <4>1, <4>2
    <3> QED BY <3>1, <3>2, <2>1, <1>1
  <2> QED BY <2>1, <2>2, <2>3
<1> QED BY <1>4, <1>5, <1>6 DEF WalksInv

-----------------------------------------------------------------------------
\* The waiting walks stay well-formed, none under another, each as old as the
\* oldest request it stands for.
THEOREM PendingWalksInvariant == Spec => []WalksInv
<1>1. Init => WalksInv
  BY DEF Init, WalksInv, TypeOK, Antichain, NothingPostponed, Waiting
<1>2. WalksInv /\ [Next]_vars => WalksInv'
  <2> SUFFICES ASSUME WalksInv, [Next]_vars PROVE WalksInv'
    OBVIOUS
  <2>1. CASE TakeDue BY <2>1, TakeDueInv
  <2>2. CASE Tick BY <2>2, TickInv
  <2>3. ASSUME NEW p \in Paths, Add(p) PROVE WalksInv'
    BY <2>3, AddRootInv, AddCoveredInv, AddNewInv DEF Add
  <2>4. CASE UNCHANGED vars
    BY <2>4 DEF vars, WalksInv, TypeOK, Antichain, NothingPostponed, Waiting
  <2> QED BY <2>1, <2>2, <2>3, <2>4 DEF Next
<1> QED BY <1>1, <1>2, PTL DEF Spec

\* No walk that was asked for is dropped: until it is handed to the worker it is
\* covered by one that waits (PendingWalks::add, take_due).
THEOREM WalksNoneDropped == Spec => []NoneDropped
<1>1. WalksInv => NoneDropped
  BY DEF WalksInv, NothingPostponed, NoneDropped, Covers
<1> QED BY <1>1, PendingWalksInvariant, PTL

\* No merge of walks postpones a deadline (PendingWalks::add, due_at).
THEOREM WalksNothingPostponed == Spec => []NothingPostponed
BY PendingWalksInvariant, PTL DEF WalksInv

-----------------------------------------------------------------------------
(***************************************************************************)
(* Revisions.                                                              *)
(***************************************************************************)
Types ==
    /\ version \in Nat /\ revision \in Nat /\ told \in Nat /\ first \in Nat
    /\ made \in [R!Threads -> Nat]
    /\ client \in [Clients -> {"out", "asleep", "back", "stale"}]
    /\ since \in [Clients -> Nat] /\ view \in [Clients -> Nat]
    /\ swap \in {"no", "read", "stopped", "built"}
    /\ raced \in BOOLEAN
    /\ prepared # None => prepared \in [revision : Nat, version : Nat]
    /\ preparing # None => preparing \in [revision : Nat, version : Nat \cup {None}]

\* Nothing is announced before it is there to be found.
ToldIsThere == told <= version /\ \A t \in R!Threads : made[t] <= version

\* An answer prepared, or being prepared, is of no later revision than this one; if of
\* this one, it was found in an index that had all that has been announced.
Fresh(p) == p.revision <= revision /\ (p.revision = revision => p.version >= told)
PreparedInv ==
    /\ prepared # None => Fresh(prepared)
    /\ preparing # None /\ preparing.version # None => Fresh(preparing)
    /\ preparing # None => preparing.revision <= revision
    /\ swap = "built" => preparing = None

\* A client that need not search again shows all that was announced up to the revision
\* it saw; the next engine counts on from the last.
ClientsInv ==
    ~raced =>
        /\ swap # "no" => first = revision + 1
        /\ \A c \in Clients :
              /\ since[c] <= revision
              /\ client[c] # "stale" /\ since[c] = revision => view[c] >= told

RevisionsInv == Types /\ ToldIsThere /\ PreparedInv /\ ClientsInv

-----------------------------------------------------------------------------
LEMMA RevisionsInit == R!Init => RevisionsInv
<1> SUFFICES ASSUME R!Init PROVE RevisionsInv
  OBVIOUS
<1>1. Types /\ ToldIsThere
  <2>1. prepared = None /\ preparing = None /\ raced \in BOOLEAN
    BY DEF R!Init
  <2>2. Types
    BY <2>1 DEF R!Init, Types
  <2>3. ToldIsThere
    BY DEF R!Init, ToldIsThere
  <2> QED BY <2>2, <2>3
<1>2. PreparedInv
  BY DEF R!Init, PreparedInv
<1>3. ClientsInv
  BY DEF R!Init, ClientsInv
<1> QED BY <1>1, <1>2, <1>3 DEF RevisionsInv

\* What a search answers has all that has been announced.
LEMMA PageIsCurrent ==
    ASSUME RevisionsInv, NEW c \in Clients, R!Page(c)
    PROVE  view' \in [Clients -> Nat] /\ view'[c] >= told
                                      /\ \A d \in Clients \ {c} : view'[d] = view[d]
<1>1. CASE R!Sliced
  BY <1>1 DEF RevisionsInv, Types, PreparedInv, Fresh, R!Page, R!Sliced
<1>2. CASE ~R!Sliced
  BY <1>2 DEF RevisionsInv, Types, ToldIsThere, R!Page
<1> QED BY <1>1, <1>2

LEMMA RevisionsStep ==
    ASSUME RevisionsInv, [R!Next]_R!revVars
    PROVE  RevisionsInv'
<1> USE DEF RevisionsInv
<1>1. ASSUME NEW t \in R!Threads, R!Changes(t) PROVE RevisionsInv'
  <2>1. version' = version + 1 /\ made' \in [R!Threads -> Nat] /\ \A u \in R!Threads : made'[u] <= version'
    BY <1>1 DEF R!Changes, Types, ToldIsThere
  <2> QED BY <1>1, <2>1 DEF R!Changes, Types, ToldIsThere, PreparedInv, Fresh, ClientsInv
<1>2. ASSUME NEW t \in R!Threads, R!Bump(t) PROVE RevisionsInv'
  <2>1. /\ revision' = revision + 1 /\ told' \in Nat /\ told' <= version
        /\ made' \in [R!Threads -> Nat] /\ \A u \in R!Threads : made'[u] <= version
        /\ UNCHANGED <<version, client, since, view, prepared, preparing, swap, first>>
        /\ raced' = (raced \/ swap # "no")
    BY <1>2 DEF R!Bump, Types, ToldIsThere
  <2>2. Types' /\ ToldIsThere'
    BY <2>1 DEF Types, ToldIsThere
  <2>3. PreparedInv'
    BY <2>1 DEF Types, PreparedInv, Fresh
  <2>4. ClientsInv'
    <3>1. SUFFICES ASSUME ~raced' PROVE /\ swap = "no"
                                        /\ \A c \in Clients : since[c] < revision + 1
      BY <2>1, <3>1 DEF ClientsInv, Types
    <3>2. ~raced /\ swap = "no"
      BY <2>1, <3>1
    <3> QED BY <3>2 DEF ClientsInv, Types
  <2> QED BY <2>2, <2>3, <2>4
<1>3. CASE \/ R!WorkerAnnounces \/ R!Resets \/ R!Clears \/ R!Pays \/ R!Tick \/ UNCHANGED R!revVars
  <2>1. UNCHANGED <<version, revision, made, told, client, since, view, prepared, preparing,
                    swap, first, raced>>
    BY <1>3 DEF R!WorkerAnnounces, R!Resets, R!Clears, R!Pays, R!Tick, R!revVars
  <2> QED BY <2>1 DEF Types, ToldIsThere, PreparedInv, Fresh, ClientsInv
<1>4. ASSUME \/ \E t \in R!Threads : R!Notifies(t)
             \/ \E c \in Clients : R!Awaits(c) \/ R!TimesOut(c)
             \/ R!SwapStops
      PROVE  RevisionsInv'
  <2>1. /\ UNCHANGED <<version, revision, made, told, since, view, prepared, preparing, first,
                       raced>>
        /\ client' \in [Clients -> {"out", "asleep", "back", "stale"}]
        /\ \A c \in Clients : client'[c] # "stale" => client[c] # "stale"
        /\ swap' \in {"no", "read", "stopped", "built"} /\ (swap' # "no" => swap # "no")
        /\ (swap' = "built" => swap = "built")
    BY <1>4 DEF R!Notifies, R!Awaits, R!TimesOut, R!SwapStops, R!WakeAll, Types
  <2> QED BY <2>1 DEF Types, ToldIsThere, PreparedInv, Fresh, ClientsInv
<1>5. ASSUME NEW c \in Clients, R!Answered(c) PROVE RevisionsInv'
  <2>1. /\ UNCHANGED <<version, revision, made, told, view, prepared, preparing, swap, first,
                       raced>>
        /\ client' \in [Clients -> {"out", "asleep", "back", "stale"}]
        /\ since' \in [Clients -> Nat]
    BY <1>5 DEF R!Answered, Types
  <2>2. ASSUME ~raced, NEW d \in Clients
        PROVE  /\ since'[d] <= revision
               /\ client'[d] # "stale" /\ since'[d] = revision => view[d] >= told
    <3>1. CASE d = c
      BY <1>5, <2>2, <3>1 DEF R!Answered, R!Moved, Types, ClientsInv
    <3>2. CASE d # c
      BY <1>5, <2>2, <3>2 DEF R!Answered, Types, ClientsInv
    <3> QED BY <3>1, <3>2
  <2> QED BY <2>1, <2>2 DEF Types, ToldIsThere, PreparedInv, Fresh, ClientsInv
<1>6. ASSUME NEW c \in Clients, R!Searches(c) PROVE RevisionsInv'
  <2>1. /\ UNCHANGED <<version, revision, made, told, since, prepared, preparing, swap, first,
                       raced>>
        /\ client' \in [Clients -> {"out", "asleep", "back", "stale"}]
        /\ \A d \in Clients \ {c} : client'[d] = client[d]
    BY <1>6 DEF R!Searches, Types
  <2>2. view' \in [Clients -> Nat] /\ view'[c] >= told
                                   /\ \A d \in Clients \ {c} : view'[d] = view[d]
    BY <1>6, PageIsCurrent DEF R!Searches
  <2> QED BY <2>1, <2>2 DEF Types, ToldIsThere, PreparedInv, Fresh, ClientsInv
<1>7. CASE R!Prepares
  BY <1>7 DEF R!Prepares, Types, ToldIsThere, PreparedInv, Fresh, ClientsInv
<1>8. CASE R!PrepareSearches
  <2>1. preparing' = [preparing EXCEPT !.version = version] /\ preparing # None
    BY <1>8 DEF R!PrepareSearches
  <2>2. /\ preparing' \in [revision : Nat, version : Nat \cup {None}]
        /\ preparing'.revision = preparing.revision /\ preparing'.version = version
    BY <2>1 DEF Types
  <2>3. /\ UNCHANGED <<version, revision, made, told, client, since, view, prepared, swap,
                       first, raced>>
    BY <1>8 DEF R!PrepareSearches
  <2> QED BY <2>1, <2>2, <2>3 DEF Types, ToldIsThere, PreparedInv, Fresh, ClientsInv
<1>9. CASE R!PrepareEnds
  <2>1. /\ UNCHANGED <<version, revision, made, told, client, since, view, swap, first, raced>>
        /\ preparing' = None /\ preparing # None /\ preparing.version # None
        /\ prepared' = R!Kept
    BY <1>9 DEF R!PrepareEnds
  <2>2. prepared' = prepared \/ (prepared' = preparing /\ preparing.revision = revision)
    BY <2>1 DEF R!Kept
  <2> QED BY <2>1, <2>2 DEF Types, ToldIsThere, PreparedInv, Fresh, ClientsInv
<1>10. CASE R!SwapReads
  BY <1>10 DEF R!SwapReads, Types, ToldIsThere, PreparedInv, Fresh, ClientsInv
<1>11. CASE R!SwapBuilds
  BY <1>11 DEF R!SwapBuilds, Types, ToldIsThere, PreparedInv, Fresh, ClientsInv
<1>12. CASE R!SwapEnds
  <2>1. /\ revision' = first /\ told' = version /\ version' = version /\ first' = 0
        /\ prepared' = None /\ preparing' = None /\ preparing = None /\ swap' = "no"
        /\ view' = view /\ swap = "built"
    BY <1>12 DEF R!SwapEnds, PreparedInv
  <2>2. made' \in [R!Threads -> Nat] /\ \A t \in R!Threads : made'[t] <= version
    <3>1. made' = [made EXCEPT !["request"] = 0] /\ "request" \in R!Threads
      BY <1>12 DEF R!SwapEnds, R!Threads
    <3> QED BY <3>1 DEF Types, ToldIsThere
  <2>3. /\ client' \in [Clients -> {"out", "asleep", "back", "stale"}]
        /\ since' \in [Clients -> Nat] /\ raced' \in BOOLEAN
    BY <1>12 DEF R!SwapEnds, Types
  <2>4. ClientsInv'
    <3>1. SUFFICES ASSUME ~raced' PROVE \A c \in Clients : since'[c] < first
      BY <2>1, <2>3, <3>1 DEF ClientsInv, Types
    <3>2. ~raced /\ first = revision + 1
      BY <1>12, <2>1, <3>1 DEF R!SwapEnds, ClientsInv
    <3>3. \A c \in Clients : since'[c] \in {since[c], revision}
      BY <1>12 DEF R!SwapEnds
    <3> QED BY <3>2, <3>3 DEF ClientsInv, Types
  <2> QED BY <2>1, <2>2, <2>3, <2>4 DEF Types, ToldIsThere, PreparedInv
<1> QED BY <1>1, <1>2, <1>3, <1>4, <1>5, <1>6, <1>7, <1>8, <1>9, <1>10, <1>11, <1>12
        DEF R!Next, R!ThreadStep, R!ClientStep, R!PrepareStep, R!SwapStep

THEOREM RevisionsAlways == R!Spec => []RevisionsInv
BY RevisionsInit, RevisionsStep, PTL DEF R!Spec

\* A page served from the prepared answer is as new as the last announcement, for any
\* number of threads that ask and of engines one after another.
THEOREM RevisionsPreparedFresh == R!Spec => []PreparedFresh
<1>1. RevisionsInv => PreparedFresh
  BY DEF RevisionsInv, PreparedInv, Fresh, PreparedFresh, R!PreparedFresh, R!Sliced
<1> QED BY <1>1, RevisionsAlways, PTL

\* A client asleep shows everything announced so far, for any number of clients and any
\* hold, unless an engine bumped its revision after its successor had read it.
THEOREM RevisionsCurrent == R!Spec => []CurrentUnlessRaced
<1>1. RevisionsInv => CurrentUnlessRaced
  BY DEF RevisionsInv, ClientsInv, CurrentUnlessRaced, R!CurrentUnlessRaced, R!SleeperIsCurrent
<1> QED BY <1>1, RevisionsAlways, PTL
-----------------------------------------------------------------------------
(***************************************************************************)
(* Pulses.  The bounds of WalkedInTime are not inductive: a change is in   *)
(* one of two places, told by a pulse not read yet or remembered until the *)
(* source has rested, and how old it can be differs between them.          *)
(***************************************************************************)
PulseTypes ==
    /\ {covered, hasPulse, known, moved, pending} \subseteq BOOLEAN
    /\ {sinceWalk, sinceWhole, floor, rest, safety} \subseteq Nat
    /\ sinceCheck \in 0..Every
    /\ cost \in (0..MaxCost) \cup {Never} /\ unseen \in Nat \cup {Never}
    /\ retry \in Nat \cup {Never}
    /\ floor <= P!LongestRest /\ rest <= Factor * MaxCost

\* The walk that runs is the one nobody waits to try again; before the first reading
\* nothing is missed.
OneWalk ==
    /\ cost # Never => retry = Never
    /\ hasPulse /\ ~known => cost = Never /\ retry = Never /\ unseen = Never

\* A change that no walk has begun after is still to be read, and not older than the last
\* reading, or was read while the source rested.
Told ==
    hasPulse /\ known /\ retry = Never /\ unseen # Never =>
        /\ moved \/ pending
        /\ cost # Never => moved /\ unseen <= cost
        /\ cost = Never => unseen <= sinceWalk + MaxCost \/ sinceWalk >= P!LongestRest + Every
        /\ cost = Never /\ ~covered =>
               unseen <= sinceCheck + MaxCost \/ sinceWalk < floor + sinceCheck

\* No decision leaves a whole walk that is due undone; the safety net is set when the
\* clock of the whole walk is.
Whole ==
    /\ cost = Never /\ retry = Never =>
           sinceWhole <= P!Max3(2 * WatchedEvery, Reconcile, Factor * MaxCost) + sinceCheck
    /\ safety > 0 => sinceWhole + safety <= P!Max2(Reconcile, rest)

PulsesInv == PulseTypes /\ OneWalk /\ Told /\ Whole

\* The greater of two or three is one of them, and no less than the others.
LEMMA Maxima ==
    ASSUME NEW a \in Nat, NEW b \in Nat, NEW c \in Nat
    PROVE  /\ P!Max2(a, b) \in {a, b} /\ P!Max2(a, b) >= a /\ P!Max2(a, b) >= b
           /\ P!Max3(a, b, c) \in {a, b, c}
           /\ P!Max3(a, b, c) >= a /\ P!Max3(a, b, c) >= b /\ P!Max3(a, b, c) >= c
  BY DEF P!Max2, P!Max3

\* Resting longer for a longer walk.
LEMMA RestGrows ==
    ASSUME NEW a \in Nat, NEW b \in Nat, NEW k \in Nat, a <= b
    PROVE  k * a \in Nat /\ k * a <= k * b
<1> DEFINE d == b - a
<1>1. d \in Nat /\ b = a + d
  OBVIOUS
<1>2. k * b = k * a + k * d
  BY <1>1
<1>3. k * a \in Nat /\ k * d \in Nat
  BY <1>1
<1> QED BY <1>2, <1>3

\* The bounds the invariant is stated with.
LEMMA Bounds ==
    /\ Factor * MaxCost \in Nat
    /\ P!LongestRest \in Nat /\ P!LongestRest >= Floor
    /\ P!LongestRest >= Factor * MaxCost /\ P!LongestRest >= Least
<1> DEFINE r == Factor * MaxCost
<1>1. r \in Nat /\ Floor \in Nat /\ Least \in Nat
  BY PulsesAssumption
<1> HIDE DEF r
<1>2. /\ P!Max3(Floor, r, Least) \in Nat
      /\ P!Max3(Floor, r, Least) >= Floor /\ P!Max3(Floor, r, Least) >= r
      /\ P!Max3(Floor, r, Least) >= Least
  BY <1>1, Maxima
<1> QED BY <1>1, <1>2 DEF r, P!LongestRest

\* What is put off by a walk that took a rest of r.
LEMMA Deferred ==
    ASSUME NEW r \in Nat, r <= Factor * MaxCost, P!Defer(r)
    PROVE  /\ sinceWalk' = 0 /\ sinceWhole' = 0 /\ pending' = FALSE
           /\ floor' \in Nat /\ floor' <= P!LongestRest
           /\ safety' \in Nat /\ safety' = P!Max2(Reconcile, r)
<1>1. Floor \in Nat /\ Least \in Nat /\ Reconcile \in Nat
  BY PulsesAssumption
<1>2. P!Max3(Floor, r, Least) \in {Floor, r, Least} /\ P!Max2(Reconcile, r) \in {Reconcile, r}
  BY <1>1, Maxima
<1>3. floor' = P!Max3(Floor, r, Least)
  BY DEF P!Defer
<1>4. floor' \in Nat /\ floor' <= P!LongestRest
  BY <1>1, <1>2, <1>3, Bounds
<1> QED BY <1>1, <1>2, <1>4 DEF P!Defer

LEMMA PulsesInit == P!Init => PulsesInv
<1> SUFFICES ASSUME P!Init PROVE PulsesInv
  OBVIOUS
<1>1. /\ Floor \in Nat /\ Least \in Nat /\ Reconcile \in Nat /\ Every \in Nat /\ MaxCost \in Nat
      /\ WatchedEvery \in Nat /\ Never \notin Nat
  BY PulsesAssumption
<1>2. P!Max2(Floor, Least) \in {Floor, Least} /\ P!Max2(Reconcile, 0) >= Reconcile
  BY <1>1, Maxima
<1>3. PulseTypes
  <2>1. {covered, hasPulse, known, moved, pending} \subseteq BOOLEAN
    BY DEF P!Init
  <2>2. floor \in Nat /\ floor <= P!LongestRest
    BY <1>1, <1>2, Bounds DEF P!Init
  <2> QED BY <1>1, <2>1, <2>2, Bounds DEF P!Init, PulseTypes
<1>4. OneWalk
  BY DEF P!Init, OneWalk
<1>5. Told
  BY DEF P!Init, Told
<1>6. Whole
  <2> DEFINE w == 2 * WatchedEvery
             f == Factor * MaxCost
  <2>1. w \in Nat /\ f \in Nat
    BY <1>1, Bounds
  <2> HIDE DEF w, f
  <2>2. P!Max3(w, Reconcile, f) \in Nat
    BY <1>1, <2>1, Maxima
  <2>3. sinceWhole <= P!Max3(w, Reconcile, f) + sinceCheck
    BY <2>2 DEF P!Init
  <2>4. safety > 0 => sinceWhole + safety <= P!Max2(Reconcile, rest)
    BY <1>1, <1>2 DEF P!Init
  <2> QED BY <2>3, <2>4 DEF Whole, w, f
<1> QED BY <1>3, <1>4, <1>5, <1>6 DEF PulsesInv

\* The numbers of an invariant state.
LEMMA PulseNumbers ==
    ASSUME PulseTypes
    PROVE  /\ sinceWalk \in Nat /\ sinceWhole \in Nat /\ floor \in Nat /\ rest \in Nat
           /\ safety \in Nat /\ sinceCheck \in Nat /\ sinceCheck <= Every
           /\ cost # Never => cost \in Nat /\ cost <= MaxCost
           /\ unseen # Never => unseen \in Nat
           /\ retry # Never => retry \in Nat
           /\ Every \in Nat /\ MaxCost \in Nat /\ Reconcile \in Nat /\ WatchedEvery \in Nat
           /\ 0 # Never
<1>1. /\ Every \in Nat /\ MaxCost \in Nat /\ Reconcile \in Nat /\ WatchedEvery \in Nat
      /\ 0 # Never
  BY PulsesAssumption
<1> QED BY <1>1 DEF PulseTypes

\* The two decisions that put off all the clocks of the source, whether or not a walk that
\* waits to be tried again keeps theirs from beginning.
LEMMA PutOff ==
    ASSUME PulsesInv, P!IsDue, P!Defer(rest), P!Walks, known' = hasPulse, moved' = FALSE,
           sinceCheck' = 0, covered' = covered, hasPulse' = hasPulse, rest' = rest,
           retry' = retry
    PROVE  PulsesInv'
<1>1. PulseTypes /\ OneWalk
  BY DEF PulsesInv
<1>2. rest \in Nat /\ rest <= Factor * MaxCost
  BY <1>1 DEF PulseTypes
<1>3. /\ sinceWalk' = 0 /\ sinceWhole' = 0 /\ pending' = FALSE
      /\ floor' \in Nat /\ floor' <= P!LongestRest
      /\ safety' \in Nat /\ safety' = P!Max2(Reconcile, rest)
  BY <1>2, Deferred
<1>4. cost = Never
  BY DEF P!IsDue
<1>5. CASE retry = Never
  <2>1. cost' = 0 /\ unseen' = Never /\ retry' = Never /\ cost' # Never
    BY <1>1, <1>5, PulseNumbers DEF P!Walks
  <2>2. PulseTypes'
    <3>1. {covered', hasPulse', known', moved', pending'} \subseteq BOOLEAN
      BY <1>1, <1>3 DEF PulseTypes
    <3>2. cost' \in 0..MaxCost /\ sinceCheck' \in 0..Every
      BY <2>1, <1>1, PulseNumbers
    <3> QED BY <1>2, <1>3, <2>1, <3>1, <3>2 DEF PulseTypes
  <2>3. OneWalk'
    BY <2>1, Zenon DEF OneWalk
  <2>4. Told'
    BY <2>1 DEF Told
  <2>5. Whole'
    <3>1. sinceWhole' + safety' <= P!Max2(Reconcile, rest)
      BY <1>3
    <3> QED BY <2>1, <3>1 DEF Whole
  <2> QED BY <2>2, <2>3, <2>4, <2>5 DEF PulsesInv
<1>6. CASE retry # Never
  <2>1. cost' = Never /\ unseen' = unseen /\ retry' # Never
    BY <1>4, <1>6 DEF P!Walks
  <2>2. PulseTypes'
    <3>1. {covered', hasPulse', known', moved', pending'} \subseteq BOOLEAN
      BY <1>1, <1>3 DEF PulseTypes
    <3>2. sinceCheck' \in 0..Every
      BY <1>1, PulseNumbers
    <3>3. unseen \in Nat \cup {Never} /\ retry \in Nat \cup {Never}
      BY <1>1 DEF PulseTypes
    <3> QED BY <1>2, <1>3, <2>1, <3>1, <3>2, <3>3 DEF PulseTypes
  <2>3. OneWalk'
    BY <2>1, Zenon DEF OneWalk
  <2>4. Told'
    BY <2>1 DEF Told
  <2>5. Whole'
    <3>1. sinceWhole' + safety' <= P!Max2(Reconcile, rest)
      BY <1>3
    <3> QED BY <2>1, <3>1 DEF Whole
  <2> QED BY <2>2, <2>3, <2>4, <2>5 DEF PulsesInv
<1> QED BY <1>5, <1>6

\* A decision that walks nothing for the clocks' sake: the whole walk is not overdue.
LEMMA NotOverdue ==
    ASSUME PulsesInv, NEW quiet \in BOOLEAN, P!Passed(quiet), ~P!SafetyDue
    PROVE  sinceWhole <= P!Max3(2 * WatchedEvery, Reconcile, Factor * MaxCost) + 0
<1> DEFINE w == 2 * WatchedEvery
           f == Factor * MaxCost
<1>1. PulseTypes /\ Whole
  BY DEF PulsesInv
<1>2. w \in Nat /\ f \in Nat /\ Reconcile \in Nat /\ WatchedEvery \in Nat /\ w >= WatchedEvery
  BY <1>1, Bounds, PulseNumbers
<1>3. rest \in Nat /\ rest <= f /\ sinceWhole \in Nat /\ safety \in Nat
  BY <1>1 DEF PulseTypes
<1>4. covered => ~(sinceWhole >= w)
  BY <1>2, <1>3 DEF P!Passed, P!CheckDue, P!Late
<1>5. ~covered => sinceWhole + safety <= P!Max2(Reconcile, rest)
  BY <1>1, <1>3 DEF P!SafetyDue, Whole
<1> HIDE DEF w, f
<1>6. /\ P!Max3(w, Reconcile, f) \in {w, Reconcile, f} /\ P!Max3(w, Reconcile, f) >= w
      /\ P!Max3(w, Reconcile, f) >= Reconcile /\ P!Max3(w, Reconcile, f) >= f
  BY <1>2, Maxima
<1>7. P!Max2(Reconcile, rest) \in {Reconcile, rest}
  BY <1>2, <1>3, Maxima
<1>8. sinceWhole <= P!Max3(w, Reconcile, f) + 0
  <2>1. CASE covered
    BY <2>1, <1>2, <1>3, <1>4, <1>6
  <2>2. CASE ~covered
    BY <2>2, <1>2, <1>3, <1>5, <1>6, <1>7
  <2> QED BY <2>1, <2>2
<1> QED BY <1>8 DEF w, f

LEMMA NothingStep ==
    ASSUME PulsesInv, NEW quiet \in BOOLEAN, P!DecideNothing(quiet)
    PROVE  PulsesInv'
<1>1. PulseTypes /\ OneWalk /\ Whole
  BY DEF PulsesInv
<1>2. sinceWhole <= P!Max3(2 * WatchedEvery, Reconcile, Factor * MaxCost) + 0
  BY NotOverdue DEF P!DecideNothing
<1>3. PulseTypes'
  BY <1>1, PulseNumbers DEF PulseTypes, P!DecideNothing
<1>4. OneWalk'
  BY <1>1 DEF OneWalk, P!DecideNothing
<1>5. Told'
  BY DEF Told, P!DecideNothing
<1>6. Whole'
  BY <1>1, <1>2 DEF Whole, P!DecideNothing
<1> QED BY <1>3, <1>4, <1>5, <1>6 DEF PulsesInv

\* A reading: what was to be read is remembered, unless it is walked for.
LEMMA ByPulseStep ==
    ASSUME PulsesInv, NEW quiet \in BOOLEAN, P!DecideByPulse(quiet)
    PROVE  PulsesInv'
<1> DEFINE stirs == known /\ moved
           waits == P!Pending(stirs)
           count == IF covered /\ stirs THEN P!Age(silent, Patience) ELSE silent
           walks == /\ sinceWalk >= floor
                    /\ IF covered THEN count >= Patience ELSE waits
<1>1. PulseTypes /\ OneWalk /\ Told /\ Whole
  BY DEF PulsesInv
<1>2. sinceWhole <= P!Max3(2 * WatchedEvery, Reconcile, Factor * MaxCost) + 0
  BY NotOverdue DEF P!DecideByPulse
<1>3. /\ cost = Never /\ hasPulse
      /\ covered' = covered /\ hasPulse' = hasPulse /\ known' = TRUE /\ moved' = FALSE
      /\ sinceCheck' = 0 /\ sinceWhole' = sinceWhole /\ floor' = floor /\ rest' = rest
      /\ safety' = safety /\ retry' = retry
  BY DEF P!DecideByPulse, P!IsDue
<1>4. /\ pending' = IF walks THEN FALSE ELSE waits
      /\ sinceWalk' = IF walks THEN 0 ELSE sinceWalk
      /\ IF walks THEN P!Walks ELSE UNCHANGED <<cost, unseen>>
  BY Zenon DEF P!DecideByPulse
<1>5. waits = (pending \/ (known /\ moved))
  BY DEF P!Pending
<1>6. walks \in BOOLEAN /\ (~covered /\ waits /\ sinceWalk >= floor => walks)
  OBVIOUS
<1> HIDE DEF walks, waits
<1>7. /\ cost' = Never \/ (cost' = 0 /\ retry = Never)
      /\ unseen' = unseen \/ unseen' = Never
      /\ unseen' = unseen /\ unseen # Never /\ retry = Never => ~walks
      /\ pending' \in BOOLEAN /\ (~walks => pending' = waits)
      /\ sinceWalk' \in {0, sinceWalk} /\ (~walks => sinceWalk' = sinceWalk)
  BY <1>3, <1>4, <1>5, <1>6 DEF P!Walks
<1>8. PulseTypes'
  <2>1. {covered', hasPulse', known', moved', pending'} \subseteq BOOLEAN
    BY <1>1, <1>3, <1>7 DEF PulseTypes
  <2>2. cost' \in (0..MaxCost) \cup {Never} /\ unseen' \in Nat \cup {Never} /\ sinceWalk' \in Nat
    BY <1>1, <1>7, PulseNumbers
  <2>3. sinceCheck' \in 0..Every
    BY <1>1, <1>3, PulseNumbers
  <2> QED BY <1>1, <1>3, <2>1, <2>2, <2>3 DEF PulseTypes
<1>9. OneWalk'
  BY <1>3, <1>7, Zenon DEF OneWalk
<1>10. Told'
  <2> SUFFICES ASSUME retry = Never, unseen' # Never
               PROVE  /\ pending'
                      /\ cost' = Never
                      /\ unseen' <= sinceWalk' + MaxCost \/ sinceWalk' >= P!LongestRest + Every
                      /\ ~covered => sinceWalk' < floor + 0
    BY <1>3 DEF Told
  <2>1. unseen' = unseen /\ unseen # Never /\ ~walks /\ pending' = waits /\ sinceWalk' = sinceWalk
    BY <1>7
  <2>2. cost' = Never
    BY <2>1, <1>3, <1>4
  <2>3. known
    BY <1>1, <1>3, <2>1 DEF OneWalk
  <2>4. pending'
    BY <1>1, <1>3, <1>5, <2>1, <2>3 DEF Told
  <2>5. unseen <= sinceWalk + MaxCost \/ sinceWalk >= P!LongestRest + Every
    BY <1>1, <1>3, <2>1, <2>3 DEF Told
  <2>6. ~covered => ~(sinceWalk >= floor)
    BY <1>6, <2>1, <2>4
  <2> QED BY <1>1, <2>1, <2>2, <2>4, <2>5, <2>6, PulseNumbers
<1>11. Whole'
  BY <1>1, <1>2, <1>3 DEF Whole
<1> QED BY <1>8, <1>9, <1>10, <1>11 DEF PulsesInv

LEMMA WalkEndsStep ==
    ASSUME PulsesInv, NEW ok \in BOOLEAN, P!WalkEnds(ok)
    PROVE  PulsesInv'
<1> DEFINE r == Factor * cost
<1>1. PulseTypes /\ OneWalk /\ Told /\ Whole
  BY DEF PulsesInv
<1>2. cost \in Nat /\ cost <= MaxCost /\ MaxCost \in Nat /\ retry = Never
  BY <1>1, PulseNumbers DEF P!WalkEnds, OneWalk
<1>3. r \in Nat /\ r <= Factor * MaxCost
  BY <1>2, PulsesAssumption, RestGrows
<1>4. rest' = r /\ P!Defer(r) /\ cost' = Never
  BY DEF P!WalkEnds, P!Scanned
<1> HIDE DEF r
<1>5. /\ sinceWalk' = 0 /\ sinceWhole' = 0 /\ pending' = FALSE
      /\ floor' \in Nat /\ floor' <= P!LongestRest
      /\ safety' \in Nat /\ safety' = P!Max2(Reconcile, r)
  BY <1>3, <1>4, Deferred
<1>6. /\ covered' = covered /\ hasPulse' = hasPulse /\ known' = known /\ moved' = moved
      /\ sinceCheck' = sinceCheck
      /\ retry' \in Nat \cup {Never}
      /\ unseen' \in Nat \cup {Never}
      /\ retry' = Never => unseen' = unseen
  <2>1. P!Max2(FirstRetry, r) \in {FirstRetry, r} /\ FirstRetry \in Nat /\ Never \notin Nat
    BY <1>3, PulsesAssumption, Maxima
  <2>2. unseen \in Nat \cup {Never}
    BY <1>1 DEF PulseTypes
  <2>3. /\ retry' = IF ok \/ retry # Never THEN retry ELSE P!Max2(FirstRetry, r)
        /\ unseen' = IF ok \/ unseen # Never THEN unseen ELSE 0
    BY <1>4 DEF P!WalkEnds
  <2>4. CASE ok
    BY <2>2, <2>3, <2>4, <1>2 DEF P!WalkEnds
  <2>5. CASE ~ok
    <3>1. retry' \in Nat /\ retry' # Never
      BY <2>1, <2>3, <2>5, <1>2, <1>3
    <3> QED BY <3>1, <2>2, <2>3, <2>5 DEF P!WalkEnds
  <2> QED BY <2>4, <2>5
<1>7. PulseTypes'
  <2>1. {covered', hasPulse', known', moved', pending'} \subseteq BOOLEAN
    BY <1>1, <1>5, <1>6 DEF PulseTypes
  <2> QED BY <1>1, <1>3, <1>4, <1>5, <1>6, <2>1 DEF PulseTypes
<1>8. OneWalk'
  <2>1. cost # Never
    BY DEF P!WalkEnds
  <2> QED BY <1>1, <1>4, <1>6, <2>1 DEF OneWalk
<1>9. Told'
  <2> SUFFICES ASSUME hasPulse, known, retry' = Never, unseen # Never
               PROVE  /\ moved
                      /\ unseen <= 0 + MaxCost
                      /\ unseen <= sinceCheck + MaxCost
    BY <1>4, <1>5, <1>6 DEF Told
  <2>1. moved /\ unseen <= cost /\ unseen \in Nat
    BY <1>1, <1>2, PulseNumbers DEF Told, P!WalkEnds
  <2> QED BY <2>1, <1>1, <1>2, PulseNumbers
<1>10. Whole'
  <2> DEFINE w == 2 * WatchedEvery
             f == Factor * MaxCost
  <2>1. w \in Nat /\ f \in Nat /\ Reconcile \in Nat /\ sinceCheck \in Nat
    BY <1>1, Bounds, PulseNumbers
  <2> HIDE DEF w, f
  <2>2. P!Max3(w, Reconcile, f) \in Nat
    BY <2>1, Maxima
  <2>3. sinceWhole' <= P!Max3(w, Reconcile, f) + sinceCheck'
    BY <2>1, <2>2, <1>5, <1>6
  <2>4. sinceWhole' + safety' <= P!Max2(Reconcile, rest')
    BY <1>4, <1>5
  <2> QED BY <2>3, <2>4 DEF Whole, w, f
<1> QED BY <1>7, <1>8, <1>9, <1>10 DEF PulsesInv

LEMMA RefusedStep ==
    ASSUME PulsesInv, P!WalkRefused
    PROVE  PulsesInv'
<1>1. PulseTypes /\ OneWalk /\ Told /\ Whole
  BY DEF PulsesInv
<1>2. retry' \in Nat /\ retry' # Never
  <2>1. /\ FirstRetry \in Nat /\ Never \notin Nat /\ rest \in Nat /\ retry \in Nat \cup {Never}
    BY <1>1, PulsesAssumption DEF PulseTypes
  <2>2. P!Max2(FirstRetry, rest) \in {FirstRetry, rest}
    BY <2>1, Maxima
  <2> QED BY <2>1, <2>2 DEF P!WalkRefused
<1>3. PulseTypes'
  BY <1>1, <1>2 DEF PulseTypes, P!WalkRefused
<1>4. OneWalk'
  <2>1. cost # Never
    BY <1>1, PulseNumbers DEF P!WalkRefused
  <2> QED BY <1>1, <2>1 DEF OneWalk, P!WalkRefused
<1>5. Told'
  BY <1>2 DEF Told
<1>6. Whole'
  BY <1>1, <1>2 DEF Whole, P!WalkRefused
<1> QED BY <1>3, <1>4, <1>5, <1>6 DEF PulsesInv

LEMMA RetryStep ==
    ASSUME PulsesInv, P!RetryRuns
    PROVE  PulsesInv'
<1>1. PulseTypes /\ OneWalk /\ Told /\ Whole
  BY DEF PulsesInv
<1>2. cost' = 0 /\ 0 # Never /\ retry' = Never /\ unseen' = Never /\ retry # Never
  BY <1>1, PulseNumbers DEF P!RetryRuns
<1>3. PulseTypes'
  BY <1>1, <1>2, PulseNumbers DEF PulseTypes, P!RetryRuns
<1>4. OneWalk'
  BY <1>1, <1>2 DEF OneWalk, P!RetryRuns
<1>5. Told'
  BY <1>2 DEF Told
<1>6. Whole'
  BY <1>1, <1>2 DEF Whole, P!RetryRuns
<1> QED BY <1>3, <1>4, <1>5, <1>6 DEF PulsesInv

\* A change is told by the next reading, if there was one before it.
LEMMA MovesStep ==
    ASSUME PulsesInv, P!Moves
    PROVE  PulsesInv'
<1>1. PulseTypes /\ OneWalk /\ Told /\ Whole
  BY DEF PulsesInv
<1>2. unseen' = IF known /\ unseen = Never THEN 0 ELSE unseen
  BY DEF P!Moves
<1>3. PulseTypes'
  <2>1. {covered', hasPulse', known', moved', pending'} \subseteq BOOLEAN
    BY <1>1 DEF PulseTypes, P!Moves
  <2>2. unseen' \in Nat \cup {Never}
    BY <1>1, <1>2 DEF PulseTypes
  <2> QED BY <1>1, <2>1, <2>2 DEF PulseTypes, P!Moves
<1>4. OneWalk'
  BY <1>1, <1>2 DEF OneWalk, P!Moves
<1>5. Told'
  <2>1. unseen' = 0 \/ unseen' = unseen
    BY <1>2
  <2>2. CASE unseen' = 0
    BY <1>1, <2>2, PulseNumbers DEF Told, P!Moves
  <2>3. CASE unseen' = unseen
    BY <1>1, <2>3 DEF Told, P!Moves
  <2> QED BY <2>1, <2>2, <2>3
<1>6. Whole'
  BY <1>1 DEF Whole, P!Moves
<1> QED BY <1>3, <1>4, <1>5, <1>6 DEF PulsesInv

LEMMA EventStep ==
    ASSUME PulsesInv, P!SawEvent
    PROVE  PulsesInv'
<1>1. PulseTypes /\ OneWalk /\ Told /\ Whole
  BY DEF PulsesInv
<1>2. PulseTypes'
  BY <1>1 DEF PulseTypes, P!SawEvent
<1>3. OneWalk'
  BY <1>1 DEF OneWalk, P!SawEvent
<1>4. Told'
  BY <1>1 DEF Told, P!SawEvent
<1>5. Whole'
  BY <1>1 DEF Whole, P!SawEvent
<1> QED BY <1>2, <1>3, <1>4, <1>5 DEF PulsesInv

\* What a watcher did not tell counts from when it was lost.
LEMMA CoverStep ==
    ASSUME PulsesInv, P!CoverChanges
    PROVE  PulsesInv'
<1>1. PulseTypes /\ OneWalk /\ Told /\ Whole
  BY DEF PulsesInv
<1>2. unseen' = IF unseen = Never THEN Never ELSE 0
  BY DEF P!CoverChanges
<1>3. PulseTypes'
  <2>1. {covered', hasPulse', known', moved', pending'} \subseteq BOOLEAN
    BY <1>1 DEF PulseTypes, P!CoverChanges
  <2> QED BY <1>1, <1>2, <2>1 DEF PulseTypes, P!CoverChanges
<1>4. OneWalk'
  BY <1>1, <1>2 DEF OneWalk, P!CoverChanges
<1>5. Told'
  BY <1>1, <1>2, PulseNumbers DEF Told, P!CoverChanges
<1>6. Whole'
  BY <1>1 DEF Whole, P!CoverChanges
<1> QED BY <1>3, <1>4, <1>5, <1>6 DEF PulsesInv

\* An age counts one more, or as much as it is ever compared with.
LEMMA AgeCounts ==
    ASSUME NEW a \in Nat, NEW cap \in Nat, a # Never
    PROVE  /\ P!Age(a, cap) \in Nat /\ P!Age(a, cap) \in {a, a + 1}
           /\ a < cap => P!Age(a, cap) = a + 1
           /\ a >= cap => P!Age(a, cap) = a
  BY DEF P!Age

LEMMA PulsesTick ==
    ASSUME PulsesInv, P!Tick
    PROVE  PulsesInv'
<1> DEFINE w == 2 * WatchedEvery
           f == Factor * MaxCost
           whole == P!LongestWhole + 1
           walk == P!LongestRest + Every
           wait == P!LongestWait + 1
<1>1. PulseTypes /\ OneWalk /\ Told /\ Whole
  BY DEF PulsesInv
<1>2. /\ Every \in Nat /\ MaxCost \in Nat /\ Reconcile \in Nat /\ WatchedEvery \in Nat
      /\ Never \notin Nat
  BY PulsesAssumption
<1>3. w \in Nat /\ f \in Nat /\ P!LongestRest \in Nat
  BY <1>2, Bounds
<1> HIDE DEF w, f
<1>4. P!Max3(w, Reconcile, f) \in Nat
  BY <1>2, <1>3, Maxima
<1>5. whole \in Nat /\ walk \in Nat /\ wait \in Nat
  BY <1>2, <1>3, <1>4 DEF P!LongestWhole, P!LongestWait, w, f
<1>6. /\ covered' = covered /\ hasPulse' = hasPulse /\ known' = known /\ moved' = moved
      /\ pending' = pending /\ floor' = floor /\ rest' = rest
      /\ sinceCheck' = P!Age(sinceCheck, Every) /\ sinceWalk' = P!Age(sinceWalk, walk)
      /\ sinceWhole' = P!Age(sinceWhole, whole) /\ safety' = P!Left(safety)
      /\ retry' = P!Left(retry) /\ cost' = P!Age(cost, MaxCost)
      /\ unseen' = P!Age(unseen, wait)
      /\ (cost # Never => cost < MaxCost) /\ (cost = Never => sinceCheck < Every)
  <2>1. ~P!IsDue /\ sinceCheck \in Nat
    BY <1>1, PulseNumbers DEF P!Tick
  <2> QED BY <1>2, <2>1 DEF P!Tick, P!IsDue
<1> HIDE DEF whole, walk, wait
<1>7. /\ sinceCheck' \in Nat /\ sinceCheck' <= Every
      /\ sinceCheck' >= sinceCheck /\ (cost = Never => sinceCheck' = sinceCheck + 1)
  <2>1. sinceCheck \in Nat /\ sinceCheck <= Every /\ sinceCheck # Never
    BY <1>1, <1>2, PulseNumbers
  <2>2. /\ P!Age(sinceCheck, Every) \in {sinceCheck, sinceCheck + 1}
        /\ sinceCheck < Every => P!Age(sinceCheck, Every) = sinceCheck + 1
        /\ sinceCheck >= Every => P!Age(sinceCheck, Every) = sinceCheck
    BY <1>2, <2>1, AgeCounts
  <2> QED BY <1>2, <1>6, <2>1, <2>2
<1>8. /\ sinceWalk' \in {sinceWalk, sinceWalk + 1} /\ (sinceWalk < walk => sinceWalk' = sinceWalk + 1)
      /\ sinceWhole' \in {sinceWhole, sinceWhole + 1}
  BY <1>1, <1>2, <1>5, <1>6, PulseNumbers, AgeCounts
<1>9. /\ cost = Never => cost' = Never
      /\ cost # Never => cost' = cost + 1
      /\ unseen = Never => unseen' = Never
      /\ unseen # Never => unseen' \in {unseen, unseen + 1}
  <2>1. cost = Never => cost' = Never
    BY <1>6 DEF P!Age
  <2>2. cost # Never => cost' = cost + 1
    <3> SUFFICES ASSUME cost # Never PROVE cost' = cost + 1
      OBVIOUS
    <3>1. cost \in Nat /\ cost < MaxCost
      BY <1>1, <1>6, PulseNumbers
    <3>2. P!Age(cost, MaxCost) = cost + 1
      BY <3>1, <1>2, AgeCounts
    <3> QED BY <3>2, <1>6
  <2>3. (unseen = Never => unseen' = Never) /\ (unseen # Never => unseen' \in {unseen, unseen + 1})
    <3>1. CASE unseen = Never
      BY <3>1, <1>6 DEF P!Age
    <3>2. CASE unseen # Never
      BY <3>2, <1>1, <1>5, <1>6, PulseNumbers, AgeCounts
    <3> QED BY <3>1, <3>2
  <2> QED BY <2>1, <2>2, <2>3
<1>10. /\ safety' \in Nat /\ (safety' > 0 => safety = safety' + 1)
       /\ retry' \in Nat \cup {Never} /\ (retry' = Never <=> retry = Never)
  <2>1. safety \in Nat /\ retry \in Nat \cup {Never}
    BY <1>1 DEF PulseTypes
  <2>2. safety' \in Nat /\ (safety' > 0 => safety = safety' + 1)
    BY <2>1, <1>2, <1>6 DEF P!Left
  <2>3. retry' \in Nat \cup {Never} /\ (retry' = Never <=> retry = Never)
    BY <2>1, <1>2, <1>6 DEF P!Left
  <2> QED BY <2>2, <2>3
<1>11. PulseTypes'
  <2>1. {covered', hasPulse', known', moved', pending'} \subseteq BOOLEAN
    BY <1>1, <1>6 DEF PulseTypes
  <2>2. {sinceWalk', sinceWhole', floor', rest', safety'} \subseteq Nat
    BY <1>1, <1>6, <1>8, <1>10, PulseNumbers
  <2>3. cost' \in (0..MaxCost) \cup {Never} /\ unseen' \in Nat \cup {Never}
    BY <1>1, <1>2, <1>6, <1>9, PulseNumbers
  <2>4. floor' <= P!LongestRest /\ rest' <= Factor * MaxCost
    BY <1>1, <1>6 DEF PulseTypes
  <2>5. sinceCheck' \in 0..Every /\ retry' \in Nat \cup {Never}
    BY <1>2, <1>7, <1>10
  <2> QED BY <2>1, <2>2, <2>3, <2>4, <2>5 DEF PulseTypes
<1>12. OneWalk'
  <2>1. cost' # Never => cost # Never
    BY <1>9
  <2>2. hasPulse /\ ~known => cost' = Never /\ retry' = Never /\ unseen' = Never
    BY <1>1, <1>9, <1>10 DEF OneWalk
  <2>3. cost' # Never => retry' = Never
    BY <1>1, <1>10, <2>1 DEF OneWalk
  <2> QED BY <1>6, <2>2, <2>3 DEF OneWalk
<1>13. Told'
  <2> SUFFICES ASSUME hasPulse, known, retry = Never, unseen # Never
               PROVE  /\ moved \/ pending
                      /\ cost' # Never => moved /\ unseen' <= cost'
                      /\ cost' = Never => unseen' <= sinceWalk' + MaxCost \/ sinceWalk' >= walk
                      /\ cost' = Never /\ ~covered =>
                             unseen' <= sinceCheck' + MaxCost \/ sinceWalk' < floor + sinceCheck'
    BY <1>6, <1>9, <1>10, Zenon DEF Told, walk
  <2>1. /\ moved \/ pending
        /\ cost # Never => moved /\ unseen <= cost
        /\ cost = Never => unseen <= sinceWalk + MaxCost \/ sinceWalk >= walk
        /\ cost = Never /\ ~covered =>
               unseen <= sinceCheck + MaxCost \/ sinceWalk < floor + sinceCheck
    BY <1>1 DEF Told, walk
  <2>2. unseen \in Nat /\ unseen' \in {unseen, unseen + 1}
    BY <1>1, <1>9, PulseNumbers
  <2>3. CASE cost = Never
    <3>1. cost' = Never
      BY <2>3, <1>9
    <3>2. unseen' <= sinceWalk' + MaxCost \/ sinceWalk' >= walk
      BY <2>1, <2>2, <2>3, <1>1, <1>2, <1>5, <1>8, PulseNumbers
    <3>3. ~covered => unseen' <= sinceCheck' + MaxCost \/ sinceWalk' < floor + sinceCheck'
      BY <2>1, <2>2, <2>3, <1>1, <1>2, <1>7, <1>8, PulseNumbers
    <3> QED BY <2>1, <3>1, <3>2, <3>3
  <2>4. CASE cost # Never
    <3>1. cost \in Nat /\ cost' = cost + 1 /\ cost' # Never
      BY <2>4, <1>1, <1>2, <1>9, PulseNumbers
    <3>2. unseen' <= cost'
      BY <2>1, <2>2, <2>4, <3>1
    <3> QED BY <2>1, <2>4, <3>1, <3>2
  <2> QED BY <2>3, <2>4
<1>14. Whole'
  <2>1. ASSUME cost' = Never, retry' = Never
        PROVE  sinceWhole' <= P!Max3(w, Reconcile, f) + sinceCheck'
    <3>1. cost = Never /\ retry = Never
      BY <2>1, <1>1, <1>2, <1>9, <1>10, PulseNumbers
    <3>2. sinceWhole <= P!Max3(w, Reconcile, f) + sinceCheck
      BY <3>1, <1>1 DEF Whole, w, f
    <3> QED BY <3>1, <3>2, <1>1, <1>4, <1>7, <1>8, PulseNumbers
  <2>2. safety' > 0 => sinceWhole' + safety' <= P!Max2(Reconcile, rest)
    <3> SUFFICES ASSUME safety' > 0
                 PROVE  sinceWhole' + safety' <= P!Max2(Reconcile, rest)
      OBVIOUS
    <3>1. safety = safety' + 1 /\ safety \in Nat /\ safety' \in Nat
      BY <1>1, <1>10, PulseNumbers
    <3>2. P!Max2(Reconcile, rest) \in Nat
      BY <1>1, <1>2, PulseNumbers, Maxima
    <3>3. sinceWhole + safety <= P!Max2(Reconcile, rest)
      <4> DEFINE next == safety'
      <4>1. next \in Nat /\ safety = next + 1
        BY <3>1
      <4> HIDE DEF next
      <4>2. safety > 0
        BY <4>1
      <4> QED BY <4>2, <1>1 DEF Whole
    <3> QED BY <3>1, <3>2, <3>3, <1>1, <1>8, PulseNumbers
  <2> QED BY <1>6, <2>1, <2>2 DEF Whole, w, f
<1> QED BY <1>11, <1>12, <1>13, <1>14 DEF PulsesInv

LEMMA PulsesStays == PulsesInv /\ UNCHANGED pulseOf => PulsesInv'
<1> SUFFICES ASSUME PulsesInv, UNCHANGED pulseOf PROVE PulsesInv'
  OBVIOUS
<1>1. PulseTypes /\ OneWalk /\ Told /\ Whole
  BY DEF PulsesInv
<1>2. PulseTypes'
  BY <1>1 DEF PulseTypes, pulseOf
<1>3. OneWalk'
  BY <1>1 DEF OneWalk, pulseOf
<1>4. Told'
  BY <1>1 DEF Told, pulseOf
<1>5. Whole'
  BY <1>1 DEF Whole, pulseOf
<1> QED BY <1>2, <1>3, <1>4, <1>5 DEF PulsesInv

LEMMA PulsesNext == PulsesInv /\ [MCNext]_mcVars => PulsesInv'
<1> SUFFICES ASSUME PulsesInv, [MCNext]_mcVars PROVE PulsesInv'
  OBVIOUS
<1>1. CASE UNCHANGED pulseOf
  BY <1>1, PulsesStays
<1>2. CASE P!Next
  <2>1. ASSUME NEW quiet \in BOOLEAN, P!DecideCheck(quiet)
        PROVE  PulsesInv'
    BY <2>1, PutOff DEF P!DecideCheck
  <2>2. ASSUME NEW quiet \in BOOLEAN, P!DecideNothing(quiet)
        PROVE  PulsesInv'
    BY <2>2, NothingStep
  <2>3. ASSUME NEW quiet \in BOOLEAN, P!DecideByPulse(quiet)
        PROVE  PulsesInv'
    BY <2>3, ByPulseStep
  <2>4. CASE P!DecideReconcile
    BY <2>4, PutOff DEF P!DecideReconcile
  <2>5. ASSUME NEW ok \in BOOLEAN, P!WalkEnds(ok)
        PROVE  PulsesInv'
    BY <2>5, WalkEndsStep
  <2>6. CASE P!WalkRefused
    BY <2>6, RefusedStep
  <2>7. CASE P!RetryRuns
    BY <2>7, RetryStep
  <2>8. CASE P!Moves
    BY <2>8, MovesStep
  <2>9. CASE P!SawEvent
    BY <2>9, EventStep
  <2>10. CASE P!CoverChanges
    BY <2>10, CoverStep
  <2>11. CASE P!Tick
    BY <2>11, PulsesTick
  <2> QED BY <1>2, <2>1, <2>2, <2>3, <2>4, <2>5, <2>6, <2>7, <2>8, <2>9, <2>10, <2>11
          DEF P!Next, P!Decide
<1>3. UNCHANGED pulseOf \/ P!Next
  BY DEF MCNext, WalksStep, PulsesStep, RevsStep, mcVars
<1> QED BY <1>1, <1>2, <1>3

\* WalkedInTime: however the clocks, the pulse, the watcher and the walks fall.
LEMMA PulsesBounds == PulsesInv => WalkedInTime
<1> SUFFICES ASSUME PulsesInv PROVE P!ChangeWalked /\ P!WatchedChecked
  BY DEF WalkedInTime
<1> DEFINE w == 2 * WatchedEvery
           f == Factor * MaxCost
<1>1. PulseTypes /\ Told /\ Whole
  BY DEF PulsesInv
<1>2. Every \in Nat /\ MaxCost \in Nat /\ Reconcile \in Nat /\ w \in Nat /\ f \in Nat
  BY PulsesAssumption, Bounds
<1>3. P!ChangeWalked
  <2> SUFFICES ASSUME ~covered, hasPulse, known, retry = Never, unseen # Never
               PROVE  unseen <= P!LongestRest + Every + MaxCost
    BY DEF P!ChangeWalked, P!LongestWait
  <2>1. /\ unseen \in Nat /\ sinceWalk \in Nat /\ sinceCheck \in Nat /\ floor \in Nat
        /\ sinceCheck <= Every /\ floor <= P!LongestRest /\ P!LongestRest \in Nat
    BY <1>1, PulseNumbers, Bounds DEF PulseTypes
  <2>2. CASE cost = Never
    <3>1. /\ unseen <= sinceWalk + MaxCost \/ sinceWalk >= P!LongestRest + Every
          /\ unseen <= sinceCheck + MaxCost \/ sinceWalk < floor + sinceCheck
      BY <2>2, <1>1 DEF Told
    <3> QED BY <3>1, <2>1, <1>2
  <2>3. CASE cost # Never
    <3>1. unseen <= cost /\ cost \in Nat /\ cost <= MaxCost
      BY <2>3, <1>1, PulseNumbers DEF Told
    <3> QED BY <3>1, <2>1, <1>2
  <2> QED BY <2>2, <2>3
<1>4. P!WatchedChecked
  <2> SUFFICES ASSUME retry = Never, cost = Never
               PROVE  sinceWhole <= P!Max3(w, Reconcile, f) + Every
    BY DEF P!WatchedChecked, P!LongestWhole
  <2>1. sinceWhole <= P!Max3(w, Reconcile, f) + sinceCheck
    BY <1>1 DEF Whole
  <2>2. sinceWhole \in Nat /\ sinceCheck \in Nat /\ sinceCheck <= Every
    BY <1>1, PulseNumbers
  <2> HIDE DEF w, f
  <2>3. P!Max3(w, Reconcile, f) \in Nat
    BY <1>2, Maxima
  <2> QED BY <2>1, <2>2, <2>3, <1>2
<1> QED BY <1>3, <1>4

\* A change a pulse tells of is walked for within a floor, a reading and a walk, and a
\* watched source is walked whole in two of its intervals, for every clock of the program.
THEOREM PulsesWalkedInTime == MCSpec => []WalkedInTime
<1>1. MCInit => PulsesInv
  BY PulsesInit DEF MCInit
<1>2. PulsesInv /\ [MCNext]_mcVars => PulsesInv'
  BY PulsesNext
<1>3. PulsesInv => WalkedInTime
  BY PulsesBounds
<1> QED BY <1>1, <1>2, <1>3, PTL DEF MCSpec
=============================================================================
