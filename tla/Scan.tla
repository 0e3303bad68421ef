-------------------------------- MODULE Scan --------------------------------
(***************************************************************************)
(* One walk of a filesystem source (crates/scour-source-fs/src/scan.rs,    *)
(* and what crates/scour-engine/src/engine.rs does with its report):       *)
(* walker threads share the places to visit and hand entries over in       *)
(* batches, through a bounded channel, to the thread that fills the index; *)
(* what an index row is and the walk did not see is then swept, where the  *)
(* walk can vouch for what it saw.                                         *)
(*                                                                         *)
(* A path is a sequence of names, its first the root it is under.  A root  *)
(* is a mount point: with its disk away it is an empty directory of        *)
(* another device.                                                         *)
(***************************************************************************)
EXTENDS Naturals, Sequences, FiniteSets

CONSTANTS
    Roots,      \* names of roots
    Folders,    \* paths of directories, the roots' own included
    Leaves,     \* paths of files
    Excluded,   \* paths the rules leave out
    Threads,
    Batch,      \* BATCH
    InFlight,   \* IN_FLIGHT
    MaxBlind,   \* MAX_BLIND
    MaxFaults,  \* bound: mounts, removals and failed reads
    NoPath

Paths == Folders \cup Leaves

\* Every path is below a root, with a directory at each step; somebody walks.
Names == UNION {{p[n] : n \in DOMAIN p} : p \in Paths}
WellFormed ==
    /\ Threads # {} /\ NoPath \notin Paths
    /\ \A r \in Roots : <<r>> \in Folders
    /\ \A p \in Paths : /\ p \in Seq(Names) /\ p # <<>> /\ p[1] \in Roots
                        /\ \A n \in 1..(Len(p) - 1) : SubSeq(p, 1, n) \in Folders

VARIABLES
    disk,       \* the paths the disks hold
    away,       \* roots whose disk is not mounted
    rows,       \* the index
    phase,      \* idle, walking, done
    before,     \* roots that could be read before the walk, with their device
    todo,       \* paths the threads have still to visit
    thread,     \* thread -> its buffer, what it has still to send, and whether it is done
    chan,       \* messages
    blind, tooBlind,
    got,        \* entries the sink was given
    stop,       \* the service is going down
    cancelled,  \* the sink said so
    first,      \* the paths the disks held when the walk began
    cycled,     \* a disk left and came back within the walk
    nameless,   \* a listing broke off, and the error had no path
    faults

scanVars == <<disk, away, rows, phase, before, todo, thread, chan, blind, tooBlind, got, stop,
              cancelled, first, cycled, nameless, faults>>

Under(p, q) == Len(q) <= Len(p) /\ SubSeq(p, 1, Len(q)) = q
Child(p, q) == Under(p, q) /\ Len(p) = Len(q) + 1
RootOf(p) == <<p[1]>>

\* What is there to be read, now.
Present(p) == p \in disk /\ (RootOf(p) = p \/ p[1] \notin away)
Listing(p) == {q \in Paths : Child(q, p) /\ Present(q)}
Device(r) == IF r \in away THEN "beneath" ELSE "disk"

Prunes(p) == p \in Excluded /\ ~\E q \in Paths \ Excluded : Under(q, p)

Idle == [buf |-> {}, send |-> <<>>, ended |-> FALSE]

Init ==
    /\ disk \in {d \in SUBSET Paths : \A p \in Paths :
                    /\ p \in d => \A q \in Folders : Under(p, q) => q \in d
                    /\ Len(p) = 1 => p \in d}
    /\ away \in SUBSET Roots
    /\ rows = Paths \ Excluded
    /\ phase = "idle" /\ before = <<>> /\ todo = {}
    /\ thread = [t \in Threads |-> Idle]
    /\ chan = <<>> /\ blind = {} /\ tooBlind = FALSE /\ got = {}
    /\ stop = FALSE /\ cancelled = FALSE
    /\ first = {} /\ cycled = FALSE /\ nameless = FALSE /\ faults = 0

-----------------------------------------------------------------------------
\* A whole source: a root that cannot be read, or is empty, is not vouched for.
Readable == {r \in Roots : Listing(<<r>>) # {}}
Begin ==
    /\ phase = "idle" /\ phase' = "walking"
    /\ before' = [r \in Readable |-> Device(r)]
    /\ todo' = {<<r>> : r \in Roots}
    /\ first' = disk
    /\ UNCHANGED <<disk, away, rows, thread, chan, blind, tooBlind, got, stop, cancelled, cycled,
                   nameless, faults>>

-----------------------------------------------------------------------------
Faulty ==
    /\ faults < MaxFaults /\ faults' = faults + 1
    /\ phase = "walking"
    /\ UNCHANGED <<rows, phase, before, todo, thread, chan, blind, tooBlind, got, stop, cancelled,
                   first, nameless>>
Unmounts(r) == Faulty /\ r \notin away /\ away' = away \cup {r} /\ UNCHANGED <<disk, cycled>>
Mounts(r) ==
    /\ Faulty /\ r \in away
    /\ away' = away \ {r}
    /\ cycled' = (cycled \/ r \in DOMAIN before)
    /\ UNCHANGED disk
Removes(p) ==
    /\ Faulty /\ p \in disk /\ Len(p) > 1 /\ p[1] \notin away
    /\ disk' = {q \in disk : ~Under(q, p)}
    /\ UNCHANGED <<away, cycled>>
Stops ==
    /\ phase = "walking" /\ ~stop /\ stop' = TRUE
    /\ UNCHANGED <<disk, away, rows, phase, before, todo, thread, chan, blind, tooBlind, got,
                   cancelled, first, cycled, nameless, faults>>

-----------------------------------------------------------------------------
\* A thread's turn: told to quit, it quits; what the rules leave out is not handed over,
\* and not gone into unless something below is allowed; a full buffer is sent.
Pushed(buf, p) == IF p \in Excluded THEN buf ELSE buf \cup {p}
Handed(buf) == IF Cardinality(buf) < Batch THEN [buf |-> buf, send |-> <<>>]
               ELSE [buf |-> {}, send |-> <<[kind |-> "entries", what |-> buf]>>]
Unreadable(p) == <<[kind |-> "unreadable", what |-> {p}]>>

\* What reading a directory comes to: its entries, an error at it, or, where reading
\* breaks off, some of its entries and an error nowhere.
Reads(p) ==
    IF p \notin Folders \/ Prunes(p) THEN {[found |-> {}, send |-> <<>>, fault |-> 0]}
    ELSE IF ~Present(p) THEN {[found |-> {}, send |-> Unreadable(p), fault |-> 0]}
    ELSE {[found |-> Listing(p), send |-> <<>>, fault |-> 0]}
         \cup (IF faults < MaxFaults
                 THEN {[found |-> {}, send |-> Unreadable(p), fault |-> 1]}
                      \cup {[found |-> some, send |-> Unreadable(NoPath), fault |-> 1] :
                              some \in SUBSET Listing(p) \ {Listing(p)}}
                 ELSE {})
Visits(t, p) ==
    /\ phase = "walking" /\ p \in todo /\ ~cancelled
    /\ ~thread[t].ended /\ thread[t].send = <<>>
    /\ LET handed == Handed(Pushed(thread[t].buf, p))
       IN  \E r \in Reads(p) :
             /\ todo' = (todo \ {p}) \cup r.found
             /\ thread' = [thread EXCEPT ![t].buf = handed.buf, ![t].send = handed.send \o r.send]
             /\ faults' = faults + r.fault
             /\ nameless' = (nameless \/ (r.send = Unreadable(NoPath)))
    /\ UNCHANGED <<disk, away, rows, phase, before, chan, blind, tooBlind, got, stop, cancelled,
                   first, cycled>>

\* Drop: the tail of the last batch.
TailNone(t) == <<>>
Tail1(t) == IF thread[t].buf = {} THEN <<>> ELSE <<[kind |-> "entries", what |-> thread[t].buf]>>
Ends(t) ==
    /\ phase = "walking" /\ ~thread[t].ended /\ thread[t].send = <<>>
    /\ todo = {} \/ cancelled
    /\ thread' = [thread EXCEPT ![t] = [buf |-> {}, send |-> Tail1(t), ended |-> TRUE]]
    /\ UNCHANGED <<disk, away, rows, phase, before, todo, chan, blind, tooBlind, got, stop,
                   cancelled, first, cycled, nameless, faults>>
Sends(t) ==
    /\ thread[t].send # <<>> /\ Len(chan) < InFlight
    /\ chan' = Append(chan, Head(thread[t].send))
    /\ thread' = [thread EXCEPT ![t].send = Tail(@)]
    /\ UNCHANGED <<disk, away, rows, phase, before, todo, blind, tooBlind, got, stop, cancelled,
                   first, cycled, nameless, faults>>

-----------------------------------------------------------------------------
\* The sink's thread: once it has been told to stop it only drains.
Room == Cardinality(blind) < MaxBlind
DrainsNot == ~cancelled
DrainsOn == TRUE
Receives ==
    /\ phase = "walking" /\ chan # <<>> /\ DrainsOn
    /\ chan' = Tail(chan)
    /\ LET m == Head(chan)
       IN  IF cancelled THEN UNCHANGED <<blind, tooBlind, got, cancelled>>
           ELSE IF m.kind = "entries"
             THEN /\ cancelled' = stop
                  /\ got' = IF stop THEN got ELSE got \cup m.what
                  /\ UNCHANGED <<blind, tooBlind>>
           ELSE /\ blind' = IF Room THEN blind \cup (m.what \ {NoPath}) ELSE blind
                /\ tooBlind' = (tooBlind \/ (m.what # {NoPath} /\ ~Room))
                /\ UNCHANGED <<got, cancelled>>
    /\ UNCHANGED <<disk, away, rows, phase, before, todo, thread, stop, first, cycled, nameless,
                   faults>>

\* Asked again: a root is vouched for if it is the device it was.  What is under one and
\* was not seen is swept, unless the walk was blind there.
VouchedOnce == IF tooBlind THEN {} ELSE DOMAIN before
Vouched == IF tooBlind THEN {} ELSE {r \in DOMAIN before : before[r] = Device(r)}
Spared(p) == \E b \in blind : Under(p, b)
SweptIfSeen == IF cancelled \/ blind # {} THEN {} ELSE {p \in rows \ got : p[1] \in Vouched}
Swept == IF cancelled THEN {}
         ELSE {p \in rows \ got : p[1] \in Vouched /\ ~Spared(p)}
Finish ==
    /\ phase = "walking" /\ chan = <<>>
    /\ \A t \in Threads : thread[t].ended /\ thread[t].send = <<>>
    /\ phase' = "done"
    /\ rows' = (rows \cup got) \ Swept
    /\ UNCHANGED <<disk, away, before, todo, thread, chan, blind, tooBlind, got, stop, cancelled,
                   first, cycled, nameless, faults>>

-----------------------------------------------------------------------------
ThreadStep == \E t \in Threads : Ends(t) \/ Sends(t) \/ \E p \in todo : Visits(t, p)

Next ==
    \/ Begin \/ Stops
    \/ \E r \in Roots : Unmounts(r) \/ Mounts(r)
    \/ \E p \in Paths : Removes(p)
    \/ ThreadStep \/ Receives \/ Finish

Spec == Init /\ [][Next]_scanVars

-----------------------------------------------------------------------------
\* A file that was on its disk from the walk's beginning to its end keeps its row,
\* whatever was mounted, refused or stopped meanwhile: "an unreadable directory still
\* holds its files and the sweep must spare it".
SteadyKept == phase = "done" => (first \cap disk) \ Excluded \subseteq rows
KeptUnlessCycled == cycled \/ nameless \/ SteadyKept

\* A walk that could see a root from beginning to end leaves no row of what was gone
\* from it before, except where it was refused.
GoneSwept ==
    phase = "done" /\ ~cancelled /\ ~tooBlind =>
        \A p \in rows : p \in first \/ p[1] \in away \/ p[1] \notin DOMAIN before \/ Spared(p)

SweptRight == KeptUnlessCycled /\ GoneSwept

\* A walk ends, also one that is told to stop while its channel is full.
Finishes == []<>(phase # "walking")
=============================================================================
