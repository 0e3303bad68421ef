------------------------------ MODULE Fanotify ------------------------------
(***************************************************************************)
(* Live updates of one filesystem source                                   *)
(* (crates/scour-source-fs/src/fanotify.rs, watch.rs): the kernel queues   *)
(* events naming a parent directory by its inode and an entry by its name, *)
(* the reader thread turns them into paths through a map of directories,   *)
(* looks at those paths, and sends what it finds to the engine's worker    *)
(* over a bounded channel; the worker teaches the map a subtree before it  *)
(* walks it.  The reader and the worker share the map under one lock.      *)
(*                                                                         *)
(* A path is a sequence of names; a row of the index is a path.  An inode  *)
(* number that is free again may be used again.                            *)
(***************************************************************************)
EXTENDS Naturals, Sequences, FiniteSets, FiniteSetsExt

CONSTANTS
    Root, Dirs, Files,  \* inodes: the source's root, directories, files
    DirNames, FileNames,    \* the names directories and files take
    Excluded,           \* names the rules skip, with everything below
    Trees,              \* what the disk may hold at first
    Capacity,           \* bound of the channel of changes
    Deep,               \* MAX_DEPTH
    MaxOps,             \* bound: changes of the disk
    MaxFaults,          \* bound: overflows of the kernel's queue
    MaxTunes,           \* bound: rules edited
    Absent

Inodes == Dirs \cup Files
Names == DirNames \cup FileNames
NoPath == <<"?">>

VARIABLES
    disk,       \* inode -> its parent and name, or Absent
    queue,      \* the kernel's queue
    lost,       \* the queue has overflowed
    map,        \* DirMap: known inode -> its parent, if any, and its name or whole path
    outside,    \* inodes in the map only as somebody's parent
    sub,        \* where the source's subscription is: no, built or on
    running,    \* the reader runs, for some source
    looks,      \* what the window has still to look at
    out,        \* what the reader has still to send
    chan,       \* the channel of changes
    rows,       \* the index
    walks,      \* subtrees the worker has been asked to walk
    job,        \* what the worker is doing
    tune,       \* the map an edit of the rules has built and not put in place
    slipped,    \* a directory was made or moved, or a window read, while a list of
                \* directories was on its way to the map
    ops, faults, tunes

fanVars == <<disk, queue, lost, map, outside, sub, running, looks, out, chan, rows, walks, job,
             tune, slipped, ops, faults, tunes>>

-----------------------------------------------------------------------------
\* components: from a node up to one that is nobody's child, names put together; no
\* path if the chain does not end.
Climb(m, i, depth) ==
    LET path[j \in Inodes \cup {Root}, d \in 0..depth] ==
            IF j \notin DOMAIN m \/ d = 0 THEN NoPath
            ELSE IF m[j].parent = Absent THEN m[j].name
            ELSE LET up == path[m[j].parent, d - 1]
                 IN  IF up = NoPath THEN NoPath ELSE up \o m[j].name
    IN  path[i, depth]

\* The disk, as such a map.
OnDisk == [i \in {Root} \cup {j \in Inodes : disk[j] # Absent} |->
             IF i = Root THEN [parent |-> Absent, name |-> <<>>] ELSE disk[i]]
PathTo(i) == Climb(OnDisk, i, Deep)
Exists(p) == \E i \in DOMAIN OnDisk : PathTo(i) = p
InodeAt(p) == CHOOSE i \in DOMAIN OnDisk : PathTo(i) = p
IsDir(p) == Exists(p) /\ InodeAt(p) \in Dirs \cup {Root}
UnderPath(p, q) == Len(q) <= Len(p) /\ SubSeq(p, 1, Len(q)) = q
Front(p) == SubSeq(p, 1, Len(p) - 1)
Skipped(p) == \E n \in DOMAIN p : p[n] \in Excluded
Holds(i) == \E j \in Inodes : disk[j] # Absent /\ disk[j].parent = i

\* What a walk from a path finds.
Walked(p) == {q \in {PathTo(i) : i \in DOMAIN OnDisk \ {Root}} : UnderPath(q, p) /\ ~Skipped(q)}

\* directories_under, and what build records: every directory with its parent.
DirectoriesUnder(p) == {i \in Dirs \cup {Root} :
                          i \in DOMAIN OnDisk /\ UnderPath(PathTo(i), p) /\ ~Skipped(PathTo(i))}
Node(i) == IF i = Root THEN [parent |-> Absent, name |-> <<>>] ELSE disk[i]

-----------------------------------------------------------------------------
\* insert_key and place_under, for a directory met under its parent: a directory the
\* map has only as a parent takes its own place, and a parent the map has never met
\* comes in with its whole path.
Insert(m, o, i, node, at) ==
    LET known == node.parent = Absent \/ node.parent \in DOMAIN m
    IN  [map |-> [j \in (DOMAIN m \cup {i, node.parent}) \ {Absent} |->
                    IF j = i THEN node
                    ELSE IF j \in DOMAIN m THEN m[j]
                    ELSE [parent |-> Absent, name |-> at]],
         outside |-> (o \ {i}) \cup (IF known THEN {} ELSE {node.parent})]
InsertAll(found, nodes) ==
    [map |-> [j \in DOMAIN map \cup found |-> IF j \in found THEN nodes[j] ELSE map[j]],
     outside |-> outside \ found]

\* learn: whatever is at the path now, if it is a directory.
LearnAll(m, o, paths) ==
    FoldSet(LAMBDA p, known :
                IF IsDir(p) /\ p # <<>>
                  THEN Insert(known.map, known.outside, InodeAt(p), disk[InodeAt(p)], Front(p))
                  ELSE known,
            [map |-> m, outside |-> o], paths)

\* path_of: no answer for a directory that is only somebody's parent.
PathOf(i) == IF i \in outside THEN NoPath ELSE Climb(map, i, Deep)

\* A walk of a subtree whose directories the map has been taught.
Walk(p) == [step |-> "covered", path |-> p, found |-> {}, nodes |-> <<>>, read |-> {}]

Init ==
    /\ disk \in Trees
    /\ queue = <<>> /\ lost = FALSE
    /\ map = <<>> /\ outside = {} /\ sub = "no"
    /\ running \in BOOLEAN
    /\ looks = {} /\ out = <<>> /\ chan = <<>>
    /\ rows = {} /\ walks = {} /\ job = Absent /\ tune = Absent
    /\ slipped = FALSE /\ ops = 0 /\ faults = 0 /\ tunes = 0

-----------------------------------------------------------------------------
\* The disk changes, and the kernel queues what it says about it.
Event(parent, name, fresh, dir) == [parent |-> parent, name |-> name, fresh |-> fresh, dir |-> dir]

\* A list of directories is on its way to the map.
Covering == job # Absent /\ job.step = "listed"
Listing == (sub = "built" /\ running) \/ tune # Absent \/ Covering
Slips(dir) == slipped' = (slipped \/ (dir /\ Listing))

Happens(events, dir) ==
    /\ ops < MaxOps /\ ops' = ops + 1
    /\ queue' = IF lost THEN queue ELSE queue \o events
    /\ Slips(dir)
    /\ UNCHANGED <<lost, map, outside, sub, running, looks, out, chan, rows, walks, job, tune,
                   faults, tunes>>
Free(i, parent, name) ==
    /\ name \in IF i \in Dirs THEN DirNames ELSE FileNames
    /\ parent \in {Root} \cup {d \in Dirs : disk[d] # Absent}
    /\ \A j \in Inodes : disk[j] # [parent |-> parent, name |-> <<name>>]
Create(i, parent, name) ==
    /\ disk[i] = Absent /\ Free(i, parent, name)
    /\ disk' = [disk EXCEPT ![i] = [parent |-> parent, name |-> <<name>>]]
    /\ Happens(<<Event(parent, name, TRUE, i \in Dirs)>>, i \in Dirs)
Delete(i) ==
    /\ disk[i] # Absent /\ ~Holds(i)
    /\ disk' = [disk EXCEPT ![i] = Absent]
    /\ Happens(<<Event(disk[i].parent, disk[i].name[1], FALSE, i \in Dirs)>>, FALSE)
Rename(i, parent, name) ==
    /\ disk[i] # Absent /\ Free(i, parent, name)
    /\ i \in Dirs => parent # i /\ ~UnderPath(PathTo(parent), PathTo(i))
    /\ disk' = [disk EXCEPT ![i] = [parent |-> parent, name |-> <<name>>]]
    /\ Happens(<<Event(disk[i].parent, disk[i].name[1], FALSE, i \in Dirs),
                 Event(parent, name, TRUE, i \in Dirs)>>, i \in Dirs)

Overflow ==
    /\ faults < MaxFaults /\ queue # <<>>
    /\ faults' = faults + 1
    /\ queue' = <<>> /\ lost' = TRUE
    /\ UNCHANGED <<disk, map, outside, sub, running, looks, out, chan, rows, walks, job, tune,
                   slipped, ops, tunes>>

-----------------------------------------------------------------------------
\* try_start: the map is built, then the source subscribes; the first source to do so
\* starts the reader.  The engine walks the whole source after that.
Build ==
    /\ sub = "no" /\ sub' = "built"
    /\ LET found == DirectoriesUnder(<<>>)
       IN  map' = [i \in found |-> Node(i)]
    /\ UNCHANGED <<disk, queue, lost, outside, running, looks, out, chan, rows, walks, job, tune,
                   slipped, ops, faults, tunes>>
Subscribe ==
    /\ sub = "built" /\ sub' = "on"
    /\ running' = TRUE
    /\ job = Absent /\ job' = Walk(<<>>)
    /\ UNCHANGED <<disk, queue, lost, map, outside, looks, out, chan, rows, walks, tune, slipped,
                   ops, faults, tunes>>

\* window, under the lock: each event is offered to the map, and what it resolves to is
\* judged by the rules; an event nobody recognises is dropped.  What might be a new
\* directory is learned once all of them have their paths.  A directory that gained
\* or lost a name is looked at for its times, unless it is the root.
Resolved(ev) == PathOf(ev.parent)
Seen(ev) == Resolved(ev) # NoPath /\ ~Skipped(Resolved(ev) \o <<ev.name>>)
Spoken(window) == {Resolved(window[n]) \o <<window[n].name>> : n \in {m \in DOMAIN window : Seen(window[m])}}
Fresh(window, p) ==
    \E n \in DOMAIN window : Seen(window[n]) /\ window[n].fresh /\ p = Resolved(window[n]) \o <<window[n].name>>
FreshDir(window, p) ==
    /\ Fresh(window, p)
    /\ \E n \in DOMAIN window :
          Seen(window[n]) /\ window[n].dir /\ p = Resolved(window[n]) \o <<window[n].name>>
Parents(window) ==
    {Resolved(window[n]) : n \in {m \in DOMAIN window : Seen(window[m])}} \ ({<<>>} \cup Spoken(window))
Learns(window) == {p \in Spoken(window) : FreshDir(window, p)}
Window(n) ==
    LET window == SubSeq(queue, 1, n)
        learned == LearnAll(map, outside, Learns(window))
    IN  /\ running /\ looks = {} /\ out = <<>> /\ ~lost
        /\ queue' = SubSeq(queue, n + 1, Len(queue))
        /\ slipped' = (slipped \/ (Listing /\ \E m \in 1..n : window[m].dir))
        /\ IF sub = "on"
             THEN /\ looks' = {[path |-> p, fresh |-> Fresh(window, p)] : p \in Spoken(window)}
                                \cup {[path |-> p, fresh |-> FALSE] : p \in Parents(window)}
                  /\ map' = learned.map /\ outside' = learned.outside
             ELSE UNCHANGED <<looks, map, outside>>
        /\ UNCHANGED <<disk, lost, sub, running, out, chan, rows, walks, job, tune, ops, faults,
                       tunes>>

\* The same after an overflow: nothing says what was missed.
WindowLost ==
    /\ running /\ looks = {} /\ out = <<>> /\ lost
    /\ lost' = FALSE
    /\ out' = IF sub = "on" THEN <<[kind |-> "rescan", path |-> <<>>]>> ELSE <<>>
    /\ slipped' = (slipped \/ Listing)
    /\ UNCHANGED <<disk, queue, map, outside, sub, running, looks, chan, rows, walks, job, tune,
                   ops, faults, tunes>>

\* look, once the lock is gone: what is there now is what is said, and a directory that
\* might be new is a subtree to walk.
Found(l) ==
    IF ~Exists(l.path) THEN <<[kind |-> "remove", path |-> l.path]>>
    ELSE <<[kind |-> "upsert", path |-> l.path]>> \o
         (IF l.fresh /\ IsDir(l.path) THEN <<[kind |-> "rescan", path |-> l.path]>> ELSE <<>>)
Look(l) ==
    /\ out = <<>> /\ l \in looks
    /\ looks' = looks \ {l}
    /\ out' = Found(l)
    /\ UNCHANGED <<disk, queue, lost, map, outside, sub, running, chan, rows, walks, job, tune,
                   slipped, ops, faults, tunes>>
Send ==
    /\ out # <<>> /\ Len(chan) < Capacity
    /\ chan' = Append(chan, Head(out)) /\ out' = Tail(out)
    /\ UNCHANGED <<disk, queue, lost, map, outside, sub, running, looks, rows, walks, job, tune,
                   slipped, ops, faults, tunes>>

-----------------------------------------------------------------------------
\* The worker takes a change: a removal takes everything below with it.
DroppedOne(p) == {r \in rows : r # p}
Dropped(p) == {r \in rows : ~UnderPath(r, p)}
Take ==
    /\ job = Absent /\ chan # <<>>
    /\ chan' = Tail(chan)
    /\ LET c == Head(chan)
       IN  /\ rows' = CASE c.kind = "upsert" -> rows \cup {c.path}
                        [] c.kind = "remove" -> Dropped(c.path)
                        [] OTHER -> rows
           /\ walks' = IF c.kind = "rescan" THEN walks \cup {c.path} ELSE walks
    /\ UNCHANGED <<disk, queue, lost, map, outside, sub, running, looks, out, job, tune, slipped,
                   ops, faults, tunes>>

\* cover: the directories are listed under no lock and put in the map under it.
CoverLists(p) ==
    /\ job = Absent /\ p \in walks /\ tune = Absent
    /\ \A q \in walks : UnderPath(p, q) => q = p
    /\ walks' = {q \in walks : ~UnderPath(q, p)}
    /\ LET found == IF IsDir(p) THEN DirectoriesUnder(p) ELSE {}
       IN  job' = [step |-> "listed", path |-> p, found |-> found,
                   nodes |-> [i \in found |-> Node(i)], read |-> {}]
    /\ UNCHANGED <<disk, queue, lost, map, outside, sub, running, looks, out, chan, rows, tune,
                   slipped, ops, faults, tunes>>
LockFreeUnsent == looks = {} /\ out = <<>>
LockFree == TRUE
LearnsTop == {i \in job.found : PathTo(i) = job.path}
Learned == job.found
CoverInserts ==
    /\ Covering
    /\ LockFree
    /\ map' = InsertAll(Learned, job.nodes).map /\ outside' = InsertAll(Learned, job.nodes).outside
    /\ job' = [job EXCEPT !.step = "covered"]
    /\ UNCHANGED <<disk, queue, lost, sub, running, looks, out, chan, rows, walks, tune, slipped,
                   ops, faults, tunes>>

\* scan: the subtree is read, and then reconciled with what the index holds; one that
\* is not there to be read is reconciled by a walk of the whole source later.
WalkReads ==
    /\ job # Absent /\ job.step = "covered"
    /\ job' = IF IsDir(job.path)
                THEN [Walk(job.path) EXCEPT !.step = "read", !.read = Walked(job.path)]
                ELSE Walk(<<>>)
    /\ UNCHANGED <<disk, queue, lost, map, outside, sub, running, looks, out, chan, rows, walks,
                   tune, slipped, ops, faults, tunes>>
WalkEnds ==
    /\ job # Absent /\ job.step = "read"
    /\ rows' = {r \in rows : ~UnderPath(r, job.path)} \cup job.read
    /\ job' = Absent
    /\ UNCHANGED <<disk, queue, lost, map, outside, sub, running, looks, out, chan, walks, tune,
                   slipped, ops, faults, tunes>>

\* retune: a new map is built under no lock, and takes the old one's place.
TuneBuilds ==
    /\ sub = "on" /\ tune = Absent /\ tunes < MaxTunes
    /\ ~Covering
    /\ tunes' = tunes + 1
    /\ tune' = [i \in DirectoriesUnder(<<>>) |-> Node(i)]
    /\ UNCHANGED <<disk, queue, lost, map, outside, sub, running, looks, out, chan, rows, walks,
                   job, slipped, ops, faults>>
TuneEnds ==
    /\ tune # Absent
    /\ map' = tune /\ outside' = {} /\ tune' = Absent
    /\ UNCHANGED <<disk, queue, lost, sub, running, looks, out, chan, rows, walks, job, slipped,
                   ops, faults, tunes>>

-----------------------------------------------------------------------------
DiskStep ==
    \/ \E i \in Inodes, parent \in Dirs \cup {Root}, name \in Names :
          Create(i, parent, name) \/ Rename(i, parent, name)
    \/ \E i \in Inodes : Delete(i)
ReaderStep ==
    \/ \E n \in 1..Len(queue) : Window(n)
    \/ WindowLost \/ Send
    \/ \E l \in looks : Look(l)
WorkerStep ==
    \/ Build \/ Subscribe \/ Take
    \/ \E p \in walks : CoverLists(p)
    \/ CoverInserts \/ WalkReads \/ WalkEnds

Next == DiskStep \/ Overflow \/ ReaderStep \/ WorkerStep \/ TuneBuilds \/ TuneEnds

Spec == Init /\ [][Next]_fanVars

-----------------------------------------------------------------------------
Quiet ==
    /\ sub = "on" /\ queue = <<>> /\ ~lost /\ looks = {} /\ out = <<>>
    /\ chan = <<>> /\ walks = {} /\ job = Absent /\ tune = Absent

\* When nothing is on its way, the index holds what the disk holds.
Right == Quiet => rows = Walked(<<>>)

\* When nothing is on its way, the map knows every directory by its path: what happens
\* in it next will be heard of.
Heard ==
    Quiet => \A i \in DirectoriesUnder(<<>>) : PathOf(i) = PathTo(i)

\* Both, unless a directory moved while a list of directories was being read.
FollowedUnlessSlipped == slipped \/ (Right /\ Heard)

\* The reader and the worker never wait on each other for good.
Drains == []<>Quiet
=============================================================================
