----------------------------- MODULE WatchProofs -----------------------------
(***************************************************************************)
(* The filesystem source: mounts that nothing hears are said not to be     *)
(* heard, two threads that look at one file leave its row right, and a     *)
(* walk takes no row of a file that was there.  The theorems are about     *)
(* Mounts, Revisit and Scan as MCWatch instantiates them, under the        *)
(* prefixes M, V and S, with their constants left open.                    *)
(***************************************************************************)
EXTENDS MCWatch, SequenceTheorems, TLAPS

-----------------------------------------------------------------------------
\* Mounts.

\* Mount ids are handed out upwards, so a mount that has gone does not come back: one
\* that is mounted, and was in a table read before, is in every table read since.  What
\* a subscription says unwatched is what the table it was told of last has and the one
\* it counts from has not.
MountsIds ==
    /\ mounts \in Nat
    /\ \A m \in mounted \cup marked \cup known \cup noted \cup base : m[1] \in Nat /\ m[1] <= mounts
MountsTables ==
    /\ begun => \A table \in {known, noted, base} : marked \cap mounted \subseteq table
    /\ noted \cap mounted \subseteq known
    /\ base \cap mounted \subseteq known
    /\ base \cap known \subseteq noted
MountsNews ==
    IF begun THEN subscribed /\ ~again =>
                      uncovered = (M!At(noted \ base) \cap Inside) \ Ignored
             ELSE known = {} /\ noted = {} /\ uncovered = {}
MountsInv == MountsIds /\ MountsTables /\ MountsNews

LEMMA MountsInit == M!Init => MountsInv
<1> SUFFICES ASSUME M!Init PROVE MountsInv
  OBVIOUS
<1>1. /\ mounts = 0 /\ marked = mounted /\ begun = FALSE
      /\ known = {} /\ noted = {} /\ base = {} /\ uncovered = {}
  BY DEF M!Init
<1>2. \A m \in marked : m[1] = 0
  BY DEF M!Init
<1> QED BY <1>1, <1>2 DEF MountsInv, MountsIds, MountsTables, MountsNews

LEMMA MountsMount == ASSUME MountsInv, NEW at, M!Mount(at) PROVE MountsInv'
<1>1. /\ mounts' = mounts + 1 /\ mounted' = mounted \cup {<<mounts + 1, at>>}
      /\ UNCHANGED <<marked, subscribed, begun, known, noted, base, uncovered, again>>
  BY DEF M!Mount
<1>2. <<mounts + 1, at>> \notin marked \cup known \cup noted \cup base
  BY DEF MountsInv, MountsIds
<1>3. MountsIds'
  BY <1>1 DEF MountsInv, MountsIds
<1>4. MountsTables'
  BY <1>1, <1>2 DEF MountsInv, MountsTables
<1>5. MountsNews'
  BY <1>1 DEF MountsInv, MountsNews, M!At
<1> QED BY <1>3, <1>4, <1>5 DEF MountsInv

\* The new engine's entry counts from what the one before was told of; what is told
\* later is all its own.
LEMMA MountsSubscribe == ASSUME MountsInv, M!Subscribe PROVE MountsInv'
<1>1. /\ uncovered' = {} /\ base' = noted
      /\ UNCHANGED <<mounted, marked, begun, known, noted, mounts>>
  BY DEF M!Subscribe
<1>2. MountsIds'
  BY <1>1 DEF MountsInv, MountsIds
<1>3. MountsTables'
  BY <1>1 DEF MountsInv, MountsTables
<1>4. MountsNews'
  BY <1>1 DEF MountsInv, MountsNews, M!At
<1> QED BY <1>2, <1>3, <1>4 DEF MountsInv

LEMMA MountsBegins == ASSUME MountsInv, M!ReaderBegins PROVE MountsInv'
<1>1. /\ known' = mounted /\ noted' = mounted /\ base' = mounted /\ begun' = TRUE /\ ~begun
      /\ UNCHANGED <<mounted, marked, uncovered, mounts>>
  BY DEF M!ReaderBegins
<1>2. MountsIds'
  BY <1>1 DEF MountsInv, MountsIds
<1>3. MountsTables'
  BY <1>1 DEF MountsTables
<1>4. MountsNews'
  BY <1>1 DEF MountsInv, MountsNews, M!At
<1> QED BY <1>2, <1>3, <1>4 DEF MountsInv

LEMMA MountsPoll == ASSUME MountsInv, M!Poll PROVE MountsInv'
<1>1. /\ begun /\ known = noted /\ known' = mounted
      /\ UNCHANGED <<mounted, marked, subscribed, begun, noted, base, uncovered, again, mounts>>
  BY DEF M!Poll
<1>2. MountsIds'
  BY <1>1 DEF MountsInv, MountsIds
<1>3. MountsTables'
  BY <1>1 DEF MountsInv, MountsTables
<1>4. MountsNews'
  BY <1>1 DEF MountsInv, MountsNews, M!At
<1> QED BY <1>2, <1>3, <1>4 DEF MountsInv

\* What is noted brings in what is new, if it is inside, and takes out what has gone; a
\* point that is in neither kept the mount it had.
LEMMA MountsCovered ==
  ASSUME MountsTables, uncovered = (M!At(noted \ base) \cap Inside) \ Ignored,
         M!Gone \cap M!At(known) = {}
  PROVE  M!Covered = (M!At(known \ base) \cap Inside) \ Ignored
<1>1. ASSUME NEW at \in M!Covered PROVE at \in (M!At(known \ base) \cap Inside) \ Ignored
  <2>1. CASE at \in uncovered
    <3>1. PICK m \in noted \ base : m[2] = at /\ at \in Inside \ Ignored
      BY <2>1 DEF M!At
    <3>2. m \in known
      BY <1>1, <3>1 DEF M!Covered, M!Gone, M!At
    <3> QED BY <3>1, <3>2 DEF M!At
  <2>2. CASE at \in M!Fresh
    <3>1. PICK m \in known \ noted : m[2] = at /\ at \in Inside \ Ignored
      BY <2>2 DEF M!Fresh, M!At
    <3>2. m \notin base
      BY <3>1 DEF MountsTables
    <3> QED BY <3>1, <3>2 DEF M!At
  <2> QED BY <1>1, <2>1, <2>2 DEF M!Covered
<1>2. ASSUME NEW at \in (M!At(known \ base) \cap Inside) \ Ignored PROVE at \in M!Covered
  <2>1. PICK m \in known \ base : m[2] = at /\ at \in Inside \ Ignored
    BY <1>2 DEF M!At
  <2>2. at \notin M!Gone
    BY <2>1 DEF M!At
  <2>3. CASE m \in noted
    <3>1. at \in uncovered
      BY <2>1, <2>3 DEF M!At
    <3> QED BY <2>2, <3>1 DEF M!Covered
  <2>4. CASE m \notin noted
    <3>1. at \in M!Fresh
      BY <2>1, <2>4 DEF M!Fresh, M!At
    <3> QED BY <2>2, <3>1 DEF M!Covered
  <2> QED BY <2>3, <2>4
<1> QED BY <1>1, <1>2

LEMMA MountsNote == ASSUME MountsInv, M!Note PROVE MountsInv'
<1>1. /\ known # noted /\ noted' = known
      /\ UNCHANGED <<mounted, marked, subscribed, begun, known, base, mounts>>
  BY DEF M!Note
<1>2. MountsIds'
  BY <1>1 DEF MountsInv, MountsIds
<1>3. MountsTables'
  BY <1>1 DEF MountsInv, MountsTables
<1>4. begun
  BY <1>1 DEF MountsInv, MountsNews
<1>5. ASSUME subscribed, ~again' PROVE uncovered' = (M!At(known \ base) \cap Inside) \ Ignored
  <2>1. ~again /\ M!Gone \cap M!At(known) = {} /\ uncovered' = M!Covered
    BY <1>5 DEF M!Note
  <2>2. uncovered = (M!At(noted \ base) \cap Inside) \ Ignored
    BY <1>4, <1>5, <2>1 DEF MountsInv, MountsNews
  <2> QED BY <2>1, <2>2, MountsCovered DEF MountsInv
<1>6. MountsNews'
  BY <1>1, <1>4, <1>5 DEF MountsNews, M!At
<1> QED BY <1>2, <1>3, <1>6 DEF MountsInv

LEMMA MountsNext == MountsInv /\ [M!Next]_(M!mountVars) => MountsInv'
<1> SUFFICES ASSUME MountsInv, [M!Next]_(M!mountVars) PROVE MountsInv'
  OBVIOUS
<1>1. ASSUME NEW m \in mounted, M!Unmount(m) PROVE MountsInv'
  BY <1>1 DEF M!Unmount, MountsInv, MountsIds, MountsTables, MountsNews, M!At
<1>2. CASE M!Leave
  BY <1>2 DEF M!Leave, MountsInv, MountsIds, MountsTables, MountsNews, M!At
<1>3. ASSUME NEW at \in toWalk, M!Walk(at) PROVE MountsInv'
  BY <1>3 DEF M!Walk, MountsInv, MountsIds, MountsTables, MountsNews, M!At
<1>4. CASE UNCHANGED M!mountVars
  BY <1>4 DEF M!mountVars, MountsInv, MountsIds, MountsTables, MountsNews, M!At
<1> QED BY <1>1, <1>2, <1>3, <1>4, MountsMount, MountsSubscribe, MountsBegins, MountsPoll,
           MountsNote DEF M!Next

\* Of the filesystems inside a source, what it says to be unwatched is what was mounted
\* since it subscribed and the reader began, all of it and nothing a mark hears, as soon
\* as the reader has told it of the mount table as it is (note_mounts and cover_mounts,
\* fanotify.rs) - unless it was told of a mount of a point gone and another in its place.
\* That holds whatever is mounted over what, and however often the engine is swapped.
THEOREM MountsSaid == M!Spec => []SaidUnlessAgain
<1>1. MountsInv => SaidUnlessAgain
  <2> SUFFICES ASSUME MountsInv, ~again, M!Told
               PROVE  uncovered = M!Since /\ M!Since \subseteq M!Unheard
    BY DEF SaidUnlessAgain, M!SaidUnlessAgain
  <2>1. begun /\ subscribed /\ noted = mounted
    BY DEF M!Told
  <2>2. uncovered = M!Since
    BY <2>1 DEF MountsInv, MountsNews, M!Since, M!At
  <2>3. mounted \ base \subseteq mounted \ marked
    BY <2>1 DEF MountsInv, MountsTables
  <2> QED BY <2>2, <2>3 DEF M!Since, M!Unheard, M!At
<1> QED BY <1>1, MountsInit, MountsNext, PTL DEF M!Spec

-----------------------------------------------------------------------------
\* Revisit.

\* An event of the path is in the kernel's queue.
Queued(p) == \E n \in DOMAIN events : events[n].path = p
\* The reader has looked at the path and has not sent what it saw.
Unsent(p) == reading # Nobody /\ ~reading.sent /\ reading.path = p
\* Something will still set the row of the path.
Coming(p) == p \in open \/ Queued(p) \/ Unsent(p)

Happening == [path : Mapped, settled : BOOLEAN]
RevisitTypes ==
    /\ file \in [Mapped -> Nat] /\ row \in [Mapped -> Nat] /\ writes \in Nat
    /\ events \in Seq(Happening)
    /\ reading \in V!Read \cup {Nobody}
    /\ looking \in V!Glance \cup {Nobody}

\* What either thread saw and has not sent is what the file holds, or the file has
\* changed since in a way that will be seen; and so is what the row shows.
ReadRight ==
    \A p \in Mapped : Unsent(p) /\ reading.md # file[p] => p \in open \/ Queued(p)
Glimpsed ==
    looking # Nobody =>
        (looking.step = "send" /\ ~looking.late /\ looking.md # file[looking.path] =>
             Coming(looking.path))
Shown == ~overtaken => \A p \in Mapped : row[p] = file[p] \/ Coming(p)

RevisitInv == RevisitTypes /\ ReadRight /\ Glimpsed /\ Shown

LEMMA RevisitInit == V!Init => RevisitInv
<1> SUFFICES ASSUME V!Init PROVE RevisitInv
  OBVIOUS
<1>1. /\ file = [p \in Mapped |-> 1] /\ row = file /\ writes = 1 /\ events = <<>>
      /\ reading = Nobody /\ looking = Nobody
  BY DEF V!Init
<1> QED BY <1>1 DEF RevisitInv, RevisitTypes, ReadRight, Glimpsed, Shown, Unsent

\* An event put at the end of the queue leaves those that are there.
LEMMA QueuedMore ==
    ASSUME RevisitTypes, NEW e \in Happening,
           events' = Append(events, e)
    PROVE  /\ events' \in Seq(Happening)
           /\ \A p : Queued(p) => Queued(p)'
           /\ Queued(e.path)'
<1>1. /\ events \in Seq(Happening)
      /\ Len(events') = Len(events) + 1 /\ events'[Len(events) + 1] = e
      /\ \A n \in 1..Len(events) : events'[n] = events[n]
      /\ events' \in Seq(Happening)
  BY DEF RevisitTypes
<1>2. DOMAIN events = 1..Len(events) /\ DOMAIN events' = 1..(Len(events) + 1)
  BY <1>1
<1> QED BY <1>1, <1>2 DEF Queued

\* The disk changes: what is told is queued, and what is not is a write to an open file.
LEMMA RevisitWrites ==
    ASSUME RevisitInv, NEW p \in Mapped, NEW mapped \in BOOLEAN, V!Writes(p, mapped)
    PROVE  RevisitInv'
<1>1. /\ file' = [file EXCEPT ![p] = writes + 1] /\ writes' = writes + 1
      /\ open' = open \cup {p}
      /\ UNCHANGED <<row, reading, looking, overtaken>>
      /\ \/ events' = events
         \/ events' = Append(events, [path |-> p, settled |-> FALSE])
  BY DEF V!Writes
<1>2. /\ events' \in Seq(Happening)
      /\ \A q : Queued(q) => Queued(q)'
  <2> DEFINE e == [path |-> p, settled |-> FALSE]
  <2>1. e \in Happening
    BY DEF Happening
  <2> HIDE DEF e
  <2>2. CASE events' = Append(events, e)
    BY <2>1, <2>2, QueuedMore DEF RevisitInv
  <2>3. CASE events' = events
    BY <2>3 DEF RevisitInv, RevisitTypes, Queued
  <2> QED BY <1>1, <2>2, <2>3 DEF e
<1>3. \A q : (Coming(q) => Coming(q)') /\ (Unsent(q) <=> Unsent(q)')
  BY <1>1, <1>2 DEF Coming, Unsent
<1>4. Coming(p)' /\ \A q \in Mapped \ {p} : file'[q] = file[q]
  BY <1>1 DEF Coming, RevisitInv, RevisitTypes
<1>5. RevisitTypes'
  BY <1>1, <1>2 DEF RevisitInv, RevisitTypes
<1>6. ReadRight'
  BY <1>1, <1>2, <1>3, <1>4 DEF RevisitInv, ReadRight
<1>7. Glimpsed'
  BY <1>1, <1>3, <1>4 DEF RevisitInv, RevisitTypes, Glimpsed, V!Glance
<1>8. Shown'
  BY <1>1, <1>3, <1>4 DEF RevisitInv, Shown
<1> QED BY <1>5, <1>6, <1>7, <1>8 DEF RevisitInv

LEMMA RevisitCloses ==
    ASSUME RevisitInv, NEW p \in Mapped, V!Closes(p) PROVE RevisitInv'
<1> DEFINE e == [path |-> p, settled |-> TRUE]
<1>1. /\ open' = open \ {p} /\ events' = Append(events, e)
      /\ UNCHANGED <<file, writes, row, reading, looking, overtaken>>
  BY DEF V!Closes
<1>2. /\ events' \in Seq(Happening)
      /\ \A q : Queued(q) => Queued(q)'
      /\ Queued(p)'
  <2>1. e \in Happening /\ e.path = p
    BY DEF Happening
  <2> HIDE DEF e
  <2> QED BY <1>1, <2>1, QueuedMore DEF RevisitInv
<1>3. \A q : (Coming(q) => Coming(q)') /\ (Unsent(q) <=> Unsent(q)')
  BY <1>1, <1>2 DEF Coming, Unsent
<1>5. RevisitTypes'
  BY <1>1, <1>2 DEF RevisitInv, RevisitTypes
<1>6. ReadRight'
  BY <1>1, <1>2, <1>3 DEF RevisitInv, ReadRight
<1>7. Glimpsed'
  BY <1>1, <1>3 DEF RevisitInv, Glimpsed
<1>8. Shown'
  BY <1>1, <1>3 DEF RevisitInv, Shown
<1> QED BY <1>5, <1>6, <1>7, <1>8 DEF RevisitInv

LEMMA RevisitRemoves ==
    ASSUME RevisitInv, NEW p \in Mapped, V!Removes(p) PROVE RevisitInv'
<1> DEFINE e == [path |-> p, settled |-> FALSE]
<1>1. /\ file' = [file EXCEPT ![p] = 0] /\ events' = Append(events, e)
      /\ UNCHANGED <<open, writes, row, reading, looking, overtaken>>
  BY DEF V!Removes
<1>2. /\ events' \in Seq(Happening)
      /\ \A q : Queued(q) => Queued(q)'
      /\ Queued(p)'
  <2>1. e \in Happening /\ e.path = p
    BY DEF Happening
  <2> HIDE DEF e
  <2> QED BY <1>1, <2>1, QueuedMore DEF RevisitInv
<1>3. \A q : (Coming(q) => Coming(q)') /\ (Unsent(q) <=> Unsent(q)')
  BY <1>1, <1>2 DEF Coming, Unsent
<1>4. Coming(p)' /\ \A q \in Mapped \ {p} : file'[q] = file[q]
  BY <1>1, <1>2 DEF Coming, RevisitInv, RevisitTypes
<1>5. RevisitTypes'
  BY <1>1, <1>2 DEF RevisitInv, RevisitTypes
<1>6. ReadRight'
  BY <1>1, <1>2, <1>3, <1>4 DEF RevisitInv, ReadRight
<1>7. Glimpsed'
  BY <1>1, <1>3, <1>4 DEF RevisitInv, RevisitTypes, Glimpsed, V!Glance
<1>8. Shown'
  BY <1>1, <1>3, <1>4 DEF RevisitInv, Shown
<1> QED BY <1>5, <1>6, <1>7, <1>8 DEF RevisitInv

\* The reader: an event taken is a path looked at.
LEMMA RevisitReaderLooks == ASSUME RevisitInv, V!ReaderLooks PROVE RevisitInv'
<1> DEFINE p == Head(events).path
           r == [path |-> p, md |-> file[p], settled |-> Head(events).settled, sent |-> FALSE]
<1>1. /\ reading = Nobody /\ events # <<>> /\ reading' = r /\ events' = Tail(events)
      /\ UNCHANGED <<file, open, row, looking, overtaken, writes>>
  BY DEF V!ReaderLooks
<1>2. /\ events \in Seq(Happening)
      /\ Head(events) \in Happening
      /\ events' \in Seq(Happening)
  BY <1>1 DEF RevisitInv, RevisitTypes
<1>3. r \in V!Read /\ r # Nobody
  <2>1. p \in Mapped /\ file[p] \in Nat /\ Head(events).settled \in BOOLEAN
    BY <1>2 DEF RevisitInv, RevisitTypes, Happening
  <2>2. r \in V!Read
    BY <2>1 DEF V!Read
  <2> QED BY <2>2, RevisitWellFormed DEF V!WellFormed
<1>4. \A q : Queued(q) => q = p \/ Queued(q)'
  <2>1. ASSUME NEW n \in DOMAIN events
        PROVE  n = 1 \/ (n - 1 \in DOMAIN events' /\ events'[n - 1] = events[n])
    BY <1>1, <1>2
  <2>2. Head(events) = events[1]
    BY <1>1, <1>2
  <2> QED BY <2>1, <2>2 DEF Queued
<1>5. \A q : Unsent(q)' <=> q = p
  BY <1>1, <1>3 DEF Unsent
<1>6. \A q : Coming(q) => Coming(q)'
  BY <1>1, <1>4, <1>5 DEF Coming, Unsent
<1>7. RevisitTypes'
  BY <1>1, <1>2, <1>3 DEF RevisitInv, RevisitTypes
<1>8. ReadRight'
  BY <1>1, <1>5 DEF ReadRight
<1>9. Glimpsed' /\ Shown'
  BY <1>1, <1>6 DEF RevisitInv, Glimpsed, Shown
<1> QED BY <1>7, <1>8, <1>9 DEF RevisitInv

\* What the reader sends is right, or something is still coming; what the other thread
\* has seen and not sent is late from now on.
LEMMA RevisitReaderSends == ASSUME RevisitInv, V!ReaderSends PROVE RevisitInv'
<1> DEFINE p == reading.path
<1>1. /\ reading # Nobody /\ ~reading.sent
      /\ row' = [row EXCEPT ![p] = reading.md]
      /\ reading' = [reading EXCEPT !.sent = TRUE]
      /\ looking' = IF looking # Nobody /\ looking.path = p /\ looking.step = "send"
                      THEN [looking EXCEPT !.late = TRUE] ELSE looking
      /\ UNCHANGED <<file, open, events, overtaken, writes>>
  BY DEF V!ReaderSends
<1>2. /\ reading \in V!Read /\ reading' \in V!Read /\ reading'.sent /\ reading' # Nobody
  BY <1>1, RevisitWellFormed DEF RevisitInv, RevisitTypes, V!Read, V!WellFormed
<1>3. looking' \in V!Glance \cup {Nobody}
  BY <1>1 DEF RevisitInv, RevisitTypes, V!Glance
<1>4. \A q : (Queued(q)' <=> Queued(q)) /\ ~Unsent(q)'
  BY <1>1, <1>2 DEF Queued, Unsent
<1>5. \A q : q # p /\ Coming(q) => Coming(q)'
  BY <1>1, <1>4 DEF Coming, Unsent
<1>6. p \in Mapped /\ (reading.md # file[p] => Coming(p)')
  BY <1>1, <1>2, <1>4 DEF RevisitInv, ReadRight, Unsent, V!Read, Coming
<1>7. RevisitTypes'
  BY <1>1, <1>2, <1>3 DEF RevisitInv, RevisitTypes, V!Read
<1>8. ReadRight'
  BY <1>4 DEF ReadRight
<1>9. Glimpsed'
  <2>1. CASE looking # Nobody /\ looking.path = p /\ looking.step = "send"
    <3>1. looking'.late
      BY <1>1, <2>1 DEF RevisitInv, RevisitTypes, V!Glance
    <3> QED BY <3>1 DEF Glimpsed
  <2>2. CASE ~(looking # Nobody /\ looking.path = p /\ looking.step = "send")
    BY <1>1, <1>5, <2>2 DEF RevisitInv, Glimpsed
  <2> QED BY <2>1, <2>2
<1>10. Shown'
  BY <1>1, <1>5, <1>6 DEF RevisitInv, RevisitTypes, Shown
<1> QED BY <1>7, <1>8, <1>9, <1>10 DEF RevisitInv

\* The revisiting thread: what it has seen is sent at once, or is late.
LEMMA RevisitSendsAgain == ASSUME RevisitInv, V!SendsAgain PROVE RevisitInv'
<1> DEFINE p == looking.path
<1>1. /\ looking # Nobody /\ looking.step = "send"
      /\ row' = [row EXCEPT ![p] = looking.md]
      /\ overtaken' = (overtaken \/ looking.late) /\ looking' = Nobody
      /\ UNCHANGED <<file, open, events, reading, writes>>
  BY DEF V!SendsAgain
<1>2. looking \in V!Glance
  BY <1>1 DEF RevisitInv, RevisitTypes
<1>3. RevisitTypes'
  BY <1>1, <1>2 DEF RevisitInv, RevisitTypes, V!Glance
<1>4. ReadRight' /\ Glimpsed'
  BY <1>1 DEF RevisitInv, ReadRight, Glimpsed, Unsent, Queued
<1>5. \A q : Coming(q)' <=> Coming(q)
  BY <1>1 DEF Coming, Queued, Unsent
<1>6. Shown'
  BY <1>1, <1>2, <1>5 DEF RevisitInv, RevisitTypes, Shown, Glimpsed, V!Glance
<1> QED BY <1>3, <1>4, <1>6 DEF RevisitInv

\* Nothing that can be read or shown changes when a path is noted, glanced at or judged,
\* and what is looked at again is what the file holds.
LEMMA RevisitRests ==
    ASSUME RevisitInv, UNCHANGED <<file, open, row, events, overtaken, writes>>,
           reading' = reading \/ (reading' = Nobody /\ (reading = Nobody \/ reading.sent)),
           \/ looking' = looking \/ looking' = Nobody
           \/ looking' \in V!Glance /\ looking'.step # "send"
           \/ looking' \in V!Glance /\ looking'.md = file[looking'.path]
    PROVE  RevisitInv'
<1>1. \A q : (Coming(q)' <=> Coming(q)) /\ (Unsent(q)' <=> Unsent(q)) /\ (Queued(q)' <=> Queued(q))
  BY DEF Coming, Unsent, Queued
<1>2. RevisitTypes'
  BY DEF RevisitInv, RevisitTypes
<1>3. ReadRight'
  BY <1>1 DEF RevisitInv, ReadRight, Unsent
<1>4. Glimpsed'
  BY <1>1 DEF RevisitInv, Glimpsed
<1>5. Shown'
  BY <1>1 DEF RevisitInv, Shown
<1> QED BY <1>2, <1>3, <1>4, <1>5 DEF RevisitInv

LEMMA RevisitNext == RevisitInv /\ [V!Next]_(V!reVars) => RevisitInv'
<1> SUFFICES ASSUME RevisitInv, [V!Next]_(V!reVars) PROVE RevisitInv'
  OBVIOUS
<1>0. looking \in V!Glance \cup {Nobody} /\ file \in [Mapped -> Nat]
  BY DEF RevisitInv, RevisitTypes
<1>1. CASE V!ReaderNotes
  BY <1>1, RevisitRests DEF V!ReaderNotes
<1>2. ASSUME NEW p \in Mapped, V!Glances(p) PROVE RevisitInv'
  <2> DEFINE g == [path |-> p, md |-> file[p], step |-> "judge", late |-> FALSE]
  <2>1. looking' = g /\ UNCHANGED <<file, open, row, events, overtaken, writes, reading>>
    BY <1>2 DEF V!Glances
  <2>2. g \in V!Glance /\ g.step # "send"
    BY <1>0 DEF V!Glance
  <2> QED BY <2>1, <2>2, RevisitRests
<1>3. CASE V!Judges
  <2>1. /\ UNCHANGED <<file, open, row, events, overtaken, writes, reading>> /\ looking # Nobody
        /\ looking' = Nobody \/ looking' = [looking EXCEPT !.step = "look"]
    BY <1>3 DEF V!Judges
  <2>2. /\ [looking EXCEPT !.step = "look"] \in V!Glance
        /\ [looking EXCEPT !.step = "look"].step = "look"
    BY <1>0, <2>1 DEF V!Glance
  <2> QED BY <2>1, <2>2, RevisitRests
<1>4. CASE V!LooksAgain
  <2> DEFINE g == [looking EXCEPT !.step = "send", !.md = file[looking.path]]
  <2>1. /\ UNCHANGED <<file, open, row, events, overtaken, writes, reading>> /\ looking # Nobody
        /\ looking' = g
    BY <1>4 DEF V!LooksAgain, V!Looked
  <2>2. g \in V!Glance /\ g.md = file[g.path]
    BY <1>0, <2>1 DEF V!Glance
  <2> QED BY <2>1, <2>2, RevisitRests
<1>5. CASE V!Tick
  BY <1>5, RevisitRests DEF V!Tick
<1>6. CASE UNCHANGED V!reVars
  BY <1>6, RevisitRests DEF V!reVars
<1> QED BY <1>1, <1>2, <1>3, <1>4, <1>5, <1>6, RevisitWrites, RevisitCloses, RevisitRemoves,
           RevisitReaderLooks, RevisitReaderSends, RevisitSendsAgain
        DEF V!Next, V!ReaderStep, V!RevisitStep

\* Once a file is closed, its events are read and neither thread has anything of it in
\* hand, its row is what the file holds, unless the revisiting thread sent a version the
\* reader had sent a newer one than (window, fanotify.rs, and run, revisit.rs), for any
\* files, any list and any number of writes.
THEOREM RevisitSettles == V!Spec => []SettledUnlessOvertaken
<1>1. RevisitInv => SettledUnlessOvertaken
  BY DEF RevisitInv, Shown, Coming, Queued, Unsent, SettledUnlessOvertaken,
         V!SettledUnlessOvertaken, V!SettledRight
<1> QED BY <1>1, RevisitInit, RevisitNext, PTL DEF V!Spec

-----------------------------------------------------------------------------
\* Scan.

Message == [kind : {"entries"}, what : SUBSET S!Paths]
             \cup [kind : {"unreadable"}, what : SUBSET (S!Paths \cup {NoPath})]
Walker == [buf : SUBSET S!Paths, send : Seq(Message), ended : BOOLEAN]

ScanTypes ==
    /\ phase \in {"idle", "walking", "done"}
    /\ tree \subseteq S!Paths /\ first \subseteq S!Paths /\ todo \subseteq S!Paths
    /\ thread \in [Threads -> Walker]
    /\ sent \in Seq(Message)
    /\ phase # "done" => indexed = S!Paths \ LeftOut

\* A disk holds the directories above what it holds; the roots are always there.
Closed ==
    /\ \A p \in tree, q \in Folders : S!Under(p, q) => q \in tree
    /\ \A r \in Roots : <<r>> \in tree

\* What messages carry of a kind, entries or refusals.
Carries(msgs, kind, p) == \E n \in DOMAIN msgs : msgs[n].kind = kind /\ p \in msgs[n].what

\* A path that has been found is with the sink, on its way to it, or in a buffer.
Met(p) ==
    \/ p \in got \/ Carries(sent, "entries", p)
    \/ \E t \in Threads : p \in thread[t].buf \/ Carries(thread[t].send, "entries", p)
Refused(q) ==
    \/ q \in blind \/ Carries(sent, "unreadable", q)
    \/ \E t \in Threads : Carries(thread[t].send, "unreadable", q)

\* It has been found, or it is below a path still to be visited, or one that was refused.
Accounted(p) ==
    Met(p) \/ \E q \in S!Paths : S!Under(p, q) /\ (q \in todo \/ Refused(q))

\* Roots that could be read when the walk began had their disks.
Began ==
    /\ phase = "idle" => got = {} /\ sent = <<>> /\ \A t \in Threads : thread[t] = S!Idle
    /\ \A r \in DOMAIN before : before[r] = "disk"

\* No thread ends while there is something to visit, or with something in its buffer.
Ending ==
    phase = "walking" =>
        /\ (\A t \in Threads : thread[t].ended) => todo = {} \/ cancelled
        /\ \A t \in Threads : thread[t].ended => thread[t].buf = {}

\* Nothing is found that was not there when the walk began.
FoundFirst ==
    phase = "walking" =>
        /\ tree \subseteq first /\ todo \subseteq first
        /\ \A p \in S!Paths : Met(p) => p \in first

\* Whatever is there from the beginning, on a disk that stays, is accounted for.
Steady ==
    phase = "walking" /\ ~cycled /\ ~nameless /\ ~cancelled /\ ~tooBlind =>
        \A p \in (first \cap tree) \ LeftOut :
            p[1] \in DOMAIN before /\ p[1] \notin away => Accounted(p)

ScanInv ==
    /\ ScanTypes /\ Closed /\ Began /\ Ending /\ FoundFirst /\ Steady
    /\ got \subseteq S!Paths /\ SweptRight

-----------------------------------------------------------------------------
\* Messages.
LEMMA CarriesNone == \A kind, p : ~Carries(<<>>, kind, p)
BY DEF Carries

LEMMA CarriesOne ==
    ASSUME NEW m, NEW kind, NEW p
    PROVE  Carries(<<m>>, kind, p) <=> m.kind = kind /\ p \in m.what
<1>1. DOMAIN <<m>> = {1} /\ <<m>>[1] = m
  OBVIOUS
<1> QED BY <1>1 DEF Carries

LEMMA CarriesConcat ==
    ASSUME NEW T1, NEW a \in Seq(T1), NEW b \in Seq(T1), NEW kind, NEW p
    PROVE  Carries(a \o b, kind, p) <=> Carries(a, kind, p) \/ Carries(b, kind, p)
<1>1. /\ DOMAIN a = 1..Len(a) /\ DOMAIN b = 1..Len(b) /\ Len(a) \in Nat /\ Len(b) \in Nat
      /\ DOMAIN (a \o b) = 1..(Len(a) + Len(b))
      /\ \A n \in 1..Len(a) : (a \o b)[n] = a[n]
      /\ \A n \in 1..Len(b) : (a \o b)[Len(a) + n] = b[n]
  OBVIOUS
<1>2. \A n \in DOMAIN (a \o b) :
          n \in 1..Len(a) \/ (n - Len(a) \in 1..Len(b) /\ n = Len(a) + (n - Len(a)))
  BY <1>1
<1>3. \A n \in 1..Len(b) : Len(a) + n \in DOMAIN (a \o b)
  BY <1>1
<1>4. \A n \in 1..Len(a) : n \in DOMAIN (a \o b)
  BY <1>1
<1>5. ASSUME Carries(a \o b, kind, p) PROVE Carries(a, kind, p) \/ Carries(b, kind, p)
  <2>1. PICK n \in DOMAIN (a \o b) : (a \o b)[n].kind = kind /\ p \in (a \o b)[n].what
    BY <1>5 DEF Carries
  <2>2. CASE n \in 1..Len(a)
    BY <1>1, <2>1, <2>2 DEF Carries
  <2>3. CASE n - Len(a) \in 1..Len(b) /\ n = Len(a) + (n - Len(a))
    <3>1. PICK k \in 1..Len(b) : n = Len(a) + k
      BY <2>3
    <3>2. (a \o b)[n] = b[k]
      BY <1>1, <3>1
    <3> QED BY <1>1, <2>1, <3>1, <3>2 DEF Carries
  <2> QED BY <1>2, <2>2, <2>3
<1>6. ASSUME Carries(a, kind, p) PROVE Carries(a \o b, kind, p)
  <2>1. PICK n \in 1..Len(a) : a[n].kind = kind /\ p \in a[n].what
    BY <1>1, <1>6 DEF Carries
  <2> QED BY <1>1, <1>4, <2>1 DEF Carries
<1>7. ASSUME Carries(b, kind, p) PROVE Carries(a \o b, kind, p)
  <2>1. PICK n \in 1..Len(b) : b[n].kind = kind /\ p \in b[n].what
    BY <1>1, <1>7 DEF Carries
  <2> QED BY <1>1, <1>3, <2>1 DEF Carries
<1> QED BY <1>5, <1>6, <1>7

LEMMA CarriesAppend ==
    ASSUME NEW T1, NEW s \in Seq(T1), NEW m \in T1, NEW kind, NEW p
    PROVE  Carries(Append(s, m), kind, p) <=>
               Carries(s, kind, p) \/ (m.kind = kind /\ p \in m.what)
<1> DEFINE one == <<m>>
<1>1. Append(s, m) = s \o one /\ one \in Seq(T1)
  OBVIOUS
<1>2. Carries(one, kind, p) <=> m.kind = kind /\ p \in m.what
  BY CarriesOne
<1> HIDE DEF one
<1>3. Carries(s \o one, kind, p) <=> Carries(s, kind, p) \/ Carries(one, kind, p)
  BY <1>1, CarriesConcat
<1> QED BY <1>1, <1>2, <1>3

LEMMA CarriesTail ==
    ASSUME NEW T1, NEW s \in Seq(T1), s # <<>>, NEW kind, NEW p
    PROVE  Carries(s, kind, p) <=>
               (Head(s).kind = kind /\ p \in Head(s).what) \/ Carries(Tail(s), kind, p)
<1>1. s = <<Head(s)>> \o Tail(s) /\ <<Head(s)>> \in Seq(T1) /\ Tail(s) \in Seq(T1)
  OBVIOUS
<1>2. Carries(<<Head(s)>> \o Tail(s), kind, p) <=>
          Carries(<<Head(s)>>, kind, p) \/ Carries(Tail(s), kind, p)
  BY <1>1, CarriesConcat
<1> QED BY <1>1, <1>2, CarriesOne

-----------------------------------------------------------------------------
\* Paths.
LEMMA UnderItself == ASSUME NEW p \in S!Paths PROVE S!Under(p, p)
<1>1. p \in Seq(S!Names)
  BY ScanWellFormed DEF S!WellFormed
<1>2. SubSeq(p, 1, Len(p)) = p
  BY <1>1
<1> QED BY <1>1, <1>2 DEF S!Under

LEMMA UnderRoot ==
    ASSUME NEW p \in S!Paths
    PROVE  <<p[1]>> \in S!Paths /\ p[1] \in Roots /\ S!Under(p, <<p[1]>>)
<1>1. p \in Seq(S!Names) /\ p # <<>> /\ p[1] \in Roots /\ <<p[1]>> \in Folders
  BY ScanWellFormed DEF S!WellFormed
<1>2. 1 <= Len(p) /\ Len(SubSeq(p, 1, 1)) = 1 /\ SubSeq(p, 1, 1)[1] = p[1]
      /\ SubSeq(p, 1, 1) \in Seq(S!Names)
  BY <1>1
<1>3. SubSeq(p, 1, 1) = <<p[1]>>
  <2> DEFINE h == SubSeq(p, 1, 1)
             one == <<p[1]>>
  <2>1. one \in Seq(S!Names) /\ Len(one) = 1 /\ one[1] = p[1]
    BY <1>1
  <2>2. h \in Seq(S!Names) /\ Len(h) = 1 /\ h[1] = p[1]
    BY <1>2
  <2> HIDE DEF h, one
  <2>3. h = one
    BY <2>1, <2>2, SeqEqual
  <2> QED BY <2>3 DEF h, one
<1>4. Len(<<p[1]>>) = 1
  OBVIOUS
<1> QED BY <1>1, <1>2, <1>3, <1>4 DEF S!Under, S!Paths

\* From a path to one further up there is a directory at every step.
LEMMA StepDown ==
    ASSUME NEW p \in S!Paths, NEW q \in S!Paths, S!Under(p, q), p # q
    PROVE  /\ q \in Folders
           /\ \E c \in S!Paths : S!Child(c, q) /\ S!Under(p, c) /\ c[1] = p[1]
                                 /\ (c = p \/ c \in Folders)
<1> DEFINE n == Len(q)
           c == SubSeq(p, 1, n + 1)
<1>1. p \in Seq(S!Names) /\ q \in Seq(S!Names) /\ q # <<>>
  BY ScanWellFormed DEF S!WellFormed
<1>2. n <= Len(p) /\ q = SubSeq(p, 1, n) /\ n \in Nat /\ Len(p) \in Nat /\ n >= 1
  BY <1>1 DEF S!Under
<1>3. n < Len(p)
  <2>1. SubSeq(p, 1, Len(p)) = p
    BY <1>1
  <2> QED BY <1>2, <2>1
<1>4. q \in Folders
  <2>1. n \in 1..(Len(p) - 1)
    BY <1>2, <1>3
  <2> QED BY <1>2, <2>1, ScanWellFormed DEF S!WellFormed
<1>5. c \in Seq(S!Names) /\ Len(c) = n + 1 /\ (\A k \in 1..(n + 1) : c[k] = p[k])
  BY <1>1, <1>2, <1>3
<1>6. c = p \/ c \in Folders
  <2>1. CASE n + 1 = Len(p)
    <3>1. SubSeq(p, 1, Len(p)) = p
      BY <1>1
    <3> QED BY <2>1, <3>1
  <2>2. CASE n + 1 # Len(p)
    <3>1. n + 1 \in 1..(Len(p) - 1)
      BY <1>2, <1>3, <2>2
    <3> QED BY <3>1, ScanWellFormed DEF S!WellFormed
  <2> QED BY <2>1, <2>2
<1>7. S!Under(p, c)
  BY <1>2, <1>3, <1>5 DEF S!Under
<1>8. SubSeq(c, 1, n) = q
  <2>1. SubSeq(c, 1, n) \in Seq(S!Names) /\ Len(SubSeq(c, 1, n)) = n
        /\ \A k \in 1..n : SubSeq(c, 1, n)[k] = c[k]
    <3> HIDE DEF c
    <3> QED BY <1>2, <1>5
  <2>2. Len(q) = n /\ \A k \in 1..n : q[k] = p[k]
    BY <1>1, <1>2
  <2>3. \A k \in 1..n : SubSeq(c, 1, n)[k] = q[k]
    BY <1>2, <1>5, <2>1, <2>2
  <2> HIDE DEF c
  <2> QED BY <1>1, <2>1, <2>2, <2>3
<1>9. S!Child(c, q) /\ c[1] = p[1] /\ c \in S!Paths
  <2>1. c[1] = p[1]
    BY <1>2, <1>5
  <2>2. c \in S!Paths
    BY <1>6 DEF S!Paths
  <2>3. Len(q) <= Len(c) /\ Len(c) = Len(q) + 1
    BY <1>2, <1>5
  <2> HIDE DEF c
  <2> QED BY <1>8, <2>1, <2>2, <2>3 DEF S!Child, S!Under
<1> QED BY <1>4, <1>6, <1>7, <1>9

\* A root whose listing shows something has its disk.
LEMMA ReadableHere == ASSUME ScanTypes, NEW r \in S!Readable PROVE r \notin away
<1>1. r \in Roots /\ S!Listing(<<r>>) # {}
  BY DEF S!Readable
<1>2. PICK q \in S!Paths : S!Child(q, <<r>>) /\ S!Present(q)
  BY <1>1 DEF S!Listing
<1>3. q \in Seq(S!Names) /\ q # <<>>
  BY ScanWellFormed DEF S!WellFormed
<1>4. Len(q) = 2 /\ SubSeq(q, 1, 1) = <<r>>
  BY <1>2 DEF S!Child, S!Under
<1>5. q[1] = r
  <2>1. SubSeq(q, 1, 1)[1] = q[1]
    BY <1>3, <1>4
  <2>2. <<r>>[1] = r
    OBVIOUS
  <2> QED BY <1>4, <2>1, <2>2
<1>6. S!RootOf(q) # q
  BY <1>4 DEF S!RootOf
<1> QED BY <1>2, <1>5, <1>6 DEF S!Present

LEMMA UnderIs ==
    ASSUME NEW p \in S!Paths, NEW q \in S!Paths
    PROVE  S!Under(p, q) <=> Len(q) <= Len(p) /\ \A k \in 1..Len(q) : p[k] = q[k]
<1> DEFINE h == SubSeq(p, 1, Len(q))
<1>1. p \in Seq(S!Names) /\ q \in Seq(S!Names)
  BY ScanWellFormed DEF S!WellFormed
<1>2. ASSUME Len(q) <= Len(p)
      PROVE  h \in Seq(S!Names) /\ Len(h) = Len(q) /\ \A k \in 1..Len(q) : h[k] = p[k]
  BY <1>1, <1>2
<1>3. ASSUME Len(q) <= Len(p), \A k \in 1..Len(q) : p[k] = q[k] PROVE h = q
  <2>1. h \in Seq(S!Names) /\ Len(h) = Len(q) /\ \A k \in 1..Len(h) : h[k] = q[k]
    BY <1>2, <1>3
  <2> HIDE DEF h
  <2> QED BY <1>1, <2>1, SeqEqual
<1>4. ASSUME Len(q) <= Len(p), h = q PROVE \A k \in 1..Len(q) : p[k] = q[k]
  <2>1. \A k \in 1..Len(q) : h[k] = p[k]
    BY <1>2, <1>4
  <2> HIDE DEF h
  <2> QED BY <1>4, <2>1
<1> QED BY <1>3, <1>4 DEF S!Under

LEMMA UnderTransitive ==
    ASSUME NEW p \in S!Paths, NEW q \in S!Paths, NEW f \in S!Paths, S!Under(p, q), S!Under(q, f)
    PROVE  S!Under(p, f)
<1>1. Len(p) \in Nat /\ Len(q) \in Nat /\ Len(f) \in Nat
  BY ScanWellFormed DEF S!WellFormed
<1>2. Len(q) <= Len(p) /\ Len(f) <= Len(q) /\ (\A k \in 1..Len(q) : p[k] = q[k])
      /\ \A k \in 1..Len(f) : q[k] = f[k]
  BY UnderIs
<1>3. Len(f) <= Len(p) /\ \A k \in 1..Len(f) : p[k] = f[k]
  BY <1>1, <1>2
<1> QED BY <1>3, UnderIs

LEMMA SameRoot ==
    ASSUME NEW p \in S!Paths, NEW q \in S!Paths, S!Under(p, q)
    PROVE  p[1] = q[1]
<1>1. Len(q) \in Nat /\ Len(q) >= 1
  BY ScanWellFormed DEF S!WellFormed
<1> QED BY <1>1, UnderIs

LEMMA RootUnder ==
    ASSUME NEW p \in S!Paths, NEW r \in Roots, S!Under(<<r>>, p)
    PROVE  Len(p) <= 1
BY DEF S!Under

-----------------------------------------------------------------------------
\* A first step.
LEMMA ScanInit == S!Init => ScanInv
<1> SUFFICES ASSUME S!Init PROVE ScanInv
  OBVIOUS
<1> DEFINE free == [buf |-> {}, send |-> <<>>, ended |-> FALSE]
<1>1. free \in Walker
  BY DEF Walker
<1>2. thread = [t \in Threads |-> free]
  BY DEF S!Init, S!Idle
<1>3. ScanTypes
  <2>1. thread \in [Threads -> Walker]
    <3> HIDE DEF free
    <3> QED BY <1>1, <1>2
  <2>2. tree \subseteq S!Paths /\ sent \in Seq(Message)
    BY DEF S!Init
  <2> QED BY <2>1, <2>2 DEF S!Init, ScanTypes
<1>4. Closed
  <2>1. \A p \in S!Paths : p \in tree => \A q \in Folders : S!Under(p, q) => q \in tree
    BY DEF S!Init
  <2>2. \A r \in Roots : <<r>> \in S!Paths /\ Len(<<r>>) = 1
    BY ScanWellFormed DEF S!WellFormed, S!Paths
  <2>3. \A p \in S!Paths : Len(p) = 1 => p \in tree
    BY DEF S!Init
  <2> QED BY <1>3, <2>1, <2>2, <2>3 DEF Closed, ScanTypes
<1>5. Began
  <2>1. DOMAIN before = {}
    BY DEF S!Init
  <2> QED BY <2>1 DEF S!Init, Began
<1>6. phase = "idle"
  BY DEF S!Init
<1> QED BY <1>3, <1>4, <1>5, <1>6
        DEF S!Init, ScanInv, Ending, FoundFirst, Steady, SweptRight, S!SweptRight,
            S!KeptUnlessCycled, S!SteadyKept, S!GoneSwept

\* Before a walk.
LEMMA ScanBegins == ASSUME ScanInv, S!Begin PROVE ScanInv'
<1>1. /\ phase = "idle" /\ phase' = "walking" /\ first' = tree
      /\ before' = [r \in S!Readable |-> S!Device(r)] /\ todo' = {<<r>> : r \in Roots}
      /\ UNCHANGED <<tree, away, indexed, thread, sent, blind, tooBlind, got, stop, cancelled,
                     cycled, nameless>>
  BY DEF S!Begin
<1>2. got = {} /\ sent = <<>> /\ \A t \in Threads : thread[t] = S!Idle
  BY <1>1 DEF ScanInv, Began
<1>3. todo' \subseteq tree /\ tree \subseteq S!Paths
  BY <1>1 DEF ScanInv, ScanTypes, Closed
<1>4. ScanTypes' /\ Closed'
  BY <1>1, <1>3 DEF ScanInv, ScanTypes, Closed
<1>5. Began'
  <2>1. \A r \in S!Readable : S!Device(r) = "disk"
    BY ReadableHere DEF ScanInv, S!Device
  <2> QED BY <1>1, <2>1 DEF Began
<1>6. Ending'
  <2>1. \E t \in Threads : TRUE
    BY ScanWellFormed DEF S!WellFormed
  <2> QED BY <1>1, <1>2, <2>1 DEF Ending, S!Idle
<1>7. \A p \in S!Paths : ~Met(p)'
  BY <1>1, <1>2, CarriesNone DEF Met, S!Idle
<1>8. FoundFirst'
  BY <1>1, <1>3, <1>7 DEF FoundFirst
<1>9. Steady'
  <2>1. ASSUME NEW p \in S!Paths PROVE Accounted(p)'
    <3>1. <<p[1]>> \in todo' /\ S!Under(p, <<p[1]>>) /\ <<p[1]>> \in S!Paths
      BY <1>1, UnderRoot
    <3> QED BY <3>1 DEF Accounted
  <2> QED BY <1>1, <1>3, <2>1 DEF Steady
<1> QED BY <1>1, <1>2, <1>4, <1>5, <1>6, <1>8, <1>9
        DEF ScanInv, SweptRight, S!SweptRight, S!KeptUnlessCycled, S!SteadyKept, S!GoneSwept

-----------------------------------------------------------------------------
\* Within a walk.
\* The disks, and whoever stops the service.
LEMMA DisksStep ==
    ASSUME ScanInv, phase = "walking", phase' = "walking",
           UNCHANGED <<indexed, before, first, todo, thread, sent, got, blind, tooBlind, cancelled,
                       nameless>>,
           tree' \subseteq tree, Closed', cycled => cycled',
           ~cycled' => \A r \in DOMAIN before : r \notin away' => r \notin away
    PROVE  ScanInv'
<1>1. ScanTypes' /\ Began' /\ Ending'
  BY DEF ScanInv, ScanTypes, Began, Ending
<1>2. \A p \in S!Paths : (Met(p)' <=> Met(p)) /\ (Refused(p)' <=> Refused(p))
  BY DEF Met, Refused
<1>3. FoundFirst'
  BY <1>2 DEF ScanInv, FoundFirst
<1>4. \A p \in S!Paths : Accounted(p) => Accounted(p)'
  BY <1>2 DEF Accounted
<1>5. Steady'
  BY <1>4 DEF ScanInv, Steady, ScanTypes
<1>6. SweptRight'
  BY DEF SweptRight, S!SweptRight, S!KeptUnlessCycled, S!SteadyKept, S!GoneSwept
<1> QED BY <1>1, <1>3, <1>5, <1>6 DEF ScanInv

LEMMA ScanStops == ASSUME ScanInv, S!Stops PROVE ScanInv'
<1>1. /\ phase = "walking" /\ phase' = "walking"
      /\ UNCHANGED <<tree, away, indexed, before, first, todo, thread, sent, got, blind, tooBlind,
                     cancelled, nameless, cycled>>
  BY DEF S!Stops
<1>2. Closed'
  BY <1>1 DEF ScanInv, Closed
<1> QED BY <1>1, <1>2, DisksStep

LEMMA ScanUnmounts == ASSUME ScanInv, NEW r \in Roots, S!Unmounts(r) PROVE ScanInv'
<1>1. /\ phase = "walking" /\ phase' = "walking" /\ away' = away \cup {r}
      /\ UNCHANGED <<tree, indexed, before, first, todo, thread, sent, got, blind, tooBlind,
                     cancelled, nameless, cycled>>
  BY DEF S!Unmounts, S!Faulty
<1>2. Closed'
  BY <1>1 DEF ScanInv, Closed
<1> QED BY <1>1, <1>2, DisksStep

LEMMA ScanMounts == ASSUME ScanInv, NEW r \in Roots, S!Mounts(r) PROVE ScanInv'
<1>1. /\ phase = "walking" /\ phase' = "walking" /\ away' = away \ {r}
      /\ cycled' = (cycled \/ r \in DOMAIN before)
      /\ UNCHANGED <<tree, indexed, before, first, todo, thread, sent, got, blind, tooBlind,
                     cancelled, nameless>>
  BY DEF S!Mounts, S!Faulty
<1>2. Closed'
  BY <1>1 DEF ScanInv, Closed
<1> QED BY <1>1, <1>2, DisksStep

LEMMA ScanRemoves == ASSUME ScanInv, NEW p \in S!Paths, S!Removes(p) PROVE ScanInv'
<1>1. /\ phase = "walking" /\ phase' = "walking" /\ Len(p) > 1
      /\ tree' = {q \in tree : ~S!Under(q, p)}
      /\ UNCHANGED <<away, indexed, before, first, todo, thread, sent, got, blind, tooBlind,
                     cancelled, nameless, cycled>>
  BY DEF S!Removes, S!Faulty
<1>2. Closed /\ tree \subseteq S!Paths
  BY DEF ScanInv, ScanTypes
<1>3. Len(p) \in Nat
  BY ScanWellFormed DEF S!WellFormed
<1>4. ASSUME NEW q \in tree', NEW f \in Folders, S!Under(q, f) PROVE f \in tree'
  <2>1. f \in tree /\ q \in S!Paths /\ f \in S!Paths /\ ~S!Under(q, p)
    BY <1>1, <1>2, <1>4 DEF Closed, S!Paths
  <2>2. ~S!Under(f, p)
    BY <1>4, <2>1, UnderTransitive
  <2> QED BY <1>1, <2>1, <2>2
<1>5. ASSUME NEW r \in Roots PROVE <<r>> \in tree'
  <2>1. ~S!Under(<<r>>, p)
    BY <1>1, <1>3, RootUnder
  <2> QED BY <1>1, <1>2, <2>1 DEF Closed
<1>6. Closed'
  BY <1>4, <1>5 DEF Closed
<1> QED BY <1>1, <1>6, DisksStep

\* The threads and the sink: what was found or refused is not denied on its way, what is
\* found was there, and what is visited leads to what is below it.
LEMMA WalkStep ==
    ASSUME ScanInv, phase = "walking", phase' = "walking",
           UNCHANGED <<tree, away, indexed, before, first, cycled>>,
           ScanTypes', Ending', got' \subseteq S!Paths, todo' \subseteq first,
           \A p \in S!Paths : Met(p)' => Met(p) \/ p \in first,
           nameless => nameless', cancelled => cancelled', tooBlind => tooBlind',
           ~nameless' /\ ~cancelled' /\ ~tooBlind' =>
               \A p \in tree \ LeftOut : p[1] \notin away /\ Accounted(p) => Accounted(p)'
    PROVE  ScanInv'
<1>1. Closed' /\ Began'
  BY DEF ScanInv, Closed, Began
<1>2. FoundFirst'
  BY DEF ScanInv, FoundFirst
<1>3. Steady'
  <2> SUFFICES ASSUME ~cycled', ~nameless', ~cancelled', ~tooBlind',
                      NEW p \in (first' \cap tree') \ LeftOut, p[1] \in DOMAIN before',
                      p[1] \notin away'
               PROVE  Accounted(p)'
    BY DEF Steady
  <2>1. p \in (first \cap tree) \ LeftOut /\ p[1] \in DOMAIN before /\ p[1] \notin away
        /\ ~cycled /\ ~nameless /\ ~cancelled /\ ~tooBlind
    OBVIOUS
  <2>2. Accounted(p)
    BY <2>1 DEF ScanInv, Steady
  <2> QED BY <2>1, <2>2
<1>4. SweptRight'
  BY DEF SweptRight, S!SweptRight, S!KeptUnlessCycled, S!SteadyKept, S!GoneSwept
<1> QED BY <1>1, <1>2, <1>3, <1>4 DEF ScanInv

\* What reading a directory can come to.
LEMMA ReadsAre ==
    ASSUME ScanInv, phase = "walking", NEW p \in todo, NEW r \in S!Reads(p)
    PROVE  /\ r.found \subseteq tree /\ r.found \subseteq S!Paths
           /\ r.send \in {<<>>, S!Unreadable(p), S!Unreadable(NoPath)}
           /\ \A x \in tree \ LeftOut :
                 /\ x[1] \notin away /\ S!Under(x, p) /\ x # p
                 /\ r.send # S!Unreadable(p) /\ r.send # S!Unreadable(NoPath)
                 => \E c \in r.found : S!Under(x, c)
<1>1. p \in S!Paths /\ tree \subseteq S!Paths /\ Closed /\ todo \subseteq first
  BY DEF ScanInv, ScanTypes, FoundFirst
<1>2. S!Listing(p) \subseteq tree /\ S!Listing(p) \subseteq S!Paths
  BY DEF S!Listing, S!Present
<1> DEFINE none == [found |-> {}, send |-> <<>>, fault |-> 0]
           denied(k) == [found |-> {}, send |-> S!Unreadable(p), fault |-> k]
           whole == [found |-> S!Listing(p), send |-> <<>>, fault |-> 0]
           cut(some) == [found |-> some, send |-> S!Unreadable(NoPath), fault |-> 1]
<1>3. \/ (p \notin Folders \/ S!Prunes(p)) /\ r = none
      \/ p \in Folders /\ ~S!Prunes(p) /\ ~S!Present(p) /\ r = denied(0)
      \/ r = whole
      \/ r = denied(1)
      \/ \E some \in SUBSET S!Listing(p) : r = cut(some)
  <2>1. CASE p \notin Folders \/ S!Prunes(p)
    BY <2>1 DEF S!Reads
  <2>2. CASE ~(p \notin Folders \/ S!Prunes(p)) /\ ~S!Present(p)
    BY <2>2 DEF S!Reads
  <2>3. CASE ~(p \notin Folders \/ S!Prunes(p)) /\ S!Present(p)
    BY <2>3 DEF S!Reads
  <2> QED BY <2>1, <2>2, <2>3
<1>4. /\ none.found = {} /\ none.send = <<>>
      /\ \A k : denied(k).found = {} /\ denied(k).send = S!Unreadable(p)
      /\ whole.found = S!Listing(p) /\ whole.send = <<>>
      /\ \A some : cut(some).found = some /\ cut(some).send = S!Unreadable(NoPath)
  OBVIOUS
<1> HIDE DEF none, denied, whole, cut
<1>5. r.found \subseteq S!Listing(p)
      /\ r.send \in {<<>>, S!Unreadable(p), S!Unreadable(NoPath)}
  BY <1>3, <1>4
<1>6. ASSUME NEW x \in tree \ LeftOut, x[1] \notin away, S!Under(x, p), x # p,
             r.send # S!Unreadable(p), r.send # S!Unreadable(NoPath)
      PROVE  \E c \in r.found : S!Under(x, c)
  <2>1. x \in S!Paths
    BY <1>1
  <2>2. p \in Folders
    BY <1>1, <1>6, <2>1, StepDown
  <2>3. PICK c \in S!Paths : S!Child(c, p) /\ S!Under(x, c) /\ c[1] = x[1]
                             /\ (c = x \/ c \in Folders)
    BY <1>1, <1>6, <2>1, StepDown
  <2>4. ~S!Prunes(p)
    BY <1>6, <2>1 DEF S!Prunes
  <2>5. S!Present(p)
    <3>1. p \in tree
      BY <1>1, <1>6, <2>2 DEF Closed
    <3>2. p[1] = x[1]
      BY <1>1, <1>6, <2>1, SameRoot
    <3> QED BY <1>6, <3>1, <3>2 DEF S!Present
  <2>6. r = whole
    BY <1>3, <1>4, <1>6, <2>2, <2>4, <2>5
  <2>7. c \in S!Listing(p)
    <3>1. c \in tree
      BY <1>1, <1>6, <2>3 DEF Closed
    <3> QED BY <1>6, <2>3, <3>1 DEF S!Listing, S!Present
  <2> QED BY <1>4, <2>3, <2>6, <2>7
<1> QED BY <1>2, <1>5, <1>6

\* A thread's buffer and what it sends, after a path was pushed.
LEMMA HandedIs ==
    ASSUME NEW b \in SUBSET S!Paths, NEW x \in S!Paths
    PROVE  /\ S!Handed(b).buf \in SUBSET S!Paths /\ S!Handed(b).send \in Seq(Message)
           /\ x \in b <=> x \in S!Handed(b).buf \/ Carries(S!Handed(b).send, "entries", x)
           /\ ~Carries(S!Handed(b).send, "unreadable", x)
<1> DEFINE m == [kind |-> "entries", what |-> b]
<1>1. m \in Message /\ m.kind = "entries" /\ m.what = b
  BY DEF Message
<1>2. m.kind # "unreadable"
  OBVIOUS
<1> HIDE DEF m
<1>3. /\ <<m>> \in Seq(Message)
      /\ Carries(<<m>>, "entries", x) <=> x \in b
      /\ ~Carries(<<m>>, "unreadable", x)
  BY <1>1, <1>2, CarriesOne
<1>4. S!Handed(b) = [buf |-> b, send |-> <<>>] \/ S!Handed(b) = [buf |-> {}, send |-> <<m>>]
  BY DEF S!Handed, m
<1>5. CASE S!Handed(b) = [buf |-> b, send |-> <<>>]
  BY <1>5, CarriesNone
<1>6. CASE S!Handed(b) = [buf |-> {}, send |-> <<m>>]
  BY <1>3, <1>6
<1> QED BY <1>4, <1>5, <1>6

LEMMA UnreadableIs ==
    ASSUME NEW q \in S!Paths \cup {NoPath}, NEW x \in S!Paths
    PROVE  /\ S!Unreadable(q) \in Seq(Message)
           /\ ~Carries(S!Unreadable(q), "entries", x)
           /\ Carries(S!Unreadable(q), "unreadable", x) <=> x = q
<1> DEFINE m == [kind |-> "unreadable", what |-> {q}]
<1>1. m \in Message /\ m.kind = "unreadable" /\ m.what = {q} /\ m.kind # "entries"
  BY DEF Message
<1> HIDE DEF m
<1>2. S!Unreadable(q) = <<m>>
  BY DEF S!Unreadable, m
<1>3. <<m>> \in Seq(Message)
  BY <1>1
<1> QED BY <1>1, <1>2, <1>3, CarriesOne

LEMMA ScanVisits ==
    ASSUME ScanInv, NEW t \in Threads, NEW p \in todo, S!Visits(t, p)
    PROVE  ScanInv'
<1> DEFINE b == S!Pushed(thread[t].buf, p)
           h == S!Handed(b)
<1>1. /\ phase = "walking" /\ phase' = "walking" /\ ~cancelled
      /\ ~thread[t].ended /\ thread[t].send = <<>>
      /\ UNCHANGED <<tree, away, indexed, before, sent, blind, tooBlind, got, stop, cancelled,
                     first, cycled>>
  BY DEF S!Visits
<1>2. PICK r \in S!Reads(p) :
          /\ todo' = (todo \ {p}) \cup r.found
          /\ thread' = [thread EXCEPT ![t].buf = h.buf, ![t].send = h.send \o r.send]
          /\ nameless' = (nameless \/ (r.send = S!Unreadable(NoPath)))
  BY DEF S!Visits
<1>3. p \in S!Paths /\ todo \subseteq first /\ todo \subseteq S!Paths /\ tree \subseteq first
      /\ thread \in [Threads -> Walker] /\ ScanTypes
  BY <1>1 DEF ScanInv, ScanTypes, FoundFirst
<1>4. /\ r.found \subseteq tree /\ r.found \subseteq S!Paths
      /\ r.send \in {<<>>, S!Unreadable(p), S!Unreadable(NoPath)}
      /\ \A x \in tree \ LeftOut :
            /\ x[1] \notin away /\ S!Under(x, p) /\ x # p
            /\ r.send # S!Unreadable(p) /\ r.send # S!Unreadable(NoPath)
            => \E c \in r.found : S!Under(x, c)
  BY <1>1, ReadsAre
<1>5. thread[t].buf \in SUBSET S!Paths /\ b \in SUBSET S!Paths /\ b \subseteq thread[t].buf \cup {p}
      /\ thread[t].buf \subseteq b /\ (p \notin LeftOut => p \in b)
  BY <1>3 DEF Walker, S!Pushed
<1> HIDE DEF b, h
<1>6. h.buf \in SUBSET S!Paths /\ h.send \in Seq(Message)
      /\ \A x \in S!Paths :
            /\ x \in b <=> x \in h.buf \/ Carries(h.send, "entries", x)
            /\ ~Carries(h.send, "unreadable", x)
  BY <1>3, <1>5, HandedIs DEF h
<1>7. r.send \in Seq(Message) /\ \A x \in S!Paths : ~Carries(r.send, "entries", x)
  <2>1. CASE r.send = <<>>
    BY <2>1, CarriesNone
  <2>2. CASE r.send = S!Unreadable(p)
    BY <1>3, <2>2, UnreadableIs
  <2>3. CASE r.send = S!Unreadable(NoPath)
    BY <1>3, <2>3, UnreadableIs
  <2> QED BY <1>4, <2>1, <2>2, <2>3
<1> DEFINE s == h.send \o r.send
           w == [[thread[t] EXCEPT !.buf = h.buf] EXCEPT !.send = s]
<1>8. s \in Seq(Message)
      /\ \A x, kind : Carries(s, kind, x) <=>
                        Carries(h.send, kind, x) \/ Carries(r.send, kind, x)
  BY <1>6, <1>7, CarriesConcat
<1> HIDE DEF s
<1>9. thread[t] \in Walker
  BY <1>3
<1>10. thread' = [thread EXCEPT ![t] = w]
  BY <1>2 DEF s
<1>11. w \in Walker /\ w.buf = h.buf /\ w.send = s /\ w.ended = FALSE
  BY <1>1, <1>6, <1>8, <1>9 DEF Walker
<1> HIDE DEF w
<1>12. thread' \in [Threads -> Walker] /\ thread'[t] = w
       /\ \A u \in Threads \ {t} : thread'[u] = thread[u]
  BY <1>3, <1>10, <1>11
<1>13. ScanTypes'
  BY <1>1, <1>2, <1>3, <1>4, <1>12 DEF ScanTypes
<1>14. Ending'
  <2>1. ~thread'[t].ended
    BY <1>11, <1>12
  <2>2. \A u \in Threads : thread'[u].ended => thread'[u].buf = {}
    BY <1>1, <1>12, <2>1 DEF ScanInv, Ending
  <2> QED BY <2>1, <2>2 DEF Ending
<1>15. ASSUME NEW x \in S!Paths, Met(x)' PROVE Met(x) \/ x \in first
  <2>1. x \in w.buf \/ Carries(w.send, "entries", x) => x \in b
    BY <1>6, <1>7, <1>8, <1>11
  <2>2. x \in b => Met(x) \/ x \in first
    BY <1>3, <1>5 DEF Met
  <2> QED BY <1>1, <1>12, <1>15, <2>1, <2>2 DEF Met
<1>16. ASSUME NEW x \in S!Paths PROVE (x \in b => Met(x)') /\ (Met(x) => Met(x)')
  <2>1. x \in b => Met(x)'
    <3>1. x \in b => x \in w.buf \/ Carries(w.send, "entries", x)
      BY <1>6, <1>8, <1>11
    <3> QED BY <1>12, <3>1 DEF Met
  <2>2. Met(x) => Met(x)'
    <3>1. ~Carries(thread[t].send, "entries", x)
      BY <1>1, CarriesNone
    <3> QED BY <1>1, <1>5, <1>12, <2>1, <3>1 DEF Met
  <2> QED BY <2>1, <2>2
<1>17. ASSUME NEW x \in S!Paths, Refused(x) PROVE Refused(x)'
  <2>1. ~Carries(thread[t].send, "unreadable", x)
    BY <1>1, CarriesNone
  <2> QED BY <1>1, <1>12, <1>17, <2>1 DEF Refused
<1>18. ASSUME NEW x \in tree \ LeftOut, x[1] \notin away, Accounted(x), ~nameless'
       PROVE  Accounted(x)'
  <2>1. x \in S!Paths
    BY <1>3 DEF ScanTypes
  <2>2. CASE Met(x)
    BY <1>16, <2>1, <2>2 DEF Accounted
  <2>3. CASE \E q \in S!Paths : S!Under(x, q) /\ (q \in todo \ {p} \/ Refused(q))
    <3>1. PICK q \in S!Paths : S!Under(x, q) /\ (q \in todo \ {p} \/ Refused(q))
      BY <2>3
    <3>2. q \in todo' \/ Refused(q)'
      BY <1>2, <1>17, <3>1
    <3> QED BY <3>1, <3>2 DEF Accounted
  <2>4. CASE S!Under(x, p) /\ x = p
    <3>1. x \in b
      BY <1>5, <1>18, <2>4
    <3> QED BY <1>16, <2>1, <3>1 DEF Accounted
  <2>5. CASE S!Under(x, p) /\ x # p
    <3>1. r.send # S!Unreadable(NoPath)
      BY <1>2, <1>18
    <3>2. CASE r.send = S!Unreadable(p)
      <4>1. Carries(w.send, "unreadable", p)
        BY <1>3, <1>8, <1>11, <3>2, UnreadableIs
      <4>2. Refused(p)'
        BY <1>12, <4>1 DEF Refused
      <4> QED BY <1>3, <2>5, <4>2 DEF Accounted
    <3>3. CASE r.send # S!Unreadable(p)
      <4>1. PICK c \in r.found : S!Under(x, c)
        BY <1>4, <1>18, <2>5, <3>1, <3>3
      <4>2. c \in todo' /\ c \in S!Paths
        BY <1>2, <1>4
      <4> QED BY <4>1, <4>2 DEF Accounted
    <3> QED BY <3>2, <3>3
  <2>6. Met(x) \/ (\E q \in S!Paths : S!Under(x, q) /\ (q \in todo \ {p} \/ Refused(q)))
        \/ S!Under(x, p)
    BY <1>18 DEF Accounted
  <2> QED BY <2>2, <2>3, <2>4, <2>5, <2>6
<1>19. todo' \subseteq first /\ got' \subseteq S!Paths
  BY <1>1, <1>2, <1>3, <1>4 DEF ScanInv
<1>20. nameless => nameless'
  BY <1>2
<1> QED BY <1>1, <1>13, <1>14, <1>15, <1>18, <1>19, <1>20, WalkStep

\* The last batch of a thread.
LEMMA ScanEnds == ASSUME ScanInv, NEW t \in Threads, S!Ends(t) PROVE ScanInv'
<1> DEFINE s == S!Tail1(t)
           w == [buf |-> {}, send |-> s, ended |-> TRUE]
           m == [kind |-> "entries", what |-> thread[t].buf]
<1>1. /\ phase = "walking" /\ phase' = "walking" /\ ~thread[t].ended /\ thread[t].send = <<>>
      /\ todo = {} \/ cancelled
      /\ thread' = [thread EXCEPT ![t] = w]
      /\ UNCHANGED <<tree, away, indexed, before, todo, sent, blind, tooBlind, got, stop,
                     cancelled, first, cycled, nameless>>
  BY DEF S!Ends
<1>2. thread \in [Threads -> Walker] /\ thread[t].buf \in SUBSET S!Paths
  BY DEF ScanInv, ScanTypes, Walker
<1>3. m \in Message /\ m.kind = "entries" /\ m.what = thread[t].buf /\ m.kind # "unreadable"
  BY <1>2 DEF Message
<1>4. s = IF thread[t].buf = {} THEN <<>> ELSE <<m>>
  BY DEF S!Tail1
<1> HIDE DEF m, s
<1>5. s \in Seq(Message)
      /\ \A x \in S!Paths : /\ Carries(s, "entries", x) <=> x \in thread[t].buf
                            /\ ~Carries(s, "unreadable", x)
  <2>1. CASE thread[t].buf = {}
    BY <1>4, <2>1, CarriesNone
  <2>2. CASE thread[t].buf # {}
    <3>1. s = <<m>> /\ <<m>> \in Seq(Message)
      BY <1>3, <1>4, <2>2
    <3> QED BY <1>3, <3>1, CarriesOne
  <2> QED BY <2>1, <2>2
<1>6. w \in Walker /\ w.buf = {} /\ w.send = s /\ w.ended = TRUE
  BY <1>5 DEF Walker
<1> HIDE DEF w
<1>7. thread' \in [Threads -> Walker] /\ thread'[t] = w
      /\ \A u \in Threads \ {t} : thread'[u] = thread[u]
  BY <1>1, <1>2, <1>6
<1>8. ScanTypes'
  BY <1>1, <1>7 DEF ScanInv, ScanTypes
<1>9. Ending'
  BY <1>1, <1>6, <1>7 DEF ScanInv, Ending
<1>10. \A x \in S!Paths : /\ ~Carries(thread[t].send, "entries", x)
                           /\ ~Carries(thread[t].send, "unreadable", x)
  BY <1>1, CarriesNone
<1>11. ASSUME NEW x \in S!Paths PROVE Met(x)' <=> Met(x)
  BY <1>1, <1>5, <1>6, <1>7, <1>10 DEF Met
<1>12. ASSUME NEW x \in S!Paths PROVE Refused(x)' <=> Refused(x)
  BY <1>1, <1>5, <1>6, <1>7, <1>10 DEF Refused
<1>13. \A x \in S!Paths : Accounted(x) => Accounted(x)'
  BY <1>1, <1>11, <1>12 DEF Accounted
<1>14. todo' \subseteq first /\ got' \subseteq S!Paths /\ tree \subseteq S!Paths
  BY <1>1 DEF ScanInv, FoundFirst, ScanTypes
<1> QED BY <1>1, <1>8, <1>9, <1>11, <1>13, <1>14, WalkStep

\* A message into the channel: what it carries is on its way as it was.
LEMMA ScanSends == ASSUME ScanInv, NEW t \in Threads, S!Sends(t) PROVE ScanInv'
<1> DEFINE m == Head(thread[t].send)
           rest == Tail(thread[t].send)
           w == [thread[t] EXCEPT !.send = rest]
<1>1. /\ thread[t].send # <<>> /\ sent' = Append(sent, m)
      /\ thread' = [thread EXCEPT ![t] = w]
      /\ UNCHANGED <<tree, away, indexed, phase, before, todo, blind, tooBlind, got, stop,
                     cancelled, first, cycled, nameless>>
  BY DEF S!Sends
<1>2. thread \in [Threads -> Walker] /\ thread[t] \in Walker /\ sent \in Seq(Message)
      /\ thread[t].send \in Seq(Message)
  BY DEF ScanInv, ScanTypes, Walker
<1>3. m \in Message /\ rest \in Seq(Message)
  BY <1>1, <1>2
<1>4. \A kind, x : Carries(thread[t].send, kind, x) <=>
                       (m.kind = kind /\ x \in m.what) \/ Carries(rest, kind, x)
  BY <1>1, <1>2, CarriesTail
<1>5. Append(sent, m) \in Seq(Message)
  BY <1>2, <1>3
<1> HIDE DEF m, rest
<1>6. \A kind, x : Carries(sent', kind, x) <=>
                       Carries(sent, kind, x) \/ (m.kind = kind /\ x \in m.what)
  BY <1>1, <1>2, <1>3, CarriesAppend
<1>7. w \in Walker /\ w.buf = thread[t].buf /\ w.send = rest /\ w.ended = thread[t].ended
  BY <1>2, <1>3 DEF Walker
<1> HIDE DEF w
<1>8. thread' \in [Threads -> Walker] /\ thread'[t] = w
      /\ \A u \in Threads \ {t} : thread'[u] = thread[u]
  BY <1>1, <1>2, <1>7
<1>9. ScanTypes'
  BY <1>1, <1>5, <1>8 DEF ScanInv, ScanTypes
<1>10. phase # "idle"
  BY <1>1 DEF ScanInv, Began, S!Idle
<1>11. CASE phase = "walking"
  <2>1. Ending'
    BY <1>1, <1>7, <1>8 DEF ScanInv, Ending
  <2>2. ASSUME NEW x \in S!Paths PROVE Met(x)' <=> Met(x)
    BY <1>1, <1>4, <1>6, <1>7, <1>8 DEF Met
  <2>3. ASSUME NEW x \in S!Paths PROVE Refused(x)' <=> Refused(x)
    BY <1>1, <1>4, <1>6, <1>7, <1>8 DEF Refused
  <2>4. \A x \in S!Paths : Accounted(x) => Accounted(x)'
    BY <1>1, <2>2, <2>3 DEF Accounted
  <2>5. todo' \subseteq first /\ got' \subseteq S!Paths /\ tree \subseteq S!Paths
    BY <1>1, <1>11 DEF ScanInv, FoundFirst, ScanTypes
  <2> QED BY <1>1, <1>9, <1>11, <2>1, <2>2, <2>4, <2>5, WalkStep
<1>12. CASE phase # "walking"
  <2>1. Closed' /\ Began'
    BY <1>1, <1>10 DEF ScanInv, Closed, Began
  <2>2. SweptRight'
    BY <1>1, <1>12 DEF ScanInv, SweptRight, S!SweptRight, S!KeptUnlessCycled, S!SteadyKept,
                       S!GoneSwept, S!Spared
  <2> QED BY <1>1, <1>9, <1>12, <2>1, <2>2 DEF ScanInv, Ending, FoundFirst, Steady
<1> QED BY <1>11, <1>12

\* A message out of it: entries go to the sink, refusals among the blind paths, and what
\* there is no room for is remembered as such.
LEMMA ScanReceives == ASSUME ScanInv, S!Receives PROVE ScanInv'
<1> DEFINE m == Head(sent)
<1>1. /\ phase = "walking" /\ phase' = "walking" /\ sent # <<>> /\ sent' = Tail(sent)
      /\ UNCHANGED <<tree, away, indexed, before, todo, thread, stop, first, cycled, nameless>>
  BY DEF S!Receives
<1>2. \/ cancelled /\ UNCHANGED <<blind, tooBlind, got, cancelled>>
      \/ /\ ~cancelled /\ m.kind = "entries" /\ cancelled' = stop
         /\ got' = IF stop THEN got ELSE got \cup m.what
         /\ UNCHANGED <<blind, tooBlind>>
      \/ /\ ~cancelled /\ m.kind # "entries"
         /\ blind' = IF S!Room THEN blind \cup (m.what \ {NoPath}) ELSE blind
         /\ tooBlind' = (tooBlind \/ (m.what # {NoPath} /\ ~S!Room))
         /\ UNCHANGED <<got, cancelled>>
  BY DEF S!Receives
<1>3. sent \in Seq(Message) /\ m \in Message /\ Tail(sent) \in Seq(Message)
  BY <1>1 DEF ScanInv, ScanTypes
<1>4. \A kind, x : Carries(sent, kind, x) <=>
                       (m.kind = kind /\ x \in m.what) \/ Carries(sent', kind, x)
  BY <1>1, <1>3, CarriesTail
<1> HIDE DEF m
<1>5. m.kind = "entries" => m.what \subseteq S!Paths
  BY <1>3 DEF Message
<1>6. NoPath \notin S!Paths
  BY ScanWellFormed DEF S!WellFormed
<1>7. ScanTypes' /\ Ending'
  <2>1. ScanTypes'
    BY <1>1, <1>3 DEF ScanInv, ScanTypes
  <2>2. cancelled => cancelled'
    BY <1>2
  <2> QED BY <1>1, <2>1, <2>2 DEF ScanInv, Ending
<1>8. got' \subseteq S!Paths /\ todo' \subseteq first /\ tree \subseteq S!Paths
  BY <1>1, <1>2, <1>5 DEF ScanInv, FoundFirst, ScanTypes
<1>9. (cancelled => cancelled') /\ (tooBlind => tooBlind')
  <2>1. cancelled => cancelled'
    BY <1>2
  <2>2. tooBlind => tooBlind'
    BY <1>2, Zenon
  <2> QED BY <2>1, <2>2
<1>10. ASSUME NEW x \in S!Paths, Met(x)' PROVE Met(x)
  <2>1. x \in got' => x \in got \/ Carries(sent, "entries", x)
    BY <1>2, <1>4
  <2> QED BY <1>1, <1>4, <1>10, <2>1 DEF Met
<1>11. ASSUME NEW x \in S!Paths, ~cancelled', ~tooBlind', Met(x) PROVE Met(x)'
  <2>1. x \in got => x \in got'
    BY <1>2
  <2>2. m.kind = "entries" /\ x \in m.what => x \in got'
    BY <1>2, <1>11
  <2> QED BY <1>1, <1>4, <1>11, <2>1, <2>2 DEF Met
<1>12. ASSUME NEW x \in S!Paths, ~cancelled', ~tooBlind', Refused(x) PROVE Refused(x)'
  <2>1. x \in blind => x \in blind'
    BY <1>2
  <2>2. m.kind = "unreadable" /\ x \in m.what => x \in blind'
    <3>1. x \in m.what => m.what # {NoPath}
      BY <1>6
    <3>2. ~cancelled /\ m.kind # "entries" /\ m.what # {NoPath} => S!Room
      BY <1>2, <1>12, Zenon
    <3>3. ~cancelled /\ m.kind # "entries" /\ S!Room => blind' = blind \cup (m.what \ {NoPath})
      BY <1>2
    <3> QED BY <1>6, <1>9, <1>12, <3>1, <3>2, <3>3
  <2> QED BY <1>1, <1>4, <1>12, <2>1, <2>2 DEF Refused
<1>13. ASSUME NEW x \in S!Paths, ~cancelled', ~tooBlind', Accounted(x) PROVE Accounted(x)'
  BY <1>1, <1>11, <1>12, <1>13 DEF Accounted
<1> QED BY <1>1, <1>7, <1>8, <1>9, <1>10, <1>13, WalkStep

\* The end: with nothing to visit, in a buffer or on its way, what is accounted for has
\* been given to the sink, or is below a path that was refused, which the sweep spares.
LEMMA ScanFinish == ASSUME ScanInv, S!Finish PROVE ScanInv'
<1>1. /\ phase = "walking" /\ phase' = "done" /\ sent = <<>>
      /\ \A t \in Threads : thread[t].ended /\ thread[t].send = <<>>
      /\ indexed' = (indexed \cup got) \ S!Swept
      /\ UNCHANGED <<tree, away, before, todo, thread, sent, blind, tooBlind, got, stop,
                     cancelled, first, cycled, nameless>>
  BY DEF S!Finish
<1>2. indexed = S!Paths \ LeftOut /\ tree \subseteq S!Paths /\ got \subseteq S!Paths
      /\ \A r \in DOMAIN before : before[r] = "disk"
  BY <1>1 DEF ScanInv, ScanTypes, Began
<1>3. ScanTypes' /\ Closed' /\ Began'
  BY <1>1 DEF ScanInv, ScanTypes, Closed, Began
<1>4. ASSUME ~cycled, ~nameless, NEW p \in (first \cap tree) \ LeftOut, p \in S!Swept
      PROVE  FALSE
  <2>1. ~cancelled /\ p \notin got /\ p[1] \in S!Vouched /\ ~S!Spared(p)
    BY <1>4 DEF S!Swept
  <2>2. ~tooBlind /\ p[1] \in DOMAIN before /\ before[p[1]] = S!Device(p[1])
    BY <2>1 DEF S!Vouched
  <2>3. p[1] \notin away
    BY <1>2, <2>2 DEF S!Device
  <2>4. Accounted(p)
    BY <1>1, <1>4, <2>1, <2>2, <2>3 DEF ScanInv, Steady
  <2>5. todo = {} /\ \A t \in Threads : thread[t].buf = {}
    BY <1>1, <2>1 DEF ScanInv, Ending
  <2>6. ~Met(p)
    BY <1>1, <2>1, <2>5, CarriesNone DEF Met
  <2>7. PICK q \in S!Paths : S!Under(p, q) /\ Refused(q)
    BY <2>4, <2>5, <2>6 DEF Accounted
  <2>8. q \in blind
    BY <1>1, <2>7, CarriesNone DEF Refused
  <2> QED BY <2>1, <2>7, <2>8 DEF S!Spared
<1>5. S!KeptUnlessCycled'
  BY <1>1, <1>2, <1>4 DEF S!KeptUnlessCycled, S!SteadyKept
<1>6. S!GoneSwept'
  <2> SUFFICES ASSUME ~cancelled, ~tooBlind, NEW p \in indexed',
                      p \notin first, p[1] \notin away, p[1] \in DOMAIN before
               PROVE  S!Spared(p)
    BY <1>1 DEF S!GoneSwept, S!Spared
  <2>1. p \notin got
    BY <1>1, <1>2 DEF ScanInv, FoundFirst, Met
  <2>2. p[1] \in S!Vouched
    BY <1>2 DEF S!Vouched, S!Device
  <2>3. p \in indexed /\ p \notin S!Swept
    BY <1>1, <2>1
  <2> QED BY <2>1, <2>2, <2>3 DEF S!Swept
<1> QED BY <1>1, <1>2, <1>3, <1>5, <1>6
        DEF ScanInv, Ending, FoundFirst, Steady, SweptRight, S!SweptRight

LEMMA ScanInductive == ASSUME ScanInv, [S!Next]_(S!scanVars) PROVE ScanInv'
<1>1. CASE S!Begin
  BY <1>1, ScanBegins
<1>2. CASE S!Stops
  BY <1>2, ScanStops
<1>3. ASSUME NEW r \in Roots, S!Unmounts(r) \/ S!Mounts(r) PROVE ScanInv'
  BY <1>3, ScanUnmounts, ScanMounts
<1>4. ASSUME NEW p \in S!Paths, S!Removes(p) PROVE ScanInv'
  BY <1>4, ScanRemoves
<1>5. ASSUME NEW t \in Threads, S!Ends(t) \/ S!Sends(t) PROVE ScanInv'
  BY <1>5, ScanEnds, ScanSends
<1>6. ASSUME NEW t \in Threads, NEW p \in todo, S!Visits(t, p) PROVE ScanInv'
  BY <1>6, ScanVisits
<1>7. CASE S!Receives
  BY <1>7, ScanReceives
<1>8. CASE S!Finish
  BY <1>8, ScanFinish
<1>9. CASE UNCHANGED S!scanVars
  BY <1>9 DEF S!scanVars, ScanInv, ScanTypes, Closed, Began, Ending, FoundFirst, Steady,
              Accounted, Met, Refused, SweptRight, S!SweptRight, S!KeptUnlessCycled,
              S!SteadyKept, S!GoneSwept, S!Spared
<1> QED BY <1>1, <1>2, <1>3, <1>4, <1>5, <1>6, <1>7, <1>8, <1>9 DEF S!Next, S!ThreadStep

\* A walk (scan.rs, and the engine's use of its report) sweeps no row of a file that was on
\* its disk throughout, whatever was mounted, refused, full or stopped meanwhile, unless a
\* disk left and came back within it or a listing broke off without saying where; and a
\* walk that went through leaves none of what was gone before it, where it could see.
THEOREM ScanSweeps == S!Spec => []SweptRight
<1>1. ScanInv /\ [S!Next]_(S!scanVars) => ScanInv'
  BY ScanInductive
<1>2. ScanInv => SweptRight
  BY DEF ScanInv
<1> QED BY <1>1, <1>2, ScanInit, PTL DEF S!Spec
=============================================================================
