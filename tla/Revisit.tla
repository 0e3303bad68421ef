------------------------------ MODULE Revisit -------------------------------
(***************************************************************************)
(* Files written through a shared mapping, which no event tells of         *)
(* (crates/scour-source-fs/src/revisit.rs, and the end of fanotify.rs's    *)
(* window): a path an event came for is noted and looked at again on a     *)
(* widening clock, until the kernel says its content is final.  Two        *)
(* threads look and send, the reader and the one that revisits.            *)
(*                                                                         *)
(* What a file holds is a version, 0 when it is gone; a row is the version *)
(* last sent for its path.                                                 *)
(***************************************************************************)
EXTENDS Naturals, Sequences, FiniteSets

CONSTANTS
    Paths,
    Tiers,      \* TIERS, a sequence
    Remember,   \* CAP
    MaxWrites,  \* bound: versions written
    Nobody

VARIABLES
    file,       \* path -> version
    open,       \* paths somebody has mapped
    events,     \* the kernel's queue: path, and whether it says the content is final
    row,        \* path -> version
    list,       \* noted path -> time left, tier, version seen, how long ago it was touched
    reading,    \* what the reader has looked at and not sent, or not noted
    looking,    \* the same for the thread that revisits
    overtaken,  \* that thread sent a version older than one the reader had sent
    dropped,    \* paths the list had no room for since they were mapped
    writes

reVars == <<file, open, events, row, list, reading, looking, overtaken, dropped, writes>>

\* What a thread has looked at is told from nothing.
Read   == [path : Paths, md : Nat, settled : BOOLEAN, sent : BOOLEAN]
Glance == [path : Paths, md : Nat, step : {"judge", "look", "send"}, late : BOOLEAN]
WellFormed == Nobody \notin Read \cup Glance

Init ==
    /\ file = [p \in Paths |-> 1] /\ row = file
    /\ open = {} /\ events = <<>> /\ list = <<>>
    /\ reading = Nobody /\ looking = Nobody
    /\ overtaken = FALSE /\ dropped = {} /\ writes = 1

-----------------------------------------------------------------------------
\* A write, with an event or through a mapping; the last close; a removal.
Writes(p, mapped) ==
    /\ writes < MaxWrites /\ file[p] # 0
    /\ mapped => p \in open
    /\ writes' = writes + 1
    /\ file' = [file EXCEPT ![p] = writes + 1]
    /\ open' = open \cup {p}
    /\ events' = IF mapped THEN events ELSE Append(events, [path |-> p, settled |-> FALSE])
    /\ UNCHANGED <<row, list, reading, looking, overtaken, dropped>>
Closes(p) ==
    /\ p \in open
    /\ open' = open \ {p} /\ dropped' = dropped \ {p}
    /\ events' = Append(events, [path |-> p, settled |-> TRUE])
    /\ UNCHANGED <<file, row, list, reading, looking, overtaken, writes>>
Removes(p) ==
    /\ file[p] # 0 /\ p \notin open
    /\ file' = [file EXCEPT ![p] = 0]
    /\ events' = Append(events, [path |-> p, settled |-> FALSE])
    /\ UNCHANGED <<open, row, list, reading, looking, overtaken, dropped, writes>>

-----------------------------------------------------------------------------
\* The reader: look, send, then note or forget.
ReaderLooks ==
    /\ reading = Nobody /\ events # <<>>
    /\ reading' = [path |-> Head(events).path, md |-> file[Head(events).path],
                   settled |-> Head(events).settled, sent |-> FALSE]
    /\ events' = Tail(events)
    /\ UNCHANGED <<file, open, row, list, looking, overtaken, dropped, writes>>
ReaderSends ==
    /\ reading # Nobody /\ ~reading.sent
    /\ row' = [row EXCEPT ![reading.path] = reading.md]
    /\ reading' = [reading EXCEPT !.sent = TRUE]
    /\ looking' = IF looking # Nobody /\ looking.path = reading.path /\ looking.step = "send"
                    THEN [looking EXCEPT !.late = TRUE] ELSE looking
    /\ UNCHANGED <<file, open, events, list, overtaken, dropped, writes>>

\* note: back to the first tier with what was read; the one least recently touched
\* makes room.
Oldest == {p \in DOMAIN list : \A q \in DOMAIN list : list[q].age <= list[p].age}
Evicted(p) == IF p \in DOMAIN list \/ Cardinality(DOMAIN list) < Remember THEN {}
              ELSE {CHOOSE q \in Oldest : TRUE}
Note(p, md) ==
    list' = [q \in (DOMAIN list \ Evicted(p)) \cup {p} |->
               IF q = p THEN [left |-> Tiers[1], tier |-> 1, seen |-> md, age |-> 0]
                        ELSE list[q]]
Forget(p) == list' = [q \in DOMAIN list \ {p} |-> list[q]]
ReaderNotes ==
    /\ reading # Nobody /\ reading.sent
    /\ IF reading.settled THEN Forget(reading.path) /\ UNCHANGED dropped
       ELSE IF reading.md = 0 THEN UNCHANGED <<list, dropped>>
       ELSE Note(reading.path, reading.md) /\ dropped' = dropped \cup Evicted(reading.path)
    /\ reading' = Nobody
    /\ UNCHANGED <<file, open, events, row, looking, overtaken, writes>>

-----------------------------------------------------------------------------
\* run: a path that is due moves to its next tier, under the lock, and is read under
\* no lock.
Glances(p) ==
    /\ looking = Nobody /\ p \in DOMAIN list /\ list[p].left = 0
    /\ LET tier == IF list[p].tier < Len(Tiers) THEN list[p].tier + 1 ELSE list[p].tier
       IN  list' = [list EXCEPT ![p].tier = tier, ![p].left = Tiers[tier]]
    /\ looking' = [path |-> p, md |-> file[p], step |-> "judge", late |-> FALSE]
    /\ UNCHANGED <<file, open, events, row, reading, overtaken, dropped, writes>>

\* Under the lock again: not what it was, so it is looked at; gone, so it is looked at
\* for the last time.
GoneNow(p) == p \notin DOMAIN list \/ looking.md # 0
Unchanged(p) == p \notin DOMAIN list \/ list[p].seen = looking.md
Judges ==
    /\ looking # Nobody /\ looking.step = "judge"
    /\ LET p == looking.path
       IN  IF Unchanged(p)
             THEN looking' = Nobody /\ UNCHANGED list
             ELSE /\ looking' = [looking EXCEPT !.step = "look"]
                  /\ IF looking.md = 0 THEN Forget(p)
                                       ELSE list' = [list EXCEPT ![p].seen = looking.md]
    /\ UNCHANGED <<file, open, events, row, reading, overtaken, dropped, writes>>
Glanced == looking.md
Looked == file[looking.path]
LooksAgain ==
    /\ looking # Nobody /\ looking.step = "look"
    /\ looking' = [looking EXCEPT !.step = "send", !.md = Looked]
    /\ UNCHANGED <<file, open, events, row, list, reading, overtaken, dropped, writes>>
SendsAgain ==
    /\ looking # Nobody /\ looking.step = "send"
    /\ row' = [row EXCEPT ![looking.path] = looking.md]
    /\ overtaken' = (overtaken \/ looking.late)
    /\ looking' = Nobody
    /\ UNCHANGED <<file, open, events, list, reading, dropped, writes>>

Tick ==
    /\ \E p \in DOMAIN list : list[p].left > 0
    /\ list' = [p \in DOMAIN list |->
                  [list[p] EXCEPT !.left = IF @ = 0 THEN 0 ELSE @ - 1,
                                  !.age = IF @ < 2 THEN @ + 1 ELSE @]]
    /\ UNCHANGED <<file, open, events, row, reading, looking, overtaken, dropped, writes>>

-----------------------------------------------------------------------------
ReaderStep == ReaderLooks \/ ReaderSends \/ ReaderNotes
RevisitStep == (\E p \in Paths : Glances(p)) \/ Judges \/ LooksAgain \/ SendsAgain

Next ==
    \/ \E p \in Paths : (\E mapped \in BOOLEAN : Writes(p, mapped)) \/ Closes(p) \/ Removes(p)
    \/ ReaderStep \/ RevisitStep \/ Tick

Spec == Init /\ [][Next]_reVars

-----------------------------------------------------------------------------
\* Once a file is closed and every event of it has been read, its row is right: neither
\* thread's look undoes the other's.
SettledRight ==
    \A p \in Paths :
        /\ p \notin open /\ reading = Nobody /\ looking = Nobody
        /\ \A n \in DOMAIN events : events[n].path # p
        => row[p] = file[p]
SettledUnlessOvertaken == overtaken \/ SettledRight

\* What is written through a mapping is shown in the end though no event tells of it,
\* as long as the list had room for its path.
MappedSeen ==
    \A p \in Paths : []<>(row[p] = file[p] \/ p \in dropped \/ overtaken)
=============================================================================
