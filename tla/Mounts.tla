------------------------------- MODULE Mounts -------------------------------
(***************************************************************************)
(* Filesystems that come and go under a watched source                     *)
(* (crates/scour-source-fs/src/fanotify.rs: try_start, leave, mounts,      *)
(* drain, note_mounts, cover_mounts).  The marks are set once, before the  *)
(* service runs, so a filesystem mounted later is not heard; the source    *)
(* says so in `uncovered', and the engine then walks it by its pulse.  The *)
(* reader is one thread for the life of the process: it reads the mount    *)
(* table when it begins and whenever it is polled, not at each change of   *)
(* it, and tells the subscriptions there are of the difference.  A source  *)
(* subscribes anew with each engine.                                       *)
(*                                                                         *)
(* Mount ids only grow here.  One that is given out again to another mount *)
(* of its point between two polls goes unseen, which is the case `again'   *)
(* is about; otherwise the reader has seen the first one go.               *)
(***************************************************************************)
EXTENDS Naturals

CONSTANTS
    Points,     \* mount points
    Inside,     \* those under the source's roots
    Ignored,    \* those the rules skip
    MaxMounts,  \* bound: filesystems mounted
    MaxSwaps    \* bound: engines after the first

VARIABLES
    mounted,    \* the mount table: <<mount id, point>>
    marked,     \* the mounts there were when the marks were set
    subscribed, \* the source has an entry in SUBS
    swaps,      \* subscriptions so far
    begun,      \* the reader has begun
    known,      \* the table as the reader saw it last
    noted,      \* the table as the subscriptions have been told of it
    base,       \* history: the table this subscription has been told of nothing before
    uncovered,  \* Sub::uncovered
    again,      \* history: it was told of a mount of a point gone and another there
    toWalk,     \* points the engine has been asked to walk
    mounts

mountVars == <<mounted, marked, subscribed, swaps, begun, known, noted, base, uncovered,
               again, toWalk, mounts>>

\* The marks are there, and the service has yet to begin.
Init ==
    /\ mounted \in {{}} \cup {{<<0, at>>} : at \in Points}
    /\ marked = mounted
    /\ subscribed = FALSE /\ swaps = 0 /\ begun = FALSE
    /\ known = {} /\ noted = {} /\ base = {}
    /\ uncovered = {} /\ again = FALSE /\ toWalk = {} /\ mounts = 0

Mount(at) ==
    /\ mounts < MaxMounts /\ mounts' = mounts + 1
    /\ mounted' = mounted \cup {<<mounts + 1, at>>}
    /\ UNCHANGED <<marked, subscribed, swaps, begun, known, noted, base, uncovered, again,
                   toWalk>>

Unmount(m) ==
    /\ mounted' = mounted \ {m}
    /\ UNCHANGED <<marked, subscribed, swaps, begun, known, noted, base, uncovered, again,
                   toWalk, mounts>>

\* try_start: the entry begins with nothing uncovered, whatever the reader knows.
Subscribe ==
    /\ ~subscribed /\ swaps <= MaxSwaps
    /\ subscribed' = TRUE /\ swaps' = swaps + 1
    /\ uncovered' = {} /\ base' = noted /\ again' = FALSE
    /\ UNCHANGED <<mounted, marked, begun, known, noted, toWalk, mounts>>

\* leave: the engine stops, and what it was asked goes with it.
Leave ==
    /\ subscribed
    /\ subscribed' = FALSE /\ uncovered' = {} /\ toWalk' = {}
    /\ UNCHANGED <<mounted, marked, swaps, begun, known, noted, base, again, mounts>>

\* drain: the first subscription starts the reader, which reads the table then.
ReaderBegins ==
    /\ ~begun /\ swaps > 0
    /\ begun' = TRUE
    /\ known' = mounted /\ noted' = mounted /\ base' = mounted
    /\ UNCHANGED <<mounted, marked, subscribed, swaps, uncovered, again, toWalk, mounts>>

\* The table has changed and is read again.
Poll ==
    /\ begun /\ known = noted
    /\ mounted # known
    /\ known' = mounted
    /\ UNCHANGED <<mounted, marked, subscribed, swaps, begun, noted, base, uncovered, again,
                   toWalk, mounts>>

At(some) == {m[2] : m \in some}

\* note_mounts and cover_mounts: what is new joins what cannot be watched, what has
\* gone leaves it, in that order, and both are to be walked.
FreshUnread == {}
Fresh == (At(known \ noted) \cap Inside) \ Ignored
Gone == At(noted \ known)
GoneInside == {at \in Gone : at \in uncovered \cup Fresh \/ at \in Inside}
Covered == (uncovered \cup Fresh) \ Gone
Note ==
    /\ known # noted
    /\ noted' = known
    /\ IF subscribed
         THEN /\ uncovered' = Covered
              /\ toWalk' = toWalk \cup Fresh \cup GoneInside
              /\ again' = (again \/ Gone \cap At(known) # {})
         ELSE UNCHANGED <<uncovered, toWalk, again>>
    /\ UNCHANGED <<mounted, marked, subscribed, swaps, begun, known, base, mounts>>

\* The engine walks.
Walk(at) ==
    /\ toWalk' = toWalk \ {at}
    /\ UNCHANGED <<mounted, marked, subscribed, swaps, begun, known, noted, base, uncovered,
                   again, mounts>>

Next ==
    \/ \E at \in Points : Mount(at)
    \/ \E m \in mounted : Unmount(m)
    \/ Subscribe
    \/ Leave
    \/ ReaderBegins
    \/ Poll
    \/ Note
    \/ \E at \in toWalk : Walk(at)

Spec == Init /\ [][Next]_mountVars

-----------------------------------------------------------------------------
\* A filesystem nothing hears is one the source says is not watched, and no other is:
\* "the mark survives the unmount of the path it was placed through, but a remount of
\* the filesystem does not bring it back".
Unheard == (At(mounted \ marked) \cap Inside) \ Ignored
Told == subscribed /\ begun /\ noted = mounted
SaidUnheard == Told => uncovered = Unheard

\* The code keeps that of what was mounted since the subscription began, and the reader:
\* all of it is said, however polls, swaps and mounts interleave, and nothing a mark
\* hears is - unless a point was mounted again between two polls.
Since == (At(mounted \ base) \cap Inside) \ Ignored
SaidUnlessAgain == again \/ (Told => uncovered = Since /\ Since \subseteq Unheard)
=============================================================================
