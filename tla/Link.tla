-------------------------------- MODULE Link --------------------------------
(***************************************************************************)
(* A face's connection to the service: apps/scour-tui/src/link.rs and      *)
(* apps/scour-gui/src/link.rs.  Three threads, the lanes, each with a      *)
(* queue and a connection of its own, one call at a time: what a keystroke *)
(* needs, what it can wait for, and the long poll.  The window's lanes     *)
(* also skip what a newer question has overtaken.                          *)
(*                                                                         *)
(* The service is what the lanes see of it: the index has a revision and,  *)
(* for every question, so many matches; it may stop and be started again.  *)
(* A long poll's timeout, after which the same revision is answered and    *)
(* asked for again, is left out.                                           *)
(***************************************************************************)
EXTENDS Pages

CONSTANTS
    Window,         \* the window's lanes; the terminal's if FALSE
    Sizes,          \* how many rows may match a question
    Cap,            \* TYPING_CAP: matches an interactive search counts
    MaxRevision,    \* bound: revisions of the index
    MaxStops        \* bound: times the service stops

Lanes == {"fast", "slow", "wait"}

VARIABLES
    revision, size,     \* the index: its revision, and the rows that match
    up, stops,          \* the service listens; how often it has stopped, or was not there
    booted,             \* ensure_once: this face has tried to start one, or may not
    queue,              \* lane -> what was asked for, the one it calls with first
    conn,               \* lane -> "none", "open", or "dead" and not noticed
    answer,             \* lane -> the answer it is about to hand over, or None
    down,               \* lanes that have said the service is down (the window)
    newest,             \* Freshness: the newest search and the newest query asked
    inbox               \* what the lanes have said to the face's own thread

service  == <<revision, size, up, stops>>
linkVars == <<service, booted, queue, conn, answer, down, newest, inbox>>

-----------------------------------------------------------------------------
\* What is asked and what is answered.  A search names its question, which a new
\* order changes too, and the query it asks about.
Search(question, query, page, limit) ==
    [kind |-> "search", question |-> question, query |-> query, page |-> page,
     limit |-> limit]
Count(query)  == [kind |-> "count", query |-> query]
Status        == [kind |-> "status"]
Await(since)  == [kind |-> "await", since |-> since]

Matching(ask) == Greater(0, Lesser(ask.limit, size - ask.page * Span))
Answer(ask) ==
    CASE ask.kind = "search" ->
            [kind |-> "search", question |-> ask.question, page |-> ask.page,
             limit |-> ask.limit, rows |-> Matching(ask), seen |-> revision,
             total |-> Lesser(size, Cap), capped |-> size >= Cap]
      [] ask.kind = "count"  -> [kind |-> "count", query |-> ask.query, total |-> size]
      [] ask.kind = "status" -> [kind |-> "status", revision |-> revision]
      [] OTHER               -> [kind |-> "awake", revision |-> revision]

\* What the terminal is told: for a long poll no question at all.
Trouble(ask) ==
    [kind |-> "trouble", question |-> CASE ask.kind = "search" -> ask.question
                                        [] ask.kind = "count"  -> ask.query
                                        [] OTHER               -> 0]
Down == [kind |-> "down"]
Up   == [kind |-> "up"]

\* send: a search and a query are published before they are queued.
Noted(n, ask) ==
    CASE ask.kind = "search" -> [search |-> Greater(n.search, ask.question),
                                 query  |-> Greater(n.query, ask.query)]
      [] ask.kind = "count"  -> [n EXCEPT !.query = Greater(@, ask.query)]
      [] OTHER               -> n
Sends(fast, slow, wait) ==
    /\ queue' = [l \in Lanes |-> queue[l] \o (CASE l = "fast" -> fast
                                                [] l = "slow" -> slow
                                                [] l = "wait" -> wait)]
    /\ newest' = FoldLeft(Noted, newest, fast \o slow)
    /\ UNCHANGED <<service, booted, conn, answer, down>>

\* What a face has sent before it first listens.  The service may not be there, and
\* the thread that says that one is being started may have tried already.
LinkInit(fast, slow, wait) ==
    /\ size \in Sizes /\ booted \in BOOLEAN
    /\ \/ up = TRUE /\ stops = 0 /\ revision = 1
       \/ up = FALSE /\ stops = 1 /\ revision = 0 /\ MaxStops > 0
    /\ queue = [l \in Lanes |-> CASE l = "fast" -> fast [] l = "slow" -> slow [] l = "wait" -> wait]
    /\ conn = [l \in Lanes |-> "none"]
    /\ answer = [l \in Lanes |-> None]
    /\ down = {} /\ inbox = <<>>
    /\ newest = FoldLeft(Noted, [search |-> 0, query |-> 0], fast \o slow)

Stale(ask) ==
    /\ Window
    /\ \/ ask.kind = "search" /\ ask.question # newest.search
       \/ ask.kind = "count" /\ ask.query # newest.query

-----------------------------------------------------------------------------
\* What a lane turns to: the window's fast lane the newest of what is queued.
NewestOnly(lane) == Window /\ lane = "fast"
Asks(lane) == queue[lane] # <<>> /\ answer[lane] = None
Ask(lane)  == IF NewestOnly(lane) THEN Last(queue[lane]) ELSE Head(queue[lane])
Done(lane) == queue' = [queue EXCEPT ![lane] = IF NewestOnly(lane) THEN <<>> ELSE Tail(@)]

\* The window's lanes leave what a newer question has overtaken.
Skip(lane) ==
    /\ Asks(lane) /\ Stale(Ask(lane))
    /\ Done(lane)
    /\ UNCHANGED <<service, booted, conn, answer, down, newest, inbox>>

\* Connected lazily; the window says that the service is back.
Connect(lane) ==
    /\ Asks(lane) /\ ~Stale(Ask(lane))
    /\ conn[lane] = "none" /\ up
    /\ conn' = [conn EXCEPT ![lane] = "open"]
    /\ inbox' = IF lane \in down THEN Append(inbox, Up) ELSE inbox
    /\ down' = down \ {lane}
    /\ UNCHANGED <<service, booted, queue, answer, newest>>

\* A service that is not there is started: tried once, by whichever lane comes first,
\* and it may fail or not be allowed.
Boot(lane) ==
    /\ Asks(lane) /\ ~Stale(Ask(lane))
    /\ conn[lane] = "none" /\ ~up /\ ~booted
    /\ up' \in BOOLEAN /\ booted' = TRUE
    /\ UNCHANGED <<revision, size, stops, queue, conn, answer, down, newest, inbox>>

\* Not reached: the request is gone.  The terminal says so each time, the window
\* only the first.
Unreached(lane) ==
    /\ Asks(lane) /\ ~Stale(Ask(lane))
    /\ conn[lane] = "none" /\ ~up /\ booted
    /\ Done(lane)
    /\ inbox' = IF ~Window THEN Append(inbox, Trouble(Ask(lane)))
                ELSE IF lane \in down THEN inbox ELSE Append(inbox, Down)
    /\ down' = IF Window THEN down \cup {lane} ELSE down
    /\ UNCHANGED <<service, booted, conn, answer, newest>>

\* The call: a long poll is answered once the index is no longer where it was.
Call(lane) ==
    /\ Asks(lane) /\ ~Stale(Ask(lane))
    /\ conn[lane] = "open"
    /\ Ask(lane).kind = "await" => revision # Ask(lane).since
    /\ answer' = [answer EXCEPT ![lane] = Answer(Ask(lane))]
    /\ Done(lane)
    /\ UNCHANGED <<service, booted, conn, down, newest, inbox>>

\* The connection turns out to be dead, before or during the call.
CallFails(lane) ==
    /\ Asks(lane) /\ ~Stale(Ask(lane))
    /\ conn[lane] = "dead"
    /\ Done(lane)
    /\ conn' = [conn EXCEPT ![lane] = "none"]
    /\ inbox' = Append(inbox, IF Window THEN Down ELSE Trouble(Ask(lane)))
    /\ down' = IF Window THEN down \cup {lane} ELSE down
    /\ UNCHANGED <<service, booted, answer, newest>>

Say(lane) ==
    /\ answer[lane] # None
    /\ inbox' = Append(inbox, answer[lane])
    /\ answer' = [answer EXCEPT ![lane] = None]
    /\ UNCHANGED <<service, booted, queue, conn, down, newest>>

LaneStep(lane) ==
    \/ Skip(lane)
    \/ Connect(lane)
    \/ Boot(lane)
    \/ Unreached(lane)
    \/ Call(lane)
    \/ CallFails(lane)
    \/ Say(lane)

-----------------------------------------------------------------------------
\* The service.  Started again it counts its revisions from the first.
IndexMoves ==
    /\ up /\ revision < MaxRevision
    /\ revision' = revision + 1
    /\ size' \in Sizes
    /\ UNCHANGED <<up, stops, booted, queue, conn, answer, down, newest, inbox>>

ServiceStops ==
    /\ up /\ stops < MaxStops
    /\ up' = FALSE /\ stops' = stops + 1
    /\ revision' = 0
    /\ conn' = [l \in Lanes |-> IF conn[l] = "open" THEN "dead" ELSE conn[l]]
    /\ UNCHANGED <<size, booted, queue, answer, down, newest, inbox>>

ServiceStarts ==
    /\ ~up
    /\ up' = TRUE
    /\ UNCHANGED <<revision, size, stops, booted, queue, conn, answer, down, newest, inbox>>

ServiceStep == IndexMoves \/ ServiceStops \/ ServiceStarts
=============================================================================
