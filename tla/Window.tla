------------------------------- MODULE Window -------------------------------
(***************************************************************************)
(* The window, apps/scour-gui: its event loop between the user, the timers *)
(* and what its lanes say.  A question has a query, which a new order of   *)
(* the rows leaves as it is.  Of the toolkit's view the first row is kept; *)
(* whether a page is cheap enough to guess at, whether the list has rested *)
(* since the last one, and whether a minute has passed untouched is either *)
(* answer each time.                                                       *)
(***************************************************************************)
EXTENDS Link

CONSTANTS
    Room,           \* rows on the screen
    First,          \* rows asked for with a new question: a screenful, cut to a page
    MaxQuestions,   \* bound: questions typed or ordered anew
    MaxScrolls      \* bound: times the view is moved, or the window touched

VARIABLES
    question, query,    \* State::generation and query_revision
    pages, top,
    rewind,             \* the next answer from the top scrolls the view there
    exact,              \* State::exact_count, or None
    background,         \* the query whose exact count was scheduled, or None
    counting,           \* timer: the query to be counted once the typing has stopped
    mine,               \* State::revision
    dozing,
    again, nap,         \* timers: AWAIT_AGAIN and DOZE_AGAIN, how many are set
    scrolls

faceVars == <<question, query, pages, top, rewind, exact, background, counting, mine,
              dozing, again, nap, scrolls>>
vars     == <<linkVars, faceVars>>

-----------------------------------------------------------------------------
\* follow: the page the view is about to need, by the revision the window has seen.
Follow(p, first, cheap, quiet, now) ==
    LET found == NextPages(p, first, first + Room, cheap, quiet)
    IN  IF found = {} THEN {[pages |-> p, fast |-> <<>>]}
        ELSE {[pages |-> Asking(Marked(p, now), page),
               fast  |-> <<Search(question, query, page, Span)>>] : page \in found}

\* stir: somebody did something here, and a window that dozed asks at once.
RousedLater == <<>>
Roused == IF dozing THEN <<Await(mine)>> ELSE <<>>

\* dispatch: a search from the top, of which the pages know nothing.
Dispatched == Search(question', query', 0, First)

Init ==
    /\ LinkInit(<<Search(0, 0, 0, First)>>, <<Status>>, <<>>)
    /\ question = 0 /\ query = 0 /\ pages = NoPages /\ top = 0 /\ rewind = TRUE
    /\ exact = None /\ background = None /\ counting = None
    /\ mine = 0 /\ dozing = FALSE /\ again = 0 /\ nap = 0 /\ scrolls = 0

-----------------------------------------------------------------------------
\* on_query_changed and advance_query.
Type ==
    /\ question < MaxQuestions
    /\ question' = question + 1 /\ query' = query + 1
    /\ pages' = Emptied(pages) /\ rewind' = TRUE
    /\ exact' = None /\ background' = None
    /\ dozing' = FALSE
    /\ Sends(<<Dispatched>>, <<>>, Roused)
    /\ UNCHANGED <<top, counting, mine, again, nap, scrolls, inbox>>

\* on_sort_by and advance_order.
Order ==
    /\ question < MaxQuestions
    /\ question' = question + 1
    /\ pages' = Emptied(pages) /\ rewind' = TRUE
    /\ dozing' = FALSE
    /\ UNCHANGED query
    /\ Sends(<<Dispatched>>, <<>>, Roused)
    /\ UNCHANGED <<top, exact, background, counting, mine, again, nap, scrolls, inbox>>

\* on_moved
Scroll ==
    /\ scrolls < MaxScrolls
    /\ scrolls' = scrolls + 1
    /\ top' \in 0..Greater(0, pages.total - Room)
    /\ dozing' = FALSE
    /\ \E cheap, quiet \in BOOLEAN : \E f \in Follow(pages, top', cheap, quiet, mine) :
          pages' = f.pages /\ Sends(f.fast, <<>>, Roused)
    /\ UNCHANGED <<question, query, rewind, exact, background, counting, mine, again, nap, inbox>>

\* The backstop, ten times a second: what the eye is missing, and what is stale once
\* the list has rested.
Backstop ==
    /\ \E f \in Follow(pages, top, FALSE, TRUE, mine) :
          f.fast # <<>> /\ pages' = f.pages /\ Sends(f.fast, <<>>, <<>>)
    /\ UNCHANGED <<question, query, top, rewind, exact, background, counting, mine, dozing,
                   again, nap, scrolls, inbox>>

\* schedule_background's timer: an overtaken query is not counted.
Background ==
    /\ counting # None
    /\ counting' = None
    /\ Sends(<<>>, IF counting = query THEN <<Count(query)>> ELSE <<>>, <<>>)
    /\ UNCHANGED <<question, query, pages, top, rewind, exact, background, mine, dozing,
                   again, nap, scrolls, inbox>>

\* AWAIT_AGAIN's timer.
Again ==
    /\ again > 0
    /\ again' = again - 1
    /\ Sends(<<>>, <<>>, <<Await(mine)>>)
    /\ UNCHANGED <<question, query, pages, top, rewind, exact, background, counting, mine,
                   dozing, nap, scrolls, inbox>>

\* DOZE_AGAIN's timer: if the window was stirred in the meantime, that has asked.
DozeAgain ==
    /\ nap > 0
    /\ nap' = nap - 1
    /\ Sends(<<>>, <<>>, IF dozing THEN <<Await(mine)>> ELSE <<>>)
    /\ UNCHANGED <<question, query, pages, top, rewind, exact, background, counting, mine,
                   dozing, again, scrolls, inbox>>

-----------------------------------------------------------------------------
\* What the lanes say: apply.
OvertakenNever(m) == FALSE
Overtaken(m) == m.question # question

Drop(m) ==
    /\ m.kind = "search" /\ Overtaken(m)
    /\ Sends(<<>>, <<>>, <<>>)
    /\ UNCHANGED faceVars

\* list_length: a page short by both measures ends the list, and else the count
\* stands, but not below what is in hand.
ListLength(counted, m) ==
    IF m.rows < m.limit /\ m.rows < Greater(pages.served, 1)
      THEN m.page * Span + m.rows
      ELSE Greater(counted, m.page * Span + m.rows)

\* The list has not rested since a page that has just landed.
Land(m) ==
    LET total  == ListLength(IF exact # None THEN exact ELSE m.total, m)
        rows   == [count |-> m.rows, question |-> m.question, seen |-> m.seen]
        rewinds == rewind /\ m.page = 0
    IN  /\ m.kind = "search" /\ ~Overtaken(m)
        /\ top' = IF rewinds THEN 0 ELSE top
        /\ rewind' = (rewind /\ ~rewinds)
        /\ \E cheap \in BOOLEAN :
           \E f \in Follow(Put(pages, m.page, rows, total), top', cheap, FALSE, mine) :
              pages' = f.pages /\ Sends(f.fast, <<>>, <<>>)
        /\ exact' = IF m.capped THEN exact ELSE m.total
        /\ IF background = query THEN UNCHANGED <<background, counting>>
                                 ELSE background' = query /\ counting' = query
        /\ UNCHANGED <<question, query, mine, dozing, again, nap, scrolls>>

\* The exact count: never shorter than what is loaded.
HeldTo(p) ==
    LET ends == {q * Span + p.held[q].count : q \in DOMAIN p.held}
    IN  CHOOSE e \in ends \cup {0} : \A o \in ends : o <= e
Counted(m) ==
    /\ m.kind = "count"
    /\ IF m.query # query THEN UNCHANGED <<pages, exact>>
       ELSE /\ exact' = m.total
            /\ pages' = WithTotal(pages, Greater(m.total, HeldTo(pages)))
    /\ Sends(<<>>, <<>>, <<>>)
    /\ UNCHANGED <<question, query, top, rewind, background, counting, mine, dozing, again,
                   nap, scrolls>>

\* Untouched for a minute: the revision is noted and the pages marked, and the next
\* poll waits.  A nap set before has ended in that minute.
Doze(m) ==
    /\ m.kind = "awake" /\ (dozing \/ nap = 0)
    /\ dozing' = TRUE /\ nap' = nap + 1
    /\ mine' = m.revision
    /\ pages' = Marked(pages, m.revision)
    /\ Sends(<<>>, <<>>, <<>>)
    /\ UNCHANGED <<question, query, top, rewind, exact, background, counting, again, scrolls>>

Awake(m) ==
    /\ m.kind = "awake" /\ ~dozing
    /\ mine' = m.revision
    /\ IF m.revision = mine
         THEN Sends(<<>>, <<>>, <<Await(mine)>>) /\ UNCHANGED <<pages, again>>
         ELSE /\ again' = again + 1
              /\ \E cheap, quiet \in BOOLEAN :
                 \E f \in Follow(Marked(pages, m.revision), top, cheap, quiet, m.revision) :
                    pages' = f.pages /\ Sends(f.fast, <<>>, <<>>)
    /\ UNCHANGED <<question, query, top, rewind, exact, background, counting, dozing, nap,
                   scrolls>>

\* The first revision, and the start of the long poll.
FirstStatus(m) ==
    /\ m.kind = "status"
    /\ IF mine = 0 THEN mine' = m.revision /\ Sends(<<>>, <<>>, <<Await(m.revision)>>)
                   ELSE mine' = mine /\ Sends(<<>>, <<>>, <<>>)
    /\ UNCHANGED <<question, query, pages, top, rewind, exact, background, counting, dozing,
                   again, nap, scrolls>>

\* No answer is coming to what was asked.
WentDown(m) ==
    /\ m.kind = "down"
    /\ pages' = Unasked(pages)
    /\ Sends(<<>>, <<>>, <<>>)
    /\ UNCHANGED <<question, query, top, rewind, exact, background, counting, mine, dozing,
                   again, nap, scrolls>>

CameUp(m) ==
    /\ m.kind = "up"
    /\ Sends(<<>>, <<>>, <<>>)
    /\ UNCHANGED faceVars

Hear ==
    /\ inbox # <<>> /\ inbox' = Tail(inbox)
    /\ LET m == Head(inbox)
       IN  \/ Drop(m) \/ Land(m) \/ Counted(m) \/ Doze(m) \/ Awake(m) \/ FirstStatus(m)
           \/ WentDown(m) \/ CameUp(m)

User == Type \/ Order \/ Scroll
Timer == Background \/ Again \/ DozeAgain
Lane(l) == LaneStep(l) /\ UNCHANGED faceVars
Next ==
    \/ User
    \/ Backstop
    \/ Timer
    \/ Hear
    \/ \E l \in Lanes : Lane(l)
    \/ ServiceStep /\ UNCHANGED faceVars

\* The event loop hears and its timers fire, the lanes go on; nobody has to touch the
\* window, and no service starts.
Spec ==
    /\ Init /\ [][Next]_vars
    /\ WF_vars(Hear) /\ WF_vars(Backstop) /\ WF_vars(Timer)
    /\ \A l \in Lanes : WF_vars(Lane(l))

-----------------------------------------------------------------------------
\* Every page held is of the question on the screen.
Belongs == \A q \in DOMAIN pages.held : pages.held[q].question = question

\* The long polls waiting, on the way or set to be asked for: with none the window
\* would never hear of a change again.
Poll(m) == m.kind \in {"status", "await", "awake"}
PollsIn(s) == {n \in DOMAIN s : Poll(s[n])}
OnTheWay == {l \in Lanes : answer[l] # None /\ Poll(answer[l])}
Timers == again + (IF dozing THEN nap ELSE 0)
Polling ==
    stops = 0 =>
        \/ PollsIn(queue["slow"]) # {} \/ PollsIn(queue["wait"]) # {}
        \/ OnTheWay # {} \/ PollsIn(inbox) # {} \/ Timers > 0

\* stir's comment: a touch asks rather than waiting for the timer, so there is one.
OnePoll ==
    stops = 0 =>
        Cardinality(PollsIn(queue["slow"])) + Cardinality(PollsIn(queue["wait"]))
          + Cardinality(OnTheWay) + Cardinality(PollsIn(inbox)) + Timers = 1

\* Left alone, the window comes to rest: it has heard where the index is, waits for no
\* page, and every row on the screen that is there is held, by a page that is not
\* marked as stale.
OnScreen == {r \in top..(top + Room - 1) : r < pages.total}
Drawn(r) ==
    LET page == PageOf(r)
    IN  /\ Holds(pages, page)
        /\ pages.held[page].settled \/ r - page * Span < pages.held[page].count
        /\ pages.held[page].revision = pages.revision
Caught == mine = revision /\ pages.asked = None /\ \A r \in OnScreen : Drawn(r)

\* Whatever becomes of the service, no page is waited for in vain - unless the fast lane
\* has said that the service is down, which it does not say again.
Answered == pages.asked = None \/ "fast" \in down

\* put's comment: an index that moved in flight has not been read yet, and will be.
Reread ==
    <>[]\A r \in OnScreen :
          Holds(pages, PageOf(r)) => pages.held[PageOf(r)].seen = revision

\* apply's comment: a new question moves the viewport.
Rewound == <>[]~rewind
=============================================================================
