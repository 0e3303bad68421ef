------------------------------ MODULE Terminal ------------------------------
(***************************************************************************)
(* The terminal face, apps/scour-tui: the question that is typed, the      *)
(* pages held of its answer, and what is sent when.  A question is a       *)
(* number; of the cursor only the view that follows it is kept.            *)
(***************************************************************************)
EXTENDS Link

CONSTANTS
    Room,           \* rows on the screen
    MaxQuestions,   \* bound: questions typed or ordered anew
    MaxScrolls      \* bound: times the view is moved

VARIABLES
    question,       \* App::generation
    pages,
    top,            \* the first row on the screen
    anchored,       \* the cursor has been moved by hand
    mine,           \* App::revision
    trouble,        \* a line says what went wrong
    pending,        \* the want a keystroke left to wait for the next one, or None
    asked,          \* the question last sent or set to wait
    scrolls

faceVars == <<question, pages, top, anchored, mine, trouble, pending, asked, scrolls>>
vars     == <<linkVars, faceVars>>

-----------------------------------------------------------------------------
\* ask: a want is a page of the question on screen.
Want(q, page) == [question |-> q, page |-> page]

\* act: the first page goes with the exact count, on the slow lane.
FastOf(want) ==
    IF want = None THEN <<>> ELSE <<Search(want.question, want.question, want.page, Span)>>
SlowOf(want) ==
    IF want = None \/ want.page # 0 THEN <<>> ELSE <<Count(want.question)>>
Act(want) == Sends(FastOf(want), SlowOf(want), <<>>)

\* follow, and awake's way of asking: what the eye is missing.
Followed(p, first, speculate, refresh) ==
    NextPages(p, first, first + Room - 1, speculate, refresh)
Wants(p, found) ==
    IF found = {} THEN {[pages |-> p, want |-> None]}
    ELSE {[pages |-> Asking(p, page), want |-> Want(question, page)] : page \in found}

\* Where settle may put the view.
Views(total) == 0..Greater(0, total - Room)

-----------------------------------------------------------------------------
\* The program starts with its first question, and waits past revision 0.
Init ==
    /\ LinkInit(FastOf(Want(1, 0)), SlowOf(Want(1, 0)), <<Await(0)>>)
    /\ question = 1 /\ asked = 1
    /\ pages = Asking(NoPages, 0)
    /\ top = 0 /\ anchored = FALSE /\ mine = 0 /\ trouble = FALSE /\ pending = None /\ scrolls = 0

\* typed: everything in hand belongs to the old question.
Typed ==
    /\ question < MaxQuestions
    /\ question' = question + 1
    /\ pages' = Asking(WithTotal(Emptied(pages), 0), 0)
    /\ top' = 0 /\ anchored' = FALSE /\ trouble' = FALSE
    /\ UNCHANGED <<mine, scrolls>>

\* reask: a new order of the same question.
Reasked ==
    /\ question < MaxQuestions
    /\ question' = question + 1
    /\ pages' = Asking(Emptied(pages), 0)
    /\ top' = 0
    /\ UNCHANGED <<anchored, mine, trouble, scrolls>>

\* A key's new question waits for another key; a click's goes at once.
Press ==
    /\ Typed \/ Reasked
    /\ pending' = Want(question', 0) /\ asked' = question'
    /\ UNCHANGED linkVars

Click ==
    /\ Typed \/ Reasked
    /\ Act(Want(question', 0))
    /\ UNCHANGED <<pending, asked, inbox>>

\* walk, go, drag_bar.  A key's page waits too when its question is not yet the
\* one sent.
Scroll ==
    /\ scrolls < MaxScrolls /\ pages.total > 0
    /\ scrolls' = scrolls + 1
    /\ top' \in Views(pages.total)
    /\ anchored' = TRUE
    /\ \E w \in Wants(pages, Followed(pages, top', TRUE, FALSE)) :
          /\ pages' = w.pages
          /\ IF w.want # None /\ question # asked
               THEN pending' = w.want /\ asked' = question /\ Act(None)
               ELSE Act(w.want) /\ UNCHANGED <<pending, asked>>
    /\ UNCHANGED <<question, mine, trouble, inbox>>

\* The quiet has passed and nothing else has arrived.
Quiet ==
    /\ pending # None /\ inbox = <<>>
    /\ Act(pending)
    /\ pending' = None
    /\ UNCHANGED <<question, pages, top, anchored, mine, trouble, asked, scrolls, inbox>>

-----------------------------------------------------------------------------
\* What the lanes say.

\* landed: an answer to an older question is dropped.
OvertakenNever(m) == FALSE
Overtaken(m) == m.question # question

Drop(m) ==
    /\ m.kind = "search" /\ Overtaken(m)
    /\ Sends(<<>>, <<>>, <<>>)
    /\ UNCHANGED faceVars

\* The view stays, unless the row under a cursor that was moved has moved.
Land(m) ==
    LET total == Greater(Length(pages, m.page, m.rows, m.limit), m.total)
        rows  == [count |-> m.rows, question |-> m.question, seen |-> m.seen]
        put   == Put(pages, m.page, rows, total)
    IN  /\ m.kind = "search" /\ ~Overtaken(m)
        /\ top' \in {top} \cup (IF anchored THEN Views(total) ELSE {})
        /\ \E w \in Wants(put, Followed(put, top', TRUE, FALSE)) :
              pages' = w.pages /\ Act(w.want)
        /\ trouble' = FALSE
        /\ UNCHANGED <<question, anchored, mine, pending, asked, scrolls>>

\* counted_exactly
Counted(m) ==
    /\ m.kind = "count"
    /\ pages' = IF m.query = question THEN WithTotal(pages, m.total) ELSE pages
    /\ Sends(<<>>, <<>>, <<>>)
    /\ UNCHANGED <<question, top, anchored, mine, trouble, pending, asked, scrolls>>

\* awake, and the wait after it.
Awake(m) ==
    /\ m.kind = "awake"
    /\ mine' = m.revision
    /\ IF m.revision = mine
         THEN pages' = pages /\ Sends(<<>>, <<>>, <<Await(mine)>>)
         ELSE LET marked == Marked(pages, m.revision)
              IN  \E w \in Wants(marked, Followed(marked, top, FALSE, TRUE)) :
                     /\ pages' = w.pages
                     /\ Sends(FastOf(w.want), SlowOf(w.want), <<Await(m.revision)>>)
    /\ UNCHANGED <<question, top, anchored, trouble, pending, asked, scrolls>>

\* upset
Upset(m) ==
    /\ m.kind = "trouble"
    /\ IF m.question = question THEN pages' = Unasked(pages) /\ trouble' = TRUE
                                ELSE UNCHANGED <<pages, trouble>>
    /\ Sends(<<>>, <<>>, <<>>)
    /\ UNCHANGED <<question, top, anchored, mine, pending, asked, scrolls>>

Hear ==
    /\ inbox # <<>> /\ inbox' = Tail(inbox)
    /\ LET m == Head(inbox)
       IN  Drop(m) \/ Land(m) \/ Counted(m) \/ Awake(m) \/ Upset(m)

User == Press \/ Click \/ Scroll
Lane(l) == LaneStep(l) /\ UNCHANGED faceVars
Next ==
    \/ User
    \/ Quiet
    \/ Hear
    \/ \E l \in Lanes : Lane(l)
    \/ ServiceStep /\ UNCHANGED faceVars

\* The face's thread and its lanes go on; nobody has to type, and no service starts.
Spec == Init /\ [][Next]_vars /\ WF_vars(Quiet) /\ WF_vars(Hear) /\ \A l \in Lanes : WF_vars(Lane(l))

-----------------------------------------------------------------------------
\* Every page held is of the question on the screen, whatever was typed while its
\* answer was on the way.
Belongs == \A q \in DOMAIN pages.held : pages.held[q].question = question

\* A page is never held for newer than the index it was read from, or it would not
\* be read again.  (A service started again counts from the first.)
Honest == \A q \in DOMAIN pages.held : stops = 0 => pages.held[q].seen >= pages.held[q].revision

\* Left alone, the face comes to rest: it waits for no page, and all that is on the
\* screen and is there has been read - unless a page on the screen was read before
\* the index moved, or a line says what went wrong.
OnScreen == {r \in top..(top + Room - 1) : r < pages.total}
Drawn(r) ==
    LET page == PageOf(r)
    IN  /\ Holds(pages, page)
        /\ pages.held[page].settled \/ r - page * Span < pages.held[page].count
OutOfDate(r) ==
    LET page == PageOf(r)
    IN  Holds(pages, page) /\ pages.held[page].revision # pages.revision
Resting ==
    /\ pages.asked = None
    /\ (\A r \in OnScreen : Drawn(r)) \/ (\E r \in OnScreen : OutOfDate(r))
Rests == Resting \/ trouble

\* Whatever becomes of the service, no page is waited for in vain.
Answered == pages.asked = None

\* awake's comment: the index moved, and the page on screen is re-read.
Reread == <>[](trouble \/ \A r \in OnScreen : ~OutOfDate(r))

\* The long poll is waiting, on its way or being answered.
Listening ==
    \/ queue["wait"] # <<>> \/ answer["wait"] # None
    \/ \E n \in 1..Len(inbox) : inbox[n].kind = "awake"
=============================================================================
