------------------------------ MODULE MCFaces ------------------------------
(***************************************************************************)
(* The terminal and the window, each against a service of its own, in six  *)
(* kinds of behaviour.                                                     *)
(*   retyped    the terminal: the question is changed                      *)
(*   moved      the terminal: the view is moved                            *)
(*   cut        the terminal, and the service stops once or is not there   *)
(*   typing     the window: the question is changed                        *)
(*   scrolling  the window: the view is moved, or the window touched       *)
(*   gone       the window, and the service stops once or is not there     *)
(***************************************************************************)
EXTENDS Integers

CONSTANTS
    None, Span, Kept, Sizes, Cap, MaxRevision,
    Moves       \* times the view is moved while the question is changed

\* Pages are of so many rows, and None is no fetch and no answer of a long poll.
ASSUME FacesAssumption ==
    /\ Span \in Nat \ {0} /\ Sizes \subseteq Nat /\ Cap \in Nat
    /\ None \notin [page : Int, revision : Nat]
    /\ None \notin [kind : {"status", "awake"}, revision : Nat]

VARIABLES
    part,
    revision, size, up, stops, booted, queue, conn, answer, down, newest, inbox,
    question, pages, top, mine, scrolls,
    anchored, trouble, pending, asked,
    query, rewind, exact, background, counting, dozing, again, nap

T == INSTANCE Terminal WITH Window <- FALSE, Room <- 2, MaxQuestions <- 2, MaxScrolls <- 0,
                            MaxStops <- 0, MaxRevision <- 1
M == INSTANCE Terminal WITH Window <- FALSE, Room <- 2, MaxQuestions <- 1, MaxScrolls <- 1,
                            MaxStops <- 0
C == INSTANCE Terminal WITH Window <- FALSE, Room <- 2, MaxQuestions <- 1, MaxScrolls <- 0,
                            MaxStops <- 1, MaxRevision <- 1, Sizes <- {3}
Y == INSTANCE Window WITH Window <- TRUE, Room <- 1, First <- 1, MaxQuestions <- 1,
                          MaxScrolls <- Moves, MaxStops <- 0, MaxRevision <- 1
S == INSTANCE Window WITH Window <- TRUE, Room <- 1, First <- 1, MaxQuestions <- 0,
                          MaxScrolls <- 1, MaxStops <- 0
G == INSTANCE Window WITH Window <- TRUE, Room <- 1, First <- 1, MaxQuestions <- 0,
                          MaxScrolls <- 0, MaxStops <- 1, MaxRevision <- 1, Sizes <- {3}

terminalOf == <<anchored, trouble, pending, asked>>
windowOf   == <<query, rewind, exact, background, counting, dozing, again, nap>>
mcVars == <<part, revision, size, up, stops, booted, queue, conn, answer, down, newest, inbox,
            question, pages, top, mine, scrolls, terminalOf, windowOf>>

\* Where the service is always there, nobody tries to start one.
MCInit ==
    /\ \/ /\ \/ part \in {"retyped", "moved"} /\ T!Init
             \/ part = "cut" /\ C!Init
          /\ query = 0 /\ rewind = FALSE /\ exact = None /\ background = None
          /\ counting = None /\ dozing = FALSE /\ again = 0 /\ nap = 0
       \/ /\ \/ part \in {"typing", "scrolling"} /\ Y!Init
             \/ part = "gone" /\ G!Init
          /\ anchored = FALSE /\ trouble = FALSE /\ pending = None /\ asked = 0
    /\ part \notin {"cut", "gone"} => ~booted

Step(p, A) ==
    /\ part = p /\ A /\ UNCHANGED part
    /\ IF p \in {"retyped", "moved", "cut"} THEN UNCHANGED windowOf ELSE UNCHANGED terminalOf

MCNext ==
    \/ Step("retyped", T!Next)
    \/ Step("moved", M!Next)
    \/ Step("cut", C!Next)
    \/ Step("typing", Y!Next)
    \/ Step("scrolling", S!Next)
    \/ Step("gone", G!Next)

\* The faces listen, their timers fire and their lanes go on; nobody has to type, and
\* nobody starts a service.  (A part never changes, so a promise about one of several
\* steps is one about the part that runs.)
Hears == \/ Step("retyped", T!Hear) \/ Step("moved", M!Hear) \/ Step("cut", C!Hear)
         \/ Step("typing", Y!Hear) \/ Step("scrolling", S!Hear) \/ Step("gone", G!Hear)
Looks == \/ Step("retyped", T!Quiet) \/ Step("moved", M!Quiet) \/ Step("cut", C!Quiet)
         \/ Step("typing", Y!Backstop) \/ Step("scrolling", S!Backstop)
         \/ Step("gone", G!Backstop)
Times == Step("typing", Y!Timer) \/ Step("scrolling", S!Timer) \/ Step("gone", G!Timer)
Calls(l) == \/ Step("retyped", T!Lane(l)) \/ Step("moved", M!Lane(l)) \/ Step("cut", C!Lane(l))
            \/ Step("typing", Y!Lane(l)) \/ Step("scrolling", S!Lane(l))
            \/ Step("gone", G!Lane(l))
MCSpec ==
    /\ MCInit /\ [][MCNext]_mcVars
    /\ WF_mcVars(Hears) /\ WF_mcVars(Looks) /\ WF_mcVars(Times)
    /\ \A l \in T!Lanes : WF_mcVars(Calls(l))

-----------------------------------------------------------------------------
\* Every page held is of the question on the screen.
Belongs == T!Belongs
\* The terminal never takes a page for newer than the index it was read from.
Honest == part \in {"retyped", "moved"} => T!Honest
\* The window never loses its long poll.
Polling == part \in {"typing", "scrolling"} => Y!Polling
\* Left alone, both come to rest, with all that is on the screen read.  And where the
\* service goes away, or was never there, whether it is started, comes back or stays away:
\* no page is waited for in vain - by the window unless it has said that the service is
\* down - and the terminal has what is on its screen or says what went wrong.
AtRest ==
    CASE part \in {"retyped", "moved"}    -> T!Rests
      [] part = "cut"                     -> T!Rests /\ T!Answered
      [] part \in {"typing", "scrolling"} -> Y!Caught
      [] part = "gone"                    -> G!Answered
Settles == <>[]AtRest

-----------------------------------------------------------------------------
\* What the sources say and the code does not do, each checked by a run of its own.
\* stir: a window asks at once rather than when its timer comes round.
OnePoll == part = "scrolling" => Y!OnePoll
\* apply: a new question moves the view.
Rewound == <>[](part = "typing" => ~rewind)
\* put: an index that moved while a page was read has not been read yet.
WindowRereads == part \in {"typing", "scrolling"} => Y!Reread
\* serve: a service restarted underneath is noticed: the terminal goes on listening.
Listens == part = "cut" /\ mine # 0 => C!Listening
=============================================================================
