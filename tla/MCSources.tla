----------------------------- MODULE MCSources -----------------------------
(***************************************************************************)
(* What the daemon (apps/scourd) decides: which sources there are, what    *)
(* they number, what they leave out, and how an engine that has them is    *)
(* replaced.  Each in behaviours of its own.                               *)
(*   swap   LiveSwap, with a home directory and a removable disk           *)
(*   ids    SourceIds, with two sources that come and go                 *)
(*   disks  Disks, with two disks of the machine and a stick               *)
(*   rules  Rules, with a home folder of its own below a disk              *)
(***************************************************************************)
EXTENDS LiveSwap, Sequences

CONSTANTS
    SourceNames, MaxId, Faults      \* of SourceIds

VARIABLES
    part,
    file, ids, dropped, up, numbered, harmed,
    config, mounted, answers, policy, later, folders, shares,
    settings, built, current, between, client, walks, rows, edits, swaps, raced

idsOf == <<file, ids, dropped, up, numbered, harmed>>
disksOf == <<config, mounted, answers, policy, later, folders, shares>>
rulesOf == <<settings, built, current, between, client, walks, rows, edits, swaps, raced>>

N == INSTANCE SourceIds WITH Names <- SourceNames, rows <- numbered

ASSUME NumbersWellFormed == N!WellFormed

-----------------------------------------------------------------------------
\* A disk at the root and one at /m; a stick below that one, or where the home folder
\* is, or both.  A folder apart, two that are one inside the other, and two that are
\* where disks are mounted.
Written(name, root) == [name |-> <<"written", name>>, roots |-> {root}]
PlacesOf ==
    [sys   |-> {{<<>>}},
     depot |-> {{<<"m">>}},
     stick |-> {{<<"m", "u">>}, {<<"h">>}, {<<"h">>, <<"m", "u">>}}]
D == INSTANCE Disks WITH
        Volumes <- {"sys", "depot", "stick"}, Places <- PlacesOf,
        KindOf <- [sys |-> "built in", depot |-> "built in", stick |-> "removable"],
        Tree <- {<<>>, <<"h">>, <<"h", "x">>, <<"e">>, <<"m">>, <<"m", "p">>,
                 <<"m", "p", "q">>, <<"m", "u">>, <<"m", "u", "g">>},
        Home <- <<"h">>,
        Configs <- {{}, {Written("a", <<"h">>), Written("b", <<"m">>)}, {Written("c", <<>>)}},
        FolderLists <- {<<>>, <<<<"e">>>>, <<<<"m", "p", "q">>, <<"m", "p">>>>,
                        <<<<"m">>, <<"m", "u">>>>},
        plan <- shares

-----------------------------------------------------------------------------
\* A disk /b and below it /b/h, a source of its own; /b/h/T/r is what a rule for "T"
\* leaves out and an exception takes back.
T  == <<"b", "h", "T">>
RR == <<"b", "h", "T", "r">>
Rule(paths, dirs, files, allow, allowSeqs) ==
    [paths |-> paths, dirs |-> dirs, files |-> files, allow |-> allow,
     allowSeqs |-> allowSeqs, deny |-> {}]
None == Rule({}, {}, {}, {}, {})
R == INSTANCE Rules WITH
        Sources <- {1, 2}, RootOf <- <<<<"b">>, <<"b", "h">>>>, SkipOf <- <<{<<"b", "h">>}, {}>>,
        Folders <- {<<"b">>, <<"b", "h">>, T, RR, Append(RR, "d"), <<"b", "v">>},
        Leaves <- {<<"b", "f">>, <<"b", "r">>, Append(T, "g"), Append(RR, "g"),
                   RR \o <<"d", "g">>, <<"b", "v", "g">>},
        Lower <- [n \in {"b", "h", "T", "t", "r", "d", "v", "f", "g"} |->
                    IF n = "T" THEN "t" ELSE n],
        RuleSets <- {None, Rule({T}, {}, {}, {}, {}), Rule({}, {<<"t">>}, {}, {}, {}),
                     Rule({}, {<<"t">>}, {}, {}, {<<"t", "r">>}),
                     Rule({}, {<<"t", "r">>}, {}, {}, {}),
                     Rule({T}, {<<"t">>}, {}, {RR}, {}),
                     Rule({<<"b", "v">>}, {<<"r">>}, {"f"}, {}, {})},
        Start <- Rule({T}, {<<"t">>}, {}, {}, {<<"t", "r">>}),
        Clients <- {1, 2}, Changing <- {Append(T, "g"), RR \o <<"d", "g">>, <<"b", "v">>},
        MaxEdits <- 2, MaxSwaps <- 1,
        engines <- built, swap <- between

-----------------------------------------------------------------------------
\* Only the part that runs has more than one initial state; which name is the first
\* to be planned makes no difference.
MCInit ==
    /\ part \in {"swap", "ids", "disks", "rules"}
    /\ Init /\ N!Init /\ D!Init /\ R!Init
    /\ world = {}
    /\ part # "disks" => config = {}

SwapStep(A)  == part = "swap"  /\ A /\ UNCHANGED <<part, idsOf, disksOf, rulesOf>>
IdsStep(A)   == part = "ids"   /\ A /\ UNCHANGED <<part, vars, disksOf, rulesOf>>
DisksStep(A) == part = "disks" /\ A /\ UNCHANGED <<part, vars, idsOf, rulesOf>>
RulesStep(A) == part = "rules" /\ A /\ UNCHANGED <<part, vars, idsOf, disksOf>>

MCNext ==
    \/ SwapStep(Next)
    \/ IdsStep(N!Next)
    \/ DisksStep(D!Next)
    \/ RulesStep(R!Next)
mcVars == <<part, vars, idsOf, disksOf, rulesOf>>

\* LiveSwap's fairness.
MCSpec ==
    /\ MCInit /\ [][MCNext]_mcVars
    /\ WF_mcVars(SwapStep(WatcherAsks))
    /\ \A t \in Threads : WF_mcVars(SwapStep(Swap(t)))
    /\ \A e \in 1..MaxEngines : WF_mcVars(SwapStep(e \in DOMAIN engines /\ Runs(e)))

-----------------------------------------------------------------------------
\* LiveSwap: once the disks stop changing, the service has the sources they call for.
Settles == part = "swap" => Converges
\* SourceIds: two sources never share a number, and the rows answered with are those of
\* a planned source.
OneNumberEach == N!OneNumberEach
RowsOwned == N!RowsOwned
\* Disks: every path is shared out.
Shared == part = "disks" => D!Shared
\* Rules: what an edit leaves behind.
RulesKept == part = "rules" => R!RulesKept
\* Rules: an edit throws out only what the rules skip.
WantedKept == part = "rules" => R!WantedKept
=============================================================================
