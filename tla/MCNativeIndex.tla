--------------------------- MODULE MCNativeIndex ---------------------------
(***************************************************************************)
(* Small instances of NativeIndex: a root, a directory "d" with one file   *)
(* "x" in it, and a file "y" beside it.                                    *)
(***************************************************************************)
EXTENDS NativeIndex

CONSTANT
    Client      \* the thread that answers a client's requests

PathsOf == {"/", "d", "x", "y"}
UnderOf == {<<p, p>> : p \in PathsOf} \cup {<<p, "/">> : p \in PathsOf}
             \cup {<<"x", "d">>}

File(s, p, m) == [source |-> s, path |-> p, meta |-> m]

\* One source, two versions of "x" and one of "y"; then two of "y" as well.
XY  == {File(1, "x", "a"), File(1, "x", "b"), File(1, "y", "a")}
XYb == XY \cup {File(1, "y", "b")}

\* A third path, so that a row can be replaced and its segment keep a live one.
XYZ == XY \cup {File(1, "d", "a")}

\* One version of each.
XYa == {File(1, "x", "a"), File(1, "y", "a")}

\* Two sources, one file each; and one path known to both.
Two        == {File(1, "x", "a"), File(2, "y", "a")}
SharedPath == {File(1, "x", "a"), File(2, "x", "a")}

\* Which thread makes which calls.  The worker writes and walks; a client's
\* thread runs `maintain(Flush)', or the removals and the commit of new rules.
CallsOf(worker, client) == [t \in Threads |-> IF t = Worker THEN worker ELSE client]

OpsWorker    == CallsOf({"upsert", "remove", "publish", "commit", "compact"}, {})
OpsWalk      == CallsOf({"upsert", "remove", "begin", "sweep", "abandon", "publish"}, {})
OpsSources   == CallsOf({"upsert", "begin", "sweep", "publish", "forget", "compact"}, {})
OpsHeld      == CallsOf({"upsert", "publish", "commit"}, {})
OpsRestart   == CallsOf({"upsert", "remove", "commit"}, {})
OpsFlush     == CallsOf({"upsert", "remove", "publish", "commit"}, {"flush"})
OpsAll       == CallsOf({"upsert", "remove", "begin", "sweep", "abandon", "publish",
                         "commit", "rebuild", "forget"}, {})
OpsWalkFlush == CallsOf({"upsert", "begin", "sweep", "publish"}, {"flush"})
OpsRules     == CallsOf({"upsert", "publish", "commit"}, {"remove", "commit"})
OpsEnds      == CallsOf({"upsert", "publish", "compact"}, {"flush", "remove"})
=============================================================================
