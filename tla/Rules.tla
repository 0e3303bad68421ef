-------------------------------- MODULE Rules --------------------------------
(***************************************************************************)
(* What is not indexed (crates/scour-source-fs/src/rules.rs, skip.rs), and *)
(* an edit of it while the service runs: a request saves the settings,     *)
(* gives the engine the new rules, throws out of the index what they skip  *)
(* and asks for walks of what they let back in                             *)
(* (apps/scourd/src/handle.rs, SetSettings; crates/scour-engine).  Requests *)
(* run side by side, and the disks may change under them: a new engine     *)
(* takes its rules from the file (apps/scourd/src/wire.rs).                *)
(*                                                                         *)
(* A path is a sequence of names, and so is a rule; names are compared     *)
(* folded.  The index is a set of paths, and the disk does not change.     *)
(***************************************************************************)
EXTENDS Naturals, Sequences, SequencesExt

CONSTANTS
    Sources, RootOf,
    SkipOf,         \* source -> the roots of others it leaves alone
    Folders, Leaves,    \* the paths there are
    Lower,          \* name -> name, folded
    RuleSets,        \* rules that may be in force
    Start,          \* those at first
    Clients,
    Changing,       \* bound: paths that change
    MaxEdits, MaxSwaps  \* bounds

Paths == Folders \cup Leaves

VARIABLES
    settings,       \* the rules as saved
    engines,        \* the rules of each engine built so far
    current,        \* the engine in use
    swap,           \* the next one is built and not in use yet
    client,         \* where a request is
    walks,          \* <<source, path>>: walks asked for
    rows,           \* the index
    edits, swaps,
    raced           \* with what an edit overlapped: "edit", "swap"

ruleVars == <<settings, engines, current, swap, client, walks, rows, edits, swaps, raced>>

Under(p, q) == IsPrefix(q, p)
PathsTo(p) == {SubSeq(p, 1, n) : n \in 1..Len(p)}
Ancestors(p) == PathsTo(p) \ {p}
Folded(p) == [n \in DOMAIN p |-> Lower[p[n]]]
IsDir(p) == p \in Folders
Ends(p, rule) == IsSuffix(rule, Folded(p))
Owner(p) ==
    CHOOSE s \in Sources : /\ Under(p, RootOf[s])
                           /\ \A t \in Sources : Under(p, RootOf[t]) => Under(RootOf[s], RootOf[t])

-----------------------------------------------------------------------------
\* own: a source's skips are denied, and a path rule over the whole of it is dropped.
Own(s, o) == [o EXCEPT !.paths = {p \in @ : ~Under(RootOf[s], p)}, !.deny = @ \cup SkipOf[s]]

Denied(o, p) == \E d \in o.deny : Under(p, d)
\* allows: a place takes back what is below it; a sequence, that directory and the files
\* in it.
Allows(o, p, dir) ==
    \/ \E a \in o.allow : Under(p, a)
    \/ \E seq \in o.allowSeqs : \/ Ends(p, seq)
                                \/ ~dir /\ Len(p) > Len(seq) /\ Ends(Front(p), seq)
ByPath(o, p) == \E q \in o.paths : Under(p, q)
ByName(o, p, dir) == IF dir THEN \E rule \in o.dirs : Ends(p, rule)
                            ELSE Lower[Last(p)] \in o.files
\* inside_excluded, seq_within
Inside(o, p) ==
    \E rule \in o.dirs, q \in PathsTo(p) : Ends(q, rule) /\ (q # p \/ Len(rule) > 1)

Excludes(o, p, dir) ==
    \/ Denied(o, p)
    \/ /\ ~Allows(o, p, dir)
       /\ \/ ByPath(o, p) \/ ByName(o, p, dir)
          \/ (o.allow # {} \/ o.allowSeqs # {}) /\ Inside(o, p)

\* excludes_path: from the path alone, for a watcher.
ExcludesPath(o, p) ==
    \/ Denied(o, p)
    \/ /\ ~Allows(o, p, FALSE) /\ ~Allows(o, p, TRUE)
       /\ \/ ByPath(o, p) \/ Lower[Last(p)] \in o.files
          \/ \E rule \in o.dirs, q \in PathsTo(p) : Ends(q, rule)

MayContainAllowed(o, p) ==
    \/ \E a \in o.allow : Under(a, p)
    \/ \E seq \in o.allowSeqs, n \in 1..Len(p) : n <= Len(seq) /\ Ends(p, SubSeq(seq, 1, n))

\* What a walk from a path finds: it goes into what is left out where something below it
\* may be wanted.
Pruned(o, p) == Excludes(o, p, TRUE) /\ ~MayContainAllowed(o, p)
Found(o, top) ==
    {p \in Paths : /\ Under(p, top) /\ ~Excludes(o, p, IsDir(p))
                   /\ ~\E q \in Ancestors(p) : Under(q, top) /\ Pruned(o, q)}

\* The watcher's map of directories is pruned by excludes_path.
Hears(o, p) ==
    \E s \in Sources :
        LET mine == Own(s, o)
        IN  /\ Under(p, RootOf[s]) /\ p # RootOf[s]
            /\ ~\E q \in PathsTo(p) : Under(q, RootOf[s]) /\ ExcludesPath(mine, q)

Rows(o) == UNION {Found(Own(s, o), RootOf[s]) : s \in Sources}

-----------------------------------------------------------------------------
\* opened_up: what a change of rules lets back in.
Gone(was, now) == {p \in was : ~\E q \in now : Folded(p) = Folded(q)}
OpenedUp(was, now) ==
    IF \/ Gone(was.dirs, now.dirs) # {} \/ was.files \ now.files # {}
       \/ now.allowSeqs \ was.allowSeqs # {}
      THEN {<<s, RootOf[s]>> : s \in Sources}
      ELSE {<<Owner(p), p>> : p \in Gone(was.paths, now.paths) \cup Gone(now.allow, was.allow)}

\* apply_rules: a row any source's rules leave out goes, with all that is below it.
Doomed(o) == {p \in rows : \E s \in Sources : Excludes(Own(s, o), p, IsDir(p))}
AppliedNone(o) == rows
Applied(o) == {p \in rows : ~\E d \in Doomed(o) : Under(p, d)}

Idle == [step |-> "idle", engine |-> 0, now |-> {}, opened |-> {}]
At(c, step) == client[c].step = step
Busy == {c \in Clients : ~At(c, "idle")}
Goes(c, step) == client' = [client EXCEPT ![c].step = step]

Init ==
    /\ settings = Start /\ engines = <<settings>> /\ current = 1 /\ swap = "no"
    /\ client = [c \in Clients |-> Idle]
    /\ walks = {} /\ rows = Rows(settings)
    /\ edits = 0 /\ swaps = 0 /\ raced = {}

\* Under the lock of the settings.
Saves(c) ==
    /\ At(c, "idle") /\ edits < MaxEdits
    /\ \E o \in RuleSets \ {settings} :
          /\ settings' = o
          /\ client' = [client EXCEPT ![c] =
                [step |-> "set", engine |-> current, now |-> o,
                 opened |-> OpenedUp(engines[current], o)]]
    /\ edits' = edits + 1
    /\ raced' = raced \cup {k \in {"edit", "swap"} :
                             IF k = "edit" THEN Busy # {} ELSE swap = "built"}
    /\ UNCHANGED <<engines, current, swap, walks, rows, swaps>>
\* set_scan_options, and the watchers with it.
Sets(c) ==
    /\ At(c, "set") /\ Goes(c, "apply")
    /\ engines' = [engines EXCEPT ![client[c].engine] = client[c].now]
    /\ UNCHANGED <<settings, current, swap, walks, rows, edits, swaps, raced>>
Applies(c) ==
    /\ At(c, "apply") /\ Goes(c, "walk")
    /\ rows' = Applied(engines[client[c].engine])
    /\ UNCHANGED <<settings, engines, current, swap, walks, edits, swaps, raced>>
\* An engine that was stopped takes no walk.
Queues(c) ==
    /\ At(c, "walk") /\ client' = [client EXCEPT ![c] = Idle]
    /\ walks' = IF client[c].engine = Len(engines) THEN walks \cup client[c].opened ELSE walks
    /\ UNCHANGED <<settings, engines, current, swap, rows, edits, swaps, raced>>

\* The worker: what a walk does not find below its top goes, if it is the source's.
Walks(s, top) ==
    /\ swap = "no"
    /\ walks' = walks \ {<<s, top>>}
    /\ rows' = {p \in rows : ~(Under(p, top) /\ Owner(p) = s)}
                 \cup Found(Own(s, engines[current]), top)
    /\ UNCHANGED <<settings, engines, current, swap, client, edits, swaps, raced>>
\* A path changes; its row is read again, or made, if the change is heard.
Touches(p) ==
    /\ swap = "no" /\ p \notin rows /\ Hears(engines[current], p)
    /\ rows' = rows \cup {p}
    /\ UNCHANGED <<settings, engines, current, swap, client, walks, edits, swaps, raced>>

\* live.rs, swap: the old engine is stopped, the new one built from the file, then used;
\* with walks outstanding, it walks everything.
Builds ==
    /\ swap = "no" /\ swaps < MaxSwaps /\ swaps' = swaps + 1
    /\ swap' = "built" /\ engines' = Append(engines, settings)
    /\ walks' = IF walks = {} THEN {} ELSE {<<s, RootOf[s]>> : s \in Sources}
    /\ raced' = raced \cup {k \in {"swap"} : Busy # {} \/ raced # {}}
    /\ UNCHANGED <<settings, current, client, rows, edits>>
Publishes ==
    /\ swap = "built" /\ swap' = "no" /\ current' = Len(engines)
    /\ UNCHANGED <<settings, engines, client, walks, rows, edits, swaps, raced>>

Next ==
    \/ \E c \in Clients : Saves(c) \/ Sets(c) \/ Applies(c) \/ Queues(c)
    \/ \E w \in walks : Walks(w[1], w[2])
    \/ \E p \in Changing : Touches(p)
    \/ Builds \/ Publishes
Spec == Init /\ [][Next]_ruleVars

-----------------------------------------------------------------------------
Settled == swap = "no" /\ walks = {} /\ Busy = {}
InUse == engines[current]
Skipped(p) == \E s \in Sources : Excludes(Own(s, InUse), p, IsDir(p))

\* Edits have gone through.  However they overlapped, unless a swap met them, no row stays
\* that its source's rules leave out and its watcher does not hear of.  If none overlapped,
\* the rules saved are in force; and a row a walk would find is there, and changes of it
\* are heard, unless a directory above it is one that some source's rules leave out, or
\* its own name is that of a rule for the other kind of entry.
RulesKept ==
    Settled =>
        /\ "swap" \notin raced => \A p \in rows :
              LET o == Own(Owner(p), InUse)
              IN  ~Excludes(o, p, IsDir(p)) \/ ~ExcludesPath(o, p)
        /\ raced = {} =>
              /\ InUse = settings
              /\ \A p \in Rows(InUse) :
                    \/ p \in rows /\ (Hears(InUse, p) \/ ByName(InUse, p, ~IsDir(p)) \/ Len(p) = 1)
                    \/ \E q \in PathsTo(p) : Skipped(q)

\* "Throw out everything the rules in force would now skip", and nothing else.
WantedKept == Settled /\ raced = {} => Rows(InUse) \subseteq rows

\* What is saved is what is in force, however edits and swaps overlap.
InForce == Settled => InUse = settings
=============================================================================
