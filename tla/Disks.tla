-------------------------------- MODULE Disks --------------------------------
(***************************************************************************)
(* Which disks are indexed (apps/scourd/src/disks.rs, and what live.rs and *)
(* crates/scour-settings do with an answer): the sources written by hand,  *)
(* the disks that are mounted and what was said about each, and the        *)
(* folders added, made into sources that share the tree out among them.    *)
(*                                                                         *)
(* A path is a sequence of names.  A source is walked from its roots, and  *)
(* stops at the roots it leaves to others (skip.rs, scan.rs `with_skip').  *)
(***************************************************************************)
EXTENDS Sequences, FiniteSets, SequencesExt, FiniteSetsExt

CONSTANTS
    Volumes,        \* ids of disks
    Places,         \* id -> where it may be mounted: a set of sets of roots
    KindOf,         \* id -> "built in", "removable"
    Tree,           \* paths
    Home,           \* the home folder
    Configs,        \* what may be written by hand: sets of sources; none, the default
    FolderLists     \* what folders may be added: sequences of paths

VARIABLES
    config,         \* sources written by hand
    mounted,        \* id -> its roots, of the disks there are
    answers,        \* id -> "on" or "off": volumes_on, volumes_off
    policy,         \* Settings::removable
    later,          \* Kept::later
    folders,        \* Settings::folders
    plan            \* Live::plan

diskVars == <<config, mounted, answers, policy, later, folders, plan>>

Under(p, q) == Len(q) <= Len(p) /\ SubSeq(p, 1, Len(q)) = q
Below(p, q) == p # q /\ Under(p, q)
RootsIn(sources) == UNION {s.roots : s \in sources}
DiskRoots == UNION {mounted[v] : v \in DOMAIN mounted}

-----------------------------------------------------------------------------
\* state_of, in the order it asks.
Covered(v) == \A r \in mounted[v] : \E g \in RootsIn(config) : Under(r, g)
StateOf(v) ==
    CASE Covered(v) -> "configured"
      [] v \in DOMAIN answers /\ ~Covered(v) -> IF answers[v] = "off" THEN "off" ELSE "chosen"
      [] v \notin DOMAIN answers /\ ~Covered(v) ->
           IF KindOf[v] = "built in" THEN IF config # {} THEN "manual" ELSE "auto"
           ELSE CASE policy = "always" -> "chosen"
                  [] policy = "never" -> "off"
                  [] policy = "ask" -> IF v \in later THEN "later" ELSE "asking"

\* source_of, home_apart: the home folder keeps a source of its own in a disk that is
\* indexed.
Source(name, roots) == [name |-> name, roots |-> roots]
SourceOf(v) == Source(<<"disk", v>>, mounted[v])
HomeSource == Source(<<"written", "home">>, {Home})
Indexed == {SourceOf(v) : v \in {d \in DOMAIN mounted : StateOf(d) \in {"auto", "chosen"}}}
HomeApart(sources) ==
    /\ config = {}
    /\ \E r \in RootsIn(sources) : Below(Home, r)
    /\ Home \notin DiskRoots

\* folders_apart: a folder is held if the deepest root above it is a source's.
HeldAnyhow(f, indexed) == \E r \in indexed : Under(f, r)
Held(f, indexed) ==
    \E r \in indexed :
        Under(f, r) /\ \A s \in indexed \cup DiskRoots : Under(f, s) => Len(s) <= Len(r)
WithFolders(sources) ==
    FoldLeft(LAMBDA all, f :
                UNION {IF Held(f, roots) THEN {} ELSE {Source(<<"folder", f>>, {f})} :
                          roots \in {RootsIn(all)}} \cup all,
             sources, folders)
WithHome(sources) ==
    IF sources = {} /\ mounted = <<>> THEN {HomeSource}
    ELSE sources \cup (IF HomeApart(sources) THEN {HomeSource} ELSE {})

\* with_skips: every other source's root under one of its own.  fence: those not
\* written by hand stop at every disk mounted inside them, too.
Skips(s, sources) == {r \in RootsIn(sources \ {s}) : \E mine \in s.roots : Below(r, mine)}
Fence(s) ==
    IF s \in config THEN {}
    ELSE {r \in UNION {mounted[v] : v \in {d \in DOMAIN mounted : s.name # <<"disk", d>>}} :
            \E mine \in s.roots : Below(r, mine)}
\* (A set of one names what TLC is to evaluate once.)
Plan ==
    LET all == {WithFolders(some) :
                  some \in {WithHome(found) : found \in {config \cup Indexed}}}
    IN  UNION {{[source |-> s, skip |-> Skips(s, sources) \cup Fence(s)] : s \in sources} :
                  sources \in all}

-----------------------------------------------------------------------------
Init ==
    /\ config \in Configs
    /\ mounted = <<>> /\ answers = <<>> /\ policy = "ask" /\ later = {} /\ folders = <<>>
    /\ plan = Plan

Put(f, x, y) == [z \in DOMAIN f \cup {x} |-> IF z = x THEN y ELSE f[z]]

\* replan, after each of these.
Mounts(v) ==
    /\ v \notin DOMAIN mounted
    /\ \E roots \in Places[v] : mounted' = Put(mounted, v, roots)
    /\ UNCHANGED <<config, answers, policy, later, folders>>
    /\ plan' = Plan'
Unmounts(v) ==
    /\ v \in DOMAIN mounted
    /\ mounted' = [d \in DOMAIN mounted \ {v} |-> mounted[d]]
    /\ UNCHANGED <<config, answers, policy, later, folders>>
    /\ plan' = Plan'
Choose(v, answer) ==
    /\ v \in DOMAIN mounted
    /\ answers' = Put(answers, v, answer)
    /\ UNCHANGED <<config, mounted, policy, later, folders>>
    /\ plan' = Plan'
Postpone(v) ==
    /\ v \in DOMAIN mounted /\ StateOf(v) = "asking"
    /\ later' = later \cup {v}
    /\ UNCHANGED <<config, mounted, answers, policy, folders>>
    /\ plan' = Plan'
SetPolicy(p) ==
    /\ policy' = p
    /\ UNCHANGED <<config, mounted, answers, later, folders>>
    /\ plan' = Plan'
SetFolders(list) ==
    /\ folders' = list
    /\ UNCHANGED <<config, mounted, answers, policy, later>>
    /\ plan' = Plan'
\* "Not now" is forgotten; the rest is read back.
Restarts ==
    /\ later' = {}
    /\ UNCHANGED <<config, mounted, answers, policy, folders>>
    /\ plan' = Plan'

Next ==
    \/ \E v \in Volumes : Mounts(v) \/ Unmounts(v) \/ Postpone(v)
    \/ \E v \in Volumes, answer \in {"on", "off"} : Choose(v, answer)
    \/ \E p \in {"ask", "always", "never"} : SetPolicy(p)
    \/ \E list \in FolderLists : SetFolders(list)
    \/ Restarts
Spec == Init /\ [][Next]_diskVars

-----------------------------------------------------------------------------
\* A path, and what walks it.
Walks(p, path) ==
    /\ \E r \in p.source.roots : Under(path, r)
    /\ ~\E r \in p.skip : Under(path, r)
Walkers(path) == {p \in plan : Walks(p, path)}
Own == {p \in plan : p.source \notin config}
\* The disk a path is on: the one mounted deepest above it.
DiskOf(path) ==
    {v \in DOMAIN mounted : \E r \in mounted[v] :
        Under(path, r) /\ \A s \in DiskRoots : Under(path, s) => Len(s) <= Len(r)}

\* However disks come and go and whatever is said about them, every path is shared out:
\*   - no two sources walk it, unless a disk is mounted at the very root of one
\*     written by hand;
\*   - the service's own sources do not walk a disk that was left out, or is waited
\*     for, because it is mounted inside one that was not;
\*   - a disk that is to be indexed is walked, and so is a folder that was added.
Shared ==
    /\ \A path \in Tree :
          \/ Cardinality(Walkers(path)) <= 1
          \/ \E r \in RootsIn(config) \cap RootsIn(Indexed) : Under(path, r)
    /\ \A p \in Own, path \in Tree : Walks(p, path) =>
          \A v \in DiskOf(path) : \/ p.source.name = <<"disk", v>>
                                  \/ \E r \in mounted[v], mine \in p.source.roots : Under(mine, r)
    /\ \A v \in DOMAIN mounted : StateOf(v) \in {"auto", "chosen", "configured"} =>
          \A r \in mounted[v] : Walkers(r) # {}
    /\ \A f \in ToSet(folders) : Walkers(f) # {}
=============================================================================
