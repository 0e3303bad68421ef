# Scour in TLA+

A verification project for Scour, a file indexer: one service (`scourd`) keeps an
index of every file of the configured volumes, follows the filesystem, and answers
searches over a local socket; a terminal, a window and other faces ask it. The modules
here model the parts that keep state and are hard to test.

Paths below are relative to `src/`.

## The system

```
 faces (scour-tui, scour-gui; scour, scour-web, scour-mcp)
        |  three connections each: searches, counts, a long poll
        v
 scourd: live.rs (engine in use) -- disks.rs, handle.rs, sources.rs, wire.rs
        |
 scour-engine: worker thread, prepare thread, client threads, pulses
        |                                  ^
        v                                  | entries and changes
 scour-index-native (LSM-like index)    scour-source-fs (walk, fanotify, second looks)
```

| component | state | operations | what is hard |
|---|---|---|---|
| native index (`crates/scour-index-native/src/index.rs`, `segment.rs`) | segments and their live bitmaps, staging buffer, hidden prefixes, marks of a walk, builds in the air, the manifest and the files | `apply`, `publish`, `commit`, `begin_generation`, `sweep`, `abandon_generation`, `forget`, `maintain`, `open_or_create` | locks released in the middle of a flush, a fold and a build; failures after the only copy was taken out; crashes between any two writes |
| search (`search.rs`, `rank.rs`, `order.rs`) | none: one request over the segments | `search`, `reach`, `run_with`, `walk_segment` | a page picked without opening every block, ties, boundaries, merging segments |
| prefix sets (`crates/scour-core/src/types/prefix.rs`) | sorted paths and a lookup | `extend`, `covers`, `forget`, `clear` | byte order against path order; two ways to answer |
| pending walks (`crates/scour-engine/src/engine.rs`, `PendingWalks`) | waiting subtree walks and their instants | `add`, `take_due`, `next_due` | merging must neither drop nor postpone |
| engine worker (`engine.rs`, `run`, `scan`) | jobs, changes, retries, deadlines | walk, commit, publish, persist, compact | many deadlines; calls that fail; a stop |
| revisions (`engine.rs`, `announce`, `await_change`) | revision, hold, waiters, prepared answers | `touched`, `await_change`, `search`, `prepare` | wake-ups held back; stale prepared answers; the engine swapped underneath |
| pulses (`reconcile.rs`) | when a source was walked, what its pulse said | `decide`, `scanned`, `saw_event` | a pulse that moves while its source rests |
| engine swap (`apps/scourd/src/live.rs`) | engine in use, plan, who is swapping | `choose`, `postpone`, `replan`, `swap`, `start`, `follow_disks` | old engine, new engine, starter and requests all at once |
| source numbers (`apps/scourd/src/sources.rs`, `wire.rs`) | `sources.json`, the rows' numbers | `assign`, forgetting what was dropped | a crash or a failure between the file and the rows |
| disks (`apps/scourd/src/disks.rs`) | volumes, answers, folders, policies | `plan` | disks mounted inside one another, answers that come while they change |
| rules (`crates/scour-source-fs/src/rules.rs`, `skip.rs`, `apply_rules`) | rules saved, set and in force | `SetSettings` | two edits, or an edit and a swap, overlap; sources inside sources |
| filesystem watch (`fanotify.rs`) | map of directories, kernel queue, marks, mount table | `window`, `cover`, `drain`, `note_mounts`, `retune` | a map listed while directories move; the queue overflows |
| second looks (`revisit.rs`) | paths to look at again | `note`, `forget`, `run` | two threads look at one file and send what they saw |
| walk (`scan.rs`) | threads, buffers, a bounded channel, blind spots | `scan`, the sweep after it | disks that leave and directories that refuse in the middle |
| faces (`apps/scour-tui`, `apps/scour-gui`, `crates/scour-page`) | the question, the pages, three lanes | key, scroll, answer, timer | answers out of order; an index that moves; a service that is restarted |

## The modules

| module | models | state and actions |
|---|---|---|
| `PathTree` | what callers ask of paths (`under`, `covers`, `extend`, `forget`) | no state: a relation over opaque paths |
| `NativeIndex` | `index.rs`, `segment.rs`, and the order in which the engine calls them | the fields of `Inner` and `Building`, the directory (`files`, `manifest`), and for each caller the program of steps it has still to run |
| `Search` | `search.rs`, `rank.rs`, `order.rs` over segments of rows and blocks | one request and its page, found by each of the code's ways; judged by the rows sorted |
| `PrefixSet` | `prefix.rs`, over bytes | sorted paths and lookup; `Extend`, `Forget`, `Clear` |
| `PendingWalks` | `PendingWalks` | the waiting walks and their ages; `Add`, `TakeDue`, `Tick` |
| `Worker` | `run` and `scan`, one turn of the loop after another | what each source holds, what the index has staged, shown and kept, the channels, retries and deadlines |
| `Mirror` | what the service promises | abstract: of every source something it held is shown, and in the end what it holds |
| `Revisions` | `touched`, `announce`, `await_change`, `prepare`, and the swap under them | revision, hold, what each client shows |
| `Pulses` | `reconcile.rs` for one source | ages of walks and checks, the pulse known and pending |
| `LiveSwap` | `live.rs`, and of the engine what a swap looks at | plan, engines, where each thread is in a swap |
| `SourceIds` | `sources.rs`, the first half of `wire::engine` | the file, the numbers in use, the rows |
| `Disks` | `disks.rs`, `plan` and all it is made of | what is mounted, answered, postponed and added, and the plan |
| `Rules` | the rules of sources and an edit of them | rules saved, set in engines and in force, the rows, where each client is in its edit |
| `Fanotify` | `fanotify.rs`: reader, worker, `retune` | the disk, the kernel's queue, the map of directories, the channel, the rows |
| `Mounts` | the mount table of `fanotify.rs`, for one source | what is mounted, marked, known to the reader, noted by the subscription and said to be unwatched; the reader begins, the source subscribes and leaves with each engine |
| `Revisit` | `revisit.rs` and the end of `window` | files, events, the list, what each thread has looked at and not sent |
| `Scan` | `scan.rs`, and the sweep the engine makes of its report | disks, threads with buffers, the channel, what was vouched for |
| `Pages`, `Link`, `Terminal`, `Window` | `scour-page`; the lanes of both faces; `scour-tui`; `scour-gui` | the question, the pages held, each lane's queue and connection, the timers |
| `MC*` | instances for TLC | the modules that share no state are parts of one run, each in behaviours of its own |
| `*Proofs` | theorems | |

### NativeIndex

A call is a *program*, the sequence of steps it has still to run. A new step begins
wherever the code takes or releases a lock, writes a file, or calls something with
an error path. Steps of one holding of the write lock are separate actions of the
thread in `lock`, which no other thread that needs the lock can interleave with, but
a crash can. Steps run with the lock released (`writeAlive`, `writeSeg`, `foldWrite`,
`writeOne`, the assembly before `push`) interleave with everything.

* `Upsert` and `RemoveSubtree` are `apply` for one change. An upsert that fills the
  buffer goes on, lock held, with the flush that hands it to a builder.
* `Prepare` is `flush_prepare` in one step, as it runs in one holding of the lock
  and touches no file: pending removals kill rows in segments, in flights and in the
  buffer; unchanged rows are spared and marked inside a walk; replaced rows are
  killed; emptied segments are set aside; the buffer and the dirty bitmaps are taken.
* `WriteAlive`, `WriteSeg`, `Install`, `Push`, `Dispatch`, `Build`, `Land*` are what
  becomes of it; `Save` is `save_meta`, `Erase` its second half.
* `Fold*` are the four phases of `fold_to`. The claim of the number and the read of
  the rows are two holdings of the lock in the code and one step here: the claim
  touches only `next_segment`, which no reader of rows looks at.
* `NextHead` folds any non-empty part of a group of three or more written segments:
  which part `head_of` picks is a matter of cost, and every pick of it is among these.
* Failures: every step with an error path has a twin (`*Fails`) that takes it while
  `faults` last. `FaultKinds` says which kinds an instance has.
* `Crash` stops at any point, and opens the directory again as `open_or_create` does.

A row is the entry it holds, keyed by source and path; `meta` stands for everything
else an entry records. Columns, names, trigrams and orders inside a segment are left
out. `want`, `revoked` and `walked` are history: what the changes so far ask for.

`stale` stands for `staged_at` entries that point to the wrong place. After
`staged.retain` without rebuilding the table, which of the kept rows can still be
found depends on their positions, so any subset may be stale. Only an overflow flush
that removals brought back below `MAX_STAGED` keeps such rows; `NativeIndex_keptRows`
is the instance in which rows are kept, and the passing runs about doubled rows have a
buffer of one row, where none can be: that hazard is met by `NativeIndex_keptRows` alone.

`PathTree`'s `Reduce` is exact. `PrefixSet` shows where the code's is not, and that
`covers` gives the same answers nevertheless, which is what `NativeIndex` uses.

### Search

A segment is a sequence of rows in its built order, with a date, a place in the order
of paths, a sort key and whether the query matches; blocks are runs of `Block` rows. What
a text test says of a row is an input (`hit`), and so is which blocks the trigram index
leaves to be opened: any set that includes every block with a match. `PagesRight` compares
the page and the count the code arrives at, by the date order, the name order, the path
stream, the narrowed reach or a full walk, with the rows sorted. Folder totals under
`sort:size`, the order by extension and the building of rows are left out.

### PendingWalks, Pulses

Instants are kept as ages, each counted up to the limit it is compared with and no
further: the code looks at them in no other way. `asked` and `unseen` are history. In
`Pulses` whether the machine is quiet is either answer at any time; a change made before the
first reading is told by no pulse and is not counted: the walk at the start
(`scan.on_start`) or the safety net is for it.

### Worker and Mirror

A source is a version number; the index is three versions of each (staged, shown, kept),
which is what the worker's decisions depend on. One turn of the loop is a sequence of
phases, and each call of the index may be refused while `faults` last. `still` and `late`
are history: whether the turn began with a deadline already past. `Mirror` is the abstract
specification: `Worker` implements it under the identity mapping of `disk` and `shown`
(`IsMirror`), its liveness included in the run, its safety proved.

### Revisions, LiveSwap, SourceIds

`Revisions` keeps what the index answers as a version; `told` is history, the newest
version a bump has announced; `raced` says that an engine bumped its revision after its
successor had read it. In `LiveSwap` `world` is what `Kept::plan` would return; a walk is
atomic but for its being taken, begun and ended. The end of the process during a swap is
left out. In `SourceIds`, `harmed` is history: a
fault came between the file and the rows.

### Disks, Rules

`Disks.Plan` is translated operator by operator from `plan` (`state_of`, `home_apart`,
`folders_apart`, `with_skips`, `fence`), over paths as sequences of names. Network disks are
as removable ones, under a policy of their own. `Rules` has the tests of `rules.rs` and
`skip.rs` over a small tree in which one source lies below another; an edit is the steps of
`SetSettings` between which the lock is given back: saved, set, applied, walks asked for.

### Fanotify, Mounts, Revisit, Scan

`Fanotify` keeps the disk as a tree of inodes, so that a rename keeps its inode and the map
of directories can go wrong. `slipped` is history: a directory moved while a list of
directories was being read. A walk reads at once (`Scan` has its details). In `Revisit` a file
is a version; `overtaken` is history: the revisiting thread sent a version older than one the
reader had sent. In `Mounts` the marks are older than the service; reading the table and telling
the subscriptions are two steps, as the first holds no lock. `base` is history: the table a
subscription counts from. An engine that is stopped before it has subscribed and does so
afterwards is left out. In `Scan` a root is a mount point, and with its disk away it is an empty
directory of another device; `first`, `cycled` and `nameless` are history.

### Pages, Link, Terminal, Window

A page is a number of rows found at a revision; `Pages` are operators on the value of
`struct Pages`. `Link` is what both faces' `link.rs` do: a queue and a connection per lane,
requests that are overtaken and skipped, a service that stops and starts. `Boot` is the one
attempt of a process to start one (`ensure_once`), which may fail, not be allowed
(`SCOUR_NO_AUTOSTART`), or have been made before the lanes come to it; then a request is given
up (`Unreached`). Refusals of a query,
the timeout of a long poll, facets, panels, previews and drawing are left out; the count and the
facets of an answer are one.

## Runs

Passing:

| run | distinct states | what it checks | what it shows |
|---|---|---|---|
| `Index` | 0.5 M | `OneRow`, `NoGhost`, `Kept`, `WellTyped`, `PersistDurable`, `NoSharedNumber`, `CoversRight`, `PagesRight` | without failures: no row is doubled, comes back or is lost, through walks with builds in the air, two sources that share a path, and removals and commits beside a client's flush; sets of paths answer rightly; a page is the page of the sorted rows |
| `NativeIndex_faults` | 0.9 M | `Reopenable`, `NotLost`, `QuietIsDurable` | after any two failures and a crash nothing in memory is lost, what is owed to the disk is still known to be owed, and the directory can be opened |
| `NativeIndex_ends` | 0.1 M | `CallsEnd` | every call returns, although the worker and a client keep calling, a build may fail and a thread may not be had |
| `Engine` | 0.3 M | `NoneDropped`, `NothingPostponed`, `Served`, `WalkedInTime`, `CurrentUnlessRaced`, `PreparedFresh`, `Current` | merging drops and postpones no walk and each is served; a change told by a pulse is walked within bounds; clients come to show what the index holds, across a swap of the engine |
| `Worker` | 0.5 M | `NothingForgotten`, `NoSpin`, `AnnouncedUnlessRetried`, `Catches`, `IsMirror` | nothing the worker read is forgotten, whatever is refused; no deadline makes it spin; it implements `Mirror` |
| `Watch` | 0.3 M | `FollowedUnlessSlipped`, `SaidUnlessAgain`, `SettledUnlessOvertaken`, `SweptRight`, `MappedSeen`, `Rests` | rows follow the disk; what was mounted since a source subscribed is said to be unwatched, across a swap of the engine; files written through mappings are seen; a walk sweeps what is gone and only that; reader, worker and walk never wait on each other for good |
| `Sources` | 0.3 M | `OneWriter`, `Settles`, `OneNumberEach`, `RowsOwned`, `Shared`, `RulesKept` | one engine writes at a time and the last change is acted on; no two sources share a number and rows belong to theirs; every path is shared out to one source; after an edit of the rules no row they skip is left, unless two edits raced |
| `Faces` | 0.4 M | `Belongs`, `Honest`, `Polling`, `Settles` | a page belongs to the question on the screen and is stamped no newer than it is; the window always has its poll or what brings it back; in the end what is on the screen is there, and right; a service that goes away, or was never there, whether it can be started or not, leaves no page waited for in vain (by the window: unless its fast lane has said that it is down) and the terminal with what it shows or a line that says what is wrong |

Violations, each a place where a comment says one thing and the code does another
(`findings` in `PROJECT.json` quotes them):

| run | what the trace shows |
|---|---|
| `NativeIndex_markedFold` | a walk marks a row after a fold looked at the marks; the sweep takes the row |
| `LiveSwap_walks` | a swap does not see a walk about to be queued or about to begin |
| `Sources_edited` | an edit of the rules removes every row of a home folder that is a source of its own inside its disk, and none of the walks brings them back |
| `Faces_listens` | a poll that dies with the service is not asked again, and the terminal hears of no change any more |

Further counterexamples, kept as configurations beside the runs (`index.rs` is
`crates/scour-index-native/src/index.rs`):

| configuration, property | what the trace shows | the code | what is said of it |
|---|---|---|---|
| `NativeIndex_failedBuild`, `NoGhost` | a failed build stages its rows again, those removed or replaced while it was in the air too | `index.rs:722` | `:160` "Subtrees removed while it was in the air. Applied on landing" |
| `NativeIndex_noThread`, `NotLost` | when no builder thread can be had, the rows moved into the closure go with it | `index.rs:554` | `:555` "No thread to be had. Build it here rather than lose the rows." |
| `NativeIndex_keptRows`, `OneRow` | a flush keeps part of the buffer and not its table of places; a kept row is staged twice | `index.rs:905` | `:131` "Where each staged path sits, so a second upsert of the same file replaces the first" |
| `NativeIndex_heldFold`, `DiskOneRow` | the manifest of a fold is durable before bitmaps an earlier publish changed: a restart would hold two rows of a key | `index.rs:1313` | `:1074` "[the folds], then the live bits and the manifest" |
| `NativeIndex_learned`, `NoGhost` | a removal after a restart misses a row of a source that handed nothing in since | `index.rs:585` | `:583` "No source yet means no way to key a lookup, so the scan has to answer it. Dropping it would lose the removal outright." |
| `NativeIndex_rules`, `NoGhost` | a removal by new rules is lost while the worker's publish or commit carries the row | `crates/scour-engine/src/engine.rs:584` | `crates/scour-core/src/traits/index.rs:13` "overlapping commits corrupt an index, so writes serialise", `:17` "Removals take effect for searches immediately, before that commit." |
| `LiveSwap_requests`, `NeverRefused` (module `LiveSwap`) | a request holds an engine that is stopped under it | `apps/scourd/src/live.rs:122` | `:5` "a request waits behind the swap rather than meeting a stopped engine" |
| `SourceIds_crash`, `AlwaysOwned` (module `SourceIds`) | a stop between the file and the forgetting leaves rows under a number nobody drops | `sources.rs:66`, `wire.rs:40` | `sources.rs:6` "a changed name is a new source and the old one's rows are dropped" |
| `Faces_polls`, `OnePoll` | the window has two polls out at once: a stirred window asks, and so does the timer it was waiting for | `apps/scour-gui/src/main.rs:3325` and `:4252` | `:3323` a stir "asks at once rather than waiting out" the doze |
| `Faces_rewind`, `Rewound` | with a page asked for from the middle after a new question, the flag that says to go back to the top stays set, and a later landing of the first page moves the view | `apps/scour-gui/src/main.rs:3848` | `:3843` "A page landing never moves the viewport. A new question does." |

The passing runs are about the behaviours these defects leave alone: each instance
gives the threads the calls (`Ops`) and the failures (`FaultKinds`) its question
needs, and the defect's instance adds the one that breaks it. In particular `NotLost`
under failed writes is checked without the failure to start a thread, and `NoGhost`
without failed builds and with one thread removing rows. The same holds of the properties
named `...Unless...`: what they except is a disagreement of its own, stated without the
exception in the module (`SleeperIsCurrent`, `StagedAnnounced`, `Heard`, `SaidUnheard`,
`SettledRight`, `SteadyKept`), and each of those is violated at the bounds of its run.

Further disagreements met while modelling, with no configuration of their own:

* `Mounts.SaidUnheard`: "Filesystems that appeared after the marks were set: not covered, and not
  coverable from here, so they are named for the layer above to report." (`fanotify.rs:977`), but
  one that appeared after the marks and before the reader began (`:1162`), or before an engine
  was swapped and its source subscribed anew with an empty list (`:1102`), is not named, as
  the reader already knows it. `SaidUnlessAgain` is about those that appear later.
* `Worker.StopFinishes`: "Stop watching, finish what is queued, and commit."
  (`engine.rs:948`), but changes still in the channel and waiting walks are left when the stop
  is taken first. `Worker.KeptAnyway`: housekeeping that fails is not tried again.
* `PrefixSet.NoneUnderAnother`: "Paths, reduced so that none is under another." (`prefix.rs:9`),
  but a reduced set (`:50`) holds a directory and its child when a name with a hyphen sorts
  between them; `covers` is right nevertheless (`CoversRight`).
* `Terminal.Reread`: "the pages in hand are marked stale, and only the one on screen is re-read."
  (`apps/scour-tui/src/app.rs:1121`), but a page read before a change stays on the screen after it.
* Rows of one path in two sources: `order.rs` breaks a tie of paths by the order rows were
  built in, the reversed stream the other way.
* A directory replaced by a file of its name between two walks of a window leaves the rows
  below it until the next walk of the source.
* `sources.rs:100` "A number that once meant something else is never reused": it is when the
  highest-numbered source leaves; its rows have been dropped before that.
* `live.rs:102` "Otherwise only new sources walk": a volume that keeps its name and gets another
  root is not walked there until it is reconciled. A volume with two roots, one of them equal
  to a root written by hand, is walked by both sources.
* `Rules.InForce`: two racing edits, or an edit and a swap, leave rules in force that are not
  the saved ones. Changes below a directory that the rules exclude by path and take back by
  another rule are not heard, as the map of directories is pruned without asking whether
  something below is allowed, although `rules.rs:441` says "and the watcher agrees".
* The window: "Forget that a page was asked for, because its answer is not coming: a refused query
  or a service that went away leaves a request unanswered." (`apps/scour-gui/src/rows.rs:549`), but
  a lane says so only once (`link.rs:465`): the page asked for again after that is waited for
  even when the service is back, until the question changes or another lane goes down. It is
  what `Window.Answered` excepts; without the exception `Settles` is violated. An empty list is
  never read again; a refused question is asked ten times a second.
  The terminal: an empty paste takes the place of the search that is waiting.

### Bounds

* `Index`, `NativeIndex_*`: `MaxSegment` and `MaxGeneration` stop new calls, never a call
  under way; `MaxFaults` (two) and `MaxCrashes` (one) bound failures. Two or three paths, one
  of them inside a directory, and two versions of an entry are enough for a row to be
  replaced, removed by itself, removed with its directory and left alone; three segments
  for a fold to have a group, a fourth for one to arrive during it. `PublishMaxStaged` and
  `UnwrittenMaxRows` are set on either side of the number of rows so that both branches run.
  In `PrefixSet`, names include one that is a prefix of another and one whose next byte sorts
  below the separator, and `ScanLimit` (4 in the code) is small enough to be passed. In
  `Search`, blocks of two rows and segments of four or six, with a second segment of one, are
  enough for a tie across a block's boundary, a block left out and a page cut by its limit.
* The parts of one run have bounds of their own, each just large enough for what it is about: the
  scopes of a walk are in the part with one source, the shared path in the one with two. That a
  bound of a liveness run is small costs least where the safety of the same module is proved.
* `Engine`: every period is a few ticks, chosen so that no two limits coincide (`Debounce` 2,
  `Cap` 3, `Floor` 2, `Patience` 3, `Poll` 4, `Reconcile` 12, `WatchedEvery` 6), the safety net
  longer than the longest wait, so that it is the pulse that has a change walked; one client, a
  hold of 1, two versions and one swap. For the walks, a root, a directory of two entries and
  a file beside it.
* `Worker`: one source, two versions, two changes in the channel, one request, one fault, all
  deadlines of one or two ticks. Sources meet in the worker only in its queues, which are sets.
* `Watch`: two directories and a file, three disks to start from, two moves, one fault; three
  mount points, two mounts beside one there before, and one swap of the engine; two mapped files, two tiers, a list of one, three writes; two
  roots, two walker threads, a file of the index that is gone, batches of two, a channel of
  one, one unreadable directory noted, one fault.
* `Sources`: for the swap, no source at first and then two, three engines and two changes; two
  names and four numbers, with every fault (three names in `SourceIds_crash`); three disks
  mounted one inside the other, three configurations and four folder lists; two nested
  sources, seven sets of rules, two clients, two edits, one swap.
* `Faces`: pages of two rows, two pages kept, results of one or three rows, a count capped at
  three, two revisions (one where the question changes), one or two questions, one move
  of the view, one stop or a service that is not there at first, the attempt to start it still to be
  made or spent. A result of two pages never makes `Pages` evict one: that branch of `Evicted` is
  not reached, and is covered by the proofs alone (`PagesEvicted`). `WindowRereads` is the case of `scour-page`'s `lib.rs:143`.

### Fairness

* `NativeIndex`: a builder thread runs on (weak fairness); a thread inside a call
  goes on with it, under strong fairness, because the locks are `parking_lot`'s,
  which hand themselves over to a waiter after half a millisecond. No fairness for
  new calls, failures or crashes.
* `Engine`: time passes, the worker wakes at `next_due`, and every thread that is on its way
  goes on (weak fairness). Nothing need change, and no swap need begin.
* `Worker`: the worker's loop goes on (weak fairness). Time is under strong fairness because the
  loop can always be busy, and time passes all the same; that the walks due are taken up, because
  they share one step with smaller sets of them.
* `Watch`: the reader, the worker, the revisiting thread, the walker threads and time, each weakly.
  Nobody need touch the disk.
* `Sources`: only of the swap: every thread runs on. A swap is asked for a finite number of
  times, so the mutex needs no more than that.
* `Faces`: the face's loop, its timers and each lane, weakly. Nobody need type, and a stopped
  service need not start.


## Proofs

Every theorem holds for all values of the constants that satisfy the module's named
assumption; none rests on a bound of a run.

`NativeIndexProofs`: no two of a commit, a fold, a builder thread, the list and the
manifest use one segment number, for any set of threads, calls, faults and crashes.
`NoSharedNumber` is not inductive. `NumberInv` adds `NumbersBelow` (every number in
use is below `next_segment`, and those the manifest names below the counter it
records, which is what makes a reopened index safe) and `NumbersApart` (a claim is no
build that has landed, nor the thread's own other claim). The proof uses no fact
about the order of steps inside a call, so it holds for any rearrangement of the
programs. It rests on the assumption that thread identities differ from `NoThread`
and on nothing about the bounds.

`NativeIndexControlProofs`: what the remaining programs look like. `Control` says of every
call under way that its next steps fit one another (`Shape`: what follows what, and what
may come between), that a program going on in a holding of the write lock is run by the
thread in `lock` (`Holds`), that one inside `persist_unwritten` is run by the thread in
`persisting`, and that a flush about to write a segment has rows and a number. `Shape` is
made of facts about neighbours and about pairs of steps, so taking the first step off and
putting a fitting one in front keep it; each action's lemma looks at its own new steps only.

`NativeIndexDiskProofs`: `Reopenable`, a crash at any instant leaves a directory that
`open_or_create` can open. It is not inductive: the manifest is written from the list of
segments, so `DiskInv` says

* `Lists`: the list, its part not yet written, what the manifest names and what waits to be
  erased do not contradict each other;
* `Used`: nobody writes files under a number that is on the disk, with a builder, or to be
  erased, nor under another thread's, so that no write spoils complete files;
* `Air`: a landed build is in one place, `landed` or one thread's `todo`, and its files are whole;
* `Openings`: what the list calls written and what the manifest names is complete on the
  disk, and a step that relies on an earlier write finds it (`Ready`): `install`,
  `adoptOne` and `foldSwap` their files, and `erase` a manifest that names nothing of what
  it erases. That the manifest saved just before is still the one on the disk at `erase`
  is the order of two steps in one holding of the lock, which `Control` gives.

Both hold for any threads, calls, faults, crashes and bounds, from `NativeIndexAssumption`
and `PathTreeAssumption` alone.

`SourcesProofs`, of `LiveSwap`: two engines never write at once, for any set of sources and any
number of swaps. `OneWriter` alone is not inductive: that the engine joined before a new
one is built is the last one needs `OneSwap` (the mutex: one thread inside a swap) and
`Serving` (requests are answered with the last engine, but for the moment between its
being built and published). It rests on the two threads being distinct.

The same module, of `SourceIds`: `OneNumberEach` and `RowsOwned`, for every set of names, bound on
numbers and choice of faults. The invariant says that the file, too, gives no number
twice (a new number is above every number in it, which has a largest by the
well-ordering of the naturals), and that, until a fault comes between, a row carries
the number the file has for its source or one still to be forgotten. The theorems are
about the module as `MCSources` instantiates it, with its constants left open; TLC
evaluates `NumbersWellFormed`, the assumption on them.

`WatchProofs` is about `Scan`, `Mounts` and `Revisit` as `MCWatch` instantiates them, with
their constants left open; the assumptions `ScanWellFormed` (every path is below a root, with
a directory at each step, and somebody walks) and `RevisitWellFormed` are all it needs.

* `SweptRight`, for any tree, roots, threads, size of batch, length of channel and number of
  faults. A row is spared because its file was found or because a directory above it was
  refused, so the invariant follows both on their way. `Accounted` says of a path that it is
  with the sink, in the channel, in a thread's hand or in its buffer, or that it is at or
  below a path still to be visited, or one refused; `Steady` that this holds of whatever was
  there from the beginning on a disk that stayed, until the sink is told to stop, a listing
  breaks off or there is no room for a refusal. A visit keeps it because what is below a
  directory is below one of its entries (`StepDown`), and what the rules prune has nothing
  below that they allow (`ReadsAre`); a batch cut, sent or received moves a path from one
  place to the next (`HandedIs`, `CarriesTail`, `CarriesAppend`). At `Finish` every place but
  the sink is empty, as no thread ends with something to visit or in its buffer (`Ending`).
  That nothing is found that was not there at first (`FoundFirst`) gives the other half.
* `SaidUnlessAgain`: mount ids only grow, so a mount that has gone does not come back, and one that
  was in a table read before and is mounted is in all read since (`MountsTables`); `uncovered`
  is what the table noted last has and the one the subscription counts from has not
  (`MountsNews`), until a point is mounted again between two polls. As that table holds every
  mount a mark hears that is still there, nothing heard is said to be unwatched.
* `SettledUnlessOvertaken`: where a row is not what its file is, the file is open, has an event
  still to be read, or is in the reader's hand (`Shown`, `Coming`); what either thread saw and
  has not sent is right or will be followed in the same way (`ReadRight`, `Glimpsed`), the
  revisiting thread's unless it is marked `late`.

`EngineProofs`, of `MCEngine`, has three parts. Of `PendingWalks`: the conjunction of
`TypeOK`, `Antichain`, `NoneDropped` and `NothingPostponed` is inductive, for every path
tree satisfying `PathTreeAssumption` and all `Debounce` and `Cap`. The heart of it is
`AddNew`: the walks absorbed by a new one lie below it, and its age is the largest of
theirs, so whatever they covered it covers with a clock at least as old; transitivity of
`Under` is used there and in `TakeDue`, where `Reduce` of the walks handed out covers
no less than they do (a chain of ancestors has a top).

Of `Revisions`: `PreparedFresh` and `CurrentUnlessRaced`, for any clients, any hold
and any number of engines. A prepared answer, or one being prepared, is of no later
revision than the present one, and if of this one it has all that was announced
(`PreparedInv`); a client that need not search again shows all that was announced
(`ClientsInv`), for which the next engine must count on from the last. That fails
exactly when an engine bumps its revision after its successor has read it (`raced`).

Of `Pulses`: `WalkedInTime`, for any clocks and any cost of a walk: the only assumption is that they
are natural numbers. A change that no walk has begun after is either told by a pulse not read
yet, and not older than the last reading and the walk that came before it, or was read while
the source rested, and then the source was walked when it was made or later (`Told`). No
decision leaves a whole walk that is overdue undone, and the safety net of a source that is not
watched is set whenever the clock of the whole walk is (`Whole`), so that a source whose
watcher comes and goes is not forgotten between the two.

`WorkerProofs`: of any set of sources, with any deadlines and any number of refusals.
`WorkerInv` has, besides types, where in its turn the worker walks (`Phases`); that no
entry of the channel is the last word on its source unless it is still right
(`LastWord`, without which applying a batch could lose a change); that what a walk has
read is current or what came since is told or noted (`ReadOrTold`); and that whatever is
not shown is owed (`NoneForgotten`), of which `NothingForgotten` is the consequence.
`Held` (whatever is staged, shown, told or read was held by the source) gives the
refinement: the initial states of `Worker` are initial states of `Mirror`, and each step is one
of `Mirror`'s or leaves it as it is. `Spent` says of each deadline from where in the turn it
cannot be past any more, and gives `NoSpin`; `Announced` is inductive beside `WorkerInv`.

`FacesProofs` is about `Terminal` and `Window` as the faces instantiate them, with their
constants left open, and rests on `FacesAssumption` (a page has rows, and `None` is no fetch
and no answer) alone.

* `Belongs`, of both faces. What the operators of `Pages` keep of a value (`PagesKept`,
  `PagesEvicted`, `PagesPut`) is proved once; a page comes only from an answer to the question
  on the screen, and a new question empties what is held. Nothing is assumed of the answers:
  the channel may hold anything.
* `Polling`, of the window. Where the long poll is changes from step to step: waiting in its
  lane, answered, said, or due again by one of two timers of which one counts only while the
  window dozes (`Waiting`, `again`, `Napping`). Each step that takes it from one place puts it
  in another, and a touch that ends a doze asks at once (`WindowTouched`); before the first
  status is heard, that it is still to come stands for it (`FirstPoll`), and only then, for a
  later status asks for nothing. While the service has not stopped no connection is dead and it
  listens (`Serving`), so no lane gives a request up.
* `Honest`, of the terminal, for any screen that has a natural number of rows. A page is stamped
  with the revision its request went out at only if it is the page that is out; otherwise with
  the present one, which may be newer than what the answer was read from. So it is proved
  that the answer that lands is always the one that is out: of the question on the screen at
  most one search is waiting for a key, queued, answered or said, and it is for the page in
  `asked`, and said no sooner than it was asked (`OneOut`). A new question has nothing out
  (`NewGone`), as nothing is asked or said of a question not yet typed (`Link`); a page is asked
  for only when `asked` is `None`, when nothing is out (`NoneDue`); and an answer that lands makes
  it so (`OutHeard`). A line of trouble would break it, by setting `asked` back with the
  search still under way, but there is none before the service stops (`Told`).

Model-checked only:

* Liveness (`CallsEnd`, `Served`, `Current`, `Catches`, `MappedSeen`, `Rests` and both
  `Settles`), which the prover does not do. Of `IsMirror` the initial states and the steps
  are proved (`WorkerIsMirror`), its fairness is checked.
* `WellTyped`, the types of the index's files and memory; what the proofs need of them is in
  `NumberInv`, `Control` and `DiskInv`.
* The row properties of `NativeIndex` (`OneRow`, `NoGhost`, `Kept`, `NotLost`,
  `QuietIsDurable`, `PersistDurable`): their inductive strengthening has to speak of
  rows at every step of a program, for which `Control` is the ground. Five of the six
  counterexamples of `NativeIndex` above break `OneRow`, `NoGhost` or `NotLost`, so a theorem
  about one of those would hold only of constants that leave those cases out.
* `CoversRight`, `PagesRight`, `Shared`: functions over sequences, found by folds and
  recursion, which need induction over data.
* `FollowedUnlessSlipped` (`Fanotify`): a path is built by climbing the parents of a handle, so
  it needs induction over the depth of the tree. `RulesKept` (`Rules`): it compares what one
  round removed with what an independent reading of the rules skips, and the two agree
  only on names such as the instance's, where no directory is named like a rule for files.

## Not modelled

`components` in `PROJECT.json` says so part by part. Outside are the encodings inside a
segment (columns, names, trigrams, sizes), the parsing of queries, the framing of the
protocol, the `notify` backend of the watch, the panels and drawing of the faces, the web
face, the command line and MCP, the small services (duplicates, thumbnails, trash), and
desktop integration: computations over one answer, or input and output. Code outside the
repository (the kernel's event queue, the sockets, the locks) is modelled from how it is used.

## Plan

1. *Done*: the modules above, their runs, the theorems above.
2. Proofs next: `PersistDurable` and `NotLost` (rows beside the programs), `Fanotify`'s map.
