# Benesh: a TLA+ model of the workflow engine

Benesh couples parallel codes ("components") into one workflow. A configuration
file (`.xc`) says which objects each target rule makes, what they depend on and
by which procedure: assignments, method calls, and transfers of a variable from
one component to another. A component's code links the library, signals
*touchpoints* (`benesh_tpoint`), and comes back from each when the object the
touchpoint asks for has been made. There is no central server: every component
keeps a database of objects, schedules what it has to do itself, and tells the
others what it has finished through EKT; data go through DataSpaces.

This directory models `src/src/benesh.c`: the engine (scheduling, database, work
queue, announcements, transfers, touchpoints and shutdown), how components come
up and go down, how rules are matched to the objects the engine works on, and
which data a transfer moves where; and of the parser (`src/src/parser/`) what
decides which rules there are: how `xc.l` makes blocks of indentation, and which
blocks `xc.y` and `xc_config.c` keep in which order. Line numbers below without a
file are those of `benesh.c`.

## 1. Inventory

| Part | State | Operations | Talks to |
|---|---|---|---|
| Target scheduling (808-906, 697-782) | its C call stack, under `work_mutex` | `schedule_target`, `schedule_subrules` | database, queue, DataSpaces (`handle_sub`) |
| Object database (366-535, 613-675) | `known_objs`: entry -> flags `realized`, `pending`, list `subs`; `work_node.deps` | `get_object_entry`, `sub_target`, `object_realized`, `object_pending`, `realize_object`, `obj_set_pending` | under `db_mutex`, from all threads |
| Work queue (677-695, 2169-2187) | doubly linked list | `benesh_make_active`, `deque_work` | under `work_mutex`; `work_cond` |
| Main thread (2785-3079) | node in hand, link of its chain | `benesh_handle_work`, `handle_work`, `handle_subrule`, `deps_met` | queue, database, `activate_subs`, EKT |
| Activation (2912-2983) | position in a subscription list | `activate_subs` | from main thread, `work_watch`, `handle_notify` |
| EKT handlers (908-1033, 1148-1159) | `comp_count` | `work_watch`, `tpoint_watch`, `fini_watch` | called by the network's threads |
| Transfers (2430-2573, 2650-2783) | `data_sub.waiting`, the DataSpaces subscription | `handle_pub`, `handle_sub`, `check_sub`, `handle_notify` | DataSpaces, database, `data_cond` |
| Startup (1941-2122) | `ready`, `comp_count`, the tables | `benesh_init` | EKT, all handlers |
| Touchpoints, shutdown (3081-3238) | touchpoint in progress | `benesh_tpoint`, `tpoint_finished`, `benesh_fini` | EKT, main thread loop |
| Rule matching (271-364, 784-806, 1186-1263, 1588-1811) | none | `resolve_obj`, `match_rule`, `find_target_rule`, ... | scheduling |
| Configuration (1265-1939) | tables of components, variables, domains, targets, touchpoints | `benesh_load_config`, `benesh_load_targets`, ... | parser |
| Domains and data (2286-2428, 2576-2648, 3257-3401) | bounds, buffers | `local_overlap`, `overlap_offset`, `matrix_copy_interp`, `get_rdv_dests` | transfers |
| Hash map (`ihash.h`) | buckets | lookup, add | database |
| Lexer (`parser/xc.l`) | its input, put back into at will; `g_indent_levels`, `g_current_indent`, `g_fake_symbol`, start condition | the rules for white space, first characters, ends of lines and of the file | grammar |
| Grammar and list (`parser/xc.y`, `xc_config.c`) | the list of top-level blocks | keep, drop, insert; `xc_find_obj`, `xc_check_unity`, `xc_get_all`, ... | configuration |

The hard behaviours, each listed at its line in `PROJECT.json`:

* **Interleaving.** `tpoint_watch` holds `work_mutex` for the whole recursion,
  but the database is locked and unlocked for each look. `work_watch`,
  `handle_notify` and `realize_object` change it in between: subscriptions can
  come too late, an object can be scheduled twice, a node's dependency counter
  goes up and down at the same time.
* **Waiting.** One thread waits on `work_cond`, without a loop around the wait, and
  three places signal it, none of them for an announcement that queues nothing.
  `handle_notify` and `check_sub` wait for each other.
* **Order.** EKT promises no order between announcements of different kinds or
  senders: work is announced before the touchpoint that makes a receiver
  schedule it, publications are heard of from the publisher and from DataSpaces.
* **Retry.** What is not ready is requeued, whole chains included.
* **Geometry.** Source and destination each decide on the overlap and compute
  indices from their own side only; what one asks for and the other does not
  put is waited for without end, and nothing checks where received data land.
* **Rules.** The first rule that matches counts, versions depend on earlier
  versions through arithmetic on names: the recursion ends only if the rules
  are in the right order, and nothing detects an object that needs itself.
* **Queue.** A node is part of the list itself; queueing it twice damages it.
* **Startup and shutdown.** Handlers run before the component is ready, on a
  single thread on which some of them sleep; `comp_count` counts components down
  while it still bounds the loop that waits for them. `benesh_fini` works for
  others until all have said fini.
* **Layout.** The lexer reads a line that closes several blocks several times, with
  lines it makes up before it; the grammar puts a file's last block first.

What makes the parts correct: procedures run in order and after dependencies,
nothing counts as realized too early (scheduling, database, announcements); queued
work is not slept on and active in one place only (queue, activation); subrules run
once per scheduling (main thread); buffers are written only when the application is
not using them (transfers), with the values of the same points (domains and data);
one database entry stands for one object and every object leads back to initial
versions (rule matching); touchpoints return only when their object is complete, and
everybody returns and shuts down in the end; no component leaves while another may
still call on it (startup and shutdown); blocks are those of the layout, and rules
are tried in the order they are written in (parser).

## 2. Modules

* `Rules` - the workflow as constants: `Deps`, `Proc`, `Touch` over components
  and *concrete* objects (a target rule with values for its pattern variables,
  which is how the database identifies them). Named assumptions state what the
  loader guarantees: a transfer is a `pub` followed by a `sub`, dependencies are
  written once each. Chains, announcements and the component that realizes an
  object are operators here, because they depend on the procedure only.
  Assignments belong to every component (`comp_id = bnh->comp_id`, line 1966).
* `Workflow` - the abstract specification: which subrules of an object have run
  anywhere (`ran`), which objects each component holds for realized (`known`).
  Three actions: run a subrule, realize, learn.
* `EngineState` - variables, types, initial state and the shared primitives.
* `Engine` - the steps of all threads of all components, and the properties.
  Its first section holds faulty variants of its definitions (a dropped guard,
  an off-by-one); nothing uses them, each shows that a property can fail.
* `Indent` - the lexer of configuration files as far as blocks are concerned, one
  action per rule of `xc.l`.
* `Config` - operators: the list the parser makes of a file's blocks, and the
  searches the parser and the loader do in it.
* `Matching` - from the blocks of a file (through `Config`) to the objects of
  `Rules`: `match_rule`, `resolve_obj`, `find_target_rule`, and the names that
  `schedule_target`'s recursion visits.
* `Lifecycle` - `benesh_init` and `benesh_fini` of components that start at
  different times, and the handlers that run meanwhile.
* `Transfer` - the data of one transfer: the indices `publish_var` puts,
  `sub_var` asks for and `matrix_copy_interp` writes, for all ranks of both sides.
* `Rendezvous` - `get_rdv_dests`: the two loops that cut a rank's points into
  segments for the rendezvous ranks.
* `MCEngine`, `MCMatching`, `MCTransfer`, `MCRendezvous`,
  `MCLifecycle`, `MCIndent` - small instances for TLC.
* `Workflow_proofs`, `Engine_proofs`, `EngineRefinement_proofs`,
  `Matching_proofs`, `Lifecycle_proofs`, `Rendezvous_proofs`, `Transfer_proofs`,
  `Indent_proofs` - proofs.

`Engine` implements `Workflow`. The others meet in the code as follows:
`Matching` produces the constants of `Rules` (an entry of its database is an
object there, `DepsOf` its `Deps`); a `sub` of `Engine` that is "copied" is a
`HandleNotify` of `Transfer`; `Rendezvous` runs before the engine starts.
`Indent` turns a file into lines and blocks, `Config` starts from blocks.
`Lifecycle` surrounds `Engine`: it reduces touchpoints and work to what one
component needs of another, and `Engine` starts with all components linked.

### How Engine corresponds to the code

| Code | Model |
|---|---|
| entry (rule, subrule_id, map_vals) of `known_objs` | `<<o, k>>`: -1 initiation, 0 realization, k subrule |
| `obj_entry.realized`, `.pending`, `.subs` | `realized[c]`, `pending[c]`, `subs[c]` |
| `work_node` and its `deps` | a record (kind, object, subrule, pass) and `deps[c]`; `pass` tells the nodes of two schedulings of one object apart |
| `wqueue_head/tail` | `wq[c]`, the nodes `deque_work` can reach, next one first |
| `work_mutex` | taken for one step, except by `tpoint_watch`: `LockFree(c)` is `sched[c] = <<>>` |
| `db_mutex` | one step is at most one section of it; it is never held while another lock is awaited |
| C stack of `schedule_target` | `sched[c]`, one frame per activation |
| `activate_subs` in progress | a member of `act[c]`; `push` between its database section and its `work_mutex` section |
| where the main thread is | `pc[c]`, `work[c]`, `link[c]`, `tp[c]` |
| `comp_count` | `count[c]` |
| EKT | sets `tpNet`, `workNet`, `finiNet` of announcements |
| DataSpaces | `published`, `xfer[c]` |

| Action | Code |
|---|---|
| `RecvTpoint`, `FindPending`, `Claim`, `CheckDep`, `SubDep` | `tpoint_watch`, `schedule_target` up to the loop over dependencies |
| `CheckChain`, `SubChain`, `SubFini`, `EndSchedule` | `schedule_subrules`, end of `schedule_target` |
| `ScanHit`, `Push`, `ScanEnd` | `activate_subs` |
| `RecvWork`, `RecvFini` | `work_watch`, `fini_watch` |
| `Notify`, `HandleNotify` | DataSpaces and `handle_notify`, before and after its wait |
| `EnterIdle`, `Leave`, `Take`, `Requeue` | `benesh_handle_work`, `deque_work` |
| `Initiate`, `RealizeObject`, `FinishSubrule`, `Announce` | `handle_work` for objects, cleanup in `benesh_handle_work` |
| `RunSubrule`, `CheckSub...`, `QueueLastLink` | `handle_work` for rules and chains, `handle_subrule`, `check_sub` |
| `Tpoint`, `PollTpoint`, `Fini`, `PollFini` | `benesh_tpoint`, `tpoint_finished`, `benesh_fini` |

Abstractions, all of them deliberate:

* One rank per component: `ekt_tell` is called by every rank but sends once, and
  ranks meet only in DataSpaces and MPI barriers.
* Announcements are neither lost nor duplicated but arrive in any order. A
  component's announcement of work to itself is not sent (`work_watch` drops
  it); touchpoints and fini do come back to the sender.
* `deps_met` looks at several entries in several sections; as flags are never
  taken back, its result is that of its last look, and it is one step.
  `object_pending` and `obj_set_pending` are one step, because `pending` is only
  ever set under `work_mutex`.
* The domains of a transfer overlap (`sub_req = 1`), and redev is not used.
  DataSpaces notifies a subscription after the publication, whichever came
  first; it is RUNNING while `handle_notify` runs, then DONE.
* Touchpoints have one target each, as in every configuration in the
  repository, and signals match a rule.

### How the other modules correspond to the code

| Module | Model | Code |
|---|---|---|
| `Indent` | `input`, `levels`, `current`, `fake`, `cond` | flex's buffer with what `unput` puts back, `g_indent_levels`, `g_current_indent`, `g_fake_symbol`, the start condition (`obj` counts as `normal`) |
| | `Begin`, `Measure`, `Deeper`, `Shallower`, `AsDeep`, `AtEnd`, `Text`, `EndLine`, `EndOfFile` | the rules of `xc.l`; the rule for a line's first character is three actions, by the depth it finds |
| `Config` | `Known`, `Kept`, `InList`, `Insert`, `Parse` | the actions of `xc.y` for top-level blocks; `xc_in_list`, `xc_obj_tostr` |
| | `GetAll`, `Search`, `FindVar`, `FindDom`, `CheckUnity` | `xc_get_all`, `xc_list_search`, `xc_find_obj`, `xc_check_unity` |
| `Matching` | `conf` | the tables `benesh_init` makes of the list (`Loaded`) |
| | `todo` | the names for which `schedule_target` calls are still to come, the C stack flattened |
| | `names[e]` | the entry `e` of `known_objs` (rule and values), with the names it was reached by |
| | `BeneshTpoint`, `TpointWatch`, `ScheduleTarget` | `benesh_tpoint`, `tpoint_watch`, `schedule_target` down to the loop over dependencies |
| `Lifecycle` | `phase[c]`, `pos[c]` | where the main thread is between `benesh_init` and the end of `benesh_fini`, `i` of the loop at 2106 |
| | `count`, `enabled`, `known`, `asleep` | `comp_count`; `ekt_enable` has been called; whom EKT's messages reach; handlers in the wait for `ready` |
| | `Load`, `Enable`, `WaitForNext`, `BecomeReady` | `benesh_init` |
| | `Meet`, `Sleep`, `Handle`, `FiniWatch` | EKT, `tpoint_watch` and `work_watch`, `fini_watch` |
| | `Tpoint`, `Work`, `Return`, `Fini`, `Close`, `Release` | `benesh_tpoint`, `benesh_handle_work`, `benesh_fini` |
| `Transfer` | `geo` | the two `wf_domain`s and how their components divide them |
| | `staged` | what DataSpaces holds under the transfer's name |
| | `sub[p]`, `buf[p]` | `sub_req` and the subscription of rank p, `var->buf` |
| | `HandlePub`, `HandleSub`, `HandleNotify` | the functions of these names with all they call |
| `Rendezvous` | `i`, `count`, `pos`, `dest`, `offset` | the locals and results of `get_rdv_dests` |
| | `CountCut`, `Allocate`, `Fill`, `Close` | its first loop, the allocation, its second loop, its last line |

Abstractions:

* `Indent`: what a line says, from its first character that is not white space to
  its end, is one character, the line's number. The size of flex's buffer is not
  limited.
* `Config`: only top-level blocks, without procedures, attributes and the values
  of variables. A block is dropped, with a message, as in the code; where the code
  would follow a null pointer the file is excluded (`FilesAssumption`).
* `Lifecycle`: a touchpoint needs the work of a set of components, each of which
  announces it once; what they do for it is `Engine`'s matter. EKT: a component
  that has enabled it is heard of by the others one by one, messages reach whom
  the sender knows when it sends, in any order. A component has one handler thread
  (`margo_init` at 2054 asks for none of its own), on which a handler that waits
  for `ready` sleeps. `Waits` are the components that call `benesh_init` with
  `wait = 1`, as all test programs do; the others skip the loop (2113-2115). For those
  `ReadyMeansLinked` need not hold, so that `ComesDown` says less of them, but the safety
  properties are the same.
* `Matching`: names are sequences of tokens; that `%d`-printing and `atoi` are
  inverse to each other on numbers is used, that `atoi` makes 0 of anything else
  is modelled (`ValueOf`). An entry that exists is not scheduled again, as it is
  pending or realized. `FilesAssumption` excludes rules in which a variable
  stays without a value (the code then goes on with uninitialised memory),
  touchpoint rules with more than one target, and rules with an expression in their
  own name (see section 5).
* `Transfer`: positions are in grid points, both sides have the same pitch and
  all bounds lie on the grid, so that no division leaves a remainder (the one by
  the number of lines in `matrix_copy_interp` excepted, which is modelled in
  bytes). A value is the set of points it was made from, a blend is a union;
  weights (`lint`, `uint`) are left out. DataSpaces calls `handle_notify` when
  all indices asked for have been put; that the main thread must wait in
  `check_sub` is `Engine`'s matter. Ranks divide a domain evenly, as in
  `heateq2d_benesh.c`.
* `Rendezvous`: positions are exact fractions, so `get_rank` rounds as it would
  without floating-point error.

## 3. Runs

| Run | Workflow | Question | Distinct states |
|---|---|---|---|
| exchange | A asks for x, without a procedure, then for y, which is built on x: an assignment, a transfer from B, a method | all invariants of the engine, the promise, and completion under fairness | 134,810 |
| crossing | A asks for z, which B makes, and B for x, which A makes | do both get through, when each hears of its target from the other, and does nobody leave early? | 159,550 |
| lifecycle | three components; the first one's touchpoint needs the work of the third, which does not wait for the others to come up | who may go when, and does everybody come down? | 147,860 |
| indent | all layouts of up to four lines of seven kinds, with and without a final newline | are the lexer's blocks those of the layout? | 105,412 |
| matching | the five configurations of the test applications and one with dropped lines, four touchpoints on each side; a small file's blocks in all 120 orders | do names, rules and entries fit together, does the recursion end, do the tables point to what exists? | 51,659 |
| transfer | 162 regular pairs of domains, divided along both dimensions | does each point get the other side's value of that point? | 22,635 |
| rendezvous | parts of the ranges -2 .. 4 and 1 .. 4, within them and beyond either end, one to three ranks, one to six points; `redev.xc` and the parts of its test, with 4 for the million | do the two loops agree, is the result a partition, and which ranks does it name? | 18,214 |
| late, early, lost | a transfer alone; an object without a procedure on top of two others; an object on B with two dependencies, and another one without | what the code's comments say and the code does not do | violated |
| asleep | crossing | a touchpoint whose target is realized comes back | violated |
| overlap | the two sides of `heateq2d.xc`, one rank each | what the hand-written coupling of the tests does and the library does not | violated |

**Conditions on files.** No code checks these, and the theorems about `Matching`
name the ones they need. `MCMatching` assumes that its files satisfy them
(`FilesAreClear`, `FilesCovering`, `FilesRanked`), so TLC evaluates them in the run.

* `PrintedApart`: rules that print alike have variables in the same places.
  `xc_in_list` compares what is printed, so `Left.u.t` after `Left.u.%{t}` would be
  taken for the same rule and be dropped.
* `NumbersOnly`: names of the same length have identifiers in the same places, so a
  variable never stands for one.
* `Covering(f)`: for each name in the blocks of f there is a rule that matches
  whatever it is resolved to. The test files that write a rule for every version
  (`heateq2d.xc`, `smoke.xc`) are not covering: that nothing is scheduled there which no
  rule matches depends on the touchpoints signalled, and TLC checks it.
* `TouchpointsClear`: each touchpoint rule has one target, declared before it, and no
  two rules match a touchpoint that is signalled.
* `BasesFirst`: where a dependency's expression would count below 0, a rule for just
  that number comes earlier in the table.
* `Ranked(scale, rank)`: the last part of a name is its version, and each rule of a file
  has a rank, which is lower for a rule that a dependency of it may match, after
  `scale` is added for each version that the dependency is ahead of the target. It looks at
  the rules only, not at the objects that touchpoints ask for. `MCMatching` gives
  the ranks of its files (`RankIn`), with a scale of 8: where `Right.du.t` needs
  `Left.u.t+1` (`heateq2d_lockstep.xc`), its rule ranks more than a version above that
  of `Left.u`.

**Bounds.** Two components are enough for every pair of threads to meet: a
component's own three kinds of thread (main, EKT, DataSpaces) run against each
other, and one more component makes the messages; in `crossing` and **asleep** both
ask and both make. Objects: two, enough for a dependency that is asked for twice;
three or four in the runs that show a defect. Procedures have up to four subrules:
chains of one and of several links, chains that start with the object and that start
after another component's, transfers, assignments, objects without a procedure.
`MaxPass = 2` is the number of times an object may be scheduled on one component; a
third time does not occur (`NoThirdPass`, proved). Messages need no bound: each is
sent once per pass. No symmetry is used, as components and objects have different
roles. `Matching` needs no bound on the recursion: `EndsAtBase` says that it ends.
`Steps = 4` touchpoints is what `heateq2d.xc` spells out. `Transfer`'s domains have
up to four points and two ranks in the first dimension, two points and up to two
ranks in the second: first and last rank, ranks without overlap, an overlap that
begins before, at or after either domain's lower bound. Larger grids repeat the same
comparisons. Three components are what `Lifecycle` needs for one that asks, one that
works (and does not wait for the others) and one that is done before the others;
`MaxLines = 4` lines of widths 0, 1, 2, 4 and 4 (a blank and a tab) are what it
takes to open three blocks and close two of them at once, or to a depth that no
block has. `Rendezvous`' inputs are exhaustive up to their bounds and go beyond the
range at both ends; its properties are proved for all.

`CHECK_DEADLOCK FALSE` in the engine's configurations: the system really stops when
a subscription comes too late or two main threads are never woken (see Findings).
When all have torn down it stutters (`Over`). The other modules' systems stop when
they are through; `Lifecycle` also stops when a component that went on too early has
missed an announcement.

### Properties of Engine

* `Implements` - the engine implements `Workflow`: procedures in order, nothing
  realized early, on any component.
* `TpointReturnsComplete` - from the application's point of view: when a touchpoint
  has returned, the procedures of its target and of the objects the target depends
  on have been carried out.
* `OncePerPass` - no subrule runs twice in one scheduling of its object.
* `ActiveOnce` - no chain, rule or realization is in two of: a queue, the main
  thread's hand, an activation's. Initiations are left out on purpose: in **lost**
  one is counted down to 0 by the first dependency before `schedule_target` has
  subscribed it to the second, is queued and requeued (`deps_met` says no), and
  is queued again by the second dependency while it is in the queue. Then
  `benesh_make_active` cuts off the list what was queued after it: see **lost**.
* `NoMissedSignal` - the main thread never waits while there is queued work, nor
  when it is the last one.
* `BufferExclusive` - `handle_notify` copies only while the main thread waits for
  that very transfer.
* `TeardownLast` - nobody tears down while another is in its touchpoints.
* `NoThirdPass` - how often an object can be scheduled.
* `Completes` - everybody comes through (`AllDown`), under two conditions the code
  does not guarantee: no subscription came too late (`[]NoLateSubscription`, see
  **late**), and no main thread sleeps for ever in a touchpoint whose target is realized
  (`Wakes`, see **asleep**). In `crossing` both conditions are broken in some executions
  and kept in others. In `exchange` the second one is always kept: B, without
  touchpoints, says fini at once, and then A never sleeps again. It says nothing of
  workflows in which the queue loses nodes (**lost**).

`Implements` and `TpointReturnsComplete` are claimed for workflows in which an
object without a procedure depends on one other object at most: see **early** for
what happens to others.

### Properties of the other modules

* `AllMatched` - no name is scheduled for which `find_target_rule` returns NULL.
* `OneNamePerEntry` - what the database takes for one object is one object.
* `EndsAtBase` - the recursion over versions stops at the initial ones, because
  their rules are written first.
* `Grounded` - no object waits for itself, through whatever other objects and
  versions: `Engine` is only meaningful for such workflows.
* `FirstWritten` - the rule an object is made by is the first one in the file that
  matches, whatever is dropped in between, unless the file ends with a target
  block: the grammar puts the last block before all others (`xc.y`, 94).
* `TouchpointsCount` - a touchpoint that was signalled and has a rule in the file
  leads to its target being scheduled: neither the parser's drops nor the
  matching lose it.
* `AssignmentsLead` - for every order of the blocks of a file: a domain assignment
  that is kept names a variable and a domain that are in the tables.
* `NestedAsWritten` - at every line, the number of open blocks is the number of
  lines it is nested in by the layout alone, tabs and inconsistent dedents
  included. The definition on the other side has no stack.
* `LinesReturnedOnce` - no line is lost, repeated or out of order, a NEWLINE comes
  after each line and nowhere else, and what the lexer makes up is never seen
  outside.
* `Closed` - all blocks are closed at the end of the file, except where its last
  line is inside a block and has no newline; and blocks are only opened and closed
  between lines.
* `Ends` - the lexer, which writes to its own input, comes to an end.
* `CountCovers` - `comp_count` is at least the number of components whose fini is
  still to be heard, although it is set by the main thread and counted down by a
  handler that does not wait for it.
* `NobodyLeftBehind` - when a component lets go of the library, all the others
  have said fini: none of them is coming up or in a touchpoint.
* `RulesInPlace` - the touchpoint rules are there when `tpoint_watch`, which reads
  them before it waits for `ready`, runs.
* `ComesDown` - everybody comes up, through the touchpoints and down, under two
  conditions the code does not guarantee. `ReadyMeansLinked`: the loop at
  2106 counts to `comp_count`, which `fini_watch` counts down, so that a slow
  component does not wait for the last ones when one has already said fini.
  `NobodyShutOut`: a handler that waits for `ready` does so on the only thread on
  which the others' introductions could be received.
* `InPlace` - after a transfer, exactly the points in the other side's domain
  have been blended, each with the value of the same point, in whatever order the
  ranks published and subscribed. It needs two conditions on the geometry, which
  the code does not check: `CutAtOverlap` (no publishing rank begins before the
  overlap) and `WholeLines` (what a rank receives fills the lines of its buffer).
* `PutOnce` - the ranks' puts do not overlap.
* `AllArrive` - everything that is asked for is put, so every rank gets through.
* `InBounds`, `Partitioned`, `OneMessagePerRank` - the two loops of
  `get_rdv_dests`, which use different tests, agree; the segments partition the
  points; every rank gets one message at most, and exists exactly if its points lie
  before the end of the range, `gub` excluded (those before `glb` aside, which may
  go to negative ranks). That all ranks exist, which is what one would like to
  have, is false: see **edge**.

**Fairness** (`FairSpec`): weak fairness of each kind of thread of each component
(scheduling, activating, receiving, transferring, working). It is what
Argobots' and margo's progress threads give: a thread that can run runs, a
message that has been sent arrives, DataSpaces notifies what is published. It is
per thread kind, not per action, so a thread that polls (a chain requeued again
and again) counts as running. No strong fairness: the wait in
`benesh_handle_work` is on a condition with a single waiter, and its mutex is
held by others for finitely many steps at a time. `Transfer` assumes weak
fairness of publishing, subscribing and notifying: `Engine` is where the calls
to them are shown to come. `Lifecycle` assumes weak fairness of each component's main
thread and of its handlers, `Indent` that the lexer goes on.

### Findings

Five disagreements are runs of their own. Three more were met on the way and are
part of what the properties allow: between `object_realized` (829) and
`object_pending` (831) the main thread can realize the object, which is then
scheduled a second time and whose procedure runs again (`exchange` contains it;
`NoThirdPass` says that it happens once at most); and a chain that is requeued in
the middle starts over at its first link (2896), which takes a transfer from a
component to itself, because only then a `sub` follows another subrule in a chain;
and a rendezvous rank that does not exist (**edge**, part of `rendezvous`).

* **late**. The comment at 709-710 asks for the database to stay locked while
  subscriptions are added. It is not: between the look at an entry (722-733 for
  chains, 851 for dependencies) and `sub_target` (746, 856) an announcement or
  notification can realize the entry and activate its subscribers, of which the
  new one is not one yet. It is never activated; the touchpoint hangs.
* **lost**. With two dependencies, the first of which is realized by an
  announcement while `schedule_target` is on its way to the second, the
  initiation's counter reaches 0 too early and the node is queued; `deps_met`
  fails and it is requeued over and over. When the second dependency is
  realized, `activate_subs` queues the node again although it is in the list, and
  what was queued after it (in the run: the initiation of an unrelated object)
  is gone. That object stays pending for ever, and the touchpoint that asked for
  it does not return.
* **early**. An object without a procedure gets an initiation with subrule 0 (879),
  whose dependencies `handle_work` never looks at (2864). As in **lost**, it is
  queued when the first of two dependencies is announced before the second has been
  subscribed to; but here it is not requeued, it is realized, announced to the
  touchpoint, and `benesh_tpoint` returns before the second dependency has been
  made. The comment at 3019-3020 wants work with unmet dependencies tried again.
* **asleep**. `tpoint_finished` looks whether the target is realized, and
  `benesh_handle_work` sleeps (3012-3014) when it is not. An announcement that realizes
  the target (`work_watch`, 958) wakes the main thread only if `activate_subs` finds a
  subscriber to queue (2969-2970). With A asking for what B makes and B for
  what A makes, nobody subscribes to either object: each makes and announces its own,
  hears of the other one, and sleeps on. No subscription was late and no node lost.
  What would wake one is the other one's fini, which it cannot say.
* **edge** (no run of its own: `OneMessagePerRank` says exactly which segments are
  concerned). `get_rank` gives a point at the upper bound of the range the rank
  `rdvRanks`, one more than there are. `benesh_bind_domain` (3387-3391) does not
  look whether a part lies within the range, and even a point that belongs to
  the range may be at its upper bound. The redev test does this: `redev.xc` has the
  range [0, 16777215] (line 11), and `map_benesh_domain`
  (`util_benchsrBenesh.cpp`, 255-267) gives each rank MBPR * 1024 * 1024 points
  from there on, so sixteen ranks of one MiB have a last point at 16777215.
* **overlap**. Two ranks, the sides of `heateq2d.xc`. `publish_var` (2317-2322)
  puts the whole buffer of the left rank from index 0 on, although index 0 means
  the first point of the overlap: the right side's points 2 and 3 are blended with
  the values of the points 0 and 1. Independently of that,
  `matrix_copy_interp` (2416) takes the distance between the first and the last
  element, divided by the number of lines, for the length of a line: the second
  line goes to the end of the first one and the start of its own. The versions
  of the test program that do the coupling themselves stage and blend the cells of the
  overlap only (`heateq2d_adhoc.c` 123, 136). Runs of the library in which
  every rank boundary falls on the overlap's, and ranks are split so that they
  receive whole lines, are not concerned: see **transfer**.

## 4. Proofs

`tlapm` checks these for every value of the constants that satisfies the
assumptions of `Rules` (`DepsAssumption`, `ProcAssumption`,
`TransferAssumption`, `TouchAssumption`) and `EngineState` (`CompAssumption`:
finitely many components; `MaxPassAssumption`).

* `Workflow_proofs!TypeCorrect`, `Ordered` (`InProcedureOrder`), `Completed`
  (`RealizedIsComplete`). `ran` and `known` only grow, hence what made a subrule
  startable stays; order by cases on the action, completeness from order: when
  the last subrule has run, all have, and the dependencies are there.
* `Engine_proofs!TypeCorrect` (`TypeOK`). Types are not inductive by themselves:
  `deps[c][n]` is written for the node a subscription names, a frame's index
  selects a dependency, the node in hand is used without a look at it. `IInv`
  adds `StackOK` (frames are at dependencies and chains that exist, and their
  object has been scheduled; only the top frame is outside its loop), `MainOK`
  (where the main thread handles a node it has one, at a link that exists, and
  it is announced only with an entry to announce), `ActOK` (activations are
  about entries, and have a subscription to queue when they say so) and `NetOK`
  (announcements name touchpoints and entries that exist). One lemma per action
  or per group of actions shows that each part is kept.
* `Engine_proofs!NoLostWork` (`NoMissedSignal`). Given the types, it is
  inductive: every step that changes a component's queue, its stack or its
  `comp_count` either leaves its main thread outside the wait (it signals, or it
  is the main thread's own) or still holds the lock when it ends
  (`Signalling`).
* `Engine_proofs!TwoPassesAtMost` (`NoThirdPass`), through `Passes`: an
  object that has been scheduled is pending or realized; one that has been
  scheduled twice is realized; and the frame that is about to look at `pending`
  is the only place where an object that is realized can be scheduled again,
  because it has looked at `realized` before.
* `Engine_proofs!NobodyLeft` (`TeardownLast`), through `FiniCounted`: the
  number of components that a component has not heard fini of (they have not said
  it, or the announcement is on its way) is at most its `comp_count`. A fini is
  sent once and taken out of the net when it is counted, so each step takes away
  one of both; at 0 nobody is left.
* `Engine_proofs!BufferIsOwn` (`BufferExclusive`), through `Writers`: a
  transfer that has been claimed or copied is the one the main thread waits for in
  `check_sub` (`OwnBuffer`); that needs that the main thread is in `activate_subs`
  while an activation of its own is under way, and in one only (`OwnCalls`).
* `Engine_proofs!OnePlace` (`ActiveOnce`), for all workflows.
  `benesh_make_active` and `activate_subs` never look whether a node is active
  already. That it is not follows from how nodes get there, and the invariant
  `Tokens` says how. A chain and a realization are *tasks* (`Task`); the last
  link of a chain, which goes to the queue as a node of its own, is part of the
  chain's task (`PartOf`). A task has one token, which is in its subscription
  (`Awaiting`), in a call of `activate_subs` that has counted it down (`Pushed`),
  in the queue or in the main thread's hand, and in no two of these (`TokenAt`).
  It has none before `schedule_target` has come to it (`Unscheduled`), so that
  scheduling can give it one; and a realization has none once its object is no
  longer pending (`Spent`), since from then on the object may be scheduled anew.
  What makes this inductive: a task is subscribed once (`ListsOK`), one call pushes
  it (`PushesOK`), it is queued once, as a whole or by a link (`QueueOK`), the node in hand
  belongs to a task (`InHandOK`), and an object with a procedure is scheduled by one
  frame at a time, during which it is pending (`FramesOnce`). Each step moves one
  task at most (`TokensMove`), so its lemma says which one and that the rest does not
  change.
* `Engine_proofs!OnceInAPass` (`OncePerPass`), for all workflows in which no
  transfer is from a component to itself (`NoSelfTransfer`). On top of `Tokens`,
  `RunsOnce` says that nothing of a task that waits or is queued has been run
  (`Idle`, `NotRun`), and of the one in hand the links before the current one
  only. The critical step is `CheckSubFails`: the whole chain is requeued and will be
  worked from its first link. Nothing is run again, because a receive leads
  its chain: the publication before it is another component's. That is what
  the hypothesis is for, which no code checks: if `Late`'s transfer is from `A` to
  `A`, TLC finds that the publication is carried out each time the receive is not ready.
* `EngineRefinement_proofs!EngineImplements` (`Implements`): every step of the
  engine is a step of `Workflow` or a stutter, for all workflows that are `Plain`:
  an object without a procedure depends on one other object at most. Without
  that assumption it is false, see **early**. What the abstract guards ask for
  (the subrule before has run somewhere, the dependencies exist) the code never
  checks when it takes a node from the queue; it relies on how the node got there.
  The invariant `Justified` follows that path back: subrules have run in order
  (`HistoryOK`); entries, announcements, calls of `activate_subs`,
  publications and receipts under way are about what has happened (`EntriesOK`,
  `NewsOK`, `CallsOK`, `DataOK`); a node waits for the entry that makes it ready
  (`WaitsOK`); a node that is queued or in hand, and the link a chain has
  got to, may be worked on (`NodesOK`, `HandOK`); and a frame of `schedule_target`
  that has noted all dependencies so far as met is right (`FramesOK`). All of it
  is about things that only grow (`Grows`). An initiation with a procedure may
  be queued too early, because `handle_work` looks at its dependencies again;
  that of an object without one may not, and here `Plain` is used: the
  one dependency it waits for is all it needs. `HandOK` also needs `Writers`.
* `EngineRefinement_proofs!TouchpointsComplete` (`TpointReturnsComplete`), under
  the same assumption: the main thread comes back from a touchpoint only out of
  `tpoint_finished`, which has found the target realized (`TargetsRealized`);
  what is realized anywhere is complete, and so is what it depends on (`HistoryOK`).
* `Lifecycle_proofs!TypeCorrect` (`TypeOK`), `Counted` (`CountCovers`),
  `RulesThere` (`RulesInPlace`), `AllHadSaidFini` (`NobodyLeftBehind`). `IInv`
  adds to the types that fini is announced only by those that have said it
  (`NetOK`), that EKT is enabled from `linking` on (`EnabledOK`) and that the
  tables are there from `loaded` to the end of `benesh_fini` (`TablesOK`). That
  the counter stays natural follows from `CountCovers`, so types and count are
  one induction.
* `Rendezvous_proofs!WritesFit` (`InBounds`), `PartitionCorrect` (`Partitioned`),
  `OneMessage` (`OneMessagePerRank`), `TypeCorrect` (`TypeOK`), from
  `InputAssumption` (the range has an extent, a part does not end before it begins
  and has at least one point; it may lie anywhere). Without these `get_rank` divides
  by zero, or the points go backwards. The argument: `Cuts(a, n)` is the set of
  points before n at which the rank changes. The first loop counts it; the second
  loop's last entry is always the rank of the point before (`Filling`), so that its
  test is the first loop's, and `pos` is one more than the number of cuts it has
  passed; a subset of the cuts has no more elements than all of them. That ranks
  ascend is arithmetic: `Rank` is a quotient whose numerator grows with the point
  (`RankMonotone`), and truncation keeps the order (`TruncateMonotone`). Where they
  begin to be too large is `RankRange`: the quotient reaches `ranks` exactly when
  the point reaches `gub` (`TruncateScaled`).
* `Transfer_proofs!TypeCorrect` (`TypeOK`), for all geometries that satisfy
  `GeometryAssumption`; `PutsOnce` (`PutOnce`), if all are also `CutAtOverlap`;
  `BlendsInPlace` (`InPlace`), if all are also `WholeLines`. The conditions
  appear as hypotheses, because the code checks neither and without them the
  theorems are false (see **overlap**). If no publishing rank begins before
  the overlap, the index a rank puts a point under is the point less the start of
  the overlap, whichever rank it is (`PutsApart`): distinct points, which
  distinct ranks have, get distinct indices, and what is staged under an index
  is the value of one point for ever (`StagedOK`). The receiving side counts its
  indices from the same point. If the lines are whole, `TargetByte` is where a
  cell begins (`TargetCell`), each element received lands in one cell and no two
  in the same (`LandsThere`), so `Blended` says of the buffer after
  `matrix_copy_interp` what `InPlace` asks for.
* `Indent_proofs!TypeCorrect` (`TypeOK`): the levels are depths on a stack whose
  bottom is the left margin. What a rule pops is never the last level, because
  no line is shallower than the margin (`Margin`, `StackTyped`).
* `Indent_proofs!LinesOnce` (`LinesReturnedOnce`), `Nested` (`NestedAsWritten`),
  `BlocksClosed` (`Closed`): for all files, of any number of lines and with any
  white space. One inductive invariant, `LexInv`, says for some line k of the file
  that exactly the lines up to k have been returned, each with its NEWLINE
  (`Returned`), and that what is left of the input, put back or not, holds exactly the
  lines after k, each at the column it is written at (`InputOK`: a column for every
  character, `Columns`, that starts from `current`). A made-up line comes before all
  of them and is as deep as the topmost level (`MadeUpAhead`), so it can only meet
  `AsDeep`, which drops it. The levels are compared with the layout by `Depths`, the
  columns of a line and of those it is nested in: in the middle of a line the levels
  are its depths (`InLine`); before a line, with some blocks closed and others
  not yet, the levels to its left are those of the line before that are (`Shared`),
  which is what each `OUTDENT` preserves. That such a stack has one level for each
  enclosing line, and one for the line itself, is `BlocksCounted`.
  The proofs about the text itself (`FlattenOf`, `CharsWritten`) are by induction
  over its length. `Induction` is stated of a set that holds 0 and is closed under
  successor, and follows from the library's `WFMin`: a set that lacks a number
  would lack a least one. With it the recursive functions behind `FlattenSeq` and
  `Column` are shown to exist and to satisfy their equations.

* `Matching_proofs`: the properties of `Matching` for all configuration files that
  satisfy `FilesAssumption`, of any length and with any names. `Parse` is followed
  block by block: `WholeList` says that the list holds, for each block that was
  accepted (`Accepted`), the entry made of it, in the order of the file
  except for the file's last block; `KeysDiffer`, that no two entries print
  alike. From these come what a search finds (`SearchIs`), that it finds the same in
  any longer list (`FoundAgain`, `MembersAgain`), and what each table holds
  (`TableIs`).
  * `AllAssignmentsLead` (`AssignmentsLead`): what an assignment names was in the
    list when it was parsed, so it is in the tables.
  * `TypeCorrect` (`TypeOK`), through `Typed`: a message has a value for each
    variable of its rule, so `resolve_obj` leaves none without (`ResolveIs`).
  * `RulesInOrder` (`FirstWritten`), if rules are `PrintedApart`: a rule that was
    dropped as a duplicate matches what the rule that stayed matches
    (`AlikeMatch`), and the table is in the order of the file.
  * `NamesKeptApart` (`OneNamePerEntry`), if variables stand for `NumbersOnly`.
    An entry keeps the numbers at its rule's variables, and `atoi` makes 0 of an
    identifier. Through `NamesShaped`: each name is resolved from a pattern of the
    file and has identifiers where that has them, hence where its rule has them.
  * `CoveredMatch` (`AllMatched`), in each file that is `Covering`: a name agrees with its
    pattern wherever that is literal, so the rule that covers the pattern
    matches it.
  * `TouchpointsLead` (`TouchpointsCount`), if rules are `PrintedApart` and
    `TouchpointsClear`. The invariant `Led` says of every touchpoint so far that
    its message is in `told`, or its target's name in `todo` or in the database
    (`UnderWay`); that the message's rule is the one written for it is `RuleFor`.
  * `RecursionEnds` (`EndsAtBase`), for `NumbersOnly` files that are `BasesFirst`.
    A dependency counts down from a number x that its target has at a variable; if
    that led below 0, an earlier rule with x in this place would match the target
    (`EarlierRule`), so `find_target_rule` would not have found the one with the
    variable (`DepPositive`). `Counted` carries this from the touchpoints'
    numbers through every name scheduled.

  * `NothingWaitsForItself` (`Grounded`), for such files that are `Ranked`. A name agrees
    with the rule it matches wherever that is literal, so its version is at least the
    rule's, and a dependency's is the one that its pattern says: with each
    dependency, `scale` times the version plus the rule's rank falls (`RankFalls`).
    By `Followed`, what an entry needs is in `todo` or in the database, so that
    nothing is missing when the recursion is over; entries are
    finitely many, each with one name (`NamesKeptApart`'s `SameName`). Then every round of
    `BuiltUp` adds one with the least rank among those left (`BuiltNext`), until
    none is left (`AllBuilt`).

Only proved: what `Workflow` itself promises (`InProcedureOrder`, `RealizedIsComplete`);
TLC checks that `Engine` implements it. Of workflows with two dependencies, TLC
checks **lost** and **early** only; that the engine implements `Workflow` for them is
`EngineImplements`.

Only model-checked: the liveness properties (`Completes`, `AllArrive`, `ComesDown`,
`Ends`, and `Wakes`, which fails), because liveness under fairness and ENABLED are
out of TLAPS' reach.

## 5. Not modelled

* Of the parser: procedures, methods and attributes of blocks; and the part of
  `xc_config.c` that nothing calls, or only error messages do (`xc_conf_get`,
  `xc_get_rule`, `xc_dmap_get`, `xc_attr_get`, `xc_get_iface`, `xc_add_subconf`,
  `xc_list_len`, `xc_apply_rules`, the `xc_dup_` functions, the simplification and
  solution of expressions). Printing a list is formatting.
* Files that make the parser or the loader follow a null pointer
  (`FilesAssumption`); among them those with an expression in the name of a target rule
  or of a touchpoint rule, for which the loader makes no string (1842-1843,
  1296-1297), so that `match_target_rule_fq` (1667) and `match_rule` (1252)
  compare with a null pointer. And touchpoint rules with several targets, which neither
  the grammar (`xc.y`, 650) nor `tpoint_finished` (3130) handles.
* The splitting of a touchpoint's string into tokens, values of variables.
* The weights of the blend and geometries with a remainder (floating point).
* redev's own transfers (`redev_wrapper.cpp` only forwards to an external library).
* The hash map (`ihash.h`): one chained table, never deleted from, used by
  `get_object_entry` alone, which looks a key up before it adds it in the same
  section of `db_mutex`; the entries of `Engine` are the function it stands for.
* The queries of the public interface: lookups in tables that no longer change.
* What a handler that is already running does after `benesh_fini` has freed the
  handle: the model's handlers are one step each.

## 6. Plan

Done: `Rules`, `Workflow`, `EngineState`, `Engine`, `Indent`, `Config`, `Matching`,
`Lifecycle`, `Transfer`, `Rendezvous`, their instances, and the proofs above. Left:

1. `WorkQueue`: the list of `benesh_make_active` and `deque_work` pointer by
   pointer, shown to implement the queue of `EngineState` (`MakeActive`, `Take`),
   nodes queued twice included. Theorem: the well-formedness of the list.
