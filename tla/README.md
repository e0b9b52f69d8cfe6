# A verification project for APGenX (open-apgen)

APGenX is an activity planner.  An *adaptation* declares activity types and
resources in APGen's own language; a *plan* holds activity instances; *modeling*
executes the programs of the activities as a discrete-event simulation that
writes a history for every resource; other threads read those histories to
check constraints and to write time-ordered listings (TOL, XMLTOL) while the
simulation is still running.

Paths below are relative to `src/src/` of the repository.

## 1. Inventory

| Component | State | Operations | Where |
|---|---|---|---|
| Discrete-event core | event queues, `CurrentEvent`, `time_last_processed`, `modelingTime`, registries of waiting programs, `containersToWatchForWaitUntil`, recent signals and compiled patterns | `ProcessEvents`, `can_a_thread_be_unlocked`, `do_model` of each event, WAIT FOR, WAIT UNTIL, signals, usages | `apcore/modeler` |
| Resource histories | balanced trees of `value_node`, `lastSkippedNodeContainer`, values | `append_to_history`, `Add`, freeze, thaw, evaluate | `apcore/resources` |
| Containers (`tlist`, `slist`, `multilist`) | links, indicators, second keys, running sums at each node | insert, remove, find, notify iterators | `apgenlib/templates.H`, `linkers.H`, `multilist.H` |
| Multi-iterators | heads of several histories, active and on-hold lists, safe nodes | `next`, `peek`, `save_safe_nodes`, insertion and removal callbacks | `apcore/templates`, `apgenlib/*.H` |
| Trailing threads | `thread_intfc`: `SafeTime`, `SafeVector`, `Done`, `ErrorsFound`, `theSafeVectorHasBeenCaptured`, `WaitingForData`, errors | `advance_now_to`, `feed_last_data_to_trailing_threads`, `trailing_miter::get_new_data`, `Constraint::check_constraints` | `apcore/modeler`, `apcore/templates/trailing_miterator.C` |
| Constraints | automata (`ForbiddenCondition`, `MaximumDuration`), list of violations | `evaluate` | `apcore/modeler/Constraint.C` |
| Interpreter | execution contexts, symbol tables | statements and expressions | `apcore/interpreter`, `apcore/modeler/Execute.C` |
| Scheduler | windows of opportunity, second modeling pass | `get_windows`, `doSchedule` | `apcore/scheduler`, `apcore/modeler/Events.C` |
| Activities | hierarchy, status lists, clipboard | decompose, abstract, detail, regenerate, cut, paste | `apcore/activities` |
| TOL output | one slot per stage, `no_more_work` flags | iterate, filter, write | `apcore/output` |
| XMLTOL reader | two mutexes, two condition variables, `error_found`, `reached_the_end` | parser thread and plan building thread take turns, record by record | `apcore/parser_support` |
| Commands | one request at a time | `action_request::process` | `apcore/action_request.C` |
| Server | one request slot | hand-over between XML-RPC and APGen threads | `apcore_server` |
| Post-processing | per file: list of records, histories, `safe_vector`, `LastParsedRecord`, `FirstRecordToProcess`, flags; `errors_found` | parse, extract, compare, interrupt; convert to JSON | `tpf` |
| GUI, vendored code | | | `atm_client`, `APedit-2.4`, `xmlrpc`, `json-c`, `../extension-lib` |

**Interactions.**  The modeling thread calls programs and resources
synchronously.  It talks to a trailing thread only through the atomics of
`thread_intfc` and one mutex, and hands it *safe vectors*: its `SafeTime` and, for
each history, the last node its own iterator has returned.  A trailing thread
then walks the live histories, up to and including those nodes, without a lock.
The TOL writer hands vectors of records from stage to stage through single
atomic pointers; the XMLTOL reader alternates two threads with condition
variables; `tolcomp`, a program of its own, repeats the safe-vector scheme with two
parsing, two extraction threads and one comparator.

**What is hard.**  Memory and message ordering between the two threads;
histories that change behind a reader (a filtered-out settable node is inserted
late, at its own earlier time); nodes in the future (the END of a usage);
ending: last data, `Done`, errors and joins may cross; in the event core, which
of several waiting programs goes on, at which time, and whether one is
forgotten; in the constraints, automata whose state outlives the list they
report to; in the output, three threads that own vectors in turn, and a filter
that must not lose what it leaves out; in the readers, a list that is shortened at
one end while it is read at the other, results that are compared before they are
complete, and threads that must release each other when one of them fails.  `PROJECT.json` lists each hazard at its line.

## 2. Modules

| Module | What it is |
|---|---|
| `LeaderFollower` | What the trailing protocol promises: a leader's time grows, a follower evaluates only strictly behind it. |
| `TrailingThread` | The modeling thread and the constraint thread with every shared load and store. |
| `MCTrailing` | Bounds for it, and the promises of comments that the code does not keep. |
| `TrailingThread_proofs` | Theorems about `TrailingThread`. |
| `EventLoop` | The discrete-event core: one action per decision of `ProcessEvents` and of the functions that look for a waiting program. |
| `MCEventLoop` | Bounds for it. |
| `MergedIterator` | The event queues and `Events()`, the `Miterator` that merges them and is notified of what is added to and removed from them. |
| `MCEventQueues` | `EventLoop` and `MergedIterator` side by side: each step of the loop is a step of the iterator. |
| `EventQueues_proofs` | Theorems about both together: the iterator finds the event that the loop takes. |
| `EventLoop_proofs` | Theorems about `EventLoop`, the last of them that a single program's wake-up on a condition is not lost. |
| `Listing` | What a TOL and an XMLTOL promise, without threads: blocks of records, in order, complete, from which every value can be read back. |
| `TolPipeline` | The three threads that iterate, filter and write. |
| `MCTolPipeline` | Bounds for it, and the promise of a comment that filtering does not keep. |
| `TolPipeline_proofs` | Theorems about it, the refinement of `Listing` among them. |
| `Constraints` | The evaluation loop of `check_constraints` and both automata, over several modeling runs. |
| `ViolationListing` | Extends `Constraints`: the violations in a TOL, those active at its start, and those never released. |
| `Constraints_proofs` | Theorems about `Constraints`, and about `ViolationListing`. |
| `MCViolationListing` | Bounds for both, and the promise of `Constraint::initialize`. |
| `OrderedList` | What a synchronized list promises: nodes by key, those of one key in the order of their insertion. |
| `ActivityHierarchy` | The plan as the commands see it: the hierarchy of instances, their lists, `instance_state_changer` and the commands. |
| `MCActivityHierarchy` | Five sessions for it, and what holds in which of them. |
| `BalancedTree` | `tlist`: the list with the height-balanced tree over its nodes, second keys, searches, and the sums of `intLinker`. |
| `MCViolationLists` | `MCViolationListing`, or the container by itself, in one specification. |
| `Selections`, `Selections_proofs` | The members of a sequence at given positions, in their order, and lemmas about them: what a filter keeps, and the history of a resource. |
| `TolCompare` | `tolcomp` with two files: two parsing threads, two extraction threads, the comparator and the timer. |
| `TolCompare_proofs` | Theorems about it. |
| `RecordReader` | What reading a file promises: each record is taken over before the next is parsed, and a read is good only if all were. |
| `XmlReader` | The two threads of the XMLTOL reader with every lock, wait and signal. |
| `XmlReader_proofs` | Theorems about it, the refinement of `RecordReader` among them, for the module itself and as `MCReaders` instantiates it. |
| `MCReaders` | Pairs of files for `tolcomp`, bounds for the XMLTOL reader, and both in one specification. |

### TrailingThread

`mpc` is where `ProcessEvents` stands: it stores the first vector, waits for its
capture, loops (`SkipNode`, `SetNode`, `UseNode` for `do_model`; `AdvanceTime`;
`WakeAhead` for a wake-up that moves "now" before the next event; `OfferVector`
and `RaiseFlag` for the second half of `advance_now_to`), then feeds the last
data (`FeedFlag`, `FeedStore`), sets `Done`, looks at the errors and joins.
`ModelingError` and the `Catch...` actions are its catch clause.

`cpc` is where `check_constraints` stands.  `get_new_data`, called by `peek` and
by `next`, is the sequence `Sample` (the master's time), `TestFlag` (the capture
flag, then the pointer), `AdoptVector`, `SetCaptured`, `ReviveTrailers`, and then
one of `ServeNode`, `FinishIfMasterDone`, `BailOutOrWait`.  `GatherNode` and
`EvaluateConstraints` are the body of the loop.  Each atomic that the other
thread can observe is read or written in an action of its own; runs of private
statements are merged.  Reading a deleted vector is the state "crashed", one of
two possible outcomes.

A node is `<<time, n>>`, `n` numbering the nodes of a history at one time; a safe
vector is `[id, time, safe]`, where `id` stands for the address and tells
one vector from another.

### EventLoop

A program is an arbitrary sequence of statements; `pc = "run"` means that
`do_model` is executing `running`.  Events carry the queue that `add_timevent`
puts them in, because the order among simultaneous events matters: usages
before programs that continue now, before programs that were scheduled earlier.
`potential_triggers` is the set of nodes it has `returned`.  The phases of
`can_a_thread_be_unlocked` are `"signals"`, `"now"` and `"future"`.  A condition
is "resource r is (not) in use", which with nonconsumable resources becomes
true both now (START) and in the future (END).

### MergedIterator and MCEventQueues

`EventLoop` takes the least of the set of its events.  The code has no such set: it
has queues, and an iterator with one thread per queue that stands at the first
event it has not returned.  `merger` is that iterator (`active`, `dead`, and the
event `at` which each thread stands), `queues` are the lists, `CurrentEvent` is the
event that the loop deletes when it moves on.  `HandleAddition` is the
notification of the iterator: a thread without events comes back to life, and a
thread that has looked ahead steps back to an earlier event; `thrown` is its refusal.
A queue is any set of natural numbers, the priorities; queue 0 has the initialization
event, which `Begins` returns at once.  Lists are kept in the order of a relation:
`PutAfter` puts a node where `insert_binary_node` finds its place, `Arranged` is a
list filled that way node by node.
In `MCEventQueues` an event that `EventLoop` schedules is put in its queue and the
iterator told, the event that it processes is the one the iterator advances to,
and when it is done the queues are purged.  `PeeksNextEvent` says that the iterator
stands where `IsNextEvent` says, so that the model of the loop may do without it.

### BalancedTree and OrderedList

A node is its two keys.  `tree` has the root and, for each node, both links, the
parent, the indicator (`heavy`), what it counts (`own`) and what is counted to its
left and right (`sum`); `list` is the linked list.  One operator stands for each case
of the code: `SingleRotation` and `DoubleRotation` for cases 3 to 5 of
`insert_binary_node`, `CutLeaf` and the four `Swap...` for phase 2 of
`remove_node`, `Restored` for its step 1, `Shrunk` for steps 2 and 3, `Rotated` for
`rotate`.  Each attachment is the code's, with or without an update of the counts:
nothing recomputes a sum, so that `ListIsSound` (`SumsAreRight`) tests the updates.  Trees are
values that the operators pass on, since no other thread sees the intermediate
ones.  `OrderedList` knows neither trees nor second keys but for the order they
give; the refinement mapping is the list itself.

### TolPipeline and Listing

`ppc`, `fpc` and `xpc` are where `iterateOverTOLevents`, `filter_records` and
`filter_xml_records` stand.  The two slots (`records_to_filter`,
`data_for_xml_filtering`) are `<<>>` for NULL or `<<vector>>`; the receiver of a
vector empties the slot when it is through with it.  `Kept` is what
`filter_records` leaves enabled: for interpolated resources the ends of each run
of equal values, for others the values that differ from the last one kept,
where "equal" is `is_equal_to` with half of `min_abs_delta`.  Nothing is
remembered from one vector to the next.  `Listing` is the refinement target
(`ListsEverything`): it has batches and files but no thread, and says that a block
may leave a record out only if the listed ones give its value back, by holding or
by a straight line.

### Constraints and ViolationListing

`TrailingThread` shows how nodes reach the constraint thread; `Constraints` takes
over from there: the constraints that depend on the nodes of one time are
evaluated when a later node arrives, in any order, each finding its condition true
or false or failing with an error.  `seen` records what was found and
is the reference for what must be reported.  `ViolationListing` runs when
modeling is over; `active_violations` is a tree that allows an ID twice
but finds only the first entry, hence the field `again`.

### TolCompare

`pcP` is where `tol::parse` stands.  Records are numbered; `read` of them have been
parsed, `listed` have been moved from `expressions` to `theRecords`, `freed` have
been deleted from its front.  `last` and `first` are the atomics
`LastParsedRecord` and `FirstRecordToProcess` between the parsing and the
extraction thread.  `pcX` is where `tol::process` stands: it waits for a batch
(`SeeBatch`, `SeeParsed`), appends values to histories (`ProcessBatch`), leaves a
safe vector in `slot` (`StoreVector`; `FindSlotFull` and `RetrySlot` are the wait
for the comparator), polls (`Poll`, `PollFlags`), and processes the last few
records apart (`ProcessRest`).  `pcC` is where `tol::compare` stands: it empties the
slots (`TakeVectors`), asserts that it has something to compare (`GiveUp`), starts
with `CompareInitialStates`, then, each time around, goes through the resources in
`compare_histories` (`AssumptionsHold` are its assertions; `ComparePair` is one pass
of its inner loop).  "aborted" is a failed assertion and "crashed" a pointer that is
NULL or dangling.  A record is a time, a kind, a resource and a value; a file
without records stands for one that cannot be opened.

### XmlReader and RecordReader

`pcM` and `pcB` are where the main thread and the plan building thread stand,
`parserJob` and `recordJob` hold the owners of the two mutexes.
`pthread_cond_wait` is three actions: release the mutex and sleep
(`WaitForBuilder`, `WaitForParser`), be woken (`Woken`, part of the signalling
action, which does nothing if nobody sleeps), and get the mutex back (`WakeMain`,
`LockRecord`).  `RecordReader` has neither threads nor locks.

`MCReaders` puts both programs side by side: `program` says which of them runs, and
nothing is shared.

### ActivityHierarchy

Commands are executed one at a time, so each is one action; what makes them hard
is what happens inside.  `instance_state_changer::do_it` and the operations it
calls (adding a child, severing one from its parent, decomposing, hiding a
hierarchy) call each other, change the plan as they go, and may stop at an error
anywhere.  Each is an operator from plan to plan, in the order of the statements:
`SeverIf`, `Pruned`, `Adopted`, `Adopting` and `Changed` are the sections of `do_it`,
`ToClipboard`, `ToDecomposed`, `ToAbstracted` and `ToActive` the cases of its
visibility switch (`Switch`), `Adjust` the end of it, `OneDecomp` and `HideParent`
what a decomposition statement does (Decomp.C).

An instance in `plan.act` has its list, type, parent, children in their order, the
cached pointer to the top of its hierarchy, whether it is scheduled, and whether its
creation section was exercised last or its destruction section (`made`).
`plan.fuel` is how many sections succeed before one fails; `plan.out` is the
exception on its way, which every later change respects (`IfOk`) until the
command catches it (`Survive`, `DeleteIf`).  `plan.dead` are the instances that the
command has deleted: the lists a command makes hold plain pointers, and one that
is followed to a deleted instance ends the model ("dangling").  `plan.count` is
what a `..ALL_QUIET` command counts; it takes one pass per action (`AllQuiet`,
`AllQuietAgain`), and `quiet` says that another one is due.  ABSTRACT and DETAIL take
FULLY as actions of their own (`AbstractFully`, `DetailFully`): a pass over what is named, then
one over the parents, or over the children if the command comes from a file,
until nothing is left.

Sections of types are arbitrary programs: of them only the children they create,
and their failure, are kept.  `session` fixes the commands and what they may name.

## 3. Runs

| Run | Question | Bounds |
|---|---|---|
| `trailing_safety` | Is what the constraint thread reads final, complete and in order? Does the protocol implement `LeaderFollower`? | one settable and one nonconsumable resource, four times, three nodes per history, vectors offered every second advance: enough for a late insertion behind a trailer on hold, a vector skipped because the last one is unread, and a wake-up ahead of the queue |
| `trailing_liveness` | Does `ProcessEvents` always end, and is each vector read? | no nonconsumable resource (see `trailing_join`), three times, two nodes |
| `trailing_last_data` | Violation: the last vector can be missed | as small as shows it |
| `trailing_join` | Violation: a node later than the last event blocks the join | as small as shows it |
| `event_loop` | Are programs neither lost nor duplicated, and woken exactly when they should be? Do time, triggers and signals stay in step? Does the iterator over the queues find the event to process? | two programs, one of them waiting on conditions, two resources, two usages of them, two signals, now or later, and a pattern that only one of them matches, three times, six events: enough for a wake-up now, one ahead of the queue, and a wait that follows one; queues that run out and fill again, and additions before the event an iterator has looked ahead to |
| `event_loop_lost` | Violation: of two programs whose conditions become true together, the second is not woken | the same with two condition waiters |
| `tol_pipeline` | Do the three threads implement `Listing`, does every vector have one owner, does the output end? | one interpolated resource (exact) and one with a tolerance, another kind of record, both files, four events in batches of three: two batches, so that each slot is used again and the filter starts afresh |
| `tol_drift` | Violation: slow changes are filtered away | one interpolated resource with a tolerance, one batch of seven |
| `violations` | Are violations reported when they should be, once, matched by ID, final when the TOL may see them, and listed? Does the container implement `OrderedList`, stay balanced and searchable, and keep right sums? | two forbidden conditions and one maximum duration, three evaluation times, errors, any window of output: enough for a violation, a release and a violation of one constraint and for two constraints at one time; lists of up to eight different keys, with one more node that gets a second key, or of three keys with four second keys, in any order of insertions and removals: seven nodes are enough for every case of insertion and removal (the nested rotation of `rotate` included) but one, and eight for that one, a single rotation in step 3 about a balanced node; beyond that, cases only repeat higher up |
| `violations_remodel` | Violation: the second run starts with the automata of the first | two runs, two constraints |
| `readers` | `tolcomp`: is every record processed once and never after its deletion, is only settled data compared, are the differences right, and do the threads end? XMLTOL reader: do its threads take turns, implement `RecordReader`, and end every read? | seven pairs of files with up to six records, batches of two, two resources, two values: enough for three batches in one file, a full slot, a resource that changes in one file only, histories of different length, a missing file, a syntax error, a failed extraction and a time limit; three XML files of up to three records with an error of either thread anywhere |
| `hierarchy` | Do parents, children and cached tops agree after every command? Do CUT, and PASTE of what was cut, move whole families, and does COPY copy every member? Is what is displayed a cut through the hierarchy, so that no pass reaches an instance it has deleted? Do creation and destruction go with weak activity? Do the `..ALL_QUIET` commands end? | four types (no section, a decomposition, one of two levels, a nonexclusive one).  Session `Display`: any sequence of commands on what is displayed, four instances, selections of up to two.  `Hopper`: the same with PASTE into a hopper, three instances, selections of one.  `Copying`: NEW, COPY, CUT, PASTE, ABSTRACT and DETAIL on one family and its copies, five instances, which is what a nonexclusive family and its copy need.  `Faulty`: the commands of `Display` with COPY, three instances, and sections that fail at once, after one or two, or never.  `Script`: any instance of the plan may be named, COPY and GROUP included, three instances.  Enough for a decomposition on two levels, a last child that is severed, a family that is cut and pasted, copied and pasted in parts, and an instance regenerated while its descendants are in the same list |

Each property of a passing run has a mutant: a definition that changes one
mapped definition the way a plausible bug would, and breaks the property.
These are the definitions under a `Fault:` comment.

### What the violations say

* **Last data** (`AllDataServed`).  `get_new_data` looks at the capture flag long
  before it looks at `Done`.  The last vector and `Done` can arrive in between.
* **Join** (`ThreadsAreJoined`).  A usage that ends after the last event makes
  the last safe vector name a node that can never be served.
* **Lost wake-up** (`NoLostWakeUp`).  The trigger that wakes the first waiter is
  consumed, and other waiters are not tried again before time advances.
* **Drift** (`HistoryReproduced`).  The filter compares a value with the one just
  before it, kept or not; steps within the tolerance add up unseen.
* **Remodeling** (`EveryRunStartsAfresh`).  `Constraint::initialize` is never
  called: a condition that was true when one run ended is not reported by the
  next, or is released in it.

One more fact has no run of its own: constraints gathered at a time are
evaluated when a later node arrives (Constraint.C:464); after the last one none does,
so that those of the last time are never evaluated.  `EvaluationIsComplete` speaks
of the times before.

`ActiveViolationsReported` makes one exception that is a defect, too: the first
violation of a plan is entered in `active_violations` twice (TOL_iterate.C:543 and
:818) and deleted once, so that a TOL can call it unreleased, or earlier than its
start, when it is not.

In the readers the properties state what holds; what they except is worth knowing:

* `AllThreadsEnd` asks the comparator to end only if the histories of every
  resource end at the same time in both files.  If they do not,
  `compare_histories` repeats its last pass for ever (tol_comparator.C:1110-1178
  advances neither side); so it does when the parsing of one file stops at an
  error that is raised after the comparator has looked at `errors_found`.
* The assertions of the comparator may fail after a failed extraction, which sets
  `file_extraction_complete` before `errors_found` (process_tol.C:343-349): in
  between, the comparator asserts that a vector was delivered.
* `AccessesLive` excepts the time limit: the extraction is then
  called complete while it goes on (process_tol.C:256), and the parsing thread,
  which takes this for the end (tol_interpreter.C:123-153), clears the list that is
  being read; the assertions may fail then, too.
* In the XMLTOL reader a read that fails leaves both mutexes locked
  (xml_reader.C:593-615), so that the next read in the same process blocks for ever
  (`AtRest` allows it; `ReadEnds` speaks of reads that got their mutexes), and after
  an error of the parser the builder stays asleep.  The message of such an error is
  overwritten by the builder's, which is empty (xml_reader.C:593-594).

Of the commands, too, `MCActivityHierarchy` states what holds in which session; what
it leaves out are facts about the code:

* **A cut** (`OneActiveOnEachPath`).  The passes of DETAILALL take for granted that
  no displayed instance is above another (action_request.C:5193).  Commands on
  displayed instances keep that up (`DisplayIsACut`).  Three others do not: a GROUP
  that puts a nonexclusive instance, whose own children were cut, under another,
  followed by CUT and PASTE of the family (`FromClipboard` shows the grandchild it
  makes); a script that details a hidden instance; and an ABSTRACT whose destruction
  section fails half-way.  A REDETAILALL then comes to an instance it has just deleted.
* **REDETAIL** of an instance that is decomposed leaves it without children, and
  hidden: its `desired_state` is the list it is on, so that after the children are
  deleted nothing makes new ones.  Only a script can name it, and the one in
  unit-tests/76-regen-children notes it as "causes the parent to disappear".
* **Creation twice.**  The first DETAIL exercises the creation section of a child
  again (instance_state_changer.C:597-604 says so itself).  `made` tells only which
  section was the last, hence `CreationFollowsActivity`.
* **COPY of a family** parts it, although the comment says "copies recursively"
  (ACT_exec.C:1637).  A copy is brand new when `do_it` is asked to adopt the copy of its
  first child, and `do_it` returns from that branch (instance_state_changer.C:207-210)
  before it comes to the child.  The copies of the children stay on the clipboard as
  families of their own, and PASTE puts each of them into the plan as a root.  It is so for
  plain decompositions (NEW, DETAIL, ABSTRACT, COPY gets there).  A nonexclusive
  instance makes children of its own in that call, is not brand new any more then, and
  adopts the copies of its second and later children.  PASTE of copies of what was cut
  goes the same way.  Hence `FamiliesTravel` speaks of links for CUT, and PASTE of what was
  cut, only, and of COPY as to which instances are copied (`CopiesAreComplete`).
* **COPY and the plan.**  The same call exercises the creation section of the copied
  parent and, if it is nonexclusive, its decomposition: the child becomes active in the
  plan although its parent goes to the clipboard, which is "not instantiated, not visible,
  not modeled" (C_global.H:124).  When the next CUT or COPY clears the clipboard, the
  child stays behind as a root whose cached top is a deleted instance; hence no
  `TopsAgree` in `Copying`.
* **DETAILALL_QUIET** does not end once a GROUP has put children under an instance of
  a type without a section: they are counted in every pass.
* **CUT** of an instance that is on the clipboard already clears the clipboard first,
  and then goes on with a deleted instance (ACT_exec.C:1507).  The sessions name
  instances of the plan only.
* **Half a link.**  `sever_from_parent` takes the child from the list of its parent
  before it shows the parent, and clears the pointer to the parent afterwards
  (instance_state_changer.C:981).  If a section fails in between, the link stays in
  one direction; no command on displayed instances gets there (`LinksAgree` holds
  in `Faulty`), UNGROUP of a hidden instance in a script does.
* A section that fails in a NEW leaves cached tops of a deleted instance behind, hence
  no `TopsAgree` in `Faulty`.
* GROUP of an instance under its own descendant does not return.  The action excludes it.

## 4. Fairness

`trailing_liveness` and `trailing_join` assume weak fairness of each of the two
threads as a whole (`WF_vars(ModelNext)`, `WF_vars(CheckNext)`), `tol_pipeline` of
each of its three (`WF_vars(ProducerNext)`, `WF_vars(FilterNext)`,
`WF_vars(XmlNext)`), `readers` of each
thread of the program that runs, the timer included (`MCFairness`).  They are preemptive operating-system threads, and every wait is a loop that
sleeps a few milliseconds and looks again, so a thread that can take a step takes one.
`hierarchy` assumes that the do/while loop of a `..ALL_QUIET` command takes its next
pass (`WF_quiet(NextPass)`), as the one thread that executes it does; a behaviour
that stops there only because a pass needs more instances than the bound allows is
left out of consideration.
The two threads of the XMLTOL reader wait for mutexes instead: since they hand
them to each other, weak fairness is enough (no thread contends for a mutex that
the other takes again and again).  Nothing is assumed about which of its possible
next steps a program takes.

## 5. Proofs

`TrailingThread_proofs` proves, for every set of resources, every horizon and
every update interval:

* `TypeCorrect`: the type invariant.
* `PastIsFinal` (`NoChangeInThePast`): nothing changes at a time the constraint
  thread has left.  Not inductive by itself: it needs `TimeInv`, that
  the clocks `get_new_data` tests (`masterTime`, the vector's time, the time of
  the last processed vector, `curTime`) never overtake the modeling thread's
  `SafeTime`, which in turn never overtakes `modelTime`.
* `ImplementsLeaderFollower` (`EvaluatesBehindLeader`): the refinement, from the
  same invariant.
* `HandoverIsFresh` (`VectorsAreFresh`): the two-variable handshake of pointer and
  flag never announces a vector twice while `advance_now_to` uses it; from
  `HandoverInv`, which relates flag, vector numbers and both program counters.
* `ServedNodesAreFinal` (`ServedNodesAreSafe`), `ServedInOrder`
  (`TrailingTimeOrder`), `TrailersCanBeRevived` (`RevivalFindsNode`) and
  `SafePiecesAreClosed` (`SafePartIsFinal`), all from `SafetyInv`.  Its three parts
  follow a node on its way.  `HistoryInv`: a history grows only after the nodes the
  modeling thread has consumed, because event numbers count the nodes of a time and
  a filtered-out node is later than every node of its history.  `VectorInv`: from
  the vector the `trailing_miter` owns, over the one it has loaded and the one in
  `SafeVector`, to the one that would be saved now, safe nodes never move back, and
  one that moves passes the time of the earlier vector (`Follows`); that in turn
  needs `Covered`: a node left behind by a vector but earlier than its time is
  retroactive and came with one that is not.  `TrailerInv`: a trailer is at or before
  its safe node, and on it when it is on hold, except between the adoption of a
  vector and the revival of the trailers, where the safe node is late enough to
  revive the trailer on.  That a first such node exists is `FirstNode`, from the
  well-foundedness of the natural numbers.
* `EveryChangeIsEvaluated` (`EvaluationIsComplete`), from `EvalInv`: a vector
  `Recorded` every change earlier than its time (and at its time, once the modeling
  thread was woken ahead of its queue, `Ahead`), so every change up to the last
  vector's time is behind a trailer on hold (`HeldBehind`), and a resource changed at
  `curTime` is gathered once its trailer is past it (`Gathered`).  The hard case is a
  trailer that is revived between `peek()` and `next()` and consumed in place of the
  node that was peeked: `Gathered` says that it then was among the updated resources
  already.

`EventLoop_proofs` proves, for every set of programs, resources, signals and
patterns, every horizon and every number of events:

* `TypeCorrect`: the type invariant, made inductive by what the event of each
  kind carries (`WellFormed`).
* `TimeAdvances` (`TimeNeverGoesBack`): from `TimeInv`, that no event is earlier
  than `modelingTime` and that, while `modelingTime` runs ahead of the last event
  because a condition will hold before the next one, every history node before it
  has been returned: only this keeps a second wake-up from going back.
* `TriggersAreInSync` (`TriggersInSync`): from `TriggerInv`, that no returned node
  is later than any event, and that, when no program can be woken, the iterator
  stops exactly at the next event.
* `SignalsDoNotLast` (`SignalsAreMomentary`) and `SignalsAreHeard`
  (`NoSignalMissed`): from `SignalInv`, that the cached matches of a pattern are
  those of the signals of the present time, that after `can_a_thread_be_unlocked`
  has looked at signals no program waits for one of them, and that it gets past
  them only when every event is later.
* `ConditionsHoldOnWakeUp` (`WokenOnTrueCondition`): from `ConditionInv`, that a
  program woken by its condition is resumed at `now`, strictly before every other
  event, so that nothing can make the condition false first.
* `StacksAreStolen` (`StackIsInOnePlace`): from `StackInv`, which says without
  cardinalities that the events and the registries that hold a program's stack
  exclude each other and are single.

Its last part proves `WakeUpsAreNotLost` (`NoLostWakeUp`) under the assumption
that at most one program waits for conditions.  `VigilInv` says what the loop knows
of that program at each position: while the present triggers are being tried, a
condition that holds is announced by a trigger not yet returned; when they are
exhausted it does not hold now; when time is about to advance it does not hold
at any time before the next event.  A trigger is consumed by the first waiter it
wakes, so that with a second waiter the first of these fails: `event_loop_lost` shows
the consequence, and the theorem that nothing else loses a wake-up.

`EventQueues_proofs` proves, for every set of queues and all
constants of `EventLoop`:

* `LoopWithQueues`: a behaviour of the two modules side by side is one of `EventLoop`,
  so that the theorems above hold of it.
* `PeeksAreNext` (`PeeksNextEvent`): the iterator stands at the event that the loop
  takes, and refuses no addition.  `IteratorInv` says that each queue holds, in order,
  the events that are left in it and the one that is being processed (`QueueInv`), and
  that the iterator `Stands` for what is left: each thread at the first event left in
  its queue, the threads with one in the order of those, the others dead.  An addition
  would be refused if it were earlier than the event before the one its thread stands
  at.  That can only be the event being processed, which is not later than the time of
  the loop (`CurrentInv`), while `TimeInv` of the loop says that no event is earlier; and
  it comes after all events of its time, because its number is the highest (`IDInv`).
  What the queue and the list of threads need of lists is in four lemmas: a node
  that is put after those before it keeps the order (`PutInOrder`), so does taking one
  out (`RemovedInOrder`), a list arranged is in order (`ArrangedInOrder`), and in a list in
  order the head is the least node, and the neighbours of a node those just
  before and after it (`ListNodes`).  `AdditionStands`, `RemovalStays` and
  `ReturnedStands` then say that each operation of the iterator keeps it standing for
  what is left.

`TolPipeline_proofs` proves, for every set of resources, values and tolerances,
every batch size and every number of events:

* `OneOwner` (`VectorsHaveOneOwner`) and `NothingIsLeftBehind`: while a thread uses
  a vector, its slot leads to it, and a thread that has been told to stop leaves
  nothing in its slot.  `OwnerInv` adds the order of the end: the flags are
  raised only after the slots are empty for good.
* `CompleteFiles` (`FilesAreComplete`): `FlowInv` says that each file is a prefix,
  up to the vectors still on their way, of what `filter_records` makes of the
  vectors handed over so far; with `OwnerInv` nothing is on its way at the end.
* `PipelineImplementsListing` (`ListsEverything`): each step is a step of `Listing`
  or a stutter.  What `FlowInv` leaves open is that a block represents its vector
  (`WrittenRepresents`), which is about the filter alone: the recursion over a
  vector is well-founded (`FlagsExist`, by the least position where it would not
  be), the records selected keep their order (`Ranks`, `Selected`), a value that is
  held is told the same as the last one kept (`KeptAsStep`), and one on a line has
  the value of the ends of its run (`KeptAsLine`).  `OrderInv` adds that records
  have different times, so that a block tells which records it lists.  The theorem
  assumes that interpolated resources have no tolerance; with one it is false, which
  is what `tol_drift` shows.  Other resources may have any.

`Constraints_proofs` proves, for every set of constraints and limits, every horizon
and any number of runs:

* `TypeCorrect`: the type invariant.
* `SafeViolationsFinal` (`SafeViolationsAreFinal`): what lies up to
  `last_safe_node` is final, from the invariant that all violations have times up
  to `curTime` and the safe ones earlier times (`SafeInv`).
* `ForbiddenCorrect` (`ForbiddenReports`) and `MaximumCorrect` (`MaximumReports`),
  while `runs <= 1`: later runs start with the automata of the run before, and both
  statements are then false, which is what `violations_remodel` shows.  Both compare the list
  with the history of evaluations, where the automata have three flags and a time.
  `ForbiddenInv` and `MaximumInv` say what those stand for: `condition_has_been_true`
  is what was found last, the ID kept is that of the last report, which no other
  report has (`Unreleased`), `since` is the start of the stretch under way
  (`Current`), and `in_violation` says that this stretch is too long already.  They
  do after an evaluation that did not fail (`Alive`): an error ends the run between
  the change of an automaton and its report.  `PairInv` says that an ID is used once
  or by a violation and its release, and `FreshInv` that the counter is ahead of all
  IDs.

Its second part, on `ViolationListing`, carries the theorems over to the constraint
thread and the TOL together (`ReportsLast`, `SafeViolationsLast`) and proves, for every
number of TOLs and every start and end of them:

* `ListingCorrect` (`ListsViolations`): `OrderInv` says that the list is in order of
  time, and safe but for the round that failed; `ListedInv` that a TOL has listed what
  it passed and that its span covers, whatever order other events are met in.
* `ActiveViolationsCorrect` (`ActiveViolationsReported`), while `runs <= 1`:
  `ActiveInv` says that the entries are those of the violations passed and not
  released by what was passed, and what is different for the first one, which is
  entered twice; `EarlierInv` that the copy made at the start of the TOL was made when
  exactly the earlier ones were passed.  It needs `PairInv` of the list: a release
  removes every entry with its ID.

`TolCompare_proofs` proves, for any set of commands, files of any length, any number
of resources and any batch size:

* `RecordsAreProcessedOnce` (`EveryRecordOnce`) and `NoRecordIsReadAfterDeletion`
  (`AccessesLive`).  Both follow from `FileInv`, which relates, for each file and
  each pair of positions of its two threads, the bounds of the list and the
  numbers of records processed: the records processed are exactly those before
  `first`, or up to `end`; `first <= end <= last = listed <= read`; and what is
  deleted lies before `first`.  `TimeInv` says that `terminate` is never set without
  a time limit.  That an exception leaves a prefix uses the least element of the
  set of undefined records.
* `OnlySettledDataIsRead` (`ReadsSettledData`).  `SettleInv` adds the comparator: a
  vector in the slot, or seen, points into histories that only grow at their ends
  (`NodesGrow`); the one in the slot is not earlier than the one seen; and while a file is
  being extracted the comparator's place in a history is not beyond the safe node, the
  first node apart, where it stands before it has seen that node to be safe.
* `ComparisonIsRight` (`DifferencesAreRight`), for files that are sound and orderly.
  `SoundInv` has two parts.  `ThreadInv` says that no thread of such files fails, that
  `stamp` is the time of the last record processed, and that a vector later than the
  first records has a node of every resource, so that no history is empty when
  `compare_initial_states` reads its first node.  `CompareInv` says where the
  comparator stands in the two histories of a resource (`PlaceInv`): the node before
  its place in one file is not later than its place in the other (`OneTimeBehind`),
  hence what it takes for the value of the file without a record is the value at that
  time (`ValuesCompared`); and every time before both places has been decided
  (`DecidedBefore`).  A resource it is through with after both extractions is at the
  end in both files (`Compared`), at the same time.

`XmlReader_proofs` proves, for any number of files and records:

* `TypesAreRight` (the type invariant), `ThreadsTakeTurns` (`OneAtATime`) and
  `ReaderImplementsRecordReader` (`ImplementsRecordReader`).  Since the condition
  variables have no predicate, the position of one thread must determine what the
  other may do: `Locks` says who holds which mutex at each position, `Turns` which
  pairs of positions are possible, `Flags` when the error and end flags may be set,
  and `Records` that all the records handed over are built, or all but the one on
  hand.  `XmlThreadsTakeTurns` and `XmlReaderImplementsRecordReader` carry the results
  over to `MCReaders`, whose steps leave the reader's variables alone whenever
  `tolcomp` runs.

The assumptions are those on the constants, `ResourceAssumption`,
`BoundAssumption`, `ProgramAssumption`, `TolAssumption`, `ConstraintAssumption`,
`BatchAssumption`, `ResAssumption`, `CommandAssumption`, `QueueAssumption` (the queues
are finitely many natural numbers) and `QueuesAssumption` (those that `EventLoop` uses
are among them);
`MaxNodes`, `MaxTime`, `MaxEvents`, `MaxUses` and `Horizon` are bounds but arbitrary ones.
The theorems with a premise say so: `WakeUpsAreNotLost` (one waiter for
conditions), `PipelineImplementsListing` (no tolerance on interpolated resources),
those about the first modeling run, and `ComparisonIsRight`.  The first three premises
exclude a run of section 3 that shows the statement violated, and nothing else.  Those of
`DifferencesAreRight` are about the files: `Sound`, that nothing fails or cuts the comparison
short; and `Orderly`, that a file is as the modeler writes it, in the order of time,
with a value of every resource at its first time and at most one at any time (TOL_write.C:118,
for resources that are not interpolated).  The comparator relies on both: it begins with
the first node of every history, and goes by the times of single nodes.  Every sound
pair of files in `readers` is orderly.

Only model-checked are:

* Liveness (`OutputEnds`, `AllThreadsEnd`, `QuietCommandsEnd` and the others under fairness): the prover handles
  neither `ENABLED` nor fairness.
* The containers and `ActivityHierarchy`: their operators are recursive, as `do_it`
  and the functions of `tlist` are.

## 6. Not modelled

* The second scheduling pass, which deletes old history nodes while trailing
  threads may hold them (`advance_now_to`, under `res_mutex`).
* Evaluation of resource values, profiles; consumable and state resources.
* The TOL and XMLTOL trailing threads inside `EventLoop`: their `thread_intfc` is
  never created in this version, so the code that starts them cannot run.
* `tolcomp` with one file, `tol2json`, tolerances, interpolation, granularity and
  the report; when a file defines resources that the other lacks; the headers of the files,
  where metadata that are there twice make the parser throw an error which
  its thread only prints (tol_system.C:486-490, tol_interpreter.C:114-116): parsing
  then ends without `errors_found`.
* Wakeups of a condition variable that nobody caused.
* The interpreter, consolidation and parsing: sequential and value-level, their
  effect on events, waiters and histories is nondeterministic choice in the models.
* Of the containers: lists whose tree and list are not synchronized, temporary
  removal, copies, the linkers for real numbers and integrals, the older copies of
  the tree in `blist.C`; of the multi-iterators, the thread of the scheduling queue
  and those over resource histories (`TrailingThread` has their order, not their
  lists).
* Of activities: times and what moves or edits them, legends, epochs, parameters,
  the selection as state, GROUP under a new parent, detailing with a program of the
  user's, and the order of instances in their lists (by identifier in the model).
* `get_windows`: sequential code over large data.  The request slot of the XML-RPC server: the code
  that would hand requests over is compiled out.
* Formatting, files, the GUI, vendored libraries.

## 7. What could come next

1. `EventLoop`: the purge after a pass and the second scheduling pass.
2. `tolcomp` with one file, whose comparator scans one vector against itself.
3. Theorems: the containers and `ActivityHierarchy`, with recursive functions in the
   place of recursive operators; what a TOL promises for later modeling runs.
4. Settable and state histories with values, freezing and filtering; `get_windows`.
