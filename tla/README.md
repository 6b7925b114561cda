# win-vde: specification, model checking and proofs

win-vde is a Windows 11 tray utility that finds windows, switches virtual
desktops and puts browser windows back on their desktops after a reboot. This
directory holds TLA+ modules for the parts of it whose correctness depends on
the order in which things happen, the TLC configurations that check them, and
proofs checked by TLAPS. Paths below are relative to the repository's `src/`.

## The system

Everything that decides runs on one UI thread (`WndProc` in `vde.cpp`): window
messages, timers and results posted by worker threads. A handler runs to
completion; between two handlers anything may happen, and a handler may leave
work behind that a later message continues. That, the failures of the calls it
makes (allocation, `SetTimer`, `PostMessage`, COM) and the windows that other
processes open, close and move are what makes the program hard to test.

| component | state it keeps | operations | talks to | what makes it correct |
|---|---|---|---|---|
| Move engine: `move_queue.hpp`, `vde.cpp` 2962-4151, 4343-4805, 5088-5291, 5612-6175, `lifecycle.hpp` 274-516, 1288-1382 | the move queue and its runtime table, `g_reservedAutoIdentities`, `g_pendingAutoOperations`, `g_manualMoveOperations`, the verification timer, the retry state | queue, issue, read back, retire, cancel, hand a reservation over, finish or cancel an operation | lifecycle (outcomes), picker (takes windows over), checkpoints (heartbeats wait for reservations) | one owner per window, one move in flight, nothing leaks, everything queued ends |
| Application lifecycle: `lifecycle.hpp` 2675-3050 | `LcState` per application | observe, restore completed or cancelled, explicit save | move engine, session worker, layout store | one restore at a time, no restore forgotten or repeated for ever |
| Session worker and routes: `session_worker.hpp`, `lifecycle.hpp` 862-1059 | one pending slot per application, the worker's run state, the UI's routes | request, supersede, read, post, stop | UI thread by posted results | every request answered once or superseded, stop never waits for itself |
| Reconcile worker: `reconcile_worker.hpp`, deadlines `lifecycle.hpp` 1061-1130 | as above, without priorities | request, plan, post, stop | UI thread | as above |
| Planner: `lifecycle.hpp` 1778-2640 | none | `PlanAppReconcile`, `CommitAppReconcile` | workers, move engine | every live window gets at most one record, exact matches are kept |
| Layout store: `layout_store.hpp`, `vde.cpp` 1397-1586 | the layout file, its backup and temporary files, pending deltas, the revision | publish, rebase, recover, migrate | every save, the command line | no crash loses the last complete layout, a concurrent writer's records survive |
| Dirty flush, runtime start and finalization: `lifecycle.hpp` 23-203, 454-625, 1132-1266 | dirty flag, retry times, finalization state | flush, checkpoint, start, quiesce | layout store | a dirty layout is written, a final checkpoint is taken once |
| Bindings and restore gate: `binding_store.hpp`, `window_identity.hpp` | `g_recordByRuntime`, `bindings.txt`, the time an app is warm | adopt, prune, record in place | lifecycle, records | one record per window, a window that is known is never moved |
| Picker transition: `picker_state.hpp`, `vde.cpp` 9745-11500 | one transition, its attempts and rollback state | begin, effects, cancel, roll back | move engine, layout store | a failed transition restores what it changed |
| Reopen: `reopen_model.hpp`, `tabsnap.hpp`, `vde.cpp` 12600-13700 | `g_reopenUi`, `g_reopen` | show a checkpoint, select, launch, recognise the new window, move and record it | session checkpoints, bindings, records | nothing known to be open is opened again, each window gets its tabs and its desktop, a run ends |
| Session checkpoints: `tabsnap.hpp`, `vde.cpp` 1700-2060 | the snapshot files, `g_tabsByRecord` | save, rotate, capture on exit | bindings, reopen | rotation loses no checkpoint |
| Manual save: `vde.cpp` 5300-5610 | one operation | collect, read, match, compare, write | session and reconcile workers, layout store | a browser is left out only when its session cannot be read |
| Desktop pin | a small machine of its own | | | not modelled |
| Parsing, painting, icons, trace, registry settings | data and drawing | | | covered by the unit tests; not modelled |

## Modules

| module | what it is |
|---|---|
| `MoveEngine` | the move engine, one action per function of the code |
| `MoveContract` | what the engine promises about windows, without its machinery |
| `MCMoveEngine` | constants and symmetry of its model-checking instances |
| `MoveEngineProofs` | theorems about its queue and reservations, that it implements `MoveContract`, and about its operations: owners, calls under way, outcomes, wake-ups |
| `SessionPipeline` | the two worker threads, the UI's routes and deadlines, and the operations that use them |
| `MCSessionPipeline` | the operations of its model-checking instances |
| `SessionPipelineProofs` | theorems about `SessionPipeline` |
| `FileOps` | the directory of a layout file and what a file operation can do to it |
| `LayoutStore` | the functions of `layout_store.hpp` that run under the layout mutex, as sets of outcomes |
| `LayoutFile` | their callers: startup, migration, automatic and manual saves, restarts, damage |
| `MCLayoutFile` | constants and symmetry of its instances |
| `LayoutFileProofs` | lemmas about the functions of `LayoutStore`, and theorems about `LayoutFile` |
| `Lifecycle` | the `LcState` of one browser and the functions of `lifecycle.hpp` that advance it, as operators |
| `AutoRestore` | one browser's automatic restore around it: heartbeat, operation, records, bindings, gate |
| `MCAutoRestore` | windows, records and starting states of its instances |
| `AutoRestoreProofs` | theorems about `AutoRestore` |
| `PickerTransition` | the reducer of the picker's transition, a function of a transition and an observation |
| `PickerMove` | the pump that carries its effects out, the messages and timers that start it, the desktops it acts on |
| `PickerContract` | what a transition promises, without calls, readings and messages |
| `MCPickerMove` | how much disturbs each instance of `PickerMove` |
| `PickerMoveProofs` | lemmas about the reducer, theorems about `PickerMove`, and that it implements `PickerContract` |
| `LayoutRecords` | the records in memory, the journal of their changes and the rebase on another writer's file, as operators |
| `AutoLayout` | when changes are made, flushed and checkpointed around it |
| `MCAutoLayout` | the first file and windows of its instance |
| `AutoLayoutProofs` | theorems about `AutoLayout`, and lemmas about `LayoutRecords` |
| `SessionCheckpoints` | the tab snapshots of the last state and the last shutdowns, their rotation and failures |
| `MCSessionCheckpoints` | its instance |
| `SessionCheckpointsProofs` | theorems about `SessionCheckpoints` |
| `ReopenSelection` | the selection behind the reopen dialog and the launch plan, as operators |
| `Reopen` | the dialog, the launching engine, the browsers, and the records written |
| `MCReopen` | the checkpoints, filters and budgets of its instance |
| `ReopenProofs` | theorems about `ReopenSelection` and `Reopen` |
| `LayoutMatching` | scores of records and windows, splits and merges |
| `Assignment` | the matcher `AssignOneToOne`: components, maximum size, cheapest augmenting paths |
| `ReconcilePlan` | `PlanAppReconcile` and `CommitAppReconcile` over both, twice in a row |
| `MCReconcilePlan` | the records and windows it is checked on |

`FileOps`, `LayoutStore` and `LayoutFile` are one specification in three layers.
`MoveEngine` meets `SessionPipeline` only through the start and the end of an
operation: what the engine calls `RetireOperation` is a result, a displacement or
an expiry there. `AutoRestore` sees the workers and the engine through their
results only, and the planner as any plan that fits; `ReconcilePlan` shows which
plans those are. `AutoLayout` sees the layout file as a revision and records,
`LayoutFile` sees the records as versions. `PickerMove` shares the reservations
with `MoveEngine` (`BeginPickerAction`, `PickerTransitionEnds`) and the layout with
`AutoLayout` (`PopupSave`).

In the modules an operator that no action uses, and whose comment begins with
"Mutant" or "Seeded fault" or is that of the definition below it, is the form a
plausible mistake in that definition would have; it is kept to see that a
property notices.

### MoveEngine

A queued job has one entry in the move queue, one in `g_moveRuntime` and one in
the `liveJobIds` of its operation; the code inserts and removes the three in one
handler, so the model has one record per job (`jobs`), whose fields are the flags
of both structures: `waiting` (`waitingForVerify`), `awaiting`
(`issueAwaitingVerify`), `retire` (`retireAfterVerify`), `cancelReq`
(`cancelRequested`), `armFail` (`timerArmFailureCancellation`) and three budgets.
`guard` is `g_reservedAutoIdentities`: no reservation, the picker's, or a job's
token. `phase`, `pending`, `claims`, `failed` and `outcome` are what the
operations keep; `outcome` is what the lifecycle was told. `timer`, `retry`,
`msgs` and `cancelPending` are what wakes the queue up.

Handlers run one at a time. Where a handler calls a function whose effect
depends on the state reached by then, the call waits on `stack`, and while
`stack` is not empty only its head can run (`Calls`); this keeps one action per
function without giving up that a handler is atomic for the others. A job whose
owner is settled by such a call stays in `settling` until the reservation is
released, because the code releases it after the call.

Failures are chosen per instance by `Faults`: `"alloc"` (cancelJob and the
completion of a restore), `"settimer"`, `"post"` (PostMessage refused) and
`"throw"` (a tick that throws before it changed anything). A window may close at
any time (`lost`), an identity reading may be indeterminate at any time, a
readback may report any outcome.

Bounds: `MaxJobs` and `MaxPosts` bound counters that are unbounded in the code
(job ids, posted messages). `MaxAttempts`, `MaxIndeterminate`, `MaxUnresolved`
and `MaxNoProgress` are constants of the code (4, 4, 4, 8). `settle` uses 2, 2, 2
and 1, the smallest values at which a first failure and a last one differ; `faults`
uses 1, 1, 2 and 1, where an attempt and an indeterminate reading are always the
last, and has two windows and three jobs: a job behind the front, a successor for a
window and a successor of that successor (2.8 million states). The theorems hold for
all values.

### SessionPipeline

`ui` is what only the UI thread touches: the operations (a manual save, a manual
or automatic restore, a picker search, a metadata probe) with the results they
wait for (`session`, `matching`), the routes of `AsyncSessionRouteGate` (`gate`)
and of `g_sessionRoutes` (`routes`), the counted deadlines (`due`) and the monitor
timer. A handler changes it by one operator, because no other thread can look in
between. `pending`, `order`, `thread` and `stopping` belong to the workers; `msgs`
are the results they posted. What a handler does after it released a worker's
mutex (post a superseded result, notify, ask for the next browser, stop and join)
waits on `stack`, so that a worker can run between the two.

An operation asks for a browser once, so its request is named by the two. The 60 s
lifetimes become "may have passed": a route may expire at any monitor tick. Which
calls fail is chosen per instance by `Faults`: `"alloc"`, `"post"` and `"refuse"`
(`SetTimer`, `Request` or a snapshot). `MaxChanges` bounds how often the windows of
a browser change. Three operations are enough for one that waits, one that
displaces it and one that is displaced in turn; two browsers for an operation that
got one of its two answers. Metadata probes are in no instance, which would be too
large; the theorems hold for them too. A manual save that has compared the windows is `writing`
until `WritesSave`: the lock, the layout of before and the file come after the
comparison, and windows may change in between. `got` is what the save has of each
browser: prepared records, or the answer for which it is skipped.

Two things the model shows that no comment contradicts: the reconcile worker
always replaces what is queued for a browser, so a search can displace a manual
save's matching (the save then fails); and when
`AsyncSessionRouteGate::retire` cannot allocate, the gate keeps a route that
nobody waits for until it expires.

### FileOps, LayoutStore and LayoutFile

Every critical section under the layout mutex is one action; what makes it hard is
that it is a sequence of up to fifteen file operations, each of which may fail or be
the last before a crash. An operator of `FileOps` is therefore a *set of outcomes*
(the directory, success, and whether a failure was the code's own decision), `Then`
continues the successful ones and keeps the others, and the operators of
`LayoutStore` follow the functions of the code call by call. `AtomicWriteText` and
`LoadLayoutWithBackupLocked` then give every directory that any prefix of their
calls can leave. A failed copy or write may leave torn bytes, a failed
`ReplaceFileW` may leave no primary, a failed move or delete may have happened.
Reads under the mutex return what a file holds or fail; a read-back that fails is
the same as the operation before it failing after its effect.

`LayoutFile` has the callers. `kind` says which layout the directory holds: the
automatic one (migration, load, save against the revision the records are based
on, with the candidate of an unfinished publication) or the manual one (load and
save in one section). `revision`, `candidate` and `preserve` are
`g_autoRevision`, `g_pendingAutoPublishCandidate` and
`g_preserveBackupOnNextWrite`; `stored`, `prior` and `tried` record what the
program was told. Contents are versions: any version may be saved at any time.

Bounds: three versions (a layout, the one before, and one being written),
`MaxTried` different writes that fail between two that succeed, and one damage
that takes the only copy (`intact`), after which nothing is promised.

Left out: the diagnostic `.corrupt` copies, a legacy file that cannot be parsed
(it blocks startup until it is removed), the loss of a backup rather than of the
primary, record contents and conflicts.

### Lifecycle and AutoRestore

`Lifecycle` has one operator for each function that advances `LcState`; what the
code summarises in a signature is the thing itself (the open windows, the
desktops of the windows, the version of the session file). `LcObserve` is split
along its early returns (`FirstSight`, `LcGone`, `LcSettle`). Generation numbers
are left out because the app has one operation at a time, which
`FlightHasOperation` checks.

`AutoRestore` calls them where `vde.cpp` does. `at` is where the windows are;
`records`, `bound`, `held`, `spent`, `unbound` and `gate` are `g_autoRecords`,
`g_recordByRuntime`, the keys of `g_pendingRecordByRuntime`, the exhausted
`g_restoreBudgets`, `g_unboundSinceMs` and `g_restoreGates`; `persisted` is
`bindings.txt`; `op` is the entry of `g_pendingAutoOperations` with what its
phase still needs. `Observe` is one whole `ObserveFastSnapshots`. It is not tied
to the clock, because a browser that comes to the foreground is observed too.

The environment opens, closes, moves and retitles windows, writes a session file
that may be unreadable, lets a call fail (`Abandon`, `Observe` with a trouble) and
kills the program. Each of these uses up a disturbance; their number bounds the
instances. A plan may be deferred, a window may go unrecognised and a move may
fail at no cost.

Left out: how the planner scores windows, splits and merges of windows, expiry (all in
`ReconcilePlan`), deleted desktops, the picker's claims, the cancellation of moves
under way (in `MoveEngine`), the delay between a change of the records and its write
(a killed program has written them; the delay is in `AutoLayout`), and the layouts of
other browsers.

### PickerTransition, PickerMove and PickerContract

`PickerTransition` is `AdvancePickerTransition`: a transition is a record (`t`),
whose three pieces (the target window, the popup, the current desktop) share one
set of fields as functions on `Piece`. `out` is the effect the step returns.
`PickerMove` has what surrounds it: `work` (the effect scheduled, in a call or
observed), `pump` (off, running, inside a call to Windows, where messages are
dispatched), `q` (a posted message, the timer, the durable kick), `drain` and `quit`
(the passes of the shutdown drain), and the world the effects act on. Every call
may be refused, do nothing, or fail to answer; a posted message may be used up in
vain; the user may move a piece, cancel, or end the session. `PickerContract` says
what remains of all that for the user: a transition is open until it is kept or
undone, only a kept one is saved, a saved one is not undone. `Promise` is the
refinement.

Bounds: `Budgets` gives how often each kind of disturbance happens. The run takes
one cancellation with any one disturbance, two failures of the machine without
one, and two transitions in a row. `Attempts` is 2 (4 in the code), `PostCap` 2.

Left out: exceptions after the layout was swapped in `SavePopupMovedWindow`, the
256 turns of one pump, exhaustion of serial numbers, `WM_ENDSESSION` dispatched
inside a call, and which record a save is published under.

### LayoutRecords and AutoLayout

`journal` holds `g_autoRecords`, `g_dirtyRecordDeltas`, `g_validatedTouches` and
`g_deferredRecordConflicts`; a batch of changes is one function from record ids.
`PersistAutoLayout` is one step: rebase on what the file holds, publish, adopt or
keep what could not be written (`armed` is the content of a write whose result is
unknown). `flush`, `timer`, `life`, `started` and `phase` are the dirty flag and its
timer, what the lifecycle last saw, the stages of the runtime, and the process.
Another process (a second program, the command line, an editor) may write the file
whenever the mutex is free. Times are a clock of `MaxClock` readings; `MaxEvents`
bounds failures, foreign writes, window changes and restarts, and two are enough
for a failed write followed by a foreign one, the shortest way to a conflict with
oneself.

Left out: record contents other than place, last seen and missing since, the limit
of records, the provisional flag, delays (500 ms, 5 s, 60 s are "due"), back-off, a
recovered or migrated file at the start.

### SessionCheckpoints

Each file operation of a write is a step, which may fail or be the last of the
process. `slot` has the number of the checkpoint each file holds. Seven captures
in four slots let every slot be overwritten; three failures are one more than any
property needs. Two remarks that no property states: `MaintainSavedSnapshot` spends
its five-minute interval on an empty snapshot when tabs are known but no record is
bound (`vde.cpp` 2007-2011), and writes that fail at four shutdowns in a row empty
the history, because the rotation comes before the write (1985-1990).

### ReopenSelection and Reopen

A checkpoint is a sequence of windows; the text of a filter is the set of rows it
matches. `engine` is `g_reopen`: the jobs, the launch under way, the window set
before it. New windows appear on the user's desktop whenever the browser likes.

`file` is the session file of each browser. A browser with windows writes it at
some time or other (`SessionWritten`), so that it lags behind the tabs; one without
windows keeps that of its last session, and so does one that has just been started.
`OpenDialog` is `CollectOpenTabUrls`: it reads the file of every browser of which
`CollectFastSnapshots` finds a window, and nothing tells it how old a file is. With
`"partial"` an enumeration, here or in the engine, may miss any windows; a browser
whose windows are all missed is neither read nor unknown. With `"memory"` the list
is lost. A file that cannot be read makes its browser unknown. A call that moves a
window is trusted when it is accepted: with `"moves"` it may also fail, or be
accepted and do nothing. With `"records"` `RecordReopenedWindow` writes nothing (automatic
layouts are off, the record is refused). `told` and `heard` are history: the tabs
that finished runs brought back and that are still open, and those of them that the
dialog could learn of, because it was open when the run ended or the file it read
said what was open.

The instance has two checkpoints that share a window, one desktop that is gone and
one address no browser accepts. `Budgets` are the scenarios: without faults two
reopens from two dialogs with one window opened or closed by the user, and one
reopen with two such windows; with some faults two reopens (launches and memory;
moves and records, with the file of the last session; partial and slow); a slow
browser beside a window of the user; and all faults at once with one reopen and a
window of the user, or with two clicks. Two reopens are one whose outcome the next
must know; two dialogs are one that starts a run and one that sees its end.

Left out: drawing, the search for the browser's program, checkpoint windows without
a record identifier, allocation failures inside the engine, which lose the list of
what was launched; checkpoints do not change while a dialog is open.

### LayoutMatching, Assignment and ReconcilePlan

A window shows a *look*: a title class, the domain of the active tab, counts per
domain, the number of tabs, a signature. Scores are in thousandths, rounded down.
`Assignment` solves the matching as the code does, component by component; a search
for a path is one step that takes any path such a search may end with.
`AssignmentIsBest` compares the result with the definition of the best assignment.
`ReconcilePlan` plans, lets any of the moves fail, commits, and plans again.

Bounds: up to three records and three windows of seven looks, two desktops, ages
recent or old; four records are the limit, so that it is met.

Left out: malformed input, collisions of ids, no desktop at all, the checkpoint
matching of the command line, case folding of titles.

## Runs

| run | question | instance |
|---|---|---|
| `faults` | authority to move, one move in flight, leaks, ends and outcomes of operations, timers and retries when calls fail; the engine implements `MoveContract` | 2 windows, 1 automatic and 1 manual restore, 3 jobs, all faults |
| `settle` | every queued move is settled, every restore ends, a deferred heartbeat runs | 1 window, 1 + 2 restores, 3 jobs, fair |
| `saves_and_exit` | a save that is written has what it asked for of every browser that could be read; manual work is served; no request and no wake-up is lost; the program can always exit and leaves nothing | 2 browsers, two saves, both threads scheduled |
| `hung_workers` | every operation ends although workers may hang and calls fail; routes belong to their operation | 1 browser, an automatic restore, a search, a manual restore, all faults |
| `layout` | the acknowledged layout and the one before survive; saving always becomes possible again; no layout becomes its own backup | 3 versions, 2 failing writes, automatic and manual |
| `layout_torn` | finds the marker that no load accepts | as `layout` |
| `auto_restore` | one record per window; where a window belongs is rewritten only by that window; a window that is known is never moved; restores come to an end | 3 windows of 2 kinds, 2 desktops, 3 records, 2 disturbances, fair |
| `picker` | a transition always has its next step, ends, leaves nothing behind, implements `PickerContract` | 2 desktops, all modes, 2 attempts, 2 disturbances or a cancellation and one, fair |
| `records` | pending changes reach the file, no later knowledge is overwritten, no conflict with oneself | 1 window, 2 records, 2 events, fair |
| `checkpoints` | the history loses one checkpoint per failure at most and stays in order | 4 slots, 7 captures, 3 failures |
| `reopen` | nothing shown open is reopened unasked, nor what a dialog could know an earlier run brought back; old windows stay; an undisturbed run is exact; every run ends | 2 checkpoints, up to 2 dialogs and 2 reopens, 8 scenarios of faults, fair |
| `plan` | the assignment is the best, its plan fits and keeps places, the second pass moves nothing again | 13,000 inputs |

A property of a run is often a conjunction (`OperationsFollowJobs`, `EndsClean`,
`JournalIsSound`, ...); the modules state each part on its own, with what it is
about.

The safety runs of the engine and the file permute windows and restores, or
versions (`Interchangeable`); the others use no symmetry.

The instance of `AutoRestore` starts with a fresh installation or a saved layout,
with no window or two windows open that are all, partly or not at all adopted.
Two disturbances are a restart of the browser after a change, a failure while a
window opens, a kill after a move. The clocks count to the values at which a
comparison changes: one unit is a wait that is long enough, and two deferrals are
a first and a last one. Three records are the two that are saved and one for a
window that is new, so that the limit of records is met as well.

Deadlock is checked in the runs of the engine, the pipeline, the file and the
automatic restore: a heartbeat, a monitor tick or a save is always possible, so a
deadlock could only be a handler that cannot go on. The other five stop when their
budgets are used up or the program has ended.

### Fairness

Move engine. `WF(Calls)`: a handler runs to its end. `SF(MoveTimer)`:
`TIMER_MOVE_VERIFY` ticks every 150 ms while it is set, and a tick is only delayed
by other messages. `SF(CancelRetryMessage)`: a posted message is delivered.
`SF(RetireOperation)`: an operation that waits for results has a deadline
(`AsyncReconcileDeadlineGate`, the route gate) checked by the 5 s monitor timer;
`hung_workers` checks that this is so. `SF(PickerTransitionEnds)`: a picker
transition has bounded attempts driven by its own timer; `TransitionEnds` checks
it. Nothing is assumed about windows, users or results.

Session pipeline. `TimedSpec`: a handler runs to its end, and a monitor tick comes at
which everything that waits is older than its lifetime (weak fairness with its
enabling condition, `TickDue`, written out); nothing is assumed of the workers, which
may hang. `ThreadedSpec`: a handler runs to its end and both threads are scheduled.

Automatic restore. Weak fairness of time, of the heartbeat (the 5 s monitor timer,
which runs while automatic restore is on) and of each answer an operation waits
for: the session result, the prepared rows, the plan, the end of a move. Where the
condition under which an action is enabled is simple it is written out
(`HeartbeatDue`), which says the same. The other modules show that the answers
come (`EveryOperationEnds` in `hung_workers`, `EverythingSettles` in `settle`).

Picker. Calls return, posted messages and timers that were accepted arrive, time
passes, and some message comes at least every 5 s (the monitor), which is what the
durable kick relies on.

Records. The flush timer fires while it is set and due, time passes, and the
monitor tick comes. Reopen. The engine's timer is periodic while a run is active,
and a window that was launched without failing appears.

### Findings

`layout_torn`: the primary is corrupt and there is no usable copy. The load
preserves the bytes diagnostically and allows writes. The next save rotates the
corrupt primary like any other: it becomes the rollback copy and the promotion
marker. If the save fails or the program ends before the marker is deleted
(`layout_store.hpp` 2371-2377), there is a valid new primary beside a marker that
cannot be parsed, and every later load refuses (2417-2419) without changing
anything: no save, automatic, manual or from the command line, is possible until
the file is removed by hand, although the message says that the layout is
"temporarily unavailable" and "will retry" (`vde.cpp` 1289).

### Known disagreements

Ten more properties state what a document or a comment says and do not hold of
the code. They are in the modules and in no run; as the only property of an
instance like the one named they give the counterexample described.

- `UnreadMoveIsReserved` (`MoveEngine`, as `faults` with two manual restores). An
  automatic move of a window is issued. A manual restore takes the window's
  reservation over; the automatic job is kept until its readback. The manual
  restore is cancelled (a second click on Restore, a stale result) before that
  readback: its job was not issued, so it is cancelled at once and the reservation
  goes with it (`vde.cpp` 3031-3054, 3626-3634), while the first move is still
  unread. A heartbeat in that interval is not deferred and records the window
  half-way, which the comments at `lifecycle.hpp` 503 and 1371-1373 exclude;
  `tests/vdtest.cpp` 7589 tests one hand-over only.
- `SuccessorsStayOwned` (`MoveEngine`, as `faults` with four jobs). The plan of a
  manual restore is carried out in a loop that keeps an iterator to its operation
  (`vde.cpp` 6133-6174) while it queues moves (6066-6128). Queuing one displaces the
  automatic job of that window; if that ends the automatic restore, the picker's
  claims of the same restore are queued as jobs again, and if the timer cannot be set
  then, the job at the front is cancelled. It may be the one the manual restore has
  just staged, and nothing else of that restore is left: `FinishManualMove`
  (5612-5628) erases the operation. The loop goes on with the erased iterator (6170,
  6173), and a move it queued may belong to no operation. `lifecycle.hpp` 1372-1374
  says that by then "all successor owner/runtime/queue state is already visible", and
  1379-1380 "The successor remains committed and keeps the stable origin guard". In
  the model a job without an owner is `Orphaned`, and the properties about owners
  except such jobs; the successors of every other handler keep theirs.
- `WarmWindowsAreRecorded` (`AutoRestore`, with one disturbance). A browser has been
  warm for longer than the grace period. A window that is open and unknown is
  recognised as the window of a record on another desktop. The plan lists a
  restore, which is not carried out because the app is warm (`vde.cpp` 4750-4758),
  but the window stays in `g_pendingRecordByRuntime` (3946-3948), and the heartbeat
  that would record it in place passes over such windows (2220-2222). It is never
  recorded, against `README.md` 139-140 and the comments at `binding_store.hpp`
  176-177 and `vde.cpp` 2193-2194; once the last window that is known closes, the
  app is cold and the window is moved.
- `EscHides` (`PickerMove`). `README.md` 222 says "Esc closes the picker.", and
  `PickerPolicyFor` (`picker_state.hpp` 1076) has `VisualAndFollow` dismissed by a
  cancellation. While such a transition waits for its `Refresh`, or for a
  publication that then fails, the cancellation is only noted (3176-3185) and left
  to the completion of that effect; but the completion of a `Refresh` returns for
  every visual mode (3671-3680) before the test of `dismissed` (3686) that hides
  the popup. The transition ends with the popup still shown. `EscHidesAfterMove`,
  the same of the modes that move a window, holds and is part of `EndsClean`.
- `ExitNeedsOnlyStorage` (`AutoLayout`). `vde.cpp` 14678-14679 tells the user "Exit
  could not be completed. VDE is still running; retry Exit." When another process
  has deleted a record for which a change is pending, the rebase refuses the change
  and defers a conflict with no record (`layout_store.hpp` 203-314);
  `StageRecordDeltaMutation` takes no further change of that record (396), the
  conflict blocks every write while the file stays as it is (356-362), and only a
  successful write clears it. Every retry of Exit, and of turning the automatic
  layout off, fails until the session ends or the program is killed.
- `SavedIsCurrent` (`SessionPipeline`). A manual save whose windows changed is "not
  saved because the snapshot changed" (`vde.cpp` 5347, 5369), and the write goes
  through `PublishManualSnapshotIfCurrent`. What that compares (`reconcile_worker.hpp`
  176-178) is the collection of line 5351 again, made before the lock was waited for
  and the old layout read; a window that moves or closes in that time is written as
  it was.
- `OpenTabsAreShown` (`Reopen`). `vde.cpp` 13059-13064 says the dialog learns "the
  URLs open in every running browser right now", and that a browser "whose session
  still cannot be read while it has live windows" is unknown. `AcquireCliSession`
  (6177-6196) checks only that the file does not change while it is read: tabs opened
  since the browser last wrote it, such as those a run has just brought back, are
  missing, and a dialog opened then offers and opens them again. A browser whose
  windows `CollectFastSnapshots` cannot read for a moment is skipped (13074-13078)
  and not unknown, and an exception clears the whole list (13094).
- `TargetIsNew` (`Reopen`). `vde.cpp` 12771 says "the new window is recognized as
  the difference in the browser's window set". `ReopenRuntimeKeysFor`
  (12623-12635) takes the windows of `CollectFastSnapshots` without looking at
  `enumerationComplete`; a window that was there all along and could not be read
  before the launch is in the difference afterwards, is taken for the one the
  launch opened, moved and bound to the checkpoint's record. `OldWindowsStay`, the
  same when enumerations are complete, holds.
- `RecordedIsHome` (`Reopen`). `vde.cpp` 12703-12705 says of the record that "its
  desktop is the one it was just moved to". A call that is accepted is trusted
  (12883-12893) and not read back as the move engine does; when it did nothing, the
  record says the window is where it is not.
- `RecordIsOneWindow` (`Reopen`). `vde.cpp` 12723-12724 says "Two windows must never
  share one record". `RecordReopenedWindow` looks at the bindings only; an automatic
  restore that holds the same record for another window binds it too when it ends
  (`FinishAutoOperation`, 3933-3972).

Not stated by any document, and left as they are: a restore is concluded with the
layout signature taken before its moves (`vde.cpp` 3979), so a window put back by
hand at once is recorded again only when something else changes; four failed
window enumerations in a row cancel a queued move, which its restore does not
count as a failure (3517); the reconcile worker always replaces the queued request
of a browser, whatever it is for (`reconcile_worker.hpp` 636).

## Proofs

Eight modules hold theorems, one per component. Each states, for every value
of the constants that the named assumption of its component admits (any number of
windows, browsers, operations, records, retries; any set of faults), an inductive
invariant, that the initial states satisfy it, that every action keeps it, and that
the properties of the runs follow from it. Almost none of those properties is
inductive by itself: between two handlers they hold because of what the handler that
ran last has already called, and in the middle of one because of what it will call.
So each invariant says what is true *while* a handler runs.

| module | from | theorems about properties of runs |
|---|---|---|
| `MoveEngineProofs` | `EngineAssumption` | `TypeCorrect`, `MoverHoldsGuardAlways`, `NoLeakedGuardAlways`, `OneMoveInFlightAlways`, `DeferredHeartbeatAlways`, `ImplementsContractAlways`, `OperationsFollowJobsAlways`, `NothingIsStrandedAlways`, `IssueIsAuthorisedAlways` |
| `SessionPipelineProofs` | `PipelineAssumption` | `NoWakeupIsLost`, `EveryWaitIsRoutedAlways`, `RequestsAreAnsweredAlways`, `ManualWorkIsServedAlways`, `SaveIsCompleteAlways` |
| `SessionCheckpointsProofs` | `SessionCheckpointsAssumption` | `HistoryHolds`; `SavedIsKept`, which no run checks |
| `LayoutFileProofs` | `FileOpsAssumption`, `LayoutFileAssumption` | `AcknowledgedSurvivesAlways`, `PrimaryLossIsSurvivedAlways`, `SavingGoesOnAlways`, `CopyIsPriorAlways` |
| `AutoRestoreProofs` | `AutoRestoreAssumption`, `LifecycleAssumption` | `OneToOneAlways`, `PlacementsSurviveAlways`, `BoundWindowsAreLeftAloneAlways` |
| `AutoLayoutProofs` | `AutoLayoutAssumption`, `RetentionAssumption` | `JournalIsSoundAlways`, `KnowledgeIsKeptAlways` |
| `ReopenProofs` | `ReopenAssumption` | `SelectionIsMissingAlways`, `ReopenIsExactAlways`, `OldWindowsStayAlways` |
| `PickerMoveProofs` | `PickerAssumption`, `PickerMoveAssumption` | `EndsCleanAlways`, `PromiseIsKept` |

### Move engine: queue and reservations

`QueueInvariant` is the inductive invariant `QInv`. It adds to the properties
that job ids are fresh, that a window's reservation is in `settling` only for a
job that is gone, that a job waiting for its readback has attempts left to
count and is the smallest queued id, and that one that does not wait may still
be issued. These are needed because an issue (`IssueKeeps`) must know that no
other job waits, and a new job (`ClaimKeeps`) that its id is nobody's.

The argument does not use `stack`: every action changes the job table and the
reservations in one of a few ways (mark jobs, end jobs, end a job and release its
reservation later, pass a reservation on, claim a window, issue a move), each of
which is a lemma over arbitrary tables, and every action is shown to be one of
them. `ImplementsContractAlways` uses the same split: each of those ways is a step
of `MoveContract` or leaves what it sees unchanged.

### Move engine: operations

`OperationInvariant` has seven parts. `JobInv`, `AutoInv` and `OpInv` relate jobs,
claims and phases: who owns a job, what an operation waits for. `SleepInv` and
`RetryInv` say what a queue without its timer holds and who owes a retry. The part
that makes the rest inductive is `CallInv`: what each call on `stack` relies on (the
windows a loop over a plan has still to queue have no job of that restore, an
operation that is finished waits for no result, a job in `settling` has its release
to come). An action is considered by what it does to the calls below it, for which
`Stack` says in which order calls can be nested. The theorems hold with the
exception `Orphaned`, which `SuccessorsStayOwned` (see *Known disagreements*)
describes; without it they are false.

### Session pipeline

`PipelineInvariant`: the workers' slots, threads and results keep their types,
and every worker that sleeps although it has work or must stop is *owed* a
notification by the running handler. It is inductive only because a notification is
put on `stack` in the same step that gives a worker work or tells it to stop.

`UiInvariant` is about what the UI thread keeps:

- `Sound`: routes, gate, counted deadlines and the operations' waits agree. In the
  middle of a handler some pairs of operation and browser are *loose*, they have lost
  their route and still wait; each operator on `ui` is a lemma about the pairs it
  takes in or out, and a handler ends with none.
- `Ticking`, `EveryoneWaits`: the monitor runs while anything may expire, and a live
  operation waits for something or is still asking.
- `CallsFit`: what the calls on `stack` rely on, and what is left of `StopWorkers`.
- `Served`: a result that says *superseded* is of a request whose wait is over,
  or of work that is not manual. `ManualWorkIsServed` needs that, and that a browser
  is asked for once (`Unasked`): a request displaced in the worker has then already
  lost its route.
- `Lossless`: without faults a request that is waited for is in its worker's slot, in
  its thread, among the results, or in a call that will post it (`At`).
- `WorkTyped`, `Stopped`: the session worker's queue and its slots agree, and what
  each call of `Stop` leaves behind. `StopLeavesNothingAlways` follows: when the
  workers are stopped nothing runs, waits or is left to be handled.

`SavesInvariant` is about what a manual save has gathered (`Gathered`): each browser it
asks for has an answer, is waited for, or is named by a call that will still ask for it.
A displacement ends the save or leaves all three alone (`Keeps`), and with `Served` no
answer of the session worker that still has its route is *superseded*, so a save that
waits for nothing has what `SaveIsComplete` requires.

### Session checkpoints

Checkpoints are numbered in the order they are built. A write that is under way has
the newest number (`WritesTheNewest`), a process rotates once, one shutdown has one
slot, and a checkpoint is moved only for a later one (`MovedByLaterOnes`).
`FailuresPay` counts the last shutdowns that are in no slot, or only in one that the
write under way will replace: they are no more than the operations that failed. The
history of the theorem is as long as `Slots`, the history of the run has four.

### Layout file

A write is up to fifteen file operations, and each of them may fail before or after its
effect. Every function of `LayoutStore` therefore has a lemma about all outcomes of all
its prefixes (`MarkerSteps` to `PublishSteps`); `WriteSteps` and `LoadSteps` sum them up.
After those the argument no longer sees file operations. A directory is then the primary,
the copy left when the primary is lost (`Spare`: the rollback copy, else the backup), and
what is displaced or temporary.

- `Sane` holds even after the last damage: a promotion marker is equal to the copy, a
  staged backup or marker is there only beside a copy, a primary is displaced only when
  no marker is pending. It is what lets the resolver finish every transaction and refuse
  none.
- `Whole`: while a layout is left, a torn file is never all there is; the copy is never
  torn, and a torn primary has a copy that is a layout.
- `Known` relates the directory to what the program was told: what is held (`Held`: the
  primary, else the copy) is the layout last acknowledged or one tried since, the copy
  makes up for it where it is not the one acknowledged, and where two were acknowledged
  the copy is one of them.
- `Session`, `Undamaged`: what memory relies on. A write that must keep the backup has one
  that is acceptable (`Backed`); a session that starts from a torn primary has no layout
  to recover, so rotating it away costs nothing; a displaced primary is never alone in
  the automatic directory, because migration has adopted a lone temporary file before a
  session may keep a backup.

`Written` is every directory a write can leave, in six cases; that it keeps `Known` for
the bytes tried (`WriteKeeps`) and for the bytes acknowledged (`WriteAcknowledges`) is
then a matter of cases. `CopyIsPriorAlways` needs that the copy is what a load without
the primary returns (`FallbackIsSpare`), and that every step leaves primary and copy or
makes the one the other (`Rotates`). The theorems bound neither the versions nor the
failed writes. `LayoutFileAssumption` has one condition on values: `Elsewhere`, the
revision of records that come from a copy, is no content of a file.

### Automatic restore

What keeps bindings one to one is a fact about the *next* ones: the records that an
operation may match are bound to nobody (`MatchesAreFree`), which a heartbeat between
the plan and the end of its moves must not spoil. `PlannedAreUnbound` says that a row
of the plan that is bound by then is one the gate only records, and
`MovesFollowThePlan` that what is still to be moved is part of the matching that was
agreed. Then no window that is known is moved. `FlightHasOperationAlways` is the
safety half of `RestoresStop`: the lifecycle waits exactly while there is an operation
to wait for.

### Automatic layout

`LayoutInvariant` is about the journal, the memory it belongs to, the file, and a
write whose result is unknown (`IInv`):

- `Core`, of a journal and a file, so that it can be stated of the intermediate
  journals of a handler. `Chained`: a change in the journal starts from what it was
  made to, does not go back in time, and the memory has it unless it is in conflict.
  `Current`: a memory that comes from the file's revision differs from it only where the
  journal says so (`Explains`) and knows what it knows or later (`Supersedes`); one
  that does not holds no change that claims to come from that revision. `Candidate`:
  the same of the content of an unsettled write, should it turn out to be the file.
  `Buried`: a change to a record that another process deleted starts from an older
  revision, so that the rebase will refuse it.
- `KnowsItsFile`: a file the program wrote is the one its memory comes from or the
  unsettled write, so it is never taken for another's and never conflicts.
- `Starting`: what is pending before the start is complete are expired records only.

A handler is shown to do to each record one of two things (`Changes`): refresh it, or
take a change that starts from the memory. Both keep `Core`. The central lemma is
`RebasingKeeps`: the rebase on another writer's file, with its touches, residual
changes and new conflicts, makes a memory that supersedes the new file and forgets no
change that the file does not know. `Publishing` does the same for each of the ways a
write may end. `Kept` says of a step what the three action properties say of it;
`RecordSemanticTimestamp` and the expiry of a record depend on nothing but when it was
last seen (`DatedFacts`, `MarkMissingDated`), which is why the arguments are about that.

One case had to be excluded for `DeletedStaysDeleted` to be true. A write that leaves a
record out fails with unknown result; a move by the picker records the window anew; then
another process deletes the record, and the file is by chance exactly what the failed
write would have made it. The program takes it for its own write, because a candidate is
recognised by path, size and content hash (`layout_store.hpp` 1016-1056), and publishes the
record again. No document says otherwise; `TakenForOwnWrite` is that exception in the
history `dead`.

### Reopen

What a dialog shows as open follows from its own list of open tabs (`DialogInv`). That
list has every tab that a finished run brought back under it, also a run that another
dialog started, and every one of an up-to-date file it read (`ToldInv`, about `heard`);
every tab in it, and in a session file, was once given to a browser (`BrowsersInv`).
`EngineInv` says which window a run may record, and `LayoutInv` that records that are
bound exist. Jobs and rows are counted, so the proof uses that every nonempty set of
naturals has a least member.

`OldWindowsStayAlways` rests on one more fact (`NewInv`): while a window is waited for,
every window of that browser that is not younger than the launch was enumerated before
it. Identities are numbers in the order in which windows appear, which only the proof
uses.

`ReopenIsExactAlways` is about a run that is `alone`. `AloneInv` says what the windows
are in each phase: those of the jobs that are done are as the property has them, the
window of the job under way is the youngest, has the tabs of the launches sent so far
(`SentBy`) and is the one that further launches go to, and nothing else arrives or
times out (`NothingTimesOut`). That the launches of a job hold all its tabs
(`LaunchesCover`) is a lemma about `BuildReopenLaunches`.

### Picker

The first part of `PickerMoveProofs` has no states: `TransitionInv` says what a
transition is in each of its phases, and its lemmas say what the reducer makes of it for
each observation, effect and cancellation. The second part adds the pump: the work that
is scheduled, in a call or observed is of the effect the transition waits for, or of a
call that a cancellation no longer waits for (`WorkFits`); one of the three is there
until the transition is over (`Carried`); what was observed is so (`Observed`), of the
places (`Homes`, `Theres`) and of what the user sees (`Visible`); and something will
start the pump again (`WorkIsDelivered`). `EndsCleanAlways` follows. For
`PromiseIsKept` every action is shown to be a step of `PickerContract` or none under
the refinement.

### Only model-checked

- Liveness (`EverythingSettles`, `ExitIsClean`, `EveryOperationEnds`, `RestoresStop`,
  `TransitionEnds`, `DirtyIsWritten`, `ReopenEnds`): the prover handles neither
  ENABLED nor an argument over fairness.
- `ReconcilePlan` and `Assignment` (`AssignmentIsBest`, `PlanIsCommitted`,
  `PlacesAreKept`, `NothingMovesTwice`): that the assignment found by shortest
  augmenting paths is a best one is an induction over data, which is out of the
  prover's reach. The other three are not out of reach but not proved: they
  need that every step of the augmenting-path search keeps a matching a matching.

## Not modelled

Exceptions thrown inside the owner dispatch (`RetireMoveOwnerDispatchFailure`),
`SessionCoordinator` and
`SessionUnavailableDeferBudget`, which only the tests use; `Stop` called by a
worker or by a second thread, which only the tests do; an exception that ends a
worker's loop; the capacities of the route gate (16 routes, 32 operations, 4096
requests), out of reach of three browsers; and everything the component table
lists as such.

## Plan

1. What of `ReconcilePlan` does not depend on the assignment being best: a plan fits
   its input, and a commit keeps the places of records it does not match.
2. Desktop pin; the session worker's cache and the status of a result.
