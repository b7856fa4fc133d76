# Verification of the Jupyter extension's execution core

The repository is a Visual Studio Code extension (TypeScript, `src/Source`) that
runs notebook cells on Jupyter kernels. Its own logic is about *who is allowed to
run what, when, and who hears of the end of it*: everything happens in callbacks
of one JavaScript thread, and almost every defect such code can have is an await
during which something else happened. These modules model that logic in TLA+, TLC
checks it on small instances and TLAPS proves most of its safety properties for
instances of any size.

## 1. The system

### Components, their state and their operations

| Component | Source (`src/Source/`) | State it keeps | Operations |
|---|---|---|---|
| Notebook kernel execution | `kernels/kernelExecution.ts` | the queue of each notebook (`documentExecutions`) | `executeCell`, `resumeCellExecution`, `executeCode`, `onWillInterrupt`, `onWillCancel`, `onWillRestart`, `getOrCreateCellExecutionQueue` |
| Execution queue | `kernels/execution/cellExecutionQueue.ts` | items waiting, whether it failed, whether its loop is started | `queueCell`, `queueCode`, `cancel`, `cancelQueuedCells`, the loop `executeQueuedCells` |
| Cell execution | `kernels/execution/cellExecution.ts`, `cellExecutionCreator.ts` | started, cancelled, completed, its result promise; the task VS Code shows | `start`, `cancel`, the completions |
| Code execution | `kernels/execution/codeExecution.ts` | started, cancelled, done, its result promise | `start`, `cancel` |
| Messages of a cell | `kernels/execution/cellExecutionMessageHandler.ts`, `cellDisplayIdTracker.ts` | outputs, display ids, pending clear, timers of a resumed cell | one handler per kind of message |
| Past executions | `kernels/execution/lastCellExecutionTracker.ts` | a record on disk of the cell that runs | write, delete, find after a reload |
| Kernel | `kernels/kernel.ts` | the promises of start, restart and interrupt; the session; disposed flags; cancellation of the start | `start`, `interrupt`, `restart`, `dispose` |
| Kernel providers | `kernels/kernelProvider.*.ts` | the kernel of each notebook | `getOrCreate`, `get`, disposal |
| Connection of a notebook | `notebooks/controllers/kernelConnector.ts`, `vscodeNotebookController.ts` | the connection callers share, the controller selected | `connectToNotebookKernel`, its prompts and retries, the switch of controllers |
| Monitors | `kernels/kernelAutoReConnectMonitor.ts`, `kernelAutoRestartMonitor.node.ts`, `kernelCrashMonitor.ts` | progress shown per kernel | handlers of kernel status |
| Sessions | `kernels/common`, `kernels/jupyter/session` | one session's status | create, wait until idle, restart, shut down |
| Raw kernels | `kernels/raw` | a process, its launch, three flags and the calls of `shutdown()` | start, restart, shutdown, disposal, exit |
| Widgets | `notebooks/controllers/ipywidgets/message`, the webview's `ipywidgets` | messages on their way to two kernels, the hook of an output widget in each | mirror a message, set or remove the hook, wait for the other |
| Finders, connections, dependencies | `kernels/*Finder*`, `kernels/jupyter`, `kernels/kernelDependencyService*` | caches and lists | discovery, connection, installation |
| Notebooks | `notebooks` | lists of controllers, debugger, export | registration, ranking, relaying |
| Interactive window | `interactive-window` | windows, the chain of cells to add | create, add code, submit |
| Platform, standalone, webviews | `platform`, `standalone`, `webviews` | utilities, API, user interface | |

`PROJECT.json` lists all of them with their sources and what became of each.

### How they interact

VS Code's controller calls `kernelProvider.getExecution(kernel).executeCell(cell)`.
`NotebookKernelExecution` starts the kernel (a *session promise*) and, without
waiting for it, puts the cell in the notebook's queue. The queue awaits the
session once and then runs its items one after the other: `start()` of an item
sends an execute request, and the loop awaits the item's result promise. The
kernel's messages settle that promise. Everything else reaches in from the side:
the kernel object raises `willInterrupt`, `willRestart` and `willCancel`, on which
the execution cancels the queue; VS Code closes documents and notebooks; the
session is rejected, dies or restarts; other extensions queue code and cancel it.

Who runs a cell, or debugs it, first connects the notebook to a kernel:
`KernelConnector` shares one connection between callers, has the provider create
the kernel (which disposes of the one another controller had), starts it, and asks
the user what to do when that fails or the kernel is dead. A local kernel's session
owns a `RawKernelConnection`, which launches a process, and another one at every
restart. The outputs of a cell come back through `CellExecutionMessageHandler`, which
edits the notebook through the task of the cell that runs; the messages of widgets
are mirrored, before that, to a kernel object in the webview.

### What is hard

* **Steps between awaits.** Nothing is concurrent except what happens during an
  await; but the queue's array, the executions and the flags are shared by the
  loop, up to three calls of `cancel()` and the kernel's callbacks.
* **Two queues at once.** A queue that failed is replaced while its last item may
  still run, so a notebook can have two loops sending requests.
* **Cancel is not synchronous.** Cancelling a cell that runs waits for the kernel;
  cancelling code waits for an interrupt; both may never be answered.
* **Failure part-way.** The session fails, the kernel dies or is restarted with
  requests outstanding.
* **One object, many owners.** A process is disposed of by a start that fails, by
  the next start, by its own exit and by its session; a kernel by its provider, its
  connection, the closing of the notebook and itself.
* **Two event loops.** Extension and webview each hold back messages until the
  other has answered, while messages cross.
* **Reloads.** VS Code may go away between the decision to write a record and the
  write, and a cell that still runs is found again by a message of its kernel.
* **Edits that lag.** What the code reads of a cell's outputs may lack the edits it
  asked for.

### What makes the components correct

* Queue: nothing that is awaited is lost; order is kept; a failure, an interrupt
  or a restart stops what was waiting, and only that; cells settle; cancels end.
* Cell: exactly one end, and no spinner left behind.
* Code: started once and settled.
* Kernel: one session is created at a time; the status it tells is so; an adopted
  session is not let go alive; dispose ends and is for good; the end of an older
  session does not disturb a newer one.
* Providers and connections: a notebook has one kernel, and one connection under
  way but for those a restart or an interrupt has overtaken; a closed notebook has no
  kernel; whoever connects is answered.
* Raw kernels: no process outlives its session; whoever awaits a disposal goes on.
* Messages: outputs are those of a sequential reading of the messages; nothing is
  lost or repeated though edits lag.
* Resumed cells: not shown as ended while they run, ended in the end; a cell whose
  execution resolved leaves no record.
* Widgets: both kernels have the hook for the same messages, and the waiting of
  each for the other ends.

## 2. The modules

| Module | What it is |
|---|---|
| `CellExecutionQueue` | the execution of one notebook: queues, executions, their kernel |
| `ExecutionContract` | what a notebook's user is promised, without queues |
| `CellExecutionContract` | the mapping of the first to the second |
| `MCCellExecutionQueue` | values for TLC |
| `CellExecutionQueue_proofs` | facts about the operators on sequences, the type theorem of `CellExecutionQueue`, and its theorems about what is dropped and what is stopped |
| `InOrder_proofs` | its theorems about order, failures and spinners, and that it implements the contract |
| `KernelLifecycle` | the kernel of one notebook: start, restart, interrupt, dispose, end of a session |
| `MCKernelLifecycle` | values and symmetry for TLC |
| `KernelLifecycle_proofs` | its type theorem, what holds of a disposed kernel, and its safety theorems when restarts do not overlap |
| `CellOutputs`, `MCCellOutputs` | how messages become outputs, beside a reader that applies them at once |
| `CellOutputs_proofs` | its safety theorems |
| `ResumedCell` | a cell that runs while VS Code is reloaded: its record, and how its end is decided |
| `ResumedCell_proofs` | its safety theorems |
| `NotebookKernels` | the kernel a notebook has: provider, connector, switch of controllers |
| `NotebookKernels_proofs` | its safety theorems |
| `RawKernel` | the processes of a local kernel and who disposes of them |
| `RawKernel_proofs` | its safety theorems |
| `WidgetMessages` | the mirrored messages of a raw kernel and the hook of an output widget |
| `WidgetMessages_proofs` | its safety theorems |
| `MCServices` | the last four components in one run |

### CellExecutionQueue

An action is the code between two awaits. The places where a queue's loop can be
suspended are the values of `pc[q]`:

| `pc` | Where |
|---|---|
| `unused` | the queue does not exist yet |
| `session` | `start()` awaits the session |
| `next` | top of the loop (not an await) |
| `skip` | an item was skipped (not an await) |
| `run` | the loop awaits `start()` of `cur[q]` |
| `cancelAll`, `cancelCells`, `cancelFailed` | the loop awaits its own `cancel()`, `cancelQueuedCells()`, or the latter in the handler of a failed session |
| `done` | the loop is over |

`next` and `skip` are inside one callback; `Quiet` keeps other callbacks out until
the loop has reached its next await. The variables and the fields they stand for
are listed where they are declared. Three are not fields of an object in the code:
`ticket` is a history variable (the place of an execution among those added to its
queue), `home` is the queue whose array holds it, `disruptions` counts what went
wrong, for the bound.

The actions follow the code, a handler each: `QueueCell`, `QueueCode` (adding),
`Interrupt`, `WillCancel`, `CloseNotebook`, `RestartAsked`, `RestartCancels`,
`Restarted`, `CancelCode`, `DeleteCell` (from the side), `CancelReturns`,
`CodeInterrupted` (awaits of a cancel that end), `QueueReady`,
`QueueSessionFails`, `QueueEnds`, `SkipItem`, `StartItem`, `FinishAndStop`,
`FinishAndKeepCode`, `FinishAndContinue`, `CellsCancelled`, `LoopCancelled` (the
loop), and for the kernel `Begin`, `Acknowledge`, `Reply`, `ResumedEnds`,
`KernelDies`, `AutoRestarts`. What several of them share is an operator:
`CancelItems` is `cancel()` up to its await, `LoopCancels` the same called by the
loop, `Settle` the completion of an execution and the end of the task VS Code
shows, `NextOrDead` the end of the loop's body.

Decisions a reader should know:

* The kernel is external. It answers requests in order; a reply is delivered in
  the step that produces it; requests outstanding when it dies or restarts are
  rejected (`FuturesRejected`), as `@jupyterlab/services` does when a kernel
  connection is disposed or its status becomes restarting.
* A request whose future was disposed by `cancel()` stays in `requests`: the
  kernel has it, and may run a cell that was cancelled.
* An empty cell is a nondeterministic choice: `start()` may settle at once.
* A second interrupt, or a second forced cancel, of a queue while one is pending
  is merged with the first: it would settle nothing new and return at the same
  time. Several interrupts of the kernel for one piece of code are merged too.
* One restart at a time, as `kernel.restart()` shares its promise.
* Left out: raw and markup cells; a cell moved to another controller; a resumed
  cell whose session has no kernel; the extension's own hidden code, which does
  not use the queue; outputs.

Definitions whose comment begins with "Variant:" are wrong on purpose. Each is
what a plausible mistake in the code would make of the definition after it; no
specification uses them.

### ExecutionContract

Lines instead of queues, loops and cancels: an execution joins a line that is not
stopped, begins when those before it in the line are done, and is done once; a
stopped line takes no more executions and begins no more cells. `KeepsContract`
says that `CellExecutionQueue` implements this, a line being a queue
(`CellExecutionContract` has the mapping: an execution waits while it is queued, runs
once its request is sent, and is done when its promise is settled). What the
contract hides is how a line is kept: the array that is spliced, appended to and
emptied, the three callers of `cancel()`, and the loop.

### KernelLifecycle

The methods of `BaseKernel` (`kernel.ts`), each cut at its awaits. The fields are
variables of their own, named after them where the name is short; `phase[c]` says
where call `c`'s `createJupyterSession()` is, `pc[r]` where a `restart()` or
`interrupt()` is, `on[r]` what it awaits, `life[s]` what became of a session.

| Suspended at | `phase` of a creation, `pc` of a restart |
|---|---|
| `trackKernelResourceInformation` | `tracking` |
| `sessionCreator.create` | `creating` |
| hooks `didStart`, startup code, `waitForIdle` | `hooks`, `setup`, `idle` (creation); `initHooks`, `initSetup`, `initIdle` (restart) |
| the shutdown in a `waitForIdle` that failed | `shutting`; `initShutting` |
| hooks `willRestart` | `willRestart` |
| `_jupyterSessionPromise`, `_restartPromise`, `this.start()` | `finding`, `restarting`, `starting` |
| `disposeAsync` of a failed restart | `closing` |
| `_jupyterSessionPromise`, `_interruptPromise`, the question | `seeking`, `interrupting`, `asking` |

`restarted` and `failing` are not awaits: they are what a restart goes on with
when `_restartPromise` or `start()` has settled.

Decisions a reader should know:

* **Microtasks.** Who awaits a promise that has settled goes on before any event:
  `Next` is a `Continuation`, or an `Event` when none is due (`Drained`). The order
  among continuations is left open.
* A creation, and the session it gets, is named after the call of `start()` or
  `restart()` that made it, since a call makes one at most. A `start()` that finds
  a promise changes nothing but the token, and can be made again.
* `startCancellation` is `cancelRequested` (its token now), `holders` (creations
  whose factory was given that token) and `stopped` (creations whose factory's
  token is cancelled, the token perhaps no longer the kernel's). A creation checks
  the field, which may have been replaced; the factory checks what it was given.
* The factory may take for ever, for it may ask the user; it fails if its token is
  cancelled (`jupyterKernelSessionFactory.ts:153-157`, `rawKernelSessionFactory.node.ts:98-123`).
* A session ends only some time after it was shut down or disposed: the wrappers
  raise `onDidDispose` in `dispose()` alone, which `shutdown()` calls. A kernel
  that dies does not end its session for the kernel object.
* An interrupt is three outcomes: it ended, it timed out, it threw. In the last
  case (a `willInterrupt` hook throws) `_interruptPromise` is not cleared, and later
  interrupts of the session join the rejected promise.
* **Two restarts** overlap only with `Overlapping`. The commands of a notebook
  share one restart (`notebookCommandListener.ts:253`), but the message that a
  kernel is dead restarts it by itself (`kernelConnector.ts:116`). The passing
  runs let restarts take turns; `TypeCorrect` and `DisposedForGood` are proved of
  restarts that overlap, too.
* Left out: live remote kernels (they do not wait for idle), deactivation of the
  extension (it ends all sessions), events, telemetry, the restart that
  `@jupyterlab/services` does by itself.

### CellOutputs

An action per kind of message (`StreamMessage`, `AddOutput`, `ClearLater`,
`ClearNow`, `UpdateItems`, `UpdateMetadata`), per step of an execution (`Execute`,
`Resume`, `Acknowledge`, `Finish`), `UserClears`, and `ApplyEdits` for VS Code. A
message is a number, and an output the list of the messages whose content it has,
with the message that made it, by which handlers find it again (the code compares the
objects; `Is`). `edits` is what handlers have asked of VS Code, an entry for each
message that asked: what the notebook shows after it, and which cells it gives
outputs. Edits are applied in order and nobody else edits outputs in between, so that
is the same as keeping the operations; `outputs` is what the extension reads, `Final`
what the notebook shows in the end. The fields of a handler are
sets of cells (`clearWait`, `reattached`) and functions of cells (`lastStream`), those
of the tracker `displayed` and `lastId`.

The specification the properties compare with is the reader: `expected`, `waiting`,
`apart` and `latest` change with each message as Jupyter's messaging protocol has it,
without tasks, edits or identities.

* `lag` is chosen at the start: with 1 VS Code applies the edits of a message before
  the next one comes, with 2 one group may be outstanding. Lag changes how outputs
  are divided (a text of a stream may become an output of its own) but not what is
  written: `ReadsExactly` is about the first, `TextIsKept` about both.
* `Unusual` names four situations the code does not handle as well as it might, see
  section 3. They are off in the passing run.
* Left out: output widgets, input requests, payloads, the wording of errors.

### ResumedCell

The cell and its kernel (`cell`, `owed`, `later`), the record of it on disk with the
chain of writes (`record`, `writes`), and who follows it in VS Code (`follower`): its
own execution before the reload, the listener of `restoreConnection` after it, then
the queue that resumes it, then the handler. `EndMessage`, `OtherRequest` and
`Interrupt` arm or fire the timer as `cellExecutionMessageHandler.ts:380` does.
`Reload` forgets what was in memory, the writes that were due included.

`executeCell` resolves or rejects (`ExecutionEnds`). Where it resolves the record is
deleted; where it rejects, as it does for an error reply, the `catch` of
`vscodeNotebookController.ts:801` leaves it. The deletion itself does nothing in three
cases: VS Code is exiting (`Exit`), the session is lost (`KernelGone`,
`lastCellExecutionTracker.ts:199`), or the cell no longer has the index that was
tracked (`CellMoves`; line 221, read when the write is due). `NothingToRestore` names
the three, and is of an execution that resolved.

An interrupt is given a second: `Slow` lets an interrupted cell take longer.

* The model has one cell of the notebook. Another one that is executed replaces the
  record, which is per notebook.
* Cells move, and sessions get lost, before the reload only.

### NotebookKernels

Kernels are numbered in the order of their creation, connections likewise. A kernel
has a session or not and is disposed or not, which is what `KernelLifecycle` refines;
`forgotten` marks one whose server was removed. `conns[i].at` is where the run of
`wrapKernelMethodImpl` is: it starts the kernel, shows one of six prompts, or is over.
`Attempt` is one round of its loop, `Created` is `getOrCreate`, `Become` is what every
step ends with: the map loses a disposed kernel and the cache a connection that is of
no more use. Since what follows an await is part of the step that settles it, `Become`
takes the kernels and connections a step has computed as arguments.

A restart and an interrupt are commands that go through the same function
(`notebookCommandListener.ts:270`): `CommandConnects` does not join the connection that
is cached (`kernelConnector.ts:357-361`), gives it its UI, and caches its own in its
place (line 424), so that the two are under way at once. Its first turn calls
`kernel.restart()` or `interrupt()` (`commanded`; `RestartStarts`, `CommandEnds`,
`CommandFails`), later ones start the kernel. A kernel has one command at a time
(`Pending`). `OneConnection` says what is left: a connection under way is the cached
one or was overtaken by a command (`Overtaken`).

* Controllers are selected for everyone who waits for one (`Picked`). `SelectController`
  does that at once when the map has that controller's kernel already, and else leaves
  it to `SwitchEnds`. Each of those who waited then goes around (`GoesAround`), in any
  order, before the next event.
* Two things are simplified. What an interrupt leads to (it ends, the user restarts the
  kernel instead, or that fails) is one step, and so is a restart of a session that is
  there; `KernelLifecycle` has both in full. That a kernel is disposed of while a
  command awaits it does not settle the command: it ends or fails afterwards.
* `ServerRemoved` is `handleServerRemoval`: it takes the kernel out of the map without
  disposing of it, which the kernel's session (on the server that was removed) makes
  harmless. `OneKernel` and `ClosedLeavesNone` leave such kernels out by name.
* A connection that asked for another kernel, and the user picks the one there is,
  stays at `awaiting`: nothing is selected anew, so `switchController` returns
  nothing that ends the wait. `EveryoneAnswered` leaves it out by name.

### RawKernel

`raw` is one record: the processes launched so far and the flags of
`RawKernelConnection`, because an operation calls several others in turn and each is a
function from record to record (`Close`, `StartErred`, `Shutdown`, `Exited`,
`LaunchNext`). `waits` are the calls of `shutdown()` that await a process; `Awaited` is
`disposeAsync`, which awaits an event that an object disposed before does not raise
again, written as waiting for 0, that is for ever.

* `Killed` and `Closed` are two steps: the process is killed, and a second may pass
  before its disposal is over.
* `Hasty` lets a restart be asked for while a `shutdown()` still awaits a process.
* Left out: ports, the command line, ZMQ channels, interrupts through a helper
  process.

### WidgetMessages

Four parties: the socket with its hook (`chain`, `stage`, `fullHandle`), the two
channels (`toUI`, `toExt`), the webview's kernel (`uiChain`, `uiHook`, `awaiting`,
`finishing`) and the extension's (`extChain`, `extHook`, `removals`). A message opens or
closes the output widget, updates it, or is an output its hook may intercept. The code
calls the hook for every iopub message of the request that is hooked, messages about
widgets included (`ipywidgets/kernel/kernel.ts:708-734`); the model calls it for outputs
only. Where a hook is called for more messages, more of them are asked about in both
kernels alike, so the properties hold, or fail, as they do here.
An update is held back until the webview has handled it, which it tells only when the
extension has set or removed the hook the update asked for. `asked`, `hooked`,
`handled` and `again` are history: messages the hook was called for in the extension
and in the webview, messages the webview has handled, and whether the hook was set
again while a removal of it was still to come. `Coming` are the messages the
extension's kernel has yet to handle.

### MCServices

`ResumedCell`, `NotebookKernels`, `RawKernel` and `WidgetMessages` share no variable.
`part`, chosen at the start, says which of them moves, so the run explores the four
instances one beside the other, and the fairness of a part that stands still asks nothing.


## 3. The runs

| Run | Instance | Question | Distinct states |
|---|---|---|---|
| `one_queue` | 3 cells (the second tolerates errors), 1 code, 1 queue, 2 disruptions | is anything lost, reordered, or run after a failure, whatever comes from the side? | 936 000 |
| `two_queues` | 3 executions of 2 cells, the first of which is executed and resumed, 2 queues, 2 disruptions | a queue is replaced while it still drains; is the contract kept? | 616 000 |
| `cells_settle` | 2 cells, 1 code, 1 queue, 2 disruptions | does every cell settle, and every `cancel()` return, in the end? | 92 000 |
| `kernel_calls` | 2 starts, 2 restarts one after the other, 1 interrupt, dispose | one creation at a time, truthful status, no session lost or kept too long, whatever fails when? | 378 000 |
| `dispose_ends` | 2 starts, 1 restart, 1 interrupt, dispose | does `dispose()` end in the end? | 70 000 |
| `cell_outputs` | 2 cells, one of them resumed, 2 streams, 1 display id, 4 messages, lag 1 or 2 | do outputs say what the messages said? | 783 000 |
| `services` | 2 callers, 2 controllers, 2 troubles; 3 restarts of a raw kernel; 3 moments of a resumed cell; 4 messages about a widget, 1 restart | one kernel, one connection, no process left, no cell ended early, extension and webview in step; does every wait end? | 288 000 |
| `code_started_twice` | 2 cells, 1 code, 1 disruption | a disagreement, see below | |
| `code_never_settles` | 1 cell, 1 code, 1 disruption | a disagreement, see below | |
| `session_left` | 1 start, dispose | a disagreement, see below | |
| `process_left` | `Hasty`, 3 restarts | a disagreement, see below | |
| `hook_lost` | 6 messages, no restart | a disagreement, see below | |

**Bounds.** `MaxDisruptions` bounds how often something comes from the side
(interrupts, disposals, closings, cancellations, failures, restarts); everything
else is bounded by the number of executions. Two disruptions are enough for one to
hit while another is being handled, three executions for one to run, one to wait
and one to be added, two queues for one to drain while the other starts; code
duplicated by `cancelQueuedCells()` needs one code and two cells. The contract is
checked without code, which `one_queue` has, and proved with it (section 4). No
symmetry is used: `CellOf` and `Tolerant` tell the cells apart.
`CHECK_DEADLOCK FALSE`: when everything has been run or the notebook is closed, the
notebook really is at rest; the same is so of the other components.

For the kernel, the bounds are the sets of calls. Two starts and two restarts give
four creations: one that fails, one that is let go and ends late, one that is
current, one that might be begun beside it. Calls of one kind are alike, so
`kernel_calls` permutes them (`CallSymmetry`); no run that checks liveness does.

For outputs, four messages suffice for text, something between, and text again with a
clearing that waits before it, or for an output, its update from the other cell, and
the clearing of either. For connections, `MaxTroubles` counts failed starts, deaths,
failed commands, switches and removed servers; two let one happen while another is being
handled, and two callers let a command overtake a connection, or another command. Three
restarts let one begin from a
kernel that failed to restart. Four messages open a widget, set its hook, send it an
output and remove the hook; that it is set again meanwhile takes six (`hook_lost`).

**Fairness.** In `FairSpec`: weak fairness of the loop of each queue, of the session
promise, of the returns of `cancel()` and of `kernel.interrupt()`, because the
event loop runs every continuation that is due; and of the kernel, which is
assumed to answer what it runs. Nothing that comes from the side is fair. A kernel
that hangs is not covered: cells then wait for ever in the code too.

For the kernel: continuations; the steps of a creation and of a restart, because
the startup code, `waitForIdle` and the shutdown of a session have timeouts; the
end of a session that is shut down; and the failure of a factory whose token is
cancelled. Calls from outside are not fair, nor is a factory nobody cancelled:
that `dispose()` ends then rests on its cancelling the right token.

`KernelsFairness`: answers to callers, ends of starts, commands and edits, and answers
of the user to prompts. The other choices of the user, deaths and removals are not
fair. `RawFairness`: launches have a timeout, and a process that is killed goes away;
exits, restarts and shutdowns are not fair. `ResumedFairness`: writes, timers, the
messages the kernel owes, and the end of the cell; not the other requests and
interrupts. `WidgetFairness`: the two event loops. Three of
these (kernels, raw kernels, widgets) are one condition on the disjunction of the
steps, which is less than fairness of each, and enough.

**Mutants.** Each property has a variant of a definition that breaks it, listed in
`PROJECT.json`.

### What was found

* **Code is started twice** (`code_started_twice`; `cellExecutionQueue.ts:200`).
  `cancelQueuedCells()` appends the queue's code items to the queue that still
  holds them. After a failed cell the code is in the queue twice, and the loop
  calls `start()` on it again once it has run; `codeExecution.ts:117-119` says this
  should never happen. `start()` then does nothing, so nothing runs twice, but
  every further cancelled cell doubles the copies.
* **Code is never settled** (`code_never_settles`; `cellExecutionQueue.ts:224`). If
  the session cannot be started, the cells are cancelled and the loop is over;
  third party code stays in the queue, its promise pending for ever.
* **A session is left** (`session_left`; `kernel.ts:699`). `dispose()` cancels a start
  whose session the factory has handed over. Once the startup code has run and the
  session is idle, `createJupyterSession` finds the kernel disposed and throws; the
  promise is rejected, `dispose()` finds no session, and nobody shuts that one down.
  The factory does so for a start cancelled one await earlier
  (`jupyterKernelSessionFactory.ts:154`: "we should shut this down as it's not
  needed"). `waitForIdle` shuts the session down if it sees the cancellation first;
  it does not when the session is idle already, nor for a live remote kernel, which
  is not waited for.
* **A process is left** (`process_left`; `rawKernelConnection.node.ts:366`). The
  process exits, and `exitHandler` awaits its disposal in `shutdown()`. A restart
  meanwhile resets the flags and launches another; `shutdown()` goes on and marks the
  connection as shut down; the session's own `shutdown()` then returns at once and
  nobody ends the new process.
* **A hook is lost** (`hook_lost`; `ipyWidgetMessageDispatcher.ts:685`). An output
  widget's hook is removed, and the extension puts that off until its kernel has
  handled the last message the hook intercepted. The hook is set again before that:
  `registerMessageHook` finds it set, and changes nothing. The removal that was put off
  then removes it, and later messages that the webview's hook has intercepted are
  handled without it. `HookedIsAsked` is what holds until then (`~again`).

No run is spent on what follows; the models show it with the settings named.

* A cell whose request was sent but not acknowledged is settled and its future
  disposed, and the kernel, busy with a cell of another queue, runs it later
  (`cellExecution.ts:343`): what line 320 calls dequeuing is not.
* Two restarts overlap (`Overlapping`) and both fail. The second finds no session and
  resets `_ignoreJupyterSessionDisposedErrors` while the first still awaits the end of
  the session it disposed; that end clears the session of a start made since
  (`kernel.ts:466`), though line 843 says it is ignored.
* The `willRestart` hook awaits the session's promise (`kernelExecution.ts:413`) before
  `restart()` gets to "Cancel any pending starts." (`kernel.ts:408`).
* A resumed cell shows two outputs (`Unusual = {"longer"}`). The text that comes next is
  compared with the first of them (`outputs[0]`,
  `cellExecutionMessageHandler.ts:1161`, under "Get the last output") and may be
  appended to it, above the second: `TextAtTheEnd` fails.
* Two outputs of two cells are made with one display id (`{"reused"}`). Clearing the
  first cell drops the mapping, though the second shows the output that is to be
  updated (`cellDisplayIdTracker.ts:58`): `UpdatableWhileShown` fails.
* An interrupted cell runs for more than a second more (`Slow`): a resumed execution of
  it is shown as ended, and `EndedMeansOver` fails.
* A cell that fails keeps its record (`vscodeNotebookController.ts:801`), as does one
  that was moved, or whose session was lost (`lastCellExecutionTracker.ts:221`, `:199`):
  after a reload, if the session is found, there is a listener for a request that
  is over. Without its conditions `NothingToRestore` fails of each of them.
* A restart and a connection that is under way (`OneConnection` without `Overtaken`
  fails): the connection goes on with its prompts beside the restart's.
* A resumed cell that is over before its handler is registered ends only when the
  kernel answers somebody else: hence `later` in `FollowedEnds`.

## 4. What is proved

All for instances of any size.

`CellExecutionQueue_proofs`, from `ConstantsAssumption` only (finitely many
executions, code and cells apart, `None` none of them):

* `TypeCorrect`: `Spec => []TypeOK`. `TypeOK` is inductive as it stands because
  it carries two facts that are not types: a loop suspended at an item has one
  (`cur`), and a restart that awaits the session has a queue to cancel. The proof
  has a lemma for each effect that actions share (`CancelItemsType`,
  `LoopCancelsType`, `NextOrDeadType`, `PushType`, `FuturesRejectedType`), then one
  for each group of actions. The module begins with facts about the operators on
  sequences. `CodeItems` is a recursive function, and what it returns is proved by
  taking the least argument at which the claim fails (`LeastNat`), since the
  induction theorems of the library cannot be used.

* `NothingIsLost`, `StoppedStayStopped`, `UsableIsServed`: `Spec` implies that
  `NothingLost`, `StoppedCellsStayStopped` and `UsableQueueIsServed` always hold;
  `DropsAreSettled`: `Spec => DropsOnlySettled`.

  None of them is inductive alone. That emptying a whole queue loses nothing rests
  on what `cancel()` settled or awaits (`CancelsAwaitTheRest`), on no execution
  joining the queue in between because a queue being cancelled is stopped
  (`CancelsStop`), and on executions being in no other queue (`ItemsAreAtHome`).
  That a skipped cell is settled rests on stopped queues having no waiting cell
  and on only the current item of a loop running (`OnlyCurrentRuns`); for a closed
  notebook also on every queue being stopped by then (`ClosingStops`). That the
  queue `onWillRestart` remembered exists is `OnlyUsedQueues`. `IInv` is their
  conjunction, preserved by every action: `SideStep` covers the actions that only
  settle executions, `CancelStep` the cancels from the side, `AddStep` additions,
  `StartStep` the start of an item and `MoveStep` the other steps of a loop.
  `DropsAreSettled` follows from `IInv` before and after a step, and from
  `StaysHome`.

`InOrder_proofs`, from the same assumption and `IInv`:

* `OrderIsRight`, `ErrorsStopCells`, `SpinnersEnd`: `InOrder`, `ErrorStopsCells` and
  `NoStuckSpinner` always hold.

  Order rests on `Sorted`: before any item of a queue there is every *pending* one
  added earlier. That is what survives the copies of code, which stand behind what
  they are copies of; it would not say that the array is sorted, which it is not. With
  it go `Tickets` (a ticket is at most the number of executions that joined the
  queue), `RequestsStarted` (a request, or an interrupt of code, is of something that
  started), `FailureKnown` (a failure that must stop its queue has, or the
  loop has yet to look at it) and `OwnWrapper` (nobody shares the task of an execution
  that was not added yet). `OInv` is their conjunction with the three properties.
  Every step adds an execution, starts an item, or is an `OtherStep`, which only
  settles executions and removes or repeats items (`KindsOfSteps`); each of the three
  kinds keeps each conjunct.
* `ContractIsKept`: `Spec => KeepsContract`, the refinement. Adding submits
  (`AddSubmits`, by `Tickets`), starting begins in order and in a line that is not
  stopped, or ends at once (`StartBegins`, by `Sorted`), everything else ends what it
  settles and stops the queues it fails (`SettlingEnds`).

`KernelLifecycle_proofs`, from `KernelAssumption` only (starts, restarts and
interrupts are distinct, `None` none of them), for any number of calls:

* `TypeCorrect`: `Spec => []TypeOK`, one step per action. What makes it inductive
  is that a suspended call has something to await, and that a restart which has
  not asked for a session yet has begun no creation.
* `DisposedForGood`: `Spec => []DisposedOwnsNothing`, overlapping restarts
  included. It is inductive: only `BeginCreation` and `Adopts` give the kernel
  anything, and both ask whether it is being disposed.

* If `~Overlapping` (the second remark above is why), `OneCreation`, `StatusTold`,
  `FactoryCancellable`, `EndsForgotten`: what `kernel_calls` checks, always.
  `LateEndIgnored` and `NotLetGoAlive`: the action properties it checks.

  The invariant `Inv` says that the creation under way is the one promised and that
  an adopted session comes with its own promise. `Rejects`, `ForgetSession` and
  `RestartFails` drop whichever promise there is, so each needs a reason why
  nothing else is being created: a creation that fails is itself the promised one;
  a session that ends unignored is the promised one (`Closings`, `Ignores`); a
  failed restart goes on before any event could begin a creation (`Quiet`, which is
  where `Drained` matters). `Suspended` says that what a restart found is still
  there when it goes on, `Tokens` that `NewToken` never replaces a token in use, and
  `Alone` that restarts take turns.

`ResumedCell_proofs`, from `ResumedAssumption`:

* `TypeCorrect`; `NothingIsRestored`: `NothingToRestore`; and, if `~Slow`,
  `NotEndedEarly`: `EndedMeansOver`. The invariant says in which phases of the reload
  each follower can be (`Phases`), that a short timer runs only for a cell that is over
  (`ShortMeansOver`), and that nothing is written after a deletion
  (`DeletionIsLast`).

`NotebookKernels_proofs`, from `NotebookKernelsAssumption` (the bound is a number):

* `TypeCorrect`, `KernelIsOne`, `ClosingLeavesNone`, and `ConnectionIsOne`, which rests
  on a command's connection being the latest when it is made, so that those it takes
  the cache from are overtaken, for good (`OvertakenStays`). A step calls
  several operations in turn, so what is to hold is stated of the kernels, map,
  connections and cache as *arguments* (`KernelsGood`, `ConnsGood`, `NoneForClosed`)
  and shown of every intermediate point of a step; the invariant is what `Become`
  makes of it.

`RawKernel_proofs`, from `RawAssumption`:

* `TypeCorrect`, and, if `~Hasty`, `ProcessesDie`: `DiesWithSession`. The invariant: a
  process that runs and that nobody is killing is the connection's own or that of the
  launch under way (`Owned`); a connection that is shut down, or being so, has closed
  its process and launches none (`Stopped`); the session knows how far the connection is
  (`SessionKnows`); launches and starts fit (`Shape`). `Stopped` is what an
  overlapping restart breaks.

`WidgetMessages_proofs`, from `WidgetAssumption`:

* `TypeCorrect`, restarts included, and `HookedAreAsked`: `HookedIsAsked`. Messages are
  numbered as the kernel sends them, and each queue holds a contiguous piece of that
  numbering; `Structure` (while there was no restart) says where one piece ends and the
  next begins, that what the webview tells the extension comes in that order, and that
  an update of the widget stays in the socket until the extension has done what the
  webview asks because of it. So one operation on the hook is under way at a time and
  falls between the same messages in both kernels. `Hooks` (while the hook was not set
  `again`) says what is then left to ask, in each of the phases: the hook is being set,
  is set in both, is to be removed in the extension, or is gone. The first part holds
  without the second, which needs it.

`CellOutputs_proofs`, from `OutputsAssumption`, for any cells, display ids, streams and
numbers of messages, and any lag:

* `TypeCorrect`: `OutputsTypeOK`, in every unusual situation. A pointer of a handler or
  of the tracker is to a message that has come (`DocTypes`, `HandlerTypes`,
  `TrackerTypes`, typed by the messages there have been).
* If `Unusual \subseteq {"reused"}`, `TextStaysAtTheEnd` and `NoTextIsLost`:
  `TextAtTheEnd` and `TextIsKept`, however late edits are applied. The invariant `Sound`
  says that a stream which a handler continues is the last output of its cell, that
  outputs are of their own cell's messages, that a display id leads only to outputs
  that have it, that a resumed cell nobody has looked at has text in its first output
  only, and that handler and reader wait with a clear for the same cells. What a
  message does is first shown to have one of a few shapes (`TextShape`, `AddShape`,
  ...); then each shape keeps `Sound`, and adds the same pieces to the content of
  the notebook and of the reader.
* If `Unusual \subseteq {"overtaking"}`, `ShowsWhatMessagesSay` and `ShownCanBeUpdated`:
  `ReadsExactly` and `UpdatableWhileShown`, which are about `lag = 1`. `Exact` adds to
  `Sound` that the notebook and the reader show the same, that both find the output of
  every display id, that the tracker's last id of a cell is of that cell, and that a
  handler continues a stream just when the reader does.

The hypotheses on `Unusual` are what the code needs. TLC, with one situation at a time:

| `Unusual` | `ReadsExactly` | `TextIsKept` | `TextAtTheEnd` | `UpdatableWhileShown` |
|---|---|---|---|---|
| `late` | fails | fails | fails | fails |
| `reused` | fails | proved | proved | fails |
| `overtaking` | proved | fails | fails | proved |
| `longer` | fails | fails | fails | holds in the instance |

`TextIsKept` is about `FlattenSeq`, a fold; what it returns for one sequence more is
proved, as for `CodeItems`, with `LeastNat`.

### Only model-checked

* Liveness and the fairness it needs (`CellsSettle`, `CancelsReturn`,
  `DisposeEndsEventually`, `EveryoneAnswered`, `SessionEnds`, `FollowedEnds`,
  `AllPassedOn`), out of the prover's reach. Every safety property of a passing run is
  proved.
* The last entry of the table above.

## 5. The plan

1. *Done*: `CellExecutionQueue`, `ExecutionContract` and the theorems about them, the
   refinement included.
2. *Done*: `KernelLifecycle` and its theorems.
3. *Done*: `CellOutputs`, `ResumedCell` and their theorems.
4. *Done*: `NotebookKernels`, `RawKernel` and their theorems.
5. *Done*: `WidgetMessages` and its theorems.
6. Left: `KernelLifecycle` composed with `CellExecutionQueue` (a cell executed while a
   restart has not set its promise yet, `kernelExecution.ts:230`): the product of the
   two instances is too large for a run, so it needs an abstraction of each.
7. Left: the chain of cells of the interactive window; the start of a local Jupyter
   server, one at a time; prompts of the dependency installer, one per interpreter.
8. Left: `UpdatableWhileShown` with resumed cells that show several outputs
   (`longer`): of `Exact` it needs only that display ids are shown where the reader
   shows them.

## 6. What is not modelled

The components `PROJECT.json` lists as not modelled, with the reason of each:
mostly I/O (finders, connections, installers), wording (errors, telemetry) and
user interface (controllers' menus, webviews, export). More than half of the lines of
the repository are such, among them test data, the list of telemetry events and
localised text. Of a component that is listed as partly modelled, its note says what
is left out. The code of the kernel itself, of `@jupyterlab/services` and of VS Code
is external: it is modelled by what the code relies on.
