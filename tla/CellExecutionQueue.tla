------------------------- MODULE CellExecutionQueue -------------------------
(***************************************************************************)
(* The execution of one notebook: NotebookKernelExecution, the             *)
(* CellExecutionQueues it creates one after the other, the CellExecution   *)
(* and CodeExecution objects in them, and the kernel that answers their    *)
(* execute requests (the kernel is external: @jupyterlab/services).        *)
(*                                                                         *)
(* JavaScript runs a callback to completion, so an action is the code      *)
(* between two awaits.  A queue whose pc is in Synchronous has not reached *)
(* its next await: no other action may come in between.                    *)
(***************************************************************************)
EXTENDS Naturals, Sequences, FiniteSets, SequencesExt

CONSTANTS
    CellExecs,   \* identities of CellExecution objects
    CodeExecs,   \* identities of CodeExecution objects (third party code)
    Resumed,     \* the cell executions made by resumeCell
    Cells,       \* the code cells of the notebook
    CellOf,      \* the cell each CellExecution runs
    Tolerant,    \* the cells tagged "raises-exception"
    QueueIds,    \* CellExecutionQueue objects, numbered as they are created
    None,        \* the JavaScript value undefined
    MaxDisruptions \* bound: how often something goes wrong or is cancelled

ASSUME ConstantsAssumption ==
    /\ CellExecs \cap CodeExecs = {}
    /\ IsFiniteSet(CellExecs) /\ IsFiniteSet(CodeExecs)
    /\ Resumed \subseteq CellExecs
    /\ CellOf \in [CellExecs -> Cells]
    /\ Tolerant \subseteq Cells
    /\ QueueIds \subseteq Nat
    /\ MaxDisruptions \in Nat
    /\ None \notin QueueIds
    /\ None \notin CellExecs \cup CodeExecs

Execs == CellExecs \cup CodeExecs

VARIABLES
    \* NotebookKernelExecution
    docQueue,     \* documentExecutions.get(notebook)
    restart,      \* the progress of kernel.restart() through its willRestart hook
    restartQueue, \* the queue onWillRestart read before its await
    \* CellExecutionQueue, one of each per queue
    items,        \* queueOfItemsToExecute
    failed,       \* cancelledOrCompletedWithErrors
    pc,           \* where start() / executeQueuedCells() is suspended
    cur,          \* itemToExecute
    sawClosed,    \* the queues whose local notebookClosed is true
    cancels,      \* calls of cancel() in flight, each with the items it awaits
    \* CellExecution and CodeExecution, one of each per execution
    status,       \* how far the execution and its result promise are
    started,      \* the executions whose field started is true
    cancelled,    \* the executions whose field cancelHandled is true
    interrupting, \* the code executions whose cancel() awaits kernel.interrupt()
    home,         \* the queue the execution was added to
    ticket,       \* history: its place among the additions to that queue
    \* CellExecutionCreator: NotebookCellExecutionWrapper objects, each named
    \* after the cell execution that created it
    wrapper,      \* the wrapper a cell execution uses
    shown,        \* what VS Code shows of a wrapper
    \* VS Code and the kernel
    deleted,      \* cells whose text document is closed
    closed,       \* notebook.isClosed
    requests,     \* execute requests the kernel has not answered, in order
    busy,         \* whether the kernel is executing Head(requests)
    dead,         \* the queues whose kernel connection is dead
    disruptions   \* how many disruptions there have been

queueVars  == <<items, failed, pc, cur, sawClosed, cancels>>
execVars   == <<status, started, cancelled, interrupting, shown>>
birthVars  == <<home, ticket, wrapper>>
kernelVars == <<requests, busy, dead>>
ownerVars  == <<docQueue, restart, restartQueue>>
docVars    == <<deleted, closed, disruptions>>
vars == <<ownerVars, queueVars, execVars, birthVars, docVars, kernelVars>>

-----------------------------------------------------------------------------
(* new: not constructed; queued: constructed; sent: the kernel has its      *)
(* request, or is running what it resumes; the last two: the result promise *)
(* is resolved or rejected.                                                 *)
Statuses == {"new", "queued", "sent", "resolved", "rejected"}
Settled(e)  == status[e] \in {"resolved", "rejected"}
Created(e)  == status[e] # "new"
Pending(e)  == Created(e) /\ ~Settled(e)

PCs == {"unused", "session", "next", "skip", "run",
        "cancelAll", "cancelCells", "cancelFailed", "done"}
Synchronous == {"next", "skip"}
Quiet == \A q \in QueueIds : pc[q] \notin Synchronous

\* Who calls cancel(): the user's interrupt; a restart, disposal or closed
\* notebook (forced); the queue's own loop.
Callers == {"interrupt", "forced", "loop"}
Idle == [call |-> FALSE, awaits |-> {}]
Awaiting(S) == [call |-> TRUE, awaits |-> S]

CellsIn(s) == ToSet(s) \cap CellExecs
CodeIn(s)  == ToSet(s) \cap CodeExecs
IsCode(e)  == e \in CodeExecs

Init ==
    /\ docQueue = None /\ restart = "no" /\ restartQueue = None
    /\ items = [q \in QueueIds |-> <<>>]
    /\ failed = [q \in QueueIds |-> FALSE]
    /\ pc = [q \in QueueIds |-> "unused"]
    /\ cur = [q \in QueueIds |-> None]
    /\ sawClosed = {}
    /\ cancels = [q \in QueueIds |-> [c \in Callers |-> Idle]]
    /\ status = [e \in Execs |-> "new"]
    /\ started = {} /\ cancelled = {} /\ interrupting = {}
    /\ home = [e \in Execs |-> None]
    /\ ticket = [e \in Execs |-> 0]
    /\ wrapper = [e \in CellExecs |-> e]
    /\ shown = [e \in CellExecs |-> "none"]
    /\ deleted = {} /\ closed = FALSE
    /\ requests = <<>> /\ busy = FALSE /\ dead = {}
    /\ disruptions = 0

\* Interrupts, cancellations, closings and failures are bounded.
Disrupt ==
    /\ disruptions < MaxDisruptions
    /\ disruptions' = disruptions + 1

-----------------------------------------------------------------------------
(* Adding work.                                                             *)

\* Variant: a queue that failed is used as long as it holds items.
ReusableIfNotEmpty(q) == items[q] # <<>>

Reusable(q) == items[q] # <<>> /\ ~failed[q]

\* getOrCreateCellExecutionQueue: the existing queue if it can be used, else a new one.
TargetQueue(q) ==
    IF docQueue \in QueueIds /\ Reusable(docQueue)
    THEN q = docQueue
    ELSE pc[q] = "unused" /\ \A r \in QueueIds : r < q => pc[r] # "unused"

\* queueOfItemsToExecute.push and startExecutingCells.
Push(e, q) ==
    /\ docQueue' = q
    /\ items' = [items EXCEPT ![q] = Append(@, e)]
    /\ pc' = [pc EXCEPT ![q] = IF @ = "unused" THEN "session" ELSE @]
    /\ status' = [status EXCEPT ![e] = "queued"]
    /\ home' = [home EXCEPT ![e] = q]
    /\ ticket' = [ticket EXCEPT ![e] =
                    1 + Cardinality({f \in Execs : home[f] = q})]
    /\ UNCHANGED <<restart, restartQueue, failed, cur, sawClosed, cancels,
                   started, cancelled, interrupting, docVars, kernelVars>>

\* CellExecutionCreator.getOrCreate: a wrapper that has not ended is shared.
LiveWrappers(c) ==
    {wrapper[f] : f \in {g \in CellExecs :
        Created(g) /\ CellOf[g] = c /\ shown[wrapper[g]] # "ended"}}

UseWrapper(e) ==
    LET live == LiveWrappers(CellOf[e]) IN
    IF live = {}
    THEN /\ shown' = [shown EXCEPT ![e] = "pending"]
         /\ UNCHANGED wrapper
    ELSE /\ wrapper' = [wrapper EXCEPT ![e] = CHOOSE w \in live : TRUE]
         /\ UNCHANGED shown

\* executeCell and resumeCellExecution, up to the first await.  An execution of
\* the same cell that is still in the queue is used instead of a new one.
QueueCell(e, q) ==
    /\ Quiet
    /\ e \in CellExecs /\ status[e] = "new"
    /\ ~closed /\ CellOf[e] \notin deleted
    /\ TargetQueue(q)
    /\ \A f \in CellsIn(items[q]) : CellOf[f] # CellOf[e]
    /\ Push(e, q)
    /\ UseWrapper(e)

\* executeCode for an extension other than this one.
QueueCode(e, q) ==
    /\ Quiet
    /\ IsCode(e) /\ status[e] = "new"
    /\ ~closed
    /\ TargetQueue(q)
    /\ Push(e, q)
    /\ UNCHANGED <<wrapper, shown>>

-----------------------------------------------------------------------------
(* Settling the result promises of the executions in S, and cancelling.     *)

\* Variant: a wrapper is ended only if it was started.
EndedIfRunning(S) ==
    [w \in CellExecs |->
        IF shown[w] = "running" /\ \E e \in S \cap CellExecs : wrapper[e] = w
        THEN "ended" ELSE shown[w]]

\* endCellTask ends the wrapper the cell execution uses.
Ended(S) ==
    [w \in CellExecs |->
        IF \E e \in S \cap CellExecs : wrapper[e] = w THEN "ended" ELSE shown[w]]

Settle(S, outcome) ==
    /\ status' = [e \in Execs |-> IF e \in S THEN outcome ELSE status[e]]
    /\ shown' = Ended(S)

\* Variant: waits for cells that were never started, too.
MustWaitForQueued(e, forced) ==
    /\ ~Settled(e)
    /\ IF IsCode(e) THEN e \in started ELSE ~forced

\* CellExecution.cancel waits for a cell the kernel acknowledged unless forced,
\* CodeExecution.cancel for any code that was sent.
MustWait(e, forced) ==
    /\ ~Settled(e) /\ e \in started
    /\ \/ IsCode(e)
       \/ ~forced /\ shown[wrapper[e]] # "pending"

\* Variant: cancel() forgets to mark the queue.
StoppedNot(Q) == failed

\* cancelledOrCompletedWithErrors once the queues Q are stopped.
Stopped(Q) == [q \in QueueIds |-> failed[q] \/ q \in Q]

\* cancel() on the items T[q] of every queue q in DOMAIN T, up to its await.
CancelItems(T, caller, forced) ==
    LET all  == UNION {T[q] : q \in DOMAIN T}
        wait == {e \in all : MustWait(e, forced)}
        now  == {e \in all : ~Settled(e)} \ wait
    IN  /\ failed' = Stopped(DOMAIN T)
        /\ Settle(now, "resolved")
        /\ cancelled' = cancelled \cup now
        /\ interrupting' = interrupting \cup (wait \cap CodeExecs)
        /\ cancels' = [q \in QueueIds |->
                         IF q \in DOMAIN T
                         THEN [cancels[q] EXCEPT ![caller] = Awaiting(T[q] \cap wait)]
                         ELSE cancels[q]]
        /\ UNCHANGED started

\* Variant: cancel() does not await the items.
CanReturnAtOnce(q, caller) == cancels[q][caller].call

\* The awaits of a cancel() are over.
CanReturn(q, caller) ==
    /\ cancels[q][caller].call
    /\ \A e \in cancels[q][caller].awaits : Settled(e) /\ e \notin interrupting

\* onWillInterrupt; another interrupt while one is pending changes nothing.
Interrupt ==
    /\ Quiet /\ Disrupt
    /\ docQueue \in QueueIds /\ ~cancels[docQueue]["interrupt"].call
    /\ CancelItems([q \in {docQueue} |-> ToSet(items[q])], "interrupt", FALSE)
    /\ UNCHANGED <<ownerVars, items, pc, cur, sawClosed, birthVars, deleted, closed, kernelVars>>

\* cancel(true) of the queues Q that are not already being cancelled that way.
ForceCancel(Q) ==
    LET R == {q \in Q : ~cancels[q]["forced"].call}
    IN  CancelItems([q \in R |-> ToSet(items[q])], "forced", TRUE)

\* onWillCancel: the kernel is being disposed.
WillCancel ==
    /\ Quiet /\ Disrupt
    /\ docQueue \in QueueIds
    /\ ForceCancel({docQueue})
    /\ UNCHANGED <<ownerVars, items, pc, cur, sawClosed, birthVars, deleted, closed, kernelVars>>

\* The notebook is closed: every queue made for it that is not over is cancelled.
CloseNotebook ==
    /\ Quiet /\ Disrupt
    /\ ~closed
    /\ closed' = TRUE
    /\ ForceCancel({q \in QueueIds : pc[q] # "unused" /\ (~failed[q] \/ items[q] # <<>>)})
    /\ UNCHANGED <<ownerVars, items, pc, cur, sawClosed, birthVars, deleted, kernelVars>>

\* The rest of cancel() after its await: the whole queue is emptied.
CancelReturns(q, caller) ==
    /\ Quiet
    /\ caller \in {"interrupt", "forced"}
    /\ CanReturn(q, caller)
    /\ cancels' = [cancels EXCEPT ![q][caller] = Idle]
    /\ items' = [items EXCEPT ![q] = <<>>]
    /\ UNCHANGED <<ownerVars, failed, pc, cur, sawClosed, execVars, birthVars, docVars, kernelVars>>

\* kernel.interrupt() returned; the code's request is disposed, which rejects it.
CodeInterrupted(e) ==
    /\ Quiet
    /\ e \in interrupting
    /\ interrupting' = interrupting \ {e}
    /\ Settle({e} \ {f \in Execs : Settled(f)}, "rejected")
    /\ UNCHANGED <<ownerVars, queueVars, started, cancelled, birthVars, docVars, kernelVars>>

\* The token given to executeCode is cancelled.
CancelCode(e) ==
    /\ Quiet /\ Disrupt
    /\ IsCode(e) /\ Pending(e)
    /\ IF e \in started
       THEN interrupting' = interrupting \cup {e} /\ UNCHANGED <<status, shown, cancelled>>
       ELSE /\ cancelled' = cancelled \cup {e}
            /\ Settle({e}, "resolved")
            /\ UNCHANGED interrupting
    /\ UNCHANGED <<ownerVars, queueVars, started, birthVars, deleted, closed, kernelVars>>

\* The cell's text document is closed: the executions under way are completed.
DeleteCell(c) ==
    /\ Quiet /\ Disrupt
    /\ c \notin deleted
    /\ deleted' = deleted \cup {c}
    /\ Settle({e \in started \cap CellExecs : CellOf[e] = c /\ ~Settled(e)}, "resolved")
    /\ UNCHANGED <<ownerVars, queueVars, started, cancelled, interrupting,
                   birthVars, closed, kernelVars>>

-----------------------------------------------------------------------------
(* executeQueuedCells.                                                      *)

\* The session promise resolves, possibly to a connection that is dead already.
QueueReady(q) ==
    /\ Quiet
    /\ pc[q] = "session"
    /\ pc' = [pc EXCEPT ![q] = "next"]
    /\ \/ UNCHANGED dead
       \/ dead # {} /\ dead' = dead \cup {q}
    /\ UNCHANGED <<ownerVars, items, failed, cur, sawClosed, cancels, execVars,
                   birthVars, docVars, requests, busy>>

\* The queue's loop calls cancel() or cancelQueuedCells() on S and awaits it at l.
LoopCancels(q, S, l) ==
    /\ CancelItems([r \in {q} |-> S], "loop", FALSE)
    /\ pc' = [pc EXCEPT ![q] = l]

\* The session promise rejects: the handler of start() cancels the cells.
QueueSessionFails(q) ==
    /\ Quiet /\ Disrupt
    /\ pc[q] = "session"
    /\ LoopCancels(q, CellsIn(items[q]), "cancelFailed")
    /\ UNCHANGED <<ownerVars, items, cur, sawClosed, birthVars, deleted, closed, kernelVars>>

\* Cells are not started any more once the notebook is closed or the queue failed.
MayStart(q, e) == IsCode(e) \/ (~closed /\ ~failed[q])

QueueEnds(q) ==
    /\ pc[q] = "next" /\ items[q] = <<>>
    /\ pc' = [pc EXCEPT ![q] = "done"]
    /\ UNCHANGED <<ownerVars, items, failed, cur, sawClosed, cancels, execVars,
                   birthVars, docVars, kernelVars>>

\* The first item is a cell of a closed notebook or of a queue that has failed.
SkipItem(q) ==
    /\ pc[q] = "next" /\ items[q] # <<>>
    /\ ~MayStart(q, Head(items[q]))
    /\ cur' = [cur EXCEPT ![q] = Head(items[q])]
    /\ pc' = [pc EXCEPT ![q] = "skip"]
    /\ sawClosed' = IF closed THEN sawClosed \cup {q} ELSE sawClosed
    /\ UNCHANGED <<ownerVars, items, failed, cancels, execVars, birthVars, docVars, kernelVars>>

\* canExecuteCell: the cell is gone.
Gone(e) == e \in CellExecs /\ CellOf[e] \in deleted

\* start() of an execution that is settled, already started, or whose cell is gone.
StartNothing(e) ==
    /\ IF Gone(e) /\ ~Settled(e)
       THEN Settle({e}, "resolved")
       ELSE UNCHANGED <<status, shown>>
    /\ UNCHANGED <<started, requests>>

\* start() sends the execute request.
StartRequest(e) ==
    /\ status' = [status EXCEPT ![e] = "sent"]
    /\ started' = started \cup {e}
    /\ requests' = Append(requests, e)
    /\ UNCHANGED shown

\* start() of a resumed cell: the kernel is already running its request.
StartResumed(e) ==
    /\ status' = [status EXCEPT ![e] = "sent"]
    /\ started' = started \cup {e}
    /\ shown' = [shown EXCEPT ![wrapper[e]] = IF @ = "pending" THEN "running" ELSE @]
    /\ UNCHANGED requests

\* start() settles at once: there is no code to run, or no kernel to run it.
StartAtOnce(e, outcome) ==
    /\ Settle({e}, outcome)
    /\ started' = IF IsCode(e) THEN started ELSE started \cup {e}
    /\ UNCHANGED requests

StartItem(q) ==
    LET e == Head(items[q])
        runnable == ~Settled(e) /\ e \notin started /\ ~Gone(e)
    IN  /\ pc[q] = "next" /\ items[q] # <<>>
        /\ MayStart(q, e)
        /\ cur' = [cur EXCEPT ![q] = e]
        /\ pc' = [pc EXCEPT ![q] = "run"]
        /\ \/ ~runnable /\ StartNothing(e)
           \/ runnable /\ e \in Resumed /\ StartResumed(e)
           \/ runnable /\ e \notin Resumed /\ q \in dead /\ StartAtOnce(e, "rejected")
           \/ runnable /\ e \notin Resumed /\ ~IsCode(e) /\ StartAtOnce(e, "resolved")
           \/ runnable /\ e \notin Resumed /\ q \notin dead /\ StartRequest(e)
        /\ UNCHANGED <<ownerVars, items, failed, sawClosed, cancels, cancelled,
                       interrupting, birthVars, docVars, busy, dead>>

\* Variant: start() is not awaited.
ProcessedOnceStarted(q) == pc[q] \in {"skip", "run"}

\* The first item has been processed: its start() settled, or it was skipped.
Processed(q) == pc[q] = "skip" \/ (pc[q] = "run" /\ Settled(cur[q]))

\* Variant: splice(index) without the count of items to remove.
RestUpTo(q) == <<>>

\* The queue without the item that was processed.
Rest(q) == RemoveFirst(items[q], cur[q])

\* Variant: the result of the cell is not looked at.
BailOutIfStopped(q) == q \in sawClosed \/ failed[q]

\* A cell failed, or the queue was stopped while it ran.
BailOut(q) ==
    \/ q \in sawClosed
    \/ failed[q]
    \/ cur[q] \in CellExecs /\ status[cur[q]] = "rejected" /\ CellOf[cur[q]] \notin Tolerant

OnlyCells(s) == s # <<>> /\ CodeIn(s) = {}
CellsAndCode(s) == CellsIn(s) # {} /\ CodeIn(s) # {}

\* Only cells are left, or the notebook is closed: cancel everything and stop.
FinishAndStop(q) ==
    /\ Quiet \/ pc[q] = "skip"
    /\ Processed(q) /\ BailOut(q)
    /\ OnlyCells(Rest(q)) \/ (q \in sawClosed /\ CellsIn(Rest(q)) = {})
    /\ items' = [items EXCEPT ![q] = Rest(q)]
    /\ LoopCancels(q, ToSet(Rest(q)), "cancelAll")
    /\ UNCHANGED <<ownerVars, cur, sawClosed, birthVars, docVars, kernelVars>>

\* Cells and code are left: cancel the cells, keep the code.
FinishAndKeepCode(q) ==
    /\ Quiet \/ pc[q] = "skip"
    /\ Processed(q) /\ BailOut(q)
    /\ CellsAndCode(Rest(q))
    /\ items' = [items EXCEPT ![q] = Rest(q)]
    /\ LoopCancels(q, CellsIn(Rest(q)), "cancelCells")
    /\ UNCHANGED <<ownerVars, cur, sawClosed, birthVars, docVars, kernelVars>>

\* The end of the loop's body: a dead kernel ends the queue.
NextOrDead(q, s) ==
    IF q \in dead
    THEN LoopCancels(q, ToSet(s), "cancelAll")
    ELSE /\ pc' = [pc EXCEPT ![q] = "next"]
         /\ failed' = [failed EXCEPT ![q] = @ \/ BailOut(q)]
         /\ cancels' = [cancels EXCEPT ![q]["loop"] = Idle]
         /\ UNCHANGED execVars

FinishAndContinue(q) ==
    /\ Quiet \/ pc[q] = "skip"
    /\ Processed(q)
    /\ BailOut(q) => CellsIn(Rest(q)) = {} /\ q \notin sawClosed
    /\ items' = [items EXCEPT ![q] = Rest(q)]
    /\ NextOrDead(q, Rest(q))
    /\ UNCHANGED <<ownerVars, cur, sawClosed, birthVars, docVars, kernelVars>>

\* The code executions of the queue, in order.
CodeItems(s) ==
    LET Kept[n \in 0..Len(s)] ==
            IF n = 0 THEN <<>>
            ELSE IF IsCode(s[n]) THEN Append(Kept[n-1], s[n])
            ELSE Kept[n-1]
    IN  Kept[Len(s)]

\* cancelQueuedCells() returns into the loop: the code is added once more.
CellsCancelled(q) ==
    LET s == items[q] \o CodeItems(items[q])
    IN  /\ Quiet
        /\ pc[q] = "cancelCells" /\ CanReturn(q, "loop")
        /\ items' = [items EXCEPT ![q] = s]
        /\ NextOrDead(q, s)
        /\ UNCHANGED <<ownerVars, cur, sawClosed, birthVars, docVars, kernelVars>>

\* cancel() returns and the loop breaks, or start() is over after its handler.
LoopCancelled(q) ==
    /\ Quiet
    /\ pc[q] \in {"cancelAll", "cancelFailed"} /\ CanReturn(q, "loop")
    /\ items' = [items EXCEPT ![q] =
                    IF pc[q] = "cancelAll" THEN <<>> ELSE @ \o CodeItems(@)]
    /\ pc' = [pc EXCEPT ![q] = "done"]
    /\ cancels' = [cancels EXCEPT ![q]["loop"] = Idle]
    /\ UNCHANGED <<ownerVars, failed, cur, sawClosed, execVars, birthVars, docVars, kernelVars>>

LoopStep(q) ==
    \/ QueueEnds(q) \/ SkipItem(q) \/ StartItem(q)
    \/ FinishAndStop(q) \/ FinishAndKeepCode(q) \/ FinishAndContinue(q)
    \/ CellsCancelled(q) \/ LoopCancelled(q)

-----------------------------------------------------------------------------
(* The kernel and its restart.                                              *)

Begin ==
    /\ Quiet
    /\ requests # <<>> /\ ~busy
    /\ busy' = TRUE
    /\ UNCHANGED <<ownerVars, queueVars, execVars, birthVars, docVars, requests, dead>>

\* The first iopub message of a cell the kernel runs.
Acknowledge ==
    /\ Quiet
    /\ busy
    /\ LET e == Head(requests) IN
        /\ ~IsCode(e) /\ ~Settled(e) /\ shown[wrapper[e]] = "pending"
        /\ shown' = [shown EXCEPT ![wrapper[e]] = "running"]
    /\ UNCHANGED <<ownerVars, queueVars, status, started, cancelled, interrupting,
                   birthVars, docVars, kernelVars>>

\* The reply to the request the kernel runs; nobody listens if it was disposed.
Reply(outcome) ==
    /\ Quiet
    /\ busy
    /\ busy' = FALSE
    /\ requests' = Tail(requests)
    /\ Settle({Head(requests)} \ {f \in Execs : Settled(f)}, outcome)
    /\ UNCHANGED <<ownerVars, queueVars, started, cancelled, interrupting,
                   birthVars, docVars, dead>>

\* The kernel is idle after the request that a resumed cell stands for.
ResumedEnds(e, outcome) ==
    /\ Quiet
    /\ e \in Resumed /\ status[e] = "sent"
    /\ Settle({e}, outcome)
    /\ UNCHANGED <<ownerVars, queueVars, started, cancelled, interrupting,
                   birthVars, docVars, kernelVars>>

\* Variant: a request the kernel has not begun is forgotten.
OutstandingBegun ==
    IF busy THEN {Head(requests)} \ {f \in Execs : Settled(f)} ELSE {}

\* The executions that wait for a reply.
Outstanding == {e \in ToSet(requests) : ~Settled(e)}

\* The futures of all outstanding requests are rejected.
FuturesRejected ==
    /\ requests' = <<>> /\ busy' = FALSE
    /\ Settle(Outstanding, "rejected")
    /\ UNCHANGED <<queueVars, started, cancelled, interrupting, birthVars, deleted, closed>>

KernelDies ==
    /\ Quiet /\ Disrupt
    /\ \E q \in QueueIds : pc[q] \notin {"unused", "session"}
    /\ FuturesRejected
    /\ dead' = {q \in QueueIds : pc[q] \notin {"unused", "session"}}
    /\ UNCHANGED ownerVars

\* The kernel process went away and its server started another.
AutoRestarts ==
    /\ Quiet /\ Disrupt
    /\ requests # <<>>
    /\ FuturesRejected
    /\ UNCHANGED <<ownerVars, dead>>

\* Variant: onWillRestart does not check that there is a queue.
RestartAskedUnchecked ==
    /\ Quiet /\ Disrupt
    /\ restart = "no"
    /\ restart' = "waiting" /\ restartQueue' = docQueue
    /\ UNCHANGED <<docQueue, queueVars, execVars, birthVars, deleted, closed, kernelVars>>

\* onWillRestart reads the queue, then awaits the session.
RestartAsked ==
    /\ Quiet /\ Disrupt
    /\ restart = "no" /\ docQueue \in QueueIds
    /\ restart' = "waiting" /\ restartQueue' = docQueue
    /\ UNCHANGED <<docQueue, queueVars, execVars, birthVars, deleted, closed, kernelVars>>

\* After the await it cancels the queue it read, and does not wait for that.
RestartCancels ==
    /\ Quiet
    /\ restart = "waiting"
    /\ restart' = "cancelled"
    /\ ForceCancel({restartQueue})
    /\ UNCHANGED <<docQueue, restartQueue, items, pc, cur, sawClosed, birthVars,
                   docVars, kernelVars>>

\* session.restart(), which may bring a dead session back.
Restarted ==
    /\ Quiet
    /\ restart = "cancelled"
    /\ restart' = "no" /\ restartQueue' = None
    /\ FuturesRejected
    /\ dead' \in {dead, {}}
    /\ UNCHANGED <<docQueue, disruptions>>

-----------------------------------------------------------------------------
SessionStep(q) == QueueReady(q) \/ QueueSessionFails(q)
QueueStep(q) == SessionStep(q) \/ LoopStep(q)
KernelStep == Begin \/ \E o \in {"resolved", "rejected"} : Reply(o)
ReturnStep(q) == \E c \in Callers : CancelReturns(q, c)

Requests ==
    \/ \E q \in QueueIds :
        \/ \E e \in CellExecs : QueueCell(e, q)
        \/ \E e \in CodeExecs : QueueCode(e, q)
    \/ Interrupt \/ WillCancel \/ CloseNotebook
    \/ \E e \in CodeExecs : CancelCode(e)
    \/ \E c \in Cells : DeleteCell(c)
    \/ RestartAsked \/ RestartCancels \/ Restarted

Next ==
    \/ Requests
    \/ \E q \in QueueIds : QueueStep(q) \/ ReturnStep(q)
    \/ \E e \in CodeExecs : CodeInterrupted(e)
    \/ KernelStep \/ Acknowledge \/ KernelDies \/ AutoRestarts
    \/ \E e \in Resumed, o \in {"resolved", "rejected"} : ResumedEnds(e, o)

Spec == Init /\ [][Next]_vars

\* The event loop runs every continuation that is due; the session promise
\* settles; interrupt() returns; the kernel answers what it is asked.
Fairness ==
    /\ \A q \in QueueIds : WF_vars(QueueStep(q))
    /\ \A q \in QueueIds : WF_vars(ReturnStep(q))
    /\ \A e \in CodeExecs : WF_vars(CodeInterrupted(e))
    /\ WF_vars(KernelStep)

FairSpec == Spec /\ Fairness

-----------------------------------------------------------------------------
(* Properties.                                                              *)

(* The type of every variable.                                              *)
TypeOK ==
    /\ docQueue \in QueueIds \cup {None}
    /\ restart \in {"no", "waiting", "cancelled"}
    /\ restartQueue \in QueueIds \cup {None}
    /\ restart = "waiting" => restartQueue \in QueueIds
    /\ items \in [QueueIds -> Seq(Execs)]
    /\ failed \in [QueueIds -> BOOLEAN]
    /\ pc \in [QueueIds -> PCs]
    /\ cur \in [QueueIds -> Execs \cup {None}]
    /\ \A q \in QueueIds : pc[q] \in {"skip", "run"} => cur[q] \in Execs
    /\ sawClosed \subseteq QueueIds
    /\ cancels \in [QueueIds -> [Callers -> [call : BOOLEAN, awaits : SUBSET Execs]]]
    /\ status \in [Execs -> Statuses]
    /\ started \subseteq Execs
    /\ cancelled \subseteq Execs
    /\ interrupting \subseteq CodeExecs
    /\ home \in [Execs -> QueueIds \cup {None}]
    /\ ticket \in [Execs -> Nat]
    /\ wrapper \in [CellExecs -> CellExecs]
    /\ shown \in [CellExecs -> {"none", "pending", "running", "ended"}]
    /\ deleted \subseteq Cells /\ closed \in BOOLEAN
    /\ requests \in Seq(Execs) /\ busy \in BOOLEAN /\ (busy => requests # <<>>)
    /\ dead \subseteq QueueIds /\ disruptions \in 0..MaxDisruptions

(* An execution whose result is still awaited is in the queue it was added  *)
(* to, and that queue's loop is not over (cellExecutionQueue.ts:186 drops   *)
(* the whole queue, 295 the item just processed).  A queue whose session    *)
(* never came keeps its code for good: CodeSettles is about that.           *)
NothingLost ==
    \A e \in Execs : Pending(e) =>
        /\ home[e] \in QueueIds
        /\ e \in ToSet(items[home[e]])
        /\ IsCode(e) \/ pc[home[e]] # "done"

(* Executions added to the same queue start in the order they were added    *)
(* ("this way we maintain order of cell executions", line 255): when one    *)
(* has started, the ones before it are settled.                             *)
InOrder ==
    \A e, f \in Execs :
        (home[e] = home[f] /\ ticket[e] < ticket[f] /\ f \in started) => ~Pending(e)

(* A cell that failed stops its queue: no cell after it in the queue was    *)
(* started unless the failed one is tagged raises-exception (lines 307-375).*)
ErrorStopsCells ==
    \A e, f \in CellExecs :
        /\ status[e] = "rejected" /\ CellOf[e] \notin Tolerant
        /\ home[e] = home[f] /\ ticket[e] < ticket[f]
        => f \notin started

(* An item can be added to a queue only while its loop will still reach it: *)
(* a queue that looks usable to getOrCreateCellExecutionQueue is served     *)
(* ("its too late", the comment of start() at lines 229-233).               *)
UsableQueueIsServed ==
    \A q \in QueueIds :
        Reusable(q) => pc[q] \in {"session", "next", "skip", "run"}

(* A cell is not left with a spinner: what VS Code shows as pending or      *)
(* running belongs to an execution that is still to settle (endCellTask).   *)
NoStuckSpinner ==
    \A w \in CellExecs : shown[w] \in {"pending", "running"} =>
        \E e \in CellExecs : wrapper[e] = w /\ Pending(e)

(* An interrupt, a restart or a failure holds for what was in the queue: no *)
(* cell of a queue that was stopped is still waiting to be started ("if     *)
(* Cell1 completes then Cell2 should not start", kernelExecution.ts:392).   *)
StoppedCellsStayStopped ==
    \A e \in CellExecs :
        Pending(e) /\ home[e] \in QueueIds /\ failed[home[e]] => e \in started

(* Emptying a queue after cancel() drops only settled executions: nobody is *)
(* left waiting for a dropped one (lines 182-186).                          *)
DropsOnlySettled ==
    [][\A e \in Execs : Pending(e) =>
          \A q \in QueueIds : e \in ToSet(items[q]) =>
              (e \in ToSet(items'[q]) \/ status'[e] \in {"resolved", "rejected"})]_vars

(* Every cell that is run settles: its promise is what executeCell awaits.  *)
CellsSettle ==
    \A e \in CellExecs \ Resumed : status[e] = "queued" ~> Settled(e)

(* Every cancel() returns: interrupt() and dispose() of the kernel await it.*)
CancelsReturn ==
    \A q \in QueueIds : \A c \in Callers : cancels[q][c].call ~> ~cancels[q][c].call

(* "Code has already been started yet CodeExecution.Start invoked again     *)
(* ... this should never happen" (codeExecution.ts:110-121).                *)
CodeStartedOnce ==
    [][\A q \in QueueIds :
          pc[q] = "next" /\ pc'[q] = "run" => cur'[q] \notin started \cap CodeExecs]_vars

(* The outputs of executeCode are an "iterable ... that completes when the  *)
(* execution is complete" (api.d.ts:248): the code's promise settles.       *)
CodeSettles ==
    \A e \in CodeExecs : status[e] = "queued" ~> Settled(e)

=============================================================================
