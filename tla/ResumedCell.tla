---------------------------- MODULE ResumedCell ----------------------------
(***************************************************************************)
(* A cell that runs on a remote kernel while VS Code is reloaded: the      *)
(* record LastCellExecutionTracker keeps of it on disk, the listener of    *)
(* VSCodeNotebookController that waits for one of its messages, and the    *)
(* CellExecutionMessageHandler of a resumed execution, which has no        *)
(* request to tell it of the end and decides itself when that is.          *)
(***************************************************************************)
EXTENDS Integers, Sequences

CONSTANTS
    MaxMoments,  \* bound: outputs, interrupts and later requests
    Slow         \* an interrupted cell may take more than a second to stop

ASSUME ResumedAssumption ==
    MaxMoments \in Nat /\ Slow \in BOOLEAN

VARIABLES
    cell,      \* the kernel: "unsent", "running" or "over"
    owed,      \* end messages of the request it has yet to send
    later,     \* it has answered another request while the handler was there
    moments,   \* how many of MaxMoments there have been
    exiting,   \* Exiting.isExiting
    reloaded,  \* VS Code has been reloaded
    hasSession, \* kernel.session is there
    follower,  \* who follows the cell in VS Code, or how that ended
    moved,     \* cell.index, seen from the tracked one: "no", "away", "back"
    writes,    \* chainedPromises: writes of the record that are due
    record,    \* the record of the notebook is on disk
    gotIdle, gotReply,   \* gotIdleIOPubStatus, gotShellReply
    timer      \* endAbnormallyTimeout: "none", "short" (100 ms), "long" (1 s)

cellVars  == <<cell, owed, later>>
hostVars    == <<exiting, reloaded, hasSession>>
recordVars  == <<moved, writes, record>>
signalVars  == <<gotIdle, gotReply, timer>>
resumedVars == <<cellVars, moments, hostVars, follower, recordVars, signalVars>>

ResumedInit ==
    /\ cell = "unsent" /\ owed = {} /\ later = FALSE /\ moments = 0
    /\ exiting = FALSE /\ reloaded = FALSE /\ hasSession = TRUE /\ follower = "none"
    /\ moved = "no" /\ writes = <<>> /\ record = FALSE
    /\ gotIdle = FALSE /\ gotReply = FALSE /\ timer = "none"

Moment == moments < MaxMoments /\ moments' = moments + 1

-----------------------------------------------------------------------------
(* Before the reload: trackCellExecution, and the cell's own execution.     *)

\* The kernel has not sent all that it has to send of the cell.
UnderWay == cell = "running" \/ owed # {}

RunCell ==
    /\ cell = "unsent"
    /\ cell' = "running" /\ follower' = "execution"
    /\ UNCHANGED <<owed, later, moments, hostVars, recordVars, signalVars>>

\* The first message with an execution count, the reply at the latest:
\* trackLastExecution, which takes the index the cell has now.
Counted ==
    /\ follower = "execution" /\ UnderWay /\ hasSession /\ ~record /\ writes = <<>>
    /\ writes' = <<"track">>
    /\ UNCHANGED <<cellVars, moments, hostVars, follower, moved, record, signalVars>>

\* A cell above is inserted or removed, or the cell is moved, and perhaps back.
CellMoves ==
    /\ ~reloaded /\ (record \/ writes # <<>>) /\ Moment
    /\ moved' = IF moved = "away" THEN "back" ELSE "away"
    /\ UNCHANGED <<cellVars, hostVars, follower, writes, record, signalVars>>

\* The kernel dies or is restarted under the cell; its session may go with it.
KernelGone ==
    /\ follower = "execution" /\ UnderWay /\ Moment
    /\ cell' = "over" /\ owed' = {}
    /\ hasSession' \in {TRUE, FALSE}
    /\ UNCHANGED <<later, exiting, reloaded, follower, recordVars, signalVars>>

\* VS Code starts to exit while the cell is executed.
Exit ==
    /\ follower = "execution" /\ ~exiting
    /\ exiting' = TRUE
    /\ UNCHANGED <<cellVars, moments, reloaded, hasSession, follower, recordVars,
                   signalVars>>

\* A write, one after the other.  A record is deleted only by a cell whose index is
\* the tracked one.
\* Variant: the deletion is not chained after the write.
DeletedAtOnce == record' = FALSE /\ UNCHANGED <<moved, writes>>

Deleted ==
    IF hasSession THEN writes' = Append(writes, "delete") /\ UNCHANGED <<moved, record>>
               ELSE UNCHANGED recordVars

WriteRecord ==
    /\ writes # <<>>
    /\ record' = (Head(writes) = "track" \/ (record /\ moved = "away"))
    /\ writes' = Tail(writes)
    /\ UNCHANGED <<cellVars, moments, hostVars, follower, moved, signalVars>>

\* executeCell resolves, for a cell that succeeded or was cancelled, and then comes
\* deleteTrackedCellExecution unless VS Code is exiting; or it rejects, for an error
\* reply (an interrupted cell has one), and the catch leaves the record as it is.
ExecutionEnds ==
    /\ follower = "execution" /\ cell = "over" /\ owed = {}
    /\ \/ /\ follower' = "ended"
          /\ IF exiting THEN UNCHANGED recordVars ELSE Deleted
       \/ follower' = "failed" /\ UNCHANGED recordVars
    /\ UNCHANGED <<cellVars, moments, hostVars, signalVars>>

-----------------------------------------------------------------------------
(* The reload, and restoreConnection.                                       *)

\* What was in memory is lost, the writes that were due included.
Reload ==
    /\ ~reloaded /\ cell # "unsent"
    /\ reloaded' = TRUE /\ exiting' = FALSE /\ follower' = "none" /\ writes' = <<>>
    /\ UNCHANGED <<cellVars, moments, hasSession, moved, record, signalVars>>

\* getLastTrackedCellExecution finds the record, if the session is found again, and
\* anyMessageHandler is connected.
Watch ==
    /\ reloaded /\ follower = "none" /\ record /\ hasSession
    /\ follower' = "watch"
    /\ UNCHANGED <<cellVars, moments, hostVars, recordVars, signalVars>>

\* resumeCellExecution: the queue starts, CellExecution.resume() registers the handler.
Register ==
    /\ follower = "resuming"
    /\ follower' = "handler"
    /\ UNCHANGED <<cellVars, moments, hostVars, recordVars, signalVars>>

-----------------------------------------------------------------------------
(* Messages.                                                                *)

\* anyMessageHandler: a message of the request, but not its idle status.
Triggered(what) ==
    IF follower = "watch" /\ what # "idle" THEN "resuming" ELSE follower

\* onKernelAnyMessage, its end: both messages have come.
BothCame(idle, reply) == idle /\ reply

\* Who counts the end messages.
\* Variant: they are counted before the handler is there.
HeardEarly == follower \in {"resuming", "handler"}

Hears == follower = "handler"

Output ==
    /\ cell = "running" /\ Moment
    /\ follower' = Triggered("stream")
    /\ UNCHANGED <<cellVars, hostVars, recordVars, signalVars>>

CellOver ==
    /\ cell = "running"
    /\ cell' = "over" /\ owed' = {"reply", "idle"}
    /\ UNCHANGED <<later, moments, hostVars, follower, recordVars, signalVars>>

\* The reply (shell) and the idle status (iopub) come in any order.
EndMessage(what) ==
    /\ what \in owed
    /\ owed' = owed \ {what}
    /\ LET idle  == gotIdle \/ (Hears /\ what = "idle")
           reply == gotReply \/ (Hears /\ what = "reply")
       IN /\ gotIdle' = idle /\ gotReply' = reply
          /\ IF Hears /\ BothCame(idle, reply)
             THEN follower' = "ended" /\ timer' = "none"
             ELSE /\ follower' = Triggered(what)
                  /\ timer' = IF Hears /\ what = "reply" THEN "short" ELSE timer
    /\ UNCHANGED <<cell, later, moments, hostVars, recordVars>>

\* The kernel answers the next request of anyone, which it does after this one.
\* Variant: the handler looks for the messages of its own request only.
OwnOnly == timer

NoticesOthers == IF follower = "handler" THEN "short" ELSE timer

OtherRequest ==
    /\ cell = "over" /\ owed = {} /\ Moment
    /\ later' = (later \/ follower = "handler")
    /\ timer' = NoticesOthers
    /\ UNCHANGED <<cell, owed, hostVars, follower, recordVars, gotIdle, gotReply>>

\* An interrupt is answered on the control channel, while the cell still runs.
\* Variant: the time is the same as for other requests.
SameTime == "short"

TimeToStop == "long"

Interrupt ==
    /\ cell = "running" /\ follower = "handler" /\ Moment
    /\ timer' = TimeToStop
    /\ UNCHANGED <<cellVars, hostVars, follower, recordVars, gotIdle, gotReply>>

\* setTimeout: completedExecution and endCellExecution.
TimerFires ==
    /\ timer # "none" /\ follower = "handler"
    /\ timer = "long" /\ ~Slow => cell = "over"
    /\ timer' = "none" /\ follower' = "ended"
    /\ UNCHANGED <<cellVars, moments, hostVars, recordVars, gotIdle, gotReply>>

ResumedNext ==
    \/ RunCell \/ Counted \/ CellMoves \/ KernelGone \/ Exit
    \/ WriteRecord \/ ExecutionEnds
    \/ Reload \/ Watch \/ Register
    \/ Output \/ CellOver \/ OtherRequest \/ Interrupt \/ TimerFires
    \/ \E what \in {"reply", "idle"} : EndMessage(what)

\* What the event loop, the disk and the kernel do in the end.  Nobody need reload,
\* interrupt, or send another request.
ResumedFairness ==
    /\ WF_resumedVars(WriteRecord) /\ WF_resumedVars(ExecutionEnds)
    /\ WF_resumedVars(Watch) /\ WF_resumedVars(Register)
    /\ WF_resumedVars(CellOver) /\ WF_resumedVars(TimerFires)
    /\ \A what \in {"reply", "idle"} : WF_resumedVars(EndMessage(what))

ResumedSpec == ResumedInit /\ [][ResumedNext]_resumedVars

-----------------------------------------------------------------------------
(* Properties.                                                              *)

(* Every variable keeps its type; a timer runs only for a handler that has  *)
(* not ended the execution, and only a handler has had end messages.        *)
ResumedTypeOK ==
    /\ cell \in {"unsent", "running", "over"}
    /\ owed \subseteq {"reply", "idle"} /\ (owed # {} => cell = "over")
    /\ later \in BOOLEAN /\ exiting \in BOOLEAN /\ reloaded \in BOOLEAN
    /\ hasSession \in BOOLEAN /\ record \in BOOLEAN /\ moved \in {"no", "away", "back"}
    /\ moments \in 0..MaxMoments
    /\ follower \in {"none", "execution", "watch", "resuming", "handler",
                    "ended", "failed"}
    /\ writes \in Seq({"track", "delete"})
    /\ gotIdle \in BOOLEAN /\ gotReply \in BOOLEAN
    /\ timer \in {"none", "short", "long"} /\ (timer # "none" => follower = "handler")
    /\ gotIdle \/ gotReply => reloaded /\ follower \in {"handler", "ended"}

(* A resumed cell is not shown as ended while the kernel runs it: not by    *)
(* the answer to an interrupt, as long as interrupted cells stop in time.   *)
EndedMeansOver == follower = "ended" => cell = "over"

(* "If we complete execution, then there is nothing to be restored": no     *)
(* record is left by a cell whose execution resolved, once the writes are   *)
(* done; unless VS Code was exiting, the session was lost, or the cell was  *)
(* moved since it was tracked.  A cell that failed is not meant.            *)
NothingToRestore ==
    /\ follower = "ended" /\ ~reloaded /\ writes = <<>>
    /\ ~exiting /\ hasSession /\ moved = "no"
    => ~record

(* A resumed cell ends if its handler is there before the kernel is done    *)
(* with it; and "the following are backups": it ends in any case when the   *)
(* kernel answers another request.                                          *)
FollowedEnds ==
    (follower = "handler" /\ (cell = "running" \/ later)) ~> (follower = "ended")

=============================================================================
