----------------------- MODULE CellExecutionContract -----------------------
(***************************************************************************)
(* What CellExecutionQueue implements: ExecutionContract, with a queue for *)
(* a line.                                                                 *)
(***************************************************************************)
EXTENDS CellExecutionQueue

\* An execution runs from the moment its request is sent.  One that never sends
\* a request goes from waiting to done.
StageOf(s) ==
    CASE s = "new"    -> "idle"
      [] s = "queued" -> "waiting"
      [] s = "sent"   -> "running"
      [] OTHER        -> "done"

\* The line of an execution is its queue.
Contract == INSTANCE ExecutionContract WITH
    Lines <- QueueIds, line <- home, place <- ticket,
    stopped <- {q \in QueueIds : failed[q]},
    state <- [e \in Execs |-> StageOf(status[e])]

(* What runs is an implementation of the contract: submitting only to a     *)
(* line that is not stopped, starting in order and once, settling once, and *)
(* no cell started in a stopped line (executeQueuedCells, cancel).          *)
KeepsContract == Contract!ContractSpec

=============================================================================
