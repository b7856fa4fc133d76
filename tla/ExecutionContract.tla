------------------------- MODULE ExecutionContract -------------------------
(***************************************************************************)
(* What the execution of a notebook promises to those who ask it to run    *)
(* cells and code, whatever is interrupted, restarted, closed or lost:     *)
(* an execution joins a line, waits for those before it, runs at most once *)
(* and is done once; a stopped line takes no more executions and runs no   *)
(* more cells.                                                             *)
(***************************************************************************)
EXTENDS Naturals

CONSTANTS
    Execs,     \* the executions
    CellExecs, \* those of them that run a cell; the others run code
    Lines,     \* the lines executions wait in
    None

VARIABLES
    line,    \* the line an execution joined
    place,   \* its place in that line
    state,   \* how far it is
    stopped  \* the lines that were cancelled or in which a cell failed

cvars == <<line, place, state, stopped>>

ContractInit ==
    /\ line = [e \in Execs |-> None]
    /\ place = [e \in Execs |-> 0]
    /\ state = [e \in Execs |-> "idle"]
    /\ stopped = {}

Before(e) == {f \in Execs : line[f] = line[e] /\ place[f] < place[e]}

\* It joins at the end, whatever number its place gets.
Submit(e, l) ==
    /\ state[e] = "idle" /\ l \notin stopped
    /\ line' = [line EXCEPT ![e] = l]
    /\ place' = [place EXCEPT ![e] = place'[e]]
    /\ \A f \in Execs : line[f] = l => place[f] < place'[e]
    /\ state' = [state EXCEPT ![e] = "waiting"]
    /\ UNCHANGED stopped

Begin(e) ==
    /\ state[e] = "waiting"
    /\ \A f \in Before(e) : state[f] = "done"
    /\ e \in CellExecs => line[e] \notin stopped
    /\ state' = [state EXCEPT ![e] = "running"]
    /\ UNCHANGED <<line, place, stopped>>

\* Executions end, by themselves or because the lines L are stopped.
End(S, L) ==
    /\ \A e \in S : state[e] \in {"waiting", "running"}
    /\ state' = [e \in Execs |-> IF e \in S THEN "done" ELSE state[e]]
    /\ stopped' = stopped \cup L
    /\ UNCHANGED <<line, place>>

ContractNext ==
    \/ \E e \in Execs : Begin(e) \/ \E l \in Lines : Submit(e, l)
    \/ \E S \in SUBSET Execs, L \in SUBSET Lines : End(S, L)

ContractSpec == ContractInit /\ [][ContractNext]_cvars

=============================================================================
