--------------------------- MODULE InOrder_proofs ---------------------------
(***************************************************************************)
(* The executions of a queue start in order, a failed cell stops those     *)
(* after it, and no spinner is left: a second inductive invariant of       *)
(* CellExecutionQueue, which rests on the first.  With both,               *)
(* CellExecutionQueue is shown to implement ExecutionContract.             *)
(***************************************************************************)
EXTENDS CellExecutionQueue_proofs, CellExecutionContract

-----------------------------------------------------------------------------
(* Order, failures and spinners: the parts of a second inductive invariant. *)

\* Executions get their ticket when they are added to a queue, and tickets grow.
Tickets ==
    \A e \in Execs :
        /\ ~Created(e) => home[e] \notin QueueIds
        /\ \A q \in QueueIds : home[e] = q =>
                ticket[e] <= Cardinality({f \in Execs : home[f] = q})

\* Before any item of a queue there is every pending one that was added earlier:
\* what is added again, and what is removed, leaves that so.
Sorted ==
    \A q \in QueueIds : \A j \in 1..Len(items[q]) : \A e \in Execs :
        Pending(e) /\ home[e] = q /\ ticket[e] < ticket[items[q][j]] =>
            \E i \in 1..(j-1) : items[q][i] = e

\* The kernel has the requests of executions that were started, and what is
\* being interrupted was started.
RequestsStarted ==
    /\ ToSet(requests) \subseteq started
    /\ interrupting \subseteq started
    /\ \A e \in Execs : status[e] = "sent" => e \in started

\* A failure that must stop its queue has, or the loop has yet to look at it.
FailureKnown ==
    \A e \in CellExecs : \A q \in QueueIds :
        status[e] = "rejected" /\ CellOf[e] \notin Tolerant /\ home[e] = q =>
            failed[q] \/ (pc[q] = "run" /\ cur[q] = e)

\* A wrapper is named after the execution that was the first to use it.
OwnWrapper == \A e \in CellExecs : ~Created(e) => wrapper[e] = e

OInv ==
    /\ Tickets /\ Sorted /\ InOrder
    /\ RequestsStarted /\ FailureKnown /\ ErrorStopsCells
    /\ OwnWrapper /\ NoStuckSpinner

-----------------------------------------------------------------------------
(* What a step does, unless it adds an execution or starts one.             *)

\* Pending executions are settled at most, and a cell is rejected only while it
\* runs, by a step that leaves the queues alone.
SettlesAtMost ==
    /\ UNCHANGED <<started, home, ticket, wrapper>>
    /\ ToSet(requests') \subseteq ToSet(requests)
    /\ interrupting' \subseteq interrupting \cup started
    /\ \A e \in Execs : status'[e] # status[e] => Pending(e)
    /\ \/ UNCHANGED <<status, shown>>
       \/ Acknowledge
       \/ \E S : Settle(S, "resolved")
       \/ /\ \E S : /\ Settle(S, "rejected")
                    /\ \A e \in S \cap CellExecs : Pending(e) /\ e \in started
          /\ UNCHANGED queueVars

\* A queue stays stopped, its items are removed or added again, and when its
\* loop goes on after an item that must stop it, it does.
QueueChanges(q) ==
    /\ failed[q] => failed'[q]
    /\ \/ items'[q] = items[q]
       \/ items'[q] = <<>>
       \/ Processed(q) /\ items'[q] = Rest(q)
       \/ items'[q] = items[q] \o CodeItems(items[q])
    /\ pc[q] = "run" /\ BailOut(q) =>
         failed'[q] \/ (pc'[q] = "run" /\ cur'[q] = cur[q])

OtherStep == SettlesAtMost /\ \A q \in QueueIds : QueueChanges(q)

(* Nothing of the queues changes.                                           *)
LEMMA QueuesAlone ==
    ASSUME UNCHANGED <<items, failed, pc, cur>>
    PROVE  \A q \in QueueIds : QueueChanges(q)
  BY DEF QueueChanges

(* The queues D are stopped.                                                *)
LEMMA QueuesStopped ==
    ASSUME TypeOK, NEW D, failed' = Stopped(D), UNCHANGED <<items, pc, cur>>
    PROVE  \A q \in QueueIds : QueueChanges(q)
  BY DEF QueueChanges, Stopped

(* cancel() settles pending executions and interrupts what was started.     *)
LEMMA CancelItemsSettles ==
    ASSUME NEW T, NEW c, NEW forced, CancelItems(T, c, forced),
           \A q \in DOMAIN T : \A e \in T[q] : Created(e)
    PROVE  /\ failed' = Stopped(DOMAIN T) /\ UNCHANGED started
           /\ \E S : Settle(S, "resolved")
           /\ interrupting' \subseteq interrupting \cup started
           /\ \A e \in Execs : status'[e] # status[e] => Pending(e)
<1> DEFINE all  == UNION {T[q] : q \in DOMAIN T}
           wait == {e \in all : MustWait(e, forced)}
           now  == {e \in all : ~Settled(e)} \ wait
<1>1. /\ failed' = Stopped(DOMAIN T) /\ UNCHANGED started /\ Settle(now, "resolved")
      /\ interrupting' = interrupting \cup (wait \cap CodeExecs)
  BY DEF CancelItems
<1>2. wait \subseteq started /\ \A e \in now : Pending(e)
  BY DEF MustWait, Pending
<1> HIDE DEF now, wait
<1>3. \A e \in Execs : status'[e] # status[e] => Pending(e)
  BY <1>1, <1>2 DEF Settle
<1> QED BY <1>1, <1>2, <1>3

(* Cancelling from the side.                                                *)
LEMMA CancelsAreOther ==
    ASSUME TypeOK, IInv, Interrupt \/ WillCancel \/ CloseNotebook \/ RestartCancels
    PROVE  OtherStep
<1>1. ASSUME NEW D \in SUBSET QueueIds, NEW c, NEW forced,
             CancelItems([q \in D |-> ToSet(items[q])], c, forced),
             UNCHANGED <<items, pc, cur, birthVars, requests>>
      PROVE  OtherStep
  <2> DEFINE T == [q \in D |-> ToSet(items[q])]
  <2>1. CancelItems(T, c, forced) /\ \A q \in DOMAIN T : \A e \in T[q] : Created(e)
    BY <1>1 DEF IInv, ItemsAreAtHome
  <2> HIDE DEF T
  <2>2. SettlesAtMost /\ failed' = Stopped(DOMAIN T)
    BY <1>1, <2>1, CancelItemsSettles DEF SettlesAtMost, birthVars
  <2> QED BY <1>1, <2>2, QueuesStopped DEF OtherStep
<1>2. ASSUME NEW Q \in SUBSET QueueIds, ForceCancel(Q),
             UNCHANGED <<items, pc, cur, birthVars, requests>>
      PROVE  OtherStep
  <2> DEFINE R == {q \in Q : ~cancels[q]["forced"].call}
  <2>1. R \in SUBSET QueueIds /\ CancelItems([q \in R |-> ToSet(items[q])], "forced", TRUE)
    BY <1>2 DEF ForceCancel
  <2> HIDE DEF R
  <2> QED BY <1>1, <1>2, <2>1
<1>3. CASE Interrupt
  <2>1. {docQueue} \in SUBSET QueueIds
    BY <1>3 DEF Interrupt
  <2> QED BY <1>1, <1>3, <2>1 DEF Interrupt, kernelVars
<1>4. CASE WillCancel
  <2>1. {docQueue} \in SUBSET QueueIds
    BY <1>4 DEF WillCancel
  <2> QED BY <1>2, <1>4, <2>1 DEF WillCancel, kernelVars
<1>5. CASE CloseNotebook
  <2> DEFINE Q == {q \in QueueIds : pc[q] # "unused" /\ (~failed[q] \/ items[q] # <<>>)}
  <2>1. Q \in SUBSET QueueIds /\ ForceCancel(Q)
    BY <1>5 DEF CloseNotebook
  <2> HIDE DEF Q
  <2> QED BY <1>2, <1>5, <2>1 DEF CloseNotebook, kernelVars
<1>6. CASE RestartCancels
  <2>1. {restartQueue} \in SUBSET QueueIds
    BY <1>6 DEF RestartCancels, TypeOK
  <2> QED BY <1>2, <1>6, <2>1 DEF RestartCancels, kernelVars
<1> QED BY <1>3, <1>4, <1>5, <1>6

(* A request that is answered or forgotten leaves the others.               *)
LEMMA FewerRequests ==
    ASSUME TypeOK
    PROVE  /\ requests # <<>> => ToSet(Tail(requests)) \subseteq ToSet(requests)
                                 /\ Head(requests) \in ToSet(requests)
           /\ \A x : x = <<>> => ToSet(x) \subseteq ToSet(requests)
<1>1. requests \in Seq(ToSet(requests))
  BY ToSetType DEF TypeOK
<1>2. requests # <<>> => Tail(requests) \in Seq(ToSet(requests)) /\ Head(requests) \in ToSet(requests)
  BY <1>1, ToSetType
<1>3. requests # <<>> => ToSet(Tail(requests)) \subseteq ToSet(requests)
  BY <1>2, ToSetType
<1>4. \A x : x = <<>> => ToSet(x) \subseteq ToSet(requests)
  BY DEF ToSet
<1> QED BY <1>2, <1>3, <1>4

(* Executions settled from the side, the kernel and its restart.            *)
LEMMA SideIsOther ==
    ASSUME TypeOK, IInv, RequestsStarted,
           \/ \E e \in CodeExecs : CodeInterrupted(e) \/ CancelCode(e)
           \/ \E c \in Cells : DeleteCell(c)
           \/ KernelStep \/ Acknowledge \/ KernelDies \/ AutoRestarts
           \/ RestartAsked \/ Restarted
           \/ \E e \in Resumed, o \in {"resolved", "rejected"} : ResumedEnds(e, o)
    PROVE  OtherStep
<1>1. ASSUME UNCHANGED <<queueVars, started, birthVars>>, ToSet(requests') \subseteq ToSet(requests),
             interrupting' \subseteq interrupting \cup started,
             \/ UNCHANGED <<status, shown>>
             \/ Acknowledge
             \/ \E S : \E o \in {"resolved", "rejected"} :
                   /\ Settle(S, o)
                   /\ \A e \in S \cap Execs : Pending(e) /\ (e \in started \/ o = "resolved" \/ IsCode(e))
      PROVE  OtherStep
  <2>1. CellExecs \subseteq Execs /\ \A e \in CellExecs : ~IsCode(e)
    BY ConstantsAssumption DEF Execs, IsCode
  <2>2. CASE UNCHANGED <<status, shown>> \/ Acknowledge
    <3>1. UNCHANGED status
      BY <2>2 DEF Acknowledge
    <3>2. SettlesAtMost
      BY <1>1, <2>2, <3>1 DEF SettlesAtMost, birthVars
    <3> QED BY <1>1, <3>2, QueuesAlone DEF OtherStep, queueVars
  <2>3. ASSUME NEW S, NEW o \in {"resolved", "rejected"}, Settle(S, o),
               \A e \in S \cap Execs : Pending(e) /\ (e \in started \/ o = "resolved" \/ IsCode(e))
        PROVE  OtherStep
    <3>1. \A e \in Execs : status'[e] # status[e] => Pending(e)
      BY <2>3 DEF Settle
    <3>2. o = "rejected" => \A e \in S \cap CellExecs : Pending(e) /\ e \in started
      BY <2>1, <2>3
    <3>3. SettlesAtMost
      BY <1>1, <2>3, <3>1, <3>2 DEF SettlesAtMost, birthVars
    <3> QED BY <1>1, <3>3, QueuesAlone DEF OtherStep, queueVars
  <2> QED BY <1>1, <2>2, <2>3
<1>2. ASSUME NEW e \in Execs, e \in started, ~Settled(e) PROVE Pending(e)
  BY <1>2 DEF IInv, OnlyCurrentRuns, Pending
<1>3. CellExecs \cap CodeExecs = {} /\ CellExecs \subseteq Execs /\ CodeExecs \subseteq Execs
  BY ConstantsAssumption DEF Execs
<1>4. ASSUME NEW e \in CodeExecs, CodeInterrupted(e) PROVE OtherStep
  <2> DEFINE S == {e} \ {f \in Execs : Settled(f)}
  <2>1. /\ Settle(S, "rejected") /\ e \in started /\ interrupting' \subseteq interrupting
        /\ UNCHANGED <<queueVars, started, birthVars, requests>>
    BY <1>4 DEF CodeInterrupted, RequestsStarted, kernelVars
  <2>2. \A f \in S \cap Execs : Pending(f) /\ f \in started
    BY <1>2, <2>1
  <2> HIDE DEF S
  <2> QED BY <1>1, <2>1, <2>2
<1>5. ASSUME NEW e \in CodeExecs, CancelCode(e) PROVE OtherStep
  <2>1. /\ Pending(e) /\ interrupting' \subseteq interrupting \cup started
        /\ UNCHANGED <<queueVars, started, birthVars, requests>>
        /\ UNCHANGED <<status, shown>> \/ Settle({e}, "resolved")
    BY <1>5 DEF CancelCode, kernelVars
  <2> QED BY <1>1, <2>1
<1>6. ASSUME NEW c \in Cells, DeleteCell(c) PROVE OtherStep
  <2> DEFINE S == {e \in started \cap CellExecs : CellOf[e] = c /\ ~Settled(e)}
  <2>1. Settle(S, "resolved") /\ UNCHANGED <<queueVars, started, birthVars, requests, interrupting>>
    BY <1>6 DEF DeleteCell, kernelVars
  <2>2. \A e \in S : Pending(e)
    BY <1>2, <1>3
  <2> HIDE DEF S
  <2> QED BY <1>1, <2>1, <2>2
<1>7. CASE Begin
  BY <1>1, <1>7 DEF Begin, execVars
<1>8. CASE Acknowledge
  BY <1>1, <1>8 DEF Acknowledge, kernelVars
<1>9. ASSUME NEW o \in {"resolved", "rejected"}, Reply(o) PROVE OtherStep
  <2> DEFINE S == {Head(requests)} \ {f \in Execs : Settled(f)}
  <2>1. /\ requests # <<>> /\ requests' = Tail(requests) /\ Settle(S, o)
        /\ UNCHANGED <<queueVars, started, birthVars, interrupting>>
    BY <1>9 DEF Reply, TypeOK
  <2>2. ASSUME NEW e \in S \cap Execs PROVE Pending(e) /\ e \in started
    <3>1. e \in started /\ ~Settled(e)
      BY <2>1, FewerRequests DEF RequestsStarted
    <3> QED BY <1>2, <3>1
  <2> HIDE DEF S
  <2> QED BY <1>1, <1>9, <2>1, <2>2, FewerRequests
<1>10. ASSUME NEW e \in Resumed, NEW o \in {"resolved", "rejected"}, ResumedEnds(e, o)
       PROVE  OtherStep
  <2>1. /\ e \in Execs /\ e \in started /\ ~Settled(e) /\ Settle({e}, o)
        /\ UNCHANGED <<queueVars, started, birthVars, requests, interrupting>>
    BY <1>3, <1>10, ConstantsAssumption
       DEF ResumedEnds, RequestsStarted, Settled, kernelVars
  <2> QED BY <1>1, <1>2, <1>10, <2>1
<1>11. ASSUME FuturesRejected PROVE OtherStep
  <2>1. /\ requests' = <<>> /\ Settle(Outstanding, "rejected")
        /\ UNCHANGED <<queueVars, started, birthVars, interrupting>>
    BY <1>11 DEF FuturesRejected
  <2>2. ASSUME NEW e \in Outstanding \cap Execs PROVE Pending(e) /\ e \in started
    BY <1>2 DEF Outstanding, RequestsStarted
  <2> QED BY <1>1, <2>1, <2>2, FewerRequests
<1>12. CASE KernelDies \/ AutoRestarts \/ Restarted
  BY <1>11, <1>12 DEF KernelDies, AutoRestarts, Restarted
<1>13. CASE RestartAsked
  BY <1>1, <1>13 DEF RestartAsked, execVars, kernelVars
<1> QED BY <1>4, <1>5, <1>6, <1>7, <1>8, <1>9, <1>10, <1>12, <1>13 DEF KernelStep

(* The steps of a queue that do not start an item, and cancel() returning.  *)
LEMMA LoopIsOther ==
    ASSUME TypeOK, IInv, NEW q \in QueueIds, QueueStep(q) \/ ReturnStep(q), ~StartItem(q)
    PROVE  OtherStep
<1>1. ASSUME UNCHANGED <<started, birthVars, requests>>,
             UNCHANGED <<status, shown>> \/ \E S : Settle(S, "resolved"),
             \A e \in Execs : status'[e] # status[e] => Pending(e),
             interrupting' \subseteq interrupting \cup started,
             \A r \in QueueIds \ {q} :
                /\ items'[r] = items[r] /\ pc'[r] = pc[r] /\ cur'[r] = cur[r]
                /\ failed'[r] = failed[r],
             QueueChanges(q)
      PROVE  OtherStep
  <2>1. SettlesAtMost
    BY <1>1 DEF SettlesAtMost, birthVars
  <2>2. \A r \in QueueIds : QueueChanges(r)
    BY <1>1 DEF QueueChanges
  <2> QED BY <2>1, <2>2 DEF OtherStep
<1>2. CASE QueueReady(q) \/ QueueEnds(q) \/ SkipItem(q)
  <2>1. /\ pc[q] # "run" /\ UNCHANGED <<items, failed, started, birthVars, requests, status, shown, interrupting>>
        /\ \A r \in QueueIds \ {q} : pc'[r] = pc[r] /\ cur'[r] = cur[r]
    BY <1>2 DEF QueueReady, QueueEnds, SkipItem, execVars, kernelVars, TypeOK
  <2> QED BY <1>1, <2>1 DEF QueueChanges
<1>3. ASSUME ReturnStep(q) PROVE OtherStep
  <2>1. /\ items' = [items EXCEPT ![q] = <<>>]
        /\ UNCHANGED <<failed, pc, cur, started, birthVars, requests, status, shown, interrupting>>
    BY <1>3 DEF ReturnStep, CancelReturns, execVars, kernelVars
  <2> QED BY <1>1, <2>1 DEF QueueChanges, TypeOK
<1>4. CASE LoopCancelled(q)
  <2>1. /\ pc[q] # "run"
        /\ items' = [items EXCEPT ![q] =
                        IF pc[q] = "cancelAll" THEN <<>> ELSE @ \o CodeItems(@)]
        /\ pc' = [pc EXCEPT ![q] = "done"]
        /\ UNCHANGED <<failed, cur, started, birthVars, requests, status, shown, interrupting>>
    BY <1>4 DEF LoopCancelled, execVars, kernelVars
  <2> QED BY <1>1, <2>1 DEF QueueChanges, TypeOK
<1>5. ASSUME NEW S \in SUBSET ToSet(items[q]), NEW l, LoopCancels(q, S, l)
      PROVE  /\ UNCHANGED started /\ \E Z : Settle(Z, "resolved")
             /\ interrupting' \subseteq interrupting \cup started
             /\ \A e \in Execs : status'[e] # status[e] => Pending(e)
             /\ failed'[q]
             /\ \A r \in QueueIds \ {q} : pc'[r] = pc[r] /\ failed'[r] = failed[r]
  <2> DEFINE T == [r \in {q} |-> S]
  <2>1. /\ CancelItems(T, "loop", FALSE) /\ DOMAIN T = {q} /\ pc' = [pc EXCEPT ![q] = l]
        /\ \A r \in DOMAIN T : \A e \in T[r] : Created(e)
    BY <1>5 DEF LoopCancels, IInv, ItemsAreAtHome
  <2> HIDE DEF T
  <2>2. /\ failed' = [r \in QueueIds |-> failed[r] \/ r \in {q}]
        /\ UNCHANGED started /\ \E Z : Settle(Z, "resolved")
        /\ interrupting' \subseteq interrupting \cup started
        /\ \A e \in Execs : status'[e] # status[e] => Pending(e)
    BY <2>1, CancelItemsSettles DEF Stopped
  <2> QED BY <2>1, <2>2 DEF TypeOK
<1>6. CASE QueueSessionFails(q)
  <2>1. /\ pc[q] # "run" /\ LoopCancels(q, CellsIn(items[q]), "cancelFailed")
        /\ UNCHANGED <<items, cur, birthVars, requests>>
        /\ CellsIn(items[q]) \in SUBSET ToSet(items[q])
    BY <1>6 DEF QueueSessionFails, kernelVars, CellsIn
  <2> QED BY <1>1, <1>5, <2>1 DEF QueueChanges
<1>7. CASE FinishAndStop(q) \/ FinishAndKeepCode(q)
  <2>1. /\ Processed(q) /\ items' = [items EXCEPT ![q] = Rest(q)]
        /\ \/ LoopCancels(q, ToSet(Rest(q)), "cancelAll")
           \/ LoopCancels(q, CellsIn(Rest(q)), "cancelCells")
        /\ UNCHANGED <<cur, birthVars, requests>>
    BY <1>7 DEF FinishAndStop, FinishAndKeepCode, kernelVars
  <2>2. items'[q] = Rest(q) /\ \A r \in QueueIds \ {q} : items'[r] = items[r]
    BY <2>1 DEF TypeOK
  <2>3. /\ ToSet(Rest(q)) \in SUBSET ToSet(items[q])
        /\ CellsIn(Rest(q)) \in SUBSET ToSet(items[q])
    BY <2>1, RestFacts DEF CellsIn
  <2> QED BY <1>1, <1>5, <2>1, <2>2, <2>3 DEF QueueChanges
<1>8. ASSUME NEW s, NextOrDead(q, s), ToSet(s) \in SUBSET ToSet(items[q])
      PROVE  /\ UNCHANGED started
             /\ interrupting' \subseteq interrupting \cup started
             /\ \A e \in Execs : status'[e] # status[e] => Pending(e)
             /\ UNCHANGED <<status, shown>> \/ \E S : Settle(S, "resolved")
             /\ failed[q] => failed'[q]
             /\ BailOut(q) => failed'[q]
             /\ \A r \in QueueIds \ {q} : pc'[r] = pc[r] /\ failed'[r] = failed[r]
  <2>1. CASE q \in dead
    BY <1>5, <1>8, <2>1 DEF NextOrDead
  <2>2. CASE q \notin dead
    BY <1>8, <2>2 DEF NextOrDead, execVars, TypeOK
  <2> QED BY <2>1, <2>2
<1>9. CASE FinishAndContinue(q)
  <2>1. /\ Processed(q) /\ items' = [items EXCEPT ![q] = Rest(q)] /\ NextOrDead(q, Rest(q))
        /\ UNCHANGED <<cur, birthVars, requests>>
    BY <1>9 DEF FinishAndContinue, kernelVars
  <2>2. items'[q] = Rest(q) /\ \A r \in QueueIds \ {q} : items'[r] = items[r]
    BY <2>1 DEF TypeOK
  <2>3. ToSet(Rest(q)) \in SUBSET ToSet(items[q])
    BY <2>1, RestFacts
  <2> QED BY <1>1, <1>8, <2>1, <2>2, <2>3 DEF QueueChanges
<1>10. CASE CellsCancelled(q)
  <2> DEFINE s == items[q] \o CodeItems(items[q])
  <2>1. /\ pc[q] # "run" /\ items' = [items EXCEPT ![q] = s] /\ NextOrDead(q, s)
        /\ UNCHANGED <<cur, birthVars, requests>>
    BY <1>10 DEF CellsCancelled, kernelVars
  <2>2. items'[q] = s /\ \A r \in QueueIds \ {q} : items'[r] = items[r]
    BY <2>1 DEF TypeOK
  <2>3. ToSet(s) \in SUBSET ToSet(items[q])
    BY KeptCode
  <2> QED BY <1>1, <1>8, <2>1, <2>2, <2>3 DEF QueueChanges
<1> QED BY <1>2, <1>3, <1>4, <1>6, <1>7, <1>9, <1>10 DEF QueueStep, SessionStep, LoopStep

(* Every step adds an execution, starts an item, or is one of the others.   *)
LEMMA KindsOfSteps ==
    ASSUME TypeOK, IInv, RequestsStarted, [Next]_vars
    PROVE  \/ \E q \in QueueIds, e \in Execs : QueueCell(e, q) \/ QueueCode(e, q)
           \/ \E q \in QueueIds : StartItem(q)
           \/ OtherStep
<1>1. CASE UNCHANGED vars
  <2>1. UNCHANGED <<items, failed, pc, cur, status, shown, started, home, ticket, wrapper,
                    requests, interrupting>>
    BY <1>1 DEF vars, queueVars, execVars, birthVars, kernelVars
  <2> QED BY <2>1, QueuesAlone DEF OtherStep, SettlesAtMost
<1>2. CASE Requests
  <2>1. CellExecs \subseteq Execs /\ CodeExecs \subseteq Execs
    BY DEF Execs
  <2> QED BY <1>2, <2>1, CancelsAreOther, SideIsOther DEF Requests
<1>3. CASE \E q \in QueueIds : QueueStep(q) \/ ReturnStep(q)
  BY <1>3, LoopIsOther
<1> QED BY <1>1, <1>2, <1>3, SideIsOther DEF Next

-----------------------------------------------------------------------------
(* The parts of the invariant, one kind of step after the other.            *)

(* Where pending executions stay what they were, tickets stay good.         *)
LEMMA TicketsStay ==
    ASSUME Tickets, OnlySettles, UNCHANGED <<home, ticket>>
    PROVE  Tickets'
  BY DEF Tickets, OnlySettles, Created

(* A queue whose items are removed or added again remains sorted.           *)
LEMMA OtherKeepsOrder ==
    ASSUME TypeOK, IInv, Tickets, Sorted, InOrder, OtherStep, OnlySettles
    PROVE  (Tickets /\ Sorted /\ InOrder)'
<1>1. UNCHANGED <<started, home, ticket>>
  BY DEF OtherStep, SettlesAtMost
<1>2. \A e \in Execs : Pending(e)' => Pending(e)
  BY OnlySettlesFacts
<1>3. ASSUME NEW q \in QueueIds, NEW j \in 1..Len(items'[q]), NEW e \in Execs,
             Pending(e), home[e] = q, ticket[e] < ticket[items'[q][j]]
      PROVE  \E i \in 1..(j-1) : items'[q][i] = e
  <2>1. \A k \in 1..Len(items[q]) : ticket[e] < ticket[items[q][k]] =>
            \E i \in 1..(k-1) : items[q][i] = e
    BY <1>3 DEF Sorted
  <2>2. items[q] \in Seq(Execs)
    BY DEF TypeOK
  <2>3. CASE items'[q] = items[q]
    BY <1>3, <2>1, <2>3
  <2>4. CASE items'[q] = <<>>
    BY <1>3, <2>4
  <2>5. CASE Processed(q) /\ items'[q] = Rest(q)
    <3>1. items'[q] = RemoveFirst(items[q], cur[q])
      BY <2>5 DEF Rest
    <3>2. PICK k \in 1..Len(items[q]) :
            /\ items'[q][j] = items[q][k]
            /\ \A i \in 1..(k-1) : items[q][i] # cur[q] =>
                 \E h \in 1..(j-1) : items'[q][h] = items[q][i]
      <4>1. j \in 1..Len(RemoveFirst(items[q], cur[q]))
        BY <1>3, <3>1
      <4>2. KeepsBefore(items'[q], j, items[q], cur[q])
        BY <2>2, <3>1, <4>1, RemoveFirstOrder
      <4> QED BY <4>2 DEF KeepsBefore
    <3>3. PICK i \in 1..(k-1) : items[q][i] = e
      BY <1>3, <2>1, <3>2
    <3>4. e # cur[q]
      BY <1>3, <2>5 DEF Processed, Pending, IInv, CancelsAwaitTheRest
    <3> QED BY <3>2, <3>3, <3>4
  <2>6. CASE items'[q] = items[q] \o CodeItems(items[q])
    <3> DEFINE u == items[q] \o CodeItems(items[q])
    <3>1. u \in Seq(Execs) /\ ToSet(u) = ToSet(items[q])
      BY KeptCode
    <3>2. \A i \in 1..Len(items[q]) : u[i] = items[q][i]
      <4>1. CodeItems(items[q]) \in Seq(ToSet(items[q]) \cap CodeExecs)
        BY <2>2, CodeItemsType
      <4> DEFINE k == CodeItems(items[q])
      <4> HIDE DEF k
      <4>2. k \in Seq(Execs)
        BY <4>1, SeqWiden, ItemsType DEF k
      <4>3. \A i \in 1..Len(items[q]) : (items[q] \o k)[i] = items[q][i]
        BY <2>2, <4>2
      <4> QED BY <4>3 DEF k
    <3> HIDE DEF u
    <3>3. items'[q] = u
      BY <2>6 DEF u
    <3>4. u[j] \in ToSet(u)
      <4>1. j \in 1..Len(u)
        BY <1>3, <3>3
      <4> QED BY <3>1, <4>1 DEF ToSet
    <3>5. PICK k \in 1..Len(items[q]) : items[q][k] = u[j]
      <4>1. u[j] \in ToSet(items[q])
        BY <3>1, <3>4
      <4> QED BY <2>2, <4>1 DEF ToSet
    <3>6. CASE j <= Len(items[q])
      <4>1. j \in 1..Len(items[q]) /\ items[q][j] = u[j]
        BY <1>3, <2>2, <3>2, <3>6
      <4>2. PICK i \in 1..(j-1) : items[q][i] = e
        BY <1>3, <2>1, <3>3, <4>1
      <4>3. i \in 1..Len(items[q])
        BY <2>2, <4>1
      <4> QED BY <3>2, <3>3, <4>2, <4>3
    <3>7. CASE j > Len(items[q])
      <4>1. PICK i \in 1..(k-1) : items[q][i] = e
        BY <1>3, <2>1, <3>3, <3>5
      <4>2. i \in 1..Len(items[q]) /\ i \in 1..(j-1)
        BY <1>3, <2>2, <3>7
      <4> QED BY <3>2, <3>3, <4>1, <4>2
    <3> QED BY <1>3, <2>2, <3>6, <3>7
  <2> QED BY <2>3, <2>4, <2>5, <2>6 DEF OtherStep, QueueChanges
<1>4. Sorted'
  BY <1>1, <1>2, <1>3 DEF Sorted
<1>5. InOrder'
  BY <1>1, <1>2 DEF InOrder
<1> QED BY <1>1, <1>4, <1>5, TicketsStay

(* The other steps settle executions at most.                               *)
LEMMA OtherSettles ==
    ASSUME OtherStep
    PROVE  OnlySettles
<1>1. CASE UNCHANGED status
  BY <1>1 DEF OnlySettles
<1>2. CASE Acknowledge
  BY <1>1, <1>2 DEF Acknowledge
<1> QED BY <1>1, <1>2, SettleOnlySettles DEF OtherStep, SettlesAtMost

(* Failures are known, and what they stop is not started.                   *)
LEMMA OtherKeepsFailures ==
    ASSUME TypeOK, IInv, InOrder, RequestsStarted, FailureKnown, ErrorStopsCells,
           OtherStep, OnlySettles
    PROVE  (RequestsStarted /\ FailureKnown /\ ErrorStopsCells)'
<1>1. /\ UNCHANGED <<started, home, ticket>> /\ ToSet(requests') \subseteq ToSet(requests)
      /\ interrupting' \subseteq interrupting \cup started
      /\ CellExecs \subseteq Execs
  BY DEF OtherStep, SettlesAtMost, Execs
<1>2. RequestsStarted'
  BY <1>1 DEF RequestsStarted, OnlySettles
<1>3. ASSUME NEW e \in CellExecs, status'[e] = "rejected", status[e] # "rejected"
      PROVE  Pending(e) /\ e \in started /\ UNCHANGED queueVars
  <2>1. ASSUME NEW S, NEW o \in {"resolved", "rejected"}, Settle(S, o)
        PROVE  e \in S /\ o = "rejected"
    BY <1>1, <1>3, <2>1 DEF Settle
  <2>2. ~Acknowledge /\ ~UNCHANGED status
    BY <1>3 DEF Acknowledge
  <2>3. PICK S : /\ Settle(S, "rejected")
                 /\ \A f \in S \cap CellExecs : Pending(f) /\ f \in started
                 /\ UNCHANGED queueVars
    BY <2>1, <2>2 DEF OtherStep, SettlesAtMost
  <2> QED BY <2>1, <2>3
<1>4. FailureKnown'
  <2> SUFFICES ASSUME NEW e \in CellExecs, NEW q \in QueueIds, status'[e] = "rejected",
                      CellOf[e] \notin Tolerant, home[e] = q
               PROVE  failed'[q] \/ (pc'[q] = "run" /\ cur'[q] = e)
    BY <1>1 DEF FailureKnown
  <2>1. CASE status[e] = "rejected"
    <3>1. failed[q] \/ (pc[q] = "run" /\ cur[q] = e)
      BY <2>1 DEF FailureKnown
    <3>2. pc[q] = "run" /\ cur[q] = e => BailOut(q)
      BY <2>1 DEF BailOut
    <3> QED BY <3>1, <3>2 DEF OtherStep, QueueChanges
  <2>2. CASE status[e] # "rejected"
    <3>1. pc[q] = "run" /\ cur[q] = e
      BY <1>1, <1>3, <2>2 DEF IInv, OnlyCurrentRuns
    <3> QED BY <1>3, <2>2, <3>1 DEF queueVars
  <2> QED BY <2>1, <2>2
<1>5. ErrorStopsCells'
  <2> SUFFICES ASSUME NEW e \in CellExecs, NEW f \in CellExecs, status'[e] = "rejected",
                      CellOf[e] \notin Tolerant, home[e] = home[f], ticket[e] < ticket[f],
                      f \in started
               PROVE  FALSE
    BY <1>1 DEF ErrorStopsCells
  <2>1. CASE status[e] = "rejected"
    BY <2>1 DEF ErrorStopsCells
  <2>2. CASE status[e] # "rejected"
    BY <1>1, <1>3, <2>2 DEF InOrder
  <2> QED BY <2>1, <2>2
<1> QED BY <1>2, <1>4, <1>5

(* What is settled has its wrapper ended; what is acknowledged is pending.  *)
LEMMA SettleKeepsSpinners ==
    ASSUME TypeOK, NoStuckSpinner, NEW S, NEW o \in {"resolved", "rejected"}, Settle(S, o),
           UNCHANGED wrapper
    PROVE  NoStuckSpinner'
<1> SUFFICES ASSUME NEW w \in CellExecs, shown'[w] \in {"pending", "running"}
             PROVE  \E e \in CellExecs : wrapper[e] = w /\ Pending(e)'
  BY DEF NoStuckSpinner
<1>1. shown'[w] = shown[w] /\ ~ \E e \in S \cap CellExecs : wrapper[e] = w
  BY DEF Settle, Ended
<1>2. PICK e \in CellExecs : wrapper[e] = w /\ Pending(e)
  BY <1>1 DEF NoStuckSpinner
<1>3. status'[e] = status[e]
  BY <1>1, <1>2 DEF Settle, Execs
<1> QED BY <1>2, <1>3 DEF Pending, Created, Settled

(* Spinners, when no execution is added or started.                         *)
LEMMA OtherKeepsSpinners ==
    ASSUME TypeOK, OwnWrapper, NoStuckSpinner, OtherStep, OnlySettles
    PROVE  (OwnWrapper /\ NoStuckSpinner)'
<1>1. UNCHANGED wrapper /\ CellExecs \subseteq Execs
  BY DEF OtherStep, SettlesAtMost, Execs
<1>2. OwnWrapper'
  <2>1. \A e \in CellExecs : Created(e) => Created(e)'
    BY <1>1, OnlySettlesFacts
  <2> SUFFICES ASSUME NEW e \in CellExecs, ~Created(e)' PROVE wrapper'[e] = e
    BY DEF OwnWrapper
  <2> QED BY <1>1, <2>1 DEF OwnWrapper
<1>3. CASE UNCHANGED <<status, shown>>
  BY <1>1, <1>2, <1>3 DEF NoStuckSpinner, Pending, Created, Settled
<1>4. CASE Acknowledge
  <2>1. PICK x \in CellExecs : shown[x] = "pending" /\ shown' = [shown EXCEPT ![x] = "running"]
    <3>1. requests # <<>> /\ requests \in Seq(Execs) /\ ~IsCode(Head(requests))
      BY <1>4 DEF Acknowledge, TypeOK
    <3>2. Head(requests) \in CellExecs
      BY <3>1, ToSetType DEF IsCode, Execs
    <3> QED BY <1>4, <3>2 DEF Acknowledge, TypeOK
  <2>2. UNCHANGED status
    BY <1>4 DEF Acknowledge
  <2>3. \A w \in CellExecs : shown'[w] \in {"pending", "running"} =>
                                 shown[w] \in {"pending", "running"}
    BY <2>1 DEF TypeOK
  <2>4. \A e \in CellExecs : Pending(e) => Pending(e)'
    BY <2>2 DEF Pending, Created, Settled
  <2> SUFFICES ASSUME NEW w \in CellExecs, shown'[w] \in {"pending", "running"}
               PROVE  \E e \in CellExecs : wrapper'[e] = w /\ Pending(e)'
    BY <1>2 DEF NoStuckSpinner
  <2>5. PICK e \in CellExecs : wrapper[e] = w /\ Pending(e)
    BY <2>3 DEF NoStuckSpinner
  <2> QED BY <1>1, <2>4, <2>5
<1> QED BY <1>1, <1>2, <1>3, <1>4, SettleKeepsSpinners DEF OtherStep, SettlesAtMost

(* Adding an execution: its ticket is greater than any in its queue.        *)
LEMMA AddKeepsOrder ==
    ASSUME TypeOK, IInv, OInv, NEW q \in QueueIds, NEW e \in Execs,
           QueueCell(e, q) \/ QueueCode(e, q)
    PROVE  (Tickets /\ Sorted /\ InOrder)'
<1>1. Push(e, q) /\ status[e] = "new"
  BY DEF QueueCell, QueueCode
<1> DEFINE H(r) == {f \in Execs : home[f] = r}
<1>2. /\ items' = [items EXCEPT ![q] = Append(@, e)]
      /\ status' = [status EXCEPT ![e] = "queued"]
      /\ home' = [home EXCEPT ![e] = q]
      /\ ticket' = [ticket EXCEPT ![e] = 1 + Cardinality(H(q))]
      /\ UNCHANGED started
  BY <1>1 DEF Push
<1>3. /\ \A f \in Execs : f # e => /\ status'[f] = status[f] /\ home'[f] = home[f]
                                   /\ ticket'[f] = ticket[f]
      /\ home'[e] = q /\ ticket'[e] = 1 + Cardinality(H(q)) /\ status'[e] = "queued"
      /\ \A r \in QueueIds \ {q} : items'[r] = items[r]
      /\ items'[q] = Append(items[q], e)
  BY <1>2 DEF TypeOK
<1>4. \A r \in QueueIds : IsFiniteSet(H(r)) /\ Cardinality(H(r)) \in Nat
  <2>1. IsFiniteSet(Execs)
    BY ConstantsAssumption, FS_Union DEF Execs
  <2> QED BY <2>1, FS_Subset, FS_CardinalityType
<1>5. e \notin H(q) /\ home[e] \notin QueueIds
  BY <1>1 DEF OInv, Tickets, Created
<1>6. \A f \in Execs, r \in QueueIds : home[f] = r => ticket[f] \in Nat /\ ticket[f] <= Cardinality(H(r))
  BY DEF OInv, Tickets, TypeOK
<1>7. Tickets'
  <2>1. \A r \in QueueIds \ {q} : {f \in Execs : home'[f] = r} = H(r)
    BY <1>3, <1>5
  <2>2. {f \in Execs : home'[f] = q} = H(q) \cup {e}
    BY <1>3
  <2>3. Cardinality(H(q) \cup {e}) = Cardinality(H(q)) + 1
    <3> HIDE DEF H
    <3> QED BY <1>4, <1>5, FS_AddElement
  <2>4. ASSUME NEW f \in Execs, NEW r \in QueueIds, home'[f] = r
        PROVE  ticket'[f] <= Cardinality({g \in Execs : home'[g] = r})
    <3>1. CASE f = e
      <4>1. r = q /\ ticket'[f] = 1 + Cardinality(H(q))
        BY <1>3, <2>4, <3>1
      <4>2. {g \in Execs : home'[g] = r} = H(q) \cup {e}
        BY <2>2, <4>1
      <4>3. Cardinality({g \in Execs : home'[g] = r}) = Cardinality(H(q) \cup {e})
        BY <4>2
      <4>4. Cardinality(H(q)) \in Nat
        BY <1>4
      <4> HIDE DEF H
      <4> QED BY <2>3, <4>1, <4>3, <4>4
    <3>2. CASE f # e
      <4>1. home[f] = r /\ ticket'[f] = ticket[f] /\ ticket[f] \in Nat
            /\ ticket[f] <= Cardinality(H(r))
        BY <1>3, <1>6, <2>4, <3>2
      <4>2. CASE r = q
        BY <1>4, <2>2, <2>3, <4>1, <4>2
      <4>3. CASE r # q
        BY <2>1, <4>1, <4>3
      <4> QED BY <4>2, <4>3
    <3> QED BY <3>1, <3>2
  <2>5. ASSUME NEW f \in Execs, status'[f] = "new" PROVE home'[f] \notin QueueIds
    BY <1>3, <2>5 DEF OInv, Tickets, Created
  <2> QED BY <2>4, <2>5 DEF Tickets, Created
<1>8. ASSUME NEW f \in Execs, f # e PROVE Pending(f)' <=> Pending(f)
  BY <1>3, <1>8 DEF Pending, Created, Settled
<1>9. \A r \in QueueIds : items[r] \in Seq(Execs)
  BY DEF TypeOK
<1>10. ASSUME NEW r \in QueueIds, NEW f \in ToSet(items[r])
       PROVE  f \in Execs /\ f # e /\ home[f] = r
  <2>1. f \in Execs /\ home[f] = r
    BY <1>9, ToSetType DEF IInv, ItemsAreAtHome
  <2> QED BY <1>5, <2>1
<1>11. \A r \in QueueIds : \A j \in 1..Len(items[r]) : items[r][j] \in ToSet(items[r])
  BY <1>9 DEF ToSet
<1>12. Sorted'
  <2> SUFFICES ASSUME NEW r \in QueueIds, NEW j \in 1..Len(items'[r]), NEW f \in Execs,
                      Pending(f)', home'[f] = r, ticket'[f] < ticket'[items'[r][j]]
               PROVE  \E i \in 1..(j-1) : items'[r][i] = f
    BY DEF Sorted
  <2>1. CASE f = e
    <3>1. r = q
      BY <1>3, <2>1
    <3>2. items'[q][j] = e \/ items'[q][j] \in ToSet(items[q])
      BY <1>3, <1>9, <1>11, <3>1
    <3>3. CASE items'[q][j] = e
      <4>1. ticket'[e] < ticket'[e]
        BY <2>1, <3>1, <3>3
      <4>2. ticket'[e] \in Nat
        <5> HIDE DEF H
        <5> QED BY <1>3, <1>4
      <4> QED BY <4>1, <4>2
    <3>4. CASE items'[q][j] \in ToSet(items[q])
      <4>1. /\ ticket'[items'[q][j]] = ticket[items'[q][j]]
            /\ ticket[items'[q][j]] \in Nat
            /\ ticket[items'[q][j]] <= Cardinality(H(q))
        BY <1>3, <1>6, <1>10, <3>4
      <4> HIDE DEF H
      <4> QED BY <1>3, <1>4, <2>1, <3>1, <4>1
    <3> QED BY <3>2, <3>3, <3>4
  <2>2. CASE f # e
    <3>1. Pending(f) /\ home[f] = r /\ ticket'[f] = ticket[f]
      BY <1>3, <1>8, <2>2
    <3>2. \A i \in 1..Len(items[r]) : items'[r][i] = items[r][i]
      BY <1>3, <1>9
    <3>3. CASE j \in 1..Len(items[r])
      <4>1. items[r][j] \in ToSet(items[r]) /\ items'[r][j] = items[r][j]
        BY <1>11, <3>2, <3>3
      <4>2. ticket[f] < ticket[items[r][j]]
        BY <1>3, <1>10, <3>1, <4>1
      <4>3. PICK i \in 1..(j-1) : items[r][i] = f
        BY <3>1, <3>3, <4>2 DEF OInv, Sorted
      <4>4. i \in 1..Len(items[r])
        BY <1>9, <3>3
      <4> QED BY <3>2, <4>3, <4>4
    <3>4. CASE j \notin 1..Len(items[r])
      <4>1. f \in ToSet(items[r])
        BY <3>1 DEF IInv, NothingLost
      <4>2. PICK i \in 1..Len(items[r]) : items[r][i] = f
        BY <1>9, <4>1 DEF ToSet
      <4>3. i \in 1..(j-1)
        BY <1>9, <3>4
      <4> QED BY <3>2, <4>2, <4>3
    <3> QED BY <3>3, <3>4
  <2> QED BY <2>1, <2>2
<1>13. InOrder'
  <2> SUFFICES ASSUME NEW f \in Execs, NEW g \in Execs, home'[f] = home'[g],
                      ticket'[f] < ticket'[g], g \in started, Pending(f)'
               PROVE  FALSE
    BY <1>2 DEF InOrder
  <2>1. g # e
    BY <1>1 DEF IInv, OnlyCurrentRuns, Created
  <2>2. home'[g] = home[g] /\ ticket'[g] = ticket[g]
    BY <1>3, <2>1
  <2>3. CASE f = e
    <3>1. home[g] = q /\ ticket[g] \in Nat /\ ticket[g] <= Cardinality(H(q))
      BY <1>3, <1>6, <2>2, <2>3
    <3> HIDE DEF H
    <3> QED BY <1>3, <1>4, <2>2, <2>3, <3>1
  <2>4. CASE f # e
    BY <1>3, <1>8, <2>2, <2>4 DEF OInv, InOrder
  <2> QED BY <2>3, <2>4
<1> QED BY <1>7, <1>12, <1>13

(* Adding an execution: it has not failed, and its wrapper is its own or    *)
(* that of a pending one.                                                   *)
LEMMA AddKeepsOthers ==
    ASSUME TypeOK, IInv, OInv, NEW q \in QueueIds, NEW e \in Execs,
           QueueCell(e, q) \/ QueueCode(e, q)
    PROVE  (RequestsStarted /\ FailureKnown /\ ErrorStopsCells /\ OwnWrapper /\ NoStuckSpinner)'
<1>1. Push(e, q) /\ status[e] = "new" /\ CellExecs \subseteq Execs /\ CellExecs \cap CodeExecs = {}
  BY ConstantsAssumption DEF QueueCell, QueueCode, Execs
<1>2. /\ pc' = [pc EXCEPT ![q] = IF @ = "unused" THEN "session" ELSE @]
      /\ status' = [status EXCEPT ![e] = "queued"]
      /\ home' = [home EXCEPT ![e] = q]
      /\ ticket' = [ticket EXCEPT ![e] = 1 + Cardinality({f \in Execs : home[f] = q})]
      /\ UNCHANGED <<started, failed, cur, requests, interrupting>>
  BY <1>1 DEF Push, kernelVars
<1>3. /\ \A f \in Execs : f # e => /\ status'[f] = status[f] /\ home'[f] = home[f]
                                   /\ ticket'[f] = ticket[f]
      /\ status'[e] = "queued"
      /\ \A r \in QueueIds : pc[r] = "run" => pc'[r] = "run"
  BY <1>2 DEF TypeOK
<1>4. e \notin started
  BY <1>1 DEF IInv, OnlyCurrentRuns, Created
<1>5. RequestsStarted'
  BY <1>2, <1>3 DEF OInv, RequestsStarted
<1>6. FailureKnown'
  <2> SUFFICES ASSUME NEW f \in CellExecs, NEW r \in QueueIds, status'[f] = "rejected",
                      CellOf[f] \notin Tolerant, home'[f] = r
               PROVE  failed[r] \/ (pc'[r] = "run" /\ cur[r] = f)
    BY <1>2 DEF FailureKnown
  <2>1. status[f] = "rejected" /\ home[f] = r
    BY <1>1, <1>3
  <2> QED BY <1>3, <2>1 DEF OInv, FailureKnown
<1>7. ErrorStopsCells'
  <2> SUFFICES ASSUME NEW f \in CellExecs, NEW g \in CellExecs, status'[f] = "rejected",
                      CellOf[f] \notin Tolerant, home'[f] = home'[g],
                      ticket'[f] < ticket'[g], g \in started
               PROVE  FALSE
    BY <1>2 DEF ErrorStopsCells
  <2>1. f # e /\ g # e /\ f \in Execs /\ g \in Execs
    BY <1>1, <1>3, <1>4
  <2> QED BY <1>3, <2>1 DEF OInv, ErrorStopsCells
<1>8. CASE QueueCode(e, q)
  <2>1. UNCHANGED <<wrapper, shown>> /\ \A f \in CellExecs : status'[f] = status[f]
    BY <1>1, <1>3, <1>8 DEF QueueCode, IsCode
  <2>2. OwnWrapper' /\ NoStuckSpinner'
    BY <2>1 DEF OInv, OwnWrapper, NoStuckSpinner, Pending, Created, Settled
  <2> QED BY <1>5, <1>6, <1>7, <2>2
<1>9. CASE QueueCell(e, q)
  <2>1. e \in CellExecs /\ UseWrapper(e) /\ wrapper[e] = e
    BY <1>1, <1>9 DEF QueueCell, OInv, OwnWrapper, Created
  <2>2. /\ \A f \in CellExecs : f # e => wrapper'[f] = wrapper[f]
        /\ \A w \in CellExecs : shown'[w] # shown[w] => w = e /\ wrapper'[e] = e
    BY <2>1 DEF UseWrapper, TypeOK
  <2>3. \A f \in CellExecs : f # e => status'[f] = status[f]
    BY <1>1, <1>3
  <2>4. OwnWrapper'
    BY <1>3, <2>2, <2>3 DEF OInv, OwnWrapper, Created
  <2>5. Pending(e)' /\ ~Pending(e)
    BY <1>1, <1>3 DEF Pending, Created, Settled
  <2>6. NoStuckSpinner'
    <3> SUFFICES ASSUME NEW w \in CellExecs, shown'[w] \in {"pending", "running"}
                 PROVE  \E f \in CellExecs : wrapper'[f] = w /\ Pending(f)'
      BY DEF NoStuckSpinner
    <3>1. CASE shown'[w] # shown[w]
      BY <2>1, <2>2, <2>5, <3>1
    <3>2. CASE shown'[w] = shown[w]
      <4>1. PICK f \in CellExecs : wrapper[f] = w /\ Pending(f)
        BY <3>2 DEF OInv, NoStuckSpinner
      <4>2. f # e
        BY <2>5, <4>1
      <4> QED BY <2>2, <2>3, <4>1, <4>2 DEF Pending, Created, Settled
    <3> QED BY <3>1, <3>2
  <2> QED BY <1>5, <1>6, <1>7, <2>4, <2>6
<1> QED BY <1>8, <1>9

(* The loop starts the first item: nothing pending was added before it, and *)
(* if it is a cell, nothing failed before it.                               *)
LEMMA StartKeepsAll ==
    ASSUME TypeOK, IInv, OInv, NEW q \in QueueIds, StartItem(q)
    PROVE  OInv'
<1>0. PICK e \in Execs : e = Head(items[q])
  BY ItemsType DEF StartItem
<1>1. /\ items[q] # <<>> /\ items[q] \in Seq(Execs) /\ pc[q] = "next" /\ MayStart(q, e)
      /\ pc' = [pc EXCEPT ![q] = "run"] /\ cur' = [cur EXCEPT ![q] = e]
      /\ UNCHANGED <<items, failed, home, ticket, wrapper, interrupting>>
  BY <1>0 DEF StartItem, TypeOK, birthVars
<1>2. /\ 1 \in 1..Len(items[q]) /\ items[q][1] = e /\ home[e] = q /\ Created(e)
  <2>1. 1 \in 1..Len(items[q]) /\ items[q][1] = e
    BY <1>0, <1>1
  <2>2. e \in ToSet(items[q])
    BY <1>1, <2>1 DEF ToSet
  <2> QED BY <2>1, <2>2 DEF IInv, ItemsAreAtHome
<1>3. /\ started \subseteq started' /\ started' \subseteq started \cup {e}
      /\ \A f \in Execs : f # e => status'[f] = status[f]
      /\ status'[e] \in {"rejected", "sent"} =>
            status'[e] = status[e] \/ (Pending(e) /\ (status'[e] = "sent" => e \in started'))
      /\ Created(e)' /\ (Settled(e) => Settled(e)')
      /\ requests' = requests \/ (requests' = Append(requests, e) /\ e \in started')
  <2>1. \/ StartNothing(e)
        \/ ~Settled(e) /\ StartResumed(e) /\ UNCHANGED requests
        \/ ~Settled(e) /\ (StartAtOnce(e, "rejected") \/ StartAtOnce(e, "resolved"))
        \/ ~Settled(e) /\ StartRequest(e)
    BY <1>0 DEF StartItem, StartResumed
  <2>2. Settled(e) \/ Pending(e)
    BY <1>2 DEF Pending
  <2>3. CASE StartNothing(e) /\ UNCHANGED status
    BY <1>2, <2>3 DEF StartNothing, Created, Settled
  <2>4. ASSUME NEW o \in {"resolved", "rejected"}, Settle({e}, o)
        PROVE  /\ \A f \in Execs : f # e => status'[f] = status[f]
               /\ status'[e] = o
    BY <2>4 DEF Settle
  <2>5. CASE StartNothing(e) /\ Settle({e}, "resolved")
    BY <2>4, <2>5 DEF StartNothing, Created, Settled
  <2>6. CASE ~Settled(e) /\ (StartAtOnce(e, "rejected") \/ StartAtOnce(e, "resolved"))
    <3>1. PICK o \in {"resolved", "rejected"} : StartAtOnce(e, o)
      BY <2>6
    <3>2. /\ status'[e] = o /\ \A f \in Execs : f # e => status'[f] = status[f]
          /\ UNCHANGED requests /\ started' \in {started, started \cup {e}}
      BY <2>4, <3>1 DEF StartAtOnce
    <3> QED BY <2>2, <2>6, <3>2 DEF Created, Settled
  <2>7. CASE ~Settled(e) /\ status' = [status EXCEPT ![e] = "sent"] /\ started' = started \cup {e}
             /\ (requests' = requests \/ requests' = Append(requests, e))
    <3>1. status'[e] = "sent" /\ \A f \in Execs : f # e => status'[f] = status[f]
      BY <2>7 DEF TypeOK
    <3> QED BY <2>2, <2>7, <3>1 DEF Created, Settled
  <2> QED BY <2>1, <2>3, <2>5, <2>6, <2>7 DEF StartNothing, StartResumed, StartRequest
<1>4. \A f \in Execs : /\ Pending(f)' => Pending(f)
                       /\ Created(f) <=> Created(f)'
  BY <1>2, <1>3 DEF Pending, Created, Settled
<1>5. ASSUME NEW f \in Execs, Pending(f), home[f] = q
      PROVE  ~(ticket[f] < ticket[e])
  <2>1. ~ \E i \in 1..(1-1) : items[q][i] = f
    OBVIOUS
  <2> QED BY <1>2, <1>5, <2>1 DEF OInv, Sorted
<1>6. Tickets'
  BY <1>1, <1>4 DEF OInv, Tickets
<1>7. Sorted'
  BY <1>1, <1>4 DEF OInv, Sorted
<1>8. InOrder'
  <2> SUFFICES ASSUME NEW f \in Execs, NEW g \in Execs, home[f] = home[g],
                      ticket[f] < ticket[g], g \in started', Pending(f)'
               PROVE  FALSE
    BY <1>1 DEF InOrder
  <2>1. CASE g \in started
    BY <1>4, <2>1 DEF OInv, InOrder
  <2>2. CASE g = e
    BY <1>2, <1>4, <1>5, <2>2
  <2> QED BY <1>3, <2>1, <2>2
<1>9. RequestsStarted'
  <2>1. ToSet(requests') \subseteq started'
    <3>1. requests \in Seq(Execs) /\ ToSet(requests) \subseteq started
      BY DEF TypeOK, OInv, RequestsStarted
    <3>2. ToSet(Append(requests, e)) = ToSet(requests) \cup {e}
      BY <3>1, ToSetAppend
    <3> QED BY <1>3, <3>1, <3>2
  <2>2. ASSUME NEW f \in Execs, status'[f] = "sent" PROVE f \in started'
    BY <1>3, <2>2 DEF OInv, RequestsStarted
  <2> QED BY <1>1, <1>3, <2>1, <2>2 DEF OInv, RequestsStarted
<1>10. CellExecs \subseteq Execs /\ CellExecs \cap CodeExecs = {}
  BY ConstantsAssumption DEF Execs
<1>11. FailureKnown'
  <2> SUFFICES ASSUME NEW f \in CellExecs, NEW r \in QueueIds, status'[f] = "rejected",
                      CellOf[f] \notin Tolerant, home[f] = r
               PROVE  failed[r] \/ (pc'[r] = "run" /\ cur'[r] = f)
    BY <1>1 DEF FailureKnown
  <2>1. pc'[q] = "run" /\ cur'[q] = e /\ \A p \in QueueIds \ {q} : pc'[p] = pc[p] /\ cur'[p] = cur[p]
    BY <1>1 DEF TypeOK
  <2>2. CASE f = e
    BY <1>2, <2>1, <2>2
  <2>3. CASE f # e
    <3>1. failed[r] \/ (pc[r] = "run" /\ cur[r] = f)
      BY <1>3, <1>10, <2>3 DEF OInv, FailureKnown
    <3> QED BY <1>1, <2>1, <3>1
  <2> QED BY <2>2, <2>3
<1>12. ErrorStopsCells'
  <2> SUFFICES ASSUME NEW f \in CellExecs, NEW g \in CellExecs, status'[f] = "rejected",
                      CellOf[f] \notin Tolerant, home[f] = home[g],
                      ticket[f] < ticket[g], g \in started'
               PROVE  FALSE
    BY <1>1 DEF ErrorStopsCells
  <2>1. f \in Execs /\ g \in Execs /\ ticket[f] \in Nat /\ ticket[g] \in Nat /\ f # g
    BY <1>10 DEF TypeOK
  <2>2. CASE g \in started
    <3>1. ~Pending(f)
      BY <2>1, <2>2 DEF OInv, InOrder
    <3>2. status[f] = "rejected"
      BY <1>3, <2>1, <3>1
    <3> QED BY <2>2, <3>2 DEF OInv, ErrorStopsCells
  <2>3. CASE g = e
    <3>1. status[f] = "rejected" /\ home[f] = q
      BY <1>2, <1>3, <2>1, <2>3
    <3>2. failed[q]
      BY <1>1, <3>1 DEF OInv, FailureKnown
    <3>3. ~failed[q]
      BY <1>1, <1>10, <2>3 DEF MayStart, IsCode
    <3> QED BY <3>2, <3>3
  <2> QED BY <1>3, <2>2, <2>3
<1>13. OwnWrapper'
  BY <1>1, <1>4, <1>10 DEF OInv, OwnWrapper
<1>14. NoStuckSpinner'
  <2>1. ASSUME NEW o \in {"resolved", "rejected"}, Settle({e}, o) PROVE NoStuckSpinner'
    BY <1>1, <2>1, SettleKeepsSpinners DEF OInv
  <2>2. ASSUME \A f \in CellExecs : Pending(f) => Pending(f)',
               \A w \in CellExecs : shown'[w] \in {"pending", "running"} =>
                                    shown[w] \in {"pending", "running"}
        PROVE  NoStuckSpinner'
    <3> SUFFICES ASSUME NEW w \in CellExecs, shown'[w] \in {"pending", "running"}
                 PROVE  \E f \in CellExecs : wrapper[f] = w /\ Pending(f)'
      BY <1>1 DEF NoStuckSpinner
    <3>1. PICK f \in CellExecs : wrapper[f] = w /\ Pending(f)
      BY <2>2 DEF OInv, NoStuckSpinner
    <3> QED BY <2>2, <3>1
  <2>3. ASSUME status' = [status EXCEPT ![e] = "sent"]
        PROVE  \A f \in CellExecs : Pending(f) => Pending(f)'
    BY <1>10, <2>3 DEF TypeOK, Pending, Created, Settled
  <2>4. CASE UNCHANGED <<status, shown>>
    BY <2>2, <2>4 DEF Pending, Created, Settled
  <2>5. CASE StartRequest(e)
    BY <2>2, <2>3, <2>5 DEF StartRequest
  <2>6. CASE e \in Resumed /\ StartResumed(e)
    <3>1. wrapper[e] \in CellExecs
      BY <2>6, ConstantsAssumption DEF TypeOK
    <3>2. \A w \in CellExecs : shown'[w] \in {"pending", "running"} =>
                               shown[w] \in {"pending", "running"}
      BY <2>6, <3>1 DEF StartResumed, TypeOK
    <3> QED BY <2>2, <2>3, <2>6, <3>2 DEF StartResumed
  <2> QED BY <1>0, <2>1, <2>4, <2>5, <2>6 DEF StartItem, StartNothing, StartAtOnce
<1> QED BY <1>6, <1>7, <1>8, <1>9, <1>11, <1>12, <1>13, <1>14 DEF OInv

(* The second invariant is inductive, given the first.                      *)
LEMMA OrderIsKept == TypeOK /\ IInv /\ OInv /\ [Next]_vars => OInv'
<1> SUFFICES ASSUME TypeOK, IInv, OInv, [Next]_vars PROVE OInv'
  OBVIOUS
<1>1. ASSUME NEW q \in QueueIds, NEW e \in Execs, QueueCell(e, q) \/ QueueCode(e, q)
      PROVE  OInv'
  BY <1>1, AddKeepsOrder, AddKeepsOthers DEF OInv
<1>2. CASE OtherStep
  <2>1. OnlySettles
    BY <1>2, OtherSettles
  <2> QED BY <1>2, <2>1, OtherKeepsOrder, OtherKeepsFailures, OtherKeepsSpinners DEF OInv
<1>3. RequestsStarted
  BY DEF OInv
<1> QED BY <1>1, <1>2, <1>3, KindsOfSteps, StartKeepsAll

(* It holds of every instance.                                              *)
THEOREM OrderHolds == Spec => []OInv
<1>1. Init => OInv
  <2> SUFFICES ASSUME Init PROVE OInv
    OBVIOUS
  <2>1. /\ \A q \in QueueIds : items[q] = <<>>
        /\ \A e \in Execs : home[e] = None /\ status[e] = "new"
        /\ started = {} /\ requests = <<>> /\ interrupting = {}
        /\ \A e \in CellExecs : wrapper[e] = e /\ shown[e] = "none" /\ status[e] = "new"
    BY DEF Init, Execs
  <2>2. \A x : x = <<>> => ToSet(x) = {}
    BY DEF ToSet
  <2>3. Tickets /\ InOrder
    BY <2>1, ConstantsAssumption DEF Tickets, InOrder
  <2>4. Sorted
    BY <2>1 DEF Sorted
  <2>5. RequestsStarted /\ FailureKnown /\ ErrorStopsCells
    BY <2>1, <2>2 DEF RequestsStarted, FailureKnown, ErrorStopsCells
  <2>6. OwnWrapper /\ NoStuckSpinner
    BY <2>1 DEF OwnWrapper, NoStuckSpinner
  <2> QED BY <2>3, <2>4, <2>5, <2>6 DEF OInv
<1>2. TypeOK /\ IInv /\ OInv /\ [Next]_vars => OInv'
  BY OrderIsKept
<1> QED BY <1>1, <1>2, TypeCorrect, InvariantHolds, PTL DEF Spec

(* The executions of a queue start in the order they were added to it, the  *)
(* code that cancelQueuedCells adds again included (queueCell, queueCode,   *)
(* executeQueuedCells).                                                     *)
THEOREM OrderIsRight == Spec => []InOrder
<1>1. OInv => InOrder
  BY DEF OInv
<1> QED BY <1>1, OrderHolds, PTL

(* When a cell has failed, none of those queued after it is started         *)
(* (executeQueuedCells, its bail out).                                      *)
THEOREM ErrorsStopCells == Spec => []ErrorStopsCells
<1>1. OInv => ErrorStopsCells
  BY DEF OInv
<1> QED BY <1>1, OrderHolds, PTL

(* VS Code shows a cell as pending or running only while an execution of it *)
(* is to settle (CellExecutionCreator.getOrCreate, endCellTask).            *)
THEOREM SpinnersEnd == Spec => []NoStuckSpinner
<1>1. OInv => NoStuckSpinner
  BY DEF OInv
<1> QED BY <1>1, OrderHolds, PTL

-----------------------------------------------------------------------------
(* The contract.                                                            *)

(* Adding an execution submits it to a line that is not stopped.            *)
LEMMA AddSubmits ==
    ASSUME TypeOK, IInv, OInv, NEW q \in QueueIds, NEW e \in Execs,
           QueueCell(e, q) \/ QueueCode(e, q)
    PROVE  Contract!Submit(e, q)
<1>1. /\ Push(e, q) /\ status[e] = "new" /\ TargetQueue(q)
      /\ status' = [status EXCEPT ![e] = "queued"]
      /\ home' = [home EXCEPT ![e] = q]
      /\ ticket' = [ticket EXCEPT ![e] = 1 + Cardinality({f \in Execs : home[f] = q})]
      /\ UNCHANGED failed
  BY DEF QueueCell, QueueCode, Push
<1>2. ~failed[q]
  BY <1>1 DEF TargetQueue, Reusable, IInv, OnlyUsedQueues
<1>3. /\ status'[e] = "queued" /\ \A f \in Execs : f # e => status'[f] = status[f]
  BY <1>1 DEF TypeOK
<1>4. StageOf("new") = "idle" /\ StageOf("queued") = "waiting"
  BY DEF StageOf
<1>5. [f \in Execs |-> StageOf(status[f])][e] = "idle"
  BY <1>1, <1>4
<1>6. [f \in Execs |-> StageOf(status'[f])] = [[f \in Execs |-> StageOf(status[f])] EXCEPT ![e] = "waiting"]
  BY <1>3, <1>4
<1>7. {r \in QueueIds : failed'[r]} = {r \in QueueIds : failed[r]}
  BY <1>1
<1>8. \A f \in Execs : home[f] = q => ticket[f] < ticket'[e]
  <2> SUFFICES ASSUME NEW f \in Execs, home[f] = q PROVE ticket[f] < ticket'[e]
    OBVIOUS
  <2> DEFINE n == Cardinality({g \in Execs : home[g] = q})
  <2>1. ticket[f] \in Nat /\ ticket[f] <= n
    BY DEF OInv, Tickets, TypeOK
  <2>3. n \in Nat
    <3>1. IsFiniteSet(Execs)
      BY ConstantsAssumption, FS_Union DEF Execs
    <3> QED BY <3>1, FS_Subset, FS_CardinalityType
  <2>2. ticket'[e] = 1 + n
    BY <1>1 DEF TypeOK
  <2> HIDE DEF n
  <2> QED BY <2>1, <2>2, <2>3
<1>9. ticket' = [ticket EXCEPT ![e] = ticket'[e]]
  BY <1>1 DEF TypeOK
<1> QED BY <1>1, <1>2, <1>5, <1>6, <1>7, <1>8, <1>9 DEF Contract!Submit

(* Pending executions may be settled, and queues stopped.                   *)
LEMMA SettlingEnds ==
    ASSUME TypeOK, OnlySettles, \A e \in Execs : status'[e] # status[e] => Pending(e),
           \A q \in QueueIds : failed[q] => failed'[q], UNCHANGED <<home, ticket>>
    PROVE  \E S \in SUBSET Execs, L \in SUBSET QueueIds : Contract!End(S, L)
<1> DEFINE old == [e \in Execs |-> StageOf(status[e])]
<1>1. PICK S \in SUBSET Execs : S = {e \in Execs : status'[e] # status[e]}
  OBVIOUS
<1>2. PICK L \in SUBSET QueueIds : L = {q \in QueueIds : failed'[q]}
  OBVIOUS
<1>3. ASSUME NEW e \in S
      PROVE  old[e] \in {"waiting", "running"} /\ StageOf(status'[e]) = "done"
  <2>1. status[e] \in {"queued", "sent"} /\ status'[e] \in {"resolved", "rejected"}
    BY <1>1 DEF TypeOK, Statuses, Pending, Created, Settled, OnlySettles
  <2> QED BY <2>1 DEF StageOf
<1>4. [e \in Execs |-> StageOf(status'[e])] = [e \in Execs |-> IF e \in S THEN "done" ELSE old[e]]
  BY <1>3, <1>1
<1>5. {q \in QueueIds : failed'[q]} = {q \in QueueIds : failed[q]} \cup L
  BY <1>2
<1>6. Contract!End(S, L)
  <2>1. \A e \in S : old[e] \in {"waiting", "running"}
    BY <1>3
  <2> QED BY <1>4, <1>5, <2>1, Zenon DEF Contract!End
<1> QED BY <1>6

(* Starting an item begins it, or ends it at once.                          *)
LEMMA StartBegins ==
    ASSUME TypeOK, IInv, OInv, NEW q \in QueueIds, StartItem(q)
    PROVE  Contract!ContractNext
<1>0. PICK e \in Execs : e = Head(items[q])
  BY ItemsType DEF StartItem
<1>1. /\ items[q] # <<>> /\ items[q] \in Seq(Execs) /\ MayStart(q, e)
      /\ UNCHANGED <<failed, home, ticket>>
  BY <1>0 DEF StartItem, TypeOK, birthVars
<1>2. /\ 1 \in 1..Len(items[q]) /\ items[q][1] = e /\ home[e] = q /\ Created(e)
  <2>1. 1 \in 1..Len(items[q]) /\ items[q][1] = e
    BY <1>0, <1>1
  <2>2. e \in ToSet(items[q])
    BY <1>1, <2>1 DEF ToSet
  <2> QED BY <2>1, <2>2 DEF IInv, ItemsAreAtHome
<1>3. CASE ~Settled(e) /\ e \notin started /\ status' = [status EXCEPT ![e] = "sent"]
  <2> DEFINE old == [f \in Execs |-> StageOf(status[f])]
  <2>1. status[e] = "queued" /\ old[e] = "waiting"
    <3>1. status[e] = "queued"
      BY <1>2, <1>3 DEF TypeOK, Statuses, Created, Settled, OInv, RequestsStarted
    <3> QED BY <3>1 DEF StageOf
  <2>2. \A f \in Execs : home[f] = home[e] /\ ticket[f] < ticket[e] => old[f] = "done"
    <3> SUFFICES ASSUME NEW f \in Execs, home[f] = home[e], ticket[f] < ticket[e]
                 PROVE  old[f] = "done"
      OBVIOUS
    <3>1. Created(f)
      BY <1>2 DEF OInv, Tickets
    <3>2. ~Pending(f)
      <4>1. ~ \E i \in 1..(1-1) : items[q][i] = f
        OBVIOUS
      <4> QED BY <1>2, <4>1 DEF OInv, Sorted
    <3>3. status[f] \in {"resolved", "rejected"}
      BY <3>1, <3>2 DEF Pending, Settled
    <3> QED BY <3>3 DEF StageOf
  <2>3. e \in CellExecs => home[e] \notin {r \in QueueIds : failed[r]}
    BY <1>1, <1>2, ConstantsAssumption DEF MayStart, IsCode
  <2>4. [f \in Execs |-> StageOf(status'[f])] = [old EXCEPT ![e] = "running"]
    <3>1. StageOf("sent") = "running"
      BY DEF StageOf
    <3>2. status'[e] = "sent" /\ \A f \in Execs : f # e => status'[f] = status[f]
      BY <1>3 DEF TypeOK
    <3> QED BY <3>1, <3>2
  <2>5. {r \in QueueIds : failed'[r]} = {r \in QueueIds : failed[r]}
    BY <1>1
  <2>6. Contract!Begin(e)
    BY <1>1, <2>1, <2>2, <2>3, <2>4, <2>5 DEF Contract!Begin, Contract!Before
  <2> QED BY <2>6 DEF Contract!ContractNext
<1>4. CASE UNCHANGED status \/ \E o \in {"resolved", "rejected"} : ~Settled(e) /\ Settle({e}, o)
  <2>1. OnlySettles
    BY <1>4, SettleOnlySettles DEF OnlySettles
  <2>2. \A f \in Execs : status'[f] # status[f] => Pending(f)
    BY <1>2, <1>4 DEF Settle, Pending
  <2>3. \E S \in SUBSET Execs, L \in SUBSET QueueIds : Contract!End(S, L)
    BY <1>1, <2>1, <2>2, SettlingEnds
  <2> QED BY <2>3 DEF Contract!ContractNext
<1> QED BY <1>0, <1>3, <1>4
        DEF StartItem, StartNothing, StartResumed, StartRequest, StartAtOnce

(* Every step of the queues is a step of the contract, or none.             *)
LEMMA NextIsContract ==
    TypeOK /\ IInv /\ OInv /\ [Next]_vars => [Contract!ContractNext]_(Contract!cvars)
<1> SUFFICES ASSUME TypeOK, IInv, OInv, [Next]_vars
             PROVE  [Contract!ContractNext]_(Contract!cvars)
  OBVIOUS
<1>1. ASSUME NEW q \in QueueIds, NEW e \in Execs, QueueCell(e, q) \/ QueueCode(e, q)
      PROVE  Contract!ContractNext
  BY <1>1, AddSubmits DEF Contract!ContractNext
<1>2. CASE OtherStep
  <2>1. OnlySettles
    BY <1>2, OtherSettles
  <2>2. \E S \in SUBSET Execs, L \in SUBSET QueueIds : Contract!End(S, L)
    BY <1>2, <2>1, SettlingEnds DEF OtherStep, SettlesAtMost, QueueChanges
  <2> QED BY <2>2 DEF Contract!ContractNext
<1>3. RequestsStarted
  BY DEF OInv
<1> QED BY <1>1, <1>2, <1>3, KindsOfSteps, StartBegins

(* The execution of a notebook keeps the contract, whatever the instance:   *)
(* submit, begin in order, end once, nothing begun in a stopped line        *)
(* (CellExecutionQueue, NotebookKernelExecution).                           *)
THEOREM ContractIsKept == Spec => KeepsContract
<1>1. Init => Contract!ContractInit
  <2> SUFFICES ASSUME Init PROVE Contract!ContractInit
    OBVIOUS
  <2>1. /\ home = [e \in Execs |-> None] /\ ticket = [e \in Execs |-> 0]
        /\ \A e \in Execs : status[e] = "new"
        /\ \A q \in QueueIds : ~failed[q]
    BY DEF Init
  <2>2. StageOf("new") = "idle"
    BY DEF StageOf
  <2> QED BY <2>1, <2>2 DEF Contract!ContractInit
<1>2. TypeOK /\ IInv /\ OInv /\ [Next]_vars => [Contract!ContractNext]_(Contract!cvars)
  BY NextIsContract
<1> QED BY <1>1, <1>2, TypeCorrect, InvariantHolds, OrderHolds, PTL
        DEF Spec, KeepsContract, Contract!ContractSpec

=============================================================================
