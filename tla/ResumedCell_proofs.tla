------------------------- MODULE ResumedCell_proofs -------------------------
(***************************************************************************)
(* Theorems about ResumedCell, for any number of moments.                  *)
(***************************************************************************)
EXTENDS ResumedCell, SequenceTheorems, TLAPS

(* What is due to be written, as far as it matters.                         *)
Due == {<<>>, <<"track">>, <<"delete">>, <<"track", "delete">>}

(* ResumedTypeOK, with the sequences that writes can be.                    *)
Types ==
    /\ cell \in {"unsent", "running", "over"}
    /\ owed \subseteq {"reply", "idle"} /\ (owed # {} => cell = "over")
    /\ later \in BOOLEAN /\ exiting \in BOOLEAN /\ reloaded \in BOOLEAN
    /\ hasSession \in BOOLEAN /\ record \in BOOLEAN /\ moved \in {"no", "away", "back"}
    /\ moments \in 0..MaxMoments
    /\ follower \in {"none", "execution", "watch", "resuming", "handler",
                    "ended", "failed"}
    /\ writes \in Due
    /\ gotIdle \in BOOLEAN /\ gotReply \in BOOLEAN
    /\ timer \in {"none", "short", "long"} /\ (timer # "none" => follower = "handler")
    /\ (gotIdle \/ gotReply => reloaded /\ follower \in {"handler", "ended"})

(* A short timer means that the kernel is done, whoever told.               *)
ShortMeansOver == timer = "short" => cell = "over"

(* Before the reload, and after it: who follows the cell, and what is due.  *)
Phases ==
    /\ follower = "none" /\ ~reloaded => cell = "unsent" /\ writes = <<>> /\ ~record
    /\ follower = "execution" => ~reloaded
    /\ follower \in {"execution", "failed"} => writes \in {<<>>, <<"track">>}
    /\ follower \in {"watch", "resuming", "handler"} => reloaded
    /\ follower = "failed" => cell = "over"
    /\ cell = "unsent" => follower = "none" /\ ~reloaded
    /\ reloaded => writes = <<>>

(* A cell whose execution resolved before a reload leaves no record, or its *)
(* deletion is due after whatever else is.                                  *)
DeletionIsLast ==
    follower = "ended" /\ ~reloaded /\ ~exiting /\ hasSession /\ moved = "no" =>
        writes \in {<<"delete">>, <<"track", "delete">>} \/ (writes = <<>> /\ ~record)

Ended == ~Slow => EndedMeansOver

IInv == Types /\ ShortMeansOver /\ Phases /\ DeletionIsLast /\ Ended

(* What can be due is a sequence.                                           *)
LEMMA DueAreSequences == Due \subseteq Seq({"track", "delete"})
<1>1. <<>> \in Seq({"track", "delete"})
  OBVIOUS
<1>2. <<"track">> \in Seq({"track", "delete"})
  OBVIOUS
<1>3. <<"delete">> \in Seq({"track", "delete"})
  OBVIOUS
<1>4. <<"track", "delete">> \in Seq({"track", "delete"})
  OBVIOUS
<1> QED
  BY <1>1, <1>2, <1>3, <1>4 DEF Due

(* No two of them are the same.                                            *)
LEMMA DueDiffer ==
  /\ <<>> # <<"track">> /\ <<>> # <<"delete">> /\ <<>> # <<"track", "delete">>
  /\ <<"track">> # <<"delete">> /\ <<"track">> # <<"track", "delete">>
  /\ <<"delete">> # <<"track", "delete">>
<1>1. Len(<<>>) = 0 /\ Len(<<"track">>) = 1 /\ Len(<<"delete">>) = 1
        /\ Len(<<"track", "delete">>) = 2
  OBVIOUS
<1>2. <<"track">>[1] = "track" /\ <<"delete">>[1] = "delete"
  OBVIOUS
<1>3. "track" # "delete"
  OBVIOUS
<1> QED
  BY <1>1, <1>2, <1>3

(* What is appended to what is due, and what is left of it.                 *)
LEMMA DueChanges ==
  /\ Append(<<>>, "delete") = <<"delete">>
  /\ Append(<<"track">>, "delete") = <<"track", "delete">>
  /\ Tail(<<"track">>) = <<>> /\ Head(<<"track">>) = "track"
  /\ Tail(<<"delete">>) = <<>> /\ Head(<<"delete">>) = "delete"
  /\ Tail(<<"track", "delete">>) = <<"delete">> /\ Head(<<"track", "delete">>) = "track"
<1>1. Append(<<>>, "delete") = <<"delete">>
  OBVIOUS
<1>2. Append(<<"track">>, "delete") = <<"track", "delete">>
  <2> DEFINE s == Append(<<"track">>, "delete")
             d == <<"track", "delete">>
  <2>1. s \in Seq({"track", "delete"}) /\ d \in Seq({"track", "delete"})
    OBVIOUS
  <2>2. Len(s) = 2 /\ s[1] = "track" /\ s[2] = "delete"
    OBVIOUS
  <2>3. Len(d) = 2 /\ d[1] = "track" /\ d[2] = "delete"
    OBVIOUS
  <2> HIDE DEF s, d
  <2>4. s = d
    BY <2>1, <2>2, <2>3, SeqEqual
  <2> QED
    BY <2>4 DEF s, d
<1>3. Tail(<<"track">>) = <<>> /\ Head(<<"track">>) = "track"
  OBVIOUS
<1>4. Tail(<<"delete">>) = <<>> /\ Head(<<"delete">>) = "delete"
  OBVIOUS
<1>5. Tail(<<"track", "delete">>) = <<"delete">> /\ Head(<<"track", "delete">>) = "track"
  OBVIOUS
<1> QED
  BY <1>1, <1>2, <1>3, <1>4, <1>5

(* IInv holds at the start.                                                 *)
LEMMA InitIInv == ResumedInit => IInv
<1> SUFFICES ASSUME ResumedInit  PROVE IInv
  OBVIOUS
<1> USE ResumedAssumption DEF ResumedInit
<1>1. Types
  <2>1. owed \subseteq {"reply", "idle"} /\ (owed # {} => cell = "over")
    OBVIOUS
  <2>2. moments \in 0..MaxMoments
    OBVIOUS
  <2>3. writes \in Due
    BY DEF Due
  <2>4. follower = "none" /\ timer = "none" /\ ~gotIdle /\ ~gotReply
    OBVIOUS
  <2> QED
    BY <2>1, <2>2, <2>3, <2>4 DEF Types
<1>2. ShortMeansOver /\ Phases /\ DeletionIsLast /\ Ended
  BY DEF ShortMeansOver, Phases, DeletionIsLast, Ended, EndedMeansOver
<1> QED
  BY <1>1, <1>2 DEF IInv

(* Every action keeps IInv.                                                 *)
LEMMA NextIInv == IInv /\ [ResumedNext]_resumedVars => IInv'
<1> SUFFICES ASSUME IInv, [ResumedNext]_resumedVars  PROVE IInv'
  OBVIOUS
<1> USE ResumedAssumption DEF IInv, Types, ShortMeansOver, Phases, DeletionIsLast, Ended,
        EndedMeansOver, Due, resumedVars, cellVars, hostVars, recordVars, signalVars
<1>1. CASE RunCell
  BY <1>1 DEF RunCell
<1>2. CASE Counted
  BY <1>2, DueDiffer, DueChanges DEF Counted, UnderWay
<1>3. CASE WriteRecord
  BY <1>3, DueDiffer, DueChanges DEF WriteRecord
<1>4. CASE ExecutionEnds
  BY <1>4, DueDiffer, DueChanges DEF ExecutionEnds, Deleted
<1>5. CASE Reload
  BY <1>5 DEF Reload
<1>6. CASE Watch
  BY <1>6 DEF Watch
<1>7. CASE Register
  BY <1>7 DEF Register
<1>8. CASE Output
  BY <1>8 DEF Output, Moment, Triggered
<1>9. CASE CellOver
  BY <1>9 DEF CellOver
<1>10. CASE OtherRequest
  BY <1>10 DEF OtherRequest, Moment, NoticesOthers
<1>11. CASE Interrupt
  BY <1>11 DEF Interrupt, Moment, TimeToStop
<1>12. CASE TimerFires
  BY <1>12 DEF TimerFires
<1>13. ASSUME NEW what \in {"reply", "idle"}, EndMessage(what)  PROVE IInv'
  BY <1>13 DEF EndMessage, Hears, BothCame, Triggered
<1>14. CASE UNCHANGED resumedVars
  BY <1>14
<1>15. CASE CellMoves
  BY <1>15 DEF CellMoves, Moment
<1>16. CASE KernelGone
  <2>1. /\ cell' = "over" /\ owed' = {} /\ hasSession' \in {TRUE, FALSE}
        /\ follower = "execution"
        /\ UNCHANGED <<later, exiting, reloaded, follower, recordVars, signalVars>>
    BY <1>16 DEF KernelGone
  <2>2. moments' \in 0..MaxMoments
    BY <1>16 DEF KernelGone, Moment
  <2>3. Types'
    BY <2>1, <2>2
  <2>4. ShortMeansOver' /\ Phases' /\ DeletionIsLast' /\ Ended'
    BY <2>1
  <2> QED
    BY <2>3, <2>4
<1>17. CASE Exit
  BY <1>17 DEF Exit
<1> QED
  BY <1>1, <1>2, <1>3, <1>4, <1>5, <1>6, <1>7, <1>8, <1>9, <1>10, <1>11, <1>12, <1>13,
     <1>14, <1>15, <1>16, <1>17 DEF ResumedNext

(* So IInv always holds.                                                    *)
LEMMA AlwaysIInv == ResumedSpec => []IInv
  BY InitIInv, NextIInv, PTL DEF ResumedSpec

(* Every variable keeps its type: in particular a timer runs only for a     *)
(* handler that has not ended the execution.                                *)
THEOREM TypeCorrect == ResumedSpec => []ResumedTypeOK
<1>1. IInv => ResumedTypeOK
  BY DueAreSequences DEF IInv, Types, ResumedTypeOK
<1> QED
  BY <1>1, AlwaysIInv, PTL

(* If interrupted cells stop within a second, no resumed cell is shown as   *)
(* ended while the kernel runs it (CellExecutionMessageHandler).            *)
THEOREM NotEndedEarly ==
  ASSUME ~Slow  PROVE ResumedSpec => []EndedMeansOver
<1>1. IInv => EndedMeansOver
  BY DEF IInv, Ended
<1> QED
  BY <1>1, AlwaysIInv, PTL

(* A cell whose execution resolved before a reload leaves no record to be   *)
(* resumed from, with the exceptions that NothingToRestore names            *)
(* (LastCellExecutionTracker).                                              *)
THEOREM NothingIsRestored == ResumedSpec => []NothingToRestore
<1>1. IInv => NothingToRestore
  BY DueDiffer DEF IInv, Types, DeletionIsLast, NothingToRestore
<1> QED
  BY <1>1, AlwaysIInv, PTL

=============================================================================
