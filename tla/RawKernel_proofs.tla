-------------------------- MODULE RawKernel_proofs --------------------------
(***************************************************************************)
(* Theorems about RawKernel, for any number of restarts.                   *)
(***************************************************************************)
EXTENDS RawKernel, SequenceTheorems, TLAPS

Stopping(r) == r.isShuttingDown \/ r.hasShutdown

(* What the fields of the connection r have to do with each other.          *)
Shape(r) ==
    /\ r \in RawRecord
    /\ r.cur \in {0, Len(r.procs)} /\ r.hooked \in 0..Len(r.procs)
    /\ r.cur # 0 => r.procs[r.cur].launch = "up" /\ r.socket
    /\ r.start = "launching" => r.cur = 0 /\ r.procs # <<>>
    /\ r.start = "readying" => r.cur = Len(r.procs) /\ r.procs # <<>>
    /\ r.start = "none" => r.procs = <<>> /\ r.waits = {} /\ ~r.isDisposed /\ ~Stopping(r)

(* A process that runs is being disposed of, or is the connection's, or is  *)
(* being launched for it.                                                   *)
Owned(r) ==
    \A p \in 1..Len(r.procs) :
        r.procs[p].os = "runs" => \/ r.procs[p].closing # "no"
                                  \/ p = r.cur
                                  \/ r.start = "launching" /\ p = Len(r.procs)

(* Once shutdown() has been called, no process is launched, and the one     *)
(* there is is being disposed of.                                           *)
Stopped(r) ==
    Stopping(r) => /\ r.start # "launching"
                   /\ r.cur # 0 => r.procs[r.cur].closing # "no"

RawGood(r) ==
    /\ Shape(r) /\ Owned(r)
    /\ r.isDisposed => Stopping(r)
    /\ ~Hasty => Stopped(r) /\ (r.waits # {} => Stopping(r))

(* What the session's state says of its connection.                         *)
SessionKnows ==
    /\ session = "live" /\ raw.start \in {"launching", "readying"} => raw.isRestarting
    /\ raw.start = "none" => session = "starting"
    /\ session \in {"shutting", "disposed"} => Stopping(raw)

IInv ==
    /\ RawGood(raw) /\ SessionKnows
    /\ session \in {"starting", "live", "shutting", "disposed"}
    /\ limited \in BOOLEAN /\ rawRestarts \in 0..MaxRawRestarts

-----------------------------------------------------------------------------
(* The effects that actions share.                                          *)

(* q is what p was but for processes that end, or are disposed of.          *)
Quieter(q, p) ==
    /\ q \in Seq(Processes) /\ Len(q) = Len(p)
    /\ \A j \in 1..Len(p) : /\ q[j].os = "runs" => p[j].os = "runs"
                            /\ p[j].closing # "no" => q[j].closing # "no"

(* A step that starts nothing keeps RawGood, if a shutdown() that it brings *)
(* has the launch cancelled and the process disposed of.                    *)
LEMMA QuieterGood ==
  ASSUME NEW r, RawGood(r), r.start # "none", NEW t \in RawRecord,
         Quieter(t.procs, r.procs),
         r.cur # 0 => t.procs[r.cur].launch = r.procs[r.cur].launch,
         t.cur = r.cur, t.hooked = r.hooked, t.socket = r.socket,
         \/ t.start = r.start
         \/ /\ t.start \in {"failing", "done", "failed"}
            /\ r.start = "launching" => t.procs[Len(r.procs)].closing # "no",
         Stopping(r) => Stopping(t), t.isDisposed => r.isDisposed \/ Stopping(t),
         ~Hasty => /\ t.waits # {} => r.waits # {} \/ Stopping(t)
                   /\ Stopping(t) => Stopping(r) \/ Stopped(t)
  PROVE  RawGood(t)
<1>1. r.procs \in Seq(Processes) /\ Len(r.procs) \in Nat
  BY DEF RawGood, Shape, RawRecord
<1>2. r.procs # <<>> => t.procs # <<>>
  BY <1>1 DEF Quieter
<1>3. Shape(t)
  BY <1>1, <1>2 DEF RawGood, Shape, Quieter
<1>4. Owned(t)
  BY <1>1 DEF RawGood, Owned, Quieter
<1>5. ~Hasty => Stopped(t)
  BY <1>1 DEF RawGood, Shape, Stopped, Quieter
<1> QED
  BY <1>3, <1>4, <1>5 DEF RawGood

(* KernelProcess.dispose().                                                 *)
LEMMA CloseDoes ==
  ASSUME NEW r \in RawRecord, NEW p \in 0..Len(r.procs)
  PROVE  \E q \in Seq(Processes) :
            /\ Close(r, p) = [r EXCEPT !.procs = q]
            /\ Quieter(q, r.procs)
            /\ \A j \in 1..Len(r.procs) : q[j].launch = r.procs[j].launch
            /\ p # 0 => q[p].closing # "no"
<1>1. r.procs \in Seq(Processes)
  BY DEF RawRecord
<1>2. CASE p = 0 \/ r.procs[p].closing # "no"
  <2>1. Close(r, p) = [r EXCEPT !.procs = r.procs]
    BY <1>2 DEF Close, RawRecord
  <2>2. Quieter(r.procs, r.procs)
    BY <1>1 DEF Quieter
  <2> QED
    BY <1>1, <1>2, <2>1, <2>2
<1>3. CASE p # 0 /\ r.procs[p].closing = "no"
  <2> DEFINE new == [r.procs[p] EXCEPT !.closing = "closing"]
             q == [r.procs EXCEPT ![p] = new]
  <2>1. p \in 1..Len(r.procs) /\ r.procs[p] \in Processes
    BY <1>1, <1>3
  <2>2. /\ new \in Processes /\ new.os = r.procs[p].os /\ new.launch = r.procs[p].launch
        /\ new.closing = "closing"
    BY <2>1 DEF Processes
  <2>3. Close(r, p) = [r EXCEPT !.procs = q]
    BY <1>3 DEF Close
  <2> HIDE DEF new
  <2>4. q \in Seq(Processes) /\ Len(q) = Len(r.procs)
        /\ \A j \in 1..Len(r.procs) : q[j] = IF j = p THEN new ELSE r.procs[j]
    BY <1>1, <2>1, <2>2
  <2> HIDE DEF q
  <2>5. Quieter(q, r.procs)
    BY <2>2, <2>4 DEF Quieter
  <2> QED
    BY <2>1, <2>2, <2>3, <2>4, <2>5
<1> QED
  BY <1>2, <1>3

(* The launch that is under way fails.                                      *)
LEMMA LaunchEndsGood ==
  ASSUME NEW r, RawGood(r), r.start = "launching"
  PROVE  /\ RawGood(LaunchEnds(r)) /\ LaunchEnds(r).start = "failed"
         /\ Stopping(LaunchEnds(r)) <=> Stopping(r)
         /\ LaunchEnds(r).isRestarting = r.isRestarting
         /\ LaunchEnds(r).cur = 0 /\ Len(LaunchEnds(r).procs) = Len(r.procs)
<1> DEFINE p == Len(r.procs)
<1>1. r \in RawRecord /\ r.procs \in Seq(Processes) /\ p \in 1..Len(r.procs) /\ r.cur = 0
  BY DEF RawGood, Shape, RawRecord
<1> HIDE DEF p
<1>2. PICK q \in Seq(Processes) : /\ Close(r, p) = [r EXCEPT !.procs = q]
                                  /\ Quieter(q, r.procs)
                                  /\ q[p].closing # "no"
  BY <1>1, CloseDoes
<1> DEFINE new == [q[p] EXCEPT !.launch = "failed"]
           s == [q EXCEPT ![p] = new]
           t == [r EXCEPT !.procs = s, !.start = "failed"]
<1>3. p \in 1..Len(q) /\ q[p] \in Processes
  BY <1>1, <1>2 DEF Quieter
<1>4. new \in Processes /\ new.os = q[p].os /\ new.closing = q[p].closing
  BY <1>3 DEF Processes
<1>5. s = [q EXCEPT ![p].launch = "failed"]
  OBVIOUS
<1> HIDE DEF new
<1>6. s \in Seq(Processes) /\ Len(s) = Len(q)
      /\ \A j \in 1..Len(q) : s[j] = IF j = p THEN new ELSE q[j]
  BY <1>2, <1>3, <1>4
<1> HIDE DEF s
<1>7. LaunchEnds(r) = t
  BY <1>1, <1>2, <1>5 DEF LaunchEnds, p, RawRecord
<1>8. Quieter(s, r.procs)
  BY <1>2, <1>4, <1>6 DEF Quieter
<1>9. /\ t \in RawRecord /\ t.procs = s /\ t.start = "failed" /\ t.cur = r.cur
      /\ t.hooked = r.hooked /\ t.socket = r.socket /\ t.isDisposed = r.isDisposed
      /\ t.waits = r.waits /\ t.isRestarting = r.isRestarting
      /\ t.isShuttingDown = r.isShuttingDown /\ t.hasShutdown = r.hasShutdown
  BY <1>1, <1>6 DEF RawRecord
<1> HIDE DEF t
<1>10. s[p].closing # "no"
  BY <1>2, <1>3, <1>4, <1>6
<1>11. Stopping(t) <=> Stopping(r)
  BY <1>9 DEF Stopping
<1>12. RawGood(t)
  BY <1>1, <1>8, <1>9, <1>10, <1>11, QuieterGood DEF p
<1> QED
  BY <1>1, <1>7, <1>8, <1>9, <1>11, <1>12 DEF Quieter

(* The catch of start().                                                    *)
LEMMA StartErredGood ==
  ASSUME NEW r, RawGood(r), r.start = "readying"
  PROVE  /\ RawGood(StartErred(r)) /\ StartErred(r).start = "failing"
         /\ Stopping(StartErred(r)) <=> Stopping(r)
         /\ StartErred(r).isRestarting = r.isRestarting
         /\ StartErred(r).cur = r.cur /\ StartErred(r).socket = r.socket
         /\ Len(StartErred(r).procs) = Len(r.procs)
<1>1. r \in RawRecord /\ r.procs \in Seq(Processes) /\ r.cur \in 0..Len(r.procs)
  BY DEF RawGood, Shape, RawRecord
<1>2. PICK q \in Seq(Processes) : /\ Close(r, r.cur) = [r EXCEPT !.procs = q]
                                  /\ Quieter(q, r.procs)
                                  /\ \A j \in 1..Len(r.procs) : q[j].launch = r.procs[j].launch
  BY <1>1, CloseDoes
<1> DEFINE a == Awaited(r, r.cur)
           t == [r EXCEPT !.procs = q, !.start = "failing", !.awaited = a]
<1>3. a \in Nat
  BY <1>1 DEF Awaited
<1> HIDE DEF a
<1>4. StartErred(r) = t
  BY <1>1, <1>2 DEF StartErred, a, RawRecord
<1>5. /\ t \in RawRecord /\ t.procs = q /\ t.start = "failing" /\ t.cur = r.cur
      /\ t.hooked = r.hooked /\ t.socket = r.socket /\ t.isDisposed = r.isDisposed
      /\ t.waits = r.waits /\ t.isRestarting = r.isRestarting
      /\ t.isShuttingDown = r.isShuttingDown /\ t.hasShutdown = r.hasShutdown
  BY <1>1, <1>3 DEF RawRecord
<1> HIDE DEF t
<1>6. Stopping(t) <=> Stopping(r)
  BY <1>5 DEF Stopping
<1>7. RawGood(t)
  BY <1>1, <1>2, <1>5, <1>6, QuieterGood
<1> QED
  BY <1>2, <1>4, <1>5, <1>6, <1>7 DEF Quieter

(* RawKernelConnection.shutdown(), from whoever calls it once there is      *)
(* something to shut down: a start that is not a restart is over by then,   *)
(* or has its process.                                                      *)
LEMMA ShutdownGood ==
  ASSUME NEW r, RawGood(r), r.start # "none", NEW who \in {"exit", "session", "dispose"},
         r.start = "launching" => r.isRestarting \/ Stopping(r)
  PROVE  /\ RawGood(Shutdown(r, who)) /\ Stopping(Shutdown(r, who))
         /\ Shutdown(r, who).isRestarting = r.isRestarting
         /\ Shutdown(r, who).cur = r.cur
         /\ Len(Shutdown(r, who).procs) = Len(r.procs)
         /\ \/ Shutdown(r, who).start = r.start
            \/ Shutdown(r, who).start \in {"failing", "failed"}
<1> DEFINE c == RestartCancelled(r)
<1>1. /\ RawGood(c) /\ (Stopping(c) <=> Stopping(r)) /\ c.isRestarting = r.isRestarting
      /\ c.cur = r.cur /\ (c.start = r.start \/ c.start \in {"failing", "failed"})
      /\ ~Stopping(r) => c.start # "launching"
      /\ Len(c.procs) = Len(r.procs)
  <2>1. r.start \in {"launching", "readying"} \/ TokenCancelled(r) = r
    BY DEF TokenCancelled
  <2>2. CASE r.isRestarting /\ r.start = "launching"
    <3>1. r.cur = 0
      BY <2>2 DEF RawGood, Shape
    <3> QED
      BY <2>2, <3>1, LaunchEndsGood DEF RestartCancelled, TokenCancelled
  <2>3. CASE r.isRestarting /\ r.start = "readying"
    BY <2>3, StartErredGood DEF RestartCancelled, TokenCancelled
  <2>4. CASE ~r.isRestarting \/ r.start \notin {"launching", "readying"}
    BY <2>1, <2>4 DEF RestartCancelled
  <2> QED
    BY <2>2, <2>3, <2>4
<1>2. CASE Stopping(r)
  BY <1>2 DEF Stopping, Shutdown
<1>3. CASE ~Stopping(r)
  <2> DEFINE t == [c EXCEPT !.isShuttingDown = TRUE]
  <2>1. /\ c \in RawRecord /\ c.procs \in Seq(Processes) /\ c.cur \in 0..Len(c.procs)
        /\ c.start \notin {"none", "launching"}
    BY <1>1, <1>3 DEF RawGood, Shape, RawRecord
  <2> HIDE DEF c
  <2>2. Shutdown(r, who) = IF t.cur # 0
                           THEN [Close(t, t.cur) EXCEPT
                                   !.waits = @ \cup {[by |-> who, proc |-> Awaited(t, t.cur)]}]
                           ELSE IF t.socket THEN ShutDown(t) ELSE t
    BY <1>3 DEF Shutdown, c, Stopping
  <2>3. /\ t \in RawRecord /\ t.procs = c.procs /\ t.start = c.start /\ t.cur = c.cur
        /\ t.hooked = c.hooked /\ t.socket = c.socket /\ t.isDisposed = c.isDisposed
        /\ t.waits = c.waits /\ t.isRestarting = c.isRestarting
        /\ t.isShuttingDown = TRUE /\ t.hasShutdown = c.hasShutdown
        /\ t.isDisposing = c.isDisposing
    BY <2>1 DEF RawRecord
  <2> HIDE DEF t
  <2>4. Quieter(c.procs, c.procs)
    BY <2>1 DEF Quieter
  <2>5. CASE t.cur # 0
    <3>0. t \in RawRecord /\ t.cur \in 0..Len(t.procs)
      BY <2>1, <2>3
    <3>1. PICK q \in Seq(Processes) :
             /\ Close(t, t.cur) = [t EXCEPT !.procs = q]
             /\ Quieter(q, t.procs)
             /\ \A j \in 1..Len(t.procs) : q[j].launch = t.procs[j].launch
             /\ q[t.cur].closing # "no"
      BY <2>5, <3>0, CloseDoes
    <3> DEFINE w == [by |-> who, proc |-> Awaited(t, t.cur)]
               u == [t EXCEPT !.procs = q, !.waits = t.waits \cup {w}]
    <3>2. w \in ShutdownWaits
      BY <2>1, <2>3 DEF ShutdownWaits, Awaited
    <3> HIDE DEF w
    <3>3. Shutdown(r, who) = u
      BY <2>2, <2>3, <2>5, <3>1 DEF w, RawRecord
    <3>4. /\ u \in RawRecord /\ u.procs = q /\ u.start = c.start /\ u.cur = c.cur
          /\ u.hooked = c.hooked /\ u.socket = c.socket /\ u.isDisposed = c.isDisposed
          /\ u.isRestarting = c.isRestarting /\ u.isShuttingDown = TRUE
      BY <2>3, <3>2 DEF RawRecord
    <3> HIDE DEF u
    <3>5. Stopping(u) /\ Stopped(u)
      BY <2>1, <2>3, <3>1, <3>4 DEF Stopping, Stopped
    <3>6. RawGood(u)
      BY <1>1, <2>1, <2>3, <3>1, <3>4, <3>5, QuieterGood
    <3> QED
      BY <1>1, <2>3, <3>1, <3>3, <3>4, <3>5, <3>6 DEF Quieter
  <2>6. CASE t.cur = 0 /\ t.socket
    <3> DEFINE u == ShutDown(t)
    <3>1. /\ u \in RawRecord /\ u.procs = c.procs /\ u.start = c.start /\ u.cur = c.cur
          /\ u.hooked = c.hooked /\ u.socket = c.socket /\ u.hasShutdown = TRUE
          /\ u.isRestarting = c.isRestarting /\ u.waits = c.waits
      BY <2>3 DEF RawRecord, ShutDown
    <3> HIDE DEF u
    <3>2. Stopping(u) /\ Stopped(u)
      BY <2>1, <2>3, <2>6, <3>1 DEF Stopping, Stopped
    <3>3. RawGood(u)
      BY <1>1, <2>1, <2>4, <3>1, <3>2, QuieterGood
    <3>4. Shutdown(r, who) = u
      BY <2>2, <2>6 DEF u
    <3> QED
      BY <1>1, <3>1, <3>2, <3>3, <3>4
  <2>7. CASE t.cur = 0 /\ ~t.socket
    <3>1. Stopping(t) /\ Stopped(t)
      BY <2>1, <2>3, <2>7 DEF Stopping, Stopped
    <3>2. RawGood(t)
      BY <1>1, <2>1, <2>3, <2>4, <3>1, QuieterGood
    <3>3. Shutdown(r, who) = t
      BY <2>2, <2>7
    <3> QED
      BY <1>1, <2>3, <3>1, <3>2, <3>3
  <2> QED
    BY <2>5, <2>6, <2>7
<1> QED
  BY <1>2, <1>3

(* A process ends, or its end is noticed again.                             *)
LEMMA ExitedGood ==
  ASSUME NEW r, RawGood(r), NEW p \in 1..Len(r.procs)
  PROVE  /\ RawGood(Exited(r, p)) /\ Exited(r, p).isRestarting = r.isRestarting
         /\ Stopping(r) => Stopping(Exited(r, p))
         /\ Len(Exited(r, p).procs) = Len(r.procs)
         /\ Exited(r, p).start = r.start \/ Exited(r, p).start \in {"failing", "failed"}
         /\ r.start = "launching" => Exited(r, p).start = "launching"
<1>1. /\ r \in RawRecord /\ r.procs \in Seq(Processes) /\ r.procs[p] \in Processes
      /\ r.cur \in 0..Len(r.procs) /\ Len(r.procs) \in Nat /\ r.start # "none"
      /\ r.start = "launching" => r.cur = 0
  BY DEF RawGood, Shape, RawRecord
<1> DEFINE gone == IF r.procs[p].os = "runs" THEN "gone" ELSE r.procs[p].os
<1>2. ASSUME NEW f \in BOOLEAN
      PROVE  LET new == [[r.procs[p] EXCEPT !.os = gone] EXCEPT !.fired = f]
                 t == [r EXCEPT !.procs = [r.procs EXCEPT ![p] = new]]
             IN /\ RawGood(t) /\ t.isRestarting = r.isRestarting /\ t.cur = r.cur
                /\ t.start = r.start /\ (Stopping(t) <=> Stopping(r))
                /\ Len(t.procs) = Len(r.procs)
  <2> DEFINE new == [[r.procs[p] EXCEPT !.os = gone] EXCEPT !.fired = f]
             q == [r.procs EXCEPT ![p] = new]
             t == [r EXCEPT !.procs = q]
  <2>1. /\ new \in Processes /\ new.os # "runs" /\ new.launch = r.procs[p].launch
        /\ new.closing = r.procs[p].closing
    BY <1>1 DEF Processes
  <2> HIDE DEF new
  <2>2. q \in Seq(Processes) /\ Len(q) = Len(r.procs)
        /\ \A j \in 1..Len(r.procs) : q[j] = IF j = p THEN new ELSE r.procs[j]
    BY <1>1, <2>1
  <2> HIDE DEF q
  <2>3. Quieter(q, r.procs) /\ \A j \in 1..Len(r.procs) : q[j].launch = r.procs[j].launch
    BY <2>1, <2>2 DEF Quieter
  <2>4. /\ t \in RawRecord /\ t.procs = q /\ t.start = r.start /\ t.cur = r.cur
        /\ t.hooked = r.hooked /\ t.socket = r.socket /\ t.isDisposed = r.isDisposed
        /\ t.waits = r.waits /\ t.isRestarting = r.isRestarting
        /\ t.isShuttingDown = r.isShuttingDown /\ t.hasShutdown = r.hasShutdown
    BY <1>1, <2>2 DEF RawRecord
  <2> HIDE DEF t
  <2>5. Stopping(t) <=> Stopping(r)
    BY <2>4 DEF Stopping
  <2>6. RawGood(t)
    BY <1>1, <2>3, <2>4, <2>5, QuieterGood
  <2> QED
    BY <2>2, <2>4, <2>5, <2>6 DEF t, q, new
<1> DEFINE s == [r EXCEPT !.procs = [r.procs EXCEPT ![p] =
                     [[r.procs[p] EXCEPT !.os = gone] EXCEPT !.fired = TRUE]]]
           t == IF Minds(s, p) THEN Shutdown(s, "exit") ELSE s
<1>3. /\ RawGood(s) /\ s.isRestarting = r.isRestarting /\ s.cur = r.cur /\ s.start = r.start
      /\ (Stopping(s) <=> Stopping(r)) /\ Len(s.procs) = Len(r.procs)
  BY <1>2
<1>4. CASE r.procs[p].fired
  <2> DEFINE f == [r EXCEPT !.procs = [r.procs EXCEPT ![p] =
                     [[r.procs[p] EXCEPT !.os = gone] EXCEPT !.fired = r.procs[p].fired]]]
  <2>1. r.procs[p].fired \in BOOLEAN
    BY <1>1 DEF Processes
  <2>2. /\ RawGood(f) /\ f.isRestarting = r.isRestarting /\ f.start = r.start
        /\ (Stopping(f) <=> Stopping(r)) /\ Len(f.procs) = Len(r.procs)
    BY <1>2, <2>1
  <2>3. [[r.procs[p] EXCEPT !.os = gone] EXCEPT !.fired = r.procs[p].fired]
          = [r.procs[p] EXCEPT !.os = gone]
    BY <1>1 DEF Processes
  <2>4. s.procs[p].os = gone
    BY <1>1 DEF RawRecord, Processes
  <2>5. Exited(r, p) = [r EXCEPT !.procs[p].os = gone]
    BY <1>1, <1>4, <2>4 DEF Exited
  <2>6. Exited(r, p) = f
    BY <2>3, <2>5
  <2> HIDE DEF f
  <2> QED
    BY <2>2, <2>6
<1>5. CASE ~r.procs[p].fired
  <2>1. Exited(r, p) = IF t.start = "readying" /\ t.cur = p THEN StartErred(t) ELSE t
    <3>1. [r EXCEPT !.procs[p].os = gone, !.procs[p].fired = TRUE] = s
      BY <1>1 DEF RawRecord
    <3> HIDE DEF s
    <3>2. Exited(r, p) =
            LET u == [r EXCEPT !.procs[p].os = gone, !.procs[p].fired = TRUE]
                v == IF Minds(u, p) THEN Shutdown(u, "exit") ELSE u
            IN IF v.start = "readying" /\ v.cur = p THEN StartErred(v) ELSE v
      BY <1>5 DEF Exited
    <3> QED
      BY <3>1, <3>2
  <2> HIDE DEF s
  <2>2. /\ RawGood(t) /\ t.isRestarting = r.isRestarting /\ (Stopping(r) => Stopping(t))
        /\ Len(t.procs) = Len(r.procs)
        /\ t.start = r.start \/ t.start \in {"failing", "failed"}
        /\ r.start = "launching" => t.start = "launching"
    <3>1. CASE Minds(s, p)
      <4>1. s.start \notin {"launching", "none"}
        BY <1>1, <1>3, <3>1 DEF Minds
      <4> QED
        BY <1>1, <1>3, <3>1, <4>1, ShutdownGood
    <3>2. CASE ~Minds(s, p)
      BY <1>3, <3>2
    <3> QED
      BY <3>1, <3>2
  <2> HIDE DEF t
  <2>3. CASE t.start = "readying" /\ t.cur = p
    BY <2>1, <2>2, <2>3, StartErredGood
  <2>4. CASE ~(t.start = "readying" /\ t.cur = p)
    BY <2>1, <2>2, <2>4
  <2> QED
    BY <2>3, <2>4
<1> QED
  BY <1>4, <1>5

(* start(), up to the launch of the next process.                           *)
LEMMA LaunchNextGood ==
  ASSUME NEW r \in RawRecord, r.cur \in 0..Len(r.procs), r.hooked \in 0..Len(r.procs),
         \A p \in 1..Len(r.procs) :
            r.procs[p].os = "runs" => r.procs[p].closing # "no" \/ p = r.cur,
         ~r.isDisposed, ~Stopping(r), ~Hasty => r.waits = {}
  PROVE  /\ RawGood(LaunchNext(r)) /\ LaunchNext(r).start = "launching"
         /\ LaunchNext(r).isRestarting = r.isRestarting
<1>1. PICK q \in Seq(Processes) : /\ Close(r, r.cur) = [r EXCEPT !.procs = q]
                                  /\ Quieter(q, r.procs)
                                  /\ r.cur # 0 => q[r.cur].closing # "no"
  BY CloseDoes
<1> DEFINE s == Append(q, NewProcess)
           t == [r EXCEPT !.procs = s, !.cur = 0, !.start = "launching"]
<1>2. NewProcess \in Processes /\ NewProcess.os = "none"
  BY DEF NewProcess, Processes
<1>3. /\ s \in Seq(Processes) /\ Len(s) = Len(q) + 1 /\ Len(q) \in Nat /\ s # <<>>
      /\ \A j \in 1..Len(q) : s[j] = q[j]
      /\ s[Len(q) + 1] = NewProcess
  BY <1>2, AppendProperties
<1>4. LaunchNext(r) = t
  BY <1>1 DEF LaunchNext, OldCloses, RawRecord
<1> HIDE DEF s
<1>5. /\ t \in RawRecord /\ t.procs = s /\ t.start = "launching" /\ t.cur = 0
      /\ t.hooked = r.hooked /\ t.isDisposed = r.isDisposed
      /\ t.waits = r.waits /\ t.isRestarting = r.isRestarting
      /\ t.isShuttingDown = r.isShuttingDown /\ t.hasShutdown = r.hasShutdown
  BY <1>3 DEF RawRecord
<1> HIDE DEF t
<1>6. Shape(t)
  BY <1>1, <1>3, <1>5 DEF Shape, Quieter
<1>7. Owned(t)
  BY <1>1, <1>2, <1>3, <1>5 DEF Owned, Quieter
<1>8. ~Stopping(t)
  BY <1>5 DEF Stopping
<1> QED
  BY <1>4, <1>5, <1>6, <1>7, <1>8 DEF RawGood, Stopped

(* Those who await the disposal of p are told.                              *)
LEMMA DisposalToldGood ==
  ASSUME NEW r, RawGood(r), r.start # "none", NEW p
  PROVE  /\ RawGood(DisposalTold(r, p)) /\ (Stopping(r) => Stopping(DisposalTold(r, p)))
         /\ DisposalTold(r, p).isRestarting = r.isRestarting
         /\ \/ DisposalTold(r, p).start = r.start
            \/ DisposalTold(r, p).start = "failed"
<1> DEFINE own == {w \in r.waits : w.proc = p}
           s == IF own = {} THEN r ELSE ShutDown([r EXCEPT !.waits = r.waits \ own])
           t == [s EXCEPT !.start = "failed", !.awaited = 0]
<1>1. r \in RawRecord /\ r.procs \in Seq(Processes) /\ Len(r.procs) \in Nat
  BY DEF RawGood, Shape, RawRecord
<1>2. DisposalTold(r, p) = IF s.start = "failing" /\ s.awaited = p THEN t ELSE s
  BY DEF DisposalTold
<1>3. Quieter(r.procs, r.procs)
  BY <1>1 DEF Quieter
<1>4. own \subseteq r.waits
  OBVIOUS
<1> HIDE DEF own
<1>5. /\ s \in RawRecord /\ s.procs = r.procs /\ s.start = r.start /\ s.cur = r.cur
      /\ s.hooked = r.hooked /\ s.socket = r.socket /\ s.isRestarting = r.isRestarting
      /\ s.waits \subseteq r.waits
      /\ s = r \/ (s.hasShutdown = TRUE /\ r.waits # {})
  BY <1>1, <1>4 DEF RawRecord, ShutDown
<1>6. Stopping(r) => Stopping(s)
  BY <1>5 DEF Stopping
<1>7. RawGood(s)
  <2>1. CASE s = r
    BY <2>1
  <2>2. CASE s.hasShutdown /\ r.waits # {}
    <3>1. Stopping(s) /\ (~Hasty => Stopping(r))
      BY <2>2 DEF Stopping, RawGood
    <3> QED
      BY <1>1, <1>3, <1>5, <3>1, QuieterGood
  <2> QED
    BY <1>5, <2>1, <2>2
<1> HIDE DEF s
<1>8. CASE s.start = "failing" /\ s.awaited = p
  <2>1. /\ t \in RawRecord /\ t.procs = s.procs /\ t.start = "failed" /\ t.cur = s.cur
        /\ t.hooked = s.hooked /\ t.socket = s.socket /\ t.isDisposed = s.isDisposed
        /\ t.waits = s.waits /\ t.isRestarting = s.isRestarting
        /\ t.isShuttingDown = s.isShuttingDown /\ t.hasShutdown = s.hasShutdown
    BY <1>5 DEF RawRecord
  <2> HIDE DEF t
  <2>2. Stopping(t) <=> Stopping(s)
    BY <2>1 DEF Stopping
  <2>3. RawGood(t)
    BY <1>1, <1>3, <1>5, <1>7, <1>8, <2>1, <2>2, QuieterGood
  <2> QED
    BY <1>2, <1>5, <1>6, <1>8, <2>1, <2>2, <2>3
<1>9. CASE ~(s.start = "failing" /\ s.awaited = p)
  BY <1>2, <1>5, <1>6, <1>7, <1>9
<1> QED
  BY <1>8, <1>9

(* dispose() goes on, past its killing and past its end.                    *)
LEMMA ClosingGood ==
  ASSUME NEW r, RawGood(r), r.start # "none", NEW p \in 1..Len(r.procs),
         NEW to \in {"killed", "closed"}
  PROVE  LET t == [r EXCEPT !.procs[p].closing = to]
         IN /\ RawGood(t) /\ (Stopping(t) <=> Stopping(r)) /\ t.start = r.start
            /\ t.isRestarting = r.isRestarting
<1>1. /\ r \in RawRecord /\ r.procs \in Seq(Processes) /\ r.procs[p] \in Processes
      /\ r.cur \in 0..Len(r.procs)
  BY DEF RawGood, Shape, RawRecord
<1> DEFINE new == [r.procs[p] EXCEPT !.closing = to]
           q == [r.procs EXCEPT ![p] = new]
           t == [r EXCEPT !.procs = q]
<1>2. /\ new \in Processes /\ new.os = r.procs[p].os /\ new.launch = r.procs[p].launch
      /\ new.closing # "no"
  BY <1>1 DEF Processes
<1>3. [r EXCEPT !.procs[p].closing = to] = t
  OBVIOUS
<1> HIDE DEF new
<1>4. q \in Seq(Processes) /\ Len(q) = Len(r.procs)
      /\ \A j \in 1..Len(r.procs) : q[j] = IF j = p THEN new ELSE r.procs[j]
  BY <1>1, <1>2
<1> HIDE DEF q
<1>5. Quieter(q, r.procs) /\ \A j \in 1..Len(r.procs) : q[j].launch = r.procs[j].launch
  BY <1>2, <1>4 DEF Quieter
<1>6. /\ t \in RawRecord /\ t.procs = q /\ t.start = r.start /\ t.cur = r.cur
      /\ t.hooked = r.hooked /\ t.socket = r.socket /\ t.isDisposed = r.isDisposed
      /\ t.waits = r.waits /\ t.isRestarting = r.isRestarting
      /\ t.isShuttingDown = r.isShuttingDown /\ t.hasShutdown = r.hasShutdown
  BY <1>1, <1>4 DEF RawRecord
<1> HIDE DEF t
<1>7. Stopping(t) <=> Stopping(r)
  BY <1>6 DEF Stopping
<1>8. RawGood(t)
  BY <1>1, <1>5, <1>6, <1>7, QuieterGood
<1> QED
  BY <1>3, <1>6, <1>7, <1>8

-----------------------------------------------------------------------------
(* The actions.                                                             *)

(* IInv holds at the start.                                                 *)
LEMMA InitIInv == RawInit => IInv
<1> SUFFICES ASSUME RawInit  PROVE IInv
  OBVIOUS
<1>1. raw \in RawRecord
  BY DEF RawInit, RawRecord
<1>2. Shape(raw) /\ Owned(raw) /\ Stopped(raw) /\ ~raw.isDisposed /\ raw.waits = {}
  BY <1>1 DEF RawInit, Shape, Owned, Stopped, Stopping
<1>3. session = "starting" /\ limited = FALSE /\ rawRestarts \in 0..MaxRawRestarts
  BY RawAssumption DEF RawInit
<1>4. raw.start = "none"
  BY DEF RawInit
<1> QED
  BY <1>2, <1>3, <1>4 DEF IInv, RawGood, SessionKnows

(* A step of the process that leaves the session alone.                     *)
LEMMA ProcessStep ==
  ASSUME IInv, UNCHANGED <<session, limited, rawRestarts>>, RawGood(raw'),
         raw.start # "none", raw'.start # "none", Stopping(raw) => Stopping(raw'),
         raw'.start \in {"launching", "readying"} =>
             /\ raw.start \in {"launching", "readying"}
             /\ raw'.isRestarting = raw.isRestarting
  PROVE  IInv'
<1>1. RawGood(raw)' /\ (Stopping(raw) => Stopping(raw)')
  BY DEF RawGood, Shape, Owned, Stopped, Stopping, Processes, RawRecord, ShutdownWaits
<1>2. SessionKnows'
  BY <1>1 DEF IInv, SessionKnows
<1> QED
  BY <1>1, <1>2 DEF IInv

(* The launch of a process.                                                 *)
LEMMA SpawnsIInv == ASSUME IInv, Spawns  PROVE IInv'
<1> DEFINE p == Len(raw.procs)
           new == [[raw.procs[p] EXCEPT !.launch = "spawned"] EXCEPT !.os = "runs"]
           q == [raw.procs EXCEPT ![p] = new]
           t == [raw EXCEPT !.procs = q]
<1>1. /\ RawGood(raw) /\ raw \in RawRecord /\ raw.procs \in Seq(Processes)
      /\ raw.start = "launching" /\ p \in 1..Len(raw.procs) /\ raw.cur = 0
      /\ raw.procs[p] \in Processes
  BY DEF IInv, RawGood, Shape, RawRecord, Spawns
<1>2. new \in Processes /\ new.closing = raw.procs[p].closing
  BY <1>1 DEF Processes
<1>3. raw' = [raw EXCEPT !.procs[p].launch = "spawned", !.procs[p].os = "runs"]
  BY DEF Spawns
<1> HIDE DEF p
<1>4. raw' = t
  BY <1>1, <1>3 DEF RawRecord
<1> HIDE DEF new
<1>5. q \in Seq(Processes) /\ Len(q) = Len(raw.procs)
      /\ \A j \in 1..Len(raw.procs) : q[j] = IF j = p THEN new ELSE raw.procs[j]
  BY <1>1, <1>2
<1> HIDE DEF q
<1>6. /\ t \in RawRecord /\ t.procs = q /\ t.start = raw.start /\ t.cur = raw.cur
      /\ t.hooked = raw.hooked /\ t.socket = raw.socket /\ t.isDisposed = raw.isDisposed
      /\ t.waits = raw.waits /\ t.isRestarting = raw.isRestarting
      /\ t.isShuttingDown = raw.isShuttingDown /\ t.hasShutdown = raw.hasShutdown
  BY <1>1, <1>5 DEF RawRecord
<1> HIDE DEF t
<1>7. Stopping(t) <=> Stopping(raw)
  BY <1>6 DEF Stopping
<1>8. Shape(t)
  BY <1>1, <1>5, <1>6, <1>7 DEF RawGood, Shape
<1>9. Owned(t)
  BY <1>1, <1>5, <1>6 DEF RawGood, Owned, p
<1>10. RawGood(t)
  BY <1>1, <1>6, <1>7, <1>8, <1>9 DEF RawGood, Stopped
<1> QED
  BY <1>1, <1>4, <1>6, <1>7, <1>10, ProcessStep DEF Spawns

(* A process is launched, and becomes the connection's.                     *)
LEMMA LaunchedIInv == ASSUME IInv, Launched  PROVE IInv'
<1> DEFINE p == Len(raw.procs)
           new == [raw.procs[p] EXCEPT !.launch = "up"]
           q == [raw.procs EXCEPT ![p] = new]
           t == [raw EXCEPT !.procs = q, !.cur = p, !.hooked = p, !.socket = TRUE,
                            !.start = "readying"]
<1>1. /\ RawGood(raw) /\ raw \in RawRecord /\ raw.procs \in Seq(Processes)
      /\ raw.start = "launching" /\ p \in 1..Len(raw.procs) /\ raw.cur = 0 /\ p \in Nat
      /\ raw.procs[p] \in Processes
  BY DEF IInv, RawGood, Shape, RawRecord, Launched
<1>2. /\ new \in Processes /\ new.os = raw.procs[p].os /\ new.launch = "up"
      /\ new.closing = raw.procs[p].closing
  BY <1>1 DEF Processes
<1>3. raw' = [raw EXCEPT !.procs[p].launch = "up", !.cur = p, !.hooked = p,
                         !.socket = TRUE, !.start = "readying"]
  BY DEF Launched
<1> HIDE DEF p
<1>4. raw' = t
  BY <1>1, <1>3 DEF RawRecord
<1> HIDE DEF new
<1>5. q \in Seq(Processes) /\ Len(q) = Len(raw.procs)
      /\ \A j \in 1..Len(raw.procs) : q[j] = IF j = p THEN new ELSE raw.procs[j]
  BY <1>1, <1>2
<1> HIDE DEF q
<1>6. /\ t \in RawRecord /\ t.procs = q /\ t.start = "readying" /\ t.cur = p
      /\ t.hooked = p /\ t.socket = TRUE /\ t.isDisposed = raw.isDisposed
      /\ t.waits = raw.waits /\ t.isRestarting = raw.isRestarting
      /\ t.isShuttingDown = raw.isShuttingDown /\ t.hasShutdown = raw.hasShutdown
  BY <1>1, <1>5 DEF RawRecord
<1> HIDE DEF t
<1>7. Stopping(t) <=> Stopping(raw)
  BY <1>6 DEF Stopping
<1>8. p = Len(q) /\ q # <<>>
  BY <1>1, <1>5 DEF p
<1>9. Shape(t)
  BY <1>1, <1>2, <1>5, <1>6, <1>7, <1>8 DEF Shape
<1>10. Owned(t)
  BY <1>1, <1>2, <1>5, <1>6 DEF RawGood, Owned, p
<1>11. RawGood(t)
  BY <1>1, <1>6, <1>7, <1>9, <1>10 DEF RawGood, Stopped
<1> QED
  BY <1>1, <1>4, <1>6, <1>7, <1>11, ProcessStep DEF Launched

(* The start of a process fails or succeeds.                                *)
LEMMA StartStepIInv ==
  ASSUME IInv, LaunchFails \/ Ready \/ NotReady  PROVE IInv'
<1>1. RawGood(raw)
  BY DEF IInv
<1>2. CASE LaunchFails
  BY <1>1, <1>2, LaunchEndsGood, ProcessStep DEF LaunchFails
<1>3. CASE NotReady
  BY <1>1, <1>3, StartErredGood, ProcessStep DEF NotReady
<1>4. CASE Ready
  <2>1. raw' = [raw EXCEPT !.start = "done", !.isRestarting = FALSE] /\ raw.start = "readying"
        /\ UNCHANGED <<session, limited, rawRestarts>>
    BY <1>4 DEF Ready
  <2>2. raw \in RawRecord /\ raw.procs \in Seq(Processes)
    BY <1>1 DEF RawGood, Shape, RawRecord
  <2>3. /\ raw' \in RawRecord /\ raw'.procs = raw.procs /\ raw'.start = "done"
        /\ raw'.cur = raw.cur /\ raw'.hooked = raw.hooked /\ raw'.socket = raw.socket
        /\ raw'.isDisposed = raw.isDisposed /\ raw'.waits = raw.waits
        /\ raw'.isShuttingDown = raw.isShuttingDown /\ raw'.hasShutdown = raw.hasShutdown
    BY <2>1, <2>2 DEF RawRecord
  <2>4. Stopping(raw') <=> Stopping(raw)
    BY <2>3 DEF Stopping
  <2>5. Quieter(raw.procs, raw.procs)
    BY <2>2 DEF Quieter
  <2> DEFINE t == raw'
  <2>6. RawGood(t)
    <3> HIDE DEF t
    <3>1. /\ t \in RawRecord /\ t.procs = raw.procs /\ t.start = "done"
          /\ t.cur = raw.cur /\ t.hooked = raw.hooked /\ t.socket = raw.socket
          /\ t.isDisposed = raw.isDisposed /\ t.waits = raw.waits
          /\ Stopping(t) <=> Stopping(raw)
      BY <2>3, <2>4 DEF t
    <3> QED
      BY <1>1, <2>1, <2>5, <3>1, QuieterGood
  <2> QED
    BY <2>1, <2>3, <2>4, <2>6, ProcessStep
<1> QED
  BY <1>2, <1>3, <1>4

(* A process ends, or is disposed of.                                       *)
LEMMA EndStepIInv ==
  ASSUME IInv, NEW p \in DOMAIN raw.procs, ProcessExits(p) \/ Killed(p) \/ Closed(p)
  PROVE  IInv'
<1>1. RawGood(raw) /\ p \in 1..Len(raw.procs) /\ raw.start # "none"
  BY DEF IInv, RawGood, Shape, RawRecord
<1>2. /\ RawGood(Exited(raw, p)) /\ Exited(raw, p).isRestarting = raw.isRestarting
      /\ Stopping(raw) => Stopping(Exited(raw, p))
      /\ p \in 1..Len(Exited(raw, p).procs)
      /\ Exited(raw, p).start = raw.start \/ Exited(raw, p).start \in {"failing", "failed"}
      /\ raw.start = "launching" => Exited(raw, p).start = "launching"
  BY <1>1, ExitedGood
<1>3. CASE ProcessExits(p)
  BY <1>1, <1>2, <1>3, LaunchEndsGood, ProcessStep DEF ProcessExits
<1>4. CASE Killed(p)
  <2>1. /\ raw' = [Exited(raw, p) EXCEPT !.procs[p].closing = "killed"]
        /\ UNCHANGED <<session, limited, rawRestarts>>
    BY <1>4 DEF Killed
  <2>2. /\ RawGood(raw') /\ (Stopping(raw') <=> Stopping(Exited(raw, p)))
        /\ raw'.start = Exited(raw, p).start
        /\ raw'.isRestarting = Exited(raw, p).isRestarting
    <3> DEFINE e == Exited(raw, p)
               t == [e EXCEPT !.procs[p].closing = "killed"]
    <3>1. RawGood(e) /\ e.start # "none" /\ p \in 1..Len(e.procs)
      BY <1>1, <1>2
    <3> HIDE DEF e
    <3>2. RawGood(t) /\ (Stopping(t) <=> Stopping(e)) /\ t.start = e.start
          /\ t.isRestarting = e.isRestarting
      BY <3>1, ClosingGood
    <3> QED
      BY <2>1, <3>2 DEF e
  <2> QED
    BY <1>1, <1>2, <2>1, <2>2, ProcessStep
<1>5. CASE Closed(p)
  <2> DEFINE t == [raw EXCEPT !.procs[p].closing = "closed"]
  <2>1. raw' = DisposalTold(t, p) /\ UNCHANGED <<session, limited, rawRestarts>>
    BY <1>5 DEF Closed
  <2>2. /\ RawGood(t) /\ (Stopping(t) <=> Stopping(raw)) /\ t.start = raw.start
        /\ t.isRestarting = raw.isRestarting
    BY <1>1, ClosingGood
  <2> HIDE DEF t
  <2>3. /\ RawGood(raw') /\ (Stopping(t) => Stopping(raw'))
        /\ raw'.isRestarting = t.isRestarting /\ (raw'.start = t.start \/ raw'.start = "failed")
    BY <1>1, <2>1, <2>2, DisposalToldGood
  <2> QED
    BY <1>1, <2>1, <2>2, <2>3, ProcessStep
<1> QED
  BY <1>3, <1>4, <1>5

(* The session starts its kernel.                                           *)
LEMMA StartKernelIInv == ASSUME IInv, StartKernel  PROVE IInv'
<1>1. /\ RawGood(raw) /\ raw.start = "none" /\ session = "starting"
      /\ raw' = LaunchNext(raw) /\ UNCHANGED <<session, limited, rawRestarts>>
  BY DEF IInv, StartKernel
<1>2. /\ raw \in RawRecord /\ raw.cur \in 0..Len(raw.procs)
      /\ raw.hooked \in 0..Len(raw.procs) /\ ~raw.isDisposed /\ ~Stopping(raw)
      /\ raw.waits = {} /\ Len(raw.procs) = 0
  BY <1>1 DEF RawGood, Shape, RawRecord
<1>3. RawGood(raw') /\ raw'.start = "launching"
  BY <1>1, <1>2, LaunchNextGood
<1>4. RawGood(raw)'
  BY <1>3 DEF RawGood, Shape, Owned, Stopped, Stopping, Processes, RawRecord, ShutdownWaits
<1> QED
  BY <1>1, <1>3, <1>4 DEF IInv, SessionKnows

(* A restart: the process there is is being disposed of, for nothing awaits *)
(* a shutdown unless restarts are hasty.                                    *)
LEMMA RestartIInv == ASSUME IInv, Restart  PROVE IInv'
<1> DEFINE r == [raw EXCEPT !.isDisposed = FALSE, !.isShuttingDown = FALSE,
                            !.hasShutdown = FALSE, !.isRestarting = TRUE]
<1>1. /\ RawGood(raw) /\ raw.start = "done" /\ session = "live"
      /\ raw.waits = {} \/ Hasty
      /\ rawRestarts < MaxRawRestarts
      /\ rawRestarts' = rawRestarts + 1
      /\ raw' = LaunchNext(r) /\ UNCHANGED <<session, limited>>
  BY DEF IInv, Restart
<1>2. raw \in RawRecord
  BY <1>1 DEF RawGood, Shape
<1>3. /\ r \in RawRecord /\ r.procs = raw.procs /\ r.cur = raw.cur
      /\ r.hooked = raw.hooked /\ r.waits = raw.waits
      /\ ~r.isDisposed /\ ~r.isShuttingDown /\ ~r.hasShutdown /\ r.isRestarting
  BY <1>2 DEF RawRecord
<1> HIDE DEF r
<1>4. /\ r.cur \in 0..Len(r.procs) /\ r.hooked \in 0..Len(r.procs) /\ ~Stopping(r)
  BY <1>1, <1>2, <1>3 DEF RawGood, Shape, RawRecord, Stopping
<1>5. \A p \in 1..Len(r.procs) :
          r.procs[p].os = "runs" => r.procs[p].closing # "no" \/ p = r.cur
  BY <1>1, <1>3 DEF RawGood, Owned
<1>6. RawGood(raw') /\ raw'.start = "launching" /\ raw'.isRestarting
  BY <1>1, <1>3, <1>4, <1>5, LaunchNextGood
<1>7. RawGood(raw)'
  BY <1>6 DEF RawGood, Shape, Owned, Stopped, Stopping, Processes, RawRecord, ShutdownWaits
<1>8. rawRestarts' \in 0..MaxRawRestarts
  BY <1>1, RawAssumption DEF IInv, Restart
<1> QED
  BY <1>1, <1>6, <1>7, <1>8 DEF IInv, SessionKnows

(* The session is shut down.                                                *)
LEMMA ShutStepIInv ==
  ASSUME IInv, SessionNotCreated \/ CancelStart \/ ShutdownAsked  PROVE IInv'
<1>1. RawGood(raw) /\ limited \in BOOLEAN /\ rawRestarts \in 0..MaxRawRestarts
  BY DEF IInv
<1>2. ASSUME NEW r, RawGood(r), r.start # "none", r.start = "launching" => r.isRestarting,
             NEW l \in BOOLEAN, ShutSession(r, l)
      PROVE  IInv'
  <2>1. /\ RawGood(raw') /\ Stopping(raw')
        /\ (raw'.start = r.start \/ raw'.start \in {"failing", "failed"})
    BY <1>2, ShutdownGood DEF ShutSession
  <2>2. RawGood(raw)' /\ Stopping(raw)'
    BY <2>1 DEF RawGood, Shape, Owned, Stopped, Stopping, Processes, RawRecord, ShutdownWaits
  <2> QED
    BY <1>1, <1>2, <2>1, <2>2 DEF IInv, SessionKnows, ShutSession
<1>3. CASE SessionNotCreated
  BY <1>1, <1>2, <1>3 DEF SessionNotCreated
<1>4. CASE CancelStart
  <2>1. /\ RawGood(TokenCancelled(raw))
        /\ TokenCancelled(raw).start \notin {"none", "launching"}
    <3>1. CASE raw.start = "launching"
      BY <1>1, <3>1, LaunchEndsGood DEF TokenCancelled
    <3>2. CASE raw.start = "readying"
      BY <1>1, <3>2, StartErredGood DEF TokenCancelled
    <3>3. CASE raw.start = "failing"
      BY <1>1, <3>3 DEF TokenCancelled
    <3> QED
      BY <1>4, <3>1, <3>2, <3>3 DEF CancelStart
  <2> QED
    BY <1>2, <1>4, <2>1 DEF CancelStart
<1>5. CASE ShutdownAsked
  BY <1>1, <1>2, <1>5 DEF ShutdownAsked, IInv, SessionKnows
<1> QED
  BY <1>3, <1>4, <1>5

(* The session is created.                                                  *)
LEMMA SessionCreatedIInv == ASSUME IInv, SessionCreated  PROVE IInv'
  BY DEF SessionCreated, IInv, SessionKnows, RawGood, Shape, Owned, Stopped, Stopping

(* The session is disposed, and its connection with it.                     *)
LEMMA SessionDisposedIInv == ASSUME IInv, SessionDisposed  PROVE IInv'
<1> DEFINE r == [raw EXCEPT !.isDisposing = TRUE]
           t == Shutdown(r, "dispose")
           u == [t EXCEPT !.isDisposed = TRUE]
<1>1. /\ RawGood(raw) /\ session = "shutting" /\ session' = "disposed"
      /\ raw' \in {raw, t, u} /\ UNCHANGED <<limited, rawRestarts>>
      /\ Stopping(raw) /\ raw.start # "none"
  BY DEF IInv, SessionKnows, SessionDisposed
<1>2. raw \in RawRecord /\ raw.procs \in Seq(Processes)
  BY <1>1 DEF RawGood, Shape, RawRecord
<1>3. /\ r \in RawRecord /\ r.procs = raw.procs /\ r.start = raw.start
      /\ r.cur = raw.cur /\ r.hooked = raw.hooked /\ r.socket = raw.socket
      /\ r.isDisposed = raw.isDisposed /\ r.waits = raw.waits
      /\ r.isShuttingDown = raw.isShuttingDown /\ r.hasShutdown = raw.hasShutdown
  BY <1>2 DEF RawRecord
<1> HIDE DEF r
<1>4. Stopping(r) <=> Stopping(raw)
  BY <1>3 DEF Stopping
<1>5. Quieter(raw.procs, raw.procs)
  BY <1>2 DEF Quieter
<1>6. RawGood(r)
  BY <1>1, <1>3, <1>4, <1>5, QuieterGood
<1>7. RawGood(t) /\ Stopping(t) /\ (t.start = r.start \/ t.start \in {"failing", "failed"})
  BY <1>1, <1>3, <1>4, <1>6, ShutdownGood
<1> HIDE DEF t
<1>8. t \in RawRecord /\ t.procs \in Seq(Processes) /\ t.start # "none"
  BY <1>1, <1>3, <1>7 DEF RawGood, Shape, RawRecord
<1>9. /\ u \in RawRecord /\ u.procs = t.procs /\ u.start = t.start
      /\ u.cur = t.cur /\ u.hooked = t.hooked /\ u.socket = t.socket /\ u.waits = t.waits
      /\ u.isShuttingDown = t.isShuttingDown /\ u.hasShutdown = t.hasShutdown
  BY <1>8 DEF RawRecord
<1> HIDE DEF u
<1>10. Stopping(u) /\ Quieter(t.procs, t.procs)
  BY <1>7, <1>8, <1>9 DEF Stopping, Quieter
<1>11. RawGood(u)
  BY <1>7, <1>8, <1>9, <1>10, QuieterGood
<1>12. RawGood(raw') /\ Stopping(raw') /\ raw'.start # "none"
  BY <1>1, <1>7, <1>8, <1>9, <1>10, <1>11
<1>13. RawGood(raw)' /\ Stopping(raw)'
  BY <1>12 DEF RawGood, Shape, Owned, Stopped, Stopping, Processes, RawRecord, ShutdownWaits
<1> QED
  BY <1>1, <1>12, <1>13 DEF IInv, SessionKnows

(* Every action keeps IInv.                                                 *)
LEMMA NextIInv == IInv /\ [RawNext]_rawVars => IInv'
<1> SUFFICES ASSUME IInv, [RawNext]_rawVars  PROVE IInv'
  OBVIOUS
<1>1. CASE Spawns \/ Launched
  BY <1>1, SpawnsIInv, LaunchedIInv
<1>2. CASE LaunchFails \/ Ready \/ NotReady
  BY <1>2, StartStepIInv
<1>3. CASE SessionCreated \/ SessionDisposed
  BY <1>3, SessionCreatedIInv, SessionDisposedIInv
<1>4. CASE SessionNotCreated \/ CancelStart \/ ShutdownAsked
  BY <1>4, ShutStepIInv
<1>5. CASE StartKernel \/ Restart
  BY <1>5, StartKernelIInv, RestartIInv
<1>6. ASSUME NEW p \in DOMAIN raw.procs, ProcessExits(p) \/ Killed(p) \/ Closed(p)
      PROVE  IInv'
  BY <1>6, EndStepIInv
<1>7. CASE UNCHANGED rawVars
  BY <1>7 DEF rawVars, IInv, SessionKnows, RawGood, Shape, Owned, Stopped, Stopping
<1> QED
  BY <1>1, <1>2, <1>3, <1>4, <1>5, <1>6, <1>7 DEF RawNext, RawStep

(* So IInv always holds.                                                    *)
LEMMA AlwaysIInv == RawSpec => []IInv
  BY InitIInv, NextIInv, PTL DEF RawSpec

-----------------------------------------------------------------------------
(* The theorems.                                                            *)

(* Every variable keeps its type: the process of a connection is the latest *)
(* that was launched (RawKernelConnection), with hasty restarts too.        *)
THEOREM TypeCorrect == RawSpec => []RawTypeOK
<1>1. IInv => RawTypeOK
  BY DEF IInv, RawGood, Shape, RawTypeOK
<1> QED
  BY <1>1, AlwaysIInv, PTL

(* "RawSession owns the lifetime of the kernel process": unless a restart   *)
(* overtakes a shutdown, no process outlives the session, whatever failed,  *)
(* exited, was cancelled or restarted in which order.                       *)
THEOREM ProcessesDie ==
  ASSUME ~Hasty  PROVE RawSpec => []DiesWithSession
<1>1. IInv => DiesWithSession
  BY DEF IInv, SessionKnows, RawGood, Shape, Owned, Stopped, DiesWithSession, RawRecord
<1> QED
  BY <1>1, AlwaysIInv, PTL

=============================================================================
