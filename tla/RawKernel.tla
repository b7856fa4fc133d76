----------------------------- MODULE RawKernel -----------------------------
(***************************************************************************)
(* The kernel process of a local kernel and who disposes of it:            *)
(* RawKernelConnection, which starts and restarts it, the KernelProcess of *)
(* each launch, and the session, whose factory or wrapper shuts it down.   *)
(*                                                                         *)
(* Many calls meet in one process: start() disposes the old one and, when  *)
(* it fails, the new one; the exit of a process shuts the connection down; *)
(* so does the session; a restart takes all of that back.  The promises of *)
(* an await that are settled go on in the step that settles them.          *)
(***************************************************************************)
EXTENDS Integers, SequencesExt

CONSTANTS
    MaxRawRestarts,  \* bound: restarts of the kernel
    Hasty            \* restart() may be called while shutdown() awaits the process

ASSUME RawAssumption == MaxRawRestarts \in Nat /\ Hasty \in BOOLEAN

VARIABLES
    raw,       \* the connection and its processes, see RawRecord
    session,   \* "starting" (by the factory), "live", "shutting", "disposed"
    limited,   \* session.shutdown() is awaited for a second only
    rawRestarts \* how many of MaxRawRestarts there have been

rawVars == <<raw, session, limited, rawRestarts>>

\* A process: that of the operating system, the launch, dispose(), exitEventFired.
Processes == [os : {"none", "runs", "gone"}, launch : {"preparing", "spawned", "up", "failed"},
              closing : {"no", "closing", "killed", "closed"}, fired : BOOLEAN]
NewProcess == [os |-> "none", launch |-> "preparing", closing |-> "no", fired |-> FALSE]

\* A call of shutdown() awaits proc, or, as 0, something that will not happen.
ShutdownWaits == [by : {"exit", "session", "dispose"}, proc : Nat]

RawRecord ==
    [procs : Seq(Processes),
     cur : Nat,        \* kernelProcess: one of them, or 0
     hooked : Nat,     \* the one exitHandler is for
     socket : BOOLEAN, \* there is a socket
     start : {"none", "launching", "readying", "failing", "done", "failed"},
     awaited : Nat,    \* what a start that is failing awaits, as in ShutdownWaits
     isRestarting : BOOLEAN, isShuttingDown : BOOLEAN, hasShutdown : BOOLEAN,
     isDisposing : BOOLEAN, isDisposed : BOOLEAN,
     waits : SUBSET ShutdownWaits]

RawInit ==
    /\ raw = [procs |-> <<>>, cur |-> 0, hooked |-> 0, socket |-> FALSE,
              start |-> "none", awaited |-> 0, isRestarting |-> FALSE,
              isShuttingDown |-> FALSE, hasShutdown |-> FALSE,
              isDisposing |-> FALSE, isDisposed |-> FALSE, waits |-> {}]
    /\ session = "starting" /\ limited = FALSE /\ rawRestarts = 0

-----------------------------------------------------------------------------
(* What the steps do to the connection r.                                   *)

\* KernelProcess.dispose(), up to its first await.
Close(r, p) ==
    IF p = 0 \/ r.procs[p].closing # "no" THEN r
    ELSE [r EXCEPT !.procs[p].closing = "closing"]

\* disposeAsync: an event that has been raised already will not be.
Awaited(r, p) == IF r.procs[p].closing = "closed" THEN 0 ELSE p

\* The launch that is under way, which is that of the last process, fails.
LaunchEnds(r) ==
    LET p == Len(r.procs)
    IN [Close(r, p) EXCEPT !.procs[p].launch = "failed", !.start = "failed"]

\* The catch of start(), once there is a process.
StartErred(r) ==
    [Close(r, r.cur) EXCEPT !.start = "failing", !.awaited = Awaited(r, r.cur)]

\* The token of start() is cancelled.
TokenCancelled(r) ==
    CASE r.start = "launching" -> LaunchEnds(r)
      [] r.start = "readying"  -> StartErred(r)
      [] OTHER                 -> r

\* shutdown() after its await.
ShutDown(r) ==
    [r EXCEPT !.isShuttingDown = FALSE, !.hasShutdown = TRUE,
              !.isDisposed = @ \/ r.isDisposing]

\* shutdown(), called by who.  It throws where there is no socket yet.
\* Variant: the restart under way is not cancelled.
RestartGoesOn(r) == r

RestartCancelled(r) == IF r.isRestarting THEN TokenCancelled(r) ELSE r

Shutdown(r, who) ==
    LET t == [RestartCancelled(r) EXCEPT !.isShuttingDown = TRUE]
    IN IF r.isShuttingDown \/ r.hasShutdown THEN r
       ELSE IF t.cur # 0
       THEN [Close(t, t.cur) EXCEPT
                !.waits = @ \cup {[by |-> who, proc |-> Awaited(t, t.cur)]}]
       ELSE IF t.socket THEN ShutDown(t)
       ELSE t

\* status, where exitHandler asks for it.
DeadOrTerminating(r) ==
    r.isDisposed \/ r.hasShutdown \/ (r.isShuttingDown /\ ~r.isRestarting)

\* exitHandler minds the exit of the process there is.
Minds(r, p) ==
    r.hooked = p /\ r.cur = p /\ ~r.isDisposing /\ ~DeadOrTerminating(r)

\* The event exited of p, which is raised once: exitHandler, and start().
Exited(r, p) ==
    LET s == [r EXCEPT !.procs[p].os = IF @ = "runs" THEN "gone" ELSE @,
                       !.procs[p].fired = TRUE]
        t == IF Minds(s, p) THEN Shutdown(s, "exit") ELSE s
    IN IF r.procs[p].fired THEN [r EXCEPT !.procs[p].os = s.procs[p].os]
       ELSE IF t.start = "readying" /\ t.cur = p THEN StartErred(t)
       ELSE t

\* start(), up to the launch of a process.
OldCloses(r) == Close(r, r.cur)

\* Variant: it stays the connection's process.
LaunchBeside(r) ==
    [OldCloses(r) EXCEPT !.procs = Append(@, NewProcess), !.start = "launching"]

LaunchNext(r) ==
    [OldCloses(r) EXCEPT !.procs = Append(@, NewProcess), !.cur = 0, !.start = "launching"]

-----------------------------------------------------------------------------
(* Processes.                                                               *)

\* The end of launchAsObservable.  A launch that was cancelled throws before.
Spawns ==
    LET p == Len(raw.procs)
    IN /\ raw.start = "launching" /\ raw.procs[p].launch = "preparing"
       /\ raw' = [raw EXCEPT !.procs[p].launch = "spawned", !.procs[p].os = "runs"]
       /\ UNCHANGED <<session, limited, rawRestarts>>

\* The ports are in use; start() goes on to newRawKernel.
Launched ==
    LET p == Len(raw.procs)
    IN /\ raw.start = "launching" /\ raw.procs[p].launch = "spawned"
       /\ raw' = [raw EXCEPT !.procs[p].launch = "up", !.cur = p, !.hooked = p,
                             !.socket = TRUE, !.start = "readying"]
       /\ UNCHANGED <<session, limited, rawRestarts>>

\* It cannot be spawned, or its ports are not used in time.
LaunchFails ==
    /\ raw.start = "launching"
    /\ raw' = LaunchEnds(raw)
    /\ UNCHANGED <<session, limited, rawRestarts>>

\* The process ends by itself.
ProcessExits(p) ==
    /\ raw.procs[p].os = "runs" /\ raw.procs[p].closing # "closed"
    /\ raw' = IF raw.procs[p].launch = "spawned" /\ raw.start = "launching"
              THEN LaunchEnds(Exited(raw, p)) ELSE Exited(raw, p)
    /\ UNCHANGED <<session, limited, rawRestarts>>

\* dispose() goes on when it has killed the child processes.
Killed(p) ==
    /\ raw.procs[p].closing = "closing"
    /\ raw' = [Exited(raw, p) EXCEPT !.procs[p].closing = "killed"]
    /\ UNCHANGED <<session, limited, rawRestarts>>

\* The connection file is deleted: onDidDispose, which those who wait for have.
\* Variant: nobody is told.
NobodyIsTold(r, p) == r

DisposalTold(r, p) ==
    LET own == {w \in r.waits : w.proc = p}
        s == IF own = {} THEN r ELSE ShutDown([r EXCEPT !.waits = @ \ own])
    IN IF s.start = "failing" /\ s.awaited = p
       THEN [s EXCEPT !.start = "failed", !.awaited = 0] ELSE s

Closed(p) ==
    /\ raw.procs[p].closing = "killed"
    /\ raw' = DisposalTold([raw EXCEPT !.procs[p].closing = "closed"], p)
    /\ UNCHANGED <<session, limited, rawRestarts>>

-----------------------------------------------------------------------------
(* The session.                                                             *)

StartKernel ==
    /\ session = "starting" /\ raw.start = "none"
    /\ raw' = LaunchNext(raw)
    /\ UNCHANGED <<session, limited, rawRestarts>>

\* postStartKernel.
Ready ==
    /\ raw.start = "readying"
    /\ raw' = [raw EXCEPT !.start = "done", !.isRestarting = FALSE]
    /\ UNCHANGED <<session, limited, rawRestarts>>

\* The kernel does not answer in time.
NotReady ==
    /\ raw.start = "readying"
    /\ raw' = StartErred(raw)
    /\ UNCHANGED <<session, limited, rawRestarts>>

\* RawKernelSessionFactory.create(): a wrapper for the session.
SessionCreated ==
    /\ session = "starting" /\ raw.start = "done"
    /\ session' = "live"
    /\ UNCHANGED <<raw, limited, rawRestarts>>

\* RawSessionConnection.shutdown().
ShutSession(r, isLimited) ==
    /\ session' = "shutting" /\ limited' = isLimited
    /\ raw' = Shutdown(r, "session")
    /\ UNCHANGED rawRestarts

\* create(), its catch: the start has failed, or its token is cancelled.
SessionNotCreated ==
    /\ session = "starting" /\ raw.start = "failed"
    /\ ShutSession(raw, FALSE)

CancelStart ==
    /\ session = "starting" /\ raw.start \in {"launching", "readying", "failing"}
    /\ ShutSession(TokenCancelled(raw), FALSE)

\* RawJupyterSessionWrapper.shutdown(): the kernel is disposed, or its restart failed.
ShutdownAsked ==
    /\ session = "live"
    /\ ShutSession(raw, TRUE)

\* session.dispose(), when session.shutdown() has returned or a second has passed:
\* RawKernelConnection.dispose().
SessionDisposed ==
    /\ session = "shutting"
    /\ limited \/ ~ \E w \in raw.waits : w.by = "session"
    /\ session' = "disposed"
    /\ raw' = IF raw.isDisposed THEN raw
              ELSE LET t == Shutdown([raw EXCEPT !.isDisposing = TRUE], "dispose")
                   IN IF \E w \in t.waits : w.by = "dispose" THEN t
                      ELSE [t EXCEPT !.isDisposed = TRUE]
    /\ UNCHANGED <<limited, rawRestarts>>

\* RawKernelConnection.restart(), of a kernel that was started, perhaps dead by now.
Restart ==
    /\ session = "live" /\ raw.start = "done" /\ rawRestarts < MaxRawRestarts
    /\ raw.waits = {} \/ Hasty
    /\ rawRestarts' = rawRestarts + 1
    /\ raw' = LaunchNext([raw EXCEPT !.isDisposed = FALSE, !.isShuttingDown = FALSE,
                                 !.hasShutdown = FALSE, !.isRestarting = TRUE])
    /\ UNCHANGED <<session, limited>>

\* What goes on by itself: nothing of it takes for ever.
RawStep ==
    \/ Spawns \/ Launched \/ LaunchFails \/ Ready \/ NotReady
    \/ SessionCreated \/ SessionNotCreated \/ SessionDisposed
    \/ \E p \in DOMAIN raw.procs : Killed(p) \/ Closed(p)

RawNext ==
    \/ RawStep
    \/ \E p \in DOMAIN raw.procs : ProcessExits(p)
    \/ StartKernel \/ CancelStart \/ ShutdownAsked \/ Restart

RawSpec == RawInit /\ [][RawNext]_rawVars

RawFairness == WF_rawVars(RawStep)

-----------------------------------------------------------------------------
(* Properties.                                                              *)

(* Every variable keeps its type; the connection's process is one of its    *)
(* own, launched, and the latest that was.                                  *)
RawTypeOK ==
    /\ raw \in RawRecord
    /\ raw.cur \in {0, Len(raw.procs)} /\ raw.hooked \in 0..Len(raw.procs)
    /\ raw.cur # 0 => raw.procs[raw.cur].launch = "up" /\ raw.socket
    /\ raw.start \in {"launching", "readying"} => raw.procs # <<>>
    /\ session \in {"starting", "live", "shutting", "disposed"}
    /\ limited \in BOOLEAN /\ rawRestarts \in 0..MaxRawRestarts

(* "RawSession owns the lifetime of the kernel process and will dispose     *)
(* it": when it is disposed, no process runs that is not being killed.      *)
DiesWithSession ==
    session = "disposed" =>
        \A p \in DOMAIN raw.procs :
            raw.procs[p].os = "runs" => raw.procs[p].closing # "no"

(* Whatever else has disposed of the process by then, a session that is     *)
(* being shut down is disposed in the end, and a start comes to an end.     *)
SessionEnds ==
    /\ session = "shutting" ~> session = "disposed"
    /\ raw.start = "failing" ~> raw.start # "failing"

=============================================================================
