--------------------------- MODULE KernelLifecycle ---------------------------
(***************************************************************************)
(* The kernel of one notebook, kernel.ts: starting a session, restarting   *)
(* and interrupting it, disposing the kernel, and the end of a session.    *)
(* Kernels that the extension starts are modelled, not the live remote     *)
(* kernels it connects to.                                                 *)
(*                                                                         *)
(* Every method awaits, and each await lets the other methods run: an      *)
(* action is the code between two of them.  A call of createJupyterSession *)
(* is named after the call of start() or restart() that makes it, and so   *)
(* is the session it gets: a call creates one at most.                     *)
(***************************************************************************)
EXTENDS FiniteSets

CONSTANTS
    Starts,      \* calls of start() that may create a session
    Restarts,    \* calls of restart()
    Interrupts,  \* calls of interrupt(), which may go on to restart
    Overlapping, \* whether a restart may begin while another one is under way
    None         \* the JavaScript value undefined

Requests == Restarts \cup Interrupts
Calls    == Starts \cup Requests

ASSUME KernelAssumption ==
    /\ Starts \cap Requests = {} /\ Restarts \cap Interrupts = {}
    /\ Overlapping \in BOOLEAN
    /\ None \notin Calls

VARIABLES
    \* fields of BaseKernel
    promise,         \* _jupyterSessionPromise: the creation it is the promise of
    session,         \* _session
    kernelDead,      \* isKernelDead
    ignoring,        \* _ignoreJupyterSessionDisposedErrors
    hooked,          \* hookedSessionForEvents
    cancelRequested, \* startCancellation.token.isCancellationRequested
    holders,         \* the creations whose token startCancellation still has
    stopped,         \* the creations whose token is cancelled
    restarting,      \* the session _restartPromise restarts
    interrupting,    \* the call of interrupt() that made _interruptPromise
    dispose,         \* how far dispose() is; not "no" once _disposing is set
    disposeOn,       \* the creation, then the session, dispose() awaits
    \* what is suspended, and where
    phase,           \* how far each createJupyterSession() is
    pc,              \* how far each restart() or interrupt() is
    on,              \* the creation, session or call it awaits
    \* the sessions (IKernelSession)
    life

ownVars   == <<promise, session>>
tokenVars == <<cancelRequested, holders, stopped>>
callVars  == <<pc, on>>
downVars  == <<dispose, disposeOn>>
flagVars  == <<kernelDead, ignoring, hooked>>
sharedVars == <<restarting, interrupting>>
vars == <<ownVars, tokenVars, callVars, downVars, flagVars, sharedVars, phase, life>>

-----------------------------------------------------------------------------
(* tracking, creating, hooks, setup, idle, shutting: where a creation       *)
(* awaits; shutting: it has failed, and its session is shut down first.     *)
Running   == {"tracking", "creating", "hooks", "setup", "idle", "shutting"}
Phases    == {"none", "fulfilled", "rejected"} \cup Running
InFlight(c) == phase[c] \in Running
Settled(c)  == phase[c] \in {"fulfilled", "rejected"}

RestartPCs == {"willRestart", "finding", "restarting", "restarted", "starting",
               "failing", "closing", "initHooks", "initSetup", "initIdle", "initShutting"}
PCs == {"idle", "seeking", "interrupting", "asking", "done", "failed", "stuck"}
           \cup RestartPCs
\* Where a call is suspended on something.
Waiting == {"finding", "starting", "closing", "initSetup", "initIdle", "initShutting",
            "seeking", "interrupting"}

\* Where it has not asked for a session of its own.
Unstarted == {"idle", "seeking", "interrupting", "asking", "willRestart", "finding"}

Lives == {"none", "live", "closing", "ended"}

disposing == dispose # "no"
disposed  == dispose \in {"closing", "done", "stuck"}

Init ==
    /\ promise = None /\ session = None
    /\ kernelDead = FALSE /\ ignoring = FALSE /\ hooked = {}
    /\ cancelRequested = FALSE /\ holders = {} /\ stopped = {}
    /\ restarting = None /\ interrupting = None
    /\ dispose = "no" /\ disposeOn = None
    /\ phase = [c \in Calls |-> "none"]
    /\ pc = [c \in Requests |-> "idle"]
    /\ on = [c \in Requests |-> None]
    /\ life = [c \in Calls |-> "none"]

Goes(c, where) == pc' = [pc EXCEPT ![c] = where]
Awaits(c, where, what) == Goes(c, where) /\ on' = [on EXCEPT ![c] = what]

\* startCancellation.cancel(); every factory that was given this token hears it.
Cancel ==
    /\ cancelRequested' = TRUE /\ stopped' = stopped \cup holders
    /\ UNCHANGED holders

\* startCancellation = new CancellationTokenSource()
NewToken ==
    /\ cancelRequested' = FALSE /\ holders' = {}
    /\ UNCHANGED stopped

\* Variant: the token is replaced even if it was not cancelled.
AlwaysRenewToken == NewToken

RenewToken == IF cancelRequested THEN NewToken ELSE UNCHANGED tokenVars

\* Shutting down or disposing a session: it ends some time later.
Close(s) == life' = [life EXCEPT ![s] = IF @ = "live" THEN "closing" ELSE @]

-----------------------------------------------------------------------------
(* start() and createJupyterSession().                                      *)

\* startJupyterSession when there is no promise yet.
BeginCreation(c) ==
    /\ promise' = c
    /\ phase' = [phase EXCEPT ![c] = "tracking"]

\* Variant: a start looks for the session instead of the promise of one.
StartUnlessAdopted(c) ==
    /\ phase[c] = "none"
    /\ RenewToken
    /\ IF disposing \/ session # None
       THEN UNCHANGED <<promise, phase>>
       ELSE BeginCreation(c)
    /\ UNCHANGED <<session, callVars, downVars, flagVars, sharedVars, life>>

(* start(): the promise there is is returned, which changes nothing but the *)
(* token; a kernel being disposed throws.                                   *)
Start(c) ==
    /\ phase[c] = "none"
    /\ RenewToken
    /\ IF disposing \/ promise # None
       THEN UNCHANGED <<promise, phase>>
       ELSE BeginCreation(c)
    /\ UNCHANGED <<session, callVars, downVars, flagVars, sharedVars, life>>

\* Variant: the promise of a creation that failed is kept.
RejectsAndKeeps(c) ==
    /\ phase' = [phase EXCEPT ![c] = "rejected"]
    /\ Cancel /\ UNCHANGED promise

(* createJupyterSession throws: startJupyterSession, the first to hear of   *)
(* it, cancels the token and clears the promise, whichever they now are.    *)
Rejects(c) ==
    /\ phase' = [phase EXCEPT ![c] = "rejected"]
    /\ Cancel /\ promise' = None

Tracked(c) ==
    /\ phase[c] = "tracking"
    /\ IF disposing \/ cancelRequested
       THEN Rejects(c) /\ UNCHANGED kernelDead
       ELSE /\ phase' = [phase EXCEPT ![c] = "creating"]
            /\ kernelDead' = FALSE
            /\ holders' = holders \cup {c}
            /\ UNCHANGED <<promise, cancelRequested, stopped>>
    /\ UNCHANGED <<session, callVars, downVars, ignoring, hooked, sharedVars, life>>

\* sessionCreator.create: it may take for ever, for it may ask the user.
FactoryFails(c) ==
    /\ phase[c] = "creating"
    /\ Rejects(c)
    /\ UNCHANGED <<session, callVars, downVars, flagVars, sharedVars, life>>

\* The factory throws if its token was cancelled, and shuts its session down.
FactorySucceeds(c) ==
    /\ phase[c] = "creating" /\ c \notin stopped
    /\ life' = [life EXCEPT ![c] = "live"]
    /\ IF disposing \/ cancelRequested
       THEN Rejects(c)
       ELSE /\ phase' = [phase EXCEPT ![c] = "hooks"]
            /\ UNCHANGED <<promise, tokenVars>>
    /\ UNCHANGED <<session, callVars, downVars, flagVars, sharedVars>>

(* initializeAfterStart: the hooks didStart, then the code that is run on   *)
(* the kernel, then waitForIdle, which shuts the session down if it fails   *)
(* or is cancelled.                                                         *)
HooksRun(c) ==
    /\ phase[c] = "hooks"
    /\ phase' = [phase EXCEPT ![c] = "setup"]
    /\ hooked' = hooked \cup {c}
    /\ UNCHANGED <<ownVars, tokenVars, callVars, downVars, kernelDead, ignoring, sharedVars, life>>

SetupEnds(c) ==
    /\ phase[c] = "setup"
    /\ phase' = [phase EXCEPT ![c] = "idle"]
    /\ UNCHANGED <<ownVars, tokenVars, callVars, downVars, flagVars, sharedVars, life>>

SetupFails(c) ==
    /\ phase[c] = "setup"
    /\ Rejects(c)
    /\ UNCHANGED <<session, callVars, downVars, flagVars, sharedVars, life>>

Adopts(c) ==
    IF disposing
    THEN Rejects(c) /\ UNCHANGED session
    ELSE /\ session' = c
         /\ phase' = [phase EXCEPT ![c] = "fulfilled"]
         /\ UNCHANGED <<promise, tokenVars>>

IdleReached(c) ==
    /\ phase[c] = "idle"
    /\ Adopts(c)
    /\ UNCHANGED <<callVars, downVars, flagVars, sharedVars, life>>

IdleFails(c) ==
    /\ phase[c] = "idle"
    /\ phase' = [phase EXCEPT ![c] = "shutting"]
    /\ Close(c)
    /\ UNCHANGED <<ownVars, tokenVars, callVars, downVars, flagVars, sharedVars>>

-----------------------------------------------------------------------------
(* The end of a session, and what onDidDispose does.                        *)

\* Whether the handler of onDidDispose is there and does not ignore the event.
Heard(s) == s \in hooked /\ ~ignoring

ForgetSession(s) ==
    /\ promise' = IF Heard(s) THEN None ELSE promise
    /\ session' = IF Heard(s) THEN None ELSE session
    /\ kernelDead' = (kernelDead \/ (Heard(s) /\ session = s))

SessionEnds(s) ==
    /\ life[s] = "closing" /\ phase[s] # "shutting"
    /\ life' = [life EXCEPT ![s] = "ended"]
    /\ ForgetSession(s)
    /\ UNCHANGED <<tokenVars, callVars, downVars, ignoring, hooked, sharedVars, phase>>

(* The session of a creation that failed to get idle: the promise of the    *)
(* creation is rejected as soon as the session has ended.                   *)
UnreadySessionEnds(s) ==
    /\ life[s] = "closing" /\ phase[s] = "shutting"
    /\ life' = [life EXCEPT ![s] = "ended"]
    /\ session' = IF Heard(s) THEN None ELSE session
    /\ kernelDead' = (kernelDead \/ (Heard(s) /\ session = s))
    /\ Rejects(s)
    /\ UNCHANGED <<callVars, downVars, ignoring, hooked, sharedVars>>

-----------------------------------------------------------------------------
(* restart().                                                               *)

\* A dead kernel offers to restart whether or not a command restarts it already.
MayRestart == Overlapping \/ \A r \in Requests : pc[r] \notin RestartPCs

(* restart() raises willRestart; NotebookKernelExecution, which hears it,   *)
(* awaits the promise there is before it cancels the cells.                 *)
RestartAsked(r) ==
    /\ r \in Restarts /\ pc[r] = "idle" /\ MayRestart
    /\ Awaits(r, "willRestart", promise)
    /\ UNCHANGED <<ownVars, tokenVars, downVars, flagVars, sharedVars, phase, life>>

\* Variant: a kernel that is being disposed is restarted all the same.
StartsDisposed(r) ==
    IF promise # None
    THEN Awaits(r, "starting", promise) /\ UNCHANGED <<promise, phase>>
    ELSE Awaits(r, "starting", r) /\ BeginCreation(r)

\* await this.start(): it is refused, joins the creation there is, or begins one.
StartsAfresh(r) ==
    IF disposing
    THEN Awaits(r, "failing", None) /\ UNCHANGED <<promise, phase>>
    ELSE IF promise # None
         THEN Awaits(r, "starting", promise) /\ UNCHANGED <<promise, phase>>
         ELSE Awaits(r, "starting", r) /\ BeginCreation(r)

HooksHeard(r) == pc[r] = "willRestart" /\ (on[r] # None => Settled(on[r]))

\* Variant: the promise is awaited whether or not there is one.
FindsAnyPromise(r) ==
    /\ HooksHeard(r)
    /\ Cancel /\ Awaits(r, "finding", promise)
    /\ UNCHANGED <<ownVars, downVars, flagVars, sharedVars, phase, life>>

\* The hooks are done: pending starts are cancelled, the promise is awaited.
LooksForSession(r) ==
    /\ HooksHeard(r) /\ promise # None
    /\ Cancel /\ Awaits(r, "finding", promise)
    /\ UNCHANGED <<ownVars, downVars, flagVars, sharedVars, phase, life>>

\* There is none: cancelled and replaced, the token is new.
RestartsFromNothing(r) ==
    /\ HooksHeard(r) /\ promise = None
    /\ stopped' = stopped \cup holders /\ holders' = {} /\ cancelRequested' = FALSE
    /\ StartsAfresh(r)
    /\ UNCHANGED <<session, downVars, flagVars, sharedVars, life>>

\* A hook throws (the debug adapter's does): nothing was done yet.
HookFails(r) ==
    /\ HooksHeard(r) /\ Goes(r, "failed")
    /\ UNCHANGED <<ownVars, tokenVars, on, downVars, flagVars, sharedVars, phase, life>>

\* A restart that finds one of this kernel under way awaits that one.
FindsSession(r) ==
    /\ pc[r] = "finding" /\ phase[on[r]] = "fulfilled"
    /\ restarting' = IF restarting = None THEN on[r] ELSE restarting
    /\ Goes(r, "restarting")
    /\ UNCHANGED <<ownVars, tokenVars, on, downVars, flagVars, interrupting, phase, life>>

FindsNoSession(r) ==
    /\ pc[r] = "finding" /\ phase[on[r]] = "rejected"
    /\ RenewToken /\ StartsAfresh(r)
    /\ UNCHANGED <<session, downVars, flagVars, sharedVars, life>>

\* The promise of session.restart() settles, for all who await it.
RestartSettles(where) ==
    /\ restarting # None /\ restarting' = None
    /\ pc' = [r \in Requests |-> IF pc[r] = "restarting" THEN where ELSE pc[r]]
    /\ UNCHANGED <<ownVars, tokenVars, on, downVars, flagVars, interrupting, phase, life>>

SessionRestarts     == restarting # None /\ life[restarting] = "live" /\ RestartSettles("restarted")
SessionRestartFails == RestartSettles("failing")

\* initializeAfterStart(this._session): the hooks come first.
Restarted(r) ==
    /\ pc[r] = "restarted"
    /\ NewToken /\ Awaits(r, "initHooks", session)
    /\ UNCHANGED <<ownVars, downVars, flagVars, sharedVars, phase, life>>

StartedAfresh(r) ==
    /\ pc[r] = "starting" /\ phase[on[r]] = "fulfilled"
    /\ Awaits(r, "initHooks", session)
    /\ UNCHANGED <<ownVars, tokenVars, downVars, flagVars, sharedVars, phase, life>>

NotStarted(r) ==
    /\ pc[r] = "starting" /\ phase[on[r]] = "rejected"
    /\ Goes(r, "failing")
    /\ UNCHANGED <<ownVars, tokenVars, on, downVars, flagVars, sharedVars, phase, life>>

\* Variant: the end of the session that is disposed is not ignored.
RestartFailsAloud(r) ==
    /\ pc[r] = "failing"
    /\ promise' = None /\ session' = None
    /\ IF session = None
       THEN Goes(r, "failed") /\ ignoring' = FALSE /\ UNCHANGED <<on, life>>
       ELSE /\ UNCHANGED ignoring
            /\ Close(session) /\ Awaits(r, "closing", session)
    /\ UNCHANGED <<tokenVars, downVars, kernelDead, hooked, sharedVars, phase>>

\* Variant: the session is dropped, but not disposed.
RestartFailsAndDrops(r) ==
    /\ pc[r] = "failing"
    /\ promise' = None /\ session' = None
    /\ Goes(r, "failed") /\ ignoring' = FALSE
    /\ UNCHANGED <<on, life, tokenVars, downVars, kernelDead, hooked, sharedVars, phase>>

(* The session is disposed.  disposeAsync awaits the event onDidDispose,    *)
(* which a session that has ended does not raise again.                     *)
RestartFails(r) ==
    /\ pc[r] = "failing"
    /\ promise' = None /\ session' = None
    /\ IF session = None
       THEN Goes(r, "failed") /\ ignoring' = FALSE /\ UNCHANGED <<on, life>>
       ELSE /\ ignoring' = TRUE
            /\ Close(session)
            /\ Awaits(r, IF life[session] = "ended" THEN "stuck" ELSE "closing", session)
    /\ UNCHANGED <<tokenVars, downVars, kernelDead, hooked, sharedVars, phase>>

\* Variant: what a failed restart ignores is ignored ever after.
RestartGivesUpQuietly(r) ==
    /\ pc[r] = "closing" /\ life[on[r]] = "ended"
    /\ Goes(r, "failed")
    /\ UNCHANGED <<ownVars, tokenVars, on, downVars, flagVars, sharedVars, phase, life>>

RestartGivesUp(r) ==
    /\ pc[r] = "closing" /\ life[on[r]] = "ended"
    /\ Goes(r, "failed") /\ ignoring' = FALSE
    /\ UNCHANGED <<ownVars, tokenVars, on, downVars, kernelDead, hooked, sharedVars, phase, life>>

InitHooksRun(r) ==
    /\ pc[r] = "initHooks"
    /\ IF on[r] = None
       THEN Goes(r, "done") /\ UNCHANGED hooked
       ELSE Goes(r, "initSetup") /\ hooked' = hooked \cup {on[r]}
    /\ UNCHANGED <<ownVars, tokenVars, on, downVars, kernelDead, ignoring, sharedVars, phase, life>>

InitSetupEnds(r) ==
    /\ pc[r] = "initSetup"
    /\ \E where \in {"initIdle", "failed"} : Goes(r, where)
    /\ UNCHANGED <<ownVars, tokenVars, on, downVars, flagVars, sharedVars, phase, life>>

InitIdleReached(r) ==
    /\ pc[r] = "initIdle" /\ life[on[r]] = "live"
    /\ Goes(r, "done")
    /\ UNCHANGED <<ownVars, tokenVars, on, downVars, flagVars, sharedVars, phase, life>>

InitIdleFails(r) ==
    /\ pc[r] = "initIdle"
    /\ Goes(r, IF life[on[r]] = "live" THEN "initShutting" ELSE "failed")
    /\ Close(on[r])
    /\ UNCHANGED <<ownVars, tokenVars, on, downVars, flagVars, sharedVars, phase>>

InitShut(r) ==
    /\ pc[r] = "initShutting" /\ life[on[r]] = "ended"
    /\ Goes(r, "failed")
    /\ UNCHANGED <<ownVars, tokenVars, on, downVars, flagVars, sharedVars, phase, life>>

-----------------------------------------------------------------------------
(* interrupt().                                                             *)

InterruptAsked(i) ==
    /\ i \in Interrupts /\ pc[i] = "idle"
    /\ IF promise = None
       THEN Goes(i, "done") /\ interrupting' = None /\ UNCHANGED on
       ELSE Awaits(i, "seeking", promise) /\ UNCHANGED interrupting
    /\ UNCHANGED <<ownVars, tokenVars, downVars, flagVars, restarting, phase, life>>

(* An interrupt under way is joined.  If it has thrown, _interruptPromise   *)
(* is still there: awaiting it throws again.                                *)
Interrupt(i) ==
    /\ pc[i] = "seeking" /\ phase[on[i]] = "fulfilled"
    /\ interrupting' = IF interrupting = None THEN i ELSE interrupting
    /\ IF interrupting # None /\ pc[interrupting] = "failed"
       THEN Goes(i, "failed") /\ UNCHANGED on
       ELSE Awaits(i, "interrupting", interrupting')
    /\ UNCHANGED <<ownVars, tokenVars, downVars, flagVars, restarting, phase, life>>

NothingToInterrupt(i) ==
    /\ pc[i] = "seeking" /\ phase[on[i]] = "rejected"
    /\ Goes(i, "done") /\ interrupting' = None
    /\ UNCHANGED <<ownVars, tokenVars, on, downVars, flagVars, restarting, phase, life>>

\* Those who await interruptExecution() of call i go on, one after the other.
Interrupted(i, where) ==
    /\ pc[i] = "interrupting" /\ on[i] = i
    /\ pc' = [r \in Requests |->
                IF pc[r] = "interrupting" /\ on[r] = i THEN where ELSE pc[r]]
    /\ interrupting' = IF where = "failed" THEN interrupting ELSE None
    /\ UNCHANGED <<ownVars, tokenVars, on, downVars, flagVars, restarting, phase, life>>

\* Whether it timed out, so that the user is asked for a restart.
InterruptEnds(i) == \E where \in {"done", "asking"} : Interrupted(i, where)

InterruptFails(i) == Interrupted(i, "failed")

UserRestarts(i) ==
    /\ pc[i] = "asking" /\ MayRestart
    /\ Awaits(i, "willRestart", promise)
    /\ UNCHANGED <<ownVars, tokenVars, downVars, flagVars, sharedVars, phase, life>>

UserDeclines(i) ==
    /\ pc[i] = "asking"
    /\ Goes(i, "done")
    /\ UNCHANGED <<ownVars, tokenVars, on, downVars, flagVars, sharedVars, phase, life>>

-----------------------------------------------------------------------------
(* dispose().                                                               *)

\* The session there is, if any, is let go and disposed.
TakeDown(s) ==
    /\ promise' = None /\ session' = None
    /\ IF s = None
       THEN dispose' = "done" /\ UNCHANGED <<disposeOn, life>>
       ELSE /\ dispose' = IF life[s] = "ended" THEN "stuck" ELSE "closing"
            /\ disposeOn' = s /\ Close(s)

\* Variant: a start that is under way is not cancelled.
DisposeAskedGently ==
    /\ dispose = "no" /\ ignoring' = TRUE
    /\ UNCHANGED tokenVars
    /\ IF session = None /\ promise # None
       THEN /\ dispose' = "waiting" /\ disposeOn' = promise
            /\ UNCHANGED <<ownVars, life>>
       ELSE TakeDown(session)
    /\ UNCHANGED <<callVars, kernelDead, hooked, sharedVars, phase>>

\* A second call of dispose() returns the promise of the first.
DisposeAsked ==
    /\ dispose = "no" /\ ignoring' = TRUE
    /\ Cancel
    /\ IF session = None /\ promise # None
       THEN /\ dispose' = "waiting" /\ disposeOn' = promise
            /\ UNCHANGED <<ownVars, life>>
       ELSE TakeDown(session)
    /\ UNCHANGED <<callVars, kernelDead, hooked, sharedVars, phase>>

DisposeGoesOn ==
    /\ dispose = "waiting" /\ Settled(disposeOn)
    /\ TakeDown(IF phase[disposeOn] = "fulfilled" THEN disposeOn ELSE None)
    /\ UNCHANGED <<tokenVars, callVars, flagVars, sharedVars, phase>>

DisposeEnds ==
    /\ dispose = "closing" /\ life[disposeOn] = "ended"
    /\ dispose' = "done"
    /\ UNCHANGED <<ownVars, tokenVars, callVars, disposeOn, flagVars, sharedVars, phase, life>>

-----------------------------------------------------------------------------
(* Who awaits something that has happened goes on before the event loop     *)
(* takes the next event: promises are settled in microtasks.                *)
Due(r) ==
    \/ pc[r] \in {"restarted", "failing"}
    \/ pc[r] \in {"finding", "starting", "seeking"} /\ Settled(on[r])
    \/ pc[r] \in {"closing", "initShutting"} /\ life[on[r]] = "ended"
Drained ==
    /\ \A r \in Requests : ~Due(r)
    /\ dispose = "waiting" => ~Settled(disposeOn)
    /\ dispose = "closing" => life[disposeOn] # "ended"

GoesOn(r) ==
    \/ FindsSession(r) \/ FindsNoSession(r)
    \/ Restarted(r) \/ StartedAfresh(r) \/ NotStarted(r)
    \/ RestartFails(r) \/ RestartGivesUp(r) \/ InitShut(r)
    \/ Interrupt(r) \/ NothingToInterrupt(r)
Continuation == DisposeGoesOn \/ DisposeEnds \/ \E r \in Requests : GoesOn(r)

CreationStep(c) ==
    \/ Tracked(c) \/ HooksRun(c) \/ SetupEnds(c) \/ SetupFails(c)
    \/ IdleReached(c) \/ IdleFails(c)
FactoryStep(c) == FactoryFails(c) \/ FactorySucceeds(c)
EndStep(s)     == SessionEnds(s) \/ UnreadySessionEnds(s)
RestartStep(r) ==
    \/ LooksForSession(r) \/ RestartsFromNothing(r) \/ HookFails(r)
    \/ InitHooksRun(r) \/ InitSetupEnds(r)
    \/ InitIdleReached(r) \/ InitIdleFails(r)
SharedStep == SessionRestarts \/ SessionRestartFails
InterruptStep(i) == InterruptEnds(i) \/ InterruptFails(i)

\* What the user, or code on the user's behalf, asks for.
Asked ==
    \/ DisposeAsked
    \/ \E c \in Starts : Start(c)
    \/ \E r \in Requests : RestartAsked(r) \/ InterruptAsked(r)
    \/ \E i \in Interrupts : UserRestarts(i) \/ UserDeclines(i)

Event ==
    \/ Asked \/ SharedStep
    \/ \E c \in Calls : CreationStep(c) \/ FactoryStep(c) \/ EndStep(c)
    \/ \E r \in Requests : RestartStep(r)
    \/ \E i \in Interrupts : InterruptStep(i)

Next == Continuation \/ (Drained /\ Event)

Spec == Init /\ [][Next]_vars

(* The event loop runs what is due; the code run on the kernel, waiting for *)
(* idle, restarting and shutting down a session all end, by their timeouts  *)
(* if need be.  The factory is sure to end only if its token is cancelled.  *)
Fairness ==
    /\ WF_vars(Continuation)
    /\ \A c \in Calls :
         /\ WF_vars(Drained /\ CreationStep(c)) /\ WF_vars(Drained /\ EndStep(c))
         /\ WF_vars(Drained /\ c \in stopped /\ FactoryFails(c))
    /\ \A r \in Requests : WF_vars(Drained /\ RestartStep(r))
    /\ WF_vars(Drained /\ SharedStep)
FairSpec == Spec /\ Fairness

-----------------------------------------------------------------------------
(* Properties.                                                              *)

(* Every field has a value the code can give it; there is no session before *)
(* the factory succeeded, a call that is suspended on something has         *)
(* something to await, only interrupt() gets to interrupt or to ask, and a  *)
(* restart begins a creation once at most.                                  *)
TokenTypes ==
    /\ cancelRequested \in BOOLEAN /\ holders \subseteq Calls /\ stopped \subseteq Calls
FieldTypes ==
    /\ promise \in Calls \cup {None} /\ session \in Calls \cup {None}
    /\ kernelDead \in BOOLEAN /\ ignoring \in BOOLEAN /\ hooked \subseteq Calls
    /\ restarting \in Calls \cup {None} /\ interrupting \in Interrupts \cup {None}
    /\ dispose \in {"no", "waiting", "closing", "done", "stuck"}
    /\ disposeOn \in Calls \cup {None}
    /\ dispose \in {"waiting", "closing"} => disposeOn # None
CallTypes ==
    /\ pc \in [Requests -> PCs] /\ on \in [Requests -> Calls \cup {None}]
    /\ \A r \in Requests : pc[r] \in Waiting => on[r] # None
    /\ \A r \in Restarts : pc[r] \notin {"seeking", "interrupting", "asking"}
CreationTypes ==
    /\ phase \in [Calls -> Phases] /\ life \in [Calls -> Lives]
    /\ \A r \in Requests : pc[r] \in Unstarted => phase[r] = "none"
    /\ \A c \in Calls : phase[c] \in {"none", "tracking", "creating"} => life[c] = "none"
TypeOK == TokenTypes /\ FieldTypes /\ CallTypes /\ CreationTypes

(* The status getter never says something that is not so: "starting" only   *)
(* while a creation is under way, "dead" never while there is a session;    *)
(* and a session is there only with the promise that start() and interrupt()*)
(* look at, so that neither overlooks it.                                   *)
StatusIsTruthful ==
    /\ promise # None /\ session = None => InFlight(promise)
    /\ session # None => promise = session /\ ~kernelDead

(* A kernel creates one session at a time, however starts that fail,        *)
(* restarts and disposal interleave.                                        *)
OneCreationAtATime ==
    \A c, d \in Calls : InFlight(c) /\ InFlight(d) => c = d

(* Whoever cancels startCancellation reaches the factory at work: its token *)
(* was not replaced behind its back by one nobody gave it.                  *)
FactoryCanBeCancelled ==
    \A c \in Calls : phase[c] = "creating" => c \in holders \cup stopped

(* The kernel never holds on to a session that has ended: it would pass for *)
(* a disposed kernel, and disposing it would wait for ever.                 *)
EndedIsForgotten == session # None => life[session] # "ended"

(* Once disposed, the kernel has no session and no promise of one, and      *)
(* never has again, whatever was under way when dispose() was called.       *)
DisposedOwnsNothing == disposed => session = None /\ promise = None

(* A session that was adopted is not let go alive: whatever makes the       *)
(* kernel forget it has it shut down.                                       *)
AdoptedIsDisposed ==
    [][session # None /\ session' # session => life'[session] # "live"]_vars

(* "Ignore when session is disposed as a result of failed restarts": what   *)
(* was started since is left alone.                                         *)
FailedRestartIsIgnored ==
    [][\A r \in Requests :
         pc[r] = "closing" /\ life[on[r]] = "closing" /\ life'[on[r]] = "ended"
         => UNCHANGED <<promise, session>>]_vars

(* dispose() ends, even if the factory would have worked for ever.          *)
DisposeEndsEventually == disposing ~> dispose = "done"

(* A start that dispose() cancels after its session exists shuts it down:   *)
(* createJupyterSession, which finds the kernel disposed once the session   *)
(* is idle and throws instead of adopting it, does not leave it alive, as   *)
(* nobody else knows of it.                                                 *)
RefusedIsShutDown ==
    [][\A c \in Calls :
         disposing /\ phase[c] = "idle" /\ phase'[c] = "rejected"
         => life'[c] # "live"]_vars

=============================================================================
