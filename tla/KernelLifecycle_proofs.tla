------------------------ MODULE KernelLifecycle_proofs ------------------------
(***************************************************************************)
(* Theorems about KernelLifecycle, for any number of calls: first those    *)
(* that hold whether or not restarts overlap; then, if they do not, that   *)
(* the kernel creates one session at a time, that its fields agree with    *)
(* each other, and that nobody loses a session.                            *)
(*                                                                         *)
(* The argument for the latter: the creation under way, if there is one,   *)
(* is the one the kernel has the promise of, so that no other is begun; a  *)
(* promise is dropped only by what knows that nothing is being created.  A *)
(* failed restart knows it because it goes on before any event, and the    *)
(* end of a session because the only session that ends unasked is the      *)
(* promised one.                                                           *)
(***************************************************************************)
EXTENDS KernelLifecycle, TLAPS

-----------------------------------------------------------------------------
(* Types.  Where an action does too much for one leaf, the four parts of    *)
(* TypeOK have a leaf each.                                                 *)

(* start() and the steps of createJupyterSession keep the types.            *)
LEMMA StartType ==
  ASSUME TypeOK,
          \/ \E c \in Starts : Start(c)
          \/ \E c \in Calls : \/ Tracked(c) \/ FactoryFails(c) \/ FactorySucceeds(c)
                              \/ HooksRun(c) \/ SetupEnds(c) \/ SetupFails(c)
                              \/ IdleReached(c) \/ IdleFails(c) \/ SessionEnds(c)
                              \/ UnreadySessionEnds(c)
  PROVE  TypeOK'
<1> USE KernelAssumption DEF TypeOK, Calls, Requests, ownVars, tokenVars, callVars,
          downVars, flagVars, sharedVars, Phases, Running, Lives, PCs, RestartPCs, Waiting,
          Unstarted, Goes, Awaits
<1>1. ASSUME NEW c \in Starts, Start(c)  PROVE TypeOK'
  <2> USE <1>1 DEF Start, RenewToken, NewToken, BeginCreation
  <2>1. TokenTypes'
    BY DEF TokenTypes
  <2>2. FieldTypes'
    BY DEF FieldTypes
  <2>3. CallTypes'
    BY DEF FieldTypes, CallTypes
  <2>4. CreationTypes'
    BY DEF FieldTypes, CallTypes, CreationTypes
  <2> QED
    BY <2>1, <2>2, <2>3, <2>4
<1>2. ASSUME NEW c \in Calls, Tracked(c)  PROVE TypeOK'
  <2> USE <1>2 DEF Tracked, Rejects, Cancel
  <2>1. TokenTypes'
    BY DEF TokenTypes
  <2>2. FieldTypes'
    <3>1. kernelDead' \in BOOLEAN /\ ignoring' \in BOOLEAN
      BY DEF FieldTypes
    <3> QED
      BY <3>1 DEF FieldTypes
  <2>3. CallTypes'
    BY DEF FieldTypes, CallTypes
  <2>4. CreationTypes'
    BY DEF FieldTypes, CallTypes, CreationTypes
  <2> QED
    BY <2>1, <2>2, <2>3, <2>4
<1>3. ASSUME NEW c \in Calls, FactoryFails(c)  PROVE TypeOK'
  BY <1>3 DEF FactoryFails, Rejects, Cancel, TokenTypes, FieldTypes, CallTypes, CreationTypes
<1>4. ASSUME NEW c \in Calls, FactorySucceeds(c)  PROVE TypeOK'
  <2> USE <1>4 DEF FactorySucceeds, Rejects, Cancel
  <2>1. TokenTypes'
    BY DEF TokenTypes
  <2>2. FieldTypes'
    BY DEF FieldTypes
  <2>3. CallTypes'
    BY DEF FieldTypes, CallTypes
  <2>4. CreationTypes'
    BY DEF FieldTypes, CallTypes, CreationTypes
  <2> QED
    BY <2>1, <2>2, <2>3, <2>4
<1>5. ASSUME NEW c \in Calls, HooksRun(c)  PROVE TypeOK'
  BY <1>5 DEF HooksRun, TokenTypes, FieldTypes, CallTypes, CreationTypes
<1>6. ASSUME NEW c \in Calls, SetupEnds(c)  PROVE TypeOK'
  BY <1>6 DEF SetupEnds, TokenTypes, FieldTypes, CallTypes, CreationTypes
<1>7. ASSUME NEW c \in Calls, SetupFails(c)  PROVE TypeOK'
  BY <1>7 DEF SetupFails, Rejects, Cancel, TokenTypes, FieldTypes, CallTypes, CreationTypes
<1>8. ASSUME NEW c \in Calls, IdleReached(c)  PROVE TypeOK'
  <2> USE <1>8 DEF IdleReached, Adopts, Rejects, Cancel
  <2>1. TokenTypes'
    BY DEF TokenTypes
  <2>2. FieldTypes'
    BY DEF FieldTypes
  <2>3. CallTypes'
    BY DEF FieldTypes, CallTypes
  <2>4. CreationTypes'
    BY DEF FieldTypes, CallTypes, CreationTypes
  <2> QED
    BY <2>1, <2>2, <2>3, <2>4
<1>9. ASSUME NEW c \in Calls, IdleFails(c)  PROVE TypeOK'
  BY <1>9 DEF IdleFails, Close, TokenTypes, FieldTypes, CallTypes, CreationTypes
<1>10. ASSUME NEW c \in Calls, SessionEnds(c)  PROVE TypeOK'
  BY <1>10 DEF SessionEnds, ForgetSession, TokenTypes, FieldTypes, CallTypes, CreationTypes
<1>11. ASSUME NEW c \in Calls, UnreadySessionEnds(c)  PROVE TypeOK'
  BY <1>11 DEF UnreadySessionEnds, Rejects, Cancel, TokenTypes, FieldTypes, CallTypes, CreationTypes
<1> QED
  BY <1>1, <1>2, <1>3, <1>4, <1>5, <1>6, <1>7, <1>8, <1>9, <1>10, <1>11

(* So do the steps of restart().                                            *)
LEMMA RestartType ==
  ASSUME TypeOK,
          \/ \E r \in Requests : \/ RestartAsked(r) \/ LooksForSession(r)
                                 \/ RestartsFromNothing(r) \/ HookFails(r)
                                 \/ FindsSession(r) \/ FindsNoSession(r) \/ Restarted(r)
                                 \/ StartedAfresh(r) \/ NotStarted(r) \/ RestartFails(r)
                                 \/ RestartGivesUp(r) \/ InitHooksRun(r)
                                 \/ InitSetupEnds(r) \/ InitIdleReached(r)
                                 \/ InitIdleFails(r) \/ InitShut(r)
  PROVE  TypeOK'
<1> USE KernelAssumption DEF TypeOK, Calls, Requests, ownVars, tokenVars, callVars,
          downVars, flagVars, sharedVars, Phases, Running, Lives, PCs, RestartPCs, Waiting,
          Unstarted, Goes, Awaits
<1>1. ASSUME NEW r \in Requests, RestartAsked(r)  PROVE TypeOK'
  BY <1>1 DEF RestartAsked, TokenTypes, FieldTypes, CallTypes, CreationTypes
<1>2. ASSUME NEW r \in Requests, LooksForSession(r)  PROVE TypeOK'
  BY <1>2 DEF LooksForSession, HooksHeard, Settled, Cancel, TokenTypes, FieldTypes, CallTypes, CreationTypes
<1>3. ASSUME NEW r \in Requests, RestartsFromNothing(r)  PROVE TypeOK'
  <2> USE <1>3 DEF RestartsFromNothing, HooksHeard, StartsAfresh, BeginCreation
  <2>1. TokenTypes'
    BY DEF TokenTypes
  <2>2. FieldTypes'
    BY DEF FieldTypes
  <2>3. CallTypes'
    BY DEF FieldTypes, CallTypes
  <2>4. CreationTypes'
    BY DEF FieldTypes, CallTypes, CreationTypes
  <2> QED
    BY <2>1, <2>2, <2>3, <2>4
<1>4. ASSUME NEW r \in Requests, HookFails(r)  PROVE TypeOK'
  BY <1>4 DEF HookFails, HooksHeard, TokenTypes, FieldTypes, CallTypes, CreationTypes
<1>5. ASSUME NEW r \in Requests, FindsSession(r)  PROVE TypeOK'
  BY <1>5 DEF FindsSession, TokenTypes, FieldTypes, CallTypes, CreationTypes
<1>6. ASSUME NEW r \in Requests, FindsNoSession(r)  PROVE TypeOK'
  <2> USE <1>6 DEF FindsNoSession, RenewToken, NewToken, StartsAfresh, BeginCreation
  <2>1. TokenTypes'
    BY DEF TokenTypes
  <2>2. FieldTypes'
    BY DEF FieldTypes
  <2>3. CallTypes'
    BY DEF FieldTypes, CallTypes
  <2>4. CreationTypes'
    BY DEF FieldTypes, CallTypes, CreationTypes
  <2> QED
    BY <2>1, <2>2, <2>3, <2>4
<1>7. ASSUME NEW r \in Requests, Restarted(r)  PROVE TypeOK'
  <2> USE <1>7 DEF Restarted, NewToken
  <2>1. TokenTypes'
    BY DEF TokenTypes
  <2>2. FieldTypes'
    BY DEF FieldTypes
  <2>3. CallTypes'
    BY DEF FieldTypes, CallTypes
  <2>4. CreationTypes'
    BY DEF FieldTypes, CallTypes, CreationTypes
  <2> QED
    BY <2>1, <2>2, <2>3, <2>4
<1>8. ASSUME NEW r \in Requests, StartedAfresh(r)  PROVE TypeOK'
  BY <1>8 DEF StartedAfresh, TokenTypes, FieldTypes, CallTypes, CreationTypes
<1>9. ASSUME NEW r \in Requests, NotStarted(r)  PROVE TypeOK'
  BY <1>9 DEF NotStarted, TokenTypes, FieldTypes, CallTypes, CreationTypes
<1>10. ASSUME NEW r \in Requests, RestartFails(r)  PROVE TypeOK'
  <2> USE <1>10 DEF RestartFails, Close
  <2>1. TokenTypes'
    BY DEF TokenTypes
  <2>2. FieldTypes'
    BY DEF FieldTypes
  <2>3. CallTypes'
    BY DEF FieldTypes, CallTypes
  <2>4. CreationTypes'
    BY DEF FieldTypes, CallTypes, CreationTypes
  <2> QED
    BY <2>1, <2>2, <2>3, <2>4
<1>11. ASSUME NEW r \in Requests, RestartGivesUp(r)  PROVE TypeOK'
  <2> USE <1>11 DEF RestartGivesUp
  <2>1. TokenTypes'
    BY DEF TokenTypes
  <2>2. FieldTypes'
    <3>1. kernelDead' \in BOOLEAN /\ ignoring' \in BOOLEAN
      BY DEF FieldTypes
    <3> QED
      BY <3>1 DEF FieldTypes
  <2>3. CallTypes'
    BY DEF FieldTypes, CallTypes
  <2>4. CreationTypes'
    BY DEF FieldTypes, CallTypes, CreationTypes
  <2> QED
    BY <2>1, <2>2, <2>3, <2>4
<1>12. ASSUME NEW r \in Requests, InitHooksRun(r)  PROVE TypeOK'
  BY <1>12 DEF InitHooksRun, TokenTypes, FieldTypes, CallTypes, CreationTypes
<1>13. ASSUME NEW r \in Requests, InitSetupEnds(r)  PROVE TypeOK'
  BY <1>13 DEF InitSetupEnds, TokenTypes, FieldTypes, CallTypes, CreationTypes
<1>14. ASSUME NEW r \in Requests, InitIdleReached(r)  PROVE TypeOK'
  BY <1>14 DEF InitIdleReached, TokenTypes, FieldTypes, CallTypes, CreationTypes
<1>15. ASSUME NEW r \in Requests, InitIdleFails(r)  PROVE TypeOK'
  BY <1>15 DEF InitIdleFails, Close, TokenTypes, FieldTypes, CallTypes, CreationTypes
<1>16. ASSUME NEW r \in Requests, InitShut(r)  PROVE TypeOK'
  BY <1>16 DEF InitShut, TokenTypes, FieldTypes, CallTypes, CreationTypes
<1> QED
  BY <1>1, <1>2, <1>3, <1>4, <1>5, <1>6, <1>7, <1>8, <1>9, <1>10, <1>11, <1>12, <1>13, <1>14, <1>15, <1>16

(* So do the steps of interrupt().                                          *)
LEMMA InterruptType ==
  ASSUME TypeOK,
          \/ \E r \in Requests : \/ InterruptAsked(r) \/ Interrupt(r)
                                 \/ NothingToInterrupt(r)
          \/ \E r \in Interrupts : \/ InterruptEnds(r) \/ InterruptFails(r)
                                   \/ UserRestarts(r) \/ UserDeclines(r)
  PROVE  TypeOK'
<1> USE KernelAssumption DEF TypeOK, Calls, Requests, ownVars, tokenVars, callVars,
          downVars, flagVars, sharedVars, Phases, Running, Lives, PCs, RestartPCs, Waiting,
          Unstarted, Goes, Awaits
<1>1. ASSUME NEW r \in Requests, InterruptAsked(r)  PROVE TypeOK'
  BY <1>1 DEF InterruptAsked, TokenTypes, FieldTypes, CallTypes, CreationTypes
<1>2. ASSUME NEW r \in Requests, Interrupt(r)  PROVE TypeOK'
  BY <1>2 DEF Interrupt, TokenTypes, FieldTypes, CallTypes, CreationTypes
<1>3. ASSUME NEW r \in Requests, NothingToInterrupt(r)  PROVE TypeOK'
  BY <1>3 DEF NothingToInterrupt, TokenTypes, FieldTypes, CallTypes, CreationTypes
<1>4. ASSUME NEW r \in Interrupts, InterruptEnds(r)  PROVE TypeOK'
  BY <1>4 DEF InterruptEnds, Interrupted, TokenTypes, FieldTypes, CallTypes, CreationTypes
<1>5. ASSUME NEW r \in Interrupts, InterruptFails(r)  PROVE TypeOK'
  BY <1>5 DEF InterruptFails, Interrupted, TokenTypes, FieldTypes, CallTypes, CreationTypes
<1>6. ASSUME NEW r \in Interrupts, UserRestarts(r)  PROVE TypeOK'
  BY <1>6 DEF UserRestarts, TokenTypes, FieldTypes, CallTypes, CreationTypes
<1>7. ASSUME NEW r \in Interrupts, UserDeclines(r)  PROVE TypeOK'
  BY <1>7 DEF UserDeclines, TokenTypes, FieldTypes, CallTypes, CreationTypes
<1> QED
  BY <1>1, <1>2, <1>3, <1>4, <1>5, <1>6, <1>7

(* So do the steps of dispose(), and the end of a session's restart.        *)
LEMMA DisposeType ==
  ASSUME TypeOK,
          \/ \/ DisposeAsked \/ DisposeGoesOn \/ DisposeEnds
             \/ SessionRestarts \/ SessionRestartFails
  PROVE  TypeOK'
<1> USE KernelAssumption DEF TypeOK, Calls, Requests, ownVars, tokenVars, callVars,
          downVars, flagVars, sharedVars, Phases, Running, Lives, PCs, RestartPCs, Waiting,
          Unstarted, Goes, Awaits
<1>1. ASSUME DisposeAsked  PROVE TypeOK'
  BY <1>1 DEF DisposeAsked, Cancel, TakeDown, Close, TokenTypes, FieldTypes, CallTypes, CreationTypes
<1>2. ASSUME DisposeGoesOn  PROVE TypeOK'
  BY <1>2 DEF DisposeGoesOn, TakeDown, Close, TokenTypes, FieldTypes, CallTypes, CreationTypes
<1>3. ASSUME DisposeEnds  PROVE TypeOK'
  BY <1>3 DEF DisposeEnds, TokenTypes, FieldTypes, CallTypes, CreationTypes
<1>4. ASSUME SessionRestarts  PROVE TypeOK'
  BY <1>4 DEF SessionRestarts, RestartSettles, TokenTypes, FieldTypes, CallTypes, CreationTypes
<1>5. ASSUME SessionRestartFails  PROVE TypeOK'
  BY <1>5 DEF SessionRestartFails, RestartSettles, TokenTypes, FieldTypes, CallTypes, CreationTypes
<1> QED
  BY <1>1, <1>2, <1>3, <1>4, <1>5
(* Every step is one of those.                                              *)
LEMMA NextType == TypeOK /\ [Next]_vars => TypeOK'
<1> SUFFICES ASSUME TypeOK, [Next]_vars  PROVE TypeOK'
  OBVIOUS
<1>1. CASE Continuation
  BY <1>1, StartType, RestartType, InterruptType, DisposeType DEF Continuation, GoesOn
<1>2. CASE Asked
  <2>1. Interrupts \subseteq Requests
    BY DEF Requests
  <2> QED
    BY <1>2, <2>1, StartType, RestartType, InterruptType, DisposeType DEF Asked
<1>3. CASE SharedStep
  BY <1>3, DisposeType DEF SharedStep
<1>4. ASSUME NEW c \in Calls, CreationStep(c) \/ FactoryStep(c) \/ EndStep(c)  PROVE TypeOK'
  BY <1>4, StartType DEF CreationStep, FactoryStep, EndStep
<1>5. ASSUME NEW r \in Requests, RestartStep(r)  PROVE TypeOK'
  BY <1>5, RestartType DEF RestartStep
<1>6. ASSUME NEW i \in Interrupts, InterruptStep(i)  PROVE TypeOK'
  BY <1>6, InterruptType DEF InterruptStep
<1>7. CASE UNCHANGED vars
  BY <1>7 DEF TypeOK, TokenTypes, FieldTypes, CallTypes, CreationTypes,
              vars, ownVars, tokenVars, callVars, downVars, flagVars, sharedVars
<1> QED
  BY <1>1, <1>2, <1>3, <1>4, <1>5, <1>6, <1>7 DEF Next, Event

(* Every field of the kernel, and whatever is suspended on it, keeps its    *)
(* type whatever is called in whatever order.                               *)
THEOREM TypeCorrect == Spec => []TypeOK
<1>1. Init => TypeOK
  BY KernelAssumption
     DEF Init, TypeOK, TokenTypes, FieldTypes, CallTypes, CreationTypes,
         PCs, RestartPCs, Waiting, Phases, Running, Lives, Unstarted, Calls, Requests
<1> QED
  BY <1>1, NextType, PTL DEF Spec

-----------------------------------------------------------------------------
(* Disposal.  Only BeginCreation and Adopts give the kernel a promise or a  *)
(* session, and both ask first whether the kernel is being disposed.        *)

(* A step that leaves promise and session alone or sets them to None, and   *)
(* does not dispose the kernel, keeps DisposedOwnsNothing.                  *)
LEMMA OwnsNoMore ==
  ASSUME DisposedOwnsNothing,
         promise' \in {promise, None}, session' \in {session, None}, UNCHANGED dispose
  PROVE  DisposedOwnsNothing'
  BY DEF DisposedOwnsNothing, disposed

LEMMA CreationOwnsNothing ==
  ASSUME DisposedOwnsNothing,
         \/ \E c \in Starts : Start(c)
         \/ \E c \in Calls : CreationStep(c) \/ FactoryStep(c) \/ EndStep(c)
  PROVE  DisposedOwnsNothing'
<1> USE DEF ownVars, downVars, Rejects
<1>1. ASSUME NEW c \in Starts, Start(c)  PROVE DisposedOwnsNothing'
  BY <1>1 DEF Start, BeginCreation, DisposedOwnsNothing, disposed, disposing
<1>2. ASSUME NEW c \in Calls, CreationStep(c)  PROVE DisposedOwnsNothing'
  <2>1. CASE Tracked(c) \/ HooksRun(c) \/ SetupEnds(c) \/ SetupFails(c) \/ IdleFails(c)
    BY <2>1, OwnsNoMore DEF Tracked, HooksRun, SetupEnds, SetupFails, IdleFails
  <2>2. CASE IdleReached(c)
    BY <2>2 DEF IdleReached, Adopts, DisposedOwnsNothing, disposed, disposing
  <2> QED
    BY <1>2, <2>1, <2>2 DEF CreationStep
<1>3. ASSUME NEW c \in Calls, FactoryStep(c)  PROVE DisposedOwnsNothing'
  BY <1>3, OwnsNoMore DEF FactoryStep, FactoryFails, FactorySucceeds
<1>4. ASSUME NEW c \in Calls, EndStep(c)  PROVE DisposedOwnsNothing'
  BY <1>4, OwnsNoMore DEF EndStep, SessionEnds, UnreadySessionEnds, ForgetSession
<1> QED
  BY <1>1, <1>2, <1>3, <1>4

LEMMA RequestOwnsNothing ==
  ASSUME DisposedOwnsNothing,
         \/ \E r \in Requests : GoesOn(r) \/ RestartStep(r) \/ RestartAsked(r) \/ InterruptAsked(r)
         \/ \E i \in Interrupts : UserRestarts(i) \/ UserDeclines(i) \/ InterruptStep(i)
         \/ SharedStep
  PROVE  DisposedOwnsNothing'
<1> USE DEF ownVars, downVars
<1>1. ASSUME NEW r \in Requests, RestartsFromNothing(r) \/ FindsNoSession(r)
      PROVE  DisposedOwnsNothing'
  BY <1>1 DEF RestartsFromNothing, FindsNoSession, StartsAfresh, BeginCreation,
              DisposedOwnsNothing, disposed, disposing
<1>2. ASSUME NEW r \in Requests, GoesOn(r), ~FindsNoSession(r)  PROVE DisposedOwnsNothing'
  BY <1>2, OwnsNoMore
     DEF GoesOn, FindsSession, Restarted, StartedAfresh, NotStarted, RestartFails,
         RestartGivesUp, InitShut, Interrupt, NothingToInterrupt
<1>3. ASSUME NEW r \in Requests, RestartStep(r), ~RestartsFromNothing(r)
      PROVE  DisposedOwnsNothing'
  BY <1>3, OwnsNoMore
     DEF RestartStep, LooksForSession, HookFails, InitHooksRun, InitSetupEnds,
         InitIdleReached, InitIdleFails
<1>4. ASSUME NEW r, \/ RestartAsked(r) \/ InterruptAsked(r) \/ UserRestarts(r)
                    \/ UserDeclines(r) \/ InterruptStep(r)
      PROVE  DisposedOwnsNothing'
  BY <1>4, OwnsNoMore
     DEF RestartAsked, InterruptAsked, UserRestarts, UserDeclines, InterruptStep,
         InterruptEnds, InterruptFails, Interrupted
<1>5. ASSUME SharedStep  PROVE DisposedOwnsNothing'
  BY <1>5, OwnsNoMore DEF SharedStep, SessionRestarts, SessionRestartFails, RestartSettles
<1> QED
  BY <1>1, <1>2, <1>3, <1>4, <1>5

(* Once disposed, the kernel has no session and no promise of one, and      *)
(* never has again: whichever calls are under way, and even if restarts     *)
(* overlap.                                                                 *)
THEOREM DisposedForGood == Spec => []DisposedOwnsNothing
<1>1. Init => DisposedOwnsNothing
  BY DEF Init, DisposedOwnsNothing, disposed
<1>2. ASSUME DisposedOwnsNothing, [Next]_vars  PROVE DisposedOwnsNothing'
  <2>1. CASE DisposeAsked \/ DisposeGoesOn \/ DisposeEnds
    BY <1>2, <2>1 DEF DisposeAsked, DisposeGoesOn, DisposeEnds, TakeDown, ownVars,
                      DisposedOwnsNothing, disposed
  <2>2. CASE UNCHANGED vars
    BY <1>2, <2>2, OwnsNoMore DEF vars, ownVars, downVars
  <2> QED
    BY <1>2, <2>1, <2>2, CreationOwnsNothing, RequestOwnsNothing
       DEF Next, Continuation, Event, Asked
<1> QED
  BY <1>1, <1>2, PTL DEF Spec

-----------------------------------------------------------------------------
(* If restarts do not overlap: the inductive invariant, in parts.           *)

Alone ==
    \A r, s \in Requests : pc[r] \in RestartPCs /\ pc[s] \in RestartPCs => r = s

InFlightIsPromised ==
    \A c \in Calls : InFlight(c) => promise = c /\ session = None

\* A session that is closing and not let go yet failed to get idle after a restart.
SessionIsPromised ==
    session # None =>
        /\ promise = session /\ phase[session] = "fulfilled"
        /\ ~disposing /\ ~kernelDead /\ session \in hooked
        /\ \/ life[session] = "live"
           \/ /\ life[session] = "closing"
              /\ \E r \in Requests : pc[r] = "initShutting" /\ on[r] = session

PromiseIsKept == promise # None /\ session = None => InFlight(promise)

CreationIsSound ==
    \A c \in Calls :
        /\ phase[c] \in {"hooks", "setup", "idle"} => life[c] = "live"
        /\ phase[c] \in {"setup", "idle", "shutting"} => c \in hooked
        /\ phase[c] \in Running \ {"tracking"} => ~kernelDead

\* Ends of sessions are ignored for a reason, and by whoever needs it.
Ignores ==
    /\ ignoring => disposing \/ \E r \in Requests : pc[r] = "closing"
    /\ \A r \in Requests : pc[r] = "closing" => ignoring

Closings ==
    \A s \in Calls : life[s] = "closing" =>
        promise = s \/ disposed \/ \E r \in Requests : pc[r] = "closing" /\ on[r] = s

\* What a suspended restart awaits is still what the kernel has, or is over.
Suspended ==
    \A r \in Requests :
        /\ pc[r] \in {"finding", "restarting", "restarted", "starting"} =>
              promise = on[r] \/ phase[on[r]] = "rejected" \/ disposed
        /\ pc[r] \in {"restarting", "restarted"} => on[r] # None /\ phase[on[r]] = "fulfilled"
        /\ pc[r] \in {"initHooks", "initSetup", "initIdle"} =>
              (on[r] # None /\ on[r] = session) \/ disposed
        /\ pc[r] \in {"initHooks", "initSetup", "initIdle", "closing"} /\ on[r] # None =>
              phase[on[r]] = "fulfilled"

\* Nothing is created until a restart that failed has gone on.
Quiet ==
    \A r \in Requests :
        \/ pc[r] = "failing"
        \/ pc[r] \in {"finding", "starting"} /\ phase[on[r]] = "rejected"
        => \A c \in Calls : ~InFlight(c)

\* A token is replaced only once it was cancelled, or when no factory is at work.
Tokens ==
    /\ cancelRequested => holders \subseteq stopped
    /\ \A c \in Calls : phase[c] = "creating" => c \in holders \cup stopped

Disposal ==
    /\ disposed => session = None /\ promise = None
    /\ dispose = "waiting" => promise \in {disposeOn, None}

InvParts ==
    /\ Alone /\ InFlightIsPromised /\ SessionIsPromised /\ PromiseIsKept
    /\ CreationIsSound /\ Ignores /\ Closings /\ Suspended /\ Quiet /\ Tokens /\ Disposal

Inv == TypeOK /\ InvParts

-----------------------------------------------------------------------------
(* Every step keeps it.                                                     *)

(* The steps of a creation, and the end of a session.                       *)
LEMMA CreationKeeps ==
  ASSUME Inv, ~Overlapping, Drained,
          \/ \E c \in Starts : Start(c)
          \/ \E c \in Calls : \/ Tracked(c) \/ FactoryFails(c) \/ FactorySucceeds(c)
                              \/ HooksRun(c) \/ SetupEnds(c) \/ SetupFails(c)
                              \/ IdleReached(c) \/ IdleFails(c) \/ SessionEnds(c)
                              \/ UnreadySessionEnds(c)
  PROVE  InvParts'
<1> USE KernelAssumption DEF Inv, InvParts, TypeOK, TokenTypes, FieldTypes, CallTypes,
          CreationTypes, Alone, InFlightIsPromised, SessionIsPromised, PromiseIsKept,
          CreationIsSound, Ignores, Closings, Suspended, Quiet, Tokens, Disposal
<1> USE DEF Calls, Requests, ownVars, tokenVars, callVars, downVars, flagVars, sharedVars,
          Phases, Running, Lives, PCs, RestartPCs, Waiting, Unstarted, Goes, Awaits,
          InFlight, Settled, disposing, disposed, Drained, Due
<1>1. ASSUME NEW c \in Starts, Start(c)  PROVE InvParts'
  <2>1. CASE disposing \/ promise # None
    BY <1>1, <2>1 DEF Start, RenewToken, NewToken, BeginCreation
  <2>2. CASE ~(disposing \/ promise # None)
    <3>1. Suspended'
      BY <1>1, <2>2 DEF Start, BeginCreation
    <3>2. Quiet'
      BY <1>1, <2>2 DEF Start, BeginCreation
    <3> QED
      BY <1>1, <2>2, <3>1, <3>2 DEF Start, RenewToken, NewToken, BeginCreation
  <2> QED
    BY <2>1, <2>2
<1>2. ASSUME NEW c \in Calls, Tracked(c)  PROVE InvParts'
  BY <1>2 DEF Tracked, Rejects, Cancel
<1>3. ASSUME NEW c \in Calls, FactoryFails(c)  PROVE InvParts'
  BY <1>3 DEF FactoryFails, Rejects, Cancel
<1>4. ASSUME NEW c \in Calls, FactorySucceeds(c)  PROVE InvParts'
  BY <1>4 DEF FactorySucceeds, Rejects, Cancel
<1>5. ASSUME NEW c \in Calls, HooksRun(c)  PROVE InvParts'
  BY <1>5 DEF HooksRun
<1>6. ASSUME NEW c \in Calls, SetupEnds(c)  PROVE InvParts'
  BY <1>6 DEF SetupEnds
<1>7. ASSUME NEW c \in Calls, SetupFails(c)  PROVE InvParts'
  BY <1>7 DEF SetupFails, Rejects, Cancel
<1>8. ASSUME NEW c \in Calls, IdleReached(c)  PROVE InvParts'
  BY <1>8 DEF IdleReached, Adopts, Rejects, Cancel
<1>9. ASSUME NEW c \in Calls, IdleFails(c)  PROVE InvParts'
  BY <1>9 DEF IdleFails, Close
<1>10. ASSUME NEW c \in Calls, SessionEnds(c)  PROVE InvParts'
  BY <1>10 DEF SessionEnds, ForgetSession, Heard
<1>11. ASSUME NEW c \in Calls, UnreadySessionEnds(c)  PROVE InvParts'
  BY <1>11 DEF UnreadySessionEnds, Rejects, Cancel, Heard
<1> QED
  BY <1>1, <1>2, <1>3, <1>4, <1>5, <1>6, <1>7, <1>8, <1>9, <1>10, <1>11

(* The steps of a restart.                                                  *)
LEMMA RestartKeeps ==
  ASSUME Inv, ~Overlapping, Drained,
          \/ \E r \in Requests : \/ RestartAsked(r) \/ LooksForSession(r)
                                 \/ RestartsFromNothing(r) \/ HookFails(r)
                                 \/ InitHooksRun(r) \/ InitSetupEnds(r)
                                 \/ InitIdleReached(r) \/ InitIdleFails(r)
          \/ SessionRestarts \/ SessionRestartFails
  PROVE  InvParts'
<1> USE KernelAssumption DEF Inv, InvParts, TypeOK, TokenTypes, FieldTypes, CallTypes,
          CreationTypes, Alone, InFlightIsPromised, SessionIsPromised, PromiseIsKept,
          CreationIsSound, Ignores, Closings, Suspended, Quiet, Tokens, Disposal
<1> USE DEF Calls, Requests, ownVars, tokenVars, callVars, downVars, flagVars, sharedVars,
          Phases, Running, Lives, PCs, RestartPCs, Waiting, Unstarted, Goes, Awaits,
          InFlight, Settled, disposing, disposed, Drained, Due
<1>1. ASSUME NEW r \in Requests, RestartAsked(r)  PROVE InvParts'
  BY <1>1 DEF RestartAsked, MayRestart
<1>2. ASSUME NEW r \in Requests, LooksForSession(r)  PROVE InvParts'
  BY <1>2 DEF LooksForSession, HooksHeard, Cancel
<1>3. ASSUME NEW r \in Requests, RestartsFromNothing(r)  PROVE InvParts'
  BY <1>3 DEF RestartsFromNothing, HooksHeard, StartsAfresh, BeginCreation
<1>4. ASSUME NEW r \in Requests, HookFails(r)  PROVE InvParts'
  BY <1>4 DEF HookFails, HooksHeard
<1>5. ASSUME NEW r \in Requests, InitHooksRun(r)  PROVE InvParts'
  BY <1>5 DEF InitHooksRun
<1>6. ASSUME NEW r \in Requests, InitSetupEnds(r)  PROVE InvParts'
  BY <1>6 DEF InitSetupEnds
<1>7. ASSUME NEW r \in Requests, InitIdleReached(r)  PROVE InvParts'
  BY <1>7 DEF InitIdleReached
<1>8. ASSUME NEW r \in Requests, InitIdleFails(r)  PROVE InvParts'
  BY <1>8 DEF InitIdleFails, Close
<1>9. ASSUME SessionRestarts  PROVE InvParts'
  BY <1>9 DEF SessionRestarts, RestartSettles
<1>10. ASSUME SessionRestartFails  PROVE InvParts'
  BY <1>10 DEF SessionRestartFails, RestartSettles
<1> QED
  BY <1>1, <1>2, <1>3, <1>4, <1>5, <1>6, <1>7, <1>8, <1>9, <1>10

(* What goes on before the next event.                                      *)
LEMMA ContinuationKeeps ==
  ASSUME Inv, ~Overlapping,
          \/ \E r \in Requests : \/ FindsSession(r) \/ FindsNoSession(r) \/ Restarted(r)
                                 \/ StartedAfresh(r) \/ NotStarted(r) \/ RestartFails(r)
                                 \/ RestartGivesUp(r) \/ InitShut(r) \/ Interrupt(r)
                                 \/ NothingToInterrupt(r)
          \/ DisposeGoesOn \/ DisposeEnds
  PROVE  InvParts'
<1> USE KernelAssumption DEF Inv, InvParts, TypeOK, TokenTypes, FieldTypes, CallTypes,
          CreationTypes, Alone, InFlightIsPromised, SessionIsPromised, PromiseIsKept,
          CreationIsSound, Ignores, Closings, Suspended, Quiet, Tokens, Disposal
<1> USE DEF Calls, Requests, ownVars, tokenVars, callVars, downVars, flagVars, sharedVars,
          Phases, Running, Lives, PCs, RestartPCs, Waiting, Unstarted, Goes, Awaits,
          InFlight, Settled, disposing, disposed
<1>1. ASSUME NEW r \in Requests, FindsSession(r)  PROVE InvParts'
  BY <1>1 DEF FindsSession
<1>2. ASSUME NEW r \in Requests, FindsNoSession(r)  PROVE InvParts'
  BY <1>2 DEF FindsNoSession, RenewToken, NewToken, StartsAfresh, BeginCreation
<1>3. ASSUME NEW r \in Requests, Restarted(r)  PROVE InvParts'
  BY <1>3 DEF Restarted, NewToken
<1>4. ASSUME NEW r \in Requests, StartedAfresh(r)  PROVE InvParts'
  BY <1>4 DEF StartedAfresh
<1>5. ASSUME NEW r \in Requests, NotStarted(r)  PROVE InvParts'
  BY <1>5 DEF NotStarted
<1>6. ASSUME NEW r \in Requests, RestartFails(r)  PROVE InvParts'
  BY <1>6 DEF RestartFails, Close
<1>7. ASSUME NEW r \in Requests, RestartGivesUp(r)  PROVE InvParts'
  BY <1>7 DEF RestartGivesUp
<1>8. ASSUME NEW r \in Requests, InitShut(r)  PROVE InvParts'
  BY <1>8 DEF InitShut
<1>9. ASSUME NEW r \in Requests, Interrupt(r)  PROVE InvParts'
  BY <1>9 DEF Interrupt
<1>10. ASSUME NEW r \in Requests, NothingToInterrupt(r)  PROVE InvParts'
  BY <1>10 DEF NothingToInterrupt
<1>11. ASSUME DisposeGoesOn  PROVE InvParts'
  BY <1>11 DEF DisposeGoesOn, TakeDown, Close
<1>12. ASSUME DisposeEnds  PROVE InvParts'
  BY <1>12 DEF DisposeEnds
<1> QED
  BY <1>1, <1>2, <1>3, <1>4, <1>5, <1>6, <1>7, <1>8, <1>9, <1>10, <1>11, <1>12

(* The steps of interrupt(), and the call of dispose().                     *)
LEMMA RequestKeeps ==
  ASSUME Inv, ~Overlapping, Drained,
          \/ \E r \in Requests : InterruptAsked(r)
          \/ \E i \in Interrupts : \/ InterruptEnds(i) \/ InterruptFails(i)
                                   \/ UserRestarts(i) \/ UserDeclines(i)
          \/ DisposeAsked
  PROVE  InvParts'
<1> USE KernelAssumption DEF Inv, InvParts, TypeOK, TokenTypes, FieldTypes, CallTypes,
          CreationTypes, Alone, InFlightIsPromised, SessionIsPromised, PromiseIsKept,
          CreationIsSound, Ignores, Closings, Suspended, Quiet, Tokens, Disposal
<1> USE DEF Calls, Requests, ownVars, tokenVars, callVars, downVars, flagVars, sharedVars,
          Phases, Running, Lives, PCs, RestartPCs, Waiting, Unstarted, Goes, Awaits,
          InFlight, Settled, disposing, disposed, Drained, Due
<1>1. ASSUME NEW r \in Requests, InterruptAsked(r)  PROVE InvParts'
  BY <1>1 DEF InterruptAsked
<1>2. ASSUME NEW i \in Interrupts, InterruptEnds(i)  PROVE InvParts'
  BY <1>2 DEF InterruptEnds, Interrupted
<1>3. ASSUME NEW i \in Interrupts, InterruptFails(i)  PROVE InvParts'
  BY <1>3 DEF InterruptFails, Interrupted
<1>4. ASSUME NEW i \in Interrupts, UserRestarts(i)  PROVE InvParts'
  BY <1>4 DEF UserRestarts, MayRestart
<1>5. ASSUME NEW i \in Interrupts, UserDeclines(i)  PROVE InvParts'
  BY <1>5 DEF UserDeclines
<1>6. ASSUME DisposeAsked  PROVE InvParts'
  BY <1>6 DEF DisposeAsked, Cancel, TakeDown, Close
<1> QED
  BY <1>1, <1>2, <1>3, <1>4, <1>5, <1>6
LEMMA NextKeeps ==
  ASSUME Inv, ~Overlapping, [Next]_vars
  PROVE  Inv'
<1>1. TypeOK'
  BY NextType DEF Inv
<1>2. CASE Continuation
  BY <1>2, <1>1, ContinuationKeeps DEF Inv, Continuation, GoesOn
<1>3. CASE Drained /\ Asked
  <2>1. Interrupts \subseteq Requests
    BY DEF Requests
  <2> QED
    BY <1>1, <1>3, <2>1, CreationKeeps, RestartKeeps, RequestKeeps DEF Inv, Asked
<1>4. CASE Drained /\ SharedStep
  BY <1>1, <1>4, RestartKeeps DEF Inv, SharedStep
<1>5. ASSUME NEW c \in Calls, Drained, CreationStep(c) \/ FactoryStep(c) \/ EndStep(c)
      PROVE  InvParts'
  BY <1>5, CreationKeeps DEF CreationStep, FactoryStep, EndStep
<1>6. ASSUME NEW r \in Requests, Drained, RestartStep(r)  PROVE InvParts'
  BY <1>6, RestartKeeps DEF RestartStep
<1>7. ASSUME NEW i \in Interrupts, Drained, InterruptStep(i)  PROVE InvParts'
  BY <1>7, RequestKeeps DEF InterruptStep
<1>8. CASE UNCHANGED vars
  BY <1>1, <1>8 DEF Inv, InvParts, Alone, InFlightIsPromised, SessionIsPromised, PromiseIsKept,
              CreationIsSound, Ignores, Closings, Suspended, Quiet, Tokens, Disposal,
              InFlight, disposing, disposed,
              vars, ownVars, tokenVars, callVars, downVars, flagVars, sharedVars
<1> QED
  BY <1>1, <1>2, <1>3, <1>4, <1>5, <1>6, <1>7, <1>8 DEF Next, Event, Inv

LEMMA InvAlways ==
  ASSUME ~Overlapping
  PROVE  Spec => []Inv
<1>1. Init => Inv
  <2>1. Init => TypeOK
    BY KernelAssumption
       DEF Init, TypeOK, TokenTypes, FieldTypes, CallTypes, CreationTypes,
           PCs, RestartPCs, Waiting, Phases, Running, Lives, Unstarted, Calls, Requests
  <2>2. Init => InvParts
    BY KernelAssumption
       DEF Init, InvParts, Alone, InFlightIsPromised, SessionIsPromised, PromiseIsKept,
           CreationIsSound, Ignores, Closings, Suspended, Quiet, Tokens, Disposal,
           InFlight, Running, RestartPCs, disposing, disposed, Calls, Requests
  <2> QED
    BY <2>1, <2>2 DEF Inv
<1>2. Inv /\ [Next]_vars => Inv'
  BY NextKeeps
<1> QED
  BY <1>1, <1>2, PTL DEF Spec

-----------------------------------------------------------------------------
(* What follows for the kernel.                                             *)

(* The kernel creates one session at a time, whatever starts, failures,     *)
(* restarts, interrupts and disposal there are.                             *)
THEOREM OneCreation ==
  ASSUME ~Overlapping
  PROVE  Spec => []OneCreationAtATime
<1>1. Inv => OneCreationAtATime
  BY DEF Inv, InvParts, InFlightIsPromised, OneCreationAtATime
<1> QED
  BY <1>1, InvAlways, PTL

(* The status getter tells what is so, and a session is always there with   *)
(* the promise of it.                                                       *)
THEOREM StatusTold ==
  ASSUME ~Overlapping
  PROVE  Spec => []StatusIsTruthful
<1>1. Inv => StatusIsTruthful
  BY DEF Inv, InvParts, PromiseIsKept, SessionIsPromised, StatusIsTruthful
<1> QED
  BY <1>1, InvAlways, PTL

(* The factory at work can always be cancelled.                             *)
THEOREM FactoryCancellable ==
  ASSUME ~Overlapping
  PROVE  Spec => []FactoryCanBeCancelled
<1>1. Inv => FactoryCanBeCancelled
  BY DEF Inv, InvParts, Tokens, FactoryCanBeCancelled
<1> QED
  BY <1>1, InvAlways, PTL

(* A session that ended is forgotten at once.                               *)
THEOREM EndsForgotten ==
  ASSUME ~Overlapping
  PROVE  Spec => []EndedIsForgotten
<1>1. Inv => EndedIsForgotten
  BY DEF Inv, InvParts, SessionIsPromised, EndedIsForgotten
<1> QED
  BY <1>1, InvAlways, PTL

(* Sessions end in no step but their own.                                   *)
LEMMA EndsByItself ==
  ASSUME Inv, [Next]_vars, NEW s \in Calls, life[s] = "closing", life'[s] = "ended"
  PROVE  EndStep(s)
<1> USE DEF Inv, TypeOK, CreationTypes, Lives
<1>1. ASSUME NEW c, \/ Start(c) \/ Tracked(c) \/ HooksRun(c) \/ SetupEnds(c) \/ SetupFails(c)
                    \/ IdleReached(c) \/ FactoryFails(c)
      PROVE  FALSE
  BY <1>1 DEF Start, Tracked, HooksRun, SetupEnds, SetupFails, IdleReached, FactoryFails
<1>2. ASSUME NEW c \in Calls, IdleFails(c) \/ FactorySucceeds(c)  PROVE FALSE
  BY <1>2 DEF IdleFails, FactorySucceeds, Close
<1>3. ASSUME NEW c \in Calls, EndStep(c)  PROVE c = s
  BY <1>3 DEF EndStep, SessionEnds, UnreadySessionEnds
<1>4. ASSUME NEW r, GoesOn(r)  PROVE FALSE
  BY <1>4 DEF GoesOn, FindsSession, FindsNoSession, Restarted, StartedAfresh, NotStarted,
              RestartFails, RestartGivesUp, InitShut, Interrupt, NothingToInterrupt, Close
<1>5. ASSUME NEW r, RestartStep(r)  PROVE FALSE
  BY <1>5 DEF RestartStep, LooksForSession, RestartsFromNothing, HookFails, InitHooksRun,
              InitSetupEnds, InitIdleReached, InitIdleFails, Close
<1>6. ASSUME NEW r, \/ RestartAsked(r) \/ InterruptAsked(r) \/ UserRestarts(r)
                    \/ UserDeclines(r) \/ InterruptStep(r)
      PROVE  FALSE
  BY <1>6 DEF RestartAsked, InterruptAsked, UserRestarts, UserDeclines, InterruptStep,
              InterruptEnds, InterruptFails, Interrupted
<1>7. ASSUME DisposeAsked \/ DisposeGoesOn \/ DisposeEnds  PROVE FALSE
  BY <1>7 DEF DisposeAsked, DisposeGoesOn, DisposeEnds, TakeDown, Close
<1>8. ASSUME SharedStep  PROVE FALSE
  BY <1>8 DEF SharedStep, SessionRestarts, SessionRestartFails, RestartSettles
<1> QED
  BY <1>1, <1>2, <1>3, <1>4, <1>5, <1>6, <1>7, <1>8
     DEF Next, Continuation, Event, Asked, CreationStep, FactoryStep, vars

(* The late end of the session of a failed restart leaves alone what was    *)
(* started since: it ends while the restart is "closing", so it is ignored; *)
(* and it is not the session of a creation that fails.                      *)
THEOREM LateEndIgnored ==
  ASSUME ~Overlapping
  PROVE  Spec => FailedRestartIsIgnored
<1> DEFINE Unharmed ==
      \A r \in Requests :
         pc[r] = "closing" /\ life[on[r]] = "closing" /\ life'[on[r]] = "ended"
         => UNCHANGED <<promise, session>>
<1>1. ASSUME Inv, [Next]_vars  PROVE Unharmed
  <2> SUFFICES ASSUME NEW r \in Requests, pc[r] = "closing",
                      life[on[r]] = "closing", life'[on[r]] = "ended"
               PROVE  UNCHANGED <<promise, session>>
    OBVIOUS
  <2>1. on[r] \in Calls /\ on[r] # None
    BY <1>1 DEF Inv, TypeOK, CallTypes, Waiting
  <2>2. ignoring /\ phase[on[r]] = "fulfilled"
    BY <1>1, <2>1 DEF Inv, InvParts, Ignores, Suspended
  <2>3. EndStep(on[r])
    BY <1>1, <2>1, EndsByItself
  <2> QED
    BY <2>2, <2>3 DEF EndStep, SessionEnds, UnreadySessionEnds, ForgetSession, Heard
<1> QED
  BY <1>1, InvAlways, PTL DEF Spec, FailedRestartIsIgnored

(* A session the kernel has adopted is not let go alive: what makes the     *)
(* kernel forget it has it shut down.                                       *)
THEOREM NotLetGoAlive ==
  ASSUME ~Overlapping
  PROVE  Spec => AdoptedIsDisposed
<1> DEFINE Kept == session # None /\ session' # session => life'[session] # "live"
<1>1. ASSUME Inv, [Next]_vars, session # None, session' # session  PROVE life'[session] # "live"
  <2> USE DEF Inv, TypeOK, FieldTypes, CreationTypes, Lives, ownVars
  <2>1. ASSUME NEW c \in Calls, IdleReached(c)  PROVE FALSE
    BY <1>1, <2>1 DEF IdleReached, InvParts, InFlightIsPromised, InFlight, Running
  <2>2. ASSUME NEW c \in Calls, EndStep(c)  PROVE life'[session] # "live"
    BY <1>1, <2>2 DEF EndStep, SessionEnds, UnreadySessionEnds, ForgetSession, Heard,
          InvParts, SessionIsPromised, InFlightIsPromised, InFlight, Running, Closings,
          Ignores, disposed, disposing
  <2>3. ASSUME NEW r, RestartFails(r)  PROVE life'[session] # "live"
    BY <1>1, <2>3 DEF RestartFails, Close
  <2>4. ASSUME DisposeAsked \/ DisposeGoesOn  PROVE life'[session] # "live"
    BY <1>1, <2>4 DEF DisposeAsked, DisposeGoesOn, TakeDown, Close,
          InvParts, SessionIsPromised, disposing
  <2>5. ASSUME NEW c, \/ Start(c) \/ Tracked(c) \/ HooksRun(c) \/ SetupEnds(c) \/ SetupFails(c)
                      \/ IdleFails(c) \/ FactoryStep(c)
        PROVE  FALSE
    BY <1>1, <2>5 DEF Start, Tracked, HooksRun, SetupEnds, SetupFails, IdleFails, FactoryStep,
          FactoryFails, FactorySucceeds
  <2>6. ASSUME NEW r, GoesOn(r), ~RestartFails(r)  PROVE FALSE
    BY <1>1, <2>6 DEF GoesOn, FindsSession, FindsNoSession, Restarted, StartedAfresh,
          NotStarted, RestartGivesUp, InitShut, Interrupt, NothingToInterrupt
  <2>7. ASSUME NEW r, RestartStep(r)  PROVE FALSE
    BY <1>1, <2>7 DEF RestartStep, LooksForSession, RestartsFromNothing, HookFails,
          InitHooksRun, InitSetupEnds, InitIdleReached, InitIdleFails
  <2>8. ASSUME NEW r, \/ RestartAsked(r) \/ InterruptAsked(r) \/ UserRestarts(r)
                      \/ UserDeclines(r) \/ InterruptStep(r)
        PROVE  FALSE
    BY <1>1, <2>8 DEF RestartAsked, InterruptAsked, UserRestarts, UserDeclines,
          InterruptStep, InterruptEnds, InterruptFails, Interrupted
  <2>9. ASSUME DisposeEnds \/ SharedStep  PROVE FALSE
    BY <1>1, <2>9 DEF DisposeEnds, SharedStep, SessionRestarts, SessionRestartFails,
          RestartSettles
  <2> QED
    BY <1>1, <2>1, <2>2, <2>3, <2>4, <2>5, <2>6, <2>7, <2>8, <2>9
       DEF Next, Continuation, Event, Asked, CreationStep, vars
<1>2. ASSUME Inv, [Next]_vars  PROVE Kept
  BY <1>1, <1>2
<1> QED
  BY <1>2, InvAlways, PTL DEF Spec, AdoptedIsDisposed
===============================================================================
