--------------------------- MODULE NotebookKernels ---------------------------
(***************************************************************************)
(* Which kernel a notebook has: the map of the kernel provider, the        *)
(* connection KernelConnector shares between its callers, with its prompts *)
(* and retries, and the switch from one controller to another.             *)
(*                                                                         *)
(* A kernel is what KernelLifecycle models in full; here it has a session  *)
(* or not, and is disposed or not.  The code that follows an await runs    *)
(* before the next event: it belongs to the step that settles the promise, *)
(* and callers are answered before anything else happens (Quiet).          *)
(***************************************************************************)
EXTENDS Integers, SequencesExt

CONSTANTS
    Controllers,  \* the controllers, each with a kernel connection of its own
    Callers,      \* calls of connectToNotebookKernel, and the commands
    MaxTroubles   \* bound: failed starts, deaths, switches, removed servers

ASSUME NotebookKernelsAssumption == MaxTroubles \in Nat

VARIABLES
    open,       \* the notebook is open
    selected,   \* the controller VS Code has selected for it
    switching,  \* controllers in onDidSelectController, awaiting the edit
    kernels,    \* the kernels of the notebook, in the order of their creation
    mapped,     \* kernelsByNotebook: one of them, or 0
    conns,      \* the runs of wrapKernelMethodImpl
    cached,     \* connectionsByNotebook: one of them, or 0
    calls,      \* the callers
    troubles    \* how many of MaxTroubles there have been

kernelsVars == <<open, selected, switching, kernels, mapped, conns, cached, calls, troubles>>

\* dead: the session says so; gone: it is disposed, and isKernelDead is set.
Sessions == {"none", "starting", "alive", "dead", "gone"}
Prompts  == {"errorPrompt", "selecting", "awaiting", "deadPrompt", "restarting",
             "latePrompt"}
\* commanded: kernel.restart() or interrupt() is awaited; picked: switchController
\* has the controller it awaited.
Stages   == {"starting", "commanded", "picked", "done", "failed"} \cup Prompts
Commands == {"restart", "interrupt"}
Over(i)  == conns[i].at \in {"done", "failed"}

KernelsInit ==
    /\ open = TRUE /\ selected \in Controllers /\ switching = {}
    /\ kernels = <<>> /\ mapped = 0
    /\ conns = <<>> /\ cached = 0
    /\ calls = [x \in Callers |-> [at |-> "idle", conn |-> 0, kernel |-> 0,
                                   ui |-> FALSE, own |-> FALSE, target |-> 0]]
    /\ troubles = 0

Quiet ==
    /\ \A x \in Callers : calls[x].at = "waiting" => ~Over(calls[x].conn)
    /\ \A i \in DOMAIN conns : conns[i].at # "picked"

Trouble == troubles < MaxTroubles /\ troubles' = troubles + 1

-----------------------------------------------------------------------------
(* What the steps do to kernels and connections.  ks and cs stand for these. *)

\* kernel.dispose(): at once, unless it has to await the start of the session.
Disposed(ks, k) ==
    IF k = 0 \/ ks[k].down # "no" THEN ks
    ELSE [ks EXCEPT ![k] =
            IF @.session = "starting" THEN [@ EXCEPT !.down = "disposing"]
            ELSE [@ EXCEPT !.down = "disposed",
                           !.session = IF ks[k].session = "gone" THEN "gone" ELSE "none"]]

\* deleteMappingIfKernelIsDisposed: if the disposed kernel is the one of the map.
\* Variant: it stays in the map.
StillMapped(m, ks) == m

UnlessDisposed(m, ks) == IF m # 0 /\ ks[m].down = "disposed" THEN 0 ELSE m

\* deleteKernelInfo by the listener of wrapKernelMethod, for its own connection.
\* Variant: whichever connection is cached.
WhileAnyOfUse(c, cs, ks) ==
    IF \E i \in DOMAIN conns : conns[i].at = "done" /\ conns[i].listens
                              /\ kernels[conns[i].kernel].down # "disposed"
                              /\ ks[conns[i].kernel].down = "disposed"
    THEN 0 ELSE c

WhileOfUse(c, cs, ks) ==
    IF c # 0 /\ (\/ cs[c].at = "failed"
                 \/ cs[c].at = "done" /\ cs[c].listens /\ ks[cs[c].kernel].down = "disposed")
    THEN 0 ELSE c

Become(ks, m, cs, c) ==
    /\ kernels' = ks
    /\ mapped' = UnlessDisposed(m, ks)
    /\ conns' = cs
    /\ cached' = WhileOfUse(c, cs, ks)

\* getOrCreate: the kernel of the map if it is the controller's, else a new one.
\* Variant: the old kernel is not disposed.
OldLeft(ks, m) == ks

OldDisposed(ks, m) == Disposed(ks, m)

Fits(ks, m, ctl) == m # 0 /\ ks[m].of = ctl

Created(ks, m, ctl) ==
    IF Fits(ks, m, ctl) THEN ks
    ELSE Append(OldDisposed(ks, m),
                [of |-> ctl, session |-> "none", down |-> "no", forgotten |-> FALSE])

CreatedOne(ks, m, ctl) == IF Fits(ks, m, ctl) THEN m ELSE Len(ks) + 1

Dead(ks, k) == ks[k].session \in {"dead", "gone"}

\* A promise of the connection is fulfilled or rejected.
Done(con, ks)  == [con EXCEPT !.at = "done", !.listens = ks[con.kernel].down # "disposed"]
Failed(con)    == [con EXCEPT !.at = "failed"]

\* After a start: closed, dead, or fine.
Started(con, ks) ==
    IF ~open THEN Failed(con)
    ELSE IF Dead(ks, con.kernel) /\ con.ui THEN [con EXCEPT !.at = "latePrompt"]
    ELSE Done(con, ks)

\* The catch of wrapKernelMethodImpl, up to the error handler.
\* Variant: that the start was cancelled is told to nobody.
ErredUntold(con, cancelled) ==
    IF ~con.ui \/ ~open THEN Failed(con)
    ELSE IF cancelled THEN con
    ELSE [con EXCEPT !.at = "errorPrompt"]

Erred(con, cancelled) ==
    IF ~con.ui \/ ~open \/ cancelled THEN Failed(con)
    ELSE [con EXCEPT !.at = "errorPrompt"]

\* The head of the loop: nothing is created for a closed notebook.
\* Variant: it is.
EvenIfClosed == FALSE

IsClosed == ~open

\* Whether the head of the loop asks about a dead kernel: a restart does not.
PromptsForDead(con) == con.ui /\ con.command # "restart"

\* One turn of the loop of wrapKernelMethodImpl, up to its first await, for the
\* connection con, which becomes the one at index i of cs.  A command calls its
\* method on the first turn, and starts the kernel on the others.
Attempt(i, con, ks0, m0, cs, c) ==
    LET ks == Created(ks0, m0, con.of)
        k  == CreatedOne(ks0, m0, con.of)
        at == [con EXCEPT !.kernel = k,
                          !.at = IF @ = "commanded" THEN "commanded" ELSE "starting"]
        Goes(newKs, new) == Become(newKs, k, [cs EXCEPT ![i] = new], c)
    IN IF IsClosed THEN Become(ks0, m0, [cs EXCEPT ![i] = Failed(con)], c)
       ELSE IF Dead(ks, k) /\ PromptsForDead(con)
            THEN Goes(ks, [at EXCEPT !.at = "deadPrompt"])
       ELSE IF con.at = "commanded" THEN Goes(ks, at)
       ELSE IF ks[k].down # "no" THEN Goes(ks, Erred(at, TRUE))
       ELSE IF ks[k].session \in {"none", "starting", "gone"}
            THEN Goes([ks EXCEPT ![k].session = "starting"], at)
       ELSE Goes(ks, Started(at, ks))

\* asked: kernelWasRestartedDueToDeadKernel; noRestart, again: deadKernelAction.
NewConn(ctl, ui, asked) ==
    [of |-> ctl, ui |-> ui, at |-> "starting", kernel |-> 0, asked |-> asked,
     noRestart |-> FALSE, again |-> FALSE, listens |-> FALSE, command |-> "none"]

NewCommand(ctl, method) ==
    [NewConn(ctl, TRUE, FALSE) EXCEPT !.at = "commanded", !.command = method]

-----------------------------------------------------------------------------
(* wrapKernelMethod.                                                        *)

Waits(x, i, ui, own, target) ==
    calls' = [calls EXCEPT ![x] = [at |-> "waiting", conn |-> i, kernel |-> 0,
                                   ui |-> ui, own |-> own, target |-> target]]

\* A resolved connection whose kernel is disposed or being disposed.
Useless(i) == conns[i].at = "done" /\ kernels[conns[i].kernel].down # "no"

\* The caller joins the cached connection c0 of cs, which gets its UI, or makes one.
Connect(x, ctl, ui, again, c0, cs, ks, m) ==
    LET c == IF c0 # 0 /\ ui /\ Useless(c0) THEN 0 ELSE c0
        i == Len(cs) + 1
    IN IF c # 0
       THEN Waits(x, c, ui, FALSE, calls[x].target)
            /\ Become(ks, m, [cs EXCEPT ![c].ui = @ \/ ui], c)
       ELSE /\ Waits(x, i, ui, TRUE, calls[x].target)
            /\ LET con == NewConn(ctl, ui, again)
               IN Attempt(i, con, ks, m, Append(cs, con), i)

\* A cell is run, or the debugger connects.
RunConnects(x) ==
    /\ Quiet /\ calls[x].at = "idle"
    /\ Connect(x, selected, TRUE, FALSE, cached, conns, kernels, mapped)
    /\ UNCHANGED <<open, selected, switching, troubles>>

\* The kernel has a command that is not answered yet: it is joined.
Pending(k) == \E y \in Callers : calls[y].at = "waiting" /\ calls[y].target = k

\* The command to restart or interrupt the kernel, for the controller selected.  The
\* cached connection gets its UI, is not joined, and is cached no longer.
CommandConnects(x, method) ==
    LET i   == Len(conns) + 1
        con == NewCommand(selected, method)
        cs  == [j \in DOMAIN conns |->
                  IF j = cached THEN [conns[j] EXCEPT !.ui = TRUE] ELSE conns[j]]
    IN /\ Quiet /\ open /\ calls[x].at = "idle"
       /\ mapped # 0 /\ ~Pending(mapped)
       /\ Waits(x, i, TRUE, TRUE, mapped)
       /\ Attempt(i, con, kernels, mapped, Append(cs, con), i)
       /\ UNCHANGED <<open, selected, switching, troubles>>

\* verifyKernelState, when the connection is over; a dead kernel is asked for once
\* more.
Answered(x) ==
    LET i   == calls[x].conn
        con == conns[i]
        c   == IF cached = i THEN 0 ELSE cached
        Is(at, k) == calls' = [calls EXCEPT ![x].at = at, ![x].kernel = k]
    IN /\ calls[x].at = "waiting" /\ Over(i)
       /\ \/ /\ con.at = "failed"
             /\ Is("failed", 0) /\ UNCHANGED <<kernels, mapped, conns, cached>>
          \/ /\ con.at = "done" /\ ~Dead(kernels, con.kernel)
             /\ Is("got", con.kernel) /\ UNCHANGED <<kernels, mapped, conns, cached>>
          \/ /\ con.at = "done" /\ Dead(kernels, con.kernel)
             /\ con.noRestart \/ con.again \/ (calls[x].own /\ con.asked)
             /\ Is("failed", 0) /\ Become(kernels, mapped, conns, c)
          \/ /\ con.at = "done" /\ Dead(kernels, con.kernel)
             /\ ~con.noRestart /\ ~con.again /\ ~(calls[x].own /\ con.asked)
             /\ Connect(x, kernels[con.kernel].of, calls[x].ui, TRUE, c,
                        [conns EXCEPT ![i].again = TRUE], kernels, mapped)
       /\ UNCHANGED <<open, selected, switching, troubles>>

-----------------------------------------------------------------------------
(* Kernels start, or fail to; they die.                                     *)

AwaitsStart(i, k) == conns[i].at = "starting" /\ conns[i].kernel = k

KernelStarted(k) ==
    LET ks == [kernels EXCEPT ![k].session = "alive"]
    IN /\ Quiet /\ kernels[k].session = "starting"
       /\ Become(ks, mapped,
                 [i \in DOMAIN conns |->
                    IF AwaitsStart(i, k) THEN Started(conns[i], ks) ELSE conns[i]], cached)
       /\ UNCHANGED <<open, selected, switching, calls, troubles>>

\* A start fails, or is cancelled because the kernel is being disposed.
KernelNotStarted(k) ==
    LET cancelled == kernels[k].down # "no"
    IN /\ Quiet /\ kernels[k].session = "starting"
       /\ IF cancelled THEN UNCHANGED troubles ELSE Trouble
       /\ Become([kernels EXCEPT ![k].session = "none"], mapped,
                 [i \in DOMAIN conns |->
                    IF AwaitsStart(i, k) THEN Erred(conns[i], cancelled) ELSE conns[i]],
                 cached)
       /\ UNCHANGED <<open, selected, switching, calls>>

\* dispose() goes on when the start it awaited is settled.
DisposeGoesOn(k) ==
    /\ Quiet /\ kernels[k].down = "disposing" /\ kernels[k].session # "starting"
    /\ Become([kernels EXCEPT ![k].down = "disposed", ![k].session = "none"],
              mapped, conns, cached)
    /\ UNCHANGED <<open, selected, switching, calls, troubles>>

KernelDies(k) ==
    /\ Quiet /\ Trouble
    /\ kernels[k].session = "alive" /\ kernels[k].down = "no"
    /\ \E how \in {"dead", "gone"} :
         Become([kernels EXCEPT ![k].session = how], mapped, conns, cached)
    /\ UNCHANGED <<open, selected, switching, calls>>

-----------------------------------------------------------------------------
(* restart() and interrupt() of a command.  Both await a start under way.   *)

HasNone(k) == kernels[k].session \in {"none", "gone"}

Commanded(i) ==
    conns[i].at = "commanded" /\ kernels[conns[i].kernel].session # "starting"

\* What the kernel is when its session was restarted, or could not be.
Restarted(k, to) ==
    IF kernels[k].down = "no" THEN [kernels EXCEPT ![k].session = to] ELSE kernels

\* A dead kernel is not prompted for after an interrupt.
AfterInterrupt(con, ks) == IF open THEN Done(con, ks) ELSE Failed(con)

\* restart() of a kernel without a session starts it, unless it is being disposed.
RestartStarts(i) ==
    LET k == conns[i].kernel
    IN /\ Quiet /\ Commanded(i) /\ conns[i].command = "restart" /\ HasNone(k)
       /\ IF kernels[k].down = "no"
          THEN Become([kernels EXCEPT ![k].session = "starting"], mapped,
                      [conns EXCEPT ![i].at = "starting"], cached)
          ELSE Become(kernels, mapped, [conns EXCEPT ![i] = Erred(@, TRUE)], cached)
       /\ UNCHANGED <<open, selected, switching, calls, troubles>>

\* An interrupt that takes too long may end with a restart.
CommandEnds(i) ==
    LET k == conns[i].kernel
    IN /\ Quiet /\ Commanded(i)
       /\ \/ /\ ~HasNone(k)
             /\ LET ks == Restarted(k, "alive")
                IN Become(ks, mapped,
                          [conns EXCEPT ![i] = IF @.command = "restart" THEN Started(@, ks)
                                               ELSE AfterInterrupt(@, ks)], cached)
          \/ /\ conns[i].command = "interrupt"
             /\ Become(kernels, mapped,
                       [conns EXCEPT ![i] = AfterInterrupt(@, kernels)], cached)
       /\ UNCHANGED <<open, selected, switching, calls, troubles>>

CommandFails(i) ==
    LET k == conns[i].kernel
    IN /\ Quiet /\ Trouble /\ Commanded(i) /\ ~HasNone(k)
       /\ \E ks \in {kernels, Restarted(k, "none")} :
            /\ ks = kernels => conns[i].command = "interrupt" \/ kernels[k].down # "no"
            /\ Become(ks, mapped, [conns EXCEPT ![i] = Erred(@, FALSE)], cached)
       /\ UNCHANGED <<open, selected, switching, calls>>

-----------------------------------------------------------------------------
(* Prompts of a connection.                                                 *)

\* handleKernelError has its answer: the kernel is disposed in any case.
AfterError(i) == Disposed(kernels, conns[i].kernel)

ErrorAnswered(i) ==
    /\ Quiet /\ conns[i].at = "errorPrompt"
    /\ \E con \in {Failed(conns[i]), [conns[i] EXCEPT !.at = "selecting"]} :
         Become(AfterError(i), mapped, [conns EXCEPT ![i] = con], cached)
    /\ UNCHANGED <<open, selected, switching, calls, troubles>>

\* The reason of the error is gone: once around.
ErrorSolved(i) ==
    /\ Quiet /\ conns[i].at = "errorPrompt"
    /\ Attempt(i, conns[i], AfterError(i), UnlessDisposed(mapped, AfterError(i)), conns,
               cached)
    /\ UNCHANGED <<open, selected, switching, calls, troubles>>

\* switchController: the user selects no kernel.
SelectionCancelled(i) ==
    /\ Quiet /\ conns[i].at = "selecting"
    /\ Become(kernels, mapped, [conns EXCEPT ![i] = Failed(@)], cached)
    /\ UNCHANGED <<open, selected, switching, calls, troubles>>

\* Only a prompt before the start tells kernelWasRestartedDueToDeadKernel.
Asked(con) == [con EXCEPT !.asked = @ \/ con.at = "deadPrompt"]

\* notifyAndRestartDeadKernel: the user restarts the kernel, or does not.  A kernel
\* that is disposed by then throws.
DeadAnswered(i) ==
    LET k == conns[i].kernel
        To(con) == Become(kernels, mapped, [conns EXCEPT ![i] = con], cached)
    IN /\ Quiet /\ conns[i].at \in {"deadPrompt", "latePrompt"}
       /\ \/ To(Done([conns[i] EXCEPT !.noRestart = conns[i].at = "deadPrompt"], kernels))
          \/ kernels[k].down # "no" /\ To(Erred(Asked(conns[i]), TRUE))
          \/ kernels[k].down = "no" /\ To([Asked(conns[i]) EXCEPT !.at = "restarting"])
       /\ UNCHANGED <<open, selected, switching, calls, troubles>>

RestartEnds(i) ==
    LET k  == conns[i].kernel
        ks == IF kernels[k].down = "no"
              THEN [kernels EXCEPT ![k].session = "alive"] ELSE kernels
    IN /\ Quiet /\ conns[i].at = "restarting"
       /\ Become(ks, mapped, [conns EXCEPT ![i] = Done(@, ks)], cached)
       /\ UNCHANGED <<open, selected, switching, calls, troubles>>

RestartFails(i) ==
    LET k  == conns[i].kernel
        ks == IF kernels[k].down = "no"
              THEN [kernels EXCEPT ![k].session = "none"] ELSE kernels
    IN /\ Quiet /\ Trouble /\ conns[i].at = "restarting"
       /\ Become(ks, mapped, [conns EXCEPT ![i] = Erred(@, FALSE)], cached)
       /\ UNCHANGED <<open, selected, switching, calls>>

-----------------------------------------------------------------------------
(* The notebook.                                                            *)

\* onControllerSelected: whoever awaits the selection of a controller has it.
Picked(ctl) ==
    [i \in DOMAIN conns |->
        IF conns[i].at \in {"selecting", "awaiting"}
        THEN [conns[i] EXCEPT !.at = "picked", !.of = ctl] ELSE conns[i]]

\* onDidChangeSelectedNotebooks, of the old controller and of the new one, which
\* goes on to edit the notebook, or is selected if it has its kernel already.
SelectController(ctl) ==
    LET ks == IF mapped # 0 /\ kernels[mapped].of = selected
              THEN Disposed(kernels, mapped) ELSE kernels
        m  == UnlessDisposed(mapped, ks)
    IN /\ Quiet /\ Trouble /\ open /\ ctl # selected
       /\ selected' = ctl
       /\ IF Fits(ks, m, ctl)
          THEN Become(ks, mapped, Picked(ctl), cached) /\ UNCHANGED switching
          ELSE Become(ks, mapped, conns, cached) /\ switching' = switching \cup {ctl}
       /\ UNCHANGED <<open, calls>>

\* onDidSelectController makes "the new kernel", and the controller is selected.
SwitchEnds(ctl) ==
    LET ks == Created(kernels, mapped, ctl)
        k  == CreatedOne(kernels, mapped, ctl)
    IN /\ Quiet /\ ctl \in switching
       /\ switching' = switching \ {ctl}
       /\ Become(ks, k, Picked(ctl), cached)
       /\ UNCHANGED <<open, selected, calls, troubles>>

\* The connection goes around with the controller it was given.
GoesAround(i) ==
    /\ conns[i].at = "picked"
    /\ Attempt(i, conns[i], kernels, mapped, conns, cached)
    /\ UNCHANGED <<open, selected, switching, calls, troubles>>

\* The same, and the kernel is started automatically, without UI.
SwitchConnects(ctl, x) ==
    LET ks == Created(kernels, mapped, ctl)
        k  == CreatedOne(kernels, mapped, ctl)
    IN /\ Quiet /\ ctl \in switching /\ calls[x].at = "idle"
       /\ \A i \in DOMAIN conns : conns[i].at \notin {"selecting", "awaiting"}
       /\ switching' = switching \ {ctl}
       /\ Connect(x, ctl, FALSE, FALSE, WhileOfUse(cached, conns, ks), conns, ks, k)
       /\ UNCHANGED <<open, selected, troubles>>

\* The user is asked for another kernel and picks the one there is: no controller
\* is selected, and switchController goes on to await the next one that is.
SameSelected(i) ==
    /\ Quiet /\ conns[i].at = "selecting"
    /\ conns' = [conns EXCEPT ![i].at = "awaiting"]
    /\ UNCHANGED <<open, selected, switching, kernels, mapped, cached, calls, troubles>>

\* onDidCloseNotebookDocument.
CloseNotebook ==
    /\ Quiet /\ open
    /\ open' = FALSE
    /\ Become(Disposed(kernels, mapped), 0, conns, cached)
    /\ UNCHANGED <<selected, switching, calls, troubles>>

\* handleServerRemoval: the kernel is no longer in the map.
ServerRemoved ==
    /\ Quiet /\ Trouble /\ open /\ mapped # 0
    /\ Become([kernels EXCEPT ![mapped].forgotten = TRUE], 0, conns, cached)
    /\ UNCHANGED <<open, selected, switching, calls>>

KernelsStep ==
    \/ \E x \in Callers : Answered(x)
    \/ \E k \in DOMAIN kernels : KernelStarted(k) \/ KernelNotStarted(k) \/ DisposeGoesOn(k)
    \/ \E i \in DOMAIN conns :
         \/ ErrorAnswered(i) \/ ErrorSolved(i) \/ SelectionCancelled(i) \/ SameSelected(i)
         \/ DeadAnswered(i) \/ RestartEnds(i) \/ RestartFails(i) \/ GoesAround(i)
         \/ RestartStarts(i) \/ CommandEnds(i) \/ CommandFails(i)
    \/ \E ctl \in Controllers :
         SwitchEnds(ctl) \/ \E x \in Callers : SwitchConnects(ctl, x)

KernelsNext ==
    \/ KernelsStep
    \/ \E x \in Callers :
         RunConnects(x) \/ \E method \in Commands : CommandConnects(x, method)
    \/ \E k \in DOMAIN kernels : KernelDies(k)
    \/ \E ctl \in Controllers : SelectController(ctl)
    \/ CloseNotebook \/ ServerRemoved

\* Starts, restarts and edits come to an end, and prompts are answered.
KernelsSpec == KernelsInit /\ [][KernelsNext]_kernelsVars

KernelsFairness == WF_kernelsVars(KernelsStep)

-----------------------------------------------------------------------------
(* Properties.                                                              *)

(* Every variable keeps its type; a kernel that is disposed has no session, *)
(* and is in no map.                                                        *)
KernelsTypeOK ==
    /\ open \in BOOLEAN /\ selected \in Controllers /\ switching \subseteq Controllers
    /\ \A k \in DOMAIN kernels :
         /\ kernels[k] \in [of : Controllers, session : Sessions,
                            down : {"no", "disposing", "disposed"}, forgotten : BOOLEAN]
         /\ kernels[k].down = "disposed" => kernels[k].session \in {"none", "gone"}
    /\ mapped \in 0..Len(kernels)
    /\ mapped # 0 => kernels[mapped].down # "disposed"
    /\ \A i \in DOMAIN conns :
         conns[i] \in [of : Controllers, ui : BOOLEAN, at : Stages,
                       kernel : 0..Len(kernels), noRestart : BOOLEAN,
                       again : BOOLEAN, asked : BOOLEAN, listens : BOOLEAN,
                       command : Commands \cup {"none"}]
    /\ cached \in 0..Len(conns)
    /\ \A x \in Callers : calls[x].at \in {"idle", "waiting", "got", "failed"}
    /\ troubles \in 0..MaxTroubles

(* A notebook has one kernel: every kernel but the one of the map is        *)
(* disposed, or being disposed, or was forgotten with its server.           *)
OneKernel ==
    \A k \in DOMAIN kernels :
        kernels[k].down = "no" /\ ~kernels[k].forgotten => k = mapped

HasSession(k) == kernels[k].session \notin {"none", "gone"}

(* A notebook that is closed leaves no kernel behind: no session is there,  *)
(* or will be, that is not being disposed, whatever was under way.          *)
ClosedLeavesNone ==
    ~open => \A k \in DOMAIN kernels :
                HasSession(k) /\ ~kernels[k].forgotten => kernels[k].down # "no"

\* A restart or an interrupt was asked for since.
Overtaken(cs, i) == \E j \in DOMAIN cs : j > i /\ cs[j].command # "none"

(* Callers share one connection: one that is under way is the cached one,   *)
(* or a command came after it.  No second one is made by callers who only   *)
(* want the kernel, whatever fails, is answered or is disposed meanwhile.   *)
OneConnection ==
    \A i \in DOMAIN conns : Over(i) \/ i = cached \/ Overtaken(conns, i)

(* Whoever connects gets a kernel or an error, unless the one who was asked *)
(* for another kernel has picked the one there is.                          *)
EveryoneAnswered ==
    \A x \in Callers :
        calls[x].at = "waiting"
        ~> (calls[x].at # "waiting" \/ conns[calls[x].conn].at = "awaiting")

=============================================================================
