--------------------------- MODULE WidgetMessages ---------------------------
(***************************************************************************)
(* How the messages of a raw kernel are mirrored to the kernel the widgets *)
(* have in the webview, and how the two keep in step: RawSocket passes the *)
(* messages one by one to its hooks and then to the extension's kernel     *)
(* connection; IPyWidgetMessageDispatcher is the hook, which posts them to *)
(* the webview and waits, for the updates of an output widget, until that  *)
(* has handled them; ProxyKernel is the webview's kernel.                  *)
(*                                                                         *)
(* An update of an output widget may set or remove its hook for messages   *)
(* of a cell.  The hook has to be set in both kernels.  Both kernels       *)
(* (@jupyterlab/services, external) handle their messages one after the    *)
(* other, and messages between extension and webview stay in order.        *)
(***************************************************************************)
EXTENDS Integers, SequencesExt

CONSTANTS
    MaxMessages,  \* bound: messages of the kernel
    MaxRestarts,  \* bound: restarts of the kernel
    None          \* the JavaScript value undefined

ASSUME WidgetAssumption ==
    MaxMessages \in Nat /\ MaxRestarts \in Nat /\ None \notin Nat

VARIABLES
    count,      \* how many messages the kernel has sent
    kind,       \* kind[n]: what message n is
    live,       \* the kernel has the output widget
    chain,      \* msgChain of the socket: messages not passed on yet
    stage,      \* what the hook awaits for the first of them
    broken,     \* the hook has thrown, which ends the chain for good
    fullHandle, \* fullHandleMessage: the message it is about
    widget,     \* outputWidgetIds has the output widget
    toUI,       \* posted to the webview
    toExt,      \* posted to the extension
    uiChain,    \* the webview's kernel: messages to be handled
    uiWidget,   \* it has the widget
    uiHook,     \* it has the widget's hook
    lastHooked, \* lastHookedMessageId
    awaiting,   \* awaitingExtensionMessage
    finishing,  \* handled messages the extension is to be told of then
    extChain,   \* the extension's kernel: messages to be handled
    asking,     \* messageHookRequests: the one for the first of these
    extHook,    \* messageHooks has the hook
    removals,   \* pendingHookRemovals: the hook goes after these
    asked,      \* history: messages the extension has called the hook for
    hooked,     \* history: messages the webview has called the hook for
    handled,    \* history: messages the webview has handled
    again,      \* history: the hook was set again with a removal still to come
    restarts

socketVars == <<chain, stage, broken, fullHandle, widget>>
uiVars     == <<uiChain, uiWidget, uiHook, lastHooked, awaiting, finishing, hooked, handled>>
extVars    == <<extChain, asking, extHook, removals, asked, again>>
sourceVars == <<count, kind, live>>
widgetVars == <<sourceVars, socketVars, toUI, toExt, uiVars, extVars, restarts>>

Kinds == {"open", "update", "output", "close"}

WidgetInit ==
    /\ count = 0 /\ kind = <<>> /\ live = FALSE
    /\ chain = <<>> /\ stage = "idle" /\ broken = FALSE
    /\ fullHandle = None /\ widget = FALSE
    /\ toUI = <<>> /\ toExt = <<>>
    /\ uiChain = <<>> /\ uiWidget = FALSE /\ uiHook = FALSE /\ lastHooked = None
    /\ awaiting = {} /\ finishing = <<>>
    /\ extChain = <<>> /\ asking = FALSE /\ extHook = FALSE /\ removals = {}
    /\ asked = {} /\ hooked = {} /\ handled = {} /\ again = FALSE
    /\ restarts = 0

Post(what, n) == [what |-> what, n |-> n]

-----------------------------------------------------------------------------
(* The socket and its hook.                                                 *)

\* onIncomingMessage.
KernelSends ==
    /\ count < MaxMessages
    /\ count' = count + 1
    /\ \E k \in Kinds :
         /\ k = "open" => ~live
         /\ k \in {"update", "close"} => live
         /\ kind' = Append(kind, k)
         /\ live' = CASE k = "open" -> TRUE [] k = "close" -> FALSE [] OTHER -> live
    /\ chain' = Append(chain, count')
    /\ UNCHANGED <<stage, broken, fullHandle, widget, toUI, toExt, uiVars, extVars,
                   restarts>>

\* messageNeedsFullHandle.
\* Variant: no message does.
NeverNeeded(n) == FALSE

NeedsFullHandle(n) == kind[n] = "update" /\ widget

\* fireOnMessage, and the next message of the chain.
PassOn ==
    /\ chain' = Tail(chain) /\ stage' = "idle"
    /\ extChain' = Append(extChain, Head(chain))

\* onKernelSocketMessage, up to its first await.
HookMessage ==
    LET n == Head(chain)
    IN /\ chain # <<>> /\ stage = "idle" /\ ~broken
       /\ toUI' = Append(toUI, Post("msg", n))
       /\ widget' = CASE kind[n] = "open"  -> TRUE
                      [] kind[n] = "close" -> FALSE
                      [] OTHER             -> widget
       /\ IF NeedsFullHandle(n)
          THEN /\ fullHandle' = n /\ stage' = "received"
               /\ UNCHANGED <<chain, extChain>>
          ELSE PassOn /\ UNCHANGED fullHandle
       /\ UNCHANGED <<sourceVars, broken, toExt, uiVars, asking, extHook, removals,
                      asked, again, restarts>>

\* The extension gets a message of the webview.
Gets(what) ==
    /\ toExt # <<>> /\ Head(toExt).what = what
    /\ toExt' = Tail(toExt)

Mine(n) == chain # <<>> /\ Head(chain) = n

\* onKernelSocketResponse: the hook goes on to await fullHandleMessage.promise,
\* and throws if there is no such message any more.
MessageReceived ==
    LET n == Head(toExt).n
    IN /\ Gets("received")
       /\ IF stage = "received" /\ Mine(n)
          THEN IF fullHandle = None
               THEN broken' = TRUE /\ UNCHANGED stage
               ELSE stage' = "handled" /\ UNCHANGED broken
          ELSE UNCHANGED <<stage, broken>>
       /\ UNCHANGED <<sourceVars, chain, fullHandle, widget, toUI, uiVars, extVars,
                      restarts>>

\* "We don't fully handle all iopub messages, so check our id here".
IsAwaited(n) == fullHandle = n

\* iopubMessageHandled.
MessageHandled ==
    LET n == Head(toExt).n
    IN /\ Gets("handled")
       /\ IF IsAwaited(n)
          THEN /\ fullHandle' = None
               /\ IF stage = "handled" /\ Mine(n) THEN PassOn
                  ELSE UNCHANGED <<chain, stage, extChain>>
          ELSE UNCHANGED <<fullHandle, chain, stage, extChain>>
       /\ UNCHANGED <<sourceVars, broken, widget, toUI, uiVars, asking, extHook,
                      removals, asked, again, restarts>>

-----------------------------------------------------------------------------
(* The hook in the extension.                                               *)

\* registerMessageHook.  The webview is answered in any case.
\* Variant: a hook that is there already is not answered.
OnlyIfNew == ~extHook

InAnyCase == TRUE

\* Messages the extension's kernel has not done with.
Coming == chain \o extChain

RegisterHook ==
    /\ Gets("register")
    /\ extHook' = TRUE
    /\ again' = (again \/ removals \cap ToSet(Coming) # {})
    /\ toUI' = IF InAnyCase THEN Append(toUI, Post("done", "register")) ELSE toUI
    /\ UNCHANGED <<sourceVars, socketVars, uiVars, extChain, asking, removals, asked,
                   restarts>>

\* possiblyRemoveMessageHook: at once, or after the message last hooked.
RemoveHook ==
    LET n == Head(toExt).n
    IN /\ Gets("remove")
       /\ IF n = None THEN extHook' = FALSE /\ UNCHANGED removals
          ELSE removals' = removals \cup {n} /\ UNCHANGED extHook
       /\ toUI' = Append(toUI, Post("done", "remove"))
       /\ UNCHANGED <<sourceVars, socketVars, uiVars, extChain, asking, asked, again,
                      restarts>>

\* The extension's kernel handles a message; messageHookCallback asks the webview,
\* and removes the hook if it was to go after this message.
ExtensionHandles ==
    LET n == Head(extChain)
    IN /\ extChain # <<>> /\ ~asking
       /\ IF kind[n] = "output" /\ extHook
          THEN /\ asking' = TRUE /\ asked' = asked \cup {n}
               /\ toUI' = Append(toUI, Post("hook", n))
               /\ extHook' = (n \notin removals) /\ removals' = removals \ {n}
               /\ UNCHANGED extChain
          ELSE /\ extChain' = Tail(extChain)
               /\ UNCHANGED <<asking, asked, toUI, extHook, removals>>
       /\ UNCHANGED <<sourceVars, socketVars, toExt, uiVars, again, restarts>>

\* handleMessageHookResponse.
HookAnswered ==
    /\ Gets("result")
    /\ IF asking /\ extChain # <<>> /\ Head(extChain) = Head(toExt).n
       THEN asking' = FALSE /\ extChain' = Tail(extChain)
       ELSE UNCHANGED <<asking, extChain>>
    /\ UNCHANGED <<sourceVars, socketVars, toUI, uiVars, extHook, removals, asked, again,
                   restarts>>

-----------------------------------------------------------------------------
(* The webview.                                                             *)

\* ProxyKernel.handleMessage: what it gets, in order.
UIGets(what) ==
    /\ toUI # <<>> /\ Head(toUI).what = what
    /\ toUI' = Tail(toUI)

\* IPyWidgets_msg: the message is queued, and its receipt told.
UIReceives ==
    /\ UIGets("msg")
    /\ uiChain' = Append(uiChain, Head(toUI).n)
    /\ toExt' = Append(toExt, Post("received", Head(toUI).n))
    /\ UNCHANGED <<sourceVars, socketVars, uiWidget, uiHook, lastHooked, awaiting,
                   finishing, hooked, handled, extVars, restarts>>

\* IPyWidgets_MessageHookCall: it answers at once, whether or not it has called the
\* hook for this message by then.
UIAnswers ==
    /\ UIGets("hook")
    /\ toExt' = Append(toExt, Post("result", Head(toUI).n))
    /\ UNCHANGED <<sourceVars, socketVars, uiVars, extVars, restarts>>

\* onIOPubMessage: told at once, or when the extension has done what it was asked.
Told(n, waits) ==
    IF waits = {} THEN <<Post("handled", n)>> ELSE <<>>

\* The webview's kernel handles a message: an output calls the hook; an update of
\* the widget may set or remove it (registerMessageHook, removeMessageHook).
UIHandles ==
    LET n == Head(uiChain)
        updates == kind[n] = "update" /\ uiWidget
        calls   == kind[n] = "output" /\ uiHook
        waits   == IF ~updates THEN awaiting
                   ELSE awaiting \cup {IF uiHook THEN "remove" ELSE "register"}
        posts   == IF ~updates THEN <<>>
                   ELSE IF uiHook THEN <<Post("remove", lastHooked)>>
                   ELSE <<Post("register", n)>>
    IN /\ uiChain # <<>> /\ uiChain' = Tail(uiChain)
       /\ uiWidget' = CASE kind[n] = "open" -> TRUE [] kind[n] = "close" -> FALSE
                        [] OTHER -> uiWidget
       /\ uiHook' = (uiHook # updates)
       /\ lastHooked' = CASE calls              -> n
                          [] updates /\ uiHook -> None
                          [] OTHER             -> lastHooked
       /\ hooked' = IF calls THEN hooked \cup {n} ELSE hooked
       /\ handled' = handled \cup {n}
       /\ awaiting' = waits
       /\ toExt' = toExt \o posts \o Told(n, waits)
       /\ finishing' = IF waits = {} THEN finishing ELSE Append(finishing, n)
       /\ UNCHANGED <<sourceVars, socketVars, toUI, extVars, restarts>>

\* Those to be told of when the extension has done what it was asked.
\* Variant: they stay.
StillFinishing(left) == finishing

Finishing(left) == IF left = {} THEN <<>> ELSE finishing

\* IPyWidgets_ExtensionOperationHandled.
UIGoesOn ==
    /\ UIGets("done")
    /\ awaiting' = awaiting \ {Head(toUI).n}
    /\ finishing' = Finishing(awaiting')
    /\ toExt' = IF awaiting' # {} THEN toExt
                ELSE toExt \o [i \in DOMAIN finishing |-> Post("handled", finishing[i])]
    /\ UNCHANGED <<sourceVars, socketVars, uiChain, uiWidget, uiHook, lastHooked, hooked,
                   handled, extVars, restarts>>

-----------------------------------------------------------------------------
(* onDidKernelSocketChange: a new socket; subscribeToKernelSocketImpl drops *)
(* what was waiting, and has the webview make a new kernel.                 *)
RestartKernel ==
    /\ restarts < MaxRestarts
    /\ restarts' = restarts + 1
    /\ chain' = <<>> /\ stage' = "idle" /\ broken' = FALSE
    /\ extChain' = <<>> /\ asking' = FALSE /\ extHook' = FALSE
    /\ live' = FALSE
    /\ toUI' = Append(toUI, Post("restart", None))
    /\ UNCHANGED <<count, kind, fullHandle, widget, toExt, uiVars, removals, asked,
                   again>>

UIRestarts ==
    /\ UIGets("restart")
    /\ uiChain' = <<>> /\ uiWidget' = FALSE /\ uiHook' = FALSE /\ lastHooked' = None
    /\ awaiting' = {} /\ finishing' = <<>>
    /\ UNCHANGED <<sourceVars, socketVars, toExt, hooked, handled, extVars, restarts>>

\* What the event loops of the extension and of the webview go on with.
WidgetStep ==
    \/ HookMessage \/ MessageReceived \/ MessageHandled
    \/ RegisterHook \/ RemoveHook \/ ExtensionHandles \/ HookAnswered
    \/ UIReceives \/ UIAnswers \/ UIHandles \/ UIGoesOn \/ UIRestarts

WidgetNext == WidgetStep \/ KernelSends \/ RestartKernel

WidgetSpec == WidgetInit /\ [][WidgetNext]_widgetVars

WidgetFairness == WF_widgetVars(WidgetStep)

-----------------------------------------------------------------------------
(* Properties.                                                              *)

(* Every variable keeps its type; the hook awaits something only for the    *)
(* first message of the chain, and the webview tells of messages later only *)
(* while it awaits the extension.                                           *)
WidgetTypeOK ==
    /\ count \in 0..MaxMessages /\ kind \in Seq(Kinds) /\ Len(kind) = count
    /\ live \in BOOLEAN /\ broken \in BOOLEAN /\ widget \in BOOLEAN
    /\ chain \in Seq(1..count) /\ extChain \in Seq(1..count) /\ uiChain \in Seq(1..count)
    /\ stage \in {"idle", "received", "handled"} /\ (stage # "idle" => chain # <<>>)
    /\ fullHandle \in 1..count \cup {None} /\ lastHooked \in 1..count \cup {None}
    /\ \A i \in DOMAIN toUI : toUI[i].what \in {"msg", "done", "hook", "restart"}
    /\ \A i \in DOMAIN toExt :
         toExt[i].what \in {"received", "handled", "register", "remove", "result"}
    /\ uiWidget \in BOOLEAN /\ uiHook \in BOOLEAN /\ extHook \in BOOLEAN
    /\ awaiting \subseteq {"register", "remove"}
    /\ finishing \in Seq(1..count) /\ (finishing # <<>> => awaiting # {})
    /\ asking \in BOOLEAN /\ (asking => extChain # <<>>)
    /\ removals \subseteq 1..count /\ asked \subseteq 1..count
    /\ hooked \subseteq handled /\ handled \subseteq 1..count
    /\ again \in BOOLEAN /\ restarts \in 0..MaxRestarts

(* A message the widget's hook intercepts in the webview is one the         *)
(* extension's kernel asks the webview about: both set the hook before, and *)
(* remove it after, the same messages.  So it is unless the hook was set    *)
(* again while a message it is to go after was still to come.               *)
HookedIsAsked ==
    restarts = 0 /\ ~again => hooked \ asked \subseteq ToSet(Coming)

(* "so it can delay removal until after a message is called": the hook      *)
(* would not be removed before it was called for each message it had        *)
(* intercepted.  But the removal that is put off removes the hook set since.*)
CalledBeforeRemoval ==
    restarts = 0 => hooked \ asked \subseteq ToSet(Coming)

(* The waiting for one another ends: every message of the kernel is passed  *)
(* on, and handled by the extension's kernel.                               *)
AllPassedOn == Coming # <<>> ~> Coming = <<>>

=============================================================================
