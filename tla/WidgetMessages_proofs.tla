----------------------- MODULE WidgetMessages_proofs -----------------------
(***************************************************************************)
(* Proofs about WidgetMessages: its types, and HookedIsAsked.              *)
(*                                                                         *)
(* The messages of the kernel are numbered as it sends them, and each      *)
(* part holds a piece of that sequence: the extension's kernel has handled *)
(* the first Low, the socket has passed on Passed and posted Posted, and   *)
(* the webview has handled some of these and is to handle the others in    *)
(* order (Structure).  An update of the widget is held back in the socket  *)
(* until the extension has done what the webview asks of it on account of  *)
(* that update.  So there is one operation at a time, and it comes between *)
(* the same messages in both kernels.  From that it follows which messages *)
(* the hook is still to be called for in the extension, in each phase of   *)
(* the hook (Hooks).                                                       *)
(***************************************************************************)
EXTENDS WidgetMessages, TLAPS

(* What may be posted to the webview.                                       *)
UIPosts == [what : {"msg", "hook"}, n : 1..count]
             \cup [what : {"done"}, n : {"register", "remove"}]
             \cup [what : {"restart"}, n : {None}]

(* What may be posted to the extension.                                     *)
ExtPosts == [what : {"received", "handled", "result", "register"}, n : 1..count]
              \cup [what : {"remove"}, n : 1..count \cup {None}]

(* Types of what is on its way.                                             *)
PostsTyped == toUI \in Seq(UIPosts) /\ toExt \in Seq(ExtPosts)

(* Types of the variables of the kernel and the socket.                     *)
SocketTyped ==
    /\ count \in 0..MaxMessages /\ kind \in Seq(Kinds) /\ Len(kind) = count
    /\ live \in BOOLEAN /\ broken \in BOOLEAN /\ widget \in BOOLEAN
    /\ chain \in Seq(1..count)
    /\ stage \in {"idle", "received", "handled"} /\ (stage # "idle" => chain # <<>>)
    /\ fullHandle \in 1..count \cup {None}
    /\ restarts \in 0..MaxRestarts

(* Types of the variables of the extension's kernel.                        *)
ExtTyped ==
    /\ extChain \in Seq(1..count) /\ asking \in BOOLEAN /\ (asking => extChain # <<>>)
    /\ extHook \in BOOLEAN /\ again \in BOOLEAN
    /\ removals \subseteq 1..count /\ asked \subseteq 1..count

(* Types of the variables of the webview.                                   *)
UITyped ==
    /\ uiChain \in Seq(1..count) /\ lastHooked \in 1..count \cup {None}
    /\ uiWidget \in BOOLEAN /\ uiHook \in BOOLEAN
    /\ awaiting \subseteq {"register", "remove"}
    /\ finishing \in Seq(1..count) /\ (finishing # <<>> => awaiting # {})
    /\ hooked \subseteq handled /\ handled \subseteq 1..count

WidgetTypes == PostsTyped /\ SocketTyped /\ ExtTyped /\ UITyped

(* How many messages the socket has passed on and has posted to the         *)
(* webview, and how many the extension's kernel has done with.              *)
Passed == count - Len(chain)
Posted == IF stage = "idle" THEN Passed ELSE Passed + 1
Low    == Passed - Len(extChain)

(* A post that asks the extension to set or remove the hook.                *)
IsOp(post) == post.what \in {"register", "remove"}

(* What the socket and the extension's kernel have to do is the end of what *)
(* the kernel has sent.                                                     *)
InOrder ==
    /\ Low \in Nat
    /\ \A i \in DOMAIN chain : chain[i] = Passed + i
    /\ \A i \in DOMAIN extChain : extChain[i] = Low + i

(* No restart is on its way to the webview.                                 *)
NoRestart == \A i \in DOMAIN toUI : toUI[i].what # "restart"

(* The webview's kernel has messages that were posted, in order, and after  *)
(* those it has handled; the ones on their way to it follow.                *)
ChainSorted ==
    \A i \in DOMAIN uiChain :
        /\ uiChain[i] <= Posted
        /\ \A m \in handled : m < uiChain[i]
        /\ \A j \in DOMAIN uiChain : i < j => uiChain[i] < uiChain[j]

PostsSorted ==
    \A i \in DOMAIN toUI : toUI[i].what = "msg" =>
        /\ toUI[i].n <= Posted
        /\ \A m \in handled : m < toUI[i].n
        /\ \A j \in DOMAIN uiChain : uiChain[j] < toUI[i].n
        /\ \A j \in DOMAIN toUI : i < j /\ toUI[j].what = "msg" => toUI[i].n < toUI[j].n

Sorted == ChainSorted /\ PostsSorted /\ \A m \in handled : m <= Posted

(* No message that was posted is lost on its way.                           *)
Complete ==
    \A m \in 1..Posted :
        \/ m \in handled
        \/ \E i \in DOMAIN uiChain : uiChain[i] = m
        \/ \E i \in DOMAIN toUI : toUI[i] = Post("msg", m)

(* The socket knows of the widget when message n is its turn.               *)
Open(n) ==
    \/ \E o \in Posted+1 .. n-1 :
         kind[o] = "open" /\ \A c \in o+1 .. n-1 : kind[c] # "close"
    \/ widget /\ \A c \in Posted+1 .. n-1 : kind[c] # "close"

(* The kernel updates the widget only while it has it, so that the socket   *)
(* will hold each update back.                                              *)
OpenWhenUpdated ==
    /\ live => Open(count + 1)
    /\ \A n \in Posted+1 .. count : kind[n] = "update" => Open(n)

(* An update is passed on after the webview has handled it, and only what   *)
(* is handled is told as such.                                              *)
HandledFirst ==
    /\ \A m \in 1..Passed : kind[m] = "update" => m \in handled
    /\ \A i \in DOMAIN toExt : toExt[i].what = "handled" => toExt[i].n \in handled
    /\ \A i \in DOMAIN finishing : finishing[i] \in handled

(* At most one operation is on its way to the extension or back, and it is  *)
(* the one the webview awaits.                                              *)
OneOp ==
    /\ \A i \in DOMAIN toExt : IsOp(toExt[i]) => awaiting = {toExt[i].what}
    /\ \A i \in DOMAIN toUI : toUI[i].what = "done" => awaiting = {toUI[i].n}
    /\ \A i, j \in DOMAIN toExt : IsOp(toExt[i]) /\ IsOp(toExt[j]) => i = j
    /\ \A i, j \in DOMAIN toUI : toUI[i].what = "done" /\ toUI[j].what = "done" => i = j
    /\ \A i \in DOMAIN toExt, j \in DOMAIN toUI : ~(IsOp(toExt[i]) /\ toUI[j].what = "done")
    /\ \A i \in DOMAIN toExt : toExt[i].what = "register" => uiHook
    /\ \A i \in DOMAIN toExt : toExt[i].what = "remove" => ~uiHook

(* While it awaits it, the socket holds back the update that it came with,  *)
(* and nothing follows this update to the webview.                          *)
HeldBack ==
    awaiting # {} =>
        /\ stage # "idle" /\ kind[Passed + 1] = "update"
        /\ Passed + 1 \in handled
        /\ uiChain = <<>> /\ \A i \in DOMAIN toUI : toUI[i].what # "msg"
        /\ \A i \in DOMAIN toExt : toExt[i] # Post("handled", Passed + 1)

(* Where the messages are.                                                  *)
Structure ==
    /\ NoRestart /\ InOrder /\ Sorted /\ Complete /\ OpenWhenUpdated
    /\ HandledFirst /\ OneOp /\ HeldBack

(* Messages the webview has called the hook for, and the extension has not. *)
Missing == hooked \ asked

(* The extension is to set, or to remove, the hook.                         *)
Setting  == \E i \in DOMAIN toExt : toExt[i].what = "register"
Removing == \E i \in DOMAIN toExt : toExt[i].what = "remove"

(* The extension has the hook, for good so far, and is to call it for       *)
(* messages up to l at most.                                                *)
Ready(l) ==
    /\ extHook /\ \A r \in removals : r <= Low
    /\ \A x \in Missing : l # None /\ x <= l

(* The extension has the hook as long as there are messages to call it for: *)
(* it goes after the last of them.                                          *)
ToGo ==
    /\ Missing # {} => extHook /\ \E l \in removals : \A x \in Missing : x <= l
    /\ \A l \in removals, x \in Missing : l > Low => x <= l

(* The hook is called for outputs, in the order in which they come, and the *)
(* extension calls it later for those of the webview only.                  *)
Calls ==
    /\ \A x \in hooked : kind[x] = "output"
    /\ \A x \in Missing : x > Low
    /\ asking => Low + 1 \in asked
    /\ uiHook => \A m \in 1..Low : kind[m] = "output" => m \in handled \cup asked

(* The hook is set in both, to be removed in the extension, or gone in the  *)
(* webview.                                                                 *)
Phase ==
    /\ uiHook /\ ~Setting => Ready(lastHooked)
    /\ \A i \in DOMAIN toExt : toExt[i].what = "remove" => Ready(toExt[i].n)
    /\ (uiHook /\ Setting) \/ (~uiHook /\ ~Removing) => ToGo

Hooks == Calls /\ Phase

(* The inductive invariant.                                                 *)
IInv ==
    /\ WidgetTypes
    /\ restarts = 0 => Structure
    /\ restarts = 0 /\ ~again => Hooks

-----------------------------------------------------------------------------
(* Sequences.                                                               *)

(* A sequence of elements of S is one of elements of a larger set.          *)
LEMMA SeqWiden ==
  ASSUME NEW S, NEW T, S \subseteq T, NEW s \in Seq(S)
  PROVE  s \in Seq(T)
OBVIOUS

(* The empty sequence is one of elements of any set, and has none.          *)
LEMMA EmptySeq ==
  \A S : <<>> \in Seq(S) /\ Len(<<>>) = 0 /\ DOMAIN <<>> = {}
OBVIOUS

(* What Head and Tail take from a sequence, and where the rest goes.        *)
LEMMA TakenFirst ==
  ASSUME NEW S, NEW s \in Seq(S), s # <<>>
  PROVE  /\ Head(s) = s[1] /\ Head(s) \in S /\ 1 \in DOMAIN s
         /\ Tail(s) \in Seq(S) /\ Len(Tail(s)) = Len(s) - 1 /\ Len(s) \in Nat \ {0}
         /\ \A i \in DOMAIN Tail(s) :
              /\ i \in Nat /\ i \in DOMAIN s
              /\ i + 1 \in DOMAIN s /\ i + 1 # 1 /\ Tail(s)[i] = s[i + 1]
         /\ \A i \in DOMAIN s : i \in Nat
OBVIOUS

(* What Append adds to a sequence.                                          *)
LEMMA AddedLast ==
  ASSUME NEW S, NEW s \in Seq(S), NEW e \in S
  PROVE  /\ Append(s, e) \in Seq(S) /\ Len(Append(s, e)) = Len(s) + 1
         /\ Append(s, e) # <<>> /\ Len(s) \in Nat
         /\ \A i \in DOMAIN Append(s, e) :
              \/ i \in DOMAIN s /\ Append(s, e)[i] = s[i]
              \/ i = Len(s) + 1 /\ Append(s, e)[i] = e
         /\ \A i \in DOMAIN s : i \in 1..Len(s) /\ i \in DOMAIN Append(s, e)
                                  /\ Append(s, e)[i] = s[i]
         /\ Len(s) + 1 \in DOMAIN Append(s, e) /\ Append(s, e)[Len(s) + 1] = e
OBVIOUS

-----------------------------------------------------------------------------
(* Types.                                                                   *)

(* What is posted has the number, or the name, that goes with its kind.     *)
LEMMA PostTypes ==
  ASSUME count \in Nat
  PROVE  /\ \A p \in UIPosts :
              /\ p.what \in {"msg", "done", "hook", "restart"}
              /\ p.what \in {"msg", "hook"} => p.n \in 1..count
              /\ p.what = "done" => p.n \in {"register", "remove"}
         /\ \A p \in ExtPosts :
              /\ p.what \in {"received", "handled", "register", "remove", "result"}
              /\ p.what # "remove" => p.n \in 1..count
              /\ p.what = "remove" => p.n \in 1..count \cup {None}
         /\ \A n \in 1..count :
              /\ Post("msg", n) \in UIPosts /\ Post("hook", n) \in UIPosts
              /\ Post("received", n) \in ExtPosts /\ Post("handled", n) \in ExtPosts
              /\ Post("result", n) \in ExtPosts /\ Post("register", n) \in ExtPosts
         /\ \A n \in 1..count \cup {None} : Post("remove", n) \in ExtPosts
         /\ Post("done", "register") \in UIPosts /\ Post("done", "remove") \in UIPosts
         /\ Post("restart", None) \in UIPosts
BY DEF UIPosts, ExtPosts, Post

(* Types as the invariant has them are those of WidgetTypeOK.               *)
LEMMA TypesMean == WidgetTypes => WidgetTypeOK
<1> SUFFICES ASSUME WidgetTypes PROVE WidgetTypeOK
  OBVIOUS
<1>1. count \in Nat
  BY DEF WidgetTypes, SocketTyped, WidgetAssumption
<1>2. /\ \A i \in DOMAIN toUI : toUI[i] \in UIPosts
      /\ \A i \in DOMAIN toExt : toExt[i] \in ExtPosts
  BY DEF WidgetTypes, PostsTyped
<1>3. /\ \A i \in DOMAIN toUI : toUI[i].what \in {"msg", "done", "hook", "restart"}
      /\ \A i \in DOMAIN toExt :
           toExt[i].what \in {"received", "handled", "register", "remove", "result"}
  BY <1>1, <1>2, PostTypes
<1> QED
  BY <1>3 DEF WidgetTypes, SocketTyped, ExtTyped, UITyped, WidgetTypeOK

(* What is posted depends on how many messages there are, and only on that. *)
LEMMA SamePosts == count' = count => UIPosts' = UIPosts /\ ExtPosts' = ExtPosts
BY DEF UIPosts, ExtPosts

(* What the extension gets of the webview.                                  *)
LEMMA ExtensionGets ==
  ASSUME WidgetTypes, NEW what, Gets(what)
  PROVE  /\ Head(toExt) \in ExtPosts /\ Head(toExt).what = what
         /\ toExt' \in Seq(ExtPosts) /\ toExt' = Tail(toExt)
         /\ what # "remove" => Head(toExt).n \in 1..count
         /\ what = "remove" => Head(toExt).n \in 1..count \cup {None}
         /\ 1 \in DOMAIN toExt /\ Head(toExt) = toExt[1]
         /\ \A i \in DOMAIN toExt' :
              i + 1 \in DOMAIN toExt /\ i + 1 # 1 /\ toExt'[i] = toExt[i + 1]
<1>1. count \in Nat /\ toExt \in Seq(ExtPosts) /\ toExt # <<>> /\ toExt' = Tail(toExt)
      /\ Head(toExt).what = what
  BY DEF WidgetTypes, SocketTyped, PostsTyped, WidgetAssumption, Gets
<1>2. Head(toExt) \in ExtPosts
  BY <1>1, TakenFirst
<1>3. /\ what # "remove" => Head(toExt).n \in 1..count
      /\ what = "remove" => Head(toExt).n \in 1..count \cup {None}
  BY <1>1, <1>2, PostTypes
<1> QED
  BY <1>1, <1>2, <1>3, TakenFirst

(* What the webview gets of the extension.                                  *)
LEMMA WebviewGets ==
  ASSUME WidgetTypes, NEW what, UIGets(what)
  PROVE  /\ Head(toUI) \in UIPosts /\ Head(toUI).what = what
         /\ toUI' \in Seq(UIPosts) /\ toUI' = Tail(toUI)
         /\ what \in {"msg", "hook"} => Head(toUI).n \in 1..count
         /\ what = "done" => Head(toUI).n \in {"register", "remove"}
         /\ 1 \in DOMAIN toUI /\ Head(toUI) = toUI[1]
         /\ \A i \in DOMAIN toUI' :
              i + 1 \in DOMAIN toUI /\ i + 1 # 1 /\ toUI'[i] = toUI[i + 1]
<1>1. count \in Nat /\ toUI \in Seq(UIPosts) /\ toUI # <<>> /\ toUI' = Tail(toUI)
      /\ Head(toUI).what = what
  BY DEF WidgetTypes, SocketTyped, PostsTyped, WidgetAssumption, UIGets
<1>2. Head(toUI) \in UIPosts
  BY <1>1, TakenFirst
<1>3. /\ what \in {"msg", "hook"} => Head(toUI).n \in 1..count
      /\ what = "done" => Head(toUI).n \in {"register", "remove"}
  BY <1>1, <1>2, PostTypes
<1> QED
  BY <1>1, <1>2, <1>3, TakenFirst

(* What the kernels and the posts keep while nothing of theirs changes.     *)
LEMMA SocketFrame ==
  SocketTyped /\ UNCHANGED <<sourceVars, socketVars, restarts>> => SocketTyped'
BY DEF SocketTyped, sourceVars, socketVars

(* The same of the extension's kernel.                                      *)
LEMMA ExtFrame == ExtTyped /\ UNCHANGED <<count, extVars>> => ExtTyped'
BY DEF ExtTyped, extVars

(* The same of the webview's kernel.                                        *)
LEMMA UIFrame == UITyped /\ UNCHANGED <<count, uiVars>> => UITyped'
BY DEF UITyped, uiVars

(* The hook of the socket keeps the types.                                  *)
LEMMA HookMessageTypes == WidgetTypes /\ HookMessage => WidgetTypes'
<1> SUFFICES ASSUME WidgetTypes, HookMessage PROVE WidgetTypes'
  OBVIOUS
<1> DEFINE n == Head(chain)
<1>1. count \in Nat /\ SocketTyped /\ ExtTyped /\ UITyped /\ PostsTyped
  BY DEF WidgetTypes, SocketTyped, WidgetAssumption
<1>2. n \in 1..count /\ Tail(chain) \in Seq(1..count)
      /\ Append(extChain, n) \in Seq(1..count) /\ Append(extChain, n) # <<>>
  BY <1>1, TakenFirst, AddedLast DEF SocketTyped, ExtTyped, HookMessage
<1>3. /\ count' = count /\ kind' = kind /\ live' = live /\ broken' = broken
      /\ toUI' = Append(toUI, Post("msg", n)) /\ toExt' = toExt
      /\ restarts' = restarts /\ UNCHANGED <<asking, extHook, removals, asked, again>>
      /\ UNCHANGED uiVars
  BY DEF HookMessage, sourceVars
<1>4. widget' \in BOOLEAN
  BY <1>1 DEF HookMessage, SocketTyped
<1>5. \/ fullHandle' = n /\ stage' = "received" /\ chain' = chain /\ extChain' = extChain
      \/ fullHandle' = fullHandle /\ stage' = "idle" /\ chain' = Tail(chain)
         /\ extChain' = Append(extChain, n)
  BY DEF HookMessage, PassOn
<1>6. SocketTyped'
  BY <1>1, <1>2, <1>3, <1>4, <1>5 DEF SocketTyped, HookMessage
<1>7. ExtTyped'
  BY <1>1, <1>2, <1>3, <1>5 DEF ExtTyped
<1>8. Post("msg", n) \in UIPosts
  BY <1>1, <1>2, PostTypes
<1>9. toUI' \in Seq(UIPosts)
  BY <1>1, <1>3, <1>8, AddedLast DEF PostsTyped
<1> QED
  BY <1>1, <1>3, <1>6, <1>7, <1>9, SamePosts, UIFrame DEF WidgetTypes, PostsTyped

(* An answer of the webview keeps the types.                                *)
LEMMA MessageReceivedTypes == WidgetTypes /\ MessageReceived => WidgetTypes'
<1> SUFFICES ASSUME WidgetTypes, MessageReceived PROVE WidgetTypes'
  OBVIOUS
<1>1. SocketTyped /\ ExtTyped /\ UITyped /\ PostsTyped
  BY DEF WidgetTypes
<1>2. toExt' \in Seq(ExtPosts)
  BY ExtensionGets DEF MessageReceived
<1>3. SocketTyped'
  BY <1>1 DEF SocketTyped, MessageReceived, sourceVars, Mine
<1> QED
  BY <1>1, <1>2, <1>3, SamePosts, UIFrame, ExtFrame
  DEF WidgetTypes, PostsTyped, MessageReceived, sourceVars

(* A message that is told as handled keeps the types.                       *)
LEMMA MessageHandledTypes == WidgetTypes /\ MessageHandled => WidgetTypes'
<1> SUFFICES ASSUME WidgetTypes, MessageHandled PROVE WidgetTypes'
  OBVIOUS
<1> DEFINE n == Head(chain)
<1>1. count \in Nat /\ SocketTyped /\ ExtTyped /\ UITyped /\ PostsTyped
  BY DEF WidgetTypes, SocketTyped, WidgetAssumption
<1>2. toExt' \in Seq(ExtPosts)
  BY ExtensionGets DEF MessageHandled
<1>3. /\ count' = count /\ kind' = kind /\ live' = live /\ broken' = broken
      /\ widget' = widget /\ toUI' = toUI /\ restarts' = restarts
      /\ UNCHANGED <<asking, extHook, removals, asked, again>> /\ UNCHANGED uiVars
      /\ fullHandle' \in {fullHandle, None}
  BY DEF MessageHandled, sourceVars
<1>4. \/ stage' = stage /\ chain' = chain /\ extChain' = extChain
      \/ chain # <<>> /\ stage' = "idle" /\ chain' = Tail(chain)
         /\ extChain' = Append(extChain, n)
  BY DEF MessageHandled, PassOn, Mine
<1>5. chain # <<>> => /\ n \in 1..count /\ Tail(chain) \in Seq(1..count)
                      /\ Append(extChain, n) \in Seq(1..count) /\ Append(extChain, n) # <<>>
  BY <1>1, TakenFirst, AddedLast DEF SocketTyped, ExtTyped
<1>6. SocketTyped'
  BY <1>1, <1>3, <1>4, <1>5 DEF SocketTyped
<1>7. ExtTyped'
  BY <1>1, <1>3, <1>4, <1>5 DEF ExtTyped
<1> QED
  BY <1>1, <1>2, <1>3, <1>6, <1>7, SamePosts, UIFrame DEF WidgetTypes, PostsTyped

(* Setting the hook keeps the types.                                        *)
LEMMA RegisterHookTypes == WidgetTypes /\ RegisterHook => WidgetTypes'
<1> SUFFICES ASSUME WidgetTypes, RegisterHook PROVE WidgetTypes'
  OBVIOUS
<1>1. count \in Nat /\ SocketTyped /\ ExtTyped /\ UITyped /\ PostsTyped
  BY DEF WidgetTypes, SocketTyped, WidgetAssumption
<1>2. toExt' \in Seq(ExtPosts)
  BY ExtensionGets DEF RegisterHook
<1>3. toUI' \in Seq(UIPosts)
  BY <1>1, PostTypes, AddedLast DEF PostsTyped, RegisterHook, InAnyCase
<1>4. ExtTyped'
  BY <1>1 DEF ExtTyped, RegisterHook, sourceVars
<1> QED
  BY <1>1, <1>2, <1>3, <1>4, SamePosts, UIFrame, SocketFrame
  DEF WidgetTypes, PostsTyped, RegisterHook, sourceVars

(* Removing the hook keeps the types.                                       *)
LEMMA RemoveHookTypes == WidgetTypes /\ RemoveHook => WidgetTypes'
<1> SUFFICES ASSUME WidgetTypes, RemoveHook PROVE WidgetTypes'
  OBVIOUS
<1>1. count \in Nat /\ SocketTyped /\ ExtTyped /\ UITyped /\ PostsTyped
  BY DEF WidgetTypes, SocketTyped, WidgetAssumption
<1>2. toExt' \in Seq(ExtPosts) /\ Head(toExt).n \in 1..count \cup {None}
  BY ExtensionGets DEF RemoveHook
<1>3. toUI' \in Seq(UIPosts)
  BY <1>1, PostTypes, AddedLast DEF PostsTyped, RemoveHook
<1>4. ExtTyped'
  BY <1>1, <1>2 DEF ExtTyped, RemoveHook, sourceVars
<1> QED
  BY <1>1, <1>2, <1>3, <1>4, SamePosts, UIFrame, SocketFrame
  DEF WidgetTypes, PostsTyped, RemoveHook, sourceVars

(* A message the extension's kernel handles keeps the types.                *)
LEMMA ExtensionHandlesTypes == WidgetTypes /\ ExtensionHandles => WidgetTypes'
<1> SUFFICES ASSUME WidgetTypes, ExtensionHandles PROVE WidgetTypes'
  OBVIOUS
<1> DEFINE n == Head(extChain)
<1>1. count \in Nat /\ SocketTyped /\ ExtTyped /\ UITyped /\ PostsTyped
  BY DEF WidgetTypes, SocketTyped, WidgetAssumption
<1>2. n \in 1..count /\ Tail(extChain) \in Seq(1..count)
  BY <1>1, TakenFirst DEF ExtTyped, ExtensionHandles
<1>3. Append(toUI, Post("hook", n)) \in Seq(UIPosts)
  BY <1>1, <1>2, PostTypes, AddedLast DEF PostsTyped
<1>4. toUI' \in Seq(UIPosts)
  BY <1>1, <1>3 DEF PostsTyped, ExtensionHandles
<1>5. ExtTyped'
  BY <1>1, <1>2 DEF ExtTyped, ExtensionHandles, sourceVars
<1> QED
  BY <1>1, <1>4, <1>5, SamePosts, UIFrame, SocketFrame
  DEF WidgetTypes, PostsTyped, ExtensionHandles, sourceVars

(* The answer to a question about a message keeps the types.                *)
LEMMA HookAnsweredTypes == WidgetTypes /\ HookAnswered => WidgetTypes'
<1> SUFFICES ASSUME WidgetTypes, HookAnswered PROVE WidgetTypes'
  OBVIOUS
<1>1. count \in Nat /\ SocketTyped /\ ExtTyped /\ UITyped /\ PostsTyped
  BY DEF WidgetTypes, SocketTyped, WidgetAssumption
<1>2. toExt' \in Seq(ExtPosts)
  BY ExtensionGets DEF HookAnswered
<1>3. extChain # <<>> => Tail(extChain) \in Seq(1..count)
  BY <1>1, TakenFirst DEF ExtTyped
<1>4. ExtTyped'
  BY <1>1, <1>3 DEF ExtTyped, HookAnswered, sourceVars
<1> QED
  BY <1>1, <1>2, <1>4, SamePosts, UIFrame, SocketFrame
  DEF WidgetTypes, PostsTyped, HookAnswered, sourceVars

(* A message the webview receives keeps the types.                          *)
LEMMA UIReceivesTypes == WidgetTypes /\ UIReceives => WidgetTypes'
<1> SUFFICES ASSUME WidgetTypes, UIReceives PROVE WidgetTypes'
  OBVIOUS
<1> DEFINE n == Head(toUI).n
<1>1. count \in Nat /\ SocketTyped /\ ExtTyped /\ UITyped /\ PostsTyped
  BY DEF WidgetTypes, SocketTyped, WidgetAssumption
<1>2. toUI' \in Seq(UIPosts) /\ n \in 1..count
  BY WebviewGets DEF UIReceives
<1>3. toExt' \in Seq(ExtPosts)
  BY <1>1, <1>2, PostTypes, AddedLast DEF PostsTyped, UIReceives
<1>4. Append(uiChain, n) \in Seq(1..count)
  BY <1>1, <1>2, AddedLast DEF UITyped
<1>5. UITyped'
  BY <1>1, <1>4 DEF UITyped, UIReceives, sourceVars
<1> QED
  BY <1>1, <1>2, <1>3, <1>5, SamePosts, ExtFrame, SocketFrame
  DEF WidgetTypes, PostsTyped, UIReceives, sourceVars

(* A question the webview answers keeps the types.                          *)
LEMMA UIAnswersTypes == WidgetTypes /\ UIAnswers => WidgetTypes'
<1> SUFFICES ASSUME WidgetTypes, UIAnswers PROVE WidgetTypes'
  OBVIOUS
<1> DEFINE n == Head(toUI).n
<1>1. count \in Nat /\ SocketTyped /\ ExtTyped /\ UITyped /\ PostsTyped
  BY DEF WidgetTypes, SocketTyped, WidgetAssumption
<1>2. toUI' \in Seq(UIPosts) /\ n \in 1..count
  BY WebviewGets DEF UIAnswers
<1>3. toExt' \in Seq(ExtPosts)
  BY <1>1, <1>2, PostTypes, AddedLast DEF PostsTyped, UIAnswers
<1> QED
  BY <1>1, <1>2, <1>3, SamePosts, ExtFrame, SocketFrame, UIFrame
  DEF WidgetTypes, PostsTyped, UIAnswers, sourceVars

(* What the webview posts when it has handled a message.                    *)
Operation(n) ==
    IF ~(kind[n] = "update" /\ uiWidget) THEN <<>>
    ELSE IF uiHook THEN <<Post("remove", lastHooked)>> ELSE <<Post("register", n)>>

Waits(n) ==
    IF ~(kind[n] = "update" /\ uiWidget) THEN awaiting
    ELSE awaiting \cup {IF uiHook THEN "remove" ELSE "register"}

(* A message the webview's kernel handles keeps the types.                  *)
LEMMA UIHandlesTypes == WidgetTypes /\ UIHandles => WidgetTypes'
<1> SUFFICES ASSUME WidgetTypes, UIHandles PROVE WidgetTypes'
  OBVIOUS
<1> DEFINE n == Head(uiChain)
<1>1. count \in Nat /\ SocketTyped /\ ExtTyped /\ UITyped /\ PostsTyped
  BY DEF WidgetTypes, SocketTyped, WidgetAssumption
<1>2. n \in 1..count /\ uiChain' \in Seq(1..count)
  BY <1>1, TakenFirst DEF UITyped, UIHandles
<1>3. toExt' = toExt \o Operation(n) \o Told(n, Waits(n)) /\ awaiting' = Waits(n)
  BY DEF UIHandles, Operation, Waits
<1>4. Operation(n) \in Seq(ExtPosts)
  BY <1>1, <1>2, PostTypes DEF Operation, UITyped
<1>5. Told(n, Waits(n)) \in Seq(ExtPosts)
  BY <1>1, <1>2, PostTypes DEF Told
<1>6. toExt' \in Seq(ExtPosts)
  BY <1>1, <1>3, <1>4, <1>5 DEF PostsTyped
<1>7. Append(finishing, n) \in Seq(1..count)
  BY <1>1, <1>2, AddedLast DEF UITyped
<1>8. finishing' \in Seq(1..count) /\ (finishing' # <<>> => awaiting' # {})
      /\ awaiting' \subseteq {"register", "remove"}
  BY <1>1, <1>3, <1>7 DEF UITyped, UIHandles, Waits
<1>9. uiWidget' \in BOOLEAN /\ uiHook' \in BOOLEAN
  BY <1>1 DEF UIHandles, UITyped
<1>10. lastHooked' \in 1..count \cup {None}
  BY <1>1, <1>2 DEF UIHandles, UITyped
<1>11. hooked' \subseteq handled' /\ handled' \subseteq 1..count
  BY <1>1, <1>2 DEF UIHandles, UITyped
<1>12. count' = count
  BY DEF UIHandles, sourceVars
<1>13. UITyped'
  BY <1>2, <1>8, <1>9, <1>10, <1>11, <1>12 DEF UITyped
<1> QED
  BY <1>1, <1>6, <1>12, <1>13, SamePosts, ExtFrame, SocketFrame
  DEF WidgetTypes, PostsTyped, UIHandles

(* The webview keeps the types when an operation of the extension is done.  *)
LEMMA UIGoesOnTypes == WidgetTypes /\ UIGoesOn => WidgetTypes'
<1> SUFFICES ASSUME WidgetTypes, UIGoesOn PROVE WidgetTypes'
  OBVIOUS
<1> DEFINE told == [i \in DOMAIN finishing |-> Post("handled", finishing[i])]
<1>1. count \in Nat /\ SocketTyped /\ ExtTyped /\ UITyped /\ PostsTyped
  BY DEF WidgetTypes, SocketTyped, WidgetAssumption
<1>2. toUI' \in Seq(UIPosts)
  BY WebviewGets DEF UIGoesOn
<1>3. \A i \in DOMAIN finishing : Post("handled", finishing[i]) \in ExtPosts
  BY <1>1, PostTypes DEF UITyped
<1>4. told \in Seq(ExtPosts)
  <2>1. DOMAIN finishing = 1..Len(finishing) /\ Len(finishing) \in Nat
    BY <1>1 DEF UITyped
  <2>2. told \in [1..Len(finishing) -> ExtPosts]
    BY <1>3, <2>1, Zenon
  <2> QED
    BY <2>1, <2>2
<1>5. toExt' \in Seq(ExtPosts)
  BY <1>1, <1>4 DEF PostsTyped, UIGoesOn
<1>6. finishing' \in Seq(1..count) /\ (finishing' # <<>> => awaiting' # {})
  BY <1>1, EmptySeq DEF UITyped, UIGoesOn, Finishing
<1>7. UITyped'
  BY <1>1, <1>6 DEF UITyped, UIGoesOn, sourceVars
<1> QED
  BY <1>1, <1>2, <1>5, <1>7, SamePosts, ExtFrame, SocketFrame
  DEF WidgetTypes, PostsTyped, UIGoesOn, sourceVars

(* A new kernel in the webview keeps the types.                             *)
LEMMA UIRestartsTypes == WidgetTypes /\ UIRestarts => WidgetTypes'
<1> SUFFICES ASSUME WidgetTypes, UIRestarts PROVE WidgetTypes'
  OBVIOUS
<1>1. count \in Nat /\ SocketTyped /\ ExtTyped /\ UITyped /\ PostsTyped
  BY DEF WidgetTypes, SocketTyped, WidgetAssumption
<1>2. toUI' \in Seq(UIPosts)
  BY WebviewGets DEF UIRestarts
<1>3. UITyped'
  BY <1>1, EmptySeq DEF UITyped, UIRestarts, sourceVars
<1> QED
  BY <1>1, <1>2, <1>3, SamePosts, ExtFrame, SocketFrame
  DEF WidgetTypes, PostsTyped, UIRestarts, sourceVars

(* A message of the kernel keeps the types.                                 *)
LEMMA KernelSendsTypes == WidgetTypes /\ KernelSends => WidgetTypes'
<1> SUFFICES ASSUME WidgetTypes, KernelSends PROVE WidgetTypes'
  OBVIOUS
<1>1. count \in Nat /\ SocketTyped /\ ExtTyped /\ UITyped /\ PostsTyped
  BY DEF WidgetTypes, SocketTyped, WidgetAssumption
<1>2. count' = count + 1 /\ count' \in 0..MaxMessages /\ 1..count \subseteq 1..count'
      /\ count' \in 1..count'
  BY <1>1, WidgetAssumption DEF KernelSends, SocketTyped
<1>3. UIPosts \subseteq UIPosts' /\ ExtPosts \subseteq ExtPosts'
  BY <1>1, <1>2 DEF UIPosts, ExtPosts
<1>4. PostsTyped'
  BY <1>1, <1>3, SeqWiden DEF PostsTyped, KernelSends
<1>5. chain \in Seq(1..count') /\ extChain \in Seq(1..count') /\ uiChain \in Seq(1..count')
      /\ finishing \in Seq(1..count')
  BY <1>1, <1>2, SeqWiden DEF SocketTyped, ExtTyped, UITyped
<1>6. chain' \in Seq(1..count') /\ chain' # <<>>
  BY <1>2, <1>5, AddedLast DEF KernelSends
<1>7. PICK k \in Kinds : kind' = Append(kind, k) /\ live' = CASE k = "open" -> TRUE
                                [] k = "close" -> FALSE [] OTHER -> live
  BY DEF KernelSends
<1>8. kind' \in Seq(Kinds) /\ Len(kind') = count' /\ live' \in BOOLEAN
  BY <1>1, <1>2, <1>7, AddedLast DEF SocketTyped
<1>9. SocketTyped'
  BY <1>1, <1>2, <1>6, <1>8 DEF SocketTyped, KernelSends
<1>10. ExtTyped'
  BY <1>1, <1>2, <1>5 DEF ExtTyped, KernelSends, extVars
<1>11. UITyped'
  BY <1>1, <1>2, <1>5 DEF UITyped, KernelSends, uiVars
<1> QED
  BY <1>4, <1>9, <1>10, <1>11 DEF WidgetTypes

(* A restart keeps the types.                                               *)
LEMMA RestartKernelTypes == WidgetTypes /\ RestartKernel => WidgetTypes'
<1> SUFFICES ASSUME WidgetTypes, RestartKernel PROVE WidgetTypes'
  OBVIOUS
<1>1. count \in Nat /\ SocketTyped /\ ExtTyped /\ UITyped /\ PostsTyped
  BY DEF WidgetTypes, SocketTyped, WidgetAssumption
<1>2. toUI' \in Seq(UIPosts)
  BY <1>1, PostTypes, AddedLast DEF PostsTyped, RestartKernel
<1>3. SocketTyped'
  <2>1. chain' \in Seq(1..count') /\ restarts' \in 0..MaxRestarts
    BY <1>1, EmptySeq, WidgetAssumption DEF SocketTyped, RestartKernel, WidgetAssumption
  <2> QED
    BY <1>1, <2>1 DEF SocketTyped, RestartKernel
<1>4. ExtTyped'
  BY <1>1, EmptySeq DEF ExtTyped, RestartKernel
<1> QED
  BY <1>1, <1>2, <1>3, <1>4, SamePosts, UIFrame
  DEF WidgetTypes, PostsTyped, RestartKernel

(* Every step keeps the types.                                              *)
LEMMA TypesKept == WidgetTypes /\ [WidgetNext]_widgetVars => WidgetTypes'
<1>1. WidgetTypes /\ WidgetNext => WidgetTypes'
  BY HookMessageTypes, MessageReceivedTypes, MessageHandledTypes, RegisterHookTypes,
     RemoveHookTypes, ExtensionHandlesTypes, HookAnsweredTypes, UIReceivesTypes,
     UIAnswersTypes, UIHandlesTypes, UIGoesOnTypes, UIRestartsTypes,
     KernelSendsTypes, RestartKernelTypes
  DEF WidgetNext, WidgetStep
<1>2. WidgetTypes /\ UNCHANGED widgetVars => WidgetTypes'
  BY SamePosts, SocketFrame, ExtFrame, UIFrame
  DEF WidgetTypes, PostsTyped, widgetVars, sourceVars
<1> QED
  BY <1>1, <1>2

(* The types hold at the start.                                             *)
LEMMA TypesAtFirst == WidgetInit => WidgetTypes
<1> SUFFICES ASSUME WidgetInit PROVE WidgetTypes
  OBVIOUS
<1>1. PostsTyped
  BY EmptySeq DEF WidgetInit, PostsTyped
<1>2. SocketTyped
  <2>1. chain \in Seq(1..count) /\ kind \in Seq(Kinds) /\ Len(kind) = count
        /\ restarts \in 0..MaxRestarts /\ count \in 0..MaxMessages
    BY EmptySeq, WidgetAssumption DEF WidgetInit, WidgetAssumption
  <2> QED
    BY <2>1 DEF WidgetInit, SocketTyped
<1>3. ExtTyped /\ UITyped
  BY EmptySeq DEF WidgetInit, ExtTyped, UITyped
<1> QED
  BY <1>1, <1>2, <1>3 DEF WidgetTypes

(* Every variable keeps its type, for any number of messages and restarts.  *)
THEOREM TypeCorrect == WidgetSpec => []WidgetTypeOK
<1> QED
  BY TypesAtFirst, TypesKept, TypesMean, PTL DEF WidgetSpec

-----------------------------------------------------------------------------
(* The first message not posted yet, and the ones before it.                *)

(* Where the kernels are is a number of messages.                           *)
LEMMA Numbers ==
  ASSUME WidgetTypes
  PROVE  /\ count \in Nat /\ Len(chain) \in Nat /\ Len(extChain) \in Nat
         /\ Passed \in Int /\ Posted \in Int /\ Low \in Int
         /\ Passed <= Posted /\ Posted <= Passed + 1 /\ Posted <= count
         /\ Low <= Passed /\ Passed <= count
         /\ (stage = "idle" => Posted = Passed) /\ (stage # "idle" => Posted = Passed + 1)
<1>1. count \in Nat /\ chain \in Seq(1..count) /\ extChain \in Seq(1..count)
      /\ (stage # "idle" => chain # <<>>)
  BY DEF WidgetTypes, SocketTyped, ExtTyped, WidgetAssumption
<1>2. Len(chain) \in Nat /\ Len(extChain) \in Nat /\ (chain # <<>> => Len(chain) >= 1)
  BY <1>1
<1> QED
  BY <1>1, <1>2 DEF Passed, Posted, Low

(* A message that the kernel sends is the last of the chain.                *)
LEMMA SendingMoves ==
  ASSUME WidgetTypes, KernelSends
  PROVE  /\ count' = count + 1 /\ Passed' = Passed /\ Posted' = Posted /\ Low' = Low
         /\ chain' = Append(chain, count + 1) /\ Len(chain') = Len(chain) + 1
         /\ \A i \in DOMAIN chain' : \/ i \in DOMAIN chain /\ chain'[i] = chain[i]
                                     \/ i = Len(chain) + 1 /\ chain'[i] = count + 1
         /\ \E k \in Kinds :
              /\ k \in {"update", "close"} => live
              /\ live' = IF k = "open" THEN TRUE ELSE IF k = "close" THEN FALSE ELSE live
              /\ kind'[count + 1] = k
              /\ \A i \in 1..count : kind'[i] = kind[i]
<1>1. count \in Nat /\ chain \in Seq(1..count) /\ kind \in Seq(Kinds) /\ Len(kind) = count
      /\ chain \in Seq(1..count+1) /\ count + 1 \in 1..count+1
  BY SeqWiden DEF WidgetTypes, SocketTyped, WidgetAssumption
<1>2. count' = count + 1 /\ chain' = Append(chain, count + 1) /\ extChain' = extChain
      /\ stage' = stage
  BY DEF KernelSends, extVars
<1>3. PICK k \in Kinds : /\ k \in {"update", "close"} => live
                         /\ kind' = Append(kind, k)
                         /\ live' = CASE k = "open" -> TRUE [] k = "close" -> FALSE
                                      [] OTHER -> live
  BY DEF KernelSends
<1>4. live' = IF k = "open" THEN TRUE ELSE IF k = "close" THEN FALSE ELSE live
  BY <1>3
<1>5. kind'[count + 1] = k /\ \A i \in 1..count : kind'[i] = kind[i]
  BY <1>1, <1>3, AddedLast
<1>6. Len(chain') = Len(chain) + 1
  BY <1>1, <1>2
<1>7. \A i \in DOMAIN chain' : \/ i \in DOMAIN chain /\ chain'[i] = chain[i]
                               \/ i = Len(chain) + 1 /\ chain'[i] = count + 1
  BY <1>1, <1>2, AddedLast
<1>8. Passed' = Passed /\ Posted' = Posted /\ Low' = Low
  BY <1>1, <1>2, <1>6, Numbers DEF Passed, Posted, Low
<1> QED
  BY <1>2, <1>3, <1>4, <1>5, <1>6, <1>7, <1>8

(* A message that is passed on is the first of the chain, and the last that *)
(* the extension's kernel has to handle.                                    *)
LEMMA PassingMoves ==
  ASSUME WidgetTypes, InOrder, chain # <<>>, PassOn, count' = count
  PROVE  /\ Head(chain) = Passed + 1 /\ Passed' = Passed + 1 /\ Low' = Low
         /\ Posted' = Passed + 1 /\ InOrder'
<1>1. count \in Nat /\ chain \in Seq(1..count) /\ extChain \in Seq(1..count)
      /\ chain' = Tail(chain) /\ stage' = "idle" /\ extChain' = Append(extChain, Head(chain))
  BY DEF WidgetTypes, SocketTyped, ExtTyped, WidgetAssumption, PassOn
<1>2. /\ Len(chain') = Len(chain) - 1 /\ Len(extChain') = Len(extChain) + 1
      /\ Head(chain) = chain[1] /\ 1 \in DOMAIN chain /\ Head(chain) \in 1..count
      /\ \A i \in DOMAIN chain' : i \in Nat /\ i + 1 \in DOMAIN chain
                                  /\ chain'[i] = chain[i + 1]
  BY <1>1, TakenFirst
<1>3. \A i \in DOMAIN extChain' :
        \/ i \in DOMAIN extChain /\ extChain'[i] = extChain[i]
        \/ i = Len(extChain) + 1 /\ extChain'[i] = Head(chain)
  BY <1>1, <1>2, AddedLast
<1>4. /\ Passed' = Passed + 1 /\ Posted' = Passed + 1 /\ Low' = Low
      /\ Low = Passed - Len(extChain) /\ Passed \in Int /\ Len(extChain) \in Nat
  BY <1>1, <1>2, Numbers DEF Passed, Posted, Low
<1>5. Head(chain) = Passed + 1
  BY <1>2 DEF InOrder
<1>6. \A i \in DOMAIN chain' : chain'[i] = Passed' + i
  BY <1>2, <1>4 DEF InOrder
<1>7. \A i \in DOMAIN extChain' : extChain'[i] = Low' + i
  BY <1>3, <1>4, <1>5 DEF InOrder
<1> QED
  BY <1>4, <1>5, <1>6, <1>7 DEF InOrder

(* A message that the extension's kernel has handled is the one after those *)
(* it has handled before.                                                   *)
LEMMA HandlingMoves ==
  ASSUME WidgetTypes, InOrder, extChain # <<>>, extChain' = Tail(extChain),
         UNCHANGED <<count, chain, stage>>
  PROVE  /\ Head(extChain) = Low + 1 /\ Low' = Low + 1 /\ Low + 1 <= Passed
         /\ Passed' = Passed /\ Posted' = Posted /\ InOrder'
<1>1. count \in Nat /\ extChain \in Seq(1..count)
  BY DEF WidgetTypes, SocketTyped, ExtTyped, WidgetAssumption
<1>2. /\ Len(extChain') = Len(extChain) - 1 /\ Len(extChain) \in Nat \ {0}
      /\ Head(extChain) = extChain[1] /\ 1 \in DOMAIN extChain
      /\ \A i \in DOMAIN extChain' : i \in Nat /\ i + 1 \in DOMAIN extChain
                                     /\ extChain'[i] = extChain[i + 1]
  BY <1>1, TakenFirst
<1>3. Passed' = Passed /\ Posted' = Posted /\ Low' = Low + 1 /\ Low + 1 <= Passed
      /\ Low \in Int /\ Passed \in Int
  BY <1>1, <1>2, Numbers DEF Passed, Posted, Low
<1>4. Head(extChain) = Low + 1
  BY <1>2 DEF InOrder
<1>5. \A i \in DOMAIN extChain' : extChain'[i] = Low' + i
  BY <1>2, <1>3 DEF InOrder
<1> QED
  BY <1>3, <1>4, <1>5 DEF InOrder

(* The first message the extension's kernel has to handle.                  *)
LEMMA NextHandled ==
  ASSUME WidgetTypes, InOrder, extChain # <<>>
  PROVE  Head(extChain) = Low + 1 /\ Low + 1 <= Passed /\ Low + 1 \in 1..count
<1>1. count \in Nat /\ extChain \in Seq(1..count)
  BY DEF WidgetTypes, SocketTyped, ExtTyped, WidgetAssumption
<1>2. /\ Len(extChain) \in Nat \ {0} /\ Head(extChain) \in 1..count
      /\ Head(extChain) = extChain[1] /\ 1 \in DOMAIN extChain
  BY <1>1, TakenFirst
<1> QED
  BY <1>1, <1>2, Numbers DEF InOrder, Low

(* The socket's hook posts the next message, and passes it on unless it is  *)
(* to be handled fully.                                                     *)
LEMMA HookMessageMoves ==
  ASSUME WidgetTypes, InOrder, HookMessage
  PROVE  /\ Head(chain) = Passed + 1 /\ Posted = Passed /\ Posted' = Passed + 1 /\ Low' = Low
         /\ Passed + 1 \in 1..count /\ InOrder'
         /\ \/ Passed' = Passed
            \/ Passed' = Passed + 1 /\ ~(kind[Passed + 1] = "update" /\ widget)
<1>1. count \in Nat /\ chain \in Seq(1..count) /\ count' = count /\ chain # <<>>
      /\ stage = "idle"
  BY DEF WidgetTypes, SocketTyped, WidgetAssumption, HookMessage, sourceVars
<1>2. Posted = Passed /\ Passed \in Int
  BY <1>1, Numbers
<1>3. Head(chain) = Passed + 1 /\ Head(chain) \in 1..count
  BY <1>1, TakenFirst DEF InOrder
<1>4. CASE NeedsFullHandle(Head(chain))
  <2>1. chain' = chain /\ extChain' = extChain /\ stage' = "received"
    BY <1>4 DEF HookMessage
  <2>2. Passed' = Passed /\ Posted' = Passed + 1 /\ Low' = Low
    BY <1>1, <2>1 DEF Passed, Posted, Low
  <2> QED
    BY <1>2, <1>3, <2>1, <2>2 DEF InOrder
<1>5. CASE ~NeedsFullHandle(Head(chain))
  <2>1. PassOn
    BY <1>5 DEF HookMessage
  <2> QED
    BY <1>1, <1>2, <1>3, <1>5, <2>1, PassingMoves DEF NeedsFullHandle
<1> QED
  BY <1>4, <1>5

(* A message told as handled is passed on if the socket awaits that.        *)
LEMMA MessageHandledMoves ==
  ASSUME WidgetTypes, InOrder, MessageHandled
  PROVE  /\ Posted' = Posted /\ Low' = Low /\ InOrder'
         /\ \/ Passed' = Passed /\ stage' = stage
            \/ Passed' = Passed + 1 /\ stage # "idle" /\ Head(toExt).n = Passed + 1
<1>1. count' = count
  BY DEF MessageHandled, sourceVars
<1>2. CASE stage = "handled" /\ Mine(Head(toExt).n) /\ PassOn
  BY <1>1, <1>2, PassingMoves, Numbers DEF Mine
<1>3. CASE chain' = chain /\ stage' = stage /\ extChain' = extChain
  BY <1>1, <1>3, Numbers DEF Passed, Posted, Low, InOrder
<1> QED
  BY <1>2, <1>3 DEF MessageHandled

(* An answer lets the extension's kernel go on to the next message, or is   *)
(* for none.                                                                *)
LEMMA HookAnsweredMoves ==
  ASSUME WidgetTypes, InOrder, HookAnswered
  PROVE  /\ Posted' = Posted /\ Passed' = Passed /\ InOrder'
         /\ \/ Low' = Low /\ extChain' = extChain
            \/ Low' = Low + 1 /\ asking /\ Head(extChain) = Low + 1
<1>1. UNCHANGED <<count, chain, stage>>
  BY DEF HookAnswered, sourceVars, socketVars
<1>2. CASE asking /\ extChain # <<>> /\ extChain' = Tail(extChain)
  BY <1>1, <1>2, HandlingMoves
<1>3. CASE extChain' = extChain
  BY <1>1, <1>3 DEF Passed, Posted, Low, InOrder
<1> QED
  BY <1>2, <1>3 DEF HookAnswered

(* The extension's kernel asks about the next message, or goes on.          *)
LEMMA ExtensionHandlesMoves ==
  ASSUME WidgetTypes, InOrder, ExtensionHandles
  PROVE  /\ Posted' = Posted /\ Passed' = Passed /\ InOrder' /\ Head(extChain) = Low + 1
         /\ Low + 1 <= Passed /\ Low + 1 \in 1..count
         /\ \/ Low' = Low /\ kind[Low + 1] = "output" /\ extHook
            \/ Low' = Low + 1 /\ ~(kind[Low + 1] = "output" /\ extHook)
<1>1. UNCHANGED <<count, chain, stage>>
  BY DEF ExtensionHandles, sourceVars, socketVars
<1>2. extChain # <<>>
  BY DEF ExtensionHandles
<1>3. Head(extChain) = Low + 1 /\ Low + 1 <= Passed /\ Low + 1 \in 1..count
  BY <1>2, NextHandled
<1>4. CASE kind[Low + 1] = "output" /\ extHook
  BY <1>1, <1>3, <1>4 DEF ExtensionHandles, Passed, Posted, Low, InOrder
<1>5. CASE ~(kind[Low + 1] = "output" /\ extHook)
  BY <1>1, <1>2, <1>3, <1>5, HandlingMoves DEF ExtensionHandles
<1> QED
  BY <1>3, <1>4, <1>5

(* The other steps move no message but in the webview.                      *)
LEMMA OthersMoveNothing ==
  ASSUME \/ MessageReceived \/ RegisterHook \/ RemoveHook \/ UIReceives \/ UIAnswers
         \/ UIHandles \/ UIGoesOn \/ UNCHANGED widgetVars
  PROVE  /\ UNCHANGED <<Posted, Passed, Low, count, chain, extChain, kind, live, widget>>
         /\ InOrder => InOrder'
<1>1. UNCHANGED <<count, kind, live, chain, extChain, widget>>
  BY DEF MessageReceived, RegisterHook, RemoveHook, UIReceives, UIAnswers, UIHandles, UIGoesOn,
     widgetVars, sourceVars, socketVars, extVars
<1>2. Posted' = Posted
  <2>1. (stage' = "idle") = (stage = "idle")
    BY DEF MessageReceived, RegisterHook, RemoveHook, UIReceives, UIAnswers, UIHandles,
       UIGoesOn, widgetVars, socketVars
  <2> QED
    BY <1>1, <2>1 DEF Posted, Passed
<1> QED
  BY <1>1, <1>2 DEF Passed, Low, InOrder

-----------------------------------------------------------------------------
(* What the invariant needs of one another, step by step.                   *)

(* Before a restart, no step is one of a restart.                           *)
LEMMA BeforeRestart ==
  ASSUME WidgetTypes, Structure, [WidgetNext]_widgetVars, restarts' = 0
  PROVE  /\ restarts = 0
         /\ \/ KernelSends \/ HookMessage \/ MessageHandled \/ ExtensionHandles \/ HookAnswered
            \/ MessageReceived \/ RegisterHook \/ RemoveHook \/ UIReceives \/ UIAnswers
            \/ UIHandles \/ UIGoesOn \/ UNCHANGED widgetVars
<1>1. restarts \in Nat
  BY DEF WidgetTypes, SocketTyped
<1>2. ~RestartKernel
  BY <1>1 DEF RestartKernel
<1>3. restarts' = restarts
  BY <1>2 DEF WidgetNext, WidgetStep, widgetVars, HookMessage, MessageReceived,
     MessageHandled, RegisterHook, RemoveHook, ExtensionHandles, HookAnswered, UIReceives,
     UIAnswers, UIHandles, UIGoesOn, UIRestarts, KernelSends
<1>4. ~UIRestarts
  BY <1>3, WebviewGets DEF UIRestarts, Structure, NoRestart
<1> QED
  BY <1>2, <1>3, <1>4 DEF WidgetNext, WidgetStep

(* Messages stay in order.                                                  *)
LEMMA InOrderKept ==
  ASSUME WidgetTypes, Structure, [WidgetNext]_widgetVars, restarts' = 0
  PROVE  InOrder'
<1>1. InOrder
  BY DEF Structure
<1>2. CASE KernelSends
  <2>1. /\ Passed' = Passed /\ Low' = Low
        /\ \A i \in DOMAIN chain' : \/ i \in DOMAIN chain /\ chain'[i] = chain[i]
                                    \/ i = Len(chain) + 1 /\ chain'[i] = count + 1
    BY <1>2, SendingMoves
  <2>2. extChain' = extChain
    BY <1>2 DEF KernelSends, extVars
  <2>3. Passed = count - Len(chain) /\ Len(chain) \in Nat /\ count \in Nat
    BY Numbers DEF Passed
  <2>4. count + 1 = Passed + (Len(chain) + 1)
    BY <2>3
  <2>5. \A i \in DOMAIN chain' : chain'[i] = Passed' + i
    BY <1>1, <2>1, <2>4 DEF InOrder
  <2>6. Low' \in Nat /\ \A i \in DOMAIN extChain' : extChain'[i] = Low' + i
    BY <1>1, <2>1, <2>2 DEF InOrder
  <2> QED
    BY <2>5, <2>6, Zenon DEF InOrder
<1> QED
  BY <1>1, <1>2, BeforeRestart, HookMessageMoves, MessageHandledMoves, HookAnsweredMoves,
     ExtensionHandlesMoves, OthersMoveNothing

(* t is s with e appended.                                                  *)
Grown(t, s, e) ==
    /\ \A i \in DOMAIN t : \/ i \in DOMAIN s /\ t[i] = s[i]
                           \/ i = Len(s) + 1 /\ t[i] = e
    /\ \A i \in DOMAIN s : i \in 1..Len(s) /\ i \in DOMAIN t /\ t[i] = s[i]
    /\ Len(s) \in Nat /\ Len(s) + 1 \in DOMAIN t /\ t[Len(s) + 1] = e

(* t is what is left of s without the first element.                        *)
Shrunk(t, s) ==
    /\ 1 \in DOMAIN s
    /\ \A i \in DOMAIN t : i \in Nat \ {0} /\ i + 1 \in DOMAIN s /\ t[i] = s[i + 1]
    /\ \A i \in DOMAIN s : i \in Nat \ {0} /\ (i = 1 \/ (i - 1 \in DOMAIN t /\ t[i - 1] = s[i]))

(* Append lets a sequence grow.                                             *)
LEMMA AppendGrows ==
  ASSUME NEW S, NEW s \in Seq(S), NEW e \in S
  PROVE  Grown(Append(s, e), s, e)
BY AddedLast DEF Grown

(* Tail lets a sequence shrink.                                             *)
LEMMA TailShrinks ==
  ASSUME NEW S, NEW s \in Seq(S), s # <<>>
  PROVE  Shrunk(Tail(s), s)
<1>1. \A i \in DOMAIN Tail(s) : i \in Nat \ {0} /\ i + 1 \in DOMAIN s /\ Tail(s)[i] = s[i + 1]
  OBVIOUS
<1>2. Len(Tail(s)) = Len(s) - 1 /\ Len(s) \in Nat /\ DOMAIN s = 1..Len(s)
      /\ DOMAIN Tail(s) = 1..Len(Tail(s)) /\ 1 \in DOMAIN s
  OBVIOUS
<1>3. \A i \in DOMAIN s : i = 1 \/ i - 1 \in DOMAIN Tail(s)
  BY <1>2
<1>4. ASSUME NEW i \in DOMAIN s, i # 1
      PROVE  i - 1 \in DOMAIN Tail(s) /\ Tail(s)[i - 1] = s[i]
  <2>1. i - 1 \in DOMAIN Tail(s) /\ (i - 1) + 1 = i
    BY <1>2, <1>3, <1>4
  <2>2. Tail(s)[i - 1] = s[(i - 1) + 1]
    BY <1>1, <2>1
  <2> QED
    BY <2>1, <2>2
<1>5. \A i \in DOMAIN s : i \in Nat \ {0}
  BY <1>2
<1>6. 1 \in DOMAIN s
  BY <1>2
<1> QED
  BY <1>1, <1>4, <1>5, <1>6, Zenon DEF Shrunk

(* What the steps do to the messages that are posted to the webview.        *)
LEMMA UIPostsChange ==
  ASSUME WidgetTypes, InOrder
  PROVE  /\ HookMessage => Grown(toUI', toUI, Post("msg", Passed + 1))
         /\ RegisterHook => Grown(toUI', toUI, Post("done", "register"))
         /\ RemoveHook => Grown(toUI', toUI, Post("done", "remove"))
         /\ ExtensionHandles => \/ toUI' = toUI
                                \/ Grown(toUI', toUI, Post("hook", Head(extChain)))
         /\ UIReceives => Shrunk(toUI', toUI) /\ toUI[1].what = "msg"
         /\ UIAnswers => Shrunk(toUI', toUI) /\ toUI[1].what = "hook"
         /\ UIGoesOn => Shrunk(toUI', toUI) /\ toUI[1].what = "done"
         /\ KernelSends \/ MessageHandled \/ HookAnswered \/ MessageReceived \/ UIHandles
            \/ UNCHANGED widgetVars => toUI' = toUI
<1>1. count \in Nat /\ toUI \in Seq(UIPosts) /\ extChain \in Seq(1..count)
  BY DEF WidgetTypes, SocketTyped, PostsTyped, ExtTyped, WidgetAssumption
<1>2. HookMessage => Grown(toUI', toUI, Post("msg", Passed + 1))
  <2> SUFFICES ASSUME HookMessage PROVE Grown(toUI', toUI, Post("msg", Passed + 1))
    OBVIOUS
  <2>1. toUI' = Append(toUI, Post("msg", Passed + 1)) /\ Passed + 1 \in 1..count
    BY HookMessageMoves DEF HookMessage
  <2> QED
    BY <1>1, <2>1, PostTypes, AppendGrows
<1>3. RegisterHook => Grown(toUI', toUI, Post("done", "register"))
  BY <1>1, PostTypes, AppendGrows DEF RegisterHook, InAnyCase
<1>4. RemoveHook => Grown(toUI', toUI, Post("done", "remove"))
  BY <1>1, PostTypes, AppendGrows DEF RemoveHook
<1>5. ExtensionHandles => \/ toUI' = toUI
                          \/ Grown(toUI', toUI, Post("hook", Head(extChain)))
  <2> SUFFICES ASSUME ExtensionHandles
               PROVE  toUI' = toUI \/ Grown(toUI', toUI, Post("hook", Head(extChain)))
    OBVIOUS
  <2>1. Head(extChain) \in 1..count
    BY <1>1, TakenFirst DEF ExtensionHandles
  <2>2. toUI' = toUI \/ toUI' = Append(toUI, Post("hook", Head(extChain)))
    BY DEF ExtensionHandles
  <2>3. Post("hook", Head(extChain)) \in UIPosts
    BY <1>1, <2>1, PostTypes
  <2>4. Grown(Append(toUI, Post("hook", Head(extChain))), toUI, Post("hook", Head(extChain)))
    BY <1>1, <2>3, AppendGrows
  <2> QED
    BY <2>2, <2>4
<1>6. \A what : UIGets(what) => Shrunk(toUI', toUI) /\ toUI[1].what = what
  BY <1>1, TailShrinks, TakenFirst DEF UIGets
<1> QED
  BY <1>2, <1>3, <1>4, <1>5, <1>6
  DEF UIReceives, UIAnswers, UIGoesOn, KernelSends, MessageHandled, HookAnswered,
      MessageReceived, UIHandles, widgetVars

(* What the steps do to the messages that the webview's kernel has to       *)
(* handle.                                                                  *)
LEMMA UIChainChanges ==
  ASSUME WidgetTypes
  PROVE  /\ UIReceives => Grown(uiChain', uiChain, toUI[1].n) /\ UNCHANGED handled
         /\ UIHandles => /\ Shrunk(uiChain', uiChain) /\ uiChain[1] = Head(uiChain)
                         /\ handled' = handled \cup {uiChain[1]}
         /\ KernelSends \/ HookMessage \/ MessageHandled \/ ExtensionHandles \/ HookAnswered
            \/ MessageReceived \/ RegisterHook \/ RemoveHook \/ UIAnswers \/ UIGoesOn
            \/ UNCHANGED widgetVars => UNCHANGED <<uiChain, handled>>
<1>1. uiChain \in Seq(1..count)
  BY DEF WidgetTypes, UITyped
<1>2. UIReceives => Grown(uiChain', uiChain, toUI[1].n) /\ UNCHANGED handled
  <2> SUFFICES ASSUME UIReceives PROVE Grown(uiChain', uiChain, toUI[1].n) /\ UNCHANGED handled
    OBVIOUS
  <2>1. Head(toUI) = toUI[1] /\ Head(toUI).n \in 1..count
    BY WebviewGets DEF UIReceives
  <2>2. uiChain' = Append(uiChain, toUI[1].n) /\ UNCHANGED handled
    BY <2>1 DEF UIReceives
  <2> QED
    BY <1>1, <2>1, <2>2, AppendGrows
<1>3. UIHandles => /\ Shrunk(uiChain', uiChain) /\ uiChain[1] = Head(uiChain)
                   /\ handled' = handled \cup {uiChain[1]}
  BY <1>1, TailShrinks, TakenFirst DEF UIHandles
<1> QED
  BY <1>2, <1>3
  DEF KernelSends, HookMessage, MessageHandled, ExtensionHandles, HookAnswered,
      MessageReceived, RegisterHook, RemoveHook, UIAnswers, UIGoesOn, widgetVars, uiVars

(* Nothing of a restart is posted.                                          *)
LEMMA NoRestartKept ==
  ASSUME WidgetTypes, Structure, [WidgetNext]_widgetVars, restarts' = 0
  PROVE  NoRestart'
<1>1. InOrder /\ NoRestart
  BY DEF Structure
<1>2. \A e : e.what # "restart" /\ Grown(toUI', toUI, e) => NoRestart'
  BY <1>1 DEF NoRestart, Grown
<1>3. Shrunk(toUI', toUI) => NoRestart'
  BY <1>1 DEF NoRestart, Shrunk
<1>4. toUI' = toUI => NoRestart'
  BY <1>1 DEF NoRestart
<1>5. /\ \A n : Post("msg", n).what = "msg" /\ Post("hook", n).what = "hook"
      /\ \A n : Post("done", n).what = "done"
  BY DEF Post
<1> QED
  BY <1>1, <1>2, <1>3, <1>4, <1>5, BeforeRestart, UIPostsChange

(* The messages that the webview has to handle are numbers.                 *)
LEMMA UINumbers ==
  ASSUME WidgetTypes
  PROVE  /\ handled \subseteq Int /\ \A i \in DOMAIN uiChain : i \in Nat /\ uiChain[i] \in Int
         /\ \A i \in DOMAIN toUI : i \in Nat /\ (toUI[i].what = "msg" => toUI[i].n \in Int)
<1>1. count \in Nat /\ uiChain \in Seq(1..count) /\ handled \subseteq 1..count
      /\ toUI \in Seq(UIPosts)
  BY DEF WidgetTypes, SocketTyped, UITyped, PostsTyped, WidgetAssumption
<1>2. \A i \in DOMAIN toUI : i \in Nat /\ toUI[i] \in UIPosts
  BY <1>1
<1> QED
  BY <1>1, <1>2, PostTypes

(* The webview gets and handles the messages in their order.                *)
LEMMA SortedKept ==
  ASSUME WidgetTypes, Structure, [WidgetNext]_widgetVars, restarts' = 0
  PROVE  Sorted'
<1>1. InOrder /\ Sorted
  BY DEF Structure
<1>2. /\ handled \subseteq Int /\ \A i \in DOMAIN uiChain : i \in Nat /\ uiChain[i] \in Int
      /\ \A i \in DOMAIN toUI : i \in Nat /\ (toUI[i].what = "msg" => toUI[i].n \in Int)
  BY UINumbers
<1>3. Posted \in Int /\ Passed \in Int
  BY Numbers
<1>4. CASE UNCHANGED <<Posted, handled, uiChain, toUI>>
  BY <1>1, <1>4 DEF Sorted, ChainSorted, PostsSorted
<1>5. CASE HookMessage
  <2>1. Posted' = Posted + 1 /\ Posted = Passed
    BY <1>1, <1>5, HookMessageMoves
  <2>2. Grown(toUI', toUI, Post("msg", Posted + 1)) /\ uiChain' = uiChain /\ handled' = handled
    BY <1>1, <1>5, <2>1, UIPostsChange, UIChainChanges
  <2>3. ChainSorted' /\ \A m \in handled' : m <= Posted'
    BY <1>1, <1>2, <1>3, <2>1, <2>2 DEF Sorted, ChainSorted
  <2>4. PostsSorted'
    BY <1>1, <1>2, <1>3, <2>1, <2>2 DEF Sorted, ChainSorted, PostsSorted, Grown, Post
  <2> QED
    BY <2>3, <2>4 DEF Sorted
<1>6. ASSUME NEW e, e.what # "msg", Grown(toUI', toUI, e), Posted' = Posted,
             uiChain' = uiChain, handled' = handled
      PROVE  Sorted'
  BY <1>1, <1>2, <1>6 DEF Sorted, ChainSorted, PostsSorted, Grown
<1>7. CASE UIReceives
  <2> DEFINE n == toUI[1].n
  <2>1. /\ Shrunk(toUI', toUI) /\ toUI[1].what = "msg" /\ Grown(uiChain', uiChain, n)
        /\ handled' = handled /\ Posted' = Posted
    BY <1>1, <1>7, UIPostsChange, UIChainChanges, OthersMoveNothing
  <2>2. /\ n \in Int /\ n <= Posted /\ \A m \in handled : m < n
        /\ \A j \in DOMAIN uiChain : uiChain[j] < n
        /\ \A j \in DOMAIN toUI : 1 < j /\ toUI[j].what = "msg" => n < toUI[j].n
    BY <1>1, <1>2, <2>1 DEF Sorted, PostsSorted, Shrunk
  <2> HIDE DEF n
  <2>3. ChainSorted' /\ \A m \in handled' : m <= Posted'
    BY <1>1, <1>2, <1>3, <2>1, <2>2 DEF Sorted, ChainSorted, Grown
  <2>4. PostsSorted'
    <3> SUFFICES ASSUME NEW i \in DOMAIN toUI', toUI'[i].what = "msg"
                 PROVE  /\ toUI'[i].n <= Posted'
                        /\ \A m \in handled' : m < toUI'[i].n
                        /\ \A j \in DOMAIN uiChain' : uiChain'[j] < toUI'[i].n
                        /\ \A j \in DOMAIN toUI' :
                             i < j /\ toUI'[j].what = "msg" => toUI'[i].n < toUI'[j].n
      BY DEF PostsSorted
    <3>1. /\ i \in Nat \ {0} /\ i + 1 \in DOMAIN toUI /\ toUI'[i] = toUI[i + 1] /\ 1 < i + 1
          /\ toUI[i + 1].what = "msg"
      BY <2>1 DEF Shrunk
    <3>2. \A j \in DOMAIN uiChain' : uiChain'[j] < toUI'[i].n
      BY <1>1, <2>1, <2>2, <3>1 DEF Sorted, PostsSorted, Grown
    <3>3. ASSUME NEW j \in DOMAIN toUI', i < j, toUI'[j].what = "msg"
          PROVE  toUI'[i].n < toUI'[j].n
      <4>1. j \in Nat \ {0} /\ j + 1 \in DOMAIN toUI /\ toUI'[j] = toUI[j + 1]
        BY <2>1 DEF Shrunk
      <4>2. i + 1 < j + 1
        BY <3>1, <3>3, <4>1
      <4> QED
        BY <1>1, <3>1, <3>3, <4>1, <4>2 DEF Sorted, PostsSorted
    <3> QED
      BY <1>1, <2>1, <3>1, <3>2, <3>3 DEF Sorted, PostsSorted
  <2> QED
    BY <2>3, <2>4 DEF Sorted
<1>8. CASE UIAnswers \/ UIGoesOn
  <2>1. Shrunk(toUI', toUI) /\ uiChain' = uiChain /\ handled' = handled /\ Posted' = Posted
    BY <1>1, <1>8, UIPostsChange, UIChainChanges, OthersMoveNothing
  <2> QED
    BY <1>1, <1>2, <2>1 DEF Sorted, ChainSorted, PostsSorted, Shrunk
<1>9. CASE UIHandles
  <2>1. /\ Shrunk(uiChain', uiChain) /\ handled' = handled \cup {uiChain[1]}
        /\ toUI' = toUI /\ Posted' = Posted
    BY <1>1, <1>9, UIPostsChange, UIChainChanges, OthersMoveNothing
  <2>2. \A m \in handled' : m <= Posted'
    BY <1>1, <2>1 DEF Sorted, ChainSorted, Shrunk
  <2>3. ChainSorted'
    <3> SUFFICES ASSUME NEW i \in DOMAIN uiChain'
                 PROVE  /\ uiChain'[i] <= Posted'
                        /\ \A m \in handled' : m < uiChain'[i]
                        /\ \A j \in DOMAIN uiChain' : i < j => uiChain'[i] < uiChain'[j]
      BY DEF ChainSorted
    <3>1. /\ i \in Nat \ {0} /\ i + 1 \in DOMAIN uiChain /\ uiChain'[i] = uiChain[i + 1]
          /\ 1 < i + 1 /\ 1 \in DOMAIN uiChain
      BY <2>1 DEF Shrunk
    <3>2. uiChain[1] < uiChain[i + 1]
      BY <1>1, <3>1 DEF Sorted, ChainSorted
    <3>3. ASSUME NEW j \in DOMAIN uiChain', i < j
          PROVE  uiChain'[i] < uiChain'[j]
      <4>1. j \in Nat \ {0} /\ j + 1 \in DOMAIN uiChain /\ uiChain'[j] = uiChain[j + 1]
        BY <2>1 DEF Shrunk
      <4>2. i + 1 < j + 1
        BY <3>1, <3>3, <4>1
      <4> QED
        BY <1>1, <3>1, <4>1, <4>2 DEF Sorted, ChainSorted
    <3> QED
      BY <1>1, <2>1, <3>1, <3>2, <3>3 DEF Sorted, ChainSorted
  <2>4. PostsSorted'
    BY <1>1, <1>2, <1>3, <2>1 DEF Sorted, PostsSorted, Shrunk
  <2> QED
    BY <2>2, <2>3, <2>4 DEF Sorted
<1>10. CASE RegisterHook \/ RemoveHook \/ ExtensionHandles
  <2>1. Posted' = Posted /\ uiChain' = uiChain /\ handled' = handled
    BY <1>1, <1>10, UIChainChanges, OthersMoveNothing, ExtensionHandlesMoves
  <2>2. toUI' = toUI \/ \E e : e.what # "msg" /\ Grown(toUI', toUI, e)
    BY <1>1, <1>10, UIPostsChange DEF Post
  <2> QED
    BY <1>4, <1>6, <2>1, <2>2
<1>11. CASE \/ KernelSends \/ MessageHandled \/ HookAnswered \/ MessageReceived
            \/ UNCHANGED widgetVars
  <2>1. Posted' = Posted
    BY <1>1, <1>11, SendingMoves, MessageHandledMoves, HookAnsweredMoves, OthersMoveNothing
  <2>2. UNCHANGED <<handled, uiChain, toUI>>
    BY <1>1, <1>11, UIPostsChange, UIChainChanges
  <2> QED
    BY <1>4, <2>1, <2>2
<1> QED
  BY <1>5, <1>7, <1>8, <1>9, <1>10, <1>11, BeforeRestart

(* Every message posted is on its way to the webview's kernel, or handled   *)
(* by it.                                                                   *)
LEMMA CompleteKept ==
  ASSUME WidgetTypes, Structure, [WidgetNext]_widgetVars, restarts' = 0
  PROVE  Complete'
<1>1. InOrder /\ Complete
  BY DEF Structure
<1>2. Posted \in Int /\ Passed \in Int
  BY Numbers
<1>3. CASE UNCHANGED <<Posted, handled, uiChain, toUI>>
  BY <1>1, <1>3 DEF Complete
<1>4. CASE HookMessage
  <2>1. Posted' = Posted + 1 /\ Posted = Passed
    BY <1>1, <1>4, HookMessageMoves
  <2>2. Grown(toUI', toUI, Post("msg", Posted + 1)) /\ uiChain' = uiChain /\ handled' = handled
    BY <1>1, <1>4, <2>1, UIPostsChange, UIChainChanges
  <2>3. \A m \in 1..Posted' : m \in 1..Posted \/ m = Posted + 1
    BY <1>2, <2>1
  <2> QED
    BY <1>1, <2>2, <2>3 DEF Complete, Grown
<1>5. ASSUME NEW e, Grown(toUI', toUI, e), Posted' = Posted, uiChain' = uiChain,
             handled' = handled
      PROVE  Complete'
  BY <1>1, <1>5 DEF Complete, Grown
<1>6. CASE UIReceives
  <2>1. /\ Shrunk(toUI', toUI) /\ toUI[1].what = "msg" /\ Grown(uiChain', uiChain, toUI[1].n)
        /\ handled' = handled /\ Posted' = Posted
    BY <1>1, <1>6, UIPostsChange, UIChainChanges, OthersMoveNothing
  <2>2. \A m : (\E i \in DOMAIN uiChain : uiChain[i] = m) \/ toUI[1].n = m
                 => \E i \in DOMAIN uiChain' : uiChain'[i] = m
    BY <2>1 DEF Grown
  <2>3. \A m : (\E i \in DOMAIN toUI : toUI[i] = Post("msg", m))
                 => toUI[1].n = m \/ \E i \in DOMAIN toUI' : toUI'[i] = Post("msg", m)
    BY <2>1 DEF Shrunk, Post
  <2> QED
    BY <1>1, <2>1, <2>2, <2>3 DEF Complete
<1>7. CASE UIAnswers \/ UIGoesOn
  <2>1. /\ Shrunk(toUI', toUI) /\ toUI[1].what # "msg" /\ uiChain' = uiChain
        /\ handled' = handled /\ Posted' = Posted
    BY <1>1, <1>7, UIPostsChange, UIChainChanges, OthersMoveNothing
  <2>2. \A m : (\E i \in DOMAIN toUI : toUI[i] = Post("msg", m))
                 => \E i \in DOMAIN toUI' : toUI'[i] = Post("msg", m)
    BY <2>1 DEF Shrunk, Post
  <2> QED
    BY <1>1, <2>1, <2>2 DEF Complete
<1>8. CASE UIHandles
  <2>1. /\ Shrunk(uiChain', uiChain) /\ handled' = handled \cup {uiChain[1]}
        /\ toUI' = toUI /\ Posted' = Posted
    BY <1>1, <1>8, UIPostsChange, UIChainChanges, OthersMoveNothing
  <2>2. \A m : (\E i \in DOMAIN uiChain : uiChain[i] = m)
                 => m \in handled' \/ \E i \in DOMAIN uiChain' : uiChain'[i] = m
    BY <2>1 DEF Shrunk
  <2> QED
    BY <1>1, <2>1, <2>2 DEF Complete
<1>9. CASE RegisterHook \/ RemoveHook \/ ExtensionHandles
  <2>1. Posted' = Posted /\ uiChain' = uiChain /\ handled' = handled
    BY <1>1, <1>9, UIChainChanges, OthersMoveNothing, ExtensionHandlesMoves
  <2>2. toUI' = toUI \/ \E e : Grown(toUI', toUI, e)
    BY <1>1, <1>9, UIPostsChange
  <2> QED
    BY <1>3, <1>5, <2>1, <2>2
<1>10. CASE \/ KernelSends \/ MessageHandled \/ HookAnswered \/ MessageReceived
            \/ UNCHANGED widgetVars
  <2>1. Posted' = Posted
    BY <1>1, <1>10, SendingMoves, MessageHandledMoves, HookAnsweredMoves, OthersMoveNothing
  <2>2. UNCHANGED <<handled, uiChain, toUI>>
    BY <1>1, <1>10, UIPostsChange, UIChainChanges
  <2> QED
    BY <1>3, <2>1, <2>2
<1> QED
  BY <1>4, <1>6, <1>7, <1>8, <1>9, <1>10, BeforeRestart

(* When the socket's hook gets to an update of the widget, it knows the     *)
(* widget.                                                                  *)
LEMMA OpenWhenUpdatedKept ==
  ASSUME WidgetTypes, Structure, [WidgetNext]_widgetVars, restarts' = 0
  PROVE  OpenWhenUpdated'
<1>1. InOrder /\ OpenWhenUpdated
  BY DEF Structure
<1>2. Posted \in Int /\ count \in Nat /\ Posted <= count /\ Posted >= 0
  BY <1>1, Numbers DEF InOrder
<1>3. CASE UNCHANGED <<Posted, count, kind, live, widget>>
  BY <1>1, <1>3 DEF OpenWhenUpdated, Open
<1>4. CASE KernelSends
  <2>1. PICK k \in Kinds :
          /\ k \in {"update", "close"} => live
          /\ live' = IF k = "open" THEN TRUE ELSE IF k = "close" THEN FALSE ELSE live
          /\ kind'[count + 1] = k
          /\ \A i \in 1..count : kind'[i] = kind[i]
    BY <1>4, SendingMoves
  <2>2. Posted' = Posted /\ count' = count + 1 /\ widget' = widget
    BY <1>4, SendingMoves DEF KernelSends
  <2>3. \A i \in Posted+1 .. count : kind'[i] = kind[i]
    BY <1>2, <2>1
  <2>4. ASSUME NEW n \in Posted+1 .. count+1, Open(n)
        PROVE  Open(n)'
    BY <1>2, <2>2, <2>3, <2>4 DEF Open
  <2>5. ASSUME NEW n, n = count + 2, live'
        PROVE  Open(n)'
    <3>1. n - 1 = count + 1 /\ n \in Int
      BY <1>2, <2>5
    <3>2. CASE k = "open"
      <4>1. \A c \in count+2 .. n-1 : kind'[c] # "close"
        BY <1>2, <3>1
      <4>2. count + 1 \in Posted'+1 .. n-1 /\ kind'[count + 1] = "open"
        BY <1>2, <2>1, <2>2, <3>1, <3>2
      <4>3. (count + 1) + 1 = count + 2
        BY <1>2
      <4> QED
        BY <4>1, <4>2, <4>3 DEF Open
    <3>3. CASE k # "open"
      <4>1. kind'[count + 1] # "close" /\ Open(count + 1)
        BY <1>1, <2>1, <2>5, <3>3 DEF OpenWhenUpdated
      <4>2. \A o \in Int : \A c \in o .. n-1 : c \in o .. count \/ c = count + 1
        BY <1>2, <3>1
      <4>3. \A o \in Posted+1 .. count : o \in Posted'+1 .. n-1 /\ o + 1 \in Int
        BY <1>2, <2>2, <3>1
      <4>4. (count + 1) - 1 = count
        BY <1>2
      <4>5. \A c \in Posted+1 .. n-1 : kind[c] = kind'[c] \/ c = count + 1
        BY <1>2, <2>3, <4>2
      <4>6. CASE widget /\ \A c \in Posted+1 .. count : kind[c] # "close"
        BY <1>2, <2>2, <2>3, <4>1, <4>2, <4>6 DEF Open
      <4>7. CASE \E o \in Posted+1 .. count :
                   kind[o] = "open" /\ \A c \in o+1 .. count : kind[c] # "close"
        <5>1. PICK o \in Posted+1 .. count :
                kind[o] = "open" /\ \A c \in o+1 .. count : kind[c] # "close"
          BY <4>7
        <5>2. \A c \in o+1 .. count : c \in Posted+1 .. count
          BY <1>2
        <5>3. kind'[o] = "open" /\ \A c \in o+1 .. n-1 : kind'[c] # "close"
          BY <1>2, <2>3, <4>1, <4>2, <5>1, <5>2
        <5> QED
          BY <4>3, <5>3 DEF Open
      <4> QED
        BY <4>1, <4>4, <4>6, <4>7 DEF Open
    <3> QED
      BY <3>2, <3>3
  <2>6. ASSUME NEW n \in Posted'+1 .. count', kind'[n] = "update"
        PROVE  Open(n)'
    <3>1. CASE n = count + 1
      <4>1. live
        BY <2>1, <2>6, <3>1
      <4>2. Open(count + 1)
        BY <1>1, <4>1 DEF OpenWhenUpdated
      <4> QED
        BY <1>2, <2>4, <3>1, <4>2
    <3>2. CASE n # count + 1
      <4>1. n \in Posted+1 .. count /\ kind[n] = "update"
        BY <1>2, <2>2, <2>3, <2>6, <3>2
      <4>2. Open(n)
        BY <1>1, <4>1 DEF OpenWhenUpdated
      <4> QED
        BY <1>2, <2>4, <4>1, <4>2
    <3> QED
      BY <3>1, <3>2
  <2>7. live' => Open(count + 1)'
    <3>1. count' + 1 = count + 2
      BY <1>2, <2>2
    <3> QED
      BY <2>5, <3>1 DEF Open
  <2> QED
    BY <2>6, <2>7 DEF OpenWhenUpdated
<1>5. CASE HookMessage
  <2> DEFINE h == Posted + 1
  <2>1. Head(chain) = h /\ Posted' = h /\ h \in 1..count
    BY <1>1, <1>5, HookMessageMoves
  <2>2. /\ UNCHANGED <<kind, count, live>>
        /\ widget' = IF kind[h] = "open" THEN TRUE
                     ELSE IF kind[h] = "close" THEN FALSE ELSE widget
    BY <1>5, <2>1 DEF HookMessage, sourceVars
  <2>3. ASSUME NEW n \in h+1 .. count+1, Open(n)
        PROVE  Open(n)'
    <3>1. CASE \E o \in h+1 .. n-1 :
                 kind[o] = "open" /\ \A c \in o+1 .. n-1 : kind[c] # "close"
      BY <2>1, <2>2, <3>1 DEF Open
    <3>2. CASE kind[h] = "open" /\ \A c \in h+1 .. n-1 : kind[c] # "close"
      BY <2>1, <2>2, <3>2 DEF Open
    <3>3. CASE widget /\ \A c \in h .. n-1 : kind[c] # "close"
      <4>1. h \in h .. n-1 /\ \A c \in h+1 .. n-1 : c \in h .. n-1
        BY <1>2, <2>3
      <4> QED
        BY <2>1, <2>2, <3>3, <4>1 DEF Open
    <3>4. \A o \in h .. n-1 : o \in h+1 .. n-1 \/ o = h
      BY <1>2, <2>3
    <3> QED
      BY <2>3, <3>1, <3>2, <3>3, <3>4 DEF Open
  <2>4. h + 1 <= count + 1 /\ h \in Int
    BY <1>2, <2>1
  <2>5. live' => Open(count + 1)'
    BY <1>1, <1>2, <2>2, <2>3, <2>4 DEF OpenWhenUpdated
  <2>6. ASSUME NEW n \in Posted'+1 .. count', kind'[n] = "update"
        PROVE  Open(n)'
    <3>1. n \in h+1 .. count+1 /\ n \in Posted+1 .. count /\ kind[n] = "update"
      BY <1>2, <2>1, <2>2, <2>6
    <3> QED
      BY <1>1, <2>3, <3>1 DEF OpenWhenUpdated
  <2> QED
    BY <2>2, <2>5, <2>6 DEF OpenWhenUpdated
<1>6. CASE MessageHandled \/ ExtensionHandles \/ HookAnswered
  <2>1. UNCHANGED <<count, kind, live, widget>>
    BY <1>6 DEF MessageHandled, ExtensionHandles, HookAnswered, sourceVars, socketVars
  <2>2. Posted' = Posted
    BY <1>1, <1>6, MessageHandledMoves, ExtensionHandlesMoves, HookAnsweredMoves
  <2> QED
    BY <1>3, <2>1, <2>2
<1> QED
  BY <1>3, <1>4, <1>5, <1>6, BeforeRestart, OthersMoveNothing

(* What the steps do to the messages that are posted to the extension, but  *)
(* for the two below.                                                       *)
LEMMA ExtPostsChange ==
  ASSUME WidgetTypes
  PROVE  /\ MessageReceived => Shrunk(toExt', toExt) /\ toExt[1].what = "received"
         /\ MessageHandled => /\ Shrunk(toExt', toExt) /\ toExt[1].what = "handled"
                              /\ Head(toExt) = toExt[1]
         /\ RegisterHook => Shrunk(toExt', toExt) /\ toExt[1].what = "register"
         /\ RemoveHook => /\ Shrunk(toExt', toExt) /\ toExt[1].what = "remove"
                          /\ Head(toExt) = toExt[1]
         /\ HookAnswered => Shrunk(toExt', toExt) /\ toExt[1].what = "result"
         /\ UIReceives => \E n : Grown(toExt', toExt, Post("received", n))
         /\ UIAnswers => \E n : Grown(toExt', toExt, Post("result", n))
         /\ KernelSends \/ HookMessage \/ ExtensionHandles \/ UNCHANGED widgetVars
              => toExt' = toExt
<1>1. count \in Nat /\ toExt \in Seq(ExtPosts)
  BY DEF WidgetTypes, SocketTyped, PostsTyped, WidgetAssumption
<1>2. \A what : Gets(what) => /\ Shrunk(toExt', toExt) /\ toExt[1].what = what
                              /\ Head(toExt) = toExt[1]
  BY <1>1, TailShrinks, TakenFirst DEF Gets
<1>3. UIReceives => \E n : Grown(toExt', toExt, Post("received", n))
  <2> SUFFICES ASSUME UIReceives PROVE \E n : Grown(toExt', toExt, Post("received", n))
    OBVIOUS
  <2>1. Head(toUI).n \in 1..count
    BY WebviewGets DEF UIReceives
  <2>2. toExt' = Append(toExt, Post("received", Head(toUI).n))
    BY DEF UIReceives
  <2> QED
    BY <1>1, <2>1, <2>2, PostTypes, AppendGrows
<1>4. UIAnswers => \E n : Grown(toExt', toExt, Post("result", n))
  <2> SUFFICES ASSUME UIAnswers PROVE \E n : Grown(toExt', toExt, Post("result", n))
    OBVIOUS
  <2>1. Head(toUI).n \in 1..count
    BY WebviewGets DEF UIAnswers
  <2>2. toExt' = Append(toExt, Post("result", Head(toUI).n))
    BY DEF UIAnswers
  <2> QED
    BY <1>1, <2>1, <2>2, PostTypes, AppendGrows
<1> QED
  BY <1>2, <1>3, <1>4
  DEF MessageReceived, MessageHandled, RegisterHook, RemoveHook, HookAnswered, KernelSends,
      HookMessage, ExtensionHandles, widgetVars

(* A message is handled in the webview while nothing is awaited of the      *)
(* extension. It is told as handled, or asks the extension for an           *)
(* operation.                                                               *)
LEMMA HandlesAlone ==
  ASSUME WidgetTypes, HeldBack, UIHandles
  PROVE  LET n == uiChain[1]
         IN /\ awaiting = {} /\ n \in 1..count
            /\ \/ /\ Grown(toExt', toExt, Post("handled", n))
                  /\ awaiting' = {} /\ uiHook' = uiHook /\ finishing' = finishing
               \/ /\ kind[n] = "update"
                  /\ Grown(toExt', toExt, IF uiHook THEN Post("remove", lastHooked)
                                          ELSE Post("register", n))
                  /\ awaiting' = {IF uiHook THEN "remove" ELSE "register"}
                  /\ uiHook' = ~uiHook /\ Grown(finishing', finishing, n)
<1> DEFINE n == uiChain[1]
<1>1. /\ count \in Nat /\ toExt \in Seq(ExtPosts) /\ uiChain \in Seq(1..count)
      /\ uiHook \in BOOLEAN /\ lastHooked \in 1..count \cup {None}
      /\ finishing \in Seq(1..count)
  BY DEF WidgetTypes, SocketTyped, PostsTyped, UITyped, WidgetAssumption
<1>2. uiChain # <<>> /\ awaiting = {}
  BY DEF UIHandles, HeldBack
<1>3. Head(uiChain) = n /\ n \in 1..count
  BY <1>1, <1>2, TakenFirst
<1> HIDE DEF n
<1>4. CASE ~(kind[n] = "update" /\ uiWidget)
  <2>1. toExt' = (toExt \o <<>>) \o <<Post("handled", n)>> /\ awaiting' = {}
        /\ uiHook' = (uiHook # FALSE) /\ finishing' = finishing
    BY <1>2, <1>3, <1>4 DEF UIHandles, Told
  <2>2. Post("handled", n) \in ExtPosts
    BY <1>1, <1>3, PostTypes
  <2>3. toExt' = Append(toExt, Post("handled", n))
    BY <1>1, <2>1, <2>2
  <2>4. Grown(Append(toExt, Post("handled", n)), toExt, Post("handled", n))
    BY <1>1, <2>2, AppendGrows
  <2> QED
    BY <1>1, <1>2, <1>3, <2>1, <2>3, <2>4 DEF n
<1>5. CASE kind[n] = "update" /\ uiWidget
  <2> DEFINE op == IF uiHook THEN Post("remove", lastHooked) ELSE Post("register", n)
  <2>1. toExt' = (toExt \o <<op>>) \o <<>>
        /\ awaiting' = {IF uiHook THEN "remove" ELSE "register"}
        /\ uiHook' = (uiHook # TRUE) /\ finishing' = Append(finishing, n)
    BY <1>2, <1>3, <1>5 DEF UIHandles, Told
  <2>2. op \in ExtPosts
    BY <1>1, <1>3, PostTypes
  <2> HIDE DEF op
  <2>3. toExt' = Append(toExt, op)
    BY <1>1, <2>1, <2>2
  <2>4. Grown(toExt', toExt, op) /\ Grown(finishing', finishing, n)
    BY <1>1, <1>3, <2>1, <2>2, <2>3, AppendGrows
  <2> QED
    BY <1>1, <1>2, <1>3, <1>5, <2>1, <2>4 DEF n, op
<1> QED
  BY <1>4, <1>5

(* When the extension has done what was awaited, the messages handled       *)
(* meanwhile are told.                                                      *)
LEMMA GoesOnTelling ==
  ASSUME WidgetTypes, UIGoesOn
  PROVE  /\ awaiting' = awaiting \ {toUI[1].n} /\ uiHook' = uiHook
         /\ finishing' \in {finishing, <<>>}
         /\ \A i \in DOMAIN toExt : i \in DOMAIN toExt' /\ toExt'[i] = toExt[i]
         /\ \A i \in DOMAIN toExt' :
              \/ i \in DOMAIN toExt /\ toExt'[i] = toExt[i]
              \/ \E j \in DOMAIN finishing : toExt'[i] = Post("handled", finishing[j])
<1> DEFINE told == [i \in DOMAIN finishing |-> Post("handled", finishing[i])]
<1>1. count \in Nat /\ toExt \in Seq(ExtPosts) /\ finishing \in Seq(1..count)
  BY DEF WidgetTypes, SocketTyped, PostsTyped, UITyped, WidgetAssumption
<1>2. DOMAIN finishing = 1..Len(finishing) /\ Len(finishing) \in Nat
  BY <1>1
<1>3. \A i \in DOMAIN finishing : Post("handled", finishing[i]) \in ExtPosts
  BY <1>1, PostTypes
<1>4. told \in [1..Len(finishing) -> ExtPosts] /\ DOMAIN told = DOMAIN finishing
      /\ \A i \in DOMAIN told : told[i] = Post("handled", finishing[i])
  BY <1>2, <1>3, Zenon
<1>5. told \in Seq(ExtPosts) /\ (toExt' = toExt \/ toExt' = toExt \o told)
  BY <1>2, <1>4 DEF UIGoesOn
<1> HIDE DEF told
<1>6. \A i \in DOMAIN (toExt \o told) :
        \/ i \in DOMAIN toExt /\ (toExt \o told)[i] = toExt[i]
        \/ \E j \in DOMAIN told : (toExt \o told)[i] = told[j]
  BY <1>1, <1>5
<1>7. \A i \in DOMAIN toExt : i \in DOMAIN (toExt \o told) /\ (toExt \o told)[i] = toExt[i]
  BY <1>1, <1>5
<1>8. /\ \A i \in DOMAIN toExt : i \in DOMAIN toExt' /\ toExt'[i] = toExt[i]
      /\ \A i \in DOMAIN toExt' :
           \/ i \in DOMAIN toExt /\ toExt'[i] = toExt[i]
           \/ \E j \in DOMAIN finishing : toExt'[i] = Post("handled", finishing[j])
  BY <1>4, <1>5, <1>6, <1>7
<1>9. awaiting' = awaiting \ {toUI[1].n} /\ uiHook' = uiHook /\ finishing' \in {finishing, <<>>}
  <2>1. Head(toUI) = toUI[1]
    BY WebviewGets DEF UIGoesOn
  <2> QED
    BY <2>1 DEF UIGoesOn, Finishing
<1> QED
  BY <1>8, <1>9

(* What is told as handled has been, and an update is passed on after that  *)
(* only.                                                                    *)
LEMMA HandledFirstKept ==
  ASSUME WidgetTypes, Structure, [WidgetNext]_widgetVars, restarts' = 0
  PROVE  HandledFirst'
<1>1. InOrder /\ HandledFirst /\ OpenWhenUpdated /\ HeldBack
  BY DEF Structure
<1>2. Posted \in Int /\ Passed \in Int /\ count \in Nat /\ Passed <= count
  BY Numbers
<1>3. ASSUME UNCHANGED <<Passed, kind, handled, finishing>>,
             \A i \in DOMAIN toExt' : toExt'[i].what = "handled" =>
               \E j \in DOMAIN toExt : toExt[j] = toExt'[i]
      PROVE  HandledFirst'
  BY <1>1, <1>3 DEF HandledFirst
<1>4. CASE KernelSends
  <2>1. /\ Passed' = Passed /\ UNCHANGED <<handled, finishing, toExt>>
        /\ \A i \in 1..count : kind'[i] = kind[i]
    BY <1>4, SendingMoves DEF KernelSends, uiVars
  <2>2. \A m \in 1..Passed : kind'[m] = kind[m]
    BY <1>2, <2>1
  <2> QED
    BY <1>1, <2>1, <2>2 DEF HandledFirst
<1>5. CASE HookMessage
  <2>1. /\ UNCHANGED <<kind, handled, finishing, toExt>>
    BY <1>5 DEF HookMessage, sourceVars, uiVars
  <2>2. CASE Passed' = Passed
    BY <1>1, <2>1, <2>2 DEF HandledFirst
  <2>3. CASE Passed' = Passed + 1 /\ ~(kind[Passed + 1] = "update" /\ widget)
    <3>1. Posted = Passed /\ Passed + 1 \in Posted+1 .. count
      BY <1>1, <1>2, <1>5, HookMessageMoves
    <3>2. ~Open(Passed + 1) \/ widget
      BY <1>2, <3>1 DEF Open
    <3>3. kind[Passed + 1] # "update"
      BY <1>1, <2>3, <3>1, <3>2 DEF OpenWhenUpdated
    <3>4. \A m \in 1..Passed' : m \in 1..Passed \/ m = Passed + 1
      BY <1>2, <2>3
    <3> QED
      BY <1>1, <2>1, <3>3, <3>4 DEF HandledFirst
  <2> QED
    BY <1>1, <1>5, <2>2, <2>3, HookMessageMoves
<1>6. CASE MessageHandled
  <2>1. /\ UNCHANGED <<kind, handled, finishing>>
        /\ Shrunk(toExt', toExt) /\ toExt[1].what = "handled" /\ Head(toExt) = toExt[1]
    BY <1>6, ExtPostsChange DEF MessageHandled, sourceVars, uiVars
  <2>2. toExt[1].n \in handled
    BY <1>1, <2>1 DEF HandledFirst, Shrunk
  <2>3. \A m \in 1..Passed' : m \in 1..Passed \/ m = toExt[1].n
    BY <1>1, <1>2, <1>6, <2>1, MessageHandledMoves
  <2> QED
    BY <1>1, <2>1, <2>2, <2>3 DEF HandledFirst, Shrunk
<1>7. CASE \/ MessageReceived \/ RegisterHook \/ RemoveHook \/ HookAnswered
           \/ ExtensionHandles \/ UIReceives \/ UIAnswers \/ UNCHANGED widgetVars
  <2>1. UNCHANGED <<Passed, kind, handled, finishing>>
    <3>1. Passed' = Passed
      BY <1>1, <1>7, OthersMoveNothing, HookAnsweredMoves, ExtensionHandlesMoves
    <3>2. UNCHANGED <<kind, handled, finishing>>
      BY <1>7 DEF MessageReceived, RegisterHook, RemoveHook, HookAnswered, ExtensionHandles,
         UIReceives, UIAnswers, widgetVars, sourceVars, uiVars
    <3> QED
      BY <3>1, <3>2
  <2>2. \/ toExt' = toExt \/ Shrunk(toExt', toExt)
        \/ \E n : Grown(toExt', toExt, Post("received", n))
        \/ \E n : Grown(toExt', toExt, Post("result", n))
    BY <1>7, ExtPostsChange
  <2>3. ASSUME NEW i \in DOMAIN toExt', toExt'[i].what = "handled"
        PROVE  \E j \in DOMAIN toExt : toExt[j] = toExt'[i]
    <3>1. \A e : Grown(toExt', toExt, e) /\ e.what # "handled"
                   => \E j \in DOMAIN toExt : toExt[j] = toExt'[i]
      BY <2>3 DEF Grown
    <3>2. Shrunk(toExt', toExt) => \E j \in DOMAIN toExt : toExt[j] = toExt'[i]
      BY <2>3 DEF Shrunk
    <3>3. \A n : Post("received", n).what # "handled" /\ Post("result", n).what # "handled"
      BY DEF Post
    <3> QED
      BY <2>2, <2>3, <3>1, <3>2, <3>3
  <2> QED
    BY <1>3, <2>1, <2>3
<1>8. CASE UIHandles
  <2> DEFINE n == uiChain[1]
  <2>1. handled' = handled \cup {n} /\ Passed' = Passed /\ kind' = kind
    BY <1>8, UIChainChanges, OthersMoveNothing
  <2>2. \A i \in DOMAIN toExt' : toExt'[i].what = "handled" =>
          toExt'[i].n = n \/ \E j \in DOMAIN toExt : toExt[j] = toExt'[i]
    BY <1>1, <1>8, HandlesAlone DEF Grown, Post
  <2>3. \A i \in DOMAIN finishing' :
          finishing'[i] = n \/ \E j \in DOMAIN finishing : finishing[j] = finishing'[i]
    BY <1>1, <1>8, HandlesAlone DEF Grown
  <2> HIDE DEF n
  <2> QED
    BY <1>1, <2>1, <2>2, <2>3 DEF HandledFirst
<1>9. CASE UIGoesOn
  <2>1. UNCHANGED <<Passed, kind, handled>>
    BY <1>9, UIChainChanges, OthersMoveNothing
  <2>2. \A i \in DOMAIN toExt' :
          \/ i \in DOMAIN toExt /\ toExt'[i] = toExt[i]
          \/ \E j \in DOMAIN finishing : toExt'[i].n = finishing[j]
    BY <1>9, GoesOnTelling DEF Post
  <2>3. \A i \in DOMAIN finishing' : \E j \in DOMAIN finishing : finishing'[i] = finishing[j]
    BY <1>9, GoesOnTelling
  <2> QED
    BY <1>1, <2>1, <2>2, <2>3 DEF HandledFirst
<1> QED
  BY <1>4, <1>5, <1>6, <1>7, <1>8, <1>9, BeforeRestart

(* One operation at a time is asked of the extension, and the extension     *)
(* answers it once.                                                         *)
LEMMA OneOpKept ==
  ASSUME WidgetTypes, Structure, [WidgetNext]_widgetVars, restarts' = 0
  PROVE  OneOp'
<1>1. InOrder /\ OneOp /\ HeldBack
  BY DEF Structure
<1>2. /\ \A i \in DOMAIN toUI : i \in Nat
      /\ \A n : Post("received", n).what = "received" /\ Post("result", n).what = "result"
      /\ \A n : Post("msg", n).what = "msg" /\ Post("hook", n).what = "hook"
      /\ \A n : Post("handled", n).what = "handled"
  BY UINumbers DEF Post
<1>3. ASSUME UNCHANGED <<awaiting, uiHook>>,
             \/ toExt' = toExt
             \/ Shrunk(toExt', toExt)
             \/ \E e : Grown(toExt', toExt, e) /\ ~IsOp(e),
             \/ toUI' = toUI
             \/ Shrunk(toUI', toUI)
             \/ \E e : Grown(toUI', toUI, e) /\ e.what # "done"
      PROVE  OneOp'
  <2>1. \A i \in DOMAIN toExt' : IsOp(toExt'[i]) => \E k \in DOMAIN toExt : toExt[k] = toExt'[i]
    BY <1>3 DEF Shrunk, Grown
  <2>2. \A i \in DOMAIN toUI' : toUI'[i].what = "done" => \E k \in DOMAIN toUI : toUI[k] = toUI'[i]
    BY <1>3 DEF Shrunk, Grown
  <2>3. \A i, j \in DOMAIN toExt' : IsOp(toExt'[i]) /\ IsOp(toExt'[j]) => i = j
    <3>1. CASE toExt' = toExt
      BY <1>1, <3>1 DEF OneOp
    <3>2. CASE Shrunk(toExt', toExt)
      BY <1>1, <3>2 DEF OneOp, Shrunk
    <3>3. CASE \E e : Grown(toExt', toExt, e) /\ ~IsOp(e)
      BY <1>1, <3>3 DEF OneOp, Grown
    <3> QED
      BY <1>3, <3>1, <3>2, <3>3
  <2>4. \A i, j \in DOMAIN toUI' : toUI'[i].what = "done" /\ toUI'[j].what = "done" => i = j
    <3>1. CASE toUI' = toUI
      BY <1>1, <3>1 DEF OneOp
    <3>2. CASE Shrunk(toUI', toUI)
      BY <1>1, <3>2 DEF OneOp, Shrunk
    <3>3. CASE \E e : Grown(toUI', toUI, e) /\ e.what # "done"
      BY <1>1, <3>3 DEF OneOp, Grown
    <3> QED
      BY <1>3, <3>1, <3>2, <3>3
  <2> QED
    BY <1>1, <1>3, <2>1, <2>2, <2>3, <2>4 DEF OneOp, IsOp
<1>4. CASE \/ KernelSends \/ HookMessage \/ MessageHandled \/ ExtensionHandles
           \/ HookAnswered \/ MessageReceived \/ UIReceives \/ UIAnswers
           \/ UNCHANGED widgetVars
  <2>1. UNCHANGED <<awaiting, uiHook>>
    BY <1>4 DEF KernelSends, HookMessage, MessageHandled, ExtensionHandles, HookAnswered,
       MessageReceived, UIReceives, UIAnswers, widgetVars, uiVars
  <2>2. \/ toExt' = toExt
        \/ Shrunk(toExt', toExt)
        \/ \E e : Grown(toExt', toExt, e) /\ ~IsOp(e)
    BY <1>2, <1>4, ExtPostsChange DEF IsOp
  <2>3. \/ toUI' = toUI
        \/ Shrunk(toUI', toUI)
        \/ \E e : Grown(toUI', toUI, e) /\ e.what # "done"
    BY <1>1, <1>2, <1>4, UIPostsChange
  <2> QED
    BY <1>3, <2>1, <2>2, <2>3
<1>5. CASE RegisterHook \/ RemoveHook
  <2>1. /\ UNCHANGED <<awaiting, uiHook>>
        /\ Shrunk(toExt', toExt) /\ IsOp(toExt[1])
        /\ Grown(toUI', toUI, Post("done", toExt[1].what))
    BY <1>1, <1>5, ExtPostsChange, UIPostsChange DEF RegisterHook, RemoveHook, uiVars, IsOp
  <2>2. awaiting = {toExt[1].what} /\ \A i \in DOMAIN toUI : toUI[i].what # "done"
    BY <1>1, <2>1 DEF OneOp, Shrunk
  <2>3. \A i \in DOMAIN toExt' : ~IsOp(toExt'[i])
    BY <1>1, <2>1 DEF OneOp, Shrunk
  <2>4. /\ Post("done", toExt[1].what).what = "done"
        /\ Post("done", toExt[1].what).n = toExt[1].what
    BY DEF Post
  <2>5. \A i \in DOMAIN toUI' :
          toUI'[i].what = "done" => i = Len(toUI) + 1 /\ awaiting' = {toUI'[i].n}
    BY <2>1, <2>2, <2>4 DEF Grown
  <2> QED
    BY <2>3, <2>5 DEF OneOp, IsOp
<1>6. CASE UIHandles
  <2>1. toUI' = toUI /\ awaiting = {}
    BY <1>1, <1>6, UIPostsChange, HandlesAlone
  <2>2. /\ \A i \in DOMAIN toExt : ~IsOp(toExt[i])
        /\ \A i \in DOMAIN toUI : toUI[i].what # "done"
    BY <1>1, <2>1 DEF OneOp
  <2>3. ASSUME NEW n, Grown(toExt', toExt, Post("handled", n)) PROVE OneOp'
    BY <1>2, <2>1, <2>2, <2>3 DEF OneOp, IsOp, Grown
  <2>4. ASSUME NEW op, IsOp(op), Grown(toExt', toExt, op), awaiting' = {op.what},
               op.what = "register" => uiHook', op.what = "remove" => ~uiHook'
        PROVE  OneOp'
    <3>1. \A i \in DOMAIN toExt' : IsOp(toExt'[i]) => i = Len(toExt) + 1 /\ toExt'[i] = op
      BY <2>2, <2>4 DEF Grown
    <3> QED
      BY <2>1, <2>2, <2>4, <3>1 DEF OneOp, IsOp
  <2>5. \A l, n : Post("remove", l).what = "remove" /\ Post("register", n).what = "register"
    BY DEF Post
  <2>6. \/ \E n : Grown(toExt', toExt, Post("handled", n))
        \/ /\ uiHook /\ ~uiHook' /\ awaiting' = {"remove"}
           /\ Grown(toExt', toExt, Post("remove", lastHooked))
        \/ /\ uiHook' /\ awaiting' = {"register"}
           /\ \E n : Grown(toExt', toExt, Post("register", n))
    BY <1>1, <1>6, HandlesAlone
  <2> QED
    BY <2>3, <2>4, <2>5, <2>6 DEF IsOp
<1>7. CASE UIGoesOn
  <2>1. /\ Shrunk(toUI', toUI) /\ toUI[1].what = "done"
        /\ awaiting' = awaiting \ {toUI[1].n} /\ uiHook' = uiHook
    BY <1>1, <1>7, UIPostsChange, GoesOnTelling
  <2>2. /\ \A i \in DOMAIN toExt : ~IsOp(toExt[i])
        /\ \A i \in DOMAIN toUI' : toUI'[i].what # "done"
    BY <1>1, <2>1 DEF OneOp, Shrunk
  <2>3. \A i \in DOMAIN toExt' : ~IsOp(toExt'[i])
    BY <1>2, <1>7, <2>2, GoesOnTelling DEF IsOp
  <2> QED
    BY <2>2, <2>3 DEF OneOp, IsOp
<1> QED
  BY <1>4, <1>5, <1>6, <1>7, BeforeRestart

(* While an operation is awaited, the socket holds the update back that     *)
(* asked for it, and nothing follows that update to the webview.            *)
LEMMA HeldBackKept ==
  ASSUME WidgetTypes, Structure, [WidgetNext]_widgetVars, restarts' = 0
  PROVE  HeldBack'
<1>1. InOrder /\ HeldBack /\ OneOp /\ HandledFirst /\ Sorted
  BY DEF Structure
<1>2. /\ Posted \in Int /\ Passed \in Int /\ count \in Nat /\ Posted <= count
      /\ (stage = "idle" => Posted = Passed) /\ (stage # "idle" => Posted = Passed + 1)
      /\ Passed >= 0 /\ Passed <= count
  BY <1>1, Numbers DEF InOrder
<1>3. ASSUME UNCHANGED <<awaiting, Passed, handled, uiChain>>,
             awaiting # {} => stage' # "idle" /\ kind'[Passed + 1] = kind[Passed + 1],
             awaiting # {} => \A i \in DOMAIN toUI' : toUI'[i].what # "msg",
             awaiting # {} => \A i \in DOMAIN toExt' : toExt'[i] # Post("handled", Passed + 1)
      PROVE  HeldBack'
  BY <1>1, <1>3 DEF HeldBack
<1>4. CASE awaiting' = {}
  BY <1>4 DEF HeldBack
<1>5. CASE UIHandles /\ awaiting' # {}
  <2> DEFINE n == uiChain[1]
  <2>1. /\ awaiting = {} /\ n \in 1..count /\ kind[n] = "update"
        /\ Grown(toExt', toExt, IF uiHook THEN Post("remove", lastHooked)
                                ELSE Post("register", n))
    BY <1>1, <1>5, HandlesAlone
  <2>2. /\ Shrunk(uiChain', uiChain) /\ handled' = handled \cup {n} /\ toUI' = toUI
    BY <1>1, <1>5, UIChainChanges, UIPostsChange
  <2>3. UNCHANGED <<Passed, Posted, kind, stage>>
    BY <1>5, OthersMoveNothing DEF UIHandles, socketVars
  <2>4. n <= Posted /\ n \notin handled
    BY <1>1, <2>1, <2>2 DEF Sorted, ChainSorted, Shrunk
  <2>5. n > Passed
    BY <1>1, <1>2, <2>1, <2>4 DEF HandledFirst
  <2>6. stage # "idle" /\ n = Passed + 1 /\ Posted = n
    BY <1>2, <2>1, <2>4, <2>5
  <2>7. uiChain' = <<>>
    <3>1. uiChain \in Seq(1..count) /\ uiChain' = Tail(uiChain)
      BY <1>5 DEF WidgetTypes, UITyped, UIHandles
    <3>2. \A i \in DOMAIN uiChain : i = 1
      <4> SUFFICES ASSUME NEW i \in DOMAIN uiChain, i # 1 PROVE FALSE
        OBVIOUS
      <4>1. i \in Nat /\ 1 \in DOMAIN uiChain /\ 1 < i /\ uiChain[i] \in Int
        BY <2>2, UINumbers DEF Shrunk
      <4>2. uiChain[1] < uiChain[i] /\ uiChain[i] <= Posted
        BY <1>1, <4>1 DEF Sorted, ChainSorted
      <4> QED
        BY <2>1, <2>6, <4>1, <4>2
    <3>3. Len(uiChain) <= 1 /\ uiChain # <<>>
      BY <1>5, <3>1, <3>2 DEF UIHandles
    <3> QED
      BY <3>1, <3>3
  <2>8. \A i \in DOMAIN toUI : toUI[i].what # "msg"
    <3> SUFFICES ASSUME NEW i \in DOMAIN toUI, toUI[i].what = "msg" PROVE FALSE
      OBVIOUS
    <3>1. uiChain[1] < toUI[i].n /\ toUI[i].n <= Posted /\ toUI[i].n \in Int
      BY <1>1, <2>2, UINumbers DEF Sorted, PostsSorted, Shrunk
    <3> QED
      BY <2>1, <2>6, <3>1
  <2>9. \A i \in DOMAIN toExt' : toExt'[i] # Post("handled", n)
    <3>1. \A i \in DOMAIN toExt : toExt[i] # Post("handled", n)
      BY <1>1, <2>4 DEF HandledFirst, Post
    <3>2. (IF uiHook THEN Post("remove", lastHooked) ELSE Post("register", n))
            # Post("handled", n)
      BY DEF Post
    <3> QED
      BY <2>1, <3>1, <3>2 DEF Grown
  <2> HIDE DEF n
  <2> QED
    BY <2>1, <2>2, <2>3, <2>6, <2>7, <2>8, <2>9 DEF HeldBack
<1>6. CASE UIGoesOn
  <2>1. awaiting = {toUI[1].n} /\ awaiting' = awaiting \ {toUI[1].n}
    BY <1>1, <1>6, UIPostsChange, GoesOnTelling DEF OneOp, Shrunk
  <2> QED
    BY <2>1 DEF HeldBack
<1>7. CASE awaiting' # {} /\ ~UIHandles /\ ~UIGoesOn
  <2>1. awaiting' = awaiting
    BY <1>7, BeforeRestart DEF KernelSends, HookMessage, MessageHandled, ExtensionHandles,
       HookAnswered, MessageReceived, RegisterHook, RemoveHook, UIReceives, UIAnswers,
       widgetVars, uiVars
  <2>2. /\ stage # "idle" /\ kind[Passed + 1] = "update" /\ Passed + 1 \in handled
        /\ uiChain = <<>> /\ \A i \in DOMAIN toUI : toUI[i].what # "msg"
        /\ \A i \in DOMAIN toExt : toExt[i] # Post("handled", Passed + 1)
    BY <1>1, <1>7, <2>1 DEF HeldBack
  <2>3. ~UIReceives /\ ~HookMessage
    BY <1>1, <2>2, UIPostsChange DEF Shrunk, HookMessage
  <2>4. UNCHANGED <<handled, uiChain>>
    BY <1>7, <2>3, BeforeRestart, UIChainChanges
  <2>5. \A i \in DOMAIN toUI' : toUI'[i].what # "msg"
    <3>1. \/ toUI' = toUI \/ Shrunk(toUI', toUI)
          \/ \E e : Grown(toUI', toUI, e) /\ e.what # "msg"
      BY <1>1, <1>7, <2>3, BeforeRestart, UIPostsChange DEF Post
    <3> QED
      BY <2>2, <3>1 DEF Shrunk, Grown
  <2>6. \A i \in DOMAIN toExt' : toExt'[i] # Post("handled", Passed + 1)
    <3>1. \/ toExt' = toExt \/ Shrunk(toExt', toExt)
          \/ \E n : Grown(toExt', toExt, Post("result", n))
      BY <1>7, <2>3, BeforeRestart, ExtPostsChange
    <3>2. \A n : Post("result", n) # Post("handled", Passed + 1)
      BY DEF Post
    <3> QED
      BY <2>2, <3>1, <3>2 DEF Shrunk, Grown
  <2>7. Passed' = Passed /\ stage' # "idle" /\ kind'[Passed + 1] = kind[Passed + 1]
    <3>1. CASE KernelSends
      <4>1. stage' = stage /\ Passed + 1 \in 1..count
        BY <1>2, <2>2, <3>1 DEF KernelSends
      <4> QED
        BY <2>2, <3>1, <4>1, SendingMoves
    <3>2. CASE MessageHandled
      <4>1. toExt[1].n # Passed + 1 /\ Head(toExt) = toExt[1]
        <5>1. 1 \in DOMAIN toExt /\ toExt[1].what = "handled" /\ Head(toExt) = toExt[1]
          BY <3>2, ExtPostsChange DEF Shrunk
        <5>2. toExt[1] = Post(toExt[1].what, toExt[1].n)
          <6>1. toExt[1] \in ExtPosts
            BY <3>2, <5>1, ExtensionGets DEF MessageHandled
          <6> QED
            BY <6>1 DEF ExtPosts, Post
        <5> QED
          BY <2>2, <5>1, <5>2
      <4> QED
        BY <1>1, <2>2, <3>2, <4>1, MessageHandledMoves DEF MessageHandled, sourceVars
    <3>3. CASE ExtensionHandles \/ HookAnswered
      BY <1>1, <2>2, <3>3, ExtensionHandlesMoves, HookAnsweredMoves
      DEF ExtensionHandles, HookAnswered, sourceVars, socketVars
    <3>4. CASE \/ MessageReceived \/ RegisterHook \/ RemoveHook \/ UIAnswers
               \/ UNCHANGED widgetVars
      BY <2>2, <3>4, OthersMoveNothing
      DEF MessageReceived, RegisterHook, RemoveHook, UIAnswers, widgetVars, socketVars
    <3> QED
      BY <1>7, <2>3, <3>1, <3>2, <3>3, <3>4, BeforeRestart
  <2> QED
    BY <1>3, <2>1, <2>4, <2>5, <2>6, <2>7
<1> QED
  BY <1>4, <1>5, <1>6, <1>7

(* The messages keep the order and the places they have, unless the kernel  *)
(* is restarted.                                                            *)
LEMMA StructureKept ==
  ASSUME WidgetTypes, restarts = 0 => Structure, [WidgetNext]_widgetVars
  PROVE  restarts' = 0 => Structure'
<1>1. restarts' = 0 => restarts = 0
  <2>1. restarts \in Nat
    BY DEF WidgetTypes, SocketTyped
  <2>2. restarts' \in {restarts, restarts + 1}
    BY DEF WidgetNext, WidgetStep, widgetVars, HookMessage, MessageReceived,
       MessageHandled, RegisterHook, RemoveHook, ExtensionHandles, HookAnswered, UIReceives,
       UIAnswers, UIHandles, UIGoesOn, UIRestarts, KernelSends, RestartKernel
  <2> QED
    BY <2>1, <2>2
<1> QED
  BY <1>1, InOrderKept, NoRestartKept, SortedKept, CompleteKept, OpenWhenUpdatedKept,
     HandledFirstKept, OneOpKept, HeldBackKept DEF Structure

-----------------------------------------------------------------------------
(* The two hooks.                                                           *)

(* The steps that neither call the hook nor have to do with it leave the    *)
(* operations asked of the extension as they are.                           *)
LEMMA OperationsStay ==
  ASSUME WidgetTypes, Structure,
         \/ KernelSends \/ HookMessage \/ MessageHandled \/ ExtensionHandles \/ HookAnswered
         \/ MessageReceived \/ UIReceives \/ UIAnswers \/ UIGoesOn \/ UNCHANGED widgetVars
  PROVE  /\ UNCHANGED <<uiHook, lastHooked, hooked, handled>>
         /\ \A i \in DOMAIN toExt : IsOp(toExt[i]) =>
              \E j \in DOMAIN toExt' : toExt'[j] = toExt[i]
         /\ \A i \in DOMAIN toExt' : IsOp(toExt'[i]) =>
              \E j \in DOMAIN toExt : toExt[j] = toExt'[i]
<1>1. /\ \A n : ~IsOp(Post("received", n)) /\ ~IsOp(Post("result", n))
      /\ \A n : ~IsOp(Post("handled", n))
  BY DEF Post, IsOp
<1>2. UNCHANGED <<uiHook, lastHooked, hooked, handled>>
  BY DEF KernelSends, HookMessage, MessageHandled, ExtensionHandles, HookAnswered,
     MessageReceived, UIReceives, UIAnswers, UIGoesOn, widgetVars, uiVars
<1>3. CASE UIGoesOn
  BY <1>1, <1>2, <1>3, GoesOnTelling
<1>4. CASE toExt' = toExt
  BY <1>2, <1>4
<1>5. CASE \E e : ~IsOp(e) /\ Grown(toExt', toExt, e)
  BY <1>2, <1>5 DEF Grown
<1>6. CASE Shrunk(toExt', toExt) /\ ~IsOp(toExt[1])
  <2>1. \A i \in DOMAIN toExt : IsOp(toExt[i]) => \E j \in DOMAIN toExt' : toExt'[j] = toExt[i]
    BY <1>6 DEF Shrunk
  <2>2. \A i \in DOMAIN toExt' : \E j \in DOMAIN toExt : toExt[j] = toExt'[i]
    BY <1>6 DEF Shrunk
  <2> QED
    BY <1>2, <2>1, <2>2
<1>7. KernelSends \/ HookMessage \/ ExtensionHandles \/ UNCHANGED widgetVars => toExt' = toExt
  BY ExtPostsChange
<1>8. UIReceives \/ UIAnswers => \E e : ~IsOp(e) /\ Grown(toExt', toExt, e)
  BY <1>1, ExtPostsChange
<1>9. MessageHandled \/ HookAnswered \/ MessageReceived =>
        Shrunk(toExt', toExt) /\ ~IsOp(toExt[1])
  BY ExtPostsChange DEF IsOp
<1> QED
  BY <1>3, <1>4, <1>5, <1>6, <1>7, <1>8, <1>9

(* Where the hook is said to be depends on the operations only.             *)
LEMMA PhaseFollows ==
  ASSUME uiHook' = uiHook,
         \A i \in DOMAIN toExt : IsOp(toExt[i]) =>
           \E j \in DOMAIN toExt' : toExt'[j] = toExt[i],
         \A i \in DOMAIN toExt' : IsOp(toExt'[i]) =>
           \E j \in DOMAIN toExt : toExt[j] = toExt'[i],
         lastHooked' = lastHooked,
         \A l : Ready(l) => Ready(l)',
         ToGo => ToGo',
         Phase
  PROVE  Phase'
<1>1. Setting' <=> Setting
  BY DEF Setting, IsOp
<1>2. Removing' <=> Removing
  BY DEF Removing, IsOp
<1>3. (\A i \in DOMAIN toExt : toExt[i].what = "remove" => Ready(toExt[i].n))'
  <2> SUFFICES ASSUME NEW i \in DOMAIN toExt', toExt'[i].what = "remove"
               PROVE  Ready(toExt[i].n)'
    OBVIOUS
  <2>1. PICK j \in DOMAIN toExt : toExt[j] = toExt'[i]
    BY DEF IsOp
  <2>2. PICK l : l = toExt[j].n
    OBVIOUS
  <2>3. Ready(l)'
    BY <2>1, <2>2 DEF Phase
  <2> QED
    BY <2>1, <2>2, <2>3 DEF Ready
<1> QED
  BY <1>1, <1>2, <1>3 DEF Phase

(* The hook's numbers are those of messages.                                *)
LEMMA HookNumbers ==
  ASSUME WidgetTypes, InOrder
  PROVE  /\ count \in Nat /\ Low \in Nat /\ None \notin Nat
         /\ hooked \subseteq 1..count /\ removals \subseteq 1..count /\ removals \subseteq Int
         /\ Missing \subseteq hooked /\ Missing \subseteq Int /\ hooked \subseteq handled
BY WidgetAssumption
   DEF WidgetTypes, SocketTyped, UITyped, ExtTyped, WidgetAssumption, InOrder, Missing

(* Steps that have nothing to do with the hook.                             *)
LEMMA HooksUntouched ==
  ASSUME WidgetTypes, Structure, Hooks,
         \/ KernelSends \/ HookMessage \/ MessageHandled \/ MessageReceived \/ UIReceives
         \/ UIAnswers \/ UIGoesOn \/ UNCHANGED widgetVars
  PROVE  Hooks'
<1>1. InOrder /\ Calls /\ Phase
  BY DEF Structure, Hooks
<1>2. UNCHANGED <<asking, extHook, removals, asked>>
  BY DEF KernelSends, HookMessage, MessageHandled, MessageReceived, UIReceives, UIAnswers,
     UIGoesOn, widgetVars, extVars
<1>3. Low' = Low /\ \A x \in 1..count : kind'[x] = kind[x]
  <2>1. KernelSends => Low' = Low /\ \A x \in 1..count : kind'[x] = kind[x]
    BY SendingMoves
  <2>2. HookMessage => Low' = Low /\ kind' = kind
    BY <1>1, HookMessageMoves DEF HookMessage, sourceVars
  <2>3. MessageHandled => Low' = Low /\ kind' = kind
    BY <1>1, MessageHandledMoves DEF MessageHandled, sourceVars
  <2> QED
    BY <2>1, <2>2, <2>3, OthersMoveNothing
<1>4. /\ UNCHANGED <<uiHook, lastHooked, hooked, handled>>
      /\ \A i \in DOMAIN toExt : IsOp(toExt[i]) =>
           \E j \in DOMAIN toExt' : toExt'[j] = toExt[i]
      /\ \A i \in DOMAIN toExt' : IsOp(toExt'[i]) =>
           \E j \in DOMAIN toExt : toExt[j] = toExt'[i]
  BY OperationsStay
<1>5. Missing' = Missing
  BY <1>2, <1>4 DEF Missing
<1>6. /\ \A l : Ready(l) => Ready(l)'
      /\ ToGo => ToGo'
  BY <1>2, <1>3, <1>5 DEF Ready, ToGo
<1>7. Phase'
  BY <1>1, <1>4, <1>6, PhaseFollows
<1>8. Calls'
  <2>1. \A x \in hooked' : kind'[x] = "output"
    BY <1>1, <1>3, <1>4, HookNumbers DEF Calls
  <2>2. \A m \in 1..Low : m \in 1..count
    BY Numbers
  <2> QED
    BY <1>1, <1>2, <1>3, <1>4, <1>5, <2>1, <2>2 DEF Calls
<1> QED
  BY <1>7, <1>8 DEF Hooks

(* An answer for the first message lets the extension's kernel go on: it    *)
(* has called the hook for it.                                              *)
LEMMA HooksAnswered ==
  ASSUME WidgetTypes, Structure, Hooks, HookAnswered
  PROVE  Hooks'
<1>1. InOrder /\ Calls /\ Phase
  BY DEF Structure, Hooks
<1>2. UNCHANGED <<extHook, removals, asked, kind>>
  BY DEF HookAnswered, sourceVars
<1>3. /\ UNCHANGED <<uiHook, lastHooked, hooked, handled>>
      /\ \A i \in DOMAIN toExt : IsOp(toExt[i]) =>
           \E j \in DOMAIN toExt' : toExt'[j] = toExt[i]
      /\ \A i \in DOMAIN toExt' : IsOp(toExt'[i]) =>
           \E j \in DOMAIN toExt : toExt[j] = toExt'[i]
  BY OperationsStay
<1>4. Missing' = Missing
  BY <1>2, <1>3 DEF Missing
<1>5. \/ Low' = Low /\ (asking' => asking)
      \/ Low' = Low + 1 /\ asking /\ ~asking' /\ Low + 1 \in asked
  <2>1. asking' => asking
    BY DEF HookAnswered, WidgetTypes, ExtTyped
  <2>2. (Low' = Low /\ extChain' = extChain) \/ (Low' = Low + 1 /\ asking)
    BY <1>1, HookAnsweredMoves
  <2>3. asking /\ asking' => extChain' = extChain
    BY DEF HookAnswered
  <2>4. extChain' = extChain => Low' = Low
    BY DEF HookAnswered, sourceVars, socketVars, Low, Passed
  <2> QED
    BY <1>1, <2>1, <2>2, <2>3, <2>4, HookNumbers DEF Calls
<1>6. /\ Low' \in Nat /\ Low <= Low' /\ \A x \in Missing : x > Low'
      /\ \A m \in 1..Low' : m \in 1..Low \/ m \in asked
  BY <1>1, <1>5, HookNumbers DEF Calls, Missing
<1>7. \A l : Ready(l) => Ready(l)'
  BY <1>1, <1>2, <1>4, <1>6, HookNumbers DEF Ready
<1>8. ToGo => ToGo'
  BY <1>1, <1>2, <1>4, <1>6, HookNumbers DEF ToGo
<1>9. Phase'
  BY <1>1, <1>3, <1>7, <1>8, PhaseFollows
<1>10. asking' => Low' + 1 \in asked'
  BY <1>1, <1>2, <1>5 DEF Calls
<1>11. uiHook' => \A m \in 1..Low' : kind'[m] = "output" => m \in handled' \cup asked'
  BY <1>1, <1>2, <1>3, <1>6 DEF Calls
<1>12. Calls'
  BY <1>1, <1>2, <1>3, <1>4, <1>6, <1>10, <1>11 DEF Calls
<1> QED
  BY <1>9, <1>12 DEF Hooks

(* While the extension is to set the hook, the webview has handled every    *)
(* message that has been passed on.                                         *)
LEMMA SettingWaits ==
  ASSUME WidgetTypes, Structure, Setting
  PROVE  \A m \in 1..Passed : m \in handled
<1>1. InOrder /\ OneOp /\ HeldBack /\ Complete
  BY DEF Structure
<1>2. awaiting # {}
  BY <1>1 DEF Setting, OneOp, IsOp
<1>3. uiChain = <<>> /\ \A i \in DOMAIN toUI : toUI[i].what # "msg"
  BY <1>1, <1>2 DEF HeldBack
<1>4. \A m : Post("msg", m).what = "msg"
  BY DEF Post
<1>5. \A m \in 1..Passed : m \in 1..Posted
  BY Numbers
<1>6. ~\E i \in DOMAIN uiChain : TRUE
  BY <1>3, EmptySeq
<1> QED
  BY <1>1, <1>3, <1>4, <1>5, <1>6 DEF Complete

(* The extension's kernel asks the webview about the messages it has called *)
(* the hook for, until the hook goes.                                       *)
LEMMA HooksAsked ==
  ASSUME WidgetTypes, Structure, Hooks, ExtensionHandles
  PROVE  Hooks'
<1> DEFINE n == Low + 1
<1>1. InOrder /\ Calls /\ Phase
  BY DEF Structure, Hooks
<1>2. UNCHANGED kind /\ asking = FALSE
  BY DEF ExtensionHandles, sourceVars, WidgetTypes, ExtTyped
<1>3. /\ UNCHANGED <<uiHook, lastHooked, hooked, handled>>
      /\ \A i \in DOMAIN toExt : IsOp(toExt[i]) =>
           \E j \in DOMAIN toExt' : toExt'[j] = toExt[i]
      /\ \A i \in DOMAIN toExt' : IsOp(toExt'[i]) =>
           \E j \in DOMAIN toExt : toExt[j] = toExt'[i]
  BY OperationsStay
<1>4. /\ Head(extChain) = n /\ n <= Passed /\ n \in 1..count
      /\ \/ Low' = Low /\ kind[n] = "output" /\ extHook
         \/ Low' = n /\ ~(kind[n] = "output" /\ extHook)
  BY <1>1, ExtensionHandlesMoves
<1>5. CASE kind[n] = "output" /\ extHook
  <2>1. /\ Low' = Low /\ asking' = TRUE /\ asked' = asked \cup {n}
        /\ extHook' = (n \notin removals) /\ removals' = removals \ {n}
    BY <1>4, <1>5, HookNumbers, <1>1 DEF ExtensionHandles
  <2>2. Missing' = Missing \ {n}
    BY <1>3, <2>1 DEF Missing
  <2>3. \A l : Ready(l) => Ready(l)'
    <3>1. ASSUME \A r \in removals : r <= Low PROVE n \notin removals
      BY <1>1, <3>1, HookNumbers
    <3> QED
      BY <2>1, <2>2, <3>1 DEF Ready
  <2>4. ToGo => ToGo'
    <3> SUFFICES ASSUME ToGo PROVE ToGo'
      OBVIOUS
    <3>1. CASE n \in removals
      <4>1. \A x \in Missing : x <= n /\ x > Low
        BY <1>1, <3>1, HookNumbers DEF ToGo, Calls
      <4>2. Missing' = {}
        BY <1>1, <2>2, <4>1, HookNumbers
      <4> QED
        BY <4>2 DEF ToGo
    <3>2. CASE n \notin removals
      BY <2>1, <2>2, <3>2 DEF ToGo
    <3> QED
      BY <3>1, <3>2
  <2>5. Phase'
    BY <1>1, <1>3, <2>3, <2>4, PhaseFollows
  <2>6. Calls'
    BY <1>1, <1>2, <1>3, <2>1, <2>2 DEF Calls
  <2> QED
    BY <2>5, <2>6 DEF Hooks
<1>6. CASE ~(kind[n] = "output" /\ extHook)
  <2>1. Low' = n /\ UNCHANGED <<asking, asked, extHook, removals>>
    BY <1>4, <1>6, HookNumbers, <1>1 DEF ExtensionHandles
  <2>2. Missing' = Missing
    BY <1>3, <2>1 DEF Missing
  <2>3. n \notin Missing
    <3> SUFFICES ASSUME n \in Missing PROVE FALSE
      OBVIOUS
    <3>1. kind[n] = "output" /\ ~extHook
      BY <1>1, <1>6 DEF Calls, Missing
    <3>2. \A l : ~Ready(l)
      BY <3>1 DEF Ready
    <3>3. ~ToGo
      BY <3>1 DEF ToGo
    <3>4. ~Removing
      BY <1>1, <3>2 DEF Phase, Removing
    <3> QED
      BY <1>1, <3>2, <3>3, <3>4 DEF Phase
  <2>4. Low' \in Nat /\ Low <= Low' /\ \A x \in Missing : x > Low'
    BY <1>1, <2>1, <2>3, HookNumbers DEF Calls
  <2>5. \A l : Ready(l) => Ready(l)'
    BY <1>1, <2>1, <2>2, <2>4, HookNumbers DEF Ready
  <2>6. ToGo => ToGo'
    BY <1>1, <2>1, <2>2, <2>4, HookNumbers DEF ToGo
  <2>7. Phase'
    BY <1>1, <1>3, <2>5, <2>6, PhaseFollows
  <2>8. uiHook /\ kind[n] = "output" => n \in handled
    <3> SUFFICES ASSUME uiHook, kind[n] = "output" PROVE n \in handled
      OBVIOUS
    <3>1. Setting
      BY <1>1, <1>6 DEF Phase, Ready
    <3> QED
      BY <1>4, <3>1, Numbers, SettingWaits
  <2>9. uiHook' => \A m \in 1..Low' : kind'[m] = "output" => m \in handled' \cup asked'
    <3>1. \A m \in 1..Low' : m \in 1..Low \/ m = n
      BY <1>1, <2>1, HookNumbers
    <3> QED
      BY <1>1, <1>2, <1>3, <2>1, <2>8, <3>1 DEF Calls
  <2>10. Calls'
    BY <1>1, <1>2, <1>3, <2>1, <2>2, <2>4, <2>9 DEF Calls
  <2> QED
    BY <2>7, <2>10 DEF Hooks
<1> QED
  BY <1>5, <1>6

(* Messages the extension's kernel has not handled yet are those to come.   *)
LEMMA ToCome ==
  ASSUME WidgetTypes, InOrder, NEW x \in 1..count, x > Low
  PROVE  x \in ToSet(Coming)
<1>1. /\ chain \in Seq(1..count) /\ extChain \in Seq(1..count) /\ count \in Nat /\ Low \in Nat
      /\ Low = count - Len(chain) - Len(extChain) /\ Passed = count - Len(chain)
  BY Numbers DEF WidgetTypes, SocketTyped, ExtTyped, Low, Passed, InOrder
<1>2. /\ Len(chain) \in Nat /\ Len(extChain) \in Nat /\ Len(Coming) = Len(chain) + Len(extChain)
      /\ DOMAIN Coming = 1..Len(Coming) /\ DOMAIN chain = 1..Len(chain)
      /\ DOMAIN extChain = 1..Len(extChain)
      /\ \A i \in 1..Len(chain) : Coming[i] = chain[i]
      /\ \A i \in 1..Len(extChain) : Coming[Len(chain) + i] = extChain[i]
  BY <1>1 DEF Coming
<1>3. \E i \in DOMAIN Coming : Coming[i] = x
  <2>1. CASE x > Passed
    <3>1. PICK i \in DOMAIN chain : i = x - Passed
      BY <1>1, <1>2, <2>1
    <3>2. chain[i] = Passed + i /\ Passed + i = x
      BY <1>1, <3>1 DEF InOrder
    <3>3. Coming[i] = x /\ i \in DOMAIN Coming
      BY <1>2, <3>1, <3>2
    <3> QED
      BY <3>3
  <2>2. CASE x <= Passed
    <3>1. PICK i \in DOMAIN extChain : i = x - Low
      BY <1>1, <1>2, <2>2
    <3>2. extChain[i] = Low + i /\ Low + i = x
      BY <1>1, <3>1 DEF InOrder
    <3>3. Coming[Len(chain) + i] = x /\ Len(chain) + i \in DOMAIN Coming
      BY <1>2, <3>1, <3>2
    <3> QED
      BY <3>3
  <2> QED
    BY <1>1, <2>1, <2>2
<1> QED
  BY <1>3 DEF ToSet

(* When the extension has set or removed the hook, it is asked for nothing  *)
(* more for now.                                                            *)
LEMMA OperationDone ==
  ASSUME WidgetTypes, Structure, RegisterHook \/ RemoveHook
  PROVE  /\ IsOp(toExt[1]) /\ Head(toExt) = toExt[1] /\ 1 \in DOMAIN toExt
         /\ \A i \in DOMAIN toExt' : ~IsOp(toExt'[i])
         /\ RegisterHook => toExt[1].what = "register" /\ uiHook
         /\ RemoveHook => toExt[1].what = "remove" /\ ~uiHook
         /\ UNCHANGED <<uiHook, lastHooked, hooked, handled, asking, asked, kind, Low>>
<1>1. InOrder /\ OneOp
  BY DEF Structure
<1>2. Shrunk(toExt', toExt) /\ IsOp(toExt[1])
      /\ (RegisterHook => toExt[1].what = "register")
      /\ (RemoveHook => toExt[1].what = "remove")
  BY ExtPostsChange DEF IsOp
<1>3. \A i \in DOMAIN toExt' : ~IsOp(toExt'[i])
  BY <1>1, <1>2 DEF OneOp, Shrunk
<1>4. Head(toExt) = toExt[1] /\ 1 \in DOMAIN toExt
  BY <1>2, TakenFirst DEF RegisterHook, RemoveHook, Gets, WidgetTypes, PostsTyped
<1>5. UNCHANGED <<uiHook, lastHooked, hooked, handled, asking, asked, kind, Low>>
  BY OthersMoveNothing DEF RegisterHook, RemoveHook, uiVars
<1>6. /\ toExt[1].what = "register" => uiHook
      /\ toExt[1].what = "remove" => ~uiHook
  BY <1>1, <1>4 DEF OneOp
<1> QED
  BY <1>2, <1>3, <1>4, <1>5, <1>6

(* The extension sets the hook, and asks about every message from then on.  *)
LEMMA HooksSet ==
  ASSUME WidgetTypes, Structure, Hooks, RegisterHook, ~again'
  PROVE  Hooks'
<1>1. InOrder /\ Calls /\ Phase
  BY DEF Structure, Hooks
<1>2. /\ toExt[1].what = "register" /\ uiHook /\ 1 \in DOMAIN toExt
      /\ \A i \in DOMAIN toExt' : ~IsOp(toExt'[i])
      /\ UNCHANGED <<uiHook, lastHooked, hooked, handled, asking, asked, kind, Low>>
  BY OperationDone
<1>3. extHook' = TRUE /\ UNCHANGED removals /\ removals \cap ToSet(Coming) = {}
  BY DEF RegisterHook
<1>4. \A l \in removals : l <= Low
  <2> SUFFICES ASSUME NEW l \in removals, l > Low PROVE FALSE
    BY <1>1, HookNumbers
  <2>1. l \in 1..count
    BY <1>1, HookNumbers
  <2> QED
    BY <1>1, <1>3, <2>1, ToCome
<1>5. ToGo
  BY <1>1, <1>2 DEF Phase, Setting
<1>6. Missing = {}
  <2> SUFFICES ASSUME NEW x \in Missing PROVE FALSE
    OBVIOUS
  <2>1. PICK l \in removals : x <= l
    BY <1>5 DEF ToGo
  <2> QED
    BY <1>1, <1>4, <2>1, HookNumbers DEF Calls
<1>7. Missing' = {}
  BY <1>2, <1>6 DEF Missing
<1>8. Ready(lastHooked)'
  BY <1>2, <1>3, <1>4, <1>7 DEF Ready
<1>9. Calls'
  BY <1>1, <1>2, <1>7 DEF Calls
<1>10. Phase'
  BY <1>2, <1>8 DEF Phase, Setting, IsOp
<1> QED
  BY <1>9, <1>10 DEF Hooks

(* The extension removes the hook, at once or after the message that the    *)
(* webview has called it for last.                                          *)
LEMMA HooksRemoved ==
  ASSUME WidgetTypes, Structure, Hooks, RemoveHook
  PROVE  Hooks'
<1>1. InOrder /\ Calls /\ Phase
  BY DEF Structure, Hooks
<1>2. /\ toExt[1].what = "remove" /\ ~uiHook /\ Head(toExt) = toExt[1] /\ 1 \in DOMAIN toExt
      /\ \A i \in DOMAIN toExt' : ~IsOp(toExt'[i])
      /\ UNCHANGED <<uiHook, lastHooked, hooked, handled, asking, asked, kind, Low>>
  BY OperationDone
<1>3. PICK n : n = toExt[1].n
  OBVIOUS
<1>4. Ready(n)
  BY <1>1, <1>2, <1>3 DEF Phase
<1>5. Missing' = Missing
  BY <1>2 DEF Missing
<1>6. CASE n = None
  <2>1. Missing = {}
    BY <1>4, <1>6 DEF Ready
  <2> QED
    BY <1>1, <1>2, <1>5, <2>1 DEF Hooks, Calls, Phase, Setting, IsOp, ToGo
<1>7. CASE n # None
  <2>1. removals' = removals \cup {n} /\ extHook' = extHook
    BY <1>2, <1>3, <1>7 DEF RemoveHook
  <2>2. ToGo'
    <3>1. extHook' /\ n \in removals' /\ \A x \in Missing' : x <= n
      BY <1>4, <1>5, <2>1 DEF Ready
    <3>2. \A l \in removals', x \in Missing' : l > Low' => x <= l
      <4>1. \A l \in removals' : l = n \/ ~(l > Low')
        BY <1>1, <1>2, <1>4, <2>1, HookNumbers DEF Ready
      <4> QED
        BY <3>1, <4>1
    <3> QED
      BY <3>1, <3>2 DEF ToGo
  <2>3. Calls'
    BY <1>1, <1>2, <1>5 DEF Calls
  <2>4. Phase'
    BY <1>2, <2>2 DEF Phase, IsOp
  <2> QED
    BY <2>3, <2>4 DEF Hooks
<1> QED
  BY <1>6, <1>7

(* The webview calls the hook for an output, or sets or removes it.         *)
LEMMA HooksCalled ==
  ASSUME WidgetTypes, Structure, Hooks, UIHandles
  PROVE  Hooks'
<1> DEFINE n == uiChain[1]
<1>1. InOrder /\ Calls /\ Phase /\ HeldBack /\ OneOp /\ Sorted /\ Complete /\ HandledFirst
  BY DEF Structure, Hooks
<1>2. /\ UNCHANGED <<asking, asked, extHook, removals, kind, Low>>
      /\ Head(uiChain) = n /\ handled' = handled \cup {n}
      /\ 1 \in DOMAIN uiChain /\ \A i \in DOMAIN uiChain : i \in Nat \ {0}
  BY OthersMoveNothing, UIChainChanges DEF UIHandles, extVars, Shrunk
<1>3. /\ awaiting = {} /\ n \in 1..count
      /\ \/ \E e : /\ Grown(toExt', toExt, e) /\ ~IsOp(e)
                   /\ uiHook' = uiHook /\ awaiting' = {}
         \/ /\ kind[n] = "update" /\ uiHook' = ~uiHook
            /\ Grown(toExt', toExt, IF uiHook THEN Post("remove", lastHooked)
                                    ELSE Post("register", n))
  <2>1. ~IsOp(Post("handled", n))
    BY DEF IsOp, Post
  <2> QED
    BY <1>1, <2>1, HandlesAlone
<1>4. n \notin handled /\ \A m \in handled : m < n
  BY <1>1, <1>2, <1>3 DEF Sorted, ChainSorted
<1>5. \A i \in DOMAIN toExt : ~IsOp(toExt[i])
  BY <1>1, <1>3 DEF OneOp
<1>6. ~Setting /\ ~Removing
  BY <1>5 DEF Setting, Removing, IsOp
<1>7. uiHook \in BOOLEAN /\ uiHook' \in BOOLEAN
  BY <1>3 DEF WidgetTypes, UITyped
<1>8. CASE kind[n] = "output" /\ uiHook
  <2>1. uiHook' = uiHook /\ lastHooked' = n /\ hooked' = hooked \cup {n}
    BY <1>2, <1>3, <1>8 DEF UIHandles
  <2>2. \A i \in DOMAIN toExt' : ~IsOp(toExt'[i])
    BY <1>3, <1>5, <1>8 DEF Grown
  <2>3. n \notin asked => n > Low
    BY <1>1, <1>3, <1>4, <1>8, HookNumbers DEF Calls
  <2>4. \A x \in Missing' : x \in Missing \/ (x = n /\ n \notin asked)
    BY <1>2, <2>1 DEF Missing
  <2>5. Ready(lastHooked)
    BY <1>1, <1>6, <1>8 DEF Phase
  <2>6. n # None /\ \A x \in Missing' : x <= n
    BY <1>1, <1>3, <1>4, <2>4, HookNumbers
  <2>7. Ready(lastHooked)'
    BY <1>2, <2>1, <2>5, <2>6 DEF Ready
  <2>8. Phase'
    BY <1>8, <2>1, <2>2, <2>7 DEF Phase, Setting, IsOp
  <2>9. Calls'
    BY <1>1, <1>2, <1>8, <2>1, <2>3, <2>4 DEF Calls
  <2> QED
    BY <2>8, <2>9 DEF Hooks
<1>9. CASE ~(kind[n] = "output" /\ uiHook) /\ uiHook' = uiHook
  <2>1. UNCHANGED <<hooked, lastHooked>>
    BY <1>2, <1>7, <1>9 DEF UIHandles
  <2>2. \A i \in DOMAIN toExt' : ~IsOp(toExt'[i])
    BY <1>3, <1>5, <1>7, <1>9 DEF Grown
  <2>3. Missing' = Missing
    BY <1>2, <2>1 DEF Missing
  <2>4. (Ready(lastHooked) => Ready(lastHooked)') /\ (ToGo => ToGo')
    BY <1>2, <2>1, <2>3 DEF Ready, ToGo
  <2>5. ~Setting' /\ ~Removing'
    BY <2>2 DEF Setting, Removing, IsOp
  <2>6. Phase'
    BY <1>1, <1>6, <1>9, <2>4, <2>5 DEF Phase, Removing
  <2>7. Calls'
    BY <1>1, <1>2, <1>9, <2>1, <2>3 DEF Calls
  <2> QED
    BY <2>6, <2>7 DEF Hooks
<1>10. CASE kind[n] = "update" /\ uiHook /\ ~uiHook'
  <2>1. hooked' = hooked /\ Grown(toExt', toExt, Post("remove", lastHooked))
    BY <1>2, <1>3, <1>10 DEF UIHandles
  <2>2. Post("remove", lastHooked).what = "remove" /\ Post("remove", lastHooked).n = lastHooked
    BY DEF Post
  <2>3. PICK l : l = lastHooked
    OBVIOUS
  <2>4. Missing' = Missing
    BY <1>2, <2>1 DEF Missing
  <2>5. Ready(l)'
    BY <1>1, <1>2, <1>6, <1>10, <2>3, <2>4 DEF Phase, Ready
  <2>6. Len(toExt) + 1 \in DOMAIN toExt' /\ toExt'[Len(toExt) + 1].what = "remove"
    BY <2>1, <2>2 DEF Grown
  <2>7. Removing'
    BY <2>6 DEF Removing
  <2>8. (\A i \in DOMAIN toExt : toExt[i].what = "remove" => Ready(toExt[i].n))'
    <3> SUFFICES ASSUME NEW i \in DOMAIN toExt', toExt'[i].what = "remove"
                 PROVE  Ready(toExt[i].n)'
      OBVIOUS
    <3>1. toExt'[i].n = l
      BY <1>5, <2>1, <2>2, <2>3 DEF Grown, IsOp
    <3> QED
      BY <2>5, <3>1 DEF Ready
  <2>9. Phase'
    BY <1>10, <2>7, <2>8 DEF Phase
  <2>10. Calls'
    BY <1>1, <1>2, <1>10, <2>1, <2>4 DEF Calls
  <2> QED
    BY <2>9, <2>10 DEF Hooks
<1>11. CASE kind[n] = "update" /\ ~uiHook /\ uiHook'
  <2>1. UNCHANGED hooked /\ Grown(toExt', toExt, Post("register", n))
    BY <1>2, <1>3, <1>7, <1>11 DEF UIHandles
  <2>2. Post("register", n).what = "register"
    BY DEF Post
  <2>3. Missing' = Missing
    BY <1>2, <2>1 DEF Missing
  <2>4. ToGo'
    BY <1>1, <1>2, <1>6, <1>11, <2>3 DEF Phase, ToGo
  <2>5. Len(toExt) + 1 \in DOMAIN toExt' /\ toExt'[Len(toExt) + 1].what = "register"
    BY <2>1, <2>2 DEF Grown
  <2>6. Setting'
    BY <2>5 DEF Setting
  <2>7. \A i \in DOMAIN toExt' : toExt'[i].what # "remove"
    BY <1>5, <2>1, <2>2 DEF Grown, IsOp
  <2>8. Phase'
    BY <1>11, <2>4, <2>6, <2>7 DEF Phase
  <2>9. \A m \in 1..Low : m \in handled
    <3> SUFFICES ASSUME NEW m \in 1..Low, m \notin handled PROVE FALSE
      OBVIOUS
    <3>1. Passed \in Int /\ Posted \in Int /\ Low <= Passed /\ Passed <= Posted
          /\ count \in Nat /\ Low \in Nat
      BY <1>1, Numbers DEF InOrder
    <3>2. n > Passed
      BY <1>1, <1>3, <1>4, <1>11, <3>1 DEF HandledFirst
    <3>3. m \in 1..Posted /\ m < n /\ m \in Int
      <4>1. n \in Int
        BY <1>3, <3>1
      <4>2. m \in Int /\ 1 <= m /\ m <= Low
        BY <3>1
      <4> QED
        BY <3>1, <3>2, <4>1, <4>2
    <3>4. \A i \in DOMAIN uiChain : n <= uiChain[i]
      <4>1. \A i \in DOMAIN uiChain : uiChain[i] \in Int /\ (i = 1 \/ 1 < i)
        BY <1>2, UINumbers
      <4> QED
        BY <1>1, <1>2, <4>1 DEF Sorted, ChainSorted
    <3>5. \A i \in DOMAIN toUI : toUI[i].what = "msg" => n < toUI[i].n
      BY <1>1, <1>2 DEF Sorted, PostsSorted
    <3>6. Post("msg", m).what = "msg" /\ Post("msg", m).n = m
      BY DEF Post
    <3>7. ~\E i \in DOMAIN toUI : toUI[i] = Post("msg", m)
      BY <1>3, <3>3, <3>5, <3>6
    <3>8. ~\E i \in DOMAIN uiChain : uiChain[i] = m
      BY <1>3, <3>3, <3>4
    <3> QED
      BY <1>1, <3>3, <3>7, <3>8 DEF Complete
  <2>10. Calls'
    BY <1>1, <1>2, <2>1, <2>3, <2>9 DEF Calls
  <2> QED
    BY <2>8, <2>10 DEF Hooks
<1> QED
  BY <1>3, <1>7, <1>8, <1>9, <1>10, <1>11

(* The two hooks keep in step, unless the kernel is restarted or the hook   *)
(* is set again with a removal still to come.                               *)
LEMMA HooksKept ==
  ASSUME WidgetTypes, restarts = 0 => Structure, restarts = 0 /\ ~again => Hooks,
         [WidgetNext]_widgetVars, restarts' = 0, ~again'
  PROVE  Hooks'
<1>1. restarts = 0 /\ Structure
  <2>1. restarts \in Nat
    BY DEF WidgetTypes, SocketTyped
  <2>2. restarts' \in {restarts, restarts + 1}
    BY DEF WidgetNext, WidgetStep, widgetVars, HookMessage, MessageReceived,
       MessageHandled, RegisterHook, RemoveHook, ExtensionHandles, HookAnswered, UIReceives,
       UIAnswers, UIHandles, UIGoesOn, UIRestarts, KernelSends, RestartKernel
  <2> QED
    BY <2>1, <2>2
<1>2. ~again
  <2>1. again' = again \/ again' = (again \/ removals \cap ToSet(Coming) # {})
    BY DEF WidgetNext, WidgetStep, widgetVars, HookMessage, MessageReceived,
       MessageHandled, RegisterHook, RemoveHook, ExtensionHandles, HookAnswered, UIReceives,
       UIAnswers, UIHandles, UIGoesOn, UIRestarts, KernelSends, RestartKernel, extVars
  <2> QED
    BY <2>1
<1>3. Hooks
  BY <1>1, <1>2
<1> QED
  BY <1>1, <1>3, BeforeRestart, HooksUntouched, HooksAnswered, HooksAsked, HooksSet,
     HooksRemoved, HooksCalled

(* The invariant holds at first.                                            *)
LEMMA IInvAtFirst == WidgetInit => IInv
<1> SUFFICES ASSUME WidgetInit PROVE IInv
  OBVIOUS
<1>1. WidgetTypes
  BY TypesAtFirst
<1>2. /\ count = 0 /\ kind = <<>> /\ live = FALSE /\ chain = <<>> /\ stage = "idle"
      /\ widget = FALSE /\ toUI = <<>> /\ toExt = <<>> /\ uiChain = <<>> /\ uiHook = FALSE
      /\ awaiting = {} /\ finishing = <<>> /\ extChain = <<>> /\ asking = FALSE
      /\ removals = {} /\ asked = {} /\ hooked = {} /\ handled = {}
  BY DEF WidgetInit
<1>3. /\ \A i \in DOMAIN toUI : FALSE
      /\ \A i \in DOMAIN toExt : FALSE
      /\ \A i \in DOMAIN uiChain : FALSE
      /\ \A i \in DOMAIN chain : FALSE
      /\ \A i \in DOMAIN extChain : FALSE
      /\ \A i \in DOMAIN finishing : FALSE
  BY <1>2, EmptySeq
<1>4. Passed = 0 /\ Posted = 0 /\ Low = 0
  <2>1. Len(chain) = 0 /\ Len(extChain) = 0
    BY <1>2, EmptySeq
  <2>2. count = 0 /\ stage = "idle"
    BY <1>2
  <2> QED
    BY <2>1, <2>2 DEF Passed, Posted, Low
<1>5. NoRestart /\ InOrder /\ Sorted /\ OneOp /\ HeldBack
  BY <1>2, <1>3, <1>4 DEF NoRestart, InOrder, Sorted, ChainSorted, PostsSorted, OneOp, HeldBack
<1>6. Complete /\ OpenWhenUpdated /\ HandledFirst
  BY <1>2, <1>3, <1>4 DEF Complete, OpenWhenUpdated, HandledFirst
<1>7. Hooks
  BY <1>2, <1>3, <1>4 DEF Hooks, Calls, Phase, Missing, ToGo, Setting, Removing
<1> QED
  BY <1>1, <1>5, <1>6, <1>7 DEF IInv, Structure

(* The invariant is inductive.                                              *)
LEMMA IInvKept == IInv /\ [WidgetNext]_widgetVars => IInv'
BY TypesKept, StructureKept, HooksKept DEF IInv

(* The invariant gives the property: what the extension has not called the  *)
(* hook for is what it has not handled yet.                                 *)
LEMMA IInvMeans == IInv => HookedIsAsked
<1> SUFFICES ASSUME IInv, restarts = 0, ~again, NEW x \in hooked \ asked
             PROVE  x \in ToSet(Coming)
  BY DEF HookedIsAsked
<1>1. WidgetTypes /\ InOrder /\ Calls
  BY DEF IInv, Structure, Hooks
<1>2. x \in 1..count /\ x > Low
  BY <1>1, HookNumbers DEF Calls, Missing
<1> QED
  BY <1>1, <1>2, ToCome

(* A message that the widget's hook intercepts in the webview is one the    *)
(* extension's kernel asks the webview about, whatever the messages and the *)
(* order in which the two kernels handle them: registerMessageHook and      *)
(* removeMessageHook take effect in both between the same messages.         *)
THEOREM HookedAreAsked == WidgetSpec => []HookedIsAsked
<1> QED
  BY IInvAtFirst, IInvKept, IInvMeans, PTL DEF WidgetSpec

=============================================================================
