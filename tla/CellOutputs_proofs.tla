------------------------- MODULE CellOutputs_proofs -------------------------
(***************************************************************************)
(* Proofs about CellOutputs, for every number of cells, display ids,       *)
(* streams and messages, and however late edits are applied.               *)
(*                                                                         *)
(* OutputsTypes types what is shown by the messages that have come; the    *)
(* type invariant follows.  The rest is for notebooks where most of the    *)
(* UnusualSituations do not occur (Calm).  Sound relates the notebook to   *)
(* what handlers and tracker point to: a handler continues the last output *)
(* of its cell, and a display id leads only to outputs that have it.  What *)
(* each message does to the notebook and to the reader is first stated as  *)
(* a shape (TextShape, AddShape, Remade, ...); Sound, the text and, for    *)
(* edits that are applied at once, Exact are then kept by every shape.     *)
(***************************************************************************)
EXTENDS CellOutputs, WellFoundedInduction, TLAPS

(* Outputs that were made, and have the content of messages, up to n.       *)
Outs(n) == [made : -2..n, of : Cells, kind : Streams \cup {"display"},
            items : Seq(1..n), id : DisplayIds \cup {None}]

(* What a notebook may show by then.                                        *)
Docs(n) == [Cells -> Seq(Outs(n))]

(* Pointers to an output of a cell.                                         *)
StreamPointers(n) == [stream : Streams, made : -2..n] \cup {None}
Pointers(n)       == [cell : Cells, made : 1..n] \cup {None}

(* What is shown is of messages that have come.                             *)
DocTypes ==
    /\ lag \in Lags /\ sent \in 0..MaxMessages
    /\ outputs \in Docs(sent) /\ expected \in Docs(sent)
    /\ edits \in Seq([shows : Docs(sent), gives : SUBSET Cells])

(* So is what handlers point to.                                            *)
HandlerTypes ==
    /\ phase \in [Cells -> {"new", "sent", "running", "done"}]
    /\ clearWait \subseteq Cells /\ waiting \subseteq Cells /\ apart \subseteq Cells
    /\ reattached \subseteq Cells
    /\ lastStream \in [Cells -> StreamPointers(sent)]
    /\ \A c \in Cells : lastStream[c] # None => c \in reattached

(* And what the tracker and the reader point to.                            *)
TrackerTypes ==
    /\ displayed \in [DisplayIds -> Pointers(sent)]
    /\ latest \in [DisplayIds -> Pointers(sent)]
    /\ lastId \in [Cells -> DisplayIds \cup {None}]

(* The types of the invariant.                                              *)
OutputsTypes == DocTypes /\ HandlerTypes /\ TrackerTypes

-----------------------------------------------------------------------------
(* Each cell has outputs of its own messages.                               *)
AtHome(doc) == \A c \in Cells : \A i \in DOMAIN doc[c] : doc[c][i].of = c

(* An output with a display id is no text.                                  *)
NoTextWithId(doc) ==
    \A c \in Cells : \A i \in DOMAIN doc[c] :
        doc[c][i].id # None => doc[c][i].kind = "display"

(* What a pointer of a display id leads to has the display id.              *)
LeadToIds(doc, pointers) ==
    \A d \in DisplayIds : pointers[d] # None =>
        \A c \in Cells : \A i \in DOMAIN doc[c] :
            Is(doc[c][i], pointers[d].cell, pointers[d].made) => doc[c][i].id = d

(* A notebook as the tracker, or the reader, knows it.                      *)
DocSound(doc, pointers) ==
    AtHome(doc) /\ NoTextWithId(doc) /\ LeadToIds(doc, pointers)

(* The stream that a handler continues is the last output of its cell.      *)
ContinuesLast(doc, streams) ==
    \A c \in Cells : streams[c] # None =>
        /\ doc[c] # <<>>
        /\ Last(doc[c]).kind = streams[c].stream
        /\ \A i \in DOMAIN doc[c] :
             doc[c][i].made = streams[c].made <=> i = Len(doc[c])

(* Only a cell that is or was executed has a stream to continue.            *)
Begun == \A c \in Cells : lastStream[c] # None => phase[c] \in {"running", "done"}

(* Before a resumed cell writes, only its first output is text.             *)
TextFirst(doc, looked) ==
    \A c \in Resumed \ looked : \A i \in DOMAIN doc[c] :
        IsStream(doc[c][i]) => i = 1

(* What TextAtTheEnd says of a notebook.                                    *)
Ordered(doc) ==
    \A c \in Cells : \A i, j \in DOMAIN doc[c] :
        i < j /\ IsStream(doc[c][i])
        => \A n \in ToSet(doc[c][i].items) : n < doc[c][j].made

(* What holds of the notebook, the reader, the tracker and the handlers.    *)
Sound ==
    /\ clearWait = waiting
    /\ DocSound(Final, displayed) /\ DocSound(expected, latest)
    /\ ContinuesLast(Final, lastStream) /\ Begun
    /\ TextFirst(Final, reattached) /\ Ordered(Final)

(* Cells write for themselves, and show one earlier output at most; and     *)
(* what is read of them has every edit, as it has when edits are applied    *)
(* at once.                                                                 *)
Calm ==
    /\ "late" \notin Unusual /\ "longer" \notin Unusual
    /\ "overtaking" \notin Unusual \/ lag = 1

(* Then all that holds, and the text is kept.                               *)
TextInv == Calm => Sound /\ TextIsKept

-----------------------------------------------------------------------------
(* Outputs with a display id are where the pointers lead.                   *)
IdsLead(doc, pointers) ==
    \A c \in Cells : \A i \in DOMAIN doc[c] : doc[c][i].id # None =>
        /\ pointers[doc[c][i].id] # None
        /\ Is(doc[c][i], pointers[doc[c][i].id].cell, pointers[doc[c][i].id].made)

(* The tracker and the reader know the cell of a display id.                *)
SameCell(shown, ids, made) ==
    /\ \A d \in DisplayIds : shown[d] # None =>
         made[d] # None /\ shown[d].cell = made[d].cell
    /\ \A c \in Cells : ids[c] # None =>
         made[ids[c]] # None /\ made[ids[c]].cell = c

(* A handler continues a stream if the reader does.                         *)
ContinuesAlike(streams, looked, exp, alone) ==
    /\ alone \cap Resumed = {}
    /\ \A c \in Cells : c \notin Resumed \ looked =>
         (streams[c] # None <=>
            exp[c] # <<>> /\ IsStream(Last(exp[c])) /\ c \notin alone)

(* What holds when edits are applied before the next message comes.         *)
Exact ==
    /\ Len(edits) <= 1 /\ Shown(Final) = Shown(expected)
    /\ IdsLead(Final, displayed) /\ IdsLead(expected, latest)
    /\ SameCell(displayed, lastId, latest)
    /\ ContinuesAlike(lastStream, reattached, expected, apart)

(* Of that, when display ids are not shared either.                         *)
ExactInv == Calm /\ "reused" \notin Unusual /\ lag = 1 => Exact

-----------------------------------------------------------------------------
(* None is not what pointers are.                                           *)
LEMMA NoneIsNoPointer ==
  /\ \A s \in Streams, m \in Int : [stream |-> s, made |-> m] # None
  /\ \A c \in Cells, m \in Int : [cell |-> c, made |-> m] # None
BY OutputsAssumption DEF OutputsAssumption

(* A message later, outputs and pointers are still what they were.          *)
LEMMA TypesGrow ==
  ASSUME NEW m \in Nat, NEW n \in Nat, m <= n
  PROVE  /\ Outs(m) \subseteq Outs(n) /\ Docs(m) \subseteq Docs(n)
         /\ StreamPointers(m) \subseteq StreamPointers(n) /\ Pointers(m) \subseteq Pointers(n)
         /\ Seq(Outs(m)) \subseteq Seq(Outs(n))
<1>1. Seq(1..m) \subseteq Seq(1..n)
  OBVIOUS
<1>2. Outs(m) \subseteq Outs(n)
  BY <1>1 DEF Outs
<1>3. Seq(Outs(m)) \subseteq Seq(Outs(n))
  BY <1>2
<1>4. Docs(m) \subseteq Docs(n)
  BY <1>3, Zenon DEF Docs
<1>5. StreamPointers(m) \subseteq StreamPointers(n) /\ Pointers(m) \subseteq Pointers(n)
  BY DEF StreamPointers, Pointers
<1> QED
  BY <1>2, <1>3, <1>4, <1>5

(* What an output is made of.                                               *)
LEMMA OutFields ==
  ASSUME NEW n \in Nat
  PROVE  /\ \A x \in Outs(n) : /\ x.made \in Int /\ x.made <= n /\ x.of \in Cells
                               /\ x.kind \in Streams \cup {"display"}
                               /\ x.items \in Seq(1..n) /\ x.id \in DisplayIds \cup {None}
         /\ \A x \in Outs(n), q \in Seq(1..n) :
              /\ [x EXCEPT !.items = q] \in Outs(n)
              /\ [x EXCEPT !.items = q].items = q
              /\ [x EXCEPT !.items = q].made = x.made /\ [x EXCEPT !.items = q].of = x.of
              /\ [x EXCEPT !.items = q].kind = x.kind /\ [x EXCEPT !.items = q].id = x.id
<1>1. ASSUME NEW x \in Outs(n)
      PROVE  /\ x.made \in Int /\ x.made <= n /\ x.of \in Cells
             /\ x.kind \in Streams \cup {"display"}
             /\ x.items \in Seq(1..n) /\ x.id \in DisplayIds \cup {None}
  <2>1. x.made \in -2..n
    BY DEF Outs
  <2> QED
    BY <2>1 DEF Outs
<1>2. ASSUME NEW x \in Outs(n), NEW q \in Seq(1..n)
      PROVE  /\ [x EXCEPT !.items = q] \in Outs(n)
             /\ [x EXCEPT !.items = q].items = q
             /\ [x EXCEPT !.items = q].made = x.made /\ [x EXCEPT !.items = q].of = x.of
             /\ [x EXCEPT !.items = q].kind = x.kind /\ [x EXCEPT !.items = q].id = x.id
  BY DEF Outs
<1> QED
  BY <1>1, <1>2

(* A new output.                                                            *)
LEMMA NewOutput ==
  ASSUME NEW n \in Nat, n >= 1, NEW c \in Cells, NEW k \in Streams \cup {"display"},
         NEW d \in DisplayIds \cup {None}
  PROVE  /\ Output(n, c, k, d) \in Outs(n)
         /\ Output(n, c, k, d).made = n /\ Output(n, c, k, d).of = c
         /\ Output(n, c, k, d).kind = k /\ Output(n, c, k, d).id = d
         /\ Output(n, c, k, d).items = <<n>>
<1>1. <<n>> \in Seq(1..n)
  OBVIOUS
<1> QED
  BY <1>1 DEF Outs, Output

(* What the edits of VS Code do to a notebook.                              *)
LEMMA Clears ==
  ASSUME NEW n \in Nat, NEW doc \in Docs(n), NEW c \in Cells
  PROVE  /\ ClearAll(doc, c) \in Docs(n)
         /\ ClearAll(doc, c) = [b \in Cells |-> IF b = c THEN <<>> ELSE doc[b]]
<1>1. <<>> \in Seq(Outs(n))
  OBVIOUS
<1> QED
  BY <1>1 DEF ClearAll, Docs

(* Writing all outputs of a cell.                                           *)
LEMMA Replaces ==
  ASSUME NEW n \in Nat, NEW doc \in Docs(n), NEW c \in Cells, NEW all \in Seq(Outs(n))
  PROVE  /\ ReplaceOut(doc, c, all) \in Docs(n)
         /\ ReplaceOut(doc, c, all) = [b \in Cells |-> IF b = c THEN all ELSE doc[b]]
BY DEF ReplaceOut, Docs

(* Appending an output to a cell.                                           *)
LEMMA Appends ==
  ASSUME NEW n \in Nat, NEW doc \in Docs(n), NEW c \in Cells, NEW out \in Outs(n)
  PROVE  /\ AppendOut(doc, c, out) \in Docs(n)
         /\ AppendOut(doc, c, out) =
              [b \in Cells |-> IF b = c THEN Append(doc[c], out) ELSE doc[b]]
<1>1. Append(doc[c], out) \in Seq(Outs(n))
  BY DEF Docs
<1> QED
  BY <1>1 DEF AppendOut, Docs

(* Setting or extending the items of one output leaves all the rest.        *)
LEMMA ChangesItems ==
  ASSUME NEW n \in Nat, NEW doc \in Docs(n), NEW c, NEW m, NEW k \in 1..n,
         NEW new \in {SetItems(doc, c, m, k), AddItem(doc, c, m, k)}
  PROVE  /\ new \in Docs(n)
         /\ \A b \in Cells : DOMAIN new[b] = DOMAIN doc[b] /\ Len(new[b]) = Len(doc[b])
         /\ \A b \in Cells : \A i \in DOMAIN doc[b] :
              /\ new[b][i].made = doc[b][i].made /\ new[b][i].of = doc[b][i].of
              /\ new[b][i].kind = doc[b][i].kind /\ new[b][i].id = doc[b][i].id
              /\ ~Is(doc[b][i], c, m) => new[b][i] = doc[b][i]
         /\ new = SetItems(doc, c, m, k) =>
              \A b \in Cells : \A i \in DOMAIN doc[b] :
                Is(doc[b][i], c, m) => new[b][i].items = <<k>>
<1> DEFINE Changed(x) == IF ~Is(x, c, m) THEN x
                         ELSE IF new = SetItems(doc, c, m, k) THEN [x EXCEPT !.items = <<k>>]
                         ELSE [x EXCEPT !.items = Append(@, k)]
<1>1. new = [b \in Cells |-> [i \in DOMAIN doc[b] |-> Changed(doc[b][i])]]
  BY DEF SetItems, AddItem
<1>2. \A b \in Cells : doc[b] \in Seq(Outs(n))
  BY DEF Docs
<1>3. \A x \in Outs(n) : <<k>> \in Seq(1..n) /\ Append(x.items, k) \in Seq(1..n)
  BY OutFields
<1>4. \A x \in Outs(n) :
        /\ Changed(x) \in Outs(n)
        /\ Changed(x).made = x.made /\ Changed(x).of = x.of
        /\ Changed(x).kind = x.kind /\ Changed(x).id = x.id
        /\ ~Is(x, c, m) => Changed(x) = x
        /\ Is(x, c, m) => Changed(x).items = IF new = SetItems(doc, c, m, k) THEN <<k>>
                                             ELSE Append(x.items, k)
  <2> SUFFICES ASSUME NEW x \in Outs(n)
               PROVE  /\ Changed(x) \in Outs(n)
                      /\ Changed(x).made = x.made /\ Changed(x).of = x.of
                      /\ Changed(x).kind = x.kind /\ Changed(x).id = x.id
                      /\ ~Is(x, c, m) => Changed(x) = x
                      /\ Is(x, c, m) => Changed(x).items =
                           IF new = SetItems(doc, c, m, k) THEN <<k>> ELSE Append(x.items, k)
    OBVIOUS
  <2>1. CASE ~Is(x, c, m)
    BY <2>1
  <2>2. CASE Is(x, c, m) /\ new = SetItems(doc, c, m, k)
    <3>1. PICK q : q = <<k>>
      OBVIOUS
    <3>2. Changed(x) = [x EXCEPT !.items = q]
      BY <2>2, <3>1
    <3> HIDE DEF Changed
    <3>3. q \in Seq(1..n)
      BY <1>3, <3>1
    <3>4. /\ Changed(x) \in Outs(n) /\ Changed(x).items = q
          /\ Changed(x).made = x.made /\ Changed(x).of = x.of
          /\ Changed(x).kind = x.kind /\ Changed(x).id = x.id
      BY <3>2, <3>3 DEF Outs
    <3> QED
      BY <2>2, <3>1, <3>4
  <2>3. CASE Is(x, c, m) /\ new # SetItems(doc, c, m, k)
    <3>1. PICK q : q = Append(x.items, k)
      OBVIOUS
    <3>2. Changed(x) = [x EXCEPT !.items = q]
      BY <2>3, <3>1
    <3> HIDE DEF Changed
    <3>3. q \in Seq(1..n)
      BY <1>3, <3>1
    <3>4. /\ Changed(x) \in Outs(n) /\ Changed(x).items = q
          /\ Changed(x).made = x.made /\ Changed(x).of = x.of
          /\ Changed(x).kind = x.kind /\ Changed(x).id = x.id
      BY <3>2, <3>3 DEF Outs
    <3> QED
      BY <2>3, <3>1, <3>4
  <2> QED
    BY <2>1, <2>2, <2>3
<1> HIDE DEF Changed
<1>5. ASSUME NEW b \in Cells
      PROVE  /\ new[b] \in Seq(Outs(n)) /\ DOMAIN new[b] = DOMAIN doc[b]
             /\ Len(new[b]) = Len(doc[b])
             /\ \A i \in DOMAIN doc[b] : new[b][i] = Changed(doc[b][i])
  <2>1. new[b] = [i \in 1..Len(doc[b]) |-> Changed(doc[b][i])]
    BY <1>1, <1>2
  <2>2. \A i \in 1..Len(doc[b]) : doc[b][i] \in Outs(n)
    BY <1>2
  <2> QED
    BY <1>2, <1>4, <2>1, <2>2
<1>6. new \in Docs(n)
  BY <1>1, <1>5 DEF Docs
<1>7. \A b \in Cells : \A i \in DOMAIN doc[b] : doc[b][i] \in Outs(n)
  BY <1>2
<1> QED
  BY <1>4, <1>5, <1>6, <1>7

(* What the notebook will show.                                             *)
LEMMA FinalTyped ==
  ASSUME DocTypes
  PROVE  /\ sent \in Nat /\ Final \in Docs(sent)
         /\ edits = <<>> => Final = outputs
         /\ edits # <<>> => Final = edits[Len(edits)].shows /\ Len(edits) \in Nat \ {0}
         /\ \A c \in Cells : Final[c] \in Seq(Outs(sent)) /\ expected[c] \in Seq(Outs(sent))
                             /\ outputs[c] \in Seq(Outs(sent))
<1>1. sent \in Nat /\ edits \in Seq([shows : Docs(sent), gives : SUBSET Cells])
      /\ outputs \in Docs(sent) /\ expected \in Docs(sent)
  BY OutputsAssumption DEF OutputsAssumption, DocTypes
<1>2. edits # <<>> => /\ Len(edits) \in Nat \ {0}
                      /\ edits[Len(edits)].shows \in Docs(sent)
  <2> DEFINE T == [shows : Docs(sent), gives : SUBSET Cells]
  <2>1. \A e \in T : e.shows \in Docs(sent)
    OBVIOUS
  <2>2. edits \in Seq(T)
    BY <1>1
  <2> HIDE DEF T
  <2>3. edits # <<>> => Len(edits) \in Nat \ {0} /\ edits[Len(edits)] \in T
    BY <2>2
  <2> QED
    BY <2>1, <2>3
<1>3. Final \in Docs(sent)
  BY <1>1, <1>2 DEF Final, Last
<1> QED
  BY <1>1, <1>2, <1>3 DEF Final, Last, Docs

(* What is asked of VS Code is what the notebook will show.                 *)
LEMMA AskShows ==
  ASSUME DocTypes, NEW n \in Nat, sent <= n, NEW doc \in Docs(n),
         NEW gives \in SUBSET Cells, Ask(doc, gives)
  PROVE  /\ edits' \in Seq([shows : Docs(n), gives : SUBSET Cells])
         /\ Final' = doc /\ Len(edits') = Len(edits) + 1 /\ edits' # <<>>
         /\ Len(edits) \in Nat
<1>1. edits \in Seq([shows : Docs(n), gives : SUBSET Cells])
  <2>1. sent \in Nat /\ edits \in Seq([shows : Docs(sent), gives : SUBSET Cells])
    BY FinalTyped DEF DocTypes
  <2>2. [shows : Docs(sent), gives : SUBSET Cells] \subseteq [shows : Docs(n), gives : SUBSET Cells]
    <3>1. Docs(sent) \subseteq Docs(n)
      BY <2>1, TypesGrow
    <3> QED
      BY <3>1
  <2> DEFINE T == [shows : Docs(sent), gives : SUBSET Cells]
             U == [shows : Docs(n), gives : SUBSET Cells]
  <2>3. edits \in Seq(T) /\ T \subseteq U
    BY <2>1, <2>2
  <2> HIDE DEF T, U
  <2>4. edits \in Seq(U)
    BY <2>3
  <2> QED
    BY <2>4 DEF U
<1>2. PICK e : e = [shows |-> doc, gives |-> gives]
  OBVIOUS
<1>3. e \in [shows : Docs(n), gives : SUBSET Cells] /\ e.shows = doc
  BY <1>2
<1>4. edits' = Append(edits, e)
  BY <1>2 DEF Ask
<1>5. /\ edits' \in Seq([shows : Docs(n), gives : SUBSET Cells]) /\ edits' # <<>>
      /\ Len(edits') = Len(edits) + 1 /\ edits'[Len(edits')] = e /\ Len(edits) \in Nat
  BY <1>1, <1>3, <1>4
<1> QED
  BY <1>3, <1>5 DEF Final, Last

-----------------------------------------------------------------------------
(* Types.                                                                   *)

(* The cell of a task is a cell.                                            *)
LEMMA TaskCellIsCell ==
  ASSUME NEW c \in Cells
  PROVE  TaskCell(c) \in Cells
BY DEF TaskCell, Nobody

(* What is shown keeps its type while nothing is written.                   *)
LEMMA DocTypesStay ==
  DocTypes /\ UNCHANGED <<lag, sent, outputs, edits, expected>> => DocTypes'
BY DEF DocTypes

(* So do the pointers.                                                      *)
LEMMA TrackerTypesStay ==
  TrackerTypes /\ UNCHANGED <<displayed, latest, lastId, sent>> => TrackerTypes'
BY DEF TrackerTypes

(* The types of what a message leaves alone.                                *)
LEMMA AfterMessage ==
  ASSUME OutputsTypes, Message
  PROVE  /\ sent \in Nat /\ sent' = sent + 1 /\ sent' \in 0..MaxMessages /\ sent' \in Nat
         /\ sent' >= 1 /\ sent <= sent' /\ sent' \in 1..sent'
         /\ lag' \in Lags /\ outputs' \in Docs(sent')
         /\ phase' \in [Cells -> {"new", "sent", "running", "done"}]
         /\ Docs(sent) \subseteq Docs(sent') /\ Seq(Outs(sent)) \subseteq Seq(Outs(sent'))
         /\ Final \in Docs(sent') /\ expected \in Docs(sent')
         /\ lastStream \in [Cells -> StreamPointers(sent')]
         /\ displayed \in [DisplayIds -> Pointers(sent')]
         /\ latest \in [DisplayIds -> Pointers(sent')]
<1>1. DocTypes /\ HandlerTypes /\ TrackerTypes
  BY DEF OutputsTypes
<1>2. sent \in Nat /\ sent' = sent + 1 /\ sent' \in 0..MaxMessages /\ sent' \in Nat
  BY <1>1, FinalTyped, OutputsAssumption DEF Message, DocTypes, OutputsAssumption
<1>3. sent' >= 1 /\ sent <= sent' /\ sent' \in 1..sent'
  BY <1>2
<1>4. /\ Docs(sent) \subseteq Docs(sent') /\ Pointers(sent) \subseteq Pointers(sent')
      /\ StreamPointers(sent) \subseteq StreamPointers(sent')
      /\ Seq(Outs(sent)) \subseteq Seq(Outs(sent'))
  BY <1>2, <1>3, TypesGrow
<1>5. Final \in Docs(sent) /\ expected \in Docs(sent) /\ outputs \in Docs(sent)
  BY <1>1, FinalTyped DEF DocTypes
<1>6. /\ lastStream \in [Cells -> StreamPointers(sent)]
      /\ displayed \in [DisplayIds -> Pointers(sent)]
      /\ latest \in [DisplayIds -> Pointers(sent)]
  BY <1>1 DEF HandlerTypes, TrackerTypes
<1>7. /\ lastStream \in [Cells -> StreamPointers(sent')]
      /\ displayed \in [DisplayIds -> Pointers(sent')]
      /\ latest \in [DisplayIds -> Pointers(sent')]
  BY <1>4, <1>6
<1>8. /\ lag' \in Lags /\ phase' \in [Cells -> {"new", "sent", "running", "done"}]
      /\ outputs' \in Docs(sent')
  BY <1>1, <1>4, <1>5 DEF Message, DocTypes, HandlerTypes
<1> QED
  BY <1>2, <1>3, <1>4, <1>5, <1>7, <1>8

(* A message asks VS Code for something, or nothing.                        *)
LEMMA MessageKeepsDocs ==
  ASSUME OutputsTypes, Message, expected' \in Docs(sent'),
         \/ edits' = edits
         \/ \E doc \in Docs(sent'), gives \in SUBSET Cells : Ask(doc, gives)
  PROVE  DocTypes'
<1>1. DocTypes /\ sent \in Nat /\ sent' \in Nat /\ sent <= sent'
      /\ lag' \in Lags /\ outputs' \in Docs(sent') /\ sent' \in 0..MaxMessages
  BY AfterMessage DEF OutputsTypes
<1>2. edits' \in Seq([shows : Docs(sent'), gives : SUBSET Cells])
  <2>1. CASE edits' = edits
    <3> DEFINE T == [shows : Docs(sent), gives : SUBSET Cells]
               U == [shows : Docs(sent'), gives : SUBSET Cells]
    <3>1. Docs(sent) \subseteq Docs(sent')
      BY <1>1, TypesGrow
    <3>2. T \subseteq U
      BY <3>1
    <3>3. edits \in Seq(T)
      BY <1>1 DEF DocTypes
    <3> HIDE DEF T, U
    <3>4. edits \in Seq(U)
      BY <3>2, <3>3
    <3> QED
      BY <2>1, <3>4 DEF U
  <2>2. CASE \E doc \in Docs(sent'), gives \in SUBSET Cells : Ask(doc, gives)
    <3>1. PICK doc \in Docs(sent'), gives \in SUBSET Cells : Ask(doc, gives)
      BY <2>2
    <3> QED
      BY <1>1, <3>1, AskShows
  <2> QED
    BY <2>1, <2>2
<1> QED
  BY <1>1, <1>2 DEF DocTypes

(* Tracking a display id keeps the tracker's types.                         *)
LEMMA TrackTypes ==
  ASSUME OutputsTypes, Message, NEW c \in Cells, NEW d \in DisplayIds, NEW m \in 1..sent',
         Track(c, d, m)
  PROVE  displayed' \in [DisplayIds -> Pointers(sent')]
         /\ lastId' \in [Cells -> DisplayIds \cup {None}]
<1>1. displayed \in [DisplayIds -> Pointers(sent')] /\ lastId \in [Cells -> DisplayIds \cup {None}]
  BY AfterMessage DEF OutputsTypes, TrackerTypes
<1>2. [cell |-> c, made |-> m] \in Pointers(sent')
  BY DEF Pointers
<1> QED
  BY <1>1, <1>2 DEF Track

(* So does forgetting what cells showed that have become empty.             *)
LEMMA EmptiedTypes ==
  ASSUME OutputsTypes, NEW S \in SUBSET Cells, OnEmptied(S), sent <= sent', sent' \in Nat
  PROVE  /\ displayed' \in [DisplayIds -> Pointers(sent')]
         /\ lastId' \in [Cells -> DisplayIds \cup {None}]
         /\ lastStream' \in [Cells -> StreamPointers(sent')]
         /\ \A c \in Cells : lastStream'[c] # None => lastStream[c] # None
<1>1. sent \in Nat
  BY FinalTyped DEF OutputsTypes
<1>2. /\ displayed \in [DisplayIds -> Pointers(sent')]
      /\ lastId \in [Cells -> DisplayIds \cup {None}]
      /\ lastStream \in [Cells -> StreamPointers(sent')]
  <2>1. Pointers(sent) \subseteq Pointers(sent') /\ StreamPointers(sent) \subseteq StreamPointers(sent')
    BY <1>1, TypesGrow
  <2> QED
    BY <2>1 DEF OutputsTypes, TrackerTypes, HandlerTypes
<1>3. None \in Pointers(sent') /\ None \in StreamPointers(sent')
  BY DEF Pointers, StreamPointers
<1> QED
  BY <1>2, <1>3 DEF OnEmptied

(* Room of the reader.                                                      *)
LEMMA RoomTyped ==
  ASSUME OutputsTypes, NEW c \in Cells
  PROVE  Room(c) \in Seq(Outs(sent))
<1>1. <<>> \in Seq(Outs(sent)) /\ expected[c] \in Seq(Outs(sent))
  BY FinalTyped DEF OutputsTypes
<1> QED
  BY <1>1 DEF Room

(* A text on a stream keeps the types.                                      *)
LEMMA StreamMessageTypes ==
  ASSUME OutputsTypes, NEW c \in Cells, NEW s \in Streams, StreamMessage(c, s)
  PROVE  OutputsTypes'
<1> DEFINE n    == sent + 1
           out  == Output(n, c, s, None)
           last == IF c \in clearWait THEN None
                   ELSE IF Continues(c, s)
                   THEN [stream |-> s, made |-> Head(outputs[c]).made]
                   ELSE lastStream[c]
           same == last # None /\ last.stream = s
           room == Room(c)
<1>1. Message /\ n = sent'
  BY DEF StreamMessage, Message
<1>2. /\ sent' \in Nat /\ n >= 1 /\ n \in 1..sent' /\ Final \in Docs(n) /\ expected \in Docs(n)
      /\ lastStream \in [Cells -> StreamPointers(n)] /\ Docs(sent) \subseteq Docs(n)
      /\ Seq(Outs(sent)) \subseteq Seq(Outs(n)) /\ sent \in Nat
      /\ phase' \in [Cells -> {"new", "sent", "running", "done"}]
  BY <1>1, AfterMessage
<1>3. out \in Outs(n) /\ <<out>> \in Seq(Outs(n))
  BY <1>1, <1>2, NewOutput
<1>4. TaskCell(c) \in Cells
  BY TaskCellIsCell
<1>5. last \in StreamPointers(n)
  <2>1. Continues(c, s) => Head(outputs[c]).made \in -2..n
    <3>1. outputs[c] \in Seq(Outs(sent))
      BY FinalTyped DEF OutputsTypes
    <3>2. Continues(c, s) => Head(outputs[c]) \in Outs(sent)
      BY <3>1 DEF Continues
    <3>3. \A x \in Outs(sent) : x.made \in -2..sent
      BY DEF Outs
    <3> QED
      BY <1>2, <3>2, <3>3
  <2> QED
    BY <1>2, <2>1 DEF StreamPointers
<1>6. lastStream' = [lastStream EXCEPT ![c] = IF same THEN last ELSE [stream |-> s, made |-> n]]
      /\ clearWait' = clearWait \ {c} /\ reattached' = reattached \cup {c}
      /\ waiting' = waiting \ {c} /\ apart' = apart \ {c} /\ UNCHANGED <<trackerVars, latest>>
  BY DEF StreamMessage, Cleared, Reattached
<1>7. IF same THEN last \in StreamPointers(n)
      ELSE [stream |-> s, made |-> n] \in StreamPointers(n)
  BY <1>2, <1>5 DEF StreamPointers
<1>8. HandlerTypes'
  <2>1. lastStream' \in [Cells -> StreamPointers(n)]
    BY <1>2, <1>6, <1>7
  <2>2. \A b \in Cells : lastStream'[b] # None => b \in reattached'
    BY <1>2, <1>6 DEF OutputsTypes, HandlerTypes
  <2> QED
    BY <1>1, <1>2, <1>6, <2>1, <2>2 DEF OutputsTypes, HandlerTypes
<1>9. \/ Ask(AddItem(Final, c, last.made, n), {})
      \/ Ask(ReplaceOut(ClearIfWaiting(c), TaskCell(c), <<out>>), {TaskCell(c)})
      \/ Ask(AppendOut(Final, TaskCell(c), out), {TaskCell(c)})
  BY DEF StreamMessage
<1>10. /\ AddItem(Final, c, last.made, n) \in Docs(n)
       /\ ReplaceOut(ClearIfWaiting(c), TaskCell(c), <<out>>) \in Docs(n)
       /\ AppendOut(Final, TaskCell(c), out) \in Docs(n)
  <2>1. ClearIfWaiting(c) \in Docs(n)
    BY <1>1, <1>2, <1>4, Clears DEF ClearIfWaiting
  <2>2. ReplaceOut(ClearIfWaiting(c), TaskCell(c), <<out>>) \in Docs(n)
    BY <1>1, <1>2, <1>3, <1>4, <2>1, Replaces
  <2>3. AppendOut(Final, TaskCell(c), out) \in Docs(n)
    BY <1>1, <1>2, <1>3, <1>4, Appends
  <2>4. \A m : AddItem(Final, c, m, n) \in Docs(n)
    BY <1>1, <1>2, ChangesItems
  <2> QED
    BY <2>2, <2>3, <2>4
<1>11. \E doc \in Docs(sent'), gives \in SUBSET Cells : Ask(doc, gives)
  <2>1. {} \in SUBSET Cells /\ {TaskCell(c)} \in SUBSET Cells
    BY <1>4
  <2> HIDE DEF last, out, n
  <2> QED
    BY <1>1, <1>9, <1>10, <2>1
<1>12. expected' \in Docs(n)
  <2>1. room \in Seq(Outs(n))
    BY <1>2, RoomTyped
  <2>2. Append(room, out) \in Seq(Outs(n))
    BY <1>3, <2>1
  <2>3. room # <<>> => Front(room) \o <<[Last(room) EXCEPT !.items = Append(@, n)]>>
                         \in Seq(Outs(n))
    <3> SUFFICES ASSUME room # <<>>
                 PROVE  Front(room) \o <<[Last(room) EXCEPT !.items = Append(@, n)]>>
                          \in Seq(Outs(n))
      OBVIOUS
    <3>1. Front(room) \in Seq(Outs(n)) /\ Last(room) \in Outs(n)
      <4> HIDE DEF room, n
      <4> QED
        BY <2>1 DEF Front, Last
    <3>2. PICK x \in Outs(n) : x = Last(room)
      BY <3>1
    <3>3. Append(x.items, n) \in Seq(1..n)
      BY <1>1, <1>2, OutFields
    <3>4. [x EXCEPT !.items = Append(@, n)] \in Outs(n)
      BY <3>3 DEF Outs
    <3> HIDE DEF room, n
    <3> QED
      BY <3>1, <3>2, <3>4
  <2>4. PICK e \in Seq(Outs(n)) : expected' = [expected EXCEPT ![c] = e]
    BY <2>2, <2>3 DEF StreamMessage
  <2> QED
    BY <1>2, <2>4 DEF Docs
<1>13. DocTypes'
  BY <1>1, <1>11, <1>12, MessageKeepsDocs
<1>14. TrackerTypes'
  BY <1>1, <1>6, AfterMessage DEF OutputsTypes, TrackerTypes, trackerVars
<1> QED
  BY <1>8, <1>13, <1>14 DEF OutputsTypes

(* A displayed output keeps the types.                                      *)
LEMMA AddOutputTypes ==
  ASSUME OutputsTypes, NEW c \in Cells, NEW d \in DisplayIds \cup {None}, AddOutput(c, d)
  PROVE  OutputsTypes'
<1> DEFINE n   == sent + 1
           out == Output(n, c, "display", d)
<1>1. Message /\ n = sent'
  BY DEF AddOutput, Message
<1>2. /\ sent' \in Nat /\ n >= 1 /\ n \in 1..sent' /\ Final \in Docs(n) /\ expected \in Docs(n)
      /\ lastStream \in [Cells -> StreamPointers(n)] /\ sent \in Nat
      /\ Seq(Outs(sent)) \subseteq Seq(Outs(n)) /\ latest \in [DisplayIds -> Pointers(n)]
      /\ phase' \in [Cells -> {"new", "sent", "running", "done"}]
  BY <1>1, AfterMessage
<1>3. out \in Outs(n) /\ TaskCell(c) \in Cells
  BY <1>1, <1>2, NewOutput, TaskCellIsCell
<1>4. HandlerTypes'
  <2>1. clearWait' = clearWait \ {c} /\ lastStream' = [lastStream EXCEPT ![c] = None]
        /\ waiting' = waiting \ {c} /\ UNCHANGED <<reattached, apart>>
    BY DEF AddOutput, Cleared, StreamBroken
  <2>2. lastStream' \in [Cells -> StreamPointers(n)]
    BY <1>2, <2>1 DEF StreamPointers
  <2> QED
    BY <1>1, <1>2, <2>1, <2>2 DEF OutputsTypes, HandlerTypes
<1>5. DocTypes'
  <2>1. AppendOut(ClearIfWaiting(c), TaskCell(c), out) \in Docs(n)
    <3>1. ClearIfWaiting(c) \in Docs(n)
      BY <1>1, <1>2, <1>3, Clears DEF ClearIfWaiting
    <3> QED
      BY <1>1, <1>2, <1>3, <3>1, Appends
  <2>2. \E doc \in Docs(sent'), gives \in SUBSET Cells : Ask(doc, gives)
    BY <1>1, <1>3, <2>1 DEF AddOutput
  <2>3. expected' \in Docs(n)
    <3>1. Room(c) \in Seq(Outs(n))
      BY <1>2, RoomTyped
    <3>2. Append(Room(c), out) \in Seq(Outs(n))
      <4> HIDE DEF out, n
      <4> QED
        BY <1>3, <3>1
    <3>3. expected' = [expected EXCEPT ![c] = Append(Room(c), out)]
      BY DEF AddOutput
    <3> HIDE DEF out
    <3> QED
      BY <1>2, <3>2, <3>3 DEF Docs
  <2> QED
    BY <1>1, <2>2, <2>3, MessageKeepsDocs
<1>6. TrackerTypes'
  <2>1. CASE d = None
    BY <1>1, <2>1, AfterMessage DEF AddOutput, OutputsTypes, TrackerTypes, trackerVars
  <2>2. CASE d # None
    <3>1. Track(c, d, n) /\ latest' = [latest EXCEPT ![d] = [cell |-> c, made |-> n]]
      BY <2>2 DEF AddOutput
    <3>2. [cell |-> c, made |-> n] \in Pointers(n)
      BY <1>1, <1>2 DEF Pointers
    <3>3. latest' \in [DisplayIds -> Pointers(n)]
      BY <1>2, <3>1, <3>2
    <3> QED
      BY <1>1, <1>2, <2>2, <3>1, <3>3, TrackTypes DEF TrackerTypes
  <2> QED
    BY <2>1, <2>2
<1> QED
  BY <1>4, <1>5, <1>6 DEF OutputsTypes

(* A clearing, at once or with the next output, keeps the types.            *)
LEMMA ClearTypes ==
  ASSUME OutputsTypes, NEW c \in Cells, ClearLater(c) \/ ClearNow(c)
  PROVE  OutputsTypes'
<1>1. Message /\ UNCHANGED <<reattached, trackerVars, apart, latest>>
      /\ clearWait' \subseteq Cells /\ waiting' \subseteq Cells
      /\ (lastStream' = lastStream \/ lastStream' = [lastStream EXCEPT ![c] = None])
  BY DEF ClearLater, ClearNow, OutputsTypes, HandlerTypes, StreamBroken
<1>2. /\ sent' \in Nat /\ Final \in Docs(sent') /\ expected \in Docs(sent')
      /\ lastStream \in [Cells -> StreamPointers(sent')]
      /\ phase' \in [Cells -> {"new", "sent", "running", "done"}]
  BY <1>1, AfterMessage
<1>3. HandlerTypes'
  <2>1. lastStream' \in [Cells -> StreamPointers(sent')]
    BY <1>1, <1>2 DEF StreamPointers
  <2> QED
    BY <1>1, <1>2, <2>1 DEF OutputsTypes, HandlerTypes
<1>4. expected' \in Docs(sent')
  <2>1. <<>> \in Seq(Outs(sent'))
    OBVIOUS
  <2> QED
    BY <1>2, <2>1 DEF ClearLater, ClearNow, Docs
<1>5. edits' = edits \/ \E doc \in Docs(sent'), gives \in SUBSET Cells : Ask(doc, gives)
  <2>1. ClearAll(Final, TaskCell(c)) \in Docs(sent')
    BY <1>2, TaskCellIsCell, Clears
  <2>2. {} \in SUBSET Cells
    OBVIOUS
  <2> QED
    BY <2>1, <2>2 DEF ClearLater, ClearNow
<1>6. TrackerTypes'
  BY <1>1, AfterMessage DEF OutputsTypes, TrackerTypes, trackerVars
<1> QED
  BY <1>1, <1>3, <1>4, <1>5, <1>6, MessageKeepsDocs DEF OutputsTypes

(* The reader's update keeps the types.                                     *)
LEMMA ReadUpdateTypes ==
  ASSUME OutputsTypes, Message, NEW d \in DisplayIds, ReadUpdate(d, sent')
  PROVE  expected' \in Docs(sent')
BY AfterMessage, ChangesItems DEF ReadUpdate

(* An update of a displayed output keeps the types.                         *)
LEMMA UpdateItemsTypes ==
  ASSUME OutputsTypes, NEW c \in Cells, NEW d \in DisplayIds, UpdateItems(c, d)
  PROVE  OutputsTypes'
<1> DEFINE n == sent + 1
<1>1. Message /\ n = sent' /\ UNCHANGED <<handlerVars, waiting, apart, latest>>
  BY DEF UpdateItems, Message
<1>2. /\ sent' \in Nat /\ n \in 1..sent' /\ Final \in Docs(n)
      /\ lastStream \in [Cells -> StreamPointers(n)]
      /\ displayed \in [DisplayIds -> Pointers(n)] /\ latest \in [DisplayIds -> Pointers(n)]
      /\ phase' \in [Cells -> {"new", "sent", "running", "done"}]
  BY <1>1, AfterMessage
<1>3. HandlerTypes'
  BY <1>1, <1>2 DEF OutputsTypes, HandlerTypes, handlerVars
<1>4. expected' \in Docs(sent')
  BY <1>1, ReadUpdateTypes DEF UpdateItems
<1>5. CASE displayed[d] = None
  <2>1. UNCHANGED <<edits, trackerVars>>
    BY <1>5 DEF UpdateItems
  <2>2. TrackerTypes'
    BY <1>1, <1>2, <2>1 DEF OutputsTypes, TrackerTypes, trackerVars
  <2> QED
    BY <1>1, <1>3, <1>4, <2>1, <2>2, MessageKeepsDocs DEF OutputsTypes
<1>6. CASE displayed[d] # None
  <2>1. Ask(SetItems(Final, displayed[d].cell, displayed[d].made, n), {})
        /\ Track(displayed[d].cell, d, displayed[d].made)
    BY <1>6 DEF UpdateItems
  <2>2. displayed[d].cell \in Cells /\ displayed[d].made \in 1..n
    BY <1>2, <1>6 DEF Pointers
  <2>3. SetItems(Final, displayed[d].cell, displayed[d].made, n) \in Docs(n)
    BY <1>1, <1>2, ChangesItems
  <2>4. \E doc \in Docs(sent'), gives \in SUBSET Cells : Ask(doc, gives)
    <3>1. {} \in SUBSET Cells
      OBVIOUS
    <3> QED
      BY <1>1, <2>1, <2>3, <3>1
  <2>5. TrackerTypes'
    BY <1>1, <1>2, <2>1, <2>2, TrackTypes DEF TrackerTypes
  <2> QED
    BY <1>1, <1>3, <1>4, <2>4, <2>5, MessageKeepsDocs DEF OutputsTypes
<1> QED
  BY <1>5, <1>6

(* The outputs of a cell with new ones for a display id.                    *)
LEMMA Renewed ==
  ASSUME NEW m \in Nat, NEW q \in Seq(Outs(m)), NEW new \in Outs(m), NEW d,
         NEW t, t = [i \in DOMAIN q |-> IF q[i].id = d THEN new ELSE q[i]]
  PROVE  /\ t \in Seq(Outs(m)) /\ Len(t) = Len(q) /\ DOMAIN t = DOMAIN q
         /\ \A i \in DOMAIN q : t[i] = IF q[i].id = d THEN new ELSE q[i]
<1>1. t = [i \in 1..Len(q) |-> IF q[i].id = d THEN new ELSE q[i]] /\ DOMAIN q = 1..Len(q)
  OBVIOUS
<1>2. \A i \in 1..Len(q) : q[i] \in Outs(m)
  OBVIOUS
<1> QED
  BY <1>1, <1>2

(* An update that writes the outputs back keeps the types.                  *)
LEMMA UpdateMetadataTypes ==
  ASSUME OutputsTypes, NEW c \in Cells, NEW d \in DisplayIds, UpdateMetadata(c, d)
  PROVE  OutputsTypes'
<1> DEFINE n   == sent + 1
           b   == displayed[d].cell
           new == Output(n, b, "display", d)
           all == [i \in DOMAIN outputs[b] |->
                      IF outputs[b][i].id = d THEN new ELSE outputs[b][i]]
<1>1. Message /\ n = sent' /\ UNCHANGED <<handlerVars, waiting, apart, latest>>
      /\ displayed[d] # None
  BY DEF UpdateMetadata, Message
<1>2. /\ sent' \in Nat /\ n \in 1..sent' /\ n >= 1 /\ Final \in Docs(n)
      /\ lastStream \in [Cells -> StreamPointers(n)] /\ sent \in Nat
      /\ displayed \in [DisplayIds -> Pointers(n)] /\ latest \in [DisplayIds -> Pointers(n)]
      /\ phase' \in [Cells -> {"new", "sent", "running", "done"}]
      /\ Seq(Outs(sent)) \subseteq Seq(Outs(n))
  BY <1>1, AfterMessage
<1>3. HandlerTypes'
  BY <1>1, <1>2 DEF OutputsTypes, HandlerTypes, handlerVars
<1>4. expected' \in Docs(sent')
  BY <1>1, ReadUpdateTypes DEF UpdateMetadata
<1>5. b \in Cells
  BY <1>1, <1>2 DEF Pointers
<1>6. new \in Outs(n) /\ outputs[b] \in Seq(Outs(n))
  BY <1>1, <1>2, <1>5, NewOutput, FinalTyped DEF OutputsTypes
<1>7. all \in Seq(Outs(n))
  <2>1. PICK q \in Seq(Outs(n)) : q = outputs[b]
    BY <1>6
  <2>2. PICK x \in Outs(n) : x = new
    BY <1>6
  <2>3. all = [i \in DOMAIN q |-> IF q[i].id = d THEN x ELSE q[i]]
    BY <2>1, <2>2
  <2>4. n \in Nat
    BY <1>1, <1>2
  <2> HIDE DEF all, n
  <2> QED
    BY <2>3, <2>4, Renewed
<1>8. ReplaceOut(Final, b, all) \in Docs(n)
  <2> HIDE DEF all
  <2> QED
    BY <1>1, <1>2, <1>5, <1>7, Replaces
<1>9. \E doc \in Docs(sent'), gives \in SUBSET Cells : Ask(doc, gives)
  <2>1. Ask(ReplaceOut(Final, b, all), {b}) /\ {b} \in SUBSET Cells
    BY <1>5 DEF UpdateMetadata
  <2> HIDE DEF all, b
  <2> QED
    BY <1>1, <1>8, <2>1
<1>10. TrackerTypes'
  <2>1. Track(b, d, n)
    BY DEF UpdateMetadata
  <2>2. /\ displayed' \in [DisplayIds -> Pointers(sent')]
        /\ lastId' \in [Cells -> DisplayIds \cup {None}]
    BY <1>1, <1>2, <1>5, <2>1, TrackTypes
  <2> QED
    BY <1>1, <1>2, <2>2 DEF TrackerTypes
<1> QED
  BY <1>1, <1>3, <1>4, <1>9, <1>10, MessageKeepsDocs DEF OutputsTypes

(* A clearing by the user keeps the types.                                  *)
LEMMA UserClearsTypes ==
  ASSUME OutputsTypes, NEW c \in Cells, UserClears(c)
  PROVE  OutputsTypes'
<1>1. /\ sent \in Nat /\ sent' = sent + 1 /\ sent' \in 0..MaxMessages /\ edits = <<>>
      /\ edits' = edits /\ OnEmptied({c})
      /\ UNCHANGED <<lag, phase, clearWait, reattached, waiting, apart, latest>>
  BY FinalTyped, OutputsAssumption DEF UserClears, OutputsTypes, DocTypes, OutputsAssumption
<1>2. sent' \in Nat /\ sent <= sent'
  BY <1>1
<1>3. Docs(sent) \subseteq Docs(sent') /\ Pointers(sent) \subseteq Pointers(sent')
  BY <1>1, <1>2, TypesGrow
<1>4. outputs' \in Docs(sent') /\ expected' \in Docs(sent')
  <2>1. <<>> \in Seq(Outs(sent'))
    OBVIOUS
  <2>2. outputs \in Docs(sent') /\ expected \in Docs(sent')
    BY <1>3 DEF OutputsTypes, DocTypes
  <2> QED
    BY <2>1, <2>2 DEF UserClears, Docs
<1>5. edits' \in Seq([shows : Docs(sent'), gives : SUBSET Cells])
  BY <1>1
<1>6. /\ displayed' \in [DisplayIds -> Pointers(sent')]
      /\ lastId' \in [Cells -> DisplayIds \cup {None}]
      /\ lastStream' \in [Cells -> StreamPointers(sent')]
      /\ \A b \in Cells : lastStream'[b] # None => lastStream[b] # None
  BY <1>1, <1>2, EmptiedTypes
<1>7. DocTypes'
  BY <1>1, <1>4, <1>5 DEF OutputsTypes, DocTypes
<1>8. HandlerTypes'
  BY <1>1, <1>6 DEF OutputsTypes, HandlerTypes
<1>9. TrackerTypes'
  BY <1>1, <1>3, <1>6 DEF OutputsTypes, TrackerTypes
<1> QED
  BY <1>7, <1>8, <1>9 DEF OutputsTypes

(* What begins and ends executions keeps the types.                         *)
LEMMA CellTypes ==
  ASSUME OutputsTypes, NEW c \in Cells,
         Execute(c) \/ Resume(c) \/ Acknowledge(c) \/ Finish(c)
  PROVE  OutputsTypes'
<1>1. UNCHANGED <<lag, outputs, clearWait, reattached, trackerVars, sent, waiting, latest>>
      /\ (lastStream' = lastStream \/ lastStream' = [lastStream EXCEPT ![c] = None])
      /\ phase' \in [Cells -> {"new", "sent", "running", "done"}] /\ apart' \subseteq Cells
  BY DEF Execute, Resume, Acknowledge, Finish, handlerVars, readerVars, ForgottenAtEnd,
     OutputsTypes, HandlerTypes
<1>2. sent \in Nat /\ sent' = sent /\ Final \in Docs(sent) /\ expected \in Docs(sent) /\ DocTypes
  BY <1>1, FinalTyped DEF OutputsTypes, DocTypes
<1>3. HandlerTypes'
  <2>1. lastStream' \in [Cells -> StreamPointers(sent')]
    BY <1>1, <1>2 DEF StreamPointers, OutputsTypes, HandlerTypes
  <2> QED
    BY <1>1, <2>1 DEF OutputsTypes, HandlerTypes
<1>4. TrackerTypes'
  BY <1>1, TrackerTypesStay DEF OutputsTypes, trackerVars
<1>5. DocTypes'
  <2>1. CASE Acknowledge(c)
    <3>1. Ask(ClearAll(Final, c), {}) /\ expected' = [expected EXCEPT ![c] = <<>>]
      BY <2>1 DEF Acknowledge
    <3>2. ClearAll(Final, c) \in Docs(sent)
      BY <1>2, Clears
    <3>3. edits' \in Seq([shows : Docs(sent), gives : SUBSET Cells])
      BY <1>2, <3>1, <3>2, AskShows
    <3>4. expected' \in Docs(sent)
      <4>1. <<>> \in Seq(Outs(sent))
        OBVIOUS
      <4> QED
        BY <1>2, <3>1, <4>1 DEF Docs
    <3> QED
      BY <1>1, <1>2, <3>3, <3>4 DEF DocTypes
  <2>2. CASE Execute(c) \/ Resume(c) \/ Finish(c)
    BY <1>2, <2>2, DocTypesStay DEF Execute, Resume, Finish, readerVars
  <2> QED
    BY <2>1, <2>2
<1> QED
  BY <1>3, <1>4, <1>5 DEF OutputsTypes

(* Applying the edits of k messages leaves the others.                      *)
LEMMA Applied ==
  ASSUME DocTypes, NEW k \in 1..Len(edits), UNCHANGED <<lag, sent, expected>>,
         outputs' = edits[k].shows, edits' = SubSeq(edits, k + 1, Len(edits))
  PROVE  /\ DocTypes' /\ Final' = Final /\ edits # <<>>
         /\ Len(edits') = Len(edits) - k /\ Len(edits) \in Nat
<1> DEFINE T == [shows : Docs(sent), gives : SUBSET Cells]
<1>1. edits \in Seq(T)
  BY DEF DocTypes
<1>2. \A e \in T : e.shows \in Docs(sent)
  OBVIOUS
<1> HIDE DEF T
<1>3. /\ edits' \in Seq(T) /\ edits[k] \in T /\ edits # <<>> /\ Len(edits) \in Nat
      /\ Len(edits') = Len(edits) - k
      /\ \A i \in 1..(Len(edits) - k) : edits'[i] = edits[k + i]
  BY <1>1
<1>4. DocTypes'
  BY <1>2, <1>3 DEF DocTypes, T
<1>5. Final' = Final
  <2>1. CASE k = Len(edits)
    <3>1. edits' = <<>>
      BY <1>3, <2>1
    <3> QED
      BY <1>3, <2>1, <3>1 DEF Final, Last
  <2>2. CASE k # Len(edits)
    <3>1. edits' # <<>> /\ edits'[Len(edits')] = edits[Len(edits)]
      <4>0. PICK all : all = edits'
        OBVIOUS
      <4>1. Len(edits) - k \in 1..(Len(edits) - k) /\ k + (Len(edits) - k) = Len(edits)
        BY <1>3, <2>2
      <4>2. edits'[Len(edits) - k] = edits[k + (Len(edits) - k)]
        BY <1>3, <4>1
      <4>3. Len(edits') = Len(edits) - k
        BY <1>3
      <4>4. edits'[Len(edits')] = edits[Len(edits)]
        BY <4>1, <4>2, <4>3
      <4>5. all \in Seq(T) /\ Len(all) = Len(edits) - k
        BY <1>3, <4>0
      <4>6. Len(edits) - k >= 1
        BY <4>1
      <4>7. all # <<>>
        BY <4>5, <4>6
      <4> QED
        BY <4>0, <4>4, <4>7
    <3> QED
      BY <1>3, <3>1 DEF Final, Last
  <2> QED
    BY <2>1, <2>2
<1> QED
  BY <1>3, <1>4, <1>5

(* Applying edits keeps the types.                                          *)
LEMMA ApplyEditsTypes ==
  ASSUME OutputsTypes, ApplyEdits
  PROVE  OutputsTypes'
<1>1. PICK k \in 1..Len(edits) :
        /\ outputs' = edits[k].shows
        /\ edits' = SubSeq(edits, k + 1, Len(edits))
        /\ OnEmptied({c \in Touched(k) : outputs'[c] = <<>>})
        /\ UNCHANGED <<lag, phase, clearWait, reattached, sent, readerVars>>
  BY DEF ApplyEdits
<1>2. DocTypes'
  BY <1>1, Applied DEF OutputsTypes, readerVars
<1>3. {c \in Touched(k) : outputs'[c] = <<>>} \in SUBSET Cells
  BY DEF Touched
<1>4. sent \in Nat /\ sent' = sent /\ sent <= sent'
  BY <1>1, FinalTyped DEF OutputsTypes
<1>5. /\ displayed' \in [DisplayIds -> Pointers(sent')]
      /\ lastId' \in [Cells -> DisplayIds \cup {None}]
      /\ lastStream' \in [Cells -> StreamPointers(sent')]
      /\ \A c \in Cells : lastStream'[c] # None => lastStream[c] # None
  BY <1>1, <1>3, <1>4, EmptiedTypes
<1>6. HandlerTypes'
  BY <1>1, <1>5 DEF OutputsTypes, HandlerTypes, readerVars
<1>7. TrackerTypes'
  BY <1>1, <1>4, <1>5 DEF OutputsTypes, TrackerTypes, readerVars
<1> QED
  BY <1>2, <1>6, <1>7 DEF OutputsTypes

(* Every step keeps the types.                                              *)
LEMMA TypesKept == OutputsTypes /\ [OutputsNext]_outputsVars => OutputsTypes'
<1> SUFFICES ASSUME OutputsTypes, [OutputsNext]_outputsVars PROVE OutputsTypes'
  OBVIOUS
<1>1. CASE UNCHANGED outputsVars
  BY <1>1 DEF outputsVars, handlerVars, trackerVars, readerVars, OutputsTypes, DocTypes,
     HandlerTypes, TrackerTypes
<1>2. CASE OutputsNext
  BY <1>2, ApplyEditsTypes, CellTypes, ClearTypes, UserClearsTypes, StreamMessageTypes,
     AddOutputTypes, UpdateItemsTypes, UpdateMetadataTypes DEF OutputsNext
<1> QED
  BY <1>1, <1>2

(* What a cell shows before.                                                *)
LEMMA EarlierTyped ==
  ASSUME NEW c \in Cells, NEW f \in Before(c)
  PROVE  /\ f \in Seq(Outs(0))
         /\ \A i \in DOMAIN f : f[i].of = c /\ f[i].id = None /\ f[i].items = <<>>
         /\ "longer" \notin Unusual => Len(f) <= 1
<1> DEFINE kinds == Streams \cup {"display"}
<1>1. ASSUME NEW k \in kinds, NEW n \in {-1, -2}
      PROVE  /\ Earlier(c, n, k) \in Outs(0) /\ Earlier(c, n, k).of = c
             /\ Earlier(c, n, k).id = None /\ Earlier(c, n, k).items = <<>>
  <2>1. <<>> \in Seq(1..0) /\ n \in -2..0
    OBVIOUS
  <2>2. PICK q : q = <<n>>
    OBVIOUS
  <2>3. Earlier(c, n, k) = [made |-> n, of |-> c, kind |-> k, items |-> <<>>, id |-> None]
    <3>1. Earlier(c, n, k) = [[made |-> n, of |-> c, kind |-> k, items |-> q, id |-> None]
                               EXCEPT !.items = <<>>]
      BY <2>2 DEF Earlier, Output
    <3> QED
      BY <3>1
  <2>4. PICK e \in Seq(1..0) : e = <<>>
    BY <2>1
  <2>5. Earlier(c, n, k) = [made |-> n, of |-> c, kind |-> k, items |-> e, id |-> None]
    BY <2>3, <2>4
  <2> QED
    BY <2>1, <2>4, <2>5 DEF Outs
<1>2. \/ f = <<>>
      \/ \E k \in kinds : f = <<Earlier(c, -1, k)>>
      \/ "longer" \in Unusual /\ \E k, l \in kinds : f = <<Earlier(c, -1, k), Earlier(c, -2, l)>>
  BY DEF Before
<1>3. CASE f = <<>>
  BY <1>3
<1>4. ASSUME NEW x \in Outs(0), x.of = c, x.id = None, x.items = <<>>, f = <<x>>
      PROVE  /\ f \in Seq(Outs(0)) /\ Len(f) = 1
             /\ \A i \in DOMAIN f : f[i].of = c /\ f[i].id = None /\ f[i].items = <<>>
  BY <1>4
<1>5. ASSUME NEW x \in Outs(0), x.of = c, x.id = None, x.items = <<>>,
             NEW y \in Outs(0), y.of = c, y.id = None, y.items = <<>>, f = <<x, y>>
      PROVE  /\ f \in Seq(Outs(0))
             /\ \A i \in DOMAIN f : f[i].of = c /\ f[i].id = None /\ f[i].items = <<>>
  BY <1>5
<1>6. CASE \E k \in kinds : f = <<Earlier(c, -1, k)>>
  BY <1>1, <1>4, <1>6
<1>7. CASE "longer" \in Unusual
           /\ \E k, l \in kinds : f = <<Earlier(c, -1, k), Earlier(c, -2, l)>>
  BY <1>1, <1>5, <1>7
<1> QED
  BY <1>2, <1>3, <1>6, <1>7

(* The types hold at first.                                                 *)
LEMMA TypesAtFirst == OutputsInit => OutputsTypes
<1> SUFFICES ASSUME OutputsInit PROVE OutputsTypes
  OBVIOUS
<1>1. outputs \in [Cells -> UNION {Before(c) : c \in Cells}]
      /\ \A c \in Cells : outputs[c] \in Before(c)
  BY DEF OutputsInit
<1>2. outputs \in Docs(0) /\ sent = 0 /\ expected = outputs
  BY <1>1, EarlierTyped DEF Docs, OutputsInit
<1>3. DocTypes
  BY <1>2, OutputsAssumption DEF DocTypes, OutputsInit, OutputsAssumption
<1>4. HandlerTypes
  BY DEF HandlerTypes, OutputsInit, StreamPointers
<1>5. TrackerTypes
  BY DEF TrackerTypes, OutputsInit, Pointers
<1> QED
  BY <1>3, <1>4, <1>5 DEF OutputsTypes

(* Types as the invariant has them are those of OutputsTypeOK.              *)
LEMMA TypesMean == OutputsTypes => OutputsTypeOK
<1> SUFFICES ASSUME OutputsTypes PROVE OutputsTypeOK
  OBVIOUS
<1>1. sent \in Nat /\ outputs \in Docs(sent) /\ expected \in Docs(sent) /\ sent \in 0..MaxMessages
  BY FinalTyped DEF OutputsTypes, DocTypes
<1>2. Outs(sent) \subseteq Outputs
  <2>1. Seq(1..sent) \subseteq Seq(Nat) /\ -2..sent \subseteq Int
    BY <1>1
  <2> QED
    BY <2>1 DEF Outs, Outputs
<1>3. Seq(Outs(sent)) \subseteq Seq(Outputs)
  BY <1>2
<1>4. outputs \in [Cells -> Seq(Outputs)] /\ expected \in [Cells -> Seq(Outputs)]
  BY <1>1, <1>3 DEF Docs
<1>5. \A c \in Cells : lastStream[c] # None =>
        /\ c \in reattached
        /\ lastStream[c].stream \in Streams /\ lastStream[c].made \in -2..sent
  BY DEF OutputsTypes, HandlerTypes, StreamPointers
<1>6. \A d \in DisplayIds : displayed[d] # None =>
        displayed[d].cell \in Cells /\ displayed[d].made \in 1..sent
  BY DEF OutputsTypes, TrackerTypes, Pointers
<1> QED
  BY <1>1, <1>4, <1>5, <1>6 DEF OutputsTypes, HandlerTypes, TrackerTypes, OutputsTypeOK

(* Every state the handlers, the tracker and VS Code reach is well typed,   *)
(* and a handler continues only an output it made or looked for.            *)
THEOREM TypeCorrect == OutputsSpec => []OutputsTypeOK
<1> QED
  BY TypesAtFirst, TypesKept, TypesMean, PTL DEF OutputsSpec

-----------------------------------------------------------------------------
(* What edits do to a notebook.                                             *)

(* Two notebooks with the same outputs, but for their items.                *)
Alike(doc, new) ==
    \A b \in Cells :
        /\ DOMAIN new[b] = DOMAIN doc[b] /\ Len(new[b]) = Len(doc[b])
        /\ \A i \in DOMAIN doc[b] :
             /\ new[b][i].made = doc[b][i].made /\ new[b][i].of = doc[b][i].of
             /\ new[b][i].kind = doc[b][i].kind /\ new[b][i].id = doc[b][i].id

(* What is said of outputs, whatever their items are, stays true.           *)
LEMMA AlikeSound ==
  ASSUME NEW m \in Nat, NEW n \in Nat, NEW doc \in Docs(m), NEW new \in Docs(n),
         Alike(doc, new), NEW p, NEW q, NEW r
  PROVE  /\ DocSound(doc, p) => DocSound(new, p)
         /\ ContinuesLast(doc, q) => ContinuesLast(new, q)
         /\ TextFirst(doc, r) => TextFirst(new, r)
<1>1. ASSUME DocSound(doc, p) PROVE DocSound(new, p)
  BY <1>1 DEF Alike, DocSound, AtHome, NoTextWithId, LeadToIds, Is
<1>2. ASSUME ContinuesLast(doc, q) PROVE ContinuesLast(new, q)
  <2> SUFFICES ASSUME NEW c \in Cells, q[c] # None
               PROVE  /\ new[c] # <<>>
                      /\ Last(new[c]).kind = q[c].stream
                      /\ \A i \in DOMAIN new[c] : new[c][i].made = q[c].made <=> i = Len(new[c])
    BY DEF ContinuesLast
  <2>1. /\ doc[c] # <<>> /\ Last(doc[c]).kind = q[c].stream
        /\ \A i \in DOMAIN doc[c] : doc[c][i].made = q[c].made <=> i = Len(doc[c])
    BY <1>2 DEF ContinuesLast
  <2>2. doc[c] \in Seq(Outs(m)) /\ new[c] \in Seq(Outs(n))
    BY DEF Docs
  <2>3. Len(doc[c]) \in DOMAIN doc[c]
    BY <2>1, <2>2
  <2>4. Len(new[c]) = Len(doc[c]) /\ DOMAIN new[c] = DOMAIN doc[c]
        /\ \A i \in DOMAIN doc[c] : new[c][i].made = doc[c][i].made /\ new[c][i].kind = doc[c][i].kind
    BY DEF Alike
  <2>5. new[c] # <<>>
    BY <2>2, <2>3, <2>4
  <2> QED
    BY <2>1, <2>3, <2>4, <2>5 DEF Last
<1>3. ASSUME TextFirst(doc, r) PROVE TextFirst(new, r)
  BY <1>3, OutputsAssumption DEF Alike, TextFirst, IsStream, OutputsAssumption
<1> QED
  BY <1>1, <1>2, <1>3

(* Nothing is said of a cell without outputs.                               *)
LEMMA ClearedSound ==
  ASSUME NEW n \in Nat, NEW doc \in Docs(n), NEW c \in Cells, NEW p, NEW q, NEW r
  PROVE  /\ DocSound(doc, p) => DocSound(ClearAll(doc, c), p)
         /\ ContinuesLast(doc, q) /\ q[c] = None => ContinuesLast(ClearAll(doc, c), q)
         /\ TextFirst(doc, r) => TextFirst(ClearAll(doc, c), r)
         /\ Ordered(doc) => Ordered(ClearAll(doc, c))
<1>1. PICK new : new = ClearAll(doc, c)
  OBVIOUS
<1>2. new[c] = <<>> /\ \A b \in Cells \ {c} : new[b] = doc[b]
  BY <1>1, Clears
<1>3. DOMAIN new[c] = {}
  BY <1>2
<1>8. ASSUME NEW b \in Cells, NEW i \in DOMAIN new[b]
      PROVE  b # c /\ new[b] = doc[b] /\ i \in DOMAIN doc[b]
  <2>1. b # c
    BY <1>3, <1>8
  <2> QED
    BY <1>2, <1>8, <2>1
<1>4. ASSUME DocSound(doc, p) PROVE DocSound(new, p)
  <2>1. AtHome(new)
    BY <1>4, <1>8, Zenon DEF DocSound, AtHome
  <2>2. NoTextWithId(new)
    BY <1>4, <1>8, Zenon DEF DocSound, NoTextWithId
  <2>3. ASSUME NEW d \in DisplayIds, p[d] # None, NEW b \in Cells, NEW i \in DOMAIN new[b],
               Is(new[b][i], p[d].cell, p[d].made)
        PROVE  new[b][i].id = d
    <3>1. new[b] = doc[b] /\ i \in DOMAIN doc[b]
      BY <1>8
    <3> QED
      BY <1>4, <2>3, <3>1 DEF DocSound, LeadToIds
  <2> QED
    BY <2>1, <2>2, <2>3 DEF DocSound, LeadToIds
<1>5. ASSUME ContinuesLast(doc, q), q[c] = None PROVE ContinuesLast(new, q)
  <2> SUFFICES ASSUME NEW b \in Cells, q[b] # None
               PROVE  /\ new[b] # <<>>
                      /\ Last(new[b]).kind = q[b].stream
                      /\ \A i \in DOMAIN new[b] : new[b][i].made = q[b].made <=> i = Len(new[b])
    BY DEF ContinuesLast
  <2>1. new[b] = doc[b]
    BY <1>2, <1>5
  <2> QED
    BY <1>5, <2>1 DEF ContinuesLast
<1>6. ASSUME TextFirst(doc, r) PROVE TextFirst(new, r)
  <2> SUFFICES ASSUME NEW b \in Resumed \ r, NEW i \in DOMAIN new[b], IsStream(new[b][i])
               PROVE  i = 1
    BY DEF TextFirst
  <2>1. b \in Cells
    BY OutputsAssumption DEF OutputsAssumption
  <2>2. new[b] = doc[b] /\ i \in DOMAIN doc[b]
    BY <1>8, <2>1
  <2> QED
    BY <1>6, <2>2 DEF TextFirst
<1>7. ASSUME Ordered(doc) PROVE Ordered(new)
  BY <1>2, <1>3, <1>7 DEF Ordered
<1> QED
  BY <1>1, <1>4, <1>5, <1>6, <1>7

(* What is shown with one more output.                                      *)
Appended(doc, new, c, out) ==
    /\ Len(doc[c]) \in Nat /\ DOMAIN doc[c] = 1..Len(doc[c])
    /\ new[c] = Append(doc[c], out) /\ new[c] # <<>>
    /\ Len(new[c]) = Len(doc[c]) + 1 /\ DOMAIN new[c] = 1..(Len(doc[c]) + 1)
    /\ new[c][Len(doc[c]) + 1] = out
    /\ \A i \in DOMAIN doc[c] : new[c][i] = doc[c][i]
    /\ \A b \in Cells \ {c} : new[b] = doc[b]

(* A new output at the end of a cell.                                       *)
LEMMA AppendedFields ==
  ASSUME NEW m \in Nat, NEW n \in Nat, m < n, NEW doc \in Docs(m), NEW c \in Cells,
         NEW k \in Streams \cup {"display"}, NEW d \in DisplayIds \cup {None}
  PROVE  /\ AppendOut(doc, c, Output(n, c, k, d)) \in Docs(n)
         /\ Appended(doc, AppendOut(doc, c, Output(n, c, k, d)), c, Output(n, c, k, d))
<1>1. PICK out : out = Output(n, c, k, d)
  OBVIOUS
<1>2. out \in Outs(n) /\ doc \in Docs(n)
  <2>1. m <= n /\ n >= 1
    OBVIOUS
  <2>2. out \in Outs(n)
    BY <1>1, <2>1, NewOutput
  <2>3. Docs(m) \subseteq Docs(n)
    BY <2>1, TypesGrow
  <2> QED
    BY <2>2, <2>3
<1>3. PICK all : all = AppendOut(doc, c, out)
  OBVIOUS
<1>7. all \in Docs(n) /\ all = [b \in Cells |-> IF b = c THEN Append(doc[c], out) ELSE doc[b]]
  BY <1>2, <1>3, Appends
<1>4. doc[c] \in Seq(Outs(n))
  BY <1>2 DEF Docs
<1>5. all[c] = Append(doc[c], out) /\ \A b \in Cells \ {c} : all[b] = doc[b]
  BY <1>7
<1>6. /\ Len(doc[c]) \in Nat /\ Len(all[c]) = Len(doc[c]) + 1 /\ all[c] # <<>>
      /\ DOMAIN doc[c] = 1..Len(doc[c]) /\ DOMAIN all[c] = 1..(Len(doc[c]) + 1)
      /\ \A i \in DOMAIN doc[c] : all[c][i] = doc[c][i]
      /\ all[c][Len(doc[c]) + 1] = out
  BY <1>2, <1>4, <1>5
<1> QED
  BY <1>1, <1>3, <1>5, <1>6, <1>7 DEF Appended

(* What is shown was made, and has the content of messages, until now.      *)
LEMMA ShownFields ==
  ASSUME NEW m \in Nat, NEW doc \in Docs(m)
  PROVE  \A c \in Cells : \A i \in DOMAIN doc[c] :
           /\ doc[c][i] \in Outs(m) /\ doc[c][i].made \in Int /\ doc[c][i].made <= m
           /\ doc[c][i].kind \in Streams \cup {"display"}
           /\ doc[c][i].items \in Seq(1..m)
           /\ \A n \in ToSet(doc[c][i].items) : n \in Int /\ n <= m
<1> SUFFICES ASSUME NEW c \in Cells, NEW i \in DOMAIN doc[c]
             PROVE  /\ doc[c][i] \in Outs(m) /\ doc[c][i].made \in Int /\ doc[c][i].made <= m
                    /\ doc[c][i].kind \in Streams \cup {"display"}
                    /\ doc[c][i].items \in Seq(1..m)
                    /\ \A n \in ToSet(doc[c][i].items) : n \in Int /\ n <= m
  OBVIOUS
<1>1. doc[c] \in Seq(Outs(m))
  BY DEF Docs
<1>2. doc[c][i] \in Outs(m)
  BY <1>1
<1>3. PICK x \in Outs(m) : x = doc[c][i]
  BY <1>2
<1>4. x.items \in Seq(1..m)
  BY OutFields
<1>5. \A n \in ToSet(x.items) : n \in 1..m
  BY <1>4 DEF ToSet
<1> QED
  BY <1>3, <1>4, <1>5, OutFields

(* The pointer of a display id leads to a new output, or to none.           *)
Moved(p, p2, d, n) ==
    \A e \in DisplayIds : p2[e] # None =>
        (e = d => p2[e].made = n) /\ (e # d => p2[e] = p[e])

(* The stream of a cell is a new output of this kind, or none.              *)
Restreamed(q, q2, c, k, n) ==
    \A b \in Cells : q2[b] # None =>
        (b = c => q2[b].stream = k /\ q2[b].made = n) /\ (b # c => q2[b] = q[b])

(* An output of the cell whose message it is, made by it.                   *)
LEMMA AppendedSound ==
  ASSUME NEW m \in Nat, NEW n \in Nat, m < n, NEW doc \in Docs(m), NEW c \in Cells,
         NEW k \in Streams \cup {"display"}, NEW d \in DisplayIds \cup {None},
         d # None => k = "display",
         NEW p \in [DisplayIds -> Pointers(m)], NEW p2,
         Moved(p, p2, d, n),
         DocSound(doc, p)
  PROVE  DocSound(AppendOut(doc, c, Output(n, c, k, d)), p2)
<1> DEFINE out == Output(n, c, k, d)
<1>1. PICK new : new = AppendOut(doc, c, out)
  OBVIOUS
<1>2. out.made = n /\ out.of = c /\ out.kind = k /\ out.id = d
  BY NewOutput
<1> HIDE DEF out
<1>3. \A b \in Cells : \A i \in DOMAIN new[b] :
        \/ i \in DOMAIN doc[b] /\ new[b][i] = doc[b][i]
        \/ b = c /\ new[b][i] = out
  <2>1. new = AppendOut(doc, c, Output(n, c, k, d))
    BY <1>1 DEF out
  <2>2. Appended(doc, new, c, out)
    BY <2>1, AppendedFields DEF out
  <2>3. \A i \in DOMAIN new[c] : i \in DOMAIN doc[c] \/ i = Len(doc[c]) + 1
    BY <2>2 DEF Appended
  <2> QED
    BY <2>2, <2>3 DEF Appended
<1>4. AtHome(new) /\ NoTextWithId(new)
  BY <1>2, <1>3 DEF DocSound, AtHome, NoTextWithId
<1>5. ASSUME NEW e \in DisplayIds, p2[e] # None, NEW b \in Cells, NEW i \in DOMAIN new[b],
             Is(new[b][i], p2[e].cell, p2[e].made)
      PROVE  new[b][i].id = e
  <2>1. CASE e = d
    <3>1. d # None /\ p2[e].made = n
      BY <1>5, <2>1, OutputsAssumption DEF OutputsAssumption, Moved
    <3>2. i \in DOMAIN doc[b] => doc[b][i].made \in Int /\ doc[b][i].made <= m
      BY ShownFields
    <3> QED
      BY <1>2, <1>3, <1>5, <2>1, <3>1, <3>2 DEF Is
  <2>2. CASE e # d
    <3>1. p2[e] = p[e]
      BY <1>5, <2>2 DEF Moved
    <3>2. p[e].made \in 1..m
      BY <1>5, <3>1 DEF Pointers
    <3> QED
      BY <1>2, <1>3, <1>5, <3>1, <3>2 DEF Is, DocSound, LeadToIds
  <2> QED
    BY <2>1, <2>2
<1> QED
  BY <1>1, <1>4, <1>5 DEF DocSound, LeadToIds, out

(* It comes after all others, and its content after theirs.                 *)
LEMMA AppendedOrdered ==
  ASSUME NEW m \in Nat, NEW n \in Nat, m < n, NEW doc \in Docs(m), NEW c \in Cells,
         NEW k \in Streams \cup {"display"}, NEW d \in DisplayIds \cup {None}, Ordered(doc)
  PROVE  Ordered(AppendOut(doc, c, Output(n, c, k, d)))
<1> DEFINE out == Output(n, c, k, d)
<1>1. PICK new : new = AppendOut(doc, c, out)
  OBVIOUS
<1>2. out.made = n
  BY NewOutput
<1> HIDE DEF out
<1> SUFFICES ASSUME NEW b \in Cells, NEW i \in DOMAIN new[b], NEW j \in DOMAIN new[b],
                    i < j, IsStream(new[b][i]), NEW t \in ToSet(new[b][i].items)
             PROVE  t < new[b][j].made
  BY <1>1 DEF Ordered, out
<1>0. Appended(doc, new, c, out)
  BY <1>1, AppendedFields DEF out
<1>3. CASE b # c
  <2>1. new[b] = doc[b]
    BY <1>0, <1>3 DEF Appended
  <2> QED
    BY <2>1 DEF Ordered
<1>4. CASE b = c
  <2>1. /\ Len(doc[c]) \in Nat /\ DOMAIN doc[c] = 1..Len(doc[c])
        /\ DOMAIN new[c] = 1..(Len(doc[c]) + 1)
        /\ \A h \in DOMAIN doc[c] : new[c][h] = doc[c][h]
        /\ new[c][Len(doc[c]) + 1] = out
    BY <1>0 DEF Appended
  <2>2. i \in DOMAIN doc[c] /\ new[c][i] = doc[c][i]
    BY <1>4, <2>1
  <2>3. CASE j \in DOMAIN doc[c]
    BY <1>4, <2>1, <2>2, <2>3 DEF Ordered
  <2>4. CASE j \notin DOMAIN doc[c]
    <3>1. new[c][j] = out
      BY <1>4, <2>1, <2>4
    <3>2. t \in Int /\ t <= m
      BY <1>4, <2>2, ShownFields
    <3> QED
      BY <1>2, <1>4, <3>1, <3>2
  <2> QED
    BY <2>3, <2>4
<1> QED
  BY <1>3, <1>4

(* A stream is continued where it ends, if only its output is new.          *)
LEMMA AppendedContinues ==
  ASSUME NEW m \in Nat, NEW n \in Nat, m < n, NEW doc \in Docs(m), NEW c \in Cells,
         NEW k \in Streams \cup {"display"}, NEW d \in DisplayIds \cup {None},
         NEW q \in [Cells -> StreamPointers(m)], NEW q2, ContinuesLast(doc, q),
         Restreamed(q, q2, c, k, n)
  PROVE  ContinuesLast(AppendOut(doc, c, Output(n, c, k, d)), q2)
<1> DEFINE out == Output(n, c, k, d)
<1>1. PICK new : new = AppendOut(doc, c, out)
  OBVIOUS
<1>2. out.made = n /\ out.kind = k
  BY NewOutput
<1> HIDE DEF out
<1>0. Appended(doc, new, c, out)
  BY <1>1, AppendedFields DEF out
<1>3. ASSUME NEW b \in Cells, q2[b] # None
      PROVE  /\ new[b] # <<>>
             /\ Last(new[b]).kind = q2[b].stream
             /\ \A i \in DOMAIN new[b] : new[b][i].made = q2[b].made <=> i = Len(new[b])
  <2>1. CASE b # c
    <3>1. new[b] = doc[b] /\ q2[b] = q[b]
      BY <1>0, <1>3, <2>1 DEF Appended, Restreamed
    <3> QED
      BY <1>3, <3>1 DEF ContinuesLast
  <2>2. CASE b = c
    <3>1. q2[c].stream = k /\ q2[c].made = n
      BY <1>3, <2>2 DEF Restreamed
    <3>2. /\ Len(doc[c]) \in Nat /\ DOMAIN doc[c] = 1..Len(doc[c]) /\ new[c] # <<>>
          /\ DOMAIN new[c] = 1..(Len(doc[c]) + 1) /\ Len(new[c]) = Len(doc[c]) + 1
          /\ \A i \in DOMAIN doc[c] : new[c][i] = doc[c][i]
          /\ new[c][Len(doc[c]) + 1] = out
      BY <1>0 DEF Appended
    <3>3. \A i \in DOMAIN doc[c] : new[c][i].made \in Int /\ new[c][i].made <= m
      BY <3>2, ShownFields
    <3>4. \A i \in DOMAIN new[c] : new[c][i].made = n <=> i = Len(new[c])
      BY <1>2, <3>2, <3>3
    <3> QED
      BY <1>2, <2>2, <3>1, <3>2, <3>4 DEF Last
  <2> QED
    BY <2>1, <2>2
<1> QED
  BY <1>1, <1>3 DEF ContinuesLast, out

(* New content leaves the rest.                                             *)
LEMMA SetItemsAlike ==
  ASSUME NEW m \in Nat, NEW n \in Nat, m < n, NEW doc \in Docs(m), NEW c, NEW h
  PROVE  /\ SetItems(doc, c, h, n) \in Docs(n) /\ doc \in Docs(n)
         /\ Alike(doc, SetItems(doc, c, h, n))
         /\ \A b \in Cells : \A i \in DOMAIN doc[b] :
              IF Is(doc[b][i], c, h) THEN SetItems(doc, c, h, n)[b][i].items = <<n>>
              ELSE SetItems(doc, c, h, n)[b][i] = doc[b][i]
<1>1. Docs(m) \subseteq Docs(n) /\ n \in 1..n
  BY TypesGrow
<1>2. PICK new \in {SetItems(doc, c, h, n), AddItem(doc, c, h, n)} : new = SetItems(doc, c, h, n)
  OBVIOUS
<1>3. doc \in Docs(n)
  BY <1>1
<1> QED
  BY <1>1, <1>2, <1>3, ChangesItems DEF Alike

(* So does one more message in an output.                                   *)
LEMMA AddItemAlike ==
  ASSUME NEW m \in Nat, NEW n \in Nat, m < n, NEW doc \in Docs(m), NEW c, NEW h
  PROVE  /\ AddItem(doc, c, h, n) \in Docs(n) /\ doc \in Docs(n)
         /\ Alike(doc, AddItem(doc, c, h, n))
         /\ \A b \in Cells : \A i \in DOMAIN doc[b] :
              IF Is(doc[b][i], c, h)
              THEN AddItem(doc, c, h, n)[b][i].items = Append(doc[b][i].items, n)
              ELSE AddItem(doc, c, h, n)[b][i] = doc[b][i]
<1>1. Docs(m) \subseteq Docs(n) /\ n \in 1..n
  BY TypesGrow
<1>2. PICK new \in {SetItems(doc, c, h, n), AddItem(doc, c, h, n)} : new = AddItem(doc, c, h, n)
  OBVIOUS
<1>3. doc \in Docs(n)
  BY <1>1
<1>4. new \in Docs(n) /\ Alike(doc, new)
      /\ \A b \in Cells : \A i \in DOMAIN doc[b] : ~Is(doc[b][i], c, h) => new[b][i] = doc[b][i]
  BY <1>1, <1>2, <1>3, ChangesItems DEF Alike
<1>5. ASSUME NEW b \in Cells, NEW i \in DOMAIN doc[b], Is(doc[b][i], c, h)
      PROVE  new[b][i].items = Append(doc[b][i].items, n)
  <2>1. PICK x \in Outs(m) : x = doc[b][i]
    BY ShownFields
  <2>2. PICK l : l = Append(x.items, n)
    OBVIOUS
  <2>3. new[b][i] = [x EXCEPT !.items = l]
    BY <1>2, <1>5, <2>1, <2>2 DEF AddItem
  <2>4. new[b][i].items = l
    BY <2>3 DEF Outs
  <2> QED
    BY <2>1, <2>2, <2>4
<1> QED
  BY <1>2, <1>3, <1>4, <1>5

(* New content for outputs with a display id, which are no text.            *)
LEMMA SetItemsOrdered ==
  ASSUME NEW m \in Nat, NEW n \in Nat, m < n, NEW doc \in Docs(m), NEW p,
         NEW d \in DisplayIds, p[d] # None, DocSound(doc, p), Ordered(doc)
  PROVE  Ordered(SetItems(doc, p[d].cell, p[d].made, n))
<1>1. PICK new : new = SetItems(doc, p[d].cell, p[d].made, n)
  OBVIOUS
<1>2. /\ Alike(doc, new)
      /\ \A b \in Cells : \A i \in DOMAIN doc[b] :
           ~Is(doc[b][i], p[d].cell, p[d].made) => new[b][i] = doc[b][i]
  BY <1>1, SetItemsAlike
<1> SUFFICES ASSUME NEW b \in Cells, NEW i \in DOMAIN new[b], NEW j \in DOMAIN new[b],
                    i < j, IsStream(new[b][i]), NEW t \in ToSet(new[b][i].items)
             PROVE  t < new[b][j].made
  BY <1>1 DEF Ordered
<1>3. /\ i \in DOMAIN doc[b] /\ j \in DOMAIN doc[b] /\ new[b][j].made = doc[b][j].made
      /\ new[b][i].kind = doc[b][i].kind
  BY <1>2 DEF Alike
<1>4. doc[b][i].kind # "display"
  BY <1>3, OutputsAssumption DEF IsStream, OutputsAssumption
<1>5. d # None
  BY OutputsAssumption DEF OutputsAssumption
<1>6. ~Is(doc[b][i], p[d].cell, p[d].made)
  BY <1>3, <1>4, <1>5 DEF DocSound, LeadToIds, NoTextWithId
<1>7. new[b][i] = doc[b][i]
  BY <1>2, <1>3, <1>6
<1> QED
  BY <1>3, <1>7 DEF Ordered

(* The last output of a cell, with one more message.                        *)
Extended(doc, new, c, n) ==
    /\ Alike(doc, new) /\ doc[c] # <<>>
    /\ \A b \in Cells \ {c} : new[b] = doc[b]
    /\ \A i \in DOMAIN doc[c] : i # Len(doc[c]) => new[c][i] = doc[c][i]
    /\ new[c][Len(doc[c])].items = Append(doc[c][Len(doc[c])].items, n)

(* A message that continues the last output of a cell.                      *)
LEMMA AddItemExtends ==
  ASSUME NEW m \in Nat, NEW n \in Nat, m < n, NEW doc \in Docs(m), NEW c \in Cells, NEW h,
         AtHome(doc), doc[c] # <<>>,
         \A i \in DOMAIN doc[c] : doc[c][i].made = h <=> i = Len(doc[c])
  PROVE  Extended(doc, AddItem(doc, c, h, n), c, n)
<1>1. PICK new : new = AddItem(doc, c, h, n)
  OBVIOUS
<1>2. /\ Alike(doc, new) /\ new \in Docs(n)
      /\ \A b \in Cells : \A i \in DOMAIN doc[b] :
           ~Is(doc[b][i], c, h) => new[b][i] = doc[b][i]
      /\ \A b \in Cells : \A i \in DOMAIN doc[b] : Is(doc[b][i], c, h) =>
           new[b][i].items = Append(doc[b][i].items, n)
  BY <1>1, AddItemAlike
<1>3. \A b \in Cells \ {c} : new[b] = doc[b]
  <2> SUFFICES ASSUME NEW b \in Cells \ {c} PROVE new[b] = doc[b]
    OBVIOUS
  <2>1. new[b] \in Seq(Outs(n)) /\ doc[b] \in Seq(Outs(m)) /\ DOMAIN new[b] = DOMAIN doc[b]
    BY <1>2 DEF Docs, Alike
  <2>2. \A i \in DOMAIN doc[b] : ~Is(doc[b][i], c, h)
    BY DEF AtHome, Is
  <2>3. \A i \in DOMAIN doc[b] : new[b][i] = doc[b][i]
    BY <1>2, <2>2
  <2> QED
    BY <2>1, <2>3
<1>4. \A i \in DOMAIN doc[c] : Is(doc[c][i], c, h) <=> i = Len(doc[c])
  BY DEF AtHome, Is
<1>5. Len(doc[c]) \in DOMAIN doc[c]
  <2>1. doc[c] \in Seq(Outs(m))
    BY DEF Docs
  <2> QED
    BY <2>1
<1> QED
  BY <1>1, <1>2, <1>3, <1>4, <1>5 DEF Extended

(* The reader's way of saying it.                                           *)
LEMMA ReaderExtends ==
  ASSUME NEW m \in Nat, NEW n \in Nat, m < n, NEW doc \in Docs(m), NEW c \in Cells,
         doc[c] # <<>>
  PROVE  LET new == [doc EXCEPT ![c] =
                       Front(doc[c]) \o <<[Last(doc[c]) EXCEPT !.items = Append(@, n)]>>]
         IN  new \in Docs(n) /\ Extended(doc, new, c, n)
<1>1. PICK q : q = doc[c]
  OBVIOUS
<1>2. q \in Seq(Outs(m)) /\ q # <<>>
  BY <1>1 DEF Docs
<1>3. /\ Len(q) \in Nat \ {0} /\ Len(q) \in DOMAIN q /\ DOMAIN q = 1..Len(q)
      /\ q[Len(q)] \in Outs(m) /\ Last(q) = q[Len(q)]
  BY <1>2 DEF Last
<1>4. Front(q) \in Seq(Outs(m)) /\ Len(Front(q)) = Len(q) - 1
      /\ \A i \in 1..(Len(q) - 1) : Front(q)[i] = q[i]
  <2>1. PICK k : k = Len(q) - 1
    OBVIOUS
  <2>2. k \in Nat /\ k <= Len(q)
    BY <1>3, <2>1
  <2>3. SubSeq(q, 1, k) \in Seq(Outs(m)) /\ Len(SubSeq(q, 1, k)) = k
        /\ \A i \in 1..k : SubSeq(q, 1, k)[i] = q[i]
    BY <1>2, <2>2
  <2> QED
    BY <2>1, <2>3 DEF Front
<1>5. PICK x : x = [q[Len(q)] EXCEPT !.items = Append(@, n)]
  OBVIOUS
<1>6. PICK y \in Outs(m) : y = q[Len(q)]
  BY <1>3
<1>7. /\ x \in Outs(n) /\ x.items = Append(y.items, n) /\ x.made = y.made
      /\ x.of = y.of /\ x.kind = y.kind /\ x.id = y.id
  <2>1. PICK l : l = Append(y.items, n)
    OBVIOUS
  <2>2. Outs(m) \subseteq Outs(n)
    BY TypesGrow
  <2>3. y.items \in Seq(1..n) /\ y \in Outs(n) /\ n \in 1..n
    BY <2>2, OutFields
  <2>4. l \in Seq(1..n)
    BY <2>1, <2>3
  <2>5. x = [y EXCEPT !.items = l]
    BY <1>5, <1>6, <2>1
  <2>6. /\ [y EXCEPT !.items = l] \in Outs(n) /\ [y EXCEPT !.items = l].items = l
        /\ [y EXCEPT !.items = l].made = y.made /\ [y EXCEPT !.items = l].of = y.of
        /\ [y EXCEPT !.items = l].kind = y.kind /\ [y EXCEPT !.items = l].id = y.id
    BY <2>3, <2>4 DEF Outs
  <2> QED
    BY <2>1, <2>5, <2>6
<1>8. PICK f : f = Front(q)
  OBVIOUS
<1>9. PICK e : e = f \o <<x>>
  OBVIOUS
<1>10. f \in Seq(Outs(n))
  <2>1. Seq(Outs(m)) \subseteq Seq(Outs(n))
    BY TypesGrow
  <2> QED
    BY <1>4, <1>8, <2>1
<1>11. /\ e \in Seq(Outs(n)) /\ Len(e) = Len(q) /\ DOMAIN e = 1..Len(q)
       /\ \A i \in 1..(Len(q) - 1) : e[i] = q[i]
       /\ e[Len(q)] = x
  <2>1. PICK z \in Outs(n) : z = x
    BY <1>7
  <2>2. e = f \o <<z>> /\ <<z>> \in Seq(Outs(n)) /\ Len(<<z>>) = 1 /\ <<z>>[1] = z
    BY <1>9, <2>1
  <2>3. e \in Seq(Outs(n)) /\ Len(e) = Len(f) + 1 /\ e[Len(f) + 1] = z
        /\ Len(f) \in Nat /\ \A i \in 1..Len(f) : e[i] = f[i]
    BY <1>10, <2>2
  <2>4. Len(f) = Len(q) - 1
    BY <1>4, <1>8
  <2>5. Len(f) + 1 = Len(q)
    BY <1>3, <2>4
  <2>6. Len(e) = Len(q) /\ e[Len(q)] = x /\ DOMAIN e = 1..Len(q)
    BY <2>1, <2>3, <2>5
  <2>7. \A i \in 1..(Len(q) - 1) : e[i] = q[i]
    BY <1>4, <1>8, <2>3, <2>4
  <2> QED
    BY <2>3, <2>6, <2>7
<1>12. PICK new : new = [doc EXCEPT ![c] = e]
  OBVIOUS
<1>13. new \in Docs(n) /\ new[c] = e /\ \A b \in Cells \ {c} : new[b] = doc[b]
  <2>1. doc \in Docs(n)
    BY TypesGrow
  <2> QED
    BY <1>11, <1>12, <2>1 DEF Docs
<1>14. Alike(doc, new)
  <2> SUFFICES ASSUME NEW b \in Cells
               PROVE  /\ DOMAIN new[b] = DOMAIN doc[b] /\ Len(new[b]) = Len(doc[b])
                      /\ \A i \in DOMAIN doc[b] :
                           /\ new[b][i].made = doc[b][i].made /\ new[b][i].of = doc[b][i].of
                           /\ new[b][i].kind = doc[b][i].kind /\ new[b][i].id = doc[b][i].id
    BY DEF Alike
  <2>1. CASE b # c
    BY <1>13, <2>1
  <2>2. CASE b = c
    <3>1. \A i \in 1..Len(q) : i \in 1..(Len(q) - 1) \/ i = Len(q)
      <4>1. \A l \in Nat : \A i \in 1..l : i \in 1..(l - 1) \/ i = l
        OBVIOUS
      <4> QED
        BY <1>3, <4>1, Zenon
    <3>2. DOMAIN new[c] = DOMAIN doc[c] /\ Len(new[c]) = Len(doc[c])
      BY <1>1, <1>3, <1>11, <1>13
    <3>3. ASSUME NEW i \in DOMAIN doc[c]
          PROVE  new[c][i] = doc[c][i] \/ (new[c][i] = x /\ doc[c][i] = y)
      BY <1>1, <1>3, <1>6, <1>11, <1>13, <3>1
    <3> QED
      BY <1>7, <2>2, <3>2, <3>3
  <2> QED
    BY <2>1, <2>2
<1>15. \A i \in DOMAIN q : i # Len(q) => e[i] = q[i]
  BY <1>3, <1>11
<1>16. Extended(doc, new, c, n)
  BY <1>1, <1>2, <1>6, <1>7, <1>11, <1>13, <1>14, <1>15 DEF Extended
<1>17. new = [doc EXCEPT ![c] = Front(doc[c]) \o <<[Last(doc[c]) EXCEPT !.items = Append(@, n)]>>]
  BY <1>1, <1>3, <1>5, <1>8, <1>9, <1>12
<1> QED
  BY <1>13, <1>16, <1>17

(* Text that is added to the last output is after nothing.                  *)
LEMMA ExtendedOrdered ==
  ASSUME NEW m \in Nat, NEW n \in Nat, NEW doc \in Docs(m), NEW c \in Cells, NEW new \in Docs(n),
         Extended(doc, new, c, n), Ordered(doc)
  PROVE  Ordered(new)
<1> SUFFICES ASSUME NEW b \in Cells, NEW i \in DOMAIN new[b], NEW j \in DOMAIN new[b],
                    i < j, IsStream(new[b][i]), NEW t \in ToSet(new[b][i].items)
             PROVE  t < new[b][j].made
  BY DEF Ordered
<1>1. doc[b] \in Seq(Outs(m)) /\ i \in DOMAIN doc[b] /\ j \in DOMAIN doc[b]
      /\ new[b][j].made = doc[b][j].made
  BY DEF Docs, Extended, Alike
<1>2. i # Len(doc[b])
  BY <1>1
<1>3. new[b][i] = doc[b][i]
  BY <1>1, <1>2 DEF Extended
<1> QED
  BY <1>1, <1>3 DEF Ordered

(* The outputs with a display id, made anew.                                *)
Remade(doc, new, b, d, x) ==
    /\ DOMAIN new[b] = DOMAIN doc[b] /\ Len(new[b]) = Len(doc[b])
    /\ \A i \in DOMAIN doc[b] : new[b][i] = IF doc[b][i].id = d THEN x ELSE doc[b][i]
    /\ \A c \in Cells \ {b} : new[c] = doc[c]

(* What is said of a notebook stays true when the outputs are written back. *)
LEMMA RemadeSound ==
  ASSUME NEW m \in Nat, NEW n \in Nat, m < n, NEW doc \in Docs(m), NEW new \in Docs(n),
         NEW b \in Cells, NEW d \in DisplayIds,
         Remade(doc, new, b, d, Output(n, b, "display", d)),
         NEW p \in [DisplayIds -> Pointers(m)], NEW p2,
         Moved(p, p2, d, n),
         DocSound(doc, p), Ordered(doc),
         NEW q \in [Cells -> StreamPointers(m)], NEW r
  PROVE  /\ DocSound(new, p2)
         /\ ContinuesLast(doc, q) => ContinuesLast(new, q)
         /\ TextFirst(doc, r) => TextFirst(new, r)
         /\ Ordered(new)
<1>1. PICK x : x = Output(n, b, "display", d)
  OBVIOUS
<1>2. x.made = n /\ x.of = b /\ x.kind = "display" /\ x.id = d
  <2>1. "display" \in Streams \cup {"display"} /\ d \in DisplayIds \cup {None} /\ n >= 1
    OBVIOUS
  <2>2. PICK k \in Streams \cup {"display"} : k = "display"
    BY <2>1
  <2>3. /\ Output(n, b, k, d).made = n /\ Output(n, b, k, d).of = b
        /\ Output(n, b, k, d).kind = k /\ Output(n, b, k, d).id = d
    BY <2>1, NewOutput
  <2> QED
    BY <1>1, <2>2, <2>3
<1>3. d # None /\ "display" \notin Streams
  BY OutputsAssumption DEF OutputsAssumption
<1>4. \A c \in Cells : \A i \in DOMAIN new[c] :
        /\ i \in DOMAIN doc[c]
        /\ new[c][i] = doc[c][i] \/ (c = b /\ doc[b][i].id = d /\ new[c][i] = x)
  BY <1>1 DEF Remade
<1>6. AtHome(new) /\ NoTextWithId(new)
  BY <1>2, <1>4 DEF DocSound, AtHome, NoTextWithId
<1>7. ASSUME NEW e \in DisplayIds, p2[e] # None, NEW c \in Cells, NEW i \in DOMAIN new[c],
             Is(new[c][i], p2[e].cell, p2[e].made)
      PROVE  new[c][i].id = e
  <2>1. CASE e = d
    <3>1. p2[e].made = n
      BY <1>7, <2>1 DEF Moved
    <3>2. i \in DOMAIN doc[c] => doc[c][i].made \in Int /\ doc[c][i].made <= m
      BY ShownFields
    <3> QED
      BY <1>2, <1>4, <1>7, <2>1, <3>1, <3>2 DEF Is
  <2>2. CASE e # d
    <3>1. p2[e] = p[e]
      BY <1>7, <2>2 DEF Moved
    <3>2. p[e].made \in 1..m
      BY <1>7, <3>1 DEF Pointers
    <3>3. new[c][i] = doc[c][i]
      BY <1>2, <1>4, <1>7, <3>1, <3>2 DEF Is
    <3> QED
      BY <1>4, <1>7, <3>1, <3>3 DEF DocSound, LeadToIds
  <2> QED
    BY <2>1, <2>2
<1>8. ASSUME ContinuesLast(doc, q) PROVE ContinuesLast(new, q)
  <2> SUFFICES ASSUME NEW c \in Cells, q[c] # None
               PROVE  /\ new[c] # <<>>
                      /\ Last(new[c]).kind = q[c].stream
                      /\ \A i \in DOMAIN new[c] : new[c][i].made = q[c].made <=> i = Len(new[c])
    BY DEF ContinuesLast
  <2>1. /\ doc[c] # <<>> /\ Last(doc[c]).kind = q[c].stream
        /\ \A i \in DOMAIN doc[c] : doc[c][i].made = q[c].made <=> i = Len(doc[c])
    BY <1>8 DEF ContinuesLast
  <2>2. q[c].made \in -2..m /\ q[c].stream \in Streams
    BY DEF StreamPointers
  <2>3. CASE c # b
    BY <2>1, <2>3 DEF Remade
  <2>4. CASE c = b
    <3>1. doc[b] \in Seq(Outs(m)) /\ new[b] \in Seq(Outs(n))
      BY DEF Docs
    <3>2. Len(doc[b]) \in DOMAIN doc[b] /\ new[b] # <<>> /\ Len(new[b]) = Len(doc[b])
          /\ DOMAIN new[b] = DOMAIN doc[b]
      BY <2>1, <2>4, <3>1 DEF Remade
    <3>3. doc[b][Len(doc[b])].id # d
      BY <1>3, <2>1, <2>2, <2>4, <3>2 DEF Last, DocSound, NoTextWithId
    <3>4. new[b][Len(doc[b])] = doc[b][Len(doc[b])]
      BY <3>2, <3>3 DEF Remade
    <3>5. \A i \in DOMAIN new[b] : new[b][i].made = q[b].made <=> i = Len(new[b])
      BY <1>2, <1>4, <2>1, <2>2, <2>4, <3>2, <3>4
    <3> QED
      BY <2>1, <2>4, <3>2, <3>4, <3>5 DEF Last
  <2> QED
    BY <2>3, <2>4
<1>9. ASSUME TextFirst(doc, r) PROVE TextFirst(new, r)
  <2> SUFFICES ASSUME NEW c \in Resumed \ r, NEW i \in DOMAIN new[c], IsStream(new[c][i])
               PROVE  i = 1
    BY DEF TextFirst
  <2>1. c \in Cells
    BY OutputsAssumption DEF OutputsAssumption
  <2>2. i \in DOMAIN doc[c] /\ new[c][i] = doc[c][i]
    BY <1>2, <1>3, <1>4, <2>1 DEF IsStream
  <2> QED
    BY <1>9, <2>2 DEF TextFirst
<1>10. Ordered(new)
  <2> SUFFICES ASSUME NEW c \in Cells, NEW i \in DOMAIN new[c], NEW j \in DOMAIN new[c],
                      i < j, IsStream(new[c][i]), NEW t \in ToSet(new[c][i].items)
               PROVE  t < new[c][j].made
    BY DEF Ordered
  <2>1. i \in DOMAIN doc[c] /\ j \in DOMAIN doc[c] /\ new[c][i] = doc[c][i]
    BY <1>2, <1>3, <1>4 DEF IsStream
  <2>2. t \in Int /\ t <= m
    BY <2>1, ShownFields
  <2>3. CASE new[c][j] = doc[c][j]
    BY <2>1, <2>3 DEF Ordered
  <2>4. CASE new[c][j] = x
    BY <1>2, <2>2, <2>4
  <2> QED
    BY <1>4, <2>3, <2>4
<1> QED
  BY <1>6, <1>7, <1>8, <1>9, <1>10 DEF DocSound, LeadToIds

-----------------------------------------------------------------------------
(* What each message does to the notebook and to the reader, when nothing   *)
(* unusual happens: the task is then one of the cell that writes.           *)

(* What is shown of a cell that is to be cleared first, when it is in S.    *)
Base(doc, c, S) == IF c \in S THEN ClearAll(doc, c) ELSE doc

(* A text continues an output, of the notebook or of the reader.            *)
Goes(c, s) ==
    /\ c \notin clearWait
    /\ Continues(c, s) \/ (lastStream[c] # None /\ lastStream[c].stream = s)
ReaderGoes(c, s) == Room(c) # <<>> /\ Last(Room(c)).kind = s /\ c \notin apart

(* The pointer of a handler that goes on with a stream.                     *)
GoesOnAt(c, s) ==
    IF Continues(c, s) THEN [stream |-> s, made |-> Head(outputs[c]).made] ELSE lastStream[c]

(* Messages of a cell are written by its own task.                          *)
LEMMA OwnTask ==
  ASSUME Calm, NEW c \in Cells, Writes(c)
  PROVE  TaskCell(c) = c
BY DEF Calm, TaskCell, Writes, Active

(* What is read has every edit.                                             *)
LEMMA ReadsAll ==
  ASSUME OutputsTypes, Calm, Message, MayRead
  PROVE  edits = <<>> /\ Final = outputs
<1>1. PICK E : E = [shows : Docs(sent), gives : SUBSET Cells]
  OBVIOUS
<1>2. edits \in Seq(E) /\ (lag = 1 => Len(edits) < 1)
  BY <1>1 DEF OutputsTypes, DocTypes, Message
<1>3. edits = <<>>
  BY <1>2 DEF MayRead, Calm
<1> QED
  BY <1>3 DEF Final

(* A cell that is cleared first, or not.                                    *)
LEMMA BaseFields ==
  ASSUME NEW m \in Nat, NEW doc \in Docs(m), NEW c \in Cells, NEW S
  PROVE  /\ Base(doc, c, S) \in Docs(m)
         /\ Base(doc, c, S)[c] = IF c \in S THEN <<>> ELSE doc[c]
         /\ \A b \in Cells \ {c} : Base(doc, c, S)[b] = doc[b]
BY Clears DEF Base

(* Writing a cell makes what was there of no account.                       *)
LEMMA BaseWritten ==
  ASSUME NEW m \in Nat, NEW doc \in Docs(m), NEW c \in Cells, NEW S, NEW x
  PROVE  [doc EXCEPT ![c] = x] = [Base(doc, c, S) EXCEPT ![c] = x]
<1>1. PICK base : base = Base(doc, c, S)
  OBVIOUS
<1>2. base \in Docs(m) /\ \A b \in Cells \ {c} : base[b] = doc[b]
  BY <1>1, BaseFields
<1>3. [doc EXCEPT ![c] = x] = [base EXCEPT ![c] = x]
  BY <1>2 DEF Docs
<1> QED
  BY <1>1, <1>3

(* The outputs a message appends to, or replaces.                           *)
LEMMA ReplacedIsAppended ==
  ASSUME NEW m \in Nat, NEW doc \in Docs(m), NEW c \in Cells, NEW out \in Outs(m)
  PROVE  ReplaceOut(ClearAll(doc, c), c, <<out>>) = AppendOut(ClearAll(doc, c), c, out)
<1>1. PICK new : new = ClearAll(doc, c)
  OBVIOUS
<1>2. new \in Docs(m) /\ new[c] = <<>>
  BY <1>1, Clears
<1>3. ReplaceOut(new, c, <<out>>) = [b \in Cells |-> IF b = c THEN <<out>> ELSE new[b]]
  BY <1>2 DEF ReplaceOut, Docs
<1>4. AppendOut(new, c, out) = [b \in Cells |-> IF b = c THEN Append(new[c], out) ELSE new[b]]
  BY <1>2, Appends
<1>5. Append(<<>>, out) = <<out>>
  OBVIOUS
<1>6. Append(new[c], out) = <<out>>
  BY <1>2, <1>5
<1> QED
  BY <1>1, <1>3, <1>4, <1>6

(* Room of the reader, in terms of its notebook.                            *)
LEMMA RoomIsBase ==
  ASSUME OutputsTypes, NEW c \in Cells
  PROVE  Room(c) = Base(expected, c, waiting)[c]
<1>1. sent \in Nat /\ expected \in Docs(sent)
  BY FinalTyped DEF OutputsTypes, DocTypes
<1> QED
  BY <1>1, BaseFields DEF Room

(* Where a handler goes on, there is the last output of its cell.           *)
LEMMA GoesOnAtLast ==
  ASSUME OutputsTypes, Calm, Sound, NEW c \in Cells, NEW s \in Streams,
         StreamMessage(c, s), Goes(c, s)
  PROVE  /\ GoesOnAt(c, s) # None /\ GoesOnAt(c, s).stream = s
         /\ Final[c] # <<>> /\ Last(Final[c]).kind = s
         /\ \A i \in DOMAIN Final[c] :
              Final[c][i].made = GoesOnAt(c, s).made <=> i = Len(Final[c])
<1>1. CASE ~Continues(c, s)
  BY <1>1 DEF Goes, GoesOnAt, Sound, ContinuesLast
<1>2. CASE Continues(c, s)
  <2>1. c \in Resumed \ reattached /\ outputs[c] # <<>> /\ Last(outputs[c]).kind = s
    BY <1>2 DEF Continues
  <2>2. Final = outputs
    BY <2>1, ReadsAll DEF StreamMessage
  <2>3. sent \in Nat /\ outputs[c] \in Seq(Outs(sent))
    BY FinalTyped DEF OutputsTypes
  <2>4. PICK q : q = outputs[c]
    OBVIOUS
  <2>5. /\ q \in Seq(Outs(sent)) /\ q # <<>> /\ Len(q) \in DOMAIN q
        /\ Last(q) = q[Len(q)] /\ Head(q) = q[1] /\ DOMAIN q = 1..Len(q)
    BY <2>1, <2>3, <2>4 DEF Last
  <2>6. IsStream(q[Len(q)])
    BY <2>1, <2>4, <2>5 DEF IsStream
  <2>7. Len(q) = 1
    BY <2>1, <2>2, <2>4, <2>5, <2>6 DEF Sound, TextFirst
  <2>8. q[1].made \in Int
    <3>1. q[1] \in Outs(sent)
      BY <2>5, <2>7
    <3> QED
      BY <2>3, <3>1, OutFields
  <2>9. GoesOnAt(c, s) = [stream |-> s, made |-> q[1].made]
    BY <1>2, <2>4, <2>5 DEF GoesOnAt
  <2>10. GoesOnAt(c, s) # None /\ GoesOnAt(c, s).stream = s /\ GoesOnAt(c, s).made = q[1].made
    BY <2>8, <2>9, NoneIsNoPointer
  <2>11. \A i \in DOMAIN q : i = 1
    BY <2>5, <2>7
  <2> QED
    BY <2>1, <2>2, <2>4, <2>5, <2>7, <2>10, <2>11
<1> QED
  BY <1>1, <1>2

(* What a text does.                                                        *)
TextShape(c, s, n, fin, exp) ==
    /\ fin \in Docs(n) /\ exp \in Docs(n)
    /\ IF Goes(c, s)
       THEN /\ Extended(Final, fin, c, n) /\ Last(Final[c]).kind = s
            /\ lastStream' = [lastStream EXCEPT ![c] = GoesOnAt(c, s)]
       ELSE /\ fin = AppendOut(Base(Final, c, clearWait), c, Output(n, c, s, None))
            /\ lastStream' = [lastStream EXCEPT ![c] = [stream |-> s, made |-> n]]
    /\ IF ReaderGoes(c, s)
       THEN Extended(expected, exp, c, n) /\ Last(expected[c]).kind = s /\ c \notin waiting
       ELSE exp = AppendOut(Base(expected, c, waiting), c, Output(n, c, s, None))

(* It does.                                                                 *)
LEMMA TextShapes ==
  ASSUME OutputsTypes, Calm, Sound, NEW c \in Cells, NEW s \in Streams,
         StreamMessage(c, s)
  PROVE  \E fin, exp : Final' = fin /\ expected' = exp /\ TextShape(c, s, sent + 1, fin, exp)
<1> DEFINE n    == sent + 1
           out  == Output(n, c, s, None)
           last == IF c \in clearWait THEN None ELSE GoesOnAt(c, s)
           same == last # None /\ last.stream = s
<1>1. Message /\ n = sent' /\ DocTypes /\ TaskCell(c) = c /\ clearWait = waiting
  BY OwnTask DEF StreamMessage, Message, OutputsTypes, Sound
<1>2. /\ sent \in Nat /\ n \in Nat /\ sent < n /\ sent <= n /\ n >= 1
      /\ Final \in Docs(sent) /\ expected \in Docs(sent)
  BY <1>1, FinalTyped DEF DocTypes
<1>3. Docs(sent) \subseteq Docs(n) /\ out \in Outs(n) /\ Final \in Docs(n) /\ expected \in Docs(n)
  BY <1>2, TypesGrow, NewOutput
<1>4. same <=> Goes(c, s)
  <2>1. Goes(c, s) => same
    BY GoesOnAtLast DEF Goes
  <2>2. same => Goes(c, s)
    BY DEF Goes, GoesOnAt
  <2> QED
    BY <2>1, <2>2
<1>5. /\ IF same THEN Ask(AddItem(Final, c, last.made, n), {})
         ELSE IF c \in clearWait
         THEN Ask(ReplaceOut(ClearIfWaiting(c), TaskCell(c), <<out>>), {TaskCell(c)})
         ELSE Ask(AppendOut(Final, TaskCell(c), out), {TaskCell(c)})
      /\ lastStream' = [lastStream EXCEPT
                           ![c] = IF same THEN last ELSE [stream |-> s, made |-> n]]
  BY DEF StreamMessage, GoesOnAt
<1>6. \E fin \in Docs(n) :
        /\ Final' = fin
        /\ IF Goes(c, s)
           THEN /\ Extended(Final, fin, c, n) /\ Last(Final[c]).kind = s
                /\ lastStream' = [lastStream EXCEPT ![c] = GoesOnAt(c, s)]
           ELSE /\ fin = AppendOut(Base(Final, c, clearWait), c, out)
                /\ lastStream' = [lastStream EXCEPT ![c] = [stream |-> s, made |-> n]]
  <2>1. CASE Goes(c, s)
    <3>1. last = GoesOnAt(c, s) /\ same
      BY <1>4, <2>1 DEF Goes
    <3>2. PICK fin : fin = AddItem(Final, c, last.made, n)
      OBVIOUS
    <3>3. fin \in Docs(n)
      BY <1>2, <3>2, AddItemAlike
    <3>4. Ask(fin, {}) /\ {} \in SUBSET Cells
      BY <1>5, <3>1, <3>2
    <3>5. Final' = fin
      BY <1>1, <1>2, <3>3, <3>4, AskShows
    <3>6. /\ Final[c] # <<>> /\ Last(Final[c]).kind = s /\ AtHome(Final)
          /\ \A i \in DOMAIN Final[c] : Final[c][i].made = last.made <=> i = Len(Final[c])
      BY <2>1, <3>1, GoesOnAtLast DEF Sound, DocSound
    <3>7. Extended(Final, fin, c, n)
      <4> HIDE DEF last, n
      <4> QED
        BY <1>2, <3>2, <3>6, AddItemExtends
    <3> QED
      BY <1>5, <2>1, <3>1, <3>3, <3>5, <3>6, <3>7
  <2>2. CASE ~Goes(c, s)
    <3>1. PICK fin : fin = AppendOut(Base(Final, c, clearWait), c, out)
      OBVIOUS
    <3>2. fin \in Docs(n)
      <4>1. Base(Final, c, clearWait) \in Docs(n)
        BY <1>2, <1>3, BaseFields
      <4> QED
        BY <1>2, <1>3, <3>1, <4>1, Appends
    <3>3. Ask(fin, {c})
      <4>1. CASE c \in clearWait
        <5>1. Ask(ReplaceOut(ClearIfWaiting(c), c, <<out>>), {c})
          BY <1>1, <1>4, <1>5, <2>2, <4>1
        <5>2. ClearIfWaiting(c) = ClearAll(Final, c) /\ Base(Final, c, clearWait) = ClearAll(Final, c)
          BY <1>1, <4>1 DEF ClearIfWaiting, Base
        <5> HIDE DEF out, n
        <5> QED
          BY <1>2, <1>3, <3>1, <5>1, <5>2, ReplacedIsAppended
      <4>2. CASE c \notin clearWait
        BY <1>1, <1>4, <1>5, <2>2, <3>1, <4>2 DEF Base
      <4> QED
        BY <4>1, <4>2
    <3>4. {c} \in SUBSET Cells
      OBVIOUS
    <3>5. Final' = fin
      BY <1>1, <1>2, <3>2, <3>3, <3>4, AskShows
    <3> QED
      BY <1>4, <1>5, <2>2, <3>1, <3>2, <3>5
  <2> QED
    BY <2>1, <2>2
<1>7. \E exp \in Docs(n) :
        /\ expected' = exp
        /\ IF ReaderGoes(c, s)
           THEN Extended(expected, exp, c, n) /\ Last(expected[c]).kind = s /\ c \notin waiting
           ELSE exp = AppendOut(Base(expected, c, waiting), c, out)
  <2>1. PICK room : room = Room(c)
    OBVIOUS
  <2>2. expected' = [expected EXCEPT ![c] =
                       IF ReaderGoes(c, s)
                       THEN Front(room) \o <<[Last(room) EXCEPT !.items = Append(@, n)]>>
                       ELSE Append(room, out)]
    BY <2>1 DEF StreamMessage, ReaderGoes
  <2>3. CASE ReaderGoes(c, s)
    <3>1. c \notin waiting /\ room = expected[c] /\ room # <<>> /\ Last(room).kind = s
      BY <2>1, <2>3 DEF ReaderGoes, Room
    <3>2. PICK exp : exp = [expected EXCEPT ![c] =
                              Front(expected[c]) \o <<[Last(expected[c]) EXCEPT !.items = Append(@, n)]>>]
      OBVIOUS
    <3>3. expected' = exp
      BY <2>2, <2>3, <3>1, <3>2
    <3>4. exp \in Docs(n) /\ Extended(expected, exp, c, n)
      <4> HIDE DEF n
      <4> QED
        BY <1>2, <3>1, <3>2, ReaderExtends
    <3> QED
      BY <2>3, <3>1, <3>3, <3>4
  <2>4. CASE ~ReaderGoes(c, s)
    <3>1. PICK base : base = Base(expected, c, waiting)
      OBVIOUS
    <3>2. base \in Docs(n) /\ room = base[c]
      BY <1>2, <1>3, <2>1, <3>1, BaseFields, RoomIsBase
    <3>3. expected' = [expected EXCEPT ![c] = Append(room, out)]
      BY <2>2, <2>4
    <3>4. expected' = [base EXCEPT ![c] = Append(room, out)]
      <4>1. PICK x : x = Append(room, out)
        OBVIOUS
      <4>2. [expected EXCEPT ![c] = x] = [base EXCEPT ![c] = x]
        BY <1>2, <3>1, BaseWritten
      <4> QED
        BY <3>3, <4>1, <4>2
    <3>5. expected' = AppendOut(base, c, out)
      BY <3>2, <3>4 DEF AppendOut
    <3>6. AppendOut(base, c, out) \in Docs(n)
      BY <1>2, <1>3, <3>2, Appends
    <3> QED
      BY <2>4, <3>1, <3>5, <3>6
  <2> QED
    BY <2>3, <2>4
<1> QED
  BY <1>6, <1>7 DEF TextShape

(* What a displayed output does.                                            *)
AddShape(c, d, n, fin, exp) ==
    /\ fin \in Docs(n) /\ exp \in Docs(n)
    /\ fin = AppendOut(Base(Final, c, clearWait), c, Output(n, c, "display", d))
    /\ exp = AppendOut(Base(expected, c, waiting), c, Output(n, c, "display", d))

(* It does.                                                                 *)
LEMMA AddShapes ==
  ASSUME OutputsTypes, Calm, Sound, NEW c \in Cells,
         NEW d \in DisplayIds \cup {None}, AddOutput(c, d)
  PROVE  \E fin, exp : Final' = fin /\ expected' = exp /\ AddShape(c, d, sent + 1, fin, exp)
<1> DEFINE n   == sent + 1
           out == Output(n, c, "display", d)
<1>1. Message /\ n = sent' /\ DocTypes /\ TaskCell(c) = c /\ clearWait = waiting
  BY OwnTask DEF AddOutput, Message, OutputsTypes, Sound
<1>2. /\ sent \in Nat /\ n \in Nat /\ sent < n /\ sent <= n /\ n >= 1
      /\ Final \in Docs(sent) /\ expected \in Docs(sent)
  BY <1>1, FinalTyped DEF DocTypes
<1>3. Docs(sent) \subseteq Docs(n) /\ out \in Outs(n) /\ Final \in Docs(n) /\ expected \in Docs(n)
  BY <1>2, TypesGrow, NewOutput
<1>4. PICK fin : fin = AppendOut(Base(Final, c, clearWait), c, out)
  OBVIOUS
<1>5. fin \in Docs(n)
  <2>1. Base(Final, c, clearWait) \in Docs(n)
    BY <1>2, <1>3, BaseFields
  <2> QED
    BY <1>2, <1>3, <1>4, <2>1, Appends
<1>6. Final' = fin
  <2>1. ClearIfWaiting(c) = Base(Final, c, clearWait)
    BY <1>1 DEF ClearIfWaiting, Base
  <2>2. Ask(fin, {c}) /\ {c} \in SUBSET Cells
    BY <1>1, <1>4, <2>1 DEF AddOutput
  <2> QED
    BY <1>1, <1>2, <1>5, <2>2, AskShows
<1>7. PICK base : base = Base(expected, c, waiting)
  OBVIOUS
<1>8. base \in Docs(n) /\ Room(c) = base[c]
  BY <1>2, <1>3, <1>7, BaseFields, RoomIsBase
<1>9. expected' = [base EXCEPT ![c] = Append(base[c], out)]
  <2>1. PICK x : x = Append(Room(c), out)
    OBVIOUS
  <2>2. [expected EXCEPT ![c] = x] = [base EXCEPT ![c] = x]
    BY <1>2, <1>7, BaseWritten
  <2>3. expected' = [expected EXCEPT ![c] = x]
    BY <2>1 DEF AddOutput
  <2> QED
    BY <1>8, <2>1, <2>2, <2>3
<1>10. expected' = AppendOut(base, c, out) /\ AppendOut(base, c, out) \in Docs(n)
  BY <1>2, <1>3, <1>8, <1>9, Appends DEF AppendOut
<1> QED
  BY <1>4, <1>5, <1>6, <1>7, <1>10 DEF AddShape

(* What clearing a cell does: a message does it, the start of an execution, *)
(* or the user.                                                             *)
LEMMA ClearShapes ==
  ASSUME OutputsTypes, Calm, NEW c \in Cells,
         ClearNow(c) \/ Acknowledge(c) \/ UserClears(c)
  PROVE  Final' = ClearAll(Final, c) /\ expected' = ClearAll(expected, c)
<1>1. expected' = ClearAll(expected, c) /\ DocTypes
  BY DEF ClearNow, Acknowledge, UserClears, ClearAll, OutputsTypes
<1>2. sent \in Nat /\ Final \in Docs(sent) /\ ClearAll(Final, c) \in Docs(sent)
  BY <1>1, FinalTyped, Clears
<1>3. CASE ClearNow(c) \/ Acknowledge(c)
  <2>1. Ask(ClearAll(Final, c), {}) /\ {} \in SUBSET Cells /\ sent <= sent
    BY <1>2, <1>3, OwnTask DEF ClearNow, Acknowledge
  <2> QED
    BY <1>1, <1>2, <2>1, AskShows
<1>4. CASE UserClears(c)
  <2>1. edits = <<>> /\ edits' = <<>> /\ outputs' = [outputs EXCEPT ![c] = <<>>]
    BY <1>4 DEF UserClears
  <2>2. Final = outputs /\ Final' = outputs'
    BY <2>1 DEF Final
  <2>3. PICK doc : doc = [outputs EXCEPT ![c] = <<>>]
    OBVIOUS
  <2>4. Final' = doc
    BY <2>1, <2>2, <2>3
  <2>5. ClearAll(Final, c) = doc
    <3>1. ClearAll(outputs, c) = doc
      BY <2>3 DEF ClearAll
    <3> QED
      BY <2>2, <3>1
  <2> QED
    BY <1>1, <2>4, <2>5
<1> QED
  BY <1>1, <1>3, <1>4

(* What the reader does with an update.                                     *)
ReaderUpdates(d, n, exp) ==
    exp = IF latest[d] = None THEN expected
          ELSE SetItems(expected, latest[d].cell, latest[d].made, n)

(* What an update does.                                                     *)
LEMMA UpdateShapes ==
  ASSUME OutputsTypes, NEW c \in Cells, NEW d \in DisplayIds, UpdateItems(c, d)
  PROVE  \E fin, exp \in Docs(sent + 1) :
           /\ Final' = fin /\ expected' = exp /\ ReaderUpdates(d, sent + 1, exp)
           /\ fin = IF displayed[d] = None THEN Final
                    ELSE SetItems(Final, displayed[d].cell, displayed[d].made, sent + 1)
<1> DEFINE n == sent + 1
<1>1. Message /\ n = sent' /\ DocTypes
  BY DEF UpdateItems, Message, OutputsTypes
<1>2. /\ sent \in Nat /\ n \in Nat /\ sent < n /\ sent <= n
      /\ Final \in Docs(sent) /\ expected \in Docs(sent)
  BY <1>1, FinalTyped DEF DocTypes
<1>3. Docs(sent) \subseteq Docs(n)
  BY <1>2, TypesGrow
<1>4. expected' \in Docs(n) /\ ReaderUpdates(d, n, expected')
  BY <1>1, ReadUpdateTypes DEF UpdateItems, ReadUpdate, ReaderUpdates
<1>5. PICK fin : fin = IF displayed[d] = None THEN Final
                       ELSE SetItems(Final, displayed[d].cell, displayed[d].made, n)
  OBVIOUS
<1>6. fin \in Docs(n)
  BY <1>2, <1>3, <1>5, SetItemsAlike
<1>7. Final' = fin
  <2>1. CASE displayed[d] = None
    <3>1. UNCHANGED <<edits, outputs>>
      BY <1>1, <2>1 DEF UpdateItems, Message
    <3> QED
      BY <1>5, <2>1, <3>1 DEF Final
  <2>2. CASE displayed[d] # None
    <3>1. Ask(fin, {}) /\ {} \in SUBSET Cells
      BY <1>5, <2>2 DEF UpdateItems
    <3> QED
      BY <1>1, <1>2, <1>6, <3>1, AskShows
  <2> QED
    BY <2>1, <2>2
<1> QED
  BY <1>4, <1>5, <1>6, <1>7

(* What an update of metadata does.                                         *)
LEMMA MetadataShapes ==
  ASSUME OutputsTypes, Calm, NEW c \in Cells, NEW d \in DisplayIds,
         UpdateMetadata(c, d)
  PROVE  \E fin, exp \in Docs(sent + 1), b \in Cells :
           /\ Final' = fin /\ expected' = exp /\ ReaderUpdates(d, sent + 1, exp)
           /\ b = displayed[d].cell /\ displayed[d] # None
           /\ Remade(Final, fin, b, d, Output(sent + 1, b, "display", d))
<1> DEFINE n == sent + 1
<1>1. Message /\ n = sent' /\ DocTypes /\ displayed[d] # None /\ outputs = Final
  BY ReadsAll DEF UpdateMetadata, Message, OutputsTypes
<1>2. /\ sent \in Nat /\ n \in Nat /\ sent < n /\ sent <= n /\ n >= 1
      /\ Final \in Docs(sent) /\ expected \in Docs(sent)
  BY <1>1, FinalTyped DEF DocTypes
<1>3. Docs(sent) \subseteq Docs(n) /\ Seq(Outs(sent)) \subseteq Seq(Outs(n))
  BY <1>2, TypesGrow
<1>4. expected' \in Docs(n) /\ ReaderUpdates(d, n, expected')
  BY <1>1, ReadUpdateTypes DEF UpdateMetadata, ReadUpdate, ReaderUpdates
<1>5. PICK b \in Cells : b = displayed[d].cell
  BY <1>1 DEF OutputsTypes, TrackerTypes, Pointers
<1>6. PICK x : x = Output(n, b, "display", d)
  OBVIOUS
<1>7. x \in Outs(n)
  <2>1. PICK k \in Streams \cup {"display"} : k = "display"
    OBVIOUS
  <2>2. d \in DisplayIds \cup {None}
    OBVIOUS
  <2>3. Output(n, b, k, d) \in Outs(n)
    BY <1>2, <2>2, NewOutput
  <2> QED
    BY <1>6, <2>1, <2>3
<1>8. PICK q \in Seq(Outs(n)) : q = Final[b]
  BY <1>1, <1>3, FinalTyped
<1>9. PICK all : all = [i \in DOMAIN q |-> IF q[i].id = d THEN x ELSE q[i]]
  OBVIOUS
<1>10. /\ all \in Seq(Outs(n)) /\ Len(all) = Len(q) /\ DOMAIN all = DOMAIN q
       /\ \A i \in DOMAIN q : all[i] = IF q[i].id = d THEN x ELSE q[i]
  <2> HIDE DEF n
  <2> QED
    BY <1>2, <1>7, <1>9, Renewed
<1>11. PICK fin : fin = ReplaceOut(Final, b, all)
  OBVIOUS
<1>12. fin \in Docs(n) /\ fin = [a \in Cells |-> IF a = b THEN all ELSE Final[a]]
  <2>1. Final \in Docs(n)
    BY <1>2, <1>3
  <2> HIDE DEF n
  <2> QED
    BY <1>2, <1>10, <1>11, <2>1, Replaces
<1>13. Final' = fin
  <2>1. Ask(fin, {b}) /\ {b} \in SUBSET Cells
    BY <1>1, <1>5, <1>6, <1>8, <1>9, <1>11 DEF UpdateMetadata
  <2> QED
    BY <1>1, <1>2, <1>12, <2>1, AskShows
<1>14. Remade(Final, fin, b, d, x)
  BY <1>8, <1>10, <1>12 DEF Remade
<1> QED
  BY <1>1, <1>4, <1>5, <1>6, <1>12, <1>13, <1>14

-----------------------------------------------------------------------------
(* Sound is kept.                                                           *)

(* What Sound asks of the next state.                                       *)
LEMMA SoundNext ==
  ASSUME NEW fin, NEW exp, NEW shown, NEW made, NEW streams, NEW looked,
         Final' = fin, expected' = exp, displayed' = shown, latest' = made,
         lastStream' = streams, reattached' = looked,
         clearWait' = waiting', DocSound(fin, shown), DocSound(exp, made),
         ContinuesLast(fin, streams), Begun', TextFirst(fin, looked), Ordered(fin)
  PROVE  Sound'
<1>1. DocSound(Final, displayed)' /\ DocSound(expected, latest)'
  BY DEF DocSound, AtHome, NoTextWithId, LeadToIds
<1>2. ContinuesLast(Final, lastStream)'
  BY DEF ContinuesLast
<1>3. TextFirst(Final, reattached)'
  BY DEF TextFirst
<1>4. Ordered(Final)'
  BY DEF Ordered
<1> QED
  BY <1>1, <1>2, <1>3, <1>4 DEF Sound

(* Forgetting a stream, or pointers, leaves less to be said.                *)
LEMMA ForgetsSound ==
  ASSUME NEW m \in Nat, NEW doc \in Docs(m), NEW p, NEW p2, NEW q, NEW q2, NEW r, NEW r2,
         \A d \in DisplayIds : p2[d] # None => p2[d] = p[d],
         \A c \in Cells : q2[c] # None => q2[c] = q[c],
         r \subseteq r2
  PROVE  /\ DocSound(doc, p) => DocSound(doc, p2)
         /\ ContinuesLast(doc, q) => ContinuesLast(doc, q2)
         /\ TextFirst(doc, r) => TextFirst(doc, r2)
<1>1. ASSUME DocSound(doc, p) PROVE DocSound(doc, p2)
  <2> SUFFICES ASSUME NEW d \in DisplayIds, p2[d] # None, NEW c \in Cells,
                      NEW i \in DOMAIN doc[c], Is(doc[c][i], p2[d].cell, p2[d].made)
               PROVE  doc[c][i].id = d
    BY <1>1 DEF DocSound, LeadToIds
  <2>1. p2[d] = p[d]
    OBVIOUS
  <2> QED
    BY <1>1, <2>1 DEF DocSound, LeadToIds
<1>2. ASSUME ContinuesLast(doc, q) PROVE ContinuesLast(doc, q2)
  <2> SUFFICES ASSUME NEW c \in Cells, q2[c] # None
               PROVE  /\ doc[c] # <<>>
                      /\ Last(doc[c]).kind = q2[c].stream
                      /\ \A i \in DOMAIN doc[c] : doc[c][i].made = q2[c].made <=> i = Len(doc[c])
    BY DEF ContinuesLast
  <2>1. q2[c] = q[c]
    OBVIOUS
  <2> QED
    BY <1>2, <2>1 DEF ContinuesLast
<1>3. ASSUME TextFirst(doc, r) PROVE TextFirst(doc, r2)
  BY <1>3 DEF TextFirst
<1> QED
  BY <1>1, <1>2, <1>3

(* The notebook to which a message appends.                                 *)
LEMMA BaseSound ==
  ASSUME NEW m \in Nat, NEW doc \in Docs(m), NEW c \in Cells, NEW S, NEW p, NEW q, NEW r
  PROVE  /\ DocSound(doc, p) => DocSound(Base(doc, c, S), p)
         /\ ContinuesLast(doc, q) /\ q[c] = None => ContinuesLast(Base(doc, c, S), q)
         /\ TextFirst(doc, r) => TextFirst(Base(doc, c, S), r)
         /\ Ordered(doc) => Ordered(Base(doc, c, S))
BY ClearedSound DEF Base

(* What the invariants say before a message, of types with numbers.         *)
LEMMA BeforeMessage ==
  ASSUME OutputsTypes
  PROVE  /\ sent \in Nat /\ sent + 1 \in Nat /\ sent < sent + 1
         /\ Final \in Docs(sent) /\ expected \in Docs(sent)
         /\ displayed \in [DisplayIds -> Pointers(sent)]
         /\ latest \in [DisplayIds -> Pointers(sent)]
         /\ lastStream \in [Cells -> StreamPointers(sent)]
         /\ lastStream \in [Cells -> StreamPointers(sent + 1)]
<1>1. sent \in Nat /\ Final \in Docs(sent) /\ expected \in Docs(sent)
  BY FinalTyped DEF OutputsTypes, DocTypes
<1>2. StreamPointers(sent) \subseteq StreamPointers(sent + 1)
  <2>1. sent + 1 \in Nat /\ sent <= sent + 1
    BY <1>1
  <2> QED
    BY <1>1, <2>1, TypesGrow
<1>3. lastStream \in [Cells -> StreamPointers(sent)]
  BY DEF OutputsTypes, HandlerTypes
<1>4. lastStream \in [Cells -> StreamPointers(sent + 1)]
  BY <1>2, <1>3
<1> QED
  BY <1>1, <1>3, <1>4 DEF OutputsTypes, TrackerTypes

(* A text.                                                                  *)
LEMMA TextKeepsSound ==
  ASSUME OutputsTypes, Calm, Sound, NEW c \in Cells, NEW s \in Streams,
         StreamMessage(c, s)
  PROVE  Sound'
<1>1. PICK n : n = sent + 1
  OBVIOUS
<1>2. PICK fin, exp : Final' = fin /\ expected' = exp /\ TextShape(c, s, n, fin, exp)
  BY <1>1, TextShapes
<1>3. /\ sent \in Nat /\ n \in Nat /\ sent < n /\ Final \in Docs(sent) /\ expected \in Docs(sent)
      /\ displayed \in [DisplayIds -> Pointers(sent)]
      /\ latest \in [DisplayIds -> Pointers(sent)]
      /\ lastStream \in [Cells -> StreamPointers(sent)]
  BY <1>1, BeforeMessage
<1>4. /\ clearWait = waiting /\ DocSound(Final, displayed) /\ DocSound(expected, latest)
      /\ ContinuesLast(Final, lastStream) /\ Begun
      /\ TextFirst(Final, reattached) /\ Ordered(Final)
  BY DEF Sound
<1>5. /\ clearWait' = waiting' /\ reattached' = reattached \cup {c} /\ phase' = phase
      /\ displayed' = displayed /\ latest' = latest /\ phase[c] \in {"running", "done"}
  BY <1>4 DEF StreamMessage, Cleared, Reattached, trackerVars, Message, Writes
<1>6. Begun'
  <2>1. \A b \in Cells \ {c} : lastStream'[b] = lastStream[b]
    BY <1>2, <1>3 DEF TextShape
  <2> QED
    BY <1>4, <1>5, <2>1 DEF Begun
<1>7. s \in Streams \cup {"display"} /\ None \in DisplayIds \cup {None}
  OBVIOUS
<1>11. Moved(latest, latest, None, n) /\ Moved(displayed, displayed, None, n)
  BY OutputsAssumption DEF OutputsAssumption, Moved
<1>8. DocSound(exp, latest)
  <2>1. CASE ReaderGoes(c, s)
    <3>1. Alike(expected, exp) /\ exp \in Docs(n)
      BY <1>2, <2>1 DEF TextShape, Extended
    <3> QED
      BY <1>3, <1>4, <3>1, AlikeSound
  <2>2. CASE ~ReaderGoes(c, s)
    <3>1. PICK base : base = Base(expected, c, waiting)
      OBVIOUS
    <3>2. base \in Docs(sent) /\ DocSound(base, latest)
      BY <1>3, <1>4, <3>1, BaseFields, BaseSound
    <3>3. exp = AppendOut(base, c, Output(n, c, s, None))
      BY <1>2, <2>2, <3>1 DEF TextShape
    <3> QED
      BY <1>3, <1>7, <1>11, <3>2, <3>3, AppendedSound
  <2> QED
    BY <2>1, <2>2
<1>9. CASE Goes(c, s)
  <2>1. /\ Extended(Final, fin, c, n) /\ fin \in Docs(n)
        /\ lastStream' = [lastStream EXCEPT ![c] = GoesOnAt(c, s)]
    BY <1>2, <1>9 DEF TextShape
  <2>2. Alike(Final, fin)
    BY <2>1 DEF Extended
  <2>3. DocSound(fin, displayed) /\ TextFirst(fin, reattached) /\ Ordered(fin)
    BY <1>3, <1>4, <2>1, <2>2, AlikeSound, ExtendedOrdered
  <2>4. TextFirst(fin, reattached')
    BY <1>5, <2>3 DEF TextFirst
  <2>5. ContinuesLast(Final, lastStream')
    <3>1. /\ GoesOnAt(c, s).stream = s
          /\ Final[c] # <<>> /\ Last(Final[c]).kind = s
          /\ \A i \in DOMAIN Final[c] :
               Final[c][i].made = GoesOnAt(c, s).made <=> i = Len(Final[c])
      BY <1>9, GoesOnAtLast
    <3>2. lastStream'[c] = GoesOnAt(c, s) /\ \A b \in Cells \ {c} : lastStream'[b] = lastStream[b]
      BY <1>3, <2>1
    <3> QED
      BY <1>4, <3>1, <3>2 DEF ContinuesLast
  <2>6. PICK streams : streams = lastStream'
    OBVIOUS
  <2>7. ContinuesLast(fin, streams)
    BY <1>3, <2>1, <2>2, <2>5, <2>6, AlikeSound
  <2> QED
    BY <1>2, <1>5, <1>6, <1>8, <2>3, <2>4, <2>6, <2>7, SoundNext
<1>10. CASE ~Goes(c, s)
  <2>1. PICK base : base = Base(Final, c, clearWait)
    OBVIOUS
  <2>2. fin = AppendOut(base, c, Output(n, c, s, None)) /\ fin \in Docs(n)
        /\ lastStream' = [lastStream EXCEPT ![c] = [stream |-> s, made |-> n]]
    BY <1>2, <1>10, <2>1 DEF TextShape
  <2>3. PICK q : q = [lastStream EXCEPT ![c] = None]
    OBVIOUS
  <2>4. q \in [Cells -> StreamPointers(sent)] /\ q[c] = None
        /\ \A b \in Cells : q[b] # None => q[b] = lastStream[b]
    BY <1>3, <2>3 DEF StreamPointers
  <2>5. ContinuesLast(Final, q)
    BY <1>4, <2>4 DEF ContinuesLast
  <2>6. /\ base \in Docs(sent) /\ DocSound(base, displayed) /\ ContinuesLast(base, q)
        /\ TextFirst(base, reattached) /\ Ordered(base)
    BY <1>3, <1>4, <2>1, <2>4, <2>5, BaseFields, BaseSound
  <2>7. DocSound(fin, displayed)
    BY <1>3, <1>7, <1>11, <2>2, <2>6, AppendedSound
  <2>12. Ordered(fin)
    BY <1>3, <1>7, <2>2, <2>6, AppendedOrdered
  <2>8. PICK streams : streams = [lastStream EXCEPT ![c] = [stream |-> s, made |-> n]]
    OBVIOUS
  <2>9. Restreamed(q, streams, c, s, n)
    <3>1. streams[c].stream = s /\ streams[c].made = n
      BY <1>3, <2>8
    <3>2. \A b \in Cells \ {c} : streams[b] = q[b]
      BY <1>3, <2>3, <2>8
    <3> QED
      BY <3>1, <3>2 DEF Restreamed
  <2>10. ContinuesLast(fin, streams)
    BY <1>3, <1>7, <2>2, <2>4, <2>6, <2>9, AppendedContinues
  <2>11. TextFirst(fin, reattached')
    <3>1. Appended(base, fin, c, Output(n, c, s, None))
      BY <1>3, <1>7, <2>2, <2>6, AppendedFields
    <3>2. \A b \in Cells \ {c} : fin[b] = base[b]
      BY <3>1 DEF Appended
    <3> QED
      BY <1>5, <2>6, <3>2, OutputsAssumption DEF TextFirst, OutputsAssumption
  <2> QED
    BY <1>2, <1>5, <1>6, <1>8, <2>2, <2>7, <2>8, <2>10, <2>11, <2>12, SoundNext
<1> QED
  BY <1>9, <1>10

(* A displayed output.                                                      *)
LEMMA AddKeepsSound ==
  ASSUME OutputsTypes, Calm, Sound, NEW c \in Cells,
         NEW d \in DisplayIds \cup {None}, AddOutput(c, d)
  PROVE  Sound'
<1>1. PICK n : n = sent + 1
  OBVIOUS
<1>2. PICK fin, exp : Final' = fin /\ expected' = exp /\ AddShape(c, d, n, fin, exp)
  BY <1>1, AddShapes
<1>3. /\ sent \in Nat /\ n \in Nat /\ sent < n /\ Final \in Docs(sent) /\ expected \in Docs(sent)
      /\ displayed \in [DisplayIds -> Pointers(sent)]
      /\ latest \in [DisplayIds -> Pointers(sent)]
      /\ lastStream \in [Cells -> StreamPointers(sent)]
  BY <1>1, BeforeMessage
<1>4. /\ clearWait = waiting /\ DocSound(Final, displayed) /\ DocSound(expected, latest)
      /\ ContinuesLast(Final, lastStream) /\ Begun
      /\ TextFirst(Final, reattached) /\ Ordered(Final)
  BY DEF Sound
<1>5. /\ clearWait' = waiting' /\ reattached' = reattached /\ phase' = phase
      /\ lastStream' = [lastStream EXCEPT ![c] = None]
  BY <1>4 DEF AddOutput, Cleared, StreamBroken, Message
<1>6. /\ displayed' = IF d = None THEN displayed
                      ELSE [displayed EXCEPT ![d] = [cell |-> c, made |-> n]]
      /\ latest' = IF d = None THEN latest
                   ELSE [latest EXCEPT ![d] = [cell |-> c, made |-> n]]
  BY <1>1 DEF AddOutput, Track, trackerVars
<1>7. PICK k \in Streams \cup {"display"} : k = "display"
  OBVIOUS
<1>8. PICK out : out = Output(n, c, k, d)
  OBVIOUS
<1>9. PICK base, ebase : base = Base(Final, c, clearWait) /\ ebase = Base(expected, c, waiting)
  OBVIOUS
<1>10. fin = AppendOut(base, c, Output(n, c, k, d)) /\ exp = AppendOut(ebase, c, Output(n, c, k, d))
  BY <1>2, <1>7, <1>9 DEF AddShape
<1>11. PICK shown, made, streams : displayed' = shown /\ latest' = made /\ lastStream' = streams
  OBVIOUS
<1>12. DocSound(exp, made)
  <2>1. ebase \in Docs(sent) /\ DocSound(ebase, latest)
    BY <1>3, <1>4, <1>9, BaseFields, BaseSound
  <2>2. Moved(latest, made, d, n)
    BY <1>3, <1>6, <1>11, OutputsAssumption DEF OutputsAssumption, Moved
  <2> QED
    BY <1>3, <1>7, <1>10, <2>1, <2>2, AppendedSound
<1>13. PICK q : q = [lastStream EXCEPT ![c] = None]
  OBVIOUS
<1>14. q \in [Cells -> StreamPointers(sent)] /\ q[c] = None /\ streams = q
       /\ \A b \in Cells : q[b] # None => q[b] = lastStream[b]
  BY <1>3, <1>5, <1>11, <1>13 DEF StreamPointers
<1>15. ContinuesLast(Final, q)
  BY <1>4, <1>14 DEF ContinuesLast
<1>16. /\ base \in Docs(sent) /\ DocSound(base, displayed) /\ ContinuesLast(base, q)
       /\ TextFirst(base, reattached) /\ Ordered(base)
  BY <1>3, <1>4, <1>9, <1>14, <1>15, BaseFields, BaseSound
<1>17. DocSound(fin, shown)
  <2>1. Moved(displayed, shown, d, n)
    BY <1>3, <1>6, <1>11, OutputsAssumption DEF OutputsAssumption, Moved
  <2> QED
    BY <1>3, <1>7, <1>10, <1>16, <2>1, AppendedSound
<1>18. Ordered(fin)
  BY <1>3, <1>10, <1>16, AppendedOrdered
<1>19. ContinuesLast(fin, streams)
  <2>1. Restreamed(q, streams, c, k, n)
    BY <1>14 DEF Restreamed
  <2> QED
    BY <1>3, <1>10, <1>14, <1>16, <2>1, AppendedContinues
<1>20. TextFirst(fin, reattached)
  <2>1. Appended(base, fin, c, Output(n, c, k, d)) /\ Output(n, c, k, d).kind = "display"
    BY <1>3, <1>7, <1>10, <1>16, AppendedFields, NewOutput
  <2>2. \A b \in Cells : \A i \in DOMAIN fin[b] :
          \/ i \in DOMAIN base[b] /\ fin[b][i] = base[b][i]
          \/ fin[b][i].kind = "display"
    <3> SUFFICES ASSUME NEW b \in Cells, NEW i \in DOMAIN fin[b]
                 PROVE  \/ i \in DOMAIN base[b] /\ fin[b][i] = base[b][i]
                        \/ fin[b][i].kind = "display"
      OBVIOUS
    <3>1. CASE b # c
      BY <2>1, <3>1 DEF Appended
    <3>2. CASE b = c
      BY <2>1, <3>2 DEF Appended
    <3> QED
      BY <3>1, <3>2
  <2> QED
    BY <1>16, <2>2, OutputsAssumption DEF TextFirst, IsStream, OutputsAssumption
<1>21. Begun'
  BY <1>3, <1>4, <1>5 DEF Begun
<1> QED
  BY <1>2, <1>4, <1>5, <1>11, <1>12, <1>17, <1>18, <1>19, <1>20, <1>21, SoundNext

(* A clearing, by a message, at the start of an execution, or by the user.  *)
LEMMA ClearKeepsSound ==
  ASSUME OutputsTypes, Calm, Sound, NEW c \in Cells,
         ClearNow(c) \/ Acknowledge(c) \/ UserClears(c)
  PROVE  Sound'
<1>1. Final' = ClearAll(Final, c) /\ expected' = ClearAll(expected, c)
  BY ClearShapes
<1>2. /\ sent \in Nat /\ Final \in Docs(sent) /\ expected \in Docs(sent)
      /\ lastStream \in [Cells -> StreamPointers(sent)]
  BY BeforeMessage
<1>3. /\ clearWait = waiting /\ DocSound(Final, displayed) /\ DocSound(expected, latest)
      /\ ContinuesLast(Final, lastStream) /\ Begun
      /\ TextFirst(Final, reattached) /\ Ordered(Final)
  BY DEF Sound
<1>4. PICK shown, streams : displayed' = shown /\ lastStream' = streams
  OBVIOUS
<1>5. /\ clearWait' = waiting' /\ reattached' = reattached /\ latest' = latest
      /\ \A b \in Cells : streams[b] # None => streams[b] = lastStream[b]
      /\ streams[c] = None
      /\ \A d \in DisplayIds : shown[d] # None => shown[d] = displayed[d]
      /\ \A b \in Cells : phase[b] \in {"running", "done"} => phase'[b] \in {"running", "done"}
  <2>1. CASE ClearNow(c)
    BY <1>2, <1>3, <1>4, <2>1 DEF ClearNow, StreamBroken, trackerVars, Message
  <2>2. CASE Acknowledge(c)
    <3>1. lastStream[c] = None
      BY <1>3, <2>2 DEF Acknowledge, Begun
    <3>2. \A b \in Cells : phase[b] \in {"running", "done"} => phase'[b] \in {"running", "done"}
      BY <2>2 DEF Acknowledge, OutputsTypes, HandlerTypes
    <3> QED
      BY <1>3, <1>4, <2>2, <3>1, <3>2 DEF Acknowledge, handlerVars, trackerVars
  <2>3. CASE UserClears(c)
    <3>1. OnEmptied({c}) /\ UNCHANGED <<phase, clearWait, waiting, reattached, latest>>
      BY <2>3 DEF UserClears
    <3> QED
      BY <1>3, <1>4, <3>1 DEF OnEmptied
  <2> QED
    BY <2>1, <2>2, <2>3
<1>6. PICK fin, exp : fin = ClearAll(Final, c) /\ exp = ClearAll(expected, c)
  OBVIOUS
<1>7. /\ DocSound(Final, shown) /\ ContinuesLast(Final, streams)
  BY <1>2, <1>3, <1>5, ForgetsSound
<1>8. /\ DocSound(fin, shown) /\ DocSound(exp, latest) /\ ContinuesLast(fin, streams)
      /\ TextFirst(fin, reattached) /\ Ordered(fin)
  BY <1>2, <1>3, <1>5, <1>6, <1>7, ClearedSound
<1>9. Begun'
  BY <1>3, <1>4, <1>5 DEF Begun
<1> QED
  BY <1>1, <1>4, <1>5, <1>6, <1>8, <1>9, SoundNext

(* An update, of content or of metadata too.                                *)
LEMMA UpdateKeepsSound ==
  ASSUME OutputsTypes, Calm, Sound, NEW c \in Cells, NEW d \in DisplayIds,
         UpdateItems(c, d) \/ UpdateMetadata(c, d)
  PROVE  Sound'
<1>1. PICK n : n = sent + 1
  OBVIOUS
<1>2. /\ sent \in Nat /\ n \in Nat /\ sent < n /\ Final \in Docs(sent) /\ expected \in Docs(sent)
      /\ displayed \in [DisplayIds -> Pointers(sent)]
      /\ latest \in [DisplayIds -> Pointers(sent)]
      /\ lastStream \in [Cells -> StreamPointers(sent)]
  BY <1>1, BeforeMessage
<1>3. /\ clearWait = waiting /\ DocSound(Final, displayed) /\ DocSound(expected, latest)
      /\ ContinuesLast(Final, lastStream) /\ Begun
      /\ TextFirst(Final, reattached) /\ Ordered(Final)
  BY DEF Sound
<1>4. UNCHANGED <<phase, clearWait, reattached, lastStream, waiting, latest>>
  BY DEF UpdateItems, UpdateMetadata, handlerVars, Message
<1>5. Begun' /\ clearWait' = waiting'
  BY <1>3, <1>4 DEF Begun
<1>6. ASSUME NEW exp \in Docs(n), ReaderUpdates(d, n, exp) PROVE DocSound(exp, latest)
  <2>1. CASE latest[d] = None
    BY <1>3, <1>6, <2>1 DEF ReaderUpdates
  <2>2. CASE latest[d] # None
    <3>1. exp = SetItems(expected, latest[d].cell, latest[d].made, n)
      BY <1>6, <2>2 DEF ReaderUpdates
    <3>2. Alike(expected, exp)
      BY <1>2, <3>1, SetItemsAlike
    <3> QED
      BY <1>2, <1>3, <3>2, AlikeSound
  <2> QED
    BY <2>1, <2>2
<1>7. CASE UpdateItems(c, d)
  <2>1. PICK fin, exp \in Docs(n) :
          /\ Final' = fin /\ expected' = exp /\ ReaderUpdates(d, n, exp)
          /\ fin = IF displayed[d] = None THEN Final
                   ELSE SetItems(Final, displayed[d].cell, displayed[d].made, n)
    BY <1>1, <1>7, UpdateShapes
  <2>2. displayed' = displayed
    <3>1. CASE displayed[d] = None
      BY <1>7, <3>1 DEF UpdateItems, trackerVars
    <3>2. CASE displayed[d] # None
      <4>1. displayed' = [displayed EXCEPT ![d] = [cell |-> displayed[d].cell, made |-> displayed[d].made]]
        BY <1>7, <3>2 DEF UpdateItems, Track
      <4>2. displayed[d] \in [cell : Cells, made : 1..sent]
        BY <1>2, <3>2 DEF Pointers
      <4>3. displayed[d] = [cell |-> displayed[d].cell, made |-> displayed[d].made]
        BY <4>2
      <4> QED
        BY <1>2, <4>1, <4>3
    <3> QED
      BY <3>1, <3>2
  <2>3. /\ DocSound(fin, displayed) /\ ContinuesLast(fin, lastStream)
        /\ TextFirst(fin, reattached) /\ Ordered(fin)
    <3>1. CASE displayed[d] = None
      BY <1>3, <2>1, <3>1
    <3>2. CASE displayed[d] # None
      <4>1. fin = SetItems(Final, displayed[d].cell, displayed[d].made, n)
        BY <2>1, <3>2
      <4>2. Alike(Final, fin)
        BY <1>2, <4>1, SetItemsAlike
      <4>3. Ordered(fin)
        BY <1>2, <1>3, <3>2, <4>1, SetItemsOrdered
      <4> QED
        BY <1>2, <1>3, <4>2, <4>3, AlikeSound
    <3> QED
      BY <3>1, <3>2
  <2>4. DocSound(exp, latest)
    BY <1>6, <2>1
  <2> QED
    BY <1>4, <1>5, <2>1, <2>2, <2>3, <2>4, SoundNext
<1>8. CASE UpdateMetadata(c, d)
  <2>1. PICK fin, exp \in Docs(n), b \in Cells :
          /\ Final' = fin /\ expected' = exp /\ ReaderUpdates(d, n, exp)
          /\ b = displayed[d].cell /\ displayed[d] # None
          /\ Remade(Final, fin, b, d, Output(n, b, "display", d))
    BY <1>1, <1>8, MetadataShapes
  <2>2. PICK shown : shown = [displayed EXCEPT ![d] = [cell |-> b, made |-> n]]
    OBVIOUS
  <2>3. displayed' = shown
    BY <1>1, <1>8, <2>1, <2>2 DEF UpdateMetadata, Track
  <2>6. Moved(displayed, shown, d, n)
    BY <1>2, <2>2 DEF Moved
  <2>4. /\ DocSound(fin, shown) /\ ContinuesLast(fin, lastStream)
        /\ TextFirst(fin, reattached) /\ Ordered(fin)
    BY <1>2, <1>3, <2>1, <2>6, RemadeSound
  <2>5. DocSound(exp, latest)
    BY <1>6, <2>1
  <2> QED
    BY <1>4, <1>5, <2>1, <2>3, <2>4, <2>5, SoundNext
<1> QED
  BY <1>7, <1>8

(* The rest changes nothing that will be shown.                             *)
LEMMA OthersKeepSound ==
  ASSUME OutputsTypes, Calm, Sound, NEW c \in Cells,
         \/ ApplyEdits
         \/ Execute(c) \/ Resume(c) \/ Finish(c) \/ ClearLater(c)
         \/ UNCHANGED outputsVars
  PROVE  Sound' /\ Final' = Final /\ expected' = expected
<1>1. /\ sent \in Nat /\ Final \in Docs(sent) /\ expected \in Docs(sent)
      /\ lastStream \in [Cells -> StreamPointers(sent)]
  BY BeforeMessage
<1>2. /\ clearWait = waiting /\ DocSound(Final, displayed) /\ DocSound(expected, latest)
      /\ ContinuesLast(Final, lastStream) /\ Begun
      /\ TextFirst(Final, reattached) /\ Ordered(Final)
  BY DEF Sound
<1>3. PICK shown, streams : displayed' = shown /\ lastStream' = streams
  OBVIOUS
<1>4. /\ clearWait' = waiting' /\ reattached' = reattached /\ latest' = latest
      /\ expected' = expected /\ Final' = Final
      /\ \A b \in Cells : streams[b] # None => streams[b] = lastStream[b]
      /\ \A d \in DisplayIds : shown[d] # None => shown[d] = displayed[d]
      /\ \A b \in Cells : phase[b] \in {"running", "done"} => phase'[b] \in {"running", "done"}
  <2>1. CASE ApplyEdits
    <3>1. PICK k \in 1..Len(edits) :
            /\ outputs' = edits[k].shows
            /\ edits' = SubSeq(edits, k + 1, Len(edits))
            /\ OnEmptied({b \in Touched(k) : outputs'[b] = <<>>})
            /\ UNCHANGED <<lag, phase, clearWait, reattached, sent, readerVars>>
      BY <2>1 DEF ApplyEdits
    <3>2. Final' = Final
      BY <3>1, Applied DEF OutputsTypes, readerVars
    <3>3. PICK S : OnEmptied(S)
      BY <3>1
    <3>4. /\ \A b \in Cells : streams[b] # None => streams[b] = lastStream[b]
          /\ \A d \in DisplayIds : shown[d] # None => shown[d] = displayed[d]
      BY <1>3, <3>3 DEF OnEmptied
    <3> QED
      BY <1>2, <3>1, <3>2, <3>4 DEF readerVars
  <2>2. CASE Execute(c) \/ Resume(c)
    <3>1. UNCHANGED <<outputs, edits, clearWait, reattached, lastStream, displayed,
                      expected, waiting, latest>>
      BY <2>2 DEF Execute, Resume, handlerVars, trackerVars, readerVars
    <3>2. \A b \in Cells : phase[b] \in {"running", "done"} => phase'[b] \in {"running", "done"}
      BY <2>2 DEF Execute, Resume, OutputsTypes, HandlerTypes
    <3>3. Final' = Final
      BY <3>1 DEF Final
    <3> QED
      BY <1>2, <1>3, <3>1, <3>2, <3>3
  <2>3. CASE Finish(c)
    <3>1. UNCHANGED <<outputs, edits, clearWait, reattached, displayed, expected, waiting, latest>>
          /\ (lastStream' = lastStream \/ lastStream' = [lastStream EXCEPT ![c] = None])
      BY <2>3 DEF Finish, ForgottenAtEnd, trackerVars
    <3>2. \A b \in Cells : phase[b] \in {"running", "done"} => phase'[b] \in {"running", "done"}
      BY <2>3 DEF Finish, OutputsTypes, HandlerTypes
    <3>3. Final' = Final
      BY <3>1 DEF Final
    <3> QED
      BY <1>1, <1>2, <1>3, <3>1, <3>2, <3>3
  <2>4. CASE ClearLater(c)
    <3>1. UNCHANGED <<outputs, edits, reattached, lastStream, displayed, expected, latest, phase>>
          /\ clearWait' = waiting'
      BY <1>2, <2>4 DEF ClearLater, Message, trackerVars
    <3>2. Final' = Final
      BY <3>1 DEF Final
    <3> QED
      BY <1>3, <3>1, <3>2
  <2>5. CASE UNCHANGED outputsVars
    <3>1. UNCHANGED <<outputs, edits, clearWait, reattached, lastStream, displayed,
                      expected, waiting, latest, phase>>
      BY <2>5 DEF outputsVars, handlerVars, trackerVars, readerVars
    <3>2. Final' = Final
      BY <3>1 DEF Final
    <3> QED
      BY <1>2, <1>3, <3>1, <3>2
  <2> QED
    BY <2>1, <2>2, <2>3, <2>4, <2>5
<1>5. DocSound(Final, shown) /\ ContinuesLast(Final, streams)
  BY <1>1, <1>2, <1>4, ForgetsSound
<1>6. Begun'
  BY <1>2, <1>3, <1>4 DEF Begun
<1> QED
  BY <1>2, <1>3, <1>4, <1>5, <1>6, SoundNext

(* Every step keeps Sound.                                                  *)
LEMMA SoundKept ==
  ASSUME OutputsTypes, Calm, Sound, [OutputsNext]_outputsVars
  PROVE  Sound'
<1>1. CASE UNCHANGED outputsVars
  <2>1. CASE Cells = {}
    <3>1. clearWait' = waiting'
      BY <1>1 DEF Sound, outputsVars, handlerVars, readerVars
    <3> QED
      BY <2>1, <3>1, OutputsAssumption DEF Sound, DocSound, AtHome, NoTextWithId, LeadToIds,
         ContinuesLast, Begun, TextFirst, Ordered, OutputsAssumption
  <2>2. CASE Cells # {}
    BY <1>1, <2>2, OthersKeepSound
  <2> QED
    BY <2>1, <2>2
<1>2. CASE ApplyEdits
  <2>1. CASE Cells = {}
    <3>1. clearWait' = waiting'
      BY <1>2 DEF Sound, ApplyEdits, readerVars
    <3> QED
      BY <2>1, <3>1, OutputsAssumption DEF Sound, DocSound, AtHome, NoTextWithId, LeadToIds,
         ContinuesLast, Begun, TextFirst, Ordered, OutputsAssumption
  <2>2. CASE Cells # {}
    BY <1>2, <2>2, OthersKeepSound
  <2> QED
    BY <2>1, <2>2
<1>3. ASSUME NEW c \in Cells,
             \/ Execute(c) \/ Resume(c) \/ Acknowledge(c) \/ Finish(c)
             \/ ClearLater(c) \/ ClearNow(c) \/ UserClears(c)
             \/ \E s \in Streams : StreamMessage(c, s)
             \/ \E d \in DisplayIds \cup {None} : AddOutput(c, d)
             \/ \E d \in DisplayIds : UpdateItems(c, d) \/ UpdateMetadata(c, d)
      PROVE  Sound'
  BY <1>3, OthersKeepSound, ClearKeepsSound, TextKeepsSound, AddKeepsSound, UpdateKeepsSound
<1> QED
  BY <1>1, <1>2, <1>3 DEF OutputsNext

(* It holds at first: a resumed cell shows one output at most.              *)
LEMMA SoundAtFirst == OutputsInit /\ "longer" \notin Unusual => Sound
<1> SUFFICES ASSUME OutputsInit, "longer" \notin Unusual PROVE Sound
  OBVIOUS
<1>1. Final = outputs /\ expected = outputs /\ clearWait = waiting
  BY DEF OutputsInit, Final
<1>2. \A c \in Cells :
        /\ outputs[c] \in Seq(Outs(0)) /\ Len(outputs[c]) <= 1
        /\ \A i \in DOMAIN outputs[c] : outputs[c][i].of = c /\ outputs[c][i].id = None
  BY EarlierTyped DEF OutputsInit
<1>3. \A c \in Cells : \A i \in DOMAIN outputs[c] : i = 1
  <2> SUFFICES ASSUME NEW c \in Cells, NEW i \in DOMAIN outputs[c] PROVE i = 1
    OBVIOUS
  <2>1. PICK q : q = outputs[c]
    OBVIOUS
  <2>2. q \in Seq(Outs(0)) /\ Len(q) <= 1 /\ i \in DOMAIN q
    BY <1>2, <2>1
  <2> QED
    BY <2>2
<1>4. /\ \A c \in Cells : lastStream[c] = None
      /\ \A d \in DisplayIds : displayed[d] = None /\ latest[d] = None
  BY DEF OutputsInit
<1>5. AtHome(Final) /\ NoTextWithId(Final)
  BY <1>1, <1>2 DEF AtHome, NoTextWithId
<1>6. LeadToIds(Final, displayed) /\ LeadToIds(expected, latest)
  BY <1>4 DEF LeadToIds
<1>7. TextFirst(Final, reattached) /\ Ordered(Final)
  <2>1. TextFirst(Final, reattached)
    BY <1>1, <1>3, OutputsAssumption DEF TextFirst, OutputsAssumption
  <2>2. Ordered(Final)
    BY <1>1, <1>3 DEF Ordered
  <2> QED
    BY <2>1, <2>2
<1> QED
  BY <1>1, <1>4, <1>5, <1>6, <1>7 DEF Sound, DocSound, ContinuesLast, Begun

(* How late edits are applied stays what it is.                             *)
LEMMA LagStays ==
  ASSUME [OutputsNext]_outputsVars
  PROVE  lag' = lag
<1>1. UNCHANGED outputsVars \/ ApplyEdits => lag' = lag
  BY DEF outputsVars, ApplyEdits
<1>2. ASSUME NEW c \in Cells
      PROVE  Execute(c) \/ Resume(c) \/ Acknowledge(c) \/ Finish(c) \/ UserClears(c)
             => lag' = lag
  BY DEF Execute, Resume, Acknowledge, Finish, UserClears
<1>3. ASSUME NEW c \in Cells, NEW s, NEW d
      PROVE  \/ ClearLater(c) \/ ClearNow(c) \/ StreamMessage(c, s) \/ AddOutput(c, d)
             \/ UpdateItems(c, d) \/ UpdateMetadata(c, d)
             => Message
  BY DEF ClearLater, ClearNow, StreamMessage, AddOutput, UpdateItems, UpdateMetadata
<1>4. Message => lag' = lag
  BY DEF Message
<1> QED
  BY <1>1, <1>2, <1>3, <1>4 DEF OutputsNext

(* If cells write for themselves, read what has every edit, and show one    *)
(* earlier output at most, no output follows a text that is still added to: *)
(* a resumed cell goes on with its last output, and no other.               *)
THEOREM TextStaysAtTheEnd ==
  ASSUME Unusual \subseteq {"reused"}
  PROVE  OutputsSpec => []TextAtTheEnd
<1>0. Calm /\ "longer" \notin Unusual
  BY DEF Calm
<1>1. OutputsInit => OutputsTypes /\ Sound
  BY <1>0, TypesAtFirst, SoundAtFirst
<1>2. (OutputsTypes /\ Sound) /\ [OutputsNext]_outputsVars => (OutputsTypes /\ Sound)'
  BY <1>0, TypesKept, SoundKept
<1>3. Sound => TextAtTheEnd
  BY DEF Sound, Ordered, TextAtTheEnd
<1> QED
  BY <1>1, <1>2, <1>3, PTL DEF OutputsSpec

-----------------------------------------------------------------------------
(* What FlattenSeq returns.                                                 *)

(* Every non-empty set of naturals has a least element.                     *)
LEMMA LeastNat ==
  ASSUME NEW T \in SUBSET Nat, T # {}
  PROVE  \E x \in T : \A y \in T : x <= y
<1> DEFINE R == OpToRel(<, Nat)
<1>1. \A x, y \in Nat : <<y, x>> \in R <=> y < x
  BY DEF OpToRel
<1>2. IsWellFoundedOn(R, Nat)
  BY NatLessThanWellFounded
<1> HIDE DEF R
<1>3. PICK x \in T : \A y \in T : ~ (<<y, x>> \in R)
  BY <1>2, WFMin
<1>4. \A y \in T : ~ (y < x)
  BY <1>1, <1>3
<1>5. \A y \in T : x <= y
  BY <1>4
<1> QED
  BY <1>5

(* What is flattened, up to each element.                                   *)
Flattens(f, s, n) ==
    \A i \in 1..n : f[i] = IF i = 1 THEN s[i] ELSE f[i - 1] \o s[i]

(* It exists, and FlattenSeq returns the last of it.                        *)
LEMMA Flattened ==
  ASSUME NEW P, NEW s \in Seq(Seq(P)), s # <<>>
  PROVE  \E f \in [1..Len(s) -> Seq(P)] :
           Flattens(f, s, Len(s)) /\ FlattenSeq(s) = f[Len(s)]
<1> DEFINE N == Len(s)
           Step(f, i) == IF i = 1 THEN s[i] ELSE f[i - 1] \o s[i]
           Upto(n) == \E f \in [1..n -> Seq(P)] : \A i \in 1..n : f[i] = Step(f, i)
           F == CHOOSE f : f = [i \in 1..N |-> Step(f, i)]
<1>1. N \in Nat \ {0} /\ \A i \in 1..N : s[i] \in Seq(P)
  <2>1. PICK Q : Q = Seq(P)
    OBVIOUS
  <2>2. s \in Seq(Q)
    BY <2>1
  <2> QED
    BY <2>1, <2>2
<1>2. \A i \in 1..N : Upto(i)
  <2> DEFINE B == {n \in 1..N : ~Upto(n)}
  <2>1. CASE B = {}
    <3> HIDE DEF Upto
    <3> QED
      BY <2>1
  <2>2. CASE B # {}
    <3>1. PICK b \in B : \A n \in B : b <= n
      <4>1. B \in SUBSET Nat
        BY <1>1
      <4> HIDE DEF B
      <4> QED
        BY <2>2, <4>1, LeastNat
    <3>2. CASE b = 1
      <4> DEFINE g == [i \in 1..1 |-> s[1]]
      <4>1. s[1] \in Seq(P)
        BY <1>1
      <4>2. g \in [1..1 -> Seq(P)] /\ \A i \in 1..1 : g[i] = Step(g, i)
        BY <4>1
      <4> QED
        BY <3>1, <3>2, <4>2
    <3>3. CASE b # 1
      <4>1. b \in 2..N /\ b - 1 \in 1..N /\ b - 1 \notin B
        <5> HIDE DEF Upto
        <5> QED
          BY <1>1, <3>1, <3>3
      <4>2. PICK f \in [1..(b - 1) -> Seq(P)] : \A i \in 1..(b - 1) : f[i] = Step(f, i)
        BY <4>1
      <4>3. f[b - 1] \in Seq(P) /\ s[b] \in Seq(P)
        BY <1>1, <4>1, <4>2
      <4>4. PICK x \in Seq(P) : x = f[b - 1] \o s[b]
        <5>1. PICK u, v \in Seq(P) : u = f[b - 1] /\ v = s[b]
          BY <4>3
        <5>2. u \o v \in Seq(P)
          BY <5>1
        <5> QED
          BY <5>1, <5>2
      <4> DEFINE g == [i \in 1..b |-> IF i < b THEN f[i] ELSE x]
      <4>5. g \in [1..b -> Seq(P)]
        <5> HIDE DEF Step
        <5> QED
          BY <4>1, <4>2
      <4>6. ASSUME NEW i \in 1..b PROVE g[i] = Step(g, i)
        <5>1. CASE i = b
          <6>1. g[b - 1] = f[b - 1] /\ g[b] = x
            BY <4>1
          <6> QED
            BY <3>3, <4>4, <5>1, <6>1
        <5>2. CASE i < b
          <6>1. g[i] = f[i] /\ f[i] = Step(f, i)
            <7> HIDE DEF Step
            <7> QED
              BY <4>1, <4>2, <5>2
          <6>2. i # 1 => g[i - 1] = f[i - 1]
            BY <4>1, <5>2
          <6> HIDE DEF g
          <6> QED
            BY <6>1, <6>2
        <5> QED
          BY <4>1, <5>1, <5>2
      <4>7. Upto(b)
        BY <4>5, <4>6
      <4> QED
        BY <3>1, <4>7
    <3> QED
      BY <3>2, <3>3
  <2> QED
    BY <2>1, <2>2
<1>3. F = [i \in 1..N |-> Step(F, i)]
  <2>1. N \in 1..N
    BY <1>1
  <2>2. PICK f \in [1..N -> Seq(P)] : \A i \in 1..N : f[i] = Step(f, i)
    BY <1>2, <2>1
  <2>3. f = [i \in 1..N |-> Step(f, i)]
    BY <2>2
  <2> QED
    BY <2>3
<1>4. \A i \in 1..N : F[i] \in Seq(P)
  <2> HIDE DEF F
  <2> DEFINE B == {n \in 1..N : F[n] \notin Seq(P)}
  <2>1. CASE B = {}
    BY <2>1
  <2>2. CASE B # {}
    <3>1. PICK b \in B : \A n \in B : b <= n
      <4>1. B \in SUBSET Nat
        BY <1>1
      <4> HIDE DEF B
      <4> QED
        BY <2>2, <4>1, LeastNat
    <3>2. F[b] = Step(F, b) /\ s[b] \in Seq(P) /\ b \in 1..N
      BY <1>1, <1>3, <3>1
    <3>3. b # 1
      BY <3>1, <3>2
    <3>4. F[b - 1] \in Seq(P)
      BY <1>1, <3>1, <3>2, <3>3
    <3>5. Step(F, b) \in Seq(P)
      BY <3>2, <3>3, <3>4
    <3> QED
      BY <3>1, <3>2, <3>5
  <2> QED
    BY <2>1, <2>2
<1>5. FlattenSeq(s) = F[N]
  BY <1>1 DEF FlattenSeq
<1>6. F \in [1..N -> Seq(P)] /\ Flattens(F, s, N)
  <2> HIDE DEF F
  <2> QED
    BY <1>3, <1>4 DEF Flattens
<1> QED
  BY <1>5, <1>6

(* One more sequence comes after the others.                                *)
LEMMA FlattenAppend ==
  ASSUME NEW P, NEW s \in Seq(Seq(P)), NEW x \in Seq(P)
  PROVE  FlattenSeq(s) \in Seq(P) /\ FlattenSeq(Append(s, x)) = FlattenSeq(s) \o x
<1>1. PICK Q : Q = Seq(P)
  OBVIOUS
<1>2. PICK t : t = Append(s, x)
  OBVIOUS
<1>3. /\ s \in Seq(Q) /\ t \in Seq(Q) /\ Len(s) \in Nat /\ Len(t) = Len(s) + 1 /\ t # <<>>
      /\ t[Len(t)] = x /\ \A i \in 1..Len(s) : t[i] = s[i]
  <2>1. s \in Seq(Q) /\ x \in Q
    BY <1>1
  <2>2. /\ Len(s) \in Nat /\ Append(s, x) \in Seq(Q) /\ Len(Append(s, x)) = Len(s) + 1
        /\ Append(s, x)[Len(s) + 1] = x /\ \A i \in 1..Len(s) : Append(s, x)[i] = s[i]
    BY <2>1
  <2>3. PICK u \in Seq(Q) : u = t
    BY <1>2, <2>2
  <2>4. Len(u) # 0
    BY <1>2, <2>2, <2>3
  <2>5. u # <<>>
    BY <2>4
  <2> QED
    BY <1>2, <2>1, <2>2, <2>3, <2>5, Zenon
<1>4. PICK g \in [1..Len(t) -> Seq(P)] : Flattens(g, t, Len(t)) /\ FlattenSeq(t) = g[Len(t)]
  BY <1>1, <1>3, Flattened
<1>5. CASE s = <<>>
  <2>1. Len(s) = 0 /\ FlattenSeq(s) = s /\ Len(t) = 1
    BY <1>3, <1>5 DEF FlattenSeq
  <2>2. g[1] = x
    BY <1>3, <1>4, <2>1 DEF Flattens
  <2>3. <<>> \in Seq(P) /\ <<>> \o x = x
    OBVIOUS
  <2> QED
    BY <1>2, <1>4, <1>5, <2>1, <2>2, <2>3
<1>6. CASE s # <<>>
  <2>1. PICK f \in [1..Len(s) -> Seq(P)] : Flattens(f, s, Len(s)) /\ FlattenSeq(s) = f[Len(s)]
    BY <1>6, Flattened
  <2>2. Len(s) \in 1..Len(s) /\ Len(s) # 0
    BY <1>3, <1>6
  <2>3. FlattenSeq(s) \in Seq(P)
    BY <2>1, <2>2
  <2>4. \A i \in 1..Len(s) : g[i] = f[i]
    <3> DEFINE B == {n \in 1..Len(s) : g[n] # f[n]}
    <3>1. CASE B = {}
      BY <3>1
    <3>2. CASE B # {}
      <4>1. PICK b \in B : \A n \in B : b <= n
        <5>1. B \in SUBSET Nat
          BY <1>3
        <5> HIDE DEF B
        <5> QED
          BY <3>2, <5>1, LeastNat
      <4>2. b \in 1..Len(s) /\ b \in 1..Len(t) /\ t[b] = s[b]
        BY <1>3, <4>1
      <4>3. /\ g[b] = IF b = 1 THEN t[b] ELSE g[b - 1] \o t[b]
            /\ f[b] = IF b = 1 THEN s[b] ELSE f[b - 1] \o s[b]
        BY <1>4, <2>1, <4>2 DEF Flattens
      <4>4. b # 1
        BY <4>1, <4>2, <4>3
      <4>5. b - 1 \in 1..Len(s) /\ b - 1 \notin B
        <5> HIDE DEF B
        <5> QED
          BY <1>3, <4>1, <4>2, <4>4
      <4>6. g[b - 1] = f[b - 1]
        BY <4>5
      <4> QED
        BY <4>1, <4>2, <4>3, <4>4, <4>6
    <3> QED
      BY <3>1, <3>2
  <2>5. g[Len(t)] = g[Len(s)] \o x
    <3>1. Len(t) \in 1..Len(t) /\ Len(t) # 1 /\ Len(t) - 1 = Len(s)
      BY <1>3, <2>2
    <3>2. g[Len(t)] = g[Len(t) - 1] \o t[Len(t)]
      BY <1>4, <3>1 DEF Flattens
    <3> QED
      BY <1>3, <3>1, <3>2
  <2>6. g[Len(s)] = f[Len(s)]
    BY <2>2, <2>4
  <2> QED
    BY <1>2, <1>4, <2>1, <2>3, <2>5, <2>6
<1> QED
  BY <1>5, <1>6

-----------------------------------------------------------------------------
(* No text is lost, repeated or out of order.                               *)

(* What outputs with the content of n messages may be made of.              *)
AllPieces(n) ==
    (Streams \X (1..n)) \cup ({"display"} \X (DisplayIds \cup {None}))

(* A displayed output is one piece, a text one for each of its messages.    *)
LEMMA PiecesTyped ==
  ASSUME NEW n \in Nat, NEW out \in Outs(n)
  PROVE  /\ Pieces(out) \in Seq(AllPieces(n))
         /\ IsStream(out) =>
              /\ Pieces(out) \in [1..Len(out.items) -> AllPieces(n)]
              /\ \A i \in 1..Len(out.items) : Pieces(out)[i] = <<out.kind, out.items[i]>>
         /\ ~IsStream(out) =>
              out.kind = "display" /\ Pieces(out) = <<<<"display", out.id>>>>
<1>1. /\ out.kind \in Streams \cup {"display"} /\ out.id \in DisplayIds \cup {None}
      /\ out.items \in Seq(1..n)
  BY DEF Outs
<1>2. CASE IsStream(out)
  <2>1. PICK N \in Nat : N = Len(out.items) /\ DOMAIN out.items = 1..N
    BY <1>1
  <2>2. \A i \in 1..N : <<out.kind, out.items[i]>> \in AllPieces(n)
    BY <1>1, <1>2, <2>1 DEF AllPieces, IsStream
  <2>3. Pieces(out) = [i \in 1..N |-> <<out.kind, out.items[i]>>]
    BY <1>2, <2>1 DEF Pieces
  <2>4. Pieces(out) \in [1..N -> AllPieces(n)]
    BY <2>2, <2>3, Zenon
  <2>5. Pieces(out) \in Seq(AllPieces(n))
    BY <2>1, <2>4
  <2> QED
    BY <1>2, <2>1, <2>3, <2>4, <2>5
<1>3. CASE ~IsStream(out)
  <2>1. out.kind = "display" /\ Pieces(out) = <<<<"display", out.id>>>>
    BY <1>1, <1>3 DEF Pieces, IsStream
  <2>2. <<"display", out.id>> \in AllPieces(n)
    BY <1>1 DEF AllPieces
  <2> QED
    BY <1>3, <2>1, <2>2
<1> QED
  BY <1>2, <1>3

(* What is written by nothing, and by one more output.                      *)
LEMMA WrittenAppend ==
  ASSUME NEW n \in Nat, NEW q \in Seq(Outs(n)), NEW x \in Outs(n)
  PROVE  /\ Written(q) \in Seq(AllPieces(n))
         /\ Written(Append(q, x)) = Written(q) \o Pieces(x)
<1> DEFINE P == AllPieces(n)
           s == [i \in DOMAIN q |-> Pieces(q[i])]
           t == [i \in DOMAIN Append(q, x) |-> Pieces(Append(q, x)[i])]
<1>1. PICK N \in Nat : N = Len(q) /\ DOMAIN q = 1..N /\ \A i \in 1..N : q[i] \in Outs(n)
  <2>1. PICK Q : Q = Outs(n)
    OBVIOUS
  <2>2. q \in Seq(Q)
    BY <2>1
  <2>3. Len(q) \in Nat /\ DOMAIN q = 1..Len(q) /\ \A i \in 1..Len(q) : q[i] \in Q
    BY <2>2
  <2> QED
    BY <2>1, <2>3
<1>2. s \in Seq(Seq(P))
  <2>1. \A i \in 1..N : Pieces(q[i]) \in Seq(P)
    BY <1>1, PiecesTyped
  <2>2. s \in [1..N -> Seq(P)]
    BY <1>1, <2>1
  <2> HIDE DEF s
  <2> QED
    BY <1>1, <2>2
<1>3. Pieces(x) \in Seq(P)
  BY PiecesTyped
<1>4. t = Append(s, Pieces(x))
  <2>1. DOMAIN Append(q, x) = 1..(N + 1) /\ Append(q, x)[N + 1] = x
        /\ \A i \in 1..N : Append(q, x)[i] = q[i]
    BY <1>1
  <2>2. t = [i \in 1..(N + 1) |-> IF i = N + 1 THEN Pieces(x) ELSE Pieces(q[i])]
    <3>1. \A i \in 1..(N + 1) : Append(q, x)[i] = IF i = N + 1 THEN x ELSE q[i]
      BY <2>1
    <3> QED
      BY <2>1, <3>1
  <2>3. PICK u \in Seq(Seq(P)) : u = s
    BY <1>2
  <2>4. Len(u) = N /\ \A i \in 1..N : u[i] = Pieces(q[i])
    BY <1>1, <2>3
  <2>5. PICK y \in Seq(P) : y = Pieces(x)
    BY <1>3
  <2>6. Append(u, y) = [i \in 1..(N + 1) |-> IF i = N + 1 THEN y ELSE u[i]]
    BY <2>3, <2>4
  <2>7. \A i \in 1..(N + 1) : (IF i = N + 1 THEN y ELSE u[i])
                              = (IF i = N + 1 THEN Pieces(x) ELSE Pieces(q[i]))
    BY <2>4, <2>5
  <2>8. Append(u, y) = t
    BY <2>2, <2>6, <2>7, Zenon
  <2> QED
    BY <2>3, <2>5, <2>8, Zenon
<1>5. Written(q) = FlattenSeq(s) /\ Written(Append(q, x)) = FlattenSeq(t)
  BY Zenon DEF Written
<1> HIDE DEF s, t
<1>6. /\ FlattenSeq(s) \in Seq(P)
      /\ FlattenSeq(Append(s, Pieces(x))) = FlattenSeq(s) \o Pieces(x)
  BY <1>2, <1>3, FlattenAppend
<1> QED
  BY <1>4, <1>5, <1>6, Zenon

(* Nothing is written by no output.                                         *)
LEMMA WrittenNothing == Written(<<>>) = <<>>
<1>1. [i \in DOMAIN <<>> |-> Pieces(<<>>[i])] = <<>>
  OBVIOUS
<1>2. FlattenSeq(<<>>) = <<>>
  BY DEF FlattenSeq
<1> QED
  BY <1>1, <1>2 DEF Written

(* The same is written by outputs of the same pieces.                       *)
LEMMA WrittenAlike ==
  ASSUME NEW q, NEW r, DOMAIN q = DOMAIN r, \A i \in DOMAIN q : Pieces(q[i]) = Pieces(r[i])
  PROVE  Written(q) = Written(r)
<1>1. [i \in DOMAIN q |-> Pieces(q[i])] = [i \in DOMAIN r |-> Pieces(r[i])]
  BY Zenon
<1> QED
  BY <1>1, Zenon DEF Written

(* What a message writes at the end of a cell, cleared first if it is in S. *)
Wrote(doc, new, c, S, x) ==
    /\ Written(new[c]) = (IF c \in S THEN <<>> ELSE Written(doc[c])) \o x
    /\ \A b \in Cells \ {c} : Written(new[b]) = Written(doc[b])

(* It writes a new output.                                                  *)
LEMMA AppendedWrites ==
  ASSUME NEW m \in Nat, NEW n \in Nat, m < n, NEW doc \in Docs(m), NEW c \in Cells, NEW S,
         NEW out \in Outs(n)
  PROVE  Wrote(doc, AppendOut(Base(doc, c, S), c, out), c, S, Pieces(out))
<1>1. PICK base : base = Base(doc, c, S)
  OBVIOUS
<1>2. /\ base \in Docs(n) /\ base[c] = (IF c \in S THEN <<>> ELSE doc[c])
      /\ \A b \in Cells \ {c} : base[b] = doc[b]
  BY <1>1, BaseFields, TypesGrow
<1>3. base[c] \in Seq(Outs(n))
  BY <1>2 DEF Docs
<1>4. /\ AppendOut(base, c, out)[c] = Append(base[c], out)
      /\ \A b \in Cells \ {c} : AppendOut(base, c, out)[b] = doc[b]
  BY <1>2, Zenon DEF AppendOut, Docs
<1>5. Written(Append(base[c], out)) = Written(base[c]) \o Pieces(out)
  BY <1>3, WrittenAppend
<1>6. Written(base[c]) = IF c \in S THEN <<>> ELSE Written(doc[c])
  BY <1>2, WrittenNothing, Zenon
<1> QED
  BY <1>1, <1>4, <1>5, <1>6, Zenon DEF Wrote

(* Or it goes on with the last text.                                        *)
LEMMA ExtendedWrites ==
  ASSUME NEW m \in Nat, NEW n \in Nat, m < n, NEW doc \in Docs(m), NEW c \in Cells, NEW S,
         c \notin S, NEW new \in Docs(n), Extended(doc, new, c, n),
         NEW s \in Streams, Last(doc[c]).kind = s
  PROVE  Wrote(doc, new, c, S, <<<<s, n>>>>)
<1>1. PICK q : q = doc[c]
  OBVIOUS
<1>2. PICK r : r = new[c]
  OBVIOUS
<1>3. PICK N \in Nat \ {0} :
        /\ N = Len(q) /\ DOMAIN q = 1..N /\ Len(r) = N /\ DOMAIN r = 1..N
        /\ q \in Seq(Outs(n)) /\ r \in Seq(Outs(n))
  <2>1. doc \in Docs(n) /\ q # <<>> /\ DOMAIN r = DOMAIN q /\ Len(r) = Len(q)
    BY <1>1, <1>2, TypesGrow DEF Extended, Alike
  <2>2. q \in Seq(Outs(n)) /\ r \in Seq(Outs(n))
    BY <1>1, <1>2, <2>1 DEF Docs
  <2>3. Len(q) \in Nat \ {0} /\ DOMAIN q = 1..Len(q)
    <3>1. PICK Q : Q = Outs(n)
      OBVIOUS
    <3>2. q \in Seq(Q) /\ q # <<>>
      BY <2>1, <2>2, <3>1
    <3> QED
      BY <3>2
  <2> QED
    BY <2>1, <2>2, <2>3
<1>4. PICK u \in Outs(n), v \in Outs(n) : u = q[N] /\ v = r[N]
  <2>1. q[N] \in Outs(n) /\ r[N] \in Outs(n)
    <3>1. PICK Q : Q = Outs(n)
      OBVIOUS
    <3>2. q \in Seq(Q) /\ r \in Seq(Q)
      BY <1>3, <3>1
    <3> QED
      BY <1>3, <3>1, <3>2
  <2> QED
    BY <2>1
<1>5. /\ \A i \in 1..N : i # N => r[i] = q[i]
      /\ v.kind = u.kind /\ v.items = Append(u.items, n)
  BY <1>1, <1>2, <1>3, <1>4 DEF Extended, Alike
<1>6. u.kind = s
  BY <1>1, <1>3, <1>4 DEF Last
<1>7. PICK f \in Seq(Outs(n)) : q = Append(f, u) /\ r = Append(f, v)
  <2>1. PICK Q : Q = Outs(n)
    OBVIOUS
  <2>2. q \in Seq(Q) /\ r \in Seq(Q) /\ u \in Q /\ v \in Q
    BY <1>3, <1>4, <2>1
  <2>3. PICK f : f = [i \in 1..(N - 1) |-> q[i]]
    OBVIOUS
  <2>4. f \in Seq(Q) /\ Len(f) = N - 1 /\ \A i \in 1..(N - 1) : f[i] = q[i]
    <3>1. N - 1 \in Nat /\ f \in [1..(N - 1) -> Q]
      BY <1>3, <2>2, <2>3
    <3> QED
      BY <2>3, <3>1
  <2>5. q = Append(f, u) /\ r = Append(f, v)
    BY <1>3, <1>4, <1>5, <2>2, <2>4
  <2> QED
    BY <2>1, <2>4, <2>5
<1>8. Pieces(v) = Pieces(u) \o <<<<s, n>>>>
  <2>1. PICK k \in Seq(1..n) : k = u.items
    BY DEF Outs
  <2>2. Len(k) \in Nat /\ v.items = Append(k, n) /\ Len(v.items) = Len(k) + 1
        /\ v.items[Len(k) + 1] = n /\ \A i \in 1..Len(k) : v.items[i] = k[i]
    BY <1>5, <2>1
  <2>3. PICK y \in Seq(AllPieces(n)) : y = Pieces(u)
    BY PiecesTyped
  <2>4. PICK z \in Seq(AllPieces(n)) : z = Pieces(v)
    BY PiecesTyped
  <2>5. IsStream(u) /\ IsStream(v)
    BY <1>5, <1>6 DEF IsStream
  <2> DEFINE Piece(i) == <<s, i>>
  <2>6. /\ y \in [1..Len(k) -> AllPieces(n)] /\ \A i \in 1..Len(k) : y[i] = Piece(k[i])
        /\ z \in [1..(Len(k) + 1) -> AllPieces(n)]
        /\ \A i \in 1..(Len(k) + 1) : z[i] = Piece(v.items[i])
    <3>1. /\ y \in [1..Len(k) -> AllPieces(n)]
          /\ \A i \in 1..Len(k) : y[i] = <<u.kind, k[i]>>
      BY <2>1, <2>3, <2>5, PiecesTyped
    <3>2. /\ z \in [1..(Len(k) + 1) -> AllPieces(n)]
          /\ \A i \in 1..(Len(k) + 1) : z[i] = <<v.kind, v.items[i]>>
      <4>1. PICK j \in Seq(1..n) : j = v.items
        BY DEF Outs
      <4>2. Len(j) = Len(k) + 1
        BY <2>2, <4>1
      <4>3. /\ z \in [1..Len(j) -> AllPieces(n)]
            /\ \A i \in 1..Len(j) : z[i] = <<v.kind, j[i]>>
        BY <2>4, <2>5, <4>1, PiecesTyped
      <4> QED
        BY <4>1, <4>2, <4>3, Zenon
    <3> QED
      BY <1>5, <1>6, <3>1, <3>2, Zenon
  <2>7. PICK p : p = Piece(n)
    OBVIOUS
  <2> HIDE DEF Piece
  <2>8. Len(y) = Len(k) /\ Len(z) = Len(k) + 1
    BY <2>2, <2>3, <2>4, <2>6
  <2>9. z[Len(k) + 1] = p /\ \A i \in 1..Len(k) : z[i] = y[i]
    <3>1. Len(k) + 1 \in 1..(Len(k) + 1)
      BY <2>2
    <3>2. z[Len(k) + 1] = p
      BY <2>2, <2>6, <2>7, <3>1
    <3>3. ASSUME NEW i \in 1..Len(k) PROVE z[i] = y[i]
      <4>1. i \in 1..(Len(k) + 1) /\ v.items[i] = k[i]
        BY <2>2
      <4> QED
        BY <2>6, <4>1, Zenon
    <3> QED
      BY <3>2, <3>3
  <2>10. z = y \o <<p>>
    BY <2>2, <2>8, <2>9
  <2> QED
    BY <2>3, <2>4, <2>7, <2>10 DEF Piece
<1>9. /\ Written(q) = Written(f) \o Pieces(u) /\ Written(r) = Written(f) \o Pieces(v)
      /\ Written(f) \in Seq(AllPieces(n)) /\ Pieces(u) \in Seq(AllPieces(n))
  BY <1>7, WrittenAppend, PiecesTyped
<1>10. Written(r) = Written(q) \o <<<<s, n>>>>
  <2>1. <<<<s, n>>>> \in Seq(AllPieces(n))
    <3>1. <<s, n>> \in AllPieces(n)
      BY DEF AllPieces
    <3> QED
      BY <3>1
  <2>2. PICK P : P = AllPieces(n)
    OBVIOUS
  <2>3. PICK x \in Seq(P), y \in Seq(P), z \in Seq(P) :
          x = Written(f) /\ y = Pieces(u) /\ z = <<<<s, n>>>>
    BY <1>9, <2>1, <2>2
  <2>4. x \o (y \o z) = (x \o y) \o z
    BY <2>3
  <2> QED
    BY <1>8, <1>9, <2>3, <2>4, Zenon
<1>11. \A b \in Cells \ {c} : new[b] = doc[b]
  BY DEF Extended
<1> QED
  BY <1>1, <1>2, <1>10, <1>11, Zenon DEF Wrote

(* The notebook and the reader agree after a message if they did before.    *)
LEMMA WroteAlike ==
  ASSUME NEW doc, NEW new, NEW exp, NEW next, NEW c \in Cells, NEW S, NEW x,
         Content(doc) = Content(exp), Wrote(doc, new, c, S, x), Wrote(exp, next, c, S, x)
  PROVE  Content(new) = Content(next)
<1>1. \A b \in Cells : Written(doc[b]) = Written(exp[b])
  BY Zenon DEF Content
<1>2. \A b \in Cells : Written(new[b]) = Written(next[b])
  BY <1>1, Zenon DEF Wrote
<1> QED
  BY <1>2, Zenon DEF Content

-----------------------------------------------------------------------------
(* A clearing removes the same of both.                                     *)
LEMMA ClearedAlike ==
  ASSUME NEW m \in Nat, NEW doc \in Docs(m), NEW exp \in Docs(m), NEW c \in Cells,
         Content(doc) = Content(exp)
  PROVE  Content(ClearAll(doc, c)) = Content(ClearAll(exp, c))
<1>1. \A b \in Cells : Written(doc[b]) = Written(exp[b])
  BY Zenon DEF Content
<1>2. /\ ClearAll(doc, c)[c] = <<>> /\ ClearAll(exp, c)[c] = <<>>
      /\ \A b \in Cells \ {c} : ClearAll(doc, c)[b] = doc[b] /\ ClearAll(exp, c)[b] = exp[b]
  BY Clears
<1>3. \A b \in Cells : Written(ClearAll(doc, c)[b]) = Written(ClearAll(exp, c)[b])
  BY <1>1, <1>2, Zenon
<1> QED
  BY <1>3, Zenon DEF Content

(* New content of an output with a display id is no text.                   *)
LEMMA UpdatedSame ==
  ASSUME NEW m \in Nat, NEW n \in Nat, m < n, NEW doc \in Docs(m), NEW p,
         NEW d \in DisplayIds, p[d] # None, DocSound(doc, p)
  PROVE  Content(SetItems(doc, p[d].cell, p[d].made, n)) = Content(doc)
<1>1. PICK new \in Docs(n) : new = SetItems(doc, p[d].cell, p[d].made, n)
  BY SetItemsAlike
<1>2. /\ Alike(doc, new)
      /\ \A b \in Cells : \A i \in DOMAIN doc[b] :
           ~Is(doc[b][i], p[d].cell, p[d].made) => new[b][i] = doc[b][i]
  BY <1>1, SetItemsAlike
<1>3. ASSUME NEW b \in Cells, NEW i \in DOMAIN doc[b]
      PROVE  Pieces(new[b][i]) = Pieces(doc[b][i])
  <2>1. CASE Is(doc[b][i], p[d].cell, p[d].made)
    <3>1. doc[b][i].id = d /\ d # None
      BY <2>1, OutputsAssumption DEF DocSound, LeadToIds, OutputsAssumption
    <3>2. doc[b][i].kind = "display" /\ "display" \notin Streams
      BY <3>1, OutputsAssumption DEF DocSound, NoTextWithId, OutputsAssumption
    <3>3. new[b][i].kind = doc[b][i].kind /\ new[b][i].id = doc[b][i].id
      BY <1>2 DEF Alike
    <3> QED
      BY <3>2, <3>3 DEF Pieces, IsStream
  <2>2. CASE ~Is(doc[b][i], p[d].cell, p[d].made)
    BY <1>2, <2>2
  <2> QED
    BY <2>1, <2>2
<1>4. \A b \in Cells : DOMAIN new[b] = DOMAIN doc[b]
  BY <1>2 DEF Alike
<1>5. \A b \in Cells : Written(new[b]) = Written(doc[b])
  BY <1>3, <1>4, WrittenAlike
<1> QED
  BY <1>1, <1>5, Zenon DEF Content

(* Nor is there text in the outputs that are written back.                  *)
LEMMA RemadeSame ==
  ASSUME NEW m \in Nat, NEW n \in Nat, NEW doc \in Docs(m), NEW new \in Docs(n),
         NEW b \in Cells, NEW d \in DisplayIds, NEW p, DocSound(doc, p),
         Remade(doc, new, b, d, Output(n, b, "display", d))
  PROVE  Content(new) = Content(doc)
<1>1. ASSUME NEW i \in DOMAIN doc[b]
      PROVE  Pieces(new[b][i]) = Pieces(doc[b][i])
  <2>1. CASE doc[b][i].id = d
    <3>1. doc[b][i].kind = "display" /\ "display" \notin Streams
      BY <2>1, OutputsAssumption DEF DocSound, NoTextWithId, OutputsAssumption
    <3>2. new[b][i] = Output(n, b, "display", d)
      BY <2>1 DEF Remade
    <3>3. new[b][i].kind = "display" /\ new[b][i].id = d
      BY <3>2 DEF Output
    <3> QED
      BY <2>1, <3>1, <3>3 DEF Pieces, IsStream
  <2>2. CASE doc[b][i].id # d
    BY <2>2 DEF Remade
  <2> QED
    BY <2>1, <2>2
<1>2. DOMAIN new[b] = DOMAIN doc[b] /\ \A c \in Cells \ {b} : new[c] = doc[c]
  BY DEF Remade
<1>3. Written(new[b]) = Written(doc[b])
  BY <1>1, <1>2, WrittenAlike
<1>4. \A c \in Cells : Written(new[c]) = Written(doc[c])
  BY <1>2, <1>3, Zenon
<1> QED
  BY <1>4, Zenon DEF Content

(* What a text writes, in the notebook and for the reader.                  *)
LEMMA TextKeepsText ==
  ASSUME OutputsTypes, Calm, Sound, NEW c \in Cells, NEW s \in Streams,
         StreamMessage(c, s), TextIsKept
  PROVE  TextIsKept'
<1>1. PICK m \in Nat : m = sent
  BY BeforeMessage
<1>2. PICK n \in Nat : n = sent + 1 /\ m < n
  BY <1>1, BeforeMessage
<1>3. PICK doc \in Docs(m), exp \in Docs(m) : doc = Final /\ exp = expected
  BY <1>1, BeforeMessage
<1>4. PICK fin, next : Final' = fin /\ expected' = next /\ TextShape(c, s, n, fin, next)
  BY <1>2, TextShapes
<1>5. Output(n, c, s, None) \in Outs(n) /\ Pieces(Output(n, c, s, None)) = <<<<s, n>>>>
  <2>1. Output(n, c, s, None) \in Outs(n)
    BY <1>1, <1>2, NewOutput
  <2>2. IsStream(Output(n, c, s, None)) /\ Output(n, c, s, None).items = <<n>>
        /\ Output(n, c, s, None).kind = s
    BY DEF Output, IsStream
  <2>3. Pieces(Output(n, c, s, None)) = [i \in DOMAIN <<n>> |-> <<s, <<n>>[i]>>]
    BY <2>2, Zenon DEF Pieces
  <2>4. [i \in DOMAIN <<n>> |-> <<s, <<n>>[i]>>] = <<<<s, n>>>>
    OBVIOUS
  <2> QED
    BY <2>1, <2>3, <2>4
<1>6. Wrote(doc, fin, c, clearWait, <<<<s, n>>>>)
  <2>1. CASE Goes(c, s)
    <3>1. c \notin clearWait /\ Extended(doc, fin, c, n) /\ Last(doc[c]).kind = s /\ fin \in Docs(n)
      BY <1>3, <1>4, <2>1 DEF TextShape, Goes
    <3> QED
      BY <1>2, <3>1, ExtendedWrites
  <2>2. CASE ~Goes(c, s)
    <3>1. fin = AppendOut(Base(doc, c, clearWait), c, Output(n, c, s, None))
      BY <1>3, <1>4, <2>2 DEF TextShape
    <3> QED
      BY <1>2, <1>5, <3>1, AppendedWrites
  <2> QED
    BY <2>1, <2>2
<1>7. Wrote(exp, next, c, waiting, <<<<s, n>>>>)
  <2>1. CASE ReaderGoes(c, s)
    <3>1. c \notin waiting /\ Extended(exp, next, c, n) /\ Last(exp[c]).kind = s /\ next \in Docs(n)
      BY <1>3, <1>4, <2>1 DEF TextShape
    <3> QED
      BY <1>2, <3>1, ExtendedWrites
  <2>2. CASE ~ReaderGoes(c, s)
    <3>1. next = AppendOut(Base(exp, c, waiting), c, Output(n, c, s, None))
      BY <1>3, <1>4, <2>2 DEF TextShape
    <3> QED
      BY <1>2, <1>5, <3>1, AppendedWrites
  <2> QED
    BY <2>1, <2>2
<1>8. clearWait = waiting /\ Content(doc) = Content(exp)
  BY <1>3 DEF Sound, TextIsKept
<1>9. Content(fin) = Content(next)
  BY <1>6, <1>7, <1>8, WroteAlike
<1>10. TextIsKept' <=> Content(Final)' = Content(expected)'
  BY DEF TextIsKept
<1>11. Content(Final)' = Content(fin) /\ Content(expected)' = Content(next)
  BY <1>4 DEF Content
<1> QED
  BY <1>9, <1>10, <1>11

(* A displayed output is written at the end of both.                        *)
LEMMA AddKeepsText ==
  ASSUME OutputsTypes, Calm, Sound, NEW c \in Cells,
         NEW d \in DisplayIds \cup {None}, AddOutput(c, d), TextIsKept
  PROVE  TextIsKept'
<1>1. PICK m \in Nat : m = sent
  BY BeforeMessage
<1>2. PICK n \in Nat : n = sent + 1 /\ m < n
  BY <1>1, BeforeMessage
<1>3. PICK doc \in Docs(m), exp \in Docs(m) : doc = Final /\ exp = expected
  BY <1>1, BeforeMessage
<1>4. PICK fin, next : Final' = fin /\ expected' = next /\ AddShape(c, d, n, fin, next)
  BY <1>2, AddShapes
<1>5. PICK out \in Outs(n) : out = Output(n, c, "display", d)
  <2>1. PICK k \in Streams \cup {"display"} : k = "display"
    OBVIOUS
  <2>2. Output(n, c, k, d) \in Outs(n)
    BY <1>1, <1>2, NewOutput
  <2> QED
    BY <2>1, <2>2
<1>6. Wrote(doc, fin, c, clearWait, Pieces(out)) /\ Wrote(exp, next, c, waiting, Pieces(out))
  <2>1. /\ fin = AppendOut(Base(doc, c, clearWait), c, out)
        /\ next = AppendOut(Base(exp, c, waiting), c, out)
    BY <1>3, <1>4, <1>5 DEF AddShape
  <2> QED
    BY <1>2, <2>1, AppendedWrites
<1>7. clearWait = waiting /\ Content(doc) = Content(exp)
  BY <1>3 DEF Sound, TextIsKept
<1>8. Content(fin) = Content(next)
  BY <1>6, <1>7, WroteAlike
<1>9. TextIsKept' <=> Content(Final)' = Content(expected)'
  BY DEF TextIsKept
<1>10. Content(Final)' = Content(fin) /\ Content(expected)' = Content(next)
  BY <1>4 DEF Content
<1> QED
  BY <1>8, <1>9, <1>10

(* A clearing leaves nothing of the cell in either.                         *)
LEMMA ClearKeepsText ==
  ASSUME OutputsTypes, Calm, NEW c \in Cells,
         ClearNow(c) \/ Acknowledge(c) \/ UserClears(c), TextIsKept
  PROVE  TextIsKept'
<1>1. PICK m \in Nat : m = sent
  BY BeforeMessage
<1>2. PICK doc \in Docs(m), exp \in Docs(m) : doc = Final /\ exp = expected
  BY <1>1, BeforeMessage
<1>3. Final' = ClearAll(doc, c) /\ expected' = ClearAll(exp, c)
  BY <1>2, ClearShapes
<1>4. Content(ClearAll(doc, c)) = Content(ClearAll(exp, c))
  BY <1>2, ClearedAlike DEF TextIsKept
<1>5. TextIsKept' <=> Content(Final)' = Content(expected)'
  BY DEF TextIsKept
<1>6. Content(Final)' = Content(ClearAll(doc, c)) /\ Content(expected)' = Content(ClearAll(exp, c))
  BY <1>3 DEF Content
<1> QED
  BY <1>4, <1>5, <1>6

(* An update changes no text and no place of an output.                     *)
LEMMA UpdateKeepsText ==
  ASSUME OutputsTypes, Calm, Sound, NEW c \in Cells, NEW d \in DisplayIds,
         UpdateItems(c, d) \/ UpdateMetadata(c, d), TextIsKept
  PROVE  TextIsKept'
<1>1. PICK m \in Nat : m = sent
  BY BeforeMessage
<1>2. PICK n \in Nat : n = sent + 1 /\ m < n
  BY <1>1, BeforeMessage
<1>3. PICK doc \in Docs(m), exp \in Docs(m) : doc = Final /\ exp = expected
  BY <1>1, BeforeMessage
<1>4. DocSound(doc, displayed) /\ DocSound(exp, latest) /\ Content(doc) = Content(exp)
  BY <1>3 DEF Sound, TextIsKept
<1>5. ASSUME NEW next, ReaderUpdates(d, n, next)
      PROVE  Content(next) = Content(exp)
  BY <1>2, <1>3, <1>4, <1>5, UpdatedSame DEF ReaderUpdates
<1>6. ASSUME UpdateItems(c, d) PROVE TextIsKept'
  <2>1. PICK fin, next \in Docs(n) :
          /\ Final' = fin /\ expected' = next /\ ReaderUpdates(d, n, next)
          /\ fin = IF displayed[d] = None THEN doc
                   ELSE SetItems(doc, displayed[d].cell, displayed[d].made, n)
    BY <1>2, <1>3, <1>6, UpdateShapes
  <2>2. Content(fin) = Content(doc)
    BY <1>2, <1>4, <2>1, UpdatedSame
  <2>3. Content(fin) = Content(next)
    BY <1>4, <1>5, <2>1, <2>2
  <2>4. TextIsKept' <=> Content(Final)' = Content(expected)'
    BY DEF TextIsKept
  <2>5. Content(Final)' = Content(fin) /\ Content(expected)' = Content(next)
    BY <2>1 DEF Content
  <2> QED
    BY <2>3, <2>4, <2>5
<1>7. ASSUME UpdateMetadata(c, d) PROVE TextIsKept'
  <2>1. PICK fin \in Docs(n), next \in Docs(n), b \in Cells :
          /\ Final' = fin /\ expected' = next /\ ReaderUpdates(d, n, next)
          /\ Remade(doc, fin, b, d, Output(n, b, "display", d))
    BY <1>2, <1>3, <1>7, MetadataShapes
  <2>2. Content(fin) = Content(doc)
    BY <1>4, <2>1, RemadeSame
  <2>3. Content(fin) = Content(next)
    BY <1>4, <1>5, <2>1, <2>2
  <2>4. TextIsKept' <=> Content(Final)' = Content(expected)'
    BY DEF TextIsKept
  <2>5. Content(Final)' = Content(fin) /\ Content(expected)' = Content(next)
    BY <2>1 DEF Content
  <2> QED
    BY <2>3, <2>4, <2>5
<1> QED
  BY <1>6, <1>7

(* Every step keeps the text.                                               *)
LEMMA TextKept ==
  ASSUME OutputsTypes, Calm, Sound, TextIsKept, [OutputsNext]_outputsVars
  PROVE  TextIsKept'
<1>1. CASE UNCHANGED outputsVars \/ ApplyEdits
  <2>1. CASE Cells = {}
    BY <2>1 DEF TextIsKept, Content
  <2>2. CASE Cells # {}
    <3>1. Final' = Final /\ expected' = expected
      BY <1>1, <2>2, OthersKeepSound
    <3>2. TextIsKept' <=> Content(Final)' = Content(expected)'
      BY DEF TextIsKept
    <3>3. Content(Final)' = Content(Final) /\ Content(expected)' = Content(expected)
      BY <3>1 DEF Content
    <3> QED
      BY <3>2, <3>3 DEF TextIsKept
  <2> QED
    BY <2>1, <2>2
<1>2. ASSUME NEW c \in Cells, Execute(c) \/ Resume(c) \/ Finish(c) \/ ClearLater(c)
      PROVE  TextIsKept'
  <2>1. Final' = Final /\ expected' = expected
    BY <1>2, OthersKeepSound
  <2>2. TextIsKept' <=> Content(Final)' = Content(expected)'
    BY DEF TextIsKept
  <2>3. Content(Final)' = Content(Final) /\ Content(expected)' = Content(expected)
    BY <2>1 DEF Content
  <2> QED
    BY <2>2, <2>3 DEF TextIsKept
<1>3. ASSUME NEW c \in Cells,
             \/ Execute(c) \/ Resume(c) \/ Acknowledge(c) \/ Finish(c)
             \/ ClearLater(c) \/ ClearNow(c) \/ UserClears(c)
             \/ \E s \in Streams : StreamMessage(c, s)
             \/ \E d \in DisplayIds \cup {None} : AddOutput(c, d)
             \/ \E d \in DisplayIds : UpdateItems(c, d) \/ UpdateMetadata(c, d)
      PROVE  TextIsKept'
  BY <1>2, <1>3, ClearKeepsText, TextKeepsText, AddKeepsText, UpdateKeepsText
<1> QED
  BY <1>1, <1>3 DEF OutputsNext

(* Under the same conditions no text and no output of a cell is lost,       *)
(* repeated or out of order, however late VS Code applies the edits.        *)
THEOREM NoTextIsLost ==
  ASSUME Unusual \subseteq {"reused"}
  PROVE  OutputsSpec => []TextIsKept
<1> DEFINE IInv == OutputsTypes /\ Sound /\ TextIsKept
<1>0. Calm /\ "longer" \notin Unusual
  BY DEF Calm
<1>1. OutputsInit => IInv
  <2>1. OutputsInit => Final = expected
    BY DEF OutputsInit, Final
  <2> QED
    BY <1>0, <2>1, TypesAtFirst, SoundAtFirst DEF TextIsKept, Content
<1>2. IInv /\ [OutputsNext]_outputsVars => IInv'
  BY <1>0, TypesKept, SoundKept, TextKept
<1>3. IInv => TextIsKept
  OBVIOUS
<1> QED
  BY <1>1, <1>2, <1>3, PTL DEF OutputsSpec

-----------------------------------------------------------------------------
(* What is shown is what is expected, when edits are applied at once.       *)

(* Two notebooks show the same.                                             *)
Matches(doc, exp) ==
    \A b \in Cells :
        /\ DOMAIN doc[b] = DOMAIN exp[b] /\ Len(doc[b]) = Len(exp[b])
        /\ doc[b] = <<>> <=> exp[b] = <<>>
        /\ \A i \in DOMAIN doc[b] :
             /\ doc[b][i].kind = exp[b][i].kind /\ doc[b][i].id = exp[b][i].id
             /\ doc[b][i].items = exp[b][i].items

(* Outputs of a cell are numbered from one.                                 *)
LEMMA DocFields ==
  ASSUME NEW m \in Nat, NEW doc \in Docs(m), NEW b \in Cells
  PROVE  /\ Len(doc[b]) \in Nat /\ DOMAIN doc[b] = 1..Len(doc[b])
         /\ doc[b] = <<>> <=> Len(doc[b]) = 0
         /\ doc[b] # <<>> => Len(doc[b]) \in DOMAIN doc[b] /\ Last(doc[b]) = doc[b][Len(doc[b])]
<1>1. PICK Q : Q = Outs(m)
  OBVIOUS
<1>2. PICK q \in Seq(Q) : q = doc[b]
  BY <1>1 DEF Docs
<1>3. /\ Len(q) \in Nat /\ DOMAIN q = 1..Len(q) /\ q = <<>> <=> Len(q) = 0
      /\ q # <<>> => Len(q) \in DOMAIN q /\ Last(q) = q[Len(q)]
  BY DEF Last
<1> QED
  BY <1>2, <1>3

(* Matching is what showing the same means.                                 *)
LEMMA ShownMatches ==
  ASSUME NEW m \in Nat, NEW doc \in Docs(m), NEW exp \in Docs(m)
  PROVE  Shown(doc) = Shown(exp) <=> Matches(doc, exp)
<1> DEFINE Look(x) == [kind |-> x.kind, items |-> x.items, id |-> x.id]
           See(f, c) == [i \in DOMAIN f[c] |-> Look(f[c][i])]
<1>1. /\ Shown(doc) = [c \in Cells |-> See(doc, c)]
      /\ Shown(exp) = [c \in Cells |-> See(exp, c)]
  BY Zenon DEF Shown
<1>2. ASSUME NEW x, NEW y
      PROVE  Look(x) = Look(y) <=> x.kind = y.kind /\ x.items = y.items /\ x.id = y.id
  OBVIOUS
<1> HIDE DEF Look
<1>3. ASSUME Matches(doc, exp) PROVE Shown(doc) = Shown(exp)
  <2>1. ASSUME NEW c \in Cells PROVE See(doc, c) = See(exp, c)
    <3>1. DOMAIN doc[c] = DOMAIN exp[c] /\ \A i \in DOMAIN doc[c] : Look(doc[c][i]) = Look(exp[c][i])
      BY <1>2, <1>3 DEF Matches
    <3> QED
      BY <3>1, Zenon
  <2> HIDE DEF See
  <2> QED
    BY <1>1, <2>1, Zenon
<1>4. ASSUME Shown(doc) = Shown(exp) PROVE Matches(doc, exp)
  <2> SUFFICES ASSUME NEW b \in Cells
               PROVE  /\ DOMAIN doc[b] = DOMAIN exp[b] /\ Len(doc[b]) = Len(exp[b])
                      /\ doc[b] = <<>> <=> exp[b] = <<>>
                      /\ \A i \in DOMAIN doc[b] :
                           /\ doc[b][i].kind = exp[b][i].kind /\ doc[b][i].id = exp[b][i].id
                           /\ doc[b][i].items = exp[b][i].items
    BY Zenon DEF Matches
  <2>1. See(doc, b) = See(exp, b)
    <3> HIDE DEF See
    <3>1. Shown(doc)[b] = See(doc, b) /\ Shown(exp)[b] = See(exp, b)
      BY <1>1, Zenon
    <3> QED
      BY <1>4, <3>1, Zenon
  <2>2. DOMAIN See(doc, b) = DOMAIN doc[b] /\ DOMAIN See(exp, b) = DOMAIN exp[b]
    BY Zenon
  <2>3. DOMAIN doc[b] = DOMAIN exp[b]
    BY <2>1, <2>2, Zenon
  <2>4. \A i \in DOMAIN doc[b] : Look(doc[b][i]) = Look(exp[b][i])
    <3>1. ASSUME NEW i \in DOMAIN doc[b] PROVE Look(doc[b][i]) = Look(exp[b][i])
      <4>1. See(doc, b)[i] = Look(doc[b][i]) /\ See(exp, b)[i] = Look(exp[b][i])
        BY <2>3, Zenon
      <4> QED
        BY <2>1, <4>1, Zenon
    <3> QED
      BY <3>1
  <2>5. Len(doc[b]) = Len(exp[b])
    <3>1. PICK k \in Nat, l \in Nat : k = Len(doc[b]) /\ l = Len(exp[b]) /\ 1..k = 1..l
      BY <2>3, DocFields
    <3>2. k = l
      BY <3>1
    <3> QED
      BY <3>1, <3>2
  <2>6. doc[b] = <<>> <=> exp[b] = <<>>
    BY <2>5, DocFields
  <2> QED
    BY <1>2, <2>3, <2>4, <2>5, <2>6
<1> QED
  BY <1>3, <1>4

(* What is last in a cell is last in the other's.                           *)
LEMMA LastMatches ==
  ASSUME NEW m \in Nat, NEW doc \in Docs(m), NEW exp \in Docs(m), NEW c \in Cells,
         Matches(doc, exp), doc[c] # <<>>
  PROVE  exp[c] # <<>> /\ Last(exp[c]).kind = Last(doc[c]).kind
<1>1. exp[c] # <<>> /\ Len(doc[c]) = Len(exp[c])
  BY DEF Matches
<1>2. /\ Last(doc[c]) = doc[c][Len(doc[c])] /\ Last(exp[c]) = exp[c][Len(exp[c])]
      /\ Len(doc[c]) \in DOMAIN doc[c]
  BY <1>1, DocFields
<1> QED
  BY <1>1, <1>2 DEF Matches

(* Both are cleared, or appended to, alike.                                 *)
LEMMA ClearedMatches ==
  ASSUME NEW m \in Nat, NEW doc \in Docs(m), NEW exp \in Docs(m), NEW c \in Cells, NEW S,
         Matches(doc, exp)
  PROVE  /\ Matches(ClearAll(doc, c), ClearAll(exp, c))
         /\ Matches(Base(doc, c, S), Base(exp, c, S))
<1>1. /\ ClearAll(doc, c)[c] = <<>> /\ ClearAll(exp, c)[c] = <<>>
      /\ \A b \in Cells \ {c} : ClearAll(doc, c)[b] = doc[b] /\ ClearAll(exp, c)[b] = exp[b]
  BY Clears
<1>2. Matches(ClearAll(doc, c), ClearAll(exp, c))
  <2> SUFFICES ASSUME NEW b \in Cells
               PROVE  LET p == ClearAll(doc, c)[b]
                          q == ClearAll(exp, c)[b]
                      IN  /\ DOMAIN p = DOMAIN q /\ Len(p) = Len(q)
                          /\ p = <<>> <=> q = <<>>
                          /\ \A i \in DOMAIN p :
                               p[i].kind = q[i].kind /\ p[i].id = q[i].id /\ p[i].items = q[i].items
    BY DEF Matches
  <2>1. CASE b = c
    <3>1. ClearAll(doc, c)[b] = ClearAll(exp, c)[b]
      BY <1>1, <2>1
    <3> QED
      BY <3>1, Zenon
  <2>2. CASE b # c
    <3>1. ClearAll(doc, c)[b] = doc[b] /\ ClearAll(exp, c)[b] = exp[b]
      BY <1>1, <2>2
    <3> QED
      BY <3>1 DEF Matches
  <2> QED
    BY <2>1, <2>2
<1> QED
  BY <1>2 DEF Base

(* A new output is the same in both.                                        *)
LEMMA AppendedMatches ==
  ASSUME NEW m \in Nat, NEW n \in Nat, m < n, NEW doc \in Docs(m), NEW exp \in Docs(m),
         NEW c \in Cells, NEW k \in Streams \cup {"display"}, NEW d \in DisplayIds \cup {None},
         Matches(doc, exp)
  PROVE  Matches(AppendOut(doc, c, Output(n, c, k, d)), AppendOut(exp, c, Output(n, c, k, d)))
<1>1. PICK out : out = Output(n, c, k, d)
  OBVIOUS
<1>2. PICK new, next : new = AppendOut(doc, c, out) /\ next = AppendOut(exp, c, out)
  OBVIOUS
<1>3. Appended(doc, new, c, out) /\ Appended(exp, next, c, out)
  BY <1>1, <1>2, AppendedFields
<1>4. \A b \in Cells \ {c} : new[b] = doc[b] /\ next[b] = exp[b]
  BY <1>3 DEF Appended
<1>5. /\ DOMAIN doc[c] = DOMAIN exp[c] /\ Len(doc[c]) = Len(exp[c])
      /\ \A i \in DOMAIN doc[c] : /\ doc[c][i].kind = exp[c][i].kind
                                  /\ doc[c][i].id = exp[c][i].id
                                  /\ doc[c][i].items = exp[c][i].items
  BY DEF Matches
<1>6. /\ DOMAIN new[c] = DOMAIN next[c] /\ Len(new[c]) = Len(next[c])
      /\ new[c] # <<>> /\ next[c] # <<>>
  BY <1>3, <1>5 DEF Appended
<1>7. \A i \in DOMAIN new[c] : \/ new[c][i] = out /\ next[c][i] = out
                               \/ /\ i \in DOMAIN doc[c]
                                  /\ new[c][i] = doc[c][i] /\ next[c][i] = exp[c][i]
  BY <1>3, <1>5 DEF Appended
<1>8. \A i \in DOMAIN new[c] :
        /\ new[c][i].kind = next[c][i].kind /\ new[c][i].id = next[c][i].id
        /\ new[c][i].items = next[c][i].items
  BY <1>5, <1>7, Zenon
<1>9. Matches(new, next)
  <2> SUFFICES ASSUME NEW b \in Cells
               PROVE  /\ DOMAIN new[b] = DOMAIN next[b] /\ Len(new[b]) = Len(next[b])
                      /\ new[b] = <<>> <=> next[b] = <<>>
                      /\ \A i \in DOMAIN new[b] :
                           /\ new[b][i].kind = next[b][i].kind /\ new[b][i].id = next[b][i].id
                           /\ new[b][i].items = next[b][i].items
    BY DEF Matches
  <2>1. CASE b = c
    BY <1>6, <1>8, <2>1
  <2>2. CASE b # c
    <3>1. new[b] = doc[b] /\ next[b] = exp[b]
      BY <1>4, <2>2
    <3> QED
      BY <3>1 DEF Matches
  <2> QED
    BY <2>1, <2>2
<1> QED
  BY <1>1, <1>2, <1>9

(* A text that goes on in both.                                             *)
LEMMA ExtendedMatches ==
  ASSUME NEW m \in Nat, NEW n \in Nat, NEW doc \in Docs(m), NEW exp \in Docs(m), NEW c \in Cells,
         NEW new \in Docs(n), NEW next \in Docs(n),
         Matches(doc, exp), Extended(doc, new, c, n), Extended(exp, next, c, n)
  PROVE  Matches(new, next)
<1>1. \A b \in Cells :
        /\ DOMAIN new[b] = DOMAIN next[b] /\ Len(new[b]) = Len(next[b])
        /\ \A i \in DOMAIN new[b] :
             new[b][i].kind = next[b][i].kind /\ new[b][i].id = next[b][i].id
  BY DEF Matches, Extended, Alike
<1>2. \A b \in Cells : new[b] = <<>> <=> next[b] = <<>>
  BY <1>1, DocFields
<1>3. ASSUME NEW b \in Cells, NEW i \in DOMAIN new[b]
      PROVE  new[b][i].items = next[b][i].items
  <2>1. CASE b # c
    BY <1>3, <2>1 DEF Matches, Extended
  <2>2. CASE b = c
    <3>1. /\ i \in DOMAIN doc[c] /\ i \in DOMAIN exp[c] /\ Len(doc[c]) = Len(exp[c])
          /\ doc[c][i].items = exp[c][i].items
      BY <1>3, <2>2 DEF Matches, Extended, Alike
    <3>2. CASE i # Len(doc[c])
      BY <2>2, <3>1, <3>2 DEF Extended
    <3>3. CASE i = Len(doc[c])
      BY <2>2, <3>1, <3>3 DEF Extended
    <3> QED
      BY <3>2, <3>3
  <2> QED
    BY <2>1, <2>2
<1> QED
  BY <1>1, <1>2, <1>3 DEF Matches

-----------------------------------------------------------------------------
(* A pointer leads to the outputs with the display id, and no others.       *)
LeadsTo(doc, p, d) ==
    \A b \in Cells : \A i \in DOMAIN doc[b] :
        Is(doc[b][i], p[d].cell, p[d].made) <=> doc[b][i].id = d

(* Those of the tracker and of the reader do.                               *)
LEMMA PointersLead ==
  ASSUME NEW doc, NEW p, NEW d \in DisplayIds, p[d] # None, DocSound(doc, p), IdsLead(doc, p)
  PROVE  LeadsTo(doc, p, d)
<1>1. d # None
  BY OutputsAssumption DEF OutputsAssumption
<1> QED
  BY <1>1 DEF DocSound, LeadToIds, IdsLead, LeadsTo

(* The outputs with a display id are given the content of a message.        *)
Updated(doc, new, d, n) ==
    \A b \in Cells :
        /\ DOMAIN new[b] = DOMAIN doc[b] /\ Len(new[b]) = Len(doc[b])
        /\ \A i \in DOMAIN doc[b] :
             /\ new[b][i].kind = doc[b][i].kind /\ new[b][i].id = doc[b][i].id
             /\ new[b][i].items = IF doc[b][i].id = d THEN <<n>> ELSE doc[b][i].items

(* New content for the outputs that a pointer leads to does so.             *)
LEMMA SetItemsUpdates ==
  ASSUME NEW m \in Nat, NEW n \in Nat, m < n, NEW doc \in Docs(m), NEW p,
         NEW d \in DisplayIds, LeadsTo(doc, p, d)
  PROVE  Updated(doc, SetItems(doc, p[d].cell, p[d].made, n), d, n)
<1>1. PICK new \in Docs(n) : new = SetItems(doc, p[d].cell, p[d].made, n)
  BY SetItemsAlike
<1>2. /\ Alike(doc, new)
      /\ \A b \in Cells : \A i \in DOMAIN doc[b] :
           IF Is(doc[b][i], p[d].cell, p[d].made) THEN new[b][i].items = <<n>>
           ELSE new[b][i] = doc[b][i]
  BY <1>1, SetItemsAlike
<1>3. \A b \in Cells : \A i \in DOMAIN doc[b] :
        new[b][i].items = IF doc[b][i].id = d THEN <<n>> ELSE doc[b][i].items
  BY <1>2 DEF LeadsTo
<1> QED
  BY <1>1, <1>2, <1>3 DEF Alike, Updated

(* A display id that no output has.                                         *)
NoneHas(doc, d) == \A b \in Cells : \A i \in DOMAIN doc[b] : doc[b][i].id # d

(* Nothing is to be done for it.                                            *)
LEMMA NothingUpdated ==
  ASSUME NEW doc, NEW d \in DisplayIds, NEW n, NoneHas(doc, d)
  PROVE  Updated(doc, doc, d, n)
BY DEF NoneHas, Updated

(* Outputs that are written back are where the tracker says.                *)
LEMMA RemadeUpdates ==
  ASSUME NEW m \in Nat, NEW n \in Nat, m < n, NEW doc \in Docs(m), NEW new \in Docs(n), NEW p,
         NEW b \in Cells, NEW d \in DisplayIds, p[d] # None, b = p[d].cell,
         DocSound(doc, p), IdsLead(doc, p),
         Remade(doc, new, b, d, Output(n, b, "display", d))
  PROVE  Updated(doc, new, d, n)
<1>1. PICK x : x = Output(n, b, "display", d)
  OBVIOUS
<1>2. x.kind = "display" /\ x.id = d /\ x.items = <<n>>
  BY <1>1 DEF Output
<1>3. d # None
  BY OutputsAssumption DEF OutputsAssumption
<1>4. ASSUME NEW c \in Cells, NEW i \in DOMAIN doc[c]
      PROVE  /\ new[c][i].kind = doc[c][i].kind /\ new[c][i].id = doc[c][i].id
             /\ new[c][i].items = IF doc[c][i].id = d THEN <<n>> ELSE doc[c][i].items
  <2>1. CASE doc[c][i].id = d
    <3>1. doc[c][i].kind = "display"
      BY <1>3, <2>1 DEF DocSound, NoTextWithId
    <3>2. c = b
      BY <1>3, <2>1 DEF DocSound, AtHome, IdsLead, Is
    <3>3. new[c][i] = x
      BY <1>1, <2>1, <3>2 DEF Remade
    <3> QED
      BY <1>2, <2>1, <3>1, <3>3, Zenon
  <2>2. CASE doc[c][i].id # d
    <3>1. new[c][i] = doc[c][i]
      BY <2>2 DEF Remade
    <3> QED
      BY <2>2, <3>1
  <2> QED
    BY <2>1, <2>2
<1>5. \A c \in Cells : DOMAIN new[c] = DOMAIN doc[c] /\ Len(new[c]) = Len(doc[c])
  BY DEF Remade
<1> QED
  BY <1>4, <1>5, Zenon DEF Updated

(* Both show an update alike.                                               *)
LEMMA UpdatedMatches ==
  ASSUME NEW m \in Nat, NEW n \in Nat, NEW doc \in Docs(m), NEW exp \in Docs(m),
         NEW new \in Docs(n), NEW next \in Docs(n), NEW d,
         Matches(doc, exp), Updated(doc, new, d, n), Updated(exp, next, d, n)
  PROVE  Matches(new, next)
<1>1. \A b \in Cells : DOMAIN new[b] = DOMAIN next[b] /\ Len(new[b]) = Len(next[b])
  BY DEF Matches, Updated
<1>2. \A b \in Cells : new[b] = <<>> <=> next[b] = <<>>
  BY <1>1, DocFields
<1>3. ASSUME NEW b \in Cells, NEW i \in DOMAIN new[b]
      PROVE  /\ new[b][i].kind = next[b][i].kind /\ new[b][i].id = next[b][i].id
             /\ new[b][i].items = next[b][i].items
  <2>1. i \in DOMAIN doc[b] /\ i \in DOMAIN exp[b]
    BY <1>3 DEF Matches, Updated
  <2>2. /\ doc[b][i].kind = exp[b][i].kind /\ doc[b][i].id = exp[b][i].id
        /\ doc[b][i].items = exp[b][i].items
    BY <2>1 DEF Matches
  <2> QED
    BY <2>1, <2>2 DEF Updated
<1> QED
  BY <1>1, <1>2, <1>3 DEF Matches

(* No output has an id in one notebook that none has in the other.          *)
LEMMA NoneHasMatches ==
  ASSUME NEW doc, NEW exp, Matches(doc, exp), NEW d
  PROVE  NoneHas(doc, d) <=> NoneHas(exp, d)
BY DEF NoneHas, Matches

-----------------------------------------------------------------------------
(* Outputs with a display id are where the pointers lead, after each edit.  *)
(* They are where they were when only content is new.                       *)
LEMMA AlikeLeads ==
  ASSUME NEW doc, NEW new, Alike(doc, new), NEW p, IdsLead(doc, p)
  PROVE  IdsLead(new, p)
BY DEF Alike, IdsLead, Is

(* What is cleared needs no pointer.                                        *)
LEMMA ClearedLeads ==
  ASSUME NEW m \in Nat, NEW doc \in Docs(m), NEW c \in Cells, NEW S, NEW p, IdsLead(doc, p)
  PROVE  IdsLead(ClearAll(doc, c), p) /\ IdsLead(Base(doc, c, S), p)
<1>1. /\ ClearAll(doc, c)[c] = <<>> /\ DOMAIN ClearAll(doc, c)[c] = {}
      /\ \A b \in Cells \ {c} : ClearAll(doc, c)[b] = doc[b]
  BY Clears
<1>2. IdsLead(ClearAll(doc, c), p)
  BY <1>1 DEF IdsLead
<1> QED
  BY <1>2 DEF Base

(* The pointers, once one of them leads to a new output.                    *)
Pointed(p, p2, d, c, n) ==
    /\ d # None => p2[d] # None /\ p2[d].cell = c /\ p2[d].made = n
    /\ \A e \in DisplayIds \ {d} : p2[e] = p[e]

(* It leads to the output that is appended.                                 *)
LEMMA AppendedLeads ==
  ASSUME NEW m \in Nat, NEW n \in Nat, m < n, NEW doc \in Docs(m), NEW c \in Cells,
         NEW k \in Streams \cup {"display"}, NEW d \in DisplayIds \cup {None},
         NEW p, NEW p2, Pointed(p, p2, d, c, n),
         d # None => NoneHas(doc, d), IdsLead(doc, p)
  PROVE  IdsLead(AppendOut(doc, c, Output(n, c, k, d)), p2)
<1> DEFINE out == Output(n, c, k, d)
<1>1. PICK new : new = AppendOut(doc, c, out)
  OBVIOUS
<1>2. out.made = n /\ out.of = c /\ out.id = d
  BY NewOutput
<1>3. Appended(doc, new, c, out)
  BY <1>1, AppendedFields
<1> HIDE DEF out
<1>4. ASSUME NEW b \in Cells, NEW i \in DOMAIN new[b], new[b][i].id # None
      PROVE  /\ p2[new[b][i].id] # None
             /\ Is(new[b][i], p2[new[b][i].id].cell, p2[new[b][i].id].made)
  <2>1. CASE i \in DOMAIN doc[b] /\ new[b][i] = doc[b][i]
    <3>1. doc[b][i].id \in DisplayIds
      <4>1. doc[b][i] \in Outs(m)
        BY <2>1, ShownFields
      <4> QED
        BY <1>4, <2>1, <4>1 DEF Outs
    <3>2. doc[b][i].id # d
      BY <1>4, <2>1 DEF NoneHas
    <3>3. p2[doc[b][i].id] = p[doc[b][i].id]
      BY <3>1, <3>2 DEF Pointed
    <3> QED
      BY <1>4, <2>1, <3>3 DEF IdsLead
  <2>2. CASE b = c /\ new[b][i] = out
    BY <1>2, <1>4, <2>2 DEF Pointed, Is
  <2>3. \A j \in DOMAIN new[c] : j \in DOMAIN doc[c] \/ j = Len(doc[c]) + 1
    BY <1>3 DEF Appended
  <2> QED
    BY <1>3, <2>1, <2>2, <2>3 DEF Appended
<1> QED
  BY <1>1, <1>4 DEF IdsLead, out

(* It leads to the outputs that are made anew.                              *)
LEMMA RemadeLeads ==
  ASSUME NEW m \in Nat, NEW n \in Nat, m < n, NEW doc \in Docs(m), NEW new \in Docs(n),
         NEW b \in Cells, NEW d \in DisplayIds,
         Remade(doc, new, b, d, Output(n, b, "display", d)),
         NEW p, p[d].cell = b, DocSound(doc, p), IdsLead(doc, p),
         NEW p2, Pointed(p, p2, d, b, n)
  PROVE  IdsLead(new, p2)
<1>1. PICK x : x = Output(n, b, "display", d)
  OBVIOUS
<1>2. x.made = n /\ x.of = b /\ x.id = d
  BY <1>1 DEF Output
<1>3. d # None
  BY OutputsAssumption DEF OutputsAssumption
<1>4. ASSUME NEW c \in Cells, NEW i \in DOMAIN new[c], new[c][i].id # None
      PROVE  /\ p2[new[c][i].id] # None
             /\ Is(new[c][i], p2[new[c][i].id].cell, p2[new[c][i].id].made)
  <2>1. i \in DOMAIN doc[c]
    BY <1>4 DEF Remade
  <2>2. CASE doc[c][i].id = d
    <3>1. c = b
      BY <1>3, <2>1, <2>2 DEF DocSound, AtHome, IdsLead, Is
    <3>2. new[c][i] = x
      BY <1>1, <2>1, <2>2, <3>1 DEF Remade
    <3> QED
      BY <1>2, <1>3, <3>2 DEF Pointed, Is
  <2>3. CASE doc[c][i].id # d
    <3>1. new[c][i] = doc[c][i]
      BY <2>1, <2>3 DEF Remade
    <3>2. doc[c][i].id \in DisplayIds \ {d}
      <4>1. doc[c][i] \in Outs(m)
        BY <2>1, ShownFields
      <4> QED
        BY <1>4, <2>3, <3>1, <4>1 DEF Outs
    <3>3. p2[doc[c][i].id] = p[doc[c][i].id]
      BY <3>2 DEF Pointed
    <3> QED
      BY <1>4, <2>1, <3>1, <3>3 DEF IdsLead
  <2> QED
    BY <2>2, <2>3
<1> QED
  BY <1>4 DEF IdsLead

-----------------------------------------------------------------------------
(* What Exact asks of the next state.                                       *)
LEMMA ExactNext ==
  ASSUME NEW m \in Nat, NEW fin \in Docs(m), NEW exp \in Docs(m), NEW shown, NEW made,
         NEW ids, NEW streams, NEW looked, NEW alone,
         Final' = fin, expected' = exp, displayed' = shown, latest' = made, lastId' = ids,
         lastStream' = streams, reattached' = looked, apart' = alone,
         Len(edits') <= 1, Matches(fin, exp), IdsLead(fin, shown), IdsLead(exp, made),
         SameCell(shown, ids, made), ContinuesAlike(streams, looked, exp, alone)
  PROVE  Exact'
<1>1. Shown(fin) = Shown(exp)
  BY ShownMatches
<1>2. Shown(Final)' = Shown(fin) /\ Shown(expected)' = Shown(exp)
  BY DEF Shown
<1>3. IdsLead(Final, displayed)' /\ IdsLead(expected, latest)'
  BY DEF IdsLead, Is
<1>4. SameCell(displayed, lastId, latest)'
  BY DEF SameCell
<1>5. ContinuesAlike(lastStream, reattached, expected, apart)'
  BY DEF ContinuesAlike, IsStream, Last
<1> QED
  BY <1>1, <1>2, <1>3, <1>4, <1>5 DEF Exact

(* What Exact says before a message.                                        *)
LEMMA ExactBefore ==
  ASSUME OutputsTypes, Exact
  PROVE  /\ Matches(Final, expected) /\ IdsLead(Final, displayed) /\ IdsLead(expected, latest)
         /\ SameCell(displayed, lastId, latest)
         /\ ContinuesAlike(lastStream, reattached, expected, apart)
         /\ Len(edits) \in Nat /\ Len(edits) <= 1
<1>1. sent \in Nat /\ Final \in Docs(sent) /\ expected \in Docs(sent)
  BY BeforeMessage
<1>2. Matches(Final, expected)
  BY <1>1, ShownMatches DEF Exact
<1>3. Len(edits) \in Nat
  <2>1. PICK E : E = [shows : Docs(sent), gives : SUBSET Cells]
    OBVIOUS
  <2>2. edits \in Seq(E)
    BY <2>1 DEF OutputsTypes, DocTypes
  <2> QED
    BY <2>2
<1> QED
  BY <1>2, <1>3 DEF Exact

(* A handler asks for one edit when none is pending.                        *)
LEMMA AskedOnce ==
  ASSUME OutputsTypes, Len(edits) < 1, \E doc, gives : Ask(doc, gives)
  PROVE  Len(edits') <= 1
<1>1. PICK r : edits' = Append(edits, r)
  BY DEF Ask
<1>2. PICK F : F = [shows : Docs(sent), gives : SUBSET Cells] \cup {r}
  OBVIOUS
<1>3. PICK q \in Seq(F) : q = edits /\ Len(q) < 1
  <2>1. PICK E : E = [shows : Docs(sent), gives : SUBSET Cells]
    OBVIOUS
  <2>2. edits \in Seq(E)
    BY <2>1 DEF OutputsTypes, DocTypes
  <2>3. edits \in Seq(F)
    BY <1>2, <2>1, <2>2
  <2> QED
    BY <2>3
<1>4. Len(Append(q, r)) = Len(q) + 1 /\ Len(q) \in Nat
  BY <1>2
<1> QED
  BY <1>1, <1>3, <1>4

(* A message comes when no edit is pending, and asks for one at most.       *)
LEMMA OneEdit ==
  ASSUME OutputsTypes, lag = 1, Message,
         \/ UNCHANGED edits
         \/ \E doc, gives : Ask(doc, gives)
  PROVE  edits = <<>> /\ Final = outputs /\ Len(edits') <= 1
<1>1. PICK E : E = [shows : Docs(sent), gives : SUBSET Cells]
  OBVIOUS
<1>2. edits \in Seq(E) /\ Len(edits) < 1
  BY <1>1 DEF OutputsTypes, DocTypes, Message
<1>3. edits = <<>>
  BY <1>2
<1>4. Len(edits') <= 1
  BY <1>2, AskedOnce
<1> QED
  BY <1>3, <1>4 DEF Final

(* What a cell ends with, after a text.                                     *)
LEMMA ExtendedEnds ==
  ASSUME NEW m \in Nat, NEW n \in Nat, NEW doc \in Docs(m), NEW new \in Docs(n), NEW c \in Cells,
         Extended(doc, new, c, n)
  PROVE  /\ new[c] # <<>> /\ Last(new[c]).kind = Last(doc[c]).kind
         /\ \A b \in Cells \ {c} : new[b] = doc[b]
<1>1. /\ doc[c] # <<>> /\ Len(new[c]) = Len(doc[c])
      /\ \A i \in DOMAIN doc[c] : new[c][i].kind = doc[c][i].kind
      /\ \A b \in Cells \ {c} : new[b] = doc[b]
  BY DEF Extended, Alike
<1>2. Len(doc[c]) \in DOMAIN doc[c] /\ Last(doc[c]) = doc[c][Len(doc[c])] /\ Len(doc[c]) # 0
  BY <1>1, DocFields
<1>3. new[c] # <<>> /\ Last(new[c]) = new[c][Len(new[c])]
  BY <1>1, <1>2, DocFields
<1> QED
  BY <1>1, <1>2, <1>3

(* A cell ends with an output of this kind; the others are as they were.    *)
EndsIn(doc, new, c, k) ==
    /\ new[c] # <<>> /\ Last(new[c]).kind = k
    /\ \A b \in Cells \ {c} : new[b] = doc[b]

(* It does after an output is appended to it.                               *)
LEMMA AppendedEnds ==
  ASSUME NEW m \in Nat, NEW n \in Nat, m < n, NEW doc \in Docs(m), NEW c \in Cells, NEW S,
         NEW k \in Streams \cup {"display"}, NEW d \in DisplayIds \cup {None}
  PROVE  EndsIn(doc, AppendOut(Base(doc, c, S), c, Output(n, c, k, d)), c, k)
<1> DEFINE new == AppendOut(Base(doc, c, S), c, Output(n, c, k, d))
<1>1. PICK base \in Docs(m) : base = Base(doc, c, S)
  BY BaseFields
<1>2. new \in Docs(n) /\ Appended(base, new, c, Output(n, c, k, d))
  BY <1>1, AppendedFields
<1>3. \A b \in Cells \ {c} : new[b] = doc[b]
  BY <1>1, <1>2, BaseFields DEF Appended
<1>4. new[c] # <<>> /\ Last(new[c]) = Output(n, c, k, d)
  BY <1>2 DEF Appended, Last
<1>5. Output(n, c, k, d).kind = k
  BY NewOutput
<1> QED
  BY <1>3, <1>4, <1>5 DEF EndsIn

(* Handler and reader go on alike, if they do so for the cell that changes. *)
LEMMA GoOnAlike ==
  ASSUME NEW c \in Cells, NEW streams, NEW streams2, NEW looked, NEW looked2, NEW exp, NEW exp2,
         NEW alone, NEW alone2, ContinuesAlike(streams, looked, exp, alone),
         \A b \in Cells \ {c} :
             /\ streams2[b] # None <=> streams[b] # None
             /\ b \in Resumed \ looked2 <=> b \in Resumed \ looked
             /\ b \in alone2 <=> b \in alone
             /\ exp2[b] = exp[b],
         alone2 \cap Resumed = {},
         c \notin Resumed \ looked2 =>
             (streams2[c] # None <=>
                exp2[c] # <<>> /\ IsStream(Last(exp2[c])) /\ c \notin alone2)
  PROVE  ContinuesAlike(streams2, looked2, exp2, alone2)
<1> SUFFICES ASSUME NEW b \in Cells, b \notin Resumed \ looked2
             PROVE  streams2[b] # None <=>
                      exp2[b] # <<>> /\ IsStream(Last(exp2[b])) /\ b \notin alone2
  BY DEF ContinuesAlike
<1>1. CASE b = c
  BY <1>1
<1>2. CASE b # c
  <2>1. /\ streams2[b] # None <=> streams[b] # None
        /\ b \notin Resumed \ looked
        /\ b \in alone2 <=> b \in alone
        /\ exp2[b] = exp[b]
    BY <1>2
  <2> QED
    BY <2>1 DEF ContinuesAlike
<1> QED
  BY <1>1, <1>2

(* A text continues an output of the notebook if it does for the reader.    *)
LEMMA GoesAlike ==
  ASSUME OutputsTypes, Calm, lag = 1, Sound, Exact, NEW c \in Cells, NEW s \in Streams,
         StreamMessage(c, s)
  PROVE  Goes(c, s) <=> ReaderGoes(c, s)
<1>1. sent \in Nat /\ Final \in Docs(sent) /\ expected \in Docs(sent)
  BY BeforeMessage
<1>2. /\ Matches(Final, expected)
      /\ ContinuesAlike(lastStream, reattached, expected, apart)
  BY ExactBefore
<1>3. Final = outputs
  BY OneEdit DEF StreamMessage
<1>4. /\ Final[c] = <<>> <=> expected[c] = <<>>
      /\ Final[c] # <<>> => Last(Final[c]).kind = Last(expected[c]).kind
  BY <1>1, <1>2, LastMatches DEF Matches
<1>5. clearWait = waiting /\ ContinuesLast(Final, lastStream)
  BY DEF Sound
<1>6. CASE c \in clearWait
  BY <1>5, <1>6 DEF Goes, ReaderGoes, Room
<1>7. CASE c \notin clearWait
  <2>1. Room(c) = expected[c]
    BY <1>5, <1>7 DEF Room
  <2>2. CASE c \in Resumed \ reattached
    <3>1. lastStream[c] = None /\ c \notin apart
      BY <1>2, <2>2 DEF OutputsTypes, HandlerTypes, ContinuesAlike
    <3> QED
      BY <1>3, <1>4, <1>7, <2>1, <2>2, <3>1 DEF Goes, ReaderGoes, Continues
  <2>3. CASE c \notin Resumed \ reattached
    <3>1. /\ ~Continues(c, s)
          /\ lastStream[c] # None <=>
               expected[c] # <<>> /\ IsStream(Last(expected[c])) /\ c \notin apart
      BY <1>2, <2>3 DEF Continues, ContinuesAlike
    <3>2. lastStream[c] # None => /\ Final[c] # <<>>
                                  /\ Last(Final[c]).kind = lastStream[c].stream
      BY <1>5 DEF ContinuesLast
    <3>3. Goes(c, s) <=> lastStream[c] # None /\ lastStream[c].stream = s
      BY <1>7, <3>1 DEF Goes
    <3>4. ReaderGoes(c, s) <=> expected[c] # <<>> /\ Last(expected[c]).kind = s /\ c \notin apart
      BY <2>1 DEF ReaderGoes
    <3> QED
      BY <1>4, <3>1, <3>2, <3>3, <3>4 DEF IsStream
  <2> QED
    BY <2>2, <2>3
<1> QED
  BY <1>6, <1>7

(* A text.                                                                  *)
LEMMA TextKeepsExact ==
  ASSUME OutputsTypes, Calm, lag = 1, Sound, Exact, NEW c \in Cells, NEW s \in Streams,
         StreamMessage(c, s)
  PROVE  Exact'
<1>1. PICK m \in Nat : m = sent
  BY BeforeMessage
<1>2. PICK n \in Nat : n = sent + 1 /\ m < n
  BY <1>1, BeforeMessage
<1>3. PICK doc \in Docs(m), exp \in Docs(m) : doc = Final /\ exp = expected
  BY <1>1, BeforeMessage
<1>4. PICK fin, next : Final' = fin /\ expected' = next /\ TextShape(c, s, n, fin, next)
  BY <1>2, TextShapes
<1>5. fin \in Docs(n) /\ next \in Docs(n)
  BY <1>4 DEF TextShape
<1>6. /\ Matches(doc, exp) /\ IdsLead(doc, displayed) /\ IdsLead(exp, latest)
      /\ SameCell(displayed, lastId, latest)
      /\ ContinuesAlike(lastStream, reattached, exp, apart)
  BY <1>3, ExactBefore
<1>7. Len(edits') <= 1
  BY OneEdit DEF StreamMessage
<1>8. /\ lastStream' = [lastStream EXCEPT ![c] = lastStream'[c]] /\ lastStream'[c] # None
      /\ reattached' = reattached \cup {c} /\ apart' = apart \ {c}
      /\ displayed' = displayed /\ latest' = latest /\ lastId' = lastId
  <2>1. /\ reattached' = reattached \cup {c} /\ apart' = apart \ {c}
        /\ displayed' = displayed /\ latest' = latest /\ lastId' = lastId
    BY DEF StreamMessage, Reattached, trackerVars
  <2>2. lastStream \in [Cells -> StreamPointers(sent)]
    BY BeforeMessage
  <2>3. CASE Goes(c, s)
    <3>1. lastStream' = [lastStream EXCEPT ![c] = GoesOnAt(c, s)] /\ GoesOnAt(c, s) # None
      BY <1>4, <2>3, GoesOnAtLast DEF TextShape
    <3> QED
      BY <2>1, <2>2, <3>1
  <2>4. CASE ~Goes(c, s)
    <3>1. PICK at : at = [stream |-> s, made |-> n]
      OBVIOUS
    <3>2. lastStream' = [lastStream EXCEPT ![c] = at] /\ at # None
      BY <1>2, <1>4, <2>4, <3>1, NoneIsNoPointer DEF TextShape
    <3> QED
      BY <2>1, <2>2, <3>2
  <2> QED
    BY <2>3, <2>4
<1>9. PICK k \in Streams \cup {"display"}, d \in DisplayIds \cup {None} : k = s /\ d = None
  OBVIOUS
<1>10. clearWait = waiting
  BY DEF Sound
<1>11. Goes(c, s) <=> ReaderGoes(c, s)
  BY GoesAlike
<1>12. /\ Matches(fin, next) /\ IdsLead(fin, displayed) /\ IdsLead(next, latest)
       /\ next[c] # <<>> /\ Last(next[c]).kind = s /\ \A b \in Cells \ {c} : next[b] = exp[b]
  <2>1. CASE Goes(c, s)
    <3>1. /\ Extended(doc, fin, c, n) /\ Extended(exp, next, c, n)
          /\ Last(exp[c]).kind = s
      BY <1>3, <1>4, <1>11, <2>1 DEF TextShape
    <3>2. Matches(fin, next)
      BY <1>5, <1>6, <3>1, ExtendedMatches
    <3>3. IdsLead(fin, displayed) /\ IdsLead(next, latest)
      BY <1>6, <3>1, AlikeLeads DEF Extended
    <3> QED
      BY <1>5, <3>1, <3>2, <3>3, ExtendedEnds
  <2>2. CASE ~Goes(c, s)
    <3>1. PICK base \in Docs(m), from \in Docs(m) :
            base = Base(doc, c, clearWait) /\ from = Base(exp, c, clearWait)
      BY BaseFields
    <3>2. fin = AppendOut(base, c, Output(n, c, k, d)) /\ next = AppendOut(from, c, Output(n, c, k, d))
      BY <1>3, <1>4, <1>9, <1>10, <1>11, <2>2, <3>1 DEF TextShape
    <3>3. Matches(base, from) /\ IdsLead(base, displayed) /\ IdsLead(from, latest)
      BY <1>6, <3>1, ClearedMatches, ClearedLeads
    <3>4. Matches(fin, next)
      BY <1>2, <3>2, <3>3, AppendedMatches
    <3>5. Pointed(displayed, displayed, d, c, n) /\ Pointed(latest, latest, d, c, n)
      BY <1>9 DEF Pointed
    <3>6. IdsLead(fin, displayed) /\ IdsLead(next, latest)
      BY <1>2, <1>9, <3>2, <3>3, <3>5, AppendedLeads
    <3>7. next = AppendOut(Base(exp, c, clearWait), c, Output(n, c, k, d))
      BY <3>1, <3>2
    <3>8. EndsIn(exp, AppendOut(Base(exp, c, clearWait), c, Output(n, c, k, d)), c, k)
      BY <1>2, AppendedEnds
    <3> QED
      BY <1>9, <3>4, <3>6, <3>7, <3>8 DEF EndsIn
  <2> QED
    BY <2>1, <2>2
<1>13. PICK streams, looked, alone :
         lastStream' = streams /\ reattached' = looked /\ apart' = alone
  OBVIOUS
<1>14. ContinuesAlike(streams, looked, next, alone)
  <2>1. alone \cap Resumed = {}
    BY <1>6, <1>8, <1>13 DEF ContinuesAlike
  <2>2. streams[c] # None /\ IsStream(Last(next[c])) /\ c \notin alone
    BY <1>8, <1>12, <1>13 DEF IsStream
  <2>3. \A b \in Cells \ {c} :
          /\ streams[b] # None <=> lastStream[b] # None
          /\ b \in Resumed \ looked <=> b \in Resumed \ reattached
          /\ b \in alone <=> b \in apart
          /\ next[b] = exp[b]
    <3>1. lastStream \in [Cells -> StreamPointers(sent)]
      BY BeforeMessage
    <3>2. \A b \in Cells \ {c} : streams[b] = lastStream[b]
      BY <1>8, <1>13, <3>1
    <3> QED
      BY <1>8, <1>12, <1>13, <3>2
  <2> QED
    BY <1>6, <1>12, <2>1, <2>2, <2>3, GoOnAlike
<1> QED
  BY <1>4, <1>5, <1>6, <1>7, <1>8, <1>12, <1>13, <1>14, ExactNext

-----------------------------------------------------------------------------
(* A displayed output.                                                      *)
LEMMA AddKeepsExact ==
  ASSUME OutputsTypes, Calm, lag = 1, Sound, Exact, NEW c \in Cells,
         NEW d \in DisplayIds \cup {None}, AddOutput(c, d), "reused" \notin Unusual
  PROVE  Exact'
<1>1. PICK m \in Nat : m = sent
  BY BeforeMessage
<1>2. PICK n \in Nat : n = sent + 1 /\ m < n
  BY <1>1, BeforeMessage
<1>3. PICK doc \in Docs(m), exp \in Docs(m) : doc = Final /\ exp = expected
  BY <1>1, BeforeMessage
<1>4. PICK fin, next : Final' = fin /\ expected' = next /\ AddShape(c, d, n, fin, next)
  BY <1>2, AddShapes
<1>5. fin \in Docs(n) /\ next \in Docs(n)
  BY <1>4 DEF AddShape
<1>6. /\ Matches(doc, exp) /\ IdsLead(doc, displayed) /\ IdsLead(exp, latest)
      /\ SameCell(displayed, lastId, latest)
      /\ ContinuesAlike(lastStream, reattached, exp, apart)
      /\ clearWait = waiting
  BY <1>3, ExactBefore DEF Sound
<1>7. Len(edits') <= 1
  BY OneEdit DEF AddOutput
<1>8. /\ lastStream' = [lastStream EXCEPT ![c] = None]
      /\ reattached' = reattached /\ apart' = apart
  BY DEF AddOutput, StreamBroken
<1>9. PICK k \in Streams \cup {"display"} : k = "display"
  OBVIOUS
<1>10. PICK shown, made, ids, streams :
         displayed' = shown /\ latest' = made /\ lastId' = ids /\ lastStream' = streams
  OBVIOUS
<1>11. /\ displayed \in [DisplayIds -> Pointers(sent)] /\ latest \in [DisplayIds -> Pointers(sent)]
       /\ lastId \in [Cells -> DisplayIds \cup {None}]
       /\ lastStream \in [Cells -> StreamPointers(sent)]
  BY BeforeMessage DEF OutputsTypes, TrackerTypes
<1>12. PICK at : at = [cell |-> c, made |-> n]
  OBVIOUS
<1>13. at # None /\ at.cell = c /\ at.made = n
  BY <1>12, NoneIsNoPointer
<1>14. IF d = None THEN shown = displayed /\ made = latest /\ ids = lastId
       ELSE /\ shown = [displayed EXCEPT ![d] = at] /\ made = [latest EXCEPT ![d] = at]
            /\ ids = [lastId EXCEPT ![c] = d]
  BY <1>2, <1>10, <1>12 DEF AddOutput, Track, trackerVars
<1>15. Pointed(displayed, shown, d, c, n) /\ Pointed(latest, made, d, c, n)
  BY <1>11, <1>13, <1>14 DEF Pointed
<1>16. d # None => NoneHas(exp, d) /\ NoneHas(doc, d) /\ (latest[d] # None => latest[d].cell = c)
  <2>1. d # None => NoneHas(exp, d) /\ (latest[d] # None => latest[d].cell = c)
    BY <1>3 DEF AddOutput, Unused, NoneHas
  <2> QED
    BY <1>6, <2>1, NoneHasMatches
<1>17. PICK base \in Docs(m), from \in Docs(m) :
         base = Base(doc, c, clearWait) /\ from = Base(exp, c, clearWait)
  BY BaseFields
<1>18. /\ fin = AppendOut(base, c, Output(n, c, k, d))
       /\ next = AppendOut(from, c, Output(n, c, k, d))
  BY <1>3, <1>4, <1>6, <1>9, <1>17 DEF AddShape
<1>19. Matches(base, from) /\ IdsLead(base, displayed) /\ IdsLead(from, latest)
  BY <1>6, <1>17, ClearedMatches, ClearedLeads
<1>20. Matches(fin, next)
  BY <1>2, <1>18, <1>19, AppendedMatches
<1>21. d # None => NoneHas(base, d) /\ NoneHas(from, d)
  <2>1. /\ \A b \in Cells : DOMAIN base[b] = {} \/ base[b] = doc[b]
        /\ \A b \in Cells : DOMAIN from[b] = {} \/ from[b] = exp[b]
    BY <1>17, BaseFields
  <2> QED
    BY <1>16, <2>1 DEF NoneHas
<1>22. IdsLead(fin, shown) /\ IdsLead(next, made)
  BY <1>2, <1>15, <1>18, <1>19, <1>21, AppendedLeads
<1>23. SameCell(shown, ids, made)
  <2>1. CASE d = None
    BY <1>6, <1>14, <2>1
  <2>2. CASE d # None
    <3>1. /\ shown[d] = at /\ made[d] = at /\ ids[c] = d
          /\ \A e \in DisplayIds \ {d} : shown[e] = displayed[e] /\ made[e] = latest[e]
          /\ \A b \in Cells \ {c} : ids[b] = lastId[b]
      BY <1>11, <1>14, <2>2
    <3>2. ASSUME NEW e \in DisplayIds, shown[e] # None
          PROVE  made[e] # None /\ shown[e].cell = made[e].cell
      BY <1>6, <1>13, <3>1, <3>2 DEF SameCell
    <3>3. ASSUME NEW b \in Cells, ids[b] # None
          PROVE  made[ids[b]] # None /\ made[ids[b]].cell = b
      <4>1. CASE b = c
        BY <1>13, <3>1, <4>1
      <4>2. CASE b # c
        <5>1. ids[b] = lastId[b] /\ ids[b] \in DisplayIds
          BY <1>11, <3>1, <3>3, <4>2
        <5>2. latest[ids[b]] # None /\ latest[ids[b]].cell = b
          BY <1>6, <3>3, <5>1 DEF SameCell
        <5>3. ids[b] # d
          BY <1>16, <2>2, <4>2, <5>2
        <5> QED
          BY <3>1, <5>1, <5>2, <5>3
      <4> QED
        BY <4>1, <4>2
    <3> QED
      BY <3>2, <3>3 DEF SameCell
  <2> QED
    BY <2>1, <2>2
<1>24. ContinuesAlike(streams, reattached, next, apart)
  <2>1. next[c] # <<>> /\ Last(next[c]).kind = k /\ \A b \in Cells \ {c} : next[b] = exp[b]
    <3>1. next = AppendOut(Base(exp, c, clearWait), c, Output(n, c, k, d))
      BY <1>17, <1>18
    <3>2. EndsIn(exp, AppendOut(Base(exp, c, clearWait), c, Output(n, c, k, d)), c, k)
      BY <1>2, AppendedEnds
    <3> QED
      BY <3>1, <3>2 DEF EndsIn
  <2>2. ~IsStream(Last(next[c]))
    BY <1>9, <2>1, OutputsAssumption DEF IsStream, OutputsAssumption
  <2>3. streams[c] = None /\ \A b \in Cells \ {c} : streams[b] = lastStream[b]
    BY <1>8, <1>10, <1>11
  <2>4. apart \cap Resumed = {}
    BY <1>6 DEF ContinuesAlike
  <2> QED
    BY <1>6, <2>1, <2>2, <2>3, <2>4, GoOnAlike
<1> QED
  BY <1>4, <1>5, <1>7, <1>8, <1>10, <1>20, <1>22, <1>23, <1>24, ExactNext

-----------------------------------------------------------------------------
(* Pointers that are forgotten when a cell shows nothing led to its         *)
(* outputs; so those of the outputs that are shown stay.                    *)
LEMMA EmptiedLeads ==
  ASSUME OutputsTypes, NEW m \in Nat, NEW doc \in Docs(m), NEW S \in SUBSET Cells, OnEmptied(S),
         AtHome(doc), IdsLead(doc, displayed), SameCell(displayed, lastId, latest),
         \A c \in S : doc[c] = <<>>
  PROVE  /\ IdsLead(doc, displayed') /\ SameCell(displayed', lastId', latest)
         /\ \A c \in Cells : lastStream'[c] = IF c \in S THEN None ELSE lastStream[c]
<1>1. /\ \A d \in DisplayIds : displayed'[d] = IF d \in IdsOf(S) THEN None ELSE displayed[d]
      /\ \A c \in Cells : lastId'[c] = IF c \in S THEN None ELSE lastId[c]
      /\ \A c \in Cells : lastStream'[c] = IF c \in S THEN None ELSE lastStream[c]
  BY DEF OnEmptied
<1>2. PICK shown, ids : displayed' = shown /\ lastId' = ids
  OBVIOUS
<1>3. SameCell(shown, ids, latest)
  BY <1>1, <1>2 DEF SameCell
<1>4. ASSUME NEW b \in Cells, NEW i \in DOMAIN doc[b], doc[b][i].id # None
      PROVE  /\ shown[doc[b][i].id] # None
             /\ Is(doc[b][i], shown[doc[b][i].id].cell, shown[doc[b][i].id].made)
  <2>1. PICK d \in DisplayIds : d = doc[b][i].id
    <3>1. doc[b][i] \in Outs(m)
      BY ShownFields
    <3> QED
      BY <1>4, <3>1 DEF Outs
  <2>2. displayed[d] # None /\ Is(doc[b][i], displayed[d].cell, displayed[d].made)
    BY <1>4, <2>1 DEF IdsLead
  <2>3. displayed[d].cell = b
    BY <2>2 DEF AtHome, Is
  <2>4. b \notin S
    <3>1. DOMAIN doc[b] # {}
      BY <1>4
    <3> QED
      BY <3>1
  <2>5. ASSUME d \in IdsOf(S) PROVE FALSE
    <3>1. PICK c \in S : lastId[c] = d
      BY <2>5 DEF IdsOf
    <3>2. latest[d].cell = c
      BY <2>2, <3>1, OutputsAssumption DEF SameCell, OutputsAssumption
    <3>3. displayed[d].cell = c
      BY <2>2, <3>2 DEF SameCell
    <3> QED
      BY <2>3, <2>4, <3>1, <3>3
  <2>6. shown[d] = displayed[d]
    BY <1>1, <1>2, <2>5
  <2> QED
    BY <2>1, <2>2, <2>6
<1> QED
  BY <1>1, <1>2, <1>3, <1>4 DEF IdsLead

(* A clearing, by a message or at the start of an execution.                *)
LEMMA ClearKeepsExact ==
  ASSUME OutputsTypes, Calm, lag = 1, Sound, Exact, NEW c \in Cells,
         ClearNow(c) \/ Acknowledge(c) \/ UserClears(c)
  PROVE  Exact'
<1>1. PICK m \in Nat : m = sent
  BY BeforeMessage
<1>2. PICK doc \in Docs(m), exp \in Docs(m) : doc = Final /\ exp = expected
  BY <1>1, BeforeMessage
<1>3. PICK fin \in Docs(m), next \in Docs(m) :
        fin = ClearAll(doc, c) /\ next = ClearAll(exp, c) /\ Final' = fin /\ expected' = next
  BY <1>2, ClearShapes, Clears
<1>4. /\ Matches(doc, exp) /\ IdsLead(doc, displayed) /\ IdsLead(exp, latest)
      /\ SameCell(displayed, lastId, latest)
      /\ ContinuesAlike(lastStream, reattached, exp, apart)
      /\ Len(edits) <= 1
  BY <1>2, ExactBefore
<1>5. Matches(fin, next) /\ IdsLead(fin, displayed) /\ IdsLead(next, latest)
  BY <1>3, <1>4, ClearedMatches, ClearedLeads
<1>6. Len(edits') <= 1
  <2>1. CASE ClearNow(c)
    BY <2>1, OneEdit DEF ClearNow
  <2>2. CASE Acknowledge(c)
    <3>1. Len(edits) < 1 /\ \E f, gives : Ask(f, gives)
      BY <2>2 DEF Acknowledge
    <3> QED
      BY <3>1, AskedOnce
  <2>3. CASE UserClears(c)
    BY <1>4, <2>3 DEF UserClears
  <2> QED
    BY <2>1, <2>2, <2>3
<1>7. fin[c] = <<>> /\ next[c] = <<>> /\ \A b \in Cells \ {c} : next[b] = exp[b]
  BY <1>3, Clears
<1>8. PICK shown, ids, streams :
        displayed' = shown /\ lastId' = ids /\ lastStream' = streams
  OBVIOUS
<1>9. reattached' = reattached /\ apart' = apart /\ latest' = latest
  BY DEF ClearNow, Acknowledge, UserClears, handlerVars
<1>10. /\ IdsLead(fin, shown) /\ SameCell(shown, ids, latest)
       /\ streams[c] = None /\ \A b \in Cells \ {c} : streams[b] = lastStream[b]
  <2>1. CASE ClearNow(c)
    <3>1. /\ displayed' = displayed /\ lastId' = lastId
          /\ lastStream' = [lastStream EXCEPT ![c] = None]
      BY <2>1 DEF ClearNow, trackerVars, StreamBroken
    <3>2. lastStream \in [Cells -> StreamPointers(sent)]
      BY BeforeMessage
    <3> QED
      BY <1>4, <1>5, <1>8, <3>1, <3>2
  <2>2. CASE Acknowledge(c)
    <3>1. displayed' = displayed /\ lastId' = lastId /\ lastStream' = lastStream
      BY <2>2 DEF Acknowledge, trackerVars, handlerVars
    <3>2. lastStream[c] = None
      BY <2>2 DEF Acknowledge, Sound, Begun
    <3> QED
      BY <1>4, <1>5, <1>8, <3>1, <3>2
  <2>3. CASE UserClears(c)
    <3>1. OnEmptied({c})
      BY <2>3 DEF UserClears
    <3>2. AtHome(fin)
      BY <1>2, <1>3, ClearedSound DEF Sound, DocSound
    <3>3. \A b \in {c} : fin[b] = <<>>
      BY <1>7
    <3>4. {c} \in SUBSET Cells
      OBVIOUS
    <3> QED
      BY <1>4, <1>5, <1>8, <3>1, <3>2, <3>3, <3>4, EmptiedLeads
  <2> QED
    BY <2>1, <2>2, <2>3
<1>11. ContinuesAlike(streams, reattached, next, apart)
  <2>1. apart \cap Resumed = {}
    BY <1>4 DEF ContinuesAlike
  <2> QED
    BY <1>4, <1>7, <1>10, <2>1, GoOnAlike
<1> QED
  BY <1>3, <1>5, <1>6, <1>8, <1>9, <1>10, <1>11, ExactNext

-----------------------------------------------------------------------------
(* What a cell ends with does not depend on content.                        *)
LEMMA AlikeContinues ==
  ASSUME NEW m \in Nat, NEW n \in Nat, NEW doc \in Docs(m), NEW new \in Docs(n), Alike(doc, new),
         NEW streams, NEW looked, NEW alone, ContinuesAlike(streams, looked, doc, alone)
  PROVE  ContinuesAlike(streams, looked, new, alone)
<1>1. ASSUME NEW c \in Cells
      PROVE  /\ new[c] = <<>> <=> doc[c] = <<>>
             /\ doc[c] # <<>> => Last(new[c]).kind = Last(doc[c]).kind
  <2>1. Len(new[c]) = Len(doc[c])
    BY DEF Alike
  <2>2. new[c] = <<>> <=> doc[c] = <<>>
    BY <2>1, DocFields
  <2>3. ASSUME doc[c] # <<>> PROVE Last(new[c]).kind = Last(doc[c]).kind
    <3>1. /\ Last(new[c]) = new[c][Len(doc[c])] /\ Last(doc[c]) = doc[c][Len(doc[c])]
          /\ Len(doc[c]) \in DOMAIN doc[c]
      BY <2>1, <2>2, <2>3, DocFields
    <3> QED
      BY <3>1 DEF Alike
  <2> QED
    BY <2>2, <2>3
<1> QED
  BY <1>1 DEF ContinuesAlike, IsStream

(* An update, of content or of metadata too.                                *)
LEMMA UpdateKeepsExact ==
  ASSUME OutputsTypes, Calm, lag = 1, Sound, Exact, NEW c \in Cells,
         NEW d \in DisplayIds, UpdateItems(c, d) \/ UpdateMetadata(c, d)
  PROVE  Exact'
<1>1. PICK m \in Nat : m = sent
  BY BeforeMessage
<1>2. PICK n \in Nat : n = sent + 1 /\ m < n
  BY <1>1, BeforeMessage
<1>3. PICK doc \in Docs(m), exp \in Docs(m) : doc = Final /\ exp = expected
  BY <1>1, BeforeMessage
<1>4. /\ Matches(doc, exp) /\ IdsLead(doc, displayed) /\ IdsLead(exp, latest)
      /\ SameCell(displayed, lastId, latest)
      /\ ContinuesAlike(lastStream, reattached, exp, apart)
      /\ DocSound(doc, displayed) /\ DocSound(exp, latest)
  BY <1>3, ExactBefore DEF Sound
<1>5. Len(edits') <= 1
  BY OneEdit DEF UpdateItems, UpdateMetadata
<1>6. UNCHANGED <<reattached, lastStream, apart, latest>>
  BY DEF UpdateItems, UpdateMetadata, handlerVars
<1>7. /\ displayed \in [DisplayIds -> Pointers(sent)]
      /\ lastId \in [Cells -> DisplayIds \cup {None}]
  BY BeforeMessage DEF OutputsTypes, TrackerTypes
<1>8. displayed[d] # None => latest[d] # None /\ displayed[d].cell \in Cells
                             /\ displayed[d].cell = latest[d].cell
  <2>1. displayed[d] # None => displayed[d].cell \in Cells
    BY <1>7 DEF Pointers
  <2> QED
    BY <1>4, <2>1 DEF SameCell
<1>9. displayed[d] = None => NoneHas(doc, d) /\ NoneHas(exp, d)
  <2>1. displayed[d] = None => NoneHas(doc, d)
    BY <1>4, OutputsAssumption DEF IdsLead, NoneHas, OutputsAssumption
  <2> QED
    BY <1>4, <2>1, NoneHasMatches
<1>10. ASSUME NEW next \in Docs(n), ReaderUpdates(d, n, next)
       PROVE  /\ Updated(exp, next, d, n) /\ IdsLead(next, latest)
              /\ ContinuesAlike(lastStream, reattached, next, apart)
  <2>1. CASE latest[d] = None
    <3>1. next = exp /\ displayed[d] = None
      BY <1>3, <1>8, <1>10, <2>1 DEF ReaderUpdates
    <3> QED
      BY <1>4, <1>9, <3>1, NothingUpdated
  <2>2. CASE latest[d] # None
    <3>1. next = SetItems(exp, latest[d].cell, latest[d].made, n)
      BY <1>3, <1>10, <2>2 DEF ReaderUpdates
    <3>2. LeadsTo(exp, latest, d)
      BY <1>4, <2>2, PointersLead
    <3>3. Updated(exp, next, d, n)
      BY <1>2, <3>1, <3>2, SetItemsUpdates
    <3>4. Alike(exp, next)
      BY <1>2, <3>1, SetItemsAlike
    <3> QED
      BY <1>4, <3>3, <3>4, AlikeLeads, AlikeContinues
  <2> QED
    BY <2>1, <2>2
<1>11. ASSUME NEW b \in Cells, b = displayed[d].cell, displayed[d] # None, NEW k,
              Track(b, d, k), [cell |-> b, made |-> k] # None
       PROVE  /\ SameCell(displayed', lastId', latest)
              /\ Pointed(displayed, displayed', d, b, k)
  <2>1. PICK at : at = [cell |-> b, made |-> k]
    OBVIOUS
  <2>2. at # None /\ at.cell = b /\ at.made = k
    BY <1>11, <2>1
  <2>3. PICK shown, ids : displayed' = shown /\ lastId' = ids
    OBVIOUS
  <2>4. shown = [displayed EXCEPT ![d] = at] /\ ids = [lastId EXCEPT ![b] = d]
    BY <1>11, <2>1, <2>3 DEF Track
  <2>5. /\ shown[d] = at /\ ids[b] = d
        /\ \A e \in DisplayIds \ {d} : shown[e] = displayed[e]
        /\ \A a \in Cells \ {b} : ids[a] = lastId[a]
    BY <1>7, <2>4
  <2>6. Pointed(displayed, shown, d, b, k)
    BY <2>2, <2>5 DEF Pointed
  <2>7. ASSUME NEW e \in DisplayIds, shown[e] # None
        PROVE  latest[e] # None /\ shown[e].cell = latest[e].cell
    <3>1. CASE e = d
      BY <1>8, <1>11, <2>2, <2>5, <3>1
    <3>2. CASE e # d
      <4>1. shown[e] = displayed[e]
        BY <2>5, <3>2
      <4> QED
        BY <1>4, <2>7, <4>1 DEF SameCell
    <3> QED
      BY <3>1, <3>2
  <2>8. ASSUME NEW a \in Cells, ids[a] # None
        PROVE  latest[ids[a]] # None /\ latest[ids[a]].cell = a
    <3>1. CASE a = b
      BY <1>8, <1>11, <2>5, <3>1
    <3>2. CASE a # b
      <4>1. ids[a] = lastId[a]
        BY <2>5, <3>2
      <4> QED
        BY <1>4, <2>8, <4>1 DEF SameCell
    <3> QED
      BY <3>1, <3>2
  <2> QED
    BY <2>3, <2>6, <2>7, <2>8 DEF SameCell
<1>12. PICK shown, ids : displayed' = shown /\ lastId' = ids
  OBVIOUS
<1>13. CASE UpdateItems(c, d)
  <2>1. PICK fin \in Docs(n), next \in Docs(n) :
          /\ Final' = fin /\ expected' = next /\ ReaderUpdates(d, n, next)
          /\ fin = IF displayed[d] = None THEN doc
                   ELSE SetItems(doc, displayed[d].cell, displayed[d].made, n)
    BY <1>2, <1>3, <1>13, UpdateShapes
  <2>2. /\ Updated(exp, next, d, n) /\ IdsLead(next, latest)
        /\ ContinuesAlike(lastStream, reattached, next, apart)
    BY <1>10, <2>1
  <2>3. Updated(doc, fin, d, n) /\ IdsLead(fin, shown) /\ SameCell(shown, ids, latest)
    <3>1. CASE displayed[d] = None
      <4>1. displayed' = displayed /\ lastId' = lastId /\ fin = doc
        BY <1>13, <2>1, <3>1 DEF UpdateItems, trackerVars
      <4> QED
        BY <1>4, <1>9, <1>12, <3>1, <4>1, NothingUpdated
    <3>2. CASE displayed[d] # None
      <4>1. fin = SetItems(doc, displayed[d].cell, displayed[d].made, n)
        BY <2>1, <3>2
      <4>2. LeadsTo(doc, displayed, d)
        BY <1>4, <3>2, PointersLead
      <4>3. Updated(doc, fin, d, n)
        BY <1>2, <4>1, <4>2, SetItemsUpdates
      <4>4. Alike(doc, fin)
        BY <1>2, <4>1, SetItemsAlike
      <4>5. Track(displayed[d].cell, d, displayed[d].made)
        BY <1>13, <3>2 DEF UpdateItems
      <4>6. displayed[d] = [cell |-> displayed[d].cell, made |-> displayed[d].made]
        <5>1. displayed[d] \in [cell : Cells, made : 1..sent]
          BY <1>7, <3>2 DEF Pointers
        <5> QED
          BY <5>1
      <4>7. displayed' = displayed
        <5>1. displayed' = [displayed EXCEPT ![d] = displayed[d]]
          BY <4>5, <4>6 DEF Track
        <5> QED
          BY <1>7, <5>1
      <4>8. SameCell(displayed', lastId', latest)
        <5>1. PICK b \in Cells, k \in {displayed[d].made} :
                b = displayed[d].cell /\ k = displayed[d].made
          BY <1>8, <3>2
        <5>2. Track(b, d, k) /\ [cell |-> b, made |-> k] # None
          BY <3>2, <4>5, <4>6, <5>1
        <5> QED
          BY <1>11, <3>2, <5>1, <5>2
      <4>9. IdsLead(fin, displayed)
        BY <1>4, <4>4, AlikeLeads
      <4> QED
        BY <1>12, <4>3, <4>7, <4>8, <4>9
    <3> QED
      BY <3>1, <3>2
  <2>4. Matches(fin, next)
    BY <1>4, <2>2, <2>3, UpdatedMatches
  <2> QED
    BY <1>5, <1>6, <1>12, <2>1, <2>2, <2>3, <2>4, ExactNext
<1>14. CASE UpdateMetadata(c, d)
  <2>1. PICK fin \in Docs(n), next \in Docs(n), b \in Cells :
          /\ Final' = fin /\ expected' = next /\ ReaderUpdates(d, n, next)
          /\ b = displayed[d].cell /\ displayed[d] # None
          /\ Remade(doc, fin, b, d, Output(n, b, "display", d))
    BY <1>2, <1>3, <1>14, MetadataShapes
  <2>2. /\ Updated(exp, next, d, n) /\ IdsLead(next, latest)
        /\ ContinuesAlike(lastStream, reattached, next, apart)
    BY <1>10, <2>1
  <2>3. Updated(doc, fin, d, n)
    BY <1>2, <1>4, <2>1, RemadeUpdates
  <2>4. Track(b, d, n) /\ [cell |-> b, made |-> n] # None
    BY <1>2, <1>14, <2>1, NoneIsNoPointer DEF UpdateMetadata
  <2>5. SameCell(displayed', lastId', latest) /\ Pointed(displayed, displayed', d, b, n)
    BY <1>11, <2>1, <2>4
  <2>6. SameCell(shown, ids, latest) /\ Pointed(displayed, shown, d, b, n)
    BY <1>12, <2>5
  <2>7. IdsLead(fin, shown)
    BY <1>2, <1>4, <2>1, <2>6, RemadeLeads
  <2>8. Matches(fin, next)
    BY <1>4, <2>2, <2>3, UpdatedMatches
  <2> QED
    BY <1>5, <1>6, <1>12, <2>1, <2>2, <2>6, <2>7, <2>8, ExactNext
<1> QED
  BY <1>13, <1>14

-----------------------------------------------------------------------------
(* Applying the one edit: cells without outputs had none to point to.       *)
LEMMA ApplyKeepsExact ==
  ASSUME OutputsTypes, Calm, lag = 1, Sound, Exact, ApplyEdits
  PROVE  Exact'
<1>1. PICK k \in 1..Len(edits) :
        /\ outputs' = edits[k].shows
        /\ edits' = SubSeq(edits, k + 1, Len(edits))
        /\ OnEmptied({c \in Touched(k) : outputs'[c] = <<>>})
        /\ UNCHANGED <<lag, phase, clearWait, reattached, sent, readerVars>>
  BY DEF ApplyEdits
<1>2. PICK m \in Nat : m = sent
  BY BeforeMessage
<1>3. PICK doc \in Docs(m), exp \in Docs(m) : doc = Final /\ exp = expected
  BY <1>2, BeforeMessage
<1>4. /\ Matches(doc, exp) /\ IdsLead(doc, displayed) /\ IdsLead(exp, latest)
      /\ SameCell(displayed, lastId, latest)
      /\ ContinuesAlike(lastStream, reattached, exp, apart)
      /\ Len(edits) \in Nat /\ Len(edits) <= 1 /\ AtHome(doc)
  BY <1>3, ExactBefore DEF Sound, DocSound
<1>5. DocTypes' /\ Final' = doc /\ Len(edits') = Len(edits) - k
  BY <1>1, <1>3, Applied DEF OutputsTypes, readerVars
<1>6. outputs' = doc /\ Len(edits') <= 1
  <2>1. Len(edits') = 0
    BY <1>4, <1>5
  <2>2. PICK E : E = [shows : Docs(sent'), gives : SUBSET Cells]
    OBVIOUS
  <2>3. edits' \in Seq(E)
    BY <1>5, <2>2 DEF DocTypes
  <2>4. edits' = <<>>
    BY <2>1, <2>3
  <2>5. Final' = outputs'
    BY <2>4 DEF Final
  <2> QED
    BY <1>5, <2>1, <2>5
<1>7. PICK S \in SUBSET Cells : OnEmptied(S) /\ \A c \in S : doc[c] = <<>>
  <2>1. {c \in Touched(k) : outputs'[c] = <<>>} \in SUBSET Cells
    BY DEF Touched
  <2> QED
    BY <1>1, <1>6, <2>1
<1>8. PICK shown, ids, streams :
        displayed' = shown /\ lastId' = ids /\ lastStream' = streams
  OBVIOUS
<1>9. /\ IdsLead(doc, shown) /\ SameCell(shown, ids, latest)
      /\ \A c \in Cells : streams[c] = IF c \in S THEN None ELSE lastStream[c]
  BY <1>4, <1>7, <1>8, EmptiedLeads
<1>10. ContinuesAlike(streams, reattached, exp, apart)
  <2>1. \A c \in S : exp[c] = <<>>
    BY <1>4, <1>7 DEF Matches
  <2> QED
    BY <1>4, <1>9, <2>1 DEF ContinuesAlike
<1>11. reattached' = reattached /\ apart' = apart /\ latest' = latest /\ expected' = exp
  BY <1>1, <1>3 DEF readerVars
<1> QED
  BY <1>4, <1>5, <1>6, <1>8, <1>9, <1>10, <1>11, ExactNext

(* The end of an execution: the reader begins an output of its own too.     *)
LEMMA FinishKeepsExact ==
  ASSUME OutputsTypes, Calm, lag = 1, Sound, Exact, NEW c \in Cells, Finish(c)
  PROVE  Exact'
<1>1. PICK m \in Nat : m = sent
  BY BeforeMessage
<1>2. PICK doc \in Docs(m), exp \in Docs(m) : doc = Final /\ exp = expected
  BY <1>1, BeforeMessage
<1>3. /\ Matches(doc, exp) /\ IdsLead(doc, displayed) /\ IdsLead(exp, latest)
      /\ SameCell(displayed, lastId, latest)
      /\ ContinuesAlike(lastStream, reattached, exp, apart)
      /\ Len(edits) <= 1
  BY <1>2, ExactBefore
<1>4. UNCHANGED <<outputs, edits, reattached, displayed, lastId, expected, latest>>
  BY DEF Finish, trackerVars
<1>5. Final' = doc
  BY <1>2, <1>4 DEF Final
<1>6. PICK streams, alone : lastStream' = streams /\ apart' = alone
  OBVIOUS
<1>7. ContinuesAlike(streams, reattached, exp, alone)
  <2>1. CASE c \in Resumed
    BY <1>3, <1>6, <2>1 DEF Finish, ForgottenAtEnd
  <2>2. CASE c \notin Resumed
    <3>1. lastStream \in [Cells -> StreamPointers(sent)]
      BY BeforeMessage
    <3>2. alone = apart \cup {c} /\ streams = [lastStream EXCEPT ![c] = None]
      BY <1>6, <2>2 DEF Finish, ForgottenAtEnd
    <3>3. streams[c] = None /\ \A b \in Cells \ {c} : streams[b] = lastStream[b]
      BY <3>1, <3>2
    <3>4. alone \cap Resumed = {} /\ c \in alone /\ \A b \in Cells \ {c} : b \in alone <=> b \in apart
      BY <1>3, <2>2, <3>2 DEF ContinuesAlike
    <3> QED
      BY <1>3, <3>3, <3>4, GoOnAlike
  <2> QED
    BY <2>1, <2>2
<1> QED
  BY <1>2, <1>3, <1>4, <1>5, <1>6, <1>7, ExactNext

(* The rest changes nothing that Exact is about.                            *)
LEMMA OthersKeepExact ==
  ASSUME OutputsTypes, lag = 1, Exact,
         \/ UNCHANGED outputsVars
         \/ \E c \in Cells : Execute(c) \/ Resume(c) \/ ClearLater(c)
  PROVE  Exact'
<1>1. PICK m \in Nat : m = sent
  BY BeforeMessage
<1>2. PICK doc \in Docs(m), exp \in Docs(m) : doc = Final /\ exp = expected
  BY <1>1, BeforeMessage
<1>3. /\ Matches(doc, exp) /\ IdsLead(doc, displayed) /\ IdsLead(exp, latest)
      /\ SameCell(displayed, lastId, latest)
      /\ ContinuesAlike(lastStream, reattached, exp, apart)
      /\ Len(edits) <= 1
  BY <1>2, ExactBefore
<1>4. UNCHANGED <<outputs, edits, reattached, lastStream, displayed, lastId, expected, apart,
                  latest>>
  BY DEF Execute, Resume, ClearLater, Message, outputsVars, handlerVars, trackerVars, readerVars
<1>5. Final' = doc
  BY <1>2, <1>4 DEF Final
<1> QED
  BY <1>2, <1>3, <1>4, <1>5, ExactNext

(* Every step keeps it.                                                     *)
LEMMA ExactKept ==
  ASSUME OutputsTypes, Calm, "reused" \notin Unusual, lag = 1, Sound, Exact,
         [OutputsNext]_outputsVars
  PROVE  Exact'
<1>1. CASE UNCHANGED outputsVars
  BY <1>1, OthersKeepExact
<1>2. CASE ApplyEdits
  BY <1>2, ApplyKeepsExact
<1>3. ASSUME NEW c \in Cells,
             \/ Execute(c) \/ Resume(c) \/ Acknowledge(c) \/ Finish(c)
             \/ ClearLater(c) \/ ClearNow(c) \/ UserClears(c)
             \/ \E s \in Streams : StreamMessage(c, s)
             \/ \E d \in DisplayIds \cup {None} : AddOutput(c, d)
             \/ \E d \in DisplayIds : UpdateItems(c, d) \/ UpdateMetadata(c, d)
      PROVE  Exact'
  BY <1>3, OthersKeepExact, FinishKeepsExact, ClearKeepsExact, TextKeepsExact,
     AddKeepsExact, UpdateKeepsExact
<1> QED
  BY <1>1, <1>2, <1>3 DEF OutputsNext

(* It holds at first: nothing is written, and nothing has a display id.     *)
LEMMA ExactAtFirst == OutputsInit => Exact
<1> SUFFICES ASSUME OutputsInit PROVE Exact
  OBVIOUS
<1>1. /\ edits = <<>> /\ Final = outputs /\ expected = outputs /\ apart = {} /\ reattached = {}
      /\ \A c \in Cells : lastStream[c] = None /\ lastId[c] = None
      /\ \A d \in DisplayIds : displayed[d] = None
  BY DEF OutputsInit, Final
<1>2. \A c \in Cells : \A i \in DOMAIN outputs[c] : outputs[c][i].id = None
  BY EarlierTyped DEF OutputsInit
<1>3. \A c \in Cells \ Resumed : outputs[c] = <<>>
  BY DEF OutputsInit, Before
<1>4. Len(edits) <= 1
  BY <1>1
<1> QED
  BY <1>1, <1>2, <1>3, <1>4 DEF Exact, IdsLead, SameCell, ContinuesAlike

(* So it always holds when edits are applied at once.                       *)
LEMMA ExactAlways ==
  ASSUME Unusual \subseteq {"overtaking"}
  PROVE  OutputsSpec => [](lag = 1 => Exact)
<1> DEFINE IInv == OutputsTypes /\ (lag = 1 => Sound /\ Exact)
<1>0. /\ lag = 1 => Calm
      /\ "longer" \notin Unusual /\ "reused" \notin Unusual
  BY DEF Calm
<1>1. OutputsInit => IInv
  BY <1>0, TypesAtFirst, SoundAtFirst, ExactAtFirst
<1>2. IInv /\ [OutputsNext]_outputsVars => IInv'
  BY <1>0, TypesKept, LagStays, SoundKept, ExactKept
<1>3. IInv => (lag = 1 => Exact)
  OBVIOUS
<1> QED
  BY <1>1, <1>2, <1>3, PTL DEF OutputsSpec

(* If moreover no display id is shared, and VS Code applies the edits       *)
(* before the next message comes, a notebook shows exactly what its         *)
(* messages say.                                                            *)
THEOREM ShowsWhatMessagesSay ==
  ASSUME Unusual \subseteq {"overtaking"}
  PROVE  OutputsSpec => []ReadsExactly
<1>1. (lag = 1 => Exact) => ReadsExactly
  BY DEF Exact, ReadsExactly
<1> QED
  BY <1>1, ExactAlways, PTL

(* Under the same conditions the tracker forgets no display id of which an  *)
(* output is still shown, though it knows one display id of each cell.      *)
THEOREM ShownCanBeUpdated ==
  ASSUME Unusual \subseteq {"overtaking"}
  PROVE  OutputsSpec => []UpdatableWhileShown
<1>1. (lag = 1 => Exact) => UpdatableWhileShown
  <2> SUFFICES ASSUME Exact, lag = 1, NEW d \in DisplayIds, NEW c \in Cells,
                      NEW i \in DOMAIN Final[c], Final[c][i].id = d
               PROVE  displayed[d] # None
    BY DEF UpdatableWhileShown
  <2>1. IdsLead(Final, displayed) /\ d # None
    BY OutputsAssumption DEF Exact, OutputsAssumption
  <2> QED
    BY <2>1 DEF IdsLead
<1> QED
  BY <1>1, ExactAlways, PTL

==============================================================================
