---------------------------- MODULE CellOutputs ----------------------------
(***************************************************************************)
(* How the messages of a kernel become the outputs of a notebook: one      *)
(* CellExecutionMessageHandler per executed cell, the tracker of display   *)
(* ids they share, and the task VS Code lends to the cell that runs, which *)
(* is the only way to edit an output.  Edits are not applied at once: VS   *)
(* Code (external) applies them later, in the order they were made, and    *)
(* tells the extension of cells that have become empty.                    *)
(*                                                                         *)
(* Messages are numbered; the number of a message stands for its content.  *)
(* Beside the code runs a reader that applies each message at once, as     *)
(* Jupyter's messaging specification reads: expected, waiting, apart and   *)
(* latest.                                                                 *)
(***************************************************************************)
EXTENDS Integers, SequencesExt

CONSTANTS
    Cells,        \* the code cells of the notebook
    Resumed,      \* those whose execution is resumed after a reload
    DisplayIds,   \* values of transient.display_id
    Streams,      \* names of streams
    None,         \* the JavaScript value undefined
    MaxMessages,  \* bound: messages of the kernel and clearings by the user
    Lags,         \* bounds: values of lag
    Unusual       \* which of UnusualSituations may occur

(* late: messages of a cell that has ended, while another one runs.         *)
(* reused: a display id that several outputs are made with.                 *)
(* overtaking: cell.outputs are read while edits of them are pending.       *)
(* longer: a resumed cell has more than one output.                         *)
UnusualSituations == {"late", "reused", "overtaking", "longer"}

ASSUME OutputsAssumption ==
    /\ Resumed \subseteq Cells
    /\ None \notin Cells \cup DisplayIds \cup Streams
    /\ None \notin [stream : Streams, made : Int] \cup [cell : Cells, made : Int]
    /\ "display" \notin Streams
    /\ MaxMessages \in Nat
    /\ Lags \subseteq Nat \ {0}
    /\ Unusual \subseteq UnusualSituations

VARIABLES
    lag,        \* a message comes when fewer edits than this are not applied
    phase,      \* how far the execution of a cell is
    outputs,    \* cell.outputs, as the extension reads them
    edits,      \* what handlers have asked of VS Code for a message each
    clearWait,  \* handlers whose clearOutputOnNextUpdateToOutput is true
    lastStream, \* their lastUsedStreamOutput
    reattached, \* those whose streamsReAttachedToExecutingCell is true
    displayed,  \* displayIdCellOutputMappingPerDocument
    lastId,     \* cellToDisplayIdMapping
    sent,       \* how many messages there have been
    expected,   \* the reader's outputs of each cell
    waiting,    \* the reader: cells to be cleared by their next output
    apart,      \* the reader: cells whose next text is an output of its own
    latest      \* the reader: the output that last was made with a display id

handlerVars == <<clearWait, lastStream, reattached>>
trackerVars == <<displayed, lastId>>
readerVars  == <<expected, waiting, apart, latest>>
outputsVars == <<lag, phase, outputs, edits, handlerVars, trackerVars, sent,
                 readerVars>>

-----------------------------------------------------------------------------
(* An output: the message that made it and the cell whose message that was, *)
(* what it is, the messages whose content it has, its display id.           *)
Output(n, c, kind, d) ==
    [made |-> n, of |-> c, kind |-> kind, items |-> <<n>>, id |-> d]
IsStream(out) == out.kind \in Streams

\* What a resumed cell already shows; another is cleared when it starts.
Earlier(c, n, kind) == [Output(n, c, kind, None) EXCEPT !.items = <<>>]
Before(c) ==
    IF c \notin Resumed THEN {<<>>}
    ELSE LET kinds == Streams \cup {"display"}
         IN {<<>>} \cup {<<Earlier(c, -1, k)>> : k \in kinds}
            \cup {<<Earlier(c, -1, k), Earlier(c, -2, l)>> :
                     k, l \in IF "longer" \in Unusual THEN kinds ELSE {}}

OutputsInit ==
    /\ lag \in Lags
    /\ phase = [c \in Cells |-> "new"]
    /\ outputs \in {f \in [Cells -> UNION {Before(c) : c \in Cells}] :
                       \A c \in Cells : f[c] \in Before(c)}
    /\ edits = <<>>
    /\ clearWait = {} /\ reattached = {}
    /\ lastStream = [c \in Cells |-> None]
    /\ displayed = [d \in DisplayIds |-> None]
    /\ lastId = [c \in Cells |-> None]
    /\ sent = 0
    /\ expected = outputs /\ waiting = {} /\ apart = {}
    /\ latest = [d \in DisplayIds |-> None]

-----------------------------------------------------------------------------
(* The tasks of VS Code (external) and the edits asked of them.             *)

ClearAll(doc, c)        == [doc EXCEPT ![c] = <<>>]
AppendOut(doc, c, out)  == [doc EXCEPT ![c] = Append(@, out)]
ReplaceOut(doc, c, all) == [doc EXCEPT ![c] = all]

\* Outputs are found by their identity, in whichever cell they are.
Is(out, c, m) == out.of = c /\ out.made = m
SetItems(doc, c, m, n) ==
    [b \in Cells |-> [i \in DOMAIN doc[b] |->
        IF Is(doc[b][i], c, m) THEN [doc[b][i] EXCEPT !.items = <<n>>]
        ELSE doc[b][i]]]
AddItem(doc, c, m, n) ==
    [b \in Cells |-> [i \in DOMAIN doc[b] |->
        IF Is(doc[b][i], c, m) THEN [doc[b][i] EXCEPT !.items = Append(@, n)]
        ELSE doc[b][i]]]

\* What the notebook will show when every edit is applied.
Final == IF edits = <<>> THEN outputs ELSE Last(edits).shows

\* The edits of one message: what the notebook will show after them, and the cells
\* they give outputs to.
Ask(doc, gives) == edits' = Append(edits, [shows |-> doc, gives |-> gives])

\* workspace.onDidChangeNotebookDocument, for the cells S whose outputs are gone.
\* The tracker knows one display id of each cell, the last.
\* Variant: the tracker forgets every display id.
EveryId(S) == DisplayIds

IdsOf(S) == {lastId[c] : c \in S}

\* The listener of each handler, and that of the tracker.
OnEmptied(S) ==
    /\ displayed' = [d \in DisplayIds |-> IF d \in IdsOf(S) THEN None ELSE displayed[d]]
    /\ lastId' = [c \in Cells |-> IF c \in S THEN None ELSE lastId[c]]
    /\ lastStream' = [c \in Cells |-> IF c \in S THEN None ELSE lastStream[c]]

\* The edits of the first k messages are applied together, and an event tells of the
\* result.  A cell that was empty and is given nothing is not part of it.
Touched(k) ==
    {c \in Cells : outputs[c] # <<>> \/ \E i \in 1..k : c \in edits[i].gives}

ApplyEdits ==
    \E k \in 1..Len(edits) :
        /\ outputs' = edits[k].shows
        /\ edits' = SubSeq(edits, k + 1, Len(edits))
        /\ OnEmptied({c \in Touched(k) : outputs'[c] = <<>>})
        /\ UNCHANGED <<lag, phase, clearWait, reattached, sent, readerVars>>

-----------------------------------------------------------------------------
(* The cells.                                                               *)

Active(c) == phase[c] \in {"sent", "running"}
Nobody == \A c \in Cells : ~Active(c)

\* CellExecution.start(): the request is sent and its handler registered.
Execute(c) ==
    /\ phase[c] = "new" /\ c \notin Resumed /\ Nobody
    /\ phase' = [phase EXCEPT ![c] = "sent"]
    /\ UNCHANGED <<lag, outputs, edits, handlerVars, trackerVars, sent, readerVars>>

\* CellExecution.resume(): the task is started without clearing.
Resume(c) ==
    /\ phase[c] = "new" /\ c \in Resumed /\ Nobody
    /\ phase' = [phase EXCEPT ![c] = "running"]
    /\ UNCHANGED <<lag, outputs, edits, handlerVars, trackerVars, sent, readerVars>>

\* The first message starts the task, which clears the cell.
Acknowledge(c) ==
    /\ phase[c] = "sent" /\ Len(edits) < lag
    /\ phase' = [phase EXCEPT ![c] = "running"]
    /\ Ask(ClearAll(Final, c), {})
    /\ expected' = [expected EXCEPT ![c] = <<>>]
    /\ UNCHANGED <<lag, outputs, handlerVars, trackerVars, sent, waiting, apart,
                   latest>>

\* What the end of an execution forgets; the last text of a resumed one may be
\* continued by what comes when it is interrupted.
\* Variant: the stream is forgotten in every case.
Forgotten(c) == [lastStream EXCEPT ![c] = None]

ForgottenAtEnd(c) ==
    IF c \in Resumed THEN lastStream ELSE [lastStream EXCEPT ![c] = None]

\* request.done, or the end of a resumed execution: endCellExecution and endCellTask.
Finish(c) ==
    /\ phase[c] = "running"
    /\ phase' = [phase EXCEPT ![c] = "done"]
    /\ lastStream' = ForgottenAtEnd(c)
    /\ apart' = IF c \in Resumed THEN apart ELSE apart \cup {c}
    /\ UNCHANGED <<lag, outputs, edits, clearWait, reattached, trackerVars, sent,
                   expected, waiting, latest>>

-----------------------------------------------------------------------------
(* Messages.                                                                *)

\* Each message of the kernel, and each clearing by the user, is counted.
Message ==
    /\ sent < MaxMessages
    /\ Len(edits) < lag
    /\ sent' = sent + 1
    /\ UNCHANGED <<lag, phase, outputs>>

\* A cell that has ended may go on writing: a thread, a widget.
Writes(c) ==
    \/ phase[c] = "running"
    \/ phase[c] = "done" /\ (Nobody \/ "late" \in Unusual)

\* this.execution || createTemporaryTask(): the task of the cell itself, that of
\* the cell that runs, or one of its own made for the message.  It is the cell of
\* the task that clearOutput, appendOutput and replaceOutput edit.
TaskCell(c) ==
    IF Active(c) \/ Nobody THEN c ELSE CHOOSE b \in Cells : Active(b)

\* clearOutputIfNecessary.
ClearIfWaiting(c) ==
    IF c \in clearWait THEN ClearAll(Final, TaskCell(c)) ELSE Final

\* Variant: the flag is not reset.
ClearedForEver(c) == clearWait

Cleared(c) == clearWait \ {c}

\* clearLastUsedStreamOutput: the next stream message makes an output of its own.
StreamBroken(c) == [lastStream EXCEPT ![c] = None]

\* Variant: the handler does not remember that it looked.
NeverReattached(c) == reattached

Reattached(c) == reattached \cup {c}

\* What is read of cell.outputs does not have the pending edits.
MayRead == edits = <<>> \/ "overtaking" \in Unusual

\* handleStreamMessage, for a resumed cell that was writing to this stream before.
\* Variant: the stream is continued whatever comes after it.
ContinuesAny(c, s) ==
    /\ c \in Resumed \ reattached
    /\ lastStream[c] = None /\ outputs[c] # <<>>

Continues(c, s) ==
    /\ c \in Resumed \ reattached
    /\ lastStream[c] = None /\ outputs[c] # <<>> /\ Last(outputs[c]).kind = s

\* The reader: an output of the cell takes the place of those to be cleared.
Room(c) == IF c \in waiting THEN <<>> ELSE expected[c]

StreamMessage(c, s) ==
    LET n    == sent + 1
        out  == Output(n, c, s, None)
        last == IF c \in clearWait THEN None
                ELSE IF Continues(c, s)
                THEN [stream |-> s, made |-> Head(outputs[c]).made]
                ELSE lastStream[c]
        same == last # None /\ last.stream = s
        room == Room(c)
    IN /\ Writes(c) /\ Message
       /\ c \in Resumed \ reattached => MayRead
       /\ IF same THEN Ask(AddItem(Final, c, last.made, n), {})
          ELSE IF c \in clearWait
          THEN Ask(ReplaceOut(ClearIfWaiting(c), TaskCell(c), <<out>>), {TaskCell(c)})
          ELSE Ask(AppendOut(Final, TaskCell(c), out), {TaskCell(c)})
       /\ lastStream' = [lastStream EXCEPT
                            ![c] = IF same THEN last ELSE [stream |-> s, made |-> n]]
       /\ clearWait' = Cleared(c)
       /\ reattached' = Reattached(c)
       /\ expected' = [expected EXCEPT ![c] =
                         IF room # <<>> /\ Last(room).kind = s /\ c \notin apart
                         THEN Front(room) \o
                              <<[Last(room) EXCEPT !.items = Append(@, n)]>>
                         ELSE Append(room, out)]
       /\ waiting' = waiting \ {c} /\ apart' = apart \ {c}
       /\ UNCHANGED <<trackerVars, latest>>

\* trackOutputByDisplayId.
Track(c, d, n) ==
    /\ displayed' = [displayed EXCEPT ![d] = [cell |-> c, made |-> n]]
    /\ lastId' = [lastId EXCEPT ![c] = d]

\* A display id that is new, or that this cell alone has used and no longer shows.
Unused(c, d) ==
    /\ \A b \in Cells : \A i \in DOMAIN expected[b] : expected[b][i].id # d
    /\ latest[d] # None => latest[d].cell = c

\* addToCellData, for display_data, execute_result and error.
AddOutput(c, d) ==
    LET n == sent + 1
        out == Output(n, c, "display", d)
    IN /\ Writes(c) /\ Message
       /\ d # None => Unused(c, d) \/ "reused" \in Unusual
       /\ Ask(AppendOut(ClearIfWaiting(c), TaskCell(c), out), {TaskCell(c)})
       /\ clearWait' = Cleared(c)
       /\ lastStream' = StreamBroken(c)
       /\ IF d = None THEN UNCHANGED trackerVars ELSE Track(c, d, n)
       /\ expected' = [expected EXCEPT ![c] = Append(Room(c), out)]
       /\ waiting' = waiting \ {c}
       /\ latest' = IF d = None THEN latest
                    ELSE [latest EXCEPT ![d] = [cell |-> c, made |-> n]]
       /\ UNCHANGED <<reattached, apart>>

\* handleClearOutput, with wait.
ClearLater(c) ==
    /\ Writes(c) /\ Message
    /\ clearWait' = clearWait \cup {c}
    /\ waiting' = waiting \cup {c}
    /\ UNCHANGED <<edits, lastStream, reattached, trackerVars, expected, apart,
                   latest>>

\* handleClearOutput, without.
ClearNow(c) ==
    /\ Writes(c) /\ Message
    /\ Ask(ClearAll(Final, TaskCell(c)), {})
    /\ lastStream' = StreamBroken(c)
    /\ expected' = [expected EXCEPT ![c] = <<>>]
    /\ UNCHANGED <<clearWait, reattached, trackerVars, waiting, apart, latest>>

\* The reader: the output that was last made with d gets new content.
ReadUpdate(d, n) ==
    expected' = IF latest[d] = None THEN expected
                ELSE SetItems(expected, latest[d].cell, latest[d].made, n)

\* handleUpdateDisplayDataMessage: any cell may update an output of another.
UpdateItems(c, d) ==
    LET n == sent + 1
    IN /\ phase[c] \in {"running", "done"} /\ Message
       /\ IF displayed[d] = None THEN UNCHANGED <<edits, trackerVars>>
          ELSE /\ Ask(SetItems(Final, displayed[d].cell, displayed[d].made, n), {})
               /\ Track(displayed[d].cell, d, displayed[d].made)
       /\ ReadUpdate(d, n)
       /\ UNCHANGED <<handlerVars, waiting, apart, latest>>

\* The same when the metadata has changed: the outputs of the cell that are read
\* are written back, with a new output for each that has this display id.
UpdateMetadata(c, d) ==
    LET n == sent + 1
        b == displayed[d].cell
        new == Output(n, b, "display", d)
    IN /\ phase[c] \in {"running", "done"} /\ Message
       /\ displayed[d] # None /\ MayRead
       /\ Ask(ReplaceOut(Final, b, [i \in DOMAIN outputs[b] |->
                  IF outputs[b][i].id = d THEN new ELSE outputs[b][i]]), {b})
       /\ Track(b, d, n)
       /\ ReadUpdate(d, n)
       /\ UNCHANGED <<handlerVars, waiting, apart, latest>>

\* The user clears the outputs of a cell while nothing is being written.
UserClears(c) ==
    /\ edits = <<>> /\ outputs[c] # <<>> /\ sent < MaxMessages
    /\ sent' = sent + 1
    /\ outputs' = [outputs EXCEPT ![c] = <<>>]
    /\ OnEmptied({c})
    /\ expected' = [expected EXCEPT ![c] = <<>>]
    /\ UNCHANGED <<lag, phase, edits, clearWait, reattached, waiting, apart,
                   latest>>

OutputsNext ==
    \/ ApplyEdits
    \/ \E c \in Cells :
          \/ Execute(c) \/ Resume(c) \/ Acknowledge(c) \/ Finish(c)
          \/ ClearLater(c) \/ ClearNow(c) \/ UserClears(c)
          \/ \E s \in Streams : StreamMessage(c, s)
          \/ \E d \in DisplayIds \cup {None} : AddOutput(c, d)
          \/ \E d \in DisplayIds : UpdateItems(c, d) \/ UpdateMetadata(c, d)

OutputsSpec == OutputsInit /\ [][OutputsNext]_outputsVars

-----------------------------------------------------------------------------
(* Properties.                                                              *)

Outputs == [made : Int, of : Cells, kind : Streams \cup {"display"},
            items : Seq(Nat), id : DisplayIds \cup {None}]

(* Every variable keeps its type; a handler continues a stream only when it *)
(* has looked once for the one a resumed cell left, and what the tracker    *)
(* and the handlers point to was made by a message that has come.           *)
OutputsTypeOK ==
    /\ phase \in [Cells -> {"new", "sent", "running", "done"}]
    /\ outputs \in [Cells -> Seq(Outputs)] /\ expected \in [Cells -> Seq(Outputs)]
    /\ clearWait \subseteq Cells /\ waiting \subseteq Cells /\ apart \subseteq Cells
    /\ reattached \subseteq Cells
    /\ \A c \in Cells : lastStream[c] # None =>
          /\ c \in reattached
          /\ lastStream[c].stream \in Streams /\ lastStream[c].made \in -2..sent
    /\ \A d \in DisplayIds : displayed[d] # None =>
          displayed[d].cell \in Cells /\ displayed[d].made \in 1..sent
    /\ lastId \in [Cells -> DisplayIds \cup {None}]
    /\ sent \in 0..MaxMessages

Shown(doc) ==
    [c \in Cells |-> [i \in DOMAIN doc[c] |->
        [kind |-> doc[c][i].kind, items |-> doc[c][i].items, id |-> doc[c][i].id]]]

(* When VS Code applies every edit before the next message comes, a cell    *)
(* shows what its messages say: consecutive texts of a stream are one       *)
(* output, a clear that waits takes effect with the next output, an update  *)
(* changes the output last made with its display id, in whichever cell.     *)
ReadsExactly == lag = 1 => Shown(Final) = Shown(expected)

\* What is displayed and written, whatever outputs it is divided into.
Pieces(out) ==
    IF IsStream(out) THEN [i \in DOMAIN out.items |-> <<out.kind, out.items[i]>>]
    ELSE <<<<out.kind, out.id>>>>
Written(outs) == FlattenSeq([i \in DOMAIN outs |-> Pieces(outs[i])])
Content(doc) == [c \in Cells |-> Written(doc[c])]

(* However late edits are applied, no text and no output is lost, repeated  *)
(* or out of order, and nothing that was cleared comes back.                *)
TextIsKept == Content(Final) = Content(expected)

(* An output made with a display id can be updated as long as it is shown:  *)
(* its mapping is removed only when "the output cannot exist anymore".      *)
UpdatableWhileShown == lag = 1 =>
    \A d \in DisplayIds :
        latest[d] # None
        /\ (\E c \in Cells : \E i \in DOMAIN Final[c] : Final[c][i].id = d)
        => displayed[d] # None

(* A resumed cell goes on with "the last output" when that is of the stream *)
(* it writes to: a text is added to no output that an older one follows.    *)
TextAtTheEnd ==
    \A c \in Cells : \A i, j \in DOMAIN Final[c] :
        i < j /\ IsStream(Final[c][i])
        => \A n \in ToSet(Final[c][i].items) : n < Final[c][j].made

=============================================================================
