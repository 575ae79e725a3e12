------------------------------- MODULE Context -------------------------------
(***************************************************************************)
(* ContextManager and project_context_units (agent_core/context_manager.py, *)
(* projection.py): what of a Session's items goes into a model request, and *)
(* how older items are replaced by a summary the model itself writes.       *)
(*                                                                         *)
(* Items carry their kind and their turn; token counts are left out: when a *)
(* request is over the threshold is a free choice, and the anchor budget    *)
(* counts inputs.                                                           *)
(***************************************************************************)
EXTENDS Naturals, Sequences, SequencesExt, FiniteSets

CONSTANTS
    CtxKeep,        \* keep_recent_units
    CtxBudget,      \* user_anchor_token_budget, in inputs
    CtxCalls,       \* tool calls of a batch
    CtxMaxItems, CtxMaxTurns

ASSUME CtxAssumption ==
    /\ CtxKeep \in Nat \ {0} /\ CtxBudget \in Nat
    /\ CtxMaxItems \in Nat /\ CtxMaxTurns \in Nat

VARIABLES
    ctxItems,       \* Session.items: [kind, turn, call]
    ctxCursor,      \* archived_item_cursor
    ctxAt,          \* "idle", "loop" (before a model call), "batch" or "archive"
    ctxTurn,        \* turns begun; the last one is current unless idle
    ctxEnd,         \* archive_end of the compression under way
    ctxRead,        \* history: items the summary rests on
    ctxSent         \* history: items of the compression under way

ctxVars == <<ctxItems, ctxCursor, ctxAt, ctxTurn, ctxEnd, ctxRead, ctxSent>>
ctxArchiveVars == <<ctxCursor, ctxEnd, ctxRead, ctxSent>>

CtxNoCall == 0
CtxItem(kind, call) == [kind |-> kind, turn |-> ctxTurn, call |-> call]
CtxInOrder(S) == SelectSeq([i \in 1..Len(ctxItems) |-> i], LAMBDA i : i \in S)
CtxAuthored(i) == ctxItems[i].kind \in {"input", "interaction"}

-----------------------------------------------------------------------------
(* project_context_units.  A batch is its assistant message with every       *)
(* result, media, interaction and feedback item behind it; it is shown only  *)
(* when every call has its result.                                           *)
CtxFollows(i) == ctxItems[i].kind \in {"result", "interaction", "feedback", "delivery"}

\* Where the unit that starts behind `at` ends.
CtxUnitEnd(at) ==
    IF ctxItems[at + 1].kind # "calls" THEN at + 1
    ELSE CHOOSE e \in (at + 1)..Len(ctxItems) :
            /\ \A i \in (at + 2)..e : CtxFollows(i)
            /\ e < Len(ctxItems) => ~CtxFollows(e + 1)

\* The messages of a unit: the calls, their results in the order of the calls, the rest.
CtxMessages(start, end) ==
    LET span == (start + 1)..end
        results == {i \in span : ctxItems[i].kind = "result"}
        rest == {i \in span : ctxItems[i].kind \in {"interaction", "feedback"}}
        of(c) == CHOOSE i \in results : ctxItems[i].call = c
    IN IF ctxItems[start + 1].kind # "calls"
       THEN IF ctxItems[start + 1].kind \in {"result", "delivery"} THEN <<>> ELSE <<start + 1>>
       ELSE IF \A c \in 1..CtxCalls : \E i \in results : ctxItems[i].call = c
       THEN <<start + 1>> \o [c \in 1..CtxCalls |-> of(c)] \o CtxInOrder(rest)
       ELSE <<>>

CtxUnits(from) ==
    LET units[at \in 0..Len(ctxItems)] ==
            IF at = Len(ctxItems) THEN <<>>
            ELSE LET e == CtxUnitEnd(at) IN
                 <<[start |-> at, end |-> e, messages |-> CtxMessages(at, e)]>> \o units[e]
    IN units[from]

CtxVisible(units) == SelectSeq(units, LAMBDA u : u.messages # <<>>)

\* Mutant: the cut may part a call from its results.
CtxArchivableByItems ==
    LET visible == CtxVisible(CtxUnits(ctxCursor)) IN
    IF Len(visible) <= CtxKeep THEN {} ELSE (ctxCursor + 1)..(Len(ctxItems) - CtxKeep)

\* _archivable_units: complete units before the retained tail.
CtxArchivable ==
    LET units == CtxUnits(ctxCursor)
        visible == CtxVisible(units)
        retained == visible[Len(visible) - CtxKeep + 1].start
    IN IF Len(visible) <= CtxKeep THEN {}
       ELSE {units[i].end : i \in {i \in 1..Len(units) : units[i].end <= retained}}

-----------------------------------------------------------------------------
(* The request: the anchors of archived inputs (those of the current turn    *)
(* are pinned as messages), then the items from the cursor on.               *)
CtxAnchorsOf(t) == {i \in 1..Len(ctxItems) : CtxAuthored(i) /\ ctxItems[i].turn = t}

\* _selected_user_anchors: two whole turns, then further ones while the budget lasts.
CtxSelected ==
    LET since(t) == UNION {CtxAnchorsOf(u) : u \in t..ctxTurn}
        fits == {t \in 1..ctxTurn : \A u \in t..(ctxTurn - 2) : Cardinality(since(u)) <= CtxBudget}
    IN IF ctxTurn <= 2 THEN since(1)
       ELSE since(CHOOSE t \in fits : \A u \in fits : t <= u)

CtxArchivedAnchors == {i \in CtxSelected : i <= ctxCursor}

CtxContext == LET units == CtxUnits(ctxCursor)
              IN FlattenSeq([k \in 1..Len(units) |-> units[k].messages])

CtxRequest == CtxInOrder(CtxArchivedAnchors) \o CtxContext

-----------------------------------------------------------------------------
CtxInit ==
    /\ ctxItems = <<>> /\ ctxCursor = 0 /\ ctxAt = "idle" /\ ctxTurn = 0
    /\ ctxEnd = 0 /\ ctxRead = {} /\ ctxSent = {}

CtxRoom(n) == Len(ctxItems) + n <= CtxMaxItems
CtxAppend(kind, call) == ctxItems' = Append(ctxItems, CtxItem(kind, call))

\* execute: the turn's input, and the loop.
CtxBegin ==
    /\ ctxAt = "idle" /\ ctxTurn < CtxMaxTurns /\ CtxRoom(1)
    /\ ctxTurn' = ctxTurn + 1 /\ ctxAt' = "loop"
    /\ ctxItems' = Append(ctxItems, [kind |-> "input", turn |-> ctxTurn', call |-> CtxNoCall])
    /\ UNCHANGED ctxArchiveVars

\* Steering, and what an InputSubmitted hook says about an input.
CtxMoreInput ==
    /\ ctxAt = "loop" /\ CtxRoom(1)
    /\ \E kind \in {"input", "feedback"} : CtxAppend(kind, CtxNoCall)
    /\ UNCHANGED <<ctxAt, ctxTurn, ctxArchiveVars>>

\* The model answers with calls, or for good.
CtxModelCalls ==
    /\ ctxAt = "loop" /\ CtxRoom(1)
    /\ CtxAppend("calls", CtxNoCall) /\ ctxAt' = "batch"
    /\ UNCHANGED <<ctxTurn, ctxArchiveVars>>

CtxModelAnswers ==
    /\ ctxAt = "loop" /\ CtxRoom(1)
    /\ CtxAppend("answer", CtxNoCall) /\ ctxAt' = "idle"
    /\ UNCHANGED <<ctxTurn, ctxArchiveVars>>

CtxBatch == CHOOSE b \in 1..Len(ctxItems) :
                ctxItems[b].kind = "calls" /\ \A i \in (b + 1)..Len(ctxItems) : ctxItems[i].kind # "calls"
CtxAnswered == {ctxItems[i].call : i \in (CtxBatch + 1)..Len(ctxItems)} \ {CtxNoCall}

\* The batch: results in the order the tools finish, what the user was asked meanwhile,
\* and behind the last result what the user is handed and the hooks' feedback.
CtxResult ==
    /\ ctxAt = "batch" /\ CtxRoom(1)
    /\ \E c \in (1..CtxCalls) \ CtxAnswered : CtxAppend("result", c)
    /\ UNCHANGED <<ctxAt, ctxTurn, ctxArchiveVars>>

CtxInteraction ==
    /\ ctxAt = "batch" /\ CtxRoom(1) /\ Cardinality(CtxAnswered) < CtxCalls
    /\ CtxAppend("interaction", CtxNoCall)
    /\ UNCHANGED <<ctxAt, ctxTurn, ctxArchiveVars>>

CtxBatchEnds ==
    /\ ctxAt = "batch" /\ Cardinality(CtxAnswered) = CtxCalls
    /\ ctxAt' = "loop"
    /\ \/ ctxItems' = ctxItems
       \/ CtxRoom(1) /\ \E kind \in {"feedback", "delivery"} : CtxAppend(kind, CtxNoCall)
    /\ UNCHANGED <<ctxTurn, ctxArchiveVars>>

\* Cancelled, failed, or the process died: the turn ends where it is.
CtxInterrupted ==
    /\ ctxAt \in {"loop", "batch", "archive"} /\ ctxAt' = "idle"
    /\ ctxEnd' = 0 /\ ctxSent' = {}
    /\ UNCHANGED <<ctxItems, ctxCursor, ctxTurn, ctxRead>>

\* archive: the request up to the last archived message, and the prompt behind it.  A
\* boundary that is not in the request is an error.
CtxArchive ==
    /\ ctxAt = "loop" /\ CtxArchivable # {}
    /\ LET ends == CtxArchivable
           end == CHOOSE e \in ends : \A f \in ends : f <= e
           request == CtxRequest
           sent == {i \in 1..Len(request) : request[i] <= end}
           last == CHOOSE i \in sent : \A j \in sent : j <= i
       IN /\ ctxEnd' = end
          /\ ctxSent' = {request[i] : i \in 1..last}
    /\ ctxAt' = "archive"
    /\ UNCHANGED <<ctxItems, ctxCursor, ctxTurn, ctxRead>>

\* Mutant: the new checkpoint forgets what the one before had read.
CtxArchivedOne ==
    /\ ctxAt = "archive" /\ ctxAt' = "loop"
    /\ ctxCursor' = ctxEnd /\ ctxRead' = ctxSent
    /\ ctxEnd' = 0 /\ ctxSent' = {}
    /\ UNCHANGED <<ctxItems, ctxTurn>>

\* A checkpoint that is valid, perhaps after repairs; the summary before it was in the
\* request.  After the last attempt the turn fails instead.
CtxArchived ==
    /\ ctxAt = "archive" /\ ctxAt' = "loop"
    /\ ctxCursor' = ctxEnd /\ ctxRead' = ctxRead \cup ctxSent
    /\ ctxEnd' = 0 /\ ctxSent' = {}
    /\ UNCHANGED <<ctxItems, ctxTurn>>

CtxNext ==
    \/ CtxBegin \/ CtxMoreInput \/ CtxModelCalls \/ CtxModelAnswers \/ CtxResult
    \/ CtxInteraction \/ CtxBatchEnds \/ CtxInterrupted \/ CtxArchive \/ CtxArchived

CtxSpec == CtxInit /\ [][CtxNext]_ctxVars

-----------------------------------------------------------------------------
\* Before every model call the request is one a provider accepts: each message with calls
\* is followed by the results of exactly these calls, in order, although compression cut
\* the items and turns were interrupted inside a batch (project_context_units,
\* _archivable_units).
CtxPaired ==
    LET request == CtxRequest
        item(k) == ctxItems[request[k]]
    IN ctxAt = "loop" => \A k \in 1..Len(request) :
        /\ item(k).kind = "calls" =>
              \A c \in 1..CtxCalls : /\ k + c <= Len(request) /\ item(k + c).kind = "result"
                                     /\ item(k + c).call = c /\ request[k + c] > request[k]
        /\ item(k).kind = "result" => k > item(k).call /\ item(k - item(k).call).kind = "calls"

\* Nothing is forgotten: what the user typed in the last two turns is in the request word
\* for word and only once, and whatever else is no longer in it was read by the
\* compression that replaced it, or was never shown to the model (archive,
\* _selected_user_anchors, _pinned_current_turn_messages).
CtxRemembers ==
    LET request == CtxRequest
        times(i) == Cardinality({k \in 1..Len(request) : request[k] = i})
        units == CtxUnits(0)
    IN ctxAt = "loop" =>
        /\ \A i \in 1..Len(ctxItems) :
              /\ times(i) <= 1
              /\ ctxItems[i].kind = "input" /\ ctxItems[i].turn >= ctxTurn - 1 => times(i) = 1
        /\ \A u \in 1..Len(units) : units[u].end <= ctxCursor =>
              \A m \in 1..Len(units[u].messages) : units[u].messages[m] \in ctxRead

\* The request is sound: its calls and results stay paired, and what it leaves
\* out is in the summary (context_manager.py, the two above).
CtxSound == CtxPaired /\ CtxRemembers
==============================================================================
