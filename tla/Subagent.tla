------------------------------ MODULE Subagent ------------------------------
(***************************************************************************)
(* Delegation: the `subagent` tool (agent_core/tools/builtin/subagent.py)  *)
(* and the SubagentRuntime that runs a child Agent for a role              *)
(* (agent_core/subagent.py).  Each call of the parent has its own child:   *)
(* a fresh Session, a journal nested under the parent's, and its own       *)
(* cancellation signal.  A background call runs in a job and publishes a   *)
(* bounded progress card built from the child's events; a foreground call  *)
(* publishes nothing.                                                      *)
(*                                                                         *)
(* A child's model call yields intermediate text with a tool batch, a      *)
(* silent tool batch, or an answer.  An answer is not always the last      *)
(* word: a Stop hook may send the child on to another model call.  Tools   *)
(* of a batch start in order; concurrent ones finish in any order.  A text *)
(* is represented by the number of its model call.                         *)
(***************************************************************************)
EXTENDS Naturals, Sequences, FiniteSets, SequencesExt

CONSTANTS
    SubCalls,        \* delegation calls of one parent turn
    SubKeep,         \* _recent_tools[-5:]: cards kept
    SubMaxModel,     \* bound: model calls of a child
    SubMaxBatch      \* bound: tool calls of one batch

VARIABLES
    subChild,     \* the child Agent of a call, its position and its journal
    subProgress,  \* the call's _SubagentProgress
    subCard,      \* the progress the job shows, <<>> before the first report
    subCancelled, \* calls whose cancellation signal is set
    subLog        \* history: per call, every tool call with its outcome, and
                  \* the model calls whose text introduced a tool batch

subVars == <<subChild, subProgress, subCard, subCancelled, subLog>>

SubNone == 0

SubInit ==
    /\ subChild = [c \in SubCalls |-> [at |-> "unborn", job |-> FALSE, model |-> 0, batch |-> 0,
                                       next |-> 1, running |-> {}, sink |-> FALSE,
                                       memory |-> "none"]]
    /\ subProgress = [c \in SubCalls |-> [recent |-> <<>>, pending |-> SubNone,
                                          text |-> SubNone]]
    /\ subCard = [c \in SubCalls |-> <<>>]
    /\ subCancelled = {}
    /\ subLog = [c \in SubCalls |-> [tools |-> <<>>, texts |-> <<>>]]

-----------------------------------------------------------------------------
(* The progress card.                                                      *)

\* _recent_tools[-5:].
SubLast(s) == IF Len(s) <= SubKeep THEN s ELSE SubSeq(s, Len(s) - SubKeep + 1, Len(s))

\* AssistantMessageEvent: the text waits for proof that it is intermediate.
SubOnMessage(p, m) == [p EXCEPT !.pending = m]

\* Mutant: any tool batch proves the pending text intermediate.
SubOnBatchAnyCall(p, m) ==
    [p EXCEPT !.text = IF p.pending # SubNone THEN p.pending ELSE @,
              !.pending = SubNone]

\* ToolBatchStartedEvent of model call m.
SubOnBatch(p, m) ==
    [p EXCEPT !.text = IF p.pending = m THEN m ELSE @,
              !.pending = SubNone]

\* ToolCallEvent.
SubOnCall(p, t) ==
    [p EXCEPT !.recent = SubLast(Append(@, [id |-> t, status |-> "running"]))]

\* ToolResultEvent of a call that is still on the card.
SubOnResult(p, t, s) ==
    [p EXCEPT !.recent = [i \in DOMAIN @ |->
        IF @[i].id = t THEN [@[i] EXCEPT !.status = s] ELSE @[i]]]

\* self._publish, which is job.report_progress: a foreground call has none.
SubPublish(c, p) ==
    subCard' = IF subChild[c].job
               THEN [subCard EXCEPT ![c] = <<[tools |-> p.recent, text |-> p.text]>>]
               ELSE subCard

-----------------------------------------------------------------------------
(* A delegation.                                                           *)

\* The head of SubagentRuntime.run: a fresh Session in a context without
\* sub-agents, jobs or a plan; its journal is opened and attached before the
\* first model call.
SubBorn(ch) == [ch EXCEPT !.at = "model", !.sink = TRUE]

\* SubagentTool.execute: a background call runs in a job, a foreground call in
\* the parent's batch.  An unknown role raises before a Session exists.
SubStart(c, known, background) ==
    LET ch == [subChild[c] EXCEPT !.job = background] IN
    /\ ch.at = "unborn"
    /\ subChild' = [subChild EXCEPT ![c] = IF known THEN SubBorn(ch)
                                           ELSE [ch EXCEPT !.at = "failed"]]
    /\ UNCHANGED <<subProgress, subCard, subCancelled, subLog>>

\* A model call that returns tool calls, with or without text: the optional
\* AssistantMessageEvent, then ToolBatchStartedEvent.
SubAskTools(c, text, n) ==
    LET m == subChild[c].model + 1
        p == IF text THEN SubOnMessage(subProgress[c], m) ELSE subProgress[c] IN
    /\ subChild[c].at = "model"
    /\ m < SubMaxModel
    /\ c \notin subCancelled
    /\ subChild' = [subChild EXCEPT ![c].at = "tools", ![c].model = m,
                                    ![c].batch = n, ![c].next = 1]
    /\ subProgress' = [subProgress EXCEPT ![c] = SubOnBatch(p, m)]
    /\ subLog' = IF text THEN [subLog EXCEPT ![c].texts = Append(@, m)] ELSE subLog
    /\ UNCHANGED <<subCard, subCancelled>>

\* A model call that answers.  A Stop hook may reject the answer, which sends
\* the child on to its next model call.
SubAnswer(c, accepted) ==
    LET m == subChild[c].model + 1 IN
    /\ subChild[c].at = "model"
    /\ m <= SubMaxModel
    /\ ~accepted => m < SubMaxModel
    /\ c \notin subCancelled
    /\ subChild' = [subChild EXCEPT ![c].model = m,
                                    ![c].at = IF accepted THEN "answered" ELSE "model"]
    /\ subProgress' = [subProgress EXCEPT ![c] = SubOnMessage(@, m)]
    /\ UNCHANGED <<subCard, subCancelled, subLog>>

\* emit_call: a serial tool starts alone, concurrent ones start together and in
\* the model's order.
SubToolStart(c) ==
    LET ch == subChild[c]
        t == <<ch.model, ch.next>>
        p == SubOnCall(subProgress[c], t) IN
    /\ ch.at = "tools"
    /\ ch.next <= ch.batch
    /\ subChild' = [subChild EXCEPT ![c].next = @ + 1, ![c].running = @ \cup {t}]
    /\ subProgress' = [subProgress EXCEPT ![c] = p]
    /\ subLog' = [subLog EXCEPT ![c].tools = Append(@, [id |-> t, status |-> "running"])]
    /\ SubPublish(c, p)
    /\ UNCHANGED subCancelled

\* emit_result: a result of a call that already left the card publishes nothing.
SubToolResult(c, t, s) ==
    LET p == SubOnResult(subProgress[c], t, s) IN
    /\ t \in subChild[c].running
    /\ subChild' = [subChild EXCEPT ![c].running = @ \ {t}]
    /\ subLog' = [subLog EXCEPT ![c].tools = [i \in DOMAIN @ |->
                    IF @[i].id = t THEN [@[i] EXCEPT !.status = s] ELSE @[i]]]
    /\ IF \E i \in DOMAIN p.recent : p.recent[i].id = t
       THEN /\ subProgress' = [subProgress EXCEPT ![c] = p]
            /\ SubPublish(c, p)
       ELSE UNCHANGED <<subProgress, subCard>>
    /\ UNCHANGED subCancelled

\* A cancelled tool raises instead: no result event, and the batch ends the run.
SubToolAbort(c, t) ==
    /\ t \in subChild[c].running
    /\ c \in subCancelled
    /\ subChild' = [subChild EXCEPT ![c].running = @ \ {t}]
    /\ UNCHANGED <<subProgress, subCard, subCancelled, subLog>>

\* The batch is over and the child is not cancelled: its next model call.
SubNextCall(c) ==
    LET ch == subChild[c] IN
    /\ ch.at = "tools" /\ ch.next > ch.batch /\ ch.running = {}
    /\ c \notin subCancelled
    /\ subChild' = [subChild EXCEPT ![c].at = "model"]
    /\ UNCHANGED <<subProgress, subCard, subCancelled, subLog>>

\* child.run returned: memory.reconcile_pending, then the finally clause.
SubReturn(c) ==
    /\ subChild[c].at = "answered"
    /\ subChild' = [subChild EXCEPT ![c].at = "done", ![c].memory = "reconciled",
                                    ![c].sink = FALSE]
    /\ UNCHANGED <<subProgress, subCard, subCancelled, subLog>>

\* Mutant: the journal sink is detached only when the child succeeded.
SubStopAttached(c, how) ==
    /\ subChild[c].at \in {"model", "tools", "answered"}
    /\ subChild[c].running = {}
    /\ how = "cancelled" => c \in subCancelled
    /\ subChild' = [subChild EXCEPT ![c].at = how]
    /\ UNCHANGED <<subProgress, subCard, subCancelled, subLog>>

\* child.run raised at a safe point: the cancellation it was given, or an error
\* of its provider, its tools or its memory.  Running tools are awaited first,
\* and memory is left alone; the finally clause detaches the journal.
SubStop(c, how) ==
    /\ subChild[c].at \in {"model", "tools", "answered"}
    /\ subChild[c].running = {}
    /\ how = "cancelled" => c \in subCancelled
    /\ subChild' = [subChild EXCEPT ![c].at = how, ![c].sink = FALSE]
    /\ UNCHANGED <<subProgress, subCard, subCancelled, subLog>>

\* job.cancellation or context.cancellation is set.
SubCancel(c) ==
    /\ c \notin subCancelled
    /\ subCancelled' = subCancelled \cup {c}
    /\ UNCHANGED <<subChild, subProgress, subCard, subLog>>

SubMove(c) ==
    \/ \E known, background \in BOOLEAN : SubStart(c, known, background)
    \/ \E text \in BOOLEAN, n \in 1..SubMaxBatch : SubAskTools(c, text, n)
    \/ \E accepted \in BOOLEAN : SubAnswer(c, accepted)
    \/ SubToolStart(c)
    \/ \E t \in subChild[c].running, s \in {"completed", "failed"} : SubToolResult(c, t, s)
    \/ \E t \in subChild[c].running : SubToolAbort(c, t)
    \/ SubNextCall(c)
    \/ SubReturn(c)
    \/ \E how \in {"cancelled", "failed"} : SubStop(c, how)

SubNext == \E c \in SubCalls : SubMove(c) \/ SubCancel(c)

SubSpec == SubInit /\ [][SubNext]_subVars

-----------------------------------------------------------------------------
(* What delegation promises.                                               *)

(***************************************************************************)
(* The card of a background child tells the truth: it lists exactly the    *)
(* last tools the child started, each with the state it last reported even *)
(* when concurrent tools finish out of order, and the text it shows is the *)
(* child's latest intermediate text, never the text of an answer: neither  *)
(* the report, nor an answer that a Stop hook sent back.                   *)
(***************************************************************************)
SubCardTrue ==
    \A c \in SubCalls : subCard[c] # <<>> =>
        LET card == subCard[c][1]
            texts == subLog[c].texts IN
        /\ subChild[c].job
        /\ card.tools = SubLast(subLog[c].tools)
        /\ card.text # SubNone => \E i \in DOMAIN texts : texts[i] = card.text
        /\ subChild[c].running # {} =>
              card.text = IF texts = <<>> THEN SubNone ELSE Last(texts)

(***************************************************************************)
(* A call that returned, failed or was cancelled leaves nothing behind: no *)
(* tool of its child still runs and the child's journal is detached; and   *)
(* only a child that succeeded has had its memory candidates merged.       *)
(***************************************************************************)
SubLeavesNothing ==
    \A c \in SubCalls :
        LET ch == subChild[c] IN
        /\ ch.at \in {"done", "failed", "cancelled"} => ~ch.sink /\ ch.running = {}
        /\ ch.at \in {"model", "tools", "answered"} => ch.sink
        /\ ch.memory = "reconciled" <=> ch.at = "done"

\* Delegation is sound: the card of a child tells the truth, and a call that is
\* over leaves nothing behind (subagent.py, the two above).
SubSound == SubCardTrue /\ SubLeavesNothing
=============================================================================
