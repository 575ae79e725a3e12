------------------------------ MODULE ToolBatch ------------------------------
(***************************************************************************)
(* ToolBatchExecutor of agent_core/tool_batch.py: one batch of tool calls  *)
(* of a model response, run one after the other or on a thread per call.   *)
(*                                                                         *)
(* `pc' is the thread of execute; each concurrent call has a worker of its *)
(* own (`work').  What a tool returns is abstracted to success or error    *)
(* and whether attachments came with it.  Callbacks, result normalisation  *)
(* and hooks may raise; a journal write may raise up to MaxBatchFaults times.   *)
(***************************************************************************)
EXTENDS Naturals, Sequences

CONSTANTS
    N,           \* number of calls in the batch
    MaxBatchFaults    \* bound: journal writes that raise

ASSUME NAssumption == N \in Nat \ {0}
ASSUME MaxBatchFaultsAssumption == MaxBatchFaults \in Nat

Calls == 1..N

VARIABLES
    mode,       \* "sequential" or "concurrent"
    pc,         \* where execute is
    index,      \* the loop variable of the start loops
    work,       \* what each tool did
    fact,       \* Session.tool_executions[call].status
    facts,      \* history: terminal facts written per call
    items,      \* the messages the batch added to the session
    completed,  \* keys of execute's `completed'
    attached,   \* what attachments each result carries
    futures,    \* calls with a future
    observed,   \* settle's `observed'
    error,      \* the exception on its way, or first_error
    cancelled,  \* TurnControl.cancelled
    abandoned,  \* history: the start loop was left by an exception
    cleaned,    \* calls whose artifact_cleanup ran
    batchFaults

batchVars == <<mode, pc, index, work, fact, facts, items, completed, attached, futures,
          observed, error, cancelled, abandoned, cleaned, batchFaults>>

\* How a tool can end: with a ToolResult (ok, error), or raising.
Results == {"ok", "error"}
Raised == {"cancelled", "interrupted", "broken"}

\* _failure_status.
FailureStatus(e) ==
    CASE e = "cancelled"   -> "cancelled"
      [] e = "interrupted" -> "unknown"
      [] OTHER             -> "failed"

Finished == {"completed", "failed", "cancelled", "unknown"}
Message(kind, c) == [kind |-> kind, call |-> c]
HasMessage(c) == \E x \in DOMAIN items : items[x] = Message("tool", c)

BatchInit ==
    /\ mode \in {"sequential"} \cup {m \in {"concurrent"} : N > 1}
    /\ pc = "start"
    /\ index = 1
    /\ work = [c \in Calls |-> "none"]
    /\ fact = [c \in Calls |-> "none"]
    /\ facts = [c \in Calls |-> 0]
    /\ items = <<>>
    /\ completed = {}
    /\ attached = [c \in Calls |-> "none"]
    /\ futures = {}
    /\ observed = {}
    /\ error = "none"
    /\ cancelled = FALSE
    /\ abandoned = FALSE
    /\ cleaned = {}
    /\ batchFaults = 0

-----------------------------------------------------------------------------
(* Building blocks.                                                        *)

\* The channel thread cancels the turn.
Cancel ==
    /\ ~cancelled
    /\ cancelled' = TRUE
    /\ UNCHANGED <<mode, pc, index, work, fact, facts, items, completed, attached,
                   futures, observed, error, abandoned, cleaned, batchFaults>>

\* Session.tool_started and Session.tool_finished.
Journal(c, s) ==
    /\ fact' = [fact EXCEPT ![c] = s]
    /\ facts' = [facts EXCEPT ![c] = @ + IF s \in Finished THEN 1 ELSE 0]
    /\ UNCHANGED batchFaults

JournalRaises ==
    /\ batchFaults < MaxBatchFaults
    /\ batchFaults' = batchFaults + 1
    /\ UNCHANGED <<fact, facts>>

\* What ToolSet.execute can do for a call: AgentCancelled needs the control.
ToolOutcomes == Results \cup {"broken"} \cup {o \in {"cancelled"} : cancelled}

\* An exception from a callback, the normaliser or a hook, or SIGINT.
Breaks == {"broken", "interrupted"}
\* Mutant: settle keeps the last error.
FirstIsLast(e) == e
First(e) == IF error = "none" THEN e ELSE error

\* A tool that returns a result may attach media for the model, or a file to
\* deliver to the user.
Attaches(c, o) ==
    \E a \in {"none"} \cup {x \in {"tool_media", "tool_delivery"} : o = "ok"} :
        attached' = [attached EXCEPT ![c] = a]

\* Mutant: the message is added even when the fact was refused.
FinishAndCommitEarly(c, r) ==
    /\ Journal(c, IF r = "error" THEN "failed" ELSE "completed") \/ JournalRaises
    /\ items' = Append(items, Message("tool", c))
    /\ UNCHANGED error

\* _finish_call and _commit_normalized_result of a call that returned r: first
\* the terminal fact, then the tool message.  normalize, add_item or on_result
\* may raise, the last with the message already in the session.
FinishAndCommit(c, r) ==
    /\ Journal(c, IF r = "error" THEN "failed" ELSE "completed")
    /\ \/ items' = Append(items, Message("tool", c)) /\ UNCHANGED error
       \/ /\ items' \in {items, Append(items, Message("tool", c))}
          /\ \E e \in Breaks : error' = First(e)

-----------------------------------------------------------------------------
(* _execute_sequentially.                                                  *)

SequentialFrame == UNCHANGED <<mode, futures, observed, cancelled, abandoned, cleaned>>

\* tool_started and on_call of the next call.
StartNext ==
    /\ mode = "sequential" /\ pc = "start" /\ index <= N
    /\ \/ Journal(index, "started") /\ pc' = "call" /\ UNCHANGED error
       \/ Journal(index, "started") /\ pc' = "fail" /\ error' \in Breaks
       \/ JournalRaises /\ pc' = "fail" /\ error' = "broken"
    /\ UNCHANGED <<index, work, items, completed, attached>>
    /\ SequentialFrame

EndLoop ==
    /\ mode = "sequential" /\ pc = "start" /\ index > N
    /\ pc' = "media"
    /\ UNCHANGED <<index, work, fact, facts, items, completed, attached, error, batchFaults>>
    /\ SequentialFrame

\* The tool runs on execute's own thread, so SIGINT can end it too.
ExecuteRaises ==
    /\ mode = "sequential" /\ pc = "call"
    /\ \E o \in (ToolOutcomes \cup Breaks) \ Results :
          work' = [work EXCEPT ![index] = o] /\ error' = o
    /\ pc' = "fail"
    /\ UNCHANGED <<index, fact, facts, items, completed, attached, batchFaults>>
    /\ SequentialFrame

\* Mutant: active_call is not reset after the terminal fact.
ExecuteReturnsActive ==
    /\ mode = "sequential" /\ pc = "call"
    /\ \E r \in Results :
          /\ work' = [work EXCEPT ![index] = r]
          /\ Attaches(index, r)
          /\ FinishAndCommit(index, r)
          /\ pc' = IF error' = "none" THEN "start" ELSE "fail"
          /\ index' = IF error' = "none" THEN index + 1 ELSE index
    /\ completed' = completed \cup {index}
    /\ SequentialFrame

\* The tool returns.  When its terminal fact cannot be journalled active_call is
\* still set; when committing the result raises it is not.
ExecuteReturns ==
    /\ mode = "sequential" /\ pc = "call"
    /\ \E r \in Results :
          /\ work' = [work EXCEPT ![index] = r]
          /\ Attaches(index, r)
          /\ \/ /\ FinishAndCommit(index, r)
                /\ pc' = IF error' = "none" THEN "start" ELSE "cleanup"
                /\ index' = IF error' = "none" THEN index + 1 ELSE index
             \/ /\ JournalRaises
                /\ pc' = "fail" /\ error' = "broken"
                /\ UNCHANGED <<index, items>>
    /\ completed' = completed \cup {index}
    /\ SequentialFrame

\* The handler: a terminal fact for the active call.
FailActive ==
    /\ mode = "sequential" /\ pc = "fail"
    /\ \/ Journal(index, FailureStatus(error)) /\ UNCHANGED error
       \/ JournalRaises /\ error' = "broken"
    /\ pc' = "cleanup"
    /\ UNCHANGED <<index, work, items, completed, attached>>
    /\ SequentialFrame

-----------------------------------------------------------------------------
(* _execute_concurrently.                                                  *)

ConcurrentFrame == UNCHANGED <<mode, cancelled, cleaned>>

\* tool_started of the next call.
StartCall ==
    /\ mode = "concurrent" /\ pc = "start" /\ index <= N
    /\ Journal(index, "started")
    /\ pc' = "submit"
    /\ UNCHANGED <<index, work, items, completed, attached, futures, observed, error,
                   abandoned>>
    /\ ConcurrentFrame

\* on_call, then executor.submit: a worker runs the call.
SubmitCall ==
    /\ mode = "concurrent" /\ pc = "submit"
    /\ work' = [work EXCEPT ![index] = "running"]
    /\ futures' = futures \cup {index}
    /\ index' = index + 1
    /\ pc' = "start"
    /\ UNCHANGED <<fact, facts, items, completed, attached, observed, error, abandoned,
                   batchFaults>>
    /\ ConcurrentFrame

\* on_call or executor.submit raises: the call fails and the loop ends.
SubmitFails ==
    /\ mode = "concurrent" /\ pc = "submit"
    /\ \E e \in Breaks : Journal(index, FailureStatus(e)) /\ error' = e
    /\ pc' = "settle"
    /\ UNCHANGED <<index, work, items, completed, attached, futures, observed,
                   abandoned>>
    /\ ConcurrentFrame

\* tool_started is outside the try, and so is tool_finished of a call that could
\* not be submitted: an exception there leaves the executor's block at once.
Abandon ==
    /\ mode = "concurrent"
    /\ \/ pc \in {"start", "submit"} /\ index <= N /\ JournalRaises /\ error' = "broken"
       \/ pc = "start" /\ index <= N /\ error' = "interrupted"
          /\ UNCHANGED <<fact, facts, batchFaults>>
    /\ abandoned' = TRUE
    /\ pc' = "join"
    /\ UNCHANGED <<index, work, items, completed, attached, futures, observed>>
    /\ ConcurrentFrame

Started ==
    /\ mode = "concurrent" /\ pc = "start" /\ index > N
    /\ pc' = "settle"
    /\ UNCHANGED <<index, work, fact, facts, items, completed, attached, futures,
                   observed, error, abandoned, batchFaults>>
    /\ ConcurrentFrame

WorkerEnds(c) ==
    /\ mode = "concurrent" /\ work[c] = "running"
    /\ \E o \in ToolOutcomes : work' = [work EXCEPT ![c] = o] /\ Attaches(c, o)
    /\ UNCHANGED <<pc, index, fact, facts, items, completed, futures, observed,
                   error, abandoned, batchFaults>>
    /\ ConcurrentFrame

\* settle(future), from as_completed ("settle") or from the finally ("drain").
\* The handler of a tool that raised does not catch a journal that refuses the
\* fact: that ends the as_completed loop, or leaves the finally.
Settle(c) ==
    /\ mode = "concurrent" /\ pc \in {"settle", "drain"}
    /\ c \in futures \ observed
    /\ work[c] # "running"
    /\ observed' = observed \cup {c}
    /\ \/ /\ work[c] \in Raised
          /\ Journal(c, FailureStatus(work[c]))
          /\ error' = First(work[c])
          /\ UNCHANGED <<pc, items, completed>>
       \/ /\ work[c] \in Raised
          /\ JournalRaises
          /\ error' = IF pc = "settle" THEN First("broken") ELSE "broken"
          /\ pc' = IF pc = "settle" THEN "drain" ELSE "join"
          /\ UNCHANGED <<items, completed>>
       \/ /\ work[c] \in Results
          /\ completed' = completed \cup {c}
          /\ \/ FinishAndCommit(c, work[c])
             \/ JournalRaises /\ error' = First("broken") /\ UNCHANGED items
          /\ UNCHANGED pc
    /\ UNCHANGED <<index, work, attached, futures, abandoned>>
    /\ ConcurrentFrame

\* SIGINT while as_completed waits.
Interrupted ==
    /\ mode = "concurrent" /\ pc = "settle"
    /\ error' = First("interrupted")
    /\ pc' = "drain"
    /\ UNCHANGED <<index, work, fact, facts, items, completed, attached, futures,
                   observed, abandoned, batchFaults>>
    /\ ConcurrentFrame

\* Mutant: waits for a future of every call of the batch.
AllSettledOfAll ==
    /\ mode = "concurrent" /\ pc \in {"settle", "drain"}
    /\ observed = Calls
    /\ pc' = IF error = "none" THEN "media" ELSE "join"
    /\ UNCHANGED <<index, work, fact, facts, items, completed, attached, futures,
                   observed, error, abandoned, batchFaults>>
    /\ ConcurrentFrame

AllSettled ==
    /\ mode = "concurrent" /\ pc \in {"settle", "drain"}
    /\ observed = futures
    /\ pc' = IF error = "none" THEN "media" ELSE "join"
    /\ UNCHANGED <<index, work, fact, facts, items, completed, attached, futures,
                   observed, error, abandoned, batchFaults>>
    /\ ConcurrentFrame

\* Mutant: shutdown(wait=False).
JoinUnwaited ==
    /\ mode = "concurrent" /\ pc = "join"
    /\ pc' = "cleanup"
    /\ UNCHANGED <<index, work, fact, facts, items, completed, attached, futures,
                   observed, error, abandoned, batchFaults>>
    /\ ConcurrentFrame

\* ThreadPoolExecutor.__exit__ waits for the workers.
Join ==
    /\ mode = "concurrent" /\ pc = "join"
    /\ \A c \in Calls : work[c] # "running"
    /\ pc' = "cleanup"
    /\ UNCHANGED <<index, work, fact, facts, items, completed, attached, futures,
                   observed, error, abandoned, batchFaults>>
    /\ ConcurrentFrame
-----------------------------------------------------------------------------
(* The rest of execute.                                                    *)

EndFrame == UNCHANGED <<mode, index, work, fact, facts, completed, attached, futures,
                        observed, cancelled, abandoned>>

\* _commit_media: one message for the media of the model, then one for the
\* deliveries; add_item or on_media may raise at either.
CommitMedia(origin, next) ==
    LET message == IF \E c \in Calls : attached[c] = origin
                     THEN Append(items, Message(origin, 0)) ELSE items
    IN  /\ \/ items' = message /\ pc' = next /\ UNCHANGED error
           \/ /\ \E c \in Calls : attached[c] = origin
              /\ items' \in {items, message}
              /\ error' \in Breaks /\ pc' = "cleanup"
        /\ UNCHANGED <<cleaned, batchFaults>>
        /\ EndFrame

CommitObservations == pc = "media" /\ CommitMedia("tool_media", "deliver")
CommitDeliveries == pc = "deliver" /\ CommitMedia("tool_delivery", "hooks")

\* The PostToolUse hooks of the executed calls, and their feedback as one message.
PostHooks ==
    /\ pc = "hooks"
    /\ \/ items' \in {items, Append(items, Message("hook_feedback", 0))}
          /\ UNCHANGED error
       \/ items' = items /\ error' \in Breaks \cup {o \in {"cancelled"} : cancelled}
    /\ pc' = "cleanup"
    /\ UNCHANGED <<cleaned, batchFaults>>
    /\ EndFrame

\* _cleanup_results, then execute returns or the exception goes on.
CleanUp ==
    /\ pc = "cleanup"
    /\ cleaned' = completed
    /\ pc' = IF error = "none" THEN "returned" ELSE "raised"
    /\ UNCHANGED <<items, error, batchFaults>>
    /\ EndFrame

BatchNext ==
    \/ Cancel
    \/ StartNext \/ EndLoop \/ ExecuteRaises \/ ExecuteReturns \/ FailActive
    \/ StartCall \/ SubmitCall \/ SubmitFails \/ Abandon \/ Started
    \/ \E c \in Calls : WorkerEnds(c) \/ Settle(c)
    \/ Interrupted \/ AllSettled \/ Join
    \/ CommitObservations \/ CommitDeliveries \/ PostHooks \/ CleanUp

BatchSpec == BatchInit /\ [][BatchNext]_batchVars

\* The steps of the thread of execute that no failure or interruption makes.
BatchThread ==
    \/ StartNext \/ EndLoop \/ ExecuteRaises \/ ExecuteReturns \/ FailActive
    \/ StartCall \/ SubmitCall \/ Started \/ (\E c \in Calls : Settle(c)) \/ AllSettled \/ Join
    \/ CommitObservations \/ CommitDeliveries \/ PostHooks \/ CleanUp

\* Tools return, and the thread of execute runs on.
BatchFairness == WF_batchVars(BatchThread) /\ \A c \in Calls : WF_batchVars(WorkerEnds(c))

BatchFairSpec == BatchSpec /\ BatchFairness

-----------------------------------------------------------------------------
(* Properties.                                                             *)

Over == pc \in {"returned", "raised"}

\* A started call gets exactly one terminal fact before execute is over, and
\* never a second one, whatever raises and whenever the turn is cancelled or
\* interrupted (tool_started, tool_finished); only an exception out of the start
\* loop, or a journal that refuses the fact, leaves a call open for recovery.
OneTerminalFact ==
    /\ \A c \in Calls : facts[c] <= 1 /\ (facts[c] = 1 <=> fact[c] \in Finished)
    /\ Over /\ ~abandoned /\ batchFaults = 0 => \A c \in Calls : fact[c] # "started"

\* What the model reads is backed by the journal: a tool message follows the
\* terminal fact of its call, once; on a normal return every call has one, and
\* media and feedback come after all of them (providers reject a batch whose
\* tool results are interrupted).
MessagesFollowFacts ==
    /\ \A c \in Calls : HasMessage(c) => fact[c] \in {"completed", "failed"}
    /\ \A x, y \in DOMAIN items :
         /\ items[x].kind = "tool" /\ items[x] = items[y] => x = y
         /\ x < y /\ items[y].kind = "tool" => items[x].kind = "tool"
    /\ pc = "returned" => \A c \in Calls : HasMessage(c)

\* When execute is over no tool runs any more and every result it received has
\* had its artifact cleaned up.
NothingLeftRunning ==
    Over => /\ \A c \in Calls : work[c] # "running"
            /\ cleaned = completed

\* The first error is the one execute raises: a cancellation does not turn into
\* the failure of a later call, or the other way round, unless the journal
\* itself refuses a fact; and once there is one, no further call starts.
FirstErrorWins ==
    [][error # "none" =>
         /\ batchFaults' = batchFaults => error' = error
         /\ \A c \in Calls : fact'[c] = "started" => fact[c] = "started"]_batchVars

\* Once it has begun, execute ends when its tools do.
BatchEnds == (pc # "start" \/ index > 1) ~> Over

\* A batch is sound: facts, messages, workers and artifacts agree whatever raises
\* (tool_batch.py, the three above).
BatchSound == OneTerminalFact /\ MessagesFollowFacts /\ NothingLeftRunning
=============================================================================
