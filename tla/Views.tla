------------------------------- MODULE Views -------------------------------
(***************************************************************************)
(* What the two frontends show of a turn.  The agent loop emits events in  *)
(* the order of agent.py; the journal keeps whole items.  The GUI page     *)
(* folds the events into items and takes over the items of a checkpoint    *)
(* (transcript.ts, event_stream.py); the TUI folds them into entries and   *)
(* never sees a checkpoint (state.ts).  Jobs report from their own         *)
(* threads, so their notices fall between any two events of the turn.      *)
(***************************************************************************)
EXTENDS Naturals, Sequences, SequencesExt

CONSTANTS
    ViewMaxTurns,     \* bound: turns submitted
    ViewMaxTokens,    \* bound: streamed fragments in all
    ViewMaxCalls,     \* bound: tool calls in all
    ViewMaxExtra      \* bound: notices, steers and hidden items in all

ASSUME ViewAssumption ==
    {ViewMaxTurns, ViewMaxTokens, ViewMaxCalls, ViewMaxExtra} \subseteq Nat

VARIABLES
    viewAt,      \* the agent loop: "idle", "begin", "ready", "stream", "batch", "final"
    viewCall,    \* what the provider has streamed in this model call
    viewBatch,   \* the running batch
    viewItems,   \* Session.items
    viewGui,     \* the page's transcript items
    viewTui,     \* the TUI's entries
    viewClean,   \* no notice cut a streamed text, no turn broke off
    viewCount    \* turns, tokens, calls and extras so far

viewVars == <<viewAt, viewCall, viewBatch, viewItems, viewGui, viewTui,
              viewClean, viewCount>>

(* A session item; a page's item may also still be streaming. *)
ViewItem(role) ==
    [role |-> role, text |-> <<>>, reasoning |-> <<>>, calls |-> <<>>,
     answers |-> 0, ok |-> TRUE, streaming |-> FALSE]
ViewUser(token) == [ViewItem("user") EXCEPT !.text = <<token>>]
ViewHidden == ViewItem("hidden")   \* job_result, hook_feedback, user_interaction
ViewTool(c, ok) == [ViewItem("tool") EXCEPT !.answers = c, !.ok = ok]

ViewEntry(kind, text, open) ==
    [kind |-> kind, text |-> text, call |-> 0, state |-> "", open |-> open]
ViewToolEntry(c, state) ==
    [ViewEntry("tool", <<>>, FALSE) EXCEPT !.call = c, !.state = state]

(* toolOutcomes: the state of call c among the items, or what no answer means. *)
ViewOutcome(items, c, missing) ==
    IF \E i \in DOMAIN items : items[i].answers = c
    THEN IF \E i \in DOMAIN items : items[i].answers = c /\ items[i].ok
         THEN "ok" ELSE "error"
    ELSE missing

(* historyEntries, and the parts of toMessages: reasoning, text and calls of
   one item after the other; tool and hidden items show nothing of their own. *)
ViewParts(items, missing) ==
    LET Part(kind, text) == IF text = <<>> THEN <<>>
                            ELSE <<ViewEntry(kind, text, FALSE)>>
        Of(item) ==
            Part("reasoning", item.reasoning)
            \o Part(item.role, item.text)
            \o [k \in DOMAIN item.calls |->
                  ViewToolEntry(item.calls[k], ViewOutcome(items, item.calls[k], missing))]
    IN  FlattenSeq([i \in DOMAIN items |-> Of(items[i])])

-----------------------------------------------------------------------------
(* The page: transcript.ts. *)

ViewOpenItem(items) ==
    items # <<>> /\ Last(items).role = "assistant" /\ Last(items).streaming

\* Mutant: an item that is no longer streaming is added to.
ViewGuiDeltaAnyItem(items, token) ==
    IF items # <<>> /\ Last(items).role = "assistant"
    THEN [items EXCEPT ![Len(items)].text = Append(@, token)]
    ELSE Append(items, [ViewItem("assistant") EXCEPT
                          !.text = <<token>>, !.streaming = TRUE])

ViewGuiDelta(items, token) ==
    IF ViewOpenItem(items)
    THEN [items EXCEPT ![Len(items)].text = Append(@, token)]
    ELSE Append(items, [ViewItem("assistant") EXCEPT
                          !.text = <<token>>, !.streaming = TRUE])

ViewGuiReasoning(items, token) ==
    IF ViewOpenItem(items) /\ Last(items).reasoning # <<>>
    THEN [items EXCEPT ![Len(items)].reasoning = Append(@, token)]
    ELSE Append(items, [ViewItem("assistant") EXCEPT
                          !.reasoning = <<token>>, !.streaming = TRUE])

ViewGuiSettle(items, text) ==
    IF ViewOpenItem(items)
    THEN [items EXCEPT ![Len(items)] = [@ EXCEPT !.text = text, !.streaming = FALSE]]
    ELSE Append(items, [ViewItem("assistant") EXCEPT !.text = text])

ViewGuiBatch(items, calls) ==
    IF calls = <<>> THEN items
    ELSE Append(items, [ViewItem("assistant") EXCEPT !.calls = calls])

-----------------------------------------------------------------------------
(* The TUI: state.ts.  Every action but a reasoning delta closes an open
   reasoning entry. *)

ViewTuiOpen(entries, kind) ==
    entries # <<>> /\ Last(entries).kind = kind /\ Last(entries).open

ViewTuiClosed(entries) ==
    [i \in DOMAIN entries |->
       IF entries[i].kind = "reasoning" THEN [entries[i] EXCEPT !.open = FALSE]
       ELSE entries[i]]

ViewTuiStream(entries, kind, token) ==
    IF ViewTuiOpen(entries, kind)
    THEN [entries EXCEPT ![Len(entries)].text = Append(@, token)]
    ELSE Append(entries, ViewEntry(kind, <<token>>, TRUE))

ViewTuiDelta(entries, token) ==
    ViewTuiClosed(ViewTuiStream(entries, "assistant", token))

\* Mutant: the text of a call always opens an entry of its own.
ViewTuiSettleAppends(entries, text) ==
    Append(ViewTuiClosed(entries), ViewEntry("assistant", text, FALSE))

ViewTuiSettle(entries, text) ==
    LET entry == ViewEntry("assistant", text, FALSE) IN
    ViewTuiClosed(IF ViewTuiOpen(entries, "assistant")
                  THEN [entries EXCEPT ![Len(entries)] = entry]
                  ELSE Append(entries, entry))

ViewTuiShow(entries, entry) == ViewTuiClosed(Append(entries, entry))

ViewTuiResolve(entries, c, state) ==
    ViewTuiClosed([i \in DOMAIN entries |->
        IF entries[i].kind = "tool" /\ entries[i].call = c
        THEN [entries[i] EXCEPT !.state = state] ELSE entries[i]])

-----------------------------------------------------------------------------
(* The turn, one event or one group of adjacent events at a time. *)

ViewNoCall == [text |-> <<>>, reasoning |-> <<>>]
ViewNoBatch == [calls |-> <<>>, started |-> 0, parallel |-> FALSE]
ViewSpend(field) == viewCount' = [viewCount EXCEPT ![field] = @ + 1]
ViewAnswered(c) == \E i \in DOMAIN viewItems : viewItems[i].answers = c

(* The composer: the TUI shows the text at once, the page when the runtime
   says it received the turn. *)
ViewSubmit ==
    /\ viewAt = "idle"
    /\ viewCount.turns < ViewMaxTurns
    /\ viewAt' = "begin"
    /\ viewTui' = ViewTuiShow(viewTui, ViewEntry("user", <<"ask">>, FALSE))
    /\ viewGui' = Append(viewGui, ViewUser("ask"))
    /\ ViewSpend("turns")
    /\ UNCHANGED <<viewCall, viewBatch, viewItems, viewClean>>

(* Agent.run stores the input; the first context_window event of the turn
   carries the transcript. *)
ViewBegin ==
    /\ viewAt = "begin"
    /\ viewAt' = "ready"
    /\ viewItems' = Append(viewItems, ViewUser("ask"))
    /\ viewGui' = viewItems'
    /\ UNCHANGED <<viewCall, viewBatch, viewTui, viewClean, viewCount>>

ViewModelCall ==
    /\ viewAt = "ready"
    /\ viewAt' = "stream"
    /\ viewCall' = ViewNoCall
    /\ UNCHANGED <<viewBatch, viewItems, viewGui, viewTui, viewClean, viewCount>>

(* The provider's deltas, reasoning ahead of text. *)
ViewReasoningDelta ==
    /\ viewAt = "stream"
    /\ viewCall.text = <<>>
    /\ viewCount.tokens < ViewMaxTokens
    /\ LET token == viewCount.tokens IN
       /\ viewCall' = [viewCall EXCEPT !.reasoning = Append(@, token)]
       /\ viewGui' = ViewGuiReasoning(viewGui, token)
       /\ viewTui' = ViewTuiStream(viewTui, "reasoning", token)
    /\ ViewSpend("tokens")
    /\ UNCHANGED <<viewAt, viewBatch, viewItems, viewClean>>

ViewTextDelta ==
    /\ viewAt = "stream"
    /\ viewCount.tokens < ViewMaxTokens
    /\ LET token == viewCount.tokens IN
       /\ viewCall' = [viewCall EXCEPT !.text = Append(@, token)]
       /\ viewGui' = ViewGuiDelta(viewGui, token)
       /\ viewTui' = ViewTuiDelta(viewTui, token)
    /\ ViewSpend("tokens")
    /\ UNCHANGED <<viewAt, viewBatch, viewItems, viewClean>>

(* The response is stored, then assistant_message when it has content, then
   tool_batch_started when it has calls. *)
ViewResponse(calls, parallel) ==
    LET text == viewCall.text IN
    /\ viewAt = "stream"
    /\ calls # <<>> \/ text # <<>>
    /\ viewItems' = Append(viewItems, [ViewItem("assistant") EXCEPT
                        !.text = text, !.reasoning = viewCall.reasoning, !.calls = calls])
    /\ viewGui' = ViewGuiBatch(IF text = <<>> THEN viewGui
                               ELSE ViewGuiSettle(viewGui, text), calls)
    /\ viewTui' = IF text = <<>> THEN ViewTuiClosed(viewTui)
                  ELSE ViewTuiSettle(viewTui, text)
    /\ viewAt' = IF calls = <<>> THEN "final" ELSE "batch"
    /\ viewBatch' = [calls |-> calls, started |-> 0, parallel |-> parallel]
    /\ viewCount' = [viewCount EXCEPT !.calls = @ + Len(calls)]
    /\ UNCHANGED <<viewCall, viewClean>>

ViewResponds ==
    \E n \in 0..2, parallel \in BOOLEAN :
        /\ viewCount.calls + n =< ViewMaxCalls
        /\ parallel => n > 1
        /\ ViewResponse([k \in 1..n |-> viewCount.calls + k], parallel)

ViewToolCall ==
    /\ viewAt = "batch"
    /\ viewBatch.started < Len(viewBatch.calls)
    /\ ~viewBatch.parallel =>
          \A k \in 1..viewBatch.started : ViewAnswered(viewBatch.calls[k])
    /\ viewBatch' = [viewBatch EXCEPT !.started = @ + 1]
    /\ viewTui' = ViewTuiShow(viewTui,
                     ViewToolEntry(viewBatch.calls[viewBatch'.started], "running"))
    /\ UNCHANGED <<viewAt, viewCall, viewItems, viewGui, viewClean, viewCount>>

ViewToolResult ==
    /\ viewAt = "batch"
    /\ viewBatch.parallel => viewBatch.started = Len(viewBatch.calls)
    /\ \E k \in 1..viewBatch.started, ok \in BOOLEAN :
          LET c == viewBatch.calls[k] IN
          /\ ~ViewAnswered(c)
          /\ viewItems' = Append(viewItems, ViewTool(c, ok))
          /\ viewGui' = Append(viewGui, ViewTool(c, ok))
          /\ viewTui' = ViewTuiResolve(viewTui, c, IF ok THEN "ok" ELSE "error")
    /\ UNCHANGED <<viewAt, viewCall, viewBatch, viewClean, viewCount>>

ViewBatchEnds ==
    /\ viewAt = "batch"
    /\ \A k \in DOMAIN viewBatch.calls : ViewAnswered(viewBatch.calls[k])
    /\ viewAt' = "ready"
    /\ viewBatch' = ViewNoBatch
    /\ UNCHANGED <<viewCall, viewItems, viewGui, viewTui, viewClean, viewCount>>

(* Steering applied at a boundary, and job results or hook feedback stored for
   the model alone. *)
ViewSteer ==
    /\ viewAt \in {"ready", "final"}
    /\ viewCount.extras < ViewMaxExtra
    /\ viewItems' = Append(viewItems, ViewUser("steer"))
    /\ viewGui' = Append(viewGui, ViewUser("steer"))
    /\ viewTui' = ViewTuiShow(viewTui, ViewEntry("user", <<"steer">>, FALSE))
    /\ viewAt' = "ready"
    /\ ViewSpend("extras")
    /\ UNCHANGED <<viewCall, viewBatch, viewClean>>

ViewFeedback ==
    /\ viewAt \in {"ready", "final"}
    /\ viewCount.extras < ViewMaxExtra
    /\ viewItems' = Append(viewItems, ViewHidden)
    /\ viewAt' = "ready"
    /\ ViewSpend("extras")
    /\ UNCHANGED <<viewCall, viewBatch, viewGui, viewTui, viewClean>>

(* The end of the turn: the page takes the transcript of the event, the TUI
   keeps its entries. *)
ViewEnd ==
    /\ viewAt # "idle"
    /\ viewAt' = "idle"
    /\ viewGui' = viewItems
    /\ \E end \in {"turn_completed", "turn_cancelled", "turn_failed"} :
          /\ end = "turn_completed" => viewAt = "final"
          /\ viewTui' = IF end = "turn_completed" THEN ViewTuiClosed(viewTui)
                        ELSE ViewTuiShow(viewTui, ViewEntry("notice", <<>>, FALSE))
          /\ viewClean' = (viewClean /\ end = "turn_completed")
    /\ viewBatch' = ViewNoBatch
    /\ viewCall' = ViewNoCall
    /\ UNCHANGED <<viewItems, viewCount>>

(* job_status from a job's thread, or hook_completed. *)
ViewNotice ==
    /\ viewCount.extras < ViewMaxExtra
    /\ viewTui' = ViewTuiShow(viewTui, ViewEntry("notice", <<>>, FALSE))
    /\ viewClean' = (viewClean /\ (viewAt = "stream" => viewCall = ViewNoCall))
    /\ ViewSpend("extras")
    /\ UNCHANGED <<viewAt, viewCall, viewBatch, viewItems, viewGui>>

(* Opening the stored session: session_ready, then session_items. *)
ViewReopen ==
    /\ viewAt = "idle"
    /\ viewTui # <<>>
    /\ viewTui' = <<ViewEntry("notice", <<>>, FALSE)>> \o ViewParts(viewItems, "error")
    /\ viewGui' = viewItems
    /\ viewClean' = TRUE
    /\ UNCHANGED <<viewAt, viewCall, viewBatch, viewItems, viewCount>>

-----------------------------------------------------------------------------
ViewInit ==
    /\ viewAt = "idle"
    /\ viewCall = ViewNoCall
    /\ viewBatch = ViewNoBatch
    /\ viewItems = <<>> /\ viewGui = <<>> /\ viewTui = <<>>
    /\ viewClean = TRUE
    /\ viewCount = [turns |-> 0, tokens |-> 0, calls |-> 0, extras |-> 0]

ViewNext ==
    \/ ViewSubmit \/ ViewBegin \/ ViewModelCall \/ ViewReasoningDelta
    \/ ViewTextDelta \/ ViewResponds \/ ViewToolCall \/ ViewToolResult
    \/ ViewBatchEnds \/ ViewSteer \/ ViewFeedback \/ ViewEnd \/ ViewNotice
    \/ ViewReopen

ViewSpec == ViewInit /\ [][ViewNext]_viewVars

-----------------------------------------------------------------------------
(* Between two model calls, before any checkpoint arrives, a page that folded
   the events of the turn (transcript.ts) shows exactly the reasoning, texts,
   calls and outcomes that the journal holds, each once and in order. *)
ViewPageMirrors ==
    viewAt \in {"ready", "final"} =>
        ViewParts(viewGui, "error") = ViewParts(viewItems, "error")

ViewTuiParts == SelectSeq(viewTui, LAMBDA e : e.kind # "notice")

(* Unless a notice cut a text or a turn broke off, the live entries of the TUI
   (state.ts applyMessage) are the entries it would rebuild from the journal
   when the session is opened again (historyEntries). *)
ViewTuiMirrors ==
    viewAt \in {"ready", "final"} /\ viewClean =>
        ViewTuiParts = ViewParts(viewItems, "error")

\* The views are sound: what the page and the terminal fold from the events of a
\* turn is what the journal holds (transcript.ts, state.ts, the two above).
ViewSound == ViewPageMirrors /\ ViewTuiMirrors
=============================================================================
