---------------------------- MODULE ModelStream ----------------------------
(***************************************************************************)
(* One streamed model call.  A reader thread opens the provider's stream   *)
(* and hands its chunks over a queue of one; the turn's thread polls the   *)
(* queue between two looks at the cancellation flag, feeds text to the     *)
(* frontends and puts the fragments of tool calls together.                *)
(*                                                                         *)
(* The provider is external.  It is honest: an index, id or name on a      *)
(* fragment is that of the call the fragment belongs to, the first         *)
(* fragment of a call has its name and an index or an id, and one with     *)
(* neither continues the latest call.  Whether a fragment carries an index,*)
(* an id or both is free.  Three protocols share the reader: OpenAI's chat *)
(* completions and LiteLLM stream the calls in fragments, OpenAI's         *)
(* responses end with one event that holds them.                           *)
(***************************************************************************)
EXTENDS Naturals, Sequences, SequencesExt, FiniteSets

CONSTANTS
    StrCalls,        \* tool calls of the response, in order: 1..StrCalls
    StrMaxChunks,    \* bound: chunks of the stream
    StrMaxFragments  \* bound: fragments of tool calls in them

ASSUME StrAssumption == {StrCalls, StrMaxChunks, StrMaxFragments} \subseteq Nat \ {0}

VARIABLES
    strSent,       \* what the provider has sent: the protocol, the number of
                   \* chunks, text, fragments, the calls of response.completed
                   \* by id (0: absent), and whether it is done
    strStream,     \* "none" (create_stream running), "open", "closed" by the
                   \* consumer, "ended" by the reader
    strReader,     \* "create", "read", "publish", "close", "end", "done"
    strHand,       \* <<what the reader is publishing>>, or <<>>
    strQueue,      \* Queue(maxsize=1)
    strStopped,    \* Event
    strCancel,     \* the turn was cancelled
    strConsumer,   \* "poll", "check", or how the call ended
    strItem,       \* <<the item the consumer took>>, or <<>>
    strText,       \* text passed to on_text_delta
    strStates,     \* the assembler's states, in order of appearance
    strFinished,   \* the finish reason seen: "none", "complete", "cut"
    strResult      \* the tool calls of the response

strVars == <<strSent, strStream, strReader, strHand, strQueue, strStopped,
             strCancel, strConsumer, strItem, strText, strStates, strFinished,
             strResult>>

StrReaderVars == <<strStream, strReader, strHand>>
StrTurnVars == <<strConsumer, strItem, strText, strStates, strFinished, strResult>>

\* The wire protocols: the two of OpenAIProvider, and LiteLLMProvider.
StrApis == {"chat", "responses", "litellm"}

(* A chunk: text, a batch of fragments, a finish reason that is fine ("finish")
   or not ("cut"), response.completed, response.failed; or what ends the stream
   for the consumer: an exception, _STREAM_END. *)
StrChunk(kind, parts) == [kind |-> kind, parts |-> parts]
StrText(n) == StrChunk("text", <<n>>)
StrError == StrChunk("error", <<>>)
StrEnd == StrChunk("end", <<>>)

(* The fragments an honest provider may send after those in sent; 0 stands for
   a field that is absent. *)
StrHonest(sent) ==
    LET begun == {sent[i].of : i \in DOMAIN sent}
        known == {c \in 1..StrCalls : c = 1 \/ c - 1 \in begun}
        fragment(c, marks) ==
            [of |-> c, arg |-> Len(sent) + 1,
             index |-> IF "index" \in marks THEN c ELSE 0,
             id |-> IF "id" \in marks THEN c ELSE 0,
             name |-> IF c \in begun THEN 0 ELSE c]
    IN  IF Len(sent) >= StrMaxFragments THEN {}
        ELSE {fragment(c, marks) : c \in known, marks \in {{"index"}, {"id"}, {"index", "id"}}}
             \cup IF sent = <<>> THEN {} ELSE {fragment(Last(sent).of, {})}

-----------------------------------------------------------------------------
(* tool_call_stream.py *)

StrNew == [index |-> 0, id |-> 0, name |-> 0, args |-> <<>>]

\* Mutant: a fragment without identity is taken for the first call.
StrResolveFirst(states, f) ==
    LET by(field) == {k \in DOMAIN states : f[field] # 0 /\ states[k][field] = f[field]}
    IN  IF by("index") # {} /\ by("id") # {} /\ by("index") # by("id") THEN 0
        ELSE IF by("index") # {} THEN CHOOSE k \in by("index") : TRUE
        ELSE IF by("id") # {} THEN CHOOSE k \in by("id") : TRUE
        ELSE IF f.index = 0 /\ f.id = 0
             THEN IF states # <<>> THEN 1 ELSE 0
        ELSE IF /\ Len(states) = 1
                /\ \/ f.index = 0 /\ states[1].id = 0
                   \/ f.id = 0 /\ states[1].index = 0
             THEN 0
        ELSE Len(states) + 1

(* _resolve: the state a fragment belongs to; 0 where it raises. *)
StrResolve(states, f) ==
    LET by(field) == {k \in DOMAIN states : f[field] # 0 /\ states[k][field] = f[field]}
    IN  IF by("index") # {} /\ by("id") # {} /\ by("index") # by("id") THEN 0
        ELSE IF by("index") # {} THEN CHOOSE k \in by("index") : TRUE
        ELSE IF by("id") # {} THEN CHOOSE k \in by("id") : TRUE
        ELSE IF f.index = 0 /\ f.id = 0
             THEN IF Len(states) = 1 THEN 1 ELSE 0
        ELSE IF /\ Len(states) = 1
                /\ \/ f.index = 0 /\ states[1].id = 0
                   \/ f.id = 0 /\ states[1].index = 0
             THEN 0
        ELSE Len(states) + 1

(* _bind_identity: a call keeps the index and the id it has; else it raises. *)
StrAgrees(old, f, field) == old[field] = 0 \/ f[field] = 0 \/ old[field] = f[field]

(* _add, and the name, which is bound in the same way; raising is <<>>. *)
StrAdd(states, f) ==
    LET k == StrResolve(states, f)
        old == IF k > Len(states) THEN StrNew ELSE states[k]
        bound(field) == IF f[field] = 0 THEN old[field] ELSE f[field]
        new == [index |-> bound("index"), id |-> bound("id"),
                name |-> bound("name"), args |-> Append(old.args, f.arg)]
    IN  IF k = 0 THEN <<>>
        ELSE IF \E field \in {"index", "id", "name"} : ~StrAgrees(old, f, field) THEN <<>>
        ELSE IF k > Len(states) THEN <<Append(states, new)>>
        ELSE <<[states EXCEPT ![k] = new]>>

(* add_batch *)
StrAddBatch(states, batch) ==
    IF Len(batch) > 1 /\ \E i \in DOMAIN batch : batch[i].index = 0 /\ batch[i].id = 0
    THEN <<>>
    ELSE LET after[i \in 0..Len(batch)] ==
                 IF i = 0 THEN <<states>>
                 ELSE IF after[i - 1] = <<>> THEN <<>>
                 ELSE StrAdd(after[i - 1][1], batch[i])
         IN  after[Len(batch)]

(* finish: <<the calls>>, or <<>> where it raises. *)
StrAssembled(states) ==
    LET indexed == {k \in DOMAIN states : states[k].index # 0}
        order == IF indexed = {} THEN states
                 ELSE SortSeq(states, LAMBDA a, b : a.index < b.index)
    IN  IF indexed \notin {{}, DOMAIN states} THEN <<>>
        ELSE IF \E k \in DOMAIN order : order[k].id = 0 \/ order[k].name = 0 THEN <<>>
        ELSE <<[k \in DOMAIN order |-> [id |-> order[k].id, args |-> order[k].args]]>>

-----------------------------------------------------------------------------
(* The reader thread. *)

StrCreate ==
    /\ strReader = "create"
    /\ \/ strReader' = "read" /\ strStream' = "open" /\ UNCHANGED strHand
       \/ strReader' = "publish" /\ strHand' = <<StrError>> /\ UNCHANGED strStream
    /\ UNCHANGED <<strSent, strQueue, strStopped, strCancel>> /\ UNCHANGED StrTurnVars

\* Calls of response.completed: an id may be absent, or be there twice.
StrOutputs == UNION {[1..n -> 0..StrCalls] : n \in 0..StrCalls}

StrNextChunks ==
    LET sent == strSent.fragments IN
    IF strSent.api = "responses"
    THEN {StrText(strSent.chunks), StrChunk("failed", <<>>)}
         \cup {StrChunk("completed", o) : o \in StrOutputs}
    ELSE {StrText(strSent.chunks), StrChunk("finish", <<>>), StrChunk("cut", <<>>)}
    \cup {StrChunk("calls", <<f>>) : f \in StrHonest(sent)}
    \cup UNION {{StrChunk("calls", <<f, g>>) : g \in StrHonest(Append(sent, f))} :
                  f \in StrHonest(sent)}

(* The provider sends the next chunk. *)
StrRead ==
    /\ strReader = "read" /\ strStream = "open"
    /\ strSent.chunks < StrMaxChunks /\ ~strSent.finish
    /\ \E chunk \in StrNextChunks :
          /\ strSent' =
                [strSent EXCEPT
                   !.chunks = @ + 1,
                   !.text = IF chunk.kind = "text" THEN @ \o chunk.parts ELSE @,
                   !.fragments = IF chunk.kind = "calls" THEN @ \o chunk.parts ELSE @,
                   !.output = IF chunk.kind = "completed" THEN chunk.parts ELSE @,
                   !.finish = chunk.kind \notin {"text", "calls"}]
          /\ strHand' = <<chunk>>
    /\ strReader' = "publish"
    /\ UNCHANGED <<strStream, strQueue, strStopped, strCancel>> /\ UNCHANGED StrTurnVars

(* The stream ends. *)
StrExhausted ==
    /\ strReader = "read" /\ strStream = "open"
    /\ strReader' = "close"
    /\ UNCHANGED <<strSent, strStream, strHand, strQueue, strStopped, strCancel>>
    /\ UNCHANGED StrTurnVars

(* The read raises: a broken connection, a timeout, a stream closed under it. *)
StrReadFails ==
    /\ strReader = "read"
    /\ strReader' = "publish"
    /\ strHand' = <<StrError>>
    /\ UNCHANGED <<strSent, strStream, strQueue, strStopped, strCancel>>
    /\ UNCHANGED StrTurnVars

(* publish returns True: the item is in the queue. *)
StrPublish ==
    /\ strReader \in {"publish", "end"} /\ ~strStopped
    /\ strQueue = <<>>
    /\ strQueue' = IF strReader = "end" THEN <<StrEnd>> ELSE strHand
    /\ strHand' = <<>>
    /\ strReader' = IF strReader = "end" THEN "done"
                    ELSE IF strHand # <<StrError>> THEN "read"
                    ELSE IF strStream = "ended" THEN "end" ELSE "close"
    /\ UNCHANGED <<strSent, strStream, strStopped, strCancel>> /\ UNCHANGED StrTurnVars

(* publish returns False. *)
StrPublishStopped ==
    /\ strReader \in {"publish", "end"} /\ strStopped
    /\ strHand' = <<>>
    /\ strReader' = IF strReader = "end" THEN "done"
                    ELSE IF strStream = "ended" THEN "end" ELSE "close"
    /\ UNCHANGED <<strSent, strStream, strQueue, strStopped, strCancel>>
    /\ UNCHANGED StrTurnVars

(* The finally clause: close what was opened; a close that raises is published. *)
StrClose ==
    /\ strReader = "close"
    /\ strStream' = "ended"
    /\ \/ strReader' = "end" /\ UNCHANGED strHand
       \/ strStream # "none" /\ strReader' = "publish" /\ strHand' = <<StrError>>
    /\ UNCHANGED <<strSent, strQueue, strStopped, strCancel>> /\ UNCHANGED StrTurnVars

-----------------------------------------------------------------------------
(* The turn's thread. *)

StrCancelTurn ==
    /\ ~strCancel /\ strConsumer \in {"poll", "check"}
    /\ strCancel' = TRUE
    /\ UNCHANGED <<strSent, strQueue, strStopped>>
    /\ UNCHANGED StrReaderVars /\ UNCHANGED StrTurnVars

\* Mutant: leaving the loop closes the stream and never tells the reader.
StrLeaveUntold(end) ==
    /\ strConsumer' = end
    /\ strStream' = IF strStream = "open" THEN "closed" ELSE strStream
    /\ strItem' = <<>>
    /\ UNCHANGED <<strSent, strReader, strHand, strCancel, strStopped>>

(* Leaving the loop sets the event and closes the stream. *)
StrLeave(end) ==
    /\ strConsumer' = end
    /\ strStopped' = TRUE
    /\ strStream' = IF strStream = "open" THEN "closed" ELSE strStream
    /\ strItem' = <<>>
    /\ UNCHANGED <<strSent, strReader, strHand, strCancel>>

StrPoll ==
    /\ strConsumer = "poll"
    /\ UNCHANGED <<strText, strStates, strFinished, strResult>>
    /\ \/ strCancel /\ StrLeave("cancelled") /\ UNCHANGED strQueue
       \/ /\ ~strCancel /\ strQueue # <<>>
          /\ strItem' = strQueue /\ strQueue' = <<>>
          /\ strConsumer' = "check"
          /\ UNCHANGED <<strSent, strStopped, strCancel>> /\ UNCHANGED StrReaderVars

(* What taking a chunk does to the call: it goes on ("poll"), returns or raises. *)
StrGoesOn == [text |-> strText, states |-> strStates, finished |-> strFinished,
              result |-> strResult, end |-> "poll"]
StrRaises == [StrGoesOn EXCEPT !.end = "raised"]
StrReturns(calls) ==
    IF calls = <<>> THEN StrRaises
    ELSE [StrGoesOn EXCEPT !.result = calls[1], !.end = "returned"]

(* OpenAIProvider._chat *)
StrChat(chunk) ==
    LET states == StrAddBatch(strStates, chunk.parts) IN
    CASE chunk.kind = "text" -> [StrGoesOn EXCEPT !.text = @ \o chunk.parts]
      [] chunk.kind = "finish" -> [StrGoesOn EXCEPT !.finished = "complete"]
      [] chunk.kind = "cut" -> StrRaises
      [] chunk.kind = "calls" ->
           IF states = <<>> THEN StrRaises ELSE [StrGoesOn EXCEPT !.states = states[1]]
      [] chunk.kind = "end" ->
           IF strFinished = "complete" THEN StrReturns(StrAssembled(strStates)) ELSE StrRaises

(* LiteLLMProvider._stream looks at the finish reason only after the last chunk. *)
StrLite(chunk) ==
    IF chunk.kind = "cut" THEN [StrGoesOn EXCEPT !.finished = "cut"] ELSE StrChat(chunk)

(* The calls of response.completed: <<the calls>>, or <<>> where it raises. *)
StrCompleted(output) ==
    IF 0 \in Range(output) \/ ~IsInjective(output) THEN <<>>
    ELSE <<[k \in DOMAIN output |-> [id |-> output[k], args |-> <<k>>]]>>

(* OpenAIProvider._responses leaves the loop at response.completed. *)
StrResponses(chunk) ==
    CASE chunk.kind = "text" -> [StrGoesOn EXCEPT !.text = @ \o chunk.parts]
      [] chunk.kind = "completed" -> StrReturns(StrCompleted(chunk.parts))
      [] OTHER -> StrRaises

StrOutcome(chunk) ==
    CASE chunk = StrError -> StrRaises
      [] strSent.api = "chat" -> StrChat(chunk)
      [] strSent.api = "litellm" -> StrLite(chunk)
      [] strSent.api = "responses" -> StrResponses(chunk)

(* The call looks at what it took: it was cancelled, or takes the chunk. *)
StrCheck ==
    /\ strConsumer = "check"
    /\ UNCHANGED strQueue
    /\ \/ /\ strCancel /\ StrLeave("cancelled")
          /\ UNCHANGED <<strText, strStates, strFinished, strResult>>
       \/ /\ ~strCancel
          /\ LET o == StrOutcome(strItem[1]) IN
             /\ strText' = o.text /\ strStates' = o.states
             /\ strFinished' = o.finished /\ strResult' = o.result
             /\ \/ o.end # "poll" /\ StrLeave(o.end)
                \/ /\ o.end = "poll" /\ strConsumer' = "poll" /\ strItem' = <<>>
                   /\ UNCHANGED <<strSent, strStopped, strCancel>> /\ UNCHANGED StrReaderVars

-----------------------------------------------------------------------------
StrInit ==
    /\ strSent \in [api : StrApis, chunks : {0}, text : {<<>>}, fragments : {<<>>},
                    output : {<<>>}, finish : {FALSE}]
    /\ strStream = "none" /\ strReader = "create"
    /\ strHand = <<>> /\ strQueue = <<>> /\ strStopped = FALSE /\ strCancel = FALSE
    /\ strConsumer = "poll" /\ strItem = <<>> /\ strText = <<>> /\ strStates = <<>>
    /\ strFinished = "none" /\ strResult = <<>>

StrNext ==
    \/ StrCreate \/ StrRead \/ StrExhausted \/ StrReadFails \/ StrPublish
    \/ StrPublishStopped \/ StrClose \/ StrCancelTurn \/ StrPoll \/ StrCheck

(* Both threads run; connecting ends, and a read ends once the stream is closed
   or the client's timeout passes.  Nothing is assumed of a provider that is
   still being read. *)
StrFairness ==
    /\ WF_strVars(StrCreate) /\ WF_strVars(strStopped /\ StrReadFails)
    /\ WF_strVars(StrPublish) /\ WF_strVars(StrPublishStopped) /\ WF_strVars(StrClose)
    /\ WF_strVars(StrPoll) /\ WF_strVars(StrCheck)

StrSpec == StrInit /\ [][StrNext]_strVars /\ StrFairness

-----------------------------------------------------------------------------
StrArgsOf(c) ==
    LET own == SelectSeq(strSent.fragments, LAMBDA f : f.of = c)
    IN  [i \in DOMAIN own |-> own[i].arg]

(* A response that is returned holds all of what the provider sent: every call,
   in the provider's order, with exactly its own arguments in the order they
   came, and all the text; whatever identity the fragments carried, never two
   calls with one id or a call without, and with a finish reason
   (ToolCallStreamAssembler, the provider loops). *)
StrWhole ==
    strConsumer = "returned" =>
        /\ strSent.finish
        /\ strText = strSent.text
        /\ IF strSent.api = "responses"
           THEN /\ strResult = [k \in DOMAIN strSent.output |->
                                  [id |-> strSent.output[k], args |-> <<k>>]]
                /\ Cardinality({r.id : r \in Range(strResult)} \ {0}) = Len(strSent.output)
           ELSE /\ {r.id : r \in Range(strResult)} = {f.of : f \in Range(strSent.fragments)}
                /\ \A k \in DOMAIN strResult :
                      strResult[k] = [id |-> k, args |-> StrArgsOf(k)]

(* A cancelled call is left although the provider neither answers nor closes,
   and its reader thread then ends with the stream closed (the finally clauses
   of _cancellable_chunks). *)
StrLeavesNothing ==
    strCancel ~> (strConsumer \notin {"poll", "check"} /\ strReader = "done"
                  /\ strStream = "ended")
=============================================================================
