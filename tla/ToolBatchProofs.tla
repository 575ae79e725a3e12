--------------------------- MODULE ToolBatchProofs ---------------------------
(***************************************************************************)
(* Proofs about ToolBatch for batches of every size, run in sequence or    *)
(* concurrently, and any number of journal errors.                         *)
(***************************************************************************)
EXTENDS ToolBatch, Integers, TLAPS

Late == {"media", "deliver", "hooks"}
After == Late \cup {"cleanup", "returned", "raised"}

BatchTypes ==
    /\ mode \in {"sequential", "concurrent"}
    /\ pc \in {"start", "call", "fail", "submit", "settle", "drain", "join"} \cup After
    /\ index \in 1..(N + 1)
    /\ work \in [Calls -> {"none", "running"} \cup Results \cup Raised]
    /\ fact \in [Calls -> {"none", "started"} \cup Finished]
    /\ facts \in [Calls -> Nat]
    /\ items \in Seq([kind : {"tool", "tool_media", "tool_delivery", "hook_feedback"},
                      call : Nat])
    /\ completed \in SUBSET Calls /\ cleaned \in SUBSET Calls
    /\ attached \in [Calls -> {"none", "tool_media", "tool_delivery"}]
    /\ futures \in SUBSET Calls /\ observed \in SUBSET Calls
    /\ error \in {"none"} \cup Raised
    /\ batchFaults \in Nat

\* Whether there is an error on its way, by where execute is.
ErrorPlace ==
    /\ pc \in {"start", "call", "submit", "returned"} \cup Late => error = "none"
    /\ pc \in {"fail", "drain", "join", "raised"} => error # "none"

\* A loop that is at call `index' has finished the calls before it.
SequentialPlace ==
    /\ pc \notin {"submit", "settle", "drain", "join"}
    /\ \A c \in Calls : work[c] # "running"
    /\ pc \in {"start", "call", "fail"} =>
         \A c \in Calls : /\ c < index => fact[c] \in Finished
                          /\ c > index => fact[c] = "none"
                          /\ c = index /\ pc = "start" => fact[c] = "none"
                          /\ c = index /\ pc = "call" => fact[c] = "started"
                          /\ c = index /\ pc = "fail" => fact[c] \in {"none", "started"}
    /\ pc \in {"call", "fail"} => index <= N

\* A call is open from its start until its future has been observed.
ConcurrentPlace ==
    /\ pc \notin {"call", "fail"}
    /\ observed \subseteq futures
    /\ \A c \in Calls :
         /\ c \in futures <=> c < index
         /\ c \in futures <=> work[c] # "none"
         /\ c \in futures \ observed => fact[c] = "started"
         /\ c \in observed => work[c] # "running"
         /\ c \in observed /\ batchFaults = 0 => fact[c] \in Finished
         /\ pc = "start" /\ c >= index => fact[c] = "none"
         /\ pc = "submit" /\ c > index => fact[c] = "none"
         /\ pc = "submit" /\ c = index => fact[c] = "started"
         /\ pc \in {"settle", "drain"} /\ c \notin futures => fact[c] # "started"
    /\ pc \in {"start", "submit"} => observed = {}
    /\ pc = "submit" => index <= N
    /\ pc = "settle" /\ error = "none" => index = N + 1

PlaceInv ==
    /\ \A c \in Calls : facts[c] = IF fact[c] \in Finished THEN 1 ELSE 0
    /\ ErrorPlace
    /\ mode = "sequential" => SequentialPlace
    /\ mode = "concurrent" => ConcurrentPlace
    /\ pc \in After \cup {"join"} /\ ~abandoned /\ batchFaults = 0 =>
         \A c \in Calls : fact[c] # "started"
    /\ pc \in After => \A c \in Calls : work[c] # "running"
    /\ Over => cleaned = completed

\* Exactly the calls that are done have a message, as long as nothing raised.
ItemsInv ==
    /\ \A c \in Calls : HasMessage(c) => fact[c] \in {"completed", "failed"}
    /\ \A x, y \in DOMAIN items :
         /\ items[x].kind = "tool" /\ items[x] = items[y] => x = y
         /\ x < y /\ items[y].kind = "tool" => items[x].kind = "tool"
    /\ pc \notin After => \A x \in DOMAIN items : items[x].kind = "tool"
    /\ error = "none" /\ mode = "sequential" =>
         \A c \in Calls : c < index => HasMessage(c)
    /\ error = "none" /\ mode = "concurrent" =>
         \A c \in observed : HasMessage(c)
    /\ error = "none" /\ pc \in After => \A c \in Calls : HasMessage(c)

BatchInv == BatchTypes /\ PlaceInv /\ ItemsInv

-----------------------------------------------------------------------------
(* Types.                                                                  *)

\* _failure_status is a terminal status, and never that of a success.
LEMMA FailureIsFinished ==
    \A e : FailureStatus(e) \in {"cancelled", "unknown", "failed"}
  BY DEF FailureStatus

\* Where execute writes about call `index', there is such a call.
LEMMA IndexIsCall ==
    ASSUME BatchTypes, PlaceInv
    PROVE  /\ pc \in {"call", "fail", "submit"} => index \in Calls
           /\ pc = "start" /\ index <= N => index \in Calls
  BY NAssumption DEF BatchTypes, PlaceInv, SequentialPlace, ConcurrentPlace, Calls

\* A message, and the session it is added to.
LEMMA MessageTypes ==
    ASSUME BatchTypes, NEW k \in {"tool", "tool_media", "tool_delivery", "hook_feedback"},
           NEW c \in Nat
    PROVE  Append(items, Message(k, c)) \in
              Seq([kind : {"tool", "tool_media", "tool_delivery", "hook_feedback"},
                   call : Nat])
  BY DEF BatchTypes, Message

\* Session.tool_started and tool_finished.
LEMMA JournalTypes ==
    ASSUME BatchTypes, NEW c \in Calls, NEW s \in {"started"} \cup Finished, Journal(c, s)
    PROVE  /\ fact' \in [Calls -> {"none", "started"} \cup Finished]
           /\ facts' \in [Calls -> Nat]
           /\ batchFaults' \in Nat
  BY DEF BatchTypes, Journal, Finished

\* A terminal fact and the message after it, as _finish_call and
\* _commit_normalized_result leave them.
LEMMA CommitTypes ==
    ASSUME BatchTypes, NEW c \in Calls, NEW r \in Results, FinishAndCommit(c, r)
    PROVE  /\ fact' \in [Calls -> {"none", "started"} \cup Finished]
           /\ facts' \in [Calls -> Nat]
           /\ items' \in Seq([kind : {"tool", "tool_media", "tool_delivery",
                                      "hook_feedback"}, call : Nat])
           /\ error' \in {"none"} \cup Raised
           /\ batchFaults' \in Nat
<1>1. (IF r = "error" THEN "failed" ELSE "completed") \in {"started"} \cup Finished
  BY DEF Finished
<1>2. c \in Nat
  BY NAssumption DEF Calls
<1>3. items' \in {items, Append(items, Message("tool", c))}
  BY DEF FinishAndCommit
<1>4. error' \in {"none"} \cup Raised
  BY DEF FinishAndCommit, BatchTypes, Breaks, Raised, First
<1>5. Journal(c, IF r = "error" THEN "failed" ELSE "completed")
  BY DEF FinishAndCommit
<1>6. items' \in Seq([kind : {"tool", "tool_media", "tool_delivery", "hook_feedback"},
                      call : Nat])
  BY <1>2, <1>3, MessageTypes, Zenon DEF BatchTypes
<1>. QED
  BY <1>1, <1>4, <1>5, <1>6, JournalTypes

\* Every step keeps every variable in its type.
LEMMA BatchTypeStep == BatchTypes /\ PlaceInv /\ [BatchNext]_batchVars => BatchTypes'
<1> SUFFICES ASSUME BatchTypes, PlaceInv, [BatchNext]_batchVars PROVE BatchTypes'
  OBVIOUS
<1> USE NAssumption, MaxBatchFaultsAssumption, FailureIsFinished
<1>1. CASE Cancel
  BY <1>1 DEF Cancel, BatchTypes
<1>2. CASE StartNext
  BY <1>2 DEF StartNext, SequentialFrame, Journal, JournalRaises, BatchTypes, Breaks,
              Raised, Finished, Calls
<1>3. CASE EndLoop \/ AllSettled \/ Join \/ Started
  BY <1>3 DEF EndLoop, AllSettled, Join, Started, SequentialFrame, ConcurrentFrame,
              BatchTypes, After, Late
<1>4. CASE ExecuteRaises
  <2>1. PICK o \in (ToolOutcomes \cup Breaks) \ Results :
          work' = [work EXCEPT ![index] = o] /\ error' = o
    BY <1>4, Zenon DEF ExecuteRaises
  <2>2. o \in Raised
    BY <2>1 DEF ToolOutcomes, Breaks, Raised, Results
  <2>3. pc' = "fail"
        /\ UNCHANGED <<mode, index, fact, facts, items, completed, attached, batchFaults>>
        /\ UNCHANGED <<futures, observed, cleaned>>
    BY <1>4 DEF ExecuteRaises, SequentialFrame
  <2>. QED
    BY <2>1, <2>2, <2>3, Zenon DEF BatchTypes
<1>5. CASE ExecuteReturns
  <2>1. index \in Calls /\ index \in Nat
    BY <1>5, IndexIsCall DEF ExecuteReturns, Calls
  <2>2. PICK r \in Results :
          /\ work' = [work EXCEPT ![index] = r]
          /\ Attaches(index, r)
          /\ \/ /\ FinishAndCommit(index, r)
                /\ pc' = IF error' = "none" THEN "start" ELSE "cleanup"
                /\ index' = IF error' = "none" THEN index + 1 ELSE index
             \/ /\ JournalRaises
                /\ pc' = "fail" /\ error' = "broken"
                /\ UNCHANGED <<index, items>>
    BY <1>5, Zenon DEF ExecuteReturns
  <2>3. /\ completed' = completed \cup {index}
        /\ UNCHANGED <<mode, futures, observed, cancelled, abandoned, cleaned>>
    BY <1>5 DEF ExecuteReturns, SequentialFrame
  <2>4. attached' \in [Calls -> {"none", "tool_media", "tool_delivery"}]
    BY <2>1, <2>2 DEF Attaches, BatchTypes
  <2>5. /\ fact' \in [Calls -> {"none", "started"} \cup Finished]
        /\ facts' \in [Calls -> Nat]
        /\ items' \in Seq([kind : {"tool", "tool_media", "tool_delivery",
                                   "hook_feedback"}, call : Nat])
        /\ error' \in {"none"} \cup Raised
        /\ batchFaults' \in Nat
    BY <2>1, <2>2, CommitTypes DEF JournalRaises, BatchTypes, Raised
  <2>6. /\ pc' \in {"start", "fail"} \cup After
        /\ index' \in 1..(N + 1)
        /\ work' \in [Calls -> {"none", "running"} \cup Results \cup Raised]
    BY <2>1, <2>2 DEF After, Calls, BatchTypes
  <2>. QED
    BY <2>1, <2>3, <2>4, <2>5, <2>6, Zenon DEF BatchTypes
<1>6. CASE FailActive
  <2>1. index \in Calls
    BY <1>6, IndexIsCall DEF FailActive
  <2>2. FailureStatus(error) \in {"started"} \cup Finished
    BY DEF Finished
  <2>3. /\ fact' \in [Calls -> {"none", "started"} \cup Finished]
        /\ facts' \in [Calls -> Nat]
        /\ batchFaults' \in Nat
    <3>1. CASE Journal(index, FailureStatus(error))
      BY <2>1, <2>2, <3>1, JournalTypes
    <3>2. CASE JournalRaises
      BY <3>2 DEF JournalRaises, BatchTypes
    <3>. QED
      BY <1>6, <3>1, <3>2 DEF FailActive
  <2>. QED
    BY <1>6, <2>3 DEF FailActive, SequentialFrame, BatchTypes, After, Raised
<1>7. CASE StartCall
  BY <1>7 DEF StartCall, Journal, ConcurrentFrame, BatchTypes, Finished, Calls
<1>8. CASE SubmitCall
  <2>1. index \in Calls /\ index \in Nat /\ index + 1 \in 1..(N + 1)
    BY <1>8, IndexIsCall DEF SubmitCall, Calls
  <2>2. /\ pc' = "start" /\ index' = index + 1
        /\ work' = [work EXCEPT ![index] = "running"]
        /\ futures' = futures \cup {index}
        /\ UNCHANGED <<mode, fact, facts, items, completed, cleaned, attached, observed,
                       error, batchFaults>>
    BY <1>8 DEF SubmitCall, ConcurrentFrame
  <2>. QED
    BY <2>1, <2>2 DEF BatchTypes
<1>9. CASE SubmitFails
  BY <1>9, IndexIsCall DEF SubmitFails, Journal, ConcurrentFrame, BatchTypes, Finished,
                           Breaks, Raised
<1>10. CASE Abandon
  BY <1>10 DEF Abandon, JournalRaises, ConcurrentFrame, BatchTypes, Raised
<1>11. ASSUME NEW c \in Calls, WorkerEnds(c)
       PROVE  BatchTypes'
  BY <1>11 DEF WorkerEnds, Attaches, ToolOutcomes, ConcurrentFrame, BatchTypes, Results,
               Raised
<1>12. ASSUME NEW c \in Calls, Settle(c)
       PROVE  BatchTypes'
  <2>1. /\ observed' = observed \cup {c}
        /\ completed' \in {completed, completed \cup {c}}
        /\ pc' \in {pc, "drain", "join"}
        /\ UNCHANGED <<index, work, attached, futures, abandoned, mode, cancelled, cleaned>>
    BY <1>12 DEF Settle, ConcurrentFrame
  <2>2. FailureStatus(work[c]) \in {"started"} \cup Finished
    BY DEF Finished
  <2>3. CASE work[c] \in Results /\ FinishAndCommit(c, work[c])
    BY <2>1, <2>3, CommitTypes DEF BatchTypes
  <2>4. CASE JournalRaises /\ error' \in {error, "broken"} /\ UNCHANGED items
    BY <2>1, <2>4 DEF JournalRaises, BatchTypes, Raised
  <2>5. CASE /\ work[c] \in Raised /\ Journal(c, FailureStatus(work[c]))
             /\ error' = First(work[c]) /\ UNCHANGED items
    BY <2>1, <2>2, <2>5, JournalTypes, Zenon DEF First, BatchTypes
  <2>. QED
    BY <1>12, <2>3, <2>4, <2>5 DEF Settle, First
<1>13. CASE Interrupted
  BY <1>13 DEF Interrupted, First, ConcurrentFrame, BatchTypes, Raised
<1>14. ASSUME NEW o \in {"tool_media", "tool_delivery"}, NEW next \in Late,
              CommitMedia(o, next)
       PROVE  BatchTypes'
  <2>1. items' \in {items, Append(items, Message(o, 0))}
    BY <1>14 DEF CommitMedia
  <2>2. items' \in Seq([kind : {"tool", "tool_media", "tool_delivery", "hook_feedback"},
                        call : Nat])
    BY <2>1, MessageTypes, Zenon DEF BatchTypes
  <2>. QED
    BY <1>14, <2>2 DEF CommitMedia, EndFrame, BatchTypes, Breaks, Raised, After
<1>15. CASE PostHooks
  <2>1. items' \in {items, Append(items, Message("hook_feedback", 0))}
    BY <1>15 DEF PostHooks
  <2>2. items' \in Seq([kind : {"tool", "tool_media", "tool_delivery", "hook_feedback"},
                        call : Nat])
    BY <2>1, MessageTypes, Zenon DEF BatchTypes
  <2>. QED
    BY <1>15, <2>2 DEF PostHooks, EndFrame, BatchTypes, Breaks, Raised, After
<1>16. CASE CleanUp
  BY <1>16 DEF CleanUp, EndFrame, BatchTypes, After
<1>17. CASE UNCHANGED batchVars
  BY <1>17 DEF batchVars, BatchTypes
<1>18. CASE CommitObservations \/ CommitDeliveries
  BY <1>14, <1>18 DEF CommitObservations, CommitDeliveries, Late
<1>. QED
  BY <1>1, <1>2, <1>3, <1>4, <1>5, <1>6, <1>7, <1>8, <1>9, <1>10, <1>11, <1>12, <1>13,
     <1>15, <1>16, <1>17, <1>18, Zenon DEF BatchNext
-----------------------------------------------------------------------------
(* Where execute is.                                                       *)

FactsCount == \A c \in Calls : facts[c] = IF fact[c] \in Finished THEN 1 ELSE 0

\* A call without a terminal fact gets the fact it is given, and no other does.
LEMMA JournalStep ==
    ASSUME BatchTypes, FactsCount, NEW c \in Calls, NEW s \in {"started"} \cup Finished,
           fact[c] \notin Finished, Journal(c, s)
    PROVE  /\ fact'[c] = s
           /\ \A d \in Calls : d # c => fact'[d] = fact[d]
           /\ FactsCount'
           /\ batchFaults' = batchFaults
  BY DEF BatchTypes, FactsCount, Journal, Finished

\* A fact that is refused changes nothing but the count of errors.
LEMMA RaisesStep ==
    ASSUME BatchTypes, JournalRaises
    PROVE  fact' = fact /\ facts' = facts /\ batchFaults' > 0
  BY DEF BatchTypes, JournalRaises

\* A result's fact is terminal.
LEMMA CommitStep ==
    ASSUME BatchTypes, FactsCount, NEW c \in Calls, NEW r \in Results,
           fact[c] \notin Finished, FinishAndCommit(c, r)
    PROVE  /\ fact'[c] \in {"completed", "failed"} /\ fact'[c] \in Finished
           /\ \A d \in Calls : d # c => fact'[d] = fact[d]
           /\ FactsCount'
           /\ batchFaults' = batchFaults
           /\ error # "none" => error' = error
           /\ items' \in {items, Append(items, Message("tool", c))}
           /\ error' = "none" => items' = Append(items, Message("tool", c))
<1>1. (IF r = "error" THEN "failed" ELSE "completed") \in {"completed", "failed"}
  OBVIOUS
<1>2. Journal(c, IF r = "error" THEN "failed" ELSE "completed")
  BY DEF FinishAndCommit
<1>3. /\ error # "none" => error' = error
      /\ items' \in {items, Append(items, Message("tool", c))}
      /\ error' = "none" => items' = Append(items, Message("tool", c))
  BY DEF FinishAndCommit, First, Breaks
<1>. QED
  BY <1>1, <1>2, <1>3, JournalStep DEF Finished

\* The steps of _execute_sequentially keep its place.
LEMMA SequentialStep ==
    ASSUME BatchTypes, BatchTypes', PlaceInv,
           StartNext \/ EndLoop \/ ExecuteRaises \/ ExecuteReturns \/ FailActive
    PROVE  PlaceInv'
<1> USE NAssumption DEF FactsCount
<1>0. /\ mode = "sequential" /\ mode' = mode /\ SequentialPlace /\ ErrorPlace /\ FactsCount
      /\ abandoned' = abandoned /\ error \in {"none"} \cup Raised
  BY DEF StartNext, EndLoop, ExecuteRaises, ExecuteReturns, FailActive, SequentialFrame,
         PlaceInv, BatchTypes
<1>1. CASE StartNext
  <2>1. index \in Calls /\ fact[index] = "none" /\ pc = "start" /\ UNCHANGED <<index, work>>
    BY <1>0, <1>1, IndexIsCall DEF StartNext, SequentialPlace
  <2>2. \/ Journal(index, "started") /\ pc' = "call" /\ error' = error
        \/ Journal(index, "started") /\ pc' = "fail" /\ error' \in Breaks
        \/ JournalRaises /\ pc' = "fail" /\ error' = "broken"
    BY <1>1 DEF StartNext
  <2>3. /\ FactsCount'
        /\ \A d \in Calls : d # index => fact'[d] = fact[d]
        /\ pc' = "call" => fact'[index] = "started"
        /\ fact'[index] \in {"none", "started"}
    BY <1>0, <2>1, <2>2, JournalStep, RaisesStep DEF Finished
  <2>. QED
    BY <1>0, <2>1, <2>2, <2>3
       DEF PlaceInv, ErrorPlace, SequentialPlace, BatchTypes, Calls, Breaks, After, Late, Over
<1>2. CASE EndLoop
  BY <1>0, <1>2 DEF EndLoop, SequentialFrame, PlaceInv, ErrorPlace, SequentialPlace,
                    BatchTypes, Calls, After, Late, Over, Finished
<1>3. CASE ExecuteRaises
  BY <1>0, <1>3 DEF ExecuteRaises, SequentialFrame, PlaceInv, ErrorPlace, SequentialPlace,
                    BatchTypes, Calls, After, Late, Over, ToolOutcomes, Breaks, Results
<1>4. CASE ExecuteReturns
  <2>1. index \in Calls /\ fact[index] = "started" /\ pc = "call"
    BY <1>0, <1>4, IndexIsCall DEF ExecuteReturns, SequentialPlace
  <2>2. PICK r \in Results :
          /\ work' = [work EXCEPT ![index] = r]
          /\ \/ /\ FinishAndCommit(index, r)
                /\ pc' = IF error' = "none" THEN "start" ELSE "cleanup"
                /\ index' = IF error' = "none" THEN index + 1 ELSE index
             \/ /\ JournalRaises
                /\ pc' = "fail" /\ error' = "broken"
                /\ UNCHANGED <<index, items>>
    BY <1>4, Zenon DEF ExecuteReturns
  <2>3. \A c \in Calls : work'[c] # "running"
    BY <1>0, <2>2 DEF SequentialPlace, BatchTypes, Results
  <2>4. CASE FinishAndCommit(index, r) /\ pc' # "fail"
    <3>1. /\ fact'[index] \in Finished /\ FactsCount'
          /\ \A d \in Calls : d # index => fact'[d] = fact[d]
      BY <1>0, <2>1, <2>4, CommitStep DEF Finished
    <3>2. ErrorPlace' /\ pc' \in {"start", "cleanup"}
      BY <1>0, <2>1, <2>2, <2>4 DEF ErrorPlace, Late
    <3>3. CASE pc' = "start"
      <4>1. index' = index + 1 /\ index \in 1..N /\ Calls \subseteq Int
        BY <2>1, <2>2, <2>4, <3>3 DEF Calls
      <4>2. SequentialPlace'
        BY <1>0, <2>1, <2>3, <3>1, <3>3, <4>1 DEF SequentialPlace
      <4>. QED
        BY <1>0, <3>1, <3>2, <3>3, <4>2 DEF PlaceInv, After, Late, Over
    <3>4. CASE pc' = "cleanup"
      <4>1. \A c \in Calls : fact'[c] # "started"
        <5>1. \A c \in Calls : c = index \/ c < index \/ c > index
          BY <2>1 DEF Calls
        <5>. QED
          BY <1>0, <2>1, <3>1, <5>1 DEF SequentialPlace, Finished
      <4>2. SequentialPlace'
        BY <2>3, <3>4 DEF SequentialPlace
      <4>. QED
        BY <1>0, <2>3, <3>1, <3>2, <3>4, <4>1, <4>2 DEF PlaceInv, After, Late, Over
    <3>. QED
      BY <3>2, <3>3, <3>4
  <2>5. CASE JournalRaises /\ pc' = "fail"
    <3>1. fact' = fact /\ facts' = facts /\ index' = index /\ error' = "broken"
      BY <2>2, <2>5, RaisesStep
    <3>2. SequentialPlace' /\ ErrorPlace'
      BY <1>0, <2>1, <2>3, <2>5, <3>1 DEF SequentialPlace, ErrorPlace, Late
    <3>. QED
      BY <1>0, <2>5, <3>1, <3>2 DEF PlaceInv, After, Late, Over
  <2>. QED
    BY <2>2, <2>4, <2>5
<1>5. CASE FailActive
  <2>1. index \in Calls /\ fact[index] \in {"none", "started"} /\ pc = "fail"
        /\ pc' = "cleanup" /\ UNCHANGED <<index, work>>
    BY <1>0, <1>5, IndexIsCall DEF FailActive, SequentialPlace
  <2>2. FailureStatus(error) \in Finished
    BY FailureIsFinished DEF Finished
  <2>3. /\ FactsCount'
        /\ \A d \in Calls : d # index => fact'[d] = fact[d]
        /\ batchFaults' = 0 => fact'[index] \in Finished
    <3>1. CASE Journal(index, FailureStatus(error))
      BY <1>0, <2>1, <2>2, <3>1, JournalStep DEF Finished
    <3>2. CASE JournalRaises
      BY <1>0, <3>2, RaisesStep
    <3>. QED
      BY <1>5, <3>1, <3>2 DEF FailActive
  <2>4. batchFaults' = 0 => \A c \in Calls : fact'[c] # "started"
    <3>1. \A c \in Calls : c = index \/ c < index \/ c > index
      BY <2>1 DEF Calls
    <3>. QED
      BY <1>0, <2>1, <2>3, <3>1 DEF SequentialPlace, Finished
  <2>5. SequentialPlace' /\ ErrorPlace'
    BY <1>0, <2>1 DEF SequentialPlace, ErrorPlace, Late
  <2>. QED
    BY <1>0, <2>1, <2>3, <2>4, <2>5 DEF PlaceInv, SequentialPlace, After, Late, Over
<1>. QED
  BY <1>1, <1>2, <1>3, <1>4, <1>5

\* The start loop of _execute_concurrently keeps its place.
LEMMA ConcurrentStartStep ==
    ASSUME BatchTypes, BatchTypes', PlaceInv,
           StartCall \/ SubmitCall \/ SubmitFails \/ Abandon \/ Started
    PROVE  PlaceInv'
<1> USE NAssumption DEF FactsCount
<1>0. /\ mode = "concurrent" /\ mode' = mode /\ ConcurrentPlace /\ ErrorPlace /\ FactsCount
      /\ pc \in {"start", "submit"} /\ Calls \subseteq Int /\ index \in Int
  BY DEF StartCall, SubmitCall, SubmitFails, Abandon, Started, ConcurrentFrame, PlaceInv,
         BatchTypes, Calls
<1>1. CASE StartCall
  <2>1. /\ index \in Calls /\ fact[index] = "none" /\ pc = "start" /\ pc' = "submit"
        /\ Journal(index, "started")
        /\ UNCHANGED <<index, work, futures, observed, error, abandoned>>
    BY <1>0, <1>1, IndexIsCall DEF StartCall, ConcurrentPlace, Calls
  <2>2. /\ FactsCount' /\ fact'[index] = "started" /\ batchFaults' = batchFaults
        /\ \A d \in Calls : d # index => fact'[d] = fact[d]
    BY <1>0, <2>1, JournalStep DEF Finished
  <2>3. ConcurrentPlace'
    BY <1>0, <2>1, <2>2 DEF ConcurrentPlace, Calls, Finished
  <2>. QED
    BY <1>0, <2>1, <2>2, <2>3 DEF PlaceInv, ErrorPlace, After, Late, Over
<1>2. CASE SubmitCall
  <2>1. /\ index \in Calls /\ fact[index] = "started" /\ pc = "submit" /\ pc' = "start"
        /\ work' = [work EXCEPT ![index] = "running"]
        /\ futures' = futures \cup {index} /\ index' = index + 1
        /\ UNCHANGED <<fact, facts, observed, error, abandoned, batchFaults>>
    BY <1>0, <1>2, IndexIsCall DEF SubmitCall, ConcurrentPlace
  <2>2. ConcurrentPlace'
    BY <1>0, <2>1 DEF ConcurrentPlace, BatchTypes, Calls
  <2>. QED
    BY <1>0, <2>1, <2>2 DEF PlaceInv, ErrorPlace, After, Late, Over
<1>3. CASE SubmitFails
  <2>1. PICK e \in Breaks : Journal(index, FailureStatus(e)) /\ error' = e
    BY <1>3 DEF SubmitFails
  <2>2. /\ index \in Calls /\ fact[index] = "started" /\ pc = "submit" /\ pc' = "settle"
        /\ UNCHANGED <<index, work, futures, observed, abandoned>>
    BY <1>0, <1>3, IndexIsCall DEF SubmitFails, ConcurrentPlace
  <2>3. FailureStatus(e) \in Finished
    BY FailureIsFinished DEF Finished
  <2>4. /\ FactsCount' /\ fact'[index] \in Finished /\ batchFaults' = batchFaults
        /\ \A d \in Calls : d # index => fact'[d] = fact[d]
    BY <1>0, <2>1, <2>2, <2>3, JournalStep DEF Finished
  <2>5. ConcurrentPlace'
    BY <1>0, <2>1, <2>2, <2>4 DEF ConcurrentPlace, Finished, Breaks
  <2>. QED
    BY <1>0, <2>1, <2>2, <2>4, <2>5 DEF PlaceInv, ErrorPlace, After, Late, Over, Breaks
<1>4. CASE Abandon
  <2>1. /\ pc' = "join" /\ abandoned' = TRUE /\ error' # "none"
        /\ UNCHANGED <<index, work, fact, facts, futures, observed>>
        /\ batchFaults' = batchFaults \/ batchFaults' > 0
    BY <1>4, RaisesStep DEF Abandon
  <2>2. ConcurrentPlace'
    BY <1>0, <2>1 DEF ConcurrentPlace
  <2>. QED
    BY <1>0, <2>1, <2>2 DEF PlaceInv, ErrorPlace, After, Late, Over
<1>5. CASE Started
  <2>1. /\ pc = "start" /\ index > N /\ pc' = "settle"
        /\ UNCHANGED <<index, work, fact, facts, futures, observed, error, abandoned,
                       batchFaults>>
    BY <1>5 DEF Started
  <2>2. ConcurrentPlace'
    BY <1>0, <2>1 DEF ConcurrentPlace, BatchTypes, Calls
  <2>. QED
    BY <1>0, <2>1, <2>2 DEF PlaceInv, ErrorPlace, After, Late, Over
<1>. QED
  BY <1>1, <1>2, <1>3, <1>4, <1>5

\* So do its workers, the settling of their futures and the join.
LEMMA ConcurrentSettleStep ==
    ASSUME BatchTypes, BatchTypes', PlaceInv,
           (\E c \in Calls : WorkerEnds(c) \/ Settle(c)) \/ Interrupted \/ AllSettled \/ Join
    PROVE  PlaceInv'
<1> USE NAssumption DEF FactsCount
<1>0. /\ mode = "concurrent" /\ mode' = mode /\ ConcurrentPlace /\ ErrorPlace /\ FactsCount
      /\ abandoned' = abandoned /\ cleaned' = cleaned
  BY Zenon DEF WorkerEnds, Settle, Interrupted, AllSettled, Join, ConcurrentFrame, PlaceInv
<1>1. ASSUME NEW c \in Calls, WorkerEnds(c)
      PROVE  PlaceInv'
  <2>1. PICK o \in ToolOutcomes : work' = [work EXCEPT ![c] = o]
    BY <1>1, Zenon DEF WorkerEnds
  <2>2. /\ work[c] = "running" /\ o \notin {"none", "running"}
        /\ UNCHANGED <<pc, index, fact, facts, completed, futures, observed, error, batchFaults>>
    BY <1>1 DEF WorkerEnds, ToolOutcomes, Results
  <2>3. ConcurrentPlace'
    BY <1>0, <2>1, <2>2 DEF ConcurrentPlace, BatchTypes
  <2>. QED
    BY <1>0, <2>1, <2>2, <2>3 DEF PlaceInv, ErrorPlace, BatchTypes, Over
<1>2. ASSUME NEW c \in Calls, Settle(c)
      PROVE  PlaceInv'
  <2>1. /\ pc \in {"settle", "drain"} /\ c \in futures \ observed /\ fact[c] = "started"
        /\ work[c] # "running" /\ observed' = observed \cup {c}
        /\ UNCHANGED <<index, work, futures>>
    BY <1>0, <1>2 DEF Settle, ConcurrentPlace
  <2>2. CASE /\ batchFaults' = batchFaults /\ pc' = pc /\ FactsCount'
             /\ fact'[c] \in Finished
             /\ \A d \in Calls : d # c => fact'[d] = fact[d]
             /\ error # "none" => error' = error
    <3>1. ConcurrentPlace'
      BY <1>0, <2>1, <2>2 DEF ConcurrentPlace, Finished
    <3>. QED
      BY <1>0, <2>1, <2>2, <3>1, Zenon DEF PlaceInv, ErrorPlace, After, Late, Over
  <2>3. CASE JournalRaises /\ error' # "none" /\ pc' \in {"settle", "drain", "join"}
    <3>1. fact' = fact /\ facts' = facts /\ batchFaults' > 0
      BY <2>3, RaisesStep
    <3>2. ConcurrentPlace'
      BY <1>0, <2>1, <2>3, <3>1 DEF ConcurrentPlace, BatchTypes
    <3>. QED
      BY <1>0, <2>1, <2>3, <3>1, <3>2 DEF PlaceInv, ErrorPlace, After, Late, Over, BatchTypes
  <2>4. CASE work[c] \in Raised /\ Journal(c, FailureStatus(work[c]))
             /\ error' = First(work[c]) /\ pc' = pc
    <3>1. FailureStatus(work[c]) \in Finished
      BY FailureIsFinished DEF Finished
    <3>2. error # "none" => error' = error
      BY <2>4 DEF First
    <3>. QED
      BY <1>0, <2>1, <2>2, <2>4, <3>1, <3>2, JournalStep DEF Finished
  <2>5. CASE work[c] \in Results /\ FinishAndCommit(c, work[c]) /\ pc' = pc
    BY <1>0, <2>1, <2>2, <2>5, CommitStep DEF Finished
  <2>6. First("broken") # "none"
    BY DEF First
  <2>. QED
    BY <1>2, <2>1, <2>3, <2>4, <2>5, <2>6, Zenon DEF Settle
<1>3. CASE Interrupted
  <2>1. /\ pc = "settle" /\ pc' = "drain" /\ error' # "none"
        /\ UNCHANGED <<index, work, fact, facts, futures, observed, batchFaults>>
    BY <1>3 DEF Interrupted, First
  <2>2. ConcurrentPlace'
    BY <1>0, <2>1 DEF ConcurrentPlace
  <2>. QED
    BY <1>0, <2>1, <2>2 DEF PlaceInv, ErrorPlace, After, Late, Over
<1>4. CASE AllSettled
  <2>1. /\ pc \in {"settle", "drain"} /\ observed = futures
        /\ pc' = IF error = "none" THEN "media" ELSE "join"
        /\ UNCHANGED <<index, work, fact, facts, futures, observed, error, batchFaults>>
    BY <1>4 DEF AllSettled
  <2>2. \A c \in Calls : work[c] # "running"
    BY <1>0, <2>1 DEF ConcurrentPlace
  <2>3. batchFaults = 0 => \A c \in Calls : fact[c] # "started"
    BY <1>0, <2>1 DEF ConcurrentPlace, Finished
  <2>4. ConcurrentPlace'
    BY <1>0, <2>1 DEF ConcurrentPlace
  <2>. QED
    BY <1>0, <2>1, <2>2, <2>3, <2>4, Zenon DEF PlaceInv, ErrorPlace, After, Late, Over
<1>5. CASE Join
  <2>1. /\ pc = "join" /\ pc' = "cleanup" /\ \A c \in Calls : work[c] # "running"
        /\ UNCHANGED <<index, work, fact, facts, futures, observed, error, batchFaults>>
    BY <1>5 DEF Join
  <2>2. ConcurrentPlace'
    BY <1>0, <2>1 DEF ConcurrentPlace
  <2>. QED
    BY <1>0, <2>1, <2>2 DEF PlaceInv, ErrorPlace, After, Late, Over
<1>. QED
  BY <1>1, <1>2, <1>3, <1>4, <1>5

\* So does the rest of execute, in either mode.
LEMMA TailStep ==
    ASSUME BatchTypes, BatchTypes', PlaceInv,
           \/ Cancel \/ CommitObservations \/ CommitDeliveries \/ PostHooks \/ CleanUp
           \/ UNCHANGED batchVars
    PROVE  PlaceInv'
<1>1. CASE Cancel \/ UNCHANGED batchVars
  <2>1. /\ UNCHANGED <<pc, mode, index, work, fact, facts, futures, observed, items, error>>
        /\ UNCHANGED <<completed, cleaned, abandoned, batchFaults>>
    BY <1>1 DEF Cancel, batchVars
  <2>2. ErrorPlace'
    BY <2>1, Zenon DEF PlaceInv, ErrorPlace, Over
  <2>3. (mode = "sequential" => SequentialPlace)'
    BY <2>1 DEF PlaceInv, SequentialPlace
  <2>4. (mode = "concurrent" => ConcurrentPlace)'
    BY <2>1 DEF PlaceInv, ConcurrentPlace
  <2>. QED
    BY <2>1, <2>2, <2>3, <2>4 DEF PlaceInv, Over
<1>2. ASSUME pc \in Late \cup {"cleanup"}, pc' \in After,
             pc' \in Late \cup {"returned"} => error' = "none",
             pc' = "raised" => error' # "none",
             Over' => cleaned' = completed',
             UNCHANGED <<mode, index, work, fact, facts, futures, observed, abandoned,
                         batchFaults>>
      PROVE  PlaceInv'
  <2>1. ErrorPlace'
    BY <1>2 DEF ErrorPlace, After, Late
  <2>2. /\ (mode = "sequential" => SequentialPlace)'
        /\ (mode = "concurrent" => ConcurrentPlace)'
    BY <1>2, Zenon DEF PlaceInv, SequentialPlace, ConcurrentPlace, After, Late
  <2>. QED
    BY <1>2, <2>1, <2>2 DEF PlaceInv, After, Late
<1>3. CASE CommitObservations \/ CommitDeliveries \/ PostHooks
  <2>1. /\ pc \in Late /\ pc' \in {"deliver", "hooks", "cleanup"}
        /\ pc' # "cleanup" => error' = error
        /\ UNCHANGED <<mode, index, work, fact, facts, futures, observed, abandoned,
                       batchFaults>>
    BY <1>3 DEF CommitObservations, CommitDeliveries, PostHooks, CommitMedia, EndFrame, Late
  <2>. QED
    BY <1>2, <2>1 DEF PlaceInv, ErrorPlace, After, Late, Over
<1>4. CASE CleanUp
  BY <1>2, <1>4 DEF CleanUp, EndFrame, After, Late, Over
<1>. QED
  BY <1>1, <1>3, <1>4

\* Every step keeps execute's place.
LEMMA PlaceStep ==
    BatchTypes /\ BatchTypes' /\ PlaceInv /\ [BatchNext]_batchVars => PlaceInv'
  BY SequentialStep, ConcurrentStartStep, ConcurrentSettleStep, TailStep, Zenon DEF BatchNext

-----------------------------------------------------------------------------
(* The messages.                                                           *)

Ordered ==
    \A x, y \in DOMAIN items :
      /\ items[x].kind = "tool" /\ items[x] = items[y] => x = y
      /\ x < y /\ items[y].kind = "tool" => items[x].kind = "tool"

\* The tool message of a call that has none keeps the messages in order.
LEMMA AddToolMessage ==
    ASSUME BatchTypes, Ordered, \A x \in DOMAIN items : items[x].kind = "tool",
           NEW c \in Calls, ~HasMessage(c), items' = Append(items, Message("tool", c))
    PROVE  /\ Ordered'
           /\ (\A x \in DOMAIN items : items[x].kind = "tool")'
           /\ \A d \in Calls : HasMessage(d)' <=> HasMessage(d) \/ d = c
<1>1. /\ DOMAIN items = 1..Len(items) /\ Len(items) \in Nat
      /\ DOMAIN items' = 1..(Len(items) + 1)
      /\ \A x \in DOMAIN items : items'[x] = items[x]
      /\ items'[Len(items) + 1] = Message("tool", c)
      /\ \A m : (\E x \in DOMAIN items' : items'[x] = m) <=>
            (\E x \in DOMAIN items : items[x] = m) \/ m = Message("tool", c)
  <2>1. /\ DOMAIN items = 1..Len(items) /\ Len(items) \in Nat
        /\ DOMAIN items' = 1..(Len(items) + 1)
        /\ \A x \in DOMAIN items : items'[x] = items[x]
        /\ items'[Len(items) + 1] = Message("tool", c)
    BY DEF BatchTypes
  <2>2. DOMAIN items' = DOMAIN items \cup {Len(items) + 1}
    BY <2>1
  <2>. QED
    BY <2>1, <2>2, Zenon
<1>2. \A x \in DOMAIN items : items[x] # Message("tool", c)
  BY DEF HasMessage
<1>3. (\A x \in DOMAIN items : items[x].kind = "tool")'
  BY <1>1 DEF Message
<1>4. Ordered'
  BY <1>1, <1>2, <1>3 DEF Ordered
<1>5. \A d \in Calls : HasMessage(d)' <=> HasMessage(d) \/ d = c
  BY <1>1 DEF HasMessage, Message
<1>. QED
  BY <1>3, <1>4, <1>5

\* So does any other message, and it is nobody's result.
LEMMA AddOtherMessage ==
    ASSUME BatchTypes, Ordered, NEW k \in {"tool_media", "tool_delivery", "hook_feedback"},
           items' = Append(items, Message(k, 0))
    PROVE  /\ Ordered'
           /\ \A d \in Calls : HasMessage(d)' <=> HasMessage(d)
<1>1. /\ DOMAIN items = 1..Len(items) /\ Len(items) \in Nat
      /\ DOMAIN items' = 1..(Len(items) + 1)
      /\ \A x \in DOMAIN items : items'[x] = items[x]
      /\ items'[Len(items) + 1] = Message(k, 0)
      /\ \A m : (\E x \in DOMAIN items' : items'[x] = m) <=>
            (\E x \in DOMAIN items : items[x] = m) \/ m = Message(k, 0)
  <2>1. /\ DOMAIN items = 1..Len(items) /\ Len(items) \in Nat
        /\ DOMAIN items' = 1..(Len(items) + 1)
        /\ \A x \in DOMAIN items : items'[x] = items[x]
        /\ items'[Len(items) + 1] = Message(k, 0)
    BY DEF BatchTypes
  <2>2. DOMAIN items' = DOMAIN items \cup {Len(items) + 1}
    BY <2>1
  <2>. QED
    BY <2>1, <2>2, Zenon
<1>2. Message(k, 0).kind # "tool"
  BY DEF Message
<1>3. Ordered'
  BY <1>1, <1>2 DEF Ordered
<1>4. \A d \in Calls : HasMessage(d)' <=> HasMessage(d)
  BY <1>1 DEF HasMessage, Message
<1>. QED
  BY <1>3, <1>4

\* A step that adds no message and changes no terminal fact, and does not claim
\* more of them than there are.
LEMMA NoMessage ==
    ASSUME ItemsInv, items' = items, mode' = mode,
           \A c \in Calls : fact[c] \in Finished => fact'[c] = fact[c],
           pc \in After => pc' \in After,
           error' = "none" => /\ error = "none"
                              /\ mode = "sequential" => index' = index
                              /\ mode = "concurrent" => observed' = observed
                              /\ pc' \in After => \A c \in Calls : HasMessage(c)
    PROVE  ItemsInv'
  BY DEF ItemsInv, HasMessage, Finished

\* The messages stay right in _execute_sequentially.
LEMMA SequentialItems ==
    ASSUME BatchTypes, BatchTypes', PlaceInv, ItemsInv,
           StartNext \/ EndLoop \/ ExecuteRaises \/ ExecuteReturns \/ FailActive
    PROVE  ItemsInv'
<1> USE NAssumption
<1>0. /\ mode = "sequential" /\ mode' = mode /\ SequentialPlace /\ ErrorPlace /\ FactsCount
  BY Zenon DEF StartNext, EndLoop, ExecuteRaises, ExecuteReturns, FailActive, SequentialFrame,
         PlaceInv, FactsCount
<1>1. CASE StartNext
  <2>1. /\ index \in Calls /\ fact[index] = "none" /\ pc = "start"
        /\ UNCHANGED <<index, items>> /\ pc' \in {"call", "fail"} /\ error = "none"
    BY <1>0, <1>1, IndexIsCall DEF StartNext, SequentialPlace, ErrorPlace
  <2>2. \A c \in Calls : c # index => fact'[c] = fact[c]
    BY <1>1, <2>1 DEF StartNext, Journal, JournalRaises, BatchTypes
  <2>. QED
    BY <1>0, <2>1, <2>2, NoMessage, Zenon DEF After, Late, Finished
<1>2. CASE EndLoop
  <2>1. /\ pc = "start" /\ index > N /\ pc' = "media" /\ UNCHANGED <<index, items, fact, error>>
    BY <1>2 DEF EndLoop
  <2>2. error = "none" => \A c \in Calls : HasMessage(c)
    BY <1>0, <2>1 DEF ItemsInv, Calls, BatchTypes
  <2>. QED
    BY <1>0, <2>1, <2>2, NoMessage DEF After, Late
<1>3. CASE ExecuteRaises
  BY <1>0, <1>3, NoMessage DEF ExecuteRaises, ToolOutcomes, Breaks, Results, After, Late
<1>4. CASE ExecuteReturns
  <2>1. index \in Calls /\ fact[index] = "started" /\ pc = "call" /\ error = "none"
    BY <1>0, <1>4, IndexIsCall DEF ExecuteReturns, SequentialPlace, ErrorPlace
  <2>2. PICK r \in Results :
             \/ /\ FinishAndCommit(index, r)
                /\ pc' = IF error' = "none" THEN "start" ELSE "cleanup"
                /\ index' = IF error' = "none" THEN index + 1 ELSE index
             \/ /\ JournalRaises
                /\ pc' = "fail" /\ error' = "broken"
                /\ UNCHANGED <<index, items>>
    BY <1>4 DEF ExecuteReturns
  <2>3. CASE JournalRaises /\ pc' = "fail" /\ error' = "broken" /\ UNCHANGED <<index, items>>
    BY <1>0, <2>1, <2>3, RaisesStep, NoMessage DEF After, Late
  <2>4. CASE /\ FinishAndCommit(index, r)
             /\ pc' = IF error' = "none" THEN "start" ELSE "cleanup"
             /\ index' = IF error' = "none" THEN index + 1 ELSE index
    <3>1. /\ fact'[index] \in {"completed", "failed"}
          /\ \A d \in Calls : d # index => fact'[d] = fact[d]
          /\ items' \in {items, Append(items, Message("tool", index))}
          /\ error' = "none" => items' = Append(items, Message("tool", index))
      BY <1>0, <2>1, <2>4, CommitStep DEF Finished
    <3>2. CASE items' = items /\ error' # "none"
      BY <1>0, <2>1, <2>4, <3>1, <3>2, NoMessage DEF After, Late, Finished
    <3>3. CASE items' = Append(items, Message("tool", index))
      <4>1. /\ Ordered /\ \A x \in DOMAIN items : items[x].kind = "tool"
            /\ ~HasMessage(index)
        BY <2>1, Zenon DEF ItemsInv, Ordered, After, Late
      <4>2. /\ Ordered'
            /\ (\A x \in DOMAIN items : items[x].kind = "tool")'
            /\ \A d \in Calls : HasMessage(d)' <=> HasMessage(d) \/ d = index
        BY <2>1, <3>3, <4>1, AddToolMessage, Zenon
      <4>3. error' = "none" => \A d \in Calls : d < index' => HasMessage(d)'
        BY <1>0, <2>1, <2>4, <4>2 DEF ItemsInv, Calls
      <4>. QED
        BY <1>0, <2>1, <2>4, <3>1, <4>2, <4>3, Zenon DEF ItemsInv, Ordered, After, Late
    <3>. QED
      BY <3>1, <3>2, <3>3
  <2>. QED
    BY <2>2, <2>3, <2>4
<1>5. CASE FailActive
  <2>1. /\ index \in Calls /\ fact[index] \in {"none", "started"} /\ pc = "fail"
        /\ pc' = "cleanup" /\ UNCHANGED <<index, items>> /\ error # "none"
        /\ error' # "none"
    BY <1>0, <1>5, IndexIsCall DEF FailActive, SequentialPlace, ErrorPlace
  <2>2. \A c \in Calls : c # index => fact'[c] = fact[c]
    BY <1>5, <2>1 DEF FailActive, Journal, JournalRaises, BatchTypes
  <2>. QED
    BY <1>0, <2>1, <2>2, NoMessage DEF After, Late, Finished
<1>. QED
  BY <1>1, <1>2, <1>3, <1>4, <1>5

\* And in _execute_concurrently.
LEMMA ConcurrentItems ==
    ASSUME BatchTypes, BatchTypes', PlaceInv, ItemsInv,
           \/ StartCall \/ SubmitCall \/ SubmitFails \/ Abandon \/ Started
           \/ (\E c \in Calls : WorkerEnds(c) \/ Settle(c)) \/ Interrupted \/ AllSettled \/ Join
    PROVE  ItemsInv'
<1> USE NAssumption
<1>0. /\ mode = "concurrent" /\ mode' = mode /\ ConcurrentPlace /\ ErrorPlace /\ FactsCount
  BY Zenon DEF StartCall, SubmitCall, SubmitFails, Abandon, Started, WorkerEnds, Settle,
         Interrupted, AllSettled, Join, ConcurrentFrame, PlaceInv, FactsCount
<1>1. CASE StartCall \/ SubmitFails
  <2>1. /\ index \in Calls /\ fact[index] \in {"none", "started"} /\ pc \in {"start", "submit"}
        /\ UNCHANGED <<observed, items>> /\ pc' \in {"submit", "settle"} /\ error = "none"
    BY <1>0, <1>1, IndexIsCall DEF StartCall, SubmitFails, ConcurrentPlace, ErrorPlace, Calls
  <2>2. \A c \in Calls : c # index => fact'[c] = fact[c]
    BY <1>1, <2>1, Zenon DEF StartCall, SubmitFails, Journal, BatchTypes
  <2>. QED
    BY <1>0, <2>1, <2>2, NoMessage DEF After, Late, Finished
<1>2. CASE SubmitCall \/ Abandon \/ Started \/ Interrupted \/ Join
  <2>1. /\ UNCHANGED <<observed, items, fact>> /\ pc \notin After
        /\ error' = "none" => error = "none" /\ pc # "join"
        /\ pc' \in After => pc = "join"
    BY <1>0, <1>2, RaisesStep, Zenon DEF SubmitCall, Abandon, Started, Interrupted, Join, First,
                                  ErrorPlace, After, Late
  <2>. QED
    BY <1>0, <2>1, NoMessage
<1>3. ASSUME NEW c \in Calls, WorkerEnds(c)
      PROVE  ItemsInv'
  <2>1. UNCHANGED <<observed, items, fact, pc, error>>
    BY <1>3 DEF WorkerEnds
  <2>. QED
    BY <1>0, <2>1, NoMessage, Zenon DEF ItemsInv
<1>4. ASSUME NEW c \in Calls, Settle(c)
      PROVE  ItemsInv'
  <2>1. /\ pc \in {"settle", "drain"} /\ fact[c] = "started" /\ observed' = observed \cup {c}
        /\ pc' \in {"settle", "drain", "join"}
    BY <1>0, <1>4, Zenon DEF Settle, ConcurrentPlace
  <2>2. CASE items' = items /\ error' # "none" /\ \A d \in Calls : d # c => fact'[d] = fact[d]
    BY <1>0, <2>1, <2>2, NoMessage, Zenon DEF After, Late, Finished
  <2>3. CASE work[c] \in Raised /\ Journal(c, FailureStatus(work[c]))
             /\ error' = First(work[c]) /\ UNCHANGED items
    <3>1. error' # "none"
      BY <2>3 DEF First, Raised
    <3>2. \A d \in Calls : d # c => fact'[d] = fact[d]
      BY <2>3 DEF Journal, BatchTypes
    <3>. QED
      BY <2>2, <2>3, <3>1, <3>2, Zenon
  <2>4. CASE JournalRaises /\ error' \in {First("broken"), "broken"} /\ UNCHANGED items
    BY <2>2, <2>4, RaisesStep DEF First
  <2>5. CASE work[c] \in Results /\ FinishAndCommit(c, work[c])
    <3>1. /\ fact'[c] \in {"completed", "failed"}
          /\ \A d \in Calls : d # c => fact'[d] = fact[d]
          /\ error # "none" => error' = error
          /\ items' \in {items, Append(items, Message("tool", c))}
          /\ error' = "none" => items' = Append(items, Message("tool", c))
      BY <1>0, <2>1, <2>5, CommitStep, Zenon DEF Finished
    <3>2. CASE items' = Append(items, Message("tool", c))
      <4>1. /\ Ordered /\ \A x \in DOMAIN items : items[x].kind = "tool"
            /\ ~HasMessage(c)
        BY <2>1, Zenon DEF ItemsInv, Ordered, After, Late
      <4>2. /\ Ordered'
            /\ (\A x \in DOMAIN items : items[x].kind = "tool")'
            /\ \A d \in Calls : HasMessage(d)' <=> HasMessage(d) \/ d = c
        BY <3>2, <4>1, AddToolMessage, Zenon
      <4>3. error' = "none" => \A d \in observed' : HasMessage(d)'
        BY <1>0, <2>1, <3>1, <4>2, Zenon DEF ItemsInv, BatchTypes
      <4>. QED
        BY <1>0, <2>1, <3>1, <4>2, <4>3, Zenon DEF ItemsInv, Ordered, After, Late
    <3>. QED
      BY <2>2, <3>1, <3>2, Zenon
  <2>. QED
    BY <1>4, <2>3, <2>4, <2>5 DEF Settle
<1>5. CASE AllSettled
  <2>1. /\ pc \in {"settle", "drain"} /\ observed = futures
        /\ UNCHANGED <<observed, items, fact, error>>
    BY <1>5 DEF AllSettled
  <2>2. error = "none" => observed = Calls
    <3>1. error = "none" => index = N + 1
      BY <1>0, <2>1 DEF ConcurrentPlace, ErrorPlace
    <3>2. \A c \in Calls : c < N + 1
      BY DEF Calls
    <3>3. error = "none" => Calls \subseteq futures
      BY <1>0, <3>1, <3>2 DEF ConcurrentPlace
    <3>. QED
      BY <2>1, <3>3, Zenon DEF BatchTypes
  <2>3. error = "none" => \A c \in Calls : HasMessage(c)
    BY <1>0, <2>2, Zenon DEF ItemsInv
  <2>. QED
    BY <1>0, <2>1, <2>3, NoMessage DEF After, Late
<1>. QED
  BY <1>1, <1>2, <1>3, <1>4, <1>5

\* And in the rest of execute.
LEMMA TailItems ==
    ASSUME BatchTypes, BatchTypes', PlaceInv, ItemsInv,
           \/ Cancel \/ CommitObservations \/ CommitDeliveries \/ PostHooks \/ CleanUp
           \/ UNCHANGED batchVars
    PROVE  ItemsInv'
<1>1. CASE Cancel \/ UNCHANGED batchVars
  <2>1. UNCHANGED <<pc, error, mode, index, observed, fact, items>>
    BY <1>1 DEF Cancel, batchVars
  <2>2. \A c : HasMessage(c)' <=> HasMessage(c)
    BY <2>1 DEF HasMessage
  <2>. QED
    BY <2>1, <2>2 DEF ItemsInv
<1>2. CASE CommitObservations \/ CommitDeliveries \/ PostHooks
  <2>1. /\ pc \in After /\ pc' \in After /\ error = "none"
        /\ UNCHANGED <<mode, index, fact, observed>>
    BY <1>2, Zenon DEF CommitObservations, CommitDeliveries, PostHooks, CommitMedia, EndFrame,
                PlaceInv, ErrorPlace, After, Late
  <2>2. \/ items' = items
        \/ \E k \in {"tool_media", "tool_delivery", "hook_feedback"} :
              items' = Append(items, Message(k, 0))
    BY <1>2 DEF CommitObservations, CommitDeliveries, PostHooks, CommitMedia
  <2>3. CASE items' = items
    BY <2>1, <2>3, NoMessage, Zenon DEF ItemsInv
  <2>4. ASSUME NEW k \in {"tool_media", "tool_delivery", "hook_feedback"},
               items' = Append(items, Message(k, 0))
        PROVE  ItemsInv'
    <3>1. Ordered
      BY DEF ItemsInv, Ordered
    <3>2. Ordered' /\ \A d \in Calls : HasMessage(d)' <=> HasMessage(d)
      BY <2>4, <3>1, AddOtherMessage
    <3>. QED
      BY <2>1, <3>2, Zenon DEF ItemsInv, Ordered, BatchTypes
  <2>. QED
    BY <2>2, <2>3, <2>4
<1>3. CASE CleanUp
  <2>1. /\ pc \in After /\ pc' \in After
        /\ UNCHANGED <<mode, index, fact, observed, items, error>>
    BY <1>3 DEF CleanUp, EndFrame, After
  <2>. QED
    BY <2>1, NoMessage, Zenon DEF ItemsInv
<1>. QED
  BY <1>1, <1>2, <1>3

\* Every step keeps the messages right.
LEMMA ItemsStep ==
    BatchTypes /\ BatchTypes' /\ PlaceInv /\ ItemsInv /\ [BatchNext]_batchVars => ItemsInv'
  BY SequentialItems, ConcurrentItems, TailItems, Zenon DEF BatchNext

-----------------------------------------------------------------------------
(* The theorems.                                                           *)

\* A batch begins with nothing started and nothing said.
LEMMA BatchBegins == BatchInit => BatchInv
<1> SUFFICES ASSUME BatchInit PROVE BatchInv
  OBVIOUS
<1> USE NAssumption
<1>1. BatchTypes
  BY DEF BatchInit, BatchTypes, After, Late, Results, Raised, Finished, Calls
<1>2. PlaceInv
  <2>1. pc \notin After /\ ~Over /\ \A c \in Calls : fact[c] \notin Finished
    BY DEF BatchInit, After, Late, Over, Finished
  <2>2. ErrorPlace
    BY DEF BatchInit, ErrorPlace, Late
  <2>3. mode = "sequential" => SequentialPlace
    BY <2>1 DEF BatchInit, SequentialPlace, Calls, Finished
  <2>4. mode = "concurrent" => ConcurrentPlace
    BY <2>1 DEF BatchInit, ConcurrentPlace, Calls, Finished
  <2>. QED
    BY <2>1, <2>2, <2>3, <2>4 DEF BatchInit, PlaceInv
<1>3. ItemsInv
  BY DEF BatchInit, ItemsInv, HasMessage, After, Late, Calls
<1>. QED
  BY <1>1, <1>2, <1>3 DEF BatchInv

\* The inductive invariant of a batch.
THEOREM BatchInductive == BatchSpec => []BatchInv
<1>1. BatchInv /\ [BatchNext]_batchVars => BatchInv'
  BY BatchTypeStep, PlaceStep, ItemsStep DEF BatchInv
<1>. QED
  BY <1>1, BatchBegins, PTL DEF BatchSpec

\* However many calls a batch has and whatever raises, each started call gets one
\* terminal fact, messages follow facts and keep their order, and nothing is left
\* running or uncleaned (ToolBatchExecutor.execute).
THEOREM BatchIsSound == BatchSpec => []BatchSound
<1>1. BatchInv => OneTerminalFact
  BY DEF BatchInv, BatchTypes, PlaceInv, OneTerminalFact, Over, After
<1>2. BatchInv => MessagesFollowFacts
  BY Zenon DEF BatchInv, ItemsInv, PlaceInv, ErrorPlace, MessagesFollowFacts, After
<1>3. BatchInv => NothingLeftRunning
  BY DEF BatchInv, PlaceInv, NothingLeftRunning, Over, After
<1>4. BatchInv => BatchSound
  BY <1>1, <1>2, <1>3 DEF BatchSound
<1>. QED
  BY <1>4, BatchInductive, PTL

\* Behind the first error no call starts and no other error takes its place.
LEMMA ErrorStep ==
    ASSUME BatchTypes, PlaceInv, [BatchNext]_batchVars, error # "none"
    PROVE  /\ batchFaults' = batchFaults => error' = error
           /\ \A c \in Calls : fact'[c] = "started" => fact[c] = "started"
<1>1. pc \notin {"start", "call", "submit", "media", "deliver", "hooks"}
  BY DEF PlaceInv, ErrorPlace, Late
<1>2. ASSUME NEW c \in Calls, NEW s \in Finished, Journal(c, s)
      PROVE  \A d \in Calls : fact'[d] = "started" => fact[d] = "started"
  BY <1>2 DEF Journal, BatchTypes, Finished
<1>3. ASSUME JournalRaises
      PROVE  fact' = fact /\ batchFaults' # batchFaults
  BY <1>3 DEF JournalRaises, BatchTypes
<1>4. \A e : FailureStatus(e) \in Finished
  BY FailureIsFinished DEF Finished
<1>5. CASE FailActive
  <2>1. index \in Calls
    BY <1>5, IndexIsCall DEF FailActive
  <2>2. CASE Journal(index, FailureStatus(error)) /\ UNCHANGED error
    BY <1>2, <1>4, <2>1, <2>2
  <2>3. CASE JournalRaises
    BY <1>3, <2>3
  <2>. QED
    BY <1>5, <2>2, <2>3 DEF FailActive
<1>6. ASSUME NEW c \in Calls, Settle(c)
      PROVE  /\ batchFaults' = batchFaults => error' = error
             /\ \A d \in Calls : fact'[d] = "started" => fact[d] = "started"
  <2>1. CASE Journal(c, FailureStatus(work[c])) /\ error' = First(work[c])
    BY <1>2, <1>4, <2>1, Zenon DEF First
  <2>2. CASE JournalRaises
    BY <1>3, <2>2
  <2>3. CASE FinishAndCommit(c, work[c])
    <3>1. (IF work[c] = "error" THEN "failed" ELSE "completed") \in Finished
      BY DEF Finished
    <3>2. Journal(c, IF work[c] = "error" THEN "failed" ELSE "completed") /\ error' = error
      BY <2>3 DEF FinishAndCommit, First
    <3>. QED
      BY <1>2, <3>1, <3>2
  <2>. QED
    BY <1>6, <2>1, <2>2, <2>3, Zenon DEF Settle
<1>7. CASE \/ Cancel \/ (\E c \in Calls : WorkerEnds(c)) \/ Interrupted \/ AllSettled \/ Join
           \/ CleanUp \/ UNCHANGED batchVars
  BY <1>7, Zenon DEF Cancel, WorkerEnds, Interrupted, AllSettled, Join, CleanUp, EndFrame, First,
              batchVars
<1>8. CASE \/ StartNext \/ EndLoop \/ ExecuteRaises \/ ExecuteReturns \/ StartCall
           \/ SubmitCall \/ SubmitFails \/ Abandon \/ Started \/ CommitObservations
           \/ CommitDeliveries \/ PostHooks
  BY <1>1, <1>8, Zenon DEF StartNext, EndLoop, ExecuteRaises, ExecuteReturns, StartCall, SubmitCall,
                    SubmitFails, Abandon, Started, CommitObservations, CommitDeliveries,
                    PostHooks
<1>. QED
  BY <1>5, <1>6, <1>7, <1>8, Zenon DEF BatchNext

\* The first error of a batch of any size is the one execute raises, unless the
\* journal itself refuses a fact, and no call starts behind it (settle).
THEOREM BatchFirstError == BatchSpec => FirstErrorWins
<1>1. BatchInv /\ [BatchNext]_batchVars =>
        [error # "none" =>
           /\ batchFaults' = batchFaults => error' = error
           /\ \A c \in Calls : fact'[c] = "started" => fact[c] = "started"]_batchVars
  BY ErrorStep DEF BatchInv
<1>. QED
  BY <1>1, BatchInductive, PTL DEF BatchSpec, FirstErrorWins
=============================================================================
