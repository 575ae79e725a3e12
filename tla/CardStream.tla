------------------------------ MODULE CardStream ------------------------------
(***************************************************************************)
(* The cards of one answer on the mobile front end: TextStream of          *)
(* interfaces/mobile/streaming.py.                                         *)
(*                                                                         *)
(* The reader of the conversation appends the deltas of a model call and   *)
(* finishes the stream with the whole answer; a task writes the text to    *)
(* the platform, card by card, and sleeps between two rounds.  The text    *)
(* changes while a round is under way: a round writes the text it started  *)
(* with.  A call of the platform may fail, and the reader may be cancelled *)
(* wherever it awaits.  A text is a sequence of tokens, "w" being white    *)
(* space; a card that has nothing left to show is an empty sequence.       *)
(***************************************************************************)
EXTENDS Naturals, Sequences, SequencesExt

CONSTANTS
    CstCard,        \* the tokens of one card (MAX_TEXT_BYTES in the code)
    CstMaxTokens,   \* bound on the tokens of an answer
    CstMaxFaults    \* bound on the failed calls of the platform

ASSUME CstAssumption ==
    CstCard \in Nat \ {0} /\ CstMaxTokens \in Nat /\ CstMaxFaults \in Nat

VARIABLES
    cstContent,     \* the text so far
    cstCards,       \* the cards: what each shows
    cstOpen,        \* the cards that still show as being written
    cstTask,        \* none, wait, flush, sleep or done
    cstRest,        \* the rest of the text of the round
    cstIndex,       \* how many cards the round has written
    cstChanged, cstFinished, cstClosed,
    cstReader,      \* what the reader does: reads, finishes, closes or over
    cstReceipt,     \* the receipt is still on the user's message
    cstMissed,      \* the last round ended with a failed call
    cstCut,         \* the reader was cancelled
    cstFaults

cstVars == <<cstContent, cstCards, cstOpen, cstTask, cstRest, cstIndex, cstChanged,
             cstFinished, cstClosed, cstReader, cstReceipt, cstMissed, cstCut, cstFaults>>

cstRoundVars == <<cstCards, cstOpen, cstRest, cstIndex, cstReceipt, cstMissed, cstFaults>>

CstBlank(text) == \A i \in DOMAIN text : text[i] = "w"

\* _wake: the task is told, and started by the first text that shows.
CstWake ==
    /\ cstChanged' = TRUE
    /\ cstTask' = IF cstTask = "none" THEN "wait" ELSE cstTask

(***************************************************************************)
(* The reader                                                              *)
(***************************************************************************)

CstAppend(token) ==
    /\ cstReader = "reads"
    /\ Len(cstContent) < CstMaxTokens
    /\ cstContent' = Append(cstContent, token)
    /\ IF CstBlank(cstContent') THEN UNCHANGED <<cstChanged, cstTask>> ELSE CstWake
    /\ UNCHANGED <<cstRoundVars, cstFinished, cstClosed, cstReader, cstCut>>

\* What the answer may be in the end: the text of the deltas or another one.
CstFinals == {cstContent, <<>>, <<"a">>, cstContent \o <<"a">>}

\* finish: with the whole answer, or with the text as it is when the turn ends.
CstFinish ==
    /\ cstReader = "reads"
    /\ cstContent' \in CstFinals
    /\ cstFinished' = TRUE
    /\ IF CstBlank(cstContent') /\ cstTask = "none"
       THEN UNCHANGED <<cstChanged, cstTask>> ELSE CstWake
    /\ cstReader' = "finishes"
    /\ UNCHANGED <<cstRoundVars, cstClosed, cstCut>>

\* _close is entered once the task is done, or was never started.
CstClose ==
    /\ cstReader = "finishes" /\ cstTask \in {"none", "done"}
    /\ cstClosed' = TRUE
    /\ cstReader' = "closes"
    /\ UNCHANGED <<cstRoundVars, cstContent, cstTask, cstChanged, cstFinished, cstCut>>

\* It closes card after card, whether the platform agrees or not.
CstCloseCard ==
    /\ cstReader = "closes"
    /\ IF cstOpen = {}
       THEN cstReader' = "over" /\ UNCHANGED cstOpen
       ELSE /\ \E i \in cstOpen : (\A j \in cstOpen : i <= j) /\ cstOpen' = cstOpen \ {i}
            /\ UNCHANGED cstReader
    /\ UNCHANGED <<cstContent, cstCards, cstTask, cstRest, cstIndex, cstChanged, cstFinished,
                   cstClosed, cstReceipt, cstMissed, cstCut, cstFaults>>

\* abort: the reader is cancelled or the session taken; the task goes, and the
\* cards are closed unless a close was under way.
CstAbort ==
    /\ cstReader # "over"
    /\ cstCut' = TRUE
    /\ cstTask' = IF cstTask = "none" THEN "none" ELSE "done"
    /\ cstReader' = IF cstClosed THEN "over" ELSE "closes"
    /\ cstClosed' = TRUE
    /\ UNCHANGED <<cstRoundVars, cstContent, cstChanged, cstFinished>>

(***************************************************************************)
(* The task                                                                *)
(***************************************************************************)

cstReaderVars == <<cstContent, cstFinished, cstClosed, cstReader, cstCut>>

CstWakes ==
    /\ cstTask = "wait" /\ cstChanged
    /\ cstChanged' = FALSE
    /\ cstTask' = "flush"
    /\ cstRest' = cstContent
    /\ cstIndex' = 0
    /\ cstMissed' = FALSE
    /\ UNCHANGED <<cstReaderVars, cstCards, cstOpen, cstReceipt, cstFaults>>

CstLeast(a, b) == IF a <= b THEN a ELSE b

\* One card of a round: written if it is new or shows something else.  The
\* receipt goes with the first card.
CstWriteCard ==
    LET n == CstLeast(Len(cstRest), CstCard)
        text == SubSeq(cstRest, 1, n)
        card == cstIndex + 1
    IN  /\ cstTask = "flush"
        /\ cstRest # <<>> \/ cstIndex < Len(cstCards)
        /\ \/ /\ cstCards' = IF cstIndex = Len(cstCards) THEN Append(cstCards, text)
                             ELSE [cstCards EXCEPT ![card] = text]
              /\ cstOpen' = IF cstIndex = Len(cstCards) THEN cstOpen \cup {card} ELSE cstOpen
              /\ cstReceipt' = (cstReceipt /\ cstIndex < Len(cstCards))
              /\ cstRest' = SubSeq(cstRest, n + 1, Len(cstRest))
              /\ cstIndex' = card
              /\ UNCHANGED <<cstTask, cstMissed, cstFaults>>
           \/ /\ cstIndex < Len(cstCards) => text # cstCards[card]
              /\ cstFaults < CstMaxFaults
              /\ cstFaults' = cstFaults + 1
              /\ cstMissed' = TRUE
              /\ cstTask' = "written"
              /\ UNCHANGED <<cstCards, cstOpen, cstReceipt, cstRest, cstIndex>>
        /\ UNCHANGED <<cstReaderVars, cstChanged>>

CstRoundEnds ==
    /\ cstTask = "flush" /\ cstRest = <<>> /\ cstIndex >= Len(cstCards)
    /\ cstTask' = "written"
    /\ UNCHANGED <<cstReaderVars, cstRoundVars, cstChanged>>

\* Mutant: a finished stream has no further round.
CstAfterRoundLast ==
    /\ cstTask = "written"
    /\ cstTask' = IF cstFinished THEN "done" ELSE "sleep"
    /\ UNCHANGED <<cstReaderVars, cstRoundVars, cstChanged>>

\* After a round: another one if the text changed meanwhile, and the end or a
\* pause otherwise.
CstAfterRound ==
    /\ cstTask = "written"
    /\ cstTask' = CASE cstFinished /\ cstChanged -> "wait"
                    [] cstFinished /\ ~cstChanged -> "done"
                    [] ~cstFinished -> "sleep"
    /\ UNCHANGED <<cstReaderVars, cstRoundVars, cstChanged>>

\* The pause is over, by time or because the stream is finished.
CstSleepEnds ==
    /\ cstTask = "sleep"
    /\ cstTask' = "wait"
    /\ UNCHANGED <<cstReaderVars, cstRoundVars, cstChanged>>

CstInit ==
    /\ cstContent = <<>> /\ cstCards = <<>> /\ cstOpen = {}
    /\ cstTask = "none" /\ cstRest = <<>> /\ cstIndex = 0
    /\ cstChanged = FALSE /\ cstFinished = FALSE /\ cstClosed = FALSE
    /\ cstReader = "reads"
    /\ cstReceipt = TRUE
    /\ cstMissed = FALSE /\ cstCut = FALSE /\ cstFaults = 0

CstNext ==
    \/ \E token \in {"a", "b", "w"} : CstAppend(token)
    \/ CstFinish
    \/ CstClose
    \/ CstCloseCard
    \/ CstAbort
    \/ CstWakes
    \/ CstWriteCard
    \/ CstRoundEnds
    \/ CstAfterRound
    \/ CstSleepEnds

CstSpec == CstInit /\ [][CstNext]_cstVars

(***************************************************************************)
(* Properties                                                              *)
(***************************************************************************)

\* The answer is on the cards once its stream is over: unless the reader was
\* cancelled or the last round failed, the cards show the whole answer and
\* nothing of an earlier text, and none of them shows as being written
\* (TextStream.finish and _run: what changed during a round gets another one).
CstShowsAll ==
    (cstReader = "over" /\ ~cstCut /\ ~cstMissed) =>
        /\ cstOpen = {}
        /\ FlattenSeq(cstCards) = cstContent \/ (cstCards = <<>> /\ CstBlank(cstContent))

\* The receipt is taken off with the first card, and a stream that is cut leaves
\* no task behind (TextStream._flush, abort).
CstLeavesNothing ==
    /\ cstReceipt <=> (cstCards = <<>>)
    /\ cstReader = "over" => cstTask \in {"none", "done"}

\* The cards of an answer are sound (mobile/streaming.py, the two above).
CstSound == CstShowsAll /\ CstLeavesNothing
=============================================================================
