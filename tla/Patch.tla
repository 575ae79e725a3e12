-------------------------------- MODULE Patch --------------------------------
(***************************************************************************)
(* apply_patch (agent_core/tools/builtin/apply_patch.py): the hunks of an    *)
(* update are placed in the file one after the other, every change of the    *)
(* patch is prepared before the first one is written, and the changes are    *)
(* then committed in order.                                                  *)
(*                                                                         *)
(* The patch updates the file "f" with one or more hunks and then adds or    *)
(* deletes "g".  A line's text is a letter; "A" is "a" with white space at   *)
(* its end.  Line endings and the text of the patch are left out: a hunk is  *)
(* its lines, and the old start its header gives (0 for a bare @@ when it    *)
(* has old lines).                                                           *)
(***************************************************************************)
EXTENDS Naturals, Sequences, SequencesExt, FiniteSets

CONSTANTS
    PatchTexts,     \* texts of the lines of the file
    PatchWritten,   \* texts the lines of the patch have
    PatchMaxLines,  \* lines of the file
    PatchMaxHunk,   \* lines of the first hunk; the next ones have one less
    PatchMaxHunks,
    PatchNumbers    \* numbers of the hunks' headers

ASSUME PatchAssumption ==
    /\ PatchMaxLines \in Nat /\ PatchMaxHunk \in Nat /\ PatchMaxHunks \in Nat
    /\ PatchWritten \subseteq PatchTexts /\ PatchNumbers \subseteq Nat

VARIABLES
    patchSource,    \* the lines read from "f"
    patchResult,    \* result: [from |-> index in the source or 0, text |-> text]
    patchIndex,     \* source_index
    patchHunks,     \* the hunks of the body so far
    patchAt,        \* "prepare", "commit", "done", "failed", "rejected" or "cancelled"
    patchCommitted, \* changes committed, of <<"f", "g">>
    patchDisk,      \* the files whose change reached the disk
    patchCancelled  \* the turn was cancelled

patchVars == <<patchSource, patchResult, patchIndex, patchHunks, patchAt, patchCommitted,
               patchDisk, patchCancelled>>
patchTextVars == <<patchSource, patchResult, patchIndex, patchHunks>>

PatchFiles == <<"f", "g">>
PatchLines(n) == UNION {[1..k -> [op : {" ", "-", "+"}, text : PatchWritten]] : k \in 1..n}

PatchOld(lines) == SelectSeq(lines, LAMBDA l : l.op # "+")
PatchRight(text) == IF text = "A" THEN "a" ELSE text       \* rstrip(" \t")

-----------------------------------------------------------------------------
(* _lines_match and _find_hunk.  Positions count the lines before them.      *)
PatchMatches(lines, at, loose) ==
    LET old == PatchOld(lines) IN
    /\ at + Len(old) <= Len(patchSource)
    /\ \A i \in 1..Len(old) :
          LET actual == patchSource[at + i] IN
          \/ actual = old[i].text
          \/ loose /\ old[i].op = " " /\ PatchRight(actual) = PatchRight(old[i].text)

\* Lines of context at the start of a hunk; a hunk that is all context counts whole.
PatchContext(lines) ==
    CHOOSE n \in 0..Len(lines) :
        /\ \A i \in 1..n : lines[i].op = " "
        /\ n < Len(lines) => lines[n + 1].op # " "

\* The hunk without `before` and `after` lines of outer context.
PatchTrimmed(lines, before, after) == SubSeq(lines, before + 1, Len(lines) - after)

\* The places where one level of trimming finds the hunk, by the edit they make.
PatchPlaces(lines, trim, loose) ==
    LET leading == PatchContext(lines)
        trailing == IF leading = Len(lines) THEN 0 ELSE PatchContext(Reverse(lines))
        cuts == {b \in 0..trim : b <= leading /\ trim - b <= trailing}
    IN {[edit |-> at + leading - b, at |-> at, lines |-> PatchTrimmed(lines, b, trim - b)] :
            <<b, at>> \in {<<b, at>> \in cuts \X (patchIndex..Len(patchSource)) :
                              PatchMatches(PatchTrimmed(lines, b, trim - b), at, loose)}}

\* The levels in the order they are tried: more of the context goes only when the hunk
\* removes something, and white space is compared before it is ignored.
PatchLevels(lines) ==
    LET all == <<[trim |-> 0, loose |-> FALSE], [trim |-> 0, loose |-> TRUE],
                 [trim |-> 1, loose |-> FALSE], [trim |-> 1, loose |-> TRUE],
                 [trim |-> 2, loose |-> FALSE], [trim |-> 2, loose |-> TRUE]>>
    IN IF \E i \in 1..Len(lines) : lines[i].op = "-" THEN all ELSE SubSeq(all, 1, 2)

PatchPreferred(lines, number, level) ==
    /\ number > 0 /\ level.trim = 0 /\ number - 1 >= patchIndex
    /\ PatchMatches(lines, number - 1, level.loose)

\* The first level that finds the hunk decides: at the numbered line with the full
\* context, else where its only edit is; two edits are an error, and so is no level.
\* Of several cuts that make the same edit, the last one found is kept.
PatchFind(lines, number) ==
    LET levels == PatchLevels(lines)
        finds == {k \in 1..Len(levels) :
                     \/ PatchPreferred(lines, number, levels[k])
                     \/ PatchPlaces(lines, levels[k].trim, levels[k].loose) # {}}
        level == levels[CHOOSE k \in finds : \A j \in finds : k <= j]
        places == PatchPlaces(lines, level.trim, level.loose)
    IN IF finds = {} THEN {}
       ELSE IF PatchPreferred(lines, number, level) THEN {[at |-> number - 1, lines |-> lines]}
       ELSE IF Cardinality({p.edit : p \in places}) > 1 THEN {}
       ELSE LET last == CHOOSE p \in places : \A q \in places : p.at >= q.at
            IN {[at |-> last.at, lines |-> last.lines]}

\* Without old lines the number alone places the hunk (0: before the first line).
PatchPlaced(lines, number) ==
    IF PatchOld(lines) # <<>> THEN PatchFind(lines, number)
    ELSE IF number \in patchIndex..Len(patchSource)
         THEN {[at |-> number, lines |-> lines]} ELSE {}

-----------------------------------------------------------------------------
(* _apply_hunks: what precedes the hunk is copied, its context comes from    *)
(* the file, its additions from the patch.                                   *)
PatchCopy(from, to) == [i \in 1..(to - from) |-> [from |-> from + i, text |-> patchSource[from + i]]]

PatchEdit(place) ==
    LET at == place.at
        line(i) == LET n == at + Len(PatchOld(SubSeq(place.lines, 1, i))) IN
                   CASE place.lines[i].op = " " -> <<[from |-> n, text |-> patchSource[n]]>>
                     [] place.lines[i].op = "-" -> <<>>
                     [] place.lines[i].op = "+" -> <<[from |-> 0, text |-> place.lines[i].text]>>
    IN FlattenSeq([i \in 1..Len(place.lines) |-> line(i)])

\* Mutant: the index stays in front of the lines the hunk replaced.
PatchHunkKeepsIndex(lines, number) ==
    \E place \in PatchPlaced(lines, number) :
        /\ patchResult' = patchResult \o PatchCopy(patchIndex, place.at) \o PatchEdit(place)
        /\ patchIndex' = place.at
        /\ patchHunks' = Append(patchHunks, lines)
        /\ UNCHANGED <<patchSource, patchAt, patchCommitted, patchDisk, patchCancelled>>

\* A hunk that was found: what lies before it is copied, then it is applied.
PatchHunk(lines, number) ==
    \E place \in PatchPlaced(lines, number) :
        /\ patchResult' = patchResult \o PatchCopy(patchIndex, place.at) \o PatchEdit(place)
        /\ patchIndex' = place.at + Len(PatchOld(place.lines))
        /\ patchHunks' = Append(patchHunks, lines)
        /\ UNCHANGED <<patchSource, patchAt, patchCommitted, patchDisk, patchCancelled>>

PatchNextHunk ==
    /\ patchAt = "prepare" /\ Len(patchHunks) < PatchMaxHunks
    /\ \E lines \in PatchLines(PatchMaxHunk - Len(patchHunks)), number \in PatchNumbers :
          PatchHunk(lines, number)

\* The rest of the file, and the turn's last chance to stop the patch.
PatchPrepared ==
    /\ patchAt = "prepare" /\ patchHunks # <<>>
    /\ patchResult' = patchResult \o PatchCopy(patchIndex, Len(patchSource))
    /\ patchIndex' = Len(patchSource)
    /\ patchAt' = IF patchCancelled THEN "cancelled" ELSE "commit"
    /\ UNCHANGED <<patchSource, patchHunks, patchCommitted, patchDisk, patchCancelled>>

\* A hunk, a path or another change of the patch is wrong: nothing was written yet.
PatchReject ==
    /\ patchAt = "prepare" /\ patchAt' = "rejected"
    /\ UNCHANGED <<patchTextVars, patchCommitted, patchDisk, patchCancelled>>

-----------------------------------------------------------------------------
(* The commit loop: a file is replaced in one step or not at all, and the    *)
(* first error ends the loop with a report of what was done before it.       *)

\* Mutant: the loop looks at the cancellation between two files.
PatchWriteStops ==
    /\ patchAt = "commit"
    /\ IF patchCancelled
       THEN patchAt' = "cancelled" /\ UNCHANGED <<patchDisk, patchCommitted>>
       ELSE /\ patchDisk' = patchDisk \cup {PatchFiles[patchCommitted + 1]}
            /\ patchCommitted' = patchCommitted + 1
            /\ patchAt' = IF patchCommitted' = Len(PatchFiles) THEN "done" ELSE "commit"
    /\ UNCHANGED <<patchTextVars, patchCancelled>>

PatchWrite ==
    /\ patchAt = "commit"
    /\ patchDisk' = patchDisk \cup {PatchFiles[patchCommitted + 1]}
    /\ patchCommitted' = patchCommitted + 1
    /\ patchAt' = IF patchCommitted' = Len(PatchFiles) THEN "done" ELSE "commit"
    /\ UNCHANGED <<patchTextVars, patchCancelled>>

PatchWriteFails ==
    /\ patchAt = "commit" /\ patchAt' = "failed"
    /\ UNCHANGED <<patchTextVars, patchCommitted, patchDisk, patchCancelled>>

PatchCancel ==
    /\ ~patchCancelled /\ patchAt \in {"prepare", "commit"}
    /\ patchCancelled' = TRUE
    /\ UNCHANGED <<patchTextVars, patchAt, patchCommitted, patchDisk>>

PatchInit ==
    /\ patchSource \in UNION {[1..n -> PatchTexts] : n \in 0..PatchMaxLines}
    /\ patchResult = <<>> /\ patchIndex = 0 /\ patchHunks = <<>>
    /\ patchAt = "prepare" /\ patchCommitted = 0 /\ patchDisk = {} /\ patchCancelled = FALSE

PatchNext == PatchNextHunk \/ PatchPrepared \/ PatchReject \/ PatchWrite \/ PatchWriteFails \/ PatchCancel

PatchSpec == PatchInit /\ [][PatchNext]_patchVars

-----------------------------------------------------------------------------
PatchTextsOf(lines, op) ==
    LET chosen == SelectSeq(lines, LAMBDA l : l.op = op) IN [i \in 1..Len(chosen) |-> chosen[i].text]

\* The lines of the file that precede the place reached are each in the result once and
\* in their order, except those the hunks remove, which are the lines their '-' lines
\* name; and what was added is what their '+' lines say, in that order -- however much
\* context was trimmed or matched loosely, and wherever the hunk before it ended
\* (_find_hunk, _apply_hunks).
PatchIsEdit ==
    LET kept == SelectSeq(patchResult, LAMBDA l : l.from > 0)
        added == SelectSeq(patchResult, LAMBDA l : l.from = 0)
        gone == {n \in 1..patchIndex : \A i \in 1..Len(kept) : kept[i].from # n}
        lost == SelectSeq([n \in 1..patchIndex |-> n], LAMBDA n : n \in gone)
        body == FlattenSeq(patchHunks)
    IN /\ \A i \in 1..Len(kept) : kept[i].text = patchSource[kept[i].from]
       /\ \A i, j \in 1..Len(kept) : i < j => kept[i].from < kept[j].from
       /\ [i \in 1..Len(lost) |-> patchSource[lost[i]]] = PatchTextsOf(body, "-")
       /\ [i \in 1..Len(added) |-> added[i].text] = PatchTextsOf(body, "+")

\* What the caller is told is what the disk holds: a rejected or cancelled patch changed
\* no file, a failed one exactly those it reports as completed, a finished one all of
\* them (the commit loop of execute).
PatchReportTrue ==
    /\ patchAt \in {"rejected", "cancelled"} => patchDisk = {}
    /\ patchAt \in {"failed", "done"} =>
          patchDisk = {PatchFiles[i] : i \in 1..patchCommitted}
    /\ patchAt = "done" => patchDisk = {"f", "g"}

\* A patch is sound: what a file becomes is the edit the hunks describe, and the
\* report says what is on disk (apply_patch.py, the two above).
PatchSound == PatchIsEdit /\ PatchReportTrue
==============================================================================
