------------------------------ MODULE TextPages ------------------------------
(***************************************************************************)
(* The reading view of a large text (agent_core/tools/text.py and the       *)
(* artifacts of tool_result.py): write_text_artifact bounds the length of   *)
(* every line, read_text_range shows a page and says where to continue, and *)
(* a reader follows the offsets to the end.                                 *)
(*                                                                         *)
(* Characters cost what their JSON escape costs.  A text is a sequence of   *)
(* "x" (costs one), "q" (costs two) and the line break.                     *)
(***************************************************************************)
EXTENDS Naturals, Integers, Sequences, SequencesExt

CONSTANTS
    PageMaxText,    \* characters of the source text
    PageLine,       \* MAX_ARTIFACT_LINE_CHARS
    PageBudget,     \* budget of one page
    PageLimit,      \* the reader's limit on the lines of a page
    PagePrefix, PageNotice, PageSeparator    \* escaped lengths: line number, notice, separator

ASSUME PageAssumption ==
    /\ PageMaxText \in Nat /\ PageLine \in Nat \ {0} /\ PageLimit \in Nat \ {0}
    /\ PageNotice \in Nat /\ PageSeparator \in Nat /\ PagePrefix \in Nat \ {0}
    \* the first line of a page always has room for the notice
    /\ PageBudget \in Nat /\ PageBudget >= PagePrefix + PageNotice

VARIABLES
    pageSource,     \* the text of a tool result, or of a file the reader opens itself
    pageFile,       \* the file that is read, as text
    pageKind,       \* "artifact" or "file"
    pageOffset,     \* the offset the reader asks for next; 0 at the end of the file
    pageShown,      \* lines shown so far: their number, their text and whether they were cut
    pageCost        \* cost of the last page

pageVars == <<pageSource, pageFile, pageKind, pageOffset, pageShown, pageCost>>

PageBreak == "n"
PageTexts == UNION {[1..n -> {"x", "q", PageBreak}] : n \in 0..PageMaxText}
PageEscaped(line) == Len(line) + Len(SelectSeq(line, LAMBDA ch : ch = "q"))

\* The lines an iteration of a text file yields, without their line breaks; a break at
\* the end of the file starts no line.
PageLines(text) ==
    LET breaks == {i \in 1..Len(text) : text[i] = PageBreak}
        ends == breaks \cup (IF text # <<>> /\ Last(text) # PageBreak THEN {Len(text) + 1} ELSE {})
        stops == SelectSeq([i \in 1..(Len(text) + 1) |-> i], LAMBDA i : i \in ends)
    IN [k \in 1..Len(stops) |->
           SubSeq(text, (IF k = 1 THEN 0 ELSE stops[k - 1]) + 1, stops[k] - 1)]

-----------------------------------------------------------------------------
(* write_text_artifact.  A turn of its loop writes one line: a whole one     *)
(* with its break, or the first PageLine characters of a longer one, whose   *)
(* rest stays in the chunk for the next turn.                                *)
\* readline(size) from position `at`.
PageReadline(text, at, size) ==
    LET rest == SubSeq(text, at + 1, Len(text))
        stop == {i \in 1..Len(rest) : rest[i] = PageBreak}
        len == IF stop = {} THEN Len(rest) ELSE CHOOSE i \in stop : \A j \in stop : i <= j
    IN SubSeq(rest, 1, IF len <= size THEN len ELSE size)

\* The file object's position is at; the loop ends with an empty chunk.
PageArtifact(text) ==
    LET turn(s) ==
            IF s.chunk = <<>> THEN s
            ELSE IF Len(s.chunk) > PageLine /\ Last(s.chunk) # PageBreak
            THEN LET more == PageReadline(text, s.at, PageLine) IN
                 [chunk |-> SubSeq(s.chunk, PageLine + 1, Len(s.chunk)) \o more,
                  at |-> s.at + Len(more),
                  out |-> s.out \o SubSeq(s.chunk, 1, PageLine) \o <<PageBreak>>]
            ELSE LET more == PageReadline(text, s.at, PageLine + 1) IN
                 [chunk |-> more, at |-> s.at + Len(more), out |-> s.out \o s.chunk]
        first == PageReadline(text, 0, PageLine + 1)
        state[n \in Nat] == IF n = 0 THEN [chunk |-> first, at |-> Len(first), out |-> <<>>]
                            ELSE turn(state[n - 1])
    IN state[Len(text) + 1].out

-----------------------------------------------------------------------------
(* read_text_range.  One turn of its loop looks at one line; it stops with   *)
(* the limit, at the end of the file, at a line the rest of the page cannot  *)
(* carry (left whole to the next page) and after a line that is cut because  *)
(* a page of its own cannot carry it.                                        *)
PageStart(offset) == [line |-> offset, shown |-> <<>>, cost |-> 0, stop |-> FALSE]

PageShow(p, line, cut, room) ==
    [line |-> p.line + 1,
     shown |-> Append(p.shown, [number |-> p.line, text |-> line, cut |-> cut]),
     cost |-> p.cost + (IF p.shown = <<>> THEN 0 ELSE PageSeparator) + PagePrefix
                     + (IF cut THEN room ELSE PageEscaped(line)),
     stop |-> cut]

PageRoom(p) ==
    PageBudget - p.cost - (IF p.shown = <<>> THEN 0 ELSE PageSeparator) - PagePrefix

\* The loop is over, or reading finds the end: behind a last line without a break it was
\* found with that line, before the room is looked at.
PageOver(lines, broken, p) ==
    \/ p.stop \/ Len(p.shown) = PageLimit
    \/ p.line > Len(lines) /\ (~broken \/ PageRoom(p) >= PageNotice)

\* Mutant: a line that does not fit is cut although a page of its own would hold it.
PageTurnCuts(lines, broken, p) ==
    IF PageOver(lines, broken, p) THEN p
    ELSE IF PageRoom(p) < PageNotice THEN [p EXCEPT !.stop = TRUE]
    ELSE PageShow(p, lines[p.line], PageEscaped(lines[p.line]) > PageRoom(p), PageRoom(p))

\* One turn of the loop.
PageTurn(lines, broken, p) ==
    LET fits == /\ PageEscaped(lines[p.line]) <= PageRoom(p)
                /\ Len(lines[p.line]) <= PageBudget - PagePrefix
    IN IF PageOver(lines, broken, p) THEN p
       ELSE IF PageRoom(p) < PageNotice \/ (~fits /\ p.shown # <<>>) THEN [p EXCEPT !.stop = TRUE]
       ELSE PageShow(p, lines[p.line], ~fits, PageRoom(p))

PageOf(lines, broken, offset) ==
    LET page[n \in Nat] ==
            IF n = 0 THEN PageStart(offset) ELSE PageTurn(lines, broken, page[n - 1])
    IN page[PageLimit + 1]

-----------------------------------------------------------------------------
PageInit ==
    /\ pageSource \in PageTexts
    /\ pageKind \in {"artifact", "file"}
    /\ pageFile = IF pageKind = "artifact" THEN PageArtifact(pageSource) ELSE pageSource
    /\ pageOffset = 1 /\ pageShown = <<>> /\ pageCost = 0

\* The reader asks for the page at the offset the last one named.  None is named at the
\* end of the file; a page that stops right behind the last line does not know it yet.
PageRead ==
    /\ pageOffset > 0
    /\ LET lines == PageLines(pageFile)
           broken == pageFile # <<>> /\ Last(pageFile) = PageBreak
           page == PageOf(lines, broken, pageOffset)
           eof == page.line > Len(lines) /\ ~(page.stop /\ broken)
       IN /\ pageShown' = pageShown \o page.shown
          /\ pageCost' = page.cost
          /\ pageOffset' = IF eof THEN 0 ELSE page.line
    /\ UNCHANGED <<pageSource, pageFile, pageKind>>

PageNext == PageRead

PageSpec == PageInit /\ [][PageNext]_pageVars

-----------------------------------------------------------------------------
\* The lines the reader should see: those of the text, in an artifact cut into pieces
\* that are all full but the last one.
PagePieces(line) ==
    LET n == IF line = <<>> THEN 1 ELSE (Len(line) + PageLine - 1) \div PageLine
    IN [k \in 1..n |-> SubSeq(line, (k - 1) * PageLine + 1, IF k = n THEN Len(line) ELSE k * PageLine)]

PageExpected ==
    LET lines == PageLines(pageSource)
    IN IF pageKind = "file" THEN lines
       ELSE FlattenSeq([i \in 1..Len(lines) |-> PagePieces(lines[i])])

\* A reader who follows the offsets sees every line of the text once, in order, and at the
\* end all of them; each page stays within its budget; a line is cut only when no page
\* could carry it, and in an artifact none is (write_text_artifact, read_text_range).
PageShowsAll ==
    LET expected == PageExpected IN
    /\ Len(pageShown) = IF pageOffset = 0 THEN Len(expected) ELSE pageOffset - 1
    /\ \A i \in 1..Len(pageShown) :
          /\ pageShown[i].number = i /\ pageShown[i].text = expected[i]
          /\ pageShown[i].cut <=> PageEscaped(expected[i]) > PageBudget - PagePrefix
          /\ pageKind = "artifact" => ~pageShown[i].cut
    /\ pageCost <= PageBudget

==============================================================================
