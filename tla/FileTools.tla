------------------------------ MODULE FileTools ------------------------------
(***************************************************************************)
(* The tools that look through the workspace page by page:                 *)
(* search_files (agent_core/tools/builtin/search_files.py), which counts   *)
(* matches, and list_directory (list_directory.py), which goes on after a  *)
(* name.  A reader follows next_offset or next_cursor until there is none. *)
(*                                                                         *)
(* A match costs the characters of its path and its lines in the result;   *)
(* names are numbers, in their order.  A search walks one tree; while a    *)
(* directory is listed, entries come and go.  A call that times out or is  *)
(* cancelled returns nothing and is left out: the reader repeats it.       *)
(***************************************************************************)
EXTENDS Naturals, Sequences, FiniteSets, SequencesExt

CONSTANTS
    FndEntries,     \* bound on what a search meets
    FndLines,       \* bound on the lines of a file
    FndCosts,       \* costs of a line that matches
    FndPath,        \* cost of a path
    FndBudget,      \* cost a result may have (MAX_TOOL_RESULT_CHARS, less its envelope)
    FndLimit,       \* limit: matches or entries of a page
    FndNames,       \* bound: how many names there are
    FndMaxChanges   \* bound on the entries that come and go

ASSUME FndAssumption ==
    /\ FndEntries \in Nat /\ FndLines \in Nat /\ FndCosts \subseteq Nat \ {0}
    /\ FndPath \in Nat \ {0} /\ FndBudget \in Nat /\ FndPath <= FndBudget
    /\ FndLimit \in Nat \ {0} /\ FndNames \in Nat /\ FndMaxChanges \in Nat

VARIABLES
    fndTool,        \* content or files (search_files), or list
    fndWalk,        \* what the search meets, in order
    fndOffset,      \* the matches to skip next
    fndShown,       \* the matches of all pages
    fndCost,        \* cost of the last page
    fndSkipped,     \* files the last page skipped
    fndPresent,     \* the names in the directory
    fndAlways,      \* the names that were there all the time
    fndCursor,      \* the last name of the last page
    fndListed,      \* the names of all pages
    fndChanges,
    fndPages,       \* how many pages were read
    fndOver         \* there is no next page

fndVars == <<fndTool, fndWalk, fndOffset, fndShown, fndCost, fndSkipped, fndPresent,
             fndAlways, fndCursor, fndListed, fndChanges, fndPages,
             fndOver>>

(***************************************************************************)
(* search_files                                                            *)
(***************************************************************************)

\* A file with its lines (0: no match), one that is too large or cannot be read as
\* text, a link or an entry that cannot be looked at, and what contributes nothing:
\* a directory that is not entered, a file outside the glob.
FndMet ==
    [kind : {"file"}, lines : UNION {[1 .. n -> FndCosts \cup {0}] : n \in 0 .. FndLines}]
        \cup [kind : {"binary", "link", "excluded"}, lines : {<<>>}]

FndSkip == [file |-> 0, line |-> 0, cost |-> 0]

\* What entry n contributes: its matches, or a file that is skipped.
FndItems(tool, walk, n) ==
    CASE walk[n].kind = "excluded" -> <<>>
      [] walk[n].kind = "link" -> <<FndSkip>>
      [] walk[n].kind \in {"file", "binary"} /\ tool = "files" ->
            <<[file |-> n, line |-> 0, cost |-> FndPath]>>
      [] walk[n].kind = "binary" /\ tool = "content" -> <<FndSkip>>
      [] walk[n].kind = "file" /\ tool = "content" ->
            SelectSeq([i \in DOMAIN walk[n].lines |->
                          [file |-> n, line |-> i, cost |-> FndPath + walk[n].lines[i]]],
                      LAMBDA m : m.cost > FndPath)

FndAll(tool, walk) == FlattenSeq([n \in DOMAIN walk |-> FndItems(tool, walk, n)])

\* Mutant: a match that fits no page is left to the next one.
FndTakeOrLeave(p, m, offset) ==
    IF p.more THEN p
    ELSE IF m = FndSkip THEN [p EXCEPT !.skipped = @ + 1]
    ELSE IF p.seen < offset THEN [p EXCEPT !.seen = @ + 1]
    ELSE IF Len(p.shown) >= FndLimit \/ p.cost + m.cost > FndBudget THEN [p EXCEPT !.more = TRUE]
    ELSE [p EXCEPT !.seen = @ + 1, !.cost = @ + m.cost,
                   !.shown = Append(@, [file |-> m.file, line |-> m.line, cut |-> FALSE])]

\* The loop of execute looks at one match: it is skipped, ends the page, or is
\* shown, cut to the budget when it alone exceeds it.
FndTake(p, m, offset) ==
    LET full == p.cost + m.cost > FndBudget
    IN  IF p.more THEN p
        ELSE IF m = FndSkip THEN [p EXCEPT !.skipped = @ + 1]
        ELSE IF p.seen < offset THEN [p EXCEPT !.seen = @ + 1]
        ELSE IF Len(p.shown) >= FndLimit \/ (full /\ p.shown # <<>>) THEN [p EXCEPT !.more = TRUE]
        ELSE [p EXCEPT !.seen = @ + 1, !.cost = IF full THEN FndBudget ELSE @ + m.cost,
                       !.shown = Append(@, [file |-> m.file, line |-> m.line, cut |-> full])]

FndPage(offset) ==
    FoldLeft(LAMBDA p, m : FndTake(p, m, offset),
             [seen |-> 0, shown |-> <<>>, cost |-> 0, skipped |-> 0, more |-> FALSE],
             FndAll(fndTool, fndWalk))

FndSearch ==
    /\ fndTool # "list" /\ ~fndOver
    /\ LET page == FndPage(fndOffset)
       IN  /\ fndShown' = fndShown \o page.shown
           /\ fndCost' = page.cost
           /\ fndSkipped' = page.skipped
           /\ fndOffset' = fndOffset + Len(page.shown)
           /\ fndOver' = ~page.more
    /\ fndPages' = fndPages + 1
    /\ UNCHANGED <<fndTool, fndWalk, fndPresent, fndAlways, fndCursor, fndListed, fndChanges>>

(***************************************************************************)
(* list_directory                                                          *)
(***************************************************************************)

\* Mutant: the entry of the cursor is listed again.
FndAfterFrom(cursor) == SetToSortSeq({n \in fndPresent : n >= cursor}, <)

\* _matching_entries, in the order of nsmallest.
FndAfter(cursor) == SetToSortSeq({n \in fndPresent : n > cursor}, <)

FndList ==
    /\ fndTool = "list" /\ ~fndOver
    /\ LET names == FndAfter(fndCursor)
           page == SubSeq(names, 1, IF Len(names) < FndLimit THEN Len(names) ELSE FndLimit)
       IN  /\ fndListed' = fndListed \o page
           /\ fndOver' = (Len(names) <= FndLimit)
           /\ fndCursor' = IF fndOver' THEN fndCursor ELSE Last(page)
    /\ fndPages' = fndPages + 1
    /\ UNCHANGED <<fndTool, fndWalk, fndOffset, fndShown, fndCost, fndSkipped, fndPresent,
                   fndAlways, fndChanges>>

\* An entry comes or goes between two pages.
FndChange(n) ==
    /\ fndTool = "list" /\ ~fndOver
    /\ fndChanges < FndMaxChanges
    /\ fndChanges' = fndChanges + 1
    /\ fndPresent' = IF n \in fndPresent THEN fndPresent \ {n} ELSE fndPresent \cup {n}
    /\ fndAlways' = fndAlways \ {n}
    /\ UNCHANGED <<fndTool, fndWalk, fndOffset, fndShown, fndCost, fndSkipped, fndCursor,
                   fndListed, fndPages, fndOver>>

FndInit ==
    /\ fndTool \in {"content", "files", "list"}
    /\ fndWalk \in IF fndTool = "list" THEN {<<>>}
                   ELSE UNION {[1 .. n -> FndMet] : n \in 0 .. FndEntries}
    /\ fndPresent \in IF fndTool = "list" THEN SUBSET (1 .. FndNames) ELSE {{}}
    /\ fndAlways = fndPresent
    /\ fndOffset = 0 /\ fndShown = <<>> /\ fndCost = 0 /\ fndSkipped = 0
    /\ fndCursor = 0 /\ fndListed = <<>> /\ fndChanges = 0
    /\ fndPages = 0 /\ fndOver = FALSE

FndNext == FndSearch \/ FndList \/ \E n \in 1 .. FndNames : FndChange(n)

FndSpec == FndInit /\ [][FndNext]_fndVars

(***************************************************************************)
(* Properties                                                              *)
(***************************************************************************)

FndMatches == SelectSeq(FndAll(fndTool, fndWalk), LAMBDA m : m # FndSkip)

\* A reader who follows the offsets sees every match once, in the order of the
\* walk, and at the end all of them; a page stays within its budget; a match is
\* cut only when no page could carry it; a page that has a next one shows a match,
\* so that the reader gets to the end; and the last page has counted every file
\* that was skipped (SearchFilesTool.execute).
FndSearchShowsAll ==
    fndTool # "list" =>
        /\ Len(fndShown) = fndOffset /\ fndOffset <= Len(FndMatches)
        /\ \A i \in DOMAIN fndShown :
              /\ fndShown[i].file = FndMatches[i].file /\ fndShown[i].line = FndMatches[i].line
              /\ fndShown[i].cut <=> FndMatches[i].cost > FndBudget
        /\ ~fndOver => fndPages <= Len(fndShown)
        /\ fndCost <= FndBudget
        /\ fndOver => /\ Len(fndShown) = Len(FndMatches)
                      /\ fndSkipped = Len(FndAll(fndTool, fndWalk)) - Len(FndMatches)

\* A listing names no entry twice and goes forward with every page, and at the end
\* it has named every entry that was there all the time, whatever came and went
\* between its pages (ListDirectoryTool.execute).
FndListShowsAll ==
    fndTool = "list" =>
        /\ \A i, j \in DOMAIN fndListed : i < j => fndListed[i] < fndListed[j]
        /\ ~fndOver => fndPages <= Len(fndListed)
        /\ fndOver => fndAlways \subseteq ToSet(fndListed)

\* The pages of the two tools show all there is (the two above).
FndShowsAll == FndSearchShowsAll /\ FndListShowsAll
=============================================================================
