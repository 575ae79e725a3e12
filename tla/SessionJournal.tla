--------------------------- MODULE SessionJournal ---------------------------
(***************************************************************************)
(* The journal of one session: Session (agent_core/session.py), the file   *)
(* and metadata of JsonlSessionStore (agent_core/session_store.py), and    *)
(* the runtimes that open it (agent_runtime/session_controller.py).        *)
(*                                                                         *)
(* A section under the store's file lock is one action.  A write can be    *)
(* cut short by a crash, at a line or inside one, or raise: Python keeps   *)
(* what it could not write in the file object's buffer and writes it with  *)
(* the next record.  Message texts, arguments and timestamps are left out; *)
(* so are workspace moves, deletion and the searches, which only read.     *)
(***************************************************************************)
EXTENDS Naturals, Sequences, SequencesExt

CONSTANTS
    Runtimes,      \* runtimes that may open the session
    Hints,         \* turn ids chosen by clients
    Fresh,         \* bound: ids uuid4 can still return
    Tools, Jobs,   \* tool calls and background jobs
    Presets, Default,
    Exclusive,     \* TRUE on Windows: the open file admits one writer
    None,
    MaxEvents,     \* bound: events in the file
    MaxCrashes, MaxFaults,
    MaxUnopened    \* bound: scheduled runs whose open_session raises

ASSUME ExclusiveAssumption == Exclusive \in BOOLEAN
ASSUME BoundsAssumption == {MaxEvents, MaxCrashes, MaxFaults, MaxUnopened} \subseteq Nat
ASSUME NoneAssumption ==
    /\ Default \in Presets
    /\ None \notin Runtimes \cup Hints \cup Fresh \cup Tools \cup Jobs \cup Presets

Turns == Hints \cup Fresh
Work == Tools \cup Jobs

VARIABLES
    lines,     \* the complete lines of the journal file
    tail,      \* what follows the last newline
    meta,      \* session.json, or None
    phase,     \* how far each runtime's session is
    mem,       \* Session.journal of each runtime
    base,      \* the preset read from the metadata by load
    cur,       \* Session._current_turn_id
    buffer,    \* events a failed write left in the file object
    fork,      \* the session forked from this one
    crashes, faults, unopened

vars == <<lines, tail, meta, phase, mem, base, cur, buffer, fork, crashes, faults, unopened>>

Event(s, k, i) == [seq |-> s, kind |-> k, id |-> i]
Garbage == Event(0, "garbage", None)
\* A torn stub is the beginning of a record; a bare one lacks only its newline.
Stub(f, e, r) == [form |-> f, event |-> e, owner |-> r]
NoTail == Stub("none", Garbage, None)

\* _read_journal_records: what load yields.  A torn last line is skipped.
Log == IF tail.form = "bare" THEN Append(lines, tail.event) ELSE lines
Readable == Garbage \notin ToSet(lines)

LastSeq(journal) == IF journal = <<>> THEN 0 ELSE Last(journal).seq
Has(journal, k, i) == \E n \in DOMAIN journal : journal[n].kind = k /\ journal[n].id = i

\* apply_event, for the statuses: what was started and not ended since.
Live(journal, i) ==
    \E n \in DOMAIN journal :
        /\ journal[n].kind = "start" /\ journal[n].id = i
        /\ \A m \in (n + 1)..Len(journal) : journal[m].kind = "end" => journal[m].id # i

\* apply_event, for the preset: the last one journalled, else the given one.
PresetIn(journal, p) ==
    FoldLeft(LAMBDA q, e : IF e.kind = "preset" THEN e.id ELSE q, p, journal)

-----------------------------------------------------------------------------
(* session.json.                                                           *)

NewMeta == [active |-> FALSE, titled |-> FALSE, source |-> "initial", preset |-> Default]

\* _update_session_metadata.
Noted(m, e) ==
    [m EXCEPT !.preset = IF e.kind = "preset" THEN e.id ELSE @,
              !.active = @ \/ e.kind # "preset",
              !.titled = @ \/ (m.source = "initial" /\ e.kind = "message")]
Updated(m, events) == FoldLeft(Noted, m, events)

Init ==
    /\ lines = <<>>
    /\ tail = NoTail
    /\ meta = None
    /\ phase = [r \in Runtimes |-> "off"]
    /\ mem = [r \in Runtimes |-> <<>>]
    /\ base = [r \in Runtimes |-> Default]
    /\ cur = [r \in Runtimes |-> None]
    /\ buffer = [r \in Runtimes |-> <<>>]
    /\ fork = None
    /\ crashes = 0 /\ faults = 0 /\ unopened = 0

-----------------------------------------------------------------------------
(* Writing to the file.                                                    *)

\* What append adds to: the file as it is, or (append_events, for a session
\* that could not be opened) as _prepare_journal_append leaves it, with a torn
\* record cut off and a bare one completed.
Prepared(r) == phase[r] = "failing"
OldLines(r) == IF Prepared(r) THEN Log ELSE lines
Mine(r) == Prepared(r) \/ tail.form = "none" \/ tail.owner = r

\* Runtime r writes the first k of out, and form f of the next one.  What
\* follows another writer's unfinished line makes one unreadable line with it.
Put(r, out, k, f, owner) ==
    /\ lines' = OldLines(r) \o
         IF Mine(r) \/ k = 0 THEN SubSeq(out, 1, k) ELSE <<Garbage>> \o SubSeq(out, 2, k)
    /\ tail' = CASE f # "none" -> Stub(f, out[k + 1], owner)
                 [] f = "none" /\ k = 0 /\ ~Prepared(r) -> tail
                 [] OTHER -> NoTail

\* Where a write can stop: after a line, inside one or before its newline, and
\* never before what r has written of it already.
Cuts(r, out) ==
    {<<k, f>> \in (0..Len(out)) \X {"none", "torn", "bare"} :
        /\ k = Len(out) => f = "none"
        /\ k = 0 /\ tail.form = "bare" /\ tail.owner = r => f = "none"}

\* Everything a dead process loses.
Lost(r) ==
    /\ phase' = [phase EXCEPT ![r] = "off"]
    /\ mem' = [mem EXCEPT ![r] = <<>>]
    /\ cur' = [cur EXCEPT ![r] = None]
    /\ buffer' = [buffer EXCEPT ![r] = <<>>]

\* Session._event and Session.recover: the sink (open_journal's append: write,
\* flush, fsync, then the metadata) comes before the session's own state.
Written(r, events, turn, next) ==
    LET out == buffer[r] \o events IN
    /\ Put(r, out, Len(out), "none", r)
    /\ meta' = Updated(meta, events)
    /\ mem' = [mem EXCEPT ![r] = @ \o events]
    /\ cur' = [cur EXCEPT ![r] = turn]
    /\ buffer' = [buffer EXCEPT ![r] = <<>>]
    /\ phase' = [phase EXCEPT ![r] = next]
    /\ UNCHANGED <<crashes, faults>>

\* Mutant: the session applies an event whose write raised.
WriteRaisesApplied(r, events) ==
    /\ faults < MaxFaults
    /\ faults' = faults + 1
    /\ mem' = [mem EXCEPT ![r] = @ \o events]
    /\ UNCHANGED <<lines, tail, buffer, phase, meta, cur, crashes>>

\* The write or the metadata update raises; open_session then closes the file.
WriteRaises(r, events) ==
    LET out == buffer[r] \o events IN
    /\ faults < MaxFaults
    /\ faults' = faults + 1
    /\ \E cut \in Cuts(r, out) :
          /\ Put(r, out, cut[1], cut[2], r)
          /\ buffer' = [buffer EXCEPT ![r] =
                          IF Prepared(r) THEN <<>> ELSE SubSeq(out, cut[1] + 1, Len(out))]
    /\ phase' = [phase EXCEPT ![r] = IF @ = "loaded" THEN "closing" ELSE @]
    /\ UNCHANGED <<meta, mem, cur, crashes>>

\* The process dies in the write or before the metadata update.
WriteDies(r, events) ==
    LET out == buffer[r] \o events IN
    /\ crashes < MaxCrashes
    /\ crashes' = crashes + 1
    /\ \E cut \in Cuts(r, out) : Put(r, out, cut[1], cut[2], None)
    /\ Lost(r)
    /\ UNCHANGED <<meta, faults>>

AppendEvents(r, events, turn, next) ==
    /\ Written(r, events, turn, next) \/ WriteRaises(r, events) \/ WriteDies(r, events)
    /\ UNCHANGED <<base, fork, unopened>>

\* The runtimes that have the file open.
Holders == {r \in Runtimes : phase[r] \notin {"off", "failing"}}

Emit(r, kind, id, turn) ==
    /\ Len(Log) < MaxEvents
    /\ Prepared(r) /\ Exclusive => Holders = {}
    /\ AppendEvents(r, <<Event(LastSeq(mem[r]) + 1, kind, id)>>, turn, phase[r])

-----------------------------------------------------------------------------
(* SessionRuntimeController.open_session, session_permissions and close.   *)

\* open_journal, up to the open file.
OpenJournal(r) ==
    /\ phase[r] = "off"
    /\ Exclusive => Holders = {}
    /\ meta' = IF meta = None THEN NewMeta ELSE meta
    /\ phase' = [phase EXCEPT ![r] = "open"]
    /\ UNCHANGED <<lines, tail, mem, base, cur, buffer, fork, crashes, faults, unopened>>

\* Mutants: the tail is left as it is; a record without its newline is cut off.
PrepareNot(r) ==
    /\ phase[r] = "open"
    /\ phase' = [phase EXCEPT ![r] = "prepared"]
    /\ UNCHANGED <<lines, tail, meta, mem, base, cur, buffer, fork, crashes, faults, unopened>>
PrepareCuts(r) ==
    /\ phase[r] = "open"
    /\ tail' = NoTail
    /\ phase' = [phase EXCEPT ![r] = "prepared"]
    /\ UNCHANGED <<lines, meta, mem, base, cur, buffer, fork, crashes, faults, unopened>>

\* _prepare_journal_append, under the lock again.
Prepare(r) ==
    /\ phase[r] = "open"
    /\ lines' = Log
    /\ tail' = NoTail
    /\ phase' = [phase EXCEPT ![r] = "prepared"]
    /\ UNCHANGED <<meta, mem, base, cur, buffer, fork, crashes, faults, unopened>>

\* store.load(recover=False): it raises on an unreadable line.
Load(r) ==
    /\ phase[r] = "prepared"
    /\ IF Readable
       THEN /\ mem' = [mem EXCEPT ![r] = Log]
            /\ base' = [base EXCEPT ![r] = meta.preset]
            /\ phase' = [phase EXCEPT ![r] = "loaded"]
       ELSE /\ phase' = [phase EXCEPT ![r] = "closing"]
            /\ UNCHANGED <<mem, base>>
    /\ UNCHANGED <<lines, tail, meta, cur, buffer, fork, crashes, faults, unopened>>

\* Mutants: the facts share a number; turns are left out.
RecoveredSameSeq(journal) ==
    LET live(S) == SetToSeq({i \in S : Live(journal, i)})
        ids == live(Turns) \o live(Tools) \o live(Jobs)
    IN  [n \in DOMAIN ids |-> Event(LastSeq(journal) + 1, "end", ids[n])]
RecoveredWork(journal) ==
    LET live(S) == SetToSeq({i \in S : Live(journal, i)})
        ids == live(Tools) \o live(Jobs)
    IN  [n \in DOMAIN ids |-> Event(LastSeq(journal) + n, "end", ids[n])]

\* session.recover: one batch of facts for what a dead runtime left open.
Recovered(journal) ==
    LET live(S) == SetToSeq({i \in S : Live(journal, i)})
        ids == live(Turns) \o live(Tools) \o live(Jobs)
    IN  [n \in DOMAIN ids |-> Event(LastSeq(journal) + n, "end", ids[n])]

Recover(r) ==
    /\ phase[r] = "loaded"
    /\ IF Recovered(mem[r]) = <<>>
       THEN /\ phase' = [phase EXCEPT ![r] = "ready"]
            /\ UNCHANGED <<lines, tail, meta, mem, base, cur, buffer, fork, crashes, faults,
                           unopened>>
       ELSE AppendEvents(r, Recovered(mem[r]), None, "ready")

\* session_permissions: another session's preset is changed without recovery.
Visit(r) ==
    /\ phase[r] = "loaded"
    /\ phase' = [phase EXCEPT ![r] = "visiting"]
    /\ UNCHANGED <<lines, tail, meta, mem, base, cur, buffer, fork, crashes, faults, unopened>>

\* Closing the file writes what its buffer still holds.
Close(r) ==
    /\ phase[r] \in {"ready", "visiting", "closing", "failing"}
    /\ cur[r] = None \/ phase[r] = "failing"
    /\ Put(r, buffer[r], Len(buffer[r]), "none", r)
    /\ Lost(r)
    /\ UNCHANGED <<meta, base, fork, crashes, faults, unopened>>

\* ScheduledTurnRunner: open_session raised before there was a session, so the
\* failure is journalled from a new one that has not read the file.
OpenRaises(r) ==
    /\ phase[r] = "off"
    /\ unopened < MaxUnopened
    /\ Exclusive => Holders = {}
    /\ unopened' = unopened + 1
    /\ meta' = IF meta = None THEN NewMeta ELSE meta
    /\ phase' = [phase EXCEPT ![r] = "failing"]
    /\ UNCHANGED <<lines, tail, mem, base, cur, buffer, fork, crashes, faults>>

Crash(r) ==
    /\ phase[r] # "off"
    /\ crashes < MaxCrashes
    /\ crashes' = crashes + 1
    /\ Lost(r)
    /\ tail' = IF tail.owner = r THEN [tail EXCEPT !.owner = None] ELSE tail
    /\ UNCHANGED <<lines, meta, base, fork, faults, unopened>>

-----------------------------------------------------------------------------
(* What a turn journals.                                                   *)

Open(r) == phase[r] \in {"ready", "failing"}

\* begin_turn: a client's id is used unless the session already knows it; the id
\* of a scheduled run is new.
TurnId(r, h, id) ==
    IF Has(mem[r], "start", h) \/ phase[r] = "failing"
    THEN id \in Fresh /\ \A q \in Runtimes : ~Has(lines \o mem[q] \o buffer[q], "start", id)
    ELSE id = h

BeginTurn(r, h) ==
    /\ Open(r) /\ cur[r] = None
    /\ \E id \in Turns : TurnId(r, h, id) /\ Emit(r, "start", id, id)

AddUserMessage(r) ==
    /\ Open(r) /\ cur[r] # None
    /\ ~Has(mem[r], "message", cur[r])
    /\ Emit(r, "message", cur[r], cur[r])

\* model_completed, the other messages, hooks, compaction.
Note(r) ==
    /\ phase[r] = "ready" /\ cur[r] # None
    /\ Emit(r, "note", None, cur[r])

\* tool_started and job_submitted, tool_finished and job_finished.
StartWork(r, w) ==
    /\ phase[r] = "ready" /\ cur[r] # None
    /\ ~Has(mem[r], "start", w)
    /\ Emit(r, "start", w, cur[r])

EndWork(r, w) ==
    /\ phase[r] = "ready" /\ cur[r] # None
    /\ Live(mem[r], w)
    /\ Emit(r, "end", w, cur[r])

FinishTurn(r) ==
    /\ Open(r) /\ cur[r] # None
    /\ Emit(r, "end", cur[r], None)

SetPreset(r, p) ==
    /\ phase[r] \in {"ready", "visiting"}
    /\ p # PresetIn(mem[r], base[r])
    /\ Emit(r, "preset", p, cur[r])

\* set_title with expected_source "initial", from the title task.
SetTitle ==
    /\ meta # None
    /\ meta.source = "initial"
    /\ meta' = [meta EXCEPT !.titled = TRUE, !.source = "generated"]
    /\ UNCHANGED <<lines, tail, phase, mem, base, cur, buffer, fork, crashes, faults, unopened>>

-----------------------------------------------------------------------------
(* fork_session.                                                           *)

\* The journal before the turn of the latest user message.
ForkPrefix ==
    LET last == CHOOSE n \in DOMAIN Log :
                  /\ Log[n].kind = "message"
                  /\ \A m \in (n + 1)..Len(Log) : Log[m].kind # "message"
        start == CHOOSE n \in DOMAIN Log :
                  /\ Log[n].kind = "start" /\ Log[n].id = Log[last].id
                  /\ \A m \in 1..(n - 1) : Log[m].kind = "start" => Log[m].id # Log[last].id
    IN  SubSeq(Log, 1, start - 1)

\* Mutant: the fork is listed before it is whole.
ForkMetaListed == [meta EXCEPT !.titled = FALSE, !.source = "initial"]

\* Editing the first message starts a conversation that has no title yet.
ForkMeta ==
    LET named == \E n \in DOMAIN ForkPrefix : ForkPrefix[n].kind = "message" IN
    [meta EXCEPT !.active = FALSE,
                 !.titled = @ /\ named,
                 !.source = IF named THEN @ ELSE "initial"]

\* The metadata, then the events, then the metadata they imply; a crash in
\* between leaves the first of them.  The route refuses a running session.
Fork ==
    /\ fork = None
    /\ Readable
    /\ \E n \in DOMAIN Log : Log[n].kind = "message"
    /\ \A r \in Runtimes : cur[r] = None
    /\ \/ /\ fork' = [log |-> ForkPrefix, meta |-> Updated(ForkMeta, ForkPrefix)]
          /\ UNCHANGED crashes
       \/ /\ crashes < MaxCrashes
          /\ crashes' = crashes + 1
          /\ \E k \in 0..Len(ForkPrefix) :
                fork' = [log |-> SubSeq(ForkPrefix, 1, k), meta |-> ForkMeta]
    /\ UNCHANGED <<lines, tail, meta, phase, mem, base, cur, buffer, faults, unopened>>

-----------------------------------------------------------------------------
Next ==
    \/ \E r \in Runtimes :
         \/ OpenJournal(r) \/ Prepare(r) \/ Load(r) \/ Recover(r) \/ Visit(r)
         \/ Close(r) \/ OpenRaises(r) \/ Crash(r)
         \/ AddUserMessage(r) \/ Note(r) \/ FinishTurn(r)
         \/ \E h \in Hints : BeginTurn(r, h)
         \/ \E w \in Work : StartWork(r, w) \/ EndWork(r, w)
         \/ \E p \in Presets : SetPreset(r, p)
    \/ SetTitle
    \/ Fork

Spec == Init /\ [][Next]_vars

-----------------------------------------------------------------------------
(* Properties.                                                             *)

\* However writes are cut short and by whatever they are followed, the journal
\* can be read: an incomplete record is only ever the last one
\* (_prepare_journal_append, _read_journal_records).
JournalReadable == Readable

\* A record that load has returned, or would return, is never lost, changed or
\* overtaken: repairs, crashes and failed writes only ever add to the log.
LogOnlyGrows == [][IsPrefix(Log, Log')]_vars

\* What a runtime believes to have happened is on disk, in the same order, so
\* nothing it showed or acted on disappears in a crash (Session._event calls the
\* sink before it touches its own state).
MemoryIsDurable ==
    \A r \in Runtimes :
        LET known == {n \in DOMAIN Log : Log[n] \in ToSet(mem[r])} IN
        /\ ToSet(mem[r]) \subseteq ToSet(Log)
        /\ faults = 0 /\ phase[r] \in {"ready", "visiting"} => mem[r] = Log
        /\ \A a, b \in DOMAIN mem[r] : a < b =>
             \E m, n \in known : m < n /\ Log[m] = mem[r][a] /\ Log[n] = mem[r][b]

\* The events of a journal are numbered 1, 2, 3, ... over all its runtimes.
SeqIsPosition ==
    faults = 0 /\ unopened = 0 => \A n \in DOMAIN Log : Log[n].seq = n

\* A runtime that has opened the session finds nothing of an earlier one still
\* running: every turn, tool call and job left open by a crash has been given its
\* recovery fact, and only the current turn can be live.
NothingLeftRunning ==
    \A r \in Runtimes : phase[r] = "ready" /\ faults = 0 =>
        /\ \A t \in Turns : Live(mem[r], t) => t = cur[r]
        /\ cur[r] # None => Live(Log, cur[r])

\* A fork that is listed is whole and quiet: it ends before the edited turn, and
\* no turn in it is still running; a half-copied one is never listed.
ForkIsWhole ==
    fork # None /\ fork.meta.active /\ faults = 0 /\ unopened = 0 =>
        /\ IsPrefix(fork.log, Log)
        /\ Log[Len(fork.log) + 1].kind = "start" /\ Log[Len(fork.log) + 1].id \in Turns
        /\ \A t \in Turns : ~Live(fork.log, t)

\* The journal is sound: it stays readable and numbered, memory holds nothing
\* that is not on disk, recovery ends what was running, and a fork is whole
\* (session_store.py, session.py, the five above).
JournalSound ==
    JournalReadable /\ MemoryIsDurable /\ SeqIsPosition /\ NothingLeftRunning /\ ForkIsWhole
=============================================================================
