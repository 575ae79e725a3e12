------------------------------ MODULE SessionHost ------------------------------
(***************************************************************************)
(* ActiveSessionRegistry and ActiveSession (interfaces/session_host.py)    *)
(* for one session id, with the WebSocket handler of a page                *)
(* (interfaces/gui/routes/sessions.py) and the page's event cursor.        *)
(*                                                                         *)
(* Runtimes of the session are numbered.  Handlers run on one event loop,  *)
(* so an action is what happens between two awaits.  The Bridge behind a   *)
(* channel is reduced to the events of opening, of a turn or a refresh,    *)
(* and of a failure.                                                       *)
(***************************************************************************)
EXTENDS Integers, Sequences, FiniteSets, TLC

CONSTANTS
    Pages,          \* sockets of browser pages
    None,
    Limit,          \* EVENT_REPLAY_LIMIT
    MaxRuntimes, MaxConnects,   \* bounds
    MaxWork         \* bound: turns, refreshes and failures, all of the first runtime

ASSUME LimitAssumption == Limit \in Nat \ {0}
ASSUME BoundsAssumption == {MaxRuntimes, MaxConnects, MaxWork} \subseteq Nat

Runtimes == 1..MaxRuntimes

VARIABLES
    session,      \* the registry's entry: a runtime or 0
    closing,      \* the runtime whose release is under way (_closing), or 0
    closeStep,    \* ActiveSession.close in that task: "new", "waiting" or "cancel"
    created,      \* runtimes created
    rt,           \* ActiveSession objects
    inbox,        \* BridgeChannel._messages
    channel,      \* "none", "open", "asked" (close sent) or "finished"
    reader,       \* _read_bridge: "running", "closing" or "ended"
    work,         \* the Bridge: what it is doing
    page,         \* handlers and what their page knows
    sameTab,      \* whether the sockets are those of one browser page
    sends, connects, fatals

hostVars == <<session, closing, closeStep, created, rt, reader>>
bridgeVars == <<inbox, channel, work>>
counters == <<sameTab, sends, connects, fatals>>
vars == <<hostVars, bridgeVars, page, counters>>

\* ActiveSession.__init__: the snapshot is not ready before the first state.
NewRuntime ==
    [done |-> FALSE, closed |-> FALSE, ready |-> FALSE, pending |-> 0, refresh |-> FALSE,
     active |-> FALSE, failure |-> FALSE, owner |-> None, sub |-> None, cache |-> <<>>,
     seq |-> 0, resume |-> 0, checkpoint |-> 0]

\* ActiveSession.running.
Running(r) == ~rt[r].done /\ (rt[r].pending # 0 \/ rt[r].refresh \/ rt[r].active)
\* ActiveSession.attachable.
Attachable(r) == ~rt[r].done \/ rt[r].failure
\* The registry has a runtime to attach to.
Available == IF session = 0 THEN FALSE ELSE Attachable(session)

\* The attachment_id a socket opens with.
AttachmentOf(p) == IF sameTab THEN "tab" ELSE p

\* A socket that is not connected; of the page it knows how far its view of which
\* runtime goes, and the cursor it will open with.
Off(cursor, of, upto) ==
    [pc |-> "off", rt |-> 0, takeover |-> FALSE, attachOnly |-> FALSE, claimed |-> FALSE,
     fresh |-> FALSE, queue |-> <<>>, fatal |-> FALSE, cursor |-> cursor, of |-> of,
     upto |-> upto]

Init ==
    /\ session = 0 /\ closing = 0 /\ closeStep = "new" /\ created = 0
    /\ rt = [r \in Runtimes |-> NewRuntime]
    /\ inbox = [r \in Runtimes |-> <<>>]
    /\ channel = [r \in Runtimes |-> "none"]
    /\ reader = [r \in Runtimes |-> "running"]
    /\ work = [r \in Runtimes |-> [task |-> "opening", turn |-> 0, n |-> 0]]
    /\ page = [p \in Pages |-> Off(0, 0, 0)]
    /\ sameTab \in BOOLEAN
    /\ sends = 0 /\ connects = 0 /\ fatals = 0

\* Put messages into the subscriber's queue, if there is one.
Publish(r, ms) ==
    page' = [p \in Pages |-> IF p = rt[r].sub /\ page[p].pc = "attached"
                               THEN [page[p] EXCEPT !.queue = @ \o ms] ELSE page[p]]

End == [kind |-> "none"]

-----------------------------------------------------------------------------
(* The Bridge of a runtime.                                                *)

Event(r, i, kind, active, turn, whole) ==
    [n |-> work[r].n + i, kind |-> kind, active |-> active, turn |-> turn, whole |-> whole]

\* Messages wait for the reader; when it has left its loop nobody reads them.
Emits(r, es, task, turn) ==
    /\ inbox' = [inbox EXCEPT ![r] = IF reader[r] = "running" THEN @ \o es ELSE @]
    /\ work' = [work EXCEPT ![r] = [task |-> task, turn |-> turn, n |-> @.n + Len(es)]]

Alive(r) == channel[r] \in {"open", "asked"} /\ work[r].task # "dead"

\* session_ready with the transcript, and the first snapshot.
BridgeOpens(r) ==
    /\ Alive(r) /\ work[r].task = "opening"
    /\ Emits(r, <<Event(r, 1, "event", FALSE, 0, TRUE), Event(r, 2, "state", FALSE, 0, FALSE)>>,
             "idle", 0)
    /\ UNCHANGED <<hostVars, channel, page, counters>>

\* The work's first state; a turn's first delta follows.
BridgeStarts(r) ==
    /\ Alive(r)
    /\ LET state == Event(r, 1, "state", TRUE, work[r].turn, FALSE)
           delta == Event(r, 2, "event", FALSE, 0, FALSE)
       IN  \/ work[r].task = "turn" /\ Emits(r, <<state, delta>>, "working", work[r].turn)
           \/ work[r].task = "refresh" /\ Emits(r, <<state>>, "refreshing", 0)
    /\ UNCHANGED <<hostVars, channel, page, counters>>

\* The turn ends, perhaps cancelled before it started: idle state, then the
\* terminal event with the transcript.
BridgeEndsTurn(r) ==
    /\ Alive(r) /\ work[r].task \in {"turn", "working"}
    /\ Emits(r, <<Event(r, 1, "state", FALSE, 0, FALSE), Event(r, 2, "end", FALSE, 0, TRUE)>>,
             "idle", 0)
    /\ UNCHANGED <<hostVars, channel, page, counters>>

BridgeRefreshed(r) ==
    /\ Alive(r) /\ work[r].task = "refreshing"
    /\ Emits(r, <<Event(r, 1, "refreshed", FALSE, 0, FALSE)>>, "idle", 0)
    /\ UNCHANGED <<hostVars, channel, page, counters>>

BridgeFatal(r) ==
    /\ Alive(r)
    /\ r = 1 /\ sends + fatals < MaxWork
    /\ fatals' = fatals + 1
    /\ Emits(r, <<Event(r, 1, "fatal", FALSE, 0, FALSE)>>, "dead", 0)
    /\ UNCHANGED <<hostVars, channel, page, sameTab, sends, connects>>

\* channel_closed has been dispatched.
ChannelFinishes(r) ==
    /\ channel[r] = "asked" \/ (channel[r] = "open" /\ work[r].task = "dead")
    /\ channel' = [channel EXCEPT ![r] = "finished"]
    /\ inbox' = [inbox EXCEPT ![r] = IF reader[r] = "running" THEN Append(@, End) ELSE @]
    /\ work' = [work EXCEPT ![r] = [task |-> "dead", turn |-> 0, n |-> 0]]
    /\ UNCHANGED <<hostVars, page, counters>>

-----------------------------------------------------------------------------
(* _read_bridge.                                                           *)

AskClose(r) == channel' = [channel EXCEPT ![r] = IF @ = "open" THEN "asked" ELSE @]

\* A message: cursors, snapshot, pending work and cache.
Absorbed(r, e) ==
    LET state == e.kind \in {"state", "end", "refreshed", "fatal"}
        old == rt[r]
        known == state /\ (old.pending = 0 \/ e.turn = old.pending)
        terminal == e.kind \in {"end", "fatal"}
        kept == Append(old.cache, e)
    IN  [old EXCEPT
          !.seq = e.n,
          !.resume = IF e.kind = "fatal" THEN e.n - 1 ELSE e.n,
          !.active = IF state THEN e.active ELSE @,
          !.pending = IF known \/ terminal THEN 0 ELSE @,
          !.ready = @ \/ known \/ terminal,
          !.checkpoint = IF e.whole THEN e.n ELSE @,
          !.refresh = @ /\ e.kind \notin {"refreshed", "fatal"},
          !.failure = @ \/ e.kind = "fatal",
          !.cache = IF Len(kept) > Limit THEN SubSeq(kept, Len(kept) - Limit + 1, Len(kept))
                                         ELSE kept]

ReadMessage(r) ==
    /\ reader[r] = "running"
    /\ inbox[r] # <<>> /\ Head(inbox[r]).kind \notin {"none", "fatal"}
    /\ inbox' = [inbox EXCEPT ![r] = Tail(@)]
    /\ rt' = [rt EXCEPT ![r] = Absorbed(r, Head(inbox[r]))]
    /\ Publish(r, <<Head(inbox[r])>>)
    /\ UNCHANGED <<session, closing, closeStep, created, channel, reader, work, counters>>

\* fatal, or the end of the channel: the loop is left and the channel closed.
ReadEnd(r) ==
    /\ reader[r] = "running"
    /\ inbox[r] # <<>> /\ Head(inbox[r]).kind \in {"none", "fatal"}
    /\ inbox' = [inbox EXCEPT ![r] = <<>>]
    /\ LET e == Head(inbox[r])
           read == IF e = End THEN rt[r] ELSE Absorbed(r, e)
       IN  /\ rt' = [rt EXCEPT ![r] = [read EXCEPT !.done = TRUE, !.ready = TRUE, !.closed = TRUE]]
           /\ Publish(r, IF e = End THEN <<>> ELSE <<e>>)
    /\ IF rt[r].closed THEN UNCHANGED channel ELSE AskClose(r)
    /\ reader' = [reader EXCEPT ![r] = "closing"]
    /\ UNCHANGED <<session, closing, closeStep, created, work, counters>>

ReaderEnds(r) ==
    /\ reader[r] = "closing"
    /\ channel[r] = "finished"
    /\ reader' = [reader EXCEPT ![r] = "ended"]
    /\ Publish(r, <<End>>)
    /\ UNCHANGED <<session, closing, closeStep, created, rt, bridgeVars, counters>>

-----------------------------------------------------------------------------
(* release_idle, and the task that closes the runtime.                     *)

Release ==
    /\ session # 0
    /\ ~Running(session)
    /\ session' = 0
    /\ closing' = session
    /\ closeStep' = "new"
    /\ UNCHANGED <<created, rt, reader, bridgeVars, page, counters>>

\* ActiveSession.close waits for the channel only if it is the one to close it.
CloseStarts(r) ==
    /\ closing = r /\ closeStep = "new"
    /\ \/ /\ ~rt[r].closed
          /\ rt' = [rt EXCEPT ![r].closed = TRUE, ![r].done = TRUE]
          /\ AskClose(r)
          /\ closeStep' = "waiting"
       \/ /\ rt[r].closed
          /\ closeStep' = "cancel"
          /\ UNCHANGED <<rt, channel>>
    /\ UNCHANGED <<session, closing, created, reader, inbox, work, page, counters>>

\* The reader is cancelled and the subscriber told.
CloseEnds(r) ==
    /\ closing = r
    /\ closeStep = "cancel" \/ (closeStep = "waiting" /\ channel[r] = "finished")
    /\ reader' = [reader EXCEPT ![r] = "ended"]
    /\ rt' = [rt EXCEPT ![r].ready = TRUE]
    /\ Publish(r, <<End>>)
    /\ closing' = 0 /\ closeStep' = "new"
    /\ inbox' = [inbox EXCEPT ![r] = <<>>]
    /\ UNCHANGED <<session, created, channel, work, counters>>

-----------------------------------------------------------------------------
(* A page and its handler.                                                 *)

SetPage(p, new) == page' = [page EXCEPT ![p] = new]

\* A page that will not connect again is forgotten.
Closed(p) ==
    SetPage(p, IF connects < MaxConnects THEN Off(page[p].cursor, page[p].of, page[p].upto)
                                         ELSE Off(0, 0, 0))

\* A socket is opened with the cursor of its page; another socket of the same page
\* may not yet be known to be lost.  Pages are alike, so the first is any of them.
Connect(p) ==
    /\ page[p].pc = "off"
    /\ connects < MaxConnects
    /\ connects = 0 => p = CHOOSE q \in Pages : TRUE
    /\ connects' = connects + 1
    /\ \E q \in {q \in Pages : AttachmentOf(q) = AttachmentOf(p)}, takeover, attachOnly \in BOOLEAN :
          SetPage(p, [Off(page[q].cursor, page[q].of, page[q].upto) EXCEPT
                        !.pc = "opening", !.takeover = takeover, !.attachOnly = attachOnly])
    /\ UNCHANGED <<hostVars, bridgeVars, sameTab, sends, fatals>>

\* The page is loaded again: GET /api/sessions gives transcript and cursor.
Reload(p) ==
    /\ page[p].pc = "off"
    /\ page[p].of # 0
    /\ connects < MaxConnects
    /\ SetPage(p, IF Available THEN Off(rt[session].checkpoint, session, rt[session].checkpoint)
                               ELSE Off(0, 0, 0))
    /\ UNCHANGED <<hostVars, bridgeVars, counters>>

\* open_or_attach, which waits for a release of this session to end.
Attaching(p, r, fresh) ==
    SetPage(p, [page[p] EXCEPT !.pc = "attaching", !.attachOnly = FALSE, !.rt = r,
                  !.fresh = fresh, !.cursor = IF fresh THEN 0 ELSE @,
                  !.upto = IF page[p].of = r THEN @ ELSE 0, !.of = r])

OpenOrAttach(p) ==
    /\ page[p].pc = "opening"
    /\ closing = 0
    /\ Available
    /\ Attaching(p, session, FALSE)
    /\ UNCHANGED <<hostVars, bridgeVars, counters>>

\* attach_only and nothing to attach to.
OpenNothing(p) ==
    /\ page[p].pc = "opening"
    /\ closing = 0
    /\ ~Available
    /\ page[p].attachOnly
    /\ session' = 0
    /\ Closed(p)
    /\ UNCHANGED <<closing, closeStep, created, rt, reader, bridgeVars, counters>>

\* A new runtime on a new channel; open_channel raises for an id that is still open.
OpenNew(p) ==
    /\ page[p].pc = "opening"
    /\ closing = 0
    /\ ~Available
    /\ ~page[p].attachOnly
    /\ \/ /\ \E r \in Runtimes : channel[r] \in {"open", "asked"}
          /\ session' = 0
          /\ Closed(p)
          /\ UNCHANGED <<created, channel>>
       \/ /\ \A r \in Runtimes : channel[r] \notin {"open", "asked"}
          /\ created < MaxRuntimes
          /\ created' = created + 1
          /\ session' = created + 1
          /\ channel' = [channel EXCEPT ![created + 1] = "open"]
          /\ Attaching(p, created + 1, TRUE)
    /\ UNCHANGED <<closing, closeStep, rt, reader, inbox, work, counters>>

\* One round of ActiveSession.attach.
Replacing(p, r) == rt[r].owner \notin {None, AttachmentOf(p)}

Rejected(p, r) ==
    Replacing(p, r) /\ (page[p].claimed \/ (~page[p].takeover /\ rt[r].sub # None))

AttachRefused(p) ==
    LET r == page[p].rt IN
    /\ page[p].pc = "attaching" /\ rt[r].ready
    /\ Rejected(p, r)
    /\ Closed(p)
    /\ UNCHANGED <<hostVars, bridgeVars, counters>>

\* What the handler sends before it relays: missed events, then the snapshot
\* (the snapshot first when a fatal event is among them).
ReplayAfter(p, r, cursor) ==
    LET missed == SelectSeq(rt[r].cache, LAMBDA e : e.n > cursor)
        marked == [i \in DOMAIN missed |-> IF page[p].fresh THEN missed[i]
                                             ELSE missed[i] @@ [replayed |-> TRUE]]
        snapshot == <<[kind |-> "snapshot", n |-> rt[r].resume]>>
    IN  (CASE page[p].fresh -> marked
           [] ~page[p].fresh /\ (\E i \in DOMAIN missed : missed[i].kind = "fatal") -> snapshot \o marked
           [] OTHER -> marked \o snapshot)
        \o (IF rt[r].done THEN <<End>> ELSE <<>>)

\* Mutant: the replay starts one event late.
ReplayLate(p, r) == ReplayAfter(p, r, page[p].cursor + 1)

Replay(p, r) == ReplayAfter(p, r, page[p].cursor)

\* The handler subscribes and takes the replay. Events that have left the window are
\* lost to the page: its view (upto) goes on behind them.
AttachSubscribes(p) ==
    LET r == page[p].rt IN
    /\ page[p].pc = "attaching" /\ rt[r].ready
    /\ ~Rejected(p, r)
    /\ rt[r].sub = None
    /\ rt' = [rt EXCEPT ![r].owner = AttachmentOf(p), ![r].sub = p]
    /\ SetPage(p, [page[p] EXCEPT !.pc = "attached", !.queue = Replay(p, r),
                     !.upto = IF rt[r].cache = <<>> \/ @ >= Head(rt[r].cache).n THEN @
                              ELSE Head(rt[r].cache).n - 1,
                     !.takeover = FALSE, !.claimed = FALSE, !.fresh = FALSE])
    /\ UNCHANGED <<session, closing, closeStep, created, reader, bridgeVars, counters>>

\* Another handler is subscribed: it is told to leave, and this one waits until it
\* has (_subscriber_detached).
AttachWaitsWith(p, waits) ==
    LET r == page[p].rt
        word == IF Replacing(p, r) THEN <<[kind |-> "replaced"], End>> ELSE <<End>>
    IN  /\ page[p].pc = "attaching" /\ rt[r].ready
        /\ ~Rejected(p, r)
        /\ rt[r].sub # None
        /\ rt' = [rt EXCEPT ![r].owner = AttachmentOf(p),
                            ![r].sub = IF waits THEN @ ELSE None]
        /\ page' = [q \in Pages |->
              CASE q = p -> [page[p] EXCEPT !.pc = IF waits THEN "waiting" ELSE @, !.claimed = TRUE]
                [] q = rt[r].sub /\ page[q].pc = "attached" -> [page[q] EXCEPT !.queue = @ \o word]
                [] OTHER -> page[q]]
        /\ UNCHANGED <<session, closing, closeStep, created, reader, bridgeVars, counters>>

\* Mutant: a takeover does not wait for the page before.
AttachWaitsNot(p) == AttachWaitsWith(p, FALSE)

AttachWaits(p) == AttachWaitsWith(p, TRUE)

\* The page receives a message.
Receive(p) ==
    /\ page[p].pc = "attached" /\ page[p].queue # <<>>
    /\ LET m == Head(page[p].queue)
           rest == [page[p] EXCEPT !.queue = Tail(@)]
       IN  SetPage(p,
             CASE m.kind \in {"none", "replaced"} -> [rest EXCEPT !.pc = "detaching", !.queue = <<>>]
               [] m.kind = "snapshot" -> [rest EXCEPT !.cursor = m.n]
               [] OTHER -> [rest EXCEPT !.cursor = IF m.kind = "state" /\ "replayed" \in DOMAIN m
                                                     THEN @ ELSE m.n,
                                        !.upto = IF m.whole \/ m.n = @ + 1 THEN m.n ELSE @,
                                        !.fatal = @ \/ m.kind = "fatal"])
    /\ UNCHANGED <<hostVars, bridgeVars, counters>>

\* The socket is lost.
Disconnect(p) ==
    /\ page[p].pc = "attached"
    /\ SetPage(p, [page[p] EXCEPT !.pc = "detaching", !.queue = <<>>])
    /\ UNCHANGED <<hostVars, bridgeVars, counters>>

\* The handler's finally: mark_failure_delivered and detach, which wakes whoever
\* waits for this subscriber ...
DetachWith(p, delivered) ==
    LET r == page[p].rt IN
    /\ page[p].pc = "detaching"
    /\ rt' = [rt EXCEPT ![r].failure = @ /\ ~delivered, ![r].sub = None]
    /\ page' = [q \in Pages |->
          CASE q = p -> [page[p] EXCEPT !.pc = "removing"]
            [] q # p /\ page[q].rt = r /\ page[q].pc = "waiting" -> [page[q] EXCEPT !.pc = "attaching"]
            [] OTHER -> page[q]]
    /\ UNCHANGED <<session, closing, closeStep, created, reader, bridgeVars, counters>>

\* Mutant: a failure counts as delivered when any handler leaves.
DetachDelivered(p) == DetachWith(p, TRUE)

\* Mutant: the event that a takeover waits for is not set.
DetachSilently(p) ==
    /\ page[p].pc = "detaching"
    /\ rt' = [rt EXCEPT ![page[p].rt].failure = @ /\ ~page[p].fatal, ![page[p].rt].sub = None]
    /\ SetPage(p, [page[p] EXCEPT !.pc = "removing"])
    /\ UNCHANGED <<session, closing, closeStep, created, reader, bridgeVars, counters>>

Detach(p) == DetachWith(p, page[p].fatal)

\* ... and remove_if_finished.
RemoveFinished(p) ==
    LET r == page[p].rt IN
    /\ page[p].pc = "removing"
    /\ session' = IF ~Attachable(r) /\ session = r THEN 0 ELSE session
    /\ Closed(p)
    /\ UNCHANGED <<closing, closeStep, created, rt, reader, bridgeVars, counters>>

\* ActiveSession.send of a turn or a refresh, from the page that owns the
\* attachment and has no turn under way.
SendWorkWith(p, task, marked) ==
    LET r == page[p].rt IN
    /\ page[p].pc = "attached"
    /\ rt[r].owner = AttachmentOf(p)
    /\ ~Running(r)
    /\ r = 1 /\ sends + fatals < MaxWork
    /\ sends' = sends + 1
    /\ rt' = [rt EXCEPT ![r].ready = FALSE,
                        ![r].pending = IF task = "turn" THEN sends + 1 ELSE @,
                        ![r].refresh = @ \/ (task = "refresh" /\ marked)]
    /\ work' = [work EXCEPT ![r] = IF @.task = "idle"
                                     THEN [@ EXCEPT !.task = task,
                                                    !.turn = IF task = "turn" THEN sends + 1 ELSE 0]
                                     ELSE @]
    /\ UNCHANGED <<session, closing, closeStep, created, reader, inbox, channel, page,
                   sameTab, connects, fatals>>

\* Mutant: a refresh is not marked as pending.
SendWorkUnmarked(p, task) == SendWorkWith(p, task, FALSE)

SendWork(p, task) == SendWorkWith(p, task, TRUE)

Next ==
    \/ Release
    \/ \E r \in Runtimes :
         \/ BridgeOpens(r) \/ BridgeStarts(r) \/ BridgeEndsTurn(r)
         \/ BridgeRefreshed(r) \/ BridgeFatal(r) \/ ChannelFinishes(r)
         \/ ReadMessage(r) \/ ReadEnd(r) \/ ReaderEnds(r) \/ CloseStarts(r) \/ CloseEnds(r)
    \/ \E p \in Pages :
         \/ Connect(p) \/ Reload(p) \/ OpenOrAttach(p) \/ OpenNothing(p) \/ OpenNew(p)
         \/ AttachRefused(p) \/ AttachSubscribes(p) \/ AttachWaits(p)
         \/ Receive(p) \/ Disconnect(p) \/ Detach(p) \/ RemoveFinished(p)
         \/ \E task \in {"turn", "refresh"} : SendWork(p, task)

Spec == Init /\ [][Next]_vars

\* The Bridges work, and the event loop runs some task as long as one can go on;
\* nobody is forced to connect, send, release or fail.
BridgeStep(r) ==
    \/ BridgeOpens(r) \/ BridgeStarts(r) \/ BridgeEndsTurn(r) \/ BridgeRefreshed(r)
    \/ ChannelFinishes(r)
ReaderStep(r) == ReadMessage(r) \/ ReadEnd(r) \/ ReaderEnds(r)
CloseStep(r) == CloseStarts(r) \/ CloseEnds(r)
HandlerStep(p) ==
    \/ OpenOrAttach(p) \/ OpenNothing(p) \/ OpenNew(p)
    \/ AttachRefused(p) \/ AttachSubscribes(p) \/ AttachWaits(p)
    \/ Receive(p) \/ Detach(p) \/ RemoveFinished(p)
LoopStep ==
    \/ \E r \in Runtimes : ReaderStep(r) \/ CloseStep(r)
    \/ \E p \in Pages : HandlerStep(p)

FairSpec == Spec /\ WF_vars(\E r \in Runtimes : BridgeStep(r)) /\ WF_vars(LoopStep)

-----------------------------------------------------------------------------
(* Properties.                                                             *)

\* A runtime feeds one page: a takeover waits until the page before has left
\* (ActiveSession._subscriber_detached).
OnePage ==
    \A p, q \in Pages :
        /\ page[p].pc \in {"attached", "detaching"} /\ page[q].pc \in {"attached", "detaching"}
        /\ page[p].rt = page[q].rt
        => p = q

\* A page that has caught up has seen every event of its runtime, or a transcript
\* that holds it, although it lost its socket or was replaced in between; only what
\* had left the replay window (ActiveSession._events) when it attached is missing.
NoGap ==
    \A p \in Pages : LET r == page[p].rt IN
        page[p].pc = "attached" /\ page[p].queue = <<>> /\ ~rt[r].failure
            => page[p].upto >= rt[r].seq

\* What a release finds the Bridge doing, and what becomes of a failure.
ReleasesNoWork ==
    session # 0 /\ closing' = session =>
        work[session].task \in {"opening", "idle", "dead"}

KeepsFailure ==
    \A r \in Runtimes : rt[r].failure /\ ~rt'[r].failure =>
        \E p \in Pages : page[p].rt = r /\ page[p].fatal

\* A release never hits a runtime whose Bridge has a turn or a refresh to do: the
\* cached phase and the pending marks cover the time until its first state.
NoWorkReleased == [][ReleasesNoWork]_vars

\* Pages are fed soundly: one page at a time, without a gap (session_host.py, the
\* first two above).
PagesSound == OnePage /\ NoGap

\* The host lets nothing go too soon: neither a runtime with work to do, nor a failure
\* that no page was shown (session_host.py: release_idle, mark_failure_delivered).
HostKeeps == [][ReleasesNoWork /\ KeepsFailure]_vars

\* A page that connects is attached, refused or told that there is no runtime, in
\* whatever order takeovers, failures and releases come, unless a message reached
\* its runtime after that had ended (send clears _snapshot_ready).
AttachReturns ==
    \A p \in Pages :
        LET waits == page[p].pc \in {"opening", "attaching", "waiting"}
            sentLate == page[p].pc = "attaching" /\ rt[page[p].rt].done /\ ~rt[page[p].rt].ready
        IN  waits ~> (~waits \/ sentLate)
=============================================================================
