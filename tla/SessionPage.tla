------------------------------ MODULE SessionPage ------------------------------
(***************************************************************************)
(* A browser page on one session: the useSessionRuntime hook and its       *)
(* SessionSocket (interfaces/gui/src), the WebSocket route that serves it  *)
(* (interfaces/gui/routes/sessions.py) and the Bridge's events.            *)
(*                                                                         *)
(* A callback of the browser runs to its end, with the continuations of    *)
(* the promises it settles, before the next one: an action is one          *)
(* callback.  The page has at most one socket that it still listens to;    *)
(* one that it let go can stay subscribed at the host ("stale").  Another  *)
(* page can take the session over.  A turn is named turn-1, turn-2, ... by *)
(* each page, so the turns of two pages share names.  A transcript is the  *)
(* sequence of its user messages, <<author, number>>.                      *)
(***************************************************************************)
EXTENDS Naturals, Sequences, FiniteSets, SequencesExt

CONSTANTS
    WebMaxSockets,      \* bounds: sockets of the page,
    WebMaxWork,         \* messages of both pages, questions, steers, stops, changes,
    WebMaxOther         \* messages of the other page

VARIABLES
    webPage,      \* the hook's refs and state
    webSocket,    \* the SessionSocket the page holds
    webHost,      \* the ActiveSession: its events, subscriber and owner
    webBridge,    \* the Bridge: phase, turn, open question, commands, transcript
    webFate,      \* the promise of each message: unsent, waiting, confirmed, refused
    webUsed       \* counters of the bounds

webVars == <<webPage, webSocket, webHost, webBridge, webFate, webUsed>>

\* runtimeIsActive.
WebActive(phase) == phase \in {"starting", "running", "waiting"}

\* No item: no bubble of a message under way, no text.
WebNothing == <<>>

WebNoSocket ==
    [state |-> "none", synced |-> FALSE, phase |-> "inactive", queued |-> <<>>,
     unconfirmed |-> {}, in |-> <<>>, out |-> <<>>, after |-> 0, attachOnly |-> FALSE,
     takeover |-> FALSE, created |-> FALSE]

\* There is room for one more of what WebMaxWork bounds.
WebMoreWork == webUsed.turns + webUsed.other + webUsed.extra < WebMaxWork

\* A message to the page.
WebEvent(type, turn, text, b, seq) ==
    [type |-> type, turn |-> turn, text |-> text, seq |-> seq, replayed |-> FALSE,
     phase |-> b.phase, current |-> b.turn, approval |-> b.approval, items |-> b.items]

\* The events whose message carries a snapshot of the runtime.
WebCarriesState(m) == m.type \in {"state", "changed", "checkpoint", "ended"}

\* new SessionSocket: the opening frame holds the cursor of this moment.
WebConnected(p, attachOnly, takeover) ==
    [page |-> [p EXCEPT !.attaching = TRUE, !.socket = TRUE],
     sock |-> [WebNoSocket EXCEPT !.state = "connecting", !.after = p.cursor,
                                  !.attachOnly = attachOnly, !.takeover = takeover]]

WebInit ==
    /\ webPage = [phase |-> "inactive", active |-> 0, pending |-> WebNothing, items |-> <<>>,
                  approval |-> 0, saving |-> FALSE, replaced |-> FALSE, socket |-> FALSE,
                  timer |-> FALSE, cursor |-> 0, steers |-> 0, attaching |-> FALSE,
                  selected |-> FALSE, uploading |-> FALSE]
    /\ webSocket = WebNoSocket
    /\ webHost = [log |-> <<>>, subscriber |-> "none", owner |-> "none", pendingTurn |-> 0]
    /\ webBridge = [open |-> "none", phase |-> "inactive", turn |-> 0, approval |-> 0,
                    queue |-> <<>>, items |-> <<>>, accepted |-> {}]
    /\ webFate = [t \in 1..WebMaxWork |-> "unsent"]
    /\ webUsed = [turns |-> 0, sockets |-> 0, other |-> 0, extra |-> 0]

(***************************************************************************)
(* The Bridge and the host.                                                *)
(***************************************************************************)

\* EventStream.publish and ActiveSession._read_bridge: b is the Bridge after the
\* step, h the host and k the socket before it, ms the events, <<type, turn, text>>.
WebPublish(b, h, k, ms) ==
    LET new == [i \in 1..Len(ms) |->
                  WebEvent(ms[i][1], ms[i][2], ms[i][3], b, Len(h.log) + i)]
        settles(m) == m.type = "ended" \/ (WebCarriesState(m) /\ m.current = h.pendingTurn)
    IN  /\ webBridge' = b
        /\ webHost' = [h EXCEPT !.log = @ \o new,
                                !.pendingTurn = IF \E m \in ToSet(new) : settles(m) THEN 0 ELSE @]
        /\ webSocket' = IF h.subscriber = "page" THEN [k EXCEPT !.in = @ \o new] ELSE k

\* ActiveSession._snapshot_ready.
WebReady == webHost.pendingTurn = 0
            /\ \E m \in ToSet(webHost.log) : WebCarriesState(m) \/ m.type = "openFailed"

\* Bridge.open_session: the opening emits the stored session and its state, or fails.
WebOpens ==
    /\ webBridge.open = "opening"
    /\ \/ WebPublish([webBridge EXCEPT !.open = "open"], webHost, webSocket,
                     << <<"ready", 0, WebNothing>>, <<"state", 0, WebNothing>> >>)
       \/ WebPublish([webBridge EXCEPT !.open = "failed"], webHost, webSocket,
                     << <<"openFailed", 0, WebNothing>> >>)
    /\ UNCHANGED <<webPage, webFate, webUsed>>

\* Bridge.serve takes the next command: a turn begins, or the model changes.
WebServe ==
    /\ webBridge.open = "open" /\ webBridge.turn = 0 /\ webBridge.queue # <<>>
    /\ LET c == Head(webBridge.queue)
           b == [webBridge EXCEPT !.queue = Tail(@)]
       IN  IF c.type = "turn"
           THEN WebPublish([b EXCEPT !.phase = "running", !.turn = c.turn,
                                     !.items = Append(@, c.text)],
                           webHost, webSocket,
                           << <<"state", 0, WebNothing>>, <<"checkpoint", c.turn, WebNothing>> >>)
           ELSE WebPublish([b EXCEPT !.phase = "inactive"], webHost, webSocket,
                           << <<"changed", 0, WebNothing>>, <<"state", 0, WebNothing>> >>)
    /\ UNCHANGED <<webPage, webFate, webUsed>>

\* Bridge.request_permission: the state that waits, then the request.
WebAsks ==
    /\ webBridge.phase = "running" /\ WebMoreWork
    /\ webUsed' = [webUsed EXCEPT !.extra = @ + 1]
    /\ WebPublish([webBridge EXCEPT !.phase = "waiting", !.approval = webUsed.extra + 1],
                  webHost, webSocket,
                  << <<"state", 0, WebNothing>>, <<"approval", 0, WebNothing>> >>)
    /\ UNCHANGED <<webPage, webFate>>

\* The end of Bridge.run_turn: the idle state, then the terminal event.
WebEnds ==
    /\ webBridge.phase = "running"
    /\ WebPublish([webBridge EXCEPT !.phase = "idle", !.turn = 0], webHost, webSocket,
                  << <<"state", 0, WebNothing>>, <<"ended", webBridge.turn, WebNothing>> >>)
    /\ UNCHANGED <<webPage, webFate, webUsed>>

\* Bridge.submit and Bridge._route_cancel: what one command of a page does.
WebSubmitted(c, h, k) ==
    LET b == webBridge
        answers == c.turn = IF c.type = "answer" THEN b.approval ELSE b.turn
    IN  CASE c.type = "turn" ->
               WebPublish([b EXCEPT !.queue = Append(@, c), !.accepted = @ \cup {c.text}],
                          [h EXCEPT !.pendingTurn = c.turn], k,
                          << <<"received", c.turn, WebNothing>> >>)
          [] c.type = "change" -> WebPublish([b EXCEPT !.queue = Append(@, c)], h, k, <<>>)
          [] c.type = "steer" ->
               IF c.turn = b.turn
               THEN WebPublish([b EXCEPT !.items = Append(@, c.text)], h, k,
                               << <<"steerApplied", c.turn, c.text>> >>)
               ELSE WebPublish(b, h, k, << <<"steerRejected", c.turn, c.text>> >>)
          [] OTHER ->
               IF answers /\ b.approval # 0
               THEN WebPublish([b EXCEPT !.phase = "running", !.approval = 0], h, k,
                               << <<"state", 0, WebNothing>> >>)
               ELSE WebPublish(b, h, k, <<>>)

\* _relay.browser_to_bridge: the next command of the page that owns the session.
WebRelay ==
    /\ webSocket.state = "open" /\ webSocket.out # <<>> /\ webHost.subscriber = "page"
    /\ WebSubmitted(Head(webSocket.out), webHost, [webSocket EXCEPT !.out = Tail(@)])
    /\ UNCHANGED <<webPage, webFate, webUsed>>

\* Another page takes the session over: the page is told, its handler ends.  The
\* handler that opened the runtime was the first to wait for it, and attaches first.
WebOtherTakes ==
    /\ webBridge.open = "open" /\ WebReady /\ webHost.owner # "other"
    /\ ~(webSocket.state = "connecting" /\ webSocket.created)
    /\ WebMoreWork
    /\ webHost' = [webHost EXCEPT !.owner = "other", !.subscriber = "other"]
    /\ webSocket' =
         IF webHost.subscriber = "page"
         THEN [webSocket EXCEPT !.out = <<>>, !.state = IF @ = "open" THEN "dead" ELSE @,
                 !.in = @ \o << WebEvent("replaced", 0, WebNothing, webBridge, 0),
                                WebEvent("close", 0, WebNothing, webBridge, 0) >>]
         ELSE webSocket
    /\ UNCHANGED <<webPage, webBridge, webFate, webUsed>>

\* The other page sends a message, and its socket closes some time.
WebOtherSends ==
    /\ webHost.subscriber = "other" /\ WebMoreWork /\ webUsed.other < WebMaxOther
    /\ webUsed' = [webUsed EXCEPT !.other = @ + 1]
    /\ LET n == webUsed.other + 1
       IN  WebSubmitted([type |-> "turn", turn |-> n, text |-> <<"other", n>>], webHost, webSocket)
    /\ UNCHANGED <<webPage, webFate>>

\* ActiveSession.detach of a socket the page does not listen to.
WebDetach ==
    /\ webHost.subscriber \in {"other", "stale"}
    /\ webHost' = [webHost EXCEPT !.subscriber = "none"]
    /\ UNCHANGED <<webPage, webSocket, webBridge, webFate, webUsed>>

(***************************************************************************)
(* The WebSocket route.                                                    *)
(***************************************************************************)

\* The current snapshot, as the host sends it after a replay.
WebSnapshot == WebEvent("state", 0, WebNothing, webBridge, Len(webHost.log))

\* What a socket that attaches to a running session gets: the events after its
\* cursor, marked, then the snapshot.
WebReplay(events) ==
    [i \in 1..Len(events) |-> [events[i] EXCEPT !.replayed = TRUE]] \o << WebSnapshot >>

\* run_session, ActiveSessionRegistry.open_or_attach: there is no runtime.
WebOpenRuntime ==
    /\ webSocket.state = "connecting" /\ webBridge.open = "none"
    /\ IF webSocket.attachOnly
       THEN /\ webSocket' =
                 [webSocket EXCEPT !.state = "dead",
                    !.in = << WebEvent("state", 0, WebNothing, webBridge, 0),
                              WebEvent("close", 0, WebNothing, webBridge, 0) >>]
            /\ UNCHANGED webBridge
       ELSE /\ webBridge' = [webBridge EXCEPT !.open = "opening"]
            /\ webSocket' = [webSocket EXCEPT !.created = TRUE]
    /\ UNCHANGED <<webPage, webHost, webFate, webUsed>>

\* ActiveSession.attach, then the replay.  A socket of the same page takes the place
\* of an older one; a session another page holds is only given to a takeover.
WebAttach ==
    /\ webSocket.state = "connecting" /\ webBridge.open \in {"open", "failed"} /\ WebReady
    /\ LET events == SubSeq(webHost.log, IF webSocket.created THEN 1 ELSE webSocket.after + 1,
                            Len(webHost.log))
           end == WebEvent("close", 0, WebNothing, webBridge, 0)
       IN  IF webHost.owner = "other" /\ webHost.subscriber # "none" /\ ~webSocket.takeover
           THEN /\ webSocket' = [webSocket EXCEPT !.state = "dead",
                     !.in = << WebEvent("replaced", 0, WebNothing, webBridge, 0), end >>]
                /\ UNCHANGED <<webHost, webBridge>>
           ELSE IF webBridge.open = "failed"
           THEN /\ webSocket' = [webSocket EXCEPT !.state = "dead", !.in = << Last(webHost.log), end >>]
                /\ webBridge' = [webBridge EXCEPT !.open = "none"]
                /\ webHost' = [webHost EXCEPT !.log = <<>>, !.owner = "none"]
           ELSE /\ webSocket' = [webSocket EXCEPT !.state = "open",
                     !.in = IF webSocket.created THEN events ELSE WebReplay(events)]
                /\ webHost' = [webHost EXCEPT !.subscriber = "page", !.owner = "page"]
                /\ UNCHANGED webBridge
    /\ UNCHANGED <<webPage, webFate, webUsed>>

\* The connection breaks: what was under way is lost, the page hears of it later.
WebDrops ==
    /\ webSocket.state \in {"connecting", "open"}
    /\ webSocket' = [webSocket EXCEPT !.state = "dead", !.out = <<>>,
                       !.in = << WebEvent("close", 0, WebNothing, webBridge, 0) >>]
    /\ webHost' = [webHost EXCEPT !.subscriber = IF @ = "page" THEN "stale" ELSE @]
    /\ UNCHANGED <<webPage, webBridge, webFate, webUsed>>


(***************************************************************************)
(* SessionSocket: x is the page and its socket.                            *)
(***************************************************************************)

\* The messages whose promise is still open.
WebWaiting(k) == k.unconfirmed \cup {c.turn : c \in {d \in ToSet(k.queued) : d.type = "turn"}}

\* SessionSocket.dispatch: a change of configuration is conditional on the phase.
WebDispatch(x, c) ==
    IF c.type = "change" /\ WebActive(x.sock.phase) THEN [x EXCEPT !.page.saving = FALSE]
    ELSE [x EXCEPT !.sock.out = IF x.sock.state = "open" THEN Append(@, c) ELSE @,
                   !.sock.phase = IF c.type = "turn" THEN "starting" ELSE @,
                   !.sock.unconfirmed = IF c.type = "turn" THEN @ \cup {c.turn} ELSE @]

\* SessionSocket.send and sendUserTurn, on a socket that is not closing.
WebSend(x, c) ==
    IF x.sock.synced THEN WebDispatch(x, c)
    ELSE [x EXCEPT !.sock.queued = Append(@, c)]

\* The catch of submitMessage, when the promise of the message is rejected.
WebRefused(p) ==
    [p EXCEPT !.pending = WebNothing, !.active = 0, !.phase = "inactive", !.timer = FALSE]

\* Mutant: a close forgets the messages that were never sent.
WebRejectSent(x) ==
    /\ webPage' = IF x.sock.unconfirmed = {} THEN x.page ELSE WebRefused(x.page)
    /\ webFate' = [t \in DOMAIN webFate |->
                     IF t \in x.sock.unconfirmed THEN "refused" ELSE webFate[t]]

\* rejectUnconfirmedTurns, and what the rejected promise does to the page.
WebReject(x) ==
    /\ webPage' = IF WebWaiting(x.sock) = {} THEN x.page ELSE WebRefused(x.page)
    /\ webFate' = [t \in DOMAIN webFate |->
                     IF t \in WebWaiting(x.sock) THEN "refused" ELSE webFate[t]]

(***************************************************************************)
(* The hook's handlers.                                                    *)
(***************************************************************************)

\* user_turn_received: the bubble of the turn under way becomes part of the transcript.
WebOnReceived(p, m) ==
    IF m.turn = p.active /\ p.pending # WebNothing
    THEN [p EXCEPT !.items = Append(@, p.pending), !.pending = WebNothing,
                   !.phase = "starting", !.cursor = m.seq]
    ELSE [p EXCEPT !.cursor = m.seq]

\* runtime_state: an old one only describes an earlier moment.
WebOnState(p, m) ==
    IF m.replayed THEN p
    ELSE [p EXCEPT !.cursor = m.seq, !.attaching = FALSE, !.replaced = FALSE, !.phase = m.phase,
                   !.active = IF p.pending = WebNothing THEN m.current ELSE @,
                   !.approval = m.approval]

\* endTurn, and the transcript of the terminal event.
WebOnEnded(p, m) ==
    [p EXCEPT !.cursor = m.seq, !.items = m.items, !.approval = 0, !.active = 0, !.steers = 0]

\* The other events that the page folds.
WebOnEvent(p, m) ==
    LET q == [p EXCEPT !.cursor = m.seq]
        fewer == [q EXCEPT !.steers = IF @ = 0 THEN 0 ELSE @ - 1]
    IN  CASE m.type \in {"ready", "checkpoint"} -> [q EXCEPT !.items = m.items]
          [] m.type = "approval" -> [q EXCEPT !.approval = m.approval]
          [] m.type = "changed" -> IF m.replayed THEN q ELSE [q EXCEPT !.saving = FALSE]
          [] m.type = "steerApplied" -> [fewer EXCEPT !.items = Append(@, m.text)]
          [] m.type = "steerRejected" -> fewer

\* onMessage, for the messages that leave the socket in place.
WebOnMessage(p, m) ==
    CASE m.type = "received" -> WebOnReceived(p, m)
      [] m.type = "state" -> WebOnState(p, m)
      [] m.type = "ended" -> WebOnEnded(p, m)
      [] OTHER -> WebOnEvent(p, m)

\* attachment_replaced: the page lets its socket go and offers to take over.
WebOnReplaced(p, m) ==
    [p EXCEPT !.saving = FALSE, !.socket = FALSE, !.replaced = TRUE, !.attaching = FALSE,
              !.approval = 0, !.phase = m.phase]

\* session_open_failed.
WebOnOpenFailed(p) ==
    [p EXCEPT !.saving = FALSE, !.attaching = FALSE, !.approval = 0, !.phase = "inactive",
              !.cursor = 0]

\* Mutant: a lost connection leaves the changes of settings pending.
WebOnCloseOnly(p) ==
    [p EXCEPT !.socket = FALSE, !.attaching = FALSE,
              !.timer = @ \/ (WebActive(p.phase) /\ ~p.replaced)]

\* onClose: while a turn runs, the page comes back after a second.
WebOnClose(p) ==
    [p EXCEPT !.socket = FALSE, !.attaching = FALSE, !.saving = FALSE,
              !.timer = @ \/ (WebActive(p.phase) /\ ~p.replaced)]

\* SessionSocket.onmessage: the page's handler, the confirmation, then the commands
\* that waited for the first current snapshot.
WebTake(m) ==
    LET k == [webSocket EXCEPT !.in = Tail(@),
                !.phase = IF WebCarriesState(m) /\ ~m.replayed THEN m.phase ELSE @,
                !.unconfirmed = IF m.type = "received" THEN @ \ {m.turn} ELSE @]
        x == [page |-> WebOnMessage(webPage, m), sock |-> k]
        synced == [x EXCEPT !.sock.synced = TRUE, !.sock.queued = <<>>]
        y == IF m.type = "state" /\ ~m.replayed /\ ~k.synced
             THEN FoldLeft(WebDispatch, synced, k.queued) ELSE x
    IN  /\ webPage' = y.page
        /\ webSocket' = y.sock
        /\ webFate' = [t \in DOMAIN webFate |->
                         IF m.type = "received" /\ t = m.turn /\ t \in webSocket.unconfirmed
                         THEN "confirmed" ELSE webFate[t]]

\* The browser delivers the next message, or the end of the connection.
WebReceive ==
    /\ webSocket.in # <<>>
    /\ LET m == Head(webSocket.in)
       IN  CASE m.type = "close" ->
                  /\ WebReject([page |-> WebOnClose(webPage), sock |-> webSocket])
                  /\ webSocket' = WebNoSocket
             [] m.type = "replaced" ->
                  /\ WebReject([page |-> WebOnReplaced(webPage, m), sock |-> webSocket])
                  /\ webSocket' = WebNoSocket
             [] m.type = "openFailed" ->
                  /\ WebReject([page |-> WebOnOpenFailed(webPage), sock |-> webSocket])
                  /\ webSocket' = [webSocket EXCEPT !.in = Tail(@), !.state = "closing",
                                     !.synced = FALSE, !.queued = <<>>, !.unconfirmed = {}]
             [] OTHER -> WebTake(m)
    /\ UNCHANGED <<webHost, webBridge, webUsed>>

(***************************************************************************)
(* The user and the page's effects.                                        *)
(***************************************************************************)

\* socketRef.current ?? connect().
WebHeld(p) ==
    IF p.socket THEN [page |-> p, sock |-> webSocket] ELSE WebConnected(p, FALSE, FALSE)

\* A new socket is within the bound.
WebMayConnect == webUsed.sockets < WebMaxSockets

WebCount(field, connects) ==
    webUsed' = [webUsed EXCEPT ![field] = @ + 1, !.sockets = IF connects THEN @ + 1 ELSE @]

\* composerConnectionGate: the user can send.
WebMaySend(p) ==
    /\ p.selected /\ ~p.attaching /\ ~p.uploading /\ ~p.saving /\ ~p.replaced
    /\ p.approval = 0 /\ p.pending = WebNothing

\* submitMessage from the bubble on: the message goes to the socket the page has now.
WebSubmitNow(p) ==
    LET t == webUsed.turns + 1
        c == [type |-> "turn", turn |-> t, text |-> <<"page", t>>]
        x == WebHeld([p EXCEPT !.pending = c.text, !.phase = "starting", !.active = t])
        y == WebSend(x, c)
    IN  /\ WebMoreWork /\ (p.socket \/ WebMayConnect)
        /\ WebCount("turns", ~p.socket)
        /\ IF x.sock.state = "closing"
           THEN /\ webPage' = WebRefused(x.page)
                /\ webFate' = [webFate EXCEPT ![t] = "refused"]
                /\ UNCHANGED webSocket
           ELSE /\ webPage' = y.page
                /\ webSocket' = y.sock
                /\ webFate' = [webFate EXCEPT ![t] = "waiting"]
        /\ UNCHANGED <<webHost, webBridge>>

\* submitMessage while no turn runs; with files, the upload comes first.
WebSubmit ==
    /\ WebMaySend(webPage) /\ ~WebActive(webPage.phase)
    /\ \/ WebSubmitNow(webPage)
       \/ /\ WebMoreWork
          /\ webPage' = [webPage EXCEPT !.uploading = TRUE]
          /\ UNCHANGED <<webSocket, webHost, webBridge, webFate, webUsed>>

\* The upload ends: the message goes out without another look at the phase, or an
\* error is shown.
WebUploaded ==
    /\ webPage.uploading
    /\ \/ WebSubmitNow([webPage EXCEPT !.uploading = FALSE])
       \/ /\ webPage' = [webPage EXCEPT !.uploading = FALSE]
          /\ UNCHANGED <<webSocket, webHost, webBridge, webFate, webUsed>>

\* A command on the socket the page has, if it has one.
WebCommand(p, c) ==
    LET x == [page |-> p, sock |-> webSocket]
        y == IF p.socket /\ webSocket.state # "closing" THEN WebSend(x, c) ELSE x
    IN  webPage' = y.page /\ webSocket' = y.sock /\ UNCHANGED <<webHost, webBridge, webFate>>

\* submitMessage while a turn runs.
WebSteer ==
    /\ WebMaySend(webPage) /\ WebActive(webPage.phase) /\ webPage.active # 0
    /\ WebMoreWork /\ WebCount("extra", FALSE)
    /\ WebCommand([webPage EXCEPT !.steers = @ + 1],
                  [type |-> "steer", turn |-> webPage.active, text |-> <<"steer", webUsed.extra + 1>>])

\* respondToApproval.
WebAnswer ==
    /\ webPage.approval # 0
    /\ WebCommand([webPage EXCEPT !.approval = 0],
                  [type |-> "answer", turn |-> webPage.approval, text |-> WebNothing])
    /\ UNCHANGED webUsed

\* stop.
WebStop ==
    /\ WebActive(webPage.phase) /\ webPage.active # 0
    /\ WebMoreWork /\ WebCount("extra", FALSE)
    /\ WebCommand(webPage, [type |-> "cancel", turn |-> webPage.active, text |-> WebNothing])

\* changeProvider: the controls stay usable while the page attaches.
WebChange ==
    /\ webPage.selected /\ ~webPage.replaced /\ webPage.pending = WebNothing
    /\ WebMoreWork /\ (webPage.socket \/ WebMayConnect)
    /\ WebCount("extra", ~webPage.socket)
    /\ LET x == WebHeld([webPage EXCEPT !.saving = TRUE])
           y == IF x.sock.state = "closing" THEN x
                ELSE WebSend(x, [type |-> "change", turn |-> 0, text |-> WebNothing])
       IN  webPage' = y.page /\ webSocket' = y.sock
    /\ UNCHANGED <<webHost, webBridge, webFate>>

\* The page connects by itself: it is selected, the session is known to run in the
\* background, a takeover is asked for, or the pause after a lost connection is over.
WebConnect ==
    LET p == webPage
        goes(q, attachOnly, takeover) ==
            LET x == WebConnected(q, attachOnly, takeover)
            IN  webPage' = x.page /\ webSocket' = x.sock
    IN  /\ ~p.socket /\ WebMayConnect
        /\ \/ ~p.selected /\ ~p.replaced /\ goes([p EXCEPT !.selected = TRUE], FALSE, FALSE)
           \/ WebActive(webBridge.phase) /\ ~p.replaced /\ goes(p, ~p.selected, FALSE)
           \/ p.replaced /\ ~p.attaching /\ goes(p, TRUE, TRUE)
           \/ p.timer /\ WebActive(p.phase) /\ ~p.replaced /\ goes([p EXCEPT !.timer = FALSE], TRUE, FALSE)
        /\ webUsed' = [webUsed EXCEPT !.sockets = @ + 1]
        /\ UNCHANGED <<webHost, webBridge, webFate>>

\* The user looks at another session, or comes back to this one without a new socket.
WebSelect ==
    /\ ~webPage.selected => (webPage.socket \/ webPage.replaced)
    /\ webPage' = [webPage EXCEPT !.selected = ~@]
    /\ UNCHANGED <<webSocket, webHost, webBridge, webFate, webUsed>>

\* A page that is not selected lets an idle session's socket go.
WebLetGo ==
    /\ ~webPage.selected /\ webPage.socket /\ ~WebActive(webPage.phase)
    /\ webPage.pending = WebNothing /\ ~webPage.saving
    /\ WebReject([page |-> [webPage EXCEPT !.socket = FALSE], sock |-> webSocket])
    /\ webSocket' = WebNoSocket
    /\ webHost' = [webHost EXCEPT !.subscriber = IF @ = "page" THEN "stale" ELSE @]
    /\ UNCHANGED <<webBridge, webUsed>>

WebNext ==
    \/ WebOpens \/ WebServe \/ WebAsks \/ WebEnds \/ WebRelay
    \/ WebOtherTakes \/ WebOtherSends \/ WebDetach
    \/ WebOpenRuntime \/ WebAttach \/ WebDrops \/ WebReceive
    \/ WebSubmit \/ WebUploaded \/ WebSteer \/ WebAnswer \/ WebStop \/ WebChange
    \/ WebConnect \/ WebSelect \/ WebLetGo

WebSpec == WebInit /\ [][WebNext]_webVars

(***************************************************************************)
(* Properties.                                                             *)
(***************************************************************************)

\* A message the user sent is never lost without a word: until its promise settles
\* the socket of the page still holds it, a confirmed one was accepted by the Bridge,
\* and every other one was given back (SessionSocket.sendUserTurn).
WebTurnKept ==
    \A t \in DOMAIN webFate :
        /\ webFate[t] = "waiting" => webSocket.state # "none" /\ t \in WebWaiting(webSocket)
        /\ webFate[t] = "confirmed" => <<"page", t>> \in webBridge.accepted

\* Nothing is under way between the page and a Bridge that has nothing to do.
WebAtRest ==
    /\ webHost.subscriber = "page" /\ webSocket.state = "open" /\ webSocket.synced
    /\ webSocket.in = <<>> /\ webSocket.out = <<>>
    /\ webBridge.turn = 0 /\ webBridge.queue = <<>>

\* However messages, replays, reconnections and takeovers interleaved, a page at rest
\* shows the session as it is: its transcript, no turn, no question, no steer and no
\* change that it still waits for (the onMessage handler of useSessionRuntime).
WebConverges ==
    WebAtRest /\ webPage.pending = WebNothing =>
        /\ webPage.items = webBridge.items
        /\ ~WebActive(webPage.phase) /\ webPage.active = 0
        /\ webPage.approval = 0 /\ webPage.steers = 0 /\ ~webPage.saving

\* The page is sound: no message of the user is lost in silence, and a page at
\* rest shows the session (session.ts, useSessionRuntime.ts, the two above).
WebSound == WebTurnKept /\ WebConverges
================================================================================
