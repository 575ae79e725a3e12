------------------------------- MODULE Terminal -------------------------------
(***************************************************************************)
(* The terminal interface (interfaces/tui/src/app.tsx and state.ts) and    *)
(* the Bridge process it owns.  Every session visited keeps a channel of   *)
(* its own; the screen shows one channel and drops the events of the       *)
(* others.  Commands and events travel on two pipes, so the screen the     *)
(* user acts on can be behind the Bridge, and the Bridge behind the user.  *)
(*                                                                         *)
(* An action of the user is one key handler with the effects of the render *)
(* it causes.  A session is <<"stored", s>>, or <<"new", c>> when channel  *)
(* c created it.  A turn is its number, 0 where the code has null.  The    *)
(* transcript's entries are the subject of module Views.                   *)
(***************************************************************************)
EXTENDS Naturals, Sequences, FiniteSets, SequencesExt

CONSTANTS
    TuiStored,        \* the sessions that the picker can offer
    TuiMaxChannels,   \* bounds: channels opened,
    TuiMaxWork        \* commands of the user, requests and output of the model

VARIABLES
    tuiScreen,   \* State of state.ts, and the overlays of app.tsx
    tuiApp,      \* the refs of App: active channel, channels of sessions, previous view;
                 \* kept: the screen is a view from before a refused opening, and no
                 \* state of its Bridge came since (for the properties only)
    tuiIn,       \* the commands on the Bridge's stdin, <<channel, command>>
    tuiOut,      \* the events on its stdout, <<channel, event>>
    tuiBridge,   \* the Bridge of each channel
    tuiUsed      \* counters of the bounds

tuiVars == <<tuiScreen, tuiApp, tuiIn, tuiOut, tuiBridge, tuiUsed>>

TuiChannels == 1..TuiMaxChannels

\* initialState.
TuiBlank ==
    [status |-> "opening", session |-> <<>>, turn |-> 0, approval |-> 0, question |-> 0,
     picker |-> "none", listed |-> FALSE, steers |-> 0, settings |-> FALSE]

\* A Bridge before its first command.
TuiNoBridge ==
    [open |-> "none", session |-> <<>>, phase |-> "inactive", turn |-> 0, approval |-> 0,
     question |-> 0, queue |-> <<>>, cancels |-> {}, steers |-> 0]

TuiCommand(type, turn, session) == [type |-> type, turn |-> turn, session |-> session]

TuiInit ==
    /\ tuiScreen = TuiBlank
    /\ tuiApp = [active |-> 1, counter |-> 1, known |-> {}, previous |-> <<>>, turns |-> 0,
                 overlay |-> FALSE, kept |-> FALSE]
    /\ tuiIn = << <<1, TuiCommand("open", 0, <<>>)>> >>
    /\ tuiOut = <<>>
    /\ tuiBridge = [c \in TuiChannels |-> TuiNoBridge]
    /\ tuiUsed = [work |-> 0, asks |-> 0]

TuiMoreWork == tuiUsed.work < TuiMaxWork
TuiWork == TuiMoreWork /\ tuiUsed' = [tuiUsed EXCEPT !.work = @ + 1]

(***************************************************************************)
(* The Bridge of a channel.                                                *)
(***************************************************************************)

\* Bridge.emit: b is the Bridge after the step; an event carries its snapshot.
TuiEvent(c, type, turn, b) ==
    <<c, [type |-> type, turn |-> turn, phase |-> b.phase, current |-> b.turn, session |-> b.session,
          approval |-> b.approval, question |-> b.question]>>

\* Bridge c becomes b and publishes the events es, <<type, turn>>.
TuiPublish(c, b, es) ==
    /\ tuiBridge' = [tuiBridge EXCEPT ![c] = b]
    /\ tuiOut' = tuiOut \o [i \in 1..Len(es) |-> TuiEvent(c, es[i][1], es[i][2], b)]

TuiState == <<"state", 0>>

\* The two lists of a picker, and the events of an opening that fails.
TuiLists == {"sessions", "workspaces"}
TuiRefusals == {"inUse", "openFailed"}

TuiQueued(b) == {m.turn : m \in {n \in ToSet(b.queue) : n.type = "turn"}}

\* An answer or a cancel wakes the request that waits.
TuiWoken(b) == [b EXCEPT !.phase = "running", !.approval = 0, !.question = 0]

\* Bridge._route_steer: a steer is for the turn that runs or one that is queued.
TuiRouteSteer(c, b, turn) ==
    IF turn = b.turn /\ turn # 0 THEN TuiPublish(c, b, << <<"steerApplied", turn>> >>)
    ELSE IF turn \in TuiQueued(b) THEN TuiPublish(c, [b EXCEPT !.steers = @ + 1], <<>>)
    ELSE TuiPublish(c, b, << <<"steerRejected", turn>> >>)

\* Bridge._route_cancel.
TuiRouteCancel(c, b, turn) ==
    LET marked == [b EXCEPT !.cancels = IF turn \in TuiQueued(b) \cup ({b.turn} \ {0})
                                        THEN @ \cup {turn} ELSE @]
    IN  IF turn = b.turn /\ (b.approval # 0 \/ b.question # 0)
        THEN TuiPublish(c, TuiWoken(marked), << TuiState >>)
        ELSE TuiPublish(c, marked, <<>>)

\* Bridge.submit.
TuiRoute(c, b, m) ==
    CASE m.type = "answer" ->
           IF m.turn \in {b.approval, b.question} THEN TuiPublish(c, TuiWoken(b), << TuiState >>)
           ELSE TuiPublish(c, b, <<>>)
      [] m.type = "steer" -> TuiRouteSteer(c, b, m.turn)
      [] m.type = "cancel" -> TuiRouteCancel(c, b, m.turn)
      [] OTHER -> TuiPublish(c, [b EXCEPT !.queue = Append(@, m)], <<>>)

\* BridgeServer.serve: the next command of the pipe.  The first command
\* of a channel creates its Bridge.
TuiServer ==
    /\ tuiIn # <<>>
    /\ tuiIn' = Tail(tuiIn)
    /\ LET c == Head(tuiIn)[1]
           m == Head(tuiIn)[2]
           b == tuiBridge[c]
           created == [TuiNoBridge EXCEPT !.open = "opening", !.queue = <<m>>]
       IN  IF b.open \in {"none", "closed"}
           THEN m.type = "open" /\ TuiPublish(c, created, <<>>)
           ELSE TuiRoute(c, b, m)
    /\ UNCHANGED <<tuiScreen, tuiApp, tuiUsed>>

\* Bridge.open_session: another window, or another channel, may hold the session.
TuiOpens(c, b, m) ==
    LET s == IF m.session = <<>> THEN <<"new", c>> ELSE m.session
        taken == \E d \in TuiChannels \ {c} : tuiBridge[d].open = "open" /\ tuiBridge[d].session = s
    IN  \/ ~taken /\ TuiPublish(c, [b EXCEPT !.open = "open", !.session = s],
                                << <<"ready", 0>>, TuiState >>)
        \/ \E error \in TuiRefusals : TuiPublish(c, [b EXCEPT !.open = "refused"], << <<error, 0>> >>)

\* Bridge.run_turn up to the running phase, or a startup that fails.
TuiBegins(c, b, m) ==
    LET started == [b EXCEPT !.turn = m.turn, !.phase = "running", !.steers = 0]
        applied == [i \in 1..b.steers |-> <<"steerApplied", m.turn>>]
    IN  \/ TuiPublish(c, started, << TuiState >> \o applied)
        \/ TuiPublish(c, [b EXCEPT !.phase = "failed", !.steers = 0], << TuiState, <<"ended", m.turn>> >>)

\* Bridge.serve: one command of the queue, between turns.
TuiServe(c) ==
    LET b == [tuiBridge[c] EXCEPT !.queue = Tail(@)]
        m == Head(tuiBridge[c].queue)
        idle == [b EXCEPT !.phase = "idle"]
        failed == [b EXCEPT !.phase = "failed"]
        inactive == [b EXCEPT !.phase = "inactive"]
    IN  /\ tuiBridge[c].queue # <<>> /\ tuiBridge[c].turn = 0
        /\ tuiBridge[c].open \in {"opening", "refused", "open"}
        /\ \/ m.type = "open" /\ TuiOpens(c, b, m)
           \/ m.type = "turn" /\ TuiBegins(c, b, m)
           \/ m.type \in TuiLists /\ TuiPublish(c, b, << <<m.type, 0>> >>)
           \/ m.type = "snapshot" /\ TuiPublish(c, b, << <<"ready", 0>>, TuiState >>)
           \/ m.type = "settings" /\ TuiPublish(c, b, << <<"settings", 0>> >>)
           \/ m.type = "provider" /\ TuiPublish(c, inactive, << <<"provider", 0>>, TuiState >>)
           \/ m.type = "refresh" /\ TuiPublish(c, idle, << TuiState, <<"refreshed", 0>> >>)
           \/ m.type = "refresh" /\ TuiPublish(c, failed, << TuiState, <<"refreshFailed", 0>> >>)
           \/ m.type = "close" /\ TuiPublish(c, [b EXCEPT !.open = "closed", !.queue = <<>>], << <<"closed", 0>> >>)
        /\ UNCHANGED <<tuiScreen, tuiApp, tuiIn, tuiUsed>>

\* Bridge.request_permission and request_user_choice, of a turn that is not cancelled.
TuiAsks(c) ==
    LET b == tuiBridge[c]
        r == tuiUsed.asks + 1
    IN  /\ b.phase = "running" /\ b.turn \notin b.cancels /\ TuiMoreWork
        /\ tuiUsed' = [work |-> tuiUsed.work + 1, asks |-> r]
        /\ \/ TuiPublish(c, [b EXCEPT !.phase = "waiting_approval", !.approval = r],
                         << TuiState, <<"approval", 0>> >>)
           \/ TuiPublish(c, [b EXCEPT !.phase = "waiting_user", !.question = r],
                         << TuiState, <<"question", 0>> >>)
        /\ UNCHANGED <<tuiScreen, tuiApp, tuiIn>>

\* Text or a tool call of the turn.
TuiOutputs(c) ==
    /\ tuiBridge[c].phase = "running" /\ TuiWork
    /\ \E type \in {"delta", "tool"} : TuiPublish(c, tuiBridge[c], << <<type, 0>> >>)
    /\ UNCHANGED <<tuiScreen, tuiApp, tuiIn>>

\* The end of Bridge.run_turn: the idle state, then the terminal event.
TuiEnds(c) ==
    LET b == tuiBridge[c]
    IN  /\ b.phase = "running"
        /\ TuiPublish(c, [b EXCEPT !.phase = "idle", !.turn = 0, !.cancels = @ \ {b.turn}],
                      << TuiState, <<"ended", b.turn>> >>)
        /\ UNCHANGED <<tuiScreen, tuiApp, tuiIn, tuiUsed>>

(***************************************************************************)
(* state.ts: what an event does to the screen.                             *)
(***************************************************************************)

\* The status that a phase is shown as.
TuiStatusOf(phase) ==
    CASE phase = "running" -> "running"
      [] phase = "waiting_approval" -> "awaiting_approval"
      [] phase = "waiting_user" -> "awaiting_user"
      [] phase = "failed" -> "runtime_failed"
      [] OTHER -> "idle"

\* runtime_state; the question is part of it, the approval is not.
TuiOnState(s, m) ==
    [s EXCEPT !.status = TuiStatusOf(m.phase), !.turn = m.current, !.question = m.question]

\* The list that is offered after a failed opening.
TuiListFor(m) == IF m.type = "inUse" THEN "sessions" ELSE "workspaces"

\* session_open_failed: with a session on the screen that session stays.
TuiOnOpenFailed(s, m) ==
    [IF s.session # <<>> THEN s ELSE [TuiBlank EXCEPT !.status = "session_unavailable"]
       EXCEPT !.picker = TuiListFor(m), !.listed = FALSE]

\* turn_completed, turn_cancelled, turn_failed.
TuiOnEnded(s) == [s EXCEPT !.turn = 0, !.approval = 0, !.question = 0, !.steers = 0]

\* session_ready: a blank screen for the session, until its first state.
TuiOnReady(m) == [TuiBlank EXCEPT !.session = m.session]

\* assistant_delta, tool_batch_started and tool_call.
TuiOnOutput(s, m) ==
    [s EXCEPT !.status = IF @ = "cancelling" THEN @
                         ELSE IF m.type = "delta" THEN "streaming" ELSE "running"]

\* user_steer_applied and user_steer_rejected.
TuiOnSteer(s) == [s EXCEPT !.steers = IF @ = 0 THEN 0 ELSE @ - 1]

\* approval_request.
TuiOnApproval(s, m) == [s EXCEPT !.status = "awaiting_approval", !.approval = m.approval]

\* user_question.
TuiOnQuestion(s, m) == [s EXCEPT !.status = "awaiting_user", !.question = m.question]

\* runtime_refreshed and runtime_refresh_failed.
TuiOnRefresh(s, m) == IF m.type = "refreshed" THEN [s EXCEPT !.status = "idle"] ELSE s

\* sessions_listed and workspaces_listed: only a picker of that kind takes it.
TuiOnListed(s, m) == [s EXCEPT !.listed = @ \/ s.picker = m.type]

\* applyMessage.
TuiApply(s, m) ==
    CASE m.type = "state" -> TuiOnState(s, m)
      [] m.type \in TuiRefusals -> TuiOnOpenFailed(s, m)
      [] m.type = "ready" -> TuiOnReady(m)
      [] m.type \in {"delta", "tool"} -> TuiOnOutput(s, m)
      [] m.type \in {"steerApplied", "steerRejected"} -> TuiOnSteer(s)
      [] m.type = "approval" -> TuiOnApproval(s, m)
      [] m.type = "question" -> TuiOnQuestion(s, m)
      [] m.type \in {"refreshed", "refreshFailed"} -> TuiOnRefresh(s, m)
      [] m.type = "settings" -> [s EXCEPT !.settings = TRUE]
      [] m.type \in TuiLists -> TuiOnListed(s, m)
      [] m.type = "ended" -> TuiOnEnded(s)
      [] OTHER -> s

(***************************************************************************)
(* app.tsx: what an event does to the application.                         *)
(***************************************************************************)

\* Mutant: a failed opening leaves its channel active.
TuiRestoredHere(c, m) ==
    /\ tuiApp' = [tuiApp EXCEPT !.previous = <<>>, !.kept = TRUE]
    /\ tuiScreen' = TuiApply(tuiApp.previous[2], m)
    /\ tuiIn' = tuiIn \o << <<c, TuiCommand("close", 0, <<>>)>>,
                            <<tuiApp.active, TuiCommand(TuiListFor(m), 0, <<>>)>> >>

\* onMessage, session_open_failed with a view to go back to: its channel is active
\* again, the failed one is closed, and the sessions are listed.
TuiRestored(c, m) ==
    /\ tuiApp' = [tuiApp EXCEPT !.active = tuiApp.previous[1], !.previous = <<>>,
                              !.kept = TRUE]
    /\ tuiScreen' = TuiApply(tuiApp.previous[2], m)
    /\ tuiIn' = tuiIn \o << <<c, TuiCommand("close", 0, <<>>)>>,
                            <<tuiApp.previous[1], TuiCommand(TuiListFor(m), 0, <<>>)>> >>

\* onMessage: events of a channel that is not shown are dropped.
TuiOnMessage(c, m) ==
    IF c # tuiApp.active THEN UNCHANGED <<tuiScreen, tuiApp, tuiIn>>
    ELSE IF m.type \in TuiRefusals /\ tuiApp.previous # <<>> THEN TuiRestored(c, m)
    ELSE /\ tuiScreen' = TuiApply(tuiScreen, m)
         /\ tuiApp' = IF m.type = "ready"
                      THEN [tuiApp EXCEPT !.known = @ \cup {<<m.session, c>>}, !.previous = <<>>,
                                          !.kept = FALSE]
                      ELSE [tuiApp EXCEPT !.kept = @ /\ m.type # "state"]
         /\ tuiIn' = IF m.type \in TuiRefusals
                     THEN Append(tuiIn, <<c, TuiCommand(TuiListFor(m), 0, <<>>)>>) ELSE tuiIn

\* BridgeClient: the next event of the pipe; a closed channel is forgotten.
TuiReceive ==
    /\ tuiOut # <<>>
    /\ tuiOut' = Tail(tuiOut)
    /\ LET c == Head(tuiOut)[1]
           m == Head(tuiOut)[2]
       IN  IF m.type = "closed"
           THEN /\ tuiApp' = [tuiApp EXCEPT !.known = {e \in @ : e[2] # c}]
                /\ UNCHANGED <<tuiScreen, tuiIn>>
           ELSE TuiOnMessage(c, m)
    /\ UNCHANGED <<tuiBridge, tuiUsed>>

(***************************************************************************)
(* The user.                                                               *)
(***************************************************************************)

TuiBusy == tuiScreen.status \in {"starting", "streaming", "running", "cancelling"}
TuiInputBusy == tuiScreen.status \notin {"idle", "runtime_failed", "session_unavailable"}

\* send: a command of the channel on the screen.
TuiSend(type, turn) == tuiIn' = Append(tuiIn, <<tuiApp.active, TuiCommand(type, turn, <<>>)>>)

\* The prompt has the focus.
TuiPrompt ==
    /\ tuiScreen.approval = 0 /\ tuiScreen.question = 0 /\ tuiScreen.picker = "none"
    /\ ~tuiApp.overlay

\* The guards at the head of submit.
TuiMaySubmit == tuiScreen.status \notin {"opening", "session_unavailable"}

\* submit of a text: a steer of the turn that runs, or a turn of its own.
TuiSubmit ==
    /\ TuiPrompt /\ TuiMaySubmit /\ TuiWork
    /\ \/ /\ TuiBusy /\ tuiScreen.turn # 0
          /\ tuiScreen' = [tuiScreen EXCEPT !.steers = @ + 1]
          /\ TuiSend("steer", tuiScreen.turn)
          /\ UNCHANGED tuiApp
       \/ /\ ~TuiBusy
          /\ tuiApp' = [tuiApp EXCEPT !.turns = @ + 1]
          /\ tuiScreen' = [tuiScreen EXCEPT !.status = "streaming", !.turn = tuiApp.turns + 1]
          /\ TuiSend("turn", tuiApp.turns + 1)
    /\ UNCHANGED <<tuiOut, tuiBridge>>

\* /sessions and /workspaces: ask for the list, which fills the picker.
TuiOpenPicker ==
    /\ TuiPrompt /\ ~TuiInputBusy /\ TuiWork
    /\ \E kind \in TuiLists :
          /\ tuiScreen' = [tuiScreen EXCEPT !.picker = kind, !.listed = FALSE]
          /\ TuiSend(kind, 0)
    /\ UNCHANGED <<tuiApp, tuiOut, tuiBridge>>

\* /refresh.
TuiRefresh ==
    /\ TuiPrompt /\ ~TuiInputBusy /\ TuiMaySubmit /\ TuiWork
    /\ tuiScreen' = [tuiScreen EXCEPT !.status = "starting", !.turn = 0]
    /\ TuiSend("refresh", 0)
    /\ UNCHANGED <<tuiApp, tuiOut, tuiBridge>>

\* /model opens the list of providers.
TuiModel ==
    /\ TuiPrompt /\ ~TuiBusy /\ TuiMaySubmit /\ TuiWork
    /\ tuiApp' = [tuiApp EXCEPT !.overlay = TRUE]
    /\ TuiSend("settings", 0)
    /\ UNCHANGED <<tuiScreen, tuiOut, tuiBridge>>

\* Enter or Escape in that list.
TuiModelKey ==
    /\ tuiApp.overlay /\ tuiScreen.settings
    /\ TuiSend("provider", 0) \/ UNCHANGED tuiIn
    /\ tuiScreen' = [tuiScreen EXCEPT !.settings = FALSE]
    /\ tuiApp' = [tuiApp EXCEPT !.overlay = FALSE]
    /\ UNCHANGED <<tuiOut, tuiBridge, tuiUsed>>

\* openSession and the effect of its selection: a session that is already open is
\* asked for its snapshot on its own channel, any other is opened on a new one.
TuiOpenSession(s) ==
    LET own == {e[2] : e \in {f \in tuiApp.known : s # <<>> /\ f[1] = s}}
        c == IF own # {} THEN CHOOSE d \in own : TRUE ELSE tuiApp.counter + 1
        shown == tuiScreen.session # <<>>
        closing == IF shown THEN <<>> ELSE << <<tuiApp.active, TuiCommand("close", 0, <<>>)>> >>
    IN  /\ c \in TuiChannels
        /\ tuiApp' = [tuiApp EXCEPT !.active = c, !.counter = IF own # {} THEN @ ELSE c,
                        !.previous = IF shown THEN <<tuiApp.active, tuiScreen>> ELSE @]
        /\ tuiScreen' = [tuiScreen EXCEPT !.status = "opening", !.picker = "none"]
        /\ tuiIn' = tuiIn \o closing
                      \o << <<c, TuiCommand(IF own # {} THEN "snapshot" ELSE "open", 0, s)>> >>

\* Enter or Escape in the picker.
TuiPick ==
    /\ tuiScreen.picker # "none"
    /\ \/ /\ tuiScreen' = [tuiScreen EXCEPT !.picker = "none"]
          /\ UNCHANGED <<tuiApp, tuiIn>>
       \/ /\ tuiScreen.listed /\ tuiScreen.picker = "workspaces" /\ TuiOpenSession(<<>>)
       \/ /\ tuiScreen.listed /\ tuiScreen.picker = "sessions"
          /\ \E s \in {<<"stored", t>> : t \in TuiStored} \cup {e[1] : e \in tuiApp.known} :
                TuiOpenSession(s)
    /\ UNCHANGED <<tuiOut, tuiBridge, tuiUsed>>

\* Escape or Ctrl+C with the keys of the prompt, or on a question.
TuiCancel ==
    /\ (TuiPrompt /\ TuiBusy) \/ tuiScreen.question # 0
    /\ TuiWork
    /\ IF tuiScreen.turn # 0 THEN TuiSend("cancel", tuiScreen.turn) ELSE UNCHANGED tuiIn
    /\ tuiScreen' = IF tuiScreen.status = "idle" THEN tuiScreen
                    ELSE [tuiScreen EXCEPT !.status = "cancelling", !.approval = 0, !.question = 0]
    /\ UNCHANGED <<tuiApp, tuiOut, tuiBridge>>

\* answerApproval and answerQuestion.
TuiAnswer ==
    /\ \/ /\ tuiScreen.approval # 0
          /\ TuiSend("answer", tuiScreen.approval)
          /\ tuiScreen' = [tuiScreen EXCEPT !.status = "running", !.approval = 0]
       \/ /\ tuiScreen.question # 0
          /\ TuiSend("answer", tuiScreen.question)
          /\ tuiScreen' = [tuiScreen EXCEPT !.status = "running", !.question = 0]
    /\ UNCHANGED <<tuiApp, tuiOut, tuiBridge, tuiUsed>>

TuiNext ==
    \/ TuiServer \/ TuiReceive
    \/ \E c \in TuiChannels : TuiServe(c) \/ TuiAsks(c) \/ TuiOutputs(c) \/ TuiEnds(c)
    \/ TuiSubmit \/ TuiOpenPicker \/ TuiRefresh \/ TuiModel \/ TuiModelKey \/ TuiPick
    \/ TuiCancel \/ TuiAnswer

TuiSpec == TuiInit /\ [][TuiNext]_tuiVars

(***************************************************************************)
(* Properties.                                                             *)
(***************************************************************************)

\* Both pipes are empty and the Bridge on the screen took every command.
TuiAtRest ==
    /\ tuiIn = <<>> /\ tuiOut = <<>>
    /\ tuiBridge[tuiApp.active].queue = <<>>

\* However commands and events crossed, and whichever sessions were opened, refused
\* or left on the way, a terminal at rest shows the Bridge of its session: the turn
\* that runs and the request that waits for the user, without which
\* the turn would wait forever.  A view kept while another session was refused waits
\* for its Bridge's next state (applyMessage of state.ts, onMessage of app.tsx).
TuiConverges ==
    TuiAtRest =>
        LET b == tuiBridge[tuiApp.active]
        IN  /\ tuiScreen.status # "opening" /\ (b.open = "open" \/ tuiScreen.session = <<>>)
            /\ b.open = "open" /\ ~tuiApp.kept =>
                 /\ tuiScreen.session = b.session
                 /\ tuiScreen.turn = b.turn
                 /\ tuiScreen.question = b.question
                 /\ b.approval # 0 => tuiScreen.approval = b.approval
                 /\ b.turn = 0 => tuiScreen.steers = 0 /\ tuiScreen.approval = 0

===============================================================================
