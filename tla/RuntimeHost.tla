------------------------------ MODULE RuntimeHost ------------------------------
(***************************************************************************)
(* One RuntimeHost (agent_runtime/host.py): the session it has open        *)
(* (session_controller.py), the execution plane that serves its turns      *)
(* (plane_manager.py, execution_plane.py), and the naming task of a new    *)
(* session (session_title.py).                                             *)
(*                                                                         *)
(* The host's own thread runs one operation at a time; `step` is its place *)
(* in it.  Beside it run the thread of the naming task, other processes    *)
(* that open and close journals, and whoever edits the configuration.      *)
(* An operation that raises ends; the state it leaves behind is what the   *)
(* next one starts from.  Jobs are over when a turn is (JobManager), so    *)
(* closing them is only one more thing that may raise.                     *)
(***************************************************************************)
EXTENDS Naturals, FiniteSets

CONSTANTS
    Sessions, Workspaces, Providers,
    Nothing,                 \* None
    MaxPlanes, MaxEdits, MaxForeign   \* bounds: planes built, edits, openings elsewhere

(* An ExecutionPlane: the files it was built from were read after their      *)
(* fingerprint was taken; it is bound to at most one session.                *)
Planes == [serial : Nat \ {0}, workspace : Workspaces, provider : Providers,
           fingerprint : Nat, read : Nat, session : Sessions \cup {Nothing}]

ASSUME RuntimeAssumption ==
    /\ Nothing \notin Sessions \cup Workspaces \cup Providers \cup Planes
    /\ Workspaces # {}
    /\ {MaxPlanes, MaxEdits, MaxForeign} \subseteq Nat

VARIABLES
    session, sink,           \* the open Session; whether its journal sink is attached
    workspace, provider,     \* of the controller
    held,                    \* journals this host has open
    foreign, openings,       \* journals another process has open, and how often it did
    bound,                   \* stored workspace of each session
    plane,                   \* ExecutionPlaneManager.current
    resources,               \* desktops, MCP managers and routers that are open
    built,                   \* planes begun
    title,                   \* the SessionTitleTask
    disk,                    \* version of the configuration files
    step, op,                \* the operation under way
    unsaved,                 \* sessions that emitted an event with no sink attached
    dropped                  \* sessions whose journal could not be reopened

bindingVars == <<session, sink, workspace, provider, held, bound, dropped>>
foreignVars == <<foreign, openings>>
planeVars == <<plane, resources, built>>
threadVars == <<title, unsaved>>
hostVars == <<bindingVars, foreignVars, planeVars, threadVars, disk, step, op>>

NoTask == [state |-> "none", of |-> Nothing]
NoOp == [kind |-> "none", target |-> Nothing, workspace |-> Nothing, provider |-> Nothing,
         fingerprint |-> 0, serial |-> 0, plane |-> Nothing]
Kinds == {"desktop", "mcp", "router"}

RuntimeInit ==
    /\ session = Nothing /\ sink = FALSE /\ workspace = Nothing /\ provider = Nothing
    /\ held = {} /\ foreign = {} /\ openings = 0
    /\ bound = [s \in Sessions |-> CHOOSE w \in Workspaces : TRUE]
    /\ plane = Nothing /\ resources = {} /\ built = 0
    /\ title = NoTask
    /\ disk = 0 /\ step = "idle" /\ op = NoOp
    /\ unsaved = {} /\ dropped = {}

(* Session.emit: the event reaches the journal only through an attached sink. *)
Emitted(s) == unsaved' = IF s = session /\ sink THEN unsaved ELSE unsaved \cup {s}

Return == step' = "idle" /\ op' = NoOp

-----------------------------------------------------------------------------
(* open_session: the target's journal is locked, loaded and recovered before *)
(* anything of the current session is touched.                               *)
PrepareTarget(s, p) ==
    /\ step = "idle"
    /\ s = session \/ s \notin held \cup foreign
    /\ held' = IF s = session THEN held ELSE held \cup {s}
    /\ workspace' = IF session = Nothing THEN bound[s] ELSE workspace
    /\ op' = [NoOp EXCEPT !.kind = "open", !.target = s, !.provider = p]
    /\ step' = "unbind"
    /\ UNCHANGED <<session, sink, provider, bound, dropped, foreignVars, planeVars, threadVars, disk>>

(* The rest of open_session, once the plane has let go of the old session.   *)
ReplaceBinding ==
    /\ step = "unbound" /\ op.kind = "open"
    /\ IF op.target = session
         THEN UNCHANGED <<sink, held>>
         ELSE sink' = TRUE /\ held' = {op.target}
    /\ session' = op.target /\ workspace' = bound[op.target] /\ provider' = op.provider
    /\ Return
    /\ UNCHANGED <<bound, dropped, foreignVars, planeVars, threadVars, disk>>

(* Loading, recovering or letting go raised: only the new journal is closed. *)
AbandonTarget ==
    /\ step \in {"unbind", "raised"} /\ op.kind = "open"
    /\ held' = IF op.target = session THEN held ELSE held \ {op.target}
    /\ Return
    /\ UNCHANGED <<session, sink, workspace, provider, bound, dropped, foreignVars, planeVars,
                   threadVars, disk>>

-----------------------------------------------------------------------------
(* change_provider and change_workspace close the plane before they change   *)
(* anything; refresh_runtime and run_turn go through ensure.                 *)
ChangeProvider(p) ==
    /\ step = "idle" /\ session # Nothing /\ p # provider
    /\ op' = [NoOp EXCEPT !.kind = "provider", !.provider = p]
    /\ step' = "close"
    /\ UNCHANGED <<bindingVars, foreignVars, planeVars, threadVars, disk>>

StoreProvider ==
    /\ step = "closed" /\ op.kind = "provider"
    /\ provider' \in {provider, op.provider}     \* set_provider may raise
    /\ Return
    /\ UNCHANGED <<session, sink, workspace, held, bound, dropped, foreignVars, planeVars,
                   threadVars, disk>>

ChangeWorkspace(w) ==
    /\ step = "idle" /\ session # Nothing /\ w # workspace
    /\ op' = [NoOp EXCEPT !.kind = "workspace", !.workspace = w]
    /\ step' = "close"
    /\ UNCHANGED <<bindingVars, foreignVars, planeVars, threadVars, disk>>

ReleaseWriter ==
    /\ step = "closed" /\ op.kind = "workspace"
    /\ sink' = FALSE /\ held' = {}
    /\ step' = "rebind"
    /\ UNCHANGED <<session, workspace, provider, bound, dropped, foreignVars, planeVars, threadVars,
                   disk, op>>

RebindWorkspace ==
    /\ step = "rebind"
    /\ \/ /\ workspace' = op.workspace
          /\ bound' = [bound EXCEPT ![session] = op.workspace]
       \/ UNCHANGED <<workspace, bound>>         \* bind_workspace raised
    /\ step' = "reopen"
    /\ UNCHANGED <<session, sink, provider, held, dropped, foreignVars, planeVars, threadVars, disk, op>>

(* The finally clause: open_journal raises when the session is in use.       *)
ReopenWriter ==
    /\ step = "reopen"
    /\ \/ session \notin foreign /\ sink' = TRUE /\ held' = {session} /\ UNCHANGED dropped
       \/ dropped' = dropped \cup {session} /\ UNCHANGED <<sink, held>>
    /\ Return
    /\ UNCHANGED <<session, workspace, provider, bound, foreignVars, planeVars, threadVars, disk>>

-----------------------------------------------------------------------------
(* ExecutionPlaneManager.ensure.  The fingerprint is taken first; what the   *)
(* plane is built from is read later.                                        *)
\* Mutant: a plane of another workspace is taken for current.
MatchesAnyWorkspace(p) == p.provider = provider /\ p.fingerprint = disk

Matches(p) ==
    p.workspace = workspace /\ p.provider = provider /\ p.fingerprint = disk

Ensure(kind) ==
    /\ step = "idle" /\ session # Nothing
    /\ op' = [NoOp EXCEPT !.kind = kind, !.fingerprint = disk]
    /\ step' = IF ~(kind = "turn" /\ plane # Nothing /\ Matches(plane)) THEN "close"
               ELSE IF plane.session = Nothing THEN "bind" ELSE "ready"
    /\ UNCHANGED <<bindingVars, foreignVars, planeVars, threadVars, disk>>

StartPlane ==
    /\ step = "closed" /\ op.kind \in {"turn", "refresh"} /\ built < MaxPlanes
    /\ built' = built + 1
    /\ op' = [op EXCEPT !.serial = built',
                        !.plane = [serial |-> built', workspace |-> workspace, provider |-> provider,
                                   fingerprint |-> op.fingerprint, read |-> disk,
                                   session |-> Nothing]]
    /\ resources' = resources \cup {<<"mcp", built'>>}
    /\ step' = "assemble"
    /\ UNCHANGED <<bindingVars, foreignVars, plane, threadVars, disk>>

AssemblePlane ==
    /\ step = "assemble"
    /\ resources' \in {resources, resources \cup {<<"desktop", op.serial>>}}
    /\ step' = "await"
    /\ UNCHANGED <<bindingVars, foreignVars, plane, built, threadVars, disk, op>>

(* mcp.wait_ready returned: the executors and their router come last.        *)
CompletePlane ==
    /\ step = "await"
    /\ resources' = resources \cup {<<"router", op.serial>>}
    /\ step' = "bind"
    /\ UNCHANGED <<bindingVars, foreignVars, plane, built, threadVars, disk, op>>

(* ensure raised before there was a plane: what was opened is closed.        *)
\* Mutant: the exception leaves what was opened open.
AbandonPlaneOpen ==
    /\ \/ step = "closed" /\ op.kind \in {"turn", "refresh"}
       \/ step \in {"assemble", "await"}
    /\ Return
    /\ UNCHANGED <<bindingVars, foreignVars, planeVars, threadVars, disk>>

AbandonPlane ==
    /\ \/ step = "closed" /\ op.kind \in {"turn", "refresh"} /\ UNCHANGED resources
       \/ step \in {"assemble", "await"} /\ resources' = resources \ (Kinds \X {op.serial})
    /\ Return
    /\ UNCHANGED <<bindingVars, foreignVars, plane, built, threadVars, disk>>

(* The plane that _bind_session works on: the new one, or the current one.   *)
Binding == IF op.plane # Nothing THEN op.plane ELSE plane

BindSession ==
    /\ step = "bind"
    /\ plane' = [Binding EXCEPT !.session = session]
    /\ title' \in {NoTask, [state |-> "ready", of |-> session]}
    /\ step' = "ready"
    /\ UNCHANGED <<bindingVars, foreignVars, resources, built, unsaved, disk, op>>

BindRaises ==
    /\ step = "bind"
    /\ plane' = Nothing
    /\ op' = [NoOp EXCEPT !.kind = "unbindable", !.serial = Binding.serial]
    /\ resources' = resources \ {<<"desktop", Binding.serial>>}
    /\ step' = "unbind"
    /\ UNCHANGED <<bindingVars, foreignVars, built, threadVars, disk>>

EnsureReturns ==
    /\ step = "ready"
    /\ IF op.kind = "turn" THEN step' = "turn" /\ op' = NoOp ELSE Return
    /\ UNCHANGED <<bindingVars, foreignVars, planeVars, threadVars, disk>>

TurnEmits ==
    /\ step = "turn"
    /\ Emitted(session)
    /\ UNCHANGED <<bindingVars, foreignVars, planeVars, title, disk, step, op>>

EndTurn ==
    /\ step = "turn" /\ Return
    /\ UNCHANGED <<bindingVars, foreignVars, planeVars, threadVars, disk>>

-----------------------------------------------------------------------------
(* ExecutionPlane.close: the desktop, the session's threads, MCP, the router;*)
(* an exception of one does not keep the next from being closed.             *)
ClosePlane ==
    /\ step = "close"
    /\ plane' = Nothing
    /\ IF plane = Nothing
         THEN step' = "closed" /\ UNCHANGED <<resources, op>>
         ELSE /\ step' = "unbind"
              /\ resources' = resources \ {<<"desktop", plane.serial>>}
              /\ op' = [op EXCEPT !.serial = plane.serial]
    /\ UNCHANGED <<bindingVars, foreignVars, built, threadVars, disk>>

(* ExecutionPlane.unbind_session: cancel the naming task and wait for it.    *)
\* Mutant: it cancels the naming task and does not wait.
UnbindTitleNow ==
    /\ step = "unbind" /\ step' = "unbindJobs"
    /\ UNCHANGED <<bindingVars, foreignVars, planeVars, threadVars, disk, op>>

UnbindTitle ==
    /\ step = "unbind"
    /\ IF title.state = "calling"
         THEN UNCHANGED title /\ step' = "join"
         ELSE title' = NoTask /\ step' = "unbindJobs"
    /\ UNCHANGED <<bindingVars, foreignVars, planeVars, unsaved, disk, op>>

JoinTitle ==
    /\ step = "join" /\ title.state = "ended"
    /\ title' = NoTask /\ step' = "unbindJobs"
    /\ UNCHANGED <<bindingVars, foreignVars, planeVars, unsaved, disk, op>>

UnbindJobs ==
    /\ step = "unbindJobs"
    /\ plane' = IF plane = Nothing THEN Nothing ELSE [plane EXCEPT !.session = Nothing]
    /\ step' \in IF op.kind = "open" THEN {"unbound", "raised"} ELSE {"release"}
    /\ UNCHANGED <<bindingVars, foreignVars, resources, built, threadVars, disk, op>>

(* What raised on the way, or the failed binding, is raised again at the end.*)
ReleasePlane ==
    /\ step = "release"
    /\ resources' = resources \ {<<"mcp", op.serial>>, <<"router", op.serial>>}
    /\ \/ op.kind # "unbindable" /\ step' = "closed" /\ UNCHANGED op
       \/ op.kind # "shutdown" /\ Return
    /\ UNCHANGED <<bindingVars, foreignVars, plane, built, threadVars, disk>>

Shutdown ==
    /\ step = "idle"
    /\ op' = [NoOp EXCEPT !.kind = "shutdown"] /\ step' = "close"
    /\ UNCHANGED <<bindingVars, foreignVars, planeVars, threadVars, disk>>

CloseController ==
    /\ step = "closed" /\ op.kind = "shutdown"
    /\ sink' = FALSE /\ held' = {}
    /\ step' = "off"
    /\ UNCHANGED <<session, workspace, provider, bound, dropped, foreignVars, planeVars, threadVars,
                   disk, op>>

-----------------------------------------------------------------------------
(* The naming task: started by a completed unit of a session that may have   *)
(* only its initial title.  The call it made is an event of the session,     *)
(* whether it was cancelled or not; the title it stores is not kept here.    *)
StartTitle ==
    /\ step = "turn" /\ title.state = "ready"
    /\ title' = [title EXCEPT !.state = "calling"]
    /\ UNCHANGED <<bindingVars, foreignVars, planeVars, unsaved, disk, step, op>>

TitleAnswered ==
    /\ title.state = "calling"
    /\ Emitted(title.of)
    /\ title' = [title EXCEPT !.state = "ended"]
    /\ UNCHANGED <<bindingVars, foreignVars, planeVars, disk, step, op>>

OpenElsewhere(s) ==
    /\ s \notin held \cup foreign /\ openings < MaxForeign
    /\ foreign' = foreign \cup {s} /\ openings' = openings + 1
    /\ UNCHANGED <<bindingVars, planeVars, threadVars, disk, step, op>>

CloseElsewhere(s) ==
    /\ s \in foreign /\ foreign' = foreign \ {s} /\ UNCHANGED openings
    /\ UNCHANGED <<bindingVars, planeVars, threadVars, disk, step, op>>

EditConfiguration ==
    /\ disk < MaxEdits /\ disk' = disk + 1
    /\ UNCHANGED <<bindingVars, foreignVars, planeVars, threadVars, step, op>>

HostStep ==
    \/ ReplaceBinding \/ AbandonTarget
    \/ StoreProvider \/ ReleaseWriter \/ RebindWorkspace \/ ReopenWriter
    \/ StartPlane \/ AssemblePlane \/ CompletePlane \/ AbandonPlane
    \/ BindSession \/ BindRaises \/ EnsureReturns \/ EndTurn
    \/ ClosePlane \/ UnbindTitle \/ JoinTitle \/ UnbindJobs \/ ReleasePlane \/ CloseController

Commands ==
    \/ \E s \in Sessions, p \in Providers : PrepareTarget(s, p)
    \/ \E p \in Providers : ChangeProvider(p)
    \/ \E w \in Workspaces : ChangeWorkspace(w)
    \/ \E kind \in {"turn", "refresh"} : Ensure(kind)
    \/ Shutdown

TitleStep == StartTitle \/ TitleAnswered

Elsewhere ==
    \/ \E s \in Sessions : OpenElsewhere(s) \/ CloseElsewhere(s)
    \/ EditConfiguration

RuntimeNext == HostStep \/ Commands \/ TurnEmits \/ TitleStep \/ Elsewhere

RuntimeSpec == RuntimeInit /\ [][RuntimeNext]_hostVars

-----------------------------------------------------------------------------
(* Whatever a turn or the naming task records about a session reaches that   *)
(* session's journal: the host never lets a journal go while something may   *)
(* still write to it.  The exception is a session whose journal could not be *)
(* reopened by change_workspace.                                             *)
WritesReachJournal == unsaved \subseteq dropped

(* Every desktop, MCP manager and router belongs to the current plane or to  *)
(* the one that is being built or closed, and every journal to the session   *)
(* that is open or being opened, whichever step of an operation raised.      *)
NothingLeaks ==
    /\ \A r \in resources : r[2] \in (IF plane = Nothing THEN {} ELSE {plane.serial}) \cup
                                    (IF op.serial = 0 THEN {} ELSE {op.serial})
    /\ held \subseteq {session} \cup (IF op.kind = "open" THEN {op.target} ELSE {})
    /\ step = "off" => resources = {} /\ held = {}

(* A turn runs on a plane bound to the open session, for its workspace and   *)
(* provider, and a plane built from files that have changed since never looks*)
(* current: the next turn rebuilds it.                                       *)
TurnUsesCurrent ==
    /\ step = "turn" => /\ plane.session = session
                        /\ plane.workspace = workspace /\ plane.provider = provider
    /\ plane # Nothing /\ plane.fingerprint = disk => plane.read = disk

\* The host is sound: writes reach their journal, no resource or journal is left
\* open, and a turn runs on a current plane (host.py, plane_manager.py, the three
\* above).
RuntimeSound == WritesReachJournal /\ NothingLeaks /\ TurnUsesCurrent
=============================================================================
