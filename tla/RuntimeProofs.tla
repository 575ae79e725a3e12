--------------------------- MODULE RuntimeProofs ---------------------------
(***************************************************************************)
(* Proof that the runtime host is sound (RuntimeSound), for every set of   *)
(* sessions, workspaces and providers and every bound on planes, edits and *)
(* foreign openings.                                                       *)
(***************************************************************************)
EXTENDS RuntimeHost, TLAPS

RunSteps == {"idle", "unbind", "join", "unbindJobs", "unbound", "raised", "release", "close",
             "closed", "rebind", "reopen", "assemble", "await", "bind", "ready", "turn", "off"}
RunKinds == {"none", "open", "provider", "workspace", "turn", "refresh", "unbindable", "shutdown"}
RunOps == [kind : RunKinds, target : Sessions \cup {Nothing}, workspace : Workspaces \cup {Nothing},
           provider : Providers \cup {Nothing}, fingerprint : Nat, serial : Nat,
           plane : Planes \cup {Nothing}]

RunBindingOK ==
    /\ session \in Sessions \cup {Nothing} /\ sink \in BOOLEAN
    /\ workspace \in Workspaces \cup {Nothing} /\ provider \in Providers \cup {Nothing}
    /\ bound \in [Sessions -> Workspaces]

\* The types of the variables.
RunTypeOK ==
    /\ RunBindingOK
    /\ plane \in Planes \cup {Nothing}
    /\ resources \subseteq Kinds \X Nat
    /\ built \in Nat /\ disk \in Nat
    /\ title \in [state : {"none", "ready", "calling", "ended"}, of : Sessions \cup {Nothing}]
    /\ step \in RunSteps /\ op \in RunOps

\* Which operations are at which step, and what they have established there.
RunSteady ==
    /\ step \in {"idle", "turn"} => op = NoOp
    /\ step \in {"unbound", "raised"} => op.kind = "open"
    /\ step = "close" => op.kind \in {"provider", "workspace", "turn", "refresh", "shutdown"}
    /\ step = "closed" => op.kind \in {"provider", "workspace", "turn", "refresh", "shutdown"}
    /\ step \in {"rebind", "reopen"} => op.kind = "workspace"
    /\ step \in {"assemble", "await", "bind", "ready"} => op.kind \in {"turn", "refresh"}
    /\ step \in {"unbind", "join", "unbindJobs"} => op.kind \notin {"none"}
    /\ step = "release" => op.kind \notin {"none", "open"}
    /\ op.kind = "open" => op.target # Nothing /\ op.provider # Nothing /\ op.serial = 0
    /\ op.kind = "provider" => op.provider # Nothing
    /\ op.kind = "workspace" => op.workspace # Nothing
    /\ session # Nothing => workspace # Nothing /\ provider # Nothing
    /\ op.kind \notin {"none", "open", "shutdown"} \/ step = "turn" => session # Nothing

\* Every resource belongs to the plane or to the operation, and what an operation
\* that closes a plane has already closed.
RunResources ==
    /\ \A r \in resources : \/ plane # Nothing /\ r[2] = plane.serial
                            \/ op.serial # 0 /\ r[2] = op.serial
    /\ step = "close" => op.serial = 0
    /\ step \in {"closed", "rebind", "reopen", "off"} => plane = Nothing /\ resources = {}
    /\ step \in {"assemble", "await"} =>
          plane = Nothing /\ op.plane # Nothing /\ op.serial = op.plane.serial
    /\ step = "bind" => \/ op.plane # Nothing /\ plane = Nothing /\ op.serial = op.plane.serial
                        \/ op.plane = Nothing /\ plane # Nothing /\ op.serial = 0
    /\ step = "ready" => plane # Nothing /\ (op.serial # 0 => op.serial = plane.serial)
    /\ step \in {"unbind", "join", "unbindJobs", "release"} /\ op.kind # "open" =>
          plane = Nothing /\ op.serial # 0 /\ <<"desktop", op.serial>> \notin resources

\* The naming task belongs to the open session, and the plane is bound to it until
\* the task has been waited for.
RunTitle ==
    /\ title.state # "none" =>
          /\ session # Nothing /\ title.of = session
          /\ \/ plane # Nothing /\ plane.session = session
             \/ step \in {"unbind", "join"} /\ op.kind # "open"
    /\ step \in {"unbindJobs", "bind"} => title.state = "none"
    /\ step \in {"unbound", "raised"} /\ plane # Nothing => plane.session = Nothing
    /\ plane # Nothing => plane.session \in {session, Nothing}

\* The journal of the open session is attached wherever something may emit.
RunJournal ==
    /\ session # Nothing =>
          sink = TRUE \/ session \in dropped \/ step \in {"rebind", "reopen", "off"}
    /\ held \subseteq {session} \cup (IF op.kind = "open" THEN {op.target} ELSE {})
    /\ step = "off" => held = {}
    /\ unsaved \subseteq dropped

\* The plane that is being bound or used is for the open session, and no plane knows
\* of files older than its fingerprint.
RunCurrent ==
    /\ \A p \in {plane, op.plane} : p # Nothing => p.fingerprint <= p.read /\ p.read <= disk
    /\ op.fingerprint <= disk
    /\ step \in {"assemble", "await"} =>
          op.plane # Nothing /\ op.plane.workspace = workspace /\ op.plane.provider = provider
    /\ step = "bind" => Binding.workspace = workspace /\ Binding.provider = provider
    /\ step \in {"ready", "turn"} => /\ plane # Nothing /\ plane.session = session
                                     /\ plane.workspace = workspace /\ plane.provider = provider

\* The inductive invariant.
RunInv == RunTypeOK /\ RunSteady /\ RunResources /\ RunTitle /\ RunJournal /\ RunCurrent

-----------------------------------------------------------------------------
(* The steps of the host, by what they are part of.                          *)
RunOpening == ReplaceBinding \/ AbandonTarget
RunChanging == StoreProvider \/ ReleaseWriter \/ RebindWorkspace \/ ReopenWriter
RunBuilding == StartPlane \/ AssemblePlane \/ CompletePlane \/ AbandonPlane
RunBinding == BindSession \/ BindRaises \/ EnsureReturns
RunClosing ==
    ClosePlane \/ UnbindTitle \/ JoinTitle \/ UnbindJobs \/ ReleasePlane \/ CloseController
RunTurning == TurnEmits \/ EndTurn \/ StartTitle \/ TitleAnswered

\* Every step belongs to one of them, or is a command or something outside the host.
LEMMA RunGroups ==
    RuntimeNext => \/ RunOpening \/ RunChanging \/ RunBuilding \/ RunBinding \/ RunClosing
                   \/ RunTurning \/ Commands \/ Elsewhere
  BY DEF RuntimeNext, HostStep, TitleStep, RunOpening, RunChanging, RunBuilding, RunBinding,
         RunClosing, RunTurning

\* The types of what the session controller holds (session_controller.py).
LEMMA RunTypeBinding ==
    ASSUME RunInv, RuntimeNext
    PROVE  RunBindingOK'
<1>. USE DEF bindingVars, foreignVars, planeVars, threadVars, Return, NoOp
<1>1. CASE RunOpening
  <2>1. CASE ReplaceBinding
    BY <2>1, Zenon DEF RunInv, RunTypeOK, RunBindingOK, RunSteady, RunOps, ReplaceBinding
  <2>2. CASE AbandonTarget
    BY <2>2 DEF RunInv, RunTypeOK, RunBindingOK, AbandonTarget
  <2>. QED
    BY <1>1, <2>1, <2>2 DEF RunOpening
<1>2. CASE RunChanging
  BY <1>2, Zenon
     DEF RunInv, RunTypeOK, RunBindingOK, RunSteady, RunOps, RunChanging, StoreProvider,
         ReleaseWriter, RebindWorkspace, ReopenWriter
<1>3. CASE RunBuilding
  BY <1>3
     DEF RunInv, RunTypeOK, RunBindingOK, RunBuilding, StartPlane, AssemblePlane, CompletePlane,
         AbandonPlane
<1>4. CASE RunBinding
  BY <1>4 DEF RunInv, RunTypeOK, RunBindingOK, RunBinding, BindSession, BindRaises, EnsureReturns
<1>5. CASE RunClosing
  BY <1>5, Zenon
     DEF RunInv, RunTypeOK, RunBindingOK, RunClosing, ClosePlane, UnbindTitle, JoinTitle,
         UnbindJobs, ReleasePlane, CloseController
<1>6. CASE RunTurning
  BY <1>6
     DEF RunInv, RunTypeOK, RunBindingOK, RunTurning, TurnEmits, EndTurn, StartTitle, TitleAnswered
<1>7. CASE Commands
  <2>1. ASSUME NEW s \in Sessions, NEW p \in Providers, PrepareTarget(s, p)
        PROVE  RunBindingOK'
    BY <2>1 DEF RunInv, RunTypeOK, RunBindingOK, PrepareTarget
  <2>2. ASSUME NEW p \in Providers, ChangeProvider(p)
        PROVE  RunBindingOK'
    BY <2>2 DEF RunInv, RunTypeOK, RunBindingOK, ChangeProvider
  <2>3. ASSUME NEW w \in Workspaces, ChangeWorkspace(w)
        PROVE  RunBindingOK'
    BY <2>3 DEF RunInv, RunTypeOK, RunBindingOK, ChangeWorkspace
  <2>4. ASSUME NEW kind \in {"turn", "refresh"}, Ensure(kind)
        PROVE  RunBindingOK'
    BY <2>4 DEF RunInv, RunTypeOK, RunBindingOK, Ensure
  <2>5. CASE Shutdown
    BY <2>5 DEF RunInv, RunTypeOK, RunBindingOK, Shutdown
  <2>. QED
    BY <1>7, <2>1, <2>2, <2>3, <2>4, <2>5 DEF Commands
<1>8. CASE Elsewhere
  BY <1>8
     DEF RunInv, RunTypeOK, RunBindingOK, Elsewhere, OpenElsewhere, CloseElsewhere,
         EditConfiguration
<1>. QED
  BY <1>1, <1>2, <1>3, <1>4, <1>5, <1>6, <1>7, <1>8, RunGroups

\* The types of the plane and of what it keeps open (plane_manager.py).
LEMMA RunTypePlane ==
    ASSUME RunInv, RuntimeNext
    PROVE  /\ plane' \in Planes \cup {Nothing} /\ resources' \subseteq Kinds \X Nat
           /\ built' \in Nat /\ disk' \in Nat
<1>. USE DEF bindingVars, foreignVars, planeVars, threadVars, Return, NoOp
<1>1. CASE RunOpening
  BY <1>1 DEF RunInv, RunTypeOK, Kinds, RunOpening, ReplaceBinding, AbandonTarget
<1>2. CASE RunChanging
  BY <1>2
     DEF RunInv, RunTypeOK, Kinds, RunChanging, StoreProvider, ReleaseWriter, RebindWorkspace,
         ReopenWriter
<1>3. CASE RunBuilding
  BY <1>3
     DEF RunInv, RunTypeOK, Kinds, RunOps, RunBuilding, StartPlane, AssemblePlane, CompletePlane,
         AbandonPlane
<1>4. CASE RunBinding
  BY <1>4
     DEF RunInv, RunTypeOK, RunBindingOK, RunResources, Binding, Kinds, RunOps, Planes, RunBinding,
         BindSession, BindRaises, EnsureReturns
<1>5. CASE RunClosing
  BY <1>5
     DEF RunInv, RunTypeOK, Kinds, Planes, RunClosing, ClosePlane, UnbindTitle, JoinTitle,
         UnbindJobs, ReleasePlane, CloseController
<1>6. CASE RunTurning
  BY <1>6 DEF RunInv, RunTypeOK, Kinds, RunTurning, TurnEmits, EndTurn, StartTitle, TitleAnswered
<1>7. CASE Commands
  BY <1>7, Zenon
     DEF RunInv, RunTypeOK, Kinds, Commands, PrepareTarget, ChangeProvider, ChangeWorkspace, Ensure,
         Shutdown
<1>8. CASE Elsewhere
  BY <1>8 DEF RunInv, RunTypeOK, Kinds, Elsewhere, OpenElsewhere, CloseElsewhere, EditConfiguration
<1>. QED
  BY <1>1, <1>2, <1>3, <1>4, <1>5, <1>6, <1>7, <1>8, RunGroups

\* The type of the naming task (session_title.py).
LEMMA RunTypeTitle ==
    ASSUME RunInv, RuntimeNext
    PROVE  title' \in [state : {"none", "ready", "calling", "ended"}, of : Sessions \cup {Nothing}]
<1>. USE DEF bindingVars, foreignVars, planeVars, threadVars, Return, NoOp
<1>1. CASE RunOpening
  BY <1>1 DEF RunInv, RunTypeOK, NoTask, RunOpening, ReplaceBinding, AbandonTarget
<1>2. CASE RunChanging
  BY <1>2
     DEF RunInv, RunTypeOK, NoTask, RunChanging, StoreProvider, ReleaseWriter, RebindWorkspace,
         ReopenWriter
<1>3. CASE RunBuilding
  BY <1>3
     DEF RunInv, RunTypeOK, NoTask, RunBuilding, StartPlane, AssemblePlane, CompletePlane,
         AbandonPlane
<1>4. CASE RunBinding
  BY <1>4
     DEF RunInv, RunTypeOK, RunBindingOK, NoTask, RunBinding, BindSession, BindRaises, EnsureReturns
<1>5. CASE RunClosing
  BY <1>5
     DEF RunInv, RunTypeOK, NoTask, RunClosing, ClosePlane, UnbindTitle, JoinTitle, UnbindJobs,
         ReleasePlane, CloseController
<1>6. CASE RunTurning
  BY <1>6 DEF RunInv, RunTypeOK, NoTask, RunTurning, TurnEmits, EndTurn, StartTitle, TitleAnswered
<1>7. CASE Commands
  BY <1>7, Zenon
     DEF RunInv, RunTypeOK, NoTask, Commands, PrepareTarget, ChangeProvider, ChangeWorkspace,
         Ensure, Shutdown
<1>8. CASE Elsewhere
  BY <1>8 DEF RunInv, RunTypeOK, NoTask, Elsewhere, OpenElsewhere, CloseElsewhere, EditConfiguration
<1>. QED
  BY <1>1, <1>2, <1>3, <1>4, <1>5, <1>6, <1>7, <1>8, RunGroups

\* The steps of the operations (host.py).
LEMMA RunTypeStep ==
    ASSUME RunInv, RuntimeNext
    PROVE  step' \in RunSteps
<1>. USE DEF bindingVars, foreignVars, planeVars, threadVars, Return, NoOp
<1>1. CASE RunOpening
  BY <1>1 DEF RunInv, RunSteps, RunOpening, ReplaceBinding, AbandonTarget
<1>2. CASE RunChanging
  BY <1>2
     DEF RunInv, RunSteps, RunChanging, StoreProvider, ReleaseWriter, RebindWorkspace, ReopenWriter
<1>3. CASE RunBuilding
  BY <1>3 DEF RunInv, RunSteps, RunBuilding, StartPlane, AssemblePlane, CompletePlane, AbandonPlane
<1>4. CASE RunBinding
  BY <1>4 DEF RunInv, RunSteps, RunBinding, BindSession, BindRaises, EnsureReturns
<1>5. CASE RunClosing
  BY <1>5
     DEF RunInv, RunSteps, RunClosing, ClosePlane, UnbindTitle, JoinTitle, UnbindJobs, ReleasePlane,
         CloseController
<1>6. CASE RunTurning
  BY <1>6 DEF RunInv, RunTypeOK, RunSteps, RunTurning, TurnEmits, EndTurn, StartTitle, TitleAnswered
<1>7. CASE Commands
  BY <1>7, Zenon
     DEF RunInv, RunSteps, Commands, PrepareTarget, ChangeProvider, ChangeWorkspace, Ensure,
         Shutdown
<1>8. CASE Elsewhere
  BY <1>8
     DEF RunInv, RunTypeOK, RunSteps, Elsewhere, OpenElsewhere, CloseElsewhere, EditConfiguration
<1>. QED
  BY <1>1, <1>2, <1>3, <1>4, <1>5, <1>6, <1>7, <1>8, RunGroups

\* The types of what an operation carries from step to step (host.py).
LEMMA RunTypeOp ==
    ASSUME RunInv, RuntimeNext
    PROVE  op' \in RunOps
<1>. USE DEF bindingVars, foreignVars, planeVars, threadVars, Return, NoOp
<1>1. CASE RunOpening
  BY <1>1, RuntimeAssumption DEF RunInv, RunKinds, RunOps, RunOpening, ReplaceBinding, AbandonTarget
<1>2. CASE RunChanging
  BY <1>2, RuntimeAssumption
     DEF RunInv, RunTypeOK, RunKinds, RunOps, RunChanging, StoreProvider, ReleaseWriter,
         RebindWorkspace, ReopenWriter
<1>3. CASE RunBuilding
  <2>1. CASE StartPlane
    <3>. DEFINE new == [serial |-> built', workspace |-> workspace, provider |-> provider,
                        fingerprint |-> op.fingerprint, read |-> disk, session |-> Nothing]
    <3>1. workspace \in Workspaces /\ provider \in Providers /\ op.fingerprint \in Nat
          /\ built' \in Nat \ {0} /\ disk \in Nat
      BY <2>1 DEF RunInv, RunTypeOK, RunBindingOK, RunSteady, RunOps, StartPlane
    <3>2. new \in Planes
      BY <3>1 DEF Planes
    <3>3. op' = [op EXCEPT !.serial = built', !.plane = new] /\ op \in RunOps
      BY <2>1 DEF RunInv, RunTypeOK, StartPlane
    <3>. HIDE DEF new
    <3>. QED
      BY <3>1, <3>2, <3>3, Zenon DEF RunOps
  <2>2. CASE AssemblePlane
    BY <2>2 DEF RunInv, RunTypeOK, AssemblePlane
  <2>3. CASE CompletePlane
    BY <2>3 DEF RunInv, RunTypeOK, CompletePlane
  <2>4. CASE AbandonPlane
    BY <2>4 DEF RunInv, RunKinds, RunOps, AbandonPlane
  <2>. QED
    BY <1>3, <2>1, <2>2, <2>3, <2>4 DEF RunBuilding
<1>4. CASE RunBinding
  <2>1. CASE BindSession
    BY <2>1 DEF RunInv, RunTypeOK, BindSession
  <2>2. CASE BindRaises
    <3>1. Binding \in Planes
      BY <2>2 DEF RunInv, RunTypeOK, RunOps, RunResources, Binding, BindRaises
    <3>2. Binding.serial \in Nat
      BY <3>1 DEF Planes
    <3>. QED
      BY <2>2, <3>2, Zenon DEF BindRaises, RunOps, RunKinds
  <2>3. CASE EnsureReturns
    BY <2>3, RuntimeAssumption DEF RunInv, RunKinds, RunOps, EnsureReturns
  <2>. QED
    BY <1>4, <2>1, <2>2, <2>3 DEF RunBinding
<1>5. CASE RunClosing
  BY <1>5
     DEF RunInv, RunTypeOK, RunKinds, RunOps, Planes, RunClosing, ClosePlane, UnbindTitle,
         JoinTitle, UnbindJobs, ReleasePlane, CloseController
<1>6. CASE RunTurning
  BY <1>6
     DEF RunInv, RunTypeOK, RunSteady, RunTurning, TurnEmits, EndTurn, StartTitle, TitleAnswered
<1>7. CASE Commands
  <2>1. ASSUME NEW s \in Sessions, NEW p \in Providers, PrepareTarget(s, p)
        PROVE  op' \in RunOps
    BY <2>1, Zenon DEF RunInv, RunKinds, RunOps, PrepareTarget
  <2>2. ASSUME NEW p \in Providers, ChangeProvider(p)
        PROVE  op' \in RunOps
    BY <2>2, Zenon DEF RunInv, RunKinds, RunOps, ChangeProvider
  <2>3. ASSUME NEW w \in Workspaces, ChangeWorkspace(w)
        PROVE  op' \in RunOps
    BY <2>3, Zenon DEF RunInv, RunKinds, RunOps, ChangeWorkspace
  <2>4. ASSUME NEW kind \in {"turn", "refresh"}, Ensure(kind)
        PROVE  op' \in RunOps
    BY <2>4, Zenon DEF RunInv, RunTypeOK, RunKinds, RunOps, Ensure
  <2>5. CASE Shutdown
    BY <2>5 DEF RunInv, RunKinds, RunOps, Shutdown
  <2>. QED
    BY <1>7, <2>1, <2>2, <2>3, <2>4, <2>5 DEF Commands
<1>8. CASE Elsewhere
  BY <1>8 DEF RunInv, RunTypeOK, Elsewhere, OpenElsewhere, CloseElsewhere, EditConfiguration
<1>. QED
  BY <1>1, <1>2, <1>3, <1>4, <1>5, <1>6, <1>7, <1>8, RunGroups

\* Every step keeps the types (RuntimeNext).
LEMMA RunTypeOKKept ==
    ASSUME RunInv, RuntimeNext
    PROVE  RunTypeOK'
  BY RunTypeBinding, RunTypePlane, RunTypeTitle, RunTypeStep, RunTypeOp DEF RunTypeOK

\* Every operation is where its kind allows (host.py, plane_manager.py).
LEMMA RunSteadyKept ==
    ASSUME RunInv, RuntimeNext
    PROVE  RunSteady'
<1>. USE DEF bindingVars, foreignVars, planeVars, threadVars, Return, NoOp
<1>1. CASE RunOpening
  BY <1>1, RuntimeAssumption
     DEF RunInv, RunTypeOK, RunBindingOK, RunSteady, RunOpening, ReplaceBinding, AbandonTarget,
         RunOps
<1>2. CASE RunChanging
  BY <1>2, RuntimeAssumption
     DEF RunInv, RunSteady, RunChanging, StoreProvider, ReleaseWriter, RebindWorkspace, ReopenWriter
<1>3. CASE RunBuilding
  <2>1. CASE StartPlane
    BY <2>1 DEF RunInv, RunSteady, StartPlane
  <2>2. CASE AssemblePlane
    BY <2>2 DEF RunInv, RunSteady, AssemblePlane
  <2>3. CASE CompletePlane
    BY <2>3 DEF RunInv, RunSteady, CompletePlane
  <2>4. CASE AbandonPlane
    BY <2>4 DEF RunInv, RunSteady, AbandonPlane, Kinds
  <2>. QED
    BY <1>3, <2>1, <2>2, <2>3, <2>4 DEF RunBuilding
<1>4. CASE RunBinding
  <2>1. CASE BindSession
    BY <2>1 DEF RunInv, RunSteady, BindSession, NoTask
  <2>2. CASE BindRaises
    BY <2>2 DEF RunInv, RunSteady, BindRaises
  <2>3. CASE EnsureReturns
    BY <2>3, RuntimeAssumption DEF RunInv, RunSteady, EnsureReturns
  <2>. QED
    BY <1>4, <2>1, <2>2, <2>3 DEF RunBinding
<1>5. CASE RunClosing
  <2>1. CASE ClosePlane
    BY <2>1 DEF RunInv, RunTypeOK, RunSteady, ClosePlane, RunOps
  <2>2. CASE UnbindTitle
    BY <2>2 DEF RunInv, RunSteady, UnbindTitle, NoTask
  <2>3. CASE JoinTitle
    BY <2>3 DEF RunInv, RunSteady, JoinTitle, NoTask
  <2>4. CASE UnbindJobs
    BY <2>4 DEF RunInv, RunSteady, UnbindJobs
  <2>5. CASE ReleasePlane
    BY <2>5, RuntimeAssumption
       DEF RunInv, RunTypeOK, RunSteady, ReleasePlane, Kinds, RunKinds, RunOps
  <2>6. CASE CloseController
    BY <2>6 DEF RunInv, RunSteady, CloseController
  <2>. QED
    BY <1>5, <2>1, <2>2, <2>3, <2>4, <2>5, <2>6 DEF RunClosing
<1>6. CASE RunTurning
  BY <1>6 DEF RunInv, RunSteady, RunTurning, TurnEmits, EndTurn, StartTitle, TitleAnswered, Emitted
<1>7. CASE Commands
  <2>1. ASSUME NEW s \in Sessions, NEW p \in Providers, PrepareTarget(s, p) PROVE RunSteady'
    BY <2>1, RuntimeAssumption DEF RunInv, RunSteady, PrepareTarget
  <2>2. ASSUME NEW p \in Providers, ChangeProvider(p) PROVE RunSteady'
    BY <2>2, RuntimeAssumption DEF RunInv, RunSteady, ChangeProvider
  <2>3. ASSUME NEW w \in Workspaces, ChangeWorkspace(w) PROVE RunSteady'
    BY <2>3, RuntimeAssumption DEF RunInv, RunSteady, ChangeWorkspace
  <2>4. ASSUME NEW kind \in {"turn", "refresh"}, Ensure(kind) PROVE RunSteady'
    BY <2>4 DEF RunInv, RunSteady, Ensure, Matches
  <2>5. CASE Shutdown
    BY <2>5 DEF RunInv, RunSteady, Shutdown
  <2>. QED
    BY <1>7, <2>1, <2>2, <2>3, <2>4, <2>5 DEF Commands
<1>8. CASE Elsewhere
  BY <1>8, RuntimeAssumption
     DEF RunInv, RunSteady, Elsewhere, OpenElsewhere, CloseElsewhere, EditConfiguration
<1>. QED
  BY <1>1, <1>2, <1>3, <1>4, <1>5, <1>6, <1>7, <1>8, RunGroups

\* No step loses sight of a resource (ExecutionPlane.close, _build).
LEMMA RunResourcesKept ==
    ASSUME RunInv, RuntimeNext
    PROVE  RunResources'
<1>. USE DEF bindingVars, foreignVars, planeVars, threadVars, Return, NoOp
<1>1. CASE RunOpening
  BY <1>1 DEF RunInv, RunSteady, RunResources, RunOpening, ReplaceBinding, AbandonTarget
<1>2. CASE RunChanging
  BY <1>2
     DEF RunInv, RunResources, RunChanging, StoreProvider, ReleaseWriter, RebindWorkspace,
         ReopenWriter
<1>3. CASE RunBuilding
  <2>1. CASE StartPlane
    BY <2>1, RuntimeAssumption
       DEF RunInv, RunTypeOK, RunBindingOK, RunSteady, RunResources, StartPlane, Planes, RunOps
  <2>2. CASE AssemblePlane
    BY <2>2, RuntimeAssumption DEF RunInv, RunTypeOK, RunResources, AssemblePlane, RunOps, Planes
  <2>3. CASE CompletePlane
    BY <2>3, RuntimeAssumption DEF RunInv, RunTypeOK, RunResources, CompletePlane, RunOps, Planes
  <2>4. CASE AbandonPlane
    BY <2>4 DEF RunInv, RunTypeOK, RunResources, AbandonPlane, Kinds
  <2>. QED
    BY <1>3, <2>1, <2>2, <2>3, <2>4 DEF RunBuilding
<1>4. CASE RunBinding
  <2>1. CASE BindSession
    BY <2>1, RuntimeAssumption
       DEF RunInv, RunTypeOK, RunBindingOK, RunResources, BindSession, Binding, NoTask, RunOps,
           Planes
  <2>2. CASE BindRaises
    BY <2>2 DEF RunInv, RunTypeOK, RunResources, BindRaises, Binding, RunOps, Planes
  <2>3. CASE EnsureReturns
    BY <2>3 DEF RunInv, RunResources, EnsureReturns
  <2>. QED
    BY <1>4, <2>1, <2>2, <2>3 DEF RunBinding
<1>5. CASE RunClosing
  <2>1. CASE ClosePlane
    BY <2>1 DEF RunInv, RunTypeOK, RunResources, ClosePlane, RunOps, Planes
  <2>2. CASE UnbindTitle
    BY <2>2 DEF RunInv, RunResources, UnbindTitle, NoTask
  <2>3. CASE JoinTitle
    BY <2>3 DEF RunInv, RunResources, JoinTitle, NoTask
  <2>4. CASE UnbindJobs
    BY <2>4, RuntimeAssumption DEF RunInv, RunTypeOK, RunResources, UnbindJobs, Planes
  <2>5. CASE ReleasePlane
    BY <2>5, RuntimeAssumption
       DEF RunInv, RunTypeOK, RunSteady, RunResources, ReleasePlane, Kinds, RunOps, Planes
  <2>6. CASE CloseController
    BY <2>6 DEF RunInv, RunResources, CloseController
  <2>. QED
    BY <1>5, <2>1, <2>2, <2>3, <2>4, <2>5, <2>6 DEF RunClosing
<1>6. CASE RunTurning
  BY <1>6
     DEF RunInv, RunSteady, RunResources, RunTurning, TurnEmits, EndTurn, StartTitle, TitleAnswered,
         Emitted
<1>7. CASE Commands
  <2>1. ASSUME NEW s \in Sessions, NEW p \in Providers, PrepareTarget(s, p) PROVE RunResources'
    BY <2>1 DEF RunInv, RunSteady, RunResources, PrepareTarget
  <2>2. ASSUME NEW p \in Providers, ChangeProvider(p) PROVE RunResources'
    BY <2>2 DEF RunInv, RunSteady, RunResources, ChangeProvider
  <2>3. ASSUME NEW w \in Workspaces, ChangeWorkspace(w) PROVE RunResources'
    BY <2>3 DEF RunInv, RunSteady, RunResources, ChangeWorkspace
  <2>4. ASSUME NEW kind \in {"turn", "refresh"}, Ensure(kind) PROVE RunResources'
    BY <2>4 DEF RunInv, RunSteady, RunResources, Ensure, Matches
  <2>5. CASE Shutdown
    BY <2>5 DEF RunInv, RunSteady, RunResources, Shutdown
  <2>. QED
    BY <1>7, <2>1, <2>2, <2>3, <2>4, <2>5 DEF Commands
<1>8. CASE Elsewhere
  BY <1>8 DEF RunInv, RunResources, Elsewhere, OpenElsewhere, CloseElsewhere, EditConfiguration
<1>. QED
  BY <1>1, <1>2, <1>3, <1>4, <1>5, <1>6, <1>7, <1>8, RunGroups

\* The naming task ends before its session is let go (unbind_session).
LEMMA RunTitleKept ==
    ASSUME RunInv, RuntimeNext
    PROVE  RunTitle'
<1>. USE DEF bindingVars, foreignVars, planeVars, threadVars, Return, NoOp
<1>1. CASE RunOpening
  BY <1>1 DEF RunInv, RunTitle, RunOpening, ReplaceBinding, AbandonTarget
<1>2. CASE RunChanging
  BY <1>2
     DEF RunInv, RunTitle, RunChanging, StoreProvider, ReleaseWriter, RebindWorkspace, ReopenWriter
<1>3. CASE RunBuilding
  BY <1>3
     DEF RunInv, RunResources, RunTitle, RunBuilding, StartPlane, AssemblePlane, CompletePlane,
         AbandonPlane, Kinds
<1>4. CASE RunBinding
  BY <1>4, RuntimeAssumption
     DEF RunInv, RunTypeOK, RunBindingOK, RunSteady, RunResources, RunTitle, RunBinding,
         BindSession, BindRaises, EnsureReturns, Binding, NoTask, RunOps, Planes
<1>5. CASE RunClosing
  BY <1>5
     DEF RunInv, RunTypeOK, RunSteady, RunTitle, RunClosing, ClosePlane, UnbindTitle, JoinTitle,
         UnbindJobs, ReleasePlane, CloseController, RunOps, Planes, NoTask, Kinds
<1>6. CASE RunTurning
  <2>1. CASE TurnEmits
    BY <2>1 DEF RunInv, RunTitle, TurnEmits, Emitted
  <2>2. CASE EndTurn
    BY <2>2 DEF RunInv, RunTitle, EndTurn
  <2>3. CASE StartTitle
    BY <2>3 DEF RunInv, RunTitle, StartTitle
  <2>4. CASE TitleAnswered
    BY <2>4 DEF RunInv, RunTitle, TitleAnswered, Emitted
  <2>. QED
    BY <1>6, <2>1, <2>2, <2>3, <2>4 DEF RunTurning
<1>7. CASE Commands
  BY <1>7, Zenon
     DEF RunInv, RunTitle, Commands, PrepareTarget, ChangeProvider, ChangeWorkspace, Ensure,
         Shutdown, Matches
<1>8. CASE Elsewhere
  BY <1>8 DEF RunInv, RunTitle, Elsewhere, OpenElsewhere, CloseElsewhere, EditConfiguration
<1>. QED
  BY <1>1, <1>2, <1>3, <1>4, <1>5, <1>6, <1>7, <1>8, RunGroups

\* Nothing emits without the session's journal (session_controller.py).
LEMMA RunJournalKept ==
    ASSUME RunInv, RuntimeNext
    PROVE  RunJournal'
<1>. USE DEF bindingVars, foreignVars, planeVars, threadVars, Return, NoOp
<1>1. CASE RunOpening
  BY <1>1 DEF RunInv, RunJournal, RunOpening, ReplaceBinding, AbandonTarget
<1>2. CASE RunChanging
  BY <1>2
     DEF RunInv, RunSteady, RunJournal, RunChanging, StoreProvider, ReleaseWriter, RebindWorkspace,
         ReopenWriter
<1>3. CASE RunBuilding
  BY <1>3
     DEF RunInv, RunSteady, RunJournal, RunBuilding, StartPlane, AssemblePlane, CompletePlane,
         AbandonPlane, Kinds
<1>4. CASE RunBinding
  BY <1>4
     DEF RunInv, RunSteady, RunJournal, RunBinding, BindSession, BindRaises, EnsureReturns, NoTask
<1>5. CASE RunClosing
  BY <1>5
     DEF RunInv, RunSteady, RunJournal, RunClosing, ClosePlane, UnbindTitle, JoinTitle, UnbindJobs,
         ReleasePlane, CloseController, NoTask, Kinds
<1>6. CASE RunTurning
  BY <1>6
     DEF RunInv, RunSteady, RunResources, RunTitle, RunJournal, RunTurning, TurnEmits, EndTurn,
         StartTitle, TitleAnswered, Emitted
<1>7. CASE Commands
  <2>1. ASSUME NEW s \in Sessions, NEW p \in Providers, PrepareTarget(s, p) PROVE RunJournal'
    BY <2>1 DEF RunInv, RunSteady, RunJournal, PrepareTarget
  <2>2. ASSUME NEW p \in Providers, ChangeProvider(p) PROVE RunJournal'
    BY <2>2 DEF RunInv, RunSteady, RunJournal, ChangeProvider
  <2>3. ASSUME NEW w \in Workspaces, ChangeWorkspace(w) PROVE RunJournal'
    BY <2>3 DEF RunInv, RunSteady, RunJournal, ChangeWorkspace
  <2>4. ASSUME NEW kind \in {"turn", "refresh"}, Ensure(kind) PROVE RunJournal'
    BY <2>4 DEF RunInv, RunSteady, RunJournal, Ensure, Matches
  <2>5. CASE Shutdown
    BY <2>5 DEF RunInv, RunSteady, RunJournal, Shutdown
  <2>. QED
    BY <1>7, <2>1, <2>2, <2>3, <2>4, <2>5 DEF Commands
<1>8. CASE Elsewhere
  BY <1>8 DEF RunInv, RunJournal, Elsewhere, OpenElsewhere, CloseElsewhere, EditConfiguration
<1>. QED
  BY <1>1, <1>2, <1>3, <1>4, <1>5, <1>6, <1>7, <1>8, RunGroups

\* A plane is used for what it was built for (ExecutionPlaneManager.ensure).
LEMMA RunCurrentKept ==
    ASSUME RunInv, RuntimeNext
    PROVE  RunCurrent'
<1>. USE DEF bindingVars, foreignVars, planeVars, threadVars, Return, NoOp
<1>1. CASE RunOpening
  BY <1>1, RuntimeAssumption
     DEF RunInv, RunTypeOK, RunCurrent, RunOpening, ReplaceBinding, AbandonTarget, Binding, Planes
<1>2. CASE RunChanging
  BY <1>2, RuntimeAssumption
     DEF RunInv, RunTypeOK, RunCurrent, RunChanging, StoreProvider, ReleaseWriter, RebindWorkspace,
         ReopenWriter, Binding, Planes
<1>3. CASE RunBuilding
  <2>1. CASE StartPlane
    BY <2>1, RuntimeAssumption
       DEF RunInv, RunTypeOK, RunBindingOK, RunSteady, RunCurrent, StartPlane, Planes, RunOps
  <2>2. CASE AssemblePlane
    BY <2>2 DEF RunInv, RunCurrent, AssemblePlane
  <2>3. CASE CompletePlane
    BY <2>3, Zenon DEF RunInv, RunCurrent, CompletePlane, Binding
  <2>4. CASE AbandonPlane
    BY <2>4, RuntimeAssumption DEF RunInv, RunTypeOK, RunCurrent, AbandonPlane, Kinds, Binding
  <2>. QED
    BY <1>3, <2>1, <2>2, <2>3, <2>4 DEF RunBuilding
<1>4. CASE RunBinding
  <2>1. CASE BindSession
    BY <2>1, RuntimeAssumption
       DEF RunInv, RunTypeOK, RunBindingOK, RunResources, RunCurrent, BindSession, Binding, NoTask,
           RunOps, Planes
  <2>2. CASE BindRaises
    BY <2>2 DEF RunInv, RunTypeOK, RunCurrent, BindRaises
  <2>3. CASE EnsureReturns
    BY <2>3, RuntimeAssumption DEF RunInv, RunTypeOK, RunCurrent, EnsureReturns, Binding, Planes
  <2>. QED
    BY <1>4, <2>1, <2>2, <2>3 DEF RunBinding
<1>5. CASE RunClosing
  BY <1>5
     DEF RunInv, RunTypeOK, RunCurrent, RunClosing, ClosePlane, UnbindTitle, JoinTitle, UnbindJobs,
         ReleasePlane, CloseController, RunOps, Planes, NoTask, Kinds
<1>6. CASE RunTurning
  BY <1>6
     DEF RunInv, RunTypeOK, RunTitle, RunCurrent, RunTurning, TurnEmits, EndTurn, StartTitle,
         TitleAnswered, Emitted
<1>7. CASE Commands
  <2>1. ASSUME NEW s \in Sessions, NEW p \in Providers, PrepareTarget(s, p) PROVE RunCurrent'
    BY <2>1 DEF RunInv, RunTypeOK, RunCurrent, PrepareTarget
  <2>2. ASSUME NEW p \in Providers, ChangeProvider(p) PROVE RunCurrent'
    BY <2>2 DEF RunInv, RunTypeOK, RunCurrent, ChangeProvider
  <2>3. ASSUME NEW w \in Workspaces, ChangeWorkspace(w) PROVE RunCurrent'
    BY <2>3 DEF RunInv, RunTypeOK, RunCurrent, ChangeWorkspace
  <2>4. ASSUME NEW kind \in {"turn", "refresh"}, Ensure(kind) PROVE RunCurrent'
    BY <2>4 DEF RunInv, RunTypeOK, RunTitle, RunCurrent, Ensure, Matches, Binding
  <2>5. CASE Shutdown
    BY <2>5 DEF RunInv, RunTypeOK, RunCurrent, Shutdown
  <2>. QED
    BY <1>7, <2>1, <2>2, <2>3, <2>4, <2>5 DEF Commands
<1>8. CASE Elsewhere
  BY <1>8, RuntimeAssumption
     DEF RunInv, RunTypeOK, RunCurrent, Elsewhere, OpenElsewhere, CloseElsewhere, EditConfiguration,
         Binding, RunOps, Planes
<1>. QED
  BY <1>1, <1>2, <1>3, <1>4, <1>5, <1>6, <1>7, <1>8, RunGroups

\* The inductive invariant holds when the host starts (RuntimeHost.__init__).
LEMMA RunInvInit == RuntimeInit => RunInv
<1>. SUFFICES ASSUME RuntimeInit PROVE RunInv
  OBVIOUS
<1>1. RunTypeOK
  <2>1. bound \in [Sessions -> Workspaces]
    BY RuntimeAssumption DEF RuntimeInit
  <2>. QED
    BY <2>1, Zenon DEF RuntimeInit, RunTypeOK, RunBindingOK, NoTask, NoOp, RunOps, RunKinds, RunSteps
<1>2. RunSteady /\ RunResources /\ RunTitle /\ RunJournal
  BY DEF RuntimeInit, RunSteady, RunResources, RunTitle, RunJournal, NoTask, NoOp
<1>3. RunCurrent
  BY DEF RuntimeInit, RunCurrent, NoOp
<1>. QED
  BY <1>1, <1>2, <1>3 DEF RunInv

\* Every step keeps the inductive invariant.
LEMMA RunInvStep == RunInv /\ [RuntimeNext]_hostVars => RunInv'
<1>1. ASSUME RunInv, RuntimeNext PROVE RunInv'
  BY <1>1, RunTypeOKKept, RunSteadyKept, RunResourcesKept, RunTitleKept, RunJournalKept,
     RunCurrentKept
     DEF RunInv
<1>2. ASSUME RunInv, UNCHANGED hostVars PROVE RunInv'
  <2>. USE <1>2 DEF RunInv, hostVars, bindingVars, foreignVars, planeVars, threadVars
  <2>1. RunTypeOK'
    BY DEF RunTypeOK, RunBindingOK
  <2>2. RunSteady'
    BY DEF RunSteady
  <2>3. RunResources'
    BY DEF RunResources
  <2>4. RunTitle'
    BY DEF RunTitle
  <2>5. RunJournal'
    BY DEF RunJournal
  <2>6. RunCurrent'
    BY DEF RunCurrent, Binding
  <2>. QED
    BY <2>1, <2>2, <2>3, <2>4, <2>5, <2>6
<1>. QED
  BY <1>1, <1>2

\* Writes reach their journal, nothing is left open and a turn runs on a plane that is
\* current, whichever step of an operation raises (host.py, plane_manager.py).
THEOREM RuntimeHostSound == RuntimeSpec => []RuntimeSound
<1>1. RunInv => RuntimeSound
  <2>. SUFFICES ASSUME RunInv PROVE RuntimeSound
    OBVIOUS
  <2>1. WritesReachJournal
    BY DEF RunInv, RunJournal, WritesReachJournal
  <2>2. NothingLeaks
    BY DEF RunInv, RunJournal, RunResources, NothingLeaks
  <2>3. TurnUsesCurrent
    BY DEF RunInv, RunTypeOK, RunCurrent, TurnUsesCurrent, Planes
  <2>. QED
    BY <2>1, <2>2, <2>3 DEF RuntimeSound
<1>. QED
  BY <1>1, RunInvInit, RunInvStep, PTL DEF RuntimeSpec
=============================================================================
