------------------------------ MODULE Execution ------------------------------
(***************************************************************************)
(* How one command reaches the operating system and what it leaves behind: *)
(* ToolCatalog.execute and HookRunner (hooks before and after the tool),    *)
(* CommandRouter and PermissionController (the scope and who must agree),   *)
(* RuntimeBridge.request_permission (one prompt at a time), _execute_process *)
(* (the process, its timeout, its spool files) and the result's clean-up.   *)
(*                                                                         *)
(* Each call is made by an agent of its own (the main agent and the         *)
(* subagents share the bridge, the preset and the prompt).  A hook is       *)
(* itself a command that takes the same path with no hooks of its own.      *)
(***************************************************************************)
EXTENDS Naturals, FiniteSets

CONSTANTS
    ExeCalls,       \* shell calls, each of another agent of the turn
    ExeHooked,      \* those whose tool has a PreToolUse and a PostToolUse hook
    ExeScope,       \* [ExeCalls -> {"default", "workspace", "host"}]: the 'scope' argument
    ExeMaxReplies,  \* answers of the user under way at once
    ExeNone

ASSUME ExeAssumption ==
    /\ ExeHooked \subseteq ExeCalls /\ ExeMaxReplies \in Nat
    /\ ExeScope \in [ExeCalls -> {"default", "workspace", "host"}]
    /\ ExeNone \notin ExeCalls

VARIABLES
    exePreset,      \* permission_preset of the Session
    exeCall,        \* per call: its place and what it holds
    exeHolder,      \* owner of _interaction_lock
    exeWaiter,      \* the registered prompt: its id, and what was put in its queue
    exeIds,         \* _interaction_ids
    exeReplies,     \* approval_response messages under way
    exeAgreed,      \* history: the prompts the user approved
    exeCancel       \* "no", "set" (TurnControl.cancel ran) or "woken" (waiters too)

exeVars == <<exePreset, exeCall, exeHolder, exeWaiter, exeIds, exeReplies, exeAgreed, exeCancel>>
exePromptVars == <<exeHolder, exeWaiter, exeIds>>
exeUserVars == <<exePreset, exeReplies, exeAgreed, exeCancel>>

ExePresets == {"ask_for_approval", "workspace_access", "full_access"}
ExeDefaultScope(p) == IF p = "full_access" THEN "host" ELSE "workspace"
ExeUnattended(p, scope) ==
    \/ p = "full_access"
    \/ p = "workspace_access" /\ scope = "workspace"

ExeNoWaiter == [id |-> 0, got |-> "nothing"]
ExeCancelled == exeCancel # "no"

ExeInit ==
    /\ exePreset \in ExePresets
    /\ exeCall = [c \in ExeCalls |-> [at |-> "new", stage |-> "pre", auto |-> FALSE, id |-> 0,
                                      ran |-> FALSE, proc |-> FALSE, spool |-> FALSE,
                                      hook |-> FALSE]]
    /\ exeHolder = ExeNone /\ exeWaiter = ExeNoWaiter /\ exeIds = 0
    /\ exeReplies = {} /\ exeAgreed = {} /\ exeCancel = "no"

ExeAt(c, at) == exeCall[c].at = at
ExeMove(c, at) == exeCall' = [exeCall EXCEPT ![c].at = at]
ExeUpdate(c, r) == exeCall' = [exeCall EXCEPT ![c] = r]
\* The call ends; _invoke's finally clause writes the `finished` fact of an open hook.
ExeOver(r) == [r EXCEPT !.at = "over", !.hook = FALSE]

-----------------------------------------------------------------------------
(* ToolCatalog.execute and HookRunner._invoke check the turn before they     *)
(* start; _invoke then writes the hook's `started` fact.                     *)
ExeExecute(c) ==
    /\ ExeAt(c, "new")
    /\ LET r == exeCall[c] IN
       ExeUpdate(c, IF ExeCancelled THEN ExeOver(r)
                    ELSE IF c \in ExeHooked THEN [r EXCEPT !.at = "resolve", !.hook = TRUE]
                    ELSE [r EXCEPT !.at = "resolve", !.stage = "tool"])
    /\ UNCHANGED <<exePromptVars, exeUserVars>>

\* CommandRouter.resolve reads the preset once; the route keeps what it allowed.  A
\* hook declares its scope (the default one), a shell call may ask for one.
ExeResolve(c) ==
    /\ ExeAt(c, "resolve")
    /\ LET asked == IF exeCall[c].stage = "tool" THEN ExeScope[c] ELSE "workspace"
           scope == IF asked = "default" THEN ExeDefaultScope(exePreset) ELSE asked
       IN ExeUpdate(c, [exeCall[c] EXCEPT !.at = "authorize", !.id = 0,
                                          !.auto = ExeUnattended(exePreset, scope)])
    /\ UNCHANGED <<exePromptVars, exeUserVars>>

\* PermissionController.authorize: nobody is asked inside the unattended scope.
ExeUnasked(c) ==
    /\ ExeAt(c, "authorize") /\ exeCall[c].auto
    /\ ExeMove(c, "ready")
    /\ UNCHANGED <<exePromptVars, exeUserVars>>

\* Mutant: a cancellation that came before the prompt is not looked at.
ExeRegisterUnchecked(c) ==
    /\ ExeAt(c, "authorize") /\ ~exeCall[c].auto /\ exeHolder = ExeNone
    /\ exeHolder' = c /\ exeIds' = exeIds + 1
    /\ exeWaiter' = [id |-> exeIds', got |-> "nothing"]
    /\ exeCall' = [exeCall EXCEPT ![c].at = "asking", ![c].id = exeIds']
    /\ UNCHANGED exeUserVars

\* request_permission, once _interaction_lock is free: a prompt registered after the
\* turn was cancelled finds the cancellation in its queue.
ExeRegister(c) ==
    /\ ExeAt(c, "authorize") /\ ~exeCall[c].auto /\ exeHolder = ExeNone
    /\ exeHolder' = c /\ exeIds' = exeIds + 1
    /\ exeWaiter' = [id |-> exeIds', got |-> IF ExeCancelled THEN "cancelled" ELSE "nothing"]
    /\ exeCall' = [exeCall EXCEPT ![c].at = "asking", ![c].id = exeIds']
    /\ UNCHANGED exeUserVars

\* A hook that was not allowed to run did not decide: the call fails with it.
ExeRefused(r) == IF r.stage = "tool" THEN [r EXCEPT !.at = "result"] ELSE ExeOver(r)

ExeAnswered(c) ==
    /\ ExeAt(c, "asking") /\ exeWaiter.got # "nothing"
    /\ exeHolder' = ExeNone /\ exeWaiter' = ExeNoWaiter
    /\ \/ exeWaiter.got = "approved" /\ ExeMove(c, "ready")
       \/ exeWaiter.got = "denied" /\ ExeUpdate(c, ExeRefused(exeCall[c]))
       \/ exeWaiter.got = "cancelled" /\ ExeUpdate(c, ExeOver(exeCall[c]))
    /\ UNCHANGED <<exeIds, exeUserVars>>

-----------------------------------------------------------------------------
(* _execute_process.  The turn is checked again before anything is created;  *)
(* creating the spool files or starting the process may fail, which removes  *)
(* the files and fails the call.                                             *)
ExeLaunch(c) ==
    /\ ExeAt(c, "ready")
    /\ LET r == [exeCall[c] EXCEPT !.ran = TRUE] IN
       \/ ExeCancelled /\ ExeUpdate(c, ExeOver(exeCall[c]))
       \/ ~ExeCancelled /\ ExeUpdate(c, [r EXCEPT !.at = "running", !.proc = TRUE, !.spool = TRUE])
       \/ ~ExeCancelled /\ ExeUpdate(c, ExeRefused(r))
    /\ UNCHANGED <<exePromptVars, exeUserVars>>

\* The process ends, or the loop finds the deadline passed, kills the tree and waits.
ExeEnds(c) ==
    /\ ExeAt(c, "running")
    /\ ExeUpdate(c, [exeCall[c] EXCEPT !.at = "collect", !.proc = FALSE])
    /\ UNCHANGED <<exePromptVars, exeUserVars>>

\* Mutant: the spool files stay.
ExeKillLeavesFiles(c) ==
    /\ ExeAt(c, "running") /\ ExeCancelled
    /\ ExeUpdate(c, ExeOver([exeCall[c] EXCEPT !.proc = FALSE]))
    /\ UNCHANGED <<exePromptVars, exeUserVars>>

\* The loop finds the turn cancelled: kill, wait, remove both files, CommandCancelled.
ExeKill(c) ==
    /\ ExeAt(c, "running") /\ ExeCancelled
    /\ ExeUpdate(c, ExeOver([exeCall[c] EXCEPT !.proc = FALSE, !.spool = FALSE]))
    /\ UNCHANGED <<exePromptVars, exeUserVars>>

\* _read_spooled_output: small output removes its file, output over the limit stays
\* in it for the artifact; a failure to read removes both and fails the call.
ExeCollect(c) ==
    /\ ExeAt(c, "collect")
    /\ LET r == exeCall[c] IN
       \/ \E large \in BOOLEAN : ExeUpdate(c, [r EXCEPT !.at = "result", !.spool = large])
       \/ ExeUpdate(c, ExeRefused([r EXCEPT !.spool = FALSE]))
    /\ UNCHANGED <<exePromptVars, exeUserVars>>

-----------------------------------------------------------------------------
(* The result.  A hook's diagnostics are normalized, which removes its spool *)
(* files whatever the writer does; its answer then lets the tool run, denies *)
(* it, or is no answer (an exit code, a timeout, malformed output), and the   *)
(* `finished` fact is written in each case.                                  *)
ExePreAnswer(c) ==
    /\ ExeAt(c, "result") /\ exeCall[c].stage = "pre"
    /\ LET r == [exeCall[c] EXCEPT !.spool = FALSE, !.hook = FALSE] IN
       \/ ExeUpdate(c, [r EXCEPT !.at = "resolve", !.stage = "tool", !.ran = FALSE])
       \/ ExeUpdate(c, ExeOver(r))
    /\ UNCHANGED <<exePromptVars, exeUserVars>>

\* The batch commits the tool's result or abandons it (a failed commit, a cancelled
\* turn): _cleanup_results and ToolResult.__del__ remove the files in either case.  A
\* committed result that ran goes to the PostToolUse hook, which checks the turn.
ExeCommit(c) ==
    /\ ExeAt(c, "result") /\ exeCall[c].stage = "tool"
    /\ LET r == [exeCall[c] EXCEPT !.spool = FALSE] IN
       \/ ExeUpdate(c, ExeOver(r))
       \/ /\ c \in ExeHooked /\ r.ran /\ ~ExeCancelled
          /\ ExeUpdate(c, [r EXCEPT !.at = "resolve", !.stage = "post", !.hook = TRUE])
    /\ UNCHANGED <<exePromptVars, exeUserVars>>

ExePostAnswer(c) ==
    /\ ExeAt(c, "result") /\ exeCall[c].stage = "post"
    /\ ExeUpdate(c, ExeOver([exeCall[c] EXCEPT !.spool = FALSE]))
    /\ UNCHANGED <<exePromptVars, exeUserVars>>

-----------------------------------------------------------------------------
(* The user and the bridge's router: the preset can change during a turn; a  *)
(* prompt may be answered more than once, from two clients; an answer goes   *)
(* to the prompt whose id it carries or nowhere.                             *)
ExeSetPreset(p) ==
    /\ p # exePreset
    /\ exePreset' = p
    /\ UNCHANGED <<exeCall, exePromptVars, exeReplies, exeAgreed, exeCancel>>

ExeReply(ok) ==
    /\ exeWaiter # ExeNoWaiter /\ Cardinality(exeReplies) < ExeMaxReplies
    /\ LET said == [id |-> exeWaiter.id, ok |-> ok] IN
       /\ said \notin exeReplies
       /\ exeReplies' = exeReplies \cup {said}
       /\ exeAgreed' = IF ok THEN exeAgreed \cup {said.id} ELSE exeAgreed
    /\ UNCHANGED <<exePreset, exeCall, exePromptVars, exeCancel>>

\* The queue keeps what was put first; what follows is dropped with it.
ExePut(got) == IF exeWaiter = ExeNoWaiter \/ exeWaiter.got # "nothing" THEN exeWaiter
               ELSE [exeWaiter EXCEPT !.got = got]

\* Mutant: a reply goes to whoever waits, whatever its id.
ExeRouteToOpen(reply) ==
    /\ reply \in exeReplies
    /\ exeReplies' = exeReplies \ {reply}
    /\ exeWaiter' = ExePut(IF reply.ok THEN "approved" ELSE "denied")
    /\ UNCHANGED <<exePreset, exeCall, exeHolder, exeIds, exeAgreed, exeCancel>>

\* submit: a reply reaches the prompt whose id it carries.
ExeRoute(reply) ==
    /\ reply \in exeReplies
    /\ exeReplies' = exeReplies \ {reply}
    /\ exeWaiter' = IF reply.id = exeWaiter.id
                    THEN ExePut(IF reply.ok THEN "approved" ELSE "denied") ELSE exeWaiter
    /\ UNCHANGED <<exePreset, exeCall, exeHolder, exeIds, exeAgreed, exeCancel>>

\* _route_cancel: the control first, then whoever waits.
ExeCancelTurn ==
    /\ exeCancel = "no"
    /\ exeCancel' = "set"
    /\ UNCHANGED <<exePreset, exeCall, exePromptVars, exeReplies, exeAgreed>>

ExeWake ==
    /\ exeCancel = "set"
    /\ exeCancel' = "woken" /\ exeWaiter' = ExePut("cancelled")
    /\ UNCHANGED <<exePreset, exeCall, exeHolder, exeIds, exeReplies, exeAgreed>>

-----------------------------------------------------------------------------
ExeStep(c) ==
    \/ ExeExecute(c) \/ ExeResolve(c) \/ ExeUnasked(c) \/ ExeRegister(c) \/ ExeAnswered(c)
    \/ ExeLaunch(c) \/ ExeEnds(c) \/ ExeKill(c) \/ ExeCollect(c)
    \/ ExePreAnswer(c) \/ ExeCommit(c) \/ ExePostAnswer(c)

ExeNext ==
    \/ \E c \in ExeCalls : ExeStep(c)
    \/ \E p \in ExePresets : ExeSetPreset(p)
    \/ \E ok \in BOOLEAN : ExeReply(ok)
    \/ \E reply \in exeReplies : ExeRoute(reply)
    \/ ExeCancelTurn \/ ExeWake

\* A thread of the runtime that can step does, and a command ends or meets its
\* deadline.  Nobody has to answer a prompt.
ExeFairness ==
    /\ \A c \in ExeCalls : WF_exeVars(ExeStep(c))
    /\ WF_exeVars(ExeWake)

ExeSpec == ExeInit /\ [][ExeNext]_exeVars /\ ExeFairness

-----------------------------------------------------------------------------
\* A command outside the scope its agent may use unattended runs only after the user
\* approved the very prompt shown for it, although prompts of several agents follow
\* one another and a late or second answer to an earlier one can still arrive
\* (request_permission, submit).
ExeAnswerIsOwn ==
    \A c \in ExeCalls : exeCall[c].at \in {"ready", "running", "collect"} /\ ~exeCall[c].auto
        => exeCall[c].id \in exeAgreed

\* A call that is over, however it ended, has left no process, no spool file, no open
\* prompt and no hook without its `finished` fact (_execute_process, _invoke,
\* _cleanup_results).
ExeNothingBehind ==
    \A c \in ExeCalls : ExeAt(c, "over")
        => ~exeCall[c].proc /\ ~exeCall[c].spool /\ ~exeCall[c].hook /\ exeHolder # c

\* A cancelled turn gets every call back, also one that waits behind another agent's
\* prompt, and without the user answering anything (_route_cancel,
\* _register_interaction).
ExeCancelReturns == ExeCancelled ~> \A c \in ExeCalls : ExeAt(c, "over")

\* A command is sound: it runs on the answer to its own request, and leaves no
\* process or file behind (approval.py, executor.py, the two above).
ExeSound == ExeAnswerIsOwn /\ ExeNothingBehind
==============================================================================
