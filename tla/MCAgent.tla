------------------------------- MODULE MCAgent -------------------------------
(***************************************************************************)
(* What one agent's turn works with, for TLC: background jobs, sub-agents, *)
(* the request built from the history, the stream that answers it,         *)
(* patches, pages of text, of matches and of names, and the desktop.  The  *)
(* components share no variable, so one instance explores them side by     *)
(* side: `part` is the component that moves, the others rest in an initial *)
(* state and owe no step.                                                  *)
(***************************************************************************)
EXTENDS JobManager, Subagent, Context, ModelStream, Patch, TextPages, FileTools,
        Computer

CONSTANTS j1, j2, t1

VARIABLE part

MCTurnOf == (j1 :> t1) @@ (j2 :> t1)
MCScreens == {[left |-> 0, top |-> 0, width |-> 3, height |-> 3],
              [left |-> -2, top |-> 1, width |-> 2, height |-> 2]}
MCCorners == {<<0, 0>>, <<2, 0>>, <<0, 2>>, <<2, 2>>}

MCInit ==
    /\ part \in {"jobs", "subagent", "context", "stream", "patch", "text", "files", "desktop"}
    /\ Init /\ SubInit /\ CtxInit /\ StrInit /\ DeskInit
    /\ (part # "stream" => strSent.api = "chat")
    /\ IF part # "patch" THEN patchSource = <<>> ELSE TRUE
    /\ IF part # "text" THEN pageSource = <<>> /\ pageKind = "file" ELSE TRUE
    /\ IF part # "files" THEN fndTool = "list" /\ fndPresent = {} ELSE TRUE
    /\ PatchInit /\ PageInit /\ FndInit

MCJobs == part = "jobs" /\ Next
          /\ UNCHANGED <<part, subVars, ctxVars, strVars, patchVars, pageVars, fndVars, deskVars>>
MCSubagent == part = "subagent" /\ SubNext
              /\ UNCHANGED <<part, vars, ctxVars, strVars, patchVars, pageVars, fndVars, deskVars>>
MCContext == part = "context" /\ CtxNext
             /\ UNCHANGED <<part, vars, subVars, strVars, patchVars, pageVars, fndVars, deskVars>>
MCStream == part = "stream" /\ StrNext
            /\ UNCHANGED <<part, vars, subVars, ctxVars, patchVars, pageVars, fndVars, deskVars>>
MCPatch == part = "patch" /\ PatchNext
           /\ UNCHANGED <<part, vars, subVars, ctxVars, strVars, pageVars, fndVars, deskVars>>
MCText == part = "text" /\ PageNext
          /\ UNCHANGED <<part, vars, subVars, ctxVars, strVars, patchVars, fndVars, deskVars>>
MCFiles == part = "files" /\ FndNext
           /\ UNCHANGED <<part, vars, subVars, ctxVars, strVars, patchVars, pageVars, deskVars>>
MCDesktop == part = "desktop" /\ DeskNext
             /\ UNCHANGED <<part, vars, subVars, ctxVars, strVars, patchVars, pageVars, fndVars>>

MCNext ==
    MCJobs \/ MCSubagent \/ MCContext \/ MCStream \/ MCPatch \/ MCText \/ MCFiles
        \/ MCDesktop

\* The fairness of the job manager, owed when it moves.
MCFairness ==
    /\ \A j \in Jobs :
          /\ WF_vars(part = "jobs" /\ WorkerPick(j))
          /\ WF_vars(part = "jobs" /\ WorkerStart(j))
          /\ WF_vars(part = "jobs" /\ token[j] /\ \E s \in Terminal : WorkerFinish(j, s))
    /\ \A t \in Turns :
          /\ WF_vars(part = "jobs" /\ WaitForTurn(t))
          /\ WF_vars(part = "jobs" /\ DrainUpdates(t))
          /\ WF_vars(part = "jobs" /\ CloseCancelTurn(t))
    /\ WF_vars(part = "jobs" /\ CloseShutdown)
    /\ WF_vars(part = "jobs" /\ CloseJoined)

MCSpec ==
    /\ MCInit
    /\ [][MCNext]_<<part, vars, subVars, ctxVars, strVars, patchVars, pageVars, fndVars,
               deskVars>>
    /\ MCFairness

\* Whoever follows the pages of a text, of a search or of a listing sees all of it
\* once and in order (PageShowsAll of TextPages, FndShowsAll of FileTools).
PagesShowAll == PageShowsAll /\ FndShowsAll
=============================================================================
