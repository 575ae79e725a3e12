----------------------------- MODULE MCFrontEnds -----------------------------
(***************************************************************************)
(* What the user sees, for TLC: the page of a session, the terminal, the   *)
(* mobile controller with its cards, and the views of a transcript.  The   *)
(* components share no variable, so one instance explores them side by     *)
(* side: `part` is the component that moves, the others rest in an initial *)
(* state.                                                                  *)
(***************************************************************************)
EXTENDS SessionPage, Terminal, Mobile, CardStream, CardButtons, Views

VARIABLE part

MCKinds == [m \in MobMessages |-> IF m = "a" THEN {"text", "file"}
                                  ELSE {"text", "new", "takeover"}]

MCInit ==
    /\ part \in {"page", "terminal", "mobile", "stream", "buttons", "views"}
    /\ WebInit /\ TuiInit /\ ViewInit /\ CstInit
    /\ BtnInit /\ (part # "buttons" => btnBound = BtnNone)
    /\ MobInit /\ (part # "mobile" => \A m \in MobMessages : mobKind[m] = "text")

MCPage ==
    /\ part = "page" /\ WebNext
    /\ UNCHANGED <<part, tuiVars, mobVars, cstVars, btnVars, viewVars>>
MCTerminal ==
    /\ part = "terminal" /\ TuiNext
    /\ UNCHANGED <<part, webVars, mobVars, cstVars, btnVars, viewVars>>
MCMobile ==
    /\ part = "mobile" /\ MobNext
    /\ UNCHANGED <<part, webVars, tuiVars, cstVars, btnVars, viewVars>>
MCStream ==
    /\ part = "stream" /\ CstNext
    /\ UNCHANGED <<part, webVars, tuiVars, mobVars, btnVars, viewVars>>
MCButtons ==
    /\ part = "buttons" /\ BtnNext
    /\ UNCHANGED <<part, webVars, tuiVars, mobVars, cstVars, viewVars>>
MCViews ==
    /\ part = "views" /\ ViewNext
    /\ UNCHANGED <<part, webVars, tuiVars, mobVars, cstVars, btnVars>>

MCNext == MCPage \/ MCTerminal \/ MCMobile \/ MCStream \/ MCButtons \/ MCViews

MCSpec ==
    MCInit /\ [][MCNext]_<<part, webVars, tuiVars, mobVars, cstVars, btnVars, viewVars>>

\* The mobile front end is sound: no message is lost or acted on twice, the cards
\* of an answer show all of it, and a button acts on what its card was about
\* (interfaces/mobile, MobSound, CstSound and BtnSound).
MobileSound == MobSound /\ CstSound /\ BtnSound
=============================================================================
