-------------------------------- MODULE Computer --------------------------------
(***************************************************************************)
(* DesktopComputer and DesktopCapability (agent_runtime/computer.py): the  *)
(* mouse, the keyboard and the clipboard of the user's desktop, operated   *)
(* by the computer_action tool.                                            *)
(*                                                                         *)
(* Every operation holds the computer's lock, so an action is one call,    *)
(* with the place where it fails chosen.  PyAutoGUI is external: a call    *)
(* fails before it does anything while the pointer rests in a corner of    *)
(* the desktop, the way a user stops it, and can fail after it moved the   *)
(* pointer into one.  Between two calls the user moves the pointer, copies *)
(* something, or changes the displays.                                     *)
(***************************************************************************)
EXTENDS Integers, FiniteSets

CONSTANTS
    DeskScreens,     \* the displays: left, top, width, height
    DeskCorners,     \* FAILSAFE_POINTS
    DeskButtons,
    DeskMaxSteps     \* bound: calls, moves and copies

ASSUME DeskAssumption == DeskScreens # {} /\ DeskMaxSteps \in Nat

VARIABLES
    desk,         \* the computer and the desktop it operates
    deskLife,     \* DesktopCapability: "unused", "open" or "closed"
    deskLayout,   \* whether the displays are still those of the first screenshot
    deskSteps

deskVars == <<desk, deskLife, deskLayout, deskSteps>>

DeskNone == <<>>

\* _Screen.contains.
DeskContains(s, p) ==
    s.left <= p[1] /\ p[1] < s.left + s.width /\ s.top <= p[2] /\ p[2] < s.top + s.height

\* The bounds of the virtual desktop, and the points of its screenshot.
DeskLeft == CHOOSE x \in {s.left : s \in DeskScreens} : \A s \in DeskScreens : x <= s.left
DeskTop == CHOOSE y \in {s.top : s \in DeskScreens} : \A s \in DeskScreens : y <= s.top
DeskSpan(low, ends) == (CHOOSE e \in ends : \A f \in ends : f <= e) - low
DeskShot ==
    (0..DeskSpan(DeskLeft, {s.left + s.width - 1 : s \in DeskScreens}))
        \X (0..DeskSpan(DeskTop, {s.top + s.height - 1 : s \in DeskScreens}))

\* _DesktopLayout.input_point: a point of the screenshot on the desktop.
DeskInput(p) == <<DeskLeft + p[1], DeskTop + p[2]>>
DeskOnScreen(p) == \E s \in DeskScreens : DeskContains(s, p)
DeskPoints == {DeskInput(p) : p \in DeskShot}

\* _DesktopLayout.interior_point.
DeskInterior(p) ==
    LET s == CHOOSE c \in DeskScreens : DeskContains(c, p)
        within(x, low, high) == IF x < low THEN low ELSE IF x > high THEN high ELSE x
    IN  << within(p[1], s.left + 1, s.left + s.width - 2),
           within(p[2], s.top + 1, s.top + s.height - 2) >>

\* clip: the clipboard, <<author, number>>; saved: _pending_clipboard; held:
\* _held_buttons; owned: _last_pointer_position; down: the buttons really pressed;
\* parked: the pointer rests in a corner where the user put it; acted: the last call
\* produced input; refused: the clipboard refused to take the user's content back.
DeskInit ==
    /\ desk = [clip |-> <<"user", 0>>, saved |-> DeskNone, held |-> {}, down |-> {},
               pointer |-> DeskInterior(CHOOSE p \in DeskPoints : DeskOnScreen(p)),
               owned |-> DeskNone, parked |-> FALSE, acted |-> FALSE, refused |-> FALSE]
    /\ deskLife = "unused" /\ deskLayout = TRUE /\ deskSteps = 0

\* _restore_pending_clipboard, when the clipboard takes the text.
DeskRestored(d) ==
    [d EXCEPT !.clip = IF d.saved = DeskNone THEN @ ELSE d.saved, !.saved = DeskNone]

\* The pointer is moved by the computer.
DeskMoved(d, p) == [d EXCEPT !.pointer = p, !.parked = FALSE]

\* Mutant: the pointer is brought back from every corner.
DeskRecoveredAlways(d) ==
    IF d.pointer \in DeskCorners THEN DeskMoved(d, DeskInterior(d.pointer)) ELSE d

\* _recover_owned_failsafe: only a corner the computer itself went to is left.
DeskRecovered(d) ==
    IF d.pointer = d.owned /\ d.pointer \in DeskCorners
    THEN DeskMoved(d, DeskInterior(d.pointer)) ELSE d

\* PyAutoGUI refuses the call.
DeskStopped(d) == d.pointer \in DeskCorners

\* A call that moves the pointer to p and then does the rest: it can fail in the corner.
DeskTo(d, p, rest) ==
    {rest} \cup IF p \in DeskCorners THEN {DeskMoved(d, p)} ELSE {}

\* What each call of control leaves, from the desktop d that it found ready.
DeskClick(d, b, p) ==
    LET aimed == [d EXCEPT !.owned = p, !.parked = @ /\ d.pointer # p]
        clicked == [DeskMoved(aimed, p) EXCEPT !.down = @ \ {b}, !.acted = TRUE]
    IN  IF DeskStopped(d) THEN {aimed} ELSE DeskTo(aimed, p, clicked)

DeskMove(d, p) ==
    IF DeskStopped(d) \/ Cardinality(d.held) > 1 THEN {d}
    ELSE DeskTo(d, p, [DeskMoved(d, p) EXCEPT !.owned = p, !.acted = TRUE])

DeskMouseDown(d, b, p) ==
    IF DeskStopped(d) \/ b \in d.held THEN {d}
    ELSE DeskTo(d, p, [DeskMoved(d, p) EXCEPT !.owned = p, !.acted = TRUE,
                                             !.down = @ \cup {b}, !.held = @ \cup {b}])

\* The button is released whether or not the drag to p succeeds.
DeskMouseUp(d, b, p) ==
    LET up(e) == [e EXCEPT !.down = @ \ {b}, !.held = @ \ {b}]
        done == [up(DeskMoved(d, p)) EXCEPT !.owned = p, !.acted = TRUE]
    IN  IF b \in d.held
        THEN IF DeskStopped(d) THEN {up(d)} ELSE {up(e) : e \in DeskTo(d, p, DeskMoved(d, p))} \cup {done}
        ELSE IF DeskStopped(d) THEN {d} ELSE DeskTo(d, p, done)

\* drag: the press at p, the way to q, and the release in any case.
DeskDrag(d, b, p, q) ==
    LET over(e) == [e EXCEPT !.down = @ \ {b}, !.acted = TRUE]
    IN  IF d.held # {} \/ DeskStopped(d) THEN {d}
        ELSE DeskTo(d, p, [over(DeskMoved(d, q)) EXCEPT !.owned = q])
                 \cup {over(DeskMoved(d, e)) : e \in {p, q}}

\* type: the text is pasted; the old content waits for the next call, or goes back at
\* once when the keys fail.
DeskType(d) ==
    LET text == <<"agent", deskSteps>>
        failed == {d} \cup {[d EXCEPT !.clip = text, !.refused = TRUE]}
    IN  IF DeskStopped(d) THEN failed
        ELSE failed \cup {[d EXCEPT !.clip = text, !.saved = d.clip, !.acted = TRUE]}

\* key and hotkey; an unknown key is refused.
DeskKey(d) == IF DeskStopped(d) THEN {d} ELSE {d, [d EXCEPT !.acted = TRUE]}

\* control up to the action: the clipboard, then the screenshot, then the corner.
DeskReady == [DeskRecovered(DeskRestored(desk)) EXCEPT !.owned = DeskNone, !.acted = FALSE]

\* DesktopComputer.control: the clipboard refuses, the displays changed, the
\* coordinates are outside every display, the action only waits, or it runs.
DeskControl ==
    /\ deskLife # "closed" /\ deskSteps < DeskMaxSteps
    /\ deskLife' = "open" /\ deskSteps' = deskSteps + 1
    /\ \/ desk.saved # DeskNone /\ desk' = [desk EXCEPT !.acted = FALSE]
       \/ ~deskLayout /\ desk' = [DeskRestored(desk) EXCEPT !.acted = FALSE]
       \/ /\ deskLayout
          /\ \/ desk' \in {DeskReady, [DeskRestored(desk) EXCEPT !.acted = FALSE]}
             \/ \E b \in DeskButtons, p \in DeskPoints :
                  /\ DeskOnScreen(p)
                  /\ \/ desk' \in DeskClick(DeskReady, b, p)
                     \/ desk' \in DeskMove(DeskReady, p)
                     \/ desk' \in DeskMouseDown(DeskReady, b, p)
                     \/ desk' \in DeskMouseUp(DeskReady, b, p)
                     \/ \E q \in DeskPoints :
                          DeskOnScreen(q) /\ desk' \in DeskDrag(DeskReady, b, p, q)
             \/ desk' \in DeskType(DeskReady)
             \/ desk' \in DeskKey(DeskReady)
    /\ UNCHANGED deskLayout

\* Mutant: a clipboard that refuses keeps close from releasing the buttons.
DeskReleasedOnlyAfter(d, restored) ==
    IF restored THEN [DeskRestored(d) EXCEPT !.down = {}, !.held = {}, !.acted = FALSE]
    ELSE [d EXCEPT !.refused = TRUE]

\* DesktopComputer.close.
DeskReleased(d, restored) ==
    [(IF restored THEN DeskRestored(d) ELSE [d EXCEPT !.refused = TRUE])
        EXCEPT !.down = @ \ d.held, !.held = {}, !.acted = FALSE]

\* DesktopCapability.close, when the runtime's plane closes.
DeskClose ==
    /\ deskLife # "closed"
    /\ deskLife' = "closed"
    /\ IF deskLife = "unused" THEN UNCHANGED desk
       ELSE \E restored \in (IF desk.saved = DeskNone THEN {TRUE} ELSE BOOLEAN) :
              desk' = DeskReleased(desk, restored)
    /\ UNCHANGED <<deskLayout, deskSteps>>

\* The user between two calls.
DeskUser ==
    /\ deskSteps < DeskMaxSteps /\ deskSteps' = deskSteps + 1
    /\ \/ /\ \E p \in DeskPoints :
               /\ DeskOnScreen(p)
               /\ desk' = [desk EXCEPT !.pointer = p, !.acted = FALSE,
                                       !.parked = p \in DeskCorners /\ p # desk.owned]
          /\ UNCHANGED deskLayout
       \/ desk' = [desk EXCEPT !.clip = <<"user", deskSteps + 1>>, !.acted = FALSE] /\ UNCHANGED deskLayout
       \/ deskLife = "open" /\ deskLayout /\ deskLayout' = FALSE /\ UNCHANGED desk
    /\ UNCHANGED deskLife

DeskNext == DeskControl \/ DeskClose \/ DeskUser

DeskSpec == DeskInit /\ [][DeskNext]_deskVars

(***************************************************************************)
(* Properties.                                                             *)
(***************************************************************************)

\* The computer leaves the desktop as it found it: no button is pressed that it does
\* not know of, none at all once it is closed, and then the clipboard holds something
\* the user put there, unless it refused to take it back; whatever failed before.
DeskLeftClean ==
    /\ desk.down \subseteq desk.held
    /\ desk.saved # DeskNone => desk.saved[1] = "user" \/ desk.refused
    /\ deskLife = "closed" => desk.down = {} /\ (desk.clip[1] = "user" \/ desk.refused)

\* A user who parks the pointer in a corner stops the computer: no input until they
\* move it, unless a click was aimed at that corner or the computer had itself gone
\* there before (_recover_owned_failsafe).
\* And every step leaves the desktop clean.
DeskSound == [][DeskLeftClean' /\ (desk.parked => ~desk'.acted)]_deskVars
================================================================================
