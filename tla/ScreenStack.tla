---------------------------- MODULE ScreenStack ----------------------------
(***************************************************************************)
(* What ActivityManager promises to the rest of the firmware: the screens  *)
(* form a stack of distinct objects that changes by opening one on top,    *)
(* closing the top one, or starting over with a single one; at most one    *)
(* screen is being drawn, it is the top one, and the stack stands still    *)
(* while it is drawn.                                                      *)
(***************************************************************************)
EXTENDS Naturals, Sequences

CONSTANTS Activity, Nil

VARIABLES screens, drawing

screenVars == <<screens, drawing>>

Top == screens[Len(screens)]
Shown == {screens[i] : i \in 1..Len(screens)}

Init ==
  /\ screens = <<>>
  /\ drawing = Nil

\* The first screen after a boot, or after the last one was closed.
Show(a) ==
  /\ screens = <<>>
  /\ screens' = <<a>>
  /\ UNCHANGED drawing

Open(a) ==
  /\ drawing = Nil
  /\ screens # <<>> /\ a \notin Shown
  /\ screens' = Append(screens, a)
  /\ UNCHANGED drawing

Close ==
  /\ drawing = Nil
  /\ screens # <<>>
  /\ screens' = SubSeq(screens, 1, Len(screens) - 1)
  /\ UNCHANGED drawing

StartOver(a) ==
  /\ drawing = Nil
  /\ screens # <<>> /\ a \notin Shown
  /\ screens' = <<a>>
  /\ UNCHANGED drawing

StartDrawing ==
  /\ drawing = Nil
  /\ screens # <<>>
  /\ drawing' = Top
  /\ UNCHANGED screens

StopDrawing ==
  /\ drawing # Nil
  /\ drawing' = Nil
  /\ UNCHANGED screens

Next ==
  \/ \E a \in Activity : Show(a) \/ Open(a) \/ StartOver(a)
  \/ Close \/ StartDrawing \/ StopDrawing

Spec == Init /\ [][Next]_screenVars
=============================================================================
