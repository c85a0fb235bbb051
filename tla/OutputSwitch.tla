----------------------------- MODULE OutputSwitch -----------------------------
(***************************************************************************)
(* What the fabric promises of ONE display pipeline's output: it is        *)
(* switched to its fixed output, to a Type-C port or to nothing, from a    *)
(* port never straight to a port; and the display it is connected to is    *)
(* the one on the output selected.  A switch takes an earlier display      *)
(* down: nothing stays connected over it.                                  *)
(***************************************************************************)
CONSTANTS
    Ports,  \* Type-C ports
    Hdmi,   \* the fixed output
    None    \* no output, no display

VARIABLES
    selected, \* the output selected
    shown     \* the output whose display is connected

vars == <<selected, shown>>

Init == selected \in {Hdmi, None} /\ shown = None

Switch == /\ selected' \in Ports \cup {Hdmi, None}
          /\ selected' # selected
          /\ selected \notin Ports \/ selected' \notin Ports
          /\ shown' \in {None, selected'}

Connect == /\ selected # None
           /\ shown' = selected
           /\ UNCHANGED selected

Disconnect == /\ shown' = None
              /\ UNCHANGED selected

Next == Switch \/ Connect \/ Disconnect

Spec == Init /\ [][Next]_vars
=============================================================================
