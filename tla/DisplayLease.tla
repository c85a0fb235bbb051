----------------------------- MODULE DisplayLease -----------------------------
(***************************************************************************)
(* What a display pipeline's connects and disconnects amount to, DCP and   *)
(* the messages left out.  The display is lent to one attempt at a time.   *)
(* An attempt begins when DCP holds the display for nobody and the port is *)
(* not marked connected; if DCP then holds it, it is for that attempt; the *)
(* mark is given only once it does, and taken away only after the display  *)
(* has been given back.  A link that is reported is the last attempt's.    *)
(* All this ends with a release that nobody waited for to its end.         *)
(***************************************************************************)
EXTENDS Naturals

VARIABLES
    epoch,   \* attempts begun
    holder,  \* the attempt DCP holds the display for, or 0
    marked,  \* the port is marked connected
    linked,  \* the attempt whose link is being reported, or 0
    lapsed   \* a release has been given up on

vars == <<epoch, holder, marked, linked, lapsed>>

Init == epoch = 0 /\ holder = 0 /\ marked = FALSE /\ linked = 0 /\ lapsed = FALSE

Begin == /\ holder = 0 /\ ~marked
         /\ epoch' = epoch + 1
         /\ UNCHANGED <<holder, marked, linked, lapsed>>

Lend == /\ holder = 0
        /\ holder' = epoch
        /\ UNCHANGED <<epoch, marked, linked, lapsed>>

Mark == /\ epoch # 0 /\ holder = epoch
        /\ marked' = TRUE
        /\ UNCHANGED <<epoch, holder, linked, lapsed>>

GiveBack == /\ holder' = 0
            /\ UNCHANGED <<epoch, marked, linked, lapsed>>

Unmark == /\ holder = 0
          /\ marked' = FALSE
          /\ UNCHANGED <<epoch, holder, linked, lapsed>>

Link == /\ linked = 0
        /\ linked' = epoch
        /\ UNCHANGED <<epoch, holder, marked, lapsed>>

Report == /\ linked' = 0
          /\ UNCHANGED <<epoch, holder, marked, lapsed>>

\* A release given up on, and whatever comes of it.
Lapse == lapsed'

Next == Begin \/ Lend \/ Mark \/ GiveBack \/ Unmark \/ Link \/ Report \/ Lapse

Spec == Init /\ [][Next]_vars
=============================================================================
