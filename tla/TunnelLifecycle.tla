-------------------------- MODULE TunnelLifecycle --------------------------
(***************************************************************************)
(* The contract between the Thunderbolt glue and the display driver about  *)
(* ONE DP IN adapter, as the header of the interface states it: the        *)
(* adapter's register block is mapped before the display driver is given   *)
(* the wake-up callback, the callback is taken back before the block is    *)
(* unmapped, and a register handshake only runs while the tunnel is up,    *)
(* the callback is registered and the block is mapped.                     *)
(*                                                                         *)
(* DpinWork shows that the work item, the connection manager's hooks, the  *)
(* DCP calls and the module load/unload paths together implement it.       *)
(***************************************************************************)
VARIABLES
  alive,    (* the connection manager has the tunnel up           *)
  mapped,   (* the adapter's register block is ioremapped         *)
  bound,    (* the display driver holds the wake-up callback      *)
  busy      (* a register handshake is running on the block       *)

vars == <<alive, mapped, bound, busy>>

Init == /\ alive = FALSE
        /\ mapped = FALSE
        /\ bound = FALSE
        /\ busy = FALSE

\* The connection manager moves the tunnel, never under a running handshake.
Move == /\ ~busy
        /\ alive' = ~alive
        /\ UNCHANGED <<mapped, bound, busy>>

Map == /\ ~mapped /\ ~bound
       /\ mapped' = TRUE
       /\ UNCHANGED <<alive, bound, busy>>

Bind == /\ mapped /\ ~bound
        /\ bound' = TRUE
        /\ UNCHANGED <<alive, mapped, busy>>

Begin == /\ alive /\ mapped /\ bound /\ ~busy
         /\ busy' = TRUE
         /\ UNCHANGED <<alive, mapped, bound>>

Finish == /\ busy
          /\ busy' = FALSE
          /\ UNCHANGED <<alive, mapped, bound>>

Unbind == /\ bound /\ ~busy
          /\ bound' = FALSE
          /\ UNCHANGED <<alive, mapped, busy>>

Unmap == /\ mapped /\ ~bound /\ ~busy
         /\ mapped' = FALSE
         /\ UNCHANGED <<alive, bound, busy>>

Next == Move \/ Map \/ Bind \/ Begin \/ Finish \/ Unbind \/ Unmap

Spec == Init /\ [][Next]_vars
=============================================================================
