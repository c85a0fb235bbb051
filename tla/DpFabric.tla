------------------------------ MODULE DpFabric ------------------------------
(***************************************************************************)
(* The Type-C fabric of dcp.c: which display pipeline drives which Type-C   *)
(* port, as USB-C monitors (alternate mode), Thunderbolt tunnels and the    *)
(* pipelines' own HDMI outputs compete for the pipelines.                   *)
(*                                                                          *)
(* apple_dcp_tb_dp_tunnel and dcp_typec_route_set hold dcp_typec_fabric_lock *)
(* from their first look at the port to their return, so each is one action *)
(* here, with every outcome its calls can have.  What goes on between two   *)
(* of them is the HDMI cable, DCP and the reconnect work.                   *)
(***************************************************************************)
EXTENDS Naturals

CONSTANTS
    Ports,      \* Type-C ports
    Pipes,      \* pipelines, each its CRTC's index
    FixedPipes, \* those with a fixed output of their own (fixed_phy)
    Dpins,      \* the DP IN adapters behind a port
    None,       \* no port, pipeline, adapter or state
    Hdmi        \* a pipeline's fixed output, as the place of a display

ASSUME FabricAssumption ==
    /\ Pipes \subseteq Nat /\ FixedPipes \subseteq Pipes
    /\ None \notin Ports \cup Pipes \cup Dpins \cup {Hdmi}
    /\ Hdmi \notin Ports /\ None \notin {"dp", "other"}

VARIABLES
    owner,    \* port->owner: the pipeline that drives the port
    active,   \* dcp->active_typec_route: the port the pipeline drives
    tunnel,   \* the adapter the pipeline's route tunnels through
    callback, \* dcp->tb_dpin_set_active and its context: <<port, adapter>>
    applied,  \* the recorded Type-C state, None while !applied_valid
    denied,   \* the recorded state could not be acted upon
    fixed,    \* dcp->fixed_route_selected
    linked,   \* the display the pipeline's DPTX port is marked connected to
    hdmi,     \* pipelines whose HDMI hot-plug pin is asserted
    failed    \* pipelines whose output was last changed by half

routes == <<owner, active, tunnel, callback>>
states == <<applied, denied>>
output == <<fixed, linked, failed>>
vars   == <<routes, states, output, hdmi>>

NoCallback == <<None, None>>

Init ==
    /\ owner = [p \in Ports |-> None] /\ active = [d \in Pipes |-> None]
    /\ tunnel = [d \in Pipes |-> None] /\ callback = [d \in Pipes |-> NoCallback]
    /\ applied = [p \in Ports |-> None] /\ denied = [p \in Ports |-> FALSE]
    /\ fixed = [d \in Pipes |-> d \in FixedPipes]
    /\ linked = [d \in Pipes |-> None]
    /\ hdmi = {} /\ failed = {}

-----------------------------------------------------------------------------
(* The choice of a pipeline. *)

\* A slip: a pipeline that drives another port is not told from a free one.
AvailableShared(d) == d \notin hdmi

\* dcp_typec_route_available: free, and no display on its fixed output.
Available(d) == active[d] = None /\ d \notin hdmi

\* Alternate mode goes by the CRTC's index; a tunnel prefers a pipeline with a
\* fixed output, as the other never trains one.
AltScore    == [d \in Pipes |-> d]
TunnelScore == [d \in Pipes |-> d + (IF d \in FixedPipes THEN 0 ELSE 100)]

Best(score, d) == /\ d \in Pipes /\ Available(d)
                  /\ \A e \in Pipes : Available(e) => score[d] <= score[e]

-----------------------------------------------------------------------------
(* Changing a pipeline's output. *)

\* dcp_typec_route_activate and dcp_dptx_connect_oob. The connect may fail, which
\* the reconnect work mends, and does nothing for a port marked connected.
ActivateOver(p, d, i, mark, keep) ==
    /\ owner' = [owner EXCEPT ![p] = d]
    /\ active' = [active EXCEPT ![d] = p]
    /\ tunnel' = [tunnel EXCEPT ![d] = i]
    /\ callback' = [callback EXCEPT ![d] = IF i = None THEN NoCallback ELSE <<p, i>>]
    /\ fixed' = [fixed EXCEPT ![d] = keep]
    /\ \E l \in IF mark = None THEN {None, p} ELSE {mark} :
          linked' = [linked EXCEPT ![d] = l]
    /\ failed' = failed \ {d}

\* A slip: what the port is marked connected to is not released first.
ActivateStale(p, d, i) == ActivateOver(p, d, i, linked[d], FALSE)

\* A slip (0010): the fixed route stays selected when a tunnel takes over.
ActivateBoth(p, d, i) == ActivateOver(p, d, i, None, fixed[d] /\ i # None)

\* The port can still be marked connected to a display that is gone: that is
\* released, the fixed route makes way, and the port is the pipeline's.
Activate(p, d, i) == ActivateOver(p, d, i, None, FALSE)

\* It breaks off: the fixed route cannot be deselected and stays, or (alternate
\* mode) the crossbar cannot be selected and the fixed route may be back or not.
ActivateFails(d, i) ==
    /\ linked' = [linked EXCEPT ![d] = None]
    /\ failed' = failed \cup {d}
    /\ \/ /\ fixed[d]
          /\ UNCHANGED fixed
       \/ /\ i = None
          /\ \E back \in BOOLEAN : fixed' = [fixed EXCEPT ![d] = back /\ d \in FixedPipes]
    /\ UNCHANGED routes

\* disconnect_oob, dcp_typec_route_deactivate and, for the displays of waiting,
\* dcp_dptx_connect: the display is released, the fixed route comes back, and a
\* display waiting there is connected. Bringing it back may fail.
DeactivateFor(p, d, waiting) ==
    /\ owner' = [owner EXCEPT ![p] = None]
    /\ active' = [active EXCEPT ![d] = None]
    /\ tunnel' = [tunnel EXCEPT ![d] = None]
    /\ callback' = [callback EXCEPT ![d] = NoCallback]
    /\ \/ /\ fixed' = [fixed EXCEPT ![d] = d \in FixedPipes]
          /\ linked' = [linked EXCEPT ![d] = IF d \in waiting THEN Hdmi ELSE None]
          /\ failed' = failed \ {d}
       \/ /\ d \in FixedPipes
          /\ \E back \in BOOLEAN : fixed' = [fixed EXCEPT ![d] = back]
          /\ linked' = [linked EXCEPT ![d] = None]
          /\ failed' = failed \cup {d}

\* A slip: the display on the fixed output is left dark.
DeactivateDark(p, d) == DeactivateFor(p, d, {})

Deactivate(p, d) == DeactivateFor(p, d, hdmi)

\* The crossbar cannot be deselected: the display is gone, the route is not.
DeactivateFails(d) ==
    /\ linked' = [linked EXCEPT ![d] = None]
    /\ failed' = failed \cup {d}
    /\ UNCHANGED <<owner, active, tunnel, fixed>>

-----------------------------------------------------------------------------
(* apple_dcp_tb_dp_tunnel.  A call for an adapter 2 or a port without routes,  *)
(* a set-up of a port that is owned, and a tear-down of a tunnel that is not    *)
(* there change nothing.                                                       *)

TunnelUp(p, i) ==
    /\ owner[p] = None
    /\ \E d \in Pipes : /\ Best(TunnelScore, d)
                        /\ Activate(p, d, i) \/ ActivateFails(d, i)
    /\ UNCHANGED <<states, hdmi>>

\* The pipeline that tunnels through the port's adapter i.
Tunnels(p, i, d) == owner[p] = d /\ d # None /\ tunnel[d] = i

\* A slip: the Type-C state from before the tunnel is still taken for applied.
TunnelDownRemembers(p, i) ==
    \E d \in Pipes : /\ Tunnels(p, i, d)
                     /\ Deactivate(p, d)
                     /\ denied' = [denied EXCEPT ![p] = FALSE]
                     /\ UNCHANGED <<applied, hdmi>>

\* The next Type-C state is applied in full.
TunnelDown(p, i) ==
    \E d \in Pipes : /\ Tunnels(p, i, d)
                     /\ Deactivate(p, d)
                     /\ applied' = [applied EXCEPT ![p] = None]
                     /\ denied' = [denied EXCEPT ![p] = FALSE]
                     /\ UNCHANGED hdmi

\* A slip: a tear-down that fails leaves its caller's callback behind.
TunnelStuckCalls(p, i) ==
    \E d \in Pipes : /\ Tunnels(p, i, d)
                     /\ DeactivateFails(d)
                     /\ UNCHANGED <<callback, states, hdmi>>

\* The port stays the pipeline's, but the caller's context goes regardless.
TunnelStuck(p, i) ==
    \E d \in Pipes : /\ Tunnels(p, i, d)
                     /\ DeactivateFails(d)
                     /\ callback' = [callback EXCEPT ![d] = NoCallback]
                     /\ UNCHANGED <<states, hdmi>>

-----------------------------------------------------------------------------
(* dcp_typec_route_set: a Type-C state other than the recorded one.  It is      *)
(* recorded first, whatever then comes of it.                                   *)

Record(p, state, refused) ==
    /\ applied[p] # state
    /\ applied' = [applied EXCEPT ![p] = state]
    /\ denied' = [denied EXCEPT ![p] = refused]

Tunneled(p) == owner[p] # None /\ tunnel[owner[p]] # None

\* A slip: the port is taken to have an owner.
LeaveDpUnchecked(p) ==
    /\ ~Tunneled(p)
    /\ \/ Record(p, "other", FALSE) /\ Deactivate(p, owner[p])
       \/ /\ Record(p, "other", TRUE) /\ DeactivateFails(owner[p])
          /\ UNCHANGED callback
    /\ UNCHANGED hdmi

\* No DisplayPort: an alternate-mode route is taken down, a tunnel goes by its
\* own path.
LeaveDp(p) ==
    /\ \/ /\ Record(p, "other", FALSE)
          /\ owner[p] = None \/ Tunneled(p)
          /\ UNCHANGED <<routes, output>>
       \/ /\ owner[p] # None /\ ~Tunneled(p)
          /\ \/ Record(p, "other", FALSE) /\ Deactivate(p, owner[p])
             \/ /\ Record(p, "other", TRUE) /\ DeactivateFails(owner[p])
                /\ UNCHANGED callback
    /\ UNCHANGED hdmi

\* DisplayPort: nothing to do for a port that drives it already; a free one gets
\* the best pipeline there is, or none.
EnterDp(p) ==
    /\ ~Tunneled(p)
    /\ \/ /\ owner[p] # None /\ Record(p, "dp", FALSE)
          /\ UNCHANGED <<routes, output>>
       \/ /\ owner[p] = None /\ Record(p, "dp", FALSE)
          /\ \E d \in Pipes : Best(AltScore, d) /\ Activate(p, d, None)
       \/ /\ owner[p] = None /\ Record(p, "dp", TRUE)
          /\ \E d \in Pipes : Best(AltScore, d) /\ ActivateFails(d, None)
       \/ /\ owner[p] = None /\ Record(p, "dp", TRUE)
          /\ \A d \in Pipes : ~Available(d)
          /\ UNCHANGED <<routes, output>>
    /\ UNCHANGED hdmi

\* While a tunnel still owns the port, DisplayPort is neither acted upon nor
\* remembered.
EnterDpTunneled(p) ==
    /\ Tunneled(p)
    /\ applied[p] # "dp"
    /\ applied' = [applied EXCEPT ![p] = None]
    /\ UNCHANGED <<routes, denied, output, hdmi>>

-----------------------------------------------------------------------------
(* The world around the fabric. *)

\* The HPD handler of the fixed output connects it if its route is selected,
\* and leaves disconnects to DCP, which gets to them at its own time.
HdmiPlug(d) ==
    /\ d \notin hdmi
    /\ hdmi' = hdmi \cup {d}
    /\ \/ /\ fixed[d]
          /\ linked' = [linked EXCEPT ![d] = Hdmi]
          /\ failed' = failed \ {d}
       \/ /\ fixed[d]
          /\ failed' = failed \cup {d}
          /\ UNCHANGED linked
       \/ /\ ~fixed[d]
          /\ UNCHANGED <<linked, failed>>
    /\ UNCHANGED <<routes, states, fixed>>

HdmiUnplug(d) ==
    /\ d \in hdmi
    /\ hdmi' = hdmi \ {d}
    /\ UNCHANGED <<routes, states, output>>

DcpNotices(d) ==
    /\ linked[d] = Hdmi /\ d \notin hdmi
    /\ linked' = [linked EXCEPT ![d] = None]
    /\ UNCHANGED <<routes, states, fixed, failed, hdmi>>

\* dcp_typec_reconnect_work
Reconnect(d) ==
    /\ active[d] # None /\ linked[d] = None /\ d \notin failed
    /\ linked' = [linked EXCEPT ![d] = active[d]]
    /\ UNCHANGED <<routes, states, fixed, failed, hdmi>>

-----------------------------------------------------------------------------
Next ==
    \/ \E p \in Ports, i \in Dpins : TunnelUp(p, i) \/ TunnelDown(p, i) \/ TunnelStuck(p, i)
    \/ \E p \in Ports : LeaveDp(p) \/ EnterDp(p) \/ EnterDpTunneled(p)
    \/ \E d \in FixedPipes : HdmiPlug(d) \/ HdmiUnplug(d)
    \/ \E d \in Pipes : DcpNotices(d) \/ Reconnect(d)

Spec == Init /\ [][Next]_vars

-----------------------------------------------------------------------------
TypeOK ==
    /\ owner \in [Ports -> Pipes \cup {None}]
    /\ active \in [Pipes -> Ports \cup {None}]
    /\ tunnel \in [Pipes -> Dpins \cup {None}]
    /\ callback \in [Pipes -> (Ports \cup {None}) \X (Dpins \cup {None})]
    /\ applied \in [Ports -> {"dp", "other", None}] /\ denied \in [Ports -> BOOLEAN]
    /\ fixed \in [Pipes -> BOOLEAN] /\ linked \in [Pipes -> Ports \cup {Hdmi, None}]
    /\ hdmi \subseteq FixedPipes /\ failed \subseteq Pipes

\* A port and a pipeline name each other or nobody: however activations and
\* tear-downs fail, no pipeline drives two ports, and no port waits for a
\* pipeline that has left it.
Exclusive == \A p \in Ports, d \in Pipes : owner[p] = d <=> active[d] = p

\* A pipeline never has its fixed output and a Type-C port selected at once.
OneOutput == \A d \in Pipes : fixed[d] => d \in FixedPipes /\ active[d] = None

\* DCP calls into a Thunderbolt service only for the tunnel that service set up,
\* over the route it set up; a tunnel has its service to call unless its
\* tear-down failed, and after a failed tear-down nobody is called.
CallbackFits ==
    \A d \in Pipes :
        /\ tunnel[d] # None => active[d] # None
        /\ callback[d] # NoCallback => /\ tunnel[d] # None
                                      /\ callback[d] = <<active[d], tunnel[d]>>
        /\ tunnel[d] # None => (d \in failed <=> callback[d] = NoCallback)

\* A display on the fixed output is connected whenever its pipeline is free and
\* the last change of its output went through: no tunnel leaves it dark.
HdmiComesBack ==
    \A d \in hdmi : active[d] = None /\ d \notin failed => linked[d] = Hdmi /\ fixed[d]

\* A port that records DisplayPort and was not refused has a pipeline: after a
\* tunnel the monitor's state is applied again, not taken for applied.
RecordedIsDone == \A p \in Ports : applied[p] = "dp" /\ ~denied[p] => owner[p] # None

Selected(d) == IF active[d] # None THEN active[d] ELSE IF fixed[d] THEN Hdmi ELSE None

Output(d) == INSTANCE OutputSwitch WITH selected <- Selected(d), shown <- linked[d]

\* Each pipeline's output is a switch (OutputSwitch): whoever asks for it, and however
\* a change fails, no display stays connected over a change of output, none is
\* connected on an output that is not selected (nothing would ever connect the one
\* that is), and no port takes a pipeline straight from another.
SwitchesOutputs ==
    /\ \A d \in Pipes : Output(d)!Init
    /\ [][\A d \in Pipes : [Output(d)!Next]_(Output(d)!vars)]_vars
=============================================================================
