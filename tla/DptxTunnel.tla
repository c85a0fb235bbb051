----------------------------- MODULE DptxTunnel -----------------------------
(***************************************************************************)
(* The pixel path of a Thunderbolt DP tunnel inside appledrm: one display  *)
(* pipeline (struct apple_dcp with its DPTX port), one Type-C port, the    *)
(* display crossbar between them and the port's ATC PHY, which generates   *)
(* the tunnel's pixel clock.                                               *)
(*                                                                         *)
(* Three parties interleave: whoever holds dcp_typec_fabric_lock and sets  *)
(* up or tears down the route; DCP firmware's apcalls, one at a time on    *)
(* the endpoint's ordered queue; and the Type-C notifications that change  *)
(* the PHY's mode. The apcalls look at dcp->dptx_tunnel without a lock     *)
(* (dptxport_call) and do their work under tb_lock, so each is two steps;  *)
(* a section under tb_lock is one step. DCP may make any call at any time: *)
(* nothing below rests on the order the firmware chooses.                  *)
(***************************************************************************)
EXTENDS Integers

CONSTANTS
  Rates,     (* the link rates DCP may ask for                               *)
  LateMode,  (* the PHY's mode may change while a route still stands         *)
  MaxFails   (* bound: how often mux_control_deselect() fails                *)

ASSUME DptxAssumption ==
  /\ Rates \subseteq Nat \ {0}
  /\ LateMode \in BOOLEAN
  /\ MaxFails \in Nat

VARIABLES
  pc,        (* where the holder of dcp_typec_fabric_lock is                 *)
  want,      (* what it sets up: "tunnel" or "alt"                           *)
  owner,     (* port->owner: "none", a "tunnel" route or an "alt" mode one   *)
  active,    (* dcp->active_typec_route # NULL, set outside tb_lock          *)
  rtun,      (* route->tunnel, with route->active_xbar                       *)
  xbarUp,    (* route->xbar_up                                               *)
  tun,       (* dcp->dptx_tunnel                                             *)
  cb,        (* dcp->tb_dpin_set_active # NULL                               *)
  clockOk,   (* dcp->tb_clock_ok                                             *)
  linkRate,  (* dptx->link_rate                                              *)
  held,      (* the crossbar output's semaphore: how often it is taken       *)
  gates,     (* the output: "off" (not selected), "gated" or "on"            *)
  clk,       (* atcphy->tunnel_rate while tunnel_saved, else 0               *)
  attempted, (* atcphy->tunnel_attempted                                     *)
  mode,      (* atcphy->mode: "tbt" (USB4 too), "dp" or "off"                *)
  apc,       (* the apcall past its unlocked check: "idle", "will", "did",   *)
             (* or "rate"                                                    *)
  req,       (* the rate a SetLinkRate call asks for                         *)
  fails      (* history: failed deselects so far                             *)

route == <<owner, active, rtun, xbarUp, tun, cb, clockOk>>
xbar == <<held, gates>>
phy == <<clk, attempted, mode>>
call == <<apc, req>>
vars == <<pc, want, route, linkRate, xbar, phy, call, fails>>

Init ==
  /\ pc = "idle" /\ want = "tunnel" /\ owner = "none"
  /\ active = FALSE /\ rtun = FALSE /\ xbarUp = FALSE
  /\ tun = FALSE /\ cb = FALSE /\ clockOk = FALSE
  /\ linkRate = 0
  /\ held = 0 /\ gates = "off"
  /\ clk = 0 /\ attempted = FALSE /\ mode = "off"
  /\ apc = "idle" /\ req = 0
  /\ fails = 0
-----------------------------------------------------------------------------
(* The crossbar's outputs: what the mux core and apple-display-crossbar do. *)

\* mux_control_select() or try_select(): take the semaphore, connect.
Select == held' = held + 1 /\ gates' = "on"

\* mux_control_deselect(): the semaphore is released in any case.
Deselect == held' = held - 1 /\ gates' = "off"

\* apple_dpxbar_link_up()/link_down() refuse an output that is not selected.
LinkUp == gates' = IF gates = "off" THEN "off" ELSE "on"
LinkDown == gates' = IF gates = "off" THEN "off" ELSE "gated"
-----------------------------------------------------------------------------
(* The holder of dcp_typec_fabric_lock.                                    *)

\* apple_dcp_tb_dp_tunnel(active): no owner, so the callback is registered.
TunnelUp ==
  /\ pc = "idle" /\ owner = "none"
  /\ cb' = TRUE
  /\ pc' = "select" /\ want' = "tunnel"
  /\ UNCHANGED <<owner, active, rtun, xbarUp, tun, clockOk>>
  /\ UNCHANGED <<linkRate, xbar, phy, call, fails>>

\* dcp_typec_route_set() with a DP alt-mode state.
AltUp ==
  /\ pc = "idle" /\ owner = "none"
  /\ pc' = "select" /\ want' = "alt"
  /\ UNCHANGED <<route, linkRate, xbar, phy, call, fails>>

\* dcp_typec_route_activate() up to "dcp->active_typec_route = route": only an
\* alt-mode route selects its crossbar output now. Any of it may fail.
RouteSelect ==
  /\ pc = "select"
  /\ \/ /\ active' = TRUE
        /\ IF want = "alt" THEN Select ELSE UNCHANGED xbar
        /\ pc' = "publish"
     \/ /\ pc' = "undo"
        /\ UNCHANGED <<active, xbar>>
  /\ UNCHANGED <<want, owner, rtun, xbarUp, tun, cb, clockOk>>
  /\ UNCHANGED <<linkRate, phy, call, fails>>

\* apple_dcp_tb_dp_tunnel() takes the callback back.
RouteUndo ==
  /\ pc = "undo"
  /\ cb' = FALSE
  /\ pc' = "idle"
  /\ UNCHANGED <<want, owner, active, rtun, xbarUp, tun, clockOk>>
  /\ UNCHANGED <<linkRate, xbar, phy, call, fails>>

\* The rest of dcp_typec_route_activate(), under tb_lock; the caller then makes
\* the route the port's owner.
RoutePublish ==
  /\ pc = "publish"
  /\ rtun' = (want = "tunnel")
  /\ xbarUp' = (want = "alt")
  /\ tun' = (want = "tunnel")
  /\ clockOk' = FALSE
  /\ owner' = want
  /\ pc' = "idle"
  /\ UNCHANGED <<want, active, cb, linkRate, xbar, phy, call, fails>>

\* A tunnel or an alt-mode display leaves: DCP was told to disconnect.
RouteDown ==
  /\ pc = "idle" /\ owner # "none"
  /\ pc' = "deactivate"
  /\ UNCHANGED <<want, route, linkRate, xbar, phy, call, fails>>

\* A slip: a tunnel's output is deselected even if it was never selected.
DeactivateAlways ==
  /\ pc = "deactivate"
  /\ Deselect
  /\ xbarUp' = FALSE
  /\ clk' = IF rtun THEN 0 ELSE clk
  /\ rtun' = FALSE /\ tun' = FALSE /\ cb' = FALSE /\ clockOk' = FALSE
  /\ pc' = "clear"
  /\ UNCHANGED <<want, owner, active, linkRate, attempted, mode, call, fails>>

\* dcp_typec_route_deactivate() under tb_lock: the output is deselected if it
\* was ever selected, and the tunnel's pixel clock is stopped.
Deactivate ==
  /\ pc = "deactivate"
  /\ IF ~rtun \/ xbarUp THEN Deselect ELSE UNCHANGED xbar
  /\ xbarUp' = FALSE
  /\ clk' = IF rtun THEN 0 ELSE clk
  /\ rtun' = FALSE /\ tun' = FALSE /\ cb' = FALSE /\ clockOk' = FALSE
  /\ pc' = "clear"
  /\ UNCHANGED <<want, owner, active, linkRate, attempted, mode, call, fails>>

\* The same when the output cannot be deselected: an early return. The caller
\* of a tunnel's tear-down still has to take the callback back.
DeactivateFails ==
  /\ pc = "deactivate"
  /\ ~rtun \/ xbarUp
  /\ fails < MaxFails
  /\ fails' = fails + 1
  /\ held' = held - 1
  /\ pc' = IF rtun THEN "drop" ELSE "idle"
  /\ UNCHANGED <<want, route, linkRate, gates, phy, call>>

\* A slip: the failed tear-down only leaves tunnel operation.
DropKeepsCallback ==
  /\ pc = "drop"
  /\ tun' = FALSE
  /\ pc' = "idle"
  /\ UNCHANGED <<want, owner, active, rtun, xbarUp, cb, clockOk>>
  /\ UNCHANGED <<linkRate, xbar, phy, call, fails>>

\* "The caller's context is going away regardless."
Drop ==
  /\ pc = "drop"
  /\ tun' = FALSE /\ cb' = FALSE
  /\ pc' = "idle"
  /\ UNCHANGED <<want, owner, active, rtun, xbarUp, clockOk>>
  /\ UNCHANGED <<linkRate, xbar, phy, call, fails>>

\* The end of dcp_typec_route_deactivate(), and the port is free.
RouteClear ==
  /\ pc = "clear"
  /\ active' = FALSE /\ owner' = "none"
  /\ pc' = "idle"
  /\ UNCHANGED <<want, rtun, xbarUp, tun, cb, clockOk>>
  /\ UNCHANGED <<linkRate, xbar, phy, call, fails>>
-----------------------------------------------------------------------------
(* DCP's apcalls.                                                          *)

\* Will/DidChangeLinkConfiguration of a tunnel with a link rate: dptxport_call()
\* looks at both without a lock.
Call(name) ==
  /\ apc = "idle" /\ tun /\ linkRate # 0
  /\ apc' = name
  /\ UNCHANGED <<pc, want, route, linkRate, xbar, phy, req, fails>>

\* dcp_tunnel_crossbar_down()
CrossbarDown ==
  /\ apc = "will"
  /\ IF active /\ rtun /\ xbarUp THEN LinkDown ELSE UNCHANGED gates
  /\ apc' = "idle"
  /\ UNCHANGED <<pc, want, route, linkRate, held, phy, req, fails>>

\* dcp_tunnel_crossbar_up(): refused without a route or a clock; the first time
\* the output is selected, which may fail, and later only its clocks come back.
CrossbarUp ==
  /\ apc = "did"
  /\ \/ /\ ~(active /\ rtun /\ clockOk)
        /\ UNCHANGED <<xbarUp, xbar>>
     \/ /\ active /\ rtun /\ clockOk /\ ~xbarUp
        /\ \/ held = 0 /\ Select /\ xbarUp' = TRUE
           \/ UNCHANGED <<xbarUp, xbar>>
     \/ /\ active /\ rtun /\ clockOk /\ xbarUp
        /\ LinkUp
        /\ UNCHANGED <<xbarUp, held>>
  /\ apc' = "idle"
  /\ UNCHANGED <<pc, want, owner, active, rtun, tun, cb, clockOk>>
  /\ UNCHANGED <<linkRate, phy, req, fails>>

\* SetLinkRate of a tunnel: again an unlocked look at dptx_tunnel.
CallRate(r) ==
  /\ apc = "idle" /\ tun
  /\ apc' = "rate" /\ req' = r
  /\ UNCHANGED <<pc, want, route, linkRate, xbar, phy, fails>>

\* SetLinkRate of anything else goes to phy_configure(), which may fail.
PhyRate(r) ==
  /\ apc = "idle" /\ ~tun
  /\ linkRate' = r
  /\ UNCHANGED <<pc, want, route, xbar, phy, call, fails>>

\* A slip: the attempt is not recorded.
ClockStartsUnrecorded(r) ==
  /\ mode = "tbt"
  /\ clk = r \/ (clk = 0 /\ ~attempted)
  /\ clk' = r /\ UNCHANGED attempted

\* atc_tunnel_start(): nothing to do for the rate that runs, one attempt only.
ClockStarts(r) ==
  /\ mode = "tbt"
  /\ clk = r \/ (clk = 0 /\ ~attempted)
  /\ clk' = r /\ attempted' = TRUE

\* It is refused, or the PLL does not lock, and everything is restored.
ClockFails(r) ==
  /\ clk # r \/ mode # "tbt"
  /\ clk' = clk
  /\ attempted' \in {attempted, attempted \/ (mode = "tbt" /\ clk = 0)}

\* dptxport_call_set_link_rate() records the rate, whatever became of the clock.
RecordRate ==
  /\ linkRate' = req
  /\ apc' = "idle" /\ req' = 0
  /\ UNCHANGED <<pc, want, owner, active, rtun, xbarUp, tun, cb>>
  /\ UNCHANGED <<held, mode, fails>>

\* A slip: the clock stops under a crossbar that is still up.
SetRateLeavesGates ==
  /\ apc = "rate"
  /\ \/ ~tun /\ UNCHANGED <<clockOk, clk, attempted>>
     \/ tun /\ req = 0 /\ clk' = 0 /\ clockOk' = FALSE /\ UNCHANGED attempted
     \/ /\ tun /\ req # 0
        /\ (ClockStarts(req) /\ clockOk' = TRUE) \/ (ClockFails(req) /\ clockOk' = FALSE)
  /\ UNCHANGED gates
  /\ RecordRate

\* A slip: a refused rate leaves the verdict on the one before.
SetRateKeepsVerdict ==
  /\ apc = "rate"
  /\ \/ ~tun /\ UNCHANGED <<clockOk, gates, clk, attempted>>
     \/ /\ tun /\ req = 0
        /\ IF active /\ xbarUp THEN LinkDown ELSE UNCHANGED gates
        /\ clk' = 0 /\ clockOk' = FALSE /\ UNCHANGED attempted
     \/ /\ tun /\ req # 0 /\ UNCHANGED gates
        /\ (ClockStarts(req) /\ clockOk' = TRUE) \/ (ClockFails(req) /\ UNCHANGED clockOk)
  /\ RecordRate

\* A slip: dptx_tunnel is not looked at again under tb_lock.
SetRateUnchecked ==
  /\ apc = "rate"
  /\ \/ /\ req = 0
        /\ IF active /\ xbarUp THEN LinkDown ELSE UNCHANGED gates
        /\ clk' = 0 /\ clockOk' = FALSE /\ UNCHANGED attempted
     \/ /\ req # 0 /\ UNCHANGED gates
        /\ (ClockStarts(req) /\ clockOk' = TRUE) \/ (ClockFails(req) /\ clockOk' = FALSE)
  /\ RecordRate

\* dcp_tunnel_set_rate(): the tunnel is looked at again, under tb_lock.
SetRate ==
  /\ apc = "rate"
  /\ \/ /\ ~tun
        /\ UNCHANGED <<clockOk, gates, clk, attempted>>
     \/ /\ tun /\ req = 0
        /\ IF active /\ xbarUp THEN LinkDown ELSE UNCHANGED gates
        /\ clk' = 0 /\ clockOk' = FALSE
        /\ UNCHANGED attempted
     \/ /\ tun /\ req # 0
        /\ \/ ClockStarts(req) /\ clockOk' = TRUE
           \/ ClockFails(req) /\ clockOk' = FALSE
        /\ UNCHANGED gates
  /\ RecordRate
-----------------------------------------------------------------------------
\* atcphy_configure(): every change of mode first restores the tunnel clock.
PhyMode(m) ==
  /\ m # mode
  /\ LateMode \/ (pc = "idle" /\ owner = "none")
  /\ mode' = m
  /\ clk' = 0
  /\ UNCHANGED <<pc, want, route, linkRate, xbar, attempted, call, fails>>
-----------------------------------------------------------------------------
Fabric == \/ TunnelUp \/ AltUp \/ RouteSelect \/ RouteUndo \/ RoutePublish
          \/ RouteDown \/ Deactivate \/ DeactivateFails \/ Drop \/ RouteClear

Apcall == \/ Call("will") \/ Call("did") \/ CrossbarDown \/ CrossbarUp
          \/ SetRate
          \/ \E r \in Rates \cup {0} : CallRate(r) \/ PhyRate(r)

Next == Fabric \/ Apcall \/ \E m \in {"tbt", "dp", "off"} : PhyMode(m)

Spec == Init /\ [][Next]_vars
-----------------------------------------------------------------------------
\* Every variable has its type.
TypeOK ==
  /\ pc \in {"idle", "select", "undo", "publish", "deactivate", "drop", "clear"}
  /\ want \in {"tunnel", "alt"} /\ owner \in {"none", "tunnel", "alt"}
  /\ active \in BOOLEAN /\ rtun \in BOOLEAN /\ xbarUp \in BOOLEAN
  /\ tun \in BOOLEAN /\ cb \in BOOLEAN /\ clockOk \in BOOLEAN
  /\ linkRate \in Rates \cup {0}
  /\ held \in Int /\ gates \in {"off", "gated", "on"}
  /\ clk \in Rates \cup {0} /\ attempted \in BOOLEAN
  /\ (clk # 0 => attempted)
  /\ mode \in {"tbt", "dp", "off"}
  /\ apc \in {"idle", "will", "did", "rate"} /\ req \in Rates \cup {0}
  /\ fails \in 0..MaxFails

\* While the PHY stays in its mode, the crossbar never feeds a tunnel whose
\* pixel clock does not run, in whatever order DCP changes the rate, announces
\* link changes, and the route is torn down under it (dcp_tunnel_crossbar_up).
GatesClocked == rtun /\ gates = "on" => clk # 0

\* The crossbar comes up only on a clock at the very rate DCP asked for last: a
\* refused or failed rate leaves it down, and neither the rate nor the clock of
\* an earlier connection counts (dcp->tb_clock_ok).
BringUpAtRate ==
  [][rtun /\ gates # "on" /\ gates' = "on" => clk = linkRate /\ clk # 0]_vars

\* "The tunnel pixel clock must not outlive the tunnel": a rate request that was
\* checked before the tear-down does not restart the clock after it.
ClockOwned == clk # 0 => tun

\* The crossbar output's semaphore is taken exactly while the route believes the
\* output selected, so the tear-down never releases one it does not hold and
\* never leaves one behind (mux_control_select/try_select/deselect).
MuxBalanced ==
  /\ rtun => held = (IF xbarUp THEN 1 ELSE 0)
  /\ (pc = "idle" /\ owner = "none") => held = 0 /\ gates = "off"

\* The callback into the Thunderbolt glue lives no longer than the tunnel, even
\* when the output cannot be deselected and the route stays behind.
CallbackScoped == cb => tun \/ (want = "tunnel" /\ pc \in {"select", "undo", "publish"})
-----------------------------------------------------------------------------
(* What the repository says, and the code in it does not do.               *)

\* "bring the crossbar connection up (FIFO/PCLK/ATC enables) now that the tunnel
\* pixel clock runs".
BringUpClocked ==
  [][rtun /\ gates # "on" /\ gates' = "on" => clk # 0]_vars
=============================================================================
