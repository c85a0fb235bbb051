------------------------------ MODULE DpinWork ------------------------------
(***************************************************************************)
(* Routing a display to a Thunderbolt DP tunnel: the work item of          *)
(* drivers/thunderbolt/apple.c (apple_dpin_work_fn and what it calls), the *)
(* tunnel hooks that queue it, and the part of appledrm it talks to        *)
(* (apple_dcp_tb_dp_tunnel and the DPTX apcalls that call back into the    *)
(* adapter), for the adapters of ONE host router, i.e. one Type-C port.    *)
(*                                                                         *)
(* Five parties interleave: the connection manager (TunnelUp, PowerOff,    *)
(* TunnelDown), the ordered work queue's single worker, the DCP firmware's *)
(* apcalls, the Type-C mux notifications, and the loading and unloading of *)
(* appledrm.                                                               *)
(***************************************************************************)
EXTENDS Naturals, Sequences

CONSTANTS
  Dpin,        (* the DP IN adapters of the host router                       *)
  NoDpin,      (* "no adapter"                                                *)
  AltMode,     (* the port is routed for DP alt-mode, not for a tunnel        *)
  MaxTries,    (* APPLE_DP_CONNECT_TRIES                                      *)
  MaxTunnels   (* bound: tunnels set up per adapter                           *)

ASSUME DpinAssumption ==
  /\ NoDpin \notin Dpin
  /\ AltMode \notin Dpin \cup {NoDpin}
  /\ MaxTries \in Nat \ {0}
  /\ MaxTunnels \in Nat

VARIABLES
  alive,     (* apple_dpin_ctx.alive: tunnel up, under c->lock                *)
  regs,      (* apple_dpin_ctx.regs # NULL, under c->lock                     *)
  handed,    (* apple_dpin_ctx.handed, worker only                            *)
  mapped,    (* the block behind regs is ioremapped                           *)
  powered,   (* both DP adapters of the tunnel are enabled                    *)
  due,       (* the adapter whose hook has dropped c->lock, not yet queued it *)
  queue,     (* pending work items of the ordered queue dp_wq                 *)
  wpc,       (* where the worker is                                           *)
  cur,       (* the adapter whose work item the worker runs                   *)
  tries,     (* apple_dpin_connect's loop counter                             *)
  drm,       (* appledrm is loaded and has registered the Type-C port         *)
  owner,     (* port->owner: an adapter's tunnel, AltMode or NoDpin           *)
  ctx,       (* tb_dpin_set_active/tb_dpin_ctx: whose callback, under tb_lock *)
  tunnel,    (* dcp->dptx_tunnel, under tb_lock                               *)
  apc,       (* the DCP apcall: "idle", "entered" (tb_lock held) or           *)
             (* "handshake" (c->lock held too)                                *)
  apcd,      (* the adapter that apcall works on                              *)
  tunnels,   (* history: tunnels set up so far, per adapter                   *)
  served,    (* history: the last tunnel DCP was told to connect              *)
  refused    (* history: the set-up of the present tunnel was given up        *)

cm == <<alive, powered, due, tunnels>>
worker == <<wpc, cur, tries>>
glue == <<regs, handed, mapped>>
dcp == <<owner, ctx, tunnel>>
apcall == <<apc, apcd>>
history == <<served, refused>>
vars == <<cm, worker, glue, dcp, apcall, history, queue, drm>>

Labels == {"idle", "want", "up", "connect", "activate", "oob", "retry",
           "failed", "down", "disconnect", "release", "clear", "unmap"}

\* The labels at which the worker is inside apple_dcp_tb_dp_tunnel().
FabricHeld == {"activate", "oob", "disconnect", "release"}

LockFree(d) == ~(apc = "handshake" /\ apcd = d)
TbLockFree == apc = "idle"
FabricFree == wpc \notin FabricHeld

\* queue_work(): a work item that is already pending is not queued again.
Enqueue(d) == queue' = IF \E i \in 1..Len(queue) : queue[i] = d
                       THEN queue ELSE Append(queue, d)

Goto(label) == wpc' = label
-----------------------------------------------------------------------------
Init ==
  /\ alive = [d \in Dpin |-> FALSE]
  /\ regs = [d \in Dpin |-> FALSE]
  /\ handed = [d \in Dpin |-> FALSE]
  /\ mapped = [d \in Dpin |-> FALSE]
  /\ powered = [d \in Dpin |-> FALSE]
  /\ due = NoDpin
  /\ queue = <<>>
  /\ wpc = "idle" /\ cur = NoDpin /\ tries = 0
  /\ drm \in BOOLEAN
  /\ owner = NoDpin /\ ctx = NoDpin /\ tunnel = FALSE
  /\ apc = "idle" /\ apcd = NoDpin
  /\ tunnels = [d \in Dpin |-> 0]
  /\ served = [d \in Dpin |-> 0]
  /\ refused = [d \in Dpin |-> FALSE]
-----------------------------------------------------------------------------
(* The connection manager; tb->lock is held over a tunnel's set-up and     *)
(* tear-down, hooks included.                                              *)

\* tb_dp_activate(tunnel, true) has enabled the adapters and calls the
\* post_activate hook, which sets alive under the lock.
TunnelUp(d) ==
  /\ ~alive[d] /\ due = NoDpin /\ tunnels[d] < MaxTunnels
  /\ LockFree(d)
  /\ powered' = [powered EXCEPT ![d] = TRUE]
  /\ alive' = [alive EXCEPT ![d] = TRUE]
  /\ due' = d
  /\ tunnels' = [tunnels EXCEPT ![d] = @ + 1]
  /\ refused' = [refused EXCEPT ![d] = FALSE]
  /\ UNCHANGED <<worker, glue, dcp, apcall, queue, drm, served>>

\* tb_dp_activate(tunnel, false) disables the adapters before its hook runs.
PowerOff(d) ==
  /\ alive[d] /\ powered[d] /\ due = NoDpin
  /\ powered' = [powered EXCEPT ![d] = FALSE]
  /\ UNCHANGED <<alive, due, tunnels, worker, glue, dcp, apcall, history, queue, drm>>

\* A slip: a departing port's failed answer skips the rest of the hook.
TunnelDownUnreported(d) ==
  /\ alive[d] /\ ~powered[d] /\ due = NoDpin
  /\ LockFree(d)
  /\ alive' = [alive EXCEPT ![d] = FALSE]
  /\ UNCHANGED <<powered, due, tunnels, worker, glue, dcp, apcall, history, queue, drm>>

\* The deactivate hook, reached even when a departing port failed to answer.
TunnelDown(d) ==
  /\ alive[d] /\ ~powered[d] /\ due = NoDpin
  /\ LockFree(d)
  /\ alive' = [alive EXCEPT ![d] = FALSE]
  /\ due' = d
  /\ UNCHANGED <<powered, tunnels, worker, glue, dcp, apcall, history, queue, drm>>

\* Either hook goes on to queue the work item, without the lock: the worker may
\* have seen what the hook wrote by then, in a work item queued earlier.
Report ==
  /\ due # NoDpin
  /\ Enqueue(due)
  /\ due' = NoDpin
  /\ UNCHANGED <<alive, powered, tunnels, worker, glue, dcp, apcall, history, drm>>
-----------------------------------------------------------------------------
(* The worker: apple_dpin_work_fn().                                       *)

\* The ordered queue starts the oldest pending work item.
Take ==
  /\ wpc = "idle" /\ queue # <<>>
  /\ cur' = Head(queue)
  /\ queue' = Tail(queue)
  /\ Goto("want")
  /\ UNCHANGED <<cm, tries, glue, dcp, apcall, history, drm>>

\* A slip: a mapping left by a failed set-up does not count as work to undo.
WantHandedOnly ==
  /\ wpc = "want" /\ LockFree(cur)
  /\ IF alive[cur] = handed[cur]
     THEN Goto("idle") /\ cur' = NoDpin
     ELSE Goto(IF alive[cur] THEN "up" ELSE "down") /\ UNCHANGED cur
  /\ tries' = 0
  /\ UNCHANGED <<cm, glue, dcp, apcall, history, queue, drm>>

\* The head of the loop: what does the tunnel want, and what has been done?
Want ==
  /\ wpc = "want" /\ LockFree(cur)
  /\ \/ /\ ~alive[cur] /\ (handed[cur] \/ regs[cur])
        /\ Goto("down")
        /\ UNCHANGED cur
     \/ /\ alive[cur] /\ ~handed[cur]
        /\ Goto("up")
        /\ UNCHANGED cur
     \/ /\ IF alive[cur] THEN handed[cur] ELSE ~handed[cur] /\ ~regs[cur]
        /\ Goto("idle")
        /\ cur' = NoDpin
  /\ tries' = 0
  /\ UNCHANGED <<cm, glue, dcp, apcall, history, queue, drm>>

\* apple_dpin_up(): map the block unless it still is, publish it under the
\* lock and look at the tunnel again.
Up ==
  /\ wpc = "up"
  /\ \/ /\ ~regs[cur]                       \* no resource, or ioremap failed
        /\ Goto("failed")
        /\ UNCHANGED <<glue, tries>>
     \/ /\ LockFree(cur)
        /\ regs' = [regs EXCEPT ![cur] = TRUE]
        /\ mapped' = [mapped EXCEPT ![cur] = TRUE]
        /\ Goto(IF alive[cur] THEN "connect" ELSE "failed")
        /\ tries' = 1
        /\ UNCHANGED handed
  /\ UNCHANGED <<cm, cur, dcp, apcall, history, queue, drm>>

\* apple_dcp_tb_dp_tunnel(active) up to the choice of a pipeline. Without the
\* symbol or the port it is -ENODEV, which apple_dpin_connect() retries.
ConnectNoDevice ==
  /\ wpc = "connect" /\ ~drm
  /\ Goto("retry")
  /\ UNCHANGED <<cm, cur, tries, glue, dcp, apcall, history, queue, drm>>

\* The port already has this tunnel: success, nothing is done.
ConnectOwned ==
  /\ wpc = "connect" /\ drm /\ owner = cur
  /\ handed' = [handed EXCEPT ![cur] = TRUE]
  /\ Goto("want")
  /\ UNCHANGED <<cm, cur, tries, regs, mapped, dcp, apcall, history, queue, drm>>

\* The port is routed for something else, no pipeline is free, or the crossbar
\* has no such output: an error that is not retried.
ConnectRefused ==
  /\ wpc = "connect" /\ drm /\ owner # cur
  /\ Goto("failed")
  /\ UNCHANGED <<cm, cur, tries, glue, dcp, apcall, history, queue, drm>>

\* A pipeline is free: the callback is registered first.
ConnectBind ==
  /\ wpc = "connect" /\ drm /\ owner = NoDpin
  /\ TbLockFree
  /\ ctx' = cur
  /\ Goto("activate")
  /\ UNCHANGED <<cm, cur, tries, glue, owner, tunnel, apcall, history, queue, drm>>

\* A slip: a failed activation leaves the callback registered.
ActivateKeepsCallback ==
  /\ wpc = "activate" /\ TbLockFree
  /\ \/ /\ owner' = cur /\ tunnel' = TRUE
        /\ Goto("oob")
     \/ /\ Goto("failed")
        /\ UNCHANGED <<owner, tunnel>>
  /\ UNCHANGED <<ctx, cm, cur, tries, glue, apcall, history, queue, drm>>

\* dcp_typec_route_activate() and the caller's handling of its result.
Activate ==
  /\ wpc = "activate" /\ TbLockFree
  /\ \/ /\ owner' = cur /\ tunnel' = TRUE
        /\ Goto("oob")
        /\ UNCHANGED ctx
     \/ /\ ctx' = NoDpin
        /\ Goto("failed")
        /\ UNCHANGED <<owner, tunnel>>
  /\ UNCHANGED <<cm, cur, tries, glue, apcall, history, queue, drm>>

\* dcp_dptx_connect_oob(): DCP is told; its result does not matter here.
Oob ==
  /\ wpc = "oob"
  /\ served' = [served EXCEPT ![cur] = tunnels[cur]]
  /\ handed' = [handed EXCEPT ![cur] = TRUE]
  /\ Goto("want")
  /\ UNCHANGED <<cm, cur, tries, regs, mapped, dcp, apcall, refused, queue, drm>>

\* A slip: the loop counter is not advanced.
RetryForever ==
  /\ wpc = "retry" /\ LockFree(cur)
  /\ Goto(IF alive[cur] THEN "connect" ELSE "failed")
  /\ UNCHANGED <<cm, cur, tries, glue, dcp, apcall, history, queue, drm>>

\* apple_dpin_connect() got -ENODEV: wait and try again while the tunnel lives.
Retry ==
  /\ wpc = "retry"
  /\ \/ /\ tries >= MaxTries
        /\ Goto("failed")
        /\ UNCHANGED tries
     \/ /\ tries < MaxTries /\ LockFree(cur)
        /\ IF alive[cur]
           THEN Goto("connect") /\ tries' = tries + 1
           ELSE Goto("failed") /\ UNCHANGED tries
  /\ UNCHANGED <<cm, cur, glue, dcp, apcall, history, queue, drm>>

\* apple_dpin_up() failed: clean up if the tunnel went, give up otherwise.
Failed ==
  /\ wpc = "failed" /\ LockFree(cur)
  /\ IF alive[cur]
     THEN /\ refused' = [refused EXCEPT ![cur] = TRUE]
          /\ cur' = NoDpin
          /\ Goto("idle")
     ELSE /\ Goto("want")
          /\ UNCHANGED <<refused, cur>>
  /\ tries' = 0
  /\ UNCHANGED <<cm, glue, dcp, apcall, served, queue, drm>>

\* apple_dpin_down(): take back what was handed over, if anything was. Without
\* appledrm, or when the port is not this tunnel's, the call changes nothing.
Down ==
  /\ wpc = "down"
  /\ IF handed[cur] /\ drm /\ owner = cur
     THEN Goto("disconnect") /\ UNCHANGED handed
     ELSE Goto("clear") /\ handed' = [handed EXCEPT ![cur] = FALSE]
  /\ UNCHANGED <<cm, cur, tries, regs, mapped, dcp, apcall, history, queue, drm>>

\* dcp_dptx_disconnect_oob(): DCP takes the link down, calling back if it likes.
Disconnect ==
  /\ wpc = "disconnect"
  /\ Goto("release")
  /\ UNCHANGED <<cm, cur, tries, glue, dcp, apcall, history, queue, drm>>

\* A slip: an output that cannot be deselected keeps the callback.
ReleaseKeepsCallback ==
  /\ wpc = "release" /\ TbLockFree
  /\ owner' \in {NoDpin, owner}
  /\ ctx' = IF owner' = NoDpin THEN NoDpin ELSE ctx
  /\ tunnel' = FALSE
  /\ handed' = [handed EXCEPT ![cur] = FALSE]
  /\ Goto("clear")
  /\ UNCHANGED <<cm, cur, tries, regs, mapped, apcall, history, queue, drm>>

\* A slip: it keeps DPTX in tunnel operation.
ReleaseKeepsTunnel ==
  /\ wpc = "release" /\ TbLockFree
  /\ owner' \in {NoDpin, owner}
  /\ ctx' = NoDpin
  /\ tunnel' = (owner' # NoDpin /\ tunnel)
  /\ handed' = [handed EXCEPT ![cur] = FALSE]
  /\ Goto("clear")
  /\ UNCHANGED <<cm, cur, tries, regs, mapped, apcall, history, queue, drm>>

\* dcp_typec_route_deactivate(). When the mux cannot be deselected the port
\* keeps its owner, but the callback goes: the adapter's context is going away.
Release ==
  /\ wpc = "release" /\ TbLockFree
  /\ owner' \in {NoDpin, owner}
  /\ ctx' = NoDpin /\ tunnel' = FALSE
  /\ handed' = [handed EXCEPT ![cur] = FALSE]
  /\ Goto("clear")
  /\ UNCHANGED <<cm, cur, tries, regs, mapped, apcall, history, queue, drm>>

\* The pointer is cleared under the lock, the mapping undone after it.
Clear ==
  /\ wpc = "clear" /\ LockFree(cur)
  /\ regs' = [regs EXCEPT ![cur] = FALSE]
  /\ Goto("unmap")
  /\ UNCHANGED <<cm, cur, tries, handed, mapped, dcp, apcall, history, queue, drm>>

\* A slip: the work item ends, and its adapter is still the current one.
UnmapKeepsCur ==
  /\ wpc = "unmap"
  /\ mapped' = [mapped EXCEPT ![cur] = FALSE]
  /\ Goto("idle")
  /\ UNCHANGED <<cm, cur, tries, handed, regs, dcp, apcall, history, queue, drm>>

\* The work item ends here, without another look at c->alive: a tunnel that came
\* up meanwhile has queued the work item again.
Unmap ==
  /\ wpc = "unmap"
  /\ mapped' = [mapped EXCEPT ![cur] = FALSE]
  /\ Goto("idle") /\ cur' = NoDpin
  /\ UNCHANGED <<cm, tries, handed, regs, dcp, apcall, history, queue, drm>>
-----------------------------------------------------------------------------
(* DCP's apcalls (Activate, Deactivate, Will/DidChangeLinkConfiguration).  *)

\* dcp_tunnel_dpin_activate(): tb_lock, then the registered callback.
ApcallEnter ==
  /\ apc = "idle" /\ tunnel /\ ctx # NoDpin
  /\ apc' = "entered" /\ apcd' = ctx
  /\ UNCHANGED <<cm, worker, glue, dcp, history, queue, drm>>

\* A slip: the handshake starts without looking at the tunnel again.
ApcallLockUnchecked ==
  /\ apc = "entered"
  /\ apc' = "handshake"
  /\ UNCHANGED <<apcd, cm, worker, glue, dcp, history, queue, drm>>

\* apple_dpin_dcp_set_active(): c->lock, then the check that the tunnel lives.
ApcallLock ==
  /\ apc = "entered"
  /\ IF alive[apcd] /\ regs[apcd]
     THEN apc' = "handshake" /\ UNCHANGED apcd
     ELSE apc' = "idle" /\ apcd' = NoDpin
  /\ UNCHANGED <<cm, worker, glue, dcp, history, queue, drm>>

\* The handshake is over (acknowledged or timed out): both locks are dropped.
ApcallDone ==
  /\ apc = "handshake"
  /\ apc' = "idle" /\ apcd' = NoDpin
  /\ UNCHANGED <<cm, worker, glue, dcp, history, queue, drm>>
-----------------------------------------------------------------------------
(* The rest of appledrm.                                                   *)

\* dcp_typec_route_set(): a DP alt-mode state is ignored while a tunnel owns
\* the port, and so is a non-DP one.
AltModeOn ==
  /\ FabricFree /\ drm /\ owner = NoDpin
  /\ owner' = AltMode
  /\ UNCHANGED <<cm, worker, glue, ctx, tunnel, apcall, history, queue, drm>>

AltModeOff ==
  /\ FabricFree /\ owner = AltMode
  /\ owner' = NoDpin
  /\ UNCHANGED <<cm, worker, glue, ctx, tunnel, apcall, history, queue, drm>>

DrmLoad ==
  /\ ~drm
  /\ drm' = TRUE
  /\ UNCHANGED <<cm, worker, glue, dcp, apcall, history, queue>>

\* A slip: the callback goes without tb_lock.
DrmUnloadUnlocked ==
  /\ drm /\ FabricFree
  /\ drm' = FALSE
  /\ owner' = NoDpin /\ ctx' = NoDpin /\ tunnel' = FALSE
  /\ UNCHANGED <<cm, worker, glue, apcall, history, queue>>

\* dcp_typec_route_unregister(): the route is torn down and its callback with
\* it. A caller inside apple_dcp_tb_dp_tunnel() pins the module.
DrmUnload ==
  /\ drm /\ FabricFree /\ TbLockFree
  /\ drm' = FALSE
  /\ owner' = NoDpin /\ ctx' = NoDpin /\ tunnel' = FALSE
  /\ UNCHANGED <<cm, worker, glue, apcall, history, queue>>
-----------------------------------------------------------------------------
Connect == ConnectNoDevice \/ ConnectOwned \/ ConnectRefused \/ ConnectBind

WorkerStep == \/ Take \/ Want \/ Up \/ Connect \/ Activate \/ Oob \/ Retry
              \/ Failed \/ Down \/ Disconnect \/ Release \/ Clear \/ Unmap

ApcallStep == ApcallLock \/ ApcallDone

Next ==
  \/ \E d \in Dpin : TunnelUp(d) \/ PowerOff(d) \/ TunnelDown(d)
  \/ Report
  \/ WorkerStep
  \/ ApcallEnter \/ ApcallStep
  \/ AltModeOn \/ AltModeOff \/ DrmLoad \/ DrmUnload

Spec == Init /\ [][Next]_vars

\* The work queue's thread always runs on, and a mutex it waits for is handed
\* over; every wait inside the worker has a timeout (60 tries, the DPTX calls'
\* and the link configuration's deadlines), and so has a handshake. A hook that has
\* set or cleared alive goes on to queue_work(). Nothing is assumed of plugging, of
\* DCP starting a call, or of loading a module.
Fairness == SF_vars(WorkerStep) /\ WF_vars(ApcallStep) /\ WF_vars(Report)

FairSpec == Spec /\ Fairness
-----------------------------------------------------------------------------
(* Invariants.                                                             *)

\* Every variable has its type.
TypeOK ==
  /\ alive \in [Dpin -> BOOLEAN] /\ regs \in [Dpin -> BOOLEAN]
  /\ handed \in [Dpin -> BOOLEAN] /\ mapped \in [Dpin -> BOOLEAN]
  /\ powered \in [Dpin -> BOOLEAN] /\ due \in Dpin \cup {NoDpin}
  /\ queue \in Seq(Dpin)
  /\ wpc \in Labels /\ cur \in Dpin \cup {NoDpin} /\ tries \in Nat
  /\ (wpc = "idle" <=> cur = NoDpin)
  /\ drm \in BOOLEAN
  /\ owner \in Dpin \cup {NoDpin, AltMode}
  /\ ctx \in Dpin \cup {NoDpin} /\ tunnel \in BOOLEAN
  /\ apc \in {"idle", "entered", "handshake"} /\ apcd \in Dpin \cup {NoDpin}
  /\ (apc = "idle" <=> apcd = NoDpin)
  /\ tunnels \in [Dpin -> Nat] /\ served \in [Dpin -> Nat]
  /\ refused \in [Dpin -> BOOLEAN]

\* A handshake only ever touches the registers of an adapter whose tunnel is up
\* and whose block is mapped, however the worker unmaps and the connection
\* manager tears down in the meantime (apple_dpin_dcp_set_active).
HandshakeSafe ==
  apc = "handshake" => alive[apcd] /\ regs[apcd] /\ mapped[apcd]

\* The display driver never keeps a callback into an adapter that the worker
\* no longer has mapped, nor a DCP call one that has been taken back: "the
\* caller's context is going away regardless" (apple_dcp_tb_dp_tunnel).
CallbackLifetime ==
  /\ ctx # NoDpin => regs[ctx] /\ mapped[ctx]
  /\ apc # "idle" => ctx = apcd

\* DPTX is only switched to tunnel operation for the adapter that owns the port
\* and whose callback is registered, and a port the tunnel no longer feeds is
\* never left in tunnel operation.
TunnelOwned == tunnel => owner = ctx /\ ctx # NoDpin

\* Whatever the display driver holds, the worker knows to take back: a callback
\* is registered only for an adapter marked as handed over, or while the worker
\* is handing it over.
NothingForgotten ==
  ctx # NoDpin => handed[ctx] \/ (cur = ctx /\ wpc \in {"activate", "oob"})

\* When the queue has drained, an adapter without a tunnel (whose hook is through)
\* has nothing left mapped, handed over or registered (the work item's last look at c->alive).
Drained ==
  \A d \in Dpin :
    (wpc = "idle" /\ queue = <<>> /\ ~alive[d] /\ due # d) =>
      ~regs[d] /\ ~mapped[d] /\ ~handed[d] /\ ctx # d
-----------------------------------------------------------------------------
(* Liveness.                                                               *)

\* A tunnel that stays down is eventually released: nothing mapped, nothing
\* registered, whatever state the display driver was in.
Released ==
  \A d \in Dpin : ~alive[d] ~> (alive[d] \/ (~mapped[d] /\ ~handed[d] /\ ctx # d))

\* A tunnel that stays up is eventually handed to the display driver, or its
\* set-up is reported to have failed; the worker never waits forever.
Resolved ==
  \A d \in Dpin : alive[d] ~> (~alive[d] \/ handed[d] \/ refused[d])
-----------------------------------------------------------------------------
(* What comments in the code say, and the code does not do.                *)

\* "One work item per adapter on an ordered queue, so events are never lost":
\* DCP is told of every tunnel that stays up, or its set-up fails audibly.
EventsNotLost ==
  \A d \in Dpin : \A n \in 1..MaxTunnels :
    (alive[d] /\ tunnels[d] = n) ~>
      (~(alive[d] /\ tunnels[d] = n) \/ served[d] = n \/ refused[d])

\* The check of c->alive "covers this gap" between the adapters' power-down and
\* the deactivate hook: no handshake starts on an adapter already disabled.
NoHandshakeOnDisabled ==
  [][apc' = "handshake" /\ apc # "handshake" => powered[apcd]]_vars
-----------------------------------------------------------------------------
(* Refinement.                                                             *)

Life(d) == INSTANCE TunnelLifecycle WITH
             alive <- alive[d], mapped <- mapped[d], bound <- ctx = d,
             busy <- (apc = "handshake" /\ apcd = d)

\* Each adapter goes through map, register, handshake, unregister and unmap in
\* the order the interface prescribes.
Lifecycle ==
  /\ \A d \in Dpin : Life(d)!Init
  /\ [][\A d \in Dpin : [Life(d)!Next]_(Life(d)!vars)]_vars
=============================================================================
