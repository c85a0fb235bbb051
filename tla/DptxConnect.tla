----------------------------- MODULE DptxConnect -----------------------------
(***************************************************************************)
(* One display pipeline's conversation with its coprocessor, DCP: the       *)
(* blocking calls of dcp_dptx_connect (dcp.c), the upcalls DCP makes while  *)
(* they are pending (dptxep.c), and the one ordered queue both directions   *)
(* share (afk.c).  Three threads of the driver meet here:                   *)
(*                                                                          *)
(*   "C"  whoever connects: first the Type-C fabric that set the route up,  *)
(*        then the delayed work dcp_typec_reconnect_work;                   *)
(*   "T"  the fabric setting a route up or taking it down, and releasing    *)
(*        the display first;                                                *)
(*   the endpoint's ordered work queue, whose one worker runs the upcall    *)
(*        handlers inline and is the only one to deliver a reply to "C" or  *)
(*        "T".                                                              *)
(*                                                                          *)
(* A call is outstanding until its reply is delivered or its timer expires. *)
(* late = FALSE is the case the driver's budgets (1 s, 8 s) are chosen for: *)
(* a timer expires only when DCP is not going to answer.  late = TRUE lets  *)
(* every timer expire at any moment, a late answer notwithstanding.         *)
(***************************************************************************)
EXTENDS Naturals, Sequences

CONSTANTS
    Retries,   \* DPTX_RECONNECT_RETRIES
    MaxPlugs   \* bound: how often a display is plugged in

ASSUME ConnectAssumption == Retries \in Nat /\ MaxPlugs \in Nat \ {0}

VARIABLES
    late,      \* may timers expire although DCP would have answered?
    cable,     \* dcp->typec_cable_connected
    route,     \* dcp->dptx_tunnel: the pipeline drives a tunnel
    coming,    \* whether the fabric's route comes or goes
    t,         \* the fabric's pc
    connected, \* dptxport[0].connected
    linkcfg,   \* linkcfg_completion: 0, or the attempt whose lanes completed it
    armed,     \* typec_reconnect_wq is queued
    tries,     \* dcp->typec_reconnect_tries
    hpd, tb,   \* holders of hpd_mutex and tb_lock
    c,         \* the connecting thread: [pc, who, step]
    ans,       \* ans[w]: what the queue has delivered to the caller w
    mute,      \* callers whose call DCP has dropped
    q, h,      \* the ordered queue, and the message its worker is handling
    inbox,     \* calls on their way to DCP
    dcp,       \* the coprocessor: [call, plan, asked, display, for]
    gen,       \* attempts begun so far
    plugs,     \* displays plugged in so far
    told,      \* the attempt DCP has reported lanes for since this one began
    got,       \* the attempt whose lanes have just ended the wait for them
    lost       \* a release has run into its timer: what DCP holds is unknown

fabric == <<late, cable, route, coming, t, plugs>>
retry  == <<armed, tries>>
locks  == <<hpd, tb>>
wait   == <<ans, mute>>
wire   == <<q, h, inbox, dcp>>
lanes  == <<linkcfg, told, got>>
vars   == <<fabric, connected, retry, locks, c, wait, wire, lanes, gen, lost>>

Nobody == "none"
Steps  == <<"validate", "connect", "request", "hpd">>
NoCall == [by |-> Nobody, gen |-> 0, name |-> "-"]
Idle   == [kind |-> "idle", call |-> NoCall, ok |-> TRUE, up |-> "-"]
Reply(call, ok) == [Idle EXCEPT !.kind = "reply", !.call = call, !.ok = ok]
Upcall(up, n)   == [Idle EXCEPT !.kind = "upcall", !.up = up,
                                !.call = [NoCall EXCEPT !.gen = n]]
Resting == [pc |-> "idle", who |-> "fabric", step |-> 1]

Init ==
    /\ late \in BOOLEAN
    /\ cable = FALSE /\ route = FALSE /\ coming = FALSE /\ t = "idle"
    /\ connected = FALSE /\ linkcfg = 0 /\ armed = FALSE /\ tries = 0
    /\ hpd = Nobody /\ tb = Nobody
    /\ c = Resting
    /\ ans = [w \in {"C", "T"} |-> "none"] /\ mute = {}
    /\ q = <<>> /\ h = Idle /\ inbox = <<>>
    /\ dcp = [call |-> NoCall, plan |-> <<>>, asked |-> FALSE,
              display |-> FALSE, for |-> 0]
    /\ gen = 0 /\ plugs = 0 /\ told = 0 /\ got = 0 /\ lost = FALSE

-----------------------------------------------------------------------------
(* Calls: afk_service_call_timeout(). *)

Send(w, name) == inbox' = Append(inbox, [by |-> w, gen |-> gen, name |-> name])

\* The caller's timer. A reply that comes after it finds nobody waiting.
Expired(w) == /\ ans[w] = "none"
              /\ late \/ w \in mute

\* The caller goes on, with an answer or without.
Resume(w) == /\ ans' = [ans EXCEPT ![w] = "none"]
             /\ mute' = mute \ {w}

\* A release has come to its end, one way or the other.
ReleaseOver(w) == /\ ans[w] # "none" \/ Expired(w)
                  /\ lost' = (lost \/ ans[w] = "none")
                  /\ Resume(w)
                  /\ connected' = FALSE
                  /\ hpd' = Nobody

-----------------------------------------------------------------------------
(* dcp_dptx_connect and dcp_typec_reconnect_work. *)

\* The end of an attempt. The fabric leaves a failed one to the delayed work;
\* the work counts it and goes on while it has tries left.
Finish(ok) ==
    /\ c' = Resting
    /\ \/ /\ c.who = "fabric"
          /\ armed' = (armed \/ ~ok)
          /\ UNCHANGED tries
       \/ /\ c.who = "work" /\ ok
          /\ tries' = 0
          /\ UNCHANGED armed
       \/ /\ c.who = "work" /\ ~ok
          /\ tries' = tries + 1
          /\ armed' = (armed \/ tries + 1 < Retries)

\* typec_reconnect_wq runs: nothing to do once the cable is gone.
Work ==
    /\ armed /\ c.pc = "idle"
    /\ armed' = FALSE
    /\ c' = IF cable THEN [Resting EXCEPT !.pc = "take", !.who = "work"] ELSE c
    /\ UNCHANGED <<fabric, connected, tries, locks, wait, wire, lanes, gen, lost>>

\* Under hpd_mutex: nothing to do for a connected port; otherwise an attempt
\* begins, the completion reset to what is left of it.
TakeLeaving(left) ==
    /\ c.pc = "take" /\ hpd = Nobody
    /\ \/ /\ connected
          /\ Finish(TRUE)
          /\ UNCHANGED <<hpd, lanes, gen>>
       \/ /\ ~connected
          /\ hpd' = "C"
          /\ linkcfg' = left
          /\ gen' = gen + 1 /\ told' = 0
          /\ c' = [c EXCEPT !.pc = "call"]
          /\ UNCHANGED <<retry, got>>
    /\ UNCHANGED <<fabric, connected, tb, wait, wire, lost>>

\* A slip: the completion is left as the last attempt left it.
TakeStale == TakeLeaving(linkcfg)

Take == TakeLeaving(0)

\* validate_connection, connect, request_display and set_hpd, one by one.
Call ==
    /\ c.pc = "call"
    /\ Send("C", Steps[c.step])
    /\ c' = [c EXCEPT !.pc = "sent"]
    /\ UNCHANGED <<fabric, connected, retry, locks, wait, q, h, dcp, lanes, gen, lost>>

\* The call succeeded: the port is connected once the display is requested, and
\* after the last call the mutex is given up before the wait for the lanes.
CallOk ==
    /\ c.pc = "sent" /\ ans["C"] = "ok"
    /\ Resume("C")
    /\ connected' = (connected \/ c.step = 3)
    /\ \/ /\ c.step < 4
          /\ c' = [c EXCEPT !.pc = "call", !.step = @ + 1]
          /\ UNCHANGED hpd
       \/ /\ c.step = 4
          /\ c' = [c EXCEPT !.pc = "wait"]
          /\ hpd' = Nobody
    /\ UNCHANGED <<fabric, retry, tb, wire, lanes, gen, lost>>

\* The call failed or its timer expired: from step n on, what was asked for is
\* released again (out_release), before it there is nothing to undo.
FailUndoing(n) ==
    /\ c.pc = "sent" /\ (ans["C"] = "err" \/ Expired("C"))
    /\ Resume("C")
    /\ \/ /\ c.step < n
          /\ Finish(FALSE)
          /\ hpd' = Nobody
       \/ /\ c.step >= n
          /\ c' = [c EXCEPT !.pc = "undo"]
          /\ UNCHANGED <<hpd, retry>>
    /\ UNCHANGED <<fabric, connected, tb, wire, lanes, gen, lost>>

\* A slip: a request that failed is taken for one that was never made.
CallFailKeeps == FailUndoing(4)

CallFail == FailUndoing(3)

\* DCP has set the lanes: the connect has succeeded.
LanesUp ==
    /\ c.pc = "wait" /\ linkcfg # 0
    /\ linkcfg' = 0 /\ got' = linkcfg
    /\ c' = [c EXCEPT !.pc = "won"]
    /\ UNCHANGED <<fabric, connected, retry, locks, wait, wire, told, gen, lost>>

Won ==
    /\ c.pc = "won"
    /\ Finish(TRUE)
    /\ got' = 0
    /\ UNCHANGED <<fabric, connected, locks, wait, wire, linkcfg, told, gen, lost>>

\* Lanes may still come: asked for, queued, or being handled.
LanesComing ==
    \/ "lanes" \in {dcp.plan[i] : i \in DOMAIN dcp.plan}
    \/ "lanes" \in {q[i].up : i \in DOMAIN q} \cup {h.up}
    \/ inbox # <<>> \/ dcp.call # NoCall

\* DPTX_CONNECT_TIMEOUT runs out.
LanesExpire ==
    /\ c.pc = "wait" /\ linkcfg = 0
    /\ late \/ ~LanesComing
    /\ c' = [c EXCEPT !.pc = "drop"]
    /\ UNCHANGED <<fabric, connected, retry, locks, wait, wire, lanes, gen, lost>>

\* out_disconnect: dcp_dptx_disconnect, unless the fabric was there first.
Drop ==
    /\ c.pc = "drop" /\ hpd = Nobody
    /\ \/ /\ connected
          /\ hpd' = "C"
          /\ c' = [c EXCEPT !.pc = "undo"]
          /\ UNCHANGED retry
       \/ /\ ~connected
          /\ Finish(FALSE)
          /\ UNCHANGED hpd
    /\ UNCHANGED <<fabric, connected, tb, wait, wire, lanes, gen, lost>>

Undo ==
    /\ c.pc = "undo"
    /\ Send("C", "release")
    /\ c' = [c EXCEPT !.pc = "undoing"]
    /\ UNCHANGED <<fabric, connected, retry, locks, wait, q, h, dcp, lanes, gen, lost>>

\* Whatever came of the release, the port is not connected any more.
Undone ==
    /\ c.pc = "undoing"
    /\ ReleaseOver("C")
    /\ Finish(FALSE)
    /\ UNCHANGED <<fabric, tb, wire, lanes, gen>>

-----------------------------------------------------------------------------
(* The fabric: a tunnel comes and goes. *)

\* apple_dcp_tb_dp_tunnel(active), up to dcp_typec_route_activate.  A second
\* display waits here for the last connect to end: what would happen otherwise
\* is in the bodies of dcp_dptx_(dis)connect_oob.
Plug ==
    /\ plugs < MaxPlugs
    /\ ~cable /\ t = "idle" /\ c.pc = "idle" /\ ~armed
    /\ plugs' = plugs + 1
    /\ coming' = TRUE
    /\ t' = "take"
    /\ UNCHANGED <<late, cable, route, connected, retry, locks, c, wait, wire, lanes,
                   gen, lost>>

\* apple_dcp_tb_dp_tunnel(!active), first dcp_dptx_disconnect_oob: the delayed
\* work is cancelled, but not waited for.
Unplug ==
    /\ cable /\ t = "idle"
    /\ c.pc = "idle" \/ c.who = "work"
    /\ cable' = FALSE
    /\ armed' = FALSE
    /\ coming' = FALSE
    /\ t' = "take"
    /\ UNCHANGED <<late, route, plugs, connected, tries, locks, c, wait, wire, lanes,
                   gen, lost>>

\* dcp_dptx_disconnect: release the display if there is one; who holds tb_lock
\* meanwhile is the caller's affair.
DisconnectWhen(there, holder) ==
    /\ t = "take" /\ hpd = Nobody
    /\ tb' = holder
    /\ \/ /\ there
          /\ hpd' = "T"
          /\ Send("T", "release")
          /\ t' = "sent"
       \/ /\ ~there
          /\ t' = "route"
          /\ UNCHANGED <<hpd, inbox>>
    /\ UNCHANGED <<late, cable, route, coming, plugs, connected, retry, c, wait, q, h,
                   dcp, lanes, gen, lost>>

\* A slip: tb_lock is taken around the whole change of route.
DisconnectLocked == tb = Nobody /\ DisconnectWhen(connected, "T")

\* A slip: a route that comes up trusts the port's mark.
DisconnectGoing == DisconnectWhen(connected /\ ~coming, tb)

\* A route that comes up disconnects too: the port can still be marked connected
\* to a display that is gone.
Disconnect == DisconnectWhen(connected, tb)

Disconnected ==
    /\ t = "sent"
    /\ ReleaseOver("T")
    /\ t' = "route"
    /\ UNCHANGED <<late, cable, route, coming, plugs, retry, tb, c, wire, lanes, gen>>

\* dcp_typec_route_(de)activate: the route changes under tb_lock.
RouteLock ==
    /\ t = "route" /\ tb \in {Nobody, "T"}
    /\ tb' = "T"
    /\ t' = "locked"
    /\ UNCHANGED <<late, cable, route, coming, plugs, connected, retry, hpd, c, wait,
                   wire, lanes, gen, lost>>

\* After a route has come up the fabric connects by itself, its own lock still
\* held, so that no tear-down meets this attempt.
RouteChange ==
    /\ t = "locked"
    /\ route' = coming
    /\ tb' = Nobody
    /\ t' = "idle"
    /\ \/ /\ coming
          /\ cable' = TRUE /\ tries' = 0
          /\ c' = [Resting EXCEPT !.pc = "take"]
       \/ /\ ~coming
          /\ UNCHANGED <<cable, tries, c>>
    /\ UNCHANGED <<late, coming, plugs, connected, armed, hpd, wait, wire, lanes, gen,
                   lost>>

-----------------------------------------------------------------------------
(* The ordered queue: one message at a time, each to its end. *)

Receive ==
    /\ h = Idle /\ q # <<>>
    /\ h' = Head(q) /\ q' = Tail(q)
    /\ UNCHANGED <<fabric, connected, retry, locks, c, wait, inbox, dcp, lanes, gen,
                   lost>>

\* Someone is still waiting for the answer to this very call.
Awaited(call) ==
    /\ call.by # Nobody /\ call.gen = gen
    /\ ans[call.by] = "none"
    /\ \/ call.by = "T" /\ t = "sent"
       \/ call.by = "C" /\ c.pc = "sent" /\ call.name = Steps[c.step]
       \/ call.by = "C" /\ c.pc = "undoing" /\ call.name = "release"

\* A reply wakes its caller; one that nobody waits for is dropped.
Deliver ==
    /\ h.kind = "reply"
    /\ h' = Idle
    /\ ans' = IF Awaited(h.call)
                THEN [ans EXCEPT ![h.call.by] = IF h.ok THEN "ok" ELSE "err"]
                ELSE ans
    /\ UNCHANGED <<fabric, connected, retry, locks, c, mute, q, inbox, dcp, lanes, gen,
                   lost>>

\* dptxport_call: the handler runs to its end on the queue's one worker, and
\* only then is DCP answered.  On a tunnel Activate, Deactivate and the link
\* changes take tb_lock for what they do; the lanes complete the wait for them.
HandleCompleting(completes) ==
    /\ h.kind = "upcall"
    /\ (h.up # "lanes" /\ route) => tb = Nobody
    /\ h' = Idle
    /\ dcp' = [dcp EXCEPT !.asked = FALSE]
    /\ \/ /\ h.up = "lanes"
          /\ linkcfg' = IF completes THEN h.call.gen ELSE linkcfg
          /\ told' = h.call.gen
       \/ /\ h.up # "lanes"
          /\ UNCHANGED <<linkcfg, told>>
    /\ UNCHANGED <<fabric, connected, retry, locks, c, wait, q, inbox, got, gen, lost>>

\* A slip (0114): Activate asks DCP for the display again, and waits.
HandleAsking ==
    \/ /\ h.kind = "upcall" /\ h.up = "activate"
       /\ Send("C", "request again")
       /\ h' = [h EXCEPT !.kind = "calling"]
       /\ UNCHANGED <<fabric, connected, retry, locks, c, wait, q, dcp, lanes, gen, lost>>
    \/ h.up # "activate" /\ HandleCompleting(TRUE)

\* A slip (up to 0137): the lanes of a tunnel complete nothing.
HandleGated == HandleCompleting(~route)

Handle == HandleCompleting(TRUE)

-----------------------------------------------------------------------------
(* DCP, as the driver knows it: one call at a time, one upcall at a time. *)

\* It takes up the next call; a request brings up the port, HPD trains the
\* link, a release ends both.
DcpTake ==
    /\ dcp.call = NoCall /\ inbox # <<>>
    /\ inbox' = Tail(inbox)
    /\ LET call == Head(inbox)
           held == [dcp EXCEPT !.call = call]
       IN dcp' = CASE call.name = "request" ->
                        [held EXCEPT !.display = TRUE, !.for = call.gen,
                                     !.plan = <<"activate">>]
                   [] call.name = "hpd" /\ dcp.display ->
                        [held EXCEPT !.plan = @ \o <<"rate", "lanes">>]
                   [] call.name = "release" ->
                        [held EXCEPT !.display = FALSE, !.for = 0,
                                     !.plan = IF dcp.display THEN <<"deactivate">>
                                                             ELSE <<>>]
                   [] OTHER -> held
    /\ UNCHANGED <<fabric, connected, retry, locks, c, wait, q, h, lanes, gen, lost>>

\* An upcall: the next waits until this one is answered.  Lanes come up only
\* over a route.
DcpAsk ==
    /\ dcp.plan # <<>> /\ ~dcp.asked
    /\ Head(dcp.plan) = "lanes" => route
    /\ q' = Append(q, Upcall(Head(dcp.plan), dcp.for))
    /\ dcp' = [dcp EXCEPT !.plan = Tail(@), !.asked = TRUE]
    /\ UNCHANGED <<fabric, connected, retry, locks, c, wait, h, inbox, lanes, gen, lost>>

\* DEVICE_NOT_RESPONDING: it gives the link up by itself.
DcpGiveUp ==
    /\ dcp.plan # <<>> /\ Head(dcp.plan) = "lanes" /\ ~dcp.asked
    /\ dcp' = [dcp EXCEPT !.plan = <<"deactivate">>]
    /\ UNCHANGED <<fabric, connected, retry, locks, c, wait, q, h, inbox, lanes, gen,
                   lost>>

\* It answers the call it holds, a request only after Activate has been
\* answered, the others before or after the upcalls they lead to.
DcpAnswer ==
    /\ dcp.call # NoCall
    /\ dcp.call.name = "request" => (dcp.plan = <<>> /\ ~dcp.asked)
    /\ \E ok \in BOOLEAN : q' = Append(q, Reply(dcp.call, ok))
    /\ dcp' = [dcp EXCEPT !.call = NoCall]
    /\ UNCHANGED <<fabric, connected, retry, locks, c, wait, h, inbox, lanes, gen, lost>>

\* Or never does: it has dropped the call, acted upon or not.
DcpMute ==
    /\ \/ /\ dcp.call # NoCall /\ ~dcp.asked
          /\ mute' = IF Awaited(dcp.call) THEN mute \cup {dcp.call.by} ELSE mute
          /\ dcp' = [dcp EXCEPT !.call = NoCall]
          /\ UNCHANGED inbox
       \/ /\ dcp.call = NoCall /\ inbox # <<>>
          /\ mute' = IF Awaited(Head(inbox)) THEN mute \cup {Head(inbox).by} ELSE mute
          /\ inbox' = Tail(inbox)
          /\ UNCHANGED dcp
    /\ UNCHANGED <<fabric, connected, retry, locks, c, ans, q, h, lanes, gen, lost>>

-----------------------------------------------------------------------------
Connector == \/ Work \/ Take \/ Call \/ CallOk \/ CallFail
             \/ LanesUp \/ Won \/ LanesExpire \/ Drop \/ Undo \/ Undone
Rerouting == Disconnect \/ Disconnected \/ RouteLock \/ RouteChange
Queue     == Receive \/ Deliver \/ Handle
Talk      == DcpTake \/ DcpAnswer \/ DcpMute
Training  == DcpAsk \/ DcpGiveUp

Next == Connector \/ Rerouting \/ Queue \/ Talk \/ Training \/ Plug \/ Unplug

Spec == Init /\ [][Next]_vars

\* The kernel runs what is runnable, and every wait has a timer; DCP answers a
\* call or never will, and carries on with the link or gives it up.  Nobody has
\* to plug or unplug anything.
Fairness == /\ WF_vars(Connector) /\ WF_vars(Rerouting) /\ WF_vars(Queue)
            /\ WF_vars(Talk) /\ WF_vars(Training)

FairSpec == Spec /\ Fairness

-----------------------------------------------------------------------------
Calls    == {call \in [by : {"C", "T", Nobody}, gen : 0..gen,
                       name : {Steps[i] : i \in DOMAIN Steps} \cup {"release", "-"}] :
               call.by = "T" => call.name = "release"}
Upcalls  == {"activate", "deactivate", "rate", "lanes"}
Messages == [kind : {"idle", "reply", "upcall"}, call : Calls, ok : BOOLEAN,
             up : Upcalls \cup {"-"}]

\* Every variable keeps its type, the fabric calls DCP only to release, and each
\* lock is held by exactly the thread that is inside the section it guards:
\* tb_lock by nobody who waits for DCP.
TypeOK ==
    /\ late \in BOOLEAN /\ cable \in BOOLEAN /\ route \in BOOLEAN
    /\ coming \in BOOLEAN /\ connected \in BOOLEAN /\ armed \in BOOLEAN
    /\ lost \in BOOLEAN
    /\ tries \in Nat /\ gen \in Nat /\ plugs \in 0..MaxPlugs
    /\ linkcfg \in 0..gen /\ told \in 0..gen /\ got \in 0..gen
    /\ c \in [pc : {"idle", "take", "call", "sent", "wait", "won", "drop",
                    "undo", "undoing"},
              who : {"fabric", "work"}, step : DOMAIN Steps]
    /\ t \in {"idle", "take", "sent", "route", "locked"}
    /\ ans \in [{"C", "T"} -> {"none", "ok", "err"}] /\ mute \subseteq {"C", "T"}
    /\ h \in Messages /\ q \in Seq(Messages) /\ inbox \in Seq(Calls)
    /\ dcp \in [call : Calls, plan : Seq(Upcalls), asked : BOOLEAN,
                display : BOOLEAN, for : 0..gen]
    /\ hpd = "C" <=> c.pc \in {"call", "sent", "undo", "undoing"}
    /\ hpd = "T" <=> t = "sent"
    /\ tb = "T" <=> t = "locked"
    /\ hpd \in {"C", "T", Nobody} /\ tb \in {"T", Nobody}

\* A connect succeeds on the lanes of its own attempt, never on those an earlier
\* attempt left behind (reinit_completion in dcp_dptx_connect): however early
\* the timers expire, an attempt given up was released, and the reply to that
\* release follows its last lanes. Only a release that itself ran into its timer
\* lets old lanes through.
FreshLink == c.pc = "won" => got = gen \/ lost

\* When DCP has reported the lanes of an attempt, the wait for them does not
\* run into its timeout: the completion is neither missed between the calls and
\* the wait nor withheld from a tunnel (what 0137 repaired).
ReportIsHeard == c.pc = "drop" /\ ~late => told # gen

\* The attempt for a display just plugged in is never skipped because the port
\* is still marked connected to the last one. The mark can survive a tear-down:
\* the work reads the cable before it takes the mutex, and may connect between
\* the tear-down's disconnect and the end of the route.
NewDisplayIsAsked == c.pc = "take" /\ c.who = "fabric" => ~connected

AtRest == /\ c = Resting /\ t = "idle" /\ ~armed
          /\ h = Idle /\ q = <<>> /\ inbox = <<>>
          /\ dcp.call = NoCall /\ dcp.plan = <<>> /\ ~dcp.asked

\* At rest the driver and DCP agree on whether the display is requested, unless
\* a release ran into its timer: a failed or timed-out request is released too.
DisplayAgrees == AtRest /\ ~lost => (dcp.display <=> connected)

\* Whatever the threads, the queue and DCP do, the display is lent to one attempt at
\* a time (DisplayLease): none begins while DCP still holds it, or may yet come to
\* hold it, for an earlier one, and the port's mark is never given before the
\* display nor taken away before it is back.
Lease == INSTANCE DisplayLease WITH
    epoch  <- gen,
    holder <- IF dcp.display THEN dcp.for ELSE 0,
    marked <- connected,
    linked <- got,
    lapsed <- lost

LentToOne == Lease!Spec

\* The queue's worker never gets stuck: every message, in either direction, is
\* handled to its end. A handler that calls DCP (0114), or a change of route that
\* keeps tb_lock while it waits for DCP (0127), would wait for itself.
QueueServed == [](h # Idle => <>(h = Idle))

\* Every connect ends, however DCP behaves: with the port connected, or failed.
ConnectEnds == [](c.pc # "idle" => <>(c.pc = "idle"))
=============================================================================
