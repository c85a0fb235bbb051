# Verification of asahi-j416s-display

TLA+ models, TLC runs and TLAPS proofs for the software that makes an external
display work through a USB4 dock on a MacBook Pro (`j416s`): kernel patches for
Thunderbolt, `appledrm`, the display crossbar and the ATC PHY, the scripts that
deploy them, and some user-space fixes. Paths below are relative to `src/`.
`0127` stands for `patches/0127-port-thunderbolt-dp-tunnel-routing-from-pr8.patch`,
which holds the present form of the kernel code; the patches up to `0126` are
experiments it removes.

## 1. The system

```
 tb.c/tunnel.c          drivers/thunderbolt/apple.c         drivers/gpu/drm/apple
 connection manager --> hooks --> ordered work queue -----> port -> route -> pipeline
        |                               |  ^                   |        |
        |                      maps regs|  |tb_lock, c->lock   |        +-> crossbar (mux)
        v                               v  |                   v        +-> ATC PHY pixel clock
   DP IN adapter registers <---- DPTX_INACTIVE handshake <-- DCP firmware (apcalls)
```

The connection manager sets up a DP tunnel and calls a hook. The hook queues a
work item, which maps the DP IN adapter's registers and asks `appledrm` to route
a display pipeline to the port. From then on DCP, the display coprocessor, calls
back (apcalls): to wake the adapter, to set the link rate, to announce link
changes. Everything is undone when the tunnel goes, the driver is unloaded or
the dock is pulled.

| Part | State | Operations | Interacts by | Hard because | Correct when |
|---|---|---|---|---|---|
| **DP IN work item** (`0127`, apple.c) | per adapter `alive`, `regs`, `handed`; one ordered queue | post-activate and deactivate hook; `apple_dpin_work_fn`, `_up`, `_connect`, `_down`; `apple_dpin_dcp_set_active` | hooks from the connection manager; symbol lookup and call into appledrm; callback from DCP | tunnel moves while the worker maps, connects, retries (60 × 0.5 s) or takes down; DCP calls meanwhile; appledrm loads and unloads | no handshake on unmapped registers; no callback left behind; what is mapped is unmapped |
| **Type-C fabric** (`0127`, `0143`: `dcp_typec_route_*`) | `port->owner`, routes, pipelines, scores | set, activate, deactivate, unregister; choice of a pipeline; fixed (HDMI) output | `dcp_typec_fabric_lock`, `tb_lock` | alt-mode, tunnels and HDMI compete; any step of an activation may fail; the port records a state before it is acted upon | one owner per port and per pipeline; a failed activation leaves nothing; HDMI comes back; what is recorded is done |
| **Tunnel pixel path** (`0127`, dcp.c and dptxep.c) | `dptx_tunnel`, `tb_clock_ok`, `xbar_up`, `link_rate` | route activation, `dcp_tunnel_set_rate`, `_crossbar_up`, `_crossbar_down` | apcalls on the endpoint's queue against the fabric lock's holder | unlocked look at `dptx_tunnel`, cached verdict on the clock | crossbar only on a running clock; clock gone with the tunnel |
| **ATC PHY pixel clock** (`patches/0100`, `0101`, `0102`, `0127`) | `tunnel_rate`, `tunnel_saved`, `tunnel_attempted`, mode | `atc_tunnel_start`, `_stop`, restore on a mode change | called under `tb_lock`; Type-C mode notifications | one attempt only; mode change under a standing route | restored exactly |
| **Display crossbar** (`patches/0020`, `0096`, `0105`, `0127`) | selected output, its semaphore, FIFO and PCLK gates | select, deselect, link up, link down | mux core | released once per acquisition, by different paths | balanced |
| **DPTX handshake** (`patches/0093`, `scripts/test-dpin-handshake.c`) | one register | request, poll, clear | inside `c->lock` | 1 s deadline against a late acknowledgement | never leaves the request standing |
| **DPTX connect** (`0127`, `0143`, `patches/0129`, `0137`) | `connected`, `linkcfg_completion`, reconnect work | `dcp_dptx_connect`, `_disconnect`, `dcp_typec_reconnect_work` | four calls to DCP under `hpd_mutex`; waits with deadlines for apcalls | late or missing answers and completions; the work against a tear-down | a stale completion is not taken for this connect's; a failed request is released; every connect ends |
| **AFK/EPIC queue** (`patches/0114`–`0116`) | ordered work queue per endpoint | apcall dispatch | DCP | waiting for DCP from DCP's own queue | never waits on itself |
| **tb.c/tunnel.c changes** (`patches/0106`–`0108`, `0131`–`0138`) | bandwidth and timeouts | small edits | – | the surrounding code is not in the repository | – |
| **Deployment** (`scripts/manage-NNNN.py`, 53 of them) | module files, `modprobe.d` confs, initramfs, one BACKUP per script | install, restore, disarm, check | each script relies on what earlier ones left | any step raises; power cuts; in-place copies; forgotten confs | a restore is always possible and complete; success is durable; the image has the options meant |
| **Aquamarine, Hyprland fixes** (`src/aquamarine`, `src/hyprland`) | CRTC page-flip flag; session-active flag | connect, disconnect, commit, session change | compositor threads and callbacks | a pending flip that never completes | commits are not refused for ever |
| **Library swap scripts** (`scripts/manage-aquamarine-*`, `-hyprland-*`) | one library and its backup | install, restore | rename under a running process | a reused backup | the file is whole at every start; there is a way back; a reported outcome is on disk |
| **Login gate** (`scripts/wait-apple-drm.py`) | a deadline | poll | systemd | look and deadline | accepts a ready card only |
| **DPTX PHY, clock probe, captures, older installers** | registers, logs | straight-line | – | little control | – |

`PROJECT.json` lists every part with its status, and each hazard at its line with
the properties about it.

## 2. The modules

| Module | What it is |
|---|---|
| `TunnelLifecycle` | Abstract specification: the contract about **one** adapter between Thunderbolt glue and display driver. |
| `DpinWork` | The work item, the hooks, the DCP callback, and a port's owner, for all adapters of one router. Implements `TunnelLifecycle` for each. |
| `DpinWorkProofs` | Its theorems. |
| `DptxTunnel` | The pixel path of one pipeline: route, crossbar, semaphore, pixel clock, SetLinkRate and Will/DidChangeLinkConfiguration. |
| `DptxTunnelProofs` | Its theorems. |
| `DptxConnect` | One pipeline's conversation with DCP: calls, apcalls, the endpoint's ordered queue, the wait for the lanes, the reconnect work. Implements `DisplayLease`. |
| `DisplayLease` | Abstract specification: what one pipeline's connects and disconnects amount to, messages left out. |
| `DptxConnectProofs`, `DptxEpochProofs` | The theorems of `DptxConnect`: what holds however late an answer is, then what holds until a release is given up on. |
| `DpFabric` | Which pipeline drives which Type-C port: choice, tunnels, alternate mode, HDMI. Implements `OutputSwitch` for each pipeline. |
| `OutputSwitch` | Abstract specification: one pipeline's output and the display connected over it. |
| `DpFabricProofs` | Its theorems. |
| `ModuleDeploy` | The deployment transaction: install, restore, disarm, steps that raise, power cuts. |
| `ModuleDeployProofs` | Its theorems. |
| `DeployChain` | The scripts as they were used, one after the other; extends `ModuleDeploy`. |
| `DeployChainProofs` | Its theorems. |
| `Candidates` | What the 53 scripts differ in, a record each, and the tables of the whole chain. |
| `LibrarySwap` | Install and restore of one library of a running desktop session. |
| `LibrarySwapProofs` | Its theorems. |
| `MC*` | Instances for TLC. |

The four kernel modules overlap at the route. `DpinWork` follows *which adapter*
the display driver may call into, step by step, and abstracts what a route does.
`DptxTunnel` follows *what a route does* to the crossbar and the clock. `DpFabric`
follows *which pipeline* a route belongs to, for all ports at once: what the other
two do in several steps under the fabric lock is one step there. `DptxConnect`
follows what one pipeline says to DCP while its route comes and goes. The first
three contain the callback, and each shows from its side that it does not survive
its tunnel.

### DpinWork

One action is one stretch of code between two points where another party can
get in: a lock taken or dropped, a call that waits, a sleep.

| Code (`0127`) | Here |
|---|---|
| `c->alive`, `c->regs`, `c->handed` | `alive`, `regs`, `handed`; `mapped` is the mapping itself, which outlives the pointer during the unmap |
| `dp_wq`, one work item per adapter | `queue` (a pending item is not queued twice), `cur`, `wpc` |
| post-activate hook / adapters disabled / deactivate hook | `TunnelUp` / `PowerOff` / `TunnelDown`; the `queue_work` of either hook, after its unlock, is `Report`. `due` is the adapter in between: one at a time, as the connection manager holds `tb->lock` over set-up and tear-down |
| `apple_dpin_work_fn` | `Take`, `Want`, `Failed` |
| `apple_dpin_up` | `Up` and its failure |
| `apple_dpin_connect` and `apple_dcp_tb_dp_tunnel(true)` | `ConnectNoDevice` (retried), `ConnectOwned`, `ConnectRefused`, `ConnectBind`, `Activate`, `Oob`, `Retry` |
| `apple_dpin_down` and `apple_dcp_tb_dp_tunnel(false)` | `Down`, `Disconnect`, `Release`, `Clear`, `Unmap` |
| `tb_lock`, `c->lock` | held through `apc`: `"entered"` has `tb_lock`, `"handshake"` both |
| `dcp_typec_fabric_lock` and the module reference | held at the labels `FabricHeld` |
| Activate, Deactivate, Will/DidChange apcalls | `ApcallEnter`, `ApcallLock`, `ApcallDone`, at any time the route is in tunnel operation: DCP's own order is not assumed |
| alt-mode notifications, `dcp_typec_route_unregister` | `AltModeOn`, `AltModeOff`, `DrmLoad`, `DrmUnload` |

`Release` leaves the port's owner in place when the crossbar cannot be deselected,
and takes the callback back all the same, as the code does. `tunnels`, `served`
and `refused` are history variables; no guard but the bound on `tunnels` reads them.

### DptxTunnel

Route set-up and tear-down run under the fabric lock (`pc`); the part of each
under `tb_lock` is one step. `dptxport_call` reads `dptx_tunnel` without a lock and
the handler looks again under `tb_lock`, so each apcall is two steps (`Call` or
`CallRate`, then its handler), with a tear-down possible in between. The clock is
its rate `clk` and `attempted`. `attempted` is never cleared, as in `patches/0100`:
one behaviour starts the clock at most once, and later tunnels run with a refused
clock, which is the case `BringUpAtRate` is most interested in. A later candidate clears
the flag in `atc_tunnel_restore()`, says `scripts/manage-0144.py:4`; the C code of it is
not in the repository, and the model stays with the code that is. `PhyMode` is
`atcphy_configure`, which restores the tunnel's clock first.

### DptxConnect

| Code | Here |
|---|---|
| `dcp_dptx_connect` (`0127`:1324–1402) | `Take`, `TakeLeaving` (already connected), `Call`/`CallOk`/`CallFail` for the four calls, `LanesUp`, `Won`, `LanesExpire`, `Drop`, then `Undo`, `Undone` |
| `dcp_typec_reconnect_work` (`0143`, `patches/0019`) | `Work`; `tries` |
| set-up and tear-down of a route | `Plug`, `Unplug`, `Disconnect`, `Disconnected`, `RouteLock`, `RouteChange` |
| `afk_service_call_timeout` | `Send`, then `ans` or `Expired`; a reply that finds nobody (`Awaited`) is dropped |
| the endpoint's ordered work queue (`patches/0116`) | `q`, `h`: `Receive`, then `Deliver` a reply or `Handle` an apcall |
| DCP | `DcpTake`, `DcpAsk`, `DcpGiveUp`, `DcpAnswer`, `DcpMute` |

DCP is modelled from what the driver expects of it: it takes one call at a time,
answers it with success, with failure or never, and answers a request only after
its apcalls for it have been answered. A call it never answers it may have acted upon or
not (`DcpMute`). `late = FALSE` are the behaviours in which a
timer expires only when no answer will come, the case the budgets of 1 s and 8 s are
chosen for; with `late = TRUE` any timer expires at any moment. Both are initial
states of one run.

`DPTX_RECONNECT_RETRIES` is 1, and the work goes on only while `++tries < 1`: it never
queues itself again, and a display whose second attempt fails stays dark until it
is plugged in anew. `ConnectEnds` therefore promises an end of each attempt, not a
picture. The mark `connected` can survive a tear-down: the work looks at the cable
before it takes `hpd_mutex`. What heals it is the disconnect at the start of the
next activation (`NewDisplayIsAsked`).
`gen` numbers the attempts, and `told`, `got` and `lost` are history; the guards do not
read them.

`DisplayLease` says all this without calls, queue and timers: the display is lent to one
attempt at a time. An attempt begins (`Begin`) only when DCP holds the display for
nobody; the port is marked (`Mark`) only once DCP holds it for that attempt, and unmarked
(`Unmark`) only when it has been given back; the link reported (`Link`) is the last
attempt's. `LentToOne` is the refinement. It ends with `lost`, a release whose caller gave up
waiting: from then on DCP may hold a display nobody asked for, and the driver cannot tell.

### DpFabric

Each of `apple_dcp_tb_dp_tunnel` and `dcp_typec_route_set` holds the fabric lock from
its first look at the port to its return, so each call is one action with all the
outcomes it can have: `TunnelUp`, `TunnelDown`, `TunnelStuck` (the crossbar cannot be
deselected), `EnterDp`, `EnterDpTunneled`, `LeaveDp`. `Best` chooses a pipeline by its
score, which differs between alternate mode and tunnels. `linked` is the display a
pipeline's DPTX port is marked connected to, by whom and for which port; `HdmiPlug`,
`HdmiUnplug` and `DcpNotices` are the fixed output's events, at any time.
`OutputSwitch` is what all this comes to for one pipeline: its output goes from one
place to another, never from port to port, and no display stays connected across the
change. `SwitchesOutputs` is the refinement; a failed change counts as one.
After a failed tear-down the port keeps its owner with no callback, and the next
set-up for the same adapter returns 0 without one (`0127`:604–628): `CallbackFits`
states exactly this.

### LibrarySwap

The files are `TARGET`, the directory `BACKUP`, the copy and the manifest in it, in
memory (`fs`) and on disk (`disk`). `job` is an install, the `"undo"` of one that raised
inside its `try`, or a restore. A step that raises may leave the file it was writing
damaged; a power cut leaves each file that differs from the disk's old, new or damaged.
The scripts know a file by its digest, so two kinds of damage are told apart: `Torn` is
a `TARGET` that a power cut damaged, and whatever is copied from it or digested of it;
`Garbled` is a copy or a manifest damaged in `BACKUP` itself, which no digest matches. A
damaged `TARGET` is backed up, recorded, verified and restored like any other.
`Update` is the package manager's replacement of the library, between scripts.

### ModuleDeploy, DeployChain and Candidates

The files are `mods`, `conf` and the `image`, which is whole or not and knows what
was packed into it. `backup` is each script's BACKUP directory by how far it got:
`"begun"`, `"listed"` (manifest written), `"whole"`, or `"spoilt"`, when a copied
conf, for which the manifest has no digest, may be damaged. `saved` and `kept` are
what the last `os.sync()` put on disk.
A step that raises may leave the file it was writing torn, the image included when it is
`mkinitcpio` that raises or the copy of it that is put back. It ends the script,
except inside install's `try`, where restore follows. A power cut (`Cut`) leaves
every file that was written since the last sync old, new or torn, independently;
the machine comes up again if its image is whole.
A record of `Candidates` gives a script's modules by the SHA-256 it pins, its conf
and options, and the *form* of its parts, read from each script: what preflight
refuses and requires, what verify_image demands and bans, whether restore
rebuilds the image, whether there is a disarm.

`DeployChain` is the history: each script is installed in its turn and disarmed before
the next, unless its conf was left armed (`LeftArmed`). Nothing raises there and no power
goes. The question is whether the scripts fit each other, and `ChainFits` says what
their tables must satisfy for that, script by script and without running any: `Standing(n)`
reads off the tables which confs are in place after the first n.

## 3. The runs

Each takes between a second and two or three minutes (`tlc -workers 2 -config X.cfg M`).

| Run | Bounds | Shows |
|---|---|---|
| `DpinWork` | 2 adapters, 2 tries, 2 tunnels per adapter, with fairness; 646,176 states | `HandshakeSafe`, `CallbackLifetime`, `TunnelOwned`, `NothingForgotten`, `Drained`; the refinement `Lifecycle`; `Released`: a tunnel that stays down is unmapped and unregistered; `Resolved`: one that stays up is handed over or reported as failed |
| `DpinWork_lost` | 1 adapter | **violation** of `EventsNotLost` |
| `DpinWork_powered` | 1 adapter | **violation** of `NoHandshakeOnDisabled` |
| `DptxTunnel_safety` | 2 rates, stable PHY mode, no failed deselect; 1,520 states | `GatesClocked`, `ClockOwned`, `MuxBalanced`, `BringUpAtRate` |
| `DptxTunnel_faults` | 2 rates, PHY mode changes at any time, 2 failed deselects; 6,149 states | `CallbackScoped` |
| `DptxTunnel_stale` | 2 rates, PHY mode changes at any time | **violation** of `BringUpClocked` |
| `DptxConnect` | a display plugged in twice, 1 retry as in the code, timers that outlast DCP and timers that do not, with fairness; 817,224 states | `FreshLink`: a connect succeeds on its own lanes. `ReportIsHeard`: reported lanes end the wait. `NewDisplayIsAsked`: an old mark never hides a new display. `DisplayAgrees`: driver and DCP agree at rest. The refinement `LentToOne`. `QueueServed`, `ConnectEnds`: nothing waits for itself |
| `DpFabric` | 3 ports with 2 adapters each, 2 pipelines, one with HDMI; 2,694 states up to symmetry | `Exclusive`, `OneOutput`, `CallbackFits`, `HdmiComesBack`, `RecordedIsDone`; the refinement `SwitchesOutputs` |
| `LibrarySwap` | 2 package updates, 3 raising steps, 2 power cuts; 24,575 states | `LaunchWhole`, `Recoverable`, `OutcomeHolds` |
| `Deploy_faults` | 3 scripts, 2 raising steps, 1 power cut; 899,672 states | `BackupFirst`, `SuccessIsDurable`, `RestoreUndoes` |
| `Deploy_history` | all 53 scripts with their real digests, confs and options, no faults; 3,433 states in a row | `ChainLegal`: each script's preflight and its checks of the confs succeed in its turn, those it repeats later too, and its image passes its own checks, so that no install is ever undone. `CleanFromThere`: from 0142 on a boot gets only the options meant |
| `Deploy_flags` | the same | **violation** of `DroppedFlags` |

*Why these bounds.* Two adapters share the queue and the port; a third brings no
new kind of contention, since at most one is worked on, one owns the port and one
waits. Two tunnels are enough for a tunnel to come back before the old one is
released; with two tries the retry loop is left in both ways. Two rates tell "the
rate that runs" from "another one". Two faults let both an install's step and a
step of the restore it calls raise, and one power cut follows or separates them;
a restore run afterwards is free of faults in some behaviour and must succeed.
Two plugs let a late answer of the first connect meet the second, and a mark that
survived the tear-down meet a new display. The fabric's instance is the machine:
three ports, and two pipelines for external displays. Two updates let a backup be
older than the file it replaces by one and by two versions; three faults and two
cuts interrupt an install, the restore in it, and the install after.
The three scripts are 0135, 0136 and 0143: one that adds a conf, one without modules
that clears leftovers (cut down to one of ten; `Deploy_history` has them all), and one
that takes a superseded conf away, here the first one's.
In that run only `appledrm` of their five modules is tracked: the others are
copied, verified and restored in the same loops. Its module also evaluates `ChainFits`
for the tables of all 53 (`TablesFit`).

*Symmetry* is used in `DpFabric` only: its ports are interchangeable, and so are its
adapters, and the run has no liveness property.

*Fairness.* In `DpinWork` and `DpinWork_lost`: strong fairness of the worker's steps: a
work queue runs its items, a mutex is handed over to a waiter, and each wait has
a deadline (the retry loop, the waits of DPTX connect and disconnect). A step that
needs `tb_lock` or `c->lock` is enabled and disabled again by DCP's calls; strong
fairness says the kernel's mutex, which hands over to its first waiter, lets it
in. Weak fairness of `ApcallStep`: a handshake ends, by acknowledgement or after its
second; and of `Report`: a hook that has dropped `c->lock` goes on to `queue_work`. Nothing is assumed of the user, of tunnels, of when DCP calls, or of
module loading; without DCP's progress the wait in `Disconnect` ends by its timeout.
In `DptxConnect`: weak fairness of the connecting thread, of the fabric, of the
queue's worker and of DCP. Every wait of the driver has a timer; DCP either answers
a call or never will (`DcpMute`), and either goes on with the link or gives it up.
Nobody has to plug or unplug anything.

*Deadlock* is checked in the runs of `DpinWork`, `DptxTunnel`, `DpFabric` and `LibrarySwap`.
It is off where the system really may stop: a machine whose image does not boot
stays off, the chain of scripts has an end, and a pipeline whose displays have all
been plugged in and served is at rest (`ConnectEnds` and `QueueServed` say that it is
not stuck).

## 4. Where the code and its comments differ

1. *Events can be lost* (`DpinWork_lost`). "One work item per adapter on an ordered
   queue, so events are never lost": a tunnel that goes and comes back before the
   work item looks leaves `alive` and `handed` both set, so the item returns, and DCP is
   never told of the new tunnel. The same after appledrm was reloaded.
2. *The gap is not covered* (`DpinWork_powered`). The adapters are disabled before
   the deactivate hook clears `alive`; a DCP call in between passes the check and
   starts a handshake. A comment accepts the access as harmless.
3. *The clock's verdict goes stale* (`DptxTunnel_stale`). A mode change of the PHY
   under a standing route restores the clock without telling `tb_clock_ok`; the next
   link change brings the crossbar up without a clock.
4. *Dropped options that stay* (`Deploy_flags`). 0140 says it drops two module options;
   the forgotten confs of 0127 to 0134 still set them, and its image check does not
   look. The repository found this itself; 0142 is the repair, and
   `CleanFromThere` shows that it is one.

## 5. What is proved

TLAPS proves, for every value of the constants:

*`DpinWorkProofs`*, from `DpinAssumption` only (the adapters are told apart from
`NoDpin` and `AltMode`, `MaxTries` is positive): for any set of adapters, tries and tunnels,
- `TypeCorrect`, `HandshakesAreSafe`, `CallbacksAreOwned`, `TunnelsAreOwned`,
  `NothingIsForgotten`, `QueueDrains`: the type invariant and the five safety
  properties of the run;
- `TunnelsAreAttended`, the safety half of `Resolved`: a tunnel that is up and neither handed
  over nor given up is queued, about to be, or being set up. It is inductive with the other half of
  `Attended`: one that comes up while its adapter is taken down is queued again;
- `ImplementsLifecycle`: each adapter's behaviour is one of `TunnelLifecycle`.

The others are not inductive. That a call never finds its adapter unmapped depends
on where the worker stands. The invariant `IInv` says so: `MapInv` (pointer, mapping
and hand-over imply each other, except between `Clear` and `Unmap`), `PlaceInv` (at each
label, what the worker has done), `BindInv` (a callback belongs to the port's owner
and a loaded driver), `CallInv` (a call in progress pins the callback, a handshake
the tunnel) and `QueueInv` (an adapter with something left mapped and no tunnel is
queued, about to be, or worked on). The last needs two lemmas on the queue. `InvStep` has one
step per action; the refinement uses `IInv` on both sides of a step.

*`DptxTunnelProofs`*, for any set of rates:
- `TunnelTypes` and `CallbackIsScoped`, without further assumption;
- `TunnelIsClocked`, `ClockDiesWithTunnel`, `SemaphoreIsBalanced`, `BringUpsAreClocked`, under
  `Stable`: the PHY keeps its mode under a route, and no deselect fails. The second
  half is the code: the T602x crossbar's disconnect returns 0 (`patches/0096`). The
  first is what finding 3 shows to be needed.

`RouteInv` ties the route's fields, the semaphore and the gates to the place of the
fabric lock's holder, and `ClockInv` makes `tb_clock_ok` truthful: it implies that the
clock runs at the rate recorded last.

*`DptxConnectProofs`* and *`DptxEpochProofs`*, from `ConnectAssumption` only (tries and
plugs are numbers, and there is a plug), for any number of tries and of displays:
- `ConnectTypes`, `NewDisplaysAreAsked`, `ReportsAreHeard`, whatever DCP, the timers and the two
  threads do;
- `NothingStandsStill`, the safety half of `QueueServed` and `ConnectEnds`: whatever DCP and the
  timers do, somebody can take a step until everything is at rest;
- `LinksAreFresh`, `DisplaysAgree` and `DisplaysAreLent`, the refinement of `DisplayLease`: each
  as long as no release was given up on, which is their statement.

The first three rest on `FlowInv`, which places the route's and the connecting thread's
states against each other (what follows from a mark, a lock, a cable pulled), and on
`HeardInv`: from the reset to the end of the wait the completion holds what was reported,
and a wait that timed out, with no timer early, left no lanes to come. `NothingStandsStill` needs
`MoveInv` besides: a caller that waits has its answer, or DCP has dropped its call (so that
its timer may expire), or the call is on its way with an answer that will be taken for what
it is (`Travels` follows it through inbox, DCP and queue); and DCP waits for an upcall only
while there is one. `NeverStuck` names the guards of the actions, since ENABLED is out of
the prover's reach. From there on the argument is who waits for whom: the queue's worker
for `tb_lock`, whose holder waits for nobody; a thread for the mutex, whose holder waits for
DCP at most; DCP for the queue. The others are about what is *in flight*: a late
answer is harmless because of what cannot overtake what. `EpochInv` follows the release.
`ReleaseInv`: wherever it is - on its way, held by DCP, in the queue, being handled - there is
only one, its caller waits, nothing is sent behind it, and once DCP has taken it up no
display, no lanes and no request are left but what the queue holds before its reply.
`QuietInv`: when the reply has come, or before an attempt has asked for the display, nothing
is under way. `LaneInv`: so whatever display, request or lanes there are belong to the last
attempt. `ShownInv`: a mark, and a request that was answered, mean that DCP has the
display. `EpochInv` has one lemma per message step and one, `SteadyKeeps`, for the thirteen
that leave the wire alone.

*`DpFabricProofs`*, from `FabricAssumption` (pipelines are numbers, the names are told
apart), for any ports, pipelines and adapters: a theorem for each property of the
run. The invariant is the conjunction of them all with two more: `FixedRests`, a
free pipeline whose last change went through has its fixed output selected, and
`LinkedToPort`, a pipeline that drives a port is connected to no other display.
`HdmiComesBack` needs the first, and `LinkedToPort` needs `OneOutput`. Four lemmas say what an
activation and a tear-down keep, going through or failing; the actions are put
together from them as in the code. `OutputsAreSwitched` is the refinement of
`OutputSwitch`, from the same invariant and along the same lines: set-ups, tear-downs, and
the world around.

*`LibrarySwapProofs`*, from `SwapAssumption`, for any number of updates, raising steps
and power cuts: `SwapTypes`, `LaunchesAreWhole`, `ThereIsAWayBack`, `OutcomesAreTrue`. What
carries the proof is that no BACKUP is of a built or a damaged file until the way back lapses
(`Original`), that a BACKUP once on disk is never written again (`Kept`), that
one in the making is of the file found (`Making`), and that whoever comes to the
swap has a BACKUP that restore accepts (`Ready`), on disk too, unless it is `AtRisk`.

*`ModuleDeployProofs`*, from `DeployAssumption` (0 is no script's id and `None` no conf, the
confs a script writes or takes away are among those tracked, a script without modules
rebuilds the image when it restores), for any scripts, modules, confs, raising steps and
power cuts: `DeployTypes`, `BackupsComeFirst`, `SuccessIsKept`, `RestoresUndo`. The last depends on
a whole past, which the invariant puts into the present: what a BACKUP holds at each
stage (`BackupInv`, `StageInv`), that it is of what the latest install found (`CopyInv`), and
that since then only that script's own files have moved, in place and on disk
(`NearInv`), so that a power cut, which mixes the two, moves no others either. `RestoreInv`
says how far a restore has got, loop by loop, and `DoneInv` carries `SuccessIsDurable`. Each
part has a lemma of its own with one step per action; `CutFacts` says what a power cut
leaves of a file and of a BACKUP.

*`DeployChainProofs`*, from `DeployAssumption` and one hypothesis on the tables, `ChainFits`, for
any sequence of scripts that meets it: `ChainsAreLegal` and `CleanupsLast`. `ChainFits` asks of
each script that what it needs and supersedes stands at its turn and what it bans does
not, that its own confs are its alone, and that what it leaves passes its checks; it does
not mention modules, BACKUPs, the image or the order of a script's steps, and these are what
the proof is about. It goes by the invariant `At(n)`: the run of the first n scripts gets to
what `Standing(n)` and `ArmedBy(n)` read off the tables, and within a script each loop has
left exactly what is still to do. That no BACKUP or module is in the way comes from
`ModuleDeploy`: the chain is one of its behaviours (`ChainIsDeployment`), so its invariant
holds. That the 53 tables meet `ChainFits` is TLC's part.

*Model-checked only*: liveness (`Released`, `Resolved`, `QueueServed`, `ConnectEnds`: out of the
prover's reach; of the last three a safety half is proved), that the tables of the 53 scripts
meet `ChainFits`, and the four violations. Every invariant, action property and refinement
of a run has its theorem.

## 6. What is left out

Of the parts modelled: logging, register sequences inside one lock, the values
written to the crossbar's and the PHY's registers, how the unwinding of a failed
clock start restores each register (it restores all or the rate is unchanged),
preflight's look at the connected displays (it only refuses), `check`, which changes
nothing, and digests of module contents beyond "the version meant or not".
`RestoreUndoes` leaves out a conf copy damaged by a power cut or a raising step
(`"spoilt"`), which no digest would tell, and speaks of the latest install only: the
scripts neither forbid nor support restoring out of order. It also allows for a
superseded conf that an interrupted restore left damaged: the next one finds that it
exists and does not copy it again (`scripts/manage-0143.py:173`). With a crossbar whose
deselect fails, `MuxBalanced` and `GatesClocked` do not hold: the code releases the
semaphore again at the next tear-down.

`Recoverable` has one gap, which `lapsed` records: an install interrupted after it wrote
the manifest and before its `os.sync()` leaves a BACKUP that the next one verifies in
memory and rests on, and never puts on disk before the swap. A reused BACKUP also
restores the library of its own install, not of the latest (`OutcomeHolds` says
`~reused`).
What follows from that gap is in the model. When the power cut takes the BACKUP and
damages `TARGET`, the next install finds no BACKUP and makes one of the damaged file,
with a well-formed manifest; its digest matches ever after, although the script takes a
verified backup for "a legitimate prior state" (`manage-aquamarine-pageflip.py:124`). A
restore then puts the damaged file back over a good one and reports that it restored it.
`LaunchWhole` names this exception (`lapsed`, and a BACKUP of a `Torn` file), `OutcomeHolds`
says that what is given back is the package's file except then, and the run reaches such
restores and undone installs.
`DptxConnect` leaves out a connect that begins while another waits for its lanes
(both would wait for one `linkcfg_completion`), the second DPTX port, and buffers and
tags of AFK; `dcp_dptx_disconnect` and the `_oob` functions are modelled from their uses,
as their bodies are not in the repository. `DpFabric` leaves out the unregistering of
a pipeline's routes (of `dcp_typec_route_unregister` only the head is in the repository,
`0127`:962; `DpinWork` has what it means for one port), retraining and CRTC masks. It takes
every pipeline's DCP to be up: the code reconnects HDMI only `if (dcp->active)` (`0127`:620),
a flag that nothing in the repository sets or clears, so `HdmiComesBack` is about
pipelines that have it set.

Not modelled, with the reason in `PROJECT.json`: the tb.c changes and the Aquamarine
and Hyprland fixes (small edits of code that is not in the repository), the
DPTX_INACTIVE exchange itself (one register under one lock; `DpinWork` has it as the
interval `"handshake"`), the login gate (a polling loop with no state of its own), the
clock probe, the captures and old installers (straight-line).

## 7. Plan

What remains worth doing: `DptxConnect` with two connects waiting on one `linkcfg_completion`,
and with the second DPTX port. Both change who may be under way when a call is answered, which
is what most of `DptxEpochProofs` is about.
