--------------------------- MODULE DptxEpochProofs ---------------------------
(***************************************************************************)
(* That what DptxConnect's driver and DCP hold belongs to one attempt, as  *)
(* long as every release gets its answer in time (~lost): a connect        *)
(* succeeds on its own lanes (FreshLink), and at rest both sides agree on  *)
(* the display (DisplayAgrees).                                            *)
(*                                                                         *)
(* The argument follows the release.  There is at most one in flight, its  *)
(* caller waits for it, and nothing is sent behind it; once DCP has taken  *)
(* it up nothing of the attempt is left but what the queue holds in front  *)
(* of the reply, so that the reply, when it is delivered, finds all quiet. *)
(* An attempt begins only in quiet, hence never meets an older one's       *)
(* request or lanes, whatever the other timers do.                         *)
(***************************************************************************)
EXTENDS DptxConnectProofs

\* DCP has taken up the release: no display, no lanes planned, nothing sent behind.
Hushed == ~dcp.display /\ NoLanes(dcp.plan) /\ inbox = <<>>

\* Its caller is waiting for this release.
Owed(call) ==
  /\ call.gen = gen
  /\ \/ call.by = "T" /\ t = "sent" /\ ans["T"] = "none"
     \/ call.by = "C" /\ c.pc = "undoing" /\ ans["C"] = "none"

\* Wherever a release is - on its way, held by DCP, in the queue, being handled -
\* it is the only one and owed; nothing follows it to DCP, and no lanes its reply.
ReleaseInv ==
  /\ \A i \in DOMAIN inbox : inbox[i].name = "release" =>
       /\ Owed(inbox[i]) /\ i = Len(inbox)
       /\ dcp.call.name # "release" /\ NoRelease(q) /\ h.call.name # "release"
  /\ dcp.call.name = "release" =>
       /\ Owed(dcp.call) /\ Hushed
       /\ NoRelease(q) /\ h.call.name # "release"
  /\ \A i \in DOMAIN q : q[i].call.name = "release" =>
       /\ Owed(q[i].call) /\ Hushed
       /\ dcp.call.name # "release" /\ h.call.name # "release"
       /\ \A j \in DOMAIN q : /\ j # i => q[j].call.name # "release"
                              /\ j > i => q[j].up # "lanes"
  /\ h.call.name = "release" =>
       /\ Owed(h.call) /\ Hushed
       /\ dcp.call.name # "release" /\ NoRelease(q) /\ NoLanesIn(q)

\* The attempt has not asked for the display yet, or there is none.
Early == \/ c.pc = "call" /\ c.step < 4
         \/ c.pc = "sent" /\ c.step < 3
Unasked == Early \/ (~connected /\ hpd = Nobody)

\* A release has just been answered.
Released ==
  \/ t = "sent" /\ ans["T"] # "none"
  \/ c.pc = "undoing" /\ ans["C"] # "none"

\* In both cases DCP holds no display, and neither lanes nor a request are under way.
QuietInv == Unasked \/ Released =>
  /\ ~dcp.display /\ NoLanes(dcp.plan) /\ NoLanesIn(q) /\ h.up # "lanes"
  /\ \A i \in DOMAIN inbox : inbox[i].name \in {"validate", "connect"}

\* Display, requests and lanes belong to the attempt that began last.
LaneInv ==
  /\ dcp.display => dcp.for = gen
  /\ ~NoLanes(dcp.plan) => dcp.display
  /\ \A i \in DOMAIN inbox : inbox[i].name = "request" =>
       /\ inbox[i].gen = gen /\ ~dcp.display
       /\ \A j \in DOMAIN inbox : inbox[j].name = "request" => j = i
  /\ \A i \in DOMAIN q : q[i].up = "lanes" => q[i].call.gen = gen
  /\ h.up = "lanes" => h.call.gen = gen
  /\ c.pc \in {"call", "sent", "wait"} => linkcfg \in {0, gen}
  /\ c.pc = "won" => got = gen

\* A port marked connected has its display, and so has a request DCP has answered.
Request(call) == call.name = "request" /\ call.gen = gen
ShownInv ==
  /\ connected /\ t # "sent" /\ c.pc # "undoing" => dcp.display
  /\ Early =>
       /\ ~Request(dcp.call) /\ ~Request(h.call)
       /\ \A i \in DOMAIN q : ~Request(q[i].call)
       /\ \A i \in DOMAIN inbox : ~Request(inbox[i])
  /\ c.pc = "sent" /\ c.step = 3 =>
       /\ Request(dcp.call) \/ Request(h.call) \/ (\E i \in DOMAIN q : Request(q[i].call))
            => dcp.display
       /\ ans["C"] = "ok" => dcp.display

EpochParts == ReleaseInv /\ QuietInv /\ LaneInv /\ ShownInv
EpochInv   == ~lost => EpochParts

-----------------------------------------------------------------------------
(* Steps that leave the wire alone. *)

NoReleases ==
  /\ \A i \in DOMAIN inbox : inbox[i].name # "release"
  /\ dcp.call.name # "release" /\ NoRelease(q) /\ h.call.name # "release"

Steady ==
  /\ UNCHANGED <<wire, gen>>
  /\ t = "sent" /\ ans["T"] = "none" => t' = "sent" /\ ans'["T"] = "none"
  /\ c.pc = "undoing" /\ ans["C"] = "none" => c'.pc = "undoing" /\ ans'["C"] = "none"
  /\ Unasked' \/ Released' => Unasked \/ Released
  /\ c'.pc \in {"call", "sent", "wait"} => linkcfg' \in {0, gen}
  /\ c'.pc = "won" => got' = gen
  /\ connected' /\ t' # "sent" /\ c'.pc # "undoing" => dcp.display
  /\ Early' => Early
  /\ c'.pc = "sent" /\ c'.step = 3 =>
       c.pc = "sent" /\ c.step = 3 /\ ans'["C"] = ans["C"]

\* While nobody waits for a release, none is on its way anywhere.
LEMMA NoneOwed ==
  ASSUME ReleaseInv, t # "sent" \/ ans["T"] # "none", c.pc # "undoing" \/ ans["C"] # "none"
  PROVE  NoReleases
  BY DEF ReleaseInv, Owed, NoReleases, NoRelease

\* A step that is steady keeps the epoch.
LEMMA SteadyKeeps ==
  ASSUME EpochParts, Steady
  PROVE  EpochParts'
<1> USE DEF EpochParts
<1>0. q' = q /\ h' = h /\ inbox' = inbox /\ dcp' = dcp /\ gen' = gen
  BY DEF Steady, wire
<1>1. ReleaseInv'
  <2>1. \A call : Owed(call) => Owed(call)'
    BY <1>0 DEF Steady, Owed
  <2>2. /\ NoRelease(q)' <=> NoRelease(q)
        /\ NoLanesIn(q)' <=> NoLanesIn(q)
        /\ Hushed' <=> Hushed
    BY <1>0 DEF NoRelease, NoLanesIn, Hushed, NoLanes
  <2> QED
    BY <1>0, <2>1, <2>2 DEF ReleaseInv
<1>2. QuietInv'
  BY <1>0 DEF Steady, QuietInv, NoLanes, NoLanesIn
<1>3. LaneInv'
  BY <1>0 DEF Steady, LaneInv, NoLanes
<1>4. ShownInv'
  <2>1. \A call : Request(call)' <=> Request(call)
    BY <1>0 DEF Request
  <2> QED
    BY <1>0, <2>1 DEF Steady, ShownInv
<1> QED
  BY <1>1, <1>2, <1>3, <1>4

\* A release that has run into its timer stays on record.
LEMMA LostStays ==
  ASSUME [Next]_vars, ~lost'
  PROVE  ~lost
  BY DEF Next, Connector, Rerouting, Queue, Talk, Training, vars, fabric, retry, locks, wait,
         wire, lanes, Work, Take, TakeLeaving, Call, CallOk, CallFail, FailUndoing, LanesUp,
         Won, LanesExpire, Drop, Undo, Undone, ReleaseOver, Disconnect, DisconnectWhen,
         Disconnected, RouteLock, RouteChange, Receive, Deliver, Handle, HandleCompleting,
         DcpTake, DcpAnswer, DcpMute, DcpAsk, DcpGiveUp, Plug, Unplug

\* Every step of the two threads that sends nothing and begins nothing is steady, as
\* long as no release runs into its timer.
LEMMA ControlSteady ==
  ASSUME NumTyped, ThreadTyped, LockTyped, FlowInv, EpochParts, ~lost',
         Work \/ CallOk \/ CallFail \/ LanesUp \/ Won \/ LanesExpire \/ Drop \/ Undone
           \/ Disconnected \/ RouteLock \/ RouteChange \/ Plug \/ Unplug \/ UNCHANGED vars
  PROVE  Steady
<1> USE DEF EpochParts, Steady, vars, fabric, retry, locks, wait, wire, lanes, Nobody
<1>1. CASE Work
  BY <1>1 DEF Work, Unasked, Released, Early, ShownInv
<1>2. CASE CallOk
  <2>1. /\ c.pc = "sent" /\ ans["C"] = "ok" /\ hpd = "C" /\ t # "sent"
        /\ UNCHANGED <<wire, gen, t, linkcfg, got>>
    BY <1>2 DEF CallOk, LockTyped
  <2>2. ans'["C"] = "none" /\ ans'["T"] = ans["T"]
    BY <1>2, CallOkFacts DEF ThreadTyped
  <2>3. CASE c.step < 4 /\ c'.pc = "call" /\ c'.step = c.step + 1 /\ hpd' = hpd
    <3>1. c.step \in 1..3 /\ (Early' => Early)
      BY <2>1, <2>3 DEF Early, ThreadTyped
    <3>2. connected' => c.step = 3
      <4>1. ~connected
        BY <2>1, <2>3, <3>1 DEF FlowInv
      <4> QED
        BY <1>2, <4>1, Zenon DEF CallOk
    <3>3. connected' => dcp.display
      BY <2>1, <3>2 DEF ShownInv
    <3> QED
      BY <2>1, <2>2, <2>3, <3>1, <3>3 DEF Unasked, Released, LaneInv
  <2>4. CASE c.step = 4 /\ c'.pc = "wait" /\ c'.step = c.step /\ hpd' = Nobody
    <3>1. connected
      BY <2>1, <2>4 DEF FlowInv
    <3>2. connected'
      BY <1>2, <3>1, Zenon DEF CallOk
    <3>3. dcp.display
      BY <2>1, <3>1 DEF ShownInv
    <3> QED
      BY <2>1, <2>2, <2>4, <3>2, <3>3 DEF Unasked, Released, Early, LaneInv
  <2> QED
    BY <1>2, <2>3, <2>4, CallOkFacts
<1>3. CASE CallFail
  <2>1. /\ c.pc = "sent" /\ hpd = "C" /\ t # "sent"
        /\ UNCHANGED <<wire, gen, t, linkcfg, got, connected>>
    BY <1>3 DEF CallFail, FailUndoing, LockTyped
  <2>2. ans'["C"] = "none" /\ ans'["T"] = ans["T"]
    BY <1>3, CallFailFacts DEF ThreadTyped
  <2>3. CASE c.step < 3 /\ c'.pc = "idle" /\ hpd' = Nobody
    BY <2>1, <2>2, <2>3 DEF Unasked, Released, Early, LaneInv, ShownInv
  <2>4. CASE c.step >= 3 /\ c'.pc = "undo" /\ hpd' = hpd
    BY <2>1, <2>2, <2>4 DEF Unasked, Released, Early, LaneInv, ShownInv
  <2> QED
    BY <1>3, <2>3, <2>4, CallFailFacts
<1>4. CASE LanesUp
  BY <1>4 DEF LanesUp, Unasked, Released, Early, LaneInv, ShownInv
<1>5. CASE Won
  BY <1>5 DEF Won, Finish, Unasked, Released, Early, ShownInv, Resting
<1>6. CASE LanesExpire
  BY <1>6 DEF LanesExpire, Unasked, Released, Early, ShownInv
<1>7. CASE Drop
  <2>1. c.pc = "drop" /\ hpd = Nobody /\ UNCHANGED <<wire, gen, t, ans, linkcfg, got,
     connected>>
    BY <1>7 DEF Drop
  <2> QED
    BY <1>7, <2>1, DropFacts DEF Unasked, Released, Early, LaneInv, ShownInv, LockTyped
<1>8. CASE Undone
  BY <1>8 DEF Undone, ReleaseOver, Finish, Released, Early, LockTyped, Resting
<1>9. CASE Disconnected
  BY <1>9 DEF Disconnected, ReleaseOver, Released, Early, LaneInv, LockTyped
<1>10. CASE RouteLock
  BY <1>10 DEF RouteLock, Unasked, Released, Early, LaneInv, ShownInv
<1>11. CASE RouteChange
  BY <1>11 DEF RouteChange, Unasked, Released, Early, LaneInv, ShownInv, FlowInv, Resting
<1>12. CASE Plug
  BY <1>12 DEF Plug, Unasked, Released, Early, ShownInv
<1>13. CASE Unplug
  BY <1>13 DEF Unplug, Unasked, Released, Early, LaneInv, ShownInv
<1>14. CASE UNCHANGED vars
  BY <1>14 DEF Unasked, Released, Early, LaneInv, ShownInv
<1> QED
  BY <1>1, <1>2, <1>3, <1>4, <1>5, <1>6, <1>7, <1>8, <1>9, <1>10, <1>11, <1>12, <1>13, <1>14

\* Who calls, and in which attempt.
LEMMA CallParts ==
  ASSUME NumTyped, NEW call \in Calls
  PROVE  /\ call.gen \in 0..gen /\ call.by \in {"C", "T", "none"}
         /\ call.by = "T" => call.name = "release"
  BY DEF Calls, NumTyped, Nobody

\* Everything on the wire carries a call.
LEMMA WireParts ==
  ASSUME NumTyped, WireTyped
  PROVE  /\ h.call \in Calls /\ dcp.call \in Calls
         /\ \A i \in DOMAIN inbox : inbox[i] \in Calls
         /\ \A i \in DOMAIN q : q[i] \in Messages /\ q[i].call \in Calls
<1>1. h.call \in Calls /\ dcp.call \in Calls
  BY MessageParts DEF WireTyped
<1>2. ASSUME NEW i \in DOMAIN inbox PROVE inbox[i] \in Calls
  BY LenProperties DEF WireTyped
<1>3. ASSUME NEW i \in DOMAIN q PROVE q[i] \in Messages /\ q[i].call \in Calls
  <2>1. q[i] \in Messages
    BY LenProperties DEF WireTyped
  <2> QED
    BY <2>1, MessageParts
<1> QED
  BY <1>1, <1>2, <1>3

\* Without a release in flight there is nothing to say of releases.
LEMMA NoReleasesLeft ==
  ASSUME NoReleases'
  PROVE  ReleaseInv'
  BY DEF NoReleases, NoRelease, ReleaseInv

\* An attempt begins in quiet: DCP holds no display and nothing of an earlier attempt
\* is on its way, so that whatever comes belongs to the new one.
LEMMA TakeEpoch ==
  ASSUME NumTyped, ThreadTyped, LockTyped, WireTyped, FlowInv, EpochParts, Take
  PROVE  EpochParts'
<1> USE DEF EpochParts, Nobody
<1>1. /\ c.pc = "take" /\ hpd = Nobody /\ t # "sent"
      /\ UNCHANGED <<t, connected, ans, q, h, inbox, dcp>>
  BY DEF Take, TakeLeaving, fabric, wait, wire, LockTyped
<1>2. CASE connected /\ c'.pc = "idle" /\ UNCHANGED <<hpd, lanes, gen>>
  <2>1. Steady
    BY <1>1, <1>2 DEF Steady, Unasked, Released, Early, ShownInv, wire
  <2> QED
    BY <2>1, SteadyKeeps
<1>3. CASE /\ ~connected /\ c'.pc = "call" /\ c'.step = 1 /\ hpd' = "C"
           /\ linkcfg' = 0 /\ told' = 0 /\ got' = got /\ gen' = gen + 1
  <2>1. NoReleases
    BY <1>1, NoneOwed
  <2>2. /\ ~dcp.display /\ NoLanes(dcp.plan) /\ NoLanesIn(q) /\ h.up # "lanes"
        /\ \A i \in DOMAIN inbox : inbox[i].name \in {"validate", "connect"}
    BY <1>1, <1>3 DEF QuietInv, Unasked
  <2>3. ReleaseInv'
    BY <1>1, <2>1, NoReleasesLeft DEF NoReleases, NoRelease
  <2>4. QuietInv'
    BY <1>1, <2>2 DEF QuietInv, NoLanes, NoLanesIn
  <2>5. LaneInv'
    BY <1>1, <1>3, <2>2 DEF LaneInv, NoLanes, NoLanesIn
  <2>6. \A call \in Calls : ~Request(call)'
    BY <1>3, CallParts DEF Request, NumTyped
  <2>7. ShownInv'
    BY <1>1, <1>3, <2>6, WireParts DEF ShownInv
  <2> QED
    BY <2>3, <2>4, <2>5, <2>7
<1> QED
  BY <1>2, <1>3, TakeFacts

\* The call just sent is the last on its way.
LEMMA SendFacts ==
  ASSUME NumTyped, WireTyped, NEW w, NEW name, Send(w, name),
         [by |-> w, gen |-> gen, name |-> name] \in Calls
  PROVE  /\ DOMAIN inbox' = DOMAIN inbox \cup {Len(inbox) + 1}
         /\ Len(inbox') = Len(inbox) + 1
         /\ inbox'[Len(inbox) + 1].by = w /\ inbox'[Len(inbox) + 1].gen = gen
         /\ inbox'[Len(inbox) + 1].name = name
         /\ \A i \in DOMAIN inbox : inbox'[i] = inbox[i]
  BY InboxFacts DEF Send

\* The steps of a connect are called while no release is in flight, and the request
\* only where no other request of this attempt is.
LEMMA CallEpoch ==
  ASSUME NumTyped, ThreadTyped, LockTyped, WireTyped, FlowInv, EpochParts, Call
  PROVE  EpochParts'
<1> USE DEF EpochParts, Nobody
<1>1. /\ c.pc = "call" /\ hpd = "C" /\ t # "sent"
      /\ UNCHANGED <<hpd, t, connected, ans, q, h, dcp, linkcfg, got, gen>>
  BY DEF Call, fabric, wait, locks, lanes, LockTyped
<1>2. c'.pc = "sent" /\ c'.step = c.step
  BY DEF Call, ThreadTyped
<1>3. Steps[c.step] \in {"validate", "connect", "request", "hpd"}
  BY StepFacts DEF ThreadTyped
<1>4. [by |-> "C", gen |-> gen, name |-> Steps[c.step]] \in Calls
  <2>1. Steps[c.step] \in {"validate", "connect", "request", "hpd", "release"}
    BY <1>3
  <2> QED
    BY <2>1, CallFacts, Zenon DEF NumTyped
<1>5. /\ DOMAIN inbox' = DOMAIN inbox \cup {Len(inbox) + 1}
      /\ inbox'[Len(inbox) + 1].gen = gen /\ inbox'[Len(inbox) + 1].name = Steps[c.step]
      /\ \A i \in DOMAIN inbox : inbox'[i] = inbox[i]
  BY <1>4, SendFacts DEF Call
<1>6. ReleaseInv'
  <2>1. NoReleases
    BY <1>1, NoneOwed
  <2> QED
    BY <1>1, <1>3, <1>5, <2>1, NoReleasesLeft DEF NoReleases, NoRelease
<1>7. QuietInv'
  <2>1. ASSUME Unasked' \/ Released'
        PROVE  c.step < 3 /\ Unasked
    BY <1>1, <1>2, <2>1, FlowInv DEF Unasked, Released, Early, ThreadTyped
  <2>2. c.step < 3 => Steps[c.step] \in {"validate", "connect"}
    BY StepFacts DEF ThreadTyped
  <2> QED
    BY <1>1, <1>5, <2>1, <2>2 DEF QuietInv, NoLanes, NoLanesIn
<1>8. LaneInv'
  <2>1. ASSUME Steps[c.step] = "request"
        PROVE  ~dcp.display /\ \A i \in DOMAIN inbox : inbox[i].name # "request"
    <3>1. Unasked
      BY <1>1, <2>1, StepFacts DEF Unasked, Early, ThreadTyped
    <3> QED
      BY <3>1 DEF QuietInv
  <2> QED
    BY <1>1, <1>2, <1>5, <2>1 DEF LaneInv, NoLanes
<1>9. ShownInv'
  <2>1. \A call : Request(call)' <=> Request(call)
    BY <1>1 DEF Request
  <2>2. ASSUME Early'
        PROVE  Early /\ Steps[c.step] # "request"
    BY <1>1, <1>2, <2>2, StepFacts DEF Early, ThreadTyped
  <2>3. ASSUME c.step = 3
        PROVE  Early /\ ans["C"] = "none"
    BY <1>1, <2>3 DEF Early, FlowInv, ThreadTyped
  <2>4. ASSUME Early'
        PROVE  \A i \in DOMAIN inbox' : ~(inbox'[i].name = "request" /\ inbox'[i].gen = gen)
    BY <1>5, <2>2, <2>4 DEF ShownInv, Request
  <2>5. (\A i \in DOMAIN inbox : ~Request(inbox[i]))' <=>
          \A i \in DOMAIN inbox' : ~(inbox'[i].name = "request" /\ inbox'[i].gen = gen)
    BY <1>1 DEF Request
  <2> QED
    BY <1>1, <1>2, <2>1, <2>2, <2>3, <2>4, <2>5 DEF ShownInv
<1> QED
  BY <1>6, <1>7, <1>8, <1>9

\* A release is sent where none is in flight, and it is the last on its way.
LEMMA ReleaseSent ==
  ASSUME NumTyped, WireTyped, NEW w, Send(w, "release"),
         [by |-> w, gen |-> gen, name |-> "release"] \in Calls,
         NoReleases, LaneInv, ShownInv,
         UNCHANGED <<q, h, dcp, gen>>,
         \A call : call.by = w /\ call.gen = gen => Owed(call)',
         t' = "sent" \/ c'.pc = "undoing", c'.pc # "sent",
         UNCHANGED <<c, linkcfg, got>> \/ c'.pc = "undoing",
         ~Unasked' /\ ~Released'
  PROVE  EpochParts'
<1>1. /\ DOMAIN inbox' = DOMAIN inbox \cup {Len(inbox) + 1}
      /\ Len(inbox') = Len(inbox) + 1
      /\ inbox'[Len(inbox) + 1].by = w /\ inbox'[Len(inbox) + 1].gen = gen
      /\ inbox'[Len(inbox) + 1].name = "release"
      /\ \A i \in DOMAIN inbox : inbox'[i] = inbox[i]
  BY SendFacts
<1>2. ReleaseInv'
  <2>1. \A i \in DOMAIN inbox' : inbox'[i].name = "release" =>
          /\ inbox'[i].by = w /\ inbox'[i].gen = gen /\ i = Len(inbox')
    BY <1>1 DEF NoReleases
  <2> QED
    BY <1>1, <2>1 DEF ReleaseInv, NoReleases, NoRelease
<1>3. QuietInv'
  BY DEF QuietInv
<1>4. LaneInv'
  BY <1>1 DEF LaneInv, NoLanes
<1>5. ShownInv'
  BY DEF ShownInv, Early, Unasked
<1> QED
  BY <1>2, <1>3, <1>4, <1>5 DEF EpochParts

\* The attempt gives up: it sends the one release there is.
LEMMA UndoEpoch ==
  ASSUME NumTyped, ThreadTyped, LockTyped, WireTyped, FlowInv, EpochParts, Undo
  PROVE  EpochParts'
<1> USE DEF EpochParts, Nobody
<1>1. /\ c.pc = "undo" /\ hpd = "C" /\ t # "sent" /\ ans["C"] = "none"
      /\ UNCHANGED <<hpd, t, connected, ans, q, h, dcp, gen>>
  BY DEF Undo, fabric, wait, locks, lanes, LockTyped, FlowInv
<1>2. c'.pc = "undoing"
  BY DEF Undo, ThreadTyped
<1>3. NoReleases
  BY <1>1, NoneOwed
<1>4. [by |-> "C", gen |-> gen, name |-> "release"] \in Calls
  BY CallFacts DEF NumTyped
<1>5. \A call : call.by = "C" /\ call.gen = gen => Owed(call)'
  BY <1>1, <1>2 DEF Owed
<1>6. ~Unasked' /\ ~Released'
  BY <1>1, <1>2 DEF Unasked, Released, Early
<1>7. Send("C", "release")
  BY DEF Undo
<1> QED
  BY <1>1, <1>2, <1>3, <1>4, <1>5, <1>6, <1>7, ReleaseSent

\* The fabric releases the display, or finds nothing to release.
LEMMA DisconnectEpoch ==
  ASSUME NumTyped, ThreadTyped, LockTyped, WireTyped, FlowInv, EpochParts, Disconnect
  PROVE  EpochParts'
<1> USE DEF EpochParts, Nobody
<1>1. /\ t = "take" /\ hpd = Nobody /\ ans["T"] = "none"
      /\ c.pc \notin {"call", "sent", "undo", "undoing"}
      /\ UNCHANGED <<connected, c, ans, q, h, dcp, linkcfg, got, gen>>
  BY DEF Disconnect, DisconnectWhen, wait, lanes, LockTyped, FlowInv
<1>2. CASE hpd' = "T" /\ t' = "sent" /\ Send("T", "release") /\ connected
  <2>1. NoReleases
    BY <1>1, NoneOwed
  <2>2. [by |-> "T", gen |-> gen, name |-> "release"] \in Calls
    BY CallFacts DEF NumTyped
  <2>3. ~Unasked' /\ ~Released'
    BY <1>1, <1>2 DEF Unasked, Released, Early
  <2>4. t' = "sent" /\ ans'["T"] = "none" /\ UNCHANGED <<c, linkcfg, got, q, h, dcp, gen>>
        /\ c'.pc # "sent"
    BY <1>1, <1>2
  <2>5. \A call : call.by = "T" /\ call.gen = gen => Owed(call)'
    BY <2>4 DEF Owed
  <2> QED
    BY <1>2, <2>1, <2>2, <2>3, <2>4, <2>5, ReleaseSent
<1>3. CASE hpd' = hpd /\ t' = "route" /\ UNCHANGED inbox
  <2>1. Steady
    BY <1>1, <1>3 DEF Steady, Unasked, Released, Early, LaneInv, ShownInv, wire
  <2> QED
    BY <2>1, SteadyKeeps
<1> QED
  BY <1>2, <1>3 DEF Disconnect, DisconnectWhen

SameThreads == UNCHANGED <<t, c, connected, hpd, gen, ans>>

\* What depends on the threads alone does not change with the wire.
LEMMA SameThreadsFacts ==
  ASSUME SameThreads
  PROVE  /\ (Unasked \/ Released)' <=> Unasked \/ Released
         /\ Early' <=> Early
         /\ \A call : Owed(call)' <=> Owed(call)
         /\ \A call : Request(call)' <=> Request(call)
  BY DEF SameThreads, Unasked, Released, Early, Owed, Request

\* The queue, when a message is taken and when one is appended.
LEMMA QueueFacts ==
  ASSUME WireTyped
  PROVE  /\ q # <<>> =>
              /\ Head(q) \in Messages /\ Head(q) = q[1] /\ 1 \in DOMAIN q
              /\ \A i \in DOMAIN Tail(q) :
                   i \in Nat \ {0} /\ i + 1 \in DOMAIN q /\ Tail(q)[i] = q[i + 1]
         /\ \A m \in Messages :
              /\ DOMAIN Append(q, m) = DOMAIN q \cup {Len(q) + 1}
              /\ Append(q, m)[Len(q) + 1] = m
              /\ \A i \in DOMAIN q : i \in Nat /\ i <= Len(q) /\ Append(q, m)[i] = q[i]
         /\ Len(q) \in Nat
<1>1. q \in Seq(Messages)
  BY DEF WireTyped
<1>2. ASSUME q # <<>>
      PROVE  /\ Head(q) \in Messages /\ Head(q) = q[1] /\ 1 \in DOMAIN q
             /\ \A i \in DOMAIN Tail(q) :
                  i \in Nat \ {0} /\ i + 1 \in DOMAIN q /\ Tail(q)[i] = q[i + 1]
  BY <1>1, <1>2, TailFacts
<1>3. ASSUME NEW m \in Messages
      PROVE  /\ DOMAIN Append(q, m) = DOMAIN q \cup {Len(q) + 1}
             /\ Append(q, m)[Len(q) + 1] = m
             /\ \A i \in DOMAIN q : i \in Nat /\ i <= Len(q) /\ Append(q, m)[i] = q[i]
  BY <1>1, AppendFacts
<1>4. Len(q) \in Nat
  BY <1>1, LenProperties
<1> QED
  BY <1>2, <1>3, <1>4

\* The worker takes the next message: nothing overtakes a reply to a release.
LEMMA ReceiveEpoch ==
  ASSUME NumTyped, WireTyped, EpochParts, Receive
  PROVE  EpochParts'
<1> USE DEF EpochParts
<1>1. /\ SameThreads /\ UNCHANGED <<inbox, dcp, linkcfg, got>>
      /\ q # <<>> /\ h' = Head(q) /\ q' = Tail(q)
  BY DEF Receive, SameThreads, fabric, locks, wait, lanes
<1>2. /\ h' = q[1] /\ 1 \in DOMAIN q
      /\ \A i \in DOMAIN q' : i \in Nat \ {0} /\ i + 1 \in DOMAIN q /\ q'[i] = q[i + 1]
  BY <1>1, QueueFacts
<1>3. (Hushed' <=> Hushed) /\ (NoLanes(dcp.plan)' <=> NoLanes(dcp.plan)) /\ gen' = gen
  BY <1>1 DEF Hushed, NoLanes, SameThreads
<1>4. /\ NoRelease(q) => NoRelease(q)' /\ h'.call.name # "release"
      /\ NoLanesIn(q) => NoLanesIn(q)' /\ h'.up # "lanes"
  BY <1>2 DEF NoRelease, NoLanesIn
<1>5. ReleaseInv'
  <2>1. ASSUME NEW i \in DOMAIN inbox, inbox[i].name = "release"
        PROVE  /\ Owed(inbox[i]) /\ i = Len(inbox)
               /\ dcp.call.name # "release" /\ NoRelease(q)' /\ h'.call.name # "release"
    BY <2>1, <1>4 DEF ReleaseInv
  <2>2. ASSUME dcp.call.name = "release"
        PROVE  Owed(dcp.call) /\ Hushed /\ NoRelease(q)' /\ h'.call.name # "release"
    BY <2>2, <1>4 DEF ReleaseInv
  <2>3. ASSUME NEW i \in DOMAIN q', q'[i].call.name = "release"
        PROVE  /\ Owed(q'[i].call) /\ Hushed
               /\ dcp.call.name # "release" /\ h'.call.name # "release"
               /\ \A j \in DOMAIN q' : /\ j # i => q'[j].call.name # "release"
                                       /\ j > i => q'[j].up # "lanes"
    <3>1. i + 1 \in DOMAIN q /\ q[i + 1].call.name = "release" /\ i + 1 # 1
      BY <2>3, <1>2
    <3>2. ASSUME NEW j \in DOMAIN q'
          PROVE  /\ j # i => q'[j].call.name # "release"
                 /\ j > i => q'[j].up # "lanes"
      <4>1. /\ j + 1 \in DOMAIN q /\ q'[j] = q[j + 1] /\ (j # i => j + 1 # i + 1)
            /\ j > i => j + 1 > i + 1
        BY <1>2
      <4> QED
        BY <3>1, <4>1 DEF ReleaseInv
    <3> QED
      BY <1>2, <3>1, <3>2 DEF ReleaseInv
  <2>4. ASSUME h'.call.name = "release"
        PROVE  /\ Owed(h'.call) /\ Hushed
               /\ dcp.call.name # "release" /\ NoRelease(q)' /\ NoLanesIn(q)'
    <3>1. q[1].call.name = "release"
      BY <1>2, <2>4
    <3>2. ASSUME NEW j \in DOMAIN q'
          PROVE  q'[j].call.name # "release" /\ q'[j].up # "lanes"
      <4>1. j + 1 \in DOMAIN q /\ q'[j] = q[j + 1] /\ j + 1 # 1 /\ j + 1 > 1
        BY <1>2
      <4> QED
        BY <1>2, <3>1, <4>1 DEF ReleaseInv
    <3> QED
      BY <1>2, <3>1, <3>2 DEF ReleaseInv, NoRelease, NoLanesIn
  <2>5. \A call : Owed(call)' <=> Owed(call)
    BY <1>1, SameThreadsFacts
  <2> QED
    BY <1>1, <1>3, <2>1, <2>2, <2>3, <2>4, <2>5 DEF ReleaseInv
<1>6. QuietInv'
  BY <1>1, <1>3, <1>4, SameThreadsFacts DEF QuietInv
<1>7. LaneInv'
  BY <1>1, <1>2, <1>3 DEF LaneInv, SameThreads
<1>8. ShownInv'
  BY <1>1, <1>2, SameThreadsFacts DEF ShownInv, SameThreads
<1> QED
  BY <1>5, <1>6, <1>7, <1>8

\* A message handled, or a call dropped, takes something off the wire and adds nothing.
LEMMA DroppedEpoch ==
  ASSUME NumTyped, EpochParts, SameThreads, UNCHANGED <<q, inbox>>,
         h' = Idle \/ h' = h,
         dcp'.call = NoCall \/ dcp'.call = dcp.call, dcp'.plan = dcp.plan,
         dcp'.display = dcp.display, dcp'.for = dcp.for,
         c'.pc \in {"call", "sent", "wait"} => linkcfg' \in {0, gen}, got' = got
  PROVE  EpochParts'
<1> USE DEF EpochParts
<1>1. /\ Idle.up # "lanes" /\ Idle.call.name = "-" /\ NoCall.name = "-" /\ gen' = gen
  BY MessageFacts DEF SameThreads, NoCall, NumTyped
<1>2. /\ Hushed' <=> Hushed
      /\ NoLanes(dcp.plan)' <=> NoLanes(dcp.plan)
      /\ NoRelease(q)' <=> NoRelease(q)
      /\ NoLanesIn(q)' <=> NoLanesIn(q)
  BY DEF Hushed, NoLanes, NoRelease, NoLanesIn
<1>3. ReleaseInv'
  <2>1. /\ h'.call.name = "release" => h' = h
        /\ dcp'.call.name = "release" => dcp'.call = dcp.call
    BY <1>1
  <2>2. \A call : Owed(call)' <=> Owed(call)
    BY SameThreadsFacts
  <2> QED
    BY <1>2, <2>1, <2>2 DEF ReleaseInv
<1>4. QuietInv'
  BY <1>1, <1>2, SameThreadsFacts DEF QuietInv
<1>5. LaneInv'
  BY <1>1, <1>2 DEF LaneInv, SameThreads
<1>6. ShownInv'
  <2>1. /\ Request(h'.call) => Request(h.call)
        /\ Request(dcp'.call) => Request(dcp.call)
    BY <1>1 DEF Request
  <2>2. /\ \A call : Request(call)' <=> Request(call)
        /\ Early' <=> Early
    BY SameThreadsFacts
  <2> QED
    BY <2>1, <2>2 DEF ShownInv, SameThreads
<1> QED
  BY <1>3, <1>4, <1>5, <1>6

\* A reply delivered to a release finds DCP quiet; one delivered to the request finds
\* the display held.
LEMMA DeliverEpoch ==
  ASSUME NumTyped, ThreadTyped, LockTyped, WireTyped, EpochParts, Deliver
  PROVE  EpochParts'
<1> USE DEF EpochParts, Nobody
<1>1. /\ h' = Idle /\ UNCHANGED <<t, c, connected, hpd, gen, q, inbox, dcp, linkcfg, got>>
  BY DEF Deliver, fabric, locks, lanes
<1>2. h'.up # "lanes" /\ h'.call.name = "-"
  BY <1>1, MessageFacts DEF NoCall, NumTyped
<1>3. CASE ~Awaited(h.call)
  <2>1. SameThreads
    BY <1>1, <1>3, DeliverFacts DEF SameThreads
  <2> QED
    BY <1>1, <2>1, DroppedEpoch DEF LaneInv
<1>4. CASE Awaited(h.call) /\ h.call.name = "release"
  <2>1. Steps[c.step] # "release"
    BY StepFacts DEF ThreadTyped
  <2>2. Owed(h.call)
    BY <1>4, <2>1, Zenon DEF Awaited, Owed
  <2>3. /\ Hushed /\ dcp.call.name # "release" /\ NoRelease(q) /\ NoLanesIn(q)
    BY <1>4 DEF ReleaseInv
  <2>4. c.pc # "sent" /\ c.pc # "call"
    BY <2>2 DEF Owed, LockTyped
  <2>5. inbox' = <<>> /\ ~dcp'.display /\ NoLanes(dcp.plan)' /\ NoLanesIn(q)' /\ NoRelease(q)'
    BY <1>1, <2>3 DEF Hushed, NoLanes, NoLanesIn, NoRelease
  <2>6. ReleaseInv'
    BY <1>1, <1>2, <2>3, <2>5, NoReleasesLeft DEF NoReleases
  <2>7. QuietInv'
    BY <1>2, <2>5 DEF QuietInv
  <2>8. LaneInv'
    BY <1>1, <1>2, <2>5 DEF LaneInv, NoLanesIn
  <2>9. ShownInv'
    BY <1>1, <2>4 DEF ShownInv, Early
  <2> QED
    BY <2>6, <2>7, <2>8, <2>9
<1>5. CASE Awaited(h.call) /\ h.call.name # "release"
  <2>1. h.call.by # "T" /\ h.call.by \in {"C", "T", "none"}
    BY <1>5, WireParts, CallParts
  <2>2. c.pc = "sent" /\ h.call.name = Steps[c.step] /\ h.call.gen = gen
    BY <1>5, <2>1, Zenon DEF Awaited
  <2>3. hpd = "C" /\ t # "sent"
    BY <2>2 DEF LockTyped
  <2>4. NoReleases
    BY <2>2, <2>3, NoneOwed
  <2>5. ReleaseInv'
    BY <1>1, <1>2, <2>4, NoReleasesLeft DEF NoReleases, NoRelease
  <2>6. QuietInv'
    BY <1>1, <1>2, <2>2, <2>3 DEF QuietInv, Unasked, Released, Early, NoLanes, NoLanesIn
  <2>7. LaneInv'
    BY <1>1, <1>2 DEF LaneInv, NoLanes
  <2>8. c.step = 3 => Request(h.call)
    BY <2>2, StepFacts DEF Request
  <2>9. /\ Early' <=> Early
        /\ \A call : Request(call)' <=> Request(call)
        /\ ~Request(h.call)'
    BY <1>1, <1>2 DEF Early, Request
  <2>10. ShownInv'
    BY <1>1, <2>2, <2>3, <2>8, <2>9 DEF ShownInv
  <2> QED
    BY <2>5, <2>6, <2>7, <2>10
<1> QED
  BY <1>3, <1>4, <1>5

\* The lanes handled are those of the attempt that began last.
LEMMA HandleEpoch ==
  ASSUME NumTyped, ThreadTyped, WireTyped, EpochParts, Handle
  PROVE  EpochParts'
<1> USE DEF EpochParts, Nobody
<1>1. SameThreads /\ h' = Idle /\ UNCHANGED <<q, inbox>> /\ got' = got
  BY DEF Handle, HandleCompleting, SameThreads, fabric, locks, wait
<1>2. /\ dcp'.call = dcp.call /\ dcp'.plan = dcp.plan
      /\ dcp'.display = dcp.display /\ dcp'.for = dcp.for
  BY DEF Handle, HandleCompleting, WireTyped
<1>3. c'.pc \in {"call", "sent", "wait"} => linkcfg' \in {0, gen}
  BY <1>1 DEF Handle, HandleCompleting, LaneInv, SameThreads
<1> QED
  BY <1>1, <1>2, <1>3, DroppedEpoch

\* A link given up plans no lanes.
LEMMA GiveUpEpoch ==
  ASSUME NumTyped, WireTyped, EpochParts, DcpGiveUp
  PROVE  EpochParts'
<1> USE DEF EpochParts, Nobody
<1>1. SameThreads /\ UNCHANGED <<q, h, inbox, linkcfg, got>>
  BY DEF DcpGiveUp, SameThreads, fabric, locks, wait, lanes
<1>2. /\ dcp'.call = dcp.call /\ NoLanes(dcp'.plan)
      /\ dcp'.display = dcp.display /\ dcp'.for = dcp.for
  BY ListFacts DEF DcpGiveUp, WireTyped
<1>3. /\ Hushed => Hushed'
      /\ NoLanes(dcp.plan)'
      /\ NoRelease(q)' <=> NoRelease(q)
      /\ NoLanesIn(q)' <=> NoLanesIn(q)
      /\ gen' = gen
  BY <1>1, <1>2 DEF Hushed, NoLanes, NoRelease, NoLanesIn, SameThreads
<1>4. ReleaseInv'
  BY <1>1, <1>2, <1>3, SameThreadsFacts DEF ReleaseInv
<1>5. QuietInv'
  BY <1>1, <1>2, <1>3, SameThreadsFacts DEF QuietInv
<1>6. LaneInv'
  BY <1>1, <1>2, <1>3 DEF LaneInv, SameThreads
<1>7. ShownInv'
  BY <1>1, <1>2, SameThreadsFacts DEF ShownInv, SameThreads
<1> QED
  BY <1>4, <1>5, <1>6, <1>7

\* DCP takes a call off its inbox, or loses it there.
LEMMA TailEpoch ==
  ASSUME NumTyped, LockTyped, WireTyped, EpochParts, SameThreads, UNCHANGED <<q, h, linkcfg,
         got>>,
         dcp.call = NoCall, inbox # <<>>, inbox' = Tail(inbox),
         dcp'.call = NoCall \/ dcp'.call = Head(inbox),
         dcp'.call.name = "release" => ~dcp'.display /\ NoLanes(dcp'.plan),
         dcp'.display =>
           \/ dcp.display /\ dcp'.for = dcp.for
           \/ Head(inbox).name = "request" /\ dcp'.for = Head(inbox).gen,
         dcp'.display \/ NoLanes(dcp'.plan),
         dcp.display => dcp'.display \/ Head(inbox).name = "release",
         dcp'.call = Head(inbox) /\ Head(inbox).name = "request" => dcp'.display
  PROVE  EpochParts'
<1> USE DEF EpochParts
<1>1. /\ Head(inbox) = inbox[1] /\ 1 \in DOMAIN inbox /\ Len(inbox) \in Nat \ {0}
      /\ Len(inbox') = Len(inbox) - 1
      /\ \A i \in DOMAIN inbox' : /\ i \in Nat \ {0} /\ i + 1 \in DOMAIN inbox
                                  /\ inbox'[i] = inbox[i + 1]
      /\ Len(inbox) = 1 => inbox' = <<>>
  BY InboxFacts, EmptySeq, TailFacts DEF WireTyped
<1>2. NoCall.name = "-" /\ gen' = gen
  BY DEF NoCall, SameThreads
<1>3. /\ NoRelease(q)' <=> NoRelease(q)
      /\ NoLanesIn(q)' <=> NoLanesIn(q)
  BY DEF NoRelease, NoLanesIn
<1>4. NoRelease(q) /\ h.call.name # "release"
  BY <1>1 DEF ReleaseInv, Hushed, NoRelease
<1>5. ReleaseInv'
  <2>1. ASSUME NEW i \in DOMAIN inbox', inbox'[i].name = "release"
        PROVE  Owed(inbox'[i]) /\ i = Len(inbox') /\ dcp'.call.name # "release"
    <3>1. i + 1 \in DOMAIN inbox /\ inbox[i + 1].name = "release" /\ inbox'[i] = inbox[i + 1]
          /\ i \in Nat \ {0}
      BY <1>1, <2>1
    <3>2. Owed(inbox[i + 1]) /\ i + 1 = Len(inbox)
      BY <3>1 DEF ReleaseInv
    <3>3. inbox[1].name # "release"
      BY <1>1, <3>1, <3>2 DEF ReleaseInv
    <3> QED
      BY <1>1, <1>2, <3>1, <3>2, <3>3
  <2>2. ASSUME dcp'.call.name = "release"
        PROVE  Owed(dcp'.call) /\ Hushed'
    <3>1. dcp'.call = inbox[1] /\ inbox[1].name = "release"
      BY <1>1, <1>2, <2>2
    <3>2. Owed(inbox[1]) /\ 1 = Len(inbox)
      BY <1>1, <3>1 DEF ReleaseInv
    <3> QED
      BY <1>1, <2>2, <3>1, <3>2 DEF Hushed, NoLanes
  <2>3. \A call : Owed(call)' <=> Owed(call)
    BY SameThreadsFacts
  <2> QED
    BY <1>3, <1>4, <2>1, <2>2, <2>3 DEF ReleaseInv, NoRelease
<1>6. QuietInv'
  <2>1. ASSUME Unasked \/ Released
        PROVE  ~dcp'.display /\ NoLanes(dcp'.plan)
               /\ \A i \in DOMAIN inbox' : inbox'[i].name \in {"validate", "connect"}
    BY <1>1, <2>1 DEF QuietInv
  <2>2. NoLanes(dcp.plan)' <=> NoLanes(dcp'.plan)
    BY DEF NoLanes
  <2> QED
    BY <1>3, <2>1, <2>2, SameThreadsFacts DEF QuietInv
<1>7. LaneInv'
  BY <1>1, <1>2 DEF LaneInv, NoLanes, SameThreads
<1>8. ShownInv'
  <2>1. Head(inbox).name = "release" => t = "sent" \/ c.pc = "undoing"
    BY <1>1 DEF ReleaseInv, Owed
  <2>2. connected /\ t # "sent" /\ c.pc # "undoing" => dcp'.display
    BY <2>1 DEF ShownInv
  <2>3. ASSUME Early
        PROVE  ~Request(dcp'.call) /\ \A i \in DOMAIN inbox' : ~Request(inbox'[i])
    BY <1>1, <1>2, <2>3 DEF ShownInv, Request
  <2>4. c.pc = "sent" => t # "sent"
    BY DEF LockTyped
  <2>5. ASSUME c.pc = "sent", c.step = 3
        PROVE  /\ Request(dcp'.call) => dcp'.display
               /\ Request(h.call) \/ (\E i \in DOMAIN q : Request(q[i].call)) => dcp'.display
               /\ ans["C"] = "ok" => dcp'.display
    <3>1. Request(dcp'.call) => dcp'.display
      BY <1>2 DEF Request
    <3>2. dcp.display => dcp'.display
      BY <2>1, <2>4, <2>5
    <3> QED
      BY <2>5, <3>1, <3>2 DEF ShownInv
  <2>6. /\ \A call : Request(call)' <=> Request(call)
        /\ Early' <=> Early
    BY SameThreadsFacts
  <2> QED
    BY <2>2, <2>3, <2>5, <2>6 DEF ShownInv, SameThreads
<1> QED
  BY <1>5, <1>6, <1>7, <1>8

\* DCP takes up a call: a release is the last there is, and ends display and lanes.
LEMMA DcpTakeEpoch ==
  ASSUME NumTyped, LockTyped, WireTyped, EpochParts, DcpTake
  PROVE  EpochParts'
<1>1. SameThreads /\ UNCHANGED <<q, h, linkcfg, got>>
  BY DEF DcpTake, SameThreads, fabric, locks, wait, lanes
<1>2. dcp.call = NoCall /\ inbox # <<>> /\ inbox' = Tail(inbox)
  BY DEF DcpTake
<1>3. /\ dcp'.call = Head(inbox)
      /\ dcp'.call.name = "release" => ~dcp'.display /\ NoLanes(dcp'.plan)
      /\ dcp'.display => \/ dcp.display /\ dcp'.for = dcp.for
                         \/ Head(inbox).name = "request" /\ dcp'.for = Head(inbox).gen
      /\ dcp.display => dcp'.display \/ Head(inbox).name = "release"
      /\ Head(inbox).name = "request" => dcp'.display
  BY DcpTakeFacts
<1>4. dcp'.display \/ NoLanes(dcp'.plan)
  <2>1. dcp.display \/ NoLanes(dcp.plan)
    BY DEF EpochParts, LaneInv
  <2> QED
    BY <1>3, <2>1, DcpTakeFacts
<1> QED
  BY <1>1, <1>2, <1>3, <1>4, TailEpoch

\* DCP sends a message: the reply to the call it holds, or an upcall.
LEMMA AppendEpoch ==
  ASSUME NumTyped, LockTyped, WireTyped, EpochParts, SameThreads, UNCHANGED <<h, inbox,
         linkcfg, got>>,
         NEW m \in Messages, q' = Append(q, m),
         m.up = "lanes" => ~NoLanes(dcp.plan) /\ m.call.gen = dcp.for,
         \/ m.call.name = "-" /\ dcp'.call = dcp.call
         \/ m.call = dcp.call /\ dcp'.call = NoCall /\ m.up # "lanes",
         dcp'.display = dcp.display, dcp'.for = dcp.for,
         NoLanes(dcp.plan) => NoLanes(dcp'.plan)
  PROVE  EpochParts'
<1> USE DEF EpochParts
<1>1. /\ DOMAIN q' = DOMAIN q \cup {Len(q) + 1} /\ q'[Len(q) + 1] = m /\ Len(q) \in Nat
      /\ \A i \in DOMAIN q : i \in Nat /\ i <= Len(q) /\ q'[i] = q[i]
  BY QueueFacts
<1>2. NoCall.name = "-" /\ gen' = gen
  BY DEF NoCall, SameThreads
<1>3. /\ Hushed => Hushed' /\ m.up # "lanes"
      /\ NoLanesIn(q) /\ m.up # "lanes" => NoLanesIn(q)'
      /\ NoRelease(q) /\ m.call.name # "release" => NoRelease(q)'
      /\ NoLanes(dcp.plan) => NoLanes(dcp.plan)'
  BY <1>1 DEF Hushed, NoLanes, NoLanesIn, NoRelease
<1>4. ReleaseInv'
  <2>1. ASSUME NEW i \in DOMAIN inbox, inbox[i].name = "release"
        PROVE  /\ Owed(inbox[i]) /\ i = Len(inbox)
               /\ dcp'.call.name # "release" /\ NoRelease(q)' /\ h.call.name # "release"
    BY <1>2, <1>3, <2>1 DEF ReleaseInv
  <2>2. ASSUME dcp'.call.name = "release"
        PROVE  Owed(dcp'.call) /\ Hushed' /\ NoRelease(q)' /\ h.call.name # "release"
    BY <1>2, <1>3, <2>2 DEF ReleaseInv
  <2>3. ASSUME NEW i \in DOMAIN q', q'[i].call.name = "release"
        PROVE  /\ Owed(q'[i].call) /\ Hushed'
               /\ dcp'.call.name # "release" /\ h.call.name # "release"
               /\ \A j \in DOMAIN q' : /\ j # i => q'[j].call.name # "release"
                                       /\ j > i => q'[j].up # "lanes"
    <3>1. CASE i \in DOMAIN q
      <4>1. /\ q'[i] = q[i] /\ Owed(q[i].call) /\ Hushed
            /\ dcp.call.name # "release" /\ h.call.name # "release"
            /\ \A j \in DOMAIN q : /\ j # i => q[j].call.name # "release"
                                   /\ j > i => q[j].up # "lanes"
        BY <1>1, <2>3, <3>1 DEF ReleaseInv
      <4>2. m.up # "lanes" /\ m.call.name # "release" /\ dcp'.call.name # "release"
        BY <1>2, <1>3, <4>1
      <4> QED
        BY <1>1, <1>3, <4>1, <4>2
    <3>2. CASE i = Len(q) + 1
      <4>1. m.call = dcp.call /\ dcp.call.name = "release" /\ dcp'.call = NoCall
        BY <1>1, <2>3, <3>2
      <4>2. Owed(m.call) /\ Hushed /\ NoRelease(q) /\ h.call.name # "release"
        BY <4>1 DEF ReleaseInv
      <4>3. \A j \in DOMAIN q' : /\ j # i => q'[j].call.name # "release"
                                 /\ ~(j > i)
        BY <1>1, <3>2, <4>2 DEF NoRelease
      <4> QED
        BY <1>1, <1>2, <1>3, <3>2, <4>1, <4>2, <4>3
    <3> QED
      BY <1>1, <2>3, <3>1, <3>2
  <2>4. ASSUME h.call.name = "release"
        PROVE  /\ Owed(h.call) /\ Hushed'
               /\ dcp'.call.name # "release" /\ NoRelease(q)' /\ NoLanesIn(q)'
    <3>1. /\ Owed(h.call) /\ Hushed
          /\ dcp.call.name # "release" /\ NoRelease(q) /\ NoLanesIn(q)
      BY <2>4 DEF ReleaseInv
    <3>2. m.call.name # "release" /\ dcp'.call.name # "release"
      BY <1>2, <3>1
    <3> QED
      BY <1>3, <3>1, <3>2
  <2>5. \A call : Owed(call)' <=> Owed(call)
    BY SameThreadsFacts
  <2> QED
    BY <2>1, <2>2, <2>3, <2>4, <2>5 DEF ReleaseInv
<1>5. QuietInv'
  <2>1. NoLanes(dcp.plan) => m.up # "lanes"
    OBVIOUS
  <2> QED
    BY <1>3, <2>1, SameThreadsFacts DEF QuietInv
<1>6. LaneInv'
  <2>1. m.up = "lanes" => m.call.gen = gen
    BY DEF LaneInv
  <2> QED
    BY <1>1, <1>2, <1>3, <2>1 DEF LaneInv, SameThreads
<1>7. ShownInv'
  <2>1. Request(m.call) => Request(dcp.call)
    BY DEF Request
  <2>2. Request(dcp'.call) => Request(dcp.call)
    BY <1>2 DEF Request
  <2>3. ASSUME NEW i \in DOMAIN q', Request(q'[i].call)
        PROVE  Request(dcp.call) \/ \E j \in DOMAIN q : Request(q[j].call)
    BY <1>1, <2>1, <2>3
  <2>4. /\ \A call : Request(call)' <=> Request(call)
        /\ Early' <=> Early
    BY SameThreadsFacts
  <2> QED
    BY <2>1, <2>2, <2>3, <2>4 DEF ShownInv, SameThreads
<1> QED
  BY <1>4, <1>5, <1>6, <1>7

\* DCP answers: after a release, no lanes can follow the reply.
LEMMA DcpAnswerEpoch ==
  ASSUME NumTyped, LockTyped, WireTyped, EpochParts, DcpAnswer
  PROVE  EpochParts'
<1>1. SameThreads /\ UNCHANGED <<h, inbox, linkcfg, got>>
  BY DEF DcpAnswer, SameThreads, fabric, locks, wait, lanes
<1>2. /\ dcp'.call = NoCall /\ dcp'.plan = dcp.plan
      /\ dcp'.display = dcp.display /\ dcp'.for = dcp.for
  BY DEF DcpAnswer, WireTyped
<1>3. PICK ok \in BOOLEAN : q' = Append(q, Reply(dcp.call, ok))
  BY DEF DcpAnswer
<1>4. /\ Reply(dcp.call, ok) \in Messages /\ Reply(dcp.call, ok).call = dcp.call
      /\ Reply(dcp.call, ok).up = "-"
  BY MessageFacts DEF WireTyped, NumTyped
<1> QED
  BY <1>1, <1>2, <1>3, <1>4, AppendEpoch

\* DCP asks: lanes belong to the display it holds.
LEMMA DcpAskEpoch ==
  ASSUME NumTyped, LockTyped, WireTyped, EpochParts, DcpAsk
  PROVE  EpochParts'
<1>1. SameThreads /\ UNCHANGED <<h, inbox, linkcfg, got>>
  BY DEF DcpAsk, SameThreads, fabric, locks, wait, lanes
<1>2. /\ dcp'.call = dcp.call /\ dcp'.plan = Tail(dcp.plan)
      /\ dcp'.display = dcp.display /\ dcp'.for = dcp.for
  BY DEF DcpAsk, WireTyped
<1>3. dcp.plan # <<>> /\ Head(dcp.plan) \in Upcalls /\ dcp.for \in 0..gen
  BY TailFacts DEF DcpAsk, WireTyped
<1>0. PICK m : m = Upcall(Head(dcp.plan), dcp.for)
  OBVIOUS
<1>4. m \in Messages /\ m.up = Head(dcp.plan) /\ m.call.gen = dcp.for /\ m.call.name = "-"
  BY <1>0, <1>3, MessageFacts DEF NumTyped
<1>5. q' = Append(q, m)
  BY <1>0 DEF DcpAsk
<1>6. /\ m.up = "lanes" => ~NoLanes(dcp.plan)
      /\ NoLanes(dcp.plan) => NoLanes(dcp'.plan)
  BY <1>2, <1>3, <1>4, ListFacts
<1>7. m.up = "lanes" => ~NoLanes(dcp.plan) /\ m.call.gen = dcp.for
  BY <1>4, <1>6
<1>8. m.call.name = "-" /\ dcp'.call = dcp.call
  BY <1>2, <1>4
<1> QED
  BY <1>1, <1>2, <1>4, <1>5, <1>6, <1>7, <1>8, AppendEpoch

\* DCP drops a call.
LEMMA DcpMuteEpoch ==
  ASSUME NumTyped, LockTyped, WireTyped, EpochParts, DcpMute
  PROVE  EpochParts'
<1>1. SameThreads /\ UNCHANGED <<q, h, linkcfg, got>>
  BY DEF DcpMute, SameThreads, fabric, locks, lanes
<1>2. CASE dcp.call # NoCall /\ dcp' = [dcp EXCEPT !.call = NoCall] /\ UNCHANGED inbox
  <2>1. /\ dcp'.call = NoCall /\ dcp'.plan = dcp.plan
        /\ dcp'.display = dcp.display /\ dcp'.for = dcp.for
    BY <1>2 DEF WireTyped
  <2> QED
    BY <1>1, <1>2, <2>1, DroppedEpoch DEF EpochParts, LaneInv, SameThreads
<1>3. CASE dcp.call = NoCall /\ inbox # <<>> /\ inbox' = Tail(inbox) /\ UNCHANGED dcp
  <2>1. dcp'.call = NoCall /\ NoCall.name = "-" /\ dcp' = dcp
    BY <1>3 DEF NoCall
  <2>2. (dcp.display \/ NoLanes(dcp.plan))
    BY DEF EpochParts, LaneInv
  <2> QED
    BY <1>1, <1>3, <2>1, <2>2, TailEpoch
<1> QED
  BY <1>2, <1>3 DEF DcpMute

-----------------------------------------------------------------------------
(* The theorems. *)

\* EpochInv is inductive relative to ConnectInv.
LEMMA EpochStep ==
  ASSUME ConnectInv, EpochInv, [Next]_vars
  PROVE  EpochInv'
<1> SUFFICES ASSUME ~lost'
             PROVE  EpochParts'
  BY DEF EpochInv
<1>1. NumTyped /\ ThreadTyped /\ LockTyped /\ WireTyped /\ FlowInv
  BY TypeParts DEF ConnectInv
<1>2. EpochParts
  BY LostStays DEF EpochInv
<1>3. CASE \/ Work \/ CallOk \/ CallFail \/ LanesUp \/ Won \/ LanesExpire \/ Drop \/ Undone
           \/ Disconnected \/ RouteLock \/ RouteChange \/ Plug \/ Unplug
           \/ UNCHANGED vars
  BY <1>1, <1>2, <1>3, ControlSteady, SteadyKeeps
<1>4. CASE Take \/ Call \/ Undo \/ Disconnect
  BY <1>1, <1>2, <1>4, TakeEpoch, CallEpoch, UndoEpoch, DisconnectEpoch
<1>5. CASE Receive \/ Deliver \/ Handle
  BY <1>1, <1>2, <1>5, ReceiveEpoch, DeliverEpoch, HandleEpoch
<1>6. CASE DcpTake \/ DcpAnswer \/ DcpMute \/ DcpAsk \/ DcpGiveUp
  BY <1>1, <1>2, <1>6, DcpTakeEpoch, DcpAnswerEpoch, DcpMuteEpoch, DcpAskEpoch, GiveUpEpoch
<1> QED
  BY <1>3, <1>4, <1>5, <1>6 DEF Next, Connector, Rerouting, Queue, Talk, Training

\* What is held and what is under way belongs to the last attempt, throughout.
THEOREM EpochInvariant == Spec => []EpochInv
<1>1. Init => EpochInv
  BY DEF Init, EpochInv, EpochParts, ReleaseInv, QuietInv, LaneInv, ShownInv, Resting,
     Idle, NoCall, Nobody, NoLanes, NoLanesIn, NoRelease, Early, Request
<1>2. ConnectInv /\ EpochInv /\ [Next]_vars => EpochInv'
  BY EpochStep
<1> QED
  BY <1>1, <1>2, ConnectInvariant, PTL DEF Spec

\* A connect that succeeds does so on the lanes of its own attempt
\* (reinit_completion in dcp_dptx_connect), unless a release was given up on.
THEOREM LinksAreFresh == Spec => []FreshLink
<1>1. EpochInv => FreshLink
  BY DEF EpochInv, EpochParts, LaneInv, FreshLink
<1> QED
  BY <1>1, EpochInvariant, PTL

\* At rest, port->connected says whether DCP holds a request for the display: every
\* request that failed or timed out has been released, unless that was given up on.
THEOREM DisplaysAgree == Spec => []DisplayAgrees
<1>1. ConnectInv /\ EpochInv => DisplayAgrees
  <2> SUFFICES ASSUME ConnectInv, EpochInv, AtRest, ~lost
               PROVE  dcp.display <=> connected
    BY DEF DisplayAgrees
  <2>1. QuietInv /\ ShownInv
    BY DEF EpochInv, EpochParts
  <2>2. c.pc = "idle" /\ t = "idle"
    BY DEF AtRest, Resting
  <2>3. hpd = Nobody
    BY <2>2 DEF ConnectInv, TypeOK
  <2>4. connected => dcp.display
    BY <2>1, <2>2 DEF ShownInv
  <2>5. ~connected => ~dcp.display
    BY <2>1, <2>3 DEF QuietInv, Unasked
  <2> QED
    BY <2>4, <2>5 DEF ConnectInv, TypeOK
<1> QED
  BY <1>1, ConnectInvariant, EpochInvariant, PTL

-----------------------------------------------------------------------------
(* The lease. *)

\* Most steps do not concern the lease.
LEMMA LeaseStutters ==
  ASSUME dcp'.display = dcp.display, dcp'.for = dcp.for,
         UNCHANGED <<gen, connected, got, lost>>
  PROVE  UNCHANGED Lease!vars
  BY DEF Lease!vars

\* Those of the threads that do: an attempt begins, the port is marked, a link is
\* reported, the mark is taken away after the release.
LEMMA ThreadsLease ==
  ASSUME NumTyped, ThreadTyped, LockTyped, FlowInv, EpochParts, ~lost, ~lost',
         Take \/ CallOk \/ LanesUp \/ Won \/ Undone \/ Disconnected
  PROVE  [Lease!Next]_Lease!vars
<1> USE DEF Lease!Next, Nobody
<1>1. CASE Take
  <2>1. UNCHANGED <<dcp, connected, got, lost>>
    BY <1>1, TakeFacts DEF Take, TakeLeaving, wire, lanes
  <2>2. CASE ~connected /\ hpd = Nobody /\ gen' = gen + 1
    <3>1. ~dcp.display
      BY <2>2 DEF EpochParts, QuietInv, Unasked
    <3> QED
      BY <2>1, <2>2, <3>1 DEF Lease!Begin
  <2>3. CASE gen' = gen
    BY <2>1, <2>3, LeaseStutters
  <2> QED
    BY <1>1, <2>2, <2>3, TakeFacts DEF Take, TakeLeaving, lanes
<1>2. CASE CallOk
  <2>1. c.pc = "sent" /\ ans["C"] = "ok" /\ t # "sent" /\ UNCHANGED <<dcp, gen, got, lost>>
    BY <1>2 DEF CallOk, wire, lanes, LockTyped
  <2>2. CASE c.step = 3
    <3>1. dcp.display /\ dcp.for = gen /\ gen # 0
      BY <2>1, <2>2 DEF EpochParts, LaneInv, ShownInv, FlowInv
    <3>2. connected' = TRUE
      BY <1>2, <2>2 DEF CallOk
    <3> QED
      BY <2>1, <3>1, <3>2 DEF Lease!Mark
  <2>3. CASE c.step # 3
    <3>1. connected' = connected
      BY <1>2, <2>3 DEF CallOk, NumTyped
    <3> QED
      BY <2>1, <3>1, LeaseStutters
  <2> QED
    BY <2>2, <2>3
<1>3. CASE LanesUp
  <2>1. c.pc = "wait" /\ linkcfg # 0 /\ got' = linkcfg /\ UNCHANGED <<dcp, gen, connected, lost>>
    BY <1>3 DEF LanesUp, wire
  <2>2. linkcfg = gen /\ got = 0
    BY <2>1 DEF EpochParts, LaneInv, FlowInv
  <2> QED
    BY <2>1, <2>2 DEF Lease!Link
<1>4. CASE Won
  BY <1>4 DEF Won, wire, Lease!Report
<1>5. CASE Undone \/ Disconnected
  <2>1. Released /\ connected' = FALSE /\ UNCHANGED <<dcp, gen, got>>
    BY <1>5 DEF Undone, Disconnected, ReleaseOver, Released, wire, lanes
  <2>2. ~dcp.display
    BY <2>1 DEF EpochParts, QuietInv
  <2>3. lost' = lost
    BY <1>5 DEF Undone, Disconnected, ReleaseOver, NumTyped
  <2> QED
    BY <2>1, <2>2, <2>3 DEF Lease!Unmark
<1> QED
  BY <1>1, <1>2, <1>3, <1>4, <1>5

\* Those of DCP that do: a request lends the display, a release gives it back.
LEMMA DcpLeases ==
  ASSUME NumTyped, LockTyped, WireTyped, EpochParts, DcpTake
  PROVE  [Lease!Next]_Lease!vars
<1> USE DEF Lease!Next
<1>1. UNCHANGED <<gen, connected, got, lost>> /\ inbox # <<>>
  BY DEF DcpTake, lanes
<1>2. Head(inbox) = inbox[1] /\ 1 \in DOMAIN inbox
  BY <1>1, InboxFacts
<1>3. CASE Head(inbox).name = "request"
  <2>1. ~dcp.display /\ Head(inbox).gen = gen
    BY <1>2, <1>3 DEF EpochParts, LaneInv
  <2>2. dcp'.display /\ dcp'.for = gen
    BY <1>3, <2>1, DcpTakeFacts
  <2> QED
    BY <1>1, <2>1, <2>2 DEF Lease!Lend
<1>4. CASE Head(inbox).name = "release"
  <2>1. ~dcp'.display
    BY <1>4, DcpTakeFacts
  <2> QED
    BY <1>1, <2>1 DEF Lease!GiveBack
<1>5. CASE Head(inbox).name \notin {"request", "release"}
  BY <1>1, <1>5, DcpTakeFacts, LeaseStutters
<1> QED
  BY <1>3, <1>4, <1>5

\* Every step is a step of the lease or none.
LEMMA LeaseStep ==
  ASSUME ConnectInv, EpochInv, [Next]_vars
  PROVE  [Lease!Next]_Lease!vars
<1>1. CASE lost'
  BY <1>1 DEF Lease!Next, Lease!Lapse
<1>2. CASE ~lost'
  <2>1. NumTyped /\ ThreadTyped /\ LockTyped /\ WireTyped /\ FlowInv
    BY TypeParts DEF ConnectInv
  <2>2. ~lost /\ EpochParts
    BY <1>2, LostStays DEF EpochInv
  <2>3. CASE Take \/ CallOk \/ LanesUp \/ Won \/ Undone \/ Disconnected
    BY <1>2, <2>1, <2>2, <2>3, ThreadsLease
  <2>4. CASE DcpTake
    BY <2>1, <2>2, <2>4, DcpLeases
  <2>5. CASE \/ Work \/ Call \/ CallFail \/ LanesExpire \/ Drop \/ Undo \/ Disconnect
             \/ RouteLock \/ RouteChange \/ Receive \/ Deliver \/ Plug \/ Unplug
             \/ UNCHANGED vars
    <3>1. UNCHANGED <<dcp, gen, connected, got, lost>>
      BY <2>5 DEF Work, Call, CallFail, FailUndoing, LanesExpire, Drop, Undo, Disconnect,
         DisconnectWhen, RouteLock, RouteChange, Receive, Deliver, Plug, Unplug, vars,
         wire, lanes
    <3> QED
      BY <3>1, LeaseStutters
  <2>6. CASE Handle \/ DcpAnswer \/ DcpMute \/ DcpAsk \/ DcpGiveUp
    <3>1. dcp'.display = dcp.display /\ dcp'.for = dcp.for
      BY <2>1, <2>6 DEF Handle, HandleCompleting, DcpAnswer, DcpMute, DcpAsk, DcpGiveUp,
         WireTyped
    <3>2. UNCHANGED <<gen, connected, got, lost>>
      BY <2>6 DEF Handle, HandleCompleting, DcpAnswer, DcpMute, DcpAsk, DcpGiveUp, lanes
    <3> QED
      BY <3>1, <3>2, LeaseStutters
  <2> QED
    BY <2>3, <2>4, <2>5, <2>6 DEF Next, Connector, Rerouting, Queue, Talk, Training
<1> QED
  BY <1>1, <1>2

\* The calls, upcalls and timers of one pipeline implement DisplayLease: the display
\* is lent to one attempt at a time.
THEOREM DisplaysAreLent == Spec => LentToOne
<1>1. Init => Lease!Init
  BY DEF Init, Lease!Init
<1>2. ConnectInv /\ EpochInv /\ [Next]_vars => [Lease!Next]_Lease!vars
  BY LeaseStep
<1> QED
  BY <1>1, <1>2, ConnectInvariant, EpochInvariant, PTL DEF Spec, LentToOne, Lease!Spec

=============================================================================
