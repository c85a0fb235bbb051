--------------------------- MODULE DpFabricProofs ---------------------------
(***************************************************************************)
(* The fabric's invariants for any ports, pipelines and adapters.  Each of  *)
(* them leans on the others: a pipeline may be given away because owner and *)
(* active agree, its callback fits because they do, and the fixed output    *)
(* comes back because it is selected whenever a pipeline is free and its    *)
(* last change went through (FixedRests).  That one and LinkedToPort no run *)
(* checks by itself.  The refinement of OutputSwitch comes last.            *)
(***************************************************************************)
EXTENDS DpFabric, TLAPS

\* A free pipeline whose last change went through has its fixed output selected.
FixedRests == \A d \in FixedPipes : active[d] = None /\ d \notin failed => fixed[d]

\* A pipeline that drives a port is never marked connected to another display,
\* for then nothing would ever connect the one on the port.
LinkedToPort == \A d \in Pipes : active[d] # None => linked[d] \in {active[d], None}

\* The inductive invariant.
IInv == /\ TypeOK /\ Exclusive /\ OneOutput /\ CallbackFits /\ LinkedToPort
        /\ FixedRests /\ HdmiComesBack /\ RecordedIsDone

\* TypeOK in the parts the lemmas speak of.
RoutesTyped ==
    /\ owner \in [Ports -> Pipes \cup {None}]
    /\ active \in [Pipes -> Ports \cup {None}]
    /\ tunnel \in [Pipes -> Dpins \cup {None}]
    /\ callback \in [Pipes -> (Ports \cup {None}) \X (Dpins \cup {None})]
    /\ fixed \in [Pipes -> BOOLEAN] /\ linked \in [Pipes -> Ports \cup {Hdmi, None}]
    /\ failed \subseteq Pipes

StatesTyped == /\ applied \in [Ports -> {"dp", "other", None}]
               /\ denied \in [Ports -> BOOLEAN]

-----------------------------------------------------------------------------
\* The chosen pipeline is one that drives no port.
LEMMA BestIsFree ==
    ASSUME NEW d
    PROVE  /\ Best(TunnelScore, d) => d \in Pipes /\ active[d] = None
           /\ Best(AltScore, d) => d \in Pipes /\ active[d] = None
  BY DEF Best, Available

\* The invariant holds before anything is plugged in.
LEMMA InitIInv == Init => IInv
<1> SUFFICES ASSUME Init PROVE IInv
  OBVIOUS
<1> USE FabricAssumption DEF Init
<1>1. TypeOK
  BY DEF TypeOK, NoCallback
<1>2. Exclusive /\ OneOutput /\ LinkedToPort
  BY DEF Exclusive, OneOutput, LinkedToPort
<1>3. CallbackFits
  BY DEF CallbackFits
<1>4. FixedRests
  BY DEF FixedRests
<1>5. HdmiComesBack /\ RecordedIsDone
  BY DEF HdmiComesBack, RecordedIsDone
<1> QED
  BY <1>1, <1>2, <1>3, <1>4, <1>5 DEF IInv

\* What an activation needs, and keeps of the routes and outputs: all but what
\* is recorded of the port.
LEMMA ActivateKeeps ==
    ASSUME IInv, NEW p \in Ports, NEW d \in Pipes, NEW i \in Dpins \cup {None},
           owner[p] = None, active[d] = None, Activate(p, d, i), hdmi' = hdmi
    PROVE  /\ Exclusive' /\ OneOutput' /\ CallbackFits' /\ LinkedToPort'
           /\ FixedRests' /\ HdmiComesBack' /\ RoutesTyped'
           /\ owner' = [owner EXCEPT ![p] = d]
<1> USE FabricAssumption DEF IInv, TypeOK
<1>1. /\ owner' = [owner EXCEPT ![p] = d]
      /\ active' = [active EXCEPT ![d] = p]
      /\ tunnel' = [tunnel EXCEPT ![d] = i]
      /\ callback' = [callback EXCEPT ![d] = IF i = None THEN NoCallback ELSE <<p, i>>]
      /\ fixed' = [fixed EXCEPT ![d] = FALSE]
      /\ failed' = failed \ {d}
      /\ \E l \in {None, p} : linked' = [linked EXCEPT ![d] = l]
  BY DEF Activate, ActivateOver
<1>2. RoutesTyped'
  BY <1>1 DEF RoutesTyped, NoCallback
<1>3. Exclusive'
  BY <1>1 DEF Exclusive
<1>4. OneOutput'
  BY <1>1 DEF OneOutput
<1>5. CallbackFits'
  BY <1>1 DEF CallbackFits, NoCallback
<1>6. LinkedToPort'
  BY <1>1 DEF LinkedToPort
<1>7. FixedRests' /\ HdmiComesBack'
  BY <1>1 DEF FixedRests, HdmiComesBack
<1> QED
  BY <1>1, <1>2, <1>3, <1>4, <1>5, <1>6, <1>7

\* What a tear-down that goes through keeps.
LEMMA DeactivateKeeps ==
    ASSUME IInv, NEW p \in Ports, NEW d \in Pipes, owner[p] = d,
           Deactivate(p, d), hdmi' = hdmi
    PROVE  /\ Exclusive' /\ OneOutput' /\ CallbackFits' /\ LinkedToPort'
           /\ FixedRests' /\ HdmiComesBack' /\ RoutesTyped'
           /\ owner' = [owner EXCEPT ![p] = None]
<1> USE FabricAssumption DEF IInv, TypeOK
<1>1. /\ owner' = [owner EXCEPT ![p] = None]
      /\ active' = [active EXCEPT ![d] = None]
      /\ tunnel' = [tunnel EXCEPT ![d] = None]
      /\ callback' = [callback EXCEPT ![d] = NoCallback]
  BY DEF Deactivate, DeactivateFor
<1>2. \/ /\ fixed' = [fixed EXCEPT ![d] = d \in FixedPipes]
         /\ linked' = [linked EXCEPT ![d] = IF d \in hdmi THEN Hdmi ELSE None]
         /\ failed' = failed \ {d}
      \/ /\ d \in FixedPipes
         /\ \E back \in BOOLEAN : fixed' = [fixed EXCEPT ![d] = back]
         /\ linked' = [linked EXCEPT ![d] = None]
         /\ failed' = failed \cup {d}
  BY DEF Deactivate, DeactivateFor
<1>3. /\ \E back \in BOOLEAN : fixed' = [fixed EXCEPT ![d] = back]
      /\ d \notin FixedPipes => ~fixed'[d]
      /\ d \in FixedPipes /\ d \notin failed' => fixed'[d]
  <2>1. CASE fixed' = [fixed EXCEPT ![d] = d \in FixedPipes] /\ failed' = failed \ {d}
    <3>1. (d \in FixedPipes) \in BOOLEAN
      OBVIOUS
    <3>2. fixed'[d] <=> d \in FixedPipes
      BY <2>1
    <3> QED
      BY <2>1, <3>1, <3>2
  <2>2. CASE /\ d \in FixedPipes
             /\ \E back \in BOOLEAN : fixed' = [fixed EXCEPT ![d] = back]
             /\ failed' = failed \cup {d}
    BY <2>2
  <2> QED
    BY <1>2, <2>1, <2>2
<1>4. RoutesTyped'
  <2>1. fixed' \in [Pipes -> BOOLEAN]
    BY <1>2, <1>3
  <2>2. /\ linked' \in [Pipes -> Ports \cup {Hdmi, None}]
        /\ failed' \subseteq Pipes
    BY <1>2
  <2> QED
    BY <1>1, <2>1, <2>2 DEF RoutesTyped, NoCallback
<1>5. Exclusive'
  BY <1>1 DEF Exclusive
<1>6. OneOutput'
  BY <1>1, <1>2 DEF OneOutput
<1>7. CallbackFits'
  BY <1>1, <1>2 DEF CallbackFits, NoCallback
<1>8. LinkedToPort'
  BY <1>1, <1>2 DEF LinkedToPort
<1>9. FixedRests'
  BY <1>1, <1>2, <1>3 DEF FixedRests
<1>10. HdmiComesBack'
  BY <1>1, <1>2, <1>3 DEF HdmiComesBack, FixedRests
<1> QED
  BY <1>1, <1>4, <1>5, <1>6, <1>7, <1>8, <1>9, <1>10

\* An activation that breaks off leaves the pipeline to nobody.
LEMMA ActivateFailsKeeps ==
    ASSUME IInv, NEW d \in Pipes, NEW i \in Dpins \cup {None},
           active[d] = None, ActivateFails(d, i), hdmi' = hdmi
    PROVE  /\ Exclusive' /\ OneOutput' /\ CallbackFits' /\ LinkedToPort'
           /\ FixedRests' /\ HdmiComesBack' /\ RoutesTyped'
           /\ owner' = owner
<1> USE FabricAssumption DEF IInv, TypeOK
<1>1. UNCHANGED <<owner, active, tunnel, callback>>
  BY DEF ActivateFails, routes
<1>2. /\ linked' = [linked EXCEPT ![d] = None]
      /\ failed' = failed \cup {d}
      /\ \/ fixed' = fixed
         \/ \E back \in BOOLEAN : fixed' = [fixed EXCEPT ![d] = back /\ d \in FixedPipes]
  BY DEF ActivateFails
<1>3. RoutesTyped'
  BY <1>1, <1>2 DEF RoutesTyped
<1>4. Exclusive' /\ OneOutput'
  BY <1>1, <1>2 DEF Exclusive, OneOutput
<1>5. CallbackFits'
  BY <1>1, <1>2 DEF CallbackFits
<1>6. LinkedToPort' /\ FixedRests' /\ HdmiComesBack'
  BY <1>1, <1>2 DEF LinkedToPort, FixedRests, HdmiComesBack
<1> QED
  BY <1>1, <1>3, <1>4, <1>5, <1>6

\* A tear-down that breaks off leaves the route to its owner; what remains of
\* the callback is the caller's matter.
LEMMA DeactivateFailsKeeps ==
    ASSUME IInv, NEW p \in Ports, NEW d \in Pipes, owner[p] = d,
           DeactivateFails(d), hdmi' = hdmi,
           callback' = [callback EXCEPT ![d] = NoCallback]
    PROVE  /\ Exclusive' /\ OneOutput' /\ CallbackFits' /\ LinkedToPort'
           /\ FixedRests' /\ HdmiComesBack' /\ RoutesTyped'
           /\ owner' = owner
<1> USE FabricAssumption DEF IInv, TypeOK
<1>1. /\ UNCHANGED <<owner, active, tunnel, fixed>>
      /\ linked' = [linked EXCEPT ![d] = None]
      /\ failed' = failed \cup {d}
  BY DEF DeactivateFails
<1>2. active[d] = p
  BY DEF Exclusive
<1>3. RoutesTyped'
  BY <1>1 DEF RoutesTyped, NoCallback
<1>4. Exclusive' /\ OneOutput'
  BY <1>1 DEF Exclusive, OneOutput
<1>5. CallbackFits'
  BY <1>1 DEF CallbackFits, NoCallback
<1>6. LinkedToPort' /\ FixedRests' /\ HdmiComesBack'
  BY <1>1, <1>2 DEF LinkedToPort, FixedRests, HdmiComesBack
<1> QED
  BY <1>1, <1>3, <1>4, <1>5, <1>6

-----------------------------------------------------------------------------
(* The steps. *)

\* The invariant from its parts.
LEMMA PartsOfIInv ==
    ASSUME Exclusive', OneOutput', CallbackFits', LinkedToPort', FixedRests',
           HdmiComesBack', RoutesTyped', StatesTyped', RecordedIsDone',
           (hdmi \subseteq FixedPipes)'
    PROVE  IInv'
  BY DEF IInv, TypeOK, RoutesTyped, StatesTyped

\* What only the routes and outputs speak of stays with them.
LEMMA SameRoutes ==
    ASSUME IInv, UNCHANGED <<owner, active, tunnel, callback, fixed, linked, failed>>,
           hdmi' = hdmi
    PROVE  /\ Exclusive' /\ OneOutput' /\ CallbackFits' /\ LinkedToPort'
           /\ FixedRests' /\ HdmiComesBack' /\ RoutesTyped'
           /\ (hdmi \subseteq FixedPipes)'
  BY DEF IInv, TypeOK, RoutesTyped, Exclusive, OneOutput, CallbackFits, LinkedToPort,
         FixedRests, HdmiComesBack

\* A recorded state concerns its own port only.
LEMMA RecordKeeps ==
    ASSUME IInv, NEW p \in Ports, NEW state \in {"dp", "other"}, NEW refused \in BOOLEAN,
           Record(p, state, refused),
           owner' \in [Ports -> Pipes \cup {None}],
           \A q \in Ports \ {p} : owner'[q] = owner[q],
           state = "dp" /\ ~refused => owner'[p] # None
    PROVE  StatesTyped' /\ RecordedIsDone'
  BY DEF IInv, TypeOK, StatesTyped, Record, RecordedIsDone

\* A tunnel's set-up and tear-down, going through or not.
LEMMA TunnelUpStep ==
    ASSUME IInv, NEW p \in Ports, NEW i \in Dpins, TunnelUp(p, i)
    PROVE  IInv'
<1>1. PICK d \in Pipes : /\ active[d] = None
                         /\ Activate(p, d, i) \/ ActivateFails(d, i)
  BY BestIsFree DEF TunnelUp
<1>2. owner[p] = None /\ hdmi' = hdmi /\ UNCHANGED <<applied, denied>>
  BY DEF TunnelUp, states
<1>3. /\ Exclusive' /\ OneOutput' /\ CallbackFits' /\ LinkedToPort'
      /\ FixedRests' /\ HdmiComesBack' /\ RoutesTyped'
      /\ owner' = owner \/ owner' = [owner EXCEPT ![p] = d]
  BY <1>1, <1>2, ActivateKeeps, ActivateFailsKeeps
<1>4. RecordedIsDone'
  BY <1>2, <1>3, FabricAssumption DEF IInv, TypeOK, RecordedIsDone
<1> QED
  BY <1>2, <1>3, <1>4, PartsOfIInv DEF IInv, TypeOK, StatesTyped

LEMMA TunnelDownStep ==
    ASSUME IInv, NEW p \in Ports, NEW i \in Dpins, TunnelDown(p, i)
    PROVE  IInv'
<1>1. PICK d \in Pipes : owner[p] = d /\ Deactivate(p, d)
  BY DEF TunnelDown, Tunnels
<1>2. /\ hdmi' = hdmi
      /\ applied' = [applied EXCEPT ![p] = None]
      /\ denied' = [denied EXCEPT ![p] = FALSE]
  BY DEF TunnelDown
<1>3. /\ Exclusive' /\ OneOutput' /\ CallbackFits' /\ LinkedToPort'
      /\ FixedRests' /\ HdmiComesBack' /\ RoutesTyped'
      /\ owner' = [owner EXCEPT ![p] = None]
  BY <1>1, <1>2, DeactivateKeeps
<1>4. StatesTyped' /\ RecordedIsDone'
  BY <1>2, <1>3, FabricAssumption DEF IInv, TypeOK, StatesTyped, RecordedIsDone
<1> QED
  BY <1>2, <1>3, <1>4, PartsOfIInv DEF IInv, TypeOK

LEMMA TunnelStuckStep ==
    ASSUME IInv, NEW p \in Ports, NEW i \in Dpins, TunnelStuck(p, i)
    PROVE  IInv'
<1>1. PICK d \in Pipes : /\ owner[p] = d /\ DeactivateFails(d)
                         /\ callback' = [callback EXCEPT ![d] = NoCallback]
  BY DEF TunnelStuck, Tunnels
<1>2. hdmi' = hdmi /\ UNCHANGED <<applied, denied>>
  BY DEF TunnelStuck, states
<1>3. /\ Exclusive' /\ OneOutput' /\ CallbackFits' /\ LinkedToPort'
      /\ FixedRests' /\ HdmiComesBack' /\ RoutesTyped'
      /\ owner' = owner
  BY <1>1, <1>2, DeactivateFailsKeeps
<1> QED
  BY <1>2, <1>3, PartsOfIInv DEF IInv, TypeOK, StatesTyped, RecordedIsDone

\* The monitor's Type-C states.
LEMMA LeaveDpStep ==
    ASSUME IInv, NEW p \in Ports, LeaveDp(p)
    PROVE  IInv'
<1> USE DEF IInv, TypeOK
<1>1. hdmi' = hdmi
  BY DEF LeaveDp
<1>2. CASE Record(p, "other", FALSE) /\ UNCHANGED <<routes, output>>
  <2>1. UNCHANGED <<owner, active, tunnel, callback, fixed, linked, failed>>
    BY <1>2 DEF routes, output
  <2>2. StatesTyped' /\ RecordedIsDone'
    BY <1>2, <2>1, RecordKeeps
  <2> QED
    BY <1>1, <2>1, <2>2, PartsOfIInv, SameRoutes
<1>3. CASE owner[p] # None /\ Record(p, "other", FALSE) /\ Deactivate(p, owner[p])
  <2>1. /\ Exclusive' /\ OneOutput' /\ CallbackFits' /\ LinkedToPort'
        /\ FixedRests' /\ HdmiComesBack' /\ RoutesTyped'
        /\ owner' = [owner EXCEPT ![p] = None]
    BY <1>1, <1>3, DeactivateKeeps
  <2>2. StatesTyped' /\ RecordedIsDone'
    BY <1>3, <2>1, RecordKeeps DEF RoutesTyped
  <2> QED
    BY <1>1, <2>1, <2>2, PartsOfIInv
<1>4. CASE /\ owner[p] # None /\ ~Tunneled(p) /\ Record(p, "other", TRUE)
           /\ DeactivateFails(owner[p]) /\ UNCHANGED callback
  <2>1. callback' = [callback EXCEPT ![owner[p]] = NoCallback]
    BY <1>4 DEF Tunneled, CallbackFits
  <2>2. /\ Exclusive' /\ OneOutput' /\ CallbackFits' /\ LinkedToPort'
        /\ FixedRests' /\ HdmiComesBack' /\ RoutesTyped'
        /\ owner' = owner
    BY <1>1, <1>4, <2>1, DeactivateFailsKeeps
  <2>3. StatesTyped' /\ RecordedIsDone'
    BY <1>4, <2>2, RecordKeeps DEF RoutesTyped
  <2> QED
    BY <1>1, <2>2, <2>3, PartsOfIInv
<1> QED
  BY <1>2, <1>3, <1>4 DEF LeaveDp

LEMMA EnterDpStep ==
    ASSUME IInv, NEW p \in Ports, EnterDp(p)
    PROVE  IInv'
<1>1. hdmi' = hdmi
  BY DEF EnterDp
<1>2. CASE /\ UNCHANGED <<routes, output>>
           /\ \/ Record(p, "dp", TRUE)
              \/ Record(p, "dp", FALSE) /\ owner[p] # None
  <2>1. UNCHANGED <<owner, active, tunnel, callback, fixed, linked, failed>>
    BY <1>2 DEF routes, output
  <2>2. StatesTyped' /\ RecordedIsDone'
    BY <1>2, <2>1, RecordKeeps DEF IInv, TypeOK
  <2> QED
    BY <1>1, <2>1, <2>2, PartsOfIInv, SameRoutes
<1>3. CASE /\ owner[p] = None /\ Record(p, "dp", FALSE)
           /\ \E d \in Pipes : Best(AltScore, d) /\ Activate(p, d, None)
  <2>1. PICK d \in Pipes : active[d] = None /\ Activate(p, d, None)
    BY <1>3, BestIsFree
  <2>2. /\ Exclusive' /\ OneOutput' /\ CallbackFits' /\ LinkedToPort'
        /\ FixedRests' /\ HdmiComesBack' /\ RoutesTyped'
        /\ owner' = [owner EXCEPT ![p] = d]
    BY <1>1, <1>3, <2>1, ActivateKeeps
  <2>3. StatesTyped' /\ RecordedIsDone'
    <3>1. owner'[p] # None /\ \A q \in Ports \ {p} : owner'[q] = owner[q]
      BY <2>2, FabricAssumption DEF IInv, TypeOK
    <3> QED
      BY <1>3, <2>2, <3>1, RecordKeeps DEF RoutesTyped
  <2> QED
    BY <1>1, <2>2, <2>3, PartsOfIInv DEF IInv, TypeOK
<1>4. CASE /\ owner[p] = None /\ Record(p, "dp", TRUE)
           /\ \E d \in Pipes : Best(AltScore, d) /\ ActivateFails(d, None)
  <2>1. PICK d \in Pipes : active[d] = None /\ ActivateFails(d, None)
    BY <1>4, BestIsFree
  <2>2. /\ Exclusive' /\ OneOutput' /\ CallbackFits' /\ LinkedToPort'
        /\ FixedRests' /\ HdmiComesBack' /\ RoutesTyped'
        /\ owner' = owner
    BY <1>1, <2>1, ActivateFailsKeeps
  <2>3. StatesTyped' /\ RecordedIsDone'
    BY <1>4, <2>2, RecordKeeps DEF RoutesTyped
  <2> QED
    BY <1>1, <2>2, <2>3, PartsOfIInv DEF IInv, TypeOK
<1> QED
  BY <1>2, <1>3, <1>4 DEF EnterDp

LEMMA EnterDpTunneledStep ==
    ASSUME IInv, NEW p \in Ports, EnterDpTunneled(p)
    PROVE  IInv'
<1>1. /\ UNCHANGED <<owner, active, tunnel, callback, fixed, linked, failed>>
      /\ hdmi' = hdmi
      /\ applied' = [applied EXCEPT ![p] = None] /\ denied' = denied
  BY DEF EnterDpTunneled, routes, output
<1>2. StatesTyped' /\ RecordedIsDone'
  BY <1>1, FabricAssumption DEF IInv, TypeOK, StatesTyped, RecordedIsDone
<1> QED
  BY <1>1, <1>2, PartsOfIInv, SameRoutes

\* The HDMI cable, DCP and the reconnect work touch no route.
LEMMA WorldStep ==
    ASSUME IInv, NEW d \in Pipes,
           \/ d \in FixedPipes /\ (HdmiPlug(d) \/ HdmiUnplug(d))
           \/ DcpNotices(d) \/ Reconnect(d)
    PROVE  IInv'
<1> USE FabricAssumption DEF IInv, TypeOK
<1>1. UNCHANGED <<owner, active, tunnel, callback, applied, denied, fixed>>
  BY DEF HdmiPlug, HdmiUnplug, DcpNotices, Reconnect, routes, states, output
<1>2. Exclusive' /\ OneOutput' /\ StatesTyped' /\ RecordedIsDone'
  BY <1>1 DEF Exclusive, OneOutput, StatesTyped, RecordedIsDone
<1>3. CASE d \in FixedPipes /\ HdmiPlug(d)
  <2>1. /\ hdmi' = hdmi \cup {d}
        /\ \/ /\ fixed[d] /\ failed' = failed \ {d}
              /\ linked' = [linked EXCEPT ![d] = Hdmi]
           \/ fixed[d] /\ linked' = linked /\ failed' = failed \cup {d}
           \/ ~fixed[d] /\ linked' = linked /\ failed' = failed
    BY <1>3 DEF HdmiPlug
  <2>2. RoutesTyped' /\ (hdmi \subseteq FixedPipes)'
    BY <1>1, <1>3, <2>1 DEF RoutesTyped
  <2>3. CallbackFits'
    BY <1>1, <2>1 DEF CallbackFits, OneOutput
  <2>4. LinkedToPort'
    BY <1>1, <2>1 DEF LinkedToPort, OneOutput
  <2>5. FixedRests' /\ HdmiComesBack'
    BY <1>1, <1>3, <2>1 DEF FixedRests, HdmiComesBack
  <2> QED
    BY <1>2, <2>2, <2>3, <2>4, <2>5, PartsOfIInv
<1>4. CASE HdmiUnplug(d)
  <2>1. hdmi' = hdmi \ {d} /\ linked' = linked /\ failed' = failed
    BY <1>4 DEF HdmiUnplug, output
  <2>2. RoutesTyped' /\ CallbackFits' /\ LinkedToPort' /\ (hdmi \subseteq FixedPipes)'
    BY <1>1, <2>1 DEF RoutesTyped, CallbackFits, LinkedToPort
  <2>3. FixedRests' /\ HdmiComesBack'
    BY <1>1, <2>1 DEF FixedRests, HdmiComesBack
  <2> QED
    BY <1>2, <2>2, <2>3, PartsOfIInv
<1>5. CASE DcpNotices(d) \/ Reconnect(d)
  <2>1. /\ hdmi' = hdmi /\ failed' = failed
        /\ \/ /\ d \notin hdmi /\ linked' = [linked EXCEPT ![d] = None]
           \/ /\ active[d] # None /\ linked' = [linked EXCEPT ![d] = active[d]]
    BY <1>5 DEF DcpNotices, Reconnect
  <2>2. RoutesTyped' /\ CallbackFits' /\ LinkedToPort' /\ (hdmi \subseteq FixedPipes)'
    BY <1>1, <2>1 DEF RoutesTyped, CallbackFits, LinkedToPort
  <2>3. FixedRests' /\ HdmiComesBack'
    BY <1>1, <2>1 DEF FixedRests, HdmiComesBack
  <2> QED
    BY <1>2, <2>2, <2>3, PartsOfIInv
<1> QED
  BY <1>3, <1>4, <1>5

LEMMA StutterStep == IInv /\ UNCHANGED vars => IInv'
<1> SUFFICES ASSUME IInv, UNCHANGED vars PROVE IInv'
  OBVIOUS
<1>1. /\ UNCHANGED <<owner, active, tunnel, callback, fixed, linked, failed>>
      /\ UNCHANGED <<hdmi, applied, denied>>
  BY DEF vars, routes, states, output
<1>2. StatesTyped' /\ RecordedIsDone'
  BY <1>1 DEF IInv, TypeOK, StatesTyped, RecordedIsDone
<1> QED
  BY <1>1, <1>2, PartsOfIInv, SameRoutes

LEMMA NextIInv == IInv /\ [Next]_vars => IInv'
<1> SUFFICES ASSUME IInv, [Next]_vars PROVE IInv'
  OBVIOUS
<1>1. ASSUME NEW p \in Ports, NEW i \in Dpins,
             TunnelUp(p, i) \/ TunnelDown(p, i) \/ TunnelStuck(p, i)
      PROVE  IInv'
  BY <1>1, TunnelUpStep, TunnelDownStep, TunnelStuckStep
<1>2. ASSUME NEW p \in Ports, LeaveDp(p) \/ EnterDp(p) \/ EnterDpTunneled(p)
      PROVE  IInv'
  BY <1>2, LeaveDpStep, EnterDpStep, EnterDpTunneledStep
<1>3. ASSUME NEW d \in FixedPipes, HdmiPlug(d) \/ HdmiUnplug(d)
      PROVE  IInv'
  BY <1>3, WorldStep, FabricAssumption
<1>4. ASSUME NEW d \in Pipes, DcpNotices(d) \/ Reconnect(d)
      PROVE  IInv'
  BY <1>4, WorldStep
<1> QED
  BY <1>1, <1>2, <1>3, <1>4, StutterStep DEF Next

LEMMA AlwaysIInv == Spec => []IInv
  BY InitIInv, NextIInv, PTL DEF Spec

-----------------------------------------------------------------------------
(* The theorems. *)

\* The fabric's variables keep their types, whatever the calls come to.
THEOREM FabricTypes == Spec => []TypeOK
<1>1. IInv => TypeOK
  BY DEF IInv
<1> QED
  BY <1>1, AlwaysIInv, PTL

\* No pipeline ever drives two ports and no port has two pipelines, for any
\* number of either and however changes of the output fail (port->owner against
\* active_typec_route).
THEOREM RoutesAreExclusive == Spec => []Exclusive
<1>1. IInv => Exclusive
  BY DEF IInv
<1> QED
  BY <1>1, AlwaysIInv, PTL

\* A pipeline's fixed output and a Type-C port are never selected together.
THEOREM OutputIsOne == Spec => []OneOutput
<1>1. IInv => OneOutput
  BY DEF IInv
<1> QED
  BY <1>1, AlwaysIInv, PTL

\* DCP's callback leads to the service of the very tunnel and route it runs over.
THEOREM CallbacksFit == Spec => []CallbackFits
<1>1. IInv => CallbackFits
  BY DEF IInv
<1> QED
  BY <1>1, AlwaysIInv, PTL

\* A pipeline on a port is never taken to be connected to some other display.
THEOREM LinksAreTheirs == Spec => []LinkedToPort
<1>1. IInv => LinkedToPort
  BY DEF IInv
<1> QED
  BY <1>1, AlwaysIInv, PTL

\* An HDMI display comes back when its pipeline is given up, whatever changed
\* while it was away.
THEOREM HdmiReturns == Spec => []HdmiComesBack
<1>1. IInv => HdmiComesBack
  BY DEF IInv
<1> QED
  BY <1>1, AlwaysIInv, PTL

\* No port takes a Type-C state for applied that it has not acted upon.
THEOREM RecordsAreTrue == Spec => []RecordedIsDone
<1>1. IInv => RecordedIsDone
  BY DEF IInv
<1> QED
  BY <1>1, AlwaysIInv, PTL

-----------------------------------------------------------------------------
(* Each pipeline's output is a switch. *)

\* A step that leaves a pipeline alone is none of its switch's.
LEMMA OutputStutters ==
    ASSUME NEW d \in Pipes,
           active'[d] = active[d], fixed'[d] = fixed[d], linked'[d] = linked[d]
    PROVE  UNCHANGED Output(d)!vars
  BY DEF Output!vars, Selected

\* A set-up selects the port and takes down what was shown before; one that breaks
\* off takes it down as well.
LEMMA SetUpSwitches ==
    ASSUME IInv, NEW d \in Pipes, NEW e \in Pipes, NEW p \in Ports,
           NEW i \in Dpins \cup {None},
           active[e] = None, Activate(p, e, i) \/ ActivateFails(e, i)
    PROVE  [Output(d)!Next]_(Output(d)!vars)
<1> USE FabricAssumption DEF IInv, TypeOK
<1>1. CASE d # e
  <2>1. active'[d] = active[d] /\ fixed'[d] = fixed[d] /\ linked'[d] = linked[d]
    BY <1>1 DEF Activate, ActivateOver, ActivateFails, routes
  <2> QED
    BY <2>1, OutputStutters
<1>2. CASE d = e /\ Activate(p, e, i)
  <2>1. active'[d] = p /\ linked'[d] \in {None, p}
    BY <1>2 DEF Activate, ActivateOver
  <2>2. Selected(d)' = p /\ Selected(d) \in {Hdmi, None}
    BY <1>2, <2>1 DEF Selected
  <2> QED
    BY <2>1, <2>2 DEF Output!Next, Output!Switch
<1>3. CASE d = e /\ ActivateFails(e, i)
  <2>1. active'[d] = None /\ linked'[d] = None
    BY <1>3 DEF ActivateFails, routes
  <2>2. Selected(d) \in {Hdmi, None} /\ Selected(d)' \in {Hdmi, None}
    BY <1>3, <2>1 DEF Selected
  <2> QED
    BY <2>1, <2>2 DEF Output!Next, Output!Switch, Output!Disconnect
<1> QED
  BY <1>1, <1>2, <1>3

\* A tear-down goes back to the fixed output or to none, with the display that
\* waits there or with none; one that breaks off at the port only disconnects.
LEMMA TearDownSwitches ==
    ASSUME IInv, NEW d \in Pipes, NEW e \in Pipes, NEW p \in Ports, owner[p] = e,
           Deactivate(p, e) \/ DeactivateFails(e)
    PROVE  [Output(d)!Next]_(Output(d)!vars)
<1> USE FabricAssumption DEF IInv, TypeOK
<1>1. CASE d # e
  <2>1. active'[d] = active[d] /\ fixed'[d] = fixed[d] /\ linked'[d] = linked[d]
    BY <1>1 DEF Deactivate, DeactivateFor, DeactivateFails
  <2> QED
    BY <2>1, OutputStutters
<1>2. Selected(e) = p
  BY DEF Exclusive, Selected
<1>3. CASE d = e /\ Deactivate(p, e)
  <2>1. active'[d] = None
    BY <1>3 DEF Deactivate, DeactivateFor
  <2>2. linked'[d] = None \/ (linked'[d] = Hdmi /\ fixed'[d])
    <3>1. CASE /\ fixed' = [fixed EXCEPT ![d] = d \in FixedPipes]
               /\ linked' = [linked EXCEPT ![d] = IF d \in hdmi THEN Hdmi ELSE None]
      <4>1. fixed'[d] <=> d \in FixedPipes
        BY <3>1
      <4> QED
        BY <3>1, <4>1
    <3>2. CASE linked' = [linked EXCEPT ![d] = None]
      BY <3>2
    <3> QED
      BY <1>3, <3>1, <3>2 DEF Deactivate, DeactivateFor
  <2>3. Selected(d)' \in {Hdmi, None} /\ linked'[d] \in {None, Selected(d)'}
    BY <2>1, <2>2 DEF Selected
  <2> QED
    BY <1>2, <1>3, <2>3 DEF Output!Next, Output!Switch
<1>4. CASE d = e /\ DeactivateFails(e)
  <2>1. Selected(d)' = Selected(d) /\ linked'[d] = None
    BY <1>4 DEF DeactivateFails, Selected
  <2> QED
    BY <2>1 DEF Output!Next, Output!Disconnect
<1> QED
  BY <1>1, <1>3, <1>4

\* The cable, DCP and the reconnect work only connect and disconnect.
LEMMA WorldSwitches ==
    ASSUME IInv, NEW d \in Pipes, NEW e \in Pipes,
           HdmiPlug(e) \/ HdmiUnplug(e) \/ DcpNotices(e) \/ Reconnect(e)
    PROVE  [Output(d)!Next]_(Output(d)!vars)
<1> USE FabricAssumption DEF IInv, TypeOK
<1>1. active' = active /\ fixed' = fixed
  BY DEF HdmiPlug, HdmiUnplug, DcpNotices, Reconnect, routes, output
<1>2. \/ linked'[d] = linked[d]
      \/ linked'[d] = Hdmi /\ fixed[d]
      \/ linked'[d] = None
      \/ linked'[d] = active[d] /\ active[d] # None
  BY DEF HdmiPlug, HdmiUnplug, DcpNotices, Reconnect, output
<1>3. \/ linked'[d] = linked[d]
      \/ linked'[d] = Selected(d) /\ Selected(d) # None
      \/ linked'[d] = None
  BY <1>2 DEF Selected, OneOutput
<1>4. Selected(d)' = Selected(d)
  BY <1>1 DEF Selected
<1> QED
  BY <1>3, <1>4 DEF Output!Next, Output!Connect, Output!Disconnect, Output!vars

\* Every step is a step of each pipeline's switch, or none.
LEMMA SwitchStep ==
    ASSUME IInv, [Next]_vars, NEW d \in Pipes
    PROVE  [Output(d)!Next]_(Output(d)!vars)
<1>1. ASSUME NEW p \in Ports, NEW i \in Dpins,
             TunnelUp(p, i) \/ TunnelDown(p, i) \/ TunnelStuck(p, i)
      PROVE  [Output(d)!Next]_(Output(d)!vars)
  <2>1. CASE TunnelUp(p, i)
    BY <2>1, BestIsFree, SetUpSwitches DEF TunnelUp
  <2>2. CASE TunnelDown(p, i) \/ TunnelStuck(p, i)
    BY <2>2, TearDownSwitches DEF TunnelDown, TunnelStuck, Tunnels
  <2> QED
    BY <1>1, <2>1, <2>2
<1>2. ASSUME NEW p \in Ports, LeaveDp(p) \/ EnterDp(p) \/ EnterDpTunneled(p)
      PROVE  [Output(d)!Next]_(Output(d)!vars)
  <2>1. CASE UNCHANGED <<active, fixed, linked>>
    BY <2>1, OutputStutters
  <2>2. CASE /\ owner[p] # None
             /\ Deactivate(p, owner[p]) \/ DeactivateFails(owner[p])
    <3>1. owner[p] \in Pipes
      BY <2>2 DEF IInv, TypeOK
    <3> QED
      BY <2>2, <3>1, TearDownSwitches
  <2>3. CASE \E e \in Pipes : /\ Best(AltScore, e)
                              /\ Activate(p, e, None) \/ ActivateFails(e, None)
    BY <2>3, BestIsFree, SetUpSwitches
  <2> QED
    BY <1>2, <2>1, <2>2, <2>3 DEF LeaveDp, EnterDp, EnterDpTunneled, routes, output
<1>3. ASSUME NEW e \in Pipes,
             HdmiPlug(e) \/ HdmiUnplug(e) \/ DcpNotices(e) \/ Reconnect(e)
      PROVE  [Output(d)!Next]_(Output(d)!vars)
  BY <1>3, WorldSwitches
<1>4. CASE UNCHANGED vars
  BY <1>4, OutputStutters DEF vars, routes, output
<1> QED
  BY <1>1, <1>2, <1>3, <1>4, FabricAssumption DEF Next

\* Whatever is plugged in and pulled and whatever fails, each pipeline implements
\* OutputSwitch: a change of output takes the display of the old one down.
THEOREM OutputsAreSwitched == Spec => SwitchesOutputs
<1>1. Init => \A d \in Pipes : Output(d)!Init
  BY DEF Init, Output!Init, Selected
<1>2. IInv /\ [Next]_vars => \A d \in Pipes : [Output(d)!Next]_(Output(d)!vars)
  BY SwitchStep
<1> QED
  BY <1>1, <1>2, AlwaysIInv, PTL DEF Spec, SwitchesOutputs
=============================================================================
