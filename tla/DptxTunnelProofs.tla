-------------------------- MODULE DptxTunnelProofs --------------------------
(***************************************************************************)
(* What DptxTunnel promises for any set of link rates, as long as the PHY  *)
(* keeps its mode under a route and the crossbar can always be deselected. *)
(***************************************************************************)
EXTENDS DptxTunnel, TLAPS

\* The route as the holder of the fabric lock has left it at each step.
RouteInv ==
  /\ pc # "drop"
  /\ pc \in {"select", "undo"} => owner = "none"
  /\ pc = "publish" => active /\ owner = "none" /\ ~rtun
  /\ pc = "publish" => held = (IF want = "alt" THEN 1 ELSE 0)
  /\ pc = "publish" /\ want = "tunnel" => gates = "off"
  /\ pc = "deactivate" => owner # "none"
  /\ pc = "clear" => owner # "none" /\ ~rtun /\ held = 0 /\ gates = "off"
  /\ (owner = "none" /\ pc # "publish") => ~active /\ held = 0 /\ gates = "off"
  /\ owner = "none" => ~rtun
  /\ (owner # "none" /\ pc # "clear") =>
        active /\ (rtun <=> owner = "tunnel") /\ (~rtun => held = 1)
  /\ tun <=> rtun
  /\ rtun => held = (IF xbarUp THEN 1 ELSE 0)
  /\ rtun /\ ~xbarUp => gates = "off"

\* The clock and what DCP's handlers remember of it.
ClockInv ==
  /\ clk # 0 => tun
  /\ clockOk => tun /\ clk = linkRate /\ clk # 0
  /\ rtun /\ gates = "on" => clk # 0

IInv == TypeOK /\ RouteInv /\ ClockInv

\* The PHY keeps its mode under a route and every deselect succeeds, as
\* apple_dpxbar_set_t602x() has it.
Stable == LateMode = FALSE /\ MaxFails = 0

\* TypeOK in parts, by the prover that handles them: the flags, and the rest.
BoolOK ==
  /\ active \in BOOLEAN /\ rtun \in BOOLEAN /\ xbarUp \in BOOLEAN
  /\ tun \in BOOLEAN /\ cb \in BOOLEAN /\ clockOk \in BOOLEAN
  /\ attempted \in BOOLEAN

AttemptOK == clk # 0 => attempted

DataOK ==
  /\ pc \in {"idle", "select", "undo", "publish", "deactivate", "drop", "clear"}
  /\ want \in {"tunnel", "alt"} /\ owner \in {"none", "tunnel", "alt"}
  /\ linkRate \in Rates \cup {0}
  /\ held \in Int /\ gates \in {"off", "gated", "on"}
  /\ clk \in Rates \cup {0}
  /\ mode \in {"tbt", "dp", "off"}
  /\ apc \in {"idle", "will", "did", "rate"} /\ req \in Rates \cup {0}
  /\ fails \in 0..MaxFails

\* The parts together are the type invariant.
LEMMA TypeSplit == TypeOK <=> BoolOK /\ AttemptOK /\ DataOK
  BY Zenon DEF TypeOK, BoolOK, AttemptOK, DataOK

\* The initial state satisfies the inductive invariant.
LEMMA InitIInv == Init => IInv
<1> SUFFICES ASSUME Init PROVE IInv
  OBVIOUS
<1>1. TypeOK
  <2>1. BoolOK
    BY Zenon DEF Init, BoolOK
  <2>2. DataOK
    BY DptxAssumption, SMT DEF DptxAssumption, Init, DataOK
  <2>3. AttemptOK
    BY DEF Init, AttemptOK
  <2>4. QED
    BY <2>1, <2>2, <2>3, TypeSplit
<1>2. RouteInv
  BY DEF Init, RouteInv
<1>3. ClockInv
  BY DEF Init, ClockInv
<1>4. QED
  BY <1>1, <1>2, <1>3 DEF IInv


\* Every step keeps the flags Boolean.
LEMMA BoolStep ==
  ASSUME BoolOK, [Next]_vars PROVE BoolOK'
<1> USE DEF BoolOK, route, xbar, phy, call
<1>1. CASE TunnelUp
  BY <1>1, Zenon DEF TunnelUp
<1>2. CASE AltUp
  BY <1>2, Zenon DEF AltUp
<1>3. CASE RouteSelect
  BY <1>3, Zenon DEF RouteSelect, Select
<1>4. CASE RouteUndo
  BY <1>4, Zenon DEF RouteUndo
<1>5. CASE RoutePublish
  BY <1>5, Zenon DEF RoutePublish
<1>6. CASE RouteDown
  BY <1>6, Zenon DEF RouteDown
<1>7. CASE Deactivate
  BY <1>7, Zenon DEF Deactivate, Deselect
<1>8. CASE DeactivateFails
  BY <1>8, Zenon DEF DeactivateFails
<1>9. CASE Drop
  BY <1>9, Zenon DEF Drop
<1>10. CASE RouteClear
  BY <1>10, Zenon DEF RouteClear
<1>11. CASE CrossbarDown
  BY <1>11, Zenon DEF CrossbarDown, LinkDown
<1>12. CASE CrossbarUp
  BY <1>12, Zenon DEF CrossbarUp, Select, LinkUp
<1>13. CASE SetRate
  BY <1>13, Zenon DEF SetRate, RecordRate, LinkDown, ClockStarts, ClockFails
<1>14. ASSUME NEW name \in {"will", "did"}, Call(name) PROVE BoolOK'
  BY <1>14, Zenon DEF Call
<1>15. ASSUME NEW r \in Rates \cup {0}, CallRate(r) PROVE BoolOK'
  BY <1>15, Zenon DEF CallRate
<1>16. ASSUME NEW r \in Rates \cup {0}, PhyRate(r) PROVE BoolOK'
  BY <1>16, Zenon DEF PhyRate
<1>17. ASSUME NEW m \in {"tbt", "dp", "off"}, PhyMode(m) PROVE BoolOK'
  BY <1>17, Zenon DEF PhyMode
<1>18. CASE UNCHANGED vars
  BY <1>18, Zenon DEF vars
<1>19. QED
  BY <1>1, <1>2, <1>3, <1>4, <1>5, <1>6, <1>7, <1>8, <1>9, <1>10, <1>11,
     <1>12, <1>13, <1>14, <1>15, <1>16, <1>17, <1>18 DEF Next, Fabric, Apcall

\* Every step keeps the other variables in their sets.
LEMMA DataStep ==
  ASSUME DataOK, [Next]_vars PROVE DataOK'
<1> USE DptxAssumption DEF DptxAssumption, DataOK, route, xbar, phy, call
<1>1. CASE TunnelUp
  BY <1>1, SMT DEF TunnelUp
<1>2. CASE AltUp
  BY <1>2, SMT DEF AltUp
<1>3. CASE RouteSelect
  BY <1>3, SMT DEF RouteSelect, Select
<1>4. CASE RouteUndo
  BY <1>4, SMT DEF RouteUndo
<1>5. CASE RoutePublish
  BY <1>5, SMT DEF RoutePublish
<1>6. CASE RouteDown
  BY <1>6, SMT DEF RouteDown
<1>7. CASE Deactivate
  BY <1>7, SMT DEF Deactivate, Deselect
<1>8. CASE DeactivateFails
  BY <1>8, SMT DEF DeactivateFails
<1>9. CASE Drop
  BY <1>9, SMT DEF Drop
<1>10. CASE RouteClear
  BY <1>10, SMT DEF RouteClear
<1>11. CASE CrossbarDown
  BY <1>11, SMT DEF CrossbarDown, LinkDown
<1>12. CASE CrossbarUp
  BY <1>12, SMT DEF CrossbarUp, Select, LinkUp
<1>13. CASE SetRate
  BY <1>13, SMT DEF SetRate, RecordRate, LinkDown, ClockStarts, ClockFails
<1>14. ASSUME NEW name \in {"will", "did"}, Call(name) PROVE DataOK'
  BY <1>14, SMT DEF Call
<1>15. ASSUME NEW r \in Rates \cup {0}, CallRate(r) PROVE DataOK'
  BY <1>15, SMT DEF CallRate
<1>16. ASSUME NEW r \in Rates \cup {0}, PhyRate(r) PROVE DataOK'
  BY <1>16, SMT DEF PhyRate
<1>17. ASSUME NEW m \in {"tbt", "dp", "off"}, PhyMode(m) PROVE DataOK'
  BY <1>17, SMT DEF PhyMode
<1>18. CASE UNCHANGED vars
  BY <1>18, SMT DEF vars
<1>19. QED
  BY <1>1, <1>2, <1>3, <1>4, <1>5, <1>6, <1>7, <1>8, <1>9, <1>10, <1>11,
     <1>12, <1>13, <1>14, <1>15, <1>16, <1>17, <1>18 DEF Next, Fabric, Apcall

\* A clock only runs once its attempt has been recorded.
LEMMA AttemptStep ==
  ASSUME BoolOK, AttemptOK, [Next]_vars PROVE AttemptOK'
<1> USE DEF AttemptOK, phy
<1>1. CASE Deactivate
  BY <1>1 DEF Deactivate
<1>2. CASE SetRate
  BY <1>2 DEF SetRate, RecordRate, ClockStarts, ClockFails, BoolOK
<1>3. ASSUME NEW m \in {"tbt", "dp", "off"}, PhyMode(m) PROVE AttemptOK'
  BY <1>3 DEF PhyMode
<1>4. CASE UNCHANGED phy
  BY <1>4
<1>5. QED
  BY <1>1, <1>2, <1>3, <1>4 DEF Next, Fabric, Apcall, TunnelUp, AltUp,
     RouteSelect, RouteUndo, RoutePublish, RouteDown, DeactivateFails, Drop,
     RouteClear, Call, CrossbarDown, CrossbarUp, CallRate, PhyRate, vars

\* The type invariant is inductive on its own.
LEMMA TypeStep == ASSUME TypeOK, [Next]_vars PROVE TypeOK'
<1>1. BoolOK /\ AttemptOK /\ DataOK
  BY TypeSplit
<1>2. BoolOK' /\ AttemptOK' /\ DataOK'
  BY <1>1, BoolStep, AttemptStep, DataStep
<1>3. QED
  BY <1>2, Zenon DEF TypeOK, BoolOK, AttemptOK, DataOK

\* Every step of a stable system keeps the route's bookkeeping consistent with
\* the crossbar's semaphore and with what DCP's handlers look at.
LEMMA RouteStep ==
  ASSUME Stable, TypeOK, RouteInv, [Next]_vars PROVE RouteInv'
<1> USE DEF Stable, TypeOK, RouteInv, route, xbar, phy, call
<1>1. CASE TunnelUp
  BY <1>1 DEF TunnelUp
<1>2. CASE AltUp
  BY <1>2 DEF AltUp
<1>3. CASE RouteSelect
  BY <1>3 DEF RouteSelect, Select
<1>4. CASE RouteUndo
  BY <1>4 DEF RouteUndo
<1>5. CASE RoutePublish
  <2>1. (rtun' <=> want = "tunnel") /\ (tun' <=> rtun') /\ (xbarUp' <=> want = "alt")
    BY <1>5, Zenon DEF RoutePublish
  <2>2. QED
    BY <1>5, <2>1, SMT DEF RoutePublish, xbar
<1>6. CASE RouteDown
  BY <1>6 DEF RouteDown
<1>7. CASE Deactivate
  <2>1. held' = 0 /\ gates' = "off"
    BY <1>7, SMT DEF Deactivate, Deselect, xbar
  <2>2. ~rtun' /\ ~tun' /\ ~xbarUp'
    BY <1>7, SMT DEF Deactivate
  <2>3. QED
    BY <1>7, <2>1, <2>2, SMT DEF Deactivate
<1>8. CASE DeactivateFails
  BY <1>8 DEF DeactivateFails
<1>9. CASE Drop
  BY <1>9 DEF Drop
<1>10. CASE RouteClear
  BY <1>10 DEF RouteClear
<1>11. CASE CrossbarDown
  BY <1>11 DEF CrossbarDown, LinkDown
<1>12. CASE CrossbarUp
  BY <1>12 DEF CrossbarUp, Select, LinkUp
<1>13. CASE SetRate
  BY <1>13 DEF SetRate, RecordRate, LinkDown, ClockStarts, ClockFails
<1>14. ASSUME NEW name \in {"will", "did"}, Call(name) PROVE RouteInv'
  BY <1>14 DEF Call
<1>15. ASSUME NEW r \in Rates \cup {0}, CallRate(r) PROVE RouteInv'
  BY <1>15 DEF CallRate
<1>16. ASSUME NEW r \in Rates \cup {0}, PhyRate(r) PROVE RouteInv'
  BY <1>16 DEF PhyRate
<1>17. ASSUME NEW m \in {"tbt", "dp", "off"}, PhyMode(m) PROVE RouteInv'
  BY <1>17 DEF PhyMode
<1>18. CASE UNCHANGED vars
  BY <1>18 DEF vars
<1>19. QED
  BY <1>1, <1>2, <1>3, <1>4, <1>5, <1>6, <1>7, <1>8, <1>9, <1>10, <1>11,
     <1>12, <1>13, <1>14, <1>15, <1>16, <1>17, <1>18 DEF Next, Fabric, Apcall

\* Every step of a stable system keeps the clock owned by the tunnel and
\* tb_clock_ok truthful about it.
LEMMA ClockStep ==
  ASSUME Stable, TypeOK, RouteInv, RouteInv', ClockInv, [Next]_vars PROVE ClockInv'
<1> USE DEF Stable, TypeOK, RouteInv, ClockInv, route, xbar, phy, call
<1>1. CASE TunnelUp
  BY <1>1 DEF TunnelUp
<1>2. CASE AltUp
  BY <1>2 DEF AltUp
<1>3. CASE RouteSelect
  BY <1>3 DEF RouteSelect, Select
<1>4. CASE RouteUndo
  BY <1>4 DEF RouteUndo
<1>5. CASE RoutePublish
  BY <1>5 DEF RoutePublish
<1>6. CASE RouteDown
  BY <1>6 DEF RouteDown
<1>7. CASE Deactivate
  BY <1>7 DEF Deactivate, Deselect
<1>8. CASE DeactivateFails
  BY <1>8 DEF DeactivateFails
<1>9. CASE Drop
  BY <1>9 DEF Drop
<1>10. CASE RouteClear
  BY <1>10 DEF RouteClear
<1>11. CASE CrossbarDown
  BY <1>11 DEF CrossbarDown, LinkDown
<1>12. CASE CrossbarUp
  BY <1>12 DEF CrossbarUp, Select, LinkUp
<1>13. CASE SetRate
  BY <1>13 DEF SetRate, RecordRate, LinkDown, ClockStarts, ClockFails
<1>14. ASSUME NEW name \in {"will", "did"}, Call(name) PROVE ClockInv'
  BY <1>14 DEF Call
<1>15. ASSUME NEW r \in Rates \cup {0}, CallRate(r) PROVE ClockInv'
  BY <1>15 DEF CallRate
<1>16. ASSUME NEW r \in Rates \cup {0}, PhyRate(r) PROVE ClockInv'
  BY <1>16 DEF PhyRate
<1>17. ASSUME NEW m \in {"tbt", "dp", "off"}, PhyMode(m) PROVE ClockInv'
  BY <1>17 DEF PhyMode
<1>18. CASE UNCHANGED vars
  BY <1>18 DEF vars
<1>19. QED
  BY <1>1, <1>2, <1>3, <1>4, <1>5, <1>6, <1>7, <1>8, <1>9, <1>10, <1>11,
     <1>12, <1>13, <1>14, <1>15, <1>16, <1>17, <1>18 DEF Next, Fabric, Apcall

\* The variables keep their types, late PHY modes and failures included.
THEOREM TunnelTypes == Spec => []TypeOK
<1>1. Init => TypeOK
  BY InitIInv DEF IInv
<1>2. TypeOK /\ [Next]_vars => TypeOK'
  BY TypeStep
<1>3. QED
  BY <1>1, <1>2, PTL DEF Spec

\* The inductive invariant holds in every behaviour of a stable system.
LEMMA TunnelInv == ASSUME Stable PROVE Spec => []IInv
<1>1. Init => IInv
  BY InitIInv
<1>2. IInv /\ [Next]_vars => IInv'
  <2>1. SUFFICES ASSUME IInv, [Next]_vars PROVE IInv'
    OBVIOUS
  <2>2. TypeOK'
    BY <2>1, TypeStep DEF IInv
  <2>3. RouteInv'
    BY <2>1, RouteStep DEF IInv
  <2>4. QED
    BY <2>1, <2>2, <2>3, ClockStep DEF IInv
<1>3. QED
  BY <1>1, <1>2, PTL DEF Spec

\* The crossbar never feeds a tunnel without a running pixel clock, for any set
\* of link rates (dcp_tunnel_crossbar_up, dcp_tunnel_set_rate).
THEOREM TunnelIsClocked == ASSUME Stable PROVE Spec => []GatesClocked
<1>1. IInv => GatesClocked
  BY DEF IInv, ClockInv, GatesClocked
<1>2. QED
  BY <1>1, TunnelInv, PTL

\* The tunnel pixel clock does not outlive the tunnel
\* (dcp_typec_route_deactivate against a SetLinkRate already under way).
THEOREM ClockDiesWithTunnel == ASSUME Stable PROVE Spec => []ClockOwned
<1>1. IInv => ClockOwned
  BY DEF IInv, ClockInv, ClockOwned
<1>2. QED
  BY <1>1, TunnelInv, PTL

\* The crossbar output's semaphore is released exactly as often as it is taken.
THEOREM SemaphoreIsBalanced == ASSUME Stable PROVE Spec => []MuxBalanced
<1>1. IInv => MuxBalanced
  BY DEF IInv, RouteInv, MuxBalanced
<1>2. QED
  BY <1>1, TunnelInv, PTL

\* Every bring-up of the crossbar finds the clock at the rate DCP asked for.
THEOREM BringUpsAreClocked == ASSUME Stable PROVE Spec => BringUpAtRate
<1> DEFINE Good == rtun /\ gates # "on" /\ gates' = "on" => clk = linkRate /\ clk # 0
<1>1. IInv /\ [Next]_vars => [Good]_vars
  <2>1. SUFFICES ASSUME IInv, [Next]_vars PROVE Good
    OBVIOUS
  <2> USE DEF IInv, TypeOK, RouteInv, ClockInv
  <2>2. QED
    BY <2>1 DEF Next, Fabric, Apcall, TunnelUp, AltUp, RouteSelect, RouteUndo,
         RoutePublish, RouteDown, Deactivate, DeactivateFails, Drop, RouteClear,
         Call, CrossbarDown, CrossbarUp, CallRate, PhyRate, SetRate, RecordRate,
         PhyMode, LinkDown, Deselect, xbar, vars
<1>2. QED
  BY <1>1, TunnelInv, PTL DEF Spec, BringUpAtRate

\* When a callback may be registered, without any assumption on the system: a
\* route being set up is not in tunnel operation yet, and a free port never is.
ScopeInv ==
  /\ CallbackScoped
  /\ pc \in {"select", "undo", "publish"} => owner = "none"
  /\ pc = "clear" => ~tun
  /\ owner = "none" => ~tun

\* The callback lives no longer than the tunnel, even if the PHY changes its mode
\* late and the crossbar cannot be deselected.
THEOREM CallbackIsScoped == Spec => []CallbackScoped
<1> USE DEF ScopeInv, CallbackScoped, route, xbar, phy, call
<1>1. Init => ScopeInv
  BY DEF Init
<1>2. ScopeInv /\ [Next]_vars => ScopeInv'
  <2> SUFFICES ASSUME ScopeInv, [Next]_vars PROVE ScopeInv'
    OBVIOUS
  <2>1. CASE TunnelUp
    BY <2>1 DEF TunnelUp
  <2>2. CASE AltUp
    BY <2>2 DEF AltUp
  <2>3. CASE RouteSelect
    BY <2>3 DEF RouteSelect
  <2>4. CASE RouteUndo
    BY <2>4 DEF RouteUndo
  <2>5. CASE RoutePublish
    BY <2>5 DEF RoutePublish
  <2>6. CASE RouteDown
    BY <2>6 DEF RouteDown
  <2>7. CASE Deactivate
    BY <2>7 DEF Deactivate
  <2>8. CASE DeactivateFails
    BY <2>8 DEF DeactivateFails
  <2>9. CASE Drop
    BY <2>9 DEF Drop
  <2>10. CASE RouteClear
    BY <2>10 DEF RouteClear
  <2>11. CASE CrossbarDown
    BY <2>11 DEF CrossbarDown
  <2>12. CASE CrossbarUp
    BY <2>12 DEF CrossbarUp
  <2>13. CASE SetRate
    BY <2>13 DEF SetRate, RecordRate
  <2>14. ASSUME NEW name \in {"will", "did"}, Call(name) PROVE ScopeInv'
    BY <2>14 DEF Call
  <2>15. ASSUME NEW r \in Rates \cup {0}, CallRate(r) PROVE ScopeInv'
    BY <2>15 DEF CallRate
  <2>16. ASSUME NEW r \in Rates \cup {0}, PhyRate(r) PROVE ScopeInv'
    BY <2>16 DEF PhyRate
  <2>17. ASSUME NEW m \in {"tbt", "dp", "off"}, PhyMode(m) PROVE ScopeInv'
    BY <2>17 DEF PhyMode
  <2>18. CASE UNCHANGED vars
    BY <2>18 DEF vars
  <2>19. QED
    BY <2>1, <2>2, <2>3, <2>4, <2>5, <2>6, <2>7, <2>8, <2>9, <2>10, <2>11,
       <2>12, <2>13, <2>14, <2>15, <2>16, <2>17, <2>18 DEF Next, Fabric, Apcall
<1>3. ScopeInv => CallbackScoped
  OBVIOUS
<1>4. QED
  BY <1>1, <1>2, <1>3, PTL DEF Spec
=============================================================================
