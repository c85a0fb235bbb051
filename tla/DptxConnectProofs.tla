-------------------------- MODULE DptxConnectProofs --------------------------
(***************************************************************************)
(* What DptxConnect promises for any number of retries and of displays     *)
(* plugged in, however DCP behaves and however early the timers expire:    *)
(* its types and locks (TypeOK), that a display just plugged in is asked   *)
(* for (NewDisplayIsAsked), that lanes once reported end the wait for them *)
(* (ReportIsHeard), and that nobody waits for what is nowhere (NeverStuck).*)
(* What depends on the releases that reach DCP is in DptxEpochProofs.      *)
(***************************************************************************)
EXTENDS DptxConnect, SequenceTheorems, TLAPS

\* What a plan or a queue has none of.
NoLanes(s)   == \A i \in DOMAIN s : s[i] # "lanes"
NoLanesIn(s) == \A i \in DOMAIN s : s[i].up # "lanes"
NoRelease(s) == \A i \in DOMAIN s : s[i].call.name # "release"

\* The bookkeeping of the two threads. While a route comes up, from the start of
\* its disconnect to the connect of its own, no attempt runs and none is due: what
\* the disconnect leaves released is released when that connect takes the mutex.
FlowInv ==
  /\ c.pc = "idle" => c = Resting
  /\ c.pc = "take" => c.step = 1
  /\ coming /\ t # "idle" => c = Resting /\ ~armed
  /\ coming /\ t \in {"route", "locked"} => ~connected
  /\ c.pc = "take" /\ c.who = "fabric" => ~connected
  /\ c.pc \in {"call", "sent"} => (connected <=> c.step = 4)
  /\ c.pc = "wait" => c.step = 4
  /\ c.pc \notin {"idle", "take"} => gen # 0
  /\ c.pc # "won" => got = 0
  /\ ans["C"] # "none" => c.pc \in {"sent", "undoing"}
  /\ ans["T"] # "none" => t = "sent"

\* From the reset to the end of the wait the completion holds what was reported, and
\* a wait that has run into its timeout, with no timer early, left no lanes to come.
HeardInv ==
  /\ c.pc \in {"call", "sent", "wait"} => linkcfg = told
  /\ c.pc = "drop" /\ ~late =>
       /\ told # gen
       /\ NoLanes(dcp.plan) /\ NoLanesIn(q) /\ h.up # "lanes"
       /\ \A i \in DOMAIN inbox : inbox[i].name # "hpd"

ConnectInv == TypeOK /\ FlowInv /\ HeardInv

-----------------------------------------------------------------------------
(* Sequences, calls and messages. *)

\* The four calls of a connect, and their names.
LEMMA StepFacts ==
  /\ DOMAIN Steps = 1..4
  /\ Steps[1] = "validate" /\ Steps[2] = "connect" /\ Steps[3] = "request" /\ Steps[4] = "hpd"
  /\ {Steps[i] : i \in DOMAIN Steps} = {"validate", "connect", "request", "hpd"}
<1>1. DOMAIN Steps = 1..4
  BY DEF Steps
<1>2. Steps[1] = "validate" /\ Steps[2] = "connect" /\ Steps[3] = "request" /\ Steps[4] = "hpd"
  BY DEF Steps
<1>3. \A i \in 1..4 : i = 1 \/ i = 2 \/ i = 3 \/ i = 4
  OBVIOUS
<1> QED
  BY <1>1, <1>2, <1>3

\* What appending one element does to a sequence.
LEMMA AppendFacts ==
  ASSUME NEW S, NEW s \in Seq(S), NEW e \in S
  PROVE  /\ Append(s, e) \in Seq(S)
         /\ Len(Append(s, e)) = Len(s) + 1 /\ Len(s) \in Nat
         /\ DOMAIN s = 1..Len(s)
         /\ DOMAIN Append(s, e) = 1..(Len(s) + 1)
         /\ Append(s, e)[Len(s) + 1] = e
         /\ \A i \in DOMAIN s : Append(s, e)[i] = s[i]
  BY AppendProperties, LenProperties

\* What taking the first element off a sequence does to it.
LEMMA TailFacts ==
  ASSUME NEW S, NEW s \in Seq(S), s # <<>>
  PROVE  /\ Head(s) \in S /\ Tail(s) \in Seq(S)
         /\ Len(s) \in Nat \ {0} /\ Len(Tail(s)) = Len(s) - 1
         /\ DOMAIN s = 1..Len(s)
         /\ 1 \in DOMAIN s /\ Head(s) = s[1]
         /\ DOMAIN Tail(s) = 1..(Len(s) - 1)
         /\ \A i \in DOMAIN Tail(s) : i + 1 \in DOMAIN s /\ Tail(s)[i] = s[i + 1]
  BY HeadTailProperties, LenProperties, EmptySeq

\* The calls, with their names spelt out.
LEMMA CallFacts ==
  ASSUME gen \in Nat
  PROVE  /\ Calls = {call \in [by : {"C", "T", Nobody}, gen : 0..gen,
                     name : {"validate", "connect", "request", "hpd", "release", "-"}] :
                       call.by = "T" => call.name = "release"}
         /\ NoCall \in Calls
         /\ \A name \in {"validate", "connect", "request", "hpd", "release"} :
              [by |-> "C", gen |-> gen, name |-> name] \in Calls
<1>1. Calls = {call \in [by : {"C", "T", Nobody}, gen : 0..gen,
                 name : {"validate", "connect", "request", "hpd"} \cup {"release", "-"}] :
                   call.by = "T" => call.name = "release"}
  <2>1. {Steps[i] : i \in DOMAIN Steps} = {"validate", "connect", "request", "hpd"}
    BY StepFacts
  <2> QED
    BY <2>1, Zenon DEF Calls
<1>2. NoCall \in Calls
  BY <1>1 DEF NoCall, Nobody
<1>3. ASSUME NEW name \in {"validate", "connect", "request", "hpd", "release"}
      PROVE  [by |-> "C", gen |-> gen, name |-> name] \in Calls
  BY <1>1
<1> QED
  BY <1>1, <1>2, <1>3

\* The three kinds of message are messages, and what each of them carries.
LEMMA MessageFacts ==
  ASSUME gen \in Nat
  PROVE  /\ Idle \in Messages /\ Idle.kind = "idle" /\ Idle.up = "-" /\ Idle.call = NoCall
         /\ \A call \in Calls, ok \in BOOLEAN :
              /\ Reply(call, ok) \in Messages
              /\ Reply(call, ok).kind = "reply" /\ Reply(call, ok).call = call
              /\ Reply(call, ok).up = "-"
         /\ \A up \in Upcalls, n \in 0..gen :
              /\ Upcall(up, n) \in Messages
              /\ Upcall(up, n).kind = "upcall" /\ Upcall(up, n).up = up
              /\ Upcall(up, n).call.gen = n /\ Upcall(up, n).call.name = "-"
<1>1. Idle \in Messages /\ Idle.kind = "idle" /\ Idle.up = "-" /\ Idle.call = NoCall
  BY CallFacts DEF Idle, Messages
<1>2. ASSUME NEW call \in Calls, NEW ok \in BOOLEAN
      PROVE  /\ Reply(call, ok) \in Messages
             /\ Reply(call, ok).kind = "reply" /\ Reply(call, ok).call = call
             /\ Reply(call, ok).up = "-"
  BY DEF Reply, Idle, Messages
<1>3. ASSUME NEW up \in Upcalls, NEW n \in 0..gen
      PROVE  /\ Upcall(up, n) \in Messages
             /\ Upcall(up, n).kind = "upcall" /\ Upcall(up, n).up = up
             /\ Upcall(up, n).call.gen = n /\ Upcall(up, n).call.name = "-"
  <2> DEFINE call == [NoCall EXCEPT !.gen = n]
  <2>1. Upcall(up, n) = [Idle EXCEPT !.kind = "upcall", !.up = up, !.call = call]
    BY DEF Upcall
  <2>2. call \in Calls /\ call.gen = n /\ call.name = "-"
    BY CallFacts DEF NoCall
  <2> HIDE DEF call
  <2> QED
    BY <2>1, <2>2 DEF Messages, Idle
<1> QED
  BY <1>1, <1>2, <1>3

\* TypeOK in the parts the lemmas speak of.
NumTyped ==
  /\ late \in BOOLEAN /\ cable \in BOOLEAN /\ route \in BOOLEAN
  /\ coming \in BOOLEAN /\ connected \in BOOLEAN /\ armed \in BOOLEAN
  /\ lost \in BOOLEAN
  /\ tries \in Nat /\ gen \in Nat /\ plugs \in 0..MaxPlugs
  /\ linkcfg \in 0..gen /\ told \in 0..gen /\ got \in 0..gen

ThreadTyped ==
  /\ c \in [pc : {"idle", "take", "call", "sent", "wait", "won", "drop", "undo", "undoing"},
            who : {"fabric", "work"}, step : 1..4]
  /\ t \in {"idle", "take", "sent", "route", "locked"}
  /\ ans \in [{"C", "T"} -> {"none", "ok", "err"}] /\ mute \subseteq {"C", "T"}

LockTyped ==
  /\ hpd = "C" <=> c.pc \in {"call", "sent", "undo", "undoing"}
  /\ hpd = "T" <=> t = "sent"
  /\ tb = "T" <=> t = "locked"
  /\ hpd \in {"C", "T", "none"} /\ tb \in {"T", "none"}

WireTyped ==
  /\ h \in Messages /\ q \in Seq(Messages) /\ inbox \in Seq(Calls)
  /\ dcp \in [call : Calls, plan : Seq(Upcalls), asked : BOOLEAN, display : BOOLEAN,
              for : 0..gen]

\* The parts make up TypeOK.
LEMMA TypeParts == TypeOK <=> NumTyped /\ ThreadTyped /\ LockTyped /\ WireTyped
  BY StepFacts DEF TypeOK, NumTyped, ThreadTyped, LockTyped, WireTyped, Nobody

\* The end of an attempt keeps the reconnect work's counters in range.
LEMMA FinishTyped ==
  ASSUME NumTyped, NEW ok \in BOOLEAN, Finish(ok)
  PROVE  armed' \in BOOLEAN /\ tries' \in Nat /\ c' = Resting
<1>1. armed' \in BOOLEAN
  BY Zenon DEF Finish, NumTyped
<1>2. tries' \in Nat
  BY DEF Finish, NumTyped
<1> QED
  BY <1>1, <1>2 DEF Finish

\* A message carries a call of an attempt that has begun.
LEMMA MessageParts ==
  ASSUME NumTyped, NEW m \in Messages
  PROVE  /\ m.kind \in {"idle", "reply", "upcall"} /\ m.call \in Calls
         /\ m.call.gen \in 0..gen
<1>1. m.kind \in {"idle", "reply", "upcall"} /\ m.call \in Calls
  BY DEF Messages
<1>2. \A call \in Calls : call.gen \in 0..gen
  BY DEF NumTyped, Calls
<1> QED
  BY <1>1, <1>2

\* Flags stay flags and counters stay in their ranges.
LEMMA NumStep ==
  ASSUME NumTyped, ThreadTyped, LockTyped, WireTyped, FlowInv, [Next]_vars
  PROVE  NumTyped'
<1> USE ConnectAssumption DEF vars, fabric, retry, locks, wait, wire, lanes, Nobody, NumTyped
<1>1. CASE Work
  BY <1>1 DEF Work
<1>2. CASE Take
  BY <1>2 DEF Take, TakeLeaving, Finish
<1>3. CASE Call
  BY <1>3 DEF Call
<1>4. CASE CallOk
  BY <1>4 DEF CallOk
<1>5. CASE CallFail
  <2>1. armed' \in BOOLEAN /\ tries' \in Nat
    BY <1>5, FinishTyped DEF CallFail, FailUndoing
  <2> QED
    BY <1>5, <2>1 DEF CallFail, FailUndoing
<1>6. CASE LanesUp
  BY <1>6 DEF LanesUp
<1>7. CASE Won
  BY <1>7 DEF Won, Finish
<1>8. CASE LanesExpire
  BY <1>8 DEF LanesExpire
<1>9. CASE Drop
  <2>1. armed' \in BOOLEAN /\ tries' \in Nat
    BY <1>9, FinishTyped DEF Drop
  <2> QED
    BY <1>9, <2>1 DEF Drop
<1>10. CASE Undo
  BY <1>10 DEF Undo
<1>11. CASE Undone
  <2>1. armed' \in BOOLEAN /\ tries' \in Nat
    BY <1>11, FinishTyped DEF Undone
  <2>2. lost' \in BOOLEAN
    BY <1>11 DEF Undone, ReleaseOver
  <2> QED
    BY <1>11, <2>1, <2>2 DEF Undone, ReleaseOver
<1>12. CASE Disconnect
  BY <1>12 DEF Disconnect, DisconnectWhen
<1>13. CASE Disconnected
  BY <1>13 DEF Disconnected, ReleaseOver
<1>14. CASE RouteLock
  BY <1>14 DEF RouteLock
<1>15. CASE RouteChange
  <2>1. cable' \in BOOLEAN /\ tries' \in Nat
    <3>1. CASE coming
      BY <1>15, <3>1 DEF RouteChange
    <3>2. CASE ~coming
      BY <1>15, <3>2 DEF RouteChange
    <3> QED
      BY <3>1, <3>2 DEF NumTyped
  <2>2. route' \in BOOLEAN
    BY <1>15 DEF RouteChange
  <2> QED
    BY <1>15, <2>1, <2>2 DEF RouteChange
<1>16. CASE Receive
  BY <1>16 DEF Receive
<1>17. CASE Deliver
  BY <1>17 DEF Deliver
<1>18. CASE Handle
  <2>1. h.call.gen \in 0..gen
    BY MessageParts DEF WireTyped
  <2> QED
    BY <1>18, <2>1 DEF Handle, HandleCompleting, NumTyped
<1>19. CASE DcpTake
  BY <1>19 DEF DcpTake
<1>20. CASE DcpAnswer
  BY <1>20 DEF DcpAnswer
<1>21. CASE DcpMute
  BY <1>21 DEF DcpMute
<1>22. CASE DcpAsk
  BY <1>22 DEF DcpAsk
<1>23. CASE DcpGiveUp
  BY <1>23 DEF DcpGiveUp
<1>24. CASE Plug
  BY <1>24 DEF Plug
<1>25. CASE Unplug
  BY <1>25 DEF Unplug
<1>26. CASE UNCHANGED vars
  BY <1>26
<1> QED
  BY <1>1, <1>2, <1>3, <1>4, <1>5, <1>6, <1>7, <1>8, <1>9, <1>10, <1>11, <1>12, <1>13, <1>14,
     <1>15, <1>16, <1>17, <1>18, <1>19, <1>20, <1>21, <1>22, <1>23, <1>24, <1>25, <1>26
  DEF Next, Connector, Rerouting, Queue, Talk, Training

\* The program counters and the answers stay in their ranges.
LEMMA ThreadStep ==
  ASSUME NumTyped, ThreadTyped, LockTyped, WireTyped, FlowInv, [Next]_vars
  PROVE  ThreadTyped'
<1> USE DEF vars, fabric, retry, locks, wait, wire, lanes, Nobody, ThreadTyped
<1>1. CASE Work
  <2>1. CASE cable
    <3>1. c' = [pc |-> "take", who |-> "work", step |-> 1]
      BY <1>1, <2>1 DEF Work, Resting
    <3>2. t' = t /\ ans' = ans /\ mute' = mute
      BY <1>1 DEF Work
    <3> QED
      BY <3>1, <3>2
  <2>2. CASE ~cable
    BY <1>1, <2>2 DEF Work
  <2> QED
    BY <2>1, <2>2
<1>2. CASE Take
  BY <1>2 DEF Take, TakeLeaving, Finish, Resting
<1>3. CASE Call
  BY <1>3 DEF Call
<1>4. CASE CallOk
  <2>1. CASE c.step < 4
    <3>1. c' = [c EXCEPT !.pc = "call", !.step = c.step + 1] /\ c.step + 1 \in 1..4
      BY <1>4, <2>1 DEF CallOk
    <3>2. c' \in [pc : {"call"}, who : {"fabric", "work"}, step : 1..4]
      BY <3>1
    <3> QED
      BY <1>4, <3>2 DEF CallOk, Resume
  <2>2. CASE c.step = 4
    BY <1>4, <2>2 DEF CallOk, Resume
  <2> QED
    BY <1>4, <2>1, <2>2 DEF CallOk
<1>5. CASE CallFail
  BY <1>5 DEF CallFail, FailUndoing, Finish, Resume, Resting
<1>6. CASE LanesUp
  BY <1>6 DEF LanesUp
<1>7. CASE Won
  BY <1>7 DEF Won, Finish, Resting
<1>8. CASE LanesExpire
  BY <1>8 DEF LanesExpire
<1>9. CASE Drop
  BY <1>9 DEF Drop, Finish, Resting
<1>10. CASE Undo
  BY <1>10 DEF Undo
<1>11. CASE Undone
  BY <1>11 DEF Undone, ReleaseOver, Resume, Finish, Resting
<1>12. CASE Disconnect
  BY <1>12 DEF Disconnect, DisconnectWhen
<1>13. CASE Disconnected
  BY <1>13 DEF Disconnected, ReleaseOver, Resume
<1>14. CASE RouteLock
  BY <1>14 DEF RouteLock
<1>15. CASE RouteChange
  BY <1>15 DEF RouteChange, Resting
<1>16. CASE Receive
  BY <1>16 DEF Receive
<1>17. CASE Deliver
  BY <1>17 DEF Deliver
<1>18. CASE Handle
  BY <1>18 DEF Handle, HandleCompleting
<1>19. CASE DcpTake
  BY <1>19 DEF DcpTake
<1>20. CASE DcpAnswer
  BY <1>20 DEF DcpAnswer
<1>21. CASE DcpMute
  <2>1. inbox # <<>> => Head(inbox) \in Calls
    BY TailFacts DEF WireTyped
  <2>2. dcp.call \in Calls
    BY DEF WireTyped
  <2>3. \A call \in Calls : Awaited(call) => call.by \in {"C", "T"}
    BY CallFacts DEF Awaited, NumTyped
  <2>4. mute' \subseteq {"C", "T"}
    BY <1>21, <2>1, <2>2, <2>3 DEF DcpMute
  <2> QED
    BY <1>21, <2>4 DEF DcpMute
<1>22. CASE DcpAsk
  BY <1>22 DEF DcpAsk
<1>23. CASE DcpGiveUp
  BY <1>23 DEF DcpGiveUp
<1>24. CASE Plug
  BY <1>24 DEF Plug
<1>25. CASE Unplug
  BY <1>25 DEF Unplug
<1>26. CASE UNCHANGED vars
  BY <1>26
<1> QED
  BY <1>1, <1>2, <1>3, <1>4, <1>5, <1>6, <1>7, <1>8, <1>9, <1>10, <1>11, <1>12, <1>13, <1>14,
     <1>15, <1>16, <1>17, <1>18, <1>19, <1>20, <1>21, <1>22, <1>23, <1>24, <1>25, <1>26
  DEF Next, Connector, Rerouting, Queue, Talk, Training

\* Each mutex is held by exactly the thread inside the section it guards.
LEMMA LockStep ==
  ASSUME NumTyped, ThreadTyped, LockTyped, WireTyped, FlowInv, [Next]_vars
  PROVE  LockTyped'
<1> USE DEF vars, fabric, retry, locks, wait, wire, lanes, Nobody, LockTyped
<1>1. CASE Work
  BY <1>1 DEF Work
<1>2. CASE Take
  BY <1>2 DEF Take, TakeLeaving, Finish, Resting, ThreadTyped
<1>3. CASE Call
  BY <1>3 DEF Call
<1>4. CASE CallOk
  BY <1>4 DEF CallOk, ThreadTyped
<1>5. CASE CallFail
  BY <1>5 DEF CallFail, FailUndoing, Finish, Resting, ThreadTyped
<1>6. CASE LanesUp
  BY <1>6 DEF LanesUp
<1>7. CASE Won
  BY <1>7 DEF Won, Finish, Resting
<1>8. CASE LanesExpire
  BY <1>8 DEF LanesExpire
<1>9. CASE Drop
  BY <1>9 DEF Drop, Finish, Resting, ThreadTyped
<1>10. CASE Undo
  BY <1>10 DEF Undo
<1>11. CASE Undone
  BY <1>11 DEF Undone, ReleaseOver, Finish, Resting
<1>12. CASE Disconnect
  BY <1>12 DEF Disconnect, DisconnectWhen
<1>13. CASE Disconnected
  BY <1>13 DEF Disconnected, ReleaseOver
<1>14. CASE RouteLock
  BY <1>14 DEF RouteLock
<1>15. CASE RouteChange
  BY <1>15 DEF RouteChange, Resting, FlowInv
<1>16. CASE Receive
  BY <1>16 DEF Receive
<1>17. CASE Deliver
  BY <1>17 DEF Deliver
<1>18. CASE Handle
  BY <1>18 DEF Handle, HandleCompleting
<1>19. CASE DcpTake
  BY <1>19 DEF DcpTake
<1>20. CASE DcpAnswer
  BY <1>20 DEF DcpAnswer
<1>21. CASE DcpMute
  BY <1>21 DEF DcpMute
<1>22. CASE DcpAsk
  BY <1>22 DEF DcpAsk
<1>23. CASE DcpGiveUp
  BY <1>23 DEF DcpGiveUp
<1>24. CASE Plug
  BY <1>24 DEF Plug
<1>25. CASE Unplug
  BY <1>25 DEF Unplug
<1>26. CASE UNCHANGED vars
  BY <1>26
<1> QED
  BY <1>1, <1>2, <1>3, <1>4, <1>5, <1>6, <1>7, <1>8, <1>9, <1>10, <1>11, <1>12, <1>13, <1>14,
     <1>15, <1>16, <1>17, <1>18, <1>19, <1>20, <1>21, <1>22, <1>23, <1>24, <1>25, <1>26
  DEF Next, Connector, Rerouting, Queue, Talk, Training

\* An attempt that begins makes more calls possible, never fewer.
LEMMA NewMessages ==
  ASSUME NumTyped, NumTyped', gen <= gen'
  PROVE  Calls \subseteq Calls' /\ Messages \subseteq Messages'
  BY DEF NumTyped, Calls, Messages

\* As long as no attempt begins, the possible calls are the same.
LEMMA SameMessages ==
  ASSUME gen' = gen
  PROVE  Calls' = Calls /\ Messages' = Messages
  BY DEF Calls, Messages

\* Taking the mutex begins an attempt or none.
LEMMA TakeGen ==
  ASSUME NumTyped, TakeLeaving(0)
  PROVE  gen <= gen'
<1>1. CASE gen' = gen + 1
  BY <1>1 DEF NumTyped
<1>2. CASE gen' = gen
  BY <1>2 DEF NumTyped
<1> QED
  BY <1>1, <1>2 DEF TakeLeaving

\* What DCP makes of the call it takes up.
LEMMA DcpTakeFacts ==
  ASSUME NumTyped, WireTyped, DcpTake
  PROVE  /\ dcp' \in [call : Calls, plan : Seq(Upcalls), asked : BOOLEAN, display : BOOLEAN,
                     for : 0..gen]
         /\ Head(inbox) \in Calls /\ dcp'.call = Head(inbox) /\ dcp'.asked = dcp.asked
         /\ Head(inbox).name = "request" =>
              dcp'.display /\ dcp'.for = Head(inbox).gen /\ NoLanes(dcp'.plan)
         /\ Head(inbox).name = "release" => ~dcp'.display /\ NoLanes(dcp'.plan)
         /\ Head(inbox).name \notin {"request", "release"} =>
              dcp'.display = dcp.display /\ dcp'.for = dcp.for
         /\ Head(inbox).name \notin {"request", "release", "hpd"} \/
            (Head(inbox).name = "hpd" /\ ~dcp.display) => dcp'.plan = dcp.plan
<1> DEFINE held == [dcp EXCEPT !.call = Head(inbox)]
<1>1. Head(inbox) \in Calls /\ Head(inbox).gen \in 0..gen
  <2>1. Head(inbox) \in Calls
    BY TailFacts DEF WireTyped, DcpTake
  <2> QED
    BY <2>1 DEF Calls
<1>2. /\ <<"rate", "lanes">> \in Seq(Upcalls)
      /\ NoLanes(<<"activate">>) /\ NoLanes(<<"deactivate">>) /\ NoLanes(<<>>)
      /\ <<"activate">> \in Seq(Upcalls) /\ <<"deactivate">> \in Seq(Upcalls)
      /\ <<>> \in Seq(Upcalls)
  BY DEF Upcalls, NoLanes
<1>3. dcp.plan \o <<"rate", "lanes">> \in Seq(Upcalls)
  BY <1>2, ConcatProperties DEF WireTyped
<1>4. /\ held \in [call : Calls, plan : Seq(Upcalls), asked : BOOLEAN, display : BOOLEAN,
                  for : 0..gen]
      /\ held.call = Head(inbox) /\ held.asked = dcp.asked /\ held.display = dcp.display
      /\ held.plan = dcp.plan /\ held.for = dcp.for
  BY <1>1 DEF WireTyped
<1>5. dcp' = CASE Head(inbox).name = "request" ->
                    [held EXCEPT !.display = TRUE, !.for = Head(inbox).gen,
                                 !.plan = <<"activate">>]
               [] Head(inbox).name = "hpd" /\ dcp.display ->
                    [held EXCEPT !.plan = dcp.plan \o <<"rate", "lanes">>]
               [] Head(inbox).name = "release" ->
                    [held EXCEPT !.display = FALSE, !.for = 0,
                                 !.plan = IF dcp.display THEN <<"deactivate">> ELSE <<>>]
               [] OTHER -> held
  BY <1>4 DEF DcpTake
<1> HIDE DEF held
<1>6. CASE Head(inbox).name = "request"
  <2>1. dcp' = [held EXCEPT !.display = TRUE, !.for = Head(inbox).gen,
                            !.plan = <<"activate">>]
    BY <1>5, <1>6
  <2>2. dcp'.plan = <<"activate">>
    BY <1>4, <2>1
  <2>3. NoLanes(dcp'.plan)
    BY <1>2, <2>2
  <2> QED
    BY <1>1, <1>2, <1>4, <1>6, <2>1, <2>3
<1>7. CASE Head(inbox).name = "hpd" /\ dcp.display
  <2>1. dcp' = [held EXCEPT !.plan = dcp.plan \o <<"rate", "lanes">>]
    BY <1>5, <1>7
  <2> QED
    BY <1>1, <1>3, <1>4, <1>7, <2>1
<1>8. CASE Head(inbox).name = "release"
  <2>1. dcp' = [held EXCEPT !.display = FALSE, !.for = 0,
                            !.plan = IF dcp.display THEN <<"deactivate">> ELSE <<>>]
    BY <1>5, <1>8
  <2>2. 0 \in 0..gen
    BY DEF NumTyped
  <2>3. dcp'.plan = <<"deactivate">> \/ dcp'.plan = <<>>
    BY <1>4, <2>1
  <2>4. NoLanes(dcp'.plan)
    BY <1>2, <2>3
  <2> QED
    BY <1>1, <1>2, <1>4, <1>8, <2>1, <2>2, <2>4
<1>9. CASE /\ Head(inbox).name \notin {"request", "release"}
           /\ ~(Head(inbox).name = "hpd" /\ dcp.display)
  <2>1. dcp' = held
    BY <1>5, <1>9
  <2> QED
    BY <1>1, <1>4, <1>9, <2>1
<1> QED
  BY <1>6, <1>7, <1>8, <1>9

\* Whom a reply wakes.
LEMMA DeliverFacts ==
  ASSUME NumTyped, ThreadTyped, WireTyped, Deliver
  PROVE  /\ ~Awaited(h.call) => ans' = ans
         /\ Awaited(h.call) => /\ h.call.by \in {"C", "T"}
                               /\ ans[h.call.by] = "none" /\ ans'[h.call.by] \in {"ok", "err"}
                               /\ \A w \in {"C", "T"} : w # h.call.by => ans'[w] = ans[w]
         /\ ans'["C"] # "none" => ans["C"] # "none" \/ c.pc \in {"sent", "undoing"}
         /\ ans'["T"] # "none" => ans["T"] # "none" \/ t = "sent"
<1>1. CASE ~Awaited(h.call)
  BY <1>1 DEF Deliver
<1>2. CASE Awaited(h.call)
  <2>1. ans' = [ans EXCEPT ![h.call.by] = IF h.ok THEN "ok" ELSE "err"]
    BY <1>2 DEF Deliver
  <2>2. \/ h.call.by = "C" /\ (c.pc = "sent" \/ c.pc = "undoing")
        \/ h.call.by = "T" /\ t = "sent"
    BY <1>2, Zenon DEF Awaited
  <2>3. ans[h.call.by] = "none"
    BY <1>2, Zenon DEF Awaited
  <2> QED
    BY <1>2, <2>1, <2>2, <2>3 DEF ThreadTyped
<1> QED
  BY <1>1, <1>2

\* What is queued, handled, on its way to DCP and held by DCP stays well-formed.
LEMMA WireStep ==
  ASSUME NumTyped, ThreadTyped, LockTyped, WireTyped, NumTyped', [Next]_vars
  PROVE  WireTyped'
<1> USE DEF vars, fabric, retry, locks, wait, wire, lanes, Nobody, WireTyped
<1>1. CASE Work
  BY <1>1, SameMessages DEF Work
<1>2. CASE Take
  <2>1. gen <= gen' /\ h' = h /\ q' = q /\ inbox' = inbox /\ dcp' = dcp
    BY <1>2, TakeGen DEF Take, TakeLeaving
  <2>2. Calls \subseteq Calls' /\ Messages \subseteq Messages' /\ 0..gen \subseteq (0..gen)'
    BY <2>1, NewMessages DEF NumTyped
  <2>3. h' \in Messages' /\ q' \in Seq(Messages') /\ inbox' \in Seq(Calls')
    BY <2>1, <2>2, SeqMonotonic
  <2>4. dcp' \in [call : Calls', plan : Seq(Upcalls), asked : BOOLEAN, display : BOOLEAN,
                  for : 0..gen']
    BY <2>1, <2>2
  <2> QED
    BY <2>3, <2>4
<1>3. CASE Call
  <2>1. Steps[c.step] \in {"validate", "connect", "request", "hpd"}
    BY StepFacts DEF ThreadTyped
  <2>2. [by |-> "C", gen |-> gen, name |-> Steps[c.step]] \in Calls
    <3>1. Steps[c.step] \in {"validate", "connect", "request", "hpd", "release"}
      BY <2>1
    <3> QED
      BY <3>1, CallFacts, Zenon DEF NumTyped
  <2>3. inbox' \in Seq(Calls)
    BY <1>3, <2>2, AppendFacts DEF Call, Send
  <2> QED
    BY <1>3, <2>3, SameMessages DEF Call
<1>4. CASE CallOk
  BY <1>4, SameMessages DEF CallOk
<1>5. CASE CallFail
  BY <1>5, SameMessages DEF CallFail, FailUndoing
<1>6. CASE LanesUp
  BY <1>6, SameMessages DEF LanesUp
<1>7. CASE Won
  BY <1>7, SameMessages DEF Won
<1>8. CASE LanesExpire
  BY <1>8, SameMessages DEF LanesExpire
<1>9. CASE Drop
  BY <1>9, SameMessages DEF Drop
<1>10. CASE Undo
  <2>1. [by |-> "C", gen |-> gen, name |-> "release"] \in Calls
    BY <1>10, CallFacts, StepFacts DEF Undo, NumTyped, ThreadTyped
  <2>2. inbox' \in Seq(Calls)
    BY <1>10, <2>1, AppendFacts DEF Undo, Send
  <2> QED
    BY <1>10, <2>2, SameMessages DEF Undo
<1>11. CASE Undone
  BY <1>11, SameMessages DEF Undone
<1>12. CASE Disconnect
  <2>1. CASE Send("T", "release")
    <3>1. [by |-> "T", gen |-> gen, name |-> "release"] \in Calls
      BY CallFacts DEF NumTyped
    <3>2. inbox' \in Seq(Calls)
      BY <2>1, <3>1, AppendFacts DEF Send
    <3> QED
      BY <1>12, <3>2, SameMessages DEF Disconnect, DisconnectWhen
  <2>2. CASE UNCHANGED inbox
    BY <1>12, <2>2, SameMessages DEF Disconnect, DisconnectWhen
  <2> QED
    BY <1>12, <2>1, <2>2 DEF Disconnect, DisconnectWhen
<1>13. CASE Disconnected
  BY <1>13, SameMessages DEF Disconnected
<1>14. CASE RouteLock
  BY <1>14, SameMessages DEF RouteLock
<1>15. CASE RouteChange
  BY <1>15, SameMessages DEF RouteChange
<1>16. CASE Receive
  <2>1. h' \in Messages /\ q' \in Seq(Messages)
    BY <1>16, TailFacts DEF Receive
  <2> QED
    BY <1>16, <2>1, SameMessages DEF Receive
<1>17. CASE Deliver
  <2>1. h' \in Messages
    BY <1>17, MessageFacts DEF Deliver, NumTyped
  <2> QED
    BY <1>17, <2>1, SameMessages DEF Deliver
<1>18. CASE Handle
  <2>1. h' \in Messages
    BY <1>18, MessageFacts DEF Handle, HandleCompleting, NumTyped
  <2> QED
    BY <1>18, <2>1, SameMessages DEF Handle, HandleCompleting
<1>19. CASE DcpTake
  <2>1. inbox' \in Seq(Calls)
    BY <1>19, TailFacts DEF DcpTake
  <2> QED
    BY <1>19, <2>1, DcpTakeFacts, SameMessages DEF DcpTake
<1>20. CASE DcpAnswer
  <2>1. q' \in Seq(Messages)
    BY <1>20, MessageFacts, AppendFacts DEF DcpAnswer, NumTyped
  <2>2. dcp' \in [call : Calls, plan : Seq(Upcalls), asked : BOOLEAN, display : BOOLEAN,
                  for : 0..gen]
    BY <1>20, CallFacts DEF DcpAnswer, NumTyped
  <2> QED
    BY <1>20, <2>1, <2>2, SameMessages DEF DcpAnswer
<1>21. CASE DcpMute
  <2>1. inbox' \in Seq(Calls)
    <3>1. CASE UNCHANGED inbox
      BY <3>1
    <3>2. CASE inbox # <<>> /\ inbox' = Tail(inbox)
      BY <3>2, TailFacts
    <3> QED
      BY <1>21, <3>1, <3>2 DEF DcpMute
  <2>2. dcp' \in [call : Calls, plan : Seq(Upcalls), asked : BOOLEAN, display : BOOLEAN,
                  for : 0..gen]
    BY <1>21, CallFacts DEF DcpMute, NumTyped
  <2> QED
    BY <1>21, <2>1, <2>2, SameMessages DEF DcpMute
<1>22. CASE DcpAsk
  <2>1. Head(dcp.plan) \in Upcalls /\ Tail(dcp.plan) \in Seq(Upcalls)
    BY <1>22, TailFacts DEF DcpAsk
  <2>2. q' \in Seq(Messages)
    BY <1>22, <2>1, MessageFacts, AppendFacts DEF DcpAsk, NumTyped
  <2>3. dcp' \in [call : Calls, plan : Seq(Upcalls), asked : BOOLEAN, display : BOOLEAN,
                  for : 0..gen]
    BY <1>22, <2>1 DEF DcpAsk
  <2> QED
    BY <1>22, <2>2, <2>3, SameMessages DEF DcpAsk
<1>23. CASE DcpGiveUp
  <2>1. <<"deactivate">> \in Seq(Upcalls)
    BY DEF Upcalls
  <2>2. dcp' \in [call : Calls, plan : Seq(Upcalls), asked : BOOLEAN, display : BOOLEAN,
                  for : 0..gen]
    BY <1>23, <2>1 DEF DcpGiveUp
  <2> QED
    BY <1>23, <2>2, SameMessages DEF DcpGiveUp
<1>24. CASE Plug
  BY <1>24, SameMessages DEF Plug
<1>25. CASE Unplug
  BY <1>25, SameMessages DEF Unplug
<1>26. CASE UNCHANGED vars
  BY <1>26, SameMessages
<1> QED
  BY <1>1, <1>2, <1>3, <1>4, <1>5, <1>6, <1>7, <1>8, <1>9, <1>10, <1>11, <1>12, <1>13, <1>14,
     <1>15, <1>16, <1>17, <1>18, <1>19, <1>20, <1>21, <1>22, <1>23, <1>24, <1>25, <1>26
  DEF Next, Connector, Rerouting, Queue, Talk, Training

\* No step breaks the bookkeeping of the two threads.
LEMMA FlowStep ==
  ASSUME NumTyped, ThreadTyped, LockTyped, WireTyped, FlowInv, [Next]_vars
  PROVE  FlowInv'
<1> USE DEF vars, fabric, retry, locks, wait, wire, lanes, Nobody, FlowInv
<1>1. CASE Work
  BY <1>1 DEF Work, Resting
<1>2. CASE Take
  BY <1>2 DEF Take, TakeLeaving, Finish, Resting, NumTyped, ThreadTyped
<1>3. CASE Call
  BY <1>3 DEF Call, Resting
<1>4. CASE CallOk
  <2>1. /\ c.pc = "sent" /\ ans' = [ans EXCEPT !["C"] = "none"]
        /\ gen' = gen /\ ~(coming /\ t # "idle")
    BY <1>4 DEF CallOk, Resume, Resting
  <2>2. CASE c.step < 4
    <3>1. c' = [c EXCEPT !.pc = "call", !.step = c.step + 1]
      BY <1>4, <2>2 DEF CallOk
    <3>2. c'.pc = "call" /\ c'.step = c.step + 1 /\ c'.who = c.who
      BY <3>1 DEF ThreadTyped
    <3>3. ~connected
      BY <2>1, <2>2
    <3>4. connected' <=> c.step = 3
      BY <1>4, <3>3, Zenon DEF CallOk
    <3>5. connected' <=> c'.step = 4
      BY <3>2, <3>4 DEF ThreadTyped
    <3>6. UNCHANGED <<coming, t, armed, got>>
      BY <1>4 DEF CallOk
    <3> QED
      BY <2>1, <3>2, <3>5, <3>6 DEF Resting, ThreadTyped
  <2>3. CASE c.step = 4
    <3>1. c'.pc = "wait" /\ c'.step = 4 /\ c'.who = c.who
      BY <1>4, <2>3 DEF CallOk, ThreadTyped
    <3> QED
      BY <1>4, <2>1, <2>3, <3>1 DEF CallOk, Resting, ThreadTyped
  <2> QED
    BY <1>4, <2>2, <2>3 DEF CallOk
<1>5. CASE CallFail
  BY <1>5 DEF CallFail, FailUndoing, Finish, Resume, Resting, ThreadTyped
<1>6. CASE LanesUp
  BY <1>6 DEF LanesUp, Resting
<1>7. CASE Won
  BY <1>7 DEF Won, Finish, Resting
<1>8. CASE LanesExpire
  BY <1>8 DEF LanesExpire, Resting
<1>9. CASE Drop
  BY <1>9 DEF Drop, Finish, Resting, ThreadTyped
<1>10. CASE Undo
  BY <1>10 DEF Undo, Resting
<1>11. CASE Undone
  BY <1>11 DEF Undone, ReleaseOver, Resume, Finish, Resting, ThreadTyped
<1>12. CASE Disconnect
  BY <1>12 DEF Disconnect, DisconnectWhen
<1>13. CASE Disconnected
  BY <1>13 DEF Disconnected, ReleaseOver, Resume, ThreadTyped, LockTyped
<1>14. CASE RouteLock
  BY <1>14 DEF RouteLock
<1>15. CASE RouteChange
  BY <1>15 DEF RouteChange, Resting
<1>16. CASE Receive
  BY <1>16 DEF Receive
<1>17. CASE Deliver
  <2>1. /\ ans'["C"] # "none" => ans["C"] # "none" \/ c.pc \in {"sent", "undoing"}
        /\ ans'["T"] # "none" => ans["T"] # "none" \/ t = "sent"
    BY <1>17, DeliverFacts
  <2> QED
    BY <1>17, <2>1 DEF Deliver, Resting
<1>18. CASE Handle
  BY <1>18 DEF Handle, HandleCompleting
<1>19. CASE DcpTake
  BY <1>19 DEF DcpTake
<1>20. CASE DcpAnswer
  BY <1>20 DEF DcpAnswer
<1>21. CASE DcpMute
  BY <1>21 DEF DcpMute
<1>22. CASE DcpAsk
  BY <1>22 DEF DcpAsk
<1>23. CASE DcpGiveUp
  BY <1>23 DEF DcpGiveUp
<1>24. CASE Plug
  BY <1>24 DEF Plug
<1>25. CASE Unplug
  BY <1>25 DEF Unplug
<1>26. CASE UNCHANGED vars
  BY <1>26
<1> QED
  BY <1>1, <1>2, <1>3, <1>4, <1>5, <1>6, <1>7, <1>8, <1>9, <1>10, <1>11, <1>12, <1>13, <1>14,
     <1>15, <1>16, <1>17, <1>18, <1>19, <1>20, <1>21, <1>22, <1>23, <1>24, <1>25, <1>26
  DEF Next, Connector, Rerouting, Queue, Talk, Training

\* The predicates on DCP's plan and on the queue survive taking an element off and
\* appending a harmless one.
LEMMA ListFacts ==
  ASSUME WireTyped
  PROVE  /\ NoLanes(dcp.plan) /\ dcp.plan # <<>> =>
              NoLanes(Tail(dcp.plan)) /\ Head(dcp.plan) # "lanes"
         /\ NoLanes(<<>>) /\ NoLanes(<<"activate">>) /\ NoLanes(<<"deactivate">>)
         /\ q # <<>> => /\ NoLanesIn(q) => NoLanesIn(Tail(q)) /\ Head(q).up # "lanes"
                        /\ NoRelease(q) => NoRelease(Tail(q)) /\ Head(q).call.name # "release"
         /\ \A m \in Messages :
              /\ NoLanesIn(q) /\ m.up # "lanes" => NoLanesIn(Append(q, m))
              /\ NoRelease(q) /\ m.call.name # "release" => NoRelease(Append(q, m))
<1> USE DEF NoLanes, NoLanesIn, NoRelease
<1>1. NoLanes(dcp.plan) /\ dcp.plan # <<>> =>
        NoLanes(Tail(dcp.plan)) /\ Head(dcp.plan) # "lanes"
  BY TailFacts DEF WireTyped
<1>2. NoLanes(<<>>) /\ NoLanes(<<"activate">>) /\ NoLanes(<<"deactivate">>)
  OBVIOUS
<1>3. ASSUME q # <<>>
      PROVE  /\ NoLanesIn(q) => NoLanesIn(Tail(q)) /\ Head(q).up # "lanes"
             /\ NoRelease(q) => NoRelease(Tail(q)) /\ Head(q).call.name # "release"
  <2>1. q \in Seq(Messages)
    BY DEF WireTyped
  <2> QED
    BY <1>3, <2>1, TailFacts
<1>4. ASSUME NEW m \in Messages
      PROVE  /\ NoLanesIn(q) /\ m.up # "lanes" => NoLanesIn(Append(q, m))
             /\ NoRelease(q) /\ m.call.name # "release" => NoRelease(Append(q, m))
  <2>1. q \in Seq(Messages)
    BY DEF WireTyped
  <2>2. /\ DOMAIN Append(q, m) = DOMAIN q \cup {Len(q) + 1}
        /\ Append(q, m)[Len(q) + 1] = m
        /\ \A i \in DOMAIN q : Append(q, m)[i] = q[i]
    BY <2>1, AppendFacts
  <2> QED
    BY <2>2
<1> QED
  BY <1>1, <1>2, <1>3, <1>4

\* The calls on their way to DCP, when one is taken and when one is sent.
LEMMA InboxFacts ==
  ASSUME WireTyped
  PROVE  /\ inbox # <<>> =>
              /\ Head(inbox) \in Calls /\ Head(inbox) = inbox[1] /\ 1 \in DOMAIN inbox
              /\ \A i \in DOMAIN Tail(inbox) : /\ i + 1 \in DOMAIN inbox
                                               /\ Tail(inbox)[i] = inbox[i + 1]
              /\ Len(inbox) \in Nat \ {0} /\ Len(Tail(inbox)) = Len(inbox) - 1
              /\ DOMAIN inbox = 1..Len(inbox) /\ DOMAIN Tail(inbox) = 1..(Len(inbox) - 1)
         /\ \A call \in Calls :
              /\ DOMAIN Append(inbox, call) = DOMAIN inbox \cup {Len(inbox) + 1}
              /\ Len(Append(inbox, call)) = Len(inbox) + 1
              /\ Append(inbox, call)[Len(inbox) + 1] = call
              /\ \A i \in DOMAIN inbox : Append(inbox, call)[i] = inbox[i]
<1>1. inbox \in Seq(Calls)
  BY DEF WireTyped
<1>2. ASSUME inbox # <<>>
      PROVE  /\ Head(inbox) \in Calls /\ Head(inbox) = inbox[1] /\ 1 \in DOMAIN inbox
             /\ \A i \in DOMAIN Tail(inbox) : /\ i + 1 \in DOMAIN inbox
                                              /\ Tail(inbox)[i] = inbox[i + 1]
             /\ Len(inbox) \in Nat \ {0} /\ Len(Tail(inbox)) = Len(inbox) - 1
             /\ DOMAIN inbox = 1..Len(inbox) /\ DOMAIN Tail(inbox) = 1..(Len(inbox) - 1)
  BY <1>1, <1>2, TailFacts
<1>3. ASSUME NEW call \in Calls
      PROVE  /\ DOMAIN Append(inbox, call) = DOMAIN inbox \cup {Len(inbox) + 1}
             /\ Len(Append(inbox, call)) = Len(inbox) + 1
             /\ Append(inbox, call)[Len(inbox) + 1] = call
             /\ \A i \in DOMAIN inbox : Append(inbox, call)[i] = inbox[i]
  BY <1>1, AppendFacts
<1> QED
  BY <1>2, <1>3

\* Under the mutex: nothing to do, or an attempt begins.
LEMMA TakeFacts ==
  ASSUME ThreadTyped, FlowInv, Take
  PROVE  \/ connected /\ c'.pc = "idle" /\ UNCHANGED <<hpd, lanes, gen>>
         \/ /\ ~connected /\ c'.pc = "call" /\ c'.step = 1 /\ hpd' = "C"
            /\ linkcfg' = 0 /\ told' = 0 /\ got' = got /\ gen' = gen + 1
<1>1. CASE connected
  BY <1>1 DEF Take, TakeLeaving, Finish, Resting
<1>2. CASE ~connected
  <2>1. c' = [c EXCEPT !.pc = "call"] /\ c.step = 1
    BY <1>2 DEF Take, TakeLeaving, FlowInv
  <2> QED
    BY <1>2, <2>1 DEF Take, TakeLeaving, ThreadTyped
<1> QED
  BY <1>1, <1>2

\* After a successful call: the next one, or the wait for the lanes.
LEMMA CallOkFacts ==
  ASSUME ThreadTyped, CallOk
  PROVE  /\ ans' = [ans EXCEPT !["C"] = "none"]
         /\ \/ c.step < 4 /\ c'.pc = "call" /\ c'.step = c.step + 1 /\ hpd' = hpd
            \/ c.step = 4 /\ c'.pc = "wait" /\ c'.step = c.step /\ hpd' = Nobody
<1>1. ans' = [ans EXCEPT !["C"] = "none"]
  BY DEF CallOk, Resume
<1>2. CASE c.step < 4
  <2>1. c' = [c EXCEPT !.pc = "call", !.step = c.step + 1]
    BY <1>2 DEF CallOk
  <2> QED
    BY <1>1, <1>2, <2>1 DEF CallOk, ThreadTyped
<1>3. CASE c.step = 4
  <2>1. c' = [c EXCEPT !.pc = "wait"]
    BY <1>3 DEF CallOk
  <2> QED
    BY <1>1, <1>3, <2>1 DEF CallOk, ThreadTyped
<1> QED
  BY <1>2, <1>3 DEF CallOk

\* After a failed call: the end, or the release.
LEMMA CallFailFacts ==
  ASSUME ThreadTyped, CallFail
  PROVE  /\ ans' = [ans EXCEPT !["C"] = "none"]
         /\ \/ c.step < 3 /\ c'.pc = "idle" /\ hpd' = Nobody
            \/ c.step >= 3 /\ c'.pc = "undo" /\ hpd' = hpd
<1>0. c.step \in 1..4
  BY DEF ThreadTyped
<1>1. ans' = [ans EXCEPT !["C"] = "none"]
  BY DEF CallFail, FailUndoing, Resume
<1>2. CASE c.step < 3
  <2>1. c' = Resting /\ hpd' = Nobody
    BY <1>2, <1>0 DEF CallFail, FailUndoing, Finish
  <2> QED
    BY <1>1, <1>2, <2>1 DEF Resting
<1>3. CASE c.step >= 3
  <2>1. c' = [c EXCEPT !.pc = "undo"] /\ hpd' = hpd
    BY <1>3, <1>0 DEF CallFail, FailUndoing, Finish, retry
  <2> QED
    BY <1>1, <1>3, <2>1 DEF ThreadTyped
<1> QED
  BY <1>0, <1>2, <1>3

\* After the timeout: the release, unless the fabric was there first.
LEMMA DropFacts ==
  ASSUME ThreadTyped, Drop
  PROVE  \/ connected /\ c'.pc = "undo" /\ hpd' = "C"
         \/ ~connected /\ c'.pc = "idle" /\ hpd' = hpd
<1>1. CASE connected
  <2>1. c' = [c EXCEPT !.pc = "undo"] /\ hpd' = "C"
    BY <1>1 DEF Drop
  <2> QED
    BY <1>1, <2>1 DEF ThreadTyped
<1>2. CASE ~connected
  BY <1>2 DEF Drop, Finish, Resting
<1> QED
  BY <1>1, <1>2

\* No step lets a wait for lanes end in its timeout although they were reported.
LEMMA HeardStep ==
  ASSUME NumTyped, ThreadTyped, LockTyped, WireTyped, FlowInv, HeardInv, [Next]_vars
  PROVE  HeardInv'
<1> USE DEF vars, fabric, retry, locks, wait, wire, lanes, Nobody, HeardInv
<1>1. CASE Work
  BY <1>1 DEF Work
<1>2. CASE Take
  <2>1. c'.pc # "drop"
    BY <1>2, TakeFacts
  <2> QED
    BY <1>2, <2>1, TakeFacts
<1>3. CASE Call
  BY <1>3 DEF Call
<1>4. CASE CallOk
  <2>1. c'.pc \in {"call", "wait"} /\ c.pc = "sent" /\ linkcfg' = linkcfg /\ told' = told
    BY <1>4, CallOkFacts DEF CallOk
  <2> QED
    BY <2>1
<1>5. CASE CallFail
  BY <1>5, CallFailFacts
<1>6. CASE LanesUp
  BY <1>6 DEF LanesUp
<1>7. CASE Won
  BY <1>7 DEF Won, Finish, Resting
<1>8. CASE LanesExpire
  <2>1. linkcfg = told /\ told # gen
    BY <1>8 DEF LanesExpire, FlowInv, NumTyped
  <2>2. ASSUME ~late
        PROVE  /\ NoLanes(dcp.plan) /\ NoLanesIn(q) /\ h.up # "lanes"
               /\ \A i \in DOMAIN inbox : inbox[i].name # "hpd"
    BY <1>8, <2>2 DEF LanesExpire, LanesComing, NoLanes, NoLanesIn
  <2> QED
    BY <1>8, <2>1, <2>2 DEF LanesExpire
<1>9. CASE Drop
  BY <1>9, DropFacts
<1>10. CASE Undo
  BY <1>10 DEF Undo
<1>11. CASE Undone
  BY <1>11 DEF Undone, Finish, Resting
<1>12. CASE Disconnect
  <2>1. CASE Send("T", "release")
    <3>1. [by |-> "T", gen |-> gen, name |-> "release"] \in Calls
      BY CallFacts DEF NumTyped
    <3> QED
      BY <1>12, <2>1, <3>1, InboxFacts DEF Disconnect, DisconnectWhen, Send
  <2>2. CASE UNCHANGED inbox
    BY <1>12, <2>2 DEF Disconnect, DisconnectWhen
  <2> QED
    BY <1>12, <2>1, <2>2 DEF Disconnect, DisconnectWhen
<1>13. CASE Disconnected
  BY <1>13 DEF Disconnected
<1>14. CASE RouteLock
  BY <1>14 DEF RouteLock
<1>15. CASE RouteChange
  BY <1>15 DEF RouteChange, Resting
<1>16. CASE Receive
  BY <1>16, ListFacts DEF Receive
<1>17. CASE Deliver
  BY <1>17, MessageFacts DEF Deliver, NumTyped
<1>18. CASE Handle
  BY <1>18, MessageFacts DEF Handle, HandleCompleting, NumTyped
<1>19. CASE DcpTake
  <2>1. ASSUME c.pc = "drop", ~late
        PROVE  NoLanes(dcp'.plan) /\ \A i \in DOMAIN inbox' : inbox'[i].name # "hpd"
    <3>1. inbox # <<>> /\ inbox' = Tail(inbox)
      BY <1>19 DEF DcpTake
    <3>2. Head(inbox).name # "hpd"
      BY <2>1, <3>1, InboxFacts
    <3>3. NoLanes(dcp'.plan)
      BY <1>19, <2>1, <3>2, DcpTakeFacts
    <3>4. \A i \in DOMAIN inbox' : inbox'[i].name # "hpd"
      <4> SUFFICES ASSUME NEW i \in DOMAIN inbox' PROVE inbox'[i].name # "hpd"
        OBVIOUS
      <4>1. i + 1 \in DOMAIN inbox /\ inbox'[i] = inbox[i + 1]
        BY <3>1, InboxFacts
      <4> QED
        BY <2>1, <4>1
    <3> QED
      BY <3>3, <3>4
  <2> QED
    BY <1>19, <2>1 DEF DcpTake
<1>20. CASE DcpAnswer
  <2>1. \A ok \in BOOLEAN : /\ Reply(dcp.call, ok) \in Messages
                            /\ Reply(dcp.call, ok).up # "lanes"
    BY MessageFacts DEF WireTyped, NumTyped
  <2>2. NoLanesIn(q) => NoLanesIn(q')
    BY <1>20, <2>1, ListFacts DEF DcpAnswer
  <2>3. dcp'.plan = dcp.plan
    BY <1>20 DEF DcpAnswer, WireTyped
  <2> QED
    BY <1>20, <2>2, <2>3 DEF DcpAnswer
<1>21. CASE DcpMute
  <2>1. dcp'.plan = dcp.plan
    BY <1>21 DEF DcpMute, WireTyped
  <2>2. CASE UNCHANGED inbox
    BY <1>21, <2>1, <2>2 DEF DcpMute
  <2>3. CASE inbox # <<>> /\ inbox' = Tail(inbox)
    <3>1. \A i \in DOMAIN inbox' : i + 1 \in DOMAIN inbox /\ inbox'[i] = inbox[i + 1]
      BY <2>3, InboxFacts
    <3> QED
      BY <1>21, <2>1, <3>1 DEF DcpMute
  <2> QED
    BY <1>21, <2>2, <2>3 DEF DcpMute
<1>22. CASE DcpAsk
  <2>1. NoLanes(dcp.plan) => NoLanes(dcp'.plan) /\ Head(dcp.plan) # "lanes"
    BY <1>22, ListFacts DEF DcpAsk, WireTyped
  <2>2. /\ Upcall(Head(dcp.plan), dcp.for) \in Messages
        /\ Upcall(Head(dcp.plan), dcp.for).up = Head(dcp.plan)
    BY <1>22, MessageFacts, TailFacts DEF DcpAsk, WireTyped, NumTyped
  <2>3. NoLanes(dcp.plan) /\ NoLanesIn(q) => NoLanesIn(q')
    BY <1>22, <2>1, <2>2, ListFacts DEF DcpAsk
  <2> QED
    BY <1>22, <2>1, <2>3 DEF DcpAsk
<1>23. CASE DcpGiveUp
  <2>1. NoLanes(dcp'.plan)
    BY <1>23, ListFacts DEF DcpGiveUp, WireTyped
  <2> QED
    BY <1>23, <2>1 DEF DcpGiveUp
<1>24. CASE Plug
  BY <1>24 DEF Plug
<1>25. CASE Unplug
  BY <1>25 DEF Unplug
<1>26. CASE UNCHANGED vars
  BY <1>26
<1> QED
  BY <1>1, <1>2, <1>3, <1>4, <1>5, <1>6, <1>7, <1>8, <1>9, <1>10, <1>11, <1>12, <1>13, <1>14,
     <1>15, <1>16, <1>17, <1>18, <1>19, <1>20, <1>21, <1>22, <1>23, <1>24, <1>25, <1>26
  DEF Next, Connector, Rerouting, Queue, Talk, Training

-----------------------------------------------------------------------------
(* The theorems. *)

\* At first nothing is connected, on its way, or waited for.
LEMMA ConnectInit ==
  ASSUME Init
  PROVE  ConnectInv
<1>1. gen = 0 /\ c = Resting /\ Resting.pc = "idle"
  BY DEF Init, Resting
<1>2. NumTyped /\ LockTyped
  <2>1. NumTyped
    <3>1. plugs = 0 /\ plugs \in 0..MaxPlugs
      BY ConnectAssumption DEF Init
    <3>2. linkcfg \in 0..gen /\ told \in 0..gen /\ got \in 0..gen
      BY <1>1 DEF Init
    <3>3. /\ late \in BOOLEAN /\ cable \in BOOLEAN /\ route \in BOOLEAN
          /\ coming \in BOOLEAN /\ connected \in BOOLEAN /\ armed \in BOOLEAN
          /\ lost \in BOOLEAN
      BY Zenon DEF Init
    <3> QED
      BY <1>1, <3>1, <3>2, <3>3 DEF Init, NumTyped
  <2>2. c.pc = "idle"
    BY <1>1
  <2> QED
    BY <2>1, <2>2 DEF Init, LockTyped, Nobody
<1>3. ThreadTyped
  BY DEF Init, ThreadTyped, Resting
<1>4. WireTyped
  <2>1. h \in Messages /\ NoCall \in Calls
    BY <1>1, MessageFacts, CallFacts DEF Init
  <2> QED
    BY <1>1, <2>1 DEF Init, WireTyped
<1>5. FlowInv /\ HeardInv
  BY <1>1 DEF Init, FlowInv, HeardInv
<1> QED
  BY <1>2, <1>3, <1>4, <1>5, TypeParts DEF ConnectInv

\* ConnectInv is inductive.
LEMMA ConnectStep ==
  ASSUME ConnectInv, [Next]_vars
  PROVE  ConnectInv'
<1>1. NumTyped /\ ThreadTyped /\ LockTyped /\ WireTyped /\ FlowInv /\ HeardInv
  BY TypeParts DEF ConnectInv
<1>2. NumTyped' /\ ThreadTyped' /\ LockTyped' /\ FlowInv' /\ HeardInv'
  BY <1>1, NumStep, ThreadStep, LockStep, FlowStep, HeardStep
<1>3. WireTyped'
  BY <1>1, <1>2, WireStep
<1>4. TypeOK'
  BY <1>2, <1>3, StepFacts
     DEF TypeOK, NumTyped, ThreadTyped, LockTyped, WireTyped, Nobody
<1> QED
  BY <1>2, <1>4 DEF ConnectInv

\* ConnectInv holds throughout.
THEOREM ConnectInvariant == Spec => []ConnectInv
<1>1. Init => ConnectInv
  BY ConnectInit
<1>2. ConnectInv /\ [Next]_vars => ConnectInv'
  BY ConnectStep
<1> QED
  BY <1>1, <1>2, PTL DEF Spec

\* Every variable keeps its type, the fabric calls DCP only to release, and
\* hpd_mutex and tb_lock are each held by exactly the thread inside the section
\* they guard (dcp_dptx_connect, dcp_dptx_disconnect, dcp_typec_route_activate).
THEOREM ConnectTypes == Spec => []TypeOK
<1>1. ConnectInv => TypeOK
  BY DEF ConnectInv
<1> QED
  BY <1>1, ConnectInvariant, PTL

\* The connect the fabric makes for a display just plugged in never finds the port
\* marked connected, so that dcp_dptx_connect never takes its early return there:
\* apple_dcp_tb_dp_tunnel disconnects before the route comes up.
THEOREM NewDisplaysAreAsked == Spec => []NewDisplayIsAsked
<1>1. ConnectInv => NewDisplayIsAsked
  BY DEF ConnectInv, FlowInv, NewDisplayIsAsked
<1> QED
  BY <1>1, ConnectInvariant, PTL

\* As long as no timer expires early, lanes DCP has reported since an attempt began
\* end its wait on linkcfg_completion before DPTX_CONNECT_TIMEOUT does.
THEOREM ReportsAreHeard == Spec => []ReportIsHeard
<1>1. ConnectInv => ReportIsHeard
  BY DEF ConnectInv, HeardInv, ReportIsHeard
<1> QED
  BY <1>1, ConnectInvariant, PTL

-----------------------------------------------------------------------------
(* Nobody waits for what is nowhere, and nothing stands still.              *)

\* A call is between its caller and its answer, or its answer is on the way back.
OnTheWay(call) ==
  \/ dcp.call = call
  \/ \E i \in DOMAIN inbox : inbox[i] = call
  \/ \E i \in DOMAIN q : q[i].kind = "reply" /\ q[i].call = call
  \/ h.kind = "reply" /\ h.call = call

Waiting(w) == IF w = "C" THEN c.pc \in {"sent", "undoing"} ELSE t = "sent"

\* Whoever waits for an answer has it, or DCP has dropped the call, or the call is on
\* its way, and its answer will be taken for what it is.
Remembered(w) ==
  Waiting(w) /\ ans[w] = "none" =>
    w \in mute \/ \E call \in Calls : call.by = w /\ Awaited(call) /\ OnTheWay(call)

\* Only replies and upcalls are queued, and an upcall that DCP waits for is queued or
\* being handled.
UpcallInv ==
  /\ h.kind = "idle" => h = Idle
  /\ \A i \in DOMAIN q : q[i].kind # "idle"
  /\ dcp.asked => h.kind = "upcall" \/ \E i \in DOMAIN q : q[i].kind = "upcall"

MoveInv == Remembered("C") /\ Remembered("T") /\ UpcallInv

\* The guards of the driver's and of DCP's actions: what can be done next although
\* nobody plugs or unplugs anything.
CanConnect ==
  \/ armed /\ c.pc = "idle"
  \/ c.pc \in {"take", "drop"} /\ hpd = Nobody
  \/ c.pc \in {"call", "won", "undo"}
  \/ c.pc \in {"sent", "undoing"} /\ (ans["C"] # "none" \/ Expired("C"))
  \/ c.pc = "wait" /\ (linkcfg # 0 \/ late \/ ~LanesComing)
CanReroute ==
  \/ t = "take" /\ hpd = Nobody
  \/ t = "sent" /\ (ans["T"] # "none" \/ Expired("T"))
  \/ t = "route" /\ tb \in {Nobody, "T"}
  \/ t = "locked"
CanServe ==
  \/ h = Idle /\ q # <<>>
  \/ h.kind = "reply"
  \/ h.kind = "upcall" /\ (h.up # "lanes" /\ route => tb = Nobody)
CanTalk ==
  \/ dcp.call = NoCall /\ inbox # <<>>
  \/ dcp.call # NoCall /\ ~dcp.asked
CanTrain == dcp.plan # <<>> /\ ~dcp.asked

NeverStuck == AtRest \/ CanConnect \/ CanReroute \/ CanServe \/ CanTalk \/ CanTrain

\* A call that is sent is on its way, and so is every other still.
LEMMA SentTravels ==
  ASSUME WireTyped, NEW w, NEW name, Send(w, name), UNCHANGED <<q, h, dcp, gen>>,
         [by |-> w, gen |-> gen, name |-> name] \in Calls
  PROVE  /\ OnTheWay([by |-> w, gen |-> gen, name |-> name])'
         /\ \A call \in Calls : OnTheWay(call) => OnTheWay(call)'
<1> DEFINE new == [by |-> w, gen |-> gen, name |-> name]
<1>1. /\ DOMAIN inbox' = DOMAIN inbox \cup {Len(inbox) + 1}
      /\ inbox'[Len(inbox) + 1] = new
      /\ \A i \in DOMAIN inbox : inbox'[i] = inbox[i]
  BY InboxFacts DEF Send
<1> HIDE DEF new
<1>2. OnTheWay(new)'
  <2>1. \E i \in DOMAIN inbox' : inbox'[i] = new'
    BY <1>1 DEF new
  <2> QED
    BY <2>1 DEF OnTheWay
<1>3. \A call \in Calls : OnTheWay(call) => OnTheWay(call)'
  BY <1>1 DEF OnTheWay
<1> QED
  BY <1>2, <1>3 DEF new

\* A call goes from the caller to DCP, and its answer through the queue: it leaves
\* this way only when it is delivered, or when DCP drops it.
LEMMA Travels ==
  ASSUME NumTyped, ThreadTyped, WireTyped, [Next]_vars,
         NEW call \in Calls, call.by # Nobody, OnTheWay(call)
  PROVE  \/ OnTheWay(call)'
         \/ Deliver /\ h.call = call
         \/ Awaited(call) => call.by \in mute'
<1> USE DEF vars, fabric, retry, locks, wait, wire, lanes
<1>1. CASE UNCHANGED wire
  BY <1>1 DEF OnTheWay
<1>2. CASE Call
  <2>1. [by |-> "C", gen |-> gen, name |-> Steps[c.step]] \in Calls
    <3>1. Steps[c.step] \in {"validate", "connect", "request", "hpd", "release"}
      BY StepFacts DEF ThreadTyped
    <3> QED
      BY <3>1, CallFacts, Zenon DEF NumTyped
  <2> QED
    BY <1>2, <2>1, SentTravels DEF Call
<1>3. CASE Undo
  <2>1. [by |-> "C", gen |-> gen, name |-> "release"] \in Calls
    BY CallFacts DEF NumTyped
  <2> QED
    BY <1>3, <2>1, SentTravels DEF Undo
<1>4. CASE Disconnect
  <2>1. [by |-> "T", gen |-> gen, name |-> "release"] \in Calls
    BY CallFacts DEF NumTyped
  <2>2. UNCHANGED <<q, h, dcp, gen>> /\ (Send("T", "release") \/ UNCHANGED inbox)
    BY <1>4 DEF Disconnect, DisconnectWhen
  <2> QED
    BY <1>1, <2>1, <2>2, SentTravels
<1>5. CASE Receive
  <2>1. /\ h = Idle /\ q # <<>> /\ h' = Head(q) /\ q' = Tail(q)
        /\ inbox' = inbox /\ dcp' = dcp
    BY <1>5 DEF Receive
  <2>2. CASE \E i \in DOMAIN q : q[i].kind = "reply" /\ q[i].call = call
    <3>1. PICK i \in DOMAIN q : q[i].kind = "reply" /\ q[i].call = call
      BY <2>2
    <3>2. CASE i = 1
      BY <2>1, <3>1, <3>2, TailFacts DEF WireTyped, OnTheWay
    <3>3. CASE i # 1
      <4>1. /\ i \in 1..Len(q) /\ Len(q) \in Nat
            /\ DOMAIN Tail(q) = 1..(Len(q) - 1)
            /\ \A j \in DOMAIN Tail(q) : Tail(q)[j] = q[j + 1]
        BY <2>1, <3>1, TailFacts DEF WireTyped
      <4>2. i - 1 \in DOMAIN q' /\ q'[i - 1] = q[i]
        BY <2>1, <3>3, <4>1
      <4> QED
        BY <3>1, <4>2 DEF OnTheWay
    <3> QED
      BY <3>2, <3>3
  <2>3. h.kind # "reply"
    BY <2>1, MessageFacts DEF NumTyped
  <2> QED
    BY <2>1, <2>2, <2>3 DEF OnTheWay
<1>6. CASE Deliver
  BY <1>6 DEF Deliver, OnTheWay
<1>7. CASE Handle
  <2>1. h.kind = "upcall" /\ dcp'.call = dcp.call /\ UNCHANGED <<q, inbox>>
    BY <1>7 DEF Handle, HandleCompleting, WireTyped
  <2> QED
    BY <2>1 DEF OnTheWay
<1>8. CASE DcpTake
  <2>1. /\ dcp.call = NoCall /\ inbox # <<>> /\ inbox' = Tail(inbox)
        /\ UNCHANGED <<q, h>> /\ dcp'.call = inbox[1]
    BY <1>8, DcpTakeFacts, InboxFacts DEF DcpTake
  <2>2. dcp.call # call
    BY <2>1 DEF NoCall
  <2>3. CASE \E i \in DOMAIN inbox : inbox[i] = call
    <3>1. PICK i \in DOMAIN inbox : inbox[i] = call
      BY <2>3
    <3>2. CASE i = 1
      BY <2>1, <3>1, <3>2 DEF OnTheWay
    <3>3. CASE i # 1
      <4>1. /\ i \in 1..Len(inbox) /\ Len(inbox) \in Nat
            /\ DOMAIN Tail(inbox) = 1..(Len(inbox) - 1)
            /\ \A j \in DOMAIN Tail(inbox) : Tail(inbox)[j] = inbox[j + 1]
        BY <2>1, <3>1, InboxFacts
      <4>2. i - 1 \in DOMAIN inbox' /\ inbox'[i - 1] = inbox[i]
        BY <2>1, <3>3, <4>1
      <4> QED
        BY <3>1, <4>2 DEF OnTheWay
    <3> QED
      BY <3>2, <3>3
  <2> QED
    BY <2>1, <2>2, <2>3 DEF OnTheWay
<1>9. CASE DcpAnswer
  <2>1. PICK ok \in BOOLEAN : q' = Append(q, Reply(dcp.call, ok))
    BY <1>9 DEF DcpAnswer
  <2>2. /\ Reply(dcp.call, ok) \in Messages
        /\ Reply(dcp.call, ok).kind = "reply" /\ Reply(dcp.call, ok).call = dcp.call
    BY MessageFacts DEF WireTyped, NumTyped
  <2>3. /\ DOMAIN q' = DOMAIN q \cup {Len(q) + 1}
        /\ q'[Len(q) + 1] = Reply(dcp.call, ok)
        /\ \A i \in DOMAIN q : q'[i] = q[i]
    BY <2>1, <2>2, AppendFacts DEF WireTyped
  <2>4. UNCHANGED <<h, inbox>>
    BY <1>9 DEF DcpAnswer
  <2> QED
    BY <2>2, <2>3, <2>4 DEF OnTheWay
<1>10. CASE DcpMute
  <2>1. UNCHANGED <<q, h>>
    BY <1>10 DEF DcpMute
  <2>2. CASE /\ dcp.call # NoCall /\ UNCHANGED inbox
             /\ mute' = IF Awaited(dcp.call) THEN mute \cup {dcp.call.by} ELSE mute
    <3>1. CASE dcp.call = call
      BY <2>2, <3>1
    <3>2. CASE dcp.call # call
      BY <2>1, <2>2, <3>2 DEF OnTheWay
    <3> QED
      BY <3>1, <3>2
  <2>3. CASE /\ inbox # <<>> /\ inbox' = Tail(inbox) /\ UNCHANGED dcp
             /\ mute' = IF Awaited(Head(inbox)) THEN mute \cup {Head(inbox).by} ELSE mute
    <3>1. CASE Head(inbox) = call
      BY <2>3, <3>1
    <3>2. ASSUME Head(inbox) # call, NEW i \in DOMAIN inbox, inbox[i] = call
          PROVE  OnTheWay(call)'
      <4>1. /\ i \in 1..Len(inbox) /\ Len(inbox) \in Nat /\ Head(inbox) = inbox[1]
            /\ DOMAIN Tail(inbox) = 1..(Len(inbox) - 1)
            /\ \A j \in DOMAIN Tail(inbox) : Tail(inbox)[j] = inbox[j + 1]
        BY <2>3, <3>2, InboxFacts
      <4>2. i - 1 \in DOMAIN inbox' /\ inbox'[i - 1] = inbox[i]
        BY <2>3, <3>2, <4>1
      <4> QED
        BY <3>2, <4>2 DEF OnTheWay
    <3> QED
      BY <2>1, <2>3, <3>1, <3>2 DEF OnTheWay
  <2> QED
    BY <1>10, <2>2, <2>3 DEF DcpMute
<1>11. CASE DcpAsk
  <2>1. Upcall(Head(dcp.plan), dcp.for) \in Messages
    BY <1>11, MessageFacts, TailFacts DEF DcpAsk, WireTyped, NumTyped
  <2>2. /\ DOMAIN q' = DOMAIN q \cup {Len(q) + 1}
        /\ \A i \in DOMAIN q : q'[i] = q[i]
    BY <1>11, <2>1, AppendFacts DEF DcpAsk, WireTyped
  <2>3. UNCHANGED <<h, inbox>> /\ dcp'.call = dcp.call
    BY <1>11 DEF DcpAsk, WireTyped
  <2> QED
    BY <2>2, <2>3 DEF OnTheWay
<1>12. CASE DcpGiveUp
  <2>1. UNCHANGED <<q, h, inbox>> /\ dcp'.call = dcp.call
    BY <1>12 DEF DcpGiveUp, WireTyped
  <2> QED
    BY <2>1 DEF OnTheWay
<1>13. CASE \/ Work \/ Take \/ CallOk \/ CallFail \/ LanesUp \/ Won \/ LanesExpire \/ Drop
            \/ Undone \/ Disconnected \/ RouteLock \/ RouteChange \/ Plug \/ Unplug
  BY <1>1, <1>13
  DEF Work, Take, TakeLeaving, CallOk, CallFail, FailUndoing, LanesUp, Won, LanesExpire, Drop,
      Undone, Disconnected, RouteLock, RouteChange, Plug, Unplug
<1> QED
  BY <1>1, <1>2, <1>3, <1>4, <1>5, <1>6, <1>7, <1>8, <1>9, <1>10, <1>11, <1>12, <1>13
  DEF Next, Connector, Rerouting, Queue, Talk, Training

\* A caller that goes on waiting, while no attempt begins, is not forgotten.
LEMMA WaitGoesOn ==
  ASSUME NumTyped, ThreadTyped, WireTyped, [Next]_vars, NEW w \in {"C", "T"}, Remembered(w),
         Waiting(w), ans[w] = "none", gen' = gen, w \in mute => w \in mute',
         w = "C" => c' = c, w = "T" => t' = t
  PROVE  Remembered(w)'
<1> SUFFICES ASSUME Waiting(w)', ans'[w] = "none", w \notin mute'
             PROVE  \E call \in Calls' : call.by = w /\ Awaited(call)' /\ OnTheWay(call)'
  BY DEF Remembered
<1>1. PICK call \in Calls : call.by = w /\ Awaited(call) /\ OnTheWay(call)
  BY DEF Remembered
<1>2. ~(Deliver /\ h.call = call)
  <2>1. Deliver /\ h.call = call => ans'[w] \in {"ok", "err"}
    BY <1>1, DeliverFacts
  <2> QED
    BY <2>1
<1>3. OnTheWay(call)'
  BY <1>1, <1>2, Travels DEF Nobody
<1>4. Awaited(call)'
  BY <1>1 DEF Awaited, Nobody
<1> QED
  BY <1>1, <1>3, <1>4, SameMessages

\* The connecting thread is never forgotten.
LEMMA CallerStep ==
  ASSUME NumTyped, ThreadTyped, LockTyped, WireTyped, FlowInv, Remembered("C"), [Next]_vars
  PROVE  Remembered("C")'
<1> USE DEF vars, fabric, retry, locks, wait, wire, lanes
<1>1. CASE \/ Work \/ Take \/ CallOk \/ CallFail \/ LanesUp \/ Won \/ LanesExpire \/ Drop
           \/ Undone
  <2>1. c'.pc \notin {"sent", "undoing"}
    <3>1. CASE Work
      BY <3>1 DEF Work, Resting, FlowInv
    <3>2. CASE Take
      BY <3>2, TakeFacts
    <3>3. CASE CallOk
      BY <3>3, CallOkFacts
    <3>4. CASE CallFail
      BY <3>4, CallFailFacts
    <3>5. CASE LanesUp
      BY <3>5 DEF LanesUp, ThreadTyped
    <3>6. CASE Won
      BY <3>6 DEF Won, Finish, Resting
    <3>7. CASE LanesExpire
      BY <3>7 DEF LanesExpire, ThreadTyped
    <3>8. CASE Drop
      BY <3>8, DropFacts
    <3>9. CASE Undone
      BY <3>9 DEF Undone, Finish, Resting
    <3> QED
      BY <1>1, <3>1, <3>2, <3>3, <3>4, <3>5, <3>6, <3>7, <3>8, <3>9
  <2> QED
    BY <2>1 DEF Remembered, Waiting
<1>2. CASE Call
  <2> DEFINE new == [by |-> "C", gen |-> gen, name |-> Steps[c.step]]
  <2>1. new \in Calls
    <3>1. Steps[c.step] \in {"validate", "connect", "request", "hpd", "release"}
      BY StepFacts DEF ThreadTyped
    <3> QED
      BY <3>1, CallFacts, Zenon DEF NumTyped
  <2>2. OnTheWay(new)'
    BY <1>2, <2>1, SentTravels DEF Call
  <2>3. c'.pc = "sent" /\ c'.step = c.step /\ gen' = gen
    BY <1>2 DEF Call, ThreadTyped
  <2>4. new' = new
    BY <2>3
  <2>5. ans'["C"] = "none" => Awaited(new)'
    BY <2>3, <2>4 DEF Awaited, Nobody
  <2> QED
    BY <2>1, <2>2, <2>3, <2>4, <2>5, SameMessages DEF Remembered
<1>3. CASE Undo
  <2> DEFINE new == [by |-> "C", gen |-> gen, name |-> "release"]
  <2>1. new \in Calls
    BY CallFacts DEF NumTyped
  <2>2. OnTheWay(new)'
    BY <1>3, <2>1, SentTravels DEF Undo
  <2>3. c'.pc = "undoing" /\ gen' = gen
    BY <1>3 DEF Undo, ThreadTyped
  <2>4. new' = new
    BY <2>3
  <2>5. ans'["C"] = "none" => Awaited(new)'
    BY <2>3, <2>4 DEF Awaited, Nobody
  <2> QED
    BY <2>1, <2>2, <2>3, <2>4, <2>5, SameMessages DEF Remembered
<1>4. CASE RouteChange
  <2>1. c' = c \/ c'.pc = "take"
    BY <1>4 DEF RouteChange, Resting
  <2>2. UNCHANGED <<gen, ans, mute>>
    BY <1>4 DEF RouteChange
  <2> QED
    BY <2>1, <2>2, WaitGoesOn DEF Remembered, Waiting
<1>5. CASE Deliver
  <2>1. UNCHANGED <<c, gen, mute>>
    BY <1>5 DEF Deliver
  <2>2. ans'["C"] = "none" => ans["C"] = "none"
    BY <1>5, DeliverFacts
  <2> QED
    BY <2>1, <2>2, WaitGoesOn DEF Remembered, Waiting
<1>6. CASE Disconnected
  <2>1. /\ UNCHANGED <<c, gen>> /\ mute' = mute \ {"T"}
        /\ ans' = [ans EXCEPT !["T"] = "none"]
    BY <1>6 DEF Disconnected, ReleaseOver, Resume
  <2>2. ans'["C"] = ans["C"]
    BY <2>1 DEF ThreadTyped
  <2> QED
    BY <2>1, <2>2, WaitGoesOn DEF Remembered, Waiting
<1>7. CASE DcpMute
  <2>1. UNCHANGED <<c, gen, ans>> /\ mute \subseteq mute'
    BY <1>7 DEF DcpMute
  <2> QED
    BY <2>1, WaitGoesOn DEF Remembered, Waiting
<1>8. CASE \/ Disconnect \/ RouteLock \/ Receive \/ Handle \/ DcpTake \/ DcpAnswer \/ DcpAsk
           \/ DcpGiveUp \/ Plug \/ Unplug \/ UNCHANGED vars
  <2>1. UNCHANGED <<c, gen, ans, mute>>
    BY <1>8
    DEF Disconnect, DisconnectWhen, RouteLock, Receive, Handle, HandleCompleting, DcpTake,
        DcpAnswer, DcpAsk, DcpGiveUp, Plug, Unplug
  <2> QED
    BY <2>1, WaitGoesOn DEF Remembered, Waiting
<1> QED
  BY <1>1, <1>2, <1>3, <1>4, <1>5, <1>6, <1>7, <1>8
  DEF Next, Connector, Rerouting, Queue, Talk, Training

\* Nor is the fabric: no attempt begins while it waits, since it holds hpd_mutex.
LEMMA ReleaserStep ==
  ASSUME NumTyped, ThreadTyped, LockTyped, WireTyped, FlowInv, Remembered("T"), [Next]_vars
  PROVE  Remembered("T")'
<1> USE DEF vars, fabric, retry, locks, wait, wire, lanes
<1>1. CASE Disconnect
  <2> DEFINE new == [by |-> "T", gen |-> gen, name |-> "release"]
  <2>1. new \in Calls
    BY CallFacts DEF NumTyped
  <2>2. gen' = gen /\ new' = new
    BY <1>1 DEF Disconnect, DisconnectWhen
  <2>3. CASE Send("T", "release") /\ t' = "sent"
    <3>1. OnTheWay(new)'
      BY <1>1, <2>1, <2>3, SentTravels DEF Disconnect, DisconnectWhen
    <3>2. ans'["T"] = "none" => Awaited(new)'
      BY <2>2, <2>3 DEF Awaited, Nobody
    <3> QED
      BY <2>1, <2>2, <3>1, <3>2, SameMessages DEF Remembered
  <2>4. CASE t' = "route"
    BY <2>4 DEF Remembered, Waiting
  <2> QED
    BY <1>1, <2>3, <2>4 DEF Disconnect, DisconnectWhen
<1>2. CASE Disconnected \/ RouteLock \/ RouteChange \/ Plug \/ Unplug
  BY <1>2 DEF Disconnected, RouteLock, RouteChange, Plug, Unplug, Remembered, Waiting
<1>3. CASE Take
  <2>1. t # "sent" /\ t' = t
    BY <1>3 DEF Take, TakeLeaving, LockTyped, Nobody
  <2> QED
    BY <2>1 DEF Remembered, Waiting
<1>4. CASE Deliver
  <2>1. UNCHANGED <<t, gen, mute>>
    BY <1>4 DEF Deliver
  <2>2. ans'["T"] = "none" => ans["T"] = "none"
    BY <1>4, DeliverFacts
  <2> QED
    BY <2>1, <2>2, WaitGoesOn DEF Remembered, Waiting
<1>5. CASE CallOk \/ CallFail \/ Undone
  <2>1. /\ UNCHANGED <<t, gen>> /\ mute' = mute \ {"C"}
        /\ ans' = [ans EXCEPT !["C"] = "none"]
    BY <1>5 DEF CallOk, CallFail, FailUndoing, Undone, ReleaseOver, Resume
  <2>2. ans'["T"] = ans["T"]
    BY <2>1 DEF ThreadTyped
  <2> QED
    BY <2>1, <2>2, WaitGoesOn DEF Remembered, Waiting
<1>6. CASE DcpMute
  <2>1. UNCHANGED <<t, gen, ans>> /\ mute \subseteq mute'
    BY <1>6 DEF DcpMute
  <2> QED
    BY <2>1, WaitGoesOn DEF Remembered, Waiting
<1>7. CASE \/ Work \/ Call \/ LanesUp \/ Won \/ LanesExpire \/ Drop \/ Undo
           \/ Receive \/ Handle \/ DcpTake \/ DcpAnswer \/ DcpAsk \/ DcpGiveUp
           \/ UNCHANGED vars
  <2>1. UNCHANGED <<t, gen, ans, mute>>
    BY <1>7
    DEF Work, Call, LanesUp, Won, LanesExpire, Drop, Undo, Receive, Handle, HandleCompleting,
        DcpTake, DcpAnswer, DcpAsk, DcpGiveUp
  <2> QED
    BY <2>1, WaitGoesOn DEF Remembered, Waiting
<1> QED
  BY <1>1, <1>2, <1>3, <1>4, <1>5, <1>6, <1>7
  DEF Next, Connector, Rerouting, Queue, Talk, Training

\* A message put at the end of the queue leaves those before it where they are.
LEMMA QueueGrows ==
  ASSUME WireTyped, NEW m \in Messages, q' = Append(q, m)
  PROVE  /\ DOMAIN q' = DOMAIN q \cup {Len(q) + 1}
         /\ q'[Len(q) + 1] = m
         /\ \A i \in DOMAIN q : q'[i] = q[i]
  BY AppendFacts DEF WireTyped

\* An upcall is waited for only while there is one.
LEMMA UpcallStep ==
  ASSUME NumTyped, WireTyped, UpcallInv, [Next]_vars
  PROVE  UpcallInv'
<1> USE DEF vars, fabric, retry, locks, wait, wire, lanes, UpcallInv
<1>1. CASE UNCHANGED <<q, h, dcp>>
  BY <1>1
<1>2. CASE Receive
  <2>1. h = Idle /\ q # <<>> /\ h' = Head(q) /\ q' = Tail(q) /\ dcp' = dcp
    BY <1>2 DEF Receive
  <2>2. /\ Len(q) \in Nat \ {0} /\ DOMAIN q = 1..Len(q) /\ Head(q) = q[1]
        /\ DOMAIN q' = 1..(Len(q) - 1)
        /\ \A i \in DOMAIN q' : q'[i] = q[i + 1]
    BY <2>1, TailFacts DEF WireTyped
  <2>3. h.kind # "upcall"
    BY <2>1, MessageFacts DEF NumTyped
  <2>4. \A i \in DOMAIN q' : q'[i].kind # "idle"
    BY <2>2
  <2>5. ASSUME NEW i \in DOMAIN q, q[i].kind = "upcall"
        PROVE  h'.kind = "upcall" \/ \E j \in DOMAIN q' : q'[j].kind = "upcall"
    <3>1. CASE i = 1
      BY <2>1, <2>2, <2>5, <3>1
    <3>2. CASE i # 1
      <4>1. i - 1 \in DOMAIN q' /\ q'[i - 1] = q[i]
        BY <2>2, <3>2
      <4> QED
        BY <2>5, <4>1
    <3> QED
      BY <3>1, <3>2
  <2>6. h'.kind # "idle"
    <3>1. 1 \in DOMAIN q
      BY <2>2
    <3> QED
      BY <2>1, <2>2, <3>1
  <2>7. dcp'.asked => h'.kind = "upcall" \/ \E j \in DOMAIN q' : q'[j].kind = "upcall"
    BY <2>1, <2>3, <2>5
  <2> QED
    BY <2>4, <2>6, <2>7
<1>3. CASE Deliver
  BY <1>3, MessageFacts DEF Deliver, NumTyped
<1>4. CASE Handle
  BY <1>4, MessageFacts DEF Handle, HandleCompleting, NumTyped, WireTyped
<1>5. CASE DcpTake
  BY <1>5, DcpTakeFacts DEF DcpTake
<1>6. CASE DcpAnswer
  <2>1. PICK ok \in BOOLEAN : q' = Append(q, Reply(dcp.call, ok))
    BY <1>6 DEF DcpAnswer
  <2>2. Reply(dcp.call, ok) \in Messages /\ Reply(dcp.call, ok).kind = "reply"
    BY MessageFacts DEF WireTyped, NumTyped
  <2>3. h' = h /\ dcp'.asked = dcp.asked
    BY <1>6 DEF DcpAnswer, WireTyped
  <2> QED
    BY <2>1, <2>2, <2>3, QueueGrows
<1>7. CASE DcpMute
  BY <1>7 DEF DcpMute, WireTyped
<1>8. CASE DcpAsk
  <2> DEFINE up == Upcall(Head(dcp.plan), dcp.for)
  <2>1. up \in Messages /\ up.kind = "upcall"
    BY <1>8, MessageFacts, TailFacts DEF DcpAsk, WireTyped, NumTyped
  <2>2. q' = Append(q, up) /\ h' = h
    BY <1>8 DEF DcpAsk
  <2> HIDE DEF up
  <2> QED
    BY <2>1, <2>2, QueueGrows
<1>9. CASE DcpGiveUp
  BY <1>9 DEF DcpGiveUp, WireTyped
<1>10. CASE \/ Work \/ Take \/ Call \/ CallOk \/ CallFail \/ LanesUp \/ Won \/ LanesExpire
            \/ Drop \/ Undo \/ Undone \/ Disconnect \/ Disconnected \/ RouteLock
            \/ RouteChange \/ Plug \/ Unplug
  BY <1>1, <1>10
  DEF Work, Take, TakeLeaving, Call, CallOk, CallFail, FailUndoing, LanesUp, Won, LanesExpire,
      Drop, Undo, Undone, Disconnect, DisconnectWhen, Disconnected, RouteLock, RouteChange,
      Plug, Unplug
<1> QED
  BY <1>1, <1>2, <1>3, <1>4, <1>5, <1>6, <1>7, <1>8, <1>9, <1>10
  DEF Next, Connector, Rerouting, Queue, Talk, Training

\* Who waits has somebody to wait for, and that one can go on: the queue's worker waits
\* only for the thread that changes the route, DCP for an upcall in the queue, a caller
\* for DCP, and a thread without the mutex for the other one.
LEMMA SomebodyMoves ==
  ASSUME ConnectInv, MoveInv
  PROVE  NeverStuck
<1> SUFFICES ASSUME ~CanConnect, ~CanReroute, ~CanServe, ~CanTalk, ~CanTrain
             PROVE  AtRest
  BY DEF NeverStuck
<1>1. NumTyped /\ ThreadTyped /\ LockTyped /\ WireTyped
  BY TypeParts DEF ConnectInv
<1>2. tb = Nobody
  BY <1>1 DEF CanReroute, LockTyped, Nobody
<1>3. h = Idle /\ q = <<>>
  <2>1. h.kind \in {"idle", "reply", "upcall"}
    BY <1>1 DEF WireTyped, Messages
  <2> QED
    BY <1>2, <2>1 DEF CanServe, MoveInv, UpcallInv
<1>4. h.kind = "idle" /\ h.up = "-"
  BY <1>3 DEF Idle
<1>5. ~dcp.asked
  BY <1>3, <1>4 DEF MoveInv, UpcallInv
<1>6. dcp.plan = <<>> /\ dcp.call = NoCall /\ inbox = <<>>
  BY <1>5 DEF CanTrain, CanTalk
<1>7. \A call : call.by \in {"C", "T"} => ~OnTheWay(call)
  BY <1>3, <1>4, <1>6 DEF OnTheWay, NoCall, Nobody
<1>8. t # "sent" /\ c.pc \notin {"sent", "undoing"}
  BY <1>7 DEF MoveInv, Remembered, Waiting, CanReroute, CanConnect, Expired
<1>9. hpd = Nobody
  BY <1>1, <1>8 DEF LockTyped, CanConnect, Nobody
<1>10. t = "idle"
  BY <1>1, <1>2, <1>8, <1>9 DEF CanReroute, ThreadTyped
<1>11. ~LanesComing
  BY <1>3, <1>4, <1>6 DEF LanesComing
<1>12. c.pc = "idle" /\ ~armed
  BY <1>1, <1>8, <1>9, <1>11 DEF CanConnect, ThreadTyped
<1> QED
  BY <1>3, <1>5, <1>6, <1>10, <1>12 DEF AtRest, ConnectInv, FlowInv

\* In no reachable state does everyone wait for everyone: whatever DCP drops, and
\* whichever timer runs out, the connect and its work, the change of route, the
\* queue or DCP can take a step, until all of them are at rest with every message
\* handled, every call ended and no lock held (dcp_dptx_connect, tb_lock in
\* dptxport_call's handlers, the ordered queue of afk.c). It is what QueueServed and
\* ConnectEnds have in common, for any number of tries and of displays.
THEOREM NothingStandsStill == Spec => []NeverStuck
<1>1. Init => MoveInv
  <2> SUFFICES ASSUME Init PROVE MoveInv
    OBVIOUS
  <2>1. c.pc = "idle" /\ t = "idle" /\ h = Idle /\ q = <<>> /\ ~dcp.asked
    BY DEF Init, Resting
  <2> QED
    BY <2>1 DEF MoveInv, Remembered, Waiting, UpcallInv
<1>2. ConnectInv /\ MoveInv /\ [Next]_vars => MoveInv'
  <2> SUFFICES ASSUME ConnectInv, MoveInv, [Next]_vars PROVE MoveInv'
    OBVIOUS
  <2>1. NumTyped /\ ThreadTyped /\ LockTyped /\ WireTyped /\ FlowInv
    BY TypeParts DEF ConnectInv
  <2> QED
    BY <2>1, CallerStep, ReleaserStep, UpcallStep DEF MoveInv
<1>3. ConnectInv /\ MoveInv => NeverStuck
  BY SomebodyMoves
<1> QED
  BY <1>1, <1>2, <1>3, ConnectInvariant, PTL DEF Spec
=============================================================================
