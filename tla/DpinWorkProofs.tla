--------------------------- MODULE DpinWorkProofs ---------------------------
(***************************************************************************)
(* What DpinWork promises for any set of adapters, any number of tries and *)
(* any number of tunnels. The safety properties are not inductive: they    *)
(* follow from IInv, which adds where the worker stands to what it has     *)
(* mapped, registered and handed over.                                     *)
(***************************************************************************)
EXTENDS DpinWork, TLAPS

InQueue(d) == \E i \in 1..Len(queue) : queue[i] = d

\* The mapping outlives the pointer only while the worker is unmapping.
MapInv == \A d \in Dpin :
  /\ regs[d] => mapped[d]
  /\ mapped[d] /\ ~regs[d] => cur = d /\ wpc = "unmap"
  /\ handed[d] => regs[d]

\* What the worker's place says about the adapter it works on.
PlaceInv ==
  /\ wpc \in {"connect", "activate", "oob", "retry", "disconnect", "release"} => regs[cur]
  /\ wpc = "activate" => owner = NoDpin /\ ctx = cur /\ ~tunnel /\ drm
  /\ wpc = "oob" => owner = cur /\ ctx = cur /\ drm
  /\ wpc \in {"disconnect", "release"} => owner = cur /\ drm
  /\ wpc \in {"clear", "unmap"} => ctx # cur /\ ~handed[cur]
  /\ wpc = "unmap" => ~regs[cur]

\* A registered callback belongs to the port's owner and to a loaded driver.
BindInv ==
  /\ ctx # NoDpin => drm /\ regs[ctx]
  /\ ctx # NoDpin /\ wpc # "activate" => owner = ctx
  /\ NothingForgotten
  /\ TunnelOwned

\* A DCP call in progress pins the callback, a handshake the tunnel as well.
CallInv ==
  /\ apc # "idle" => ctx = apcd /\ tunnel
  /\ apc = "handshake" => alive[apcd] /\ regs[apcd]

\* An adapter without a tunnel that still has something mapped is about to be
\* looked at: its hook is about to queue it, it is queued, or it is the one being
\* worked on.
QueueInv == \A d \in Dpin : ~alive[d] /\ regs[d] => due = d \/ InQueue(d) \/ cur = d

IInv == TypeOK /\ MapInv /\ PlaceInv /\ BindInv /\ CallInv /\ QueueInv

-----------------------------------------------------------------------------
(* Facts about the work queue.                                            *)

\* Queueing a work item queues it, and takes nothing out of the queue.
LEMMA EnqueueFacts ==
  ASSUME queue \in Seq(Dpin), NEW d \in Dpin, Enqueue(d)
  PROVE  /\ queue' \in Seq(Dpin)
         /\ InQueue(d)'
         /\ \A e \in Dpin : InQueue(e) => InQueue(e)'
  BY DEF Enqueue, InQueue

\* Taking the oldest item leaves every other one queued.
LEMMA TakeFacts ==
  ASSUME queue \in Seq(Dpin), queue # <<>>, queue' = Tail(queue)
  PROVE  /\ queue' \in Seq(Dpin)
         /\ Head(queue) \in Dpin
         /\ \A e \in Dpin : InQueue(e) => InQueue(e)' \/ e = Head(queue)
  BY DEF InQueue



\* A step that leaves queue, worker, tunnels and mappings alone keeps QueueInv.
LEMMA QueueKept ==
  ASSUME QueueInv, UNCHANGED <<queue, cur, alive, regs, due>>
  PROVE  QueueInv'
  BY DEF QueueInv, InQueue

(* The inductive invariant, one step per action.                           *)

\* The type invariant is inductive on its own.
LEMMA TypeStep == TypeOK /\ [Next]_vars => TypeOK'
<1> SUFFICES ASSUME TypeOK, [Next]_vars PROVE TypeOK'
  OBVIOUS
<1> USE DpinAssumption DEF TypeOK, Goto, cm, worker, glue, dcp, apcall, history
<1>1. ASSUME NEW d \in Dpin, TunnelUp(d) PROVE TypeOK'
  BY <1>1, SMTT(30) DEF TunnelUp, Labels
<1>2. ASSUME NEW d \in Dpin, PowerOff(d) PROVE TypeOK'
  BY <1>2, SMTT(30) DEF PowerOff, Labels
<1>3. ASSUME NEW d \in Dpin, TunnelDown(d) PROVE TypeOK'
  BY <1>3, SMTT(30) DEF TunnelDown, Labels
<1>4. ASSUME Take PROVE TypeOK'
  BY <1>4, TakeFacts, SMTT(30) DEF Take, Labels
<1>5. ASSUME Want PROVE TypeOK'
  BY <1>5, SMTT(30) DEF Want, Labels
<1>6. ASSUME Up PROVE TypeOK'
  <2>1. cur \in Dpin
    BY <1>6 DEF Up
  <2>2. regs' \in [Dpin -> BOOLEAN] /\ mapped' \in [Dpin -> BOOLEAN] /\ tries' \in Nat
    <3>1. \/ regs' = regs /\ mapped' = mapped /\ tries' = tries
          \/ /\ regs' = [regs EXCEPT ![cur] = TRUE] /\ tries' = 1
             /\ mapped' = [mapped EXCEPT ![cur] = TRUE]
      BY <1>6 DEF Up, glue
    <3>2. tries' \in Nat
      BY <3>1, SMT
    <3>3. QED BY <2>1, <3>1, <3>2, ZenonT(30)
  <2>3. wpc' \in {"failed", "connect"}
    BY <1>6 DEF Up
  <2>4. wpc' \in Labels /\ (wpc' = "idle" <=> cur' = NoDpin)
    BY <1>6, <2>3 DEF Up, Labels
  <2>5. QED
    BY <1>6, <2>2, <2>4, ZenonT(30) DEF Up
<1>7. ASSUME ConnectNoDevice PROVE TypeOK'
  BY <1>7, SMTT(30) DEF ConnectNoDevice, Labels
<1>8. ASSUME ConnectOwned PROVE TypeOK'
  BY <1>8, SMTT(30) DEF ConnectOwned, Labels
<1>9. ASSUME ConnectRefused PROVE TypeOK'
  BY <1>9, SMTT(30) DEF ConnectRefused, Labels
<1>10. ASSUME ConnectBind PROVE TypeOK'
  BY <1>10, SMTT(30) DEF ConnectBind, Labels
<1>11. ASSUME Activate PROVE TypeOK'
  <2>1. cur \in Dpin
    BY <1>11 DEF Activate
  <2>2. owner' \in Dpin \cup {NoDpin, AltMode} /\ ctx' \in Dpin \cup {NoDpin} /\ tunnel' \in BOOLEAN
    BY <1>11, <2>1 DEF Activate
  <2>3. wpc' \in Labels /\ (wpc' = "idle" <=> cur' = NoDpin)
    BY <1>11, <2>1 DEF Activate, Labels
  <2>4. QED
    BY <1>11, <2>2, <2>3, ZenonT(30) DEF Activate
<1>12. ASSUME Oob PROVE TypeOK'
  BY <1>12, SMTT(30) DEF Oob, Labels
<1>13. ASSUME Retry PROVE TypeOK'
  BY <1>13, SMTT(30) DEF Retry, Labels
<1>14. ASSUME Failed PROVE TypeOK'
  <2>1. refused' \in [Dpin -> BOOLEAN] /\ tries' \in Nat
    <3>1. refused' = refused \/ refused' = [refused EXCEPT ![cur] = TRUE]
      BY <1>14 DEF Failed
    <3>2. QED BY <1>14, <3>1, ZenonT(30) DEF Failed
  <2>2. cur' \in Dpin \cup {NoDpin}
    BY <1>14 DEF Failed
  <2>3. wpc' \in Labels /\ (wpc' = "idle" <=> cur' = NoDpin)
    BY <1>14 DEF Failed, Labels
  <2>4. QED
    BY <1>14, <2>1, <2>2, <2>3, ZenonT(30) DEF Failed
<1>15. ASSUME Down PROVE TypeOK'
  <2>1. handed' \in [Dpin -> BOOLEAN]
    <3>1. handed' = handed \/ handed' = [handed EXCEPT ![cur] = FALSE]
      BY <1>15 DEF Down
    <3>2. QED BY <3>1, ZenonT(30)
  <2>2. wpc' \in Labels /\ (wpc' = "idle" <=> cur' = NoDpin)
    BY <1>15 DEF Down, Labels
  <2>3. QED
    BY <1>15, <2>1, <2>2, ZenonT(30) DEF Down
<1>16. ASSUME Disconnect PROVE TypeOK'
  BY <1>16, SMTT(30) DEF Disconnect, Labels
<1>17. ASSUME Release PROVE TypeOK'
  <2>1. owner' \in Dpin \cup {NoDpin, AltMode} /\ ctx' \in Dpin \cup {NoDpin} /\ tunnel' \in BOOLEAN
    BY <1>17 DEF Release
  <2>2. handed' \in [Dpin -> BOOLEAN]
    BY <1>17, SMT DEF Release
  <2>3. wpc' \in Labels /\ (wpc' = "idle" <=> cur' = NoDpin)
    BY <1>17 DEF Release, Labels
  <2>4. QED
    BY <1>17, <2>1, <2>2, <2>3, ZenonT(30) DEF Release
<1>18. ASSUME Clear PROVE TypeOK'
  BY <1>18, SMTT(30) DEF Clear, Labels
<1>19. ASSUME Unmap PROVE TypeOK'
  BY <1>19, SMTT(30) DEF Unmap, Labels
<1>20. ASSUME ApcallEnter PROVE TypeOK'
  BY <1>20, SMTT(30) DEF ApcallEnter, Labels
<1>21. ASSUME ApcallLock PROVE TypeOK'
  BY <1>21, SMTT(30) DEF ApcallLock, Labels
<1>22. ASSUME ApcallDone PROVE TypeOK'
  BY <1>22, SMTT(30) DEF ApcallDone, Labels
<1>23. ASSUME AltModeOn PROVE TypeOK'
  BY <1>23, SMTT(30) DEF AltModeOn, Labels
<1>24. ASSUME AltModeOff PROVE TypeOK'
  BY <1>24, SMTT(30) DEF AltModeOff, Labels
<1>25. ASSUME DrmLoad PROVE TypeOK'
  BY <1>25, SMTT(30) DEF DrmLoad, Labels
<1>26. ASSUME DrmUnload PROVE TypeOK'
  <2>1. owner' \in Dpin \cup {NoDpin, AltMode} /\ ctx' \in Dpin \cup {NoDpin} /\ tunnel' \in BOOLEAN
    BY <1>26 DEF DrmUnload
  <2>2. QED
    BY <1>26, <2>1, ZenonT(30) DEF DrmUnload
<1>27. CASE UNCHANGED vars
  BY <1>27, SMT DEF vars
<1>0. ASSUME NEW d \in Dpin, due = d, Report PROVE TypeOK'
  BY <1>0, EnqueueFacts, SMTT(30) DEF Report, Labels
<1>30. Report => \E d \in Dpin : due = d
  BY DEF Report
<1>28. QED
  BY <1>1, <1>2, <1>3, <1>4, <1>5, <1>6, <1>7, <1>8, <1>9, <1>10, <1>11, <1>12, <1>13,
     <1>14, <1>15, <1>16, <1>17, <1>18, <1>19, <1>20, <1>21, <1>22, <1>23, <1>24, <1>25,
     <1>26, <1>27, <1>0, <1>30
  DEF Next, WorkerStep, Connect, ApcallStep

\* Every step of every party preserves IInv.
LEMMA InvStep == IInv /\ [Next]_vars => IInv'
<1> SUFFICES ASSUME IInv, [Next]_vars PROVE IInv'
  OBVIOUS
<1> USE DpinAssumption DEF IInv, TypeOK, MapInv, PlaceInv, BindInv, CallInv, QueueInv,
      NothingForgotten, TunnelOwned, Labels, Goto, cm, worker, glue, dcp, apcall, history
<1>1. ASSUME NEW d \in Dpin, TunnelUp(d) PROVE IInv'
  <2>1. TypeOK'
    BY TypeStep
  <2>2. MapInv'
    BY <1>1, SMT DEF TunnelUp, LockFree
  <2>3. PlaceInv'
    BY <1>1, SMT DEF TunnelUp, LockFree
  <2>4. BindInv'
    BY <1>1, SMT DEF TunnelUp, LockFree
  <2>5. CallInv'
    BY <1>1, SMT DEF TunnelUp, LockFree
  <2>6. QueueInv'
    <3>1. /\ UNCHANGED <<queue, regs, cur>> /\ due = NoDpin /\ due' = d
          /\ \A e \in Dpin : ~alive'[e] => ~alive[e] \/ e = d
      BY <1>1, SMT DEF TunnelUp
    <3>2. \A e \in Dpin : InQueue(e)' <=> InQueue(e)
      BY <3>1 DEF InQueue
    <3>3. QED BY <3>1, <3>2
  <2>7. QED BY <2>1, <2>2, <2>3, <2>4, <2>5, <2>6
<1>2. ASSUME NEW d \in Dpin, PowerOff(d) PROVE IInv'
  <2>1. TypeOK'
    BY TypeStep
  <2>2. MapInv'
    BY <1>2, SMT DEF PowerOff
  <2>3. PlaceInv'
    BY <1>2, SMT DEF PowerOff
  <2>4. BindInv'
    BY <1>2, SMT DEF PowerOff
  <2>5. CallInv'
    BY <1>2, SMT DEF PowerOff
  <2>6. QueueInv'
    BY <1>2, QueueKept DEF PowerOff
  <2>7. QED BY <2>1, <2>2, <2>3, <2>4, <2>5, <2>6
<1>3. ASSUME NEW d \in Dpin, TunnelDown(d) PROVE IInv'
  <2>1. TypeOK'
    BY TypeStep
  <2>2. MapInv'
    BY <1>3, SMT DEF TunnelDown, LockFree
  <2>3. PlaceInv'
    BY <1>3, SMT DEF TunnelDown, LockFree
  <2>4. BindInv'
    BY <1>3, SMT DEF TunnelDown, LockFree
  <2>5. CallInv'
    BY <1>3, SMT DEF TunnelDown, LockFree
  <2>6. QueueInv'
    <3>1. /\ UNCHANGED <<queue, regs, cur>> /\ due = NoDpin /\ due' = d
          /\ \A e \in Dpin : ~alive'[e] => ~alive[e] \/ e = d
      BY <1>3, SMT DEF TunnelDown
    <3>2. \A e \in Dpin : InQueue(e)' <=> InQueue(e)
      BY <3>1 DEF InQueue
    <3>3. QED BY <3>1, <3>2
  <2>7. QED BY <2>1, <2>2, <2>3, <2>4, <2>5, <2>6
<1>4. ASSUME Take PROVE IInv'
  <2>1. TypeOK'
    BY TypeStep
  <2>2. MapInv'
    BY <1>4, TakeFacts, SMT DEF Take
  <2>3. PlaceInv'
    BY <1>4, TakeFacts, SMT DEF Take
  <2>4. BindInv'
    BY <1>4, TakeFacts, SMT DEF Take
  <2>5. CallInv'
    BY <1>4, TakeFacts, SMT DEF Take
  <2>6. QueueInv'
    BY <1>4, TakeFacts, SMTT(30) DEF Take
  <2>7. QED BY <2>1, <2>2, <2>3, <2>4, <2>5, <2>6
<1>5. ASSUME Want PROVE IInv'
  <2>1. TypeOK'
    BY TypeStep
  <2>2. MapInv'
    BY <1>5, SMT DEF Want, LockFree
  <2>3. PlaceInv'
    BY <1>5, SMT DEF Want, LockFree
  <2>4. BindInv'
    BY <1>5, SMT DEF Want, LockFree
  <2>5. CallInv'
    BY <1>5, SMT DEF Want, LockFree
  <2>6. QueueInv'
    <3>1. SUFFICES ASSUME NEW d \in Dpin, ~alive[d], regs[d]
                  PROVE  due' = d \/ InQueue(d)' \/ cur' = d
      BY <1>5, SMT DEF Want
    <3>2. InQueue(d)' <=> InQueue(d)
      BY <1>5 DEF Want, InQueue
    <3>3. (due = d \/ InQueue(d) \/ cur = d) /\ due' = due
      BY <1>5, <3>1 DEF Want
    <3>4. cur = d => cur' = cur
      BY <1>5, <3>1, SMT DEF Want
    <3>5. QED BY <3>2, <3>3, <3>4
  <2>7. QED BY <2>1, <2>2, <2>3, <2>4, <2>5, <2>6
<1>6. ASSUME Up PROVE IInv'
  <2>1. TypeOK'
    BY TypeStep
  <2>2. MapInv'
    BY <1>6, SMTT(30) DEF Up
  <2>3. PlaceInv'
    BY <1>6, SMT DEF Up, LockFree
  <2>4. BindInv'
    <3>1. cur \in Dpin
      BY <1>6 DEF Up
    <3>2. \A d \in Dpin : regs[d] => regs'[d]
      <4>1. regs' = regs \/ regs' = [regs EXCEPT ![cur] = TRUE]
        BY <1>6 DEF Up
      <4>2. regs \in [Dpin -> BOOLEAN]
        OBVIOUS
      <4>3. QED BY <4>1, <4>2, ZenonT(30)
    <3>3. wpc' \notin {"activate", "oob"} /\ cur' = cur
      BY <1>6 DEF Up
    <3>4. handed' = handed /\ ctx' = ctx /\ owner' = owner /\ tunnel' = tunnel /\ drm' = drm
      BY <1>6 DEF Up
    <3>5. wpc \notin {"activate", "oob"}
      BY <1>6 DEF Up
    <3>6. QED BY <3>2, <3>3, <3>4, <3>5, SMT
  <2>5. CallInv'
    BY <1>6, SMT DEF Up, LockFree
  <2>6. QueueInv'
    BY <1>6, SMTT(30) DEF Up, InQueue
  <2>7. QED BY <2>1, <2>2, <2>3, <2>4, <2>5, <2>6
<1>7. ASSUME ConnectNoDevice PROVE IInv'
  <2>1. TypeOK'
    BY TypeStep
  <2>2. MapInv'
    BY <1>7, SMT DEF ConnectNoDevice
  <2>3. PlaceInv'
    BY <1>7, SMT DEF ConnectNoDevice
  <2>4. BindInv'
    BY <1>7, SMT DEF ConnectNoDevice
  <2>5. CallInv'
    BY <1>7, SMT DEF ConnectNoDevice
  <2>6. QueueInv'
    BY <1>7, QueueKept DEF ConnectNoDevice
  <2>7. QED BY <2>1, <2>2, <2>3, <2>4, <2>5, <2>6
<1>8. ASSUME ConnectOwned PROVE IInv'
  <2>1. TypeOK'
    BY TypeStep
  <2>2. MapInv'
    BY <1>8, SMT DEF ConnectOwned
  <2>3. PlaceInv'
    BY <1>8, SMT DEF ConnectOwned
  <2>4. BindInv'
    BY <1>8, SMT DEF ConnectOwned
  <2>5. CallInv'
    BY <1>8, SMT DEF ConnectOwned
  <2>6. QueueInv'
    BY <1>8, QueueKept DEF ConnectOwned
  <2>7. QED BY <2>1, <2>2, <2>3, <2>4, <2>5, <2>6
<1>9. ASSUME ConnectRefused PROVE IInv'
  <2>1. TypeOK'
    BY TypeStep
  <2>2. MapInv'
    BY <1>9, SMT DEF ConnectRefused
  <2>3. PlaceInv'
    BY <1>9, SMT DEF ConnectRefused
  <2>4. BindInv'
    BY <1>9, SMT DEF ConnectRefused
  <2>5. CallInv'
    BY <1>9, SMT DEF ConnectRefused
  <2>6. QueueInv'
    BY <1>9, QueueKept DEF ConnectRefused
  <2>7. QED BY <2>1, <2>2, <2>3, <2>4, <2>5, <2>6
<1>10. ASSUME ConnectBind PROVE IInv'
  <2>1. TypeOK'
    BY TypeStep
  <2>2. MapInv'
    BY <1>10, SMT DEF ConnectBind, LockFree, TbLockFree
  <2>3. PlaceInv'
    BY <1>10, SMT DEF ConnectBind, LockFree, TbLockFree
  <2>4. BindInv'
    BY <1>10, SMT DEF ConnectBind, LockFree, TbLockFree
  <2>5. CallInv'
    BY <1>10, SMT DEF ConnectBind, LockFree, TbLockFree
  <2>6. QueueInv'
    BY <1>10, QueueKept DEF ConnectBind
  <2>7. QED BY <2>1, <2>2, <2>3, <2>4, <2>5, <2>6
<1>11. ASSUME Activate PROVE IInv'
  <2>1. TypeOK'
    BY TypeStep
  <2>2. MapInv'
    BY <1>11, SMT DEF Activate, LockFree, TbLockFree
  <2>3. PlaceInv'
    BY <1>11, SMT DEF Activate, LockFree, TbLockFree
  <2>4. BindInv'
    BY <1>11, SMT DEF Activate, LockFree, TbLockFree
  <2>5. CallInv'
    BY <1>11, SMT DEF Activate, LockFree, TbLockFree
  <2>6. QueueInv'
    BY <1>11, QueueKept DEF Activate
  <2>7. QED BY <2>1, <2>2, <2>3, <2>4, <2>5, <2>6
<1>12. ASSUME Oob PROVE IInv'
  <2>1. TypeOK'
    BY TypeStep
  <2>2. MapInv'
    BY <1>12, SMT DEF Oob
  <2>3. PlaceInv'
    BY <1>12, SMT DEF Oob
  <2>4. BindInv'
    BY <1>12, SMT DEF Oob
  <2>5. CallInv'
    BY <1>12, SMT DEF Oob
  <2>6. QueueInv'
    BY <1>12, QueueKept DEF Oob
  <2>7. QED BY <2>1, <2>2, <2>3, <2>4, <2>5, <2>6
<1>13. ASSUME Retry PROVE IInv'
  <2>1. TypeOK'
    BY TypeStep
  <2>2. MapInv'
    BY <1>13, SMT DEF Retry, LockFree
  <2>3. PlaceInv'
    BY <1>13, SMT DEF Retry, LockFree
  <2>4. BindInv'
    BY <1>13, SMT DEF Retry, LockFree
  <2>5. CallInv'
    BY <1>13, SMT DEF Retry, LockFree
  <2>6. QueueInv'
    BY <1>13, QueueKept DEF Retry
  <2>7. QED BY <2>1, <2>2, <2>3, <2>4, <2>5, <2>6
<1>14. ASSUME Failed PROVE IInv'
  <2>1. TypeOK'
    BY TypeStep
  <2>2. MapInv'
    BY <1>14, SMT DEF Failed, LockFree
  <2>3. PlaceInv'
    BY <1>14, SMT DEF Failed, LockFree
  <2>4. BindInv'
    BY <1>14, SMT DEF Failed, LockFree
  <2>5. CallInv'
    BY <1>14, SMT DEF Failed, LockFree
  <2>6. QueueInv'
    <3>1. SUFFICES ASSUME NEW d \in Dpin, ~alive[d], regs[d]
                  PROVE  due' = d \/ InQueue(d)' \/ cur' = d
      BY <1>14, SMT DEF Failed
    <3>2. InQueue(d)' <=> InQueue(d)
      BY <1>14 DEF Failed, InQueue
    <3>3. (due = d \/ InQueue(d) \/ cur = d) /\ due' = due
      BY <1>14, <3>1 DEF Failed
    <3>4. cur = d => cur' = cur
      BY <1>14, <3>1, SMT DEF Failed
    <3>5. QED BY <3>2, <3>3, <3>4
  <2>7. QED BY <2>1, <2>2, <2>3, <2>4, <2>5, <2>6
<1>15. ASSUME Down PROVE IInv'
  <2>1. TypeOK'
    BY TypeStep
  <2>2. MapInv'
    <3>1. cur \in Dpin
      BY <1>15 DEF Down
    <3>2. handed' \in [Dpin -> BOOLEAN] /\ \A d \in Dpin : handed'[d] => handed[d]
      <4>1. handed' = handed \/ handed' = [handed EXCEPT ![cur] = FALSE]
        BY <1>15 DEF Down
      <4>2. QED BY <4>1, <3>1, ZenonT(30)
    <3>3. regs' = regs /\ mapped' = mapped /\ cur' = cur /\ wpc # "unmap"
      BY <1>15 DEF Down
    <3>4. QED BY <3>2, <3>3, SMT
  <2>3. PlaceInv'
    BY <1>15, SMT DEF Down
  <2>4. BindInv'
    BY <1>15, SMT DEF Down
  <2>5. CallInv'
    BY <1>15, SMT DEF Down
  <2>6. QueueInv'
    BY <1>15, QueueKept DEF Down
  <2>7. QED BY <2>1, <2>2, <2>3, <2>4, <2>5, <2>6
<1>16. ASSUME Disconnect PROVE IInv'
  <2>1. TypeOK'
    BY TypeStep
  <2>2. MapInv'
    BY <1>16, SMT DEF Disconnect
  <2>3. PlaceInv'
    BY <1>16, SMT DEF Disconnect
  <2>4. BindInv'
    BY <1>16, SMT DEF Disconnect
  <2>5. CallInv'
    BY <1>16, SMT DEF Disconnect
  <2>6. QueueInv'
    BY <1>16, QueueKept DEF Disconnect
  <2>7. QED BY <2>1, <2>2, <2>3, <2>4, <2>5, <2>6
<1>17. ASSUME Release PROVE IInv'
  <2>1. TypeOK'
    BY TypeStep
  <2>2. MapInv'
    BY <1>17, SMT DEF Release, LockFree, TbLockFree
  <2>3. PlaceInv'
    BY <1>17, SMT DEF Release, LockFree, TbLockFree
  <2>4. BindInv'
    BY <1>17, SMT DEF Release, LockFree, TbLockFree
  <2>5. CallInv'
    BY <1>17, SMT DEF Release, LockFree, TbLockFree
  <2>6. QueueInv'
    BY <1>17, QueueKept DEF Release
  <2>7. QED BY <2>1, <2>2, <2>3, <2>4, <2>5, <2>6
<1>18. ASSUME Clear PROVE IInv'
  <2>1. TypeOK'
    BY TypeStep
  <2>2. MapInv'
    BY <1>18, SMT DEF Clear, LockFree
  <2>3. PlaceInv'
    BY <1>18, SMT DEF Clear, LockFree
  <2>4. BindInv'
    BY <1>18, SMT DEF Clear, LockFree
  <2>5. CallInv'
    BY <1>18, SMT DEF Clear, LockFree
  <2>6. QueueInv'
    BY <1>18, SMTT(30) DEF Clear, InQueue
  <2>7. QED BY <2>1, <2>2, <2>3, <2>4, <2>5, <2>6
<1>19. ASSUME Unmap PROVE IInv'
  <2>1. TypeOK'
    BY TypeStep
  <2>2. MapInv'
    BY <1>19, SMT DEF Unmap
  <2>3. PlaceInv'
    BY <1>19, SMT DEF Unmap
  <2>4. BindInv'
    BY <1>19, SMT DEF Unmap
  <2>5. CallInv'
    BY <1>19, SMT DEF Unmap
  <2>6. QueueInv'
    <3>1. SUFFICES ASSUME NEW d \in Dpin, ~alive[d], regs[d]
                  PROVE  due' = d \/ InQueue(d)'
      BY <1>19, SMT DEF Unmap
    <3>2. InQueue(d)' <=> InQueue(d)
      BY <1>19 DEF Unmap, InQueue
    <3>3. cur # d /\ due' = due
      BY <1>19, <3>1 DEF Unmap
    <3>4. QED BY <3>1, <3>2, <3>3
  <2>7. QED BY <2>1, <2>2, <2>3, <2>4, <2>5, <2>6
<1>20. ASSUME ApcallEnter PROVE IInv'
  <2>1. TypeOK'
    BY TypeStep
  <2>2. MapInv'
    BY <1>20, SMT DEF ApcallEnter
  <2>3. PlaceInv'
    BY <1>20, SMT DEF ApcallEnter
  <2>4. BindInv'
    BY <1>20, SMT DEF ApcallEnter
  <2>5. CallInv'
    BY <1>20, SMT DEF ApcallEnter
  <2>6. QueueInv'
    BY <1>20, QueueKept DEF ApcallEnter
  <2>7. QED BY <2>1, <2>2, <2>3, <2>4, <2>5, <2>6
<1>21. ASSUME ApcallLock PROVE IInv'
  <2>1. TypeOK'
    BY TypeStep
  <2>2. MapInv'
    BY <1>21, SMT DEF ApcallLock
  <2>3. PlaceInv'
    BY <1>21, SMT DEF ApcallLock
  <2>4. BindInv'
    BY <1>21, SMT DEF ApcallLock
  <2>5. CallInv'
    BY <1>21, SMT DEF ApcallLock
  <2>6. QueueInv'
    BY <1>21, QueueKept DEF ApcallLock
  <2>7. QED BY <2>1, <2>2, <2>3, <2>4, <2>5, <2>6
<1>22. ASSUME ApcallDone PROVE IInv'
  <2>1. TypeOK'
    BY TypeStep
  <2>2. MapInv'
    BY <1>22, SMT DEF ApcallDone
  <2>3. PlaceInv'
    BY <1>22, SMT DEF ApcallDone
  <2>4. BindInv'
    BY <1>22, SMT DEF ApcallDone
  <2>5. CallInv'
    BY <1>22, SMT DEF ApcallDone
  <2>6. QueueInv'
    BY <1>22, QueueKept DEF ApcallDone
  <2>7. QED BY <2>1, <2>2, <2>3, <2>4, <2>5, <2>6
<1>23. ASSUME AltModeOn PROVE IInv'
  <2>1. TypeOK'
    BY TypeStep
  <2>2. MapInv'
    BY <1>23, SMT DEF AltModeOn, FabricFree, FabricHeld
  <2>3. PlaceInv'
    BY <1>23, SMT DEF AltModeOn, FabricFree, FabricHeld
  <2>4. BindInv'
    BY <1>23, SMT DEF AltModeOn, FabricFree, FabricHeld
  <2>5. CallInv'
    BY <1>23, SMT DEF AltModeOn, FabricFree, FabricHeld
  <2>6. QueueInv'
    BY <1>23, QueueKept DEF AltModeOn
  <2>7. QED BY <2>1, <2>2, <2>3, <2>4, <2>5, <2>6
<1>24. ASSUME AltModeOff PROVE IInv'
  <2>1. TypeOK'
    BY TypeStep
  <2>2. MapInv'
    BY <1>24, SMT DEF AltModeOff, FabricFree, FabricHeld
  <2>3. PlaceInv'
    BY <1>24, SMT DEF AltModeOff, FabricFree, FabricHeld
  <2>4. BindInv'
    BY <1>24, SMT DEF AltModeOff, FabricFree, FabricHeld
  <2>5. CallInv'
    BY <1>24, SMT DEF AltModeOff, FabricFree, FabricHeld
  <2>6. QueueInv'
    BY <1>24, QueueKept DEF AltModeOff
  <2>7. QED BY <2>1, <2>2, <2>3, <2>4, <2>5, <2>6
<1>25. ASSUME DrmLoad PROVE IInv'
  <2>1. TypeOK'
    BY TypeStep
  <2>2. MapInv'
    BY <1>25, SMT DEF DrmLoad
  <2>3. PlaceInv'
    BY <1>25, SMT DEF DrmLoad
  <2>4. BindInv'
    BY <1>25, SMT DEF DrmLoad
  <2>5. CallInv'
    BY <1>25, SMT DEF DrmLoad
  <2>6. QueueInv'
    BY <1>25, QueueKept DEF DrmLoad
  <2>7. QED BY <2>1, <2>2, <2>3, <2>4, <2>5, <2>6
<1>26. ASSUME DrmUnload PROVE IInv'
  <2>1. TypeOK'
    BY TypeStep
  <2>2. MapInv'
    BY <1>26, SMT DEF DrmUnload, LockFree, TbLockFree, FabricFree, FabricHeld
  <2>3. PlaceInv'
    BY <1>26, SMT DEF DrmUnload, LockFree, TbLockFree, FabricFree, FabricHeld
  <2>4. BindInv'
    BY <1>26, SMT DEF DrmUnload, LockFree, TbLockFree, FabricFree, FabricHeld
  <2>5. CallInv'
    BY <1>26, SMT DEF DrmUnload, LockFree, TbLockFree, FabricFree, FabricHeld
  <2>6. QueueInv'
    BY <1>26, QueueKept DEF DrmUnload
  <2>7. QED BY <2>1, <2>2, <2>3, <2>4, <2>5, <2>6
<1>27. CASE UNCHANGED vars
  BY <1>27, SMT DEF vars, InQueue
<1>0. ASSUME NEW d \in Dpin, due = d, Report PROVE IInv'
  <2>1. TypeOK'
    BY TypeStep
  <2>2. MapInv'
    BY <1>0, SMT DEF Report
  <2>3. PlaceInv'
    BY <1>0, SMT DEF Report
  <2>4. BindInv'
    BY <1>0, SMT DEF Report
  <2>5. CallInv'
    BY <1>0, SMT DEF Report
  <2>6. QueueInv'
    <3>1. Enqueue(d) /\ UNCHANGED <<alive, regs, cur>>
      BY <1>0 DEF Report
    <3>2. InQueue(d)' /\ \A e \in Dpin : InQueue(e) => InQueue(e)'
      BY <3>1, EnqueueFacts
    <3>3. QueueInv
      OBVIOUS
    <3>4. QED BY <1>0, <3>1, <3>2, <3>3, ZenonT(30)
  <2>7. QED BY <2>1, <2>2, <2>3, <2>4, <2>5, <2>6
<1>30. Report => \E d \in Dpin : due = d
  BY DEF Report
<1>28. QED
  BY <1>1, <1>2, <1>3, <1>4, <1>5, <1>6, <1>7, <1>8, <1>9, <1>10, <1>11, <1>12, <1>13,
     <1>14, <1>15, <1>16, <1>17, <1>18, <1>19, <1>20, <1>21, <1>22, <1>23, <1>24, <1>25,
     <1>26, <1>27, <1>0, <1>30
  DEF Next, WorkerStep, Connect, ApcallStep

-----------------------------------------------------------------------------
(* The theorems.                                                           *)

\* The invariant holds before anything is plugged in.
LEMMA InitIInv == Init => IInv
<1> SUFFICES ASSUME Init PROVE IInv
  OBVIOUS
<1> USE DpinAssumption DEF Init
<1>1. TypeOK
  <2>1. queue \in Seq(Dpin) /\ tries \in Nat /\ wpc \in Labels
    BY SMT DEF Labels
  <2>2. tunnels \in [Dpin -> Nat] /\ served \in [Dpin -> Nat]
    BY SMT
  <2>3. QED
    BY <2>1, <2>2 DEF TypeOK
<1>2. MapInv /\ QueueInv
  BY DEF MapInv, QueueInv
<1>3. PlaceInv /\ CallInv
  BY DEF PlaceInv, CallInv
<1>4. BindInv
  BY DEF BindInv, NothingForgotten, TunnelOwned
<1>5. QED BY <1>1, <1>2, <1>3, <1>4 DEF IInv

\* IInv is an invariant of the specification.
LEMMA Inductive == Spec => []IInv
  BY InitIInv, InvStep, PTL DEF Spec

\* Every variable keeps its type, whatever the adapters, tries and tunnels.
THEOREM TypeCorrect == Spec => []TypeOK
<1>1. IInv => TypeOK
  BY DEF IInv
<1>2. QED BY <1>1, Inductive, PTL

\* A handshake never touches a block that is unmapped or whose tunnel the
\* connection manager has taken down (apple_dpin_dcp_set_active).
THEOREM HandshakesAreSafe == Spec => []HandshakeSafe
<1>1. IInv => HandshakeSafe
  BY SMT DEF IInv, TypeOK, HandshakeSafe, CallInv, MapInv
<1>2. QED BY <1>1, Inductive, PTL

\* The callback belongs to an adapter that the worker has mapped and remembers,
\* however its tunnels, the display driver and its port come and go.
LEMMA OwnedStates == IInv => CallbackLifetime /\ TunnelOwned /\ NothingForgotten
  BY SMT DEF IInv, TypeOK, CallbackLifetime, CallInv, MapInv, BindInv

\* The display driver never calls back into an adapter that has been unmapped
\* (tb_dpin_set_active and its context).
THEOREM CallbacksAreOwned == Spec => []CallbackLifetime
<1>1. IInv => CallbackLifetime
  BY OwnedStates
<1>2. QED BY <1>1, Inductive, PTL

\* The pipeline is in tunnel operation only for the adapter that owns the port
\* (dptx_tunnel against port->owner), at every step of a hand-over or its undoing.
THEOREM TunnelsAreOwned == Spec => []TunnelOwned
<1>1. IInv => TunnelOwned
  BY OwnedStates
<1>2. QED BY <1>1, Inductive, PTL

\* No callback is left that the worker does not know to take back, even when
\* a hand-over breaks off half way (apple_dcp_tb_dp_tunnel).
THEOREM NothingIsForgotten == Spec => []NothingForgotten
<1>1. IInv => NothingForgotten
  BY OwnedStates
<1>2. QED BY <1>1, Inductive, PTL

\* Once the queue has drained, nothing is left of a tunnel that is down.
THEOREM QueueDrains == Spec => []Drained
<1>1. ASSUME IInv PROVE Drained
  <2>1. SUFFICES ASSUME NEW d \in Dpin, wpc = "idle", queue = <<>>, ~alive[d], due # d
                 PROVE  ~regs[d] /\ ~mapped[d] /\ ~handed[d] /\ ctx # d
    BY DEF Drained
  <2>2. cur # d /\ ~InQueue(d)
    BY <1>1, <2>1, DpinAssumption, SMT DEF IInv, TypeOK, InQueue
  <2>3. ~regs[d]
    BY <1>1, <2>1, <2>2 DEF IInv, QueueInv
  <2>4. ~mapped[d] /\ ~handed[d]
    BY <1>1, <2>1, <2>3 DEF IInv, MapInv
  <2>5. QED BY <1>1, <2>1, <2>3, <2>4, DpinAssumption DEF IInv, BindInv, TypeOK
<1>2. QED BY <1>1, Inductive, PTL
-----------------------------------------------------------------------------
(* A tunnel that comes up is looked at.                                    *)

\* Where the worker is while it sets a tunnel up; elsewhere it takes one down.
Serving == {"want", "up", "connect", "activate", "oob", "retry", "failed"}

\* A tunnel that is up, not handed over and not given up is queued, or about to be by its
\* hook, or the worker is setting it up. One that comes up while its adapter is being taken down is queued
\* again, since the work item ends without another look.
Attended == \A d \in Dpin :
  /\ alive[d] /\ ~handed[d] /\ ~refused[d] =>
        due = d \/ InQueue(d) \/ (cur = d /\ wpc \in Serving)
  /\ alive[d] /\ cur = d /\ wpc \notin Serving => due = d \/ InQueue(d)

\* Steps that touch neither the queue nor what Attended speaks of.
LEMMA AttendedKept ==
  ASSUME Attended, UNCHANGED <<alive, due, handed, refused, queue, cur>>,
         wpc' = wpc \/ (wpc \in Serving /\ wpc' \in Serving)
                    \/ (wpc \notin Serving /\ wpc' \notin Serving)
  PROVE  Attended'
  BY DEF Attended, InQueue

\* No step leaves a tunnel unattended.
LEMMA AttendedStep ==
  ASSUME TypeOK, Attended, [Next]_vars
  PROVE  Attended'
<1> USE DpinAssumption DEF Goto, cm, worker, glue, dcp, apcall, history
<1>1. ASSUME NEW d \in Dpin, TunnelUp(d) PROVE Attended'
  <2>1. /\ UNCHANGED <<handed, cur, wpc, queue>> /\ due = NoDpin /\ due' = d
        /\ alive' = [alive EXCEPT ![d] = TRUE] /\ refused' = [refused EXCEPT ![d] = FALSE]
    BY <1>1 DEF TunnelUp
  <2>2. QED BY <2>1 DEF Attended, TypeOK, InQueue
<1>2. ASSUME NEW d \in Dpin, TunnelDown(d) PROVE Attended'
  <2>1. /\ UNCHANGED <<handed, refused, cur, wpc, queue>> /\ due = NoDpin /\ due' = d
        /\ alive' = [alive EXCEPT ![d] = FALSE]
    BY <1>2 DEF TunnelDown
  <2>2. QED BY <2>1 DEF Attended, TypeOK, InQueue
<1>0. ASSUME NEW d \in Dpin, due = d, Report PROVE Attended'
  <2>1. Enqueue(d) /\ UNCHANGED <<alive, handed, refused, cur, wpc>>
    BY <1>0 DEF Report, TypeOK
  <2>2. InQueue(d)' /\ \A e \in Dpin : InQueue(e) => InQueue(e)'
    BY <2>1, EnqueueFacts DEF TypeOK
  <2>3. QED BY <1>0, <2>1, <2>2, ZenonT(30) DEF Attended
<1>3. ASSUME Take PROVE Attended'
  <2>1. /\ Head(queue) \in Dpin
        /\ \A e \in Dpin : InQueue(e) => InQueue(e)' \/ e = Head(queue)
    BY <1>3, TakeFacts DEF Take, TypeOK
  <2>2. /\ cur = NoDpin /\ cur' = Head(queue) /\ wpc' = "want"
        /\ UNCHANGED <<alive, due, handed, refused>>
    BY <1>3 DEF Take, TypeOK
  <2>3. QED BY <2>1, <2>2 DEF Attended, Serving
<1>4. ASSUME Want PROVE Attended'
  <2>1. UNCHANGED <<alive, due, handed, refused, queue>> /\ wpc = "want"
    BY <1>4 DEF Want
  <2>2. \/ ~alive[cur] /\ wpc' = "down" /\ cur' = cur
        \/ wpc' = "up" /\ cur' = cur
        \/ (alive[cur] => handed[cur]) /\ wpc' = "idle" /\ cur' = NoDpin
    BY <1>4 DEF Want
  <2>3. QED BY <2>1, <2>2 DEF Attended, InQueue, Serving
<1>5. ASSUME ConnectOwned \/ Oob PROVE Attended'
  <2>1. /\ UNCHANGED <<alive, due, refused, queue, cur>> /\ wpc \in Serving /\ wpc' = "want"
        /\ handed' = [handed EXCEPT ![cur] = TRUE]
    BY <1>5 DEF ConnectOwned, Oob, Serving
  <2>2. QED BY <2>1 DEF Attended, InQueue, Serving, TypeOK
<1>6. ASSUME Failed PROVE Attended'
  <2>1. CASE alive[cur]
    <3>1. /\ UNCHANGED <<alive, due, handed, queue>> /\ refused' = [refused EXCEPT ![cur] = TRUE]
          /\ cur' = NoDpin /\ wpc' = "idle" /\ wpc = "failed"
      BY <1>6, <2>1 DEF Failed
    <3>2. QED BY <3>1 DEF Attended, InQueue, Serving, TypeOK
  <2>2. CASE ~alive[cur]
    <3>1. UNCHANGED <<alive, due, handed, refused, queue, cur>> /\ wpc = "failed" /\ wpc' = "want"
      BY <1>6, <2>2 DEF Failed
    <3>2. QED BY <3>1, AttendedKept DEF Serving
  <2>3. QED BY <2>1, <2>2
<1>7. ASSUME Down \/ Release PROVE Attended'
  <2>1. /\ UNCHANGED <<alive, due, refused, queue, cur>> /\ wpc \notin Serving /\ wpc' \notin Serving
        /\ handed' = handed \/ handed' = [handed EXCEPT ![cur] = FALSE]
    BY <1>7 DEF Down, Release, Serving
  <2>2. QED BY <2>1 DEF Attended, InQueue, TypeOK
<1>8. ASSUME Unmap PROVE Attended'
  <2>1. /\ UNCHANGED <<alive, due, handed, refused, queue>>
        /\ wpc \notin Serving /\ wpc' \notin Serving /\ cur' = NoDpin
    BY <1>8 DEF Unmap, Serving
  <2>2. QED BY <2>1 DEF Attended, InQueue
<1>9. ASSUME Up \/ ConnectNoDevice \/ ConnectRefused \/ ConnectBind \/ Activate \/ Retry
      PROVE  Attended'
  <2>1. UNCHANGED <<alive, due, handed, refused, queue, cur>> /\ wpc \in Serving /\ wpc' \in Serving
    BY <1>9 DEF Up, ConnectNoDevice, ConnectRefused, ConnectBind, Activate, Retry, Serving
  <2>2. QED BY <2>1, AttendedKept
<1>10. ASSUME Disconnect \/ Clear PROVE Attended'
  <2>1. /\ UNCHANGED <<alive, due, handed, refused, queue, cur>>
        /\ wpc \notin Serving /\ wpc' \notin Serving
    BY <1>10 DEF Disconnect, Clear, Serving
  <2>2. QED BY <2>1, AttendedKept
<1>11. ASSUME \/ \E d \in Dpin : PowerOff(d)
              \/ ApcallEnter \/ ApcallLock \/ ApcallDone
              \/ AltModeOn \/ AltModeOff \/ DrmLoad \/ DrmUnload
              \/ UNCHANGED vars
       PROVE  Attended'
  <2>1. UNCHANGED <<alive, due, handed, refused, queue, cur, wpc>>
    BY <1>11 DEF PowerOff, ApcallEnter, ApcallLock, ApcallDone, AltModeOn, AltModeOff, DrmLoad,
                 DrmUnload, vars
  <2>2. QED BY <2>1, AttendedKept
<1>30. Report => \E d \in Dpin : due = d
  BY DEF Report, TypeOK
<1>12. QED
  BY <1>1, <1>2, <1>3, <1>4, <1>5, <1>6, <1>7, <1>8, <1>9, <1>10, <1>11, <1>0, <1>30
  DEF Next, WorkerStep, Connect, ApcallStep

\* "One work item per adapter on an ordered queue": a tunnel that is up is never left
\* lying, not handed over, not reported as failed, and with no work item that runs,
\* is queued or is about to be, however tunnels, worker and driver interleave.
\* What Resolved adds is that the worker gets there; what EventsNotLost asked for
\* too is that one handed over earlier is told again.
THEOREM TunnelsAreAttended == Spec => []Attended
<1>1. Init => Attended
  BY DEF Init, Attended
<1>2. TypeOK /\ Attended /\ [Next]_vars => Attended'
  BY AttendedStep
<1>3. QED BY <1>1, <1>2, TypeCorrect, PTL DEF Spec
-----------------------------------------------------------------------------
(* Refinement.                                                             *)

\* Every step, seen from adapter d, is a step of TunnelLifecycle or stutters.
LEMMA LifeStep ==
  ASSUME IInv, IInv', [Next]_vars, NEW d \in Dpin
  PROVE  [Life(d)!Next]_(Life(d)!vars)
<1> USE DpinAssumption DEF Life!vars, cm, worker, glue, dcp, apcall, history
<1> DEFINE Same == /\ alive'[d] = alive[d] /\ mapped'[d] = mapped[d]
                   /\ (ctx = d)' = (ctx = d)
                   /\ (apc = "handshake" /\ apcd = d)' = (apc = "handshake" /\ apcd = d)
<1>0. Same => [Life(d)!Next]_(Life(d)!vars)
  OBVIOUS
<1>1. ASSUME NEW e \in Dpin, TunnelUp(e) PROVE Same \/ Life(d)!Move
  <2>1. alive \in [Dpin -> BOOLEAN] /\ alive' = [alive EXCEPT ![e] = TRUE] /\ ~(alive[e] = TRUE)
    BY IInv, <1>1 DEF TunnelUp, IInv, TypeOK
  <2>2. mapped' = mapped /\ ctx' = ctx /\ apc' = apc /\ apcd' = apcd
    BY <1>1 DEF TunnelUp
  <2>3. CASE e = d
    <3>1. ~(apc = "handshake" /\ apcd = d)
      BY <1>1, <2>3 DEF TunnelUp, LockFree
    <3>2. alive'[d] = ~alive[d]
      BY <2>1, <2>3, ZenonT(30)
    <3>3. QED BY <2>2, <3>1, <3>2 DEF Life!Move
  <2>4. CASE e # d
    BY <2>1, <2>2, <2>4, ZenonT(30)
  <2>5. QED BY <2>3, <2>4
<1>2. ASSUME NEW e \in Dpin, PowerOff(e) PROVE Same
  BY <1>2 DEF PowerOff
<1>3. ASSUME NEW e \in Dpin, TunnelDown(e) PROVE Same \/ Life(d)!Move
  <2>1. alive \in [Dpin -> BOOLEAN] /\ alive' = [alive EXCEPT ![e] = FALSE] /\ ~(alive[e] = FALSE)
    BY IInv, <1>3 DEF TunnelDown, IInv, TypeOK
  <2>2. mapped' = mapped /\ ctx' = ctx /\ apc' = apc /\ apcd' = apcd
    BY <1>3 DEF TunnelDown
  <2>3. CASE e = d
    <3>1. ~(apc = "handshake" /\ apcd = d)
      BY <1>3, <2>3 DEF TunnelDown, LockFree
    <3>2. alive'[d] = ~alive[d]
      BY <2>1, <2>3, ZenonT(30)
    <3>3. QED BY <2>2, <3>1, <3>2 DEF Life!Move
  <2>4. CASE e # d
    BY <2>1, <2>2, <2>4, ZenonT(30)
  <2>5. QED BY <2>3, <2>4
<1>4. ASSUME Take PROVE Same
  BY <1>4 DEF Take
<1>5. ASSUME Want PROVE Same
  BY <1>5 DEF Want
<1>6. ASSUME Up PROVE Same \/ Life(d)!Map
  BY <1>6, SMTT(30) DEF Up, IInv, TypeOK, MapInv, PlaceInv, BindInv, CallInv, LockFree,
     TbLockFree, Life!Map
<1>7. ASSUME ConnectNoDevice PROVE Same
  BY <1>7 DEF ConnectNoDevice
<1>8. ASSUME ConnectOwned PROVE Same
  BY <1>8 DEF ConnectOwned
<1>9. ASSUME ConnectRefused PROVE Same
  BY <1>9 DEF ConnectRefused
<1>10. ASSUME ConnectBind PROVE Same \/ Life(d)!Bind
  BY <1>10, SMTT(30) DEF ConnectBind, IInv, TypeOK, MapInv, PlaceInv, BindInv, CallInv,
     LockFree, TbLockFree, Life!Bind
<1>11. ASSUME Activate PROVE Same \/ Life(d)!Unbind
  BY <1>11, SMTT(30) DEF Activate, IInv, TypeOK, MapInv, PlaceInv, BindInv, CallInv,
     LockFree, TbLockFree, Life!Unbind
<1>12. ASSUME Oob PROVE Same
  BY <1>12 DEF Oob
<1>13. ASSUME Retry PROVE Same
  BY <1>13 DEF Retry
<1>14. ASSUME Failed PROVE Same
  BY <1>14 DEF Failed
<1>15. ASSUME Down PROVE Same
  BY <1>15 DEF Down
<1>16. ASSUME Disconnect PROVE Same
  BY <1>16 DEF Disconnect
<1>17. ASSUME Release PROVE Same \/ Life(d)!Unbind
  BY <1>17, SMTT(30) DEF Release, IInv, TypeOK, MapInv, PlaceInv, BindInv, CallInv,
     LockFree, TbLockFree, Life!Unbind
<1>18. ASSUME Clear PROVE Same
  BY <1>18 DEF Clear
<1>19. ASSUME Unmap PROVE Same \/ Life(d)!Unmap
  <2>1. mapped \in [Dpin -> BOOLEAN] /\ mapped' = [mapped EXCEPT ![cur] = FALSE] /\ cur \in Dpin
    BY IInv, <1>19 DEF Unmap, IInv, TypeOK
  <2>2. alive' = alive /\ ctx' = ctx /\ apc' = apc /\ apcd' = apcd
    BY <1>19 DEF Unmap
  <2>3. CASE cur = d
    <3>1. ctx # d /\ ~(apc = "handshake" /\ apcd = d)
      BY IInv, <1>19, <2>3, ZenonT(30) DEF Unmap, IInv, PlaceInv, CallInv
    <3>2. mapped'[d] = FALSE
      BY <2>1, <2>3, ZenonT(30)
    <3>3. mapped[d] => Life(d)!Unmap
      BY <2>2, <3>1, <3>2 DEF Life!Unmap
    <3>4. QED BY <2>1, <2>2, <3>2, <3>3
  <2>4. CASE cur # d
    BY <2>1, <2>2, <2>4, ZenonT(30)
  <2>5. QED BY <2>3, <2>4
<1>20. ASSUME ApcallEnter PROVE Same
  BY <1>20 DEF ApcallEnter
<1>21. ASSUME ApcallLock PROVE Same \/ Life(d)!Begin
  BY <1>21, SMTT(30) DEF ApcallLock, IInv, TypeOK, MapInv, PlaceInv, BindInv, CallInv,
     LockFree, TbLockFree, Life!Begin
<1>22. ASSUME ApcallDone PROVE Same \/ Life(d)!Finish
  BY <1>22, SMTT(30) DEF ApcallDone, IInv, TypeOK, MapInv, PlaceInv, BindInv, CallInv,
     LockFree, TbLockFree, Life!Finish
<1>23. ASSUME AltModeOn PROVE Same
  BY <1>23 DEF AltModeOn
<1>24. ASSUME AltModeOff PROVE Same
  BY <1>24 DEF AltModeOff
<1>25. ASSUME DrmLoad PROVE Same
  BY <1>25 DEF DrmLoad
<1>26. ASSUME DrmUnload PROVE Same \/ Life(d)!Unbind
  BY <1>26, SMTT(30) DEF DrmUnload, IInv, TypeOK, MapInv, PlaceInv, BindInv, CallInv,
     LockFree, TbLockFree, Life!Unbind
<1>27. CASE UNCHANGED vars
  BY <1>27 DEF vars
<1>29. ASSUME Report PROVE Same
  BY <1>29 DEF Report
<1>28. QED
  BY <1>0, <1>1, <1>2, <1>3, <1>4, <1>5, <1>6, <1>7, <1>8, <1>9, <1>10, <1>11, <1>12,
     <1>13, <1>14, <1>15, <1>16, <1>17, <1>18, <1>19, <1>20, <1>21, <1>22, <1>23, <1>24,
     <1>25, <1>26, <1>27, <1>29
  DEF Next, WorkerStep, Connect, ApcallStep, Life!Next

\* Every adapter's life is one the interface allows: map, register, handshake,
\* take back, unmap, in that order, whatever the other adapter does.
THEOREM ImplementsLifecycle == Spec => Lifecycle
<1>1. Init => \A d \in Dpin : Life(d)!Init
  BY DpinAssumption DEF Init, Life!Init
<1>2. IInv /\ IInv' /\ [Next]_vars => \A d \in Dpin : [Life(d)!Next]_(Life(d)!vars)
  BY LifeStep
<1>3. QED BY <1>1, <1>2, Inductive, PTL DEF Spec, Lifecycle
=============================================================================
