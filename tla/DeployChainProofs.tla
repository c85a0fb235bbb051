-------------------------- MODULE DeployChainProofs --------------------------
(***************************************************************************)
(* The chain of scripts is legal, whatever the scripts, as long as their    *)
(* tables fit (ChainFits).  Standing and ArmedBy read off the tables what    *)
(* is in place at a script's turn; the invariant At(n) says that the run of  *)
(* the first n scripts gets there, and where within a script it is.          *)
(***************************************************************************)
EXTENDS DeployChain, ModuleDeployProofs

\* The confs cs are in place, whole, and no other is there at all.
Marked(cs) == [f \in Conf |-> IF f \in cs THEN "whole" ELSE "absent"]

\* The confs while script i takes away those it supersedes and clears.
Unlinking(i) == Standing(i - 1) \ (Kept(i) \ todo)

\* The modules of script i are in place, but for those still to copy.
Placed(i, left) == \A m \in TargetsOf(i) \ left : mods[m] = Scripts[i].mods[m]

\* The confs within script i.
ConfWithin(i) ==
  /\ pc \in {"list", "keep", "settle", "check", "copy"} => conf = Marked(Standing(i - 1))
  /\ pc = "unlink" => conf = Marked(Unlinking(i))
  /\ pc \in {"build", "verify", "sync"} /\ job = "install" => conf = Marked(ArmedBy(i))
  /\ pc = "disarm" => conf = Marked(ArmedBy(i))
  /\ pc \in {"build", "verify", "sync"} /\ job = "disarm" =>
       conf = Marked(ArmedBy(i) \ Own(i))

\* The first n scripts have been installed, the last of them perhaps only just,
\* or not quite.
At(n) ==
  /\ \A i \in Ids : backup[i].stage # "none" <=> i <= n
  /\ pc # "off" /\ job # "restore"
  /\ pc = "idle" => \/ conf = Marked(Standing(n))
                    \/ n \in Ids /\ conf = Marked(ArmedBy(n)) /\ Placed(n, {})
  /\ pc # "idle" => n \in Ids /\ cur = n /\ ConfWithin(n)
  /\ job = "disarm" => Scripts[n].disarms /\ Own(n) \cap LeftArmed = {}
  /\ pc = "copy" => Placed(n, todo)
  /\ pc \in {"unlink", "build", "verify", "sync", "disarm"} => Placed(n, {})
  /\ pc \in {"verify", "sync"} => image = Build
  /\ done # 0 => done = n /\ pc = "idle" /\ image.conf = Marked(ArmedBy(n))

HistoryInv == \E n \in 0..Len(Scripts) : At(n)
-----------------------------------------------------------------------------
(* The tables.                                                              *)

\* Before the first script only what was there before stands.
LEMMA StandingFirst == ASSUME ChainFits PROVE Standing(0) = Leftover
  BY DEF ChainFits, Standing

\* From one script's turn to the next: what it keeps out goes, what it leaves
\* armed stays.
LEMMA StandingNext ==
  ASSUME ChainFits, NEW n \in Ids
  PROVE  Standing(n) = (Standing(n - 1) \ Kept(n)) \cup Stays(n)
<1>1. Ids \subseteq Nat \ {0} /\ n - 1 \in Nat
  BY DEF ChainFits
<1>2. Stays(n) \subseteq Conf /\ Stays(n) \cap Kept(n) = {}
  BY DeployAssumption DEF ChainFits, Holds, Stays
<1>3. ASSUME NEW f \in Standing(n) PROVE f \in (Standing(n - 1) \ Kept(n)) \cup Stays(n)
  <2>1. CASE f \in Leftover /\ \A k \in Ids : k <= n => f \notin Kept(k)
    BY <1>1, <1>3, <2>1 DEF Standing
  <2>2. CASE \E j \in Ids : /\ j <= n /\ f \in Stays(j)
                            /\ \A k \in Ids : j < k /\ k <= n => f \notin Kept(k)
    <3>1. PICK j \in Ids : /\ j <= n /\ f \in Stays(j)
                           /\ \A k \in Ids : j < k /\ k <= n => f \notin Kept(k)
      BY <2>2
    <3>2. CASE j = n
      BY <3>1, <3>2
    <3>3. CASE j # n
      <4>1. j <= n - 1 /\ f \notin Kept(n)
        BY <1>1, <3>1, <3>3
      <4>2. \A k \in Ids : j < k /\ k <= n - 1 => f \notin Kept(k)
        BY <1>1, <3>1
      <4> QED
        BY <1>3, <3>1, <4>1, <4>2 DEF Standing
    <3> QED
      BY <3>2, <3>3
  <2> QED
    BY <1>3, <2>1, <2>2 DEF Standing
<1>4. ASSUME NEW f \in Standing(n - 1) \ Kept(n) PROVE f \in Standing(n)
  <2>1. \A k \in Ids : k <= n => k <= n - 1 \/ k = n
    BY <1>1
  <2>2. CASE f \in Leftover /\ \A k \in Ids : k <= n - 1 => f \notin Kept(k)
    BY <1>4, <2>1, <2>2 DEF Standing
  <2>3. CASE \E j \in Ids : /\ j <= n - 1 /\ f \in Stays(j)
                            /\ \A k \in Ids : j < k /\ k <= n - 1 => f \notin Kept(k)
    <3>1. PICK j \in Ids : /\ j <= n - 1 /\ f \in Stays(j)
                           /\ \A k \in Ids : j < k /\ k <= n - 1 => f \notin Kept(k)
      BY <2>3
    <3>2. j <= n
      BY <1>1, <3>1
    <3>3. \A k \in Ids : j < k /\ k <= n => f \notin Kept(k)
      BY <1>4, <2>1, <3>1
    <3> QED
      BY <1>4, <3>1, <3>2, <3>3 DEF Standing
  <2> QED
    BY <1>4, <2>2, <2>3 DEF Standing
<1>5. ASSUME NEW f \in Stays(n) PROVE f \in Standing(n)
  <2>1. \A k \in Ids : ~(n < k /\ k <= n)
    BY <1>1
  <2>2. n <= n
    BY <1>1
  <2> QED
    BY <1>2, <2>1, <2>2 DEF Standing
<1> QED
  BY <1>3, <1>4, <1>5

\* A script that is disarmed before the next one's turn leaves what stood before
\* it but for what it keeps out; one that is not leaves its conf as well.
LEMMA StandingAfter ==
  ASSUME ChainFits, NEW n \in Ids
  PROVE  /\ Scripts[n].disarms /\ Own(n) \cap LeftArmed = {} =>
              Standing(n) = ArmedBy(n) \ Own(n)
         /\ ~(Scripts[n].disarms /\ Own(n) \cap LeftArmed = {}) => Standing(n) = ArmedBy(n)
<1>1. Standing(n) = (Standing(n - 1) \ Kept(n)) \cup Stays(n)
  BY StandingNext
<1>2. Own(n) \cap Standing(n - 1) = {}
  BY DEF ChainFits, Fits
<1>3. Own(n) = {} \/ Own(n) = {Scripts[n].own}
  BY DEF Own
<1> QED
  BY <1>1, <1>2, <1>3 DEF ArmedBy, Stays

\* A conf that its script's disarm takes away never stands at a later turn.
LEMMA DisarmedIsGone ==
  ASSUME ChainFits, NEW n \in 0..Len(Scripts), NEW i \in Ids, i <= n,
         Scripts[i].disarms, Scripts[i].own \notin LeftArmed
  PROVE  Scripts[i].own \notin Standing(n)
<1> DEFINE f == Scripts[i].own
<1>1. Own(i) = {f} /\ Ids \subseteq Nat /\ n \in Nat
  BY DEF ChainFits, Own
<1>2. Own(i) \cap Standing(i - 1) = {} /\ f \in Conf
  BY <1>1, DeployAssumption DEF ChainFits, Fits
<1>3. ~(f \in Leftover /\ \A k \in Ids : k <= n => f \notin Kept(k))
  <2> SUFFICES ASSUME f \in Leftover, \A k \in Ids : k <= n => f \notin Kept(k)
               PROVE  f \in Standing(i - 1)
    BY <1>1, <1>2
  <2>1. \A k \in Ids : k <= i - 1 => k <= n
    BY <1>1
  <2> QED
    BY <1>2, <2>1 DEF Standing
<1>4. ASSUME NEW j \in Ids, f \in Stays(j) PROVE FALSE
  <2>1. f \in Own(j)
    BY <1>4 DEF Stays
  <2>2. j = i
    BY <1>1, <2>1 DEF ChainFits
  <2> QED
    BY <1>4, <2>2 DEF Stays
<1> QED
  BY <1>3, <1>4 DEF Standing

\* The confs a script is for, and those in place once it is installed.
LEMMA TableFacts ==
  ASSUME ChainFits, NEW n \in Ids
  PROVE  /\ n \in 1..Len(Scripts) /\ n - 1 \in 0..Len(Scripts)
         /\ Standing(n - 1) \subseteq Conf /\ ArmedBy(n) \subseteq Conf
         /\ Own(n) \subseteq Conf /\ Kept(n) \subseteq Standing(n - 1)
         /\ Needs(n) \subseteq ArmedBy(n) /\ Needs(n) \subseteq Standing(n - 1)
         /\ Own(n) \subseteq ArmedBy(n) /\ Kept(n) \cap ArmedBy(n) = {}
         /\ Scripts[n].absent \cap ArmedBy(n) = {}
         /\ Scripts[n].absent \cap Standing(n - 1) = {}
         /\ Own(n) \cap Standing(n - 1) = {}
<1>1. Fits(n) /\ Holds(n) /\ n \in 1..Len(Scripts) /\ n - 1 \in 0..Len(Scripts)
  BY DEF ChainFits
<1>2. Standing(n - 1) \subseteq Conf
  BY DEF Standing
<1>3. Own(n) \subseteq Conf
  BY DeployAssumption
<1> QED
  BY <1>1, <1>2, <1>3 DEF Fits, Holds, ArmedBy

-----------------------------------------------------------------------------
(* The run.                                                                 *)

\* What of ModuleDeploy's invariant the steps below need.
Known ==
  /\ DOMAIN backup = Ids /\ \A i \in Ids : "stage" \in DOMAIN backup[i]
  /\ cur \in Ids \cup {0} /\ (pc \in {"idle", "off"} <=> cur = 0)
  /\ pc \in {"idle", "off"} <=> job = "none"
  /\ job \in {"none", "install", "restore", "disarm"}
  /\ pc \in {"list", "keep", "settle", "check", "copy", "unlink"} => job = "install"
  /\ pc \in {"open", "recopy", "reconf"} => job = "restore"
  /\ pc = "disarm" => job = "disarm"
  /\ pc = "copy" => todo \subseteq TargetsOf(cur)
  /\ pc = "unlink" => todo \subseteq Kept(cur)
  /\ DOMAIN mods = Module

LEMMA KnownHolds == IInv => Known
  BY DEF IInv, Known, TypeOK, PlaceInv, BackupInv

\* A run of the chain is a run of ModuleDeploy without faults.
LEMMA ChainIsDeployment == HistorySpec => Spec
<1>1. [HistoryNext]_vars => [Next]_vars
  BY DEF HistoryNext, Next, ToDisarm, ToInstall
<1> QED
  BY <1>1, PTL DEF HistorySpec, Spec

\* Whose turn it is.
LEMMA TurnFacts ==
  ASSUME ChainFits, NEW n \in 0..Len(Scripts), At(n), pc = "idle"
  PROVE  /\ conf = Marked(Standing(n)) => ToDisarm = {}
         /\ n \in Ids /\ conf = Marked(ArmedBy(n)) =>
              ToDisarm \subseteq {n} /\ (ToDisarm = {} => conf = Marked(Standing(n)))
         /\ \A i \in ToInstall : i = n + 1
         /\ \A i \in ToDisarm : i \in Ids /\ Scripts[i].disarms /\ Own(i) \cap LeftArmed = {}
<1>1. Ids = 1..Len(Scripts) /\ Len(Scripts) \in Nat
  BY DEF ChainFits
<1>2. \A i \in ToDisarm : /\ i \in Ids /\ i <= n /\ Scripts[i].disarms
                          /\ Scripts[i].own \notin LeftArmed
                          /\ Own(i) = {Scripts[i].own} /\ Scripts[i].own \in Conf
                          /\ conf[Scripts[i].own] = "whole"
  BY DeployAssumption DEF ToDisarm, At, ChainFits, Own
<1>3. \A i \in ToDisarm : Scripts[i].own \notin Standing(n)
  BY <1>2, DisarmedIsGone
<1>4. conf = Marked(Standing(n)) => ToDisarm = {}
  BY <1>2, <1>3 DEF Marked
<1>5. ASSUME n \in Ids, conf = Marked(ArmedBy(n))
      PROVE  ToDisarm \subseteq {n} /\ (ToDisarm = {} => conf = Marked(Standing(n)))
  <2>1. \A i \in ToDisarm : Scripts[i].own \in ArmedBy(n)
    BY <1>2, <1>5 DEF Marked
  <2>2. ArmedBy(n) \ Own(n) \subseteq Standing(n)
    BY <1>5, StandingNext DEF ArmedBy
  <2>3. \A i \in ToDisarm : Scripts[i].own \in Own(n)
    BY <1>3, <2>1, <2>2
  <2>4. \A i \in ToDisarm : i = n
    BY <1>2, <1>5, <2>3 DEF ChainFits
  <2>5. ASSUME ToDisarm = {} PROVE conf = Marked(Standing(n))
    <3>1. ~(Scripts[n].disarms /\ Own(n) \cap LeftArmed = {})
      <4> SUFFICES ASSUME Scripts[n].disarms, Own(n) \cap LeftArmed = {} PROVE FALSE
        OBVIOUS
      <4>1. Own(n) = {Scripts[n].own}
        BY <1>5 DEF ChainFits, Own
      <4>2. Scripts[n].own \in ArmedBy(n) /\ Scripts[n].own \in Conf
        BY <1>5, <4>1, TableFacts
      <4>3. n \in ToDisarm
        BY <1>1, <1>5, <4>1, <4>2 DEF ToDisarm, At, Marked
      <4> QED
        BY <2>5, <4>3
    <3> QED
      BY <1>5, <3>1, StandingAfter
  <2> QED
    BY <2>4, <2>5
<1>6. ASSUME NEW i \in ToInstall PROVE i = n + 1
  <2>1. i \in Ids /\ ~(i <= n) /\ \A j \in Ids : ~(j <= n) => i <= j
    BY DEF ToInstall, At
  <2> QED
    BY <1>1, <2>1
<1> QED
  BY <1>2, <1>4, <1>5, <1>6

\* The preflight looks at confs that are marked.
LEMMA MarkedPreflight ==
  ASSUME NEW i \in Ids, NEW cs, conf = Marked(cs), Needs(i) \subseteq cs,
         cs \subseteq Conf, Scripts[i].absent \cap cs = {}
  PROVE  Preflight(i)
<1>1. \A f \in Conf : conf[f] = IF f \in cs THEN "whole" ELSE "absent"
  BY DEF Marked
<1> QED
  BY <1>1 DEF Preflight

\* The options of an image are those of the confs marked in it.
LEMMA MarkedFlags ==
  ASSUME NEW img, NEW cs, img.conf = Marked(cs), cs \subseteq Conf
  PROVE  LiveFlags(img) = FlagsOf(cs)
<1>1. {g \in Conf : img.conf[g] = "whole"} = cs
  BY DEF Marked
<1> QED
  BY <1>1 DEF LiveFlags, FlagsOf

\* A script that is about to verify passes.
LEMMA VerifyPasses ==
  ASSUME ChainFits, Known, NEW n \in Ids, At(n), pc = "verify"
  PROVE  Good
<1>1. cur = n /\ ConfWithin(n) /\ Placed(n, {}) /\ image = Build
  BY DEF At
<1>2. image.whole /\ image.mods = mods /\ image.conf = conf
  BY <1>1 DEF Build
<1>3. \A m \in TargetsOf(n) : image.mods[m] = Scripts[n].mods[m]
  BY <1>1, <1>2 DEF Placed
<1>4. Fits(n) /\ Holds(n)
  BY DEF ChainFits
<1>5. CASE job = "install"
  <2>1. conf = Marked(ArmedBy(n))
    BY <1>1, <1>5 DEF ConfWithin
  <2>2. LiveFlags(image) \cap Scripts[n].bans = {}
    BY <1>2, <1>4, <2>1, MarkedFlags, TableFacts DEF Holds
  <2>3. /\ \A f \in Own(n) \cup Needs(n) : image.conf[f] = "whole"
        /\ \A f \in Kept(n) : image.conf[f] = "absent"
    BY <1>2, <2>1, TableFacts DEF Marked
  <2> QED
    BY <1>1, <1>2, <1>3, <1>5, <2>2, <2>3 DEF Good, Armed
<1>6. CASE job = "disarm"
  <2>1. conf = Marked(ArmedBy(n) \ Own(n))
    BY <1>1, <1>6 DEF ConfWithin
  <2>2. LiveFlags(image) \cap Scripts[n].always = {}
    BY <1>2, <1>4, <2>1, MarkedFlags, TableFacts DEF Holds
  <2>3. Prior(n) \subseteq Kept(n)
    BY DEF Kept
  <2>4. \A f \in Own(n) \cup Prior(n) : image.conf[f] = "absent"
    BY <1>2, <2>1, <2>3, TableFacts DEF Marked
  <2> QED
    BY <1>1, <1>3, <1>6, <2>2, <2>4 DEF Good, Disarmed
<1> QED
  BY <1>5, <1>6 DEF Known, At

\* A script is installed in its turn.
LEMMA InstallStep ==
  ASSUME ChainFits, Known, NEW n \in 0..Len(Scripts), At(n), pc = "idle", ToDisarm = {},
         NEW i \in ToInstall, Install(i)
  PROVE  HistoryInv'
<1>1. i = n + 1 /\ i \in Ids /\ i \in 0..Len(Scripts) /\ i - 1 = n
  BY TurnFacts DEF ToInstall, ChainFits
<1>2. conf = Marked(Standing(i - 1))
  BY <1>1, TurnFacts DEF At
<1>3. \A j \in Ids : backup'[j].stage # "none" <=> j <= i
  BY <1>1 DEF Install, Known, At, ChainFits
<1>4. At(i)'
  BY <1>1, <1>2, <1>3 DEF Install, Start, At, ConfWithin, files
<1> QED
  BY <1>1, <1>4 DEF HistoryInv

\* It is disarmed before the next one's turn.
LEMMA DisarmStep ==
  ASSUME ChainFits, Known, NEW n \in 0..Len(Scripts), At(n), pc = "idle",
         NEW i \in ToDisarm, Disarm(i)
  PROVE  At(n)'
<1>1. conf # Marked(Standing(n))
  BY TurnFacts
<1>2. n \in Ids /\ conf = Marked(ArmedBy(n)) /\ Placed(n, {})
  BY <1>1 DEF At
<1>3. i = n /\ Scripts[n].disarms /\ Own(n) \cap LeftArmed = {}
  BY <1>2, TurnFacts
<1> QED
  BY <1>2, <1>3 DEF Disarm, Start, At, ConfWithin, Placed, files

\* Every other step stays within the script whose turn it is.
LEMMA WithinStep ==
  ASSUME ChainFits, Known, NEW n \in 0..Len(Scripts), At(n), ScriptStep
  PROVE  At(n)'
<1>1. pc # "idle" /\ job # "restore" /\ done = 0
  BY DEF ScriptStep, List, Keep, Settle, Check, Copy, Unlink, Rebuild, Verify, Finish,
         DisarmConf, Open, Recopy, Reconf, At
<1>2. n \in Ids /\ cur = n /\ ConfWithin(n) /\ n <= n
  BY <1>1 DEF At, ChainFits
<1>3. CASE List
  BY <1>1, <1>2, <1>3 DEF List, At, ConfWithin, Known, history, files
<1>4. CASE Keep
  BY <1>1, <1>2, <1>4 DEF Keep, At, ConfWithin, Known, history, files
<1>5. CASE Settle
  BY <1>1, <1>2, <1>5 DEF Settle, At, ConfWithin, history, files
<1>6. CASE Check
  BY <1>1, <1>2, <1>6 DEF Check, At, ConfWithin, Placed, history, files
<1>7. CASE Copy
  <2>1. ASSUME NEW m \in todo, mods' = [mods EXCEPT ![m] = S.mods[m]],
               todo' = todo \ {m}, UNCHANGED pc
        PROVE  At(n)'
    <3>1. Placed(n, todo)'
      BY <1>2, <1>7, <2>1 DEF Copy, At, Placed, Known, S, TargetsOf
    <3> QED
      BY <1>1, <1>2, <1>7, <2>1, <3>1 DEF Copy, At, ConfWithin, history
  <2>2. ASSUME todo = {}, pc' = "unlink", todo' = Kept(cur), UNCHANGED mods
        PROVE  At(n)'
    <3>1. Unlinking(n)' = Standing(n - 1)
      BY <1>2, <2>2 DEF Unlinking
    <3>2. Placed(n, {})'
      BY <1>7, <2>2 DEF Copy, At, Placed
    <3> QED
      BY <1>1, <1>2, <1>7, <2>2, <3>1, <3>2 DEF Copy, At, ConfWithin, history
  <2> QED
    BY <1>7, <2>1, <2>2 DEF Copy
<1>8. CASE Unlink
  <2>1. conf = Marked(Unlinking(n)) /\ job = "install"
    BY <1>2, <1>8 DEF Unlink, ConfWithin, Known
  <2>2. ASSUME NEW f \in todo, conf' = [conf EXCEPT ![f] = "absent"],
               todo' = todo \ {f}, UNCHANGED pc
        PROVE  At(n)'
    <3>1. Unlinking(n)' = Unlinking(n) \ {f}
      BY <1>2, <1>8, <2>2 DEF Unlink, Unlinking, Known
    <3>2. conf' = Marked(Unlinking(n))'
      BY <2>1, <2>2, <3>1 DEF Marked
    <3> QED
      BY <1>1, <1>2, <1>8, <2>2, <3>2 DEF Unlink, At, ConfWithin, Placed, history
  <2>3. ASSUME todo = {}, pc' = "build",
               conf' = [f \in Conf |-> IF f \in Own(cur) THEN "whole" ELSE conf[f]]
        PROVE  At(n)'
    <3>1. Unlinking(n) \cup Own(n) = ArmedBy(n)
      BY <2>3 DEF Unlinking, ArmedBy
    <3>2. conf' = Marked(ArmedBy(n))
      BY <1>2, <2>1, <2>3, <3>1 DEF Marked
    <3> QED
      BY <1>1, <1>2, <1>8, <2>1, <2>3, <3>2 DEF Unlink, At, ConfWithin, Placed, history
  <2> QED
    BY <1>8, <2>2, <2>3 DEF Unlink
<1>9. CASE Rebuild
  BY <1>1, <1>2, <1>9 DEF Rebuild, Build, At, ConfWithin, Placed, history
<1>10. CASE Verify
  <2>1. Good
    BY <1>2, <1>10, VerifyPasses DEF Verify
  <2> QED
    BY <1>1, <1>2, <1>10, <2>1 DEF Verify, Build, At, ConfWithin, Placed, history, files
<1>11. CASE Finish
  <2>1. image.conf = conf
    BY <1>11 DEF Finish, At, Build
  <2>2. CASE job = "install"
    BY <1>1, <1>2, <1>11, <2>1, <2>2 DEF Finish, At, ConfWithin, Placed, files
  <2>3. CASE job = "disarm"
    <3>1. conf = Marked(Standing(n))
      BY <1>2, <1>11, <2>3, StandingAfter DEF Finish, At, ConfWithin
    <3> QED
      BY <1>1, <1>2, <1>11, <2>3, <3>1 DEF Finish, At, files
  <2> QED
    BY <1>1, <1>11, <2>2, <2>3 DEF Known, Finish
<1>12. CASE DisarmConf
  <2>1. Own(n) = {S.own} /\ conf = Marked(ArmedBy(n)) /\ job = "disarm"
    BY <1>2, <1>12 DEF DisarmConf, ConfWithin, Known, S, At, ChainFits, Own
  <2>2. conf' = Marked(ArmedBy(n) \ Own(n))
    BY <1>12, <2>1 DEF DisarmConf, Marked
  <2> QED
    BY <1>1, <1>2, <1>12, <2>1, <2>2 DEF DisarmConf, At, ConfWithin, Placed, history
<1>13. ~Open /\ ~Recopy /\ ~Reconf
  BY <1>1 DEF Open, Recopy, Reconf, Known
<1> QED
  BY <1>3, <1>4, <1>5, <1>6, <1>7, <1>8, <1>9, <1>10, <1>11, <1>12, <1>13 DEF ScriptStep

\* The chain goes from turn to turn.
LEMMA HistoryInvHolds == ASSUME ChainFits PROVE HistorySpec => []HistoryInv
<1>1. Init => HistoryInv
  <2> SUFFICES ASSUME Init PROVE HistoryInv
    OBVIOUS
  <2>1. 0 \in 0..Len(Scripts) /\ \A i \in Ids : ~(i <= 0)
    BY DEF ChainFits
  <2>2. conf = Marked(Standing(0))
    BY StandingFirst DEF Init, Marked
  <2>3. At(0)
    BY <2>1, <2>2 DEF Init, At, Empty
  <2> QED
    BY <2>1, <2>3 DEF HistoryInv
<1>2. Known /\ HistoryInv /\ [HistoryNext]_vars => HistoryInv'
  <2> SUFFICES ASSUME Known, [HistoryNext]_vars, NEW n \in 0..Len(Scripts), At(n)
               PROVE  HistoryInv'
    BY DEF HistoryInv
  <2>1. CASE UNCHANGED vars
    BY <2>1 DEF HistoryInv, At, ConfWithin, Unlinking, Placed, Build, vars, files, run, history
  <2>2. CASE pc = "idle" /\ \E i \in ToDisarm : Disarm(i)
    BY <2>2, DisarmStep DEF HistoryInv
  <2>3. CASE pc = "idle" /\ ToDisarm = {} /\ \E i \in ToInstall : Install(i)
    BY <2>3, InstallStep
  <2>4. CASE ScriptStep
    BY <2>4, WithinStep DEF HistoryInv
  <2> QED
    BY <2>1, <2>2, <2>3, <2>4 DEF HistoryNext
<1>3. HistorySpec => []Known
  BY ChainIsDeployment, AlwaysIInv, KnownHolds, PTL
<1> QED
  BY <1>1, <1>2, <1>3, PTL DEF HistorySpec
-----------------------------------------------------------------------------
(* The theorems. *)

\* Scripts whose tables fit can be used in the order they were written.
THEOREM ChainsAreLegal == ASSUME ChainFits PROVE HistorySpec => []ChainLegal
<1>1. Known /\ HistoryInv => ChainLegal
  <2> SUFFICES ASSUME Known, NEW n \in 0..Len(Scripts), At(n) PROVE ChainLegal
    BY DEF HistoryInv
  <2>1. ASSUME pc = "idle", NEW i \in ToDisarm PROVE Preflight(i)
    <3>1. i \in Ids /\ i = n /\ conf = Marked(ArmedBy(n))
      BY <2>1, TurnFacts DEF At
    <3> QED
      BY <3>1, MarkedPreflight, TableFacts
  <2>2. ASSUME pc = "idle", ToDisarm = {}, NEW i \in ToInstall
        PROVE  Preflight(i) /\ Installable(i)
    <3>1. i \in Ids /\ i - 1 = n /\ backup[i].stage = "none"
      BY <2>2, TurnFacts DEF ToInstall, ChainFits
    <3>2. conf = Marked(Standing(i - 1))
      BY <2>2, <3>1, TurnFacts DEF At
    <3>3. Preflight(i)
      BY <3>1, <3>2, MarkedPreflight, TableFacts
    <3>4. /\ \A f \in Own(i) : conf[f] = "absent"
          /\ \A f \in Kept(i) : conf[f] = "whole"
      BY <3>1, <3>2, TableFacts DEF Marked
    <3> QED
      BY <3>1, <3>3, <3>4 DEF Installable, Kept
  <2>3. ASSUME pc = "check" PROVE Preflight(cur)
    <3>1. cur = n /\ n \in Ids /\ conf = Marked(Standing(n - 1))
      BY <2>3 DEF At, ConfWithin
    <3> QED
      BY <3>1, MarkedPreflight, TableFacts
  <2>4. ASSUME pc = "verify" PROVE Good
    BY <2>4, VerifyPasses DEF At
  <2> QED
    BY <2>1, <2>2, <2>3, <2>4 DEF ChainLegal
<1>2. HistorySpec => []Known
  BY ChainIsDeployment, AlwaysIInv, KnownHolds, PTL
<1> QED
  BY <1>1, <1>2, HistoryInvHolds, PTL

\* From the last cleanup on, a boot gets the options of the script's own conf.
THEOREM CleanupsLast == ASSUME ChainFits PROVE HistorySpec => []CleanFromThere
<1>1. HistoryInv => CleanFromThere
  <2> SUFFICES ASSUME NEW n \in 0..Len(Scripts), At(n), done >= LastCleanup
               PROVE  LiveFlags(image) = Scripts[done].flags
    BY DEF HistoryInv, CleanFromThere
  <2>1. done # 0 /\ done = n /\ n \in Ids /\ image.conf = Marked(ArmedBy(n))
    BY DEF At, ChainFits
  <2>2. Clears(n)
    BY <2>1 DEF ChainFits
  <2>3. ArmedBy(n) = Own(n)
    BY <2>2 DEF Clears, ArmedBy
  <2>4. LiveFlags(image) = FlagsOf(Own(n))
    BY <2>1, <2>3, MarkedFlags, TableFacts
  <2> QED
    BY <2>1, <2>2, <2>4 DEF Clears
<1> QED
  BY <1>1, HistoryInvHolds, PTL
=============================================================================
