----------------------------- MODULE DeployChain -----------------------------
(***************************************************************************)
(* The deployment scripts as they were used: each installed in its turn,    *)
(* over what the ones before it left behind, and disarmed before the next   *)
(* unless its conf was left armed.  Nothing raises here, and no power goes  *)
(* (ModuleDeploy has both): the question is whether the scripts fit each    *)
(* other.  ChainFits says what their tables must satisfy for that.          *)
(***************************************************************************)
EXTENDS ModuleDeploy

CONSTANTS
  LeftArmed,  (* the confs that were left in place                           *)
  LastCleanup (* the script after which no forgotten conf is to be there     *)

ToDisarm == {i \in Ids : /\ backup[i].stage # "none" /\ Scripts[i].disarms
                         /\ Scripts[i].own \notin LeftArmed
                         /\ conf[Scripts[i].own] = "whole"}

ToInstall == LET due == {i \in Ids : backup[i].stage = "none"}
             IN {i \in due : \A j \in due : i <= j}

\* Every script is installed in its turn, and disarmed before the next one
\* unless its conf was left armed.
HistoryNext ==
  \/ /\ pc = "idle"
     /\ \/ \E i \in ToDisarm : Disarm(i)
        \/ ToDisarm = {} /\ \E i \in ToInstall : Install(i)
  \/ ScriptStep

HistorySpec == Init /\ [][HistoryNext]_vars
-----------------------------------------------------------------------------
\* The scripts can be used in the order they were written: when a script's turn
\* comes to be installed or disarmed, after every install and disarm before it,
\* its preflight and its checks of the confs it needs, supersedes and clears
\* succeed, those it repeats later too, and its image passes its own checks, so
\* that no install is ever undone.
ChainLegal ==
  /\ pc = "idle" => \A i \in ToDisarm : Preflight(i)
  /\ pc = "idle" /\ ToDisarm = {} => \A i \in ToInstall : Preflight(i) /\ Installable(i)
  /\ pc = "check" => Preflight(cur)
  /\ pc = "verify" => Good

\* From the last cleanup on, the options a boot gets are those of the conf the
\* script wrote and no more: no forgotten conf adds to them, and after the last
\* conf is gone there are none.
CleanFromThere == done >= LastCleanup => LiveFlags(image) = Scripts[done].flags
-----------------------------------------------------------------------------
(* What the tables must satisfy, script by script and without running any.  *)

\* What stays of a script's conf when the next one's turn comes.
Stays(i) == IF Scripts[i].disarms THEN Own(i) \cap LeftArmed ELSE Own(i)

\* The confs in place after the first n scripts: left by one of them, or there
\* before, and taken away by none since.
Standing(n) ==
  {f \in Conf : \/ f \in Leftover /\ \A k \in Ids : k <= n => f \notin Kept(k)
                \/ \E j \in Ids : /\ j <= n /\ f \in Stays(j)
                                  /\ \A k \in Ids : j < k /\ k <= n => f \notin Kept(k)}

\* The confs in place when script i has been installed.
ArmedBy(i) == (Standing(i - 1) \ Kept(i)) \cup Own(i)

FlagsOf(cs) == UNION {Flags[f] : f \in cs}

\* Script i can be installed over what stands at its turn.
Fits(i) ==
  /\ Standing(i - 1) \cap Scripts[i].absent = {}
  /\ Needs(i) \cup Kept(i) \subseteq Standing(i - 1)
  /\ Own(i) \cap Standing(i - 1) = {}

\* What it leaves passes its checks, armed and disarmed.
Holds(i) ==
  /\ Own(i) \cap (Kept(i) \cup Scripts[i].absent) = {}
  /\ Needs(i) \cap Kept(i) = {}
  /\ FlagsOf(ArmedBy(i)) \cap Scripts[i].bans = {}
  /\ FlagsOf(ArmedBy(i) \ Own(i)) \cap Scripts[i].always = {}

\* The last cleanup and its successors clear whatever else there is.
Clears(i) ==
  /\ Standing(i - 1) \subseteq Kept(i)
  /\ FlagsOf(Own(i)) = Scripts[i].flags

ChainFits ==
  /\ Len(Scripts) \in Nat /\ Ids = 1..Len(Scripts)
  /\ LastCleanup \in Nat \ {0} /\ Leftover \subseteq Conf
  /\ \A i \in Ids : Scripts[i].disarms => Own(i) # {}
  /\ \A i, j \in Ids : Own(i) \cap Own(j) # {} => i = j
  /\ \A i \in Ids : Fits(i) /\ Holds(i)
  /\ \A i \in Ids : i >= LastCleanup => Clears(i)
=============================================================================
