---------------------------- MODULE ModuleDeploy ----------------------------
(***************************************************************************)
(* The deployment transaction of scripts/manage-NNNN.py: install, restore  *)
(* and disarm of a candidate set of kernel modules, its modprobe.d conf    *)
(* and the initramfs built from both, over the files of one machine.       *)
(*                                                                         *)
(* A script runs alone, but any step of it may raise, and the power may go *)
(* at any moment: what was not on disk at the last os.sync() is then there *)
(* as it was, as it is, or damaged. What the scripts differ in is a record *)
(* each (Candidates); the steps below are common to all of them.           *)
(***************************************************************************)
EXTENDS Naturals, Sequences, FiniteSets

CONSTANTS
  Scripts,    (* the scripts, a sequence of records as in Candidates         *)
  None,       (* "no conf"                                                   *)
  Conf,       (* the conf files of /etc/modprobe.d that are tracked          *)
  Flags,      (* what each conf sets                                         *)
  Module,     (* the module files that are tracked (both copies of each)     *)
  Shipped,    (* the module files in place before the first script           *)
  Leftover,   (* the confs in place before the first script                  *)
  MaxFaults,  (* bound: steps that raise                                     *)
  MaxCuts     (* bound: power cuts                                           *)

Ids == DOMAIN Scripts
TargetsOf(i) == DOMAIN Scripts[i].mods \cap Module
Own(i) == {Scripts[i].own} \ {None}
Prior(i) == {Scripts[i].prior} \ {None}
Needs(i) == {Scripts[i].needs} \ {None}
Kept(i) == Prior(i) \cup Scripts[i].clears

\* A script without modules keeps its manifest over the confs themselves.
Cleanup(i) == DOMAIN Scripts[i].mods = {}

ASSUME DeployAssumption ==
  /\ 0 \notin Ids /\ None \notin Conf /\ "image" \notin Module
  /\ Shipped = [m \in Module |-> Shipped[m]]
  /\ \A i \in Ids : /\ Own(i) \cup Kept(i) \subseteq Conf
                    /\ Cleanup(i) => Scripts[i].rebuilds
  /\ MaxFaults \in Nat /\ MaxCuts \in Nat

VARIABLES
  mods,    (* the module files: version, or "torn"                           *)
  conf,    (* the conf files: "absent", "whole" or "torn"                    *)
  image,   (* the initramfs: whole or not, and what went into it             *)
  backup,  (* BACKUP of each script: how far it got, and what is in it       *)
  saved,   (* what the disk held at the last os.sync()                       *)
  kept,    (* how far each BACKUP had got then                               *)
  pc,      (* where the running script is; "off" after a power cut           *)
  job,     (* what it does: "install", "restore" or "disarm"                 *)
  cur,     (* which script it is                                             *)
  todo,    (* the files the present loop has still to handle                 *)
  base,    (* history: the disk as the latest install found it               *)
  latest,  (* history: that install's script, while no other has interfered  *)
  done,    (* history: the script whose install succeeded last, as long as   *)
           (* nothing was started since                                      *)
  faults, cuts

files == <<mods, conf, image>>
disk == <<saved, kept>>
run == <<pc, job, cur, todo>>
history == <<base, latest, done>>
bounds == <<faults, cuts>>
vars == <<files, backup, disk, run, history, bounds>>

Disk == [mods |-> mods, conf |-> conf, image |-> image]
S == Scripts[cur]

\* mkinitcpio packs the modules and the confs it finds.
Build == [whole |-> TRUE, mods |-> mods, conf |-> conf]

\* modprobe merges the options of every conf.
LiveFlags(img) == UNION {Flags[f] : f \in {g \in Conf : img.conf[g] = "whole"}}

Empty == [stage |-> "none", mods |-> <<>>, conf |-> <<>>, image |-> <<>>]
Verified == {"listed", "whole", "spoilt"}

Init ==
  /\ mods = Shipped
  /\ conf = [f \in Conf |-> IF f \in Leftover THEN "whole" ELSE "absent"]
  /\ image = Build
  /\ backup = [i \in Ids |-> Empty]
  /\ saved = Disk /\ kept = [i \in Ids |-> "none"]
  /\ pc = "idle" /\ job = "none" /\ cur = 0 /\ todo = {}
  /\ base = Disk /\ latest = 0 /\ done = 0
  /\ faults = 0 /\ cuts = 0
-----------------------------------------------------------------------------
(* main(): preflight, and the start of an action.                          *)

Preflight(i) ==
  /\ \A f \in Scripts[i].absent \cap Conf : conf[f] = "absent"
  /\ \A f \in Needs(i) : conf[f] = "whole"

Start(i, what, label) ==
  /\ pc = "idle" /\ Preflight(i)
  /\ pc' = label /\ job' = what /\ cur' = i /\ todo' = {}
  /\ done' = 0

\* What install() refuses: an armed or backed-up candidate, a predecessor that
\* is not there, leftovers that are not as expected.
Installable(i) ==
  /\ \A f \in Own(i) : conf[f] = "absent"
  /\ backup[i].stage = "none"
  /\ \A f \in Prior(i) : conf[f] # "absent"
  /\ \A f \in Scripts[i].clears : conf[f] = "whole"

\* install(), to BACKUP.mkdir().
Install(i) ==
  /\ Start(i, "install", "list") /\ Installable(i)
  /\ backup' = [backup EXCEPT ![i].stage = "begun"]
  /\ base' = Disk /\ latest' = i
  /\ UNCHANGED <<files, disk, bounds>>

Restore(i) ==
  /\ Start(i, "restore", "open")
  /\ latest' = IF latest = i THEN latest ELSE 0
  /\ UNCHANGED <<files, backup, disk, base, bounds>>

Disarm(i) ==
  /\ Start(i, "disarm", "disarm") /\ Scripts[i].disarms
  /\ conf[Scripts[i].own] = "whole"
  /\ latest' = IF latest = i THEN latest ELSE 0
  /\ UNCHANGED <<files, backup, disk, base, bounds>>
-----------------------------------------------------------------------------
(* install(): the backup.                                                  *)

\* Every target is copied and compared, and the manifest written.
List ==
  /\ pc = "list"
  /\ backup' = [backup EXCEPT ![cur] =
                  [stage |-> IF Cleanup(cur) THEN "begun" ELSE "listed",
                   mods |-> [m \in TargetsOf(cur) |-> mods[m]],
                   image |-> image, conf |-> <<>>]]
  /\ pc' = "keep"
  /\ UNCHANGED <<files, disk, job, cur, todo, history, bounds>>

\* The superseded conf and the leftovers are copied; the manifest has no digest
\* of them, except in a script without modules.
Keep ==
  /\ pc = "keep"
  /\ backup' = [backup EXCEPT ![cur].stage = "whole",
                              ![cur].conf = [f \in Kept(cur) |-> conf[f]]]
  /\ pc' = "settle"
  /\ UNCHANGED <<files, disk, job, cur, todo, history, bounds>>

\* A slip: no os.sync() before the first target is touched.
SettleUnsynced ==
  /\ pc = "settle"
  /\ pc' = "check"
  /\ UNCHANGED <<files, backup, disk, job, cur, todo, history, bounds>>

\* os.sync()
Settle ==
  /\ pc = "settle"
  /\ saved' = Disk /\ kept' = [i \in Ids |-> backup[i].stage]
  /\ pc' = "check"
  /\ UNCHANGED <<files, backup, job, cur, todo, history, bounds>>
-----------------------------------------------------------------------------
(* install(): the part that is undone when it fails.                       *)

Check ==
  /\ pc = "check" /\ Preflight(cur)
  /\ pc' = "copy" /\ todo' = TargetsOf(cur)
  /\ UNCHANGED <<files, backup, disk, job, cur, history, bounds>>

Copy ==
  /\ pc = "copy"
  /\ \/ \E m \in todo : /\ mods' = [mods EXCEPT ![m] = S.mods[m]]
                        /\ todo' = todo \ {m}
                        /\ UNCHANGED pc
     \/ /\ todo = {}
        /\ pc' = "unlink" /\ todo' = Kept(cur)
        /\ UNCHANGED mods
  /\ UNCHANGED <<conf, image, backup, disk, job, cur, history, bounds>>

\* The superseded conf and the leftovers go, then the own conf is written.
Unlink ==
  /\ pc = "unlink"
  /\ \/ \E f \in todo : /\ conf' = [conf EXCEPT ![f] = "absent"]
                        /\ todo' = todo \ {f}
                        /\ UNCHANGED pc
     \/ /\ todo = {}
        /\ conf' = [f \in Conf |-> IF f \in Own(cur) THEN "whole" ELSE conf[f]]
        /\ pc' = "build"
        /\ UNCHANGED todo
  /\ UNCHANGED <<mods, image, backup, disk, job, cur, history, bounds>>

\* depmod and mkinitcpio, in every action.
Rebuild ==
  /\ pc = "build"
  /\ image' = Build
  /\ pc' = IF job = "restore" /\ ~Cleanup(cur) THEN "sync" ELSE "verify"
  /\ UNCHANGED <<mods, conf, backup, disk, job, cur, todo, history, bounds>>

\* verify_image(armed=True)
Armed(i, img) ==
  /\ img.whole
  /\ \A m \in TargetsOf(i) : img.mods[m] = Scripts[i].mods[m]
  /\ \A f \in Own(i) \cup Needs(i) : img.conf[f] = "whole"
  /\ \A f \in Kept(i) : img.conf[f] = "absent"
  /\ LiveFlags(img) \cap Scripts[i].bans = {}

\* verify_image(armed=False)
Disarmed(i, img) ==
  /\ \A m \in TargetsOf(i) : img.mods[m] = Scripts[i].mods[m]
  /\ \A f \in Own(i) \cup Prior(i) : img.conf[f] = "absent"
  /\ LiveFlags(img) \cap Scripts[i].always = {}

\* verify_image(stale_removed=False), the only one restore() calls.
Undone(i, img) ==
  /\ \A f \in Needs(i) : img.conf[f] = "whole"
  /\ \A f \in Scripts[i].clears : img.conf[f] # "absent"

Good == CASE job = "install" -> Armed(cur, image)
          [] job = "disarm" -> Disarmed(cur, image)
          [] job = "restore" -> Undone(cur, image)

\* A slip: the image is unpacked and nothing in it is compared.
VerifyNothing ==
  /\ pc = "verify"
  /\ pc' = "sync" /\ UNCHANGED <<job, cur>>
  /\ UNCHANGED <<files, backup, disk, todo, history, bounds>>

\* What is not as it should be is undone only by install().
Verify ==
  /\ pc = "verify"
  /\ \/ Good /\ pc' = "sync" /\ UNCHANGED <<job, cur>>
     \/ ~Good /\ job = "install" /\ pc' = "open" /\ job' = "restore" /\ UNCHANGED cur
     \/ ~Good /\ job # "install" /\ pc' = "idle" /\ job' = "none" /\ cur' = 0
  /\ UNCHANGED <<files, backup, disk, todo, history, bounds>>

\* A slip: success is reported before it is on disk.
FinishUnsynced ==
  /\ pc = "sync"
  /\ done' = IF job = "install" THEN cur ELSE 0
  /\ pc' = "idle" /\ job' = "none" /\ cur' = 0
  /\ UNCHANGED <<files, backup, disk, todo, base, latest, bounds>>

\* A slip: the script that ran stays the current one.
FinishKeepsCur ==
  /\ pc = "sync"
  /\ saved' = Disk /\ kept' = [i \in Ids |-> backup[i].stage]
  /\ done' = IF job = "install" THEN cur ELSE 0
  /\ pc' = "idle" /\ job' = "none"
  /\ UNCHANGED <<files, backup, todo, cur, base, latest, bounds>>

\* The last os.sync() of every action.
Finish ==
  /\ pc = "sync"
  /\ saved' = Disk /\ kept' = [i \in Ids |-> backup[i].stage]
  /\ done' = IF job = "install" THEN cur ELSE 0
  /\ pc' = "idle" /\ job' = "none" /\ cur' = 0
  /\ UNCHANGED <<files, backup, todo, base, latest, bounds>>

\* disarm: the conf goes, and nothing else.
DisarmConf ==
  /\ pc = "disarm"
  /\ conf' = [conf EXCEPT ![S.own] = "absent"]
  /\ pc' = "build"
  /\ UNCHANGED <<mods, image, backup, disk, job, cur, todo, history, bounds>>
-----------------------------------------------------------------------------
(* restore()                                                               *)

\* The manifest and the digests of the files it lists.
Open ==
  /\ pc = "open"
  /\ IF backup[cur].stage \in Verified
     THEN /\ pc' = "recopy"
          /\ todo' = TargetsOf(cur) \cup (IF Cleanup(cur) THEN {} ELSE {"image"})
          /\ UNCHANGED <<job, cur>>
     ELSE pc' = "idle" /\ job' = "none" /\ cur' = 0 /\ UNCHANGED todo
  /\ UNCHANGED <<files, backup, disk, history, bounds>>

\* A slip: the candidate's conf stays where it is.
RecopyKeepsConf ==
  /\ pc = "recopy"
  /\ \/ \E m \in todo \ {"image"} :
          /\ mods' = [mods EXCEPT ![m] = backup[cur].mods[m]]
          /\ todo' = todo \ {m}
          /\ UNCHANGED <<conf, image, pc>>
     \/ /\ "image" \in todo
        /\ image' = backup[cur].image
        /\ todo' = todo \ {"image"}
        /\ UNCHANGED <<mods, conf, pc>>
     \/ /\ todo = {}
        /\ pc' = "reconf" /\ todo' = DOMAIN backup[cur].conf
        /\ UNCHANGED <<mods, conf, image>>
  /\ UNCHANGED <<backup, disk, job, cur, history, bounds>>

\* The targets are copied back in place; the candidate's own conf goes.
Recopy ==
  /\ pc = "recopy"
  /\ \/ \E m \in todo \ {"image"} :
          /\ mods' = [mods EXCEPT ![m] = backup[cur].mods[m]]
          /\ todo' = todo \ {m}
          /\ UNCHANGED <<conf, image, pc>>
     \/ /\ "image" \in todo
        /\ image' = backup[cur].image
        /\ todo' = todo \ {"image"}
        /\ UNCHANGED <<mods, conf, pc>>
     \/ /\ todo = {}
        /\ conf' = [f \in Conf |-> IF f \in Own(cur) THEN "absent" ELSE conf[f]]
        /\ pc' = "reconf" /\ todo' = DOMAIN backup[cur].conf
        /\ UNCHANGED <<mods, image>>
  /\ UNCHANGED <<backup, disk, job, cur, history, bounds>>

\* The other confs are copied back, as they are in BACKUP.
Reconf ==
  /\ pc = "reconf"
  /\ \/ \E f \in todo :
          /\ IF S.keeps /\ conf[f] # "absent"
             THEN UNCHANGED conf
             ELSE \E c \in {backup[cur].conf[f]} \cup
                          (IF backup[cur].stage = "spoilt" THEN {"torn"} ELSE {}) :
                    conf' = [conf EXCEPT ![f] = c]
          /\ todo' = todo \ {f}
          /\ UNCHANGED pc
     \/ /\ todo = {}
        /\ pc' = IF S.rebuilds THEN "build" ELSE "sync"
        /\ UNCHANGED <<conf, todo>>
  /\ UNCHANGED <<mods, image, backup, disk, job, cur, history, bounds>>
-----------------------------------------------------------------------------
(* Steps that raise (an interrupt can at any of them), and power cuts.     *)

Raise == faults < MaxFaults /\ faults' = faults + 1 /\ UNCHANGED cuts

\* The file being copied or written when a step raises may be left damaged.
MayTear(ms, cs) ==
  \/ UNCHANGED <<mods, conf>>
  \/ \E m \in ms : mods' = [mods EXCEPT ![m] = "torn"] /\ UNCHANGED conf
  \/ \E f \in cs : conf' = [conf EXCEPT ![f] = "torn"] /\ UNCHANGED mods

\* So may the image, while mkinitcpio writes it or it is copied back.
MayTearImage ==
  image' \in {image} \cup (IF pc = "build" \/ (pc = "recopy" /\ "image" \in todo)
                           THEN {[image EXCEPT !.whole = FALSE]} ELSE {})

\* Before the "try": the exception leaves BACKUP behind, as far as it got.
FaultInBackup ==
  /\ pc \in {"list", "keep", "settle"} /\ Raise
  /\ \/ UNCHANGED backup
     \/ /\ pc = "keep" /\ ~Cleanup(cur) /\ Kept(cur) # {}
        /\ backup' = [backup EXCEPT ![cur].stage = "spoilt",
                                    ![cur].conf = [f \in Kept(cur) |-> conf[f]]]
  /\ pc' = "idle" /\ job' = "none" /\ cur' = 0
  /\ UNCHANGED <<files, disk, todo, history>>

\* Inside it: "except BaseException" calls restore().
FaultInTry ==
  /\ job = "install" /\ pc \in {"check", "copy", "unlink", "build", "verify", "sync"}
  /\ Raise
  /\ MayTear(IF pc = "copy" THEN todo ELSE {}, IF pc = "unlink" THEN Own(cur) ELSE {})
  /\ MayTearImage
  /\ pc' = "open" /\ job' = "restore" /\ todo' = {}
  /\ UNCHANGED <<backup, disk, cur, history>>

\* Anywhere else the exception ends the script.
FaultOutside ==
  /\ job # "install"
  /\ pc \in {"open", "recopy", "reconf", "disarm", "build", "verify", "sync"}
  /\ Raise
  /\ MayTear(IF pc = "recopy" THEN todo \ {"image"} ELSE {},
             IF pc = "reconf" THEN todo ELSE {})
  /\ MayTearImage
  /\ pc' = "idle" /\ job' = "none" /\ cur' = 0 /\ todo' = {}
  /\ UNCHANGED <<backup, disk, history>>

\* What a BACKUP that was at stage s on disk, and got to t, may be found as.
Found(i, s, t) ==
  {s, t} \cup (IF t # "none" /\ s = "none" THEN {"begun"} ELSE {})
         \cup (IF t \in {"whole", "spoilt"} /\ s # t /\ ~Cleanup(i)
               THEN {"listed", "spoilt"} ELSE {})

\* The power goes: each file that differs from the last os.sync() is found as
\* it was then, as it was written since, or damaged.
Cut ==
  /\ pc # "off" /\ cuts < MaxCuts
  /\ cuts' = cuts + 1
  /\ LET dm == {m \in Module : mods[m] # saved.mods[m]}
         dc == {f \in Conf : conf[f] # saved.conf[f]}
         db == {i \in Ids : backup[i].stage # kept[i]}
     IN /\ \E g \in [dm -> {"old", "new", "torn"}] :
             mods' = [m \in Module |->
                        IF m \notin dm \/ g[m] = "new" THEN mods[m]
                        ELSE IF g[m] = "old" THEN saved.mods[m] ELSE "torn"]
        /\ \E g \in [dc -> {"old", "new", "torn"}] :
             conf' = [f \in Conf |->
                        IF f \notin dc \/ g[f] = "new" THEN conf[f]
                        ELSE IF g[f] = "old" THEN saved.conf[f]
                        ELSE IF conf[f] = "absent" THEN conf[f] ELSE "torn"]
        /\ image' \in {image, saved.image} \cup
             (IF image # saved.image THEN {[image EXCEPT !.whole = FALSE]} ELSE {})
        /\ \E g \in [db -> {"none", "begun", "listed", "whole", "spoilt"}] :
             /\ \A i \in db : g[i] \in Found(i, kept[i], backup[i].stage)
             /\ backup' = [i \in Ids |->
                             IF i \notin db THEN backup[i]
                             ELSE IF g[i] \in {"listed", "none", "begun"}
                             THEN [backup[i] EXCEPT !.stage = g[i], !.conf = <<>>]
                             ELSE [backup[i] EXCEPT !.stage = g[i]]]
  /\ saved' = Disk' /\ kept' = [i \in Ids |-> backup'[i].stage]
  /\ latest' = IF latest # 0 /\ (kept[latest] = "whole" \/ Disk' = base)
               THEN latest ELSE 0
  /\ pc' = "off" /\ job' = "none" /\ cur' = 0 /\ todo' = {}
  /\ UNCHANGED <<base, done, faults>>

\* The machine comes up again if its image is whole.
Boot ==
  /\ pc = "off" /\ image.whole
  /\ pc' = "idle"
  /\ UNCHANGED <<files, backup, disk, job, cur, todo, history, bounds>>
-----------------------------------------------------------------------------
ScriptStep == \/ List \/ Keep \/ Settle \/ Check \/ Copy \/ Unlink \/ Rebuild
              \/ Verify \/ Finish \/ DisarmConf \/ Open \/ Recopy \/ Reconf

Next == \/ \E i \in Ids : Install(i) \/ Restore(i) \/ Disarm(i)
        \/ ScriptStep
        \/ FaultInBackup \/ FaultInTry \/ FaultOutside \/ Cut \/ Boot

Spec == Init /\ [][Next]_vars
-----------------------------------------------------------------------------
Versions == {"torn"} \cup {Shipped[m] : m \in Module}
              \cup UNION {{Scripts[i].mods[m] : m \in TargetsOf(i)} : i \in Ids}
Marks    == {"absent", "whole", "torn"}
Images   == [whole : BOOLEAN, mods : [Module -> Versions], conf : [Conf -> Marks]]

\* Every variable has its type, and a module file, in place or in the image, is
\* damaged or a version that came with the system or a script.
TypeOK ==
  /\ mods \in [Module -> Versions] /\ conf \in [Conf -> Marks] /\ image \in Images
  /\ \A i \in Ids : backup[i].stage \in {"none", "begun"} \cup Verified
  /\ pc \in {"idle", "off", "list", "keep", "settle", "check", "copy", "unlink",
             "build", "verify", "sync", "disarm", "open", "recopy", "reconf"}
  /\ job \in {"none", "install", "restore", "disarm"}
  /\ cur \in Ids \cup {0} /\ (pc \in {"idle", "off"} <=> cur = 0)
  /\ todo \subseteq Module \cup Conf \cup {"image"}
  /\ latest \in Ids \cup {0} /\ done \in Ids \cup {0}

\* install() changes nothing before a backup that can undo it is safely on disk:
\* as long as it runs, whatever raised and whenever the power went before it
\* started, the files are as it found them or its whole BACKUP has been synced.
BackupFirst == job = "install" /\ Disk # base => kept[cur] = "whole"

\* A restore that runs to its end gives back what the install found, however
\* far the install, earlier restores or a disarm had got when they raised or
\* the power went - unless the copies of the confs themselves are damaged, which
\* no digest would tell, or a script takes the superseded conf for restored
\* because it is there, damaged (manage-0143.py:168).
RestoreUndoes ==
  [][job = "restore" /\ pc = "sync" /\ pc' = "idle" /\ latest = cur
       /\ backup[cur].stage # "spoilt" =>
     /\ mods' = base.mods
     /\ \A f \in Conf : \/ conf'[f] = base.conf[f]
                        \/ S.keeps /\ f \in Kept(cur) /\ conf'[f] = "torn"
     /\ image' \in {base.image, [whole |-> TRUE, mods |-> base.mods, conf |-> conf']}]_vars

\* When install has reported success, the next boot gets the candidate: its
\* modules and its options, none it supersedes, and none it bans, even if the
\* power goes right after.
SuccessIsDurable == done # 0 /\ pc \in {"idle", "off"} => Armed(done, image)
=============================================================================
