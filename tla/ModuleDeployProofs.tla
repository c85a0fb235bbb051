------------------------- MODULE ModuleDeployProofs -------------------------
(***************************************************************************)
(* The deployment transaction, for any scripts, confs, modules and bounds.  *)
(*                                                                          *)
(* That a restore undoes an install depends on a whole past: on what the    *)
(* BACKUP holds, on how far the files can have moved away from what the     *)
(* install found, and on where a power cut can put them.  LatestInv says so *)
(* of the files and of what is on disk, RestoreInv of a restore under way.  *)
(***************************************************************************)
EXTENDS ModuleDeploy, TLAPS

\* TypeOK in the parts the lemmas speak of.
FilesTyped ==
  mods \in [Module -> Versions] /\ conf \in [Conf -> Marks] /\ image \in Images
RunTyped ==
  /\ \A i \in Ids : backup[i].stage \in {"none", "begun"} \cup Verified
  /\ pc \in {"idle", "off", "list", "keep", "settle", "check", "copy", "unlink",
             "build", "verify", "sync", "disarm", "open", "recopy", "reconf"}
  /\ job \in {"none", "install", "restore", "disarm"}
  /\ cur \in Ids \cup {0} /\ (pc \in {"idle", "off"} <=> cur = 0)
  /\ todo \subseteq Module \cup Conf \cup {"image"}
  /\ latest \in Ids \cup {0} /\ done \in Ids \cup {0}

\* What is on disk has the type of the files.
DiskTyped == saved \in [mods : [Module -> Versions], conf : [Conf -> Marks], image : Images]

\* The running action, its place and the files its loop has to handle.
PlaceInv ==
  /\ pc \in {"idle", "off"} <=> job = "none"
  /\ pc \in {"list", "keep", "settle", "check", "copy", "unlink"} => job = "install"
  /\ pc \in {"open", "recopy", "reconf"} => job = "restore"
  /\ pc = "disarm" => job = "disarm"
  /\ pc = "copy" => todo \subseteq TargetsOf(cur)
  /\ pc \in {"unlink", "reconf"} => todo \subseteq Kept(cur)
  /\ pc = "recopy" => todo \subseteq TargetsOf(cur) \cup {"image"}

\* The targets have been copied to this BACKUP.
Copied(i) == backup[i].stage \in Verified \/ (i = cur /\ pc = "keep")

\* What a BACKUP holds at each stage, and that one on disk is the one that is
\* there.
BackupInv ==
  /\ DOMAIN backup = Ids /\ DOMAIN kept = Ids
  /\ \A i \in Ids :
        /\ DOMAIN backup[i] = {"stage", "mods", "conf", "image"}
        /\ Copied(i) => /\ backup[i].mods \in [TargetsOf(i) -> Versions]
                        /\ backup[i].image \in Images
        /\ backup[i].stage = "listed" => DOMAIN backup[i].conf = {}
        /\ backup[i].stage \in {"whole", "spoilt"} => backup[i].conf \in [Kept(i) -> Marks]
        /\ kept[i] \in {"none", backup[i].stage}

\* How far the BACKUP of a running script has got.
StageInv ==
  /\ pc \in {"list", "keep", "settle"} => kept[cur] = "none" /\ Disk = base
  /\ pc = "keep" => backup[cur].stage = IF Cleanup(cur) THEN "begun" ELSE "listed"
  /\ pc = "settle" => backup[cur].stage = "whole"
  /\ job = "install" /\ pc \notin {"list", "keep", "settle"} => kept[cur] = "whole"
  /\ pc \in {"recopy", "reconf"} => backup[cur].stage \in Verified
  /\ pc = "reconf" => todo \subseteq DOMAIN backup[cur].conf

\* An install that is through, or about to be, has its image.
DoneInv ==
  /\ done # 0 => pc \in {"idle", "off"} /\ Armed(done, image) /\ saved.image = image
  /\ job = "install" /\ pc = "sync" => Armed(cur, image)

\* How far modules and confs can be from what the latest install found.
NearMods(ms) == \A m \in Module \ TargetsOf(latest) : ms[m] = base.mods[m]
NearConf(cs) ==
  \A f \in Conf \ Own(latest) :
    cs[f] = base.conf[f] \/ (f \in Kept(latest) /\ cs[f] \in {"absent", "torn"})

\* Nobody but the latest install's script runs, and the latest install found what
\* it looked for.
LatestInv ==
  /\ job = "install" => latest = cur
  /\ latest # 0 =>
       /\ cur \in {0, latest}
       /\ base \in [mods : [Module -> Versions], conf : [Conf -> Marks], image : Images]
       /\ \A f \in Own(latest) : base.conf[f] = "absent"
       /\ \A f \in Kept(latest) : base.conf[f] # "absent"

\* Its BACKUP is of what it found.
CopyInv ==
  latest # 0 =>
    /\ Copied(latest) => /\ \A m \in TargetsOf(latest) : backup[latest].mods[m] = base.mods[m]
                         /\ backup[latest].image = base.image
    /\ backup[latest].stage = "whole" =>
         \A f \in Kept(latest) : backup[latest].conf[f] = base.conf[f]

\* Only its own files have moved since, and the confs not before its BACKUP was
\* whole.
NearInv ==
  latest # 0 =>
    /\ NearMods(mods)
    /\ backup[latest].stage # "spoilt" => NearConf(conf)
    /\ backup[latest].stage \notin {"whole", "spoilt"} => conf = base.conf
    /\ kept[latest] = "whole" => NearMods(saved.mods) /\ NearConf(saved.conf)

\* A conf is back, or damaged and taken for restored.
Back(f) == conf[f] = base.conf[f] \/ (S.keeps /\ f \in Kept(cur) /\ conf[f] = "torn")

\* How far a restore of the latest install has got.
RestoreInv ==
  job = "restore" /\ latest = cur /\ backup[cur].stage # "spoilt" =>
    /\ pc = "recopy" => /\ \A m \in TargetsOf(cur) \ todo : mods[m] = base.mods[m]
                        /\ "image" \notin todo /\ ~Cleanup(cur) => image = base.image
    /\ pc \in {"reconf", "build", "verify", "sync"} => mods = base.mods
    /\ pc = "reconf" => /\ ~Cleanup(cur) => image = base.image
                        /\ \A f \in Conf \ todo : Back(f)
    /\ pc \in {"build", "verify", "sync"} => \A f \in Conf : Back(f)
    /\ pc \in {"verify", "sync"} =>
         image \in {base.image, [whole |-> TRUE, mods |-> base.mods, conf |-> conf]}

\* The inductive invariant.
IInv == /\ TypeOK /\ DiskTyped /\ PlaceInv /\ BackupInv /\ StageInv
        /\ DoneInv /\ LatestInv /\ CopyInv /\ NearInv /\ RestoreInv

-----------------------------------------------------------------------------

\* A version of a module file is one of those that are named.
LEMMA VersionFacts ==
  /\ "torn" \in Versions
  /\ \A m \in Module : Shipped[m] \in Versions
  /\ \A i \in Ids : \A m \in TargetsOf(i) : Scripts[i].mods[m] \in Versions
  BY DEF Versions

\* mkinitcpio, and an image that is damaged.
LEMMA ImageFacts ==
  ASSUME FilesTyped
  PROVE  /\ Build \in Images
         /\ [image EXCEPT !.whole = FALSE] \in Images
  BY DEF FilesTyped, Build, Images

\* What a power cut may leave of a file.
LeftOf(now, then) == {now, then} \cup (IF now = then THEN {} ELSE {"torn"})

\* A power cut, file by file and BACKUP by BACKUP.
LEMMA CutFacts ==
  ASSUME BackupInv, Cut
  PROVE  /\ mods' = [m \in Module |-> mods'[m]]
         /\ \A m \in Module : mods'[m] \in LeftOf(mods[m], saved.mods[m])
         /\ conf' = [f \in Conf |-> conf'[f]]
         /\ \A f \in Conf : conf'[f] \in LeftOf(conf[f], saved.conf[f])
         /\ \/ image' = image \/ image' = saved.image
            \/ image # saved.image /\ image' = [image EXCEPT !.whole = FALSE]
         /\ DOMAIN backup' = Ids
         /\ \A i \in Ids :
              /\ DOMAIN backup'[i] = DOMAIN backup[i]
              /\ backup'[i].mods = backup[i].mods /\ backup'[i].image = backup[i].image
              /\ backup[i].stage = kept[i] => backup'[i] = backup[i]
              /\ backup[i].stage # kept[i] =>
                   /\ backup'[i].stage \in Found(i, kept[i], backup[i].stage)
                   /\ backup'[i].stage \in {"listed", "none", "begun"} => backup'[i].conf = <<>>
                   /\ backup'[i].stage \notin {"listed", "none", "begun"} =>
                        backup'[i].conf = backup[i].conf
<1>1. PICK g \in [{m \in Module : mods[m] # saved.mods[m]} -> {"old", "new", "torn"}] :
        mods' = [m \in Module |->
                   IF m \notin {x \in Module : mods[x] # saved.mods[x]} \/ g[m] = "new"
                   THEN mods[m]
                   ELSE IF g[m] = "old" THEN saved.mods[m] ELSE "torn"]
  BY DEF Cut
<1>2. PICK h \in [{f \in Conf : conf[f] # saved.conf[f]} -> {"old", "new", "torn"}] :
        conf' = [f \in Conf |->
                   IF f \notin {x \in Conf : conf[x] # saved.conf[x]} \/ h[f] = "new"
                   THEN conf[f]
                   ELSE IF h[f] = "old" THEN saved.conf[f]
                   ELSE IF conf[f] = "absent" THEN conf[f] ELSE "torn"]
  BY DEF Cut
<1>3. PICK b \in [{i \in Ids : backup[i].stage # kept[i]}
                    -> {"none", "begun", "listed", "whole", "spoilt"}] :
        /\ \A i \in {j \in Ids : backup[j].stage # kept[j]} :
             b[i] \in Found(i, kept[i], backup[i].stage)
        /\ backup' = [i \in Ids |->
             IF i \notin {j \in Ids : backup[j].stage # kept[j]} THEN backup[i]
             ELSE IF b[i] \in {"listed", "none", "begun"}
             THEN [backup[i] EXCEPT !.stage = b[i], !.conf = <<>>]
             ELSE [backup[i] EXCEPT !.stage = b[i]]]
  BY DEF Cut
<1>4. /\ mods' = [m \in Module |-> mods'[m]]
      /\ \A m \in Module : mods'[m] \in LeftOf(mods[m], saved.mods[m])
  BY <1>1 DEF LeftOf
<1>5. /\ conf' = [f \in Conf |-> conf'[f]]
      /\ \A f \in Conf : conf'[f] \in LeftOf(conf[f], saved.conf[f])
  BY <1>2 DEF LeftOf
<1>6. \/ image' = image \/ image' = saved.image
      \/ image # saved.image /\ image' = [image EXCEPT !.whole = FALSE]
  BY DEF Cut
<1>7. DOMAIN backup' = Ids
  BY <1>3
<1>8. ASSUME NEW i \in Ids
      PROVE  /\ DOMAIN backup'[i] = DOMAIN backup[i]
             /\ backup'[i].mods = backup[i].mods /\ backup'[i].image = backup[i].image
             /\ backup[i].stage = kept[i] => backup'[i] = backup[i]
             /\ backup[i].stage # kept[i] =>
                  /\ backup'[i].stage \in Found(i, kept[i], backup[i].stage)
                  /\ backup'[i].stage \in {"listed", "none", "begun"} => backup'[i].conf = <<>>
                  /\ backup'[i].stage \notin {"listed", "none", "begun"} =>
                       backup'[i].conf = backup[i].conf
  <2>1. CASE backup[i].stage = kept[i]
    BY <1>3, <2>1
  <2>2. CASE backup[i].stage # kept[i]
    <3>1. backup'[i] = IF b[i] \in {"listed", "none", "begun"}
                       THEN [backup[i] EXCEPT !.stage = b[i], !.conf = <<>>]
                       ELSE [backup[i] EXCEPT !.stage = b[i]]
      BY <1>3, <2>2
    <3>2. DOMAIN backup[i] = {"stage", "mods", "conf", "image"}
      BY DEF BackupInv
    <3>3. b[i] \in Found(i, kept[i], backup[i].stage)
      BY <1>3, <2>2
    <3> QED
      BY <2>2, <3>1, <3>2, <3>3
  <2> QED
    BY <2>1, <2>2
<1> QED
  BY <1>4, <1>5, <1>6, <1>7, <1>8

\* A BACKUP without confs.
LEMMA NoConfs == DOMAIN <<>> = {}
  OBVIOUS

\* The files keep their types: a damaged one aside, each is of a known version.
LEMMA FilesStep ==
  ASSUME FilesTyped, DiskTyped, RunTyped, PlaceInv, BackupInv, StageInv, [Next]_vars
  PROVE  FilesTyped' /\ DiskTyped'
<1> USE DeployAssumption DEF FilesTyped, DiskTyped, RunTyped, vars, files, disk, run,
     history, bounds
<1>1. CASE \E i \in Ids : Install(i)
  BY <1>1 DEF Install
<1>2. CASE \E i \in Ids : Restore(i)
  BY <1>2 DEF Restore
<1>3. CASE \E i \in Ids : Disarm(i)
  BY <1>3 DEF Disarm
<1>4. CASE List
  BY <1>4 DEF List
<1>5. CASE Keep
  BY <1>5 DEF Keep
<1>6. CASE Settle
  BY <1>6 DEF Settle, Disk
<1>7. CASE Check
  BY <1>7 DEF Check
<1>8. CASE Copy
  BY <1>8, VersionFacts DEF Copy, S, PlaceInv
<1>9. CASE Unlink
  BY <1>9 DEF Unlink, Marks
<1>10. CASE Rebuild
  BY <1>10, ImageFacts DEF Rebuild
<1>11. CASE Verify
  BY <1>11 DEF Verify
<1>12. CASE Finish
  BY <1>12 DEF Finish, Disk
<1>13. CASE DisarmConf
  BY <1>13 DEF DisarmConf, Marks
<1>14. CASE Open
  BY <1>14 DEF Open
<1>15. CASE Recopy
  <2>1. cur \in Ids /\ Copied(cur)
    BY <1>15 DEF Recopy, StageInv, Copied
  <2>2. backup[cur].mods \in [TargetsOf(cur) -> Versions] /\ backup[cur].image \in Images
    BY <2>1 DEF BackupInv
  <2>3. mods' \in [Module -> Versions]
    BY <1>15, <2>2 DEF Recopy, PlaceInv
  <2>4. conf' \in [Conf -> Marks]
    BY <1>15 DEF Recopy, Marks
  <2>5. image' \in Images
    BY <1>15, <2>2 DEF Recopy
  <2> QED
    BY <1>15, <2>3, <2>4, <2>5 DEF Recopy
<1>16. CASE Reconf
  <2>1. cur \in Ids /\ backup[cur].stage \in Verified
    BY <1>16 DEF Reconf, StageInv
  <2>2. \A f \in todo : backup[cur].conf[f] \in Marks
    BY <1>16, <2>1 DEF Reconf, BackupInv, StageInv, Verified
  <2>3. \A f \in todo : \A c \in {backup[cur].conf[f], "torn"} : c \in Marks
    BY <2>2 DEF Marks
  <2>4. conf' \in [Conf -> Marks]
    <3>1. CASE todo = {}
      BY <1>16, <3>1 DEF Reconf
    <3>2. CASE todo # {}
      BY <1>16, <3>2, <2>3 DEF Reconf
    <3> QED
      BY <3>1, <3>2
  <2> QED
    BY <1>16, <2>4 DEF Reconf
<1>17. CASE FaultInBackup
  BY <1>17 DEF FaultInBackup
<1>18. CASE FaultInTry
  <2>1. mods' \in [Module -> Versions] /\ conf' \in [Conf -> Marks]
    BY <1>18, VersionFacts DEF FaultInTry, MayTear, Marks
  <2>2. image' \in Images
    BY <1>18, ImageFacts DEF FaultInTry, MayTearImage
  <2> QED
    BY <1>18, <2>1, <2>2 DEF FaultInTry
<1>19. CASE FaultOutside
  <2>1. mods' \in [Module -> Versions] /\ conf' \in [Conf -> Marks]
    BY <1>19, VersionFacts DEF FaultOutside, MayTear, Marks
  <2>2. image' \in Images
    BY <1>19, ImageFacts DEF FaultOutside, MayTearImage
  <2> QED
    BY <1>19, <2>1, <2>2 DEF FaultOutside
<1>20. CASE Cut
  <2>1. mods' \in [Module -> Versions] /\ conf' \in [Conf -> Marks]
    BY <1>20, CutFacts, VersionFacts DEF LeftOf, Marks
  <2>2. image' \in Images
    BY <1>20, CutFacts, ImageFacts
  <2> QED
    BY <1>20, <2>1, <2>2 DEF Cut, Disk
<1>21. CASE Boot
  BY <1>21 DEF Boot
<1>22. CASE UNCHANGED vars
  BY <1>22
<1> QED
  BY <1>1, <1>2, <1>3, <1>4, <1>5, <1>6, <1>7, <1>8, <1>9, <1>10, <1>11, <1>12, <1>13, <1>14,
     <1>15, <1>16, <1>17, <1>18, <1>19, <1>20, <1>21, <1>22 DEF Next, ScriptStep

\* The running script goes through its action in order, over the files it is for.
LEMMA RunStep ==
  ASSUME FilesTyped, RunTyped, PlaceInv, BackupInv, StageInv, [Next]_vars
  PROVE  RunTyped' /\ PlaceInv'
<1> USE DeployAssumption DEF RunTyped, PlaceInv, vars, files, disk, run, history, bounds
<1>1. CASE \E i \in Ids : Install(i)
  BY <1>1 DEF Install, Start
<1>2. CASE \E i \in Ids : Restore(i)
  BY <1>2 DEF Restore, Start
<1>3. CASE \E i \in Ids : Disarm(i)
  BY <1>3 DEF Disarm, Start
<1>4. CASE List
  BY <1>4 DEF List, Verified
<1>5. CASE Keep
  BY <1>5 DEF Keep, BackupInv, Verified
<1>6. CASE Settle
  BY <1>6 DEF Settle
<1>7. CASE Check
  BY <1>7 DEF Check, TargetsOf
<1>8. CASE Copy
  BY <1>8 DEF Copy
<1>9. CASE Unlink
  BY <1>9 DEF Unlink
<1>10. CASE Rebuild
  BY <1>10 DEF Rebuild
<1>11. CASE Verify
  BY <1>11 DEF Verify
<1>12. CASE Finish
  BY <1>12 DEF Finish
<1>13. CASE DisarmConf
  BY <1>13 DEF DisarmConf
<1>14. CASE Open
  BY <1>14 DEF Open, TargetsOf
<1>15. CASE Recopy
  <2>1. cur \in Ids /\ backup[cur].stage \in Verified
    BY <1>15 DEF Recopy, StageInv
  <2>2. DOMAIN backup[cur].conf \subseteq Kept(cur)
    BY <2>1 DEF BackupInv, Verified
  <2> QED
    BY <1>15, <2>1, <2>2 DEF Recopy
<1>16. CASE Reconf
  BY <1>16 DEF Reconf
<1>17. CASE FaultInBackup
  <2>1. \A i \in Ids : backup'[i].stage \in {"none", "begun"} \cup Verified
    BY <1>17 DEF FaultInBackup, BackupInv, Verified
  <2> QED
    BY <1>17, <2>1 DEF FaultInBackup
<1>18. CASE FaultInTry
  BY <1>18 DEF FaultInTry
<1>19. CASE FaultOutside
  BY <1>19 DEF FaultOutside
<1>20. CASE Cut
  <2>1. \A i \in Ids : backup'[i].stage \in {"none", "begun"} \cup Verified
    BY <1>20, CutFacts DEF Found, Verified, BackupInv
  <2> QED
    BY <1>20, <2>1 DEF Cut
<1>21. CASE Boot
  BY <1>21 DEF Boot
<1>22. CASE UNCHANGED vars
  BY <1>22
<1> QED
  BY <1>1, <1>2, <1>3, <1>4, <1>5, <1>6, <1>7, <1>8, <1>9, <1>10, <1>11, <1>12, <1>13, <1>14,
     <1>15, <1>16, <1>17, <1>18, <1>19, <1>20, <1>21, <1>22 DEF Next, ScriptStep

\* A BACKUP holds at each stage what the script has put there, and one on disk is
\* never written again.
LEMMA BackupStep ==
  ASSUME FilesTyped, RunTyped, PlaceInv, BackupInv, StageInv, [Next]_vars
  PROVE  BackupInv'
<1> USE DeployAssumption DEF RunTyped, BackupInv, vars, files, disk, run, history, bounds
<1>1. CASE \E i \in Ids : Install(i)
  BY <1>1 DEF Install, Start, Installable, Verified, Copied
<1>2. CASE \E i \in Ids : Restore(i)
  BY <1>2 DEF Restore, Start, Copied
<1>3. CASE \E i \in Ids : Disarm(i)
  BY <1>3 DEF Disarm, Start, Copied
<1>4. CASE List
  <2>1. cur \in Ids /\ kept[cur] = "none"
    BY <1>4 DEF List, StageInv
  <2>2. /\ DOMAIN backup' = Ids
        /\ \A i \in Ids \ {cur} : backup'[i] = backup[i]
        /\ backup'[cur] = [stage |-> IF Cleanup(cur) THEN "begun" ELSE "listed",
                          mods |-> [m \in TargetsOf(cur) |-> mods[m]],
                          image |-> image, conf |-> <<>>]
    BY <1>4, <2>1 DEF List
  <2>3. [m \in TargetsOf(cur) |-> mods[m]] \in [TargetsOf(cur) -> Versions]
    BY DEF FilesTyped, TargetsOf
  <2>4. image \in Images /\ DOMAIN backup'[cur] = {"stage", "mods", "conf", "image"}
    BY <2>2 DEF FilesTyped
  <2> QED
    BY <1>4, <2>1, <2>2, <2>3, <2>4, NoConfs DEF List, Copied
<1>5. CASE Keep
  BY <1>5 DEF Keep, StageInv, FilesTyped, Copied
<1>6. CASE Settle
  BY <1>6 DEF Settle, Copied
<1>7. CASE Check
  BY <1>7 DEF Check, Copied
<1>8. CASE Copy
  BY <1>8 DEF Copy, Copied
<1>9. CASE Unlink
  BY <1>9 DEF Unlink, Copied
<1>10. CASE Rebuild
  BY <1>10 DEF Rebuild, Copied
<1>11. CASE Verify
  BY <1>11 DEF Verify, Copied
<1>12. CASE Finish
  BY <1>12 DEF Finish, Copied
<1>13. CASE DisarmConf
  BY <1>13 DEF DisarmConf, Copied
<1>14. CASE Open
  BY <1>14 DEF Open, Copied
<1>15. CASE Recopy
  BY <1>15 DEF Recopy, Copied
<1>16. CASE Reconf
  BY <1>16 DEF Reconf, Copied
<1>17. CASE FaultInBackup
  BY <1>17 DEF FaultInBackup, StageInv, Copied
<1>18. CASE FaultInTry
  BY <1>18 DEF FaultInTry, Copied
<1>19. CASE FaultOutside
  BY <1>19 DEF FaultOutside, Copied
<1>20. CASE Cut
  <2> SUFFICES ASSUME NEW i \in Ids
               PROVE  /\ DOMAIN backup'[i] = {"stage", "mods", "conf", "image"}
                      /\ Copied(i)' => /\ backup'[i].mods \in [TargetsOf(i) -> Versions]
                                       /\ backup'[i].image \in Images
                      /\ backup'[i].stage = "listed" => DOMAIN backup'[i].conf = {}
                      /\ backup'[i].stage \in {"whole", "spoilt"} =>
                           backup'[i].conf \in [Kept(i) -> Marks]
                      /\ kept'[i] \in {"none", backup'[i].stage}
    BY <1>20, CutFacts DEF Cut
  <2>1. kept'[i] = backup'[i].stage /\ (Copied(i)' => backup'[i].stage \in Verified)
    BY <1>20 DEF Cut, Copied
  <2>2. CASE backup[i].stage = kept[i]
    BY <1>20, <2>1, <2>2, CutFacts DEF Copied
  <2>3. CASE backup[i].stage # kept[i]
    <3>1. kept[i] = "none"
      BY <2>3
    <3>2. backup'[i].stage \in Verified => backup[i].stage \in Verified
      BY <1>20, <2>3, <3>1, CutFacts DEF Found, Verified
    <3>3. backup'[i].stage \in {"whole", "spoilt"} => backup[i].stage \in {"whole", "spoilt"}
      BY <1>20, <2>3, <3>1, CutFacts DEF Found
    <3> QED
      BY <1>20, <2>1, <2>3, <3>2, <3>3, CutFacts, NoConfs DEF Copied
  <2> QED
    BY <2>2, <2>3
<1>21. CASE Boot
  BY <1>21 DEF Boot, Copied
<1>22. CASE UNCHANGED vars
  BY <1>22 DEF Copied
<1> QED
  BY <1>1, <1>2, <1>3, <1>4, <1>5, <1>6, <1>7, <1>8, <1>9, <1>10, <1>11, <1>12, <1>13, <1>14,
     <1>15, <1>16, <1>17, <1>18, <1>19, <1>20, <1>21, <1>22 DEF Next, ScriptStep

\* No file is touched before the BACKUP has been synced.
LEMMA StageStep ==
  ASSUME FilesTyped, RunTyped, PlaceInv, BackupInv, StageInv, [Next]_vars
  PROVE  StageInv'
<1> USE DeployAssumption DEF StageInv, vars, files, disk, run, history, bounds
<1>1. CASE \E i \in Ids : Install(i)
  BY <1>1 DEF Install, Start, Installable, BackupInv, Disk
<1>2. CASE \E i \in Ids : Restore(i)
  BY <1>2 DEF Restore, Start
<1>3. CASE \E i \in Ids : Disarm(i)
  BY <1>3 DEF Disarm, Start
<1>4. CASE List
  BY <1>4 DEF List, RunTyped, BackupInv, Disk
<1>5. CASE Keep
  BY <1>5 DEF Keep, RunTyped, BackupInv, Disk
<1>6. CASE Settle
  BY <1>6 DEF Settle, RunTyped
<1>7. CASE Check
  BY <1>7 DEF Check
<1>8. CASE Copy
  BY <1>8 DEF Copy
<1>9. CASE Unlink
  BY <1>9 DEF Unlink
<1>10. CASE Rebuild
  BY <1>10 DEF Rebuild
<1>11. CASE Verify
  BY <1>11 DEF Verify
<1>12. CASE Finish
  BY <1>12 DEF Finish
<1>13. CASE DisarmConf
  BY <1>13 DEF DisarmConf
<1>14. CASE Open
  BY <1>14 DEF Open
<1>15. CASE Recopy
  BY <1>15 DEF Recopy
<1>16. CASE Reconf
  BY <1>16 DEF Reconf
<1>17. CASE FaultInBackup
  BY <1>17 DEF FaultInBackup
<1>18. CASE FaultInTry
  BY <1>18 DEF FaultInTry
<1>19. CASE FaultOutside
  BY <1>19 DEF FaultOutside
<1>20. CASE Cut
  BY <1>20 DEF Cut
<1>21. CASE Boot
  BY <1>21 DEF Boot
<1>22. CASE UNCHANGED vars
  BY <1>22 DEF Disk
<1> QED
  BY <1>1, <1>2, <1>3, <1>4, <1>5, <1>6, <1>7, <1>8, <1>9, <1>10, <1>11, <1>12, <1>13, <1>14,
     <1>15, <1>16, <1>17, <1>18, <1>19, <1>20, <1>21, <1>22 DEF Next, ScriptStep

\* Success is reported of an image that was looked at, and that is on disk.
LEMMA DoneStep ==
  ASSUME FilesTyped, RunTyped, PlaceInv, BackupInv, StageInv, DoneInv, [Next]_vars
  PROVE  DoneInv'
<1> USE DeployAssumption DEF DoneInv, vars, files, disk, run, history, bounds
<1>1. CASE \E i \in Ids : Install(i)
  BY <1>1 DEF Install, Start
<1>2. CASE \E i \in Ids : Restore(i)
  BY <1>2 DEF Restore, Start
<1>3. CASE \E i \in Ids : Disarm(i)
  BY <1>3 DEF Disarm, Start
<1>4. CASE List
  BY <1>4 DEF List
<1>5. CASE Keep
  BY <1>5 DEF Keep
<1>6. CASE Settle
  BY <1>6 DEF Settle
<1>7. CASE Check
  BY <1>7 DEF Check
<1>8. CASE Copy
  BY <1>8 DEF Copy
<1>9. CASE Unlink
  BY <1>9 DEF Unlink
<1>10. CASE Rebuild
  BY <1>10 DEF Rebuild
<1>11. CASE Verify
  BY <1>11 DEF Verify, Good
<1>12. CASE Finish
  BY <1>12 DEF Finish, Disk
<1>13. CASE DisarmConf
  BY <1>13 DEF DisarmConf
<1>14. CASE Open
  BY <1>14 DEF Open
<1>15. CASE Recopy
  BY <1>15 DEF Recopy
<1>16. CASE Reconf
  BY <1>16 DEF Reconf, PlaceInv
<1>17. CASE FaultInBackup
  BY <1>17 DEF FaultInBackup
<1>18. CASE FaultInTry
  BY <1>18 DEF FaultInTry
<1>19. CASE FaultOutside
  BY <1>19 DEF FaultOutside
<1>20. CASE Cut
  <2>1. pc' = "off" /\ job' = "none" /\ done' = done
    BY <1>20 DEF Cut
  <2>2. done # 0 => image' = image /\ saved'.image = image'
    BY <1>20, CutFacts DEF Cut, Disk
  <2> QED
    BY <2>1, <2>2
<1>21. CASE Boot
  BY <1>21 DEF Boot
<1>22. CASE UNCHANGED vars
  BY <1>22
<1> QED
  BY <1>1, <1>2, <1>3, <1>4, <1>5, <1>6, <1>7, <1>8, <1>9, <1>10, <1>11, <1>12, <1>13, <1>14,
     <1>15, <1>16, <1>17, <1>18, <1>19, <1>20, <1>21, <1>22 DEF Next, ScriptStep

\* The latest install found what it looked for, and has the machine to itself.
LEMMA LatestStep ==
  ASSUME FilesTyped, DiskTyped, RunTyped, PlaceInv, BackupInv, StageInv, LatestInv, [Next]_vars
  PROVE  LatestInv'
<1> USE DeployAssumption DEF LatestInv, vars, files, disk, run, history, bounds
<1>1. CASE \E i \in Ids : Install(i)
  <2> PICK i \in Ids : Install(i)
    BY <1>1
  <2>1. latest' = i /\ cur' = i /\ base' = Disk
    BY DEF Install, Start
  <2>2. Disk \in [mods : [Module -> Versions], conf : [Conf -> Marks], image : Images]
    BY DEF Disk, FilesTyped
  <2>3. /\ \A f \in Own(i) : conf[f] = "absent"
        /\ \A f \in Kept(i) : conf[f] # "absent"
    BY DEF Install, Installable, Kept
  <2> QED
    BY <2>1, <2>2, <2>3 DEF Disk
<1>2. CASE \E i \in Ids : Restore(i)
  BY <1>2 DEF Restore, Start
<1>3. CASE \E i \in Ids : Disarm(i)
  BY <1>3 DEF Disarm, Start
<1>4. CASE List
  BY <1>4 DEF List
<1>5. CASE Keep
  BY <1>5 DEF Keep
<1>6. CASE Settle
  BY <1>6 DEF Settle
<1>7. CASE Check
  BY <1>7 DEF Check
<1>8. CASE Copy
  BY <1>8 DEF Copy
<1>9. CASE Unlink
  BY <1>9 DEF Unlink
<1>10. CASE Rebuild
  BY <1>10 DEF Rebuild
<1>11. CASE Verify
  BY <1>11 DEF Verify
<1>12. CASE Finish
  BY <1>12 DEF Finish
<1>13. CASE DisarmConf
  BY <1>13 DEF DisarmConf
<1>14. CASE Open
  BY <1>14 DEF Open
<1>15. CASE Recopy
  BY <1>15 DEF Recopy
<1>16. CASE Reconf
  BY <1>16 DEF Reconf
<1>17. CASE FaultInBackup
  BY <1>17 DEF FaultInBackup
<1>18. CASE FaultInTry
  BY <1>18 DEF FaultInTry
<1>19. CASE FaultOutside
  BY <1>19 DEF FaultOutside
<1>20. CASE Cut
  BY <1>20 DEF Cut
<1>21. CASE Boot
  BY <1>21 DEF Boot
<1>22. CASE UNCHANGED vars
  BY <1>22
<1> QED
  BY <1>1, <1>2, <1>3, <1>4, <1>5, <1>6, <1>7, <1>8, <1>9, <1>10, <1>11, <1>12, <1>13, <1>14,
     <1>15, <1>16, <1>17, <1>18, <1>19, <1>20, <1>21, <1>22 DEF Next, ScriptStep

\* Its BACKUP stays what it found, whatever a power cut leaves of it.
LEMMA CopyStep ==
  ASSUME FilesTyped, DiskTyped, RunTyped, PlaceInv, BackupInv, StageInv, LatestInv,
         CopyInv, [Next]_vars
  PROVE  CopyInv'
<1> USE DeployAssumption DEF CopyInv, LatestInv, vars, files, disk, run, history, bounds
<1>1. CASE \E i \in Ids : Install(i)
  BY <1>1 DEF Install, Start, Installable, Copied, Verified
<1>2. CASE \E i \in Ids : Restore(i)
  BY <1>2 DEF Restore, Start, Copied
<1>3. CASE \E i \in Ids : Disarm(i)
  BY <1>3 DEF Disarm, Start, Copied
<1>4. CASE List
  BY <1>4 DEF List, RunTyped, BackupInv, StageInv, Disk
<1>5. CASE Keep
  BY <1>5 DEF Keep, RunTyped, BackupInv, StageInv, Copied, Disk
<1>6. CASE Settle
  BY <1>6 DEF Settle, Copied
<1>7. CASE Check
  BY <1>7 DEF Check, Copied
<1>8. CASE Copy
  BY <1>8 DEF Copy, Copied
<1>9. CASE Unlink
  BY <1>9 DEF Unlink, Copied
<1>10. CASE Rebuild
  BY <1>10 DEF Rebuild, Copied
<1>11. CASE Verify
  BY <1>11 DEF Verify, Copied
<1>12. CASE Finish
  BY <1>12 DEF Finish, Copied
<1>13. CASE DisarmConf
  BY <1>13 DEF DisarmConf, Copied
<1>14. CASE Open
  BY <1>14 DEF Open, Copied
<1>15. CASE Recopy
  BY <1>15 DEF Recopy, Copied
<1>16. CASE Reconf
  BY <1>16 DEF Reconf, Copied
<1>17. CASE FaultInBackup
  BY <1>17 DEF FaultInBackup, RunTyped, BackupInv, Copied
<1>18. CASE FaultInTry
  BY <1>18 DEF FaultInTry, Copied
<1>19. CASE FaultOutside
  BY <1>19 DEF FaultOutside, Copied
<1>20. CASE Cut
  <2> SUFFICES ASSUME latest' # 0 PROVE CopyInv'
    BY DEF CopyInv
  <2>1. latest \in Ids /\ latest' = latest /\ base' = base /\ pc' = "off"
    BY <1>20 DEF Cut, RunTyped
  <2>2. backup'[latest].mods = backup[latest].mods /\ backup'[latest].image = backup[latest].image
    BY <1>20, <2>1, CutFacts
  <2>3. CASE backup[latest].stage = kept[latest]
    BY <1>20, <2>1, <2>3, CutFacts DEF Copied
  <2>4. CASE backup[latest].stage # kept[latest]
    <3>1. kept[latest] = "none"
      BY <2>1, <2>4 DEF BackupInv
    <3>2. backup'[latest].stage \in Verified => backup[latest].stage \in Verified
      BY <1>20, <2>1, <2>4, <3>1, CutFacts DEF Found, Verified
    <3>3. backup'[latest].stage = "whole" =>
            backup[latest].stage = "whole" /\ backup'[latest].conf = backup[latest].conf
      BY <1>20, <2>1, <2>4, <3>1, CutFacts DEF Found
    <3> QED
      BY <2>1, <2>2, <3>2, <3>3 DEF Copied
  <2> QED
    BY <2>3, <2>4
<1>21. CASE Boot
  BY <1>21 DEF Boot, Copied
<1>22. CASE UNCHANGED vars
  BY <1>22 DEF Copied
<1> QED
  BY <1>1, <1>2, <1>3, <1>4, <1>5, <1>6, <1>7, <1>8, <1>9, <1>10, <1>11, <1>12, <1>13, <1>14,
     <1>15, <1>16, <1>17, <1>18, <1>19, <1>20, <1>21, <1>22 DEF Next, ScriptStep

\* A step that leaves the disk, the BACKUPs and the latest install alone.
LEMMA NearKept ==
  ASSUME NearInv, UNCHANGED <<latest, base, backup, saved, kept>>,
         latest # 0 =>
           /\ NearMods(mods')
           /\ backup[latest].stage # "spoilt" => NearConf(conf')
           /\ backup[latest].stage \notin {"whole", "spoilt"} => conf' = base.conf
  PROVE  NearInv'
  BY DEF NearInv, NearMods, NearConf

\* The files, in place and on disk, stay near what it found: steps that raise, power
\* cuts and restores move only those it is about.
LEMMA NearStep ==
  ASSUME FilesTyped, DiskTyped, RunTyped, PlaceInv, BackupInv, StageInv, LatestInv,
         CopyInv, NearInv, [Next]_vars
  PROVE  NearInv'
<1> USE DeployAssumption DEF NearInv, LatestInv, vars, files, disk, run, history, bounds
<1>1. CASE \E i \in Ids : Install(i)
  BY <1>1 DEF Install, Installable, BackupInv, Disk, NearMods, NearConf
<1>2. CASE \E i \in Ids : Restore(i)
  BY <1>2 DEF Restore, NearMods, NearConf
<1>3. CASE \E i \in Ids : Disarm(i)
  BY <1>3 DEF Disarm, NearMods, NearConf
<1>4. CASE List
  BY <1>4 DEF List, StageInv, Disk, NearMods, NearConf
<1>5. CASE Keep
  BY <1>5 DEF Keep, RunTyped, StageInv, NearMods, NearConf
<1>6. CASE Settle
  BY <1>6 DEF Settle, StageInv, NearMods, NearConf
<1>7. CASE Check
  BY <1>7 DEF Check, NearMods, NearConf
<1>8. CASE Copy
  <2>1. UNCHANGED <<latest, base, backup, saved, kept>>
    BY <1>8 DEF Copy
  <2> SUFFICES ASSUME latest # 0
               PROVE  /\ NearMods(mods')
                      /\ backup[latest].stage # "spoilt" => NearConf(conf')
                      /\ backup[latest].stage \notin {"whole", "spoilt"} => conf' = base.conf
    BY <2>1, NearKept
  <2>2. latest = cur /\ todo \subseteq TargetsOf(latest)
    BY <1>8 DEF Copy, PlaceInv
  <2>3. NearMods(mods')
    BY <1>8, <2>2 DEF Copy, NearMods, FilesTyped
  <2> QED
    BY <1>8, <2>3 DEF Copy
<1>9. CASE Unlink
  <2>1. UNCHANGED <<latest, base, backup, saved, kept>>
    BY <1>9 DEF Unlink
  <2> SUFFICES ASSUME latest # 0
               PROVE  /\ NearMods(mods')
                      /\ backup[latest].stage # "spoilt" => NearConf(conf')
                      /\ backup[latest].stage \notin {"whole", "spoilt"} => conf' = base.conf
    BY <2>1, NearKept
  <2>2. latest = cur /\ todo \subseteq Kept(latest) /\ cur \in Ids
    BY <1>9 DEF Unlink, PlaceInv, RunTyped
  <2>3. backup[latest].stage = "whole"
    BY <1>9, <2>2 DEF Unlink, PlaceInv, StageInv, BackupInv
  <2>4. NearConf(conf')
    BY <1>9, <2>2, <2>3 DEF Unlink, NearConf, FilesTyped
  <2> QED
    BY <1>9, <2>3, <2>4 DEF Unlink
<1>10. CASE Rebuild
  BY <1>10 DEF Rebuild, NearMods, NearConf
<1>11. CASE Verify
  BY <1>11 DEF Verify, NearMods, NearConf
<1>12. CASE Finish
  BY <1>12 DEF Finish, RunTyped, Disk, NearMods, NearConf
<1>13. CASE DisarmConf
  <2>1. UNCHANGED <<latest, base, backup, saved, kept>>
    BY <1>13 DEF DisarmConf
  <2> SUFFICES ASSUME latest # 0
               PROVE  /\ NearMods(mods')
                      /\ backup[latest].stage # "spoilt" => NearConf(conf')
                      /\ backup[latest].stage \notin {"whole", "spoilt"} => conf' = base.conf
    BY <2>1, NearKept
  <2>2. latest = cur
    BY <1>13 DEF DisarmConf, RunTyped
  <2>3. /\ conf' \in [Conf -> Marks]
        /\ \A f \in Conf : conf'[f] = conf[f] \/ (f \in Own(cur) /\ conf'[f] = "absent")
    BY <1>13 DEF DisarmConf, S, Own, FilesTyped, Marks
  <2>4. backup[latest].stage # "spoilt" => NearConf(conf')
    BY <2>2, <2>3 DEF NearConf
  <2>5. conf = base.conf => conf' = base.conf
    BY <2>2, <2>3
  <2>6. NearMods(mods')
    BY <1>13, <2>2 DEF DisarmConf, NearMods, FilesTyped, PlaceInv
  <2> QED
    BY <2>4, <2>5, <2>6
<1>14. CASE Open
  BY <1>14 DEF Open, NearMods, NearConf
<1>15. CASE Recopy
  <2>1. UNCHANGED <<latest, base, backup, saved, kept>>
    BY <1>15 DEF Recopy
  <2> SUFFICES ASSUME latest # 0
               PROVE  /\ NearMods(mods')
                      /\ backup[latest].stage # "spoilt" => NearConf(conf')
                      /\ backup[latest].stage \notin {"whole", "spoilt"} => conf' = base.conf
    BY <2>1, NearKept
  <2>2. latest = cur
    BY <1>15 DEF Recopy, RunTyped
  <2>3. /\ conf' \in [Conf -> Marks]
        /\ \A f \in Conf : conf'[f] = conf[f] \/ (f \in Own(cur) /\ conf'[f] = "absent")
    BY <1>15 DEF Recopy, S, Own, FilesTyped, Marks
  <2>4. backup[latest].stage # "spoilt" => NearConf(conf')
    BY <2>2, <2>3 DEF NearConf
  <2>5. conf = base.conf => conf' = base.conf
    BY <2>2, <2>3
  <2>6. NearMods(mods')
    BY <1>15, <2>2 DEF Recopy, NearMods, FilesTyped, PlaceInv
  <2> QED
    BY <2>4, <2>5, <2>6
<1>16. CASE Reconf
  <2>1. UNCHANGED <<latest, base, backup, saved, kept>>
    BY <1>16 DEF Reconf
  <2> SUFFICES ASSUME latest # 0
               PROVE  /\ NearMods(mods')
                      /\ backup[latest].stage # "spoilt" => NearConf(conf')
                      /\ backup[latest].stage \notin {"whole", "spoilt"} => conf' = base.conf
    BY <2>1, NearKept
  <2>2. /\ latest = cur /\ cur \in Ids /\ todo \subseteq Kept(cur)
        /\ todo \subseteq DOMAIN backup[cur].conf
    BY <1>16 DEF Reconf, RunTyped, PlaceInv, StageInv
  <2>3. backup[cur].stage \in {"listed", "whole", "spoilt"}
    BY <1>16 DEF Reconf, StageInv, Verified
  <2>4. NearMods(mods')
    BY <1>16 DEF Reconf, NearMods
  <2>5. CASE todo = {}
    BY <1>16, <2>4, <2>5 DEF Reconf, NearConf
  <2>6. CASE todo # {}
    <3>1. backup[cur].stage # "listed"
      BY <2>2, <2>6 DEF BackupInv
    <3>2. backup[cur].stage = "whole" => NearConf(conf')
      BY <1>16, <2>2, <2>6 DEF Reconf, NearConf, FilesTyped, CopyInv
    <3> QED
      BY <2>2, <2>3, <2>4, <3>1, <3>2
  <2> QED
    BY <2>5, <2>6
<1>17. CASE FaultInBackup
  BY <1>17 DEF FaultInBackup, RunTyped, StageInv, NearMods, NearConf
<1>18. CASE FaultInTry
  <2>1. UNCHANGED <<latest, base, backup, saved, kept>>
    BY <1>18 DEF FaultInTry
  <2> SUFFICES ASSUME latest # 0
               PROVE  /\ NearMods(mods')
                      /\ backup[latest].stage # "spoilt" => NearConf(conf')
                      /\ backup[latest].stage \notin {"whole", "spoilt"} => conf' = base.conf
    BY <2>1, NearKept
  <2>2. latest = cur /\ cur \in Ids /\ backup[latest].stage = "whole"
    BY <1>18 DEF FaultInTry, RunTyped, PlaceInv, StageInv, BackupInv
  <2>3. NearMods(mods')
    BY <1>18, <2>2 DEF FaultInTry, MayTear, NearMods, FilesTyped, PlaceInv
  <2>4. NearConf(conf')
    BY <1>18, <2>2 DEF FaultInTry, MayTear, NearConf, FilesTyped
  <2> QED
    BY <2>2, <2>3, <2>4
<1>19. CASE FaultOutside
  <2>1. UNCHANGED <<latest, base, backup, saved, kept>>
    BY <1>19 DEF FaultOutside
  <2> SUFFICES ASSUME latest # 0
               PROVE  /\ NearMods(mods')
                      /\ backup[latest].stage # "spoilt" => NearConf(conf')
                      /\ backup[latest].stage \notin {"whole", "spoilt"} => conf' = base.conf
    BY <2>1, NearKept
  <2>2. latest = cur /\ cur \in Ids
    BY <1>19 DEF FaultOutside, RunTyped
  <2>3. NearMods(mods')
    BY <1>19, <2>2 DEF FaultOutside, MayTear, NearMods, FilesTyped, PlaceInv
  <2>4. backup[latest].stage # "spoilt" => NearConf(conf')
    BY <1>19, <2>2 DEF FaultOutside, MayTear, NearConf, FilesTyped, PlaceInv
  <2>5. backup[latest].stage \notin {"whole", "spoilt"} => conf' = base.conf
    <3>1. pc = "reconf" /\ todo # {} => backup[latest].stage \in {"whole", "spoilt"}
      BY <2>2 DEF StageInv, BackupInv, Verified
    <3> QED
      BY <1>19, <3>1 DEF FaultOutside, MayTear
  <2> QED
    BY <2>3, <2>4, <2>5
<1>20. CASE Cut
  <2> SUFFICES ASSUME latest' # 0 PROVE NearInv'
    BY DEF NearInv
  <2>1. /\ latest \in Ids /\ latest' = latest /\ base' = base
        /\ saved'.mods = mods' /\ saved'.conf = conf'
        /\ kept[latest] = "whole" \/ Disk' = base
    BY <1>20 DEF Cut, RunTyped, Disk
  <2>2. CASE kept[latest] = "whole"
    <3>1. backup[latest].stage = "whole" /\ backup'[latest] = backup[latest]
      BY <1>20, <2>1, <2>2, CutFacts DEF BackupInv
    <3>2. \A m \in Module \ TargetsOf(latest) : mods'[m] = base.mods[m]
      BY <1>20, <2>1, <2>2, CutFacts DEF NearMods, LeftOf
    <3>3. \A f \in Conf \ Own(latest) :
            conf'[f] = base.conf[f] \/ (f \in Kept(latest) /\ conf'[f] \in {"absent", "torn"})
      <4> SUFFICES ASSUME NEW f \in Conf \ Own(latest)
                   PROVE  \/ conf'[f] = base.conf[f]
                          \/ (f \in Kept(latest) /\ conf'[f] \in {"absent", "torn"})
        OBVIOUS
      <4>1. conf'[f] \in LeftOf(conf[f], saved.conf[f])
        BY <1>20, CutFacts
      <4> QED
        BY <2>1, <2>2, <3>1, <4>1 DEF NearConf, LeftOf
    <3> QED
      BY <2>1, <3>1, <3>2, <3>3 DEF NearMods, NearConf
  <2>3. CASE Disk' = base
    BY <2>1, <2>3 DEF Disk, NearMods, NearConf
  <2> QED
    BY <2>1, <2>2, <2>3
<1>21. CASE Boot
  BY <1>21 DEF Boot, NearMods, NearConf
<1>22. CASE UNCHANGED vars
  BY <1>22 DEF NearMods, NearConf
<1> QED
  BY <1>1, <1>2, <1>3, <1>4, <1>5, <1>6, <1>7, <1>8, <1>9, <1>10, <1>11, <1>12, <1>13, <1>14,
     <1>15, <1>16, <1>17, <1>18, <1>19, <1>20, <1>21, <1>22 DEF Next, ScriptStep

\* A restore puts them back one by one, from wherever the last one stopped.
LEMMA RestoreStep ==
  ASSUME FilesTyped, RunTyped, PlaceInv, BackupInv, StageInv, LatestInv, CopyInv,
         NearInv, RestoreInv, [Next]_vars
  PROVE  RestoreInv'
<1> USE DeployAssumption DEF RestoreInv, vars, files, disk, run, history, bounds
<1>1. CASE \E i \in Ids : Install(i)
  BY <1>1 DEF Install, Start
<1>2. CASE \E i \in Ids : Restore(i)
  BY <1>2 DEF Restore, Start
<1>3. CASE \E i \in Ids : Disarm(i)
  BY <1>3 DEF Disarm, Start
<1>4. CASE List
  BY <1>4 DEF List
<1>5. CASE Keep
  BY <1>5 DEF Keep
<1>6. CASE Settle
  BY <1>6 DEF Settle
<1>7. CASE Check
  BY <1>7 DEF Check
<1>8. CASE Copy
  BY <1>8 DEF Copy
<1>9. CASE Unlink
  BY <1>9 DEF Unlink, PlaceInv
<1>10. CASE Rebuild
  <2>1. image' = [whole |-> TRUE, mods |-> mods, conf |-> conf]
    BY <1>10 DEF Rebuild, Build
  <2>2. job = "restore" /\ latest = cur /\ backup[cur].stage # "spoilt" =>
          mods = base.mods /\ \A f \in Conf : Back(f)
    BY <1>10 DEF Rebuild
  <2> QED
    BY <1>10, <2>1, <2>2 DEF Rebuild, Back, S
<1>11. CASE Verify
  BY <1>11 DEF Verify, Back, S
<1>12. CASE Finish
  BY <1>12 DEF Finish
<1>13. CASE DisarmConf
  BY <1>13 DEF DisarmConf, PlaceInv
<1>14. CASE Open
  BY <1>14 DEF Open
<1>15. CASE Recopy
  <2> SUFFICES ASSUME latest = cur, backup[cur].stage # "spoilt"
               PROVE  RestoreInv'
    BY <1>15 DEF Recopy
  <2>1. /\ cur \in Ids /\ job = "restore" /\ pc = "recopy"
        /\ todo \subseteq TargetsOf(cur) \cup {"image"}
        /\ backup[cur].stage \in {"listed", "whole"}
        /\ UNCHANGED <<backup, job, cur, latest, base>>
    BY <1>15 DEF Recopy, RunTyped, PlaceInv, StageInv, Verified
  <2>2. /\ \A m \in TargetsOf(cur) : backup[cur].mods[m] = base.mods[m]
        /\ backup[cur].image = base.image
    BY <2>1 DEF CopyInv, Copied, Verified
  <2>3. /\ \A m \in TargetsOf(cur) \ todo : mods[m] = base.mods[m]
        /\ "image" \notin todo /\ ~Cleanup(cur) => image = base.image
    BY <2>1
  <2>4. ASSUME NEW m \in todo \ {"image"}, mods' = [mods EXCEPT ![m] = backup[cur].mods[m]],
               todo' = todo \ {m}, UNCHANGED <<conf, image, pc>>
        PROVE  RestoreInv'
    BY <2>1, <2>2, <2>3, <2>4 DEF FilesTyped, TargetsOf
  <2>5. ASSUME "image" \in todo, image' = backup[cur].image, todo' = todo \ {"image"},
               UNCHANGED <<mods, conf, pc>>
        PROVE  RestoreInv'
    BY <2>1, <2>2, <2>3, <2>5 DEF TargetsOf
  <2>6. ASSUME todo = {}, UNCHANGED <<mods, image>>,
               conf' = [f \in Conf |-> IF f \in Own(cur) THEN "absent" ELSE conf[f]],
               pc' = "reconf", todo' = DOMAIN backup[cur].conf
        PROVE  RestoreInv'
    <3>1. mods = base.mods
      <4>1. mods \in [Module -> Versions] /\ base.mods \in [Module -> Versions]
        BY <2>1 DEF FilesTyped, LatestInv
      <4>2. \A m \in Module : mods[m] = base.mods[m]
        BY <2>1, <2>3, <2>6 DEF NearInv, NearMods
      <4> QED
        BY <4>1, <4>2
    <3>2. ASSUME NEW f \in Conf \ todo' PROVE conf'[f] = base.conf[f]
      <4>1. CASE f \in Own(cur)
        BY <2>1, <2>6, <4>1 DEF LatestInv
      <4>2. CASE f \notin Own(cur)
        <5>1. CASE backup[cur].stage = "listed"
          BY <2>1, <2>6, <4>2, <5>1 DEF NearInv
        <5>2. CASE backup[cur].stage = "whole"
          BY <2>1, <2>6, <4>2, <5>2, <3>2 DEF NearInv, NearConf, BackupInv
        <5> QED
          BY <2>1, <5>1, <5>2
      <4> QED
        BY <4>1, <4>2
    <3> QED
      BY <2>1, <2>3, <2>6, <3>1, <3>2 DEF Back
  <2> QED
    BY <1>15, <2>4, <2>5, <2>6 DEF Recopy
<1>16. CASE Reconf
  <2> SUFFICES ASSUME latest = cur, backup[cur].stage # "spoilt"
               PROVE  RestoreInv'
    BY <1>16 DEF Reconf
  <2>1. /\ cur \in Ids /\ job = "restore" /\ pc = "reconf" /\ todo \subseteq Kept(cur)
        /\ todo \subseteq DOMAIN backup[cur].conf
        /\ backup[cur].stage \in {"listed", "whole"}
        /\ UNCHANGED <<mods, image, backup, job, cur, latest, base>>
    BY <1>16 DEF Reconf, RunTyped, PlaceInv, StageInv, Verified
  <2>2. /\ mods = base.mods /\ (~Cleanup(cur) => image = base.image)
        /\ \A f \in Conf \ todo : Back(f)
    BY <2>1
  <2>3. ASSUME NEW f \in todo, todo' = todo \ {f}, UNCHANGED pc,
               IF S.keeps /\ conf[f] # "absent" THEN UNCHANGED conf
               ELSE conf' = [conf EXCEPT ![f] = backup[cur].conf[f]]
        PROVE  RestoreInv'
    <3>1. backup[cur].stage = "whole" /\ f \in Kept(cur) /\ f \in Conf
      BY <2>1 DEF BackupInv
    <3>2. backup[cur].conf[f] = base.conf[f]
      BY <2>1, <3>1 DEF CopyInv
    <3>3. S.keeps /\ conf[f] # "absent" => conf[f] \in {base.conf[f], "torn"}
      BY <2>1, <3>1 DEF NearInv, NearConf, LatestInv
    <3>4. \A x \in Conf \ todo' : Back(x)'
      BY <2>1, <2>2, <2>3, <3>1, <3>2, <3>3 DEF Back, S, FilesTyped
    <3> QED
      BY <2>1, <2>2, <2>3, <3>4
  <2>4. ASSUME todo = {}, UNCHANGED <<conf, todo>>, pc' = IF S.rebuilds THEN "build" ELSE "sync"
        PROVE  RestoreInv'
    <3>1. \A f \in Conf : Back(f)'
      BY <2>1, <2>2, <2>4 DEF Back, S
    <3>2. ~S.rebuilds => image = base.image
      BY <2>1, <2>2 DEF S
    <3> QED
      BY <2>1, <2>2, <2>4, <3>1, <3>2
  <2> QED
    BY <1>16, <2>3, <2>4 DEF Reconf
<1>17. CASE FaultInBackup
  BY <1>17 DEF FaultInBackup
<1>18. CASE FaultInTry
  BY <1>18 DEF FaultInTry
<1>19. CASE FaultOutside
  BY <1>19 DEF FaultOutside
<1>20. CASE Cut
  BY <1>20 DEF Cut
<1>21. CASE Boot
  BY <1>21 DEF Boot
<1>22. CASE UNCHANGED vars
  BY <1>22 DEF S, Back, S
<1> QED
  BY <1>1, <1>2, <1>3, <1>4, <1>5, <1>6, <1>7, <1>8, <1>9, <1>10, <1>11, <1>12, <1>13, <1>14,
     <1>15, <1>16, <1>17, <1>18, <1>19, <1>20, <1>21, <1>22 DEF Next, ScriptStep

\* The files in place before the first script, all on disk.
LEMMA InitIInv == Init => IInv
<1> SUFFICES ASSUME Init PROVE IInv
  OBVIOUS
<1>1. FilesTyped
  <2>1. mods \in [Module -> Versions] /\ conf \in [Conf -> Marks]
    BY DeployAssumption, VersionFacts DEF Init, Marks
  <2> QED
    BY <2>1 DEF Init, FilesTyped, Build, Images
<1>2. DiskTyped
  BY <1>1 DEF Init, DiskTyped, FilesTyped, Disk
<1>3. RunTyped /\ PlaceInv
  BY DeployAssumption DEF Init, RunTyped, PlaceInv, Empty
<1>4. BackupInv /\ StageInv
  BY DeployAssumption DEF Init, BackupInv, StageInv, Copied, Empty, Verified
<1>5. DoneInv /\ LatestInv /\ CopyInv /\ NearInv /\ RestoreInv
  BY DEF Init, DoneInv, LatestInv, CopyInv, NearInv, RestoreInv
<1> QED
  BY <1>1, <1>2, <1>3, <1>4, <1>5 DEF IInv, TypeOK, FilesTyped, RunTyped

\* Every step, part by part.
LEMMA NextIInv == IInv /\ [Next]_vars => IInv'
<1> SUFFICES ASSUME IInv, [Next]_vars PROVE IInv'
  OBVIOUS
<1>1. /\ FilesTyped /\ DiskTyped /\ RunTyped /\ PlaceInv /\ BackupInv /\ StageInv
      /\ DoneInv /\ LatestInv /\ CopyInv /\ NearInv /\ RestoreInv
  BY DEF IInv, TypeOK, FilesTyped, RunTyped
<1>2. FilesTyped' /\ DiskTyped' /\ RunTyped' /\ PlaceInv' /\ BackupInv' /\ StageInv'
  BY <1>1, FilesStep, RunStep, BackupStep, StageStep
<1>3. DoneInv' /\ LatestInv' /\ CopyInv' /\ NearInv' /\ RestoreInv'
  BY <1>1, DoneStep, LatestStep, CopyStep, NearStep, RestoreStep
<1> QED
  BY <1>2, <1>3 DEF IInv, TypeOK, FilesTyped, RunTyped

\* The invariant, of every behaviour.
LEMMA AlwaysIInv == Spec => []IInv
  BY InitIInv, NextIInv, PTL DEF Spec

-----------------------------------------------------------------------------
(* The theorems. *)

\* Every file, in place or in the image, is damaged or of a known version.
THEOREM DeployTypes == Spec => []TypeOK
<1>1. IInv => TypeOK
  BY DEF IInv
<1> QED
  BY <1>1, AlwaysIInv, PTL

\* An install touches no file before its whole BACKUP is on disk.
THEOREM BackupsComeFirst == Spec => []BackupFirst
<1>1. IInv => BackupFirst
  BY DEF IInv, BackupFirst, StageInv
<1> QED
  BY <1>1, AlwaysIInv, PTL

\* A reported install is what the next boot gets, power cut or not.
THEOREM SuccessIsKept == Spec => []SuccessIsDurable
<1>1. IInv => SuccessIsDurable
  BY DEF IInv, SuccessIsDurable, DoneInv
<1> QED
  BY <1>1, AlwaysIInv, PTL

\* A restore that runs to its end gives back what the install found.
THEOREM RestoresUndo == Spec => RestoreUndoes
<1> DEFINE UndoneStep == job = "restore" /\ pc = "sync" /\ pc' = "idle" /\ latest = cur
                       /\ backup[cur].stage # "spoilt" =>
     /\ mods' = base.mods
     /\ \A f \in Conf : \/ conf'[f] = base.conf[f]
                        \/ S.keeps /\ f \in Kept(cur) /\ conf'[f] = "torn"
     /\ image' \in {base.image, [whole |-> TRUE, mods |-> base.mods, conf |-> conf']}
<1>1. IInv /\ [Next]_vars => [UndoneStep]_vars
  <2> SUFFICES ASSUME IInv, Next, job = "restore", pc = "sync", pc' = "idle", latest = cur,
                      backup[cur].stage # "spoilt"
               PROVE  UndoneStep
    BY DEF vars
  <2>1. /\ mods = base.mods /\ \A f \in Conf : Back(f)
        /\ image \in {base.image, [whole |-> TRUE, mods |-> base.mods, conf |-> conf]}
    BY DEF IInv, RestoreInv
  <2>2. UNCHANGED <<mods, conf, image>>
    BY DEF Next, ScriptStep, Install, Restore, Disarm, Start, List, Keep, Settle, Check, Copy,
           Unlink, Rebuild, Verify, Finish, DisarmConf, Open, Recopy, Reconf, FaultInBackup,
           FaultInTry, FaultOutside, MayTear, MayTearImage, Cut, Boot, files
  <2> QED
    BY <2>1, <2>2 DEF Back
<1> QED
  BY <1>1, AlwaysIInv, PTL DEF RestoreUndoes, Spec
=============================================================================
