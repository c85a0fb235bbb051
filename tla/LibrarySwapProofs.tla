------------------------- MODULE LibrarySwapProofs -------------------------
(***************************************************************************)
(* The way back and the reported outcomes, for any number of updates,       *)
(* failing steps and power cuts. What carries the proof is that a BACKUP    *)
(* once on disk is never written again (Kept), that one in the making is of *)
(* the file found (Making), and that whoever comes to the swap has a BACKUP *)
(* that restore() accepts (Ready).                                          *)
(***************************************************************************)
EXTENDS LibrarySwap, TLAPS

\* A directory on disk is there, without it there is nothing in it, and no file
\* is swapped before there is one.
Dirs == /\ disk.dir => fs.dir
        /\ ~fs.dir => fs.copy = None /\ fs.mani = None
        /\ ~disk.dir => disk.copy = None /\ disk.mani = None
        /\ fs.target # disk.target => fs.dir

\* A BACKUP that is on disk is the one that is there.
Kept == Verified(disk) => Backup(disk) = Backup(fs)

\* No BACKUP is of a built or a damaged file, unless the way back was lost before.
Original == ~lapsed => fs.mani \notin {Built, Torn} /\ disk.mani \notin {Built, Torn}

\* A BACKUP in the making is of the file found, which is the package's.
Making ==
    pc \in {"keep", "record", "settle"} =>
        /\ job = "install" /\ ~reused /\ fs.dir /\ ~disk.dir
        /\ fs.target = found /\ disk.target = found
        /\ ~lapsed => found \in Packaged
        /\ pc \in {"record", "settle"} => fs.copy = found
        /\ pc = "settle" => fs.mani = found
        /\ pc # "settle" => fs.mani = None

\* Who comes to the swap can come back.
Ready ==
    /\ pc = "stage" \/ pc = "swap" \/ pc = "sync" =>
          /\ Verified(fs) \/ (job = "install" /\ ~reused)
          /\ lapsed \/ (Fallback(fs) /\ (Fallback(disk) \/ AtRisk))
    /\ pc = "sync" => fs.target = Source
    /\ pc \in {"stage", "swap", "sync", "open"} /\ ~reused => fs.mani = found /\ fs.copy = found
    /\ pc = "open" => /\ job \in {"undo", "restore"}
                      /\ lapsed \/ reused \/ Fallback(disk)

\* What is on disk and not the package's can be undone from the disk.
Durable == disk.target \notin Packaged /\ ~lapsed => Fallback(disk)

\* What was reported is on disk.
Reported ==
    /\ outcome # "none" => pc = "idle"
    /\ outcome \in {"installed", "undone", "restored"} => fs = disk

IInv == /\ TypeOK /\ Dirs /\ Kept /\ Original /\ Making /\ Ready /\ Durable
        /\ LaunchWhole /\ Recoverable /\ Reported /\ OutcomeHolds

-----------------------------------------------------------------------------
\* The package's first file, and no BACKUP.
LEMMA InitIInv == Init => IInv
<1> SUFFICES ASSUME Init PROVE IInv
  OBVIOUS
<1> USE SwapAssumption DEF Init
<1>1. TypeOK
  <2>1. fs \in Files /\ disk \in Files
    BY DEF Files, Whole, Packaged
  <2>2. 0 \in Packaged /\ 0 \in 0..MaxFaults /\ 0 \in 0..MaxCuts
    BY DEF Packaged
  <2> QED
    BY <2>1, <2>2 DEF TypeOK, Whole
<1>2. Dirs /\ Kept /\ Original /\ Making /\ Ready
  BY DEF Dirs, Kept, Original, Making, Ready, Verified, Whole, Packaged
<1>3. Durable /\ LaunchWhole /\ Recoverable /\ Reported /\ OutcomeHolds
  BY DEF Durable, LaunchWhole, Recoverable, Reported, OutcomeHolds, Packaged
<1> QED
  BY <1>1, <1>2, <1>3 DEF IInv

\* There is no BACKUP: TARGET is then what is on disk, and the package's.
LEMMA InstallFreshStep == IInv /\ InstallFresh => IInv'
<1> SUFFICES ASSUME IInv, InstallFresh PROVE IInv'
  OBVIOUS
<1> USE SwapAssumption DEF IInv, Packaged
<1>1. /\ pc = "idle" /\ ~fs.dir
      /\ pc' = "keep" /\ job' = "install" /\ reused' = FALSE
      /\ found' = fs.target /\ outcome' = "none"
      /\ fs' = [fs EXCEPT !.dir = TRUE] /\ disk' = disk
      /\ lapsed' = lapsed
  BY DEF InstallFresh, Start, script, history, bounds
<1>2. package' \in Packaged /\ faults' \in 0..MaxFaults /\ cuts' \in 0..MaxCuts
  BY DEF InstallFresh, TypeOK, bounds
<1>3. TypeOK'
  BY <1>1, <1>2 DEF TypeOK, Files
<1>4. Dirs' /\ Kept' /\ Original'
  BY <1>1 DEF TypeOK, Files, Dirs, Kept, Original, Verified
<1>5. Making'
  BY <1>1 DEF Dirs, Making, Recoverable, Fallback, Verified
<1>6. Ready'
  BY <1>1 DEF Ready
<1>7. Durable' /\ LaunchWhole' /\ Recoverable'
  BY <1>1 DEF TypeOK, Files, Dirs, Durable, LaunchWhole, Recoverable, Fallback, Verified
<1>8. Reported' /\ OutcomeHolds'
  BY <1>1 DEF Reported, OutcomeHolds
<1> QED
  BY <1>3, <1>4, <1>5, <1>6, <1>7, <1>8

\* The BACKUP is verified in memory; the script is AtRisk if it is not on disk.
LEMMA InstallReusingStep == IInv /\ InstallReusing => IInv'
<1> SUFFICES ASSUME IInv, InstallReusing PROVE IInv'
  OBVIOUS
<1> USE SwapAssumption DEF IInv, Packaged
<1>1. /\ pc = "idle" /\ fs.dir /\ Verified(fs)
      /\ pc' = "stage" /\ job' = "install" /\ reused' = TRUE
      /\ found' = fs.target /\ outcome' = "none"
      /\ fs' = fs /\ disk' = disk
      /\ lapsed' = lapsed
  BY DEF InstallReusing, Start, script, history, bounds
<1>2. package' \in Packaged /\ faults' \in 0..MaxFaults /\ cuts' \in 0..MaxCuts
  BY DEF InstallReusing, TypeOK, bounds
<1>3. TypeOK'
  BY <1>1, <1>2 DEF TypeOK, Files
<1>4. Dirs' /\ Kept' /\ Original'
  BY <1>1 DEF Dirs, Kept, Original
<1>5. Making'
  BY <1>1 DEF Making
<1>6. Ready'
  BY <1>1 DEF TypeOK, Files, Whole, Original, Ready, Fallback, Verified, Backup, AtRisk
<1>7. Durable' /\ LaunchWhole' /\ Recoverable'
  BY <1>1 DEF Whole, Original, Durable, LaunchWhole, Recoverable, Fallback, Verified, AtRisk
<1>8. Reported' /\ OutcomeHolds'
  BY <1>1 DEF Reported, OutcomeHolds
<1> QED
  BY <1>3, <1>4, <1>5, <1>6, <1>7, <1>8

\* The copy is of the file found, in a BACKUP that is not on disk yet.
LEMMA KeepStep == IInv /\ Keep => IInv'
<1> SUFFICES ASSUME IInv, Keep PROVE IInv'
  OBVIOUS
<1> USE SwapAssumption DEF IInv, Packaged
<1>1. /\ pc = "keep" /\ pc' = "record" /\ job' = job /\ reused' = reused
      /\ found' = found /\ outcome' = outcome
      /\ fs' = [fs EXCEPT !.copy = fs.target] /\ disk' = disk
      /\ lapsed' = lapsed
  BY DEF Keep, script, history, bounds
<1>2. package' \in Packaged /\ faults' \in 0..MaxFaults /\ cuts' \in 0..MaxCuts
  BY DEF Keep, TypeOK, bounds
<1>3. TypeOK'
  BY <1>1, <1>2 DEF TypeOK, Files
<1>4. Dirs' /\ Kept' /\ Original'
  BY <1>1 DEF Dirs, Kept, Original, Making, Backup
<1>5. Making'
  BY <1>1 DEF Making
<1>6. Ready'
  BY <1>1 DEF Ready
<1>7. Durable' /\ LaunchWhole' /\ Recoverable'
  BY <1>1 DEF Making, Durable, LaunchWhole, Recoverable
<1>8. Reported' /\ OutcomeHolds'
  BY <1>1 DEF Reported, OutcomeHolds
<1> QED
  BY <1>3, <1>4, <1>5, <1>6, <1>7, <1>8

\* The manifest makes the BACKUP one that restore() accepts, of the file found.
LEMMA RecordStep == IInv /\ Record => IInv'
<1> SUFFICES ASSUME IInv, Record PROVE IInv'
  OBVIOUS
<1> USE SwapAssumption DEF IInv, Packaged
<1>1. /\ pc = "record" /\ pc' = "settle" /\ job' = job /\ reused' = reused
      /\ found' = found /\ outcome' = outcome
      /\ fs' = [fs EXCEPT !.mani = fs.copy] /\ disk' = disk
      /\ lapsed' = lapsed
  BY DEF Record, script, history, bounds
<1>2. package' \in Packaged /\ faults' \in 0..MaxFaults /\ cuts' \in 0..MaxCuts
  BY DEF Record, TypeOK, bounds
<1>3. TypeOK'
  BY <1>1, <1>2 DEF TypeOK, Files
<1>4. Dirs' /\ Kept' /\ Original'
  BY <1>1 DEF Dirs, Kept, Original, Making, Backup
<1>5. Making'
  BY <1>1 DEF Making
<1>6. Ready'
  BY <1>1 DEF Ready
<1>7. Durable' /\ LaunchWhole' /\ Recoverable'
  BY <1>1 DEF Making, Durable, LaunchWhole, Recoverable
<1>8. Reported' /\ OutcomeHolds'
  BY <1>1 DEF Reported, OutcomeHolds
<1> QED
  BY <1>3, <1>4, <1>5, <1>6, <1>7, <1>8

\* Memory and disk agree: the way back is there before the swap.
LEMMA SettleStep == IInv /\ Settle => IInv'
<1> SUFFICES ASSUME IInv, Settle PROVE IInv'
  OBVIOUS
<1> USE SwapAssumption DEF IInv, Packaged
<1>1. /\ pc = "settle" /\ pc' = "stage" /\ job' = job /\ reused' = reused
      /\ found' = found /\ outcome' = outcome
      /\ fs' = fs /\ disk' = fs
      /\ lapsed' = lapsed
  BY DEF Settle, script, history, bounds
<1>2. package' \in Packaged /\ faults' \in 0..MaxFaults /\ cuts' \in 0..MaxCuts
  BY DEF Settle, TypeOK, bounds
<1>3. TypeOK'
  BY <1>1, <1>2 DEF TypeOK
<1>4. Dirs' /\ Kept' /\ Original'
  BY <1>1 DEF Dirs, Kept, Original
<1>5. Making'
  BY <1>1 DEF Making
<1>6. Ready'
  BY <1>1 DEF Whole, Making, Ready, Fallback, Verified
<1>7. Durable' /\ LaunchWhole' /\ Recoverable'
  BY <1>1 DEF Durable, LaunchWhole, Recoverable
<1>8. Reported' /\ OutcomeHolds'
  BY <1>1 DEF Reported, OutcomeHolds
<1> QED
  BY <1>3, <1>4, <1>5, <1>6, <1>7, <1>8

\* Nothing but the place in the script changes.
LEMMA StageStep == IInv /\ Stage => IInv'
<1> SUFFICES ASSUME IInv, Stage PROVE IInv'
  OBVIOUS
<1> USE SwapAssumption DEF IInv, Packaged
<1>1. /\ pc = "stage" /\ pc' = "swap" /\ job' = job /\ reused' = reused
      /\ found' = found /\ outcome' = outcome
      /\ fs' = fs /\ disk' = disk
      /\ lapsed' = lapsed
  BY DEF Stage, script, history, bounds
<1>2. package' \in Packaged /\ faults' \in 0..MaxFaults /\ cuts' \in 0..MaxCuts
  BY DEF Stage, TypeOK, bounds
<1>3. TypeOK'
  BY <1>1, <1>2 DEF TypeOK
<1>4. Dirs' /\ Kept' /\ Original'
  BY <1>1 DEF Dirs, Kept, Original
<1>5. Making'
  BY <1>1 DEF Making
<1>6. Ready'
  BY <1>1 DEF Ready, AtRisk
<1>7. Durable' /\ LaunchWhole' /\ Recoverable'
  BY <1>1 DEF Durable, LaunchWhole, Recoverable, AtRisk
<1>8. Reported' /\ OutcomeHolds'
  BY <1>1 DEF Reported, OutcomeHolds
<1> QED
  BY <1>3, <1>4, <1>5, <1>6, <1>7, <1>8

\* TARGET differs from the disk: the one step Ready is for.
LEMMA SwapStep == IInv /\ Swap => IInv'
<1> SUFFICES ASSUME IInv, Swap PROVE IInv'
  OBVIOUS
<1> USE SwapAssumption DEF IInv, Packaged
<1>1. /\ pc = "swap" /\ pc' = "sync" /\ job' = job /\ reused' = reused
      /\ found' = found /\ outcome' = outcome
      /\ fs' = [fs EXCEPT !.target = Source] /\ disk' = disk
      /\ lapsed' = lapsed
  BY DEF Swap, script, history, bounds
<1>2. package' \in Packaged /\ faults' \in 0..MaxFaults /\ cuts' \in 0..MaxCuts
  BY DEF Swap, TypeOK, bounds
<1>3. TypeOK'
  BY <1>1, <1>2 DEF TypeOK, Files, Whole, Ready, Verified, Source
<1>4. Dirs' /\ Kept' /\ Original'
  BY <1>1 DEF TypeOK, Dirs, Kept, Original, Verified, Backup, Ready
<1>5. Making'
  BY <1>1 DEF Making
<1>6. Ready'
  BY <1>1 DEF Ready, Fallback, Verified, Backup, AtRisk, Source
<1>7. Durable' /\ LaunchWhole' /\ Recoverable'
  BY <1>1 DEF Whole, Ready, Durable, LaunchWhole, Recoverable, Fallback, Verified,
         Backup, AtRisk, Source
<1>8. Reported' /\ OutcomeHolds'
  BY <1>1 DEF Reported, OutcomeHolds
<1> QED
  BY <1>3, <1>4, <1>5, <1>6, <1>7, <1>8

\* Memory and disk agree, on what is reported.
LEMMA FinishStep == IInv /\ Finish => IInv'
<1> SUFFICES ASSUME IInv, Finish PROVE IInv'
  OBVIOUS
<1> USE SwapAssumption DEF IInv, Packaged
<1>1. /\ pc = "sync" /\ pc' = "idle" /\ job' = "none" /\ reused' = reused
      /\ found' = found /\ outcome' = Outcome
      /\ fs' = fs /\ disk' = fs
      /\ lapsed' = lapsed
  BY DEF Finish, End, script, history, bounds
<1>2. package' \in Packaged /\ faults' \in 0..MaxFaults /\ cuts' \in 0..MaxCuts
  BY DEF Finish, TypeOK, bounds
<1>3. TypeOK'
  BY <1>1, <1>2 DEF TypeOK, Outcome
<1>4. Dirs' /\ Kept' /\ Original'
  BY <1>1 DEF Dirs, Kept, Original
<1>5. Making'
  BY <1>1 DEF Making
<1>6. Ready'
  BY <1>1 DEF Ready
<1>7. Durable' /\ LaunchWhole' /\ Recoverable'
  BY <1>1 DEF Durable, LaunchWhole, Recoverable
<1>8. Reported' /\ OutcomeHolds'
  BY <1>1 DEF TypeOK, Ready, Fallback, Reported, OutcomeHolds, Verified, Source, Outcome
<1> QED
  BY <1>3, <1>4, <1>5, <1>6, <1>7, <1>8

\* A restore on its own; no BACKUP of another script is at risk.
LEMMA RestoreStep == IInv /\ Restore => IInv'
<1> SUFFICES ASSUME IInv, Restore PROVE IInv'
  OBVIOUS
<1> USE SwapAssumption DEF IInv, Packaged
<1>1. /\ pc = "idle" /\ pc' = "open" /\ job' = "restore" /\ reused' = TRUE
      /\ found' = fs.target /\ outcome' = "none"
      /\ fs' = fs /\ disk' = disk
      /\ lapsed' = lapsed
  BY DEF Restore, Start, script, history, bounds
<1>2. package' \in Packaged /\ faults' \in 0..MaxFaults /\ cuts' \in 0..MaxCuts
  BY DEF Restore, TypeOK, bounds
<1>3. TypeOK'
  BY <1>1, <1>2 DEF TypeOK, Files
<1>4. Dirs' /\ Kept' /\ Original'
  BY <1>1 DEF Dirs, Kept, Original
<1>5. Making'
  BY <1>1 DEF Making
<1>6. Ready'
  BY <1>1 DEF Ready
<1>7. Durable' /\ LaunchWhole' /\ Recoverable'
  BY <1>1 DEF Durable, LaunchWhole, Recoverable, AtRisk
<1>8. Reported' /\ OutcomeHolds'
  BY <1>1 DEF Reported, OutcomeHolds
<1> QED
  BY <1>3, <1>4, <1>5, <1>6, <1>7, <1>8

\* Verified or not, no file changes.
LEMMA OpenStep == IInv /\ Open => IInv'
<1> SUFFICES ASSUME IInv, Open PROVE IInv'
  OBVIOUS
<1> USE SwapAssumption DEF IInv, Packaged
<1>1. /\ pc = "open" /\ reused' = reused /\ found' = found
      /\ \/ /\ Verified(fs) /\ pc' = "stage" /\ job' = job /\ outcome' = outcome
         \/ /\ ~Verified(fs) /\ pc' = "idle" /\ job' = "none" /\ outcome' = "failed"
      /\ fs' = fs /\ disk' = disk
      /\ lapsed' = lapsed
  BY DEF Open, End, script, history, bounds
<1>2. package' \in Packaged /\ faults' \in 0..MaxFaults /\ cuts' \in 0..MaxCuts
  BY DEF Open, TypeOK, bounds
<1>3. TypeOK'
  BY <1>1, <1>2 DEF TypeOK
<1>4. Dirs' /\ Kept' /\ Original'
  BY <1>1 DEF Dirs, Kept, Original
<1>5. Making'
  BY <1>1 DEF Making
<1>6. Ready'
  BY <1>1 DEF TypeOK, Files, Whole, Original, Ready, Fallback, Verified, Backup, AtRisk
<1>7. Durable' /\ LaunchWhole' /\ Recoverable'
  BY <1>1 DEF Durable, LaunchWhole, Recoverable, AtRisk
<1>8. Reported' /\ OutcomeHolds'
  BY <1>1 DEF Reported, OutcomeHolds
<1> QED
  BY <1>3, <1>4, <1>5, <1>6, <1>7, <1>8

\* The BACKUP in the making is damaged at most, and the swap has not begun.
LEMMA FaultInBackupStep == IInv /\ FaultInBackup => IInv'
<1> SUFFICES ASSUME IInv, FaultInBackup PROVE IInv'
  OBVIOUS
<1> USE SwapAssumption DEF IInv, Packaged
<1>1. /\ pc \in {"keep", "record", "settle"}
      /\ pc' = "idle" /\ job' = "none" /\ reused' = reused
      /\ found' = found /\ outcome' = "failed"
      /\ \/ fs' = fs
         \/ /\ pc = "keep"
            /\ \E v \in {Garbled, fs.target} : fs' = [fs EXCEPT !.copy = v]
         \/ pc = "record" /\ fs' = [fs EXCEPT !.mani = Garbled]
      /\ disk' = disk
      /\ lapsed' = lapsed
  BY DEF FaultInBackup, End, Raise, script, history, bounds
<1>2. package' \in Packaged /\ faults' \in 0..MaxFaults /\ cuts' \in 0..MaxCuts
  BY DEF FaultInBackup, Raise, TypeOK, bounds
<1>3. TypeOK'
  BY <1>1, <1>2 DEF TypeOK, Files
<1>4. Dirs' /\ Kept' /\ Original'
  BY <1>1 DEF TypeOK, Files, Dirs, Kept, Original, Making, Backup, Verified, Whole
<1>5. Making'
  BY <1>1 DEF Making
<1>6. Ready'
  BY <1>1 DEF Ready
<1>7. Durable' /\ LaunchWhole' /\ Recoverable'
  BY <1>1 DEF TypeOK, Files, Making, Durable, LaunchWhole, Recoverable
<1>8. Reported' /\ OutcomeHolds'
  BY <1>1 DEF Reported, OutcomeHolds
<1> QED
  BY <1>3, <1>4, <1>5, <1>6, <1>7, <1>8

\* The undo takes over the BACKUP the install rests on.
LEMMA FaultInInstallStep == IInv /\ FaultInInstall => IInv'
<1> SUFFICES ASSUME IInv, FaultInInstall PROVE IInv'
  OBVIOUS
<1> USE SwapAssumption DEF IInv, Packaged
<1>1. /\ job = "install" /\ pc \in {"stage", "swap", "sync"}
      /\ pc' = "open" /\ job' = "undo" /\ reused' = reused
      /\ found' = found /\ outcome' = outcome
      /\ fs' = fs /\ disk' = disk
      /\ lapsed' = lapsed
  BY DEF FaultInInstall, Raise, script, history, bounds
<1>2. package' \in Packaged /\ faults' \in 0..MaxFaults /\ cuts' \in 0..MaxCuts
  BY DEF FaultInInstall, Raise, TypeOK, bounds
<1>3. TypeOK'
  BY <1>1, <1>2 DEF TypeOK
<1>4. Dirs' /\ Kept' /\ Original'
  BY <1>1 DEF Dirs, Kept, Original
<1>5. Making'
  BY <1>1 DEF Making
<1>6. Ready'
  BY <1>1 DEF Ready, AtRisk
<1>7. Durable' /\ LaunchWhole' /\ Recoverable'
  BY <1>1 DEF Durable, LaunchWhole, Recoverable, AtRisk
<1>8. Reported' /\ OutcomeHolds'
  BY <1>1 DEF Reported, OutcomeHolds
<1> QED
  BY <1>3, <1>4, <1>5, <1>6, <1>7, <1>8

\* What there is of a way back is on disk or at risk as before.
LEMMA FaultInRestoreStep == IInv /\ FaultInRestore => IInv'
<1> SUFFICES ASSUME IInv, FaultInRestore PROVE IInv'
  OBVIOUS
<1> USE SwapAssumption DEF IInv, Packaged
<1>1. /\ job \in {"undo", "restore"}
      /\ pc' = "idle" /\ job' = "none" /\ reused' = reused
      /\ found' = found /\ outcome' = "failed"
      /\ fs' = fs /\ disk' = disk
      /\ lapsed' = lapsed
  BY DEF FaultInRestore, End, Raise, script, history, bounds
<1>2. package' \in Packaged /\ faults' \in 0..MaxFaults /\ cuts' \in 0..MaxCuts
  BY DEF FaultInRestore, Raise, TypeOK, bounds
<1>3. TypeOK'
  BY <1>1, <1>2 DEF TypeOK
<1>4. Dirs' /\ Kept' /\ Original'
  BY <1>1 DEF Dirs, Kept, Original
<1>5. Making'
  BY <1>1 DEF Making
<1>6. Ready'
  BY <1>1 DEF Ready
<1>7. Durable' /\ LaunchWhole' /\ Recoverable'
  BY <1>1 DEF Durable, LaunchWhole, Recoverable, AtRisk
<1>8. Reported' /\ OutcomeHolds'
  BY <1>1 DEF Reported, OutcomeHolds
<1> QED
  BY <1>3, <1>4, <1>5, <1>6, <1>7, <1>8

\* The package's next file is on disk: no way back is needed.
LEMMA UpdateStep == IInv /\ Update => IInv'
<1> SUFFICES ASSUME IInv, Update PROVE IInv'
  OBVIOUS
<1> USE SwapAssumption DEF IInv, Packaged
<1>1. /\ pc = "idle" /\ pc' = pc /\ job' = job /\ reused' = reused
      /\ found' = found /\ outcome' = "none"
      /\ package' \in Packaged
      /\ fs' = [fs EXCEPT !.target = package'] /\ disk' = [disk EXCEPT !.target = package']
      /\ lapsed' = lapsed
  BY DEF Update, script, history, bounds, TypeOK
<1>2. package' \in Packaged /\ faults' \in 0..MaxFaults /\ cuts' \in 0..MaxCuts
  BY DEF Update, TypeOK, bounds
<1>3. TypeOK'
  BY <1>1, <1>2 DEF TypeOK, Files, Whole
<1>4. Dirs' /\ Kept' /\ Original'
  BY <1>1 DEF Dirs, Kept, Original, Verified, Backup
<1>5. Making'
  BY <1>1 DEF Making
<1>6. Ready'
  BY <1>1 DEF Ready
<1>7. Durable' /\ LaunchWhole' /\ Recoverable'
  BY <1>1 DEF Durable, LaunchWhole, Recoverable
<1>8. Reported' /\ OutcomeHolds'
  BY <1>1 DEF Reported, OutcomeHolds
<1> QED
  BY <1>3, <1>4, <1>5, <1>6, <1>7, <1>8

\* After a power cut the disk is what there is.
LEMMA CutStep == IInv /\ Cut => IInv'
<1> SUFFICES ASSUME IInv, Cut PROVE IInv'
  OBVIOUS
<1> USE SwapAssumption DEF IInv, Packaged
<1>1. PICK t \in Left(fs.target, disk.target, Torn), d \in {fs.dir, disk.dir},
           c \in Left(fs.copy, disk.copy, Garbled),
           m \in Left(fs.mani, disk.mani, Garbled) :
         fs' = [target |-> t, dir |-> d, copy |-> IF d THEN c ELSE None,
                mani |-> IF d THEN m ELSE None]
  BY DEF Cut
<1>2. /\ disk' = fs' /\ pc' = "idle" /\ job' = "none"
      /\ reused' = reused /\ found' = found
      /\ lapsed' = (lapsed \/ (AtRisk /\ fs.target # disk.target))
      /\ outcome' = IF pc = "idle" THEN outcome ELSE "none"
  BY DEF Cut
<1>3. package' \in Packaged /\ faults' \in 0..MaxFaults /\ cuts' \in 0..MaxCuts
  BY DEF Cut, TypeOK
<1>4. TypeOK'
  <2>1. fs' \in Files /\ disk' \in Files
    BY <1>1, <1>2 DEF TypeOK, Files, Left
  <2>2. lapsed' \in BOOLEAN
    BY <1>2
  <2> QED
    BY <1>2, <1>3, <2>1, <2>2 DEF TypeOK
<1>5. Dirs' /\ Kept' /\ Original'
  BY <1>1, <1>2 DEF TypeOK, Dirs, Kept, Original, Left, Verified, Backup, Whole
<1>6. Making' /\ Ready' /\ LaunchWhole'
  BY <1>2 DEF Making, Ready, LaunchWhole
<1>7. Durable'
  <2> SUFFICES ASSUME ~lapsed', disk'.target \notin Packaged PROVE Fallback(disk)'
    BY DEF Durable
  <2>1. fs.target # disk.target \/ disk.target \notin Packaged
    BY <1>1, <1>2 DEF Left
  <2>2. Fallback(disk)
    BY <1>2, <2>1 DEF Durable, Recoverable
  <2>3. Backup(fs') = Backup(disk)
    BY <1>1, <2>2 DEF Dirs, Kept, Backup, Left, Fallback, Verified, Whole
  <2> QED
    BY <1>2, <2>2, <2>3 DEF Backup, Fallback, Verified
<1>8. Recoverable'
  BY <1>2, <1>7 DEF Durable, Recoverable, Fallback, Verified
<1>9. Reported' /\ OutcomeHolds'
  <2>1. outcome' \in {"installed", "undone", "restored"} => fs' = fs /\ fs = disk /\ outcome' = outcome
    BY <1>1, <1>2 DEF Reported, Left, TypeOK, Files, Dirs
  <2> QED
    BY <1>2, <2>1 DEF Reported, OutcomeHolds
<1> QED
  BY <1>4, <1>5, <1>6, <1>7, <1>8, <1>9

\* A step that changes nothing.
LEMMA StutterStep == IInv /\ UNCHANGED vars => IInv'
  BY DEF IInv, vars, script, history, bounds, TypeOK, Dirs, Kept, Original, Making, Ready,
         Durable, LaunchWhole, Recoverable, Reported, OutcomeHolds, Source, AtRisk,
         Verified, Fallback, Backup

\* Every step, by the action it is.
LEMMA NextIInv == IInv /\ [Next]_vars => IInv'
  BY InstallFreshStep, InstallReusingStep, KeepStep, RecordStep, SettleStep, StageStep,
     SwapStep, FinishStep, RestoreStep, OpenStep, FaultInBackupStep, FaultInInstallStep,
     FaultInRestoreStep, CutStep, UpdateStep, StutterStep
  DEF Next

\* The invariant, of every behaviour.
LEMMA AlwaysIInv == Spec => []IInv
  BY InitIInv, NextIInv, PTL DEF Spec

-----------------------------------------------------------------------------
(* The theorems. *)

\* The model's variables keep their types.
THEOREM SwapTypes == Spec => []TypeOK
<1>1. IInv => TypeOK
  BY DEF IInv
<1> QED
  BY <1>1, AlwaysIInv, PTL

\* The rename is the only change of the file that anyone who starts the program
\* can see: it is never found half written, and what a restore puts there is
\* whole as long as no power cut has taken the way back.
THEOREM LaunchesAreWhole == Spec => []LaunchWhole
<1>1. IInv => LaunchWhole
  BY DEF IInv
<1> QED
  BY <1>1, AlwaysIInv, PTL

\* However many installs fail, are interrupted or lose power, there is a way back
\* to a file of the package, but for the one gap that lapsed records.
THEOREM ThereIsAWayBack == Spec => []Recoverable
<1>1. IInv => Recoverable
  BY DEF IInv
<1> QED
  BY <1>1, AlwaysIInv, PTL

\* What install and restore report is on disk.
THEOREM OutcomesAreTrue == Spec => []OutcomeHolds
<1>1. IInv => OutcomeHolds
  BY DEF IInv
<1> QED
  BY <1>1, AlwaysIInv, PTL
=============================================================================
