---------------------------- MODULE LibrarySwap ----------------------------
(***************************************************************************)
(* scripts/manage-aquamarine-pageflip.py and manage-hyprland-session-race.py: *)
(* the swap of one file of a running desktop session, and its undoing.      *)
(*                                                                         *)
(* One script runs at a time. Any of its steps may raise, an interrupt      *)
(* included, except that os.sync() and what follows it do not; the power    *)
(* may go at any moment, and what was not on disk then is there as it was,  *)
(* as it is, or damaged. In between the package manager may replace the     *)
(* file, of which the script knows nothing.                                 *)
(***************************************************************************)
EXTENDS Naturals

CONSTANTS
    Built,      \* what src/.../build.sh built
    Torn,       \* a TARGET that a power cut damaged, and what is copied from it
    Garbled,    \* a copy in BACKUP damaged there, which no manifest has the digest
                \* of; a manifest that does not parse
    None,       \* no file
    MaxUpdates, \* bound: updates of the package
    MaxFaults,  \* bound: steps that raise
    MaxCuts     \* bound: power cuts

Packaged == 0..MaxUpdates  \* the package's file in each of its versions
Whole    == Packaged \cup {Built}

ASSUME SwapAssumption ==
    /\ MaxUpdates \in Nat /\ MaxFaults \in Nat /\ MaxCuts \in Nat
    /\ Built \notin Nat /\ Torn \notin Nat \cup {Built}
    /\ None \notin Whole \cup {Torn} /\ Garbled \notin Whole \cup {Torn, None}

VARIABLES
    fs,      \* the files: TARGET, the directory BACKUP, the copy and the
             \* manifest (what it has the digest of) in it
    disk,    \* those that are on disk
    pc,      \* where the running script is
    job,     \* "install", the "undo" of one that failed, or "restore"
    reused,  \* it rests on a BACKUP that it has not made
    found,   \* history: TARGET as the latest script found it
    outcome, \* history: how that script ended
    lapsed,  \* history: the power went while the way back from a swap rested
             \* on a BACKUP that was not on disk
    package, \* the version of the package that came last
    faults, cuts

script  == <<pc, job, reused>>
history == <<found, outcome, lapsed>>
bounds  == <<package, faults, cuts>>
vars    == <<fs, disk, script, history, bounds>>

Init ==
    /\ fs = [target |-> 0, dir |-> FALSE, copy |-> None, mani |-> None]
    /\ disk = fs
    /\ pc = "idle" /\ job = "none" /\ reused = FALSE
    /\ found = 0 /\ outcome = "none" /\ lapsed = FALSE
    /\ package = 0 /\ faults = 0 /\ cuts = 0

\* digest(BACKUP / ...) against the manifest, which must be there and parse. That
\* of a damaged TARGET is as good as any.
Verified(b) == b.mani \notin {None, Garbled} /\ b.copy = b.mani

End(how) == pc' = "idle" /\ job' = "none" /\ outcome' = how /\ UNCHANGED reused

-----------------------------------------------------------------------------
(* install() *)

Start(what, label, other) ==
    /\ pc = "idle"
    /\ pc' = label /\ job' = what /\ reused' = other
    /\ found' = fs.target /\ outcome' = "none"

\* There is no BACKUP yet: mkdir.
InstallFresh ==
    /\ Start("install", "keep", FALSE) /\ ~fs.dir
    /\ fs' = [fs EXCEPT !.dir = TRUE]
    /\ UNCHANGED <<disk, lapsed, bounds>>

\* A slip: a BACKUP that is there is written anew.
InstallAnew ==
    /\ Start("install", "keep", FALSE) /\ fs.dir
    /\ UNCHANGED <<fs, disk, lapsed, bounds>>

\* A BACKUP that is there is used if it is what its manifest says; otherwise
\* install refuses, and changes nothing.
InstallReusing ==
    /\ Start("install", "stage", TRUE) /\ fs.dir /\ Verified(fs)
    /\ UNCHANGED <<fs, disk, lapsed, bounds>>

Keep ==
    /\ pc = "keep"
    /\ fs' = [fs EXCEPT !.copy = fs.target]
    /\ pc' = "record"
    /\ UNCHANGED <<disk, job, reused, history, bounds>>

Record ==
    /\ pc = "record"
    /\ fs' = [fs EXCEPT !.mani = fs.copy]
    /\ pc' = "settle"
    /\ UNCHANGED <<disk, job, reused, history, bounds>>

\* os.sync()
Settle ==
    /\ pc = "settle"
    /\ disk' = fs
    /\ pc' = "stage"
    /\ UNCHANGED <<fs, job, reused, history, bounds>>

-----------------------------------------------------------------------------
(* The swap, in install() and restore() alike. *)

Source == IF job = "install" THEN Built ELSE fs.copy

\* A slip: the copy goes onto the file itself.
StageInPlace ==
    /\ pc = "stage"
    /\ fs' = [fs EXCEPT !.target = Torn]
    /\ pc' = "swap"
    /\ UNCHANGED <<disk, job, reused, history, bounds>>

\* It goes beside the file and is compared there; one that an earlier script
\* left behind is overwritten.
Stage ==
    /\ pc = "stage"
    /\ pc' = "swap"
    /\ UNCHANGED <<fs, disk, job, reused, history, bounds>>

\* os.rename, then ldconfig or chmod, and TARGET is compared.
Swap ==
    /\ pc = "swap"
    /\ fs' = [fs EXCEPT !.target = Source]
    /\ pc' = "sync"
    /\ UNCHANGED <<disk, job, reused, history, bounds>>

Outcome == CASE job = "install" -> "installed"
             [] job = "undo"    -> "undone"
             [] job = "restore" -> "restored"

\* A slip: the outcome is reported before it is on disk.
FinishUnsynced ==
    /\ pc = "sync"
    /\ End(Outcome)
    /\ UNCHANGED <<fs, disk, found, lapsed, bounds>>

\* A slip: the script that ended is still running.
FinishRunning ==
    /\ pc = "sync"
    /\ disk' = fs
    /\ pc' = "idle" /\ outcome' = Outcome
    /\ UNCHANGED <<fs, job, reused, found, lapsed, bounds>>

\* os.sync(), and the report.
Finish ==
    /\ pc = "sync"
    /\ disk' = fs
    /\ End(Outcome)
    /\ UNCHANGED <<fs, found, lapsed, bounds>>

-----------------------------------------------------------------------------
(* restore(), on its own or after an install that failed. *)

Restore ==
    /\ Start("restore", "open", TRUE)
    /\ UNCHANGED <<fs, disk, lapsed, bounds>>

Open ==
    /\ pc = "open"
    /\ \/ /\ Verified(fs)
          /\ pc' = "stage"
          /\ UNCHANGED <<job, reused, outcome>>
       \/ /\ ~Verified(fs)
          /\ End("failed")
    /\ UNCHANGED <<fs, disk, found, lapsed, bounds>>

-----------------------------------------------------------------------------
(* Steps that raise. *)

Raise == faults < MaxFaults /\ faults' = faults + 1

\* Before the "try": BACKUP stays as far as it got.
FaultInBackup ==
    /\ pc \in {"keep", "record", "settle"} /\ Raise
    /\ \/ UNCHANGED fs
       \/ /\ pc = "keep"
          /\ \E v \in {Garbled, fs.target} : fs' = [fs EXCEPT !.copy = v]
       \/ /\ pc = "record"
          /\ fs' = [fs EXCEPT !.mani = Garbled]
    /\ End("failed")
    /\ UNCHANGED <<disk, found, lapsed, package, cuts>>

\* Inside it: restore(). The file may have been swapped by then.
FaultInInstall ==
    /\ job = "install" /\ pc \in {"stage", "swap", "sync"} /\ Raise
    /\ pc' = "open" /\ job' = "undo"
    /\ UNCHANGED <<fs, disk, reused, history, package, cuts>>

\* In restore() itself: nobody takes it from there.
FaultInRestore ==
    /\ job \in {"undo", "restore"} /\ Raise
    /\ End("failed")
    /\ UNCHANGED <<fs, disk, found, lapsed, package, cuts>>

-----------------------------------------------------------------------------
(* Power cuts, and the package manager. *)

Backup(f) == <<f.dir, f.copy, f.mani>>

\* The BACKUP of an interrupted install serves the script, and is not on disk.
AtRisk == reused /\ Backup(disk) # Backup(fs)

\* What a file can be after a power cut.
Left(now, then, damaged) == IF now = then THEN {now} ELSE {now, then, damaged}

Cut ==
    /\ cuts < MaxCuts /\ cuts' = cuts + 1
    /\ \E t \in Left(fs.target, disk.target, Torn), d \in {fs.dir, disk.dir},
          c \in Left(fs.copy, disk.copy, Garbled), m \in Left(fs.mani, disk.mani, Garbled) :
          fs' = [target |-> t, dir |-> d, copy |-> IF d THEN c ELSE None,
                 mani |-> IF d THEN m ELSE None]
    /\ disk' = fs'
    /\ lapsed' = (lapsed \/ (AtRisk /\ fs.target # disk.target))
    /\ pc' = "idle" /\ job' = "none" /\ UNCHANGED reused
    /\ outcome' = IF pc = "idle" THEN outcome ELSE "none"
    /\ UNCHANGED <<found, package, faults>>

\* The next version of the package comes, whichever file it finds.
Update ==
    /\ pc = "idle"
    /\ package < MaxUpdates /\ package' = package + 1
    /\ fs' = [fs EXCEPT !.target = package'] /\ disk' = [disk EXCEPT !.target = package']
    /\ outcome' = "none"
    /\ UNCHANGED <<script, found, lapsed, faults, cuts>>

-----------------------------------------------------------------------------
Next ==
    \/ InstallFresh \/ InstallReusing \/ Keep \/ Record \/ Settle
    \/ Stage \/ Swap \/ Finish
    \/ Restore \/ Open
    \/ FaultInBackup \/ FaultInInstall \/ FaultInRestore
    \/ Cut \/ Update

Spec == Init /\ [][Next]_vars

-----------------------------------------------------------------------------
Files == [target : Whole \cup {Torn}, dir : BOOLEAN,
          copy : Whole \cup {Torn, Garbled, None}, mani : Whole \cup {Torn, Garbled, None}]

TypeOK ==
    /\ fs \in Files /\ disk \in Files
    /\ pc \in {"idle", "keep", "record", "settle", "stage", "swap", "sync", "open"}
    /\ job \in {"none", "install", "undo", "restore"}
    /\ pc = "idle" <=> job = "none"
    /\ reused \in BOOLEAN /\ found \in Whole \cup {Torn}
    /\ outcome \in {"none", "installed", "undone", "restored", "failed"}
    /\ lapsed \in BOOLEAN /\ package \in Packaged
    /\ faults \in 0..MaxFaults /\ cuts \in 0..MaxCuts

\* Whoever starts the program, at whatever moment of a swap or its undoing, gets
\* a whole file ("the swap is atomic"), unless the file is damaged on disk, which
\* only a power cut does. The one other way to a damaged file is a restore: once
\* a power cut has taken the BACKUP of a swap and damaged TARGET, the next install
\* keeps, records and verifies the damaged file like any other.
LaunchWhole ==
    fs.target = Torn => disk.target = Torn \/ (lapsed /\ Verified(fs) /\ fs.mani = Torn)

\* A BACKUP that restore() accepts, of a file that came with a package.
Fallback(f) == Verified(f) /\ f.mani \in Packaged

\* As long as TARGET is not, now and on disk, a file of the package, there is a
\* way back to one, and a power cut does not take it: not over installs that
\* fail, are interrupted, or follow each other. The one gap is a script that
\* rests on the BACKUP of an install interrupted just before its os.sync():
\* it is verified in memory, and never put on disk before the swap.
Recoverable ==
    fs.target # disk.target \/ disk.target \notin Packaged =>
        \/ lapsed
        \/ /\ Fallback(fs)
           /\ Fallback(disk) \/ AtRisk

\* What a script reports is so and survives a power cut: an install that went
\* through, a restore, and a failed install, undone to what it found. What a
\* restore gives back is the package's, unless the way back was lost before: a
\* BACKUP made after that may be of the built or of a damaged file. With a BACKUP
\* from an earlier install it is what the earlier one found, although the package
\* may have been updated since.
OutcomeHolds ==
    /\ outcome = "installed" => disk.target = Built
    /\ outcome \in {"restored", "undone"} =>
          /\ Verified(disk) /\ disk.target = disk.mani
          /\ lapsed \/ disk.target \in Packaged
    /\ outcome = "undone" /\ ~reused => disk.target = found
=============================================================================
