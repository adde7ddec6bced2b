----------------------------- MODULE UpdateEsp -----------------------------
(* update-boot.py update-esp: it regenerates the boot files of an
   installation, brings the ESP to that state and commits the update by a
   stamp, managarm/update-boot.json, which lists the files and their hashes.

   One process runs at a time, one command after another.  Everything that it
   and mtools write lands in the page cache; the system writes single blocks
   back whenever it likes, os.sync() writes all of them, and a power loss
   leaves what had reached the disk.  Commands fail, the process is killed,
   the installation is upgraded, and other systems use the same ESP.        *)
EXTENDS Integers

CONSTANTS
    Path,            \* the files on the ESP, except for the three in Special
    Content,         \* what a generated file may hold
    Build,           \* Limine builds, in the order in which they are released
    Root,            \* the states of the installation that upgrades move between
    BiosBoot,        \* whether find_esp sees a BIOS boot partition on the disk
    MidRunUpgrades,  \* whether an upgrade may run beside update-esp
    Interruptible,   \* the phases in which a signal may end the process
    ReadErrors,      \* whether mtype may fail although the stamp is there
    None,            \* no file, no digest, no stamp
    Torn,            \* a file or a block range that was only partly written
    Other            \* the content of a file that belongs to another system

Special == {"stamp", "sys", "stages"}
Cell == Path \cup Special
Tree == [Path -> Content \cup {None}]
Stamp == [files : Tree, bios : Build \cup {None}]
Phase == {"build", "read", "drop", "dropped", "prune", "copy",
          "sys", "stages", "flush", "stamp", "commit"}

ASSUME ConstantsAssumption ==
    /\ Path \cap Special = {}
    /\ Build \subseteq Nat
    /\ Root \subseteq [files : Tree, limine : Build]
    /\ Root # {}
    /\ {BiosBoot, MidRunUpgrades, ReadErrors} \subseteq BOOLEAN
    /\ Interruptible \subseteq Phase
    /\ {None, Torn, Other} \cap (Content \cup Build \cup Stamp) = {}
    /\ None # Torn /\ None # Other /\ Torn # Other

VARIABLES
    root,    \* the installation: the files it generates and its Limine build
    cache,   \* the ESP and the stages as mtools and limine see them
    disk,    \* the ESP and the stages as a power loss leaves them
    pc,      \* the step of update-esp, or "idle"
    force,   \* args.force
    files,   \* digests of the generated tree, None where it has no file
    bios,    \* external["limine-bios.sys"], or None
    old,     \* what read_stamp returned
    todo,    \* the paths that the current loop has still to handle
    result   \* the exit status of the last run

vars == <<root, cache, disk, pc, force, files, bios, old, todo, result>>
env == <<root, disk>>
locals == <<force, files, bios, old>>

\* The paths at which a tree has a file.
Present(tree) == {p \in Path : tree[p] # None}

\* A stamp that mtype prints, that parses and that has this version's shape.
Usable(v) == v["stamp"] \in Stamp
ReadStamp(v) == IF Usable(v) THEN v["stamp"] ELSE None

UpToDate(stamp) == ~force /\ stamp # None /\ stamp = [files |-> files, bios |-> bios]

Obsolete_WholeEsp ==  \* mutant: everything that is not in the tree goes
    {p \in Path : cache[p] # None} \ Present(files)

\* Paths that the old stamp lists and the new tree lacks.
Obsolete == Present(old.files) \ Present(files)

ToCopy_ForceMerges(stamp) ==  \* mutant: a forced run also trusts the old stamp
    IF stamp = None
    THEN Present(files)
    ELSE {p \in Present(files) : stamp.files[p] # files[p]}

\* What is left in the temporary tree once the unchanged files are unlinked.
ToCopy(stamp) ==
    IF stamp = None \/ force
    THEN Present(files)
    ELSE {p \in Present(files) : stamp.files[p] # files[p]}

PairedBiosSys == IF old = None \/ force THEN None ELSE old.bios

Init ==
    /\ root \in Root
    /\ cache \in [Cell -> {None, Other}]
    /\ \A c \in Special : cache[c] = None
    /\ disk = cache
    /\ pc = "idle"
    /\ force = FALSE
    /\ files = [p \in Path |-> None]
    /\ bios = None
    /\ old = None
    /\ todo = {}
    /\ result = "none"

-----------------------------------------------------------------------------
(* The run. *)

\* The process ends and its variables with it; what it generated stays on
\* record in files.
Exit(status) ==
    /\ pc' = "idle"
    /\ result' = status
    /\ todo' = {}
    /\ force' = FALSE
    /\ bios' = None
    /\ old' = None
    /\ UNCHANGED files

Start(f) ==
    /\ pc = "idle"
    /\ pc' = "build"
    /\ force' = f
    /\ files' = [p \in Path |-> None]
    /\ todo' = Path
    /\ result' = "none"
    /\ UNCHANGED <<env, cache, bios, old>>

\* One file of the tree is generated from, or copied out of, the root.
BuildFile(p) ==
    /\ pc = "build"
    /\ p \in todo
    /\ files' = [files EXCEPT ![p] = root.files[p]]
    /\ todo' = todo \ {p}
    /\ UNCHANGED <<root, cache, disk, pc, force, bios, old, result>>

\* The root's limine-bios.sys is hashed last, where it stands.
HashBiosSys ==
    /\ pc = "build"
    /\ todo = {}
    /\ bios' = IF BiosBoot THEN root.limine ELSE None
    /\ pc' = "read"
    /\ UNCHANGED <<root, cache, disk, force, files, old, todo, result>>

ReportUpToDate ==
    /\ pc = "read"
    /\ UpToDate(ReadStamp(cache))
    /\ Exit("ok")
    /\ UNCHANGED <<env, cache>>

BeginUpdate_ForceKeepsStamp(stamp) ==  \* mutant: only a merge drops the stamp
    /\ pc = "read"
    /\ ~UpToDate(stamp)
    /\ old' = stamp
    /\ IF stamp = None \/ force
       THEN pc' = "copy" /\ todo' = ToCopy(stamp)
       ELSE pc' = "drop" /\ todo' = {}
    /\ UNCHANGED <<env, cache, force, files, bios, result>>

BeginUpdate(stamp) ==
    /\ pc = "read"
    /\ ~UpToDate(stamp)
    /\ old' = stamp
    /\ IF stamp = None
       THEN pc' = "copy" /\ todo' = ToCopy(stamp)
       ELSE pc' = "drop" /\ todo' = {}
    /\ UNCHANGED <<env, cache, force, files, bios, result>>

\* Without a stamp, the next run redoes all of an unfinished update.
DropStamp ==
    /\ pc = "drop"
    /\ cache' = [cache EXCEPT !["stamp"] = None]
    /\ pc' = "dropped"
    /\ UNCHANGED <<env, locals, todo, result>>

SyncDrop_Skipped ==  \* mutant: no os.sync() after mdel
    /\ pc = "dropped"
    /\ pc' = "prune"
    /\ todo' = IF force THEN {} ELSE Obsolete
    /\ UNCHANGED <<env, cache, locals, result>>

SyncDrop ==
    /\ pc = "dropped"
    /\ disk' = cache
    /\ pc' = "prune"
    /\ todo' = IF force THEN {} ELSE Obsolete
    /\ UNCHANGED <<root, cache, locals, result>>

\* mdel is not checked: the file may be gone already, or stay.
PruneFile(p) ==
    /\ pc = "prune"
    /\ p \in todo
    /\ cache' \in {cache, [cache EXCEPT ![p] = None]}
    /\ todo' = todo \ {p}
    /\ UNCHANGED <<env, pc, locals, result>>

PruneDone ==
    /\ pc = "prune"
    /\ todo = {}
    /\ pc' = "copy"
    /\ todo' = ToCopy(old)
    /\ UNCHANGED <<env, cache, locals, result>>

CopyFile(p) ==
    /\ pc = "copy"
    /\ p \in todo
    /\ cache' = [cache EXCEPT ![p] = files[p]]
    /\ todo' = todo \ {p}
    /\ UNCHANGED <<env, pc, locals, result>>

CopyDone ==
    /\ pc = "copy"
    /\ todo = {}
    /\ pc' = IF BiosBoot /\ PairedBiosSys # bios THEN "sys" ELSE "flush"
    /\ UNCHANGED <<env, cache, locals, todo, result>>

\* limine-bios.sys comes from the root, not from the temporary tree.
CopyBiosSys ==
    /\ pc = "sys"
    /\ cache' = [cache EXCEPT !["sys"] = root.limine]
    /\ pc' = "stages"
    /\ UNCHANGED <<env, locals, todo, result>>

\* limine bios-install, run out of the root.
InstallStages ==
    /\ pc = "stages"
    /\ cache' = [cache EXCEPT !["stages"] = root.limine]
    /\ pc' = "flush"
    /\ UNCHANGED <<env, locals, todo, result>>

Flush_Skipped ==  \* mutant: no os.sync() before the stamp
    /\ pc = "flush"
    /\ pc' = "stamp"
    /\ UNCHANGED <<env, cache, locals, todo, result>>

Flush ==
    /\ pc = "flush"
    /\ disk' = cache
    /\ pc' = "stamp"
    /\ UNCHANGED <<root, cache, locals, todo, result>>

WriteStamp_HashedLate ==  \* mutant: the external hash is taken at the end
    /\ pc = "stamp"
    /\ cache' = [cache EXCEPT !["stamp"] = [files |-> files, bios |-> root.limine]]
    /\ pc' = "commit"
    /\ UNCHANGED <<env, locals, todo, result>>

WriteStamp ==
    /\ pc = "stamp"
    /\ cache' = [cache EXCEPT !["stamp"] = [files |-> files, bios |-> bios]]
    /\ pc' = "commit"
    /\ UNCHANGED <<env, locals, todo, result>>

Commit ==
    /\ pc = "commit"
    /\ disk' = cache
    /\ Exit("ok")
    /\ UNCHANGED <<root, cache>>

Step ==
    \/ \E p \in Path : BuildFile(p) \/ PruneFile(p) \/ CopyFile(p)
    \/ HashBiosSys \/ ReportUpToDate \/ BeginUpdate(ReadStamp(cache))
    \/ DropStamp \/ SyncDrop \/ PruneDone \/ CopyDone
    \/ CopyBiosSys \/ InstallStages \/ Flush \/ WriteStamp \/ Commit

-----------------------------------------------------------------------------
(* What goes wrong, and what the rest of the system does. *)

\* The phases with a command whose failure ends the run, and with Config,
\* find_esp and the tree, whose errors do.
Checked == {"build", "drop", "copy", "sys", "stages", "stamp"}

\* The cells that the current command is writing.
Writing == CASE pc = "copy" -> todo
             [] pc \in Special -> {pc}
             [] OTHER -> {}

\* A checked command fails or a signal ends the process, perhaps in the
\* middle of writing a file.
Stop ==
    /\ pc \in Checked \cup Interruptible
    /\ cache' \in {cache} \cup {[cache EXCEPT ![c] = Torn] : c \in Writing}
    /\ Exit("failed")
    /\ UNCHANGED env

\* mtype fails although the ESP has a stamp.
MisreadStamp ==
    /\ ReadErrors
    /\ Usable(cache)
    /\ BeginUpdate(None)

\* The system writes one cell back, or a part of it.
WriteBack(c) ==
    /\ cache[c] # disk[c]
    /\ disk' \in {[disk EXCEPT ![c] = cache[c]], [disk EXCEPT ![c] = Torn]}
    /\ UNCHANGED <<root, cache, pc, locals, todo, result>>

PowerLoss ==
    /\ cache' = disk
    /\ Exit(result)
    /\ UNCHANGED env

\* Package upgrades and downgrades happen between runs.  One that runs beside
\* update-esp only moves Limine forward.
Upgrade(r) ==
    /\ r # root
    /\ IF MidRunUpgrades THEN r.limine >= root.limine ELSE pc = "idle"
    /\ root' = r
    /\ UNCHANGED <<cache, disk, pc, locals, todo, result>>

\* Another system adds, rewrites or removes a file of its own.
ShareEsp(p) ==
    /\ cache[p] \in {None, Other}
    /\ cache' = [cache EXCEPT ![p] = IF cache[p] = None THEN Other ELSE None]
    /\ UNCHANGED <<env, pc, locals, todo, result>>

Disturbance ==
    \/ Stop \/ MisreadStamp \/ PowerLoss
    \/ \E r \in Root : Upgrade(r)

Next ==
    \/ \E f \in BOOLEAN : Start(f)
    \/ Step
    \/ Disturbance
    \/ \E c \in Cell : WriteBack(c)
    \/ \E p \in Path : ShareEsp(p)

\* A run that was started is scheduled until it ends, and the packages'
\* post_install scripts, or the user, start the next one.
Fairness == WF_vars(Step) /\ WF_vars(\E f \in BOOLEAN : Start(f))

Spec == Init /\ [][Next]_vars
FairSpec == Spec /\ Fairness

-----------------------------------------------------------------------------
(* What must hold. *)

\* What a cell may hold.
Slot(c) ==
    {None, Torn} \cup CASE c = "stamp" -> Stamp
                        [] c \in {"sys", "stages"} -> Build
                        [] OTHER -> Content \cup {Other}

IsVolume(v) == v = [c \in Cell |-> v[c]] /\ \A c \in Cell : v[c] \in Slot(c)

TypeOK ==
    /\ root \in Root
    /\ IsVolume(cache)
    /\ IsVolume(disk)
    /\ pc \in Phase \cup {"idle"}
    /\ force \in BOOLEAN
    /\ files \in Tree
    /\ bios \in Build \cup {None}
    /\ old \in Stamp \cup {None}
    /\ todo \in SUBSET Path
    /\ result \in {"none", "ok", "failed"}

\* What a stamp claims, cell by cell.  limine-bios.sys is hashed, copied and
\* installed at three different moments, so the stamp can vouch for it and for
\* the stages only if the root stands still in between.
ClaimOf(stamp) ==
    [c \in Cell \ {"stamp"} |->
        IF c \in Path THEN stamp.files[c]
        ELSE IF MidRunUpgrades THEN None ELSE stamp.bios]

Promised(stamp, v) ==
    \A c \in Cell \ {"stamp"} :
        ClaimOf(stamp)[c] # None => v[c] = ClaimOf(stamp)[c]

HonestVolume(v) == Usable(v) => Promised(v["stamp"], v)

\* A stamp, as the next run or the next boot reads it, lists only files that
\* are on the ESP with exactly that content, and a Limine build that both
\* limine-bios.sys and the stages come from (lines 367-399).
StampHonest == HonestVolume(cache) /\ HonestVolume(disk)

\* Once a run has exited with status 0, the files that it generated survive
\* a power loss, whether it wrote them or found them up to date.
SuccessIsDurable ==
    result = "ok" => \A p \in Present(files) : cache[p] = files[p] /\ disk[p] = files[p]

\* "Only files that an earlier run wrote are removed; the ESP may be shared"
\* (line 376): mdel is never about to remove another system's file.
PrunesOnlyOwnFiles == pc = "prune" => \A p \in todo : cache[p] # Other

\* If Limine only moves forward, then a stamp that the next run would accept
\* as up to date never hides stages or a limine-bios.sys of another build,
\* even though upgrades run beside update-esp.
StaleBiosNoticed ==
    MidRunUpgrades /\ BiosBoot =>
        \A v \in {cache, disk} :
            Usable(v) /\ v["stamp"].bios = root.limine =>
                v["sys"] = root.limine /\ v["stages"] = root.limine

\* A volume has what the installation generates, and stages and limine-bios.sys of its
\* Limine build.
Boots(v) ==
    /\ \A p \in Present(root.files) : v[p] = root.files[p]
    /\ BiosBoot => v["sys"] = root.limine /\ v["stages"] = root.limine

\* The ESP boots the current installation, also after a power loss, and says so.
Current ==
    /\ Boots(cache) /\ Boots(disk)
    /\ Usable(cache) /\ cache["stamp"].files = root.files
    /\ BiosBoot => cache["stamp"].bios = root.limine

\* The stamp that the next run reads vouches for what is not there, or for what a power
\* loss would still take away.
Lies ==
    Usable(cache) /\ ~(Promised(cache["stamp"], cache) /\ Promised(cache["stamp"], disk))

\* Whatever an interrupted run leaves, later runs bring every file, the stages and the
\* stamp up to date again (lines 359-399), unless failures, power losses and upgrades
\* never cease, or a stamp lies and no run is ever forced.
Recovers ==
    \/ []<><<Disturbance>>_vars
    \/ []<>Current
    \/ <>[](~force /\ Lies)

\* The abstract specification, for the disk.
Claim(v) == IF Usable(v) THEN ClaimOf(v["stamp"]) ELSE None
Without(v) == [c \in Cell \ {"stamp"} |-> v[c]]
Kept == INSTANCE StampProtocol
            WITH Item <- Cell \ {"stamp"}, Unclaimed <- None, NoClaim <- None,
                 claim <- Claim(disk), content <- Without(disk)

\* update-esp keeps the promise of the stamp on the disk, so that no power
\* loss at any moment leaves a stamp that lies.
DurableStampProtocol == Kept!Spec
=============================================================================
