-------------------------- MODULE UpdateEsp_proofs --------------------------
(* Proofs about UpdateEsp, for every value of its constants.               *)
EXTENDS UpdateEsp, TLAPS

\* The phases in which a run rewrites the ESP.
Rewriting == {"prune", "copy", "sys", "stages", "flush", "stamp"}

\* What the run is about to commit.
Manifest == [files |-> files, bios |-> bios]

\* Every generated file outside of S is on the ESP already.
CopiedExcept(S) == \A p \in Present(files) \ S : cache[p] = files[p]

\* A usable stamp, seen or kept, describes the ESP as seen and as kept.
StampsPinned ==
    \A stamp \in {cache["stamp"], disk["stamp"]} :
        stamp \in Stamp => Promised(stamp, cache) /\ Promised(stamp, disk)

\* No stamp survives on the disk alone, except between mdel and os.sync().
KeptIsSeen == Usable(disk) /\ pc # "dropped" => cache["stamp"] = disk["stamp"]

NoStampWhileRewriting ==
    /\ pc \in Rewriting => ~Usable(cache) /\ ~Usable(disk)
    /\ pc = "dropped" => ~Usable(cache)

FilesOnTrack ==
    /\ pc \in {"drop", "dropped"} => old \in Stamp /\ Promised(old, cache)
    /\ pc = "prune" => /\ old \in Stamp
                       /\ \A p \in todo : p \in Obsolete /\ cache[p] = old.files[p]
                       /\ CopiedExcept(ToCopy(old))
    /\ pc = "copy" => CopiedExcept(todo)
    /\ pc \in {"sys", "stages"} => CopiedExcept({})

BiosOnTrack ==
    ~MidRunUpgrades =>
        /\ pc \notin {"idle", "build"} =>
                bios = IF BiosBoot THEN root.limine ELSE None
        /\ pc \in {"prune", "copy"} /\ PairedBiosSys # None =>
                cache["sys"] = PairedBiosSys /\ cache["stages"] = PairedBiosSys
        /\ pc \in {"sys", "stages"} => BiosBoot
        /\ pc = "stages" => cache["sys"] = bios

ManifestOnTrack ==
    /\ pc \in {"flush", "stamp", "commit"} => Promised(Manifest, cache)
    /\ pc \in {"stamp", "commit"} => Promised(Manifest, disk)
    /\ pc = "commit" => cache["stamp"] = Manifest

SuccessOnTrack == (result = "ok" => pc = "idle") /\ SuccessIsDurable

IInv ==
    /\ TypeOK
    /\ StampsPinned
    /\ KeptIsSeen
    /\ NoStampWhileRewriting
    /\ FilesOnTrack
    /\ BiosOnTrack
    /\ ManifestOnTrack
    /\ SuccessOnTrack
-----------------------------------------------------------------------------
(* Volumes. *)

\* The marks None, Torn and Other are no contents, builds or stamps.
LEMMA MarksApart ==
    /\ \A x \in Content \cup Build : x # None /\ x # Torn /\ x # Other
    /\ None \notin Stamp /\ Torn \notin Stamp
    /\ \A p \in Path : p \notin Special
BY ConstantsAssumption

\* Writing to one cell what that cell may hold leaves a volume.
LEMMA VolumeExcept ==
    ASSUME NEW v, IsVolume(v), NEW c \in Cell, NEW x \in Slot(c)
    PROVE  /\ IsVolume([v EXCEPT ![c] = x])
           /\ [v EXCEPT ![c] = x][c] = x
           /\ \A d \in Cell \ {c} : [v EXCEPT ![c] = x][d] = v[d]
<1> DEFINE w == [v EXCEPT ![c] = x]
<1>1. v = [d \in Cell |-> v[d]] /\ \A d \in Cell : v[d] \in Slot(d)
  BY DEF IsVolume
<1>2. w = [d \in Cell |-> IF d = c THEN x ELSE v[d]]
  BY <1>1
<1>3. w[c] = x /\ \A d \in Cell \ {c} : w[d] = v[d]
  BY <1>2
<1>4. w = [d \in Cell |-> w[d]]
  BY <1>2
<1>5. \A d \in Cell : w[d] \in Slot(d)
  BY <1>1, <1>3
<1> QED BY <1>3, <1>4, <1>5 DEF IsVolume

\* Every cell may be empty or torn.
LEMMA Marks == \A c \in Cell : None \in Slot(c) /\ Torn \in Slot(c)
BY DEF Slot

\* The three special cells and the paths hold what their names say.
LEMMA SlotsOf ==
    /\ Stamp \subseteq Slot("stamp")
    /\ Build \subseteq Slot("sys") /\ Build \subseteq Slot("stages")
    /\ \A p \in Path : Slot(p) = Content \cup {None, Torn, Other}
<1>1. \A p \in Path : p \notin {"stamp", "sys", "stages"}
  BY MarksApart DEF Special
<1> QED BY <1>1 DEF Slot

\* What Upgrade, BuildFile and HashBiosSys take out of the root has its type.
LEMMA RootShape == \A r \in Root : r.files \in Tree /\ r.limine \in Build
BY ConstantsAssumption

-----------------------------------------------------------------------------
(* Type correctness. *)

LEMMA TypeInit == Init => TypeOK
<1> SUFFICES ASSUME Init PROVE TypeOK
  OBVIOUS
<1>1. \A c \in Cell : cache[c] \in Slot(c)
  BY Marks, SlotsOf DEF Init, Cell
<1>2. IsVolume(cache) /\ IsVolume(disk)
  BY <1>1 DEF Init, IsVolume
<1>3. files \in Tree
  BY DEF Init, Tree
<1> QED BY <1>2, <1>3 DEF Init, TypeOK

LEMMA TypeStep == TypeOK /\ [Next]_vars => TypeOK'
<1> SUFFICES ASSUME TypeOK, [Next]_vars PROVE TypeOK'
  OBVIOUS
<1>1. CASE UNCHANGED vars
  BY <1>1 DEF TypeOK, vars, IsVolume
<1>2. ASSUME NEW f \in BOOLEAN, Start(f) PROVE TypeOK'
  <2>1. [p \in Path |-> None] \in Tree
    BY DEF Tree
  <2> QED BY <1>2, <2>1 DEF Start, TypeOK, env, IsVolume, Phase
<1>3. ASSUME NEW p \in Path, BuildFile(p) PROVE TypeOK'
  <2>1. files' \in Tree
    BY <1>3, RootShape DEF BuildFile, TypeOK, Tree
  <2> QED BY <1>3, <2>1 DEF BuildFile, TypeOK, IsVolume
<1>4. CASE HashBiosSys
  BY <1>4, RootShape DEF HashBiosSys, TypeOK, IsVolume, Phase
<1>5. CASE ReportUpToDate
  BY <1>5 DEF ReportUpToDate, Exit, TypeOK, env, IsVolume, Phase
<1>6. ASSUME NEW stamp \in Stamp \cup {None}, BeginUpdate(stamp) PROVE TypeOK'
  <2>1. ToCopy(stamp) \in SUBSET Path
    BY DEF ToCopy, Present
  <2> QED BY <1>6, <2>1 DEF BeginUpdate, TypeOK, env, IsVolume, Phase
<1>7. CASE DropStamp
  <2>1. IsVolume(cache')
    BY <1>7, VolumeExcept, Marks DEF DropStamp, TypeOK, Cell, Special
  <2> QED BY <1>7, <2>1 DEF DropStamp, TypeOK, env, locals, IsVolume, Phase
<1>8. CASE SyncDrop
  <2>1. todo' \in SUBSET Path
    BY <1>8 DEF SyncDrop, Obsolete, Present
  <2> QED BY <1>8, <2>1 DEF SyncDrop, TypeOK, locals, IsVolume, Phase
<1>9. ASSUME NEW p \in Path, PruneFile(p) PROVE TypeOK'
  <2>1. IsVolume(cache')
    BY <1>9, VolumeExcept, Marks DEF PruneFile, TypeOK, Cell
  <2> QED BY <1>9, <2>1 DEF PruneFile, TypeOK, env, locals, IsVolume
<1>10. CASE PruneDone
  <2>1. todo' \in SUBSET Path
    BY <1>10 DEF PruneDone, ToCopy, Present
  <2> QED BY <1>10, <2>1 DEF PruneDone, TypeOK, env, locals, IsVolume, Phase
<1>11. ASSUME NEW p \in Path, CopyFile(p) PROVE TypeOK'
  <2>1. files[p] \in Slot(p)
    BY SlotsOf DEF TypeOK, Tree
  <2>2. IsVolume(cache')
    BY <1>11, <2>1, VolumeExcept DEF CopyFile, TypeOK, Cell
  <2> QED BY <1>11, <2>2 DEF CopyFile, TypeOK, env, locals, IsVolume
<1>12. CASE CopyDone
  BY <1>12 DEF CopyDone, TypeOK, env, locals, IsVolume, Phase
<1>13. CASE CopyBiosSys
  <2>1. IsVolume(cache')
    BY <1>13, VolumeExcept, SlotsOf, RootShape
       DEF CopyBiosSys, TypeOK, Cell, Special
  <2> QED BY <1>13, <2>1 DEF CopyBiosSys, TypeOK, env, locals, IsVolume, Phase
<1>14. CASE InstallStages
  <2>1. IsVolume(cache')
    BY <1>14, VolumeExcept, SlotsOf, RootShape
       DEF InstallStages, TypeOK, Cell, Special
  <2> QED BY <1>14, <2>1 DEF InstallStages, TypeOK, env, locals, IsVolume, Phase
<1>15. CASE Flush
  BY <1>15 DEF Flush, TypeOK, locals, IsVolume, Phase
<1>16. CASE WriteStamp
  <2>1. Manifest \in Stamp
    BY DEF TypeOK, Manifest, Stamp
  <2>2. IsVolume(cache')
    BY <1>16, <2>1, VolumeExcept, SlotsOf
       DEF WriteStamp, TypeOK, Cell, Special, Manifest
  <2> QED BY <1>16, <2>2 DEF WriteStamp, TypeOK, env, locals, IsVolume, Phase
<1>17. CASE Commit
  BY <1>17 DEF Commit, Exit, TypeOK, IsVolume, Phase
<1>18. CASE Stop
  <2>1. Writing \subseteq Cell
    BY DEF Writing, TypeOK, Cell
  <2>2. IsVolume(cache')
    BY <1>18, <2>1, VolumeExcept, Marks DEF Stop, TypeOK
  <2> QED BY <1>18, <2>2 DEF Stop, Exit, TypeOK, env, IsVolume
<1>19. ASSUME NEW c \in Cell, WriteBack(c) PROVE TypeOK'
  <2>1. cache[c] \in Slot(c) /\ Torn \in Slot(c)
    BY Marks DEF TypeOK, IsVolume
  <2>2. IsVolume(disk')
    BY <1>19, <2>1, VolumeExcept DEF WriteBack, TypeOK
  <2> QED BY <1>19, <2>2 DEF WriteBack, TypeOK, locals, IsVolume
<1>20. CASE PowerLoss
  BY <1>20 DEF PowerLoss, Exit, TypeOK, env, IsVolume
<1>21. ASSUME NEW r \in Root, Upgrade(r) PROVE TypeOK'
  BY <1>21 DEF Upgrade, TypeOK, locals, IsVolume
<1>22. ASSUME NEW p \in Path, ShareEsp(p) PROVE TypeOK'
  <2>1. None \in Slot(p) /\ Other \in Slot(p)
    BY SlotsOf
  <2>2. IsVolume(cache')
    BY <1>22, <2>1, VolumeExcept DEF ShareEsp, TypeOK, Cell
  <2> QED BY <1>22, <2>2 DEF ShareEsp, TypeOK, env, locals, IsVolume
<1>23. ReadStamp(cache) \in Stamp \cup {None}
  BY DEF ReadStamp, Usable
<1> QED
  BY <1>1, <1>2, <1>3, <1>4, <1>5, <1>6, <1>7, <1>8, <1>9, <1>10, <1>11, <1>12,
     <1>13, <1>14, <1>15, <1>16, <1>17, <1>18, <1>19, <1>20, <1>21, <1>22, <1>23
     DEF Next, Step, Disturbance, MisreadStamp

\* Every variable keeps its type, and every cell of the volume holds what the
\* code can have put there, whatever fails and whenever the power goes.
THEOREM TypeCorrect == Spec => []TypeOK
<1>1. Init => TypeOK
  BY TypeInit
<1>2. TypeOK /\ [Next]_vars => TypeOK'
  BY TypeStep
<1> QED BY <1>1, <1>2, PTL DEF Spec

-----------------------------------------------------------------------------
(* What a stamp promises. *)

\* A promise is about the listed files, and about the Limine build if the
\* root stands still.
LEMMA PromisedMeans ==
    ASSUME NEW stamp \in Stamp, NEW v
    PROVE  Promised(stamp, v) <=>
              /\ \A p \in Present(stamp.files) : v[p] = stamp.files[p]
              /\ ~MidRunUpgrades /\ stamp.bios # None =>
                    v["sys"] = stamp.bios /\ v["stages"] = stamp.bios
<1>1. /\ \A p \in Path : ClaimOf(stamp)[p] = stamp.files[p]
      /\ \A c \in {"sys", "stages"} :
            ClaimOf(stamp)[c] = IF MidRunUpgrades THEN None ELSE stamp.bios
  BY MarksApart DEF ClaimOf, Cell, Special
<1>2. Cell \ {"stamp"} = Path \cup {"sys", "stages"}
  BY MarksApart DEF Cell, Special
<1> QED BY <1>1, <1>2 DEF Promised, Present

\* A listed file has a proper content and a listed build is a build, so no
\* other system's file, no torn file and no empty cell can stand for it.
LEMMA PromisedIsProper ==
    ASSUME NEW stamp \in Stamp, NEW p \in Present(stamp.files)
    PROVE  p \in Path /\ stamp.files[p] \in Content /\ stamp.files[p] \notin {None, Torn, Other}
BY MarksApart DEF Stamp, Tree, Present

\* The volume of a type-correct state has a stamp cell, and so on.
LEMMA StampOrMark ==
    ASSUME TypeOK
    PROVE  /\ cache["stamp"] \in Stamp \cup {None, Torn}
           /\ disk["stamp"] \in Stamp \cup {None, Torn}
           /\ Manifest \in Stamp
<1>1. "stamp" \in Cell
  BY DEF Cell, Special
<1>2. Slot("stamp") = Stamp \cup {None, Torn}
  BY DEF Slot
<1> QED BY <1>1, <1>2 DEF TypeOK, IsVolume, Manifest, Stamp

-----------------------------------------------------------------------------
(* The inductive invariant. *)

\* The stamp is removed and the removal synced in one go, and mtype finds the
\* stamp that is there.
SafeWindow == "dropped" \notin Interruptible /\ ~ReadErrors

LEMMA InvInit == Init => IInv
<1> SUFFICES ASSUME Init PROVE IInv
  OBVIOUS
<1>1. TypeOK
  BY TypeInit
<1>2. ~Usable(cache) /\ ~Usable(disk)
  BY MarksApart DEF Init, Usable, Special
<1> QED BY <1>1, <1>2 DEF Init, IInv, StampsPinned, KeptIsSeen, Usable, NoStampWhileRewriting,
        FilesOnTrack, BiosOnTrack, ManifestOnTrack, SuccessOnTrack, SuccessIsDurable, Rewriting

\* The steps that leave the ESP alone.
LEMMA InvQuiet ==
    ASSUME IInv, TypeOK', cache' = cache, disk' = disk,
           \/ \E f \in BOOLEAN : Start(f)
           \/ \E p \in Path : BuildFile(p)
           \/ HashBiosSys \/ ReportUpToDate \/ BeginUpdate(ReadStamp(cache))
           \/ PruneDone \/ CopyDone
           \/ \E r \in Root : Upgrade(r)
    PROVE  IInv'
<1>0. /\ cache["stamp"] \in Stamp \cup {None, Torn}
      /\ disk["stamp"] \in Stamp \cup {None, Torn}
      /\ Manifest \in Stamp
  BY StampOrMark DEF IInv
<1>1. StampsPinned'
  BY DEF IInv, StampsPinned
<1>2. ASSUME NEW f \in BOOLEAN, Start(f) PROVE IInv'
  BY <1>1, <1>2 DEF Start, IInv, KeptIsSeen, Usable, NoStampWhileRewriting,
     FilesOnTrack, BiosOnTrack, ManifestOnTrack, SuccessOnTrack, SuccessIsDurable, Rewriting
<1>3. ASSUME NEW p \in Path, BuildFile(p) PROVE IInv'
  BY <1>1, <1>3 DEF BuildFile, IInv, KeptIsSeen, Usable, NoStampWhileRewriting,
     FilesOnTrack, BiosOnTrack, ManifestOnTrack, SuccessOnTrack, SuccessIsDurable, Rewriting
<1>4. ASSUME HashBiosSys PROVE IInv'
  BY <1>1, <1>4 DEF HashBiosSys, IInv, KeptIsSeen, Usable, NoStampWhileRewriting,
     FilesOnTrack, BiosOnTrack, ManifestOnTrack, SuccessOnTrack, SuccessIsDurable, Rewriting
<1>5. ASSUME ReportUpToDate PROVE IInv'
  <2>1. cache["stamp"] \in Stamp /\ cache["stamp"] = Manifest
    BY <1>0, <1>5 DEF ReportUpToDate, UpToDate, ReadStamp, Usable, Manifest
  <2>2. Promised(Manifest, cache) /\ Promised(Manifest, disk)
    BY <2>1 DEF IInv, StampsPinned
  <2>3. \A p \in Present(files) : cache[p] = files[p] /\ disk[p] = files[p]
    BY <1>0, <2>2, PromisedMeans DEF Manifest
  <2>4. SuccessOnTrack'
    BY <1>5, <2>3 DEF ReportUpToDate, Exit, SuccessOnTrack, SuccessIsDurable, Present
  <2> QED
    BY <1>1, <1>5, <2>4 DEF ReportUpToDate, Exit, IInv, KeptIsSeen, Usable,
       NoStampWhileRewriting, FilesOnTrack, BiosOnTrack, ManifestOnTrack, Rewriting
<1>6. ASSUME BeginUpdate(ReadStamp(cache)) PROVE IInv'
  <2>1. CASE ReadStamp(cache) = None
    <3>1. ~Usable(cache) /\ ~Usable(disk)
      BY <1>0, <1>6, <2>1, MarksApart DEF ReadStamp, Usable, IInv, KeptIsSeen, BeginUpdate
    <3>2. pc' = "copy" /\ old' = None /\ todo' = Present(files) /\ files' = files
      BY <1>6, <2>1 DEF BeginUpdate, ToCopy
    <3>3. FilesOnTrack'
      BY <3>2 DEF FilesOnTrack, CopiedExcept, Present
    <3>4. BiosOnTrack'
      BY <1>6, <3>2 DEF BiosOnTrack, PairedBiosSys, IInv, BeginUpdate, env
    <3>5. SuccessOnTrack'
      BY <1>6, <3>2 DEF IInv, SuccessOnTrack, SuccessIsDurable, BeginUpdate
    <3> QED
      BY <1>1, <1>6, <3>1, <3>2, <3>3, <3>4, <3>5 DEF IInv, KeptIsSeen, Usable,
         NoStampWhileRewriting, ManifestOnTrack, Rewriting
  <2>2. CASE ReadStamp(cache) # None
    <3>1. pc' = "drop" /\ old' = cache["stamp"] /\ cache["stamp"] \in Stamp
      BY <1>6, <2>2 DEF BeginUpdate, ReadStamp, Usable
    <3>2. FilesOnTrack'
      BY <3>1 DEF FilesOnTrack, IInv, StampsPinned
    <3>3. BiosOnTrack'
      BY <1>6, <3>1 DEF BiosOnTrack, IInv, BeginUpdate, env
    <3>4. SuccessOnTrack' /\ KeptIsSeen'
      BY <1>6, <3>1 DEF IInv, SuccessOnTrack, SuccessIsDurable, BeginUpdate, KeptIsSeen, Usable
    <3> QED
      BY <1>1, <3>1, <3>2, <3>3, <3>4 DEF IInv, NoStampWhileRewriting,
         ManifestOnTrack, Rewriting
  <2> QED BY <2>1, <2>2
<1>7. ASSUME PruneDone PROVE IInv'
  <2>1. PairedBiosSys' = PairedBiosSys
    BY <1>7 DEF PruneDone, PairedBiosSys, locals
  <2>2. FilesOnTrack'
    BY <1>7 DEF PruneDone, IInv, FilesOnTrack, CopiedExcept, Present, locals
  <2>3. BiosOnTrack'
    BY <1>7, <2>1 DEF PruneDone, IInv, BiosOnTrack, locals, env
  <2> QED
    BY <1>1, <1>7, <2>2, <2>3 DEF PruneDone, IInv, KeptIsSeen, Usable, NoStampWhileRewriting,
       ManifestOnTrack, SuccessOnTrack, SuccessIsDurable, Rewriting, locals
<1>8. ASSUME CopyDone PROVE IInv'
  <2>1. CopiedExcept({}) /\ files' = files /\ bios' = bios /\ pc' \in {"sys", "flush"}
    BY <1>8 DEF CopyDone, IInv, FilesOnTrack, locals
  <2>2. ASSUME pc' = "flush" PROVE Promised(Manifest, cache)
    <3>1. ~MidRunUpgrades /\ bios # None => cache["sys"] = bios /\ cache["stages"] = bios
      BY <1>8, <2>2, MarksApart DEF CopyDone, IInv, BiosOnTrack, TypeOK
    <3> QED BY <1>0, <2>1, <3>1, PromisedMeans DEF Manifest, CopiedExcept
  <2>3. FilesOnTrack'
    BY <2>1 DEF FilesOnTrack, CopiedExcept, Present
  <2>4. BiosOnTrack'
    BY <1>8, <2>1 DEF CopyDone, IInv, BiosOnTrack, locals, env
  <2>5. ManifestOnTrack'
    BY <2>1, <2>2 DEF ManifestOnTrack, Manifest
  <2> QED
    BY <1>1, <1>8, <2>1, <2>3, <2>4, <2>5 DEF CopyDone, IInv, KeptIsSeen, Usable,
       NoStampWhileRewriting, SuccessOnTrack, SuccessIsDurable, Rewriting
<1>9. ASSUME NEW r \in Root, Upgrade(r) PROVE IInv'
  <2>1. /\ pc' = pc /\ files' = files /\ bios' = bios /\ old' = old /\ force' = force
        /\ todo' = todo /\ result' = result
        /\ MidRunUpgrades \/ pc = "idle"
    BY <1>9 DEF Upgrade, locals
  <2>2. FilesOnTrack'
    BY <2>1 DEF IInv, FilesOnTrack, CopiedExcept, Present, Obsolete, ToCopy
  <2>3. BiosOnTrack'
    BY <2>1 DEF BiosOnTrack
  <2> QED
    BY <1>1, <2>1, <2>2, <2>3 DEF IInv, KeptIsSeen, Usable, NoStampWhileRewriting,
       ManifestOnTrack, Manifest, SuccessOnTrack, SuccessIsDurable, Rewriting
<1> QED BY <1>2, <1>3, <1>4, <1>5, <1>6, <1>7, <1>8, <1>9

\* A file that is on the ESP as generated or as listed is no other system's.
LEMMA ProperContents ==
    ASSUME TypeOK
    PROVE  /\ \A p \in Present(files) : p \in Path /\ files[p] \in Content
           /\ old # None => \A p \in Present(old.files) : p \in Path /\ old.files[p] \in Content
           /\ \A x \in Content : x \notin {None, Torn, Other}
BY MarksApart DEF TypeOK, Tree, Present, Stamp

\* Between the removal of the stamp and the last sync.
LEMMA InvRewrite ==
    ASSUME IInv, TypeOK',
           \/ \E p \in Path : PruneFile(p) \/ CopyFile(p)
           \/ CopyBiosSys \/ InstallStages \/ Flush
    PROVE  IInv'
<1>0. /\ pc \in Rewriting /\ pc' \in Rewriting /\ pc # "idle" /\ pc' # "idle"
      /\ files' = files /\ bios' = bios /\ old' = old /\ force' = force /\ root' = root
      /\ result' = result
  BY DEF PruneFile, CopyFile, CopyBiosSys, InstallStages, Flush, Rewriting, locals, env
<1>1. cache["stamp"] \notin Stamp /\ disk["stamp"] \notin Stamp
  BY <1>0 DEF IInv, NoStampWhileRewriting, Usable
<1>2. ASSUME NEW c \in Cell \ {"stamp"}, NEW x \in Slot(c), cache' = [cache EXCEPT ![c] = x]
      PROVE  cache'[c] = x /\ \A d \in Cell \ {c} : cache'[d] = cache[d]
  BY <1>2, VolumeExcept DEF IInv, TypeOK
<1>3. {"stamp", "sys", "stages"} \subseteq Cell /\ Path \subseteq Cell /\ "stamp" \notin Path
      /\ "sys" \notin Path /\ "stages" \notin Path
  BY MarksApart DEF Cell, Special
<1>4. cache'["stamp"] = cache["stamp"] /\ disk'["stamp"] \in {cache["stamp"], disk["stamp"]}
  <2>1. ASSUME NEW p \in Path, PruneFile(p) PROVE cache'["stamp"] = cache["stamp"]
    BY <1>2, <1>3, <2>1, Marks DEF PruneFile
  <2>2. ASSUME NEW p \in Path, CopyFile(p) PROVE cache'["stamp"] = cache["stamp"]
    BY <1>2, <1>3, <2>2, SlotsOf DEF CopyFile, IInv, TypeOK, Tree
  <2>3. ASSUME CopyBiosSys \/ InstallStages PROVE cache'["stamp"] = cache["stamp"]
    BY <1>2, <1>3, <2>3, SlotsOf, RootShape DEF CopyBiosSys, InstallStages, IInv, TypeOK
  <2>4. Flush => cache'["stamp"] = cache["stamp"]
    BY DEF Flush
  <2> QED
    BY <2>1, <2>2, <2>3, <2>4
       DEF PruneFile, CopyFile, CopyBiosSys, InstallStages, Flush, env
<1>5. StampsPinned' /\ KeptIsSeen' /\ NoStampWhileRewriting'
  BY <1>0, <1>1, <1>4 DEF StampsPinned, KeptIsSeen, NoStampWhileRewriting, Usable, Rewriting
<1>6. SuccessOnTrack'
  BY <1>0 DEF IInv, SuccessOnTrack, SuccessIsDurable
<1>7. FilesOnTrack' /\ BiosOnTrack' /\ ManifestOnTrack'
  <2>1. ASSUME NEW p \in Path, PruneFile(p)
        PROVE  FilesOnTrack' /\ BiosOnTrack' /\ ManifestOnTrack'
    <3>1. pc = "prune" /\ pc' = "prune" /\ p \in todo /\ todo' = todo \ {p}
      BY <2>1 DEF PruneFile
    <3>2. \A d \in Cell \ {p} : cache'[d] = cache[d]
      BY <1>2, <1>3, <2>1, Marks DEF PruneFile
    <3>3. p \notin Present(files) /\ todo \subseteq Path
      BY <3>1 DEF IInv, FilesOnTrack, Obsolete, TypeOK
    <3>4. FilesOnTrack'
      BY <1>0, <1>3, <3>1, <3>2, <3>3
         DEF IInv, FilesOnTrack, Obsolete, CopiedExcept, ToCopy, Present
    <3>5. BiosOnTrack'
      BY <1>0, <1>3, <3>1, <3>2 DEF IInv, BiosOnTrack, PairedBiosSys
    <3> QED BY <3>1, <3>4, <3>5 DEF ManifestOnTrack
  <2>2. ASSUME NEW p \in Path, CopyFile(p)
        PROVE  FilesOnTrack' /\ BiosOnTrack' /\ ManifestOnTrack'
    <3>1. pc = "copy" /\ pc' = "copy" /\ p \in todo /\ todo' = todo \ {p}
      BY <2>2 DEF CopyFile
    <3>2. cache'[p] = files[p] /\ \A d \in Cell \ {p} : cache'[d] = cache[d]
      BY <1>2, <1>3, <2>2, SlotsOf DEF CopyFile, IInv, TypeOK, Tree
    <3>3. FilesOnTrack'
      BY <1>0, <1>3, <3>1, <3>2 DEF IInv, FilesOnTrack, CopiedExcept, Present
    <3>4. BiosOnTrack'
      BY <1>0, <1>3, <3>1, <3>2 DEF IInv, BiosOnTrack, PairedBiosSys
    <3> QED BY <3>1, <3>3, <3>4 DEF ManifestOnTrack
  <2>3. ASSUME CopyBiosSys
        PROVE  FilesOnTrack' /\ BiosOnTrack' /\ ManifestOnTrack'
    <3>1. pc = "sys" /\ pc' = "stages"
      BY <2>3 DEF CopyBiosSys
    <3>2. cache'["sys"] = root.limine /\ \A d \in Cell \ {"sys"} : cache'[d] = cache[d]
      BY <1>2, <1>3, <2>3, SlotsOf, RootShape DEF CopyBiosSys, IInv, TypeOK
    <3>3. FilesOnTrack'
      BY <1>0, <1>3, <3>1, <3>2 DEF IInv, FilesOnTrack, CopiedExcept, Present
    <3>4. BiosOnTrack'
      <4>1. ~MidRunUpgrades => bios = IF BiosBoot THEN root.limine ELSE None
        BY <3>1 DEF IInv, BiosOnTrack
      <4>2. ~MidRunUpgrades => BiosBoot
        BY <3>1 DEF IInv, BiosOnTrack
      <4> QED BY <1>0, <3>1, <3>2, <4>1, <4>2 DEF BiosOnTrack
    <3> QED BY <3>1, <3>3, <3>4 DEF ManifestOnTrack
  <2>4. ASSUME InstallStages
        PROVE  FilesOnTrack' /\ BiosOnTrack' /\ ManifestOnTrack'
    <3>1. pc = "stages" /\ pc' = "flush"
      BY <2>4 DEF InstallStages
    <3>2. cache'["stages"] = root.limine /\ \A d \in Cell \ {"stages"} : cache'[d] = cache[d]
      BY <1>2, <1>3, <2>4, SlotsOf, RootShape DEF InstallStages, IInv, TypeOK
    <3>3. \A p \in Present(files) : cache'[p] = files[p]
      BY <1>3, <3>1, <3>2 DEF IInv, FilesOnTrack, CopiedExcept, Present
    <3>4. ~MidRunUpgrades /\ bios # None => cache'["sys"] = bios /\ cache'["stages"] = bios
      BY <1>3, <3>1, <3>2 DEF IInv, BiosOnTrack
    <3>5. Promised(Manifest, cache')
      BY <3>3, <3>4, StampOrMark, PromisedMeans DEF Manifest, IInv
    <3>6. ManifestOnTrack'
      BY <1>0, <3>1, <3>5 DEF ManifestOnTrack, Manifest
    <3> QED BY <1>0, <3>1, <3>6 DEF FilesOnTrack, BiosOnTrack, IInv
  <2>5. ASSUME Flush
        PROVE  FilesOnTrack' /\ BiosOnTrack' /\ ManifestOnTrack'
    <3>1. pc = "flush" /\ pc' = "stamp" /\ disk' = cache /\ cache' = cache
      BY <2>5 DEF Flush
    <3> QED BY <1>0, <3>1 DEF FilesOnTrack, BiosOnTrack, ManifestOnTrack, Manifest, IInv
  <2> QED BY <2>1, <2>2, <2>3, <2>4, <2>5
<1> QED BY <1>5, <1>6, <1>7 DEF IInv

\* Only the stamp cell of the volume as seen changes.
StampOnly == \A c \in Cell \ {"stamp"} : cache'[c] = cache[c]

\* A promise does not speak of the stamp cell.
LEMMA PromiseIgnoresStamp ==
    ASSUME NEW stamp, NEW v, NEW w, \A c \in Cell \ {"stamp"} : w[c] = v[c]
    PROVE  Promised(stamp, v) <=> Promised(stamp, w)
BY DEF Promised

LEMMA CellsApart ==
    /\ Path \subseteq Cell \ {"stamp"}
    /\ {"stamp", "sys", "stages"} \subseteq Cell
    /\ "sys" \notin Path /\ "stages" \notin Path
BY MarksApart DEF Cell, Special

\* The removal of the stamp and its sync.
LEMMA InvDrop ==
    ASSUME IInv, TypeOK', DropStamp \/ SyncDrop
    PROVE  IInv'
<1>0. /\ files' = files /\ bios' = bios /\ old' = old /\ force' = force /\ root' = root
      /\ result' = result /\ pc # "idle"
  BY DEF DropStamp, SyncDrop, locals, env
<1>1. SuccessOnTrack'
  BY <1>0 DEF IInv, SuccessOnTrack, SuccessIsDurable
<1>2. CASE DropStamp
  <2>1. pc = "drop" /\ pc' = "dropped" /\ disk' = disk
    BY <1>2 DEF DropStamp, env
  <2>2. cache'["stamp"] = None /\ StampOnly
    BY <1>2, VolumeExcept, Marks, CellsApart DEF DropStamp, IInv, TypeOK, StampOnly
  <2>3. StampsPinned' /\ NoStampWhileRewriting' /\ KeptIsSeen'
    BY <2>1, <2>2, MarksApart, PromiseIgnoresStamp
       DEF IInv, StampsPinned, StampOnly, NoStampWhileRewriting, Usable, Rewriting, KeptIsSeen
  <2>4. FilesOnTrack'
    BY <1>0, <2>1, <2>2, PromiseIgnoresStamp DEF IInv, FilesOnTrack, StampOnly
  <2> QED BY <1>0, <1>1, <2>1, <2>3, <2>4 DEF IInv, BiosOnTrack, ManifestOnTrack
<1>3. CASE SyncDrop
  <2>1. /\ pc = "dropped" /\ pc' = "prune" /\ disk' = cache /\ cache' = cache
        /\ todo' = IF force THEN {} ELSE Obsolete
    BY <1>3 DEF SyncDrop
  <2>2. old \in Stamp /\ Promised(old, cache) /\ ~Usable(cache)
    BY <2>1 DEF IInv, FilesOnTrack, NoStampWhileRewriting
  <2>3. StampsPinned' /\ NoStampWhileRewriting' /\ KeptIsSeen'
    BY <2>1, <2>2 DEF StampsPinned, NoStampWhileRewriting, KeptIsSeen, Usable, Rewriting
  <2>4. /\ \A p \in Present(old.files) : cache[p] = old.files[p]
        /\ ~MidRunUpgrades /\ old.bios # None =>
              cache["sys"] = old.bios /\ cache["stages"] = old.bios
    BY <2>2, PromisedMeans
  <2>5. CopiedExcept(ToCopy(old))
    <3>1. old # None
      BY <2>2, MarksApart
    <3> QED BY <2>4, <3>1 DEF CopiedExcept, ToCopy, Present
  <2>6. \A p \in todo' : p \in Obsolete /\ cache[p] = old.files[p]
    BY <2>1, <2>4 DEF Obsolete
  <2>7. FilesOnTrack'
    BY <1>0, <2>1, <2>2, <2>5, <2>6
       DEF FilesOnTrack, CopiedExcept, ToCopy, Present, Obsolete
  <2>8. BiosOnTrack'
    BY <1>0, <2>1, <2>4 DEF IInv, BiosOnTrack, PairedBiosSys
  <2> QED BY <1>1, <2>1, <2>3, <2>7, <2>8 DEF IInv, ManifestOnTrack
<1> QED BY <1>2, <1>3

\* The stamp and its sync.
LEMMA InvCommit ==
    ASSUME IInv, TypeOK', WriteStamp \/ Commit
    PROVE  IInv'
<1>1. CASE WriteStamp
  <2>1. /\ pc = "stamp" /\ pc' = "commit" /\ disk' = disk /\ files' = files /\ bios' = bios
        /\ result' = result /\ root' = root
    BY <1>1 DEF WriteStamp, env, locals
  <2>2. Manifest \in Slot("stamp") /\ Manifest \in Stamp
    BY StampOrMark, SlotsOf DEF IInv
  <2>3. cache'["stamp"] = Manifest /\ StampOnly
    BY <1>1, <2>2, VolumeExcept, CellsApart DEF WriteStamp, IInv, TypeOK, StampOnly, Manifest
  <2>4. Promised(Manifest, cache') /\ Promised(Manifest, disk)
    BY <2>1, <2>3, PromiseIgnoresStamp DEF IInv, ManifestOnTrack, StampOnly
  <2>5. ~Usable(disk)
    BY <2>1 DEF IInv, NoStampWhileRewriting, Rewriting
  <2>6. StampsPinned' /\ KeptIsSeen' /\ NoStampWhileRewriting'
    BY <2>1, <2>3, <2>4, <2>5
       DEF StampsPinned, KeptIsSeen, NoStampWhileRewriting, Usable, Rewriting
  <2>7. ManifestOnTrack'
    BY <2>1, <2>3, <2>4 DEF ManifestOnTrack, Manifest
  <2>8. SuccessOnTrack' /\ FilesOnTrack' /\ BiosOnTrack'
    BY <2>1 DEF IInv, SuccessOnTrack, SuccessIsDurable, FilesOnTrack, BiosOnTrack
  <2> QED BY <2>6, <2>7, <2>8 DEF IInv
<1>2. CASE Commit
  <2>1. pc = "commit" /\ pc' = "idle" /\ disk' = cache /\ cache' = cache /\ files' = files
    BY <1>2 DEF Commit, Exit
  <2>2. \A p \in Present(files) : cache[p] = files[p]
    BY <2>1, StampOrMark, PromisedMeans DEF IInv, ManifestOnTrack, Manifest
  <2>3. SuccessOnTrack'
    BY <2>1, <2>2 DEF SuccessOnTrack, SuccessIsDurable, Present
  <2>4. StampsPinned' /\ KeptIsSeen' /\ NoStampWhileRewriting'
    BY <2>1 DEF IInv, StampsPinned, KeptIsSeen, NoStampWhileRewriting, Rewriting
  <2> QED BY <2>1, <2>3, <2>4 DEF IInv, FilesOnTrack, BiosOnTrack, ManifestOnTrack
<1> QED BY <1>1, <1>2

\* What the run does not do itself.
LEMMA InvEnvironment ==
    ASSUME IInv, TypeOK', SafeWindow,
           \/ Stop \/ PowerLoss
           \/ \E c \in Cell : WriteBack(c)
           \/ \E p \in Path : ShareEsp(p)
    PROVE  IInv'
<1>1. CASE Stop
  <2>1. /\ pc' = "idle" /\ disk' = disk /\ result' = "failed" /\ pc # "dropped" /\ pc # "idle"
    BY <1>1, ConstantsAssumption DEF Stop, Exit, env, SafeWindow, Checked, Phase
  <2>2. CASE cache' = cache
    BY <2>1, <2>2 DEF IInv, StampsPinned, KeptIsSeen, NoStampWhileRewriting, FilesOnTrack,
       BiosOnTrack, ManifestOnTrack, SuccessOnTrack, SuccessIsDurable, Rewriting, Usable
  <2>3. CASE cache' # cache
    <3>1. pc \in Rewriting
      BY <1>1, <2>3 DEF Stop, Writing, Special, Rewriting
    <3>2. ~Usable(cache) /\ ~Usable(disk)
      BY <3>1 DEF IInv, NoStampWhileRewriting
    <3>3. PICK c \in Writing : cache' = [cache EXCEPT ![c] = Torn]
      BY <1>1, <2>3 DEF Stop
    <3>4. c \in Cell
      BY DEF Writing, IInv, TypeOK, Cell
    <3>5. cache'["stamp"] \in {cache["stamp"], Torn}
      BY <3>3, <3>4, VolumeExcept, Marks, CellsApart DEF IInv, TypeOK
    <3>6. ~Usable(cache') /\ ~Usable(disk')
      BY <2>1, <3>2, <3>5, MarksApart DEF Usable
    <3> QED BY <2>1, <3>6 DEF IInv, StampsPinned, KeptIsSeen, NoStampWhileRewriting,
       FilesOnTrack, BiosOnTrack, ManifestOnTrack, SuccessOnTrack, SuccessIsDurable, Rewriting, Usable
  <2> QED BY <2>2, <2>3
<1>2. CASE PowerLoss
  <2>1. pc' = "idle" /\ cache' = disk /\ disk' = disk /\ result' = result /\ files' = files
    BY <1>2 DEF PowerLoss, Exit, env
  <2> QED BY <2>1 DEF IInv, StampsPinned, KeptIsSeen, NoStampWhileRewriting, FilesOnTrack,
       BiosOnTrack, ManifestOnTrack, SuccessOnTrack, SuccessIsDurable, Rewriting, Usable
<1>3. ASSUME NEW c \in Cell, WriteBack(c) PROVE IInv'
  <2>0. /\ files' = files /\ bios' = bios /\ old' = old /\ force' = force /\ root' = root
        /\ result' = result /\ pc' = pc /\ todo' = todo /\ cache' = cache
    BY <1>3 DEF WriteBack, locals
  <2>1. /\ cache[c] # disk[c]
        /\ disk'[c] \in {cache[c], Torn}
        /\ \A d \in Cell \ {c} : disk'[d] = disk[d]
    <3>1. cache[c] \in Slot(c) /\ Torn \in Slot(c)
      BY Marks DEF IInv, TypeOK, IsVolume
    <3>2. PICK x \in {cache[c], Torn} : disk' = [disk EXCEPT ![c] = x]
      BY <1>3 DEF WriteBack
    <3>3. IsVolume(disk) /\ x \in Slot(c)
      BY <3>1 DEF IInv, TypeOK
    <3>4. disk'[c] = x /\ \A d \in Cell \ {c} : disk'[d] = disk[d]
      BY <3>2, <3>3, VolumeExcept
    <3> QED BY <1>3, <3>4 DEF WriteBack
  <2>2. ASSUME NEW stamp, Promised(stamp, cache), Promised(stamp, disk)
        PROVE  Promised(stamp, disk')
    BY <2>1, <2>2 DEF Promised
  <2>3. disk'["stamp"] \in {cache["stamp"], disk["stamp"], Torn}
    BY <2>1, CellsApart
  <2>4. StampsPinned'
    BY <2>0, <2>2, <2>3, MarksApart DEF IInv, StampsPinned
  <2>5. KeptIsSeen' /\ NoStampWhileRewriting'
    BY <2>0, <2>3, MarksApart DEF IInv, KeptIsSeen, NoStampWhileRewriting, Usable, Rewriting
  <2>6. FilesOnTrack' /\ BiosOnTrack'
    BY <2>0 DEF IInv, FilesOnTrack, BiosOnTrack, CopiedExcept, ToCopy, Present, Obsolete, PairedBiosSys
  <2>7. ManifestOnTrack'
    BY <2>0, <2>2 DEF IInv, ManifestOnTrack, Manifest
  <2>8. SuccessOnTrack'
    BY <2>0, <2>1, ProperContents, CellsApart DEF IInv, SuccessOnTrack, SuccessIsDurable
  <2> QED BY <2>4, <2>5, <2>6, <2>7, <2>8 DEF IInv
<1>4. ASSUME NEW p \in Path, ShareEsp(p) PROVE IInv'
  <2>0. /\ files' = files /\ bios' = bios /\ old' = old /\ force' = force /\ root' = root
        /\ result' = result /\ pc' = pc /\ todo' = todo /\ disk' = disk
    BY <1>4 DEF ShareEsp, locals, env
  <2>1. cache[p] \in {None, Other} /\ \A d \in Cell \ {p} : cache'[d] = cache[d]
    <3>1. None \in Slot(p) /\ Other \in Slot(p) /\ p \in Cell
      BY SlotsOf, CellsApart
    <3> QED BY <1>4, <3>1, VolumeExcept DEF ShareEsp, IInv, TypeOK
  <2>2. /\ cache'["stamp"] = cache["stamp"]
        /\ cache'["sys"] = cache["sys"] /\ cache'["stages"] = cache["stages"]
    BY <2>1, CellsApart
  <2>3. \A q \in Path : cache[q] \in Content => cache'[q] = cache[q]
    BY <2>1, MarksApart, CellsApart
  <2>4. ASSUME NEW stamp \in Stamp, Promised(stamp, cache) PROVE Promised(stamp, cache')
    BY <2>2, <2>3, <2>4, PromisedMeans, PromisedIsProper
  <2>5. StampsPinned'
    BY <2>0, <2>2, <2>4 DEF IInv, StampsPinned
  <2>6. KeptIsSeen' /\ NoStampWhileRewriting'
    BY <2>0, <2>2 DEF IInv, KeptIsSeen, NoStampWhileRewriting, Usable, Rewriting
  <2>7. \A S : CopiedExcept(S) => CopiedExcept(S)'
    BY <2>0, <2>3, ProperContents DEF IInv, CopiedExcept, Present
  <2>8. FilesOnTrack'
    <3>1. pc = "prune" => \A q \in todo : q \in Obsolete /\ cache'[q] = old.files[q]
      BY <2>3, ProperContents, MarksApart DEF IInv, FilesOnTrack, Obsolete
    <3>2. pc \in {"drop", "dropped"} => Promised(old, cache')
      BY <2>4 DEF IInv, FilesOnTrack
    <3>3. ToCopy(old)' = ToCopy(old) /\ Obsolete' = Obsolete
      BY <2>0 DEF ToCopy, Obsolete, Present
    <3> QED BY <2>0, <2>7, <3>1, <3>2, <3>3 DEF IInv, FilesOnTrack, CopiedExcept, Present
  <2>9. BiosOnTrack'
    BY <2>0, <2>2 DEF IInv, BiosOnTrack, PairedBiosSys
  <2>10. ManifestOnTrack'
    BY <2>0, <2>2, <2>4, StampOrMark DEF IInv, ManifestOnTrack, Manifest
  <2>11. SuccessOnTrack'
    BY <2>0, <2>3, ProperContents DEF IInv, SuccessOnTrack, SuccessIsDurable
  <2> QED BY <2>5, <2>6, <2>8, <2>9, <2>10, <2>11 DEF IInv
<1> QED BY <1>1, <1>2, <1>3, <1>4

LEMMA InvStep == SafeWindow /\ IInv /\ [Next]_vars => IInv'
<1> SUFFICES ASSUME SafeWindow, IInv, [Next]_vars PROVE IInv'
  OBVIOUS
<1>1. TypeOK'
  BY TypeStep DEF IInv
<1>2. CASE UNCHANGED vars
  BY <1>2 DEF vars, IInv, TypeOK, IsVolume, StampsPinned, KeptIsSeen, NoStampWhileRewriting,
     FilesOnTrack, BiosOnTrack, ManifestOnTrack, Manifest, SuccessOnTrack, SuccessIsDurable,
     Rewriting, Usable, CopiedExcept, ToCopy, Obsolete, Present, PairedBiosSys
<1>3. CASE \/ \E f \in BOOLEAN : Start(f)
           \/ \E p \in Path : BuildFile(p)
           \/ HashBiosSys \/ ReportUpToDate \/ BeginUpdate(ReadStamp(cache))
           \/ PruneDone \/ CopyDone
           \/ \E r \in Root : Upgrade(r)
  <2>1. cache' = cache /\ disk' = disk
    BY <1>3 DEF Start, BuildFile, HashBiosSys, ReportUpToDate, BeginUpdate, PruneDone,
       CopyDone, Upgrade, env
  <2> QED BY <1>1, <1>3, <2>1, InvQuiet
<1>4. CASE \/ \E p \in Path : PruneFile(p) \/ CopyFile(p)
           \/ CopyBiosSys \/ InstallStages \/ Flush
  BY <1>1, <1>4, InvRewrite
<1>5. CASE DropStamp \/ SyncDrop
  BY <1>1, <1>5, InvDrop
<1>6. CASE WriteStamp \/ Commit
  BY <1>1, <1>6, InvCommit
<1>7. CASE \/ Stop \/ PowerLoss
           \/ \E c \in Cell : WriteBack(c)
           \/ \E p \in Path : ShareEsp(p)
  BY <1>1, <1>7, InvEnvironment
<1>8. ~MisreadStamp
  BY DEF MisreadStamp, SafeWindow
<1> QED BY <1>2, <1>3, <1>4, <1>5, <1>6, <1>7, <1>8 DEF Next, Step, Disturbance

LEMMA InvAlways == ASSUME SafeWindow PROVE Spec => []IInv
<1>1. Init => IInv
  BY InvInit
<1>2. IInv /\ [Next]_vars => IInv'
  BY InvStep
<1> QED BY <1>1, <1>2, PTL DEF Spec

\* No stamp lies, seen or kept, if no signal falls between the removal of the
\* stamp and its sync and mtype finds the stamp that is there (lines 362-399).
THEOREM StampsAreHonest == ASSUME SafeWindow PROVE Spec => []StampHonest
<1>1. IInv => StampHonest
  BY DEF IInv, StampsPinned, StampHonest, HonestVolume, Usable
<1> QED BY <1>1, InvAlways, PTL

\* The files of a run that exited with status 0 survive every power loss.
THEOREM SuccessLasts == ASSUME SafeWindow PROVE Spec => []SuccessIsDurable
<1>1. IInv => SuccessIsDurable
  BY DEF IInv, SuccessOnTrack
<1> QED BY <1>1, InvAlways, PTL

\* mdel is never about to remove another system's file (line 376).
THEOREM OnlyOwnFilesPruned == ASSUME SafeWindow PROVE Spec => []PrunesOnlyOwnFiles
<1>1. IInv => PrunesOnlyOwnFiles
  BY MarksApart, ProperContents DEF IInv, FilesOnTrack, PrunesOnlyOwnFiles, Obsolete
<1> QED BY <1>1, InvAlways, PTL

-----------------------------------------------------------------------------
(* Limine, when upgrades run beside update-esp. *)

\* The build has been released by now.
Released(b) == b \in Build /\ b <= root.limine

\* If b is the root's build, then limine-bios.sys and the stages are b's.
Paired(b, v) == b = root.limine => v["sys"] = root.limine /\ v["stages"] = root.limine

LimineStamped ==
    \A stamp \in {cache["stamp"], disk["stamp"]} :
        stamp \in Stamp => /\ Released(stamp.bios)
                           /\ Paired(stamp.bios, cache) /\ Paired(stamp.bios, disk)

LimineRead ==
    pc \in {"drop", "dropped", "prune", "copy"} /\ old # None =>
        Released(old.bios) /\ Paired(old.bios, cache)

LimineHashed == pc \notin {"idle", "build"} => Released(bios)

LimineWritten ==
    /\ pc = "stages" /\ bios = root.limine => cache["sys"] = root.limine
    /\ pc \in {"flush", "stamp", "commit"} => Paired(bios, cache)
    /\ pc \in {"stamp", "commit"} => Paired(bios, disk)

LimineInv == LimineStamped /\ LimineRead /\ LimineHashed /\ LimineWritten

\* A step that touches neither the root nor the cells of Limine and the stamp.
LimineSame ==
    /\ root' = root /\ bios' = bios /\ old' = old
    /\ \A c \in Special : cache'[c] = cache[c] /\ disk'[c] = disk[c]

\* What the run has to do with Limine.
LEMMA LimineRun ==
    ASSUME BiosBoot, IInv, LimineInv,
           \/ HashBiosSys \/ BeginUpdate(ReadStamp(cache)) \/ CopyDone
           \/ CopyBiosSys \/ InstallStages \/ WriteStamp
    PROVE  LimineInv'
<1>0. disk' = disk /\ root' = root
  BY DEF HashBiosSys, BeginUpdate, CopyDone, CopyBiosSys, InstallStages, WriteStamp, env
<1>1. root.limine \in Build /\ Build \subseteq Nat
  BY RootShape, ConstantsAssumption DEF IInv, TypeOK
<1>2. CASE HashBiosSys
  <2>1. cache' = cache /\ pc' = "read" /\ bios' = root.limine
    BY <1>2 DEF HashBiosSys
  <2>2. \A b \in Build : b <= b
    <3>1. \A n \in Nat : n <= n
      OBVIOUS
    <3> QED BY <1>1, <3>1
  <2>3. LimineHashed'
    BY <1>0, <1>1, <2>1, <2>2 DEF LimineHashed, Released
  <2> QED BY <1>0, <2>1, <2>3
     DEF LimineInv, LimineStamped, LimineRead, LimineWritten, Released, Paired
<1>3. CASE BeginUpdate(ReadStamp(cache))
  <2>1. pc = "read" /\ pc' \in {"drop", "copy"} /\ cache' = cache /\ bios' = bios
    BY <1>3 DEF BeginUpdate, env
  <2>2. old' = ReadStamp(cache)
    BY <1>3 DEF BeginUpdate
  <2>3. LimineRead'
    BY <1>0, <2>1, <2>2
       DEF LimineInv, LimineStamped, LimineRead, Released, Paired, ReadStamp, Usable
  <2> QED BY <1>0, <2>1, <2>3
     DEF LimineInv, LimineStamped, LimineHashed, LimineWritten, Released, Paired
<1>4. CASE CopyDone
  <2>1. /\ pc = "copy" /\ cache' = cache /\ bios' = bios /\ old' = old
        /\ pc' = IF PairedBiosSys # bios THEN "sys" ELSE "flush"
    BY <1>4 DEF CopyDone, env, locals
  <2>2. Released(bios) /\ bios # None
    BY <2>1, MarksApart DEF LimineInv, LimineHashed, Released
  <2>3. PairedBiosSys = bios => Paired(bios, cache)
    BY <2>1, <2>2 DEF LimineInv, LimineRead, PairedBiosSys
  <2> QED BY <1>0, <2>1, <2>2, <2>3
     DEF LimineInv, LimineStamped, LimineRead, LimineHashed, LimineWritten, Released, Paired
<1>5. CASE CopyBiosSys \/ InstallStages
  <2>1. /\ (pc = "sys" /\ pc' = "stages") \/ (pc = "stages" /\ pc' = "flush")
        /\ bios' = bios
    BY <1>5 DEF CopyBiosSys, InstallStages, locals
  <2>2. ~Usable(cache) /\ ~Usable(disk)
    BY <2>1 DEF IInv, NoStampWhileRewriting, Rewriting
  <2>3. /\ cache'["stamp"] = cache["stamp"]
        /\ pc = "sys" => cache'["sys"] = root.limine
        /\ pc = "stages" => cache'["sys"] = cache["sys"] /\ cache'["stages"] = root.limine
    <3>1. IsVolume(cache) /\ root.limine \in Slot("sys") /\ root.limine \in Slot("stages")
      BY <1>1, SlotsOf DEF IInv, TypeOK
    <3>2. ASSUME CopyBiosSys
          PROVE  /\ pc = "sys" /\ cache'["sys"] = root.limine
                 /\ cache'["stamp"] = cache["stamp"]
      BY <3>1, <3>2, VolumeExcept, CellsApart DEF CopyBiosSys
    <3>3. ASSUME InstallStages
          PROVE  /\ pc = "stages" /\ cache'["stages"] = root.limine
                 /\ cache'["stamp"] = cache["stamp"] /\ cache'["sys"] = cache["sys"]
      BY <3>1, <3>3, VolumeExcept, CellsApart DEF InstallStages
    <3> QED BY <1>5, <3>2, <3>3
  <2>4. LimineStamped'
    BY <1>0, <2>2, <2>3 DEF LimineStamped, Usable
  <2> QED BY <1>0, <2>1, <2>3, <2>4
     DEF LimineInv, LimineRead, LimineHashed, LimineWritten, Released, Paired
<1>6. CASE WriteStamp
  <2>1. pc = "stamp" /\ pc' = "commit" /\ bios' = bios
    BY <1>6 DEF WriteStamp, locals
  <2>2. Manifest \in Slot("stamp") /\ Manifest \in Stamp
    BY StampOrMark, SlotsOf DEF IInv
  <2>3. /\ cache'["stamp"] = Manifest
        /\ cache'["sys"] = cache["sys"] /\ cache'["stages"] = cache["stages"]
    BY <1>6, <2>2, VolumeExcept, CellsApart DEF WriteStamp, IInv, TypeOK, Manifest
  <2>4. disk["stamp"] \notin Stamp
    BY <2>1 DEF IInv, NoStampWhileRewriting, Rewriting, Usable
  <2>5. Manifest.bios = bios
    BY DEF Manifest
  <2>6. LimineStamped'
    BY <1>0, <2>1, <2>3, <2>4, <2>5
       DEF LimineInv, LimineStamped, LimineHashed, LimineWritten, Released, Paired
  <2> QED BY <1>0, <2>1, <2>3, <2>6
     DEF LimineInv, LimineRead, LimineHashed, LimineWritten, Released, Paired
<1> QED BY <1>2, <1>3, <1>4, <1>5, <1>6

\* Upgrades only move Limine forward, so a stamp falls behind and stays there.
LEMMA LimineUpgrade ==
    ASSUME MidRunUpgrades, IInv, LimineInv, NEW r \in Root, Upgrade(r)
    PROVE  LimineInv'
<1>1. /\ root.limine \in Nat /\ r.limine \in Nat /\ Build \subseteq Nat
      /\ root.limine <= r.limine /\ root' = r
      /\ cache' = cache /\ disk' = disk /\ bios' = bios /\ old' = old /\ pc' = pc
  BY RootShape, ConstantsAssumption DEF Upgrade, locals, IInv, TypeOK
<1>2. \A b : Released(b) => Released(b)' /\ (b = r.limine => b = root.limine)
  BY <1>1 DEF Released
<1>3. \A b, v : Released(b) /\ Paired(b, v) => (b = r.limine => v["sys"] = r.limine /\ v["stages"] = r.limine)
  BY <1>2 DEF Paired
<1>4. LimineStamped'
  BY <1>1, <1>2, <1>3 DEF LimineInv, LimineStamped, Paired, Released
<1>5. LimineRead'
  BY <1>1, <1>2, <1>3 DEF LimineInv, LimineRead, Paired, Released
<1>6. LimineHashed'
  BY <1>1, <1>2 DEF LimineInv, LimineHashed, Released
<1>7. LimineWritten'
  <2>1. pc \notin {"idle", "build"} => Released(bios)
    BY DEF LimineInv, LimineHashed
  <2> QED BY <1>1, <1>2, <1>3, <2>1 DEF LimineInv, LimineWritten, Paired
<1> QED BY <1>4, <1>5, <1>6, <1>7 DEF LimineInv

\* The removal of the stamp, the syncs, and what ends the process.
LEMMA LimineSync ==
    ASSUME IInv, LimineInv,
           \/ DropStamp \/ SyncDrop \/ Flush \/ Commit
           \/ ReportUpToDate \/ Stop \/ PowerLoss
    PROVE  LimineInv'
<1>0. root' = root
  BY DEF DropStamp, SyncDrop, Flush, Commit, ReportUpToDate, Stop, PowerLoss, env
<1>1. CASE DropStamp
  <2>1. pc = "drop" /\ pc' = "dropped" /\ disk' = disk /\ bios' = bios /\ old' = old
    BY <1>1 DEF DropStamp, env, locals
  <2>2. /\ cache'["stamp"] = None
        /\ cache'["sys"] = cache["sys"] /\ cache'["stages"] = cache["stages"]
    BY <1>1, VolumeExcept, Marks, CellsApart DEF DropStamp, IInv, TypeOK
  <2>3. disk["stamp"] \in Stamp =>
           /\ Released(disk["stamp"].bios)
           /\ Paired(disk["stamp"].bios, cache) /\ Paired(disk["stamp"].bios, disk)
    BY DEF LimineInv, LimineStamped
  <2>4. LimineStamped'
    BY <1>0, <2>1, <2>2, <2>3, MarksApart DEF LimineStamped, Released, Paired
  <2> QED BY <1>0, <2>1, <2>2, <2>4
     DEF LimineInv, LimineRead, LimineHashed, LimineWritten, Released, Paired
<1>2. CASE SyncDrop \/ Flush
  <2>1. /\ (pc = "dropped" /\ pc' = "prune") \/ (pc = "flush" /\ pc' = "stamp")
        /\ disk' = cache /\ cache' = cache /\ bios' = bios /\ old' = old
    BY <1>2 DEF SyncDrop, Flush, locals
  <2>2. cache["stamp"] \notin Stamp
    BY <2>1 DEF IInv, NoStampWhileRewriting, Rewriting, Usable
  <2>3. LimineStamped'
    BY <2>1, <2>2 DEF LimineStamped
  <2> QED BY <1>0, <2>1, <2>3
     DEF LimineInv, LimineRead, LimineHashed, LimineWritten, Released, Paired
<1>3. CASE Commit \/ ReportUpToDate \/ PowerLoss \/ (Stop /\ cache' = cache)
  <2>1. /\ pc' = "idle"
        /\ cache' \in {cache, disk} /\ disk' \in {cache, disk}
    BY <1>3 DEF Commit, ReportUpToDate, PowerLoss, Stop, Exit, env
  <2>2. LimineStamped'
    BY <1>0, <2>1 DEF LimineInv, LimineStamped, Released, Paired
  <2> QED BY <2>1, <2>2 DEF LimineInv, LimineRead, LimineHashed, LimineWritten
<1>4. CASE Stop /\ cache' # cache
  <2>1. pc' = "idle" /\ disk' = disk
    BY <1>4 DEF Stop, Exit, env
  <2>2. pc \in Rewriting
    BY <1>4 DEF Stop, Writing, Special, Rewriting
  <2>3. cache["stamp"] \notin Stamp /\ disk["stamp"] \notin Stamp
    BY <2>2 DEF IInv, NoStampWhileRewriting, Usable
  <2>4. PICK c \in Writing : cache' = [cache EXCEPT ![c] = Torn]
    BY <1>4 DEF Stop
  <2>5. c \in Cell
    BY DEF Writing, IInv, TypeOK, Cell
  <2>6. cache'["stamp"] \in {cache["stamp"], Torn}
    BY <2>4, <2>5, VolumeExcept, Marks, CellsApart DEF IInv, TypeOK
  <2>7. LimineStamped'
    BY <2>1, <2>3, <2>6, MarksApart DEF LimineStamped
  <2> QED BY <2>1, <2>7 DEF LimineInv, LimineRead, LimineHashed, LimineWritten
<1> QED BY <1>1, <1>2, <1>3, <1>4

\* The system writes one cell back.
LEMMA LimineWriteBack ==
    ASSUME IInv, LimineInv, NEW c \in Cell, WriteBack(c)
    PROVE  LimineInv'
<1>1. /\ root' = root /\ cache' = cache /\ pc' = pc /\ bios' = bios /\ old' = old
  BY DEF WriteBack, locals
<1>2. /\ cache[c] # disk[c] /\ disk'[c] \in {cache[c], Torn}
      /\ \A d \in Cell \ {c} : disk'[d] = disk[d]
  <2>1. cache[c] \in Slot(c) /\ Torn \in Slot(c)
    BY Marks DEF IInv, TypeOK, IsVolume
  <2>2. PICK x \in {cache[c], Torn} : disk' = [disk EXCEPT ![c] = x]
    BY DEF WriteBack
  <2>3. disk'[c] = x /\ \A d \in Cell \ {c} : disk'[d] = disk[d]
    BY <2>1, <2>2, VolumeExcept DEF IInv, TypeOK
  <2> QED BY <2>3 DEF WriteBack
<1>3. ASSUME NEW b, Paired(b, cache), Paired(b, disk) PROVE Paired(b, disk)'
  BY <1>1, <1>2, <1>3, CellsApart DEF Paired
<1>4. disk'["stamp"] \in {cache["stamp"], disk["stamp"], Torn}
  BY <1>2, CellsApart
<1>5. LimineStamped'
  BY <1>1, <1>3, <1>4, MarksApart DEF LimineInv, LimineStamped, Released, Paired
<1>6. LimineWritten'
  BY <1>1, <1>3 DEF LimineInv, LimineWritten, Paired
<1> QED BY <1>1, <1>5, <1>6 DEF LimineInv, LimineRead, LimineHashed, Released, Paired

\* Everything else leaves Limine and the stamp alone.
LEMMA LimineElsewhere ==
    ASSUME IInv, LimineInv,
           \/ \E f \in BOOLEAN : Start(f)
           \/ \E p \in Path : BuildFile(p) \/ PruneFile(p) \/ CopyFile(p) \/ ShareEsp(p)
           \/ PruneDone
    PROVE  LimineInv'
<1>1. CASE \E f \in BOOLEAN : Start(f)
  <2>1. pc' = "build" /\ root' = root /\ cache' = cache /\ disk' = disk
    BY <1>1 DEF Start, env
  <2> QED BY <2>1
     DEF LimineInv, LimineStamped, LimineRead, LimineHashed, LimineWritten, Released, Paired
<1>2. ASSUME NEW p \in Path, BuildFile(p) \/ PruneFile(p) \/ CopyFile(p) \/ ShareEsp(p)
      PROVE  LimineSame
  <2>1. root' = root /\ bios' = bios /\ old' = old /\ disk' = disk
    BY <1>2 DEF BuildFile, PruneFile, CopyFile, ShareEsp, env, locals
  <2>2. files[p] \in Slot(p) /\ None \in Slot(p) /\ Other \in Slot(p)
    BY SlotsOf DEF IInv, TypeOK, Tree
  <2>3. cache' = cache \/ \E x \in Slot(p) : cache' = [cache EXCEPT ![p] = x]
    BY <1>2, <2>2 DEF BuildFile, PruneFile, CopyFile, ShareEsp
  <2>4. IsVolume(cache) /\ p \in Cell
    BY CellsApart DEF IInv, TypeOK
  <2>5. \A c \in Cell \ {p} : cache'[c] = cache[c]
    <3>1. ASSUME NEW x \in Slot(p), cache' = [cache EXCEPT ![p] = x]
          PROVE  \A c \in Cell \ {p} : cache'[c] = cache[c]
      BY <2>4, <3>1, VolumeExcept
    <3> QED BY <2>3, <3>1
  <2> QED BY <2>1, <2>5, MarksApart DEF LimineSame, Cell
<1>3. CASE \/ \E p \in Path : BuildFile(p) \/ PruneFile(p) \/ CopyFile(p) \/ ShareEsp(p)
           \/ PruneDone
  <2>1. LimineSame
    BY <1>2, <1>3 DEF LimineSame, PruneDone, env, locals
  <2>2. pc' = pc \/ (pc = "prune" /\ pc' = "copy")
    BY <1>3 DEF BuildFile, PruneFile, CopyFile, ShareEsp, PruneDone, env, locals
  <2> QED BY <2>1, <2>2
     DEF LimineSame, Special, LimineInv, LimineStamped, LimineRead, LimineHashed,
         LimineWritten, Released, Paired
<1> QED BY <1>1, <1>3

LEMMA LimineStep ==
    ASSUME SafeWindow, MidRunUpgrades, BiosBoot, IInv, LimineInv, [Next]_vars
    PROVE  LimineInv'
<1>1. CASE UNCHANGED vars
  BY <1>1 DEF vars, LimineInv, LimineStamped, LimineRead, LimineHashed, LimineWritten,
     Released, Paired
<1>2. CASE \/ HashBiosSys \/ BeginUpdate(ReadStamp(cache)) \/ CopyDone
           \/ CopyBiosSys \/ InstallStages \/ WriteStamp
  BY <1>2, LimineRun
<1>3. CASE \E r \in Root : Upgrade(r)
  BY <1>3, LimineUpgrade
<1>4. CASE \/ DropStamp \/ SyncDrop \/ Flush \/ Commit
           \/ ReportUpToDate \/ Stop \/ PowerLoss
  BY <1>4, LimineSync
<1>5. CASE \E c \in Cell : WriteBack(c)
  BY <1>5, LimineWriteBack
<1>6. CASE \/ \E f \in BOOLEAN : Start(f)
           \/ \E p \in Path : BuildFile(p) \/ PruneFile(p) \/ CopyFile(p) \/ ShareEsp(p)
           \/ PruneDone
  BY <1>6, LimineElsewhere
<1>7. ~MisreadStamp
  BY DEF MisreadStamp, SafeWindow
<1> QED BY <1>1, <1>2, <1>3, <1>4, <1>5, <1>6, <1>7 DEF Next, Step, Disturbance

\* If Limine only moves forward, then a stamp of the root's own build, seen or
\* kept, never hides stages or a limine-bios.sys of another build, although
\* the build is hashed, copied and installed at three moments (lines 346, 388 and
\* 391) and the root may be upgraded between any two of them.
THEOREM StaleBiosIsNoticed == ASSUME SafeWindow PROVE Spec => []StaleBiosNoticed
<1>1. CASE MidRunUpgrades /\ BiosBoot
  <2>1. Init => LimineInv
    BY MarksApart DEF Init, LimineInv, LimineStamped, LimineRead, LimineHashed,
       LimineWritten, Special
  <2>2. IInv /\ LimineInv /\ [Next]_vars => LimineInv'
    BY <1>1, LimineStep
  <2>3. LimineInv => StaleBiosNoticed
    BY DEF LimineInv, LimineStamped, Paired, StaleBiosNoticed, Usable
  <2> QED BY <2>1, <2>2, <2>3, InvAlways, PTL DEF Spec
<1>2. CASE ~(MidRunUpgrades /\ BiosBoot)
  <2>1. StaleBiosNoticed
    BY <1>2 DEF StaleBiosNoticed
  <2> QED BY <2>1, PTL
<1> QED BY <1>1, <1>2

-----------------------------------------------------------------------------
(* update-esp implements StampProtocol. *)

\* The abstract module's Describes is the promise of a stamp.
LEMMA PromisedIsDescribed ==
    ASSUME NEW stamp, NEW v, Promised(stamp, v)
    PROVE  \A i \in Cell \ {"stamp"} :
              ClaimOf(stamp)[i] # None => Without(v)[i] = ClaimOf(stamp)[i]
BY DEF Promised, Without

\* Whatever is written to the disk, claimed cells stay what they are.
LEMMA DiskSteps ==
    ASSUME IInv, Next, disk' # disk
    PROVE  /\ disk'["stamp"] \in {disk["stamp"], cache["stamp"], Torn}
           /\ \A i \in Cell \ {"stamp"} : cache[i] = disk[i] => disk'[i] = disk[i]
<1>1. CASE disk' = cache
  BY <1>1
<1>2. ASSUME NEW c \in Cell, WriteBack(c)
      PROVE  /\ disk'["stamp"] \in {disk["stamp"], cache["stamp"], Torn}
             /\ \A i \in Cell \ {"stamp"} : cache[i] = disk[i] => disk'[i] = disk[i]
  <2>1. cache[c] \in Slot(c) /\ Torn \in Slot(c)
    BY Marks DEF IInv, TypeOK, IsVolume
  <2>2. PICK x \in {cache[c], Torn} : disk' = [disk EXCEPT ![c] = x]
    BY <1>2 DEF WriteBack
  <2>3. disk'[c] = x /\ \A d \in Cell \ {c} : disk'[d] = disk[d]
    BY <2>1, <2>2, VolumeExcept DEF IInv, TypeOK
  <2> QED BY <1>2, <2>3, CellsApart DEF WriteBack
<1>3. disk' = cache \/ \E c \in Cell : WriteBack(c)
  BY DEF Next, Step, Disturbance, Start, BuildFile, PruneFile, CopyFile, HashBiosSys,
     ReportUpToDate, BeginUpdate, DropStamp, SyncDrop, PruneDone, CopyDone, CopyBiosSys,
     InstallStages, Flush, WriteStamp, Commit, Stop, MisreadStamp, PowerLoss, Upgrade,
     ShareEsp, env
<1> QED BY <1>1, <1>2, <1>3

LEMMA KeptStep ==
    ASSUME IInv, IInv', [Next]_vars
    PROVE  [Kept!Next]_<<Claim(disk), Without(disk)>>
<1>1. CASE disk' = disk
  BY <1>1 DEF Claim, Without, Usable
<1>2. CASE disk' # disk
  <2>0. Next
    BY <1>2 DEF vars
  <2>1. /\ disk'["stamp"] \in {disk["stamp"], cache["stamp"], Torn}
        /\ \A i \in Cell \ {"stamp"} : cache[i] = disk[i] => disk'[i] = disk[i]
    BY <1>2, <2>0, DiskSteps
  <2> DEFINE Same(stamp) == \A i \in Cell \ {"stamp"} :
                               ClaimOf(stamp)[i] # None => Without(disk')[i] = Without(disk)[i]
  <2>2. ASSUME NEW stamp, Promised(stamp, cache), Promised(stamp, disk) PROVE Same(stamp)
    BY <2>1, <2>2 DEF Promised, Without
  <2>3. Usable(disk) => /\ Same(disk["stamp"])
                        /\ Claim(disk) = ClaimOf(disk["stamp"])
    BY <2>2 DEF IInv, StampsPinned, Usable, Claim
  <2>4. ~Usable(disk) => Claim(disk) = None
    BY DEF Claim
  <2>5. CASE ~Usable(disk')
    <3>1. Claim(disk') = None
      BY <2>5 DEF Claim
    <3>2. \A i \in Cell \ {"stamp"} : Claim(disk) # None /\ Claim(disk)[i] # None =>
                                        Without(disk')[i] = Without(disk)[i]
      BY <2>3, <2>4
    <3>3. Kept!Withdraw
      BY <3>1, <3>2 DEF Kept!Withdraw, Kept!Keeps, Kept!Covered
    <3> QED BY <3>3 DEF Kept!Next
  <2>6. CASE Usable(disk') /\ Usable(disk)
    <3>1. disk'["stamp"] = disk["stamp"]
      BY <2>1, <2>6, MarksApart DEF IInv, KeptIsSeen, NoStampWhileRewriting, Usable
    <3>2. Claim(disk') = Claim(disk)
      BY <2>6, <3>1 DEF Claim
    <3>3. \A i \in Cell \ {"stamp"} : Claim(disk)[i] # None =>
                                        Without(disk')[i] = Without(disk)[i]
      BY <2>3, <2>6
    <3>4. Kept!Disturb
      BY <3>2, <3>3 DEF Kept!Disturb, Kept!Keeps, Kept!Covered
    <3> QED BY <3>4 DEF Kept!Next
  <2>7. CASE Usable(disk') /\ ~Usable(disk)
    <3>1. disk'["stamp"] = cache["stamp"] /\ cache["stamp"] \in Stamp
      BY <2>1, <2>7, MarksApart DEF Usable
    <3>2. Same(cache["stamp"]) /\ Promised(cache["stamp"], disk)
      BY <2>2, <3>1 DEF IInv, StampsPinned
    <3>3. Claim(disk') = ClaimOf(cache["stamp"])
      BY <2>7, <3>1 DEF Claim
    <3>4. Kept!Claim
      BY <2>4, <2>7, <3>2, <3>3, PromisedIsDescribed
         DEF Kept!Claim, Kept!Describes, Kept!Keeps, Kept!Covered
    <3> QED BY <3>4 DEF Kept!Next
  <2> QED BY <2>5, <2>6, <2>7
<1> QED BY <1>1, <1>2

\* On the disk, a stamp is withdrawn before anything that it lists changes and
\* put down only over what it lists, so every power loss leaves it true.
THEOREM DurableImplementation == ASSUME SafeWindow PROVE Spec => DurableStampProtocol
<1>1. Init => Kept!Init
  BY MarksApart DEF Init, Kept!Init, Claim, Usable, Special
<1>2. IInv /\ IInv' /\ [Next]_vars => [Kept!Next]_<<Claim(disk), Without(disk)>>
  BY KeptStep
<1>3. Spec => []IInv
  BY InvAlways
<1> QED BY <1>1, <1>2, <1>3, PTL DEF Spec, DurableStampProtocol, Kept!Spec

=============================================================================
