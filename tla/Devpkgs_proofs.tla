--------------------------- MODULE Devpkgs_proofs ---------------------------
(* Proofs about Devpkgs, for all packages, builds and repositories.           *)
EXTENDS Devpkgs, TLAPS

-----------------------------------------------------------------------------
(* The inductive invariant. *)

Drops == {"drop", "all"}

\* Which steps a call goes through, and what its locals hold outside of the steps
\* that use them.
CallOK ==
    /\ pc \in {"clean", "index", "fetch", "rindex", "unlink"} => cmd.op = "use"
    /\ pc \in {"check", "missing", "unlock"} => cmd.op \in Drops
    /\ pc # "idle" => cmd.op # "none" /\ result = "none"
    /\ pc = "check" /\ cmd.op = "all" => cmd.pkgs = {}
    /\ pc \notin {"fetch", "install"} => todo = {}
    /\ failed => pc \in {"query", "lock"}

\* A development build is repolocked, or a call that is about it is to set the
\* repolock, or one was cut short before it did.
LockedOrExposed == \A p \in Dev : pkg[p].lock \/ p \in risk \cup Exposed

\* What a use has achieved.
UseOnTrack ==
    cmd.op = "use" =>
        /\ pc \in {"index", "fetch", "rindex", "begin", "install"} =>
            \A p \in Package \ cmd.pkgs : repo[p] = None
        /\ pc \in {"fetch", "rindex", "begin", "install"} =>
            \A p \in cmd.pkgs : repo[p] = index[p] \/ (pc = "fetch" /\ p \in todo)
        /\ pc \in {"fetch", "install"} => todo \subseteq cmd.pkgs
        /\ pc \in {"install", "query", "lock", "unlink"} /\ ~failed =>
            \A p \in cmd.pkgs \ todo : p \in Dev => pkg[p].build = index[p]
        /\ pc = "lock" => Dev \subseteq dev

\* What a drop has achieved.
DropOnTrack ==
    cmd.op \in Drops =>
        /\ pc \in {"begin", "install", "query", "lock"} => \A p \in cmd.pkgs : ~pkg[p].lock
        /\ pc = "install" => \A p \in todo : p \in Dev => ~pkg[p].lock
        /\ pc \in {"install", "query", "lock"} /\ ~failed => (cmd.pkgs \ todo) \cap Dev = {}
        /\ pc = "lock" => cmd.pkgs \cap Dev \subseteq dev
        /\ pc = "lock" /\ ~failed => cmd.pkgs \cap dev = {}

IInv ==
    /\ TypeOK
    /\ CallOK
    /\ LockedOrExposed
    /\ UseOnTrack
    /\ DropOnTrack
    /\ UseIsComplete
    /\ DropIsComplete

-----------------------------------------------------------------------------
(* Types *)

\* What xbps-pkgdb leaves: the builds, and the repolocks of other packages.
LEMMA RepolockSet ==
    ASSUME NEW pkgs, NEW lock \in BOOLEAN,
           pkg \in [Package -> Entry], SetRepolock(pkgs, lock)
    PROVE  /\ pkg' \in [Package -> Entry]
           /\ \A p \in Package :
                /\ pkg'[p].build = pkg[p].build
                /\ pkg'[p].lock = IF p \in pkgs THEN lock ELSE pkg[p].lock
           /\ Dev' = Dev
BY DEF SetRepolock, Entry, Dev

LEMMA TypeStep ==
    ASSUME TypeOK, [Next]_vars
    PROVE  TypeOK'
<1> USE ConstantsAssumption DEF TypeOK
<1>0. CASE UNCHANGED vars
  BY <1>0 DEF vars
<1>1. CASE Start
  BY <1>1 DEF Start, Use, Drop, DropAll, Call, machine, store, Step
<1>2. ASSUME NEW p \in Package, FetchPackage(p) \/ NotServed(p) \/ InstallPackage(p)
      PROVE  TypeOK'
  <2>1. CASE FetchPackage(p)
    BY <2>1 DEF FetchPackage, Go, machine, Served, Available, Step
  <2>2. CASE NotServed(p)
    BY <2>2 DEF NotServed, Exit, machine, Served, Nothing, NoCall
  <2>3. CASE InstallPackage(p)
    <3>1. Offers(p) \in Build \cup {Upstream, None}
      BY DEF Offers, Served
    <3>2. pkg' \in [Package -> Entry]
      BY <2>3, <3>1 DEF InstallPackage, Entry
    <3> QED BY <2>3, <3>2 DEF InstallPackage, Go, machine, store, Step
  <2> QED BY <1>2, <2>1, <2>2, <2>3
<1>3. CASE CleanDirs \/ FetchIndex \/ FetchDone \/ AddToIndex \/ FindDev \/ AllUpstream
  BY <1>3 DEF CleanDirs, FetchIndex, FetchDone, AddToIndex, FindDev, AllUpstream, Go,
              machine, store, Served, Nothing, Step, Dev
<1>4. CASE NothingToDrop \/ UnknownPackage \/ NotUpstream \/ UnlinkFiles \/ FailQuietly \/ Kill
  <2>1. index' = Nothing /\ pc' = "idle" /\ cmd' \in {cmd, NoCall} /\ todo' = {} /\ dev' = {}
        /\ failed' = FALSE /\ result' \in {"ok", "failed", "killed"} /\ UNCHANGED <<machine, pkg>>
    BY <1>4 DEF NothingToDrop, UnknownPackage, NotUpstream, UnlinkFiles, FailQuietly, Kill, Exit
  <2>2. repo' \in Served /\ risk' \subseteq Package
    BY <1>4 DEF NothingToDrop, UnknownPackage, NotUpstream, UnlinkFiles, FailQuietly, Kill,
                Served, Exposed
  <2>3. index' \in Served /\ cmd' \in [op : {"none", "use", "drop", "all"}, pkgs : SUBSET Package]
    BY <2>1 DEF Served, Nothing, NoCall
  <2> QED BY <2>1, <2>2, <2>3 DEF machine
<1>5. CASE Unlock \/ CannotUnlock \/ Lock \/ CannotLock \/ FailLocking
  <2>1. pkg' \in [Package -> Entry]
    BY <1>5, RepolockSet DEF Unlock, CannotUnlock, Lock, CannotLock, FailLocking
  <2>2. index' \in Served /\ cmd' \in [op : {"none", "use", "drop", "all"}, pkgs : SUBSET Package]
    <3>1. index' \in {index, Nothing} /\ cmd' \in {cmd, NoCall}
      BY <1>5 DEF Unlock, CannotUnlock, Lock, CannotLock, FailLocking, Go, Exit, store
    <3> QED BY <3>1 DEF Served, Nothing, NoCall
  <2>3. repo' \in Served /\ risk' \subseteq Package /\ remote' \in Served /\ upstream' \subseteq Package
    BY <1>5 DEF Unlock, CannotUnlock, Lock, CannotLock, FailLocking, Go, Exit, store, machine
  <2>4. pc' \in Step \cup {"idle"} /\ todo' \subseteq Package /\ dev' \subseteq Package
        /\ failed' \in BOOLEAN /\ result' \in {"none", "ok", "failed", "killed"}
    BY <1>5 DEF Unlock, CannotUnlock, Lock, CannotLock, FailLocking, Go, Exit, Step
  <2> QED BY <2>1, <2>2, <2>3, <2>4
<1>6. CASE Begin \/ CannotBegin \/ InstallDone \/ QueryDev \/ FailInstall
  BY <1>6 DEF Begin, CannotBegin, InstallDone, QueryDev, FailInstall, Go, machine, store, Step,
              Dev, Installed
<1>7. ASSUME NEW p \in Package, Upgrade(p) \/ Remove(p) \/ Rebuild(p) \/ Publish(p)
      PROVE  TypeOK'
  <2>1. pkg' \in [Package -> Entry]
    <3>1. CASE Upgrade(p)
      BY <3>1 DEF Upgrade, Entry
    <3>2. CASE Remove(p)
      BY <3>2 DEF Remove, Entry
    <3>3. CASE Rebuild(p) \/ Publish(p)
      BY <3>3 DEF Rebuild, Publish
    <3> QED BY <1>7, <3>1, <3>2, <3>3
  <2>2. remote' \in Served /\ upstream' \subseteq Package
    BY <1>7 DEF Upgrade, Remove, Rebuild, Publish, machine, Served
  <2>3. UNCHANGED <<index, repo, pc, cmd, todo, dev, failed, result, risk>>
    BY <1>7 DEF Upgrade, Remove, Rebuild, Publish, store
  <2> QED BY <2>1, <2>2, <2>3
<1> QED BY <1>0, <1>1, <1>2, <1>3, <1>4, <1>5, <1>6, <1>7 DEF Next, Run, Trouble

-----------------------------------------------------------------------------
(* The steps keep the invariant. *)

LEMMA CallStep ==
    ASSUME IInv, Next
    PROVE  CallOK'
<1> USE DEF CallOK
<1>0. CallOK /\ TypeOK
  BY DEF IInv
<1>1. CASE Start
  BY <1>0, <1>1 DEF Start, Use, Drop, DropAll, Call, Drops
<1>2. ASSUME NEW p \in Package, FetchPackage(p) \/ NotServed(p) \/ InstallPackage(p)
      PROVE  CallOK'
  BY <1>0, <1>2 DEF FetchPackage, NotServed, InstallPackage, Go, Exit, NoCall, Drops
<1>3. CASE CleanDirs \/ FetchIndex \/ FetchDone \/ AddToIndex \/ AllUpstream \/ Begin
           \/ CannotBegin \/ InstallDone \/ QueryDev \/ FailInstall
  BY <1>0, <1>3 DEF CleanDirs, FetchIndex, FetchDone, AddToIndex, AllUpstream, Begin,
                    CannotBegin, InstallDone, QueryDev, FailInstall, Go, Drops, machine
<1>4. CASE FindDev
  BY <1>0, <1>4 DEF FindDev, Go, Drops, TypeOK
<1>5. CASE NothingToDrop \/ UnknownPackage \/ NotUpstream \/ UnlinkFiles \/ FailQuietly \/ Kill
           \/ CannotUnlock \/ CannotLock \/ FailLocking
  BY <1>0, <1>5 DEF NothingToDrop, UnknownPackage, NotUpstream, UnlinkFiles, FailQuietly, Kill,
                    CannotUnlock, CannotLock, FailLocking, Exit
<1>6. CASE Unlock
  BY <1>0, <1>6 DEF Unlock, Go
<1>7. CASE Lock
  BY <1>0, <1>7 DEF Lock, Go, Exit
<1>8. ASSUME NEW p \in Package, Upgrade(p) \/ Remove(p) \/ Rebuild(p) \/ Publish(p)
      PROVE  CallOK'
  BY <1>0, <1>8 DEF Upgrade, Remove, Rebuild, Publish
<1> QED BY <1>1, <1>2, <1>3, <1>4, <1>5, <1>6, <1>7, <1>8 DEF Next, Run, Trouble

\* Who changes where a package is from.
LEMMA BuildsChange ==
    ASSUME IInv, Next, NEW p \in Package
    PROVE  \/ pkg'[p].build = pkg[p].build
           \/ InstallPackage(p)
           \/ Upgrade(p)
           \/ Remove(p)
<1>0. TypeOK
  BY DEF IInv
<1>1. CASE UNCHANGED pkg
  BY <1>1
<1>2. CASE Unlock \/ CannotUnlock \/ Lock \/ CannotLock \/ FailLocking
  BY <1>0, <1>2, RepolockSet DEF Unlock, CannotUnlock, Lock, CannotLock, FailLocking, TypeOK
<1>3. ASSUME NEW q \in Package, InstallPackage(q) \/ Upgrade(q) \/ Remove(q), q # p
      PROVE  pkg'[p].build = pkg[p].build
  BY <1>0, <1>3 DEF InstallPackage, Upgrade, Remove, TypeOK, Entry
<1>4. ASSUME Start PROVE UNCHANGED pkg
  BY <1>4 DEF Start, Use, Drop, DropAll, Call
<1>5. ASSUME CleanDirs \/ FetchIndex \/ FetchDone \/ AddToIndex \/ FindDev \/ AllUpstream \/ Begin
             \/ CannotBegin \/ InstallDone \/ QueryDev \/ FailInstall
      PROVE  UNCHANGED pkg
  BY <1>5 DEF CleanDirs, FetchIndex, FetchDone, AddToIndex, FindDev, AllUpstream, Begin,
              CannotBegin, InstallDone, QueryDev, FailInstall
<1>6. ASSUME NothingToDrop \/ UnknownPackage \/ NotUpstream \/ UnlinkFiles \/ FailQuietly \/ Kill
      PROVE  UNCHANGED pkg
  BY <1>6 DEF NothingToDrop, UnknownPackage, NotUpstream, UnlinkFiles, FailQuietly, Kill
<1>7. ASSUME NEW q \in Package, FetchPackage(q) \/ NotServed(q) \/ Rebuild(q) \/ Publish(q)
      PROVE  UNCHANGED pkg
  BY <1>7 DEF FetchPackage, NotServed, Rebuild, Publish
<1> QED BY <1>1, <1>2, <1>3, <1>4, <1>5, <1>6, <1>7 DEF Next, Run, Trouble

LEMMA LockedStep ==
    ASSUME IInv, TypeOK', Next
    PROVE  LockedOrExposed'
<1> USE DEF LockedOrExposed
<1>0. TypeOK /\ CallOK /\ LockedOrExposed /\ UseOnTrack /\ DropOnTrack
  BY DEF IInv
<1>1. CASE Start
  BY <1>0, <1>1 DEF Start, Use, Drop, DropAll, Call, Exposed, Dev
<1>2. ASSUME NEW p \in Package, FetchPackage(p) \/ NotServed(p)
      PROVE  LockedOrExposed'
  BY <1>0, <1>2 DEF FetchPackage, NotServed, Go, Exit, Exposed, Dev
<1>3. CASE CleanDirs \/ FetchIndex \/ FetchDone \/ AddToIndex \/ FindDev \/ AllUpstream \/ Begin
           \/ CannotBegin \/ InstallDone \/ QueryDev \/ FailInstall
  <2>1. UNCHANGED <<pkg, risk>> /\ Exposed \subseteq Exposed'
    BY <1>0, <1>3 DEF CleanDirs, FetchIndex, FetchDone, AddToIndex, FindDev, AllUpstream, Begin,
                CannotBegin, InstallDone, QueryDev, FailInstall, Go, Exposed
  <2> QED BY <1>0, <2>1 DEF Dev
<1>4. CASE NothingToDrop \/ UnknownPackage \/ NotUpstream \/ UnlinkFiles \/ FailQuietly \/ Kill
  <2>1. pkg' = pkg /\ risk \cup Exposed \subseteq risk'
    BY <1>0, <1>4 DEF NothingToDrop, UnknownPackage, NotUpstream, UnlinkFiles, FailQuietly, Kill,
                Exposed
  <2> QED BY <1>0, <2>1 DEF Dev
<1>5. ASSUME NEW p \in Package, InstallPackage(p)
      PROVE  LockedOrExposed'
  <2>1. UNCHANGED <<risk, pc, cmd>> /\ p \in todo /\ pc = "install" /\ Exposed' = Exposed
    BY <1>5 DEF InstallPackage, Go, Exposed
  <2>2. \A q \in Dev' : q = p \/ (q \in Dev /\ pkg'[q] = pkg[q])
    BY <1>0, <1>5 DEF InstallPackage, Dev, TypeOK, Entry
  <2>3. p \in Dev' => p \in Exposed
    <3>1. CASE cmd.op = "use"
      BY <1>0, <2>1, <3>1 DEF UseOnTrack, Exposed
    <3>2. CASE cmd.op # "use"
      <4>1. pkg'[p].build \notin Build
        BY <1>0, <1>5, <3>2, ConstantsAssumption DEF InstallPackage, Offers, TypeOK, Entry
      <4> QED BY <4>1 DEF Dev
    <3> QED BY <3>1, <3>2
  <2> QED BY <1>0, <2>1, <2>2, <2>3
<1>6. CASE Unlock
  <2>1. SetRepolock(cmd.pkgs, FALSE) /\ risk' = risk /\ Exposed = {} /\ Exposed' = cmd.pkgs
    BY <1>0, <1>6 DEF Unlock, Go, Exposed, CallOK, Drops
  <2>2. Dev' = Dev /\ \A p \in Package : p \notin cmd.pkgs => pkg'[p].lock = pkg[p].lock
    BY <1>0, <2>1, RepolockSet DEF TypeOK
  <2> QED BY <1>0, <2>1, <2>2 DEF Dev
<1>7. CASE CannotUnlock \/ CannotLock \/ FailLocking
  <2>1. risk' = risk \cup cmd.pkgs /\ Exposed \subseteq cmd.pkgs
    BY <1>7 DEF CannotUnlock, CannotLock, FailLocking, Exposed
  <2>2. \A p \in Dev' : p \in Dev /\ (pkg'[p].lock \/ p \in cmd.pkgs \/ ~pkg[p].lock)
    <3>1. CASE UNCHANGED pkg
      BY <3>1 DEF Dev, TypeOK
    <3>2. ASSUME NEW done \in SUBSET cmd.pkgs, SetRepolock(done, FALSE)
          PROVE  \A p \in Dev' : p \in Dev /\ (pkg'[p].lock \/ p \in cmd.pkgs \/ ~pkg[p].lock)
      BY <1>0, <3>2, RepolockSet DEF TypeOK, Dev
    <3>3. ASSUME NEW done \in SUBSET ToLock, SetRepolock(done, TRUE)
          PROVE  \A p \in Dev' : p \in Dev /\ (pkg'[p].lock \/ p \in cmd.pkgs \/ ~pkg[p].lock)
      BY <1>0, <3>3, RepolockSet DEF TypeOK, Dev
    <3> QED BY <1>7, <3>1, <3>2, <3>3 DEF CannotUnlock, CannotLock, FailLocking
  <2> QED BY <1>0, <2>1, <2>2
<1>8. CASE Lock
  <2>1. /\ SetRepolock(ToLock, TRUE) /\ pc = "lock"
        /\ risk' = risk \ (IF cmd.op = "use" THEN Package ELSE cmd.pkgs)
        /\ Exposed = cmd.pkgs
    BY <1>8 DEF Lock, Exposed
  <2>2. Dev' = Dev /\ \A p \in Dev : pkg'[p].lock \/ (p \notin ToLock /\ ~pkg[p].lock)
    BY <1>0, <2>1, RepolockSet DEF TypeOK, Dev
  <2>3. CASE cmd.op = "use"
    BY <1>0, <2>1, <2>2, <2>3 DEF UseOnTrack, ToLock
  <2>4. CASE cmd.op \in Drops
    <3>1. cmd.pkgs \cap Dev \subseteq ToLock
      BY <1>0, <2>1, <2>4 DEF DropOnTrack, ToLock, Drops
    <3>2. risk' = risk \ cmd.pkgs
      BY <2>1, <2>4 DEF Drops
    <3> QED BY <1>0, <2>1, <2>2, <3>1, <3>2
  <2> QED BY <1>0, <2>1, <2>3, <2>4 DEF CallOK, TypeOK, Drops
<1>9. ASSUME NEW p \in Package, Upgrade(p) \/ Remove(p) \/ Rebuild(p) \/ Publish(p)
      PROVE  LockedOrExposed'
  <2>1. UNCHANGED <<risk, pc, cmd>> /\ Exposed' = Exposed
    BY <1>9 DEF Upgrade, Remove, Rebuild, Publish, Exposed
  <2>2. \A q \in Dev' : q \in Dev /\ pkg'[q] = pkg[q]
    BY <1>0, <1>9, ConstantsAssumption DEF Upgrade, Remove, Rebuild, Publish, Dev, TypeOK, Entry
  <2> QED BY <1>0, <2>1, <2>2
<1> QED BY <1>1, <1>2, <1>3, <1>4, <1>5, <1>6, <1>7, <1>8, <1>9 DEF Next, Run, Trouble

LEMMA UseStep ==
    ASSUME IInv, TypeOK', Next
    PROVE  UseOnTrack' /\ UseIsComplete'
<1> USE DEF UseOnTrack, UseIsComplete
<1>0. TypeOK /\ CallOK /\ LockedOrExposed /\ UseOnTrack /\ UseIsComplete
  BY DEF IInv
<1>1. CASE Start
  BY <1>0, <1>1 DEF Start, Use, Drop, DropAll, Call, Drops, CallOK
<1>2. CASE CleanDirs
  BY <1>0, <1>2 DEF CleanDirs, Go, CallOK, Nothing
<1>3. CASE FetchIndex
  BY <1>0, <1>3 DEF FetchIndex, Go, CallOK
<1>4. ASSUME NEW p \in Package, FetchPackage(p)
      PROVE  UseOnTrack' /\ UseIsComplete'
  <2>1. /\ pc = "fetch" /\ p \in todo /\ cmd.op = "use" /\ result = "none"
        /\ UNCHANGED <<index, pc, cmd, failed, result>> /\ todo' = todo \ {p}
    BY <1>0, <1>4 DEF FetchPackage, Go, CallOK
  <2>2. repo'[p] = index[p] /\ \A q \in Package : q # p => repo'[q] = repo[q]
    BY <1>0, <1>4 DEF FetchPackage, TypeOK, Served
  <2> QED BY <1>0, <2>1, <2>2 DEF TypeOK
<1>5. CASE FetchDone \/ AddToIndex
  BY <1>0, <1>5 DEF FetchDone, AddToIndex, Go, CallOK, store, Dev
<1>6. CASE FindDev \/ AllUpstream \/ Unlock
  BY <1>0, <1>6 DEF FindDev, AllUpstream, Unlock, Go, CallOK, Drops
<1>7. CASE Begin
  <2>1. cmd.op = "use" => todo' \subseteq cmd.pkgs /\ cmd.pkgs \subseteq todo'
    BY <1>0, <1>7 DEF Begin, Allowed, Offers, Go, Installed
  <2> QED BY <1>0, <1>7, <2>1 DEF Begin, Go, CallOK, store
<1>8. CASE CannotBegin \/ InstallDone \/ FailInstall
  BY <1>0, <1>8 DEF CannotBegin, InstallDone, FailInstall, Go, CallOK, store, Dev
<1>9. ASSUME NEW p \in Package, InstallPackage(p)
      PROVE  UseOnTrack' /\ UseIsComplete'
  <2>1. /\ pc = "install" /\ p \in todo /\ todo' = todo \ {p} /\ failed = FALSE /\ result = "none"
        /\ UNCHANGED <<index, repo, pc, cmd, failed, result>>
    BY <1>0, <1>9 DEF InstallPackage, Go, store, CallOK
  <2>2. /\ cmd.op = "use" => pkg'[p].build = repo[p]
        /\ \A q \in Package : q # p => pkg'[q] = pkg[q]
    BY <1>0, <1>9 DEF InstallPackage, Offers, TypeOK, Entry
  <2> QED BY <1>0, <2>1, <2>2 DEF Dev, TypeOK
<1>10. CASE QueryDev
  BY <1>0, <1>10 DEF QueryDev, Go, CallOK, store, Dev
<1>11. CASE Lock
  <2>1. CASE cmd.op = "use" /\ ~failed
    <3>1. /\ SetRepolock(dev, TRUE) /\ pc = "lock" /\ pc' = "unlink"
          /\ UNCHANGED <<index, cmd, todo, failed, result>>
      BY <1>0, <1>11, <2>1 DEF Lock, Go, ToLock
    <3>2. /\ Dev' = Dev /\ Dev \subseteq dev /\ Dev \subseteq Package
          /\ \A p \in Dev : pkg'[p].lock /\ pkg'[p].build = pkg[p].build
      BY <1>0, <2>1, <3>1, RepolockSet DEF TypeOK, Dev
    <3>3. todo = {} /\ result = "none" /\ \A p \in cmd.pkgs : p \in Dev => pkg[p].build = index[p]
      BY <1>0, <2>1, <3>1 DEF CallOK
    <3> QED BY <2>1, <3>1, <3>2, <3>3
  <2>2. CASE ~(cmd.op = "use" /\ ~failed)
    <3>1. pc' = "idle" /\ (result' = "failed" \/ cmd'.op # "use")
      BY <1>0, <1>11, <2>2 DEF Lock, Exit, TypeOK
    <3> QED BY <3>1
  <2> QED BY <2>1, <2>2
<1>12. CASE UnlinkFiles
  BY <1>0, <1>12 DEF UnlinkFiles, Exit, Dev
<1>13. CASE NothingToDrop \/ UnknownPackage \/ NotUpstream \/ FailQuietly \/ Kill
            \/ CannotUnlock \/ CannotLock \/ FailLocking
            \/ \E p \in Package : NotServed(p)
  <2>1. pc' = "idle" /\ (result' \in {"failed", "killed"} \/ cmd'.op = "all")
    BY <1>13 DEF NothingToDrop, UnknownPackage, NotUpstream, FailQuietly, Kill,
                 CannotUnlock, CannotLock, FailLocking, NotServed, Exit
  <2> QED BY <2>1
<1>14. ASSUME NEW p \in Package, Upgrade(p) \/ Remove(p) \/ Rebuild(p) \/ Publish(p)
      PROVE  UseOnTrack' /\ UseIsComplete'
  <2>1. UNCHANGED <<index, repo, pc, cmd, todo, dev, failed, result>>
    BY <1>14 DEF Upgrade, Remove, Rebuild, Publish, store
  <2>2. \A q \in Dev' : q \in Dev /\ pkg'[q] = pkg[q]
    BY <1>0, <1>14, ConstantsAssumption DEF Upgrade, Remove, Rebuild, Publish, Dev, TypeOK, Entry
  <2> QED BY <1>0, <2>1, <2>2 DEF TypeOK
<1> QED BY <1>1, <1>2, <1>3, <1>4, <1>5, <1>6, <1>7, <1>8, <1>9, <1>10, <1>11, <1>12, <1>13, <1>14
        DEF Next, Run, Trouble

LEMMA DropStep ==
    ASSUME IInv, TypeOK', Next
    PROVE  DropOnTrack' /\ DropIsComplete'
<1> USE DEF DropOnTrack, DropIsComplete, Drops
<1>0. TypeOK /\ CallOK /\ DropOnTrack /\ DropIsComplete
  BY DEF IInv
<1>1. CASE Start
  BY <1>0, <1>1 DEF Start, Use, Drop, DropAll, Call
<1>2. CASE CleanDirs \/ FetchIndex \/ FetchDone \/ AddToIndex \/ AllUpstream \/ CannotBegin
           \/ InstallDone \/ FailInstall
  BY <1>0, <1>2 DEF CleanDirs, FetchIndex, FetchDone, AddToIndex, AllUpstream, CannotBegin,
                    InstallDone, FailInstall, Go, CallOK, Dev
<1>3. ASSUME NEW p \in Package, FetchPackage(p)
      PROVE  DropOnTrack' /\ DropIsComplete'
  BY <1>0, <1>3 DEF FetchPackage, Go, CallOK
<1>4. CASE FindDev
  BY <1>0, <1>4 DEF FindDev, Go, CallOK
<1>5. CASE Unlock
  <2>1. /\ SetRepolock(cmd.pkgs, FALSE) /\ pc' = "begin" /\ result' = "none"
        /\ UNCHANGED cmd
    BY <1>0, <1>5 DEF Unlock, Go, CallOK
  <2>2. \A p \in cmd.pkgs : ~pkg'[p].lock
    BY <1>0, <2>1, RepolockSet DEF TypeOK
  <2> QED BY <2>1, <2>2
<1>6. CASE Begin
  <2>1. /\ pc = "begin" /\ pc' = "install" /\ cmd.pkgs \subseteq todo' /\ result' = "none"
        /\ \A p \in todo' : Allowed(p)
        /\ UNCHANGED <<pkg, cmd>>
    BY <1>0, <1>6 DEF Begin, Go, CallOK
  <2>2. cmd.op \in Drops => \A p \in todo' : p \in Dev => ~pkg[p].lock
    BY <1>0, <2>1 DEF Allowed, Dev
  <2> QED BY <1>0, <2>1, <2>2 DEF Dev
<1>7. ASSUME NEW p \in Package, InstallPackage(p)
      PROVE  DropOnTrack' /\ DropIsComplete'
  <2>1. /\ pc = "install" /\ p \in todo /\ todo' = todo \ {p} /\ result = "none"
        /\ UNCHANGED <<pc, cmd, failed, result>>
    BY <1>0, <1>7 DEF InstallPackage, Go, CallOK
  <2>2. /\ cmd.op \in Drops => pkg'[p].build \notin Build
        /\ \A q \in Package : pkg'[q].lock = pkg[q].lock
        /\ \A q \in Package : q # p => pkg'[q] = pkg[q]
    BY <1>0, <1>7, ConstantsAssumption DEF InstallPackage, Offers, TypeOK, Entry
  <2> QED BY <1>0, <2>1, <2>2 DEF Dev, TypeOK
<1>8. CASE QueryDev
  BY <1>0, <1>8 DEF QueryDev, Go, CallOK, Dev
<1>9. CASE Lock
  <2>1. CASE result' # "ok" \/ cmd'.op \notin Drops
    <3>1. pc' \in {"idle", "unlink"}
      BY <1>9 DEF Lock, Go, Exit
    <3> QED BY <2>1, <3>1
  <2>2. CASE result' = "ok" /\ cmd'.op \in Drops
    <3>0. /\ pc = "lock" /\ pc' = "idle" /\ cmd' = cmd /\ ~failed
          /\ cmd.op \in Drops /\ SetRepolock(ToLock, TRUE)
      BY <1>0, <1>9, <2>2 DEF Lock, Go, Exit, CallOK
    <3>1. ToLock = {} /\ todo = {}
      BY <1>0, <3>0 DEF ToLock, CallOK
    <3>2. Dev' = Dev /\ \A p \in Package : pkg'[p].lock = pkg[p].lock
      <4>1. Dev' = Dev /\ \A p \in Package : p \notin ToLock => pkg'[p].lock = pkg[p].lock
        BY <1>0, <3>0, RepolockSet DEF TypeOK
      <4> QED BY <3>1, <4>1
    <3>3. cmd.pkgs \subseteq Package /\ cmd.pkgs \cap Dev \subseteq dev /\ cmd.pkgs \cap dev = {}
          /\ \A p \in cmd.pkgs : ~pkg[p].lock
      BY <1>0, <3>0 DEF TypeOK
    <3> QED BY <3>0, <3>2, <3>3
  <2> QED BY <2>1, <2>2
<1>10. CASE NothingToDrop
  BY <1>0, <1>10 DEF NothingToDrop, Exit, CallOK
<1>11. CASE UnknownPackage \/ NotUpstream \/ FailQuietly \/ Kill \/ UnlinkFiles
            \/ CannotUnlock \/ CannotLock \/ FailLocking
            \/ \E p \in Package : NotServed(p)
  <2>1. pc' = "idle" /\ (result' \in {"failed", "killed"} \/ cmd'.op = "use")
    BY <1>0, <1>11 DEF UnknownPackage, NotUpstream, FailQuietly, Kill, UnlinkFiles,
                 CannotUnlock, CannotLock, FailLocking, NotServed, Exit, CallOK
  <2> QED BY <2>1
<1>12. ASSUME NEW p \in Package, Upgrade(p) \/ Remove(p) \/ Rebuild(p) \/ Publish(p)
      PROVE  DropOnTrack' /\ DropIsComplete'
  <2>1. UNCHANGED <<pc, cmd, todo, dev, failed, result>>
    BY <1>12 DEF Upgrade, Remove, Rebuild, Publish
  <2>2. \A q \in Package : pkg'[q].lock => pkg[q].lock
    BY <1>0, <1>12 DEF Upgrade, Remove, Rebuild, Publish, TypeOK, Entry
  <2>3. Dev' \subseteq Dev
    BY <1>0, <1>12, ConstantsAssumption DEF Upgrade, Remove, Rebuild, Publish, Dev, TypeOK, Entry
  <2> QED BY <1>0, <2>1, <2>2, <2>3 DEF TypeOK
<1> QED BY <1>1, <1>2, <1>3, <1>4, <1>5, <1>6, <1>7, <1>8, <1>9, <1>10, <1>11, <1>12
        DEF Next, Run, Trouble

LEMMA Initially == Init => IInv
<1> SUFFICES ASSUME Init PROVE IInv
  OBVIOUS
<1>1. TypeOK
  BY DEF Init, TypeOK, Entry, Served, Nothing, NoCall
<1>2. Dev = {}
  BY ConstantsAssumption DEF Init, Dev
<1>3. CallOK /\ UseOnTrack /\ DropOnTrack /\ UseIsComplete /\ DropIsComplete
  BY DEF Init, CallOK, UseOnTrack, DropOnTrack, UseIsComplete, DropIsComplete, NoCall, Drops
<1> QED BY <1>1, <1>2, <1>3 DEF IInv, LockedOrExposed

LEMMA StepKeeps == IInv /\ [Next]_vars => IInv'
<1> SUFFICES ASSUME IInv, [Next]_vars PROVE IInv'
  OBVIOUS
<1>1. TypeOK'
  BY TypeStep DEF IInv
<1>2. CASE Next
  BY <1>1, <1>2, CallStep, LockedStep, UseStep, DropStep DEF IInv
<1>3. CASE UNCHANGED vars
  BY <1>3 DEF vars, IInv, TypeOK, CallOK, LockedOrExposed, UseOnTrack, DropOnTrack, UseIsComplete,
              DropIsComplete, Dev, Exposed
<1> QED BY <1>2, <1>3

LEMMA Invariance == Spec => []IInv
BY Initially, StepKeeps, PTL DEF Spec

-----------------------------------------------------------------------------
(* The theorems. *)

\* The pkgdb, the directories and the locals of a call keep their types.
THEOREM TypeCorrect == Spec => []TypeOK
<1>1. IInv => TypeOK
  BY DEF IInv
<1> QED BY <1>1, Invariance, PTL

\* Between calls every development build is repolocked, unless a call about it was
\* cut short before the repolock (cmd_use and cmd_drop, finally).
THEOREM BuildsAreLocked == Spec => []LockedBetweenCalls
<1>1. IInv => LockedBetweenCalls
  BY DEF IInv, LockedOrExposed, LockedBetweenCalls, Exposed
<1> QED BY <1>1, Invariance, PTL

\* A use that ends with status 0 has locked all development builds, and installed
\* those that the index listed (cmd_use); a drop leaves neither a development build
\* nor a repolock of its packages (cmd_drop).
THEOREM CallsComplete == Spec => []SuccessIsComplete
<1>1. IInv => SuccessIsComplete
  BY DEF IInv, SuccessIsComplete
<1> QED BY <1>1, Invariance, PTL

\* No upgrade and no other drop takes a development build away, unless a call about
\* it was cut short before the repolock (set_repolock).
THEOREM BuildsAreKept == Spec => BuildsStay
<1>1. IInv /\ [Next]_vars =>
        [\A p \in Dev : pkg'[p].build = Upstream => p \in Exposed \cup risk]_vars
  <2> SUFFICES ASSUME IInv, Next, NEW p \in Dev, pkg'[p].build = Upstream
               PROVE  p \in Exposed \cup risk
    OBVIOUS
  <2>0. TypeOK /\ CallOK /\ LockedOrExposed /\ UseOnTrack /\ DropOnTrack /\ p \in Package
    BY DEF IInv, Dev
  <2>1. pkg'[p].build # pkg[p].build
    BY ConstantsAssumption DEF Dev
  <2>2. CASE InstallPackage(p)
    <3>1. pc = "install" /\ p \in todo /\ cmd.op # "none"
      BY <2>0, <2>2 DEF InstallPackage, Go, CallOK
    <3>2. CASE cmd.op = "use"
      BY <2>0, <3>1, <3>2 DEF UseOnTrack, Exposed
    <3>3. CASE cmd.op \in Drops
      <4>1. ~pkg[p].lock
        BY <2>0, <3>1, <3>3 DEF DropOnTrack
      <4> QED BY <2>0, <4>1 DEF LockedOrExposed
    <3> QED BY <2>0, <3>1, <3>2, <3>3 DEF TypeOK, Drops
  <2>3. CASE Upgrade(p)
    BY <2>0, <2>3 DEF Upgrade, LockedOrExposed
  <2>4. ~Remove(p)
    BY <2>0, ConstantsAssumption DEF Remove, TypeOK
  <2> QED BY <2>0, <2>1, <2>2, <2>3, <2>4, BuildsChange
<1> QED BY <1>1, Invariance, PTL DEF Spec, BuildsStay

\* A use installs development builds of its packages only, whatever interrupted
\* calls have left in REPO_DIR (recreate_dir).
THEOREM OnlyNamedInstalled == Spec => UseInstallsNamed
<1>1. IInv /\ [Next]_vars =>
        [\A p \in Package : pkg'[p].build \in Build /\ pkg'[p].build # pkg[p].build =>
            cmd.op = "use" /\ p \in cmd.pkgs]_vars
  <2> SUFFICES ASSUME IInv, Next, NEW p \in Package,
                      pkg'[p].build \in Build, pkg'[p].build # pkg[p].build
               PROVE  cmd.op = "use" /\ p \in cmd.pkgs
    OBVIOUS
  <2>0. TypeOK /\ UseOnTrack
    BY DEF IInv
  <2>1. ~Upgrade(p) /\ ~Remove(p)
    BY <2>0, ConstantsAssumption DEF Upgrade, Remove, TypeOK, Entry
  <2>2. InstallPackage(p)
    BY <2>1, BuildsChange
  <2>3. pc = "install" /\ p \in todo /\ pkg'[p].build = Offers(p)
    BY <2>0, <2>2 DEF InstallPackage, Go, TypeOK, Entry
  <2>4. cmd.op = "use"
    BY <2>3, ConstantsAssumption DEF Offers
  <2> QED BY <2>0, <2>3, <2>4 DEF UseOnTrack
<1> QED BY <1>1, Invariance, PTL DEF Spec, UseInstallsNamed
=============================================================================
