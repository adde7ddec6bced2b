------------------------------ MODULE Devpkgs ------------------------------
(* devpkgs.py: it replaces packages by development builds, keeps xbps from
   replacing those (repolock), and reverts them.

   One call runs at a time, as a sequence of xbps commands that fail or are
   killed anywhere.  Other xbps runs (upgrades, removals) come between them, and
   the build machine and the upstream repository change meanwhile.            *)
EXTENDS Naturals

CONSTANTS
    Package,
    Build,      \* development builds
    Makes,      \* those of each package; the pkgver of each is its own
    Wanted,     \* packages whose use somebody repeats
    LateUpgrades,  \* whether an upgrade may come between dev_packages and the
                   \* repolock that follows it
    Upstream,   \* installed from a configured repository
    None        \* not installed, or not in a repository

Step == {"clean", "index", "fetch", "rindex", "begin", "install", "query", "lock",
         "unlink", "check", "missing", "unlock"}

ASSUME ConstantsAssumption ==
    /\ Package # {}
    /\ Makes \in [Package -> SUBSET Build]
    /\ Upstream # None /\ Upstream \notin Build /\ None \notin Build
    /\ Wanted \subseteq Package /\ Wanted # {}
    /\ LateUpgrades \in BOOLEAN

VARIABLES
    pkg,       \* the pkgdb: where each package is from, and its repolock
    remote,    \* the build of each package that the build machine serves
    upstream,  \* the packages of the configured repositories
    index,     \* INDEX_DIR: the builds in the copy of the build machine's index
    repo,      \* REPO_DIR: the builds whose files are there, and in its index
    pc,        \* "idle", or the next step of the call
    cmd,       \* the call and the packages that it is about, of the last one if it
               \* has succeeded
    todo,      \* packages that the loop or the transaction has left
    dev,       \* what dev_packages has returned
    failed,    \* whether an exception is on its way through finally
    result,    \* the end of the last call
    risk       \* history: the packages of calls that were cut short before they
               \* could set the repolocks, until a later call has set them

machine == <<remote, upstream>>
store == <<index, repo>>
vars == <<pkg, remote, upstream, index, repo, pc, cmd, todo, dev, failed, result, risk>>

Entry == [build : Build \cup {Upstream, None}, lock : BOOLEAN]
Served == {r \in [Package -> Build \cup {None}] : \A p \in Package : r[p] \in Makes[p] \cup {None}}
Nothing == [p \in Package |-> None]

Dev == {p \in Package : pkg[p].build \in Build}
Installed == {p \in Package : pkg[p].build # None}

NoCall == [op |-> "none", pkgs |-> {}]

Init ==
    /\ pkg \in [Package -> [build : {Upstream, None}, lock : {FALSE}]]
    /\ remote \in Served
    /\ upstream \in SUBSET Package
    /\ index = Nothing /\ repo = Nothing
    /\ pc = "idle"
    /\ cmd = NoCall
    /\ todo = {} /\ dev = {}
    /\ failed = FALSE
    /\ result = "none"
    /\ risk = {}

-----------------------------------------------------------------------------
(* The shape of a call. *)

Call(op, pkgs, first) ==
    /\ pc = "idle" /\ pc' = first
    /\ cmd' = [op |-> op, pkgs |-> pkgs]
    /\ result' = "none"
    /\ UNCHANGED <<pkg, machine, store, todo, dev, failed, risk>>

Use(pkgs) == pkgs # {} /\ Call("use", pkgs, "clean")
Drop(pkgs) == pkgs # {} /\ Call("drop", pkgs, "check")
DropAll == Call("all", {}, "check")

\* The step s leads to the step t.
Go(s, t) == pc = s /\ pc' = t /\ UNCHANGED <<machine, result>>

\* The process ends, and its variables with it.  INDEX_DIR stays, but no later call
\* reads it before it is recreated.
Exit(status) ==
    /\ pc' = "idle"
    /\ result' = status
    /\ index' = Nothing
    /\ todo' = {} /\ dev' = {} /\ failed' = FALSE
    /\ cmd' = IF status = "ok" THEN cmd ELSE NoCall
    /\ UNCHANGED machine

-----------------------------------------------------------------------------
(* cmd_use, up to the installation *)

CleanDirs_KeepRepo ==  \* mutant: REPO_DIR is not recreated
    /\ Go("clean", "index")
    /\ UNCHANGED <<pkg, store, cmd, todo, dev, failed, risk>>

\* recreate_dir of both directories.
CleanDirs ==
    /\ Go("clean", "index")
    /\ repo' = Nothing
    /\ UNCHANGED <<pkg, index, cmd, todo, dev, failed, risk>>

FetchIndex ==
    /\ Go("index", "fetch")
    /\ index' = remote
    /\ todo' = cmd.pkgs
    /\ UNCHANGED <<pkg, repo, cmd, dev, failed, risk>>

\* The file's name has the pkgver of the index, which must still be served.
Available == {p \in Package : index[p] # None /\ remote[p] = index[p]}

FetchPackage(p) ==
    /\ Go("fetch", "fetch")
    /\ p \in todo \cap Available
    /\ repo' = [repo EXCEPT ![p] = index[p]]
    /\ todo' = todo \ {p}
    /\ UNCHANGED <<pkg, index, cmd, dev, failed, risk>>

NotServed(p) ==
    /\ pc = "fetch" /\ p \in todo \ Available
    /\ Exit("failed")
    /\ UNCHANGED <<pkg, repo, risk>>

FetchDone ==
    /\ Go("fetch", "rindex") /\ todo = {}
    /\ UNCHANGED <<pkg, store, cmd, todo, dev, failed, risk>>

AddToIndex ==
    /\ Go("rindex", "begin")
    /\ UNCHANGED <<pkg, store, cmd, todo, dev, failed, risk>>

-----------------------------------------------------------------------------
(* cmd_drop, up to the installation *)

FindDev ==
    /\ Go("check", "missing")
    /\ IF cmd.op = "all" THEN Dev # {} ELSE cmd.pkgs \subseteq Dev
    /\ cmd' = [cmd EXCEPT !.pkgs = IF cmd.op = "all" THEN Dev ELSE @]
    /\ UNCHANGED <<pkg, store, todo, dev, failed, risk>>

NothingToDrop ==
    /\ pc = "check" /\ cmd.op = "all" /\ Dev = {}
    /\ Exit("ok")
    /\ UNCHANGED <<pkg, repo, risk>>

UnknownPackage ==
    /\ pc = "check" /\ cmd.op = "drop" /\ ~(cmd.pkgs \subseteq Dev)
    /\ Exit("failed")
    /\ UNCHANGED <<pkg, repo, risk>>

\* xbps-install -S, and upstream_has.
AllUpstream ==
    /\ Go("missing", "unlock")
    /\ cmd.pkgs \subseteq upstream
    /\ UNCHANGED <<pkg, store, cmd, todo, dev, failed, risk>>

NotUpstream ==
    /\ pc = "missing" /\ ~(cmd.pkgs \subseteq upstream)
    /\ Exit("failed")
    /\ UNCHANGED <<pkg, repo, risk>>

\* xbps-pkgdb -m repolock or repounlock.
SetRepolock(pkgs, lock) ==
    pkg' = [p \in Package |-> IF p \in pkgs THEN [pkg[p] EXCEPT !.lock = lock] ELSE pkg[p]]

Unlock_All ==  \* mutant: all development builds are unlocked
    /\ Go("unlock", "begin")
    /\ cmd.pkgs \subseteq Installed
    /\ SetRepolock(Dev, FALSE)
    /\ UNCHANGED <<store, cmd, todo, dev, failed, risk>>

Unlock ==
    /\ Go("unlock", "begin")
    /\ cmd.pkgs \subseteq Installed
    /\ SetRepolock(cmd.pkgs, FALSE)
    /\ UNCHANGED <<store, cmd, todo, dev, failed, risk>>

CannotUnlock ==
    /\ pc = "unlock" /\ ~(cmd.pkgs \subseteq Installed)
    /\ Exit("failed")
    /\ \E done \in SUBSET (cmd.pkgs \cap Installed) : SetRepolock(done, FALSE)
    /\ risk' = risk \cup cmd.pkgs
    /\ UNCHANGED repo

-----------------------------------------------------------------------------
(* xbps-install *)

\* The repositories that xbps sees: with -i and --repository, REPO_DIR only.
Offers(p) == IF cmd.op = "use" THEN repo[p]
             ELSE IF p \in upstream THEN Upstream ELSE None

\* A repolocked package is only taken from the repository that it is from.
Allowed(p) ==
    /\ Offers(p) # None
    /\ pkg[p].lock => (pkg[p].build \in Build <=> cmd.op = "use")

Begin ==
    /\ Go("begin", "install")
    /\ \A p \in cmd.pkgs : Allowed(p)
    \* xbps also updates what depends on these packages, and itself.
    /\ \E others \in SUBSET {p \in Installed : Allowed(p)} : todo' = cmd.pkgs \cup others
    /\ UNCHANGED <<pkg, store, cmd, dev, failed, risk>>

CannotBegin ==
    /\ Go("begin", "query")
    /\ \E p \in cmd.pkgs : ~Allowed(p)
    /\ failed' = TRUE
    /\ UNCHANGED <<pkg, store, cmd, todo, dev, risk>>

\* The repolock survives a reinstallation.
InstallPackage(p) ==
    /\ Go("install", "install")
    /\ p \in todo
    /\ pkg' = [pkg EXCEPT ![p].build = Offers(p)]
    /\ todo' = todo \ {p}
    /\ UNCHANGED <<store, cmd, dev, failed, risk>>

InstallDone ==
    /\ Go("install", "query") /\ todo = {}
    /\ UNCHANGED <<pkg, store, cmd, todo, dev, failed, risk>>

-----------------------------------------------------------------------------
(* finally, and what follows *)

QueryDev ==
    /\ Go("query", "lock")
    /\ dev' = Dev
    /\ UNCHANGED <<pkg, store, cmd, todo, failed, risk>>

ToLock_Unchecked ==  \* mutant: drop locks its packages, whatever they are now
    IF cmd.op = "use" THEN dev ELSE cmd.pkgs

\* What is locked at the end: all development builds, or those that a drop has
\* left.
ToLock == IF cmd.op = "use" THEN dev ELSE dev \cap cmd.pkgs

Lock_OnlyOnSuccess ==  \* mutant: without finally
    /\ pc = "lock"
    /\ ToLock \subseteq Installed
    /\ IF failed THEN UNCHANGED pkg ELSE SetRepolock(ToLock, TRUE)
    /\ risk' = risk \ (IF cmd.op = "use" THEN Package ELSE cmd.pkgs)
    /\ IF failed THEN Exit("failed")
       ELSE IF cmd.op = "use"
       THEN Go("lock", "unlink") /\ UNCHANGED <<index, cmd, todo, dev, failed>>
       ELSE Exit("ok")
    /\ UNCHANGED repo

Lock ==
    /\ pc = "lock"
    /\ ToLock \subseteq Installed
    /\ SetRepolock(ToLock, TRUE)
    /\ risk' = risk \ (IF cmd.op = "use" THEN Package ELSE cmd.pkgs)
    /\ IF failed THEN Exit("failed")
       ELSE IF cmd.op = "use"
       THEN Go("lock", "unlink") /\ UNCHANGED <<index, cmd, todo, dev, failed>>
       ELSE Exit("ok")
    /\ UNCHANGED repo

CannotLock ==
    /\ pc = "lock" /\ ~(ToLock \subseteq Installed)
    /\ Exit("failed")
    /\ \E done \in SUBSET (ToLock \cap Installed) : SetRepolock(done, TRUE)
    /\ risk' = risk \cup cmd.pkgs
    /\ UNCHANGED repo

UnlinkFiles ==
    /\ pc = "unlink"
    /\ Exit("ok")
    /\ repo' = [p \in Package |-> IF p \in cmd.pkgs THEN None ELSE repo[p]]
    /\ UNCHANGED <<pkg, risk>>

-----------------------------------------------------------------------------
(* What happens to the call and around it. *)

\* The call fails by itself, or has no command left to run.
Settled ==
    \/ pc = "fetch" /\ (todo = {} \/ ~(todo \subseteq Available))
    \/ pc = "check" /\ (IF cmd.op = "all" THEN Dev = {} ELSE ~(cmd.pkgs \subseteq Dev))
    \/ pc = "missing" /\ ~(cmd.pkgs \subseteq upstream)
    \/ pc = "unlock" /\ ~(cmd.pkgs \subseteq Installed)
    \/ pc = "begin" /\ \E p \in cmd.pkgs : ~Allowed(p)
    \/ pc = "install" /\ todo = {}
    \/ pc = "lock" /\ (ToLock = {} \/ ~(ToLock \subseteq Installed))

\* A command fails before anything is installed or unlocked, or after all is
\* locked.
FailQuietly ==
    /\ pc \in {"clean", "index", "fetch", "rindex", "check", "missing", "unlink"}
    /\ ~Settled
    /\ Exit("failed")
    /\ UNCHANGED <<pkg, repo, risk>>

\* xbps-install fails with part of the packages installed.
FailInstall ==
    /\ pc \in {"begin", "install"} /\ pc' = "query"
    /\ ~Settled
    /\ failed' = TRUE
    /\ todo' = {}
    /\ UNCHANGED <<pkg, machine, store, cmd, dev, result, risk>>

\* xbps-query or xbps-pkgdb fails, with any of the repolocks set.
FailLocking ==
    /\ pc \in {"unlock", "query", "lock"}
    /\ ~Settled
    /\ Exit("failed")
    /\ \/ pc = "query" /\ UNCHANGED pkg
       \/ pc = "unlock" /\ \E done \in SUBSET (cmd.pkgs \cap Installed) : SetRepolock(done, FALSE)
       \/ pc = "lock" /\ \E done \in SUBSET (ToLock \cap Installed) : SetRepolock(done, TRUE)
    /\ risk' = risk \cup cmd.pkgs
    /\ UNCHANGED repo

\* The packages that may be development builds without a repolock now.
Exposed == IF \/ pc \in {"install", "query", "lock"}
              \/ pc = "begin" /\ cmd.op # "use"
           THEN cmd.pkgs ELSE {}

\* A signal ends the process and the command it waits for, at once.
Kill ==
    /\ pc # "idle"
    /\ Exit("killed")
    /\ risk' = risk \cup Exposed
    /\ UNCHANGED <<pkg, repo>>

\* A system upgrade, or somebody installs the package.  xbps-install keeps others
\* away while it runs.
Upgrade(p) ==
    /\ pc # "install"
    /\ pc = "lock" => LateUpgrades
    /\ p \in upstream /\ ~pkg[p].lock
    /\ pkg' = [pkg EXCEPT ![p].build = Upstream]
    /\ UNCHANGED <<machine, store, pc, cmd, todo, dev, failed, result, risk>>

Remove(p) ==
    /\ pc # "install"
    /\ p \in Installed
    /\ pkg' = [pkg EXCEPT ![p] = [build |-> None, lock |-> FALSE]]
    /\ UNCHANGED <<machine, store, pc, cmd, todo, dev, failed, result, risk>>

Rebuild(p) ==
    /\ remote' \in {[remote EXCEPT ![p] = b] : b \in Makes[p] \cup {None}}
    /\ UNCHANGED <<pkg, upstream, store, pc, cmd, todo, dev, failed, result, risk>>

Publish(p) ==
    /\ upstream' \in {upstream \cup {p}, upstream \ {p}}
    /\ UNCHANGED <<pkg, remote, store, pc, cmd, todo, dev, failed, result, risk>>

Start == (\E pkgs \in SUBSET Package : Use(pkgs) \/ Drop(pkgs)) \/ DropAll

Run ==
    \/ CleanDirs \/ FetchIndex \/ FetchDone \/ AddToIndex
    \/ FindDev \/ NothingToDrop \/ UnknownPackage
    \/ AllUpstream \/ NotUpstream \/ Unlock \/ CannotUnlock
    \/ Begin \/ CannotBegin \/ InstallDone
    \/ QueryDev \/ Lock \/ CannotLock \/ UnlinkFiles
    \/ \E p \in Package : FetchPackage(p) \/ NotServed(p) \/ InstallPackage(p)

Trouble ==
    \/ FailQuietly \/ FailInstall \/ FailLocking \/ Kill
    \/ \E p \in Package : Upgrade(p) \/ Remove(p) \/ Rebuild(p) \/ Publish(p)

Next == Start \/ Run \/ Trouble

Spec == Init /\ [][Next]_vars

\* The scheduler lets a call go on, and its user repeats it.
FairSpec == Spec /\ WF_vars(Run) /\ SF_vars(Use(Wanted))

-----------------------------------------------------------------------------
(* Properties *)

TypeOK ==
    /\ pkg \in [Package -> Entry]
    /\ remote \in Served /\ upstream \subseteq Package
    /\ index \in Served /\ repo \in Served
    /\ pc \in Step \cup {"idle"}
    /\ cmd \in [op : {"none", "use", "drop", "all"}, pkgs : SUBSET Package]
    /\ todo \subseteq Package /\ dev \subseteq Package
    /\ failed \in BOOLEAN
    /\ result \in {"none", "ok", "failed", "killed"}
    /\ risk \subseteq Package

\* Between calls every development build is repolocked, those that failed calls
\* have installed or failed to replace included; only a call that was cut short
\* leaves one without, and only among its own packages.
LockedBetweenCalls == pc = "idle" => \A p \in Dev : pkg[p].lock \/ p \in risk

\* A use that ends with status 0 has locked all development builds, also what
\* earlier calls have left, and its own are the ones that the index listed.
UseIsComplete ==
    pc = "unlink" \/ (result = "ok" /\ cmd.op = "use") =>
        \A p \in Dev :
            /\ pkg[p].lock
            /\ pc = "unlink" /\ p \in cmd.pkgs => pkg[p].build = index[p]

\* A drop that ends with status 0 leaves nothing of its packages behind: neither a
\* development build nor a repolock.
DropIsComplete ==
    result = "ok" /\ cmd.op \in {"drop", "all"} =>
        \A p \in cmd.pkgs : p \notin Dev /\ ~pkg[p].lock

\* What status 0 promises (lines 117-139, 141-170).
SuccessIsComplete == UseIsComplete /\ DropIsComplete

\* A development build gives way to an upstream package only while a call that is
\* about it installs, or after one that was cut short then: no upgrade takes it
\* away, and no drop of another package does.
BuildsStay ==
    [][\A p \in Dev : pkg'[p].build = Upstream => p \in Exposed \cup risk]_vars

\* "It only contains the requested packages": a use installs no other build, although
\* xbps updates all that it finds in REPO_DIR, and interrupted calls leave files there.
UseInstallsNamed ==
    [][\A p \in Package : pkg'[p].build \in Build /\ pkg'[p].build # pkg[p].build =>
            cmd.op = "use" /\ p \in cmd.pkgs]_vars

\* As long as troubles end, a use that is repeated succeeds, for packages that the
\* build machine serves.
Recovers ==
    \/ []<><<Trouble>>_vars
    \/ <>[](\A p \in Wanted : remote[p] # None)
       => []<>(result = "ok" /\ cmd = [op |-> "use", pkgs |-> Wanted])
=============================================================================
