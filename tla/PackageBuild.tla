---------------------------- MODULE PackageBuild ----------------------------
(* The two scripts that recipes run while xbstrap builds a package:
   cargo-inject-patches.py is the first configure step of packages written in Rust,
   split-debug.py the last build step of packages with debug information.

   cargo, the binutils, LLVM and xbstrap are external.  xbstrap checks out a source,
   configures, builds into an empty collect directory, and repeats a step that has
   failed or that it is told to repeat.                                           *)
EXTENDS Integers, Sequences, SequencesExt

CONSTANTS
    Version,   \* versions of crates: <<major, minor, patch>>
    Patches,   \* [patch.crates-io]: ports, [name, version], in the order of the file
    Locks,     \* Cargo.locks that come with a source, None for no lockfile
    Extra,     \* entries that the dependencies of a port may add to a lockfile
    File,      \* regular files that the build installs
    Elf,       \* those that are ELF files of a supported kind
    BuildId,   \* of each of them, None for no build ID
    Inode,     \* the file that each path is a link to
    None

Crate == {Patches[i].name : i \in DOMAIN Patches}
Entry == [name : Crate, version : Version, registry : BOOLEAN]

ASSUME ConstantsAssumption ==
    /\ Version \subseteq Nat \X Nat \X Nat
    /\ Patches \in Seq([name : Crate, version : Version])
    /\ \A l \in Locks \ {None} : l \subseteq Entry
    /\ Extra \subseteq Entry
    /\ Elf \subseteq File /\ DOMAIN BuildId = File /\ DOMAIN Inode = File

VARIABLES
    lock,      \* Cargo.lock
    accepted,  \* the ports that the dependency graph has a use for
    pending,   \* the entries that cargo is asked to update
    collect,   \* whether each file has its debug information: "full" or "stripped"
    debug,     \* the .debug file of each build ID: "full", "empty" or None
    paths,     \* the files that are not looked at yet
    binutils,  \* whether --binutils is given
    elf,       \* the file that is split at present
    pc         \* how far the package is

cargo == <<lock, accepted, pending>>
split == <<collect, debug, paths, elf, binutils>>
vars == <<cargo, split, pc>>

Ids == {BuildId[f] : f \in Elf} \ {None}

Init ==
    /\ lock \in Locks
    /\ accepted \in SUBSET ToSet(Patches)
    /\ pending = {}
    /\ collect = [f \in File |-> "full"] /\ debug = [b \in Ids |-> None]
    /\ paths = {} /\ elf = None
    /\ binutils \in BOOLEAN
    /\ pc = "sources"

-----------------------------------------------------------------------------
(* cargo-inject-patches.py                                                    *)

compat_class(v) == IF v[1] # 0 THEN <<v[1]>>
                   ELSE IF v[2] # 0 THEN <<0, v[2]>> ELSE <<0, 0, v[3]>>

\* The port for a crate, the last one of its class in the table.
Supersedes(i, e) ==
    /\ Patches[i].name = e.name
    /\ compat_class(Patches[i].version) = compat_class(e.version)

PortFor(e) ==
    LET is == {i \in DOMAIN Patches : Supersedes(i, e)}
    IN  Patches[CHOOSE i \in is : \A j \in is : j <= i]

unpatched(l) == {e \in l : e.registry /\ \E i \in DOMAIN Patches : Supersedes(i, e)}

\* What cargo makes of an entry that it may resolve anew: the port, if the graph has a
\* use for it, or any crate of the registry with the same class.
Resolved(e) ==
    IF e \in unpatched({e}) /\ PortFor(e) \in accepted
    THEN {[name |-> e.name, version |-> PortFor(e).version, registry |-> FALSE]}
    ELSE IF e.registry
    THEN {n \in Entry : /\ n.registry /\ n.name = e.name
                        /\ compat_class(n.version) = compat_class(e.version)}
    ELSE {e}

\* The lockfile after cargo has resolved some of its entries.
Resolve(l, es) ==
    LET choices == [e \in es |-> Resolved(e)] IN
    \E new \in {f \in [es -> UNION Range(choices)] : \A e \in es : f[e] \in choices[e]},
       added \in SUBSET {x \in Extra : x \in Resolved(x)} :
        lock' = (l \ es) \cup {new[e] : e \in es} \cup added

GenerateLockfile ==
    /\ pc = "sources" /\ lock = None
    /\ \E l \in Locks \ {None} : Resolve(l, l)
    /\ UNCHANGED <<accepted, pending, split, pc>>

\* mutant: a bare cargo update.
ToUpdate_All == IF unpatched(lock) = {} THEN {} ELSE {e \in lock : e.registry}

ToUpdate == unpatched(lock)

FindPending ==
    /\ pc = "sources" /\ lock # None
    /\ pending' = ToUpdate
    /\ pc' = IF pending' = {} THEN "configured" ELSE "update"
    /\ UNCHANGED <<lock, accepted, split>>

\* cargo warns if a patch does not apply, and carries on.
CargoUpdate ==
    /\ pc = "update"
    /\ Resolve(lock, pending)
    /\ pc' = "verify"
    /\ UNCHANGED <<accepted, pending, split>>

\* mutant: only the entries that were pending are looked at again.
Stuck_Pending == unpatched(lock) \cap pending # {}

Stuck == unpatched(lock) # {}

Verify ==
    /\ pc = "verify"
    /\ pc' = IF Stuck THEN "sources" ELSE "configured"
    /\ pending' = {}
    /\ UNCHANGED <<lock, accepted, split>>

-----------------------------------------------------------------------------
(* split-debug.py                                                             *)

\* xbstrap builds into an empty directory; all files are listed before the first is split.
Build ==
    /\ pc = "configured"
    /\ collect' = [f \in File |-> "full"] /\ debug' = [b \in Ids |-> None]
    /\ paths' = File /\ elf' = None
    /\ pc' = "split"
    /\ UNCHANGED <<cargo, binutils>>

HasBuildId(f) == f \in Elf /\ BuildId[f] # None

\* mutant: stripped, then copied.
Order_StripFirst == <<"strip", "extract">>

Order == <<"extract", "strip">>

NextPath ==
    /\ pc = "split"
    /\ \E f \in paths :
        /\ paths' = paths \ {f}
        /\ IF HasBuildId(f) THEN elf' = f /\ pc' = Order[1] ELSE UNCHANGED <<elf, pc>>
    /\ UNCHANGED <<cargo, collect, debug, binutils>>

Then(step) ==
    /\ pc = step
    /\ pc' = IF step = Order[1] THEN Order[2] ELSE "split"
    /\ UNCHANGED <<cargo, paths, elf, binutils>>

\* objcopy --only-keep-debug, to a path that follows from the build ID alone.
ExtractDebug ==
    /\ Then("extract")
    /\ debug' = [debug EXCEPT ![BuildId[elf]] = IF collect[elf] = "full" THEN "full" ELSE "empty"]
    /\ UNCHANGED collect

\* strip of the binutils keeps hard links, llvm-strip replaces the file.
StripDebug ==
    /\ Then("strip")
    /\ collect' = [f \in File |-> IF f = elf \/ (binutils /\ Inode[f] = Inode[elf])
                                  THEN "stripped" ELSE collect[f]]
    /\ UNCHANGED debug

Package ==
    /\ pc = "split" /\ paths = {}
    /\ pc' = "packaged"
    /\ UNCHANGED <<cargo, split>>

-----------------------------------------------------------------------------
(* Failures and xbstrap                                                       *)

\* A command fails or the run is killed; the step is repeated from its start, with an
\* empty collect directory.
Fail ==
    /\ \/ pc \in {"update", "verify"} /\ pc' = "sources" /\ pending' = {} /\ UNCHANGED split
       \/ /\ pc \in {"split", "extract", "strip"} /\ pc' = "configured"
          /\ UNCHANGED <<pending, split>>
    /\ UNCHANGED <<lock, accepted>>

Idle == pc \in {"sources", "configured", "packaged"}

Reconfigure ==
    /\ Idle /\ pc' = "sources"
    /\ UNCHANGED <<cargo, split>>

\* Another version of the source, with ports of its own choice.
Checkout ==
    /\ Idle /\ pc' = "sources"
    /\ lock' \in Locks /\ accepted' \in SUBSET ToSet(Patches)
    /\ UNCHANGED <<pending, split>>

-----------------------------------------------------------------------------
Steps ==
    \/ GenerateLockfile \/ FindPending \/ CargoUpdate \/ Verify
    \/ Build \/ NextPath \/ ExtractDebug \/ StripDebug \/ Package

Next == Steps \/ Fail \/ Reconfigure \/ Checkout

Spec == Init /\ [][Next]_vars

-----------------------------------------------------------------------------
(* Properties                                                                 *)

TypeOK ==
    /\ (lock # None => lock \subseteq Entry)
    /\ accepted \subseteq ToSet(Patches) /\ pending \subseteq Entry
    /\ collect \in [File -> {"full", "stripped"}]
    /\ debug \in [Ids -> {"full", "empty", None}]
    /\ paths \subseteq File /\ elf \in File \cup {None} /\ binutils \in BOOLEAN
    /\ pc \in {"sources", "update", "verify", "configured", "split", "extract", "strip",
               "packaged"}

\* Versions that cargo's caret requirements take for each other.
LessEq(v, w) == \/ v[1] < w[1]
                \/ v[1] = w[1] /\ (v[2] < w[2] \/ (v[2] = w[2] /\ v[3] <= w[3]))
CaretBound(v) == IF v[1] # 0 THEN <<v[1] + 1, 0, 0>>
                 ELSE IF v[2] # 0 THEN <<0, v[2] + 1, 0>> ELSE <<0, 0, v[3] + 1>>
Caret(v, w) == LessEq(v, w) /\ ~LessEq(CaretBound(v), w)

\* No crate of the registry is built that a caret requirement on its version would
\* let a port replace (lines 18-27, 65-75, 118-125).
NoneUnpatched ==
    pc \notin {"sources", "update", "verify"} =>
        \A e \in lock : e.registry => \A i \in DOMAIN Patches :
            Patches[i].name = e.name =>
                ~Caret(e.version, Patches[i].version) /\ ~Caret(Patches[i].version, e.version)

\* "a bare `cargo update` would re-resolve the whole graph and drift every unrelated
\* dependency off its pin" (line 109): an entry goes only if a port is to take its place.
PinsKept ==
    [][CargoUpdate => \A e \in lock \ lock' : \E i \in DOMAIN Patches : Supersedes(i, e)]_vars

\* Two paths to one file, which is stripped when the second one is looked at.
Linked(id) == binutils /\ \E f, g \in Elf : f # g /\ Inode[f] = Inode[g] /\ BuildId[f] = id

\* In a package, each ELF file with a build ID is stripped and its debug information is
\* in the file of that ID, whichever order the files come in (lines 106-148).
DebugInfoKept ==
    pc = "packaged" => \A f \in File : HasBuildId(f) =>
        collect[f] = "stripped" /\ (Linked(BuildId[f]) \/ debug[BuildId[f]] = "full")
=============================================================================
