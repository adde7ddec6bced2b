------------------------ MODULE PackageBuild_proofs ------------------------
(* Proofs about PackageBuild, for all crates, ports, lockfiles and files. *)
EXTENDS PackageBuild, TLAPS

-----------------------------------------------------------------------------
(* The inductive invariant. *)

\* A file that was stripped before it is looked at is linked to one that was.
StrippedAhead(f) ==
    collect[f] = "stripped" => binutils /\ \E g \in Elf : g # f /\ Inode[g] = Inode[f]

Saved(f) == Linked(BuildId[f]) \/ debug[BuildId[f]] = "full"

Splitting == pc \in {"extract", "strip"}

\* What has been done for each file.
SplitOK ==
    /\ \A f \in paths : StrippedAhead(f)
    /\ Splitting => elf \in File /\ HasBuildId(elf) /\ elf \notin paths
    /\ pc = "extract" => StrippedAhead(elf)
    /\ pc = "strip" => Saved(elf)
    /\ pc = "packaged" => paths = {}
    /\ pc \in {"split", "extract", "strip", "packaged"} =>
        \A f \in File \ paths : HasBuildId(f) /\ ~(Splitting /\ f = elf) =>
            collect[f] = "stripped" /\ Saved(f)

LockOK ==
    /\ pc # "sources" => lock \subseteq Entry
    /\ pc \notin {"sources", "update", "verify"} => unpatched(lock) = {}
    /\ \A e \in pending : \E i \in DOMAIN Patches : Supersedes(i, e)

IInv == TypeOK /\ LockOK /\ SplitOK

-----------------------------------------------------------------------------
(* The lockfile *)

LEMMA PortTypes ==
    ASSUME NEW i \in DOMAIN Patches
    PROVE  Patches[i] \in [name : Crate, version : Version]
<1> DEFINE S == [name : Crate, version : Version]
<1>1. Patches \in Seq(S)
  BY ConstantsAssumption
<1> HIDE DEF S
<1>2. Patches[i] \in S
  BY <1>1
<1> QED BY <1>2 DEF S

LEMMA ResolvedTypes ==
    ASSUME TypeOK, NEW e \in Entry
    PROVE  Resolved(e) \subseteq Entry
<1>1. CASE e \in unpatched({e}) /\ PortFor(e) \in accepted
  <2>1. PortFor(e) \in [name : Crate, version : Version]
    BY <1>1, PortTypes DEF TypeOK, ToSet
  <2>2. PortFor(e).version \in Version /\ e.name \in Crate
    BY <2>1 DEF Entry
  <2> QED BY <1>1, <2>2 DEF Resolved, Entry
<1>2. CASE ~(e \in unpatched({e}) /\ PortFor(e) \in accepted)
  BY <1>2 DEF Resolved
<1> QED BY <1>1, <1>2

LEMMA ResolveTypes ==
    ASSUME TypeOK, NEW l \in SUBSET Entry, NEW es \in SUBSET Entry, Resolve(l, es)
    PROVE  lock' \subseteq Entry
<1> DEFINE choices == [e \in es |-> Resolved(e)]
<1>1. PICK new \in {f \in [es -> UNION Range(choices)] : \A e \in es : f[e] \in choices[e]},
           added \in SUBSET {x \in Extra : x \in Resolved(x)} :
        lock' = (l \ es) \cup {new[e] : e \in es} \cup added
  BY DEF Resolve
<1>2. \A e \in es : new[e] \in Entry
  BY <1>1, ResolvedTypes
<1> QED BY <1>1, <1>2, ConstantsAssumption

LEMMA CargoStep ==
    ASSUME IInv, GenerateLockfile \/ FindPending \/ CargoUpdate \/ Verify
    PROVE  IInv'
<1> USE DEF IInv, TypeOK
<1>1. SplitOK'
  BY DEF SplitOK, GenerateLockfile, FindPending, CargoUpdate, Verify, Splitting, StrippedAhead, Saved,
         Linked, split
<1>2. CASE GenerateLockfile
  <2>1. PICK l \in Locks \ {None} : Resolve(l, l)
    BY <1>2 DEF GenerateLockfile
  <2>2. lock' \subseteq Entry
    BY <2>1, ResolveTypes, ConstantsAssumption
  <2>3. LockOK'
    BY <1>2, <2>2 DEF GenerateLockfile, LockOK
  <2> QED BY <1>1, <1>2, <2>2, <2>3 DEF GenerateLockfile, split
<1>3. CASE FindPending
  <2>1. lock \subseteq Entry /\ lock' = lock
    BY <1>3 DEF FindPending
  <2>2. pending' \subseteq Entry
    BY <1>3, <2>1 DEF FindPending, ToUpdate, unpatched
  <2>3. LockOK'
    BY <1>3, <2>1 DEF FindPending, ToUpdate, LockOK, unpatched
  <2> QED BY <1>1, <1>3, <2>1, <2>2, <2>3 DEF FindPending, split
<1>4. CASE CargoUpdate
  <2>1. lock \subseteq Entry
    BY <1>4 DEF CargoUpdate, LockOK
  <2>2. lock' \subseteq Entry
    BY <1>4, <2>1, ResolveTypes DEF CargoUpdate
  <2>3. LockOK'
    BY <1>4, <2>2 DEF CargoUpdate, LockOK
  <2> QED BY <1>1, <1>4, <2>2, <2>3 DEF CargoUpdate, split
<1>5. CASE Verify
  <2>1. lock' = lock /\ pending' = {}
    BY <1>5 DEF Verify
  <2>2. LockOK'
    BY <1>5, <2>1 DEF Verify, Stuck, LockOK
  <2> QED BY <1>1, <1>5, <2>1, <2>2 DEF Verify, split
<1> QED BY <1>2, <1>3, <1>4, <1>5

-----------------------------------------------------------------------------
(* The files *)

LEMMA SplitStep ==
    ASSUME IInv, Build \/ NextPath \/ ExtractDebug \/ StripDebug \/ Package
    PROVE  IInv'
<1>1. lock' = lock /\ accepted' = accepted /\ pending' = pending /\ binutils' = binutils
  BY DEF Build, NextPath, ExtractDebug, StripDebug, Package, Then, cargo, split
<1>2. LockOK'
  BY <1>1 DEF IInv, LockOK, Build, NextPath, ExtractDebug, StripDebug, Package, Then, Order, unpatched
<1>3. \A f \in File : HasBuildId(f) => BuildId[f] \in Ids
  BY DEF HasBuildId, Ids
<1>4. Linked(BuildId[elf])' <=> Linked(BuildId[elf'])
  BY <1>1 DEF Linked
<1>5. CASE Build
  <2>1. TypeOK'
    BY <1>1, <1>5 DEF IInv, TypeOK, Build
  <2>2. SplitOK'
    BY <1>5 DEF Build, SplitOK, StrippedAhead, Splitting
  <2> QED BY <1>2, <2>1, <2>2 DEF IInv
<1>6. CASE NextPath
  <2>1. PICK f \in paths :
            /\ pc = "split" /\ paths' = paths \ {f} /\ UNCHANGED <<collect, debug>>
            /\ IF HasBuildId(f) THEN elf' = f /\ pc' = "extract" ELSE UNCHANGED <<elf, pc>>
    BY <1>6 DEF NextPath, Order
  <2>2. f \in File
    BY <2>1 DEF IInv, TypeOK
  <2>3. TypeOK'
    BY <1>1, <2>1, <2>2 DEF IInv, TypeOK
  <2>4. SplitOK'
    BY <1>1, <2>1, <2>2 DEF IInv, SplitOK, StrippedAhead, Splitting, Saved, Linked
  <2> QED BY <1>2, <2>3, <2>4 DEF IInv
<1>7. CASE ExtractDebug
  <2>1. /\ pc = "extract" /\ pc' = "strip" /\ paths' = paths /\ elf' = elf /\ collect' = collect
        /\ debug' = [debug EXCEPT ![BuildId[elf]] = IF collect[elf] = "full" THEN "full" ELSE "empty"]
    BY <1>7 DEF ExtractDebug, Then, Order
  <2>2. elf \in File /\ HasBuildId(elf) /\ BuildId[elf] \in Ids /\ elf \in Elf
    BY <1>3, <2>1 DEF IInv, SplitOK, Splitting, HasBuildId
  <2>3. TypeOK'
    BY <1>1, <2>1, <2>2 DEF IInv, TypeOK
  <2>4. Saved(elf)'
    <3>1. CASE collect[elf] = "full"
      BY <2>1, <2>2, <3>1 DEF Saved, IInv, TypeOK
    <3>2. CASE collect[elf] = "stripped"
      <4>1. binutils /\ \E g \in Elf : g # elf /\ Inode[g] = Inode[elf]
        BY <2>1, <3>2 DEF IInv, SplitOK, StrippedAhead
      <4> QED BY <1>1, <2>1, <2>2, <4>1 DEF Saved, Linked
    <3> QED BY <2>2, <3>1, <3>2 DEF IInv, TypeOK
  <2>5. ASSUME NEW f \in File, HasBuildId(f), Saved(f)
        PROVE  Saved(f)'
    <3>1. CASE BuildId[f] = BuildId[elf]
      BY <2>1, <2>4, <3>1 DEF Saved, Linked
    <3>2. CASE BuildId[f] # BuildId[elf]
      BY <1>1, <1>3, <2>1, <2>5, <3>2 DEF Saved, Linked, IInv, TypeOK
    <3> QED BY <3>1, <3>2
  <2>6. SplitOK'
    BY <1>1, <2>1, <2>2, <2>4, <2>5 DEF IInv, SplitOK, StrippedAhead, Splitting
  <2> QED BY <1>2, <2>3, <2>6 DEF IInv
<1>8. CASE StripDebug
  <2>1. /\ pc = "strip" /\ pc' = "split" /\ paths' = paths /\ elf' = elf /\ debug' = debug
        /\ collect' = [f \in File |-> IF f = elf \/ (binutils /\ Inode[f] = Inode[elf])
                                      THEN "stripped" ELSE collect[f]]
    BY <1>8 DEF StripDebug, Then, Order
  <2>2. elf \in File /\ HasBuildId(elf) /\ elf \in Elf /\ elf \notin paths /\ Saved(elf)
    BY <2>1 DEF IInv, SplitOK, Splitting, HasBuildId
  <2>3. TypeOK'
    BY <1>1, <2>1 DEF IInv, TypeOK
  <2>4. \A f \in paths : StrippedAhead(f)'
    BY <1>1, <2>1, <2>2 DEF IInv, TypeOK, SplitOK, StrippedAhead
  <2>5. \A f \in File : Saved(f)' <=> Saved(f)
    BY <1>1, <2>1 DEF Saved, Linked
  <2>6. \A f \in File \ paths : HasBuildId(f) => collect'[f] = "stripped" /\ Saved(f)'
    BY <2>1, <2>2, <2>5 DEF IInv, SplitOK, Splitting
  <2>7. SplitOK'
    BY <2>1, <2>4, <2>6 DEF SplitOK, Splitting
  <2> QED BY <1>2, <2>3, <2>7 DEF IInv
<1>9. CASE Package
  BY <1>2, <1>9 DEF IInv, TypeOK, Package, SplitOK, StrippedAhead, Splitting, Saved, Linked,
                    cargo, split
<1> QED BY <1>5, <1>6, <1>7, <1>8, <1>9

LEMMA OtherStep ==
    ASSUME IInv, Fail \/ Reconfigure \/ Checkout \/ UNCHANGED vars
    PROVE  IInv'
<1> USE DEF IInv, LockOK, SplitOK, StrippedAhead, Splitting, Saved, Linked
<1>1. CASE Fail
  BY <1>1 DEF Fail, TypeOK, split, unpatched
<1>2. CASE Reconfigure
  BY <1>2 DEF Reconfigure, TypeOK, cargo, split
<1>3. CASE Checkout
  BY <1>3, ConstantsAssumption DEF Checkout, TypeOK, split
<1>4. CASE UNCHANGED vars
  BY <1>4 DEF vars, TypeOK, cargo, split
<1> QED BY <1>1, <1>2, <1>3, <1>4

-----------------------------------------------------------------------------
THEOREM InitInv == Init => IInv
BY ConstantsAssumption DEF Init, IInv, TypeOK, LockOK, SplitOK, Splitting

THEOREM NextInv == IInv /\ [Next]_vars => IInv'
BY CargoStep, SplitStep, OtherStep DEF Next, Steps

THEOREM Invariant == Spec => []IInv
BY InitInv, NextInv, PTL DEF Spec

-----------------------------------------------------------------------------
(* The results. *)

\* Every variable keeps its type.
THEOREM TypeCorrect == Spec => []TypeOK
<1>1. IInv => TypeOK
  BY DEF IInv
<1> QED BY <1>1, Invariant, PTL

\* Versions that a caret requirement takes for each other have the same class.
LEMMA CaretClass ==
    ASSUME NEW v \in Nat \X Nat \X Nat, NEW w \in Nat \X Nat \X Nat, Caret(v, w)
    PROVE  compat_class(v) = compat_class(w)
<1>1. /\ v[1] \in Nat /\ v[2] \in Nat /\ v[3] \in Nat
      /\ w[1] \in Nat /\ w[2] \in Nat /\ w[3] \in Nat
  OBVIOUS
<1>2. CASE v[1] # 0
  BY <1>1, <1>2 DEF Caret, LessEq, CaretBound, compat_class
<1>3. CASE v[1] = 0 /\ v[2] # 0
  BY <1>1, <1>3 DEF Caret, LessEq, CaretBound, compat_class
<1>4. CASE v[1] = 0 /\ v[2] = 0
  BY <1>1, <1>4 DEF Caret, LessEq, CaretBound, compat_class
<1> QED BY <1>2, <1>3, <1>4

\* cargo-inject-patches.py lets no build begin with a crate of the registry that a port
\* could replace (main, compat_class).
THEOREM NoneIsUnpatched == Spec => []NoneUnpatched
<1>1. IInv => NoneUnpatched
  <2> SUFFICES ASSUME IInv, pc \notin {"sources", "update", "verify"},
                      NEW e \in lock, e.registry, NEW i \in DOMAIN Patches, Patches[i].name = e.name,
                      Caret(e.version, Patches[i].version) \/ Caret(Patches[i].version, e.version)
               PROVE  FALSE
    BY DEF NoneUnpatched
  <2>1. e \in Entry /\ unpatched(lock) = {}
    BY DEF IInv, LockOK
  <2>2. e.version \in Nat \X Nat \X Nat /\ Patches[i].version \in Nat \X Nat \X Nat
    <3>1. Version \subseteq Nat \X Nat \X Nat
      BY ConstantsAssumption
    <3>2. e.version \in Version /\ Patches[i].version \in Version
      BY <2>1, PortTypes DEF Entry
    <3> QED BY <3>1, <3>2
  <2>3. compat_class(Patches[i].version) = compat_class(e.version)
    BY <2>2, CaretClass
  <2> QED BY <2>1, <2>3 DEF unpatched, Supersedes
<1> QED BY <1>1, Invariant, PTL

\* split-debug.py strips each file of a package and keeps its debug information, in any
\* order of the files (main).
THEOREM DebugInfoIsKept == Spec => []DebugInfoKept
<1>1. IInv => DebugInfoKept
  BY DEF IInv, SplitOK, Saved, Splitting, DebugInfoKept
<1> QED BY <1>1, Invariant, PTL

\* cargo update takes nothing off its pin but what a port is to replace (main).
THEOREM PinsAreKept == Spec => PinsKept
<1> DEFINE A == CargoUpdate => \A e \in lock \ lock' : \E i \in DOMAIN Patches : Supersedes(i, e)
<1>1. IInv /\ [Next]_vars => [A]_vars
  <2> SUFFICES ASSUME IInv, CargoUpdate, NEW e \in lock \ lock'
               PROVE  \E i \in DOMAIN Patches : Supersedes(i, e)
    OBVIOUS
  <2>1. lock \ pending \subseteq lock'
    BY DEF CargoUpdate, Resolve
  <2> QED BY <2>1 DEF IInv, LockOK
<1> QED BY <1>1, Invariant, PTL DEF Spec, PinsKept
=============================================================================
