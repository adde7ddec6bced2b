----------------------- MODULE ManagarmInstall_proofs -----------------------
(* Proofs about ManagarmInstall, for all layouts, disks and identifiers. *)
EXTENDS ManagarmInstall, TLAPS

-----------------------------------------------------------------------------
(* The inductive invariant. *)

Laid == {"mkfs.vfat", "mke2fs", "mount", "conf", "packages", "accounts", "dirs",
         "partitions.toml", "update-esp"}

Formatted == Laid \ {"mkfs.vfat", "mke2fs"}

\* Once the layout has been looked at, it is ours and stays so.
LayoutKnown == pc \in Laid => table.types = PartTypes /\ ids = table.id

\* The boot files go last: the ESP is empty as long as the root is not complete.
EspEmpty == pc \in Laid \ {"mkfs.vfat"} => seen[EspIndex] = Esp(None)

\* What populate_root has achieved at each step.
RootOnTrack ==
    /\ pc \in Formatted => seen[RootIndex].kind = "root"
    /\ pc \in {"packages", "accounts", "dirs", "partitions.toml"} => "conf" \in Has
    /\ pc \in {"accounts", "dirs", "partitions.toml"} => "packages" \in Has
    /\ pc \in {"dirs", "partitions.toml"} => "accounts" \in Has
    /\ pc = "partitions.toml" => "dirs" \in Has
    /\ pc = "update-esp" => seen[RootIndex] = Root(Piece, ids)

\* Nothing is mounted of a disk without partitions.
NodesKnown == mounted \/ pc \in {"layout"} \cup Laid => nodes > 0

NothingWithoutTable ==
    table.types = <<>> => \A i \in Index : seen[i] = Blank /\ kept[i] = Blank

Agreement == pc # "idle" => (agreed \/ pc = "confirm") /\ result = "none"

IInv ==
    /\ TypeOK
    /\ LayoutKnown
    /\ EspEmpty
    /\ RootOnTrack
    /\ NodesKnown
    /\ NothingWithoutTable
    /\ Agreement
    /\ SuccessMeansInstalled
    /\ result = "ok" => pc = "idle"
    /\ BootsCompleteRoot

-----------------------------------------------------------------------------
(* Indices, contents and tables *)

LEMMA Indices ==
    /\ EspIndex \in Index /\ RootIndex \in Index /\ EspIndex # RootIndex
    /\ BiosIndices \subseteq Index
    /\ EspIndex \notin BiosIndices /\ RootIndex \notin BiosIndices
    /\ DOMAIN PartTypes = BiosIndices \cup {EspIndex, RootIndex}
    /\ PartTypes # <<>> /\ Len(PartTypes) \in Nat /\ Len(PartTypes) > 0
<1>1. /\ PartTypes \in Seq(Type) /\ Len(PartTypes) \in Nat /\ Len(PartTypes) >= 2
      /\ DOMAIN PartTypes = 1..Len(PartTypes)
  BY ConstantsAssumption
<1>2. DOMAIN PartTypes \subseteq Index
  BY DEF Index
<1>3. PICK n \in Nat : n = Len(PartTypes) /\ n >= 2
  BY <1>1
<1>4. 1..n = 1..(n - 2) \cup {n - 1, n}
  BY <1>3
<1>5. EspIndex = n - 1 /\ RootIndex = n /\ BiosIndices = 1..(n - 2)
  BY <1>3 DEF EspIndex, RootIndex, BiosIndices
<1>6. DOMAIN PartTypes = BiosIndices \cup {EspIndex, RootIndex}
  BY <1>1, <1>3, <1>4, <1>5
<1>7. PartTypes # <<>>
  BY <1>1
<1>8. EspIndex # RootIndex /\ EspIndex \notin BiosIndices /\ RootIndex \notin BiosIndices
  BY <1>3, <1>5
<1>9. Len(PartTypes) \in Nat /\ Len(PartTypes) > 0
  BY <1>3
<1>10. BiosIndices \cup {EspIndex, RootIndex} \subseteq Index
  BY <1>2, <1>6
<1> QED BY <1>6, <1>7, <1>8, <1>9, <1>10

LEMMA Contents ==
    /\ Blank \in Content /\ Torn \in Content /\ Stages \in Content /\ Alien \in Content
    /\ \A b \in Id \cup {None} : Esp(b) \in Content
    /\ \A h \in SUBSET Piece, t \in Id \cup {None} : Root(h, t) \in Content
BY DEF Content

LEMMA Kinds ==
    /\ Blank.kind = "blank" /\ Torn.kind = "torn" /\ Stages.kind = "stages" /\ Alien.kind = "alien"
    /\ \A b : Esp(b).kind = "esp" /\ Esp(b).boot = b
    /\ \A h, t : Root(h, t).kind = "root" /\ Root(h, t).has = h /\ Root(h, t).toml = t
BY DEF Blank, Torn, Stages, Alien, Esp, Root

LEMMA RootContent ==
    ASSUME NEW c \in Content, c.kind = "root"
    PROVE  c.has \in SUBSET Piece /\ c.toml \in Id \cup {None} /\ c = Root(c.has, c.toml)
BY Kinds DEF Content

LEMMA EspContent ==
    ASSUME NEW c \in Content, c.kind = "esp"
    PROVE  c.boot \in Id \cup {None} /\ c = Esp(c.boot)
BY Kinds DEF Content

LEMMA TableTypes ==
    ASSUME NEW t \in Tables
    PROVE  /\ t.types \in Foreign \cup {PartTypes, <<>>} /\ t.id \in Id
           /\ t = [types |-> t.types, id |-> t.id]
           /\ Len(t.types) \in Nat /\ (t.types # <<>> => Len(t.types) > 0)
           /\ DOMAIN t.types \subseteq Index
<1>1. t.types \in Foreign \cup {PartTypes, <<>>} /\ t.id \in Id /\ t = [types |-> t.types, id |-> t.id]
  BY DEF Tables
<1>2. \A s \in Seq(Type) : Len(s) \in Nat /\ (s # <<>> => Len(s) > 0)
  OBVIOUS
<1>3. <<>> \in Seq(Type) /\ DOMAIN <<>> = {}
  OBVIOUS
<1>4. t.types \in Seq(Type)
  BY <1>1, <1>3, ConstantsAssumption
<1>5. DOMAIN t.types \subseteq Index
  BY <1>1, <1>3 DEF Index
<1> QED BY <1>1, <1>2, <1>4, <1>5

\* The order of cmd_disk.
LEMMA Order ==
    /\ Follows("partition") = "nodes" /\ Follows("nodes") = "layout"
    /\ Follows("layout") = "mkfs.vfat" /\ Follows("mkfs.vfat") = "mke2fs"
    /\ Follows("mke2fs") = "mount" /\ Follows("mount") = "conf"
    /\ Follows("conf") = "packages" /\ Follows("packages") = "accounts"
    /\ Follows("accounts") = "dirs" /\ Follows("dirs") = "partitions.toml"
    /\ Follows("partitions.toml") = "update-esp"
<1>1. DOMAIN Steps = 1..12
  BY DEF Steps
<1>2. ASSUME NEW s, NEW k \in 1..12, Steps[k] = s, \A i \in 1..12 : Steps[i] = s => i = k
      PROVE  Follows(s) = Steps[k + 1]
  <2>1. (CHOOSE i \in DOMAIN Steps : Steps[i] = s) = k
    BY <1>1, <1>2
  <2> QED BY <2>1 DEF Follows
<1>3. /\ Steps[1] = "partition" /\ Steps[2] = "nodes" /\ Steps[3] = "layout"
      /\ Steps[4] = "mkfs.vfat" /\ Steps[5] = "mke2fs" /\ Steps[6] = "mount"
      /\ Steps[7] = "conf" /\ Steps[8] = "packages" /\ Steps[9] = "accounts"
      /\ Steps[10] = "dirs" /\ Steps[11] = "partitions.toml" /\ Steps[12] = "update-esp"
  BY DEF Steps
<1>4. \A i, j \in 1..12 : Steps[i] = Steps[j] => i = j
  <2>1. \A i \in 1..12 : i \in {1, 2, 3, 4, 5, 6, 7, 8, 9, 10, 11, 12}
    OBVIOUS
  <2> QED BY <1>3, <2>1
<1>5. \A k \in 1..11 : Follows(Steps[k]) = Steps[k + 1]
  BY <1>2, <1>4
<1> QED BY <1>3, <1>5

LEMMA StepNames ==
    Step = {"partition", "nodes", "layout"} \cup Laid
BY DEF Step, Steps, Laid

-----------------------------------------------------------------------------
(* Init *)

LEMMA InvInit == Init => IInv
<1> SUFFICES ASSUME Init PROVE IInv
  OBVIOUS
<1>1. table.types \in Foreign \cup {PartTypes, <<>>} /\ table.id \in Id
      /\ DOMAIN table.types \subseteq Index
  BY TableTypes DEF Init
<1>2. seen \in [Index -> Content]
  BY <1>1, Contents DEF Init
<1>3. TypeOK
  BY <1>2 DEF Init, TypeOK
<1>4. CASE table.types = PartTypes
  <2>1. seen[EspIndex] = Esp(table.id) /\ seen[RootIndex] = Root(Piece, table.id)
    BY <1>4, Indices DEF Init
  <2>2. BootsCompleteRoot
    BY <2>1, Kinds DEF BootsCompleteRoot, BootFiles
  <2>3. NothingWithoutTable
    BY <1>4, Indices DEF NothingWithoutTable
  <2> QED BY <1>3, <2>2, <2>3 DEF Init, IInv, LayoutKnown, EspEmpty, RootOnTrack, NodesKnown,
             Agreement, SuccessMeansInstalled, Laid, Formatted
<1>5. CASE table.types # PartTypes
  <2>1. \A i \in Index : seen[i] \in {Alien, Blank}
    BY <1>5 DEF Init
  <2>2. BootsCompleteRoot
    BY <2>1, Kinds, Indices DEF BootsCompleteRoot, BootFiles
  <2>3. NothingWithoutTable
    BY <1>5 DEF NothingWithoutTable, Init
  <2> QED BY <1>3, <2>2, <2>3 DEF Init, IInv, LayoutKnown, EspEmpty, RootOnTrack, NodesKnown,
             Agreement, SuccessMeansInstalled, Laid, Formatted
<1> QED BY <1>4, <1>5

-----------------------------------------------------------------------------
(* Steps that leave the disk alone *)

LEMMA QuietStep ==
    ASSUME IInv, UNCHANGED <<disk, lost>>,
           mounted' \in BOOLEAN /\ nodes' \in {Len(t.types) : t \in Tables},
           opts' \in [keep : BOOLEAN, yes : BOOLEAN], agreed' \in BOOLEAN,
           pc' \in {"idle", "confirm"} \cup Step, ids' \in Id \cup {None},
           result' \in {"none", "failed"} \/ (result' = result /\ UNCHANGED pc),
           mounted' => mounted \/ pc \in Formatted,
           mounted' \/ pc' \in {"layout"} \cup Laid => nodes' > 0,
           LayoutKnown', pc' \in Laid \ {"mkfs.vfat"} => EspEmpty', RootOnTrack', Agreement'
    PROVE  IInv'
<1> USE DEF disk, IInv
<1>1. TypeOK'
  <2>1. mounted' => seen[RootIndex].kind \in {"root", "torn"}
    BY DEF TypeOK, RootOnTrack
  <2>2. result' \in {"none", "ok", "failed"}
    BY DEF TypeOK
  <2> QED BY <2>1, <2>2 DEF TypeOK
<1>2. NodesKnown' /\ NothingWithoutTable' /\ BootsCompleteRoot'
  BY DEF NodesKnown, NothingWithoutTable, BootsCompleteRoot, BootFiles
<1>3. SuccessMeansInstalled' /\ (result' = "ok" => pc' = "idle")
  BY DEF SuccessMeansInstalled, Installed
<1>4. EspEmpty'
  BY DEF EspEmpty
<1> QED BY <1>1, <1>2, <1>3, <1>4

\* The end of a run that has failed or has been refused.
LEMMA AbortStep ==
    ASSUME IInv, Abort, UNCHANGED <<disk, nodes, mounted, lost>>
    PROVE  IInv'
<1>1. pc' = "idle" /\ result' = "failed" /\ UNCHANGED <<opts, agreed, ids>>
  BY DEF Abort
<1>2. TypeOK /\ NodesKnown
  BY DEF IInv
<1>3. LayoutKnown' /\ RootOnTrack' /\ Agreement'
  BY <1>1 DEF LayoutKnown, RootOnTrack, Agreement, Laid, Formatted
<1> QED BY <1>1, <1>2, <1>3, QuietStep DEF TypeOK, NodesKnown, Laid

LEMMA QuietActions ==
    ASSUME IInv,
           \/ \E keep \in BOOLEAN : Start(keep)
           \/ Confirm \/ Decline \/ KeepPartitions \/ HasPartitions
           \/ NodesAppear \/ NodesMissing \/ CheckLayout \/ WrongLayout
           \/ InUse \/ Mount \/ Reread
    PROVE  IInv'
<1>0. /\ TypeOK /\ NodesKnown /\ LayoutKnown /\ RootOnTrack /\ Agreement /\ EspEmpty
      /\ (result = "ok" => pc = "idle")
  BY DEF IInv
<1>1. CASE \E keep \in BOOLEAN : Start(keep)
  <2>1. LayoutKnown' /\ RootOnTrack' /\ Agreement' /\ pc' = "confirm"
    BY <1>1 DEF Start, LayoutKnown, RootOnTrack, Agreement, Laid, Formatted
  <2>2. /\ opts' \in [keep : BOOLEAN, yes : BOOLEAN] /\ agreed' = FALSE /\ ids' = None
        /\ result' = "none" /\ UNCHANGED <<disk, nodes, mounted, lost>>
    BY <1>1 DEF Start
  <2>3. pc' \notin {"layout"} \cup Laid
    BY <2>1 DEF Laid
  <2> QED BY <1>0, <2>1, <2>2, <2>3, QuietStep DEF TypeOK, NodesKnown
<1>2. CASE Confirm
  <2>1. LayoutKnown' /\ RootOnTrack' /\ pc' = "partition"
    BY <1>2 DEF Confirm, LayoutKnown, RootOnTrack, Laid, Formatted
  <2>2. result = "none"
    BY <1>0, <1>2 DEF Confirm, Agreement
  <2>3. Agreement'
    BY <1>2, <2>2 DEF Confirm, Agreement
  <2> QED BY <1>0, <1>2, <2>1, <2>2, <2>3, QuietStep, StepNames DEF Confirm, TypeOK, NodesKnown, Laid
<1>3. CASE Decline \/ HasPartitions \/ NodesMissing \/ WrongLayout \/ InUse
  BY <1>3, AbortStep DEF Decline, HasPartitions, NodesMissing, WrongLayout, InUse
<1>4. CASE KeepPartitions
  <2>1. pc = "partition" /\ pc' = "nodes"
    BY <1>4, Order DEF KeepPartitions, Proceed
  <2>2. LayoutKnown' /\ RootOnTrack' /\ Agreement'
    BY <1>0, <1>4, <2>1 DEF KeepPartitions, Proceed, LayoutKnown, RootOnTrack, Agreement, Laid, Formatted
  <2> QED BY <1>0, <1>4, <2>1, <2>2, QuietStep, StepNames DEF KeepPartitions, Proceed, TypeOK, NodesKnown, Laid
<1>5. CASE NodesAppear
  <2>1. pc = "nodes" /\ pc' = "layout"
    BY <1>5, Order DEF NodesAppear, Proceed
  <2>2. LayoutKnown' /\ RootOnTrack' /\ Agreement'
    BY <1>0, <1>5, <2>1 DEF NodesAppear, Proceed, LayoutKnown, RootOnTrack, Agreement, Laid, Formatted
  <2>3. nodes' > 0
    <3>1. nodes \in Nat
      BY <1>0, TableTypes DEF TypeOK
    <3> QED BY <1>5, <3>1, Indices DEF NodesAppear
  <2> QED BY <1>0, <1>5, <2>1, <2>2, <2>3, QuietStep, StepNames DEF NodesAppear, Proceed, TypeOK, NodesKnown, Laid
<1>6. CASE CheckLayout
  <2>1. pc = "layout" /\ pc' = "mkfs.vfat"
    BY <1>6, Order DEF CheckLayout, Proceed
  <2>2. LayoutKnown' /\ RootOnTrack' /\ Agreement'
    BY <1>0, <1>6, <2>1 DEF CheckLayout, ExpectedLayout, ReadIds, Proceed, LayoutKnown, RootOnTrack,
       Agreement, Laid, Formatted, disk
  <2>3. ids' \in Id \cup {None}
    BY <1>0, <1>6, TableTypes DEF CheckLayout, ReadIds, TypeOK
  <2> QED BY <1>0, <1>6, <2>1, <2>2, <2>3, QuietStep, StepNames DEF CheckLayout, Proceed, TypeOK, NodesKnown, Laid
<1>7. CASE Mount
  <2>1. pc = "mount" /\ pc' = "conf"
    BY <1>7, Order DEF Mount, Proceed
  <2>2. LayoutKnown' /\ RootOnTrack' /\ Agreement' /\ EspEmpty'
    BY <1>0, <1>7, <2>1 DEF Mount, Proceed, LayoutKnown, RootOnTrack, Agreement, EspEmpty, Laid, Formatted, disk
  <2> QED BY <1>0, <1>7, <2>1, <2>2, QuietStep, StepNames DEF Mount, Proceed, TypeOK, NodesKnown, Laid, Formatted
<1>8. CASE Reread
  <2>1. nodes' \in {Len(t.types) : t \in Tables} /\ nodes' > 0
    BY <1>0, <1>8, TableTypes DEF Reread, TypeOK
  <2>2. LayoutKnown' /\ RootOnTrack' /\ Agreement' /\ EspEmpty'
    BY <1>0, <1>8 DEF Reread, LayoutKnown, RootOnTrack, Agreement, EspEmpty, Has, disk, run
  <2> QED BY <1>0, <1>8, <2>1, <2>2, QuietStep DEF Reread, TypeOK, run
<1> QED BY <1>1, <1>2, <1>3, <1>4, <1>5, <1>6, <1>7, <1>8

-----------------------------------------------------------------------------
(* Steps that write *)

\* A step of the installation that writes to the root.
LEMMA RootStep ==
    ASSUME IInv, NEW s \in Laid \ {"mkfs.vfat", "mount", "update-esp"}, Proceed(s),
           UNCHANGED <<table, kept, nodes, mounted, ids, lost>>,
           NEW c, c \in Content, c.kind = "root", Write(RootIndex, c),
           s = "mke2fs" => ~mounted, s # "mke2fs" => seen[RootIndex].kind = "root",
           RootOnTrack'
    PROVE  IInv'
<1>0. /\ TypeOK /\ NodesKnown /\ LayoutKnown /\ RootOnTrack /\ Agreement /\ EspEmpty
      /\ (result = "ok" => pc = "idle")
  BY DEF IInv
<1>1. pc = s /\ pc' = Follows(s) /\ UNCHANGED <<opts, agreed, result>>
  BY DEF Proceed
<1>2. pc' \in Laid \ {"mkfs.vfat", "mke2fs"} /\ pc' \in Step /\ pc # "idle" /\ pc' # "idle"
  BY <1>1, Order, StepNames DEF Laid
<1>3. seen' = [seen EXCEPT ![RootIndex] = c] /\ seen \in [Index -> Content]
  BY <1>0 DEF Write, TypeOK
<1>4. seen' \in [Index -> Content] /\ seen'[RootIndex] = c /\ seen'[EspIndex] = seen[EspIndex]
  BY <1>3, Indices
<1>5. TypeOK'
  BY <1>0, <1>1, <1>2, <1>4 DEF TypeOK
<1>6. LayoutKnown' /\ NodesKnown' /\ Agreement'
  <2>1. table.types = PartTypes /\ ids = table.id /\ nodes > 0
    BY <1>0, <1>1 DEF LayoutKnown, NodesKnown
  <2>2. pc # "confirm" /\ pc' # "confirm"
    BY <1>1, <1>2 DEF Laid
  <2>3. Agreement'
    BY <1>0, <1>1, <1>2, <2>2 DEF Agreement
  <2> QED BY <2>1, <2>3 DEF LayoutKnown, NodesKnown
<1>7. seen[EspIndex] = Esp(None)
  <2>1. s # "mkfs.vfat"
    OBVIOUS
  <2>2. s = "mke2fs" => seen[EspIndex] = Esp(None)
    BY <1>0, <1>1 DEF EspEmpty
  <2> QED BY <1>0, <1>1, <2>1 DEF EspEmpty
<1>8. EspEmpty' /\ BootsCompleteRoot'
  BY <1>4, <1>7, Kinds DEF EspEmpty, BootsCompleteRoot, BootFiles
<1>9. NothingWithoutTable'
  BY <1>0, <1>1, Indices DEF LayoutKnown, NothingWithoutTable
<1>10. result' # "ok"
  BY <1>0, <1>1, <1>2
<1> QED BY <1>5, <1>6, <1>8, <1>9, <1>10 DEF IInv, SuccessMeansInstalled

LEMMA RootActions ==
    ASSUME IInv,
           \/ MakeRoot \/ ProvisionRepository \/ InstallPackages \/ ProvisionAccounts
           \/ SetModes \/ WritePartitionConfig
    PROVE  IInv'
<1>0. TypeOK /\ LayoutKnown /\ RootOnTrack /\ seen \in [Index -> Content]
  BY DEF IInv, TypeOK
<1>1. CASE MakeRoot
  <2>1. /\ Proceed("mke2fs") /\ pc' = "mount" /\ ~mounted
        /\ Write(RootIndex, Root({}, None)) /\ UNCHANGED <<table, kept, nodes, mounted, ids, lost>>
    BY <1>1, Order DEF MakeRoot, Proceed
  <2>2. Root({}, None) \in Content /\ Root({}, None).kind = "root"
    BY Contents, Kinds
  <2>3. seen'[RootIndex] = Root({}, None)
    BY <1>0, <2>1, Indices DEF Write
  <2>4. RootOnTrack'
    BY <2>1, <2>2, <2>3 DEF RootOnTrack, Formatted, Laid
  <2> QED BY <2>1, <2>2, <2>4, RootStep DEF Laid
<1>2. ASSUME NEW s \in {"conf", "packages", "accounts", "dirs"}, NEW has \in SUBSET Piece, Fill(s, has),
             /\ s # "conf" => "conf" \in has
             /\ s \in {"accounts", "dirs"} => "packages" \in has
             /\ s = "dirs" => "accounts" \in has
             /\ s \in has
      PROVE  IInv'
  <2>1. Proceed(s) /\ pc = s /\ pc' = Follows(s) /\ UNCHANGED <<table, kept, nodes, mounted, ids, lost>>
    BY <1>2 DEF Fill, Proceed
  <2>2. seen[RootIndex].kind = "root" /\ seen[RootIndex] \in Content
    BY <1>0, <2>1, Indices DEF RootOnTrack, Formatted, Laid
  <2> DEFINE c == [seen[RootIndex] EXCEPT !.has = has]
  <2>3. c = Root(has, seen[RootIndex].toml) /\ seen[RootIndex].toml \in Id \cup {None}
    BY <2>2, RootContent DEF Root
  <2>4. c \in Content /\ c.kind = "root" /\ c.has = has
    <3> HIDE DEF c
    <3> QED BY <2>3, Contents, Kinds
  <2>5. Write(RootIndex, c) /\ seen'[RootIndex] = c
    BY <1>0, <1>2, Indices DEF Fill, Write
  <2>6. RootOnTrack'
    BY <1>2, <2>1, <2>4, <2>5, Order DEF RootOnTrack, Has
  <2> HIDE DEF c
  <2> QED BY <1>2, <2>1, <2>2, <2>4, <2>5, <2>6, RootStep DEF Laid
<1>3. CASE ProvisionRepository \/ InstallPackages \/ ProvisionAccounts \/ SetModes
  <2>1. pc \in {"conf", "packages", "accounts", "dirs"}
    BY <1>3 DEF ProvisionRepository, InstallPackages, ProvisionAccounts, SetModes, Fill, Proceed
  <2>2. Has \in SUBSET Piece
    BY <1>0, <2>1, RootContent, Indices DEF RootOnTrack, Formatted, Laid, Has
  <2>3. CASE ProvisionRepository
    BY <1>2, <2>2, <2>3 DEF ProvisionRepository, Piece
  <2>4. CASE InstallPackages
    <3>1. "conf" \in (Has \ {"accounts"}) \cup {"packages"}
      BY <2>4 DEF InstallPackages
    <3> QED BY <1>2, <2>2, <2>4, <3>1 DEF InstallPackages, Piece
  <2>5. CASE ProvisionAccounts
    <3>1. "conf" \in Has /\ "packages" \in Has
      BY <1>0, <2>5 DEF ProvisionAccounts, Fill, Proceed, RootOnTrack
    <3> QED BY <1>2, <2>2, <2>5, <3>1 DEF ProvisionAccounts, Piece
  <2>6. CASE SetModes
    <3>1. "conf" \in Has /\ "packages" \in Has /\ "accounts" \in Has
      BY <1>0, <2>6 DEF SetModes, Fill, Proceed, RootOnTrack
    <3> QED BY <1>2, <2>2, <2>6, <3>1 DEF SetModes, Piece
  <2> QED BY <1>3, <2>3, <2>4, <2>5, <2>6
<1>4. CASE WritePartitionConfig
  <2>1. /\ Proceed("partitions.toml") /\ pc = "partitions.toml" /\ pc' = "update-esp"
        /\ Write(RootIndex, Root(Has, ids)) /\ UNCHANGED <<table, kept, nodes, mounted, ids, lost>>
    BY <1>4, Order DEF WritePartitionConfig, Proceed
  <2>2. Has = Piece /\ seen[RootIndex].kind = "root"
    <3>1. seen[RootIndex].kind = "root" /\ {"conf", "packages", "accounts", "dirs"} \subseteq Has
      BY <1>0, <2>1 DEF RootOnTrack, Formatted, Laid
    <3>2. Has \in SUBSET Piece
      BY <1>0, <3>1, RootContent, Indices DEF Has
    <3> QED BY <3>1, <3>2 DEF Piece
  <2>3. Root(Has, ids) \in Content /\ Root(Has, ids).kind = "root"
    BY <1>0, <2>2, Contents, Kinds DEF TypeOK
  <2>4. seen'[RootIndex] = Root(Piece, ids)
    BY <1>0, <2>1, <2>2, Indices DEF Write
  <2>5. RootOnTrack'
    BY <2>1, <2>2, <2>3, <2>4 DEF RootOnTrack
  <2> QED BY <2>1, <2>2, <2>3, <2>5, RootStep DEF Laid
<1> QED BY <1>1, <1>3, <1>4

LEMMA MakeEspStep == IInv /\ MakeEsp => IInv'
<1> SUFFICES ASSUME IInv, MakeEsp PROVE IInv'
  OBVIOUS
<1>0. /\ TypeOK /\ NodesKnown /\ LayoutKnown /\ Agreement /\ seen \in [Index -> Content]
  BY DEF IInv, TypeOK
<1>1. /\ pc = "mkfs.vfat" /\ pc' = "mke2fs" /\ UNCHANGED <<opts, agreed, result>>
      /\ UNCHANGED <<table, kept, nodes, mounted, ids>> /\ lost' = FALSE
      /\ seen' = [seen EXCEPT ![EspIndex] = Esp(None)]
  BY Order DEF MakeEsp, Proceed, Write
<1>2. Esp(None) \in Content
  BY Contents
<1>3. /\ seen' \in [Index -> Content] /\ seen'[EspIndex] = Esp(None)
      /\ seen'[RootIndex] = seen[RootIndex]
  BY <1>0, <1>1, <1>2, Indices
<1>4. TypeOK'
  BY <1>0, <1>1, <1>3, StepNames DEF TypeOK, Laid
<1>5. LayoutKnown' /\ NodesKnown' /\ Agreement' /\ EspEmpty' /\ RootOnTrack'
  BY <1>0, <1>1, <1>3 DEF LayoutKnown, NodesKnown, Agreement, EspEmpty, RootOnTrack, Laid, Formatted
<1>6. NothingWithoutTable'
  BY <1>0, <1>1, Indices DEF LayoutKnown, NothingWithoutTable, Laid
<1>7. BootsCompleteRoot'
  BY <1>3, Kinds DEF BootsCompleteRoot, BootFiles
<1>8. result' # "ok"
  BY <1>0, <1>1 DEF Agreement
<1> QED BY <1>4, <1>5, <1>6, <1>7, <1>8 DEF IInv, SuccessMeansInstalled

\* A disk that has been emptied.
LEMMA BlankStep ==
    ASSUME IInv, ~mounted, UNCHANGED <<nodes, mounted, lost>>, table' \in Tables,
           seen' = [i \in Index |-> Blank], kept' = seen',
           opts' \in [keep : BOOLEAN, yes : BOOLEAN], agreed' \in BOOLEAN, ids' \in Id \cup {None},
           pc' \in {"idle", "nodes"}, result' \in {"none", "failed"}, Agreement'
    PROVE  IInv'
<1>1. TypeOK'
  BY Contents DEF IInv, TypeOK, Step, Steps
<1>2. NothingWithoutTable' /\ BootsCompleteRoot'
  BY Kinds, Indices DEF NothingWithoutTable, BootsCompleteRoot, BootFiles
<1>3. LayoutKnown' /\ NodesKnown' /\ EspEmpty' /\ RootOnTrack'
  BY DEF LayoutKnown, NodesKnown, EspEmpty, RootOnTrack, Laid, Formatted
<1> QED BY <1>1, <1>2, <1>3 DEF IInv, SuccessMeansInstalled

LEMMA PartitionStep == IInv /\ (Partition \/ Wipe) => IInv'
<1>0. IInv => TypeOK /\ NodesKnown /\ Agreement
  BY DEF IInv
<1>1. ASSUME IInv, Partition PROVE IInv'
  <2>1. /\ pc = "partition" /\ pc' = "nodes" /\ UNCHANGED <<opts, agreed, result>>
        /\ nodes = 0 /\ UNCHANGED <<nodes, mounted, ids, lost>>
    BY <1>1, Order DEF Partition, Proceed, MayPartition
  <2>2. table' \in Tables /\ seen' = [i \in Index |-> Blank] /\ kept' = seen'
    BY <1>1 DEF Partition, Tables
  <2>3. ~mounted
    BY <1>0, <1>1, <2>1 DEF NodesKnown
  <2>4. Agreement' /\ result' = "none"
    BY <1>0, <1>1, <2>1 DEF Agreement
  <2> QED BY <1>0, <1>1, <2>1, <2>2, <2>3, <2>4, BlankStep DEF TypeOK
<1>2. ASSUME IInv, Wipe PROVE IInv'
  <2>1. /\ pc = "idle" /\ ~mounted /\ table' = [table EXCEPT !.types = <<>>]
        /\ seen' = [i \in Index |-> Blank] /\ kept' = seen' /\ result' = "none"
        /\ UNCHANGED <<nodes, mounted, opts, pc, agreed, ids, lost>>
    BY <1>2 DEF Wipe
  <2>2. table' \in Tables
    BY <1>0, <1>2, <2>1 DEF TypeOK, Tables
  <2>3. Agreement'
    BY <2>1 DEF Agreement
  <2> QED BY <1>0, <1>2, <2>1, <2>2, <2>3, BlankStep DEF TypeOK
<1> QED BY <1>1, <1>2

\* What update-boot.py leaves of the disk, before or after its sync.
LEMMA BootWritten ==
    ASSUME IInv, WriteBoot, UNCHANGED table
    PROVE  /\ pc = "update-esp" /\ table.types = PartTypes
           /\ seen' \in [Index -> Content]
           /\ seen'[EspIndex] = Esp(table.id) /\ seen'[RootIndex] = Root(Piece, table.id)
           /\ \A i \in BiosIndices : seen'[i] = Stages
<1>0. TypeOK /\ LayoutKnown /\ RootOnTrack /\ seen \in [Index -> Content] /\ table \in Tables
  BY DEF IInv, TypeOK
<1>1. /\ pc = "update-esp"
      /\ seen' = [i \in Index |-> IF i = EspIndex THEN Esp(table.id)
                                  ELSE IF i \in BiosIndices THEN Stages ELSE seen[i]]
  BY DEF WriteBoot
<1>2. table.types = PartTypes /\ ids = table.id /\ seen[RootIndex] = Root(Piece, table.id)
  BY <1>0, <1>1 DEF LayoutKnown, RootOnTrack, Laid
<1>3. /\ seen'[EspIndex] = Esp(table.id) /\ seen'[RootIndex] = Root(Piece, table.id)
      /\ \A i \in BiosIndices : seen'[i] = Stages
  BY <1>1, <1>2, Indices
<1>4. seen' \in [Index -> Content]
  BY <1>0, <1>1, Contents, TableTypes
<1> QED BY <1>1, <1>2, <1>3, <1>4

LEMMA BootWrittenInv ==
    ASSUME IInv, WriteBoot, UNCHANGED <<table, nodes, mounted, opts, agreed, ids, lost>>,
           \/ kept' = seen' /\ result' = "ok"
           \/ UNCHANGED kept /\ result' = "failed",
           pc' = "idle"
    PROVE  IInv'
<1>0. TypeOK /\ NodesKnown
  BY DEF IInv
<1>1. /\ pc = "update-esp" /\ table.types = PartTypes /\ seen' \in [Index -> Content]
      /\ seen'[EspIndex] = Esp(table.id) /\ seen'[RootIndex] = Root(Piece, table.id)
      /\ \A i \in BiosIndices : seen'[i] = Stages
  BY BootWritten
<1>2. TypeOK'
  BY <1>0, <1>1, Kinds DEF TypeOK
<1>3. SuccessMeansInstalled' /\ BootsCompleteRoot'
  BY <1>1, Kinds DEF SuccessMeansInstalled, Installed, BootsCompleteRoot
<1>4. NothingWithoutTable'
  BY <1>1, Indices DEF NothingWithoutTable
<1>5. NodesKnown'
  BY <1>0, <1>1 DEF NodesKnown, Laid
<1>6. LayoutKnown' /\ EspEmpty' /\ RootOnTrack' /\ Agreement'
  BY DEF LayoutKnown, EspEmpty, RootOnTrack, Agreement, Laid, Formatted
<1> QED BY <1>2, <1>3, <1>4, <1>5, <1>6 DEF IInv

LEMMA UpdateEspStep == IInv /\ UpdateEsp => IInv'
BY BootWrittenInv DEF UpdateEsp

\* A command that fails while it writes to a file system.
LEMMA TearStep ==
    ASSUME IInv, Fail, pc \in Laid \ {"mount"}, NEW i \in InProgress, Write(i, Torn),
           UNCHANGED <<table, kept>>
    PROVE  IInv'
<1>0. /\ TypeOK /\ NodesKnown /\ LayoutKnown /\ EspEmpty /\ seen \in [Index -> Content]
      /\ Torn \in Content
  BY Contents DEF IInv, TypeOK
<1>1. /\ pc' = "idle" /\ result' = "failed" /\ UNCHANGED <<opts, agreed, ids, nodes, mounted, lost>>
  BY DEF Fail, Abort
<1>2. i \in Index /\ i \in BiosIndices \cup {EspIndex, RootIndex}
  BY Indices DEF InProgress
<1>3. /\ seen' = [seen EXCEPT ![i] = Torn] /\ seen' \in [Index -> Content]
      /\ \A j \in Index : seen'[j] = IF j = i THEN Torn ELSE seen[j]
  BY <1>0, <1>2 DEF Write
<1>4. TypeOK'
  BY <1>0, <1>1, <1>3, Kinds, Indices DEF TypeOK
<1>5. NothingWithoutTable'
  BY <1>0, Indices DEF LayoutKnown, NothingWithoutTable
<1>6. BootsCompleteRoot'
  <2>1. i = EspIndex \/ seen[EspIndex] = Esp(None)
    BY <1>0 DEF EspEmpty, InProgress
  <2> QED BY <1>3, <2>1, Kinds, Indices DEF BootsCompleteRoot, BootFiles
<1>7. LayoutKnown' /\ EspEmpty' /\ RootOnTrack' /\ Agreement' /\ NodesKnown'
  BY <1>0, <1>1 DEF LayoutKnown, EspEmpty, RootOnTrack, Agreement, NodesKnown, Laid, Formatted
<1> QED BY <1>1, <1>4, <1>5, <1>6, <1>7 DEF IInv, SuccessMeansInstalled

LEMMA FailStep == IInv /\ Fail => IInv'
<1> SUFFICES ASSUME IInv, Fail PROVE IInv'
  OBVIOUS
<1>0. TypeOK /\ NodesKnown /\ pc # "idle"
  BY DEF IInv, Fail
<1>1. CASE UNCHANGED disk
  BY <1>1, AbortStep DEF Fail
<1>2. CASE /\ pc = "partition" /\ MayPartition
           /\ table' = [table EXCEPT !.types = <<>>]
           /\ seen' = [i \in Index |-> Blank] /\ kept' = seen'
  <2>1. /\ pc' = "idle" /\ result' = "failed" /\ UNCHANGED <<opts, agreed, ids, nodes, mounted, lost>>
    BY DEF Fail, Abort
  <2>2. table' \in Tables
    BY <1>0, <1>2 DEF TypeOK, Tables
  <2>3. ~mounted
    BY <1>0, <1>2 DEF NodesKnown, MayPartition
  <2>4. Agreement'
    BY <2>1 DEF Agreement
  <2> QED BY <1>0, <1>2, <2>1, <2>2, <2>3, <2>4, BlankStep DEF TypeOK
<1>3. CASE /\ ~Untouched /\ pc # "partition"
           /\ \E i \in InProgress : Write(i, Torn)
           /\ UNCHANGED <<table, kept>>
  <2>1. pc \in Laid \ {"mount"}
    BY <1>0, <1>3, StepNames DEF TypeOK, Untouched
  <2> QED BY <1>3, <2>1, TearStep
<1>4. CASE WriteBoot /\ UNCHANGED <<table, kept>>
  BY <1>4, BootWrittenInv DEF Fail, Abort
<1> QED BY <1>1, <1>2, <1>3, <1>4 DEF Fail

LEMMA RebootStep == IInv /\ Reboot => IInv'
<1> SUFFICES ASSUME IInv, Reboot PROVE IInv'
  OBVIOUS
<1>0. /\ TypeOK /\ seen \in [Index -> Content] /\ kept \in [Index -> Content]
      /\ NothingWithoutTable /\ SuccessMeansInstalled /\ BootsCompleteRoot
  BY DEF IInv, TypeOK
<1>1. /\ pc' = "idle" /\ result' = (IF pc = "idle" THEN result ELSE "failed")
      /\ mounted' = FALSE /\ nodes' = Len(table.types) /\ kept' = seen'
      /\ lost' = (lost \/ (seen' # seen /\ BootFiles(seen'))) /\ UNCHANGED <<table, opts, agreed, ids>>
  BY DEF Reboot
<1>2. /\ seen' \in [Index -> Content]
      /\ \A i \in Index : seen[i] = kept[i] => seen'[i] = seen[i]
  <2>1. PICK left \in [{i \in Index : seen[i] # kept[i]} -> {"new", "old", "torn"}] :
            seen' = [i \in Index |->
                       IF i \in DOMAIN left /\ left[i] = "torn" THEN Torn
                       ELSE IF i \in DOMAIN left /\ left[i] = "old" THEN kept[i] ELSE seen[i]]
    BY DEF Reboot
  <2>2. DOMAIN left = {i \in Index : seen[i] # kept[i]}
    OBVIOUS
  <2> QED BY <1>0, <2>1, <2>2, Contents
<1>3. TypeOK'
  BY <1>0, <1>1, <1>2 DEF TypeOK
<1>4. NothingWithoutTable'
  BY <1>0, <1>1, <1>2 DEF NothingWithoutTable
<1>5. SuccessMeansInstalled'
  BY <1>0, <1>1, <1>2, Indices DEF SuccessMeansInstalled, Installed
<1>6. BootsCompleteRoot'
  <2>1. CASE seen' = seen
    BY <1>0, <1>1, <2>1 DEF BootsCompleteRoot, BootFiles
  <2>2. CASE seen' # seen
    BY <1>1, <2>2 DEF BootsCompleteRoot, BootFiles
  <2> QED BY <2>1, <2>2
<1>7. LayoutKnown' /\ EspEmpty' /\ RootOnTrack' /\ Agreement' /\ NodesKnown'
  BY <1>1 DEF LayoutKnown, EspEmpty, RootOnTrack, Agreement, NodesKnown, Laid, Formatted
<1> QED BY <1>1, <1>3, <1>4, <1>5, <1>6, <1>7 DEF IInv

LEMMA InvStep == IInv /\ [Next]_vars => IInv'
<1>1. ASSUME IInv, UNCHANGED vars PROVE IInv'
  BY <1>1 DEF vars, disk, run, IInv, TypeOK, LayoutKnown, EspEmpty, RootOnTrack, NodesKnown, Has,
              NothingWithoutTable, Agreement, SuccessMeansInstalled, Installed, BootsCompleteRoot, BootFiles
<1>2. ASSUME IInv, Next PROVE IInv'
  BY <1>2, QuietActions, RootActions, MakeEspStep, PartitionStep, UpdateEspStep, FailStep, RebootStep
     DEF Next, Commands
<1> QED BY <1>1, <1>2

-----------------------------------------------------------------------------
(* The theorems *)

LEMMA Invariance == Spec => []IInv
<1> QED BY InvInit, InvStep, PTL DEF Spec

\* The table, the partitions and the run keep their types.
THEOREM TypeCorrect == Spec => []TypeOK
<1>1. IInv => TypeOK
  BY DEF IInv
<1> QED BY <1>1, Invariance, PTL

\* What is called done is complete, and survives the reboot (cmd_disk).
THEOREM DoneIsInstalled == Spec => []SuccessMeansInstalled
<1>1. IInv => SuccessMeansInstalled
  BY DEF IInv
<1> QED BY <1>1, Invariance, PTL

\* However runs end, boot files go with the whole root that they boot, as long as no
\* reboot loses writes and leaves boot files, or again after the next mkfs.vfat (cmd_disk).
THEOREM BootFilesGoLast == Spec => []BootsCompleteRoot
<1>1. IInv => BootsCompleteRoot
  BY DEF IInv
<1> QED BY <1>1, Invariance, PTL

\* The table is written by sfdisk alone.
LEMMA TableAgreed ==
    ASSUME IInv, Next, RunStep, table' # table
    PROVE  agreed /\ MayPartition
<1>1. CASE Partition
  BY <1>1 DEF IInv, Agreement, Partition, Proceed
<1>2. CASE Fail
  <2>1. pc = "partition" /\ MayPartition
    BY <1>2 DEF Fail, disk
  <2> QED BY <2>1 DEF IInv, Agreement
<1>3. CASE (Commands /\ ~Partition) \/ (\E keep \in BOOLEAN : Start(keep)) \/ Decline \/ Reread
  <2> USE DEF Start, Confirm, Decline, KeepPartitions, HasPartitions, NodesAppear, NodesMissing,
       CheckLayout, WrongLayout, InUse, Mount, Reread, MakeEsp, MakeRoot, ProvisionRepository,
       InstallPackages, ProvisionAccounts, SetModes, Fill, WritePartitionConfig, UpdateEsp, disk
  <2> QED BY <1>3 DEF Commands
<1> QED BY <1>1, <1>2, <1>3 DEF Next, RunStep, Commands

\* What a run may change once it knows the layout.
OfOurs(i) ==
    /\ table.types = PartTypes
    /\ i \in {EspIndex, RootIndex} \/ (i \in BiosIndices /\ seen'[i] \in {Stages, Torn})

LEMMA StepsAgreed ==
    ASSUME IInv, Next, RunStep, NEW i \in Index, seen'[i] # seen[i]
    PROVE  agreed /\ (table' # table \/ OfOurs(i))
<1>0. /\ TypeOK /\ Agreement /\ LayoutKnown /\ NothingWithoutTable /\ seen \in [Index -> Content]
  BY DEF IInv, TypeOK
<1>1. ASSUME pc \in Laid PROVE agreed /\ table.types = PartTypes
  BY <1>0, <1>1 DEF Agreement, LayoutKnown, Laid
<1>2. ASSUME WriteBoot PROVE agreed /\ OfOurs(i)
  <2>1. i = EspIndex \/ (i \in BiosIndices /\ seen'[i] = Stages)
    BY <1>2 DEF WriteBoot
  <2>2. pc \in Laid
    BY <1>2 DEF WriteBoot, Laid
  <2> QED BY <1>1, <2>1, <2>2 DEF OfOurs
<1>3. CASE Partition
  <2>1. agreed
    BY <1>0, <1>3 DEF Agreement, Partition, Proceed
  <2>2. table' # table
    BY <1>3 DEF Partition
  <2> QED BY <2>1, <2>2
<1>4. CASE Fail
  <2>1. CASE UNCHANGED disk
    BY <2>1 DEF disk
  <2>2. CASE /\ pc = "partition" /\ MayPartition
             /\ table' = [table EXCEPT !.types = <<>>]
             /\ seen' = [j \in Index |-> Blank]
    <3>1. agreed
      BY <1>0, <2>2 DEF Agreement
    <3>2. table' # table
      <4> SUFFICES ASSUME table' = table PROVE FALSE
        OBVIOUS
      <4>1. table.types = <<>>
        BY <1>0, <2>2 DEF TypeOK, Tables
      <4> QED BY <1>0, <2>2, <4>1 DEF NothingWithoutTable
    <3> QED BY <3>1, <3>2
  <2>3. CASE ~Untouched /\ pc # "partition" /\ \E j \in InProgress : Write(j, Torn)
    <3>1. pc \in Laid
      BY <1>0, <1>4, <2>3, StepNames DEF TypeOK, Untouched, Fail
    <3>2. i \in InProgress /\ seen'[i] = Torn
      BY <1>0, <2>3, Indices DEF Write, InProgress
    <3>3. i \in BiosIndices \cup {EspIndex, RootIndex}
      BY <3>2 DEF InProgress
    <3> QED BY <1>1, <3>1, <3>2, <3>3 DEF OfOurs
  <2>4. CASE WriteBoot
    BY <1>2, <2>4
  <2> QED BY <1>4, <2>1, <2>2, <2>3, <2>4 DEF Fail
<1>5. CASE MakeEsp
  <2>1. i = EspIndex
    BY <1>0, <1>5 DEF MakeEsp, Write
  <2> QED BY <1>1, <1>5, <2>1 DEF MakeEsp, Proceed, Laid, OfOurs
<1>6. CASE MakeRoot \/ WritePartitionConfig
  <2>1. i = RootIndex
    BY <1>0, <1>6 DEF MakeRoot, WritePartitionConfig, Write
  <2> QED BY <1>1, <1>6, <2>1 DEF MakeRoot, WritePartitionConfig, Proceed, Laid, OfOurs
<1>7. CASE ProvisionRepository \/ InstallPackages \/ ProvisionAccounts \/ SetModes
  <2> USE DEF ProvisionRepository, InstallPackages, ProvisionAccounts, SetModes, Fill
  <2>1. i = RootIndex
    BY <1>0, <1>7 DEF Write
  <2> QED BY <1>1, <1>7, <2>1 DEF Proceed, Laid, OfOurs
<1>8. CASE UpdateEsp
  BY <1>2, <1>8 DEF UpdateEsp
<1>9. CASE \/ \E keep \in BOOLEAN : Start(keep)
           \/ Confirm \/ Decline \/ KeepPartitions \/ HasPartitions
           \/ NodesAppear \/ NodesMissing \/ CheckLayout \/ WrongLayout
           \/ InUse \/ Mount \/ Reread
  BY <1>9 DEF Start, Confirm, Decline, KeepPartitions, HasPartitions, NodesAppear, NodesMissing,
     CheckLayout, WrongLayout, InUse, Mount, Reread, disk
<1> QED BY <1>3, <1>4, <1>5, <1>6, <1>7, <1>8, <1>9 DEF Next, Commands, RunStep

\* The table, and with it the whole disk, is written only after the user has agreed and
\* for a disk without partitions; else a run writes, after the user has agreed, to the
\* ESP, the root and, the stages alone, the BIOS boot partition of a layout like ours
\* (cmd_disk).
THEOREM OnlyAgreedIsChanged == Spec => ChangesWhatWasAgreed
<1> DEFINE A == RunStep =>
                 /\ table' # table => agreed /\ MayPartition
                 /\ \A i \in Index : seen'[i] # seen[i] =>
                     /\ agreed
                     /\ \/ table' # table
                        \/ table.types = PartTypes /\ i \in {EspIndex, RootIndex}
                        \/ table.types = PartTypes /\ i \in BiosIndices /\ seen'[i] \in {Stages, Torn}
<1>1. ASSUME IInv, Next PROVE A
  <2> SUFFICES ASSUME RunStep PROVE A
    OBVIOUS
  <2>1. table' # table => agreed /\ MayPartition
    BY <1>1, TableAgreed
  <2>2. \A i \in Index : seen'[i] # seen[i] => agreed /\ (table' # table \/ OfOurs(i))
    BY <1>1, StepsAgreed
  <2> QED BY <2>1, <2>2 DEF OfOurs
<1>2. IInv /\ [Next]_vars => [A]_vars
  BY <1>1
<1> QED BY <1>2, Invariance, PTL DEF Spec, ChangesWhatWasAgreed
=============================================================================
