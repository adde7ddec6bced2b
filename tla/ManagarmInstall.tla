--------------------------- MODULE ManagarmInstall ---------------------------
(* managarm-install.py disk: installation onto a disk of the running system.

   The disk has a table of partitions and their contents; the kernel has nodes for
   the partitions that it has read.  A run partitions the disk or keeps a layout,
   formats the ESP and the root, mounts the root and fills both.  Commands fail, runs
   are killed, the machine reboots; whoever installs tries again, with or without
   --keep-partitions.  There is no umount(2): what is not synced is lost at a reboot. *)
EXTENDS Naturals, Sequences

CONSTANTS
    Type,       \* partition types
    PartTypes,  \* the types of the partitions of an installation
    Foreign,    \* other layouts that a disk may have
    Id,         \* disk identifiers; each partition's PARTUUID follows from it
    None

ASSUME ConstantsAssumption ==
    /\ PartTypes \in Seq(Type) /\ Len(PartTypes) >= 2 /\ Foreign \subseteq Seq(Type)
    /\ PartTypes \notin Foreign /\ <<>> \notin Foreign
    /\ Id # {} /\ None \notin Id

EspIndex == Len(PartTypes) - 1
RootIndex == Len(PartTypes)
BiosIndices == 1..(Len(PartTypes) - 2)   \* none, if Limine's stages need no partition
Index == UNION {DOMAIN types : types \in Foreign \cup {PartTypes}}

VARIABLES
    table,    \* [types, id] as it is on the disk; no types: no table
    nodes,    \* how many partitions the kernel has nodes for
    seen,     \* the content of each partition
    kept,     \* what a reboot leaves of it
    mounted,  \* whether the root partition is mounted
    opts,     \* --keep-partitions and --yes
    pc,       \* the next command
    agreed,   \* whether the user has agreed, or has given --yes
    ids,      \* esp_partuuid and root_partuuid
    result,   \* of the last run: "none", "ok" or "failed"
    lost      \* history: a reboot has lost writes, but left boot files

disk == <<table, seen, kept>>
run == <<opts, pc, agreed, ids, result>>
vars == <<disk, nodes, mounted, run, lost>>

\* mutant: the root is formatted first.
Steps_RootFirst ==
    <<"partition", "nodes", "layout", "mke2fs", "mkfs.vfat", "mount", "conf",
      "packages", "accounts", "dirs", "partitions.toml", "update-esp">>

Steps == <<"partition", "nodes", "layout", "mkfs.vfat", "mke2fs", "mount", "conf",
           "packages", "accounts", "dirs", "partitions.toml", "update-esp">>
Step == {Steps[i] : i \in DOMAIN Steps}

\* What is on the root in the end.
Piece == {"conf", "packages", "accounts", "dirs"}

Blank == [kind |-> "blank"]
Torn == [kind |-> "torn"]
Stages == [kind |-> "stages"]
Alien == [kind |-> "alien"]   \* data that somebody may want to keep
Esp(boot) == [kind |-> "esp", boot |-> boot]
Root(has, toml) == [kind |-> "root", has |-> has, toml |-> toml]

Content == {Blank, Torn, Stages, Alien} \cup {Esp(b) : b \in Id \cup {None}}
           \cup {Root(h, t) : h \in SUBSET Piece, t \in Id \cup {None}}

\* The ESP boots a root.
BootFiles(v) == v[EspIndex].kind = "esp" /\ v[EspIndex].boot # None

Tables == [types : Foreign \cup {PartTypes, <<>>}, id : Id]

\* A disk without partitions, with foreign ones, or with an older installation.
Init ==
    /\ table \in Tables
    /\ nodes = Len(table.types)
    /\ seen = [i \in Index |->
                 IF table.types # PartTypes
                 THEN IF i \in DOMAIN table.types THEN Alien ELSE Blank
                 ELSE IF i = EspIndex THEN Esp(table.id)
                 ELSE IF i = RootIndex THEN Root(Piece, table.id)
                 ELSE IF i \in BiosIndices THEN Stages ELSE Blank]
    /\ kept = seen
    /\ mounted = FALSE
    /\ opts = [keep |-> FALSE, yes |-> FALSE] /\ pc = "idle" /\ agreed = FALSE
    /\ ids = None /\ result = "none" /\ lost = FALSE

-----------------------------------------------------------------------------
Follows(s) == LET i == CHOOSE i \in DOMAIN Steps : Steps[i] = s IN Steps[i + 1]

\* A command succeeds and the next one runs.
Proceed(s) == pc = s /\ pc' = Follows(s) /\ UNCHANGED <<opts, agreed, result>>

\* InstallError or CalledProcessError.
Abort == pc' = "idle" /\ result' = "failed" /\ UNCHANGED <<opts, agreed, ids>>

Write(i, c) == seen' = [seen EXCEPT ![i] = c]

\* Nothing is asked before these checks, and they change nothing.
Start(keep) ==
    /\ pc = "idle"
    /\ \E yes \in BOOLEAN : opts' = [keep |-> keep, yes |-> yes]
    /\ pc' = "confirm" /\ agreed' = FALSE /\ ids' = None /\ result' = "none"
    /\ UNCHANGED <<disk, nodes, mounted, lost>>

Confirm ==
    /\ pc = "confirm"
    /\ pc' = "partition" /\ agreed' = TRUE
    /\ UNCHANGED <<disk, nodes, mounted, opts, ids, result, lost>>

Decline ==
    /\ pc = "confirm" /\ ~opts.yes
    /\ Abort
    /\ UNCHANGED <<disk, nodes, mounted, lost>>

KeepPartitions ==
    /\ opts.keep /\ Proceed("partition")
    /\ UNCHANGED <<disk, nodes, mounted, ids, lost>>

HasPartitions ==
    /\ pc = "partition" /\ ~opts.keep /\ nodes > 0
    /\ Abort
    /\ UNCHANGED <<disk, nodes, mounted, lost>>

MayPartition == ~opts.keep /\ nodes = 0

\* sfdisk writes the table at its end, and syncs it.
Partition ==
    /\ MayPartition /\ Proceed("partition")
    /\ \E id \in Id \ {table.id} : table' = [types |-> PartTypes, id |-> id]
    /\ seen' = [i \in Index |-> Blank] /\ kept' = seen'
    /\ UNCHANGED <<nodes, mounted, ids, lost>>

\* The kernel reads the table of a disk without partitions, sooner or later.
Reread ==
    /\ nodes = 0 /\ table.types # <<>>
    /\ nodes' = Len(table.types)
    /\ UNCHANGED <<disk, mounted, run, lost>>

NodesAppear ==
    /\ nodes >= Len(PartTypes) /\ Proceed("nodes")
    /\ UNCHANGED <<disk, nodes, mounted, ids, lost>>

NodesMissing ==
    /\ pc = "nodes" /\ nodes < Len(PartTypes)
    /\ Abort
    /\ UNCHANGED <<disk, nodes, mounted, lost>>

\* mutant: a layout that begins like ours will do.
ExpectedLayout_Prefix ==
    /\ Len(table.types) >= Len(PartTypes)
    /\ \E i \in DOMAIN PartTypes : table.types[i] = PartTypes[i]

\* partitions_of reads the disk, not the nodes.
ExpectedLayout == table.types = PartTypes

\* mutant: the UUIDs that the kernel read at its start, before sfdisk wrote new ones.
ReadIds_Stale == ids' = CHOOSE id \in Id : TRUE

ReadIds == ids' = table.id

CheckLayout ==
    /\ ExpectedLayout /\ Proceed("layout")
    /\ ReadIds
    /\ UNCHANGED <<disk, nodes, mounted, lost>>

WrongLayout ==
    /\ pc = "layout" /\ ~ExpectedLayout
    /\ Abort
    /\ UNCHANGED <<disk, nodes, mounted, lost>>

MakeEsp ==
    /\ Proceed("mkfs.vfat")
    /\ Write(EspIndex, Esp(None)) /\ lost' = FALSE
    /\ UNCHANGED <<table, kept, nodes, mounted, ids>>

\* mke2fs refuses a mounted partition, for which it would need a second -F.
MakeRoot ==
    /\ ~mounted /\ Proceed("mke2fs")
    /\ Write(RootIndex, Root({}, None))
    /\ UNCHANGED <<table, kept, nodes, mounted, ids, lost>>

Mount ==
    /\ Proceed("mount")
    /\ mounted' = TRUE
    /\ UNCHANGED <<disk, nodes, ids, lost>>

InUse ==
    /\ pc = "mke2fs" /\ mounted
    /\ Abort
    /\ UNCHANGED <<disk, nodes, mounted, lost>>

Has == seen[RootIndex].has

Fill(s, has) ==
    /\ Proceed(s)
    /\ Write(RootIndex, [seen[RootIndex] EXCEPT !.has = has])
    /\ UNCHANGED <<table, kept, nodes, mounted, ids, lost>>

\* populate_root.  The repository goes first; the packages ship their own accounts.
ProvisionRepository == Fill("conf", Has \cup {"conf"})

InstallPackages ==
    Fill("packages", (Has \ {"accounts"}) \cup {"packages"}) /\ "conf" \in Has

ProvisionAccounts == Fill("accounts", Has \cup {"accounts"})

SetModes == Fill("dirs", Has \cup {"dirs"}) /\ "packages" \in Has

WritePartitionConfig ==
    /\ Proceed("partitions.toml")
    /\ Write(RootIndex, Root(Has, ids))
    /\ UNCHANGED <<table, kept, nodes, mounted, ids, lost>>

\* update-boot.py takes the ESP and the root from partitions.toml.  Limine's stages go
\* to a partition of their own, the boot files to the ESP.
WriteBoot ==
    /\ pc = "update-esp" /\ "packages" \in Has /\ seen[RootIndex].toml = table.id
    /\ seen' = [i \in Index |-> IF i = EspIndex THEN Esp(table.id)
                              ELSE IF i \in BiosIndices THEN Stages ELSE seen[i]]

\* mutant: update-boot.py does not sync.
UpdateEsp_NoSync ==
    /\ WriteBoot
    /\ pc' = "idle" /\ result' = "ok"
    /\ UNCHANGED <<table, kept, nodes, mounted, opts, agreed, ids, lost>>

\* It syncs everything in the end.
UpdateEsp ==
    /\ WriteBoot /\ kept' = seen'
    /\ pc' = "idle" /\ result' = "ok"
    /\ UNCHANGED <<table, nodes, mounted, opts, agreed, ids, lost>>

-----------------------------------------------------------------------------
(* Failures and the world around                                              *)

Untouched == pc \in {"confirm", "nodes", "layout", "mount"}

InProgress ==
    IF pc = "mkfs.vfat" THEN {EspIndex}
    ELSE IF pc = "update-esp" THEN {EspIndex} \cup BiosIndices ELSE {RootIndex}

\* A command fails, or the run is killed; what it was writing may be torn.
Fail ==
    /\ pc # "idle"
    /\ Abort
    /\ \/ UNCHANGED disk
       \/ /\ pc = "partition" /\ MayPartition
          /\ table' = [table EXCEPT !.types = <<>>]
          /\ seen' = [i \in Index |-> Blank] /\ kept' = seen'
       \/ /\ ~Untouched /\ pc # "partition" /\ (pc = "mke2fs" => ~mounted)
          /\ \/ \E i \in InProgress : Write(i, Torn)
             \/ WriteBoot   \* killed before the sync
          /\ UNCHANGED <<table, kept>>
    /\ UNCHANGED <<nodes, mounted, lost>>

Reboot ==
    /\ pc' = "idle" /\ result' = IF pc = "idle" THEN result ELSE "failed"
    /\ mounted' = FALSE /\ nodes' = Len(table.types)
    /\ \E left \in [{i \in Index : seen[i] # kept[i]} -> {"new", "old", "torn"}] :
        seen' = [i \in Index |->
                   IF i \in DOMAIN left /\ left[i] = "torn" THEN Torn
                   ELSE IF i \in DOMAIN left /\ left[i] = "old" THEN kept[i] ELSE seen[i]]
    /\ kept' = seen' /\ lost' = (lost \/ (seen' # seen /\ BootFiles(seen')))
    /\ UNCHANGED <<table, opts, agreed, ids>>

\* wipefs -a, and the kernel does not notice.
Wipe ==
    /\ pc = "idle" /\ ~mounted
    /\ table' = [table EXCEPT !.types = <<>>]
    /\ seen' = [i \in Index |-> Blank] /\ kept' = seen' /\ result' = "none"
    /\ UNCHANGED <<nodes, mounted, opts, pc, agreed, ids, lost>>

-----------------------------------------------------------------------------
Commands ==
    \/ Confirm \/ KeepPartitions \/ HasPartitions \/ Partition
    \/ NodesAppear \/ NodesMissing \/ CheckLayout \/ WrongLayout
    \/ MakeEsp \/ MakeRoot \/ InUse \/ Mount
    \/ ProvisionRepository \/ InstallPackages \/ ProvisionAccounts \/ SetModes
    \/ WritePartitionConfig \/ UpdateEsp

Next ==
    \/ \E keep \in BOOLEAN : Start(keep)
    \/ Commands \/ Decline \/ Reread \/ Fail \/ Reboot \/ Wipe

Spec == Init /\ [][Next]_vars

\* A run goes on; it is tried with and without --keep-partitions, and after a reboot.
FairSpec ==
    /\ Spec
    /\ WF_vars(Commands)
    /\ \A keep \in BOOLEAN : SF_vars(Start(keep))
    /\ SF_vars(pc = "idle" /\ Reboot)

-----------------------------------------------------------------------------
(* Properties                                                                 *)

TypeOK ==
    /\ table \in Tables /\ nodes \in {Len(t.types) : t \in Tables}
    /\ seen \in [Index -> Content] /\ kept \in [Index -> Content]
    /\ mounted \in BOOLEAN /\ (mounted => seen[RootIndex].kind \in {"root", "torn"})
    /\ opts \in [keep : BOOLEAN, yes : BOOLEAN]
    /\ pc \in {"idle", "confirm"} \cup Step
    /\ agreed \in BOOLEAN /\ ids \in Id \cup {None}
    /\ result \in {"none", "ok", "failed"} /\ lost \in BOOLEAN

Installed(v) ==
    /\ table.types = PartTypes
    /\ \A i \in BiosIndices : v[i] = Stages
    /\ v[EspIndex] = Esp(table.id) /\ v[RootIndex] = Root(Piece, table.id)

\* "done": the ESP and the root are complete, know each other by the PARTUUIDs of the
\* table on the disk, and survive the reboot that follows without an unmount
\* (lines 246-275).
SuccessMeansInstalled == result = "ok" => Installed(seen) /\ Installed(kept)

\* A disk with boot files has the whole root that they boot, however the last runs have
\* ended: the ESP is formatted before the root and filled after it (lines 249-272).
\* Nothing syncs in between, so a reboot within a run, or after one that has not got to
\* its end, may lose of the root and leave boot files, the old ones or the new.  Then
\* this holds again from the next mkfs.vfat on; a reboot that leaves none is no excuse.
BootsCompleteRoot ==
    BootFiles(seen) /\ ~lost => seen[RootIndex] = Root(Piece, seen[EspIndex].boot)

RunStep == ~(Reboot \/ Wipe)

\* Only after the user has agreed does a run change anything: the table, and with it all
\* of the disk, without --keep-partitions and if the kernel has no partitions of it;
\* otherwise, of a layout like ours, the ESP, the root and, for Limine's stages alone,
\* the BIOS boot partition (lines 212-270).
ChangesWhatWasAgreed ==
    [][RunStep =>
        /\ table' # table => agreed /\ MayPartition
        /\ \A i \in Index : seen'[i] # seen[i] =>
            /\ agreed
            /\ \/ table' # table
               \/ table.types = PartTypes /\ i \in {EspIndex, RootIndex}
               \/ table.types = PartTypes /\ i \in BiosIndices /\ seen'[i] \in {Stages, Torn}]_vars

Refusal == HasPartitions \/ NodesMissing \/ WrongLayout \/ InUse

\* A refusal, which looks like a failure, is no excuse.
Trouble == (Fail /\ ~Refusal) \/ Decline \/ Wipe \/ (pc # "idle" /\ Reboot)

\* Whatever a failed run leaves on a disk without partitions or with our layout, a
\* later run succeeds, if somebody tries again as the messages say (lines 224-238).
Recovers ==
    []<><<Trouble>>_vars
    \/ [](table.types \in {<<>>, PartTypes} => <>Installed(kept))
=============================================================================
