---------------------------- MODULE UpdateImage ----------------------------
(* update-image.py: it brings the contents of disk images in line with the
   sysroot of the build tree, by plans made of four actions: mount, update-fs,
   unmount and remake.  The file update-image-mount-info carries what is mounted
   from one process to the next.

   One process runs at a time.  Its commands fail and it is killed; the build
   tree is rebuilt and the host rebooted while the mount info stays.          *)
EXTENDS Naturals, Sequences

CONSTANTS
    Image,      \* disk images, or block devices
    Version,    \* states of the sysroot
    Legacy,     \* those whose update-boot.py predates CLI revision 2
    Method,     \* the values of --mount-using
    Plans,      \* the plans that are asked for
    Failing,    \* the steps whose command may fail
    Killable,   \* the steps in which a signal may end the process
    Reboots,    \* whether the host may be rebooted
    MaxMounts,  \* bound: how many mounts may lie on the mountpoint
    None,       \* nothing there, or nothing known
    Mixed       \* partly written

Elevated == {"loopback", "block"}
Fuse == {"guestfs", "fuse2fs"}
Action == {"mount", "update-fs", "unmount", "remake"}
Default == <<"mount", "update-fs", "unmount">>

\* A command that does not have one outcome only: see Fail and Kill.
Command == {"mount", "attach", "mounting", "esp", "record", "update-fs", "write",
            "unmount", "detach", "root", "wait", "remake"}

\* What a tree of files is generated from: a state of the sysroot, and the disk
\* whose PARTUUIDs etc/managarm/partitions.toml holds.
Value == [version : Version, disk : Image]
Mount == [image : Image, method : Method, esp : BOOLEAN]
Info == [image : Image, method : Method]
Piece == {"esp", "stamp", "tree", "wipe"}

ASSUME ConstantsAssumption ==
    /\ Image # {} /\ Version # {} /\ Legacy \subseteq Version
    /\ Method # {} /\ Method \subseteq Elevated \cup Fuse
    /\ Plans # {} /\ Plans \subseteq Seq(Action)
    /\ Failing \subseteq Command /\ Killable \subseteq Command
    /\ Reboots \in BOOLEAN
    /\ MaxMounts \in Nat
    /\ None \notin Value \cup Info \cup Image \cup {Mixed}
    /\ Mixed \notin Value

VARIABLES
    sysroot,   \* the state of the sysroot
    config,    \* the disk that its partitions.toml speaks of, or None
    content,   \* of each image: the ESP without its stamp, the stamp, the root
               \* file system, and whether boot files are on the latter
    bare,      \* whether files went to the directory below the mountpoint
    stack,     \* what is mounted on the mountpoint, topmost first
    starting,  \* the images whose fuse2fs has not mounted them yet
    flushing,  \* unmounted images that a FUSE server still writes to
    info,      \* the file update-image-mount-info
    pc,        \* "idle", "next" between two actions, or the step of one
    args,      \* image_path, mount_using and the plan of the last run
    plan,      \* the rest of the plan
    left,      \* what update-fs or remake has still to write
    ginfo,     \* global_mount_info
    handle,    \* whether fuse2fs_process is set
    errors,    \* whether error_count is positive
    result     \* the exit status of the last run

host == <<sysroot, bare, starting, flushing>>
local == <<ginfo, handle, errors>>
vars == <<sysroot, config, content, bare, stack, starting, flushing, info,
          pc, args, plan, left, ginfo, handle, errors, result>>

\* Nothing changes but the place in the plan.
Quiet == UNCHANGED <<host, config, content, stack, info, ginfo, handle>>

Top == Head(stack)
Mounted == stack # <<>>

\* What the process takes the image to be mounted by.
Via(methods) == ginfo # None /\ ginfo.method \in methods
Current(disk) == [version |-> sysroot, disk |-> disk]

\* The image is what the sysroot describes.
Populated(i) ==
    /\ content[i].esp = Current(i)
    /\ content[i].root = Current(i)
    /\ sysroot \notin Legacy => content[i].stamp = Current(i)

Init ==
    /\ sysroot \in Version
    /\ config = None
    /\ content = [i \in Image |-> [esp |-> None, stamp |-> None, root |-> None, stray |-> FALSE]]
    /\ bare = FALSE
    /\ stack = <<>>
    /\ starting = {} /\ flushing = {}
    /\ info = None
    /\ pc = "idle"
    /\ args \in [image : Image, method : Method, plan : {<<>>}]
    /\ plan = <<>> /\ left = <<>>
    /\ ginfo = None /\ handle = FALSE /\ errors = FALSE
    /\ result = "none"

-----------------------------------------------------------------------------
(* The plan. *)

\* The step s leads to the step t of the same action.
Step(s, t) ==
    /\ pc = s /\ pc' = t
    /\ UNCHANGED <<args, plan, left, errors, result>>

EndAction(failed) ==
    /\ pc' = "next"
    /\ plan' = Tail(plan)
    /\ left' = <<>>
    /\ errors' = (errors \/ failed)
    /\ UNCHANGED <<args, result>>

Start(i, m, actions) ==
    /\ pc = "idle" /\ pc' = "next"
    /\ args' = [image |-> i, method |-> m, plan |-> actions]
    /\ plan' = actions
    /\ ginfo' = info
    /\ handle' = FALSE /\ errors' = FALSE
    /\ result' = "none"
    /\ UNCHANGED <<host, config, content, stack, info, left>>

NextAction ==
    /\ pc = "next" /\ plan # <<>>
    /\ pc' = Head(plan)
    /\ UNCHANGED <<host, config, content, stack, info, args, plan, left, local, result>>

\* The process ends, and its variables with it.
Exit(status) ==
    /\ pc' = "idle"
    /\ plan' = <<>> /\ left' = <<>>
    /\ ginfo' = None /\ handle' = FALSE /\ errors' = FALSE
    /\ result' = status
    /\ UNCHANGED args

Status_LastAction ==  \* mutant: the exit status forgets the errors
    "ok"
Status == IF errors THEN "failed" ELSE "ok"

Finish ==
    /\ pc = "next" /\ plan = <<>>
    /\ Exit(Status)
    /\ UNCHANGED <<host, config, content, stack, info>>

-----------------------------------------------------------------------------
(* mount *)

\* global_mount_info is believed when anything is mounted at the mountpoint.  Nobody
\* removes an image here, so its blockdev exists (line 239).
Valid_Always == ginfo # None  \* mutant: findmnt is not asked
Valid == ginfo # None /\ Mounted

AlreadyMounted ==
    /\ pc = "mount" /\ Valid
    /\ EndAction(FALSE)
    /\ Quiet

DropStaleInfo ==
    /\ Step("mount", "attach") /\ ~Valid
    /\ ginfo' = None
    /\ info' = IF ginfo = None THEN info ELSE None
    /\ UNCHANGED <<host, config, content, stack, handle>>

\* losetup -P and mount, or guestmount, which mounts the ESP along with the root.
MountRoot ==
    /\ args.method # "fuse2fs"
    /\ Step("attach", IF args.method \in Elevated THEN "esp" ELSE "record")
    /\ Len(stack) < MaxMounts
    /\ stack' = <<[image |-> args.image, method |-> args.method,
                   esp |-> args.method = "guestfs"]>> \o stack
    /\ UNCHANGED <<host, config, content, info, ginfo, handle>>

SpawnFuse2fs ==
    /\ args.method = "fuse2fs"
    /\ Step("attach", "mounting")
    /\ Len(stack) < MaxMounts
    /\ starting' = starting \cup {args.image}
    /\ handle' = TRUE
    /\ UNCHANGED <<sysroot, bare, flushing, config, content, stack, info, ginfo>>

\* The loop ends when anything is mounted at the mountpoint.
SeeMount ==
    /\ Step("mounting", "record") /\ Mounted
    /\ UNCHANGED <<host, config, content, stack, info, local>>

SeeExit ==
    /\ pc = "mounting" /\ ~Mounted /\ args.image \notin starting
    /\ EndAction(TRUE)
    /\ Quiet

MountEsp ==
    /\ Step("esp", "record")
    /\ stack' = <<[Top EXCEPT !.esp = TRUE]>> \o Tail(stack)
    /\ UNCHANGED <<host, config, content, info, local>>

Record ==
    /\ pc = "record"
    /\ EndAction(FALSE)
    /\ ginfo' = [image |-> args.image, method |-> args.method]
    /\ info' = ginfo'
    /\ UNCHANGED <<host, config, content, stack, handle>>

-----------------------------------------------------------------------------
(* update-fs and remake *)

Remaking == Head(plan) = "remake"

EspPieces_StampFirst ==  \* mutant: the stamp is not kept for last
    IF sysroot \in Legacy THEN <<"esp">> ELSE <<"stamp", "esp">>

\* plan_legacy_esp has no stamp, in plan_esp_tree it goes last.
EspPieces == IF sysroot \in Legacy THEN <<"esp">> ELSE <<"esp", "stamp">>

\* findmnt finds nothing, or lsblk does not know the source of a FUSE mount.
NoDisk == ginfo = None /\ (Mounted => Top.method \notin Elevated)

PlanFs_OfRequested ==  \* mutant: partitions.toml names the image of this run
    /\ pc = "update-fs" /\ pc' = "write"
    /\ ~NoDisk
    /\ config' = args.image
    /\ left' = IF Via({"fuse2fs"}) THEN <<"tree">> \o EspPieces ELSE EspPieces \o <<"tree">>
    /\ UNCHANGED <<host, content, stack, info, args, plan, local, result>>

\* The script writes in the order of the plan; with fuse2fs it writes the root
\* only, and populate_esp comes after it.
PlanFs ==
    /\ pc = "update-fs" /\ pc' = "write"
    /\ ~NoDisk
    /\ config' = IF ginfo # None THEN ginfo.image ELSE Top.image
    /\ left' = IF Via({"fuse2fs"}) THEN <<"tree">> \o EspPieces ELSE EspPieces \o <<"tree">>
    /\ UNCHANGED <<host, content, stack, info, args, plan, local, result>>

NoDiskToUpdate ==
    /\ pc = "update-fs" /\ NoDisk
    /\ EndAction(TRUE)
    /\ Quiet

\* The file systems are made in the order of the partition table.
PlanRemake ==
    /\ pc = "remake" /\ pc' = "write"
    /\ config' = args.image
    /\ left' \in {<<"tree", "wipe">> \o EspPieces, <<"wipe">> \o EspPieces \o <<"tree">>}
    /\ UNCHANGED <<host, content, stack, info, args, plan, local, result>>

\* mke2fs, mkfs.vfat and mtools write to the image, past what is mounted.
Direct(piece) == Remaking \/ (Via({"fuse2fs"}) /\ piece # "tree")

Target(piece) ==
    IF Remaking THEN args.image
    ELSE IF Direct(piece) THEN ginfo.image ELSE Top.image

\* What holds of an image once v was written for the piece.
With(c, piece, v) ==
    CASE piece = "wipe" -> [c EXCEPT !.esp = None, !.stamp = None]
      [] piece = "tree" -> [c EXCEPT !.root = v]
      [] OTHER -> IF ~Direct(piece) /\ ~Top.esp THEN [c EXCEPT !.stray = TRUE]
                  ELSE IF piece = "esp" THEN [c EXCEPT !.esp = v]
                  ELSE [c EXCEPT !.stamp = v]

\* Without a mount, the mountpoint is a directory of the host.
Put(piece, v) ==
    IF Direct(piece) \/ Mounted
    THEN /\ content' = [content EXCEPT ![Target(piece)] = With(@, piece, v)]
         /\ UNCHANGED bare
    ELSE /\ bare' = TRUE
         /\ UNCHANGED content

WritePiece ==
    /\ pc = "write" /\ left # <<>>
    /\ Put(Head(left), Current(config))
    /\ left' = Tail(left)
    /\ UNCHANGED <<sysroot, starting, flushing, config, stack, info,
                   pc, args, plan, local, result>>

WritesDone ==
    /\ pc = "write" /\ left = <<>>
    /\ EndAction(FALSE)
    /\ Quiet

-----------------------------------------------------------------------------
(* unmount *)

\* There is no mount info, or its mounts are not there.
NoMount ==
    \/ ginfo = None
    \/ Via(Elevated) /\ ~(Mounted /\ Top.method \in Elevated /\ Top.esp)
    \/ Via(Fuse) /\ ~(Mounted /\ Top.method \in Fuse)

UnmountEsp ==
    /\ Step("unmount", IF Via({"loopback"}) THEN "detach" ELSE "root")
    /\ Via(Elevated) /\ ~NoMount
    /\ stack' = <<[Top EXCEPT !.esp = FALSE]>> \o Tail(stack)
    /\ UNCHANGED <<host, config, content, info, ginfo, handle>>

\* losetup -d and udevadm settle; the device goes with its last mount.
DetachLoop ==
    /\ Step("detach", "root")
    /\ Quiet

UnmountRoot ==
    /\ Step("root", "wait") /\ Mounted
    /\ stack' = Tail(stack)
    /\ UNCHANGED <<host, config, content, info, ginfo, handle>>

\* guestunmount, or fusermount3 -u: either takes down any FUSE mount.
UnmountFuse ==
    /\ Step("unmount", "wait")
    /\ Via(Fuse) /\ ~NoMount
    /\ stack' = Tail(stack)
    /\ flushing' = flushing \cup {Top.image}
    /\ UNCHANGED <<sysroot, bare, starting, config, content, info, ginfo, handle>>

NothingToUnmount ==
    /\ pc = "unmount" /\ NoMount
    /\ EndAction(TRUE)
    /\ Quiet

\* fuse2fs_process is None if another process has mounted the image.
NoHandle == Via({"fuse2fs"}) /\ ~handle

NoFuse2fsProcess ==
    /\ pc = "wait" /\ NoHandle
    /\ EndAction(TRUE)
    /\ Quiet

\* The waits of the three methods are over, and the mount info is removed.
Forget ==
    /\ pc = "wait" /\ ~NoHandle
    /\ ginfo.image \notin flushing
    /\ EndAction(FALSE)
    /\ info' = None /\ ginfo' = None
    /\ UNCHANGED <<host, config, content, stack, handle>>

-----------------------------------------------------------------------------
(* What happens to the process and around it. *)

\* A write that is cut short leaves a torn file system; a torn stamp is none.
\* mkfs.vfat is one step.
CutShort ==
    \/ UNCHANGED <<content, bare>>
    \/ /\ left # <<>> /\ Head(left) # "wipe"
       /\ Put(Head(left), IF Head(left) = "stamp" THEN None ELSE Mixed)

\* The action fails by itself, or has no command left to run.
Settled ==
    \/ pc = "update-fs" /\ NoDisk
    \/ pc = "unmount" /\ NoMount
    \/ pc = "wait" /\ NoHandle
    \/ pc = "write" /\ left = <<>>

\* A command fails that could have succeeded; the plan goes on with the next
\* action.
Fail ==
    /\ pc \in Failing \ {"mounting"} /\ ~Settled
    /\ EndAction(TRUE)
    /\ IF pc = "write" THEN CutShort ELSE UNCHANGED <<content, bare>>
    /\ UNCHANGED <<sysroot, starting, flushing, config, stack, info, ginfo, handle>>

\* A signal ends the process and the command that it waits for, at once.
Kill ==
    /\ pc \in Killable
    /\ Exit("killed")
    /\ IF pc = "write" THEN CutShort ELSE UNCHANGED <<content, bare>>
    /\ UNCHANGED <<sysroot, starting, flushing, config, stack, info>>

FuseMounts(i) ==
    /\ i \in starting
    /\ Len(stack) < MaxMounts
    /\ starting' = starting \ {i}
    /\ stack' = <<[image |-> i, method |-> "fuse2fs", esp |-> FALSE]>> \o stack
    /\ UNCHANGED <<sysroot, bare, flushing, config, content, info,
                   pc, args, plan, left, local, result>>

FuseDies(i) ==
    /\ "mounting" \in Failing
    /\ i \in starting
    /\ starting' = starting \ {i}
    /\ UNCHANGED <<sysroot, bare, flushing, config, content, stack, info,
                   pc, args, plan, left, local, result>>

Flushed(i) ==
    /\ i \in flushing
    /\ flushing' = flushing \ {i}
    /\ UNCHANGED <<sysroot, bare, starting, config, content, stack, info,
                   pc, args, plan, left, local, result>>

\* The packages are rebuilt, between two runs.
Rebuild ==
    /\ pc = "idle"
    /\ sysroot' \in Version \ {sysroot}
    /\ result' = "none"
    /\ UNCHANGED <<bare, starting, flushing, config, content, stack, info,
                   pc, args, plan, left, local>>

\* The host shuts down in order: all mounts go, the mount info stays.
Reboot ==
    /\ Reboots /\ pc = "idle"
    /\ stack' = <<>> /\ starting' = {} /\ flushing' = {}
    /\ UNCHANGED <<sysroot, bare, config, content, info,
                   pc, args, plan, left, local, result>>

Mounting == AlreadyMounted \/ DropStaleInfo \/ MountRoot \/ SpawnFuse2fs
            \/ SeeMount \/ SeeExit \/ MountEsp \/ Record
Writing == PlanFs \/ NoDiskToUpdate \/ PlanRemake \/ WritePiece \/ WritesDone
Unmounting == UnmountEsp \/ DetachLoop \/ UnmountRoot \/ UnmountFuse
              \/ NothingToUnmount \/ NoFuse2fsProcess \/ Forget

Run == NextAction \/ Finish \/ Mounting \/ Writing \/ Unmounting
Serve == \E i \in Image : FuseMounts(i) \/ Flushed(i)
Begin == \E i \in Image, m \in Method, actions \in Plans : Start(i, m, actions)
Trouble == Fail \/ Kill \/ Reboot \/ \E i \in Image : FuseDies(i)

Next == Begin \/ Run \/ Serve \/ Rebuild \/ Trouble

Spec == Init /\ [][Next]_vars

\* The scheduler lets the process and the FUSE servers go on, and somebody makes
\* each image again and again, by the default plan.
FairSpec ==
    /\ Spec
    /\ WF_vars(Run) /\ WF_vars(Serve)
    /\ \A i \in Image : SF_vars(\E m \in Method : Start(i, m, Default))

-----------------------------------------------------------------------------
(* Properties *)

TypeOK ==
    /\ sysroot \in Version
    /\ config \in Image \cup {None}
    /\ content \in [Image -> [esp : Value \cup {None, Mixed}, stamp : Value \cup {None},
                              root : Value \cup {None, Mixed}, stray : BOOLEAN]]
    /\ bare \in BOOLEAN
    /\ stack \in Seq(Mount)
    /\ starting \subseteq Image /\ flushing \subseteq Image
    /\ info \in Info \cup {None}
    /\ pc \in {"idle", "next"} \cup Command
    /\ args \in [image : Image, method : Method, plan : Plans \cup {<<>>}]
    /\ plan \in Seq(Action) /\ left \in Seq(Piece)
    /\ ginfo \in Info \cup {None}
    /\ handle \in BOOLEAN /\ errors \in BOOLEAN
    /\ result \in {"none", "ok", "failed", "killed"}

\* A run of the default plan, or of remake, that ends with status 0 has brought
\* the image it was asked for in line with the sysroot; after the default plan
\* nothing writes to it any more.  (For one image: a run for another image than the
\* one that is mounted updates the latter, lines 237-262.)
SuccessMeansPopulated ==
    result = "ok" /\ args.plan \in {Default, <<"remake">>} =>
        /\ Populated(args.image)
        /\ args.plan = Default => args.image \notin flushing

\* What is written to an image speaks of that image's own partitions, although
\* all images are made from one sysroot, whose partitions.toml is rewritten.
BootsItsOwnRoot ==
    \A i \in Image : \A v \in {content[i].esp, content[i].root} \cap Value : v.disk = i

\* A stamp appears on an ESP only when the ESP is what the stamp says.
StampGoesLast ==
    [][\A i \in Image :
        content'[i].stamp \notin {None, content[i].stamp} => content'[i].esp = content'[i].stamp]_vars

\* plan_esp_tree: "The stamp claims that the ESP is complete, so it goes last".
\* With update-fs the previous stamp stays where it is.
StampIsTrue == \A i \in Image : content[i].stamp # None => content[i].esp = content[i].stamp

\* As long as troubles end, every image is up to date again and again.
Recovers ==
    \/ []<><<Trouble \/ Rebuild>>_vars
    \/ \A i \in Image : []<>(result = "ok" /\ args.image = i /\ Populated(i))
=============================================================================
