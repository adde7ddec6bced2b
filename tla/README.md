# A TLA+ model of the Managarm distribution scripts

`bootstrap-managarm` builds the Managarm distribution. Most of the repository is
data: package recipes that xbstrap interprets (`bootstrap.d/`), patches to
third-party packages (`patches/`), configuration and toolchain files. The
program logic is about 4,500 lines of Python in `scripts/` and
`extrafiles/managarm-scripts/`: the tools that lay out disk images, keep the EFI
system partition (ESP) of an installation bootable across upgrades, provision
accounts, hold development packages against upgrades, and boot the result under
QEMU. This project models those tools.

## The system

| Component | State it keeps | Operations | Interacts with |
|---|---|---|---|
| `update-boot.py` | boot files, `limine-bios.sys` and the stamp `managarm/update-boot.json` on the ESP; the BIOS stages on the disk | `update-esp` (target), `esp-contents` (host) | run by the `post_install` hooks of the packages that feed the boot files, by the user, by `managarm-install.py`; `esp-contents` by `update-image.py` |
| `update-image.py` | `mount-info` (which image is mounted where, how), the image's root and ESP | `mount`, `update-fs`, `unmount`, `remake-image`, chained into plans | calls the sysroot's `update-boot.py esp-contents`; its stamp is read later by `update-esp` on the target |
| `devpkgs.py` | installed packages, dev or upstream, and their repolocks | `use`, `drop`, `list` | xbps, system upgrades |
| `provision-sysroot.py` | `passwd`, `group`, `shadow`, `gshadow`, hostname, dotfiles of a sysroot | `apply` with users, groups, passwords | xbstrap reruns it after every install of `core-files` |
| `managarm-install.py` | partition table, file systems and mounts of a target disk | `disk` and its steps | runs `sfdisk`, `mkfs`, xbps, `update-boot.py update-esp` |
| `vm-util.py` `QemuRunner` | the QEMU process, its serial socket, the console output | boot, wait with timeouts, the CI protocol | `many-boots.py`, CI tasks |
| `vm-util.py` `TftpServer` | one transfer per request | RRQ, option negotiation, windows, ACKs | the netboot client |
| `many-boots.py` | counters over boots | a loop of `vm-util.py qemu` | `QemuRunner` |
| `split-debug.py` | ELF files and their `.debug` counterparts | extract, strip | run at the end of package builds |
| `cargo-inject-patches.py` | the `Cargo.lock` of a package, the ports of patched crates | update the patched crates, verify | package builds |

What makes these hard is not computation but order: crashes between two steps
of an update, power losses that drop part of the page cache, commands of which
one fails in the middle of a plan, reruns over the leftovers of an interrupted
run, timeouts that race the process they watch. `PROJECT.json` lists the hazards
line by line.

What makes each component correct:

* `update-esp`: a stamp never claims what is not on the disk; a run that ends
  with status 0 leaves bootable files that survive a power loss; the BIOS stages
  and `limine-bios.sys` come from one Limine build; no other system's file is
  removed; after failures, later runs recover.
* `update-image.py`: an image that was not fully populated does not look
  populated to `update-esp`; the boot files go to the ESP and nowhere else;
  what is mounted is recorded, and is unmounted.
* `devpkgs.py`: a development build is never replaced by an upgrade behind the
  user's back; a dropped one becomes upgradable again.
* `provision-sysroot.py`: a rerun with the same options is a no-op, and completes
  what an interrupted run left, whatever was already written.
* `managarm-install.py`: no data of a partitioned disk is lost without consent;
  what it calls done boots, and survives the reboot; a failed run can be repeated.
* `QemuRunner`, `TftpServer`: every run ends; status 0 means
  that what was asked for has happened, however the boot ended; a transfer
  delivers the file.
* `split-debug.py`, `cargo-inject-patches.py`: each stripped file has its debug
  information; no crate is built that a patched port should have replaced.

## Modules

| Module | Models |
|---|---|
| `StampProtocol` | abstract: what the stamp of a volume promises |
| `UpdateEsp` | `update-boot.py update-esp`, statement by statement |
| `MCUpdateEsp` | constants for TLC |
| `UpdateEsp_proofs` | the proofs about `UpdateEsp` |
| `UpdateImage`, `MCUpdateImage`, `UpdateImage_proofs` | `update-image.py`: the four actions and the plan that runs them |
| `Provision`, `MCProvision`, `Provision_proofs` | `provision-sysroot.py apply` |
| `Devpkgs`, `MCDevpkgs`, `Devpkgs_proofs` | `devpkgs.py use` and `drop` |
| `QemuRunner`, `MCQemuRunner`, `QemuRunner_proofs` | `vm-util.py qemu`: one test boot |
| `FileTransfer` | abstract: what a file server promises to its clients |
| `Tftp`, `MCTftp`, `Tftp_proofs` | `vm-util.py tftp`: `TftpServer`, its network and its clients |
| `ManagarmInstall`, `MCManagarmInstall`, `ManagarmInstall_proofs` | `managarm-install.py disk` |
| `PackageBuild`, `MCPackageBuild`, `PackageBuild_proofs` | `cargo-inject-patches.py` and `split-debug.py` in the build of a package |

### UpdateEsp

*State.* `root` is the installation that `--root` names: the files that
`make_esp_tree` generates out of it, and its Limine build. The ESP and the
stages are a *volume*, a function from cells to values. The cells are the
generated paths and three special ones: the stamp, `limine-bios.sys` (`"sys"`)
and the stages on the disk (`"stages"`). There are two volumes: `cache`, what
mtools, limine and every other program see, and `disk`, what a power loss would
leave. `pc`, `force`, `files`, `bios`, `old` and `todo` are the locals of
`cmd_update_esp`: `files` the digests of the generated tree, `bios` the
`external` entry, `old` the stamp that was read. `result` is the exit status of
the last run. Digests are the contents themselves: SHA-256 is taken to be
injective.

*Actions.* One per command of `cmd_update_esp`, in its order: `Start`,
`BuildFile` (one generated file), `HashBiosSys`, `ReportUpToDate` or
`BeginUpdate`, `DropStamp`, `SyncDrop`, `PruneFile`, `PruneDone`, `CopyFile`,
`CopyDone`, `CopyBiosSys`, `InstallStages`, `Flush`, `WriteStamp`, `Commit`. A
command that handles several files is one step per file, because it can be
interrupted between them. `Stop` is a checked command that fails, or a signal,
and may leave the file being written torn. `WriteBack` is the page cache:
any cell, at any time, whole or torn. `os.sync()` copies `cache` to `disk`;
`PowerLoss` copies `disk` to `cache` and ends the run. `Upgrade` changes the
root, `ShareEsp` is another system that handles files of its own (it does not
touch files that are listed in our stamp).

*Not modelled in it:* the FAT structures themselves (a power loss damages single
cells, not the allocation table); two processes at a time; the syntax of
`boot.toml`, `partitions.toml` and `limine.conf` (an error in the first two is a
`Stop` in the phase `build`, before the ESP is touched).

### UpdateImage

*State.* `sysroot` is the state of the build tree, `config` the disk that its
`partitions.toml` speaks of. `content` holds, for each image, what its ESP, the
stamp on it and its root file system were generated from, and whether boot files
went to a directory of the root file system (`stray`). `stack` is what is mounted
on the mountpoint, topmost first; `starting` and `flushing` are images that a
FUSE server has not mounted yet or still writes to. `info` is the file
`update-image-mount-info`. The process has `plan` and `pc`, `ginfo`
(`global_mount_info`), `handle` (`fuse2fs_process`), `errors` (`error_count`) and
`left`, the pieces that the running script has still to write.

*Actions.* `Start`, `NextAction` and `Finish` are the loop in `main`; an action
that fails is counted, and the next one runs. `mount`: `AlreadyMounted`,
`DropStaleInfo`, `MountRoot`, `SpawnFuse2fs`, `SeeMount`, `SeeExit`, `MountEsp`,
`Record`. `update-fs` and `remake-image`: `PlanFs`, `NoDiskToUpdate`,
`PlanRemake`, `WritePiece`, `WritesDone`. `unmount`: `UnmountEsp`, `DetachLoop`,
`UnmountRoot`, `UnmountFuse`, `NothingToUnmount`, `NoFuse2fsProcess`, `Forget`.
`Fail` is a command that fails, `Kill` a signal. The FUSE servers run on their
own (`FuseMounts`, `FuseDies`, `Flushed`), packages are rebuilt between runs
(`Rebuild`), and the host reboots, which leaves `info` and nothing mounted.

*Not modelled in it:* power failures of the host; what happens to a file system
that is mounted twice; parts of `mkfs`; loop devices that a failure leaks;
commands that the script has started and that outlive it; and the removal of an image,
so that of the two questions about old mount info (`Valid`, `update-image.py:239`) only
`findmnt` is left.

*Provisos.* `RecordedOnly` and `NotRecord` (in `MCUpdateImage`) leave out that a
run is killed, or cannot write the mount info, while something is mounted that
`info` does not name. Later runs mount over it, and two such accidents in a row
can end with status 0 for an image that was not written. `PROJECT.json` lists
this as a hazard.

*What it shows beyond its properties.* The mount info is believed whatever image it
names (`update-image.py:237`): a run for one image while another is still mounted, as
after a plan of `mount` alone, updates and unmounts that other one, and ends with status
0. `SuccessMeansPopulated` therefore speaks of a build tree with one image;
`BootsItsOwnRoot` says that even then no image gets what was made for another.

### Provision

*State.* `etc` are the four tables on the disk, each a set of rows; `acc` is the
`Accounts` object, the tables in memory. `home` gives the owner of each home
directory, `conf` the three files of `sshd` and xbps. `packages` is what the
installed `core-files` has shipped. `opts`, `todo` and `pc` are the run: `todo`
holds what is left of each option, in the order of `cmd_apply`, and `Phase` names
the loop it is in. `today` is the date that goes into the shadow file, `done` a
history variable: the options of a successful run after which nothing else has
happened.

*Actions.* `Start`, `ReadTables`; `AddUser`, `MakeHome`, `OwnHome` (`add_user`);
`AddToGroups`, `SetPasswordHash`; `SaveTable`, one table at a time, in the order
of `save`; `WriteConf`; `Finish`; `Refuse`, an `InvalidArguments` error; `Stop`, an
`OSError`, a signal or a crash. `Install` brings the tables that a package ships
back between two runs, as xbstrap does before it reruns the task; `NextDay` passes
a day.

*Not modelled in it:* the checks of names and hashes (`Name` and `Hash` hold what
they accept), table lines that `Table` does not parse, modes of directories, and
other programs that edit the tables meanwhile. A crash keeps the renames
in their order. `RequestAssumption`: one hash per user in a command line.

### Devpkgs

*State.* `pkg` is the pkgdb: what each package was installed from, and its
repolock. `remote` is what the build machine serves, `upstream` what the
configured repositories have. `index` is the copy of the build machine's index,
`repo` the packages in `REPO_DIR`. `cmd`, `todo`, `dev` and `failed` are the
call: `failed` says that an exception passes `finally`. `risk` is a history
variable: the packages of calls that were cut short (killed, or `xbps-pkgdb`
failed) in the steps in which a development build may be without its repolock.

*Actions.* `use`: `CleanDirs`, `FetchIndex`, `FetchPackage` or `NotServed`,
`FetchDone`, `AddToIndex`, `UnlinkFiles`. `drop`: `FindDev`, `NothingToDrop` or
`UnknownPackage`; `AllUpstream` or `NotUpstream`; `Unlock`, `CannotUnlock`. Both:
`Begin`, `CannotBegin`, `InstallPackage`, `InstallDone`, `QueryDev`, `Lock`,
`CannotLock`. `FailQuietly`, `FailInstall` and `FailLocking` are commands that
fail, `Kill` is a signal. `Upgrade`, `Remove`, `Rebuild` and `Publish` are others:
they come between any two commands of the call.

*xbps* is external. It installs the named packages one after another, with any
others that its repositories offer (it updates reverse dependencies and itself).
It takes a repolocked package only from the repository it is from, and keeps the
repolock over a reinstallation: the two facts that the comment above
`set_repolock` relies on. `INDEX_DIR` is forgotten at the end of a call, as no
later one reads it before it is recreated.

*Proviso.* `LateUpgrades`: an upgrade may come between `dev_packages` and the
`xbps-pkgdb` call that locks its result. It leaves an upstream package repolocked,
which neither `use` nor `drop` undoes. The theorems hold with it; the liveness
property does not, so the run has it off.

### QemuRunner

*State.* `opts` are the options that decide the verdict. `qemu`, `file` (the
socket), `out` (the pipe), `guest`, `boots`, `sent`, `toGuest` and `toHost` (the
serial line) belong to QEMU and the guest. `task` says what each of the three
tasks that `gather` waits for is at, `armed` whether `do_wait` has a timeout left;
`left` is `expect_all`, `exitcode` and `got` (the downloaded files) are locals of
`_do_ci_boot`. `status` is the end of vm-util. `printed`, `lastExit` and
`completed` are history.

*Actions.* `TimeoutExpires`, `IoTimeoutExpires`, `ProcessExited` (`do_wait`);
`ReadLine`, `StdoutEnds` (`process_stdout`); `SeeSocket`, `Connect`, one `Handle...`
per message, `SerialEnds` (`_do_ci_boot`); `Finish`. `Raise` is the exception of a
task: `gather` passes it on at once, `finally` terminates QEMU, the other tasks are
cancelled; what they may do in the few callbacks before that changes nothing that
is looked at afterwards. `Terminate` never fails: asyncio forgets the process only
after its pipe has ended, and the tasks empty their buffers before that. QEMU
(`StartGuest`, `BindSocket`, `Listen`, `PrintLine`, `End`) and ci-boot (`SendReady`,
`RunScript`, `ScriptExits`, `SendData`, `SendDone`, `SendError`, `Reset`) are external
and may stop anywhere; ci-boot answers requests in their order.

*What it shows beyond its properties.* With `--ci-script` and no socket, the
polling loop has no end: `Ends` has to name that case (`NeverConnects`). A timeout is
not an error by itself: a boot whose script has ended with 0 counts as a success
even if it was cut off before its downloads were complete, hence `completed` in
`DownloadsIntact`. A guest that is reset says "ready" once more and its data go to
the files that are open already, hence `boots = 1`. The last line of an `--expect`
ends QEMU even if the script still runs, hence `opts.expect = {}` in `NotCutShort`. A line that is not UTF-8 is
never looked at: `printed` holds the decodable ones.

*Not modelled in it:* malformed or overlong messages, two downloads with one base
name, full disks, and the argument list of QEMU.

### Tftp

*State.* `request` is what each client asks for: the size of the file and the three
options, and whether its answers have the right length (`exact`); it does not change. `net` is the set of packets under way. `pc`, `port`,
`block` and `piece` are the server in `run`: `"idle"` in `s.recvfrom`, `"data"` in
the loop over the blocks, `"ack"` and `"lastAck"` in `wait_for_ack`, `"dead"` after an
exception that nobody catches. A port is a pair of a client and the number of the
request that it is opened for; `served` counts them. A client has a `phase`, the
`peer` it has heard from first, and the pieces and bytes it has accepted. `gaveUp`,
`fellBack` and `trouble` are history.

*Actions.* `Serve` is a request from port 69 with all replies up to the first data
packet; `SendBlock`, `SendLast`; `Die` if the block number does not fit into two bytes,
if the data do not fit into a datagram (`TooLong`) or if an answer is too short or too
long (`Misreads`): nobody catches `struct.error` and `OSError`; `ReceiveAck`, `ReceiveRefusal` and `IgnoreAck` are the loop of `wait_for_ack`
with what `run` does after it. A refusal makes `run` skip `block += 1`, so that the
number stays and the piece of the file goes on. The clients and the network are
external: firmware that repeats requests and ACKs, accepts blocks in order, takes the
first port that answers, falls back to blocks of 512 bytes if the data come before
the ACK of its options, and may give up; packets that are lost, repeated, delayed
and reordered.

*What it shows beyond its properties.* The server sends nothing twice and has no
timeout: a lost data packet, a client that gives up or a request that is
served twice can make it wait for ever, and it serves nobody else then. The
properties name these cases (`trouble`, `gaveUp`, `served`, `Stuck`). A block size
below 512 together with an overtaken ACK of the options makes a client take the
first block for the last (`CutShort`). A file of exactly 65535 full blocks
needs a 65536th, empty one, and ends the server. So does a block size above the 65503
bytes that follow the header in a datagram, or a rest of the file above it: after a
`tsize` below the size, the last `f.read()` takes everything that follows
(`DiesOnlyOfLength`, `Oversized`).

*Not modelled in it:* malformed requests; negative values of options; answers with an
opcode that does not exist, which `wait_for_ack` treats as an ERROR; clients that send a
`tsize` of 0 and expect the file as well, which this server never sends.

### ManagarmInstall

*State.* `table` is the partition table on the disk: the types and an identifier that
the PARTUUIDs follow from. `nodes` says how many partitions the kernel knows of.
`seen` and `kept` are the contents of the partitions for programs and
after a power cycle; `mounted` is the root. `opts`, `pc`, `agreed`, `ids` and `result`
are the run. `lost` is history: a reboot has lost writes and left boot files, and the ESP
has not been formatted since.

*Actions.* `Start`, `Confirm`, `Decline`; `KeepPartitions`, `HasPartitions` or
`Partition`; `NodesAppear` or `NodesMissing`; `CheckLayout` or `WrongLayout`;
`MakeEsp`; `MakeRoot` or `InUse`; `Mount`; `ProvisionRepository`, `InstallPackages`,
`ProvisionAccounts` (`populate_root`); `SetModes`; `WritePartitionConfig`; `UpdateEsp`.
`Fail` is a command that fails, or a signal; it may tear what is being written, and it
may come between the boot files and the sync of `update-boot.py`.
`Reread` is the kernel, which reads the table of a disk without partitions, `Reboot`
keeps any part of what is not synced, `Wipe` is what the message of the script
tells the user to do.

*What it shows beyond its properties.* Nothing syncs between `mkfs.vfat` and the end of
`update-boot.py` (`managarm-install.py:249-270`). A reboot in between may lose what was written to one
partition and keep what was written to the other: the boot files of the older installation
come back beside a new, empty root, or new boot files stay beside a root that is not
complete. `BootsCompleteRoot` leaves this out (`lost`); the next run repairs it.

*Assumptions about others.* sfdisk syncs the table. mke2fs refuses a mounted
partition as long as `-F` is given only once; so a rerun after the mount needs a
reboot first. `update-boot.py update-esp` is one step, which syncs everything
(`UpdateEsp` has its steps), and so is each call of `provision-sysroot.py`.

*Not modelled in it:* `sysroot`, which is the same sequence as `populate_root`; the
password prompts and the checks before the confirmation, which change nothing.

### PackageBuild

*State.* `lock` is `Cargo.lock`, a set of entries; `accepted` are the ports that the
dependency graph of this source allows, which the script does not know; `pending` is
the list it passes to `cargo update`. `collect` says whether each installed ELF file
still has its debug information, `debug` is the `.debug` file of each build ID,
`paths` are those that `main` has not looked at yet, `elf` is the one it is at.

*Actions.* `GenerateLockfile`, `FindPending`, `CargoUpdate`, `Verify` are
`cargo-inject-patches.py`; `Build`, `NextPath`, `ExtractDebug`, `StripDebug`, `Package`
the build and `split-debug.py`. `Reconfigure` and `Checkout` are xbstrap, `Fail` is a
command that fails. `NoneUnpatched` compares with a definition of cargo's caret
requirements of its own (`Caret`), not with `compat_class`.

*What it shows beyond its properties.* All names of one file lead to one debug file.
With `--binutils`, strip keeps hard links, so the second name is stripped when it is
looked at, and its empty debug file replaces the good one (`Linked`). llvm-strip
replaces the file; each name has its own then.

*Assumptions about others.* xbstrap empties the collect directory before a build. cargo
applies a port if the graph allows for it, resolves only what it is told to, and may
bring in the dependencies of a port.

## Runs

A run checks safety and liveness properties; the type invariants are not among them,
as each is proved (`TypeCorrect` of the module's proofs).

| Run | Question | Result |
|---|---|---|
| `update_esp` | Can any order of failures, power losses, write-backs and upgrades beside the run produce a stamp that lies, a success that is lost, a foreign file removed, stages of another build that nobody notices? Does the disk implement `StampProtocol`? | no; yes |
| `update_esp_recovers` | Do later runs bring the files, the stages and the stamp up to date again, on the disk too, whatever happened before? | yes, unless a stamp lies and no run is forced |
| `update_esp_killed` | And if the run is killed between `mdel` and `os.sync()`? | *violation*: a torn file is reported up to date |
| `update_image` | With all mount methods, whole plans and single actions mixed, after failures, kills and reboots: does status 0 mean that the image is what the sysroot describes? Does the stamp go last? | yes; yes |
| `update_image_recovers` | Does repeating the default plan bring each of two images up to date? Does one ever get the PARTUUIDs of the other? | yes; no |
| `update_image_half` | Is the stamp on an image true at all times? | *violation*: `update-fs` leaves the old stamp while it rewrites |
| `provision` | Do interrupted and mixed runs keep the tables consistent, lose nothing, complete accounts, become no-ops, and succeed in the end? | yes |
| `devpkgs` | Do development builds stay in place and locked, and only they, whatever fails? Does a repeated `use` succeed? | yes, but for calls that were cut short before the repolock |
| `qemu_runner` | Does status 0 of a test boot mean that script, lines and files are as asked for, whatever QEMU and the guest do? Does every boot end? | yes; yes, unless QEMU dies before it makes its socket |
| `tftp` | Is what a client takes for a file that file, in order, whatever the network does? Does a client that does not give up get it? When does the server hang or die? | yes, but for small blocks after an overtaken ACK of the options; yes, if no packet is lost that is sent once; only then, or for clients that leave, or for files with too many blocks, data too long for a datagram and answers of a wrong length |
| `managarm_install` | Is an installation that is done complete after the reboot? Do boot files ever go with half a root? What is changed without consent? Can a failed run be repeated? | yes; only after a reboot that loses writes and leaves boot files; nothing; yes |
| `package_build` | Is a crate built that a port should replace, a pin moved without need, debug information lost? | no, except for hard links under the binutils |

*Bounds.* `UpdateEsp`: two paths, two contents and three roots are the least with
which a file changes, a file disappears, a file stays the same beside one that
changes, and Limine changes with or without the files. Nothing is counted, so
the number of runs, failures, upgrades and power losses is unbounded. The
liveness run uses one path and two roots. It admits signals in every phase and failing
reads: a rewrite that ends half-way may then leave a stamp that lies (the case of
`update_esp_killed`, or a stamp that `mtype` could not read), and later runs believe it
until one is forced. `Recovers` says that nothing else keeps the ESP from being complete,
in memory and on the disk.

`UpdateImage`: two versions of the sysroot, one of which may predate the stamp,
so that a stale piece differs from a fresh one. One image with all four methods
and all plans, or two images with one method: what one image can do to the other
needs no more. `MaxMounts` = 2 lets a second mount hide a first one; a third
hides the second in the same way.

`Provision`: four command lines (the live image's, one without accounts, one
whose users the other shipment has already, one for a user who may be missing),
two shipments of which one uses the ids that provisioning would give away, and
two days. Any order and number of runs.

`Devpkgs`: two packages, so that a call about one meets the leftovers of a call
about the other; two builds of the first, so that the build machine's index can
be out of date. Calls, failures and other xbps runs are not bounded.

`QemuRunner`: six command lines, those of the CI tasks (a script, with timeouts and
without), of `test-image` (two expected lines and a forbidden one), a manual boot
and one that mixes all. Two chunks per file and two boots let data of one boot
meet data of another; one unread line and two messages per direction are enough
for a task to be behind QEMU's end. A script ends with 0 or not. The number of
lines is not bounded.

`Tftp`: two clients, seven pairs of requests: windows, a file that is a multiple of the
block size, a question for the size, blocks below the default, a missing file, a file
with one block too many, a part of a file, a bad option, a rest and a block size that no
datagram holds, answers of a wrong length. `MaxBlock` = 4 stands for 65535, `Default` = 2
for 512 bytes, `MaxData` = 4 for 65503. `MaxServed` = 2: a client's request is served twice
at most, which is what a repeated request needs to meet an earlier transfer.

`ManagarmInstall`: a BIOS boot partition, the ESP and the root, and disks with a foreign
layout, one of which begins like ours; two identifiers, so that a new table differs
from the old one. Runs, failures, reboots and wipes are not bounded.

`PackageBuild`: versions on both sides of the three kinds of compatibility classes; a
crate with two incompatible ports; lockfiles with none, one and two crates to
replace; a program with a hard link, a copy and a script beside it.

*Fairness.* Each liveness property of `UpdateEsp`, `UpdateImage`, `Provision`,
`Devpkgs` and `ManagarmInstall` is of the form "troubles recur for
ever, or ...": nothing is assumed about failures, signals and other actors. What is
assumed is that a started run goes on (weak fairness of its own steps: the
scheduler), and that it is started again. For `update-esp`, each package of the
boot chain has a `post_install` hook that runs it. For `update-image.py`, somebody
makes each image again and again; FUSE servers go on, too. With `loopback`, an
unmount that fails half-way leaves an image that counts as mounted and can never
be unmounted by the script; `update_image_recovers` therefore uses fuse2fs. For
`provision-sysroot.py`, xbstrap reruns the task; only requests that the installed
packages allow for are claimed to succeed. For `devpkgs.py`, the user repeats the
call. For `QemuRunner`, the event loop serves each task, a `--timeout` runs out, and
QEMU ends after a SIGTERM; nothing is assumed of the guest, and without `--timeout`
only a boot that has reached its goal is claimed to end. For `TftpServer`, packets that
stay in the network arrive, and one of infinitely many copies of a request or an ACK
does (strong fairness of `Serve`, and of `ReceiveAck` or `Die`, as the same answer may end
the server); the server and its clients go on. For
`managarm-install.py`, the user tries both variants and reboots again and again.

## Proofs

All theorems are of the form `Spec => []P`, or state an action property or a
refinement, for all values of the constants that satisfy the assumptions in the
modules. Each module has an inductive invariant, `IInv`, of named parts, and some have a
second one that rests on it; their proofs have a lemma per part or per group of actions.
Each module also has `TypeCorrect`,
`Spec => []TypeOK`, with no proviso.

`UpdateEsp_proofs`:

* `StampsAreHonest`, `SuccessLasts`, `OnlyOwnFilesPruned`: the safety invariants,
  under `SafeWindow`: no signal between the removal of the stamp and its sync,
  and no failing `mtype`. The run `update_esp_killed` shows that the first is needed; as to the second, a
  stamp that is there but cannot be read is not removed before the rewrite
  (`update-boot.py:309`, `367`), which breaks `StampHonest` in the same way.
* `StaleBiosIsNoticed`, under the same proviso, for upgrades that run beside
  `update-esp`: its invariant, `LimineInv`, rests on `IInv` and says that a stamp's build was
  released by now, and that the stamp is right if it is still the root's build. An
  upgrade in the middle of a run makes the hash that the run took an old one, which no later
  root has again.
* `DurableImplementation`: the disk implements `StampProtocol`, by the
  refinement mapping in `UpdateEsp` (`Kept`).

The inductive invariant `IInv` says, beside the types: a usable stamp, seen or
kept, describes *both* volumes (`StampsPinned`; a stamp that was true of the
cache only would lie after a power loss); a stamp on the disk is also the one
that is seen, except right after `mdel` (`KeptIsSeen`; this is what a kill in that
window breaks); while files are rewritten neither volume has a stamp; and
what the run has achieved at each step (`FilesOnTrack`, `BiosOnTrack`,
`ManifestOnTrack`). The steps are proved in five lemmas: those that leave the ESP
alone, the rewriting, the removal of the stamp, its commit, and the environment.

`Provision_proofs`: `IdentitiesAreUnique`, `HomesComeFirst`, `NeverRefusesItself`,
`SuccessIsProvisioned`, `RunsOnlyAdd`, `RerunsAreNoOps`: all safety properties of the run.
The invariant says why `passwd` has to be saved first: an
account whose group is missing has no other group of its name (`Fillable`), and
what memory has more than the disk are accounts that have no group on the disk
either (`Ahead`), so that a run that stops between two tables leaves something
that the next one completes and does not refuse. That a free id is found is a
lemma of its own (`FreeIdIsFree`): the loop of `add_user` ends, as the ids in use
are finitely many.
The last three theorems rest on a second invariant. `RunsOK` follows a run: the options
that are not left have been applied in memory (`InMemoryDone`), a table is saved or is
going to be (`Saved`), and the tables in memory extend those on the disk (`Grown`).
`DoneRunsOK` says that after a successful run the installation is `Settled`, and that
`add_user`, `add_to_groups` and `set_password_hash` leave tables that are settled as they
are, so that a rerun has nothing to save that is new.

`Devpkgs_proofs`: `BuildsAreLocked`, `CallsComplete`, `BuildsAreKept`,
`OnlyNamedInstalled`: all safety properties of the run. The invariant adds what a call has achieved at each step (`UseOnTrack`,
`DropOnTrack`) and that a development build without a repolock is always one of a
call that is between its installation and its repolock, or that was cut short
there (`LockedOrExposed`).

`QemuRunner_proofs`: `SuccessMeansPassed`, `SuccessMeansExpected`, `QemuIsToldToEnd`,
`DownloadsAreIntact`, `GuestsMayFinish`: all safety properties of the run. The invariant follows what is still
under way: each decodable line is unread or was looked at (`LinesLookedAt`), and the
guest's last exit code is that of the last such message on the serial line, or, if
there is none, the host's (`ExitCodeArrives`). As both tasks end only at the end of
their streams (`TasksOK`), nothing is under way when status is 0.
For `DownloadsAreIntact` (a beginning of each file at any time, all of it after the
"done"), `FirstBoot` says that a guest that boots for the first time
is at some position of the request list (`Serving`): what it has of the current file and
what is on the line of it are, together and in this order, what the host has sent, and
a "done" is sent behind all of it. For `GuestsMayFinish`, `SignalsOK` says that without an `--expect` QEMU is
told to end only when its time is up or the protocol is complete.

`UpdateImage_proofs`: `StampsGoLast`, which needs no proviso, and `RootsAreOwn`, under
`Recorded`: the mount of the ESP and the write of the mount info do not fail, and no
signal comes between `mount` and that write. (The runs are more liberal with the ESP:
`update_image_recovers` lets its mount fail, which over fuse2fs there is none of.) For the first, the invariant says that
`left` ends with the stamp whenever boot files are to be written (`StampsFollow`), and
that these then go where the stamp will go, and are those of one sysroot
(`EspWritten`). For the second, what is on top of the mountpoint is the image that
`info` or the running mount names (`MountOK`), and what an action writes is for the disk
of `config`, which is that image (`PlanOK`). Without `Recorded`, `MountOK` fails: a
mount nobody has recorded hides the next one.
`SuccessIsPopulated` adds to `Recorded` that there is one image (`OneImageOnly`; with
two it does not hold, see above). `PiecesOK` says that what is no longer in `left` was
written, and `DefaultOK` and `RemakeOK` how far an errorless run has come. The case that takes
the proof some care is `EspGone`: a run that was cut short while it unmounted has left
the root mounted and recorded without its ESP. The next run takes that for the mount, and its
boot files go astray into the root; but its `unmount` then fails too, so that
the status is not 0. A `guestfs` mount never is in that state (`MethodOK`).

`ManagarmInstall_proofs`: `DoneIsInstalled`, `BootFilesGoLast`, `OnlyAgreedIsChanged`:
all safety properties of the run. The invariant follows what the run has achieved (`RootOnTrack`, `LayoutKnown`), and
that the ESP is empty until the root is complete (`EspEmpty`). `BootFilesGoLast` needs the order of the steps over
several runs: boot files that an earlier run has left are gone before the root is
touched, because the ESP is formatted first. It does not hold over a reboot that loses
writes and leaves boot files (`lost`). `OnlyAgreedIsChanged` speaks of the table, too:
only sfdisk writes it, after the confirmation and the check for partitions.

`Tftp_proofs`: `CompleteIsWhole`, `WindowIsRespected`, `DiesOfLengthOnly`,
`TroubleEndsService`, and `CopiesAreOrdered`, the refinement of `FileTransfer`. The invariant speaks of each
packet that is still under way, however old (`PacketOK`): unless the client has refused
the port it comes from (`Refused`), a data packet carries the piece that its block number
says (`OnTrack`), and that is at most a window ahead of what the client has
(`InWindow`). So it is either the next piece or one that the client ignores.
`TroubleEndsService` (`EndsOnlyOnTrouble`) adds `StuckInv`: what is under way shows how
often its client was served, and DATA from the open port are behind the server
(`TracesOK`); so DATA that end a client that was served once are the last that the server
sends, and it is in its last `wait_for_ack` (`LastData`). From then on the answer to
them is under way until the server takes it (`AnswerOK`), as losing it is trouble. An
ERROR or the ACK of a `tsize` of 0 ends no client that gets data, as those requests are
served without any.

`PackageBuild_proofs`: `NoneIsUnpatched`, `DebugInfoIsKept`, `PinsAreKept`: all
properties of the run. `LockOK` says that no unpatched entry is left from `verify` on,
`SplitOK` which files have been looked at and where their debug information is. The
lemma under `NoneIsUnpatched` is that two versions between which a caret requirement
allows have one `compat_class`, whichever of the three kinds it is.

Model-checked only: the liveness properties (`Recovers`, `Ends`, `Delivers`), which are
out of the prover's reach. Every safety invariant and action property of the passing runs
is the subject of a theorem.

## Plan

In this order; each entry names its modules, what it composes and its questions.

1. **`UpdateEsp`** with `StampProtocol`: done. Left are two concurrent processes.
2. **`UpdateImage`**: done. Left is **`ImageEsp`**, which composes its ESP writes with
   `StampProtocol` and a later `update-esp` on the target.
3. **`Provision`**: done.
4. **`Devpkgs`**: done.
5. **`QemuRunner`**: done.
6. **`Tftp`** with `FileTransfer`: done.
7. **`ManagarmInstall`**: done. Left is its composition with `UpdateEsp` and
   `Provision`, of which it has one step each.
8. **`PackageBuild`**: done.

## Not modelled

Recipes, tasks, patches, toolchain files, the container image and CI workflows
are data for external programs. The argument lists that `vm-util.py` builds for
QEMU, the gdb helpers and the wrapper scripts have no state that outlives a call. `many-boots.py` is a
loop around `vm-util.py qemu` that files each log by its exit status, which
`SuccessMeansScript` is about; its counters are only printed.
