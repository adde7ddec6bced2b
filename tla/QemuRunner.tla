----------------------------- MODULE QemuRunner -----------------------------
(* QemuRunner of vm-util.py: one test boot under QEMU.

   Three tasks of an event loop run side by side: one waits for the process and
   its timeouts, one reads its output, one speaks to ci-boot in the guest over a
   serial line.  What they have seen decides the exit status of vm-util.

   QEMU and the guest are external.  They may stop, hang or end at any point, and
   the guest may be reset, which QEMU survives.  Lines are handled one at a time;
   messages without an effect on the verdict ("stdout", "stderr", unknown ones)
   and a last line without a newline, which nobody looks at, are left out.     *)
EXTENDS Naturals, Sequences

CONSTANTS
    Line,       \* what QEMU prints
    Decodable,  \* the lines that are valid UTF-8
    Expr,       \* regular expressions
    Matches,    \* those that match each line
    Path,       \* files in the guest, with different base names
    Chunks,     \* messages that it takes to download one file
    Code,       \* exit codes of scripts, 0 among them
    Options,    \* command lines
    MaxOut, MaxMsgs, MaxBoots,  \* bounds on unread lines and messages, and resets
    None

Option == [ci : BOOLEAN, downloads : Seq(Path), expect : SUBSET Expr,
           expectNot : SUBSET Expr, timeout : BOOLEAN, ioTimeout : BOOLEAN]

\* What vm-util and ci-boot write to each other.
Request == [m : {"launch", "done"}] \cup [m : {"download"}, path : Path]
Message == [m : {"ready", "done", "error"}] \cup [m : {"exit"}, exitcode : Code]
           \cup [m : {"download-data"}, path : Path, data : 1..Chunks]

ASSUME ConstantsAssumption ==
    /\ Decodable \subseteq Line
    /\ Matches \in [Line -> SUBSET Expr]
    /\ Chunks \in Nat \ {0} /\ MaxOut \in Nat /\ MaxMsgs \in Nat /\ MaxBoots \in Nat \ {0}
    /\ Code \subseteq Nat /\ 0 \in Code /\ None \notin Code
    /\ Options \subseteq Option /\ Options # {}
    /\ \A o \in Options : \A i, j \in DOMAIN o.downloads :
          o.downloads[i] = o.downloads[j] => i = j

VARIABLES
    opts,       \* the command line
    qemu,       \* how far the process is
    file,       \* whether serial.socket exists
    signalled,  \* whether the process has got a SIGTERM
    out,        \* lines in its stdout that are not read yet
    guest,      \* ci-boot: "booting", "idle" or "script"
    boots,      \* resets of the guest so far, and one
    toGuest, toHost,  \* the two directions of the serial line
    sent,       \* messages with data of the file that the guest sends at present
    armed,      \* whether do_wait has a timeout left
    task,       \* what each of the three tasks is at
    left,       \* expect_all: the expressions that no line has matched yet
    exitcode,   \* of the script
    got,        \* the downloaded files: chunks in the order of their arrival
    status,     \* of vm-util: "running", "ok" or "failed"
    printed,    \* history: all decodable lines of QEMU
    lastExit,   \* history: the exit code that the guest has sent last
    completed   \* history: whether "done" has been handled

process == <<qemu, file, out, printed>>
vm == <<guest, boots, toGuest, toHost, sent, lastExit>>
host == <<armed, task, left, exitcode, got, status, completed>>
vars == <<opts, signalled, process, vm, host>>

Task == [wait : {"waiting", "done"}, stdout : {"reading", "done"},
         ci : {"polling", "connecting", "talking", "done"}]

Init ==
    /\ opts \in Options
    /\ qemu = "starting" /\ file = FALSE /\ signalled = FALSE /\ out = <<>>
    /\ guest = "booting" /\ boots = 1 /\ toGuest = <<>> /\ toHost = <<>> /\ sent = 0
    /\ armed = (opts.timeout \/ opts.ioTimeout)
    /\ task = [wait |-> "waiting", stdout |-> "reading",
               ci |-> IF opts.ci THEN "polling" ELSE "done"]
    /\ left = opts.expect
    /\ exitcode = None
    /\ got = [p \in Path |-> <<>>]
    /\ status = "running"
    /\ printed = {} /\ lastExit = None /\ completed = FALSE

-----------------------------------------------------------------------------
(* QEMU.  With wait=on, it runs the guest only after somebody has connected.   *)

StartGuest ==
    /\ qemu = "starting" /\ ~opts.ci
    /\ qemu' = "running"
    /\ UNCHANGED <<opts, signalled, file, out, printed, vm, host>>

BindSocket ==
    /\ qemu = "starting" /\ opts.ci
    /\ qemu' = "bound" /\ file' = TRUE
    /\ UNCHANGED <<opts, signalled, out, printed, vm, host>>

Listen ==
    /\ qemu = "bound"
    /\ qemu' = "listening"
    /\ UNCHANGED <<opts, signalled, file, out, printed, vm, host>>

PrintLine ==
    /\ qemu = "running" /\ status = "running" /\ Len(out) < MaxOut
    /\ \E l \in Line :
        /\ out' = Append(out, l)
        /\ printed' = printed \cup ({l} \cap Decodable)
    /\ UNCHANGED <<opts, signalled, qemu, file, vm, host>>

\* The socket is unlinked, unless the process has been killed.
End ==
    /\ qemu # "exited"
    /\ qemu' = "exited"
    /\ file' \in {file, FALSE}
    /\ UNCHANGED <<opts, signalled, out, printed, vm, host>>

\* The end that a SIGTERM brings about.
EndOnSignal == signalled /\ End

-----------------------------------------------------------------------------
(* The guest.  What it does when vm-util has ended is of no interest.          *)

Running == qemu = "running" /\ status = "running"

Send(msg) == Len(toHost) < MaxMsgs /\ toHost' = Append(toHost, msg)

SendReady ==
    /\ Running /\ opts.ci /\ guest = "booting"
    /\ Send([m |-> "ready"])
    /\ guest' = "idle"
    /\ UNCHANGED <<opts, signalled, process, boots, toGuest, sent, lastExit, host>>

Requested(m) == Running /\ guest = "idle" /\ toGuest # <<>> /\ Head(toGuest).m = m

RunScript ==
    /\ Requested("launch")
    /\ toGuest' = Tail(toGuest) /\ guest' = "script"
    /\ UNCHANGED <<opts, signalled, process, boots, toHost, sent, lastExit, host>>

ScriptExits ==
    /\ Running /\ guest = "script"
    /\ \E c \in Code : Send([m |-> "exit", exitcode |-> c]) /\ lastExit' = c
    /\ guest' = "idle"
    /\ UNCHANGED <<opts, signalled, process, boots, toGuest, sent, host>>

SendData ==
    /\ Requested("download")
    /\ Send([m |-> "download-data", path |-> Head(toGuest).path, data |-> sent + 1])
    /\ IF sent + 1 = Chunks
       THEN sent' = 0 /\ toGuest' = Tail(toGuest)
       ELSE sent' = sent + 1 /\ toGuest' = toGuest
    /\ UNCHANGED <<opts, signalled, process, guest, boots, lastExit, host>>

SendDone ==
    /\ Requested("done")
    /\ Send([m |-> "done"])
    /\ toGuest' = Tail(toGuest)
    /\ UNCHANGED <<opts, signalled, process, guest, boots, sent, lastExit, host>>

SendError ==
    /\ Running /\ guest # "booting"
    /\ Send([m |-> "error"])
    /\ UNCHANGED <<opts, signalled, process, guest, boots, toGuest, sent, lastExit, host>>

\* What the guest has not read yet may still reach it after the reset.
Reset ==
    /\ Running /\ boots < MaxBoots
    /\ boots' = boots + 1 /\ guest' = "booting" /\ sent' = 0
    /\ toGuest' \in {toGuest, <<>>}
    /\ UNCHANGED <<opts, signalled, process, toHost, lastExit, host>>

-----------------------------------------------------------------------------
(* The end of the tasks and of vm-util                                        *)

Terminate == signalled' = (signalled \/ qemu # "exited")

Done(t) == task' = [task EXCEPT ![t] = "done"]

\* mutant: no finally.
Raise_NoFinally ==
    /\ status' = "failed"
    /\ UNCHANGED <<signalled, task>>

\* An exception of a task ends gather; run sends a SIGTERM, waits for nothing and
\* the other tasks are cancelled.
Raise ==
    /\ status' = "failed"
    /\ Terminate
    /\ UNCHANGED task

\* gather returns when all tasks have.
Finish ==
    /\ status = "running"
    /\ task.wait = "done" /\ task.stdout = "done" /\ task.ci = "done"
    /\ status' = "ok"
    /\ UNCHANGED <<opts, signalled, process, vm, armed, task, left, exitcode, got, completed>>

-----------------------------------------------------------------------------
(* do_wait                                                                    *)

Waiting == status = "running" /\ task.wait = "waiting"

\* mutant: the wait ends without a signal.
Expire_NoTerminate ==
    /\ Waiting /\ armed
    /\ armed' = FALSE
    /\ UNCHANGED <<opts, signalled, process, vm, task, left, exitcode, got, status, completed>>

\* After the first timeout the wait is unlimited.
Expire ==
    /\ Waiting /\ armed
    /\ Terminate
    /\ armed' = FALSE
    /\ UNCHANGED <<opts, process, vm, task, left, exitcode, got, status, completed>>

TimeoutExpires == opts.timeout /\ Expire

IoTimeoutExpires == opts.ioTimeout /\ Expire

ProcessExited ==
    /\ Waiting /\ qemu = "exited"
    /\ Done("wait")
    /\ UNCHANGED <<opts, signalled, process, vm, armed, left, exitcode, got, status, completed>>

-----------------------------------------------------------------------------
(* process_stdout                                                             *)

Reading == status = "running" /\ task.stdout = "reading"

Found(l) == IF l \in Decodable THEN Matches[l] ELSE {}

Satisfied(l) == l \in Decodable /\ opts.expect # {} /\ left' = {}

\* mutant: nothing is read after the last expected line.
ReadLine_Return ==
    /\ Reading /\ out # <<>>
    /\ out' = Tail(out)
    /\ LET l == Head(out) IN
        /\ left' = left \ Found(l)
        /\ IF Found(l) \cap opts.expectNot # {}
           THEN Raise
           ELSE /\ IF Satisfied(l) THEN Terminate /\ Done("stdout") ELSE UNCHANGED <<signalled, task>>
                /\ UNCHANGED status
    /\ UNCHANGED <<opts, qemu, file, printed, vm, armed, exitcode, got, completed>>

ReadLine ==
    /\ Reading /\ out # <<>>
    /\ out' = Tail(out)
    /\ LET l == Head(out) IN
        /\ left' = left \ Found(l)
        /\ IF Found(l) \cap opts.expectNot # {}
           THEN Raise
           ELSE /\ IF Satisfied(l) THEN Terminate ELSE UNCHANGED signalled
                /\ UNCHANGED <<task, status>>
    /\ UNCHANGED <<opts, qemu, file, printed, vm, armed, exitcode, got, completed>>

StdoutEnds ==
    /\ Reading /\ out = <<>> /\ qemu = "exited"
    /\ IF left # {} THEN Raise ELSE Done("stdout") /\ UNCHANGED <<signalled, status>>
    /\ UNCHANGED <<opts, process, vm, armed, left, exitcode, got, completed>>

-----------------------------------------------------------------------------
(* _do_ci_boot                                                                *)

At(step) == status = "running" /\ task.ci = step

\* os.path.exists is asked again and again.
SeeSocket ==
    /\ At("polling") /\ file
    /\ task' = [task EXCEPT !.ci = "connecting"]
    /\ UNCHANGED <<opts, signalled, process, vm, armed, left, exitcode, got, status, completed>>

\* The socket may not be listening yet, or not any more.
Connect ==
    /\ At("connecting")
    /\ IF qemu = "listening"
       THEN qemu' = "running" /\ task' = [task EXCEPT !.ci = "talking"] /\ UNCHANGED <<signalled, status>>
       ELSE Raise /\ UNCHANGED qemu
    /\ UNCHANGED <<opts, file, out, printed, vm, armed, left, exitcode, got, completed>>

Receive(m) ==
    /\ At("talking") /\ toHost # <<>> /\ Head(toHost).m = m
    /\ toHost' = Tail(toHost)
    /\ UNCHANGED <<opts, process, guest, boots, sent, lastExit, armed, left>>

Requests ==
    <<[m |-> "launch"]>>
    \o [i \in DOMAIN opts.downloads |-> [m |-> "download", path |-> opts.downloads[i]]]
    \o <<[m |-> "done"]>>

HandleReady ==
    /\ Receive("ready")
    /\ toGuest' = toGuest \o Requests
    /\ UNCHANGED <<signalled, task, exitcode, got, status, completed>>

\* mutant: the file is opened by each message.
Store_Reopen(msg) == got' = [got EXCEPT ![msg.path] = <<msg.data>>]

\* A file is opened once, by the first message about it.
Store(msg) == got' = [got EXCEPT ![msg.path] = Append(@, msg.data)]

HandleData ==
    /\ Receive("download-data")
    /\ Store(Head(toHost))
    /\ UNCHANGED <<signalled, toGuest, task, exitcode, status, completed>>

\* mutant: the first exit code counts.
SetExitcode_First(msg) == exitcode' = IF exitcode = None THEN msg.exitcode ELSE exitcode

SetExitcode(msg) == exitcode' = msg.exitcode

\* mutant: QEMU is terminated when the script has ended.
HandleExit_Terminate ==
    /\ Receive("exit")
    /\ SetExitcode(Head(toHost))
    /\ Terminate
    /\ UNCHANGED <<toGuest, task, got, status, completed>>

HandleExit ==
    /\ Receive("exit")
    /\ SetExitcode(Head(toHost))
    /\ UNCHANGED <<signalled, toGuest, task, got, status, completed>>

HandleDone ==
    /\ Receive("done")
    /\ Terminate
    /\ completed' = TRUE
    /\ UNCHANGED <<toGuest, task, exitcode, got, status>>

HandleError ==
    /\ Receive("error")
    /\ Raise
    /\ UNCHANGED <<toGuest, exitcode, got, completed>>

SerialEnds ==
    /\ At("talking") /\ toHost = <<>> /\ qemu = "exited"
    /\ IF exitcode # 0 THEN Raise ELSE Done("ci") /\ UNCHANGED <<signalled, status>>
    /\ UNCHANGED <<opts, process, vm, armed, left, exitcode, got, completed>>

-----------------------------------------------------------------------------
Qemu == StartGuest \/ BindSocket \/ Listen \/ PrintLine \/ End

Guest == SendReady \/ RunScript \/ ScriptExits \/ SendData \/ SendDone \/ SendError \/ Reset

Loop ==
    \/ ProcessExited \/ ReadLine \/ StdoutEnds \/ Finish
    \/ SeeSocket \/ Connect \/ HandleReady \/ HandleData \/ HandleExit \/ HandleDone
    \/ HandleError \/ SerialEnds

Next == Qemu \/ Guest \/ Loop \/ TimeoutExpires \/ IoTimeoutExpires

Spec == Init /\ [][Next]_vars

\* The event loop runs, time passes, and QEMU ends on SIGTERM.  Nothing is assumed
\* about the guest, or about QEMU without a SIGTERM.
FairSpec ==
    /\ Spec
    /\ WF_vars(ProcessExited) /\ WF_vars(ReadLine) /\ WF_vars(StdoutEnds) /\ WF_vars(Finish)
    /\ WF_vars(SeeSocket) /\ WF_vars(Connect)
    /\ WF_vars(HandleReady \/ HandleData \/ HandleExit \/ HandleDone \/ HandleError)
    /\ WF_vars(SerialEnds)
    /\ WF_vars(TimeoutExpires) /\ WF_vars(EndOnSignal)

-----------------------------------------------------------------------------
(* Properties                                                                 *)

TypeOK ==
    /\ opts \in Options
    /\ qemu \in {"starting", "bound", "listening", "running", "exited"}
    /\ file \in BOOLEAN /\ signalled \in BOOLEAN
    /\ out \in Seq(Line) /\ printed \subseteq Decodable
    /\ guest \in {"booting", "idle", "script"} /\ boots \in 1..MaxBoots
    /\ toGuest \in Seq(Request) /\ toHost \in Seq(Message)
    /\ sent \in 0..(Chunks - 1)
    /\ armed \in BOOLEAN /\ task \in Task
    /\ left \subseteq opts.expect
    /\ exitcode \in Code \cup {None} /\ lastExit \in Code \cup {None}
    /\ got \in [Path -> Seq(1..Chunks)]
    /\ status \in {"running", "ok", "failed"} /\ completed \in BOOLEAN

\* Status 0 of a run with --ci-script means that the script has ended with 0, after
\* the last reset as well (lines 528-593): no later failure is left unread when QEMU
\* is terminated, and a timeout does not hide it.
SuccessMeansScript == status = "ok" /\ opts.ci => lastExit = 0

\* Status 0 means that QEMU has printed a line for each --expect (lines 516-526).
SuccessMeansSeen ==
    status = "ok" => \A e \in opts.expect : \E l \in printed : e \in Matches[l]

\* Status 0 means that no line of the whole boot matches an --expect-not, also none
\* that comes after the last expected one, while QEMU shuts down (lines 487-522).
SuccessMeansClean ==
    status = "ok" => \A l \in printed : Matches[l] \cap opts.expectNot = {}

\* What --expect and --expect-not ask for, together (lines 487-526).
ExpectationsMet == SuccessMeansSeen /\ SuccessMeansClean

Whole(p) == got[p] = [i \in 1..Chunks |-> i]

AllWhole == \A i \in DOMAIN opts.downloads : Whole(opts.downloads[i])

Beginning(p) == \A d \in 1..Len(got[p]) : got[p][d] = d

\* In a first boot each file of --ci-download is a beginning of the guest's at any time,
\* and all of it once the guest has said "done", however the run ends (lines 561-582).
\* A reset spoils them: both boots write to one file.
DownloadsIntact ==
    boots = 1 => /\ \A i \in DOMAIN opts.downloads : Beginning(opts.downloads[i])
                 /\ completed => AllWhole

Expired == (opts.timeout \/ opts.ioTimeout) /\ ~armed

\* While vm-util runs, a guest that boots for the first time with a script is not told to
\* end before its exit code and its files have arrived, unless its time is up; an --expect,
\* whose last line ends the boot, is left out (lines 476-586).
NotCutShort ==
    signalled /\ status = "running" /\ opts.ci /\ opts.expect = {} /\ boots = 1 =>
        Expired \/ (exitcode # None /\ AllWhole)

\* vm-util does not end without QEMU having ended or got a SIGTERM, whichever task
\* has failed (lines 449-457).
NoOrphan == status # "running" => qemu = "exited" \/ signalled

\* QEMU has ended without having made its socket: _do_ci_boot waits for ever.
NeverConnects == At("polling") /\ qemu = "exited" /\ ~file

\* With --timeout, a run ends whatever QEMU and the guest do, but for one case (lines
\* 459-483); without, it ends when its goal is reached: the last expected line is
\* there, or "done" (lines 519, 582).
Ends ==
    /\ opts.timeout => <>(status # "running" \/ NeverConnects)
    /\ (completed \/ (opts.expect # {} /\ left = {})) ~> status # "running"

=============================================================================
