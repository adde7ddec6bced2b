------------------------- MODULE QemuRunner_proofs -------------------------
(* Proofs about QemuRunner, for all lines, expressions, scripts and command lines. *)
EXTENDS QemuRunner, SequenceTheorems, TLAPS

-----------------------------------------------------------------------------
(* The inductive invariant. *)

\* Every decodable line that QEMU has printed is unread, or was looked at.
LinesLookedAt ==
    \A l \in printed :
        \/ \E i \in 1..Len(out) : out[i] = l
        \/ Matches[l] \cap opts.expectNot = {}
        \/ status = "failed"

UnreadArePrinted == \A i \in 1..Len(out) : out[i] \in Decodable => out[i] \in printed

FoundArePrinted == \A e \in opts.expect \ left : \E l \in printed : e \in Matches[l]

IsExit(i) == i \in 1..Len(toHost) /\ toHost[i].m = "exit"

\* The last exit code that the guest has sent is that of the last such message on the
\* line, or without one that of the host.
ExitCodeArrives ==
    \/ status = "failed"
    \/ lastExit = exitcode /\ \A i \in 1..Len(toHost) : ~IsExit(i)
    \/ \E i \in 1..Len(toHost) :
        /\ IsExit(i) /\ toHost[i].exitcode = lastExit
        /\ \A j \in 1..Len(toHost) : IsExit(j) => j <= i

\* What a task has seen that has ended.
TasksOK ==
    /\ task.wait = "done" => qemu = "exited"
    /\ task.stdout = "done" => qemu = "exited" /\ out = <<>> /\ left = {}
    /\ task.ci = "done" /\ opts.ci => qemu = "exited" /\ toHost = <<>> /\ exitcode = 0
    /\ status = "ok" => task.wait = "done" /\ task.stdout = "done" /\ task.ci = "done"

\* How many messages with data of the i-th download the guest has sent, when it has
\* taken n of the requests: the first one launches the script.
SentOf(i, n) == IF i < n THEN Chunks ELSE IF i = n THEN sent ELSE 0

Downloads == 1..Len(opts.downloads)
OnLine == 1..Len(toHost)
IsData(j) == toHost[j].m = "download-data"

Sent(p, d) == \E j \in OnLine : IsData(j) /\ toHost[j].path = p /\ toHost[j].data = d

\* Of the m chunks that were sent, the file has the first ones, and the others are on
\* the line.
FileOK(p, m) ==
    /\ Len(got[p]) <= m
    /\ \A d \in 1..Len(got[p]) : got[p][d] = d
    /\ \A d \in (Len(got[p]) + 1)..m : Sent(p, d)

\* What is on the line was asked for, was sent and is not in the file yet.
DataOK(j, n) ==
    \E i \in Downloads : /\ toHost[j].path = opts.downloads[i]
                         /\ Len(got[opts.downloads[i]]) < toHost[j].data
                         /\ toHost[j].data <= SentOf(i, n)

DataOrdered ==
    \A j, k \in OnLine : IsData(j) /\ IsData(k) /\ toHost[j].path = toHost[k].path /\ j < k =>
        toHost[j].data < toHost[k].data

ChunksOK(n) ==
    /\ \A i \in Downloads : FileOK(opts.downloads[i], SentOf(i, n))
    /\ \A j \in OnLine : IsData(j) => DataOK(j, n)
    /\ DataOrdered

\* What the guest has said when it has taken n requests: it sends its exit code before
\* the files and "done" after all of them.
AnswersOK(n) ==
    /\ n > 0 /\ guest = "idle" => exitcode # None \/ \E j \in OnLine : toHost[j].m = "exit"
    /\ \A j \in OnLine : toHost[j].m # "ready"
    /\ \A j, k \in OnLine : toHost[j].m = "done" /\ j < k => toHost[k].m = "error"
    /\ completed => \A j \in OnLine : toHost[j].m = "error"
    /\ (\E j \in OnLine : toHost[j].m = "done") \/ completed => n = Len(Requests)

\* The guest has taken n requests.
Serving(n) ==
    /\ Len(toGuest) + n = Len(Requests)
    /\ \A j \in 1..Len(toGuest) : toGuest[j] = Requests[n + j]
    /\ guest = "idle" \/ (guest = "script" /\ n = 1)
    /\ sent > 0 => n \in Downloads
    /\ AnswersOK(n)
    /\ ChunksOK(n)

\* Nothing was asked for yet.
Starting ==
    /\ guest \in {"booting", "idle"} /\ toGuest = <<>> /\ sent = 0
    /\ exitcode = None /\ ~completed /\ got = [p \in Path |-> <<>>]
    /\ guest = "booting" => toHost = <<>>
    /\ guest = "idle" => /\ toHost # <<>> /\ toHost[1].m = "ready"
                         /\ \A j \in OnLine : j > 1 => toHost[j].m = "error"

\* How far the first boot is.
FirstBoot == boots = 1 => Starting \/ \E n \in 0..Len(Requests) : Serving(n)

\* What makes the host send a SIGTERM to a guest with nothing but a script.
SignalsOK ==
    signalled /\ status = "running" /\ opts.expect = {} => Expired \/ completed

IInv ==
    /\ TypeOK
    /\ TasksOK
    /\ LinesLookedAt
    /\ UnreadArePrinted
    /\ FoundArePrinted
    /\ ExitCodeArrives
    /\ NoOrphan
    /\ FirstBoot
    /\ SignalsOK

-----------------------------------------------------------------------------
(* Types *)

LEMMA QueueType ==
    ASSUME NEW S, NEW s \in Seq(S)
    PROVE  <<>> \in Seq(S) /\ (s # <<>> => Head(s) \in S /\ Tail(s) \in Seq(S))
OBVIOUS

LEMMA RequestsType ==
    ASSUME TypeOK
    PROVE  Requests \in Seq(Request)
<1> DEFINE dl == opts.downloads
           asked == [i \in DOMAIN dl |-> [m |-> "download", path |-> dl[i]]]
<1>1. dl \in Seq(Path)
  BY ConstantsAssumption DEF TypeOK, Option
<1>2. asked \in Seq(Request)
  <2>1. \A i \in DOMAIN dl : [m |-> "download", path |-> dl[i]] \in Request
    BY <1>1 DEF Request
  <2>2. DOMAIN dl = 1..Len(dl) /\ Len(dl) \in Nat
    BY <1>1
  <2> QED BY <2>1, <2>2
<1>3. <<[m |-> "launch"]>> \in Seq(Request) /\ <<[m |-> "done"]>> \in Seq(Request)
  BY DEF Request
<1> QED BY <1>2, <1>3 DEF Requests

LEMMA MessageTypes ==
    /\ \A k \in {"ready", "done", "error"} : [m |-> k] \in Message
    /\ \A c \in Code : [m |-> "exit", exitcode |-> c] \in Message
    /\ \A p \in Path, d \in 1..Chunks : [m |-> "download-data", path |-> p, data |-> d] \in Message
    /\ \A x \in Message : x.m = "exit" => x.exitcode \in Code
    /\ \A x \in Message : x.m = "download-data" => x.path \in Path /\ x.data \in 1..Chunks
    /\ \A x \in Request : x.m = "download" => x.path \in Path
BY DEF Message, Request

LEMMA TypeStep ==
    ASSUME TypeOK, [Next]_vars
    PROVE  TypeOK'
<1> USE ConstantsAssumption DEF TypeOK
<1>0. CASE UNCHANGED vars
  BY <1>0 DEF vars, process, vm, host
<1>1. CASE Qemu
  <2>1. CASE StartGuest \/ BindSocket \/ Listen \/ End
    BY <2>1 DEF StartGuest, BindSocket, Listen, End, vm, host
  <2>2. CASE PrintLine
    BY <2>2 DEF PrintLine, vm, host
  <2> QED BY <1>1, <2>1, <2>2 DEF Qemu
<1>2. CASE Guest
  <2> USE MessageTypes DEF process, host, Requested, Running, Send
  <2>1. CASE SendReady
    BY <2>1 DEF SendReady
  <2>2. CASE RunScript
    BY <2>2 DEF RunScript
  <2>3. CASE ScriptExits
    BY <2>3 DEF ScriptExits
  <2>4. CASE SendData
    <3>1. Head(toGuest) \in Request
      BY <2>4 DEF SendData
    <3>2. toHost' \in Seq(Message)
      <4>1. Head(toGuest).path \in Path /\ sent + 1 \in 1..Chunks
        BY <2>4, <3>1 DEF SendData
      <4> DEFINE msg == [m |-> "download-data", path |-> Head(toGuest).path, data |-> sent + 1]
      <4>2. msg \in Message
        BY <4>1
      <4>3. toHost' = Append(toHost, msg)
        BY <2>4 DEF SendData
      <4> HIDE DEF msg
      <4> QED BY <4>2, <4>3
    <3>3. toGuest' \in Seq(Request)
      <4>1. toGuest' \in {toGuest, Tail(toGuest)} /\ toGuest # <<>>
        BY <2>4 DEF SendData
      <4>2. toGuest \in Seq(Request)
        OBVIOUS
      <4> QED BY ONLY <4>1, <4>2, QueueType
    <3>4. sent' \in 0..(Chunks - 1)
      BY <2>4 DEF SendData
    <3> QED BY <2>4, <3>2, <3>3, <3>4 DEF SendData
  <2>5. CASE SendDone
    BY <2>5 DEF SendDone
  <2>6. CASE SendError
    BY <2>6 DEF SendError
  <2>7. CASE Reset
    <3>1. toGuest' \in Seq(Request)
      <4>1. toGuest' \in {toGuest, <<>>}
        BY <2>7 DEF Reset
      <4>2. toGuest \in Seq(Request)
        OBVIOUS
      <4> QED BY ONLY <4>1, <4>2, QueueType
    <3>2. boots' \in 1..MaxBoots /\ sent' \in 0..(Chunks - 1)
      BY <2>7 DEF Reset
    <3> QED BY <2>7, <3>1, <3>2 DEF Reset
  <2> QED BY <1>2, <2>1, <2>2, <2>3, <2>4, <2>5, <2>6, <2>7 DEF Guest
<1>3. CASE TimeoutExpires \/ IoTimeoutExpires
  BY <1>3 DEF TimeoutExpires, IoTimeoutExpires, Expire, Terminate, process, vm
<1>4. CASE Loop
  <2> USE DEF Raise, Terminate, Done, process, vm, Task
  <2>1. CASE ProcessExited \/ StdoutEnds \/ Finish \/ SerialEnds
    BY <2>1 DEF ProcessExited, StdoutEnds, Finish, SerialEnds
  <2>2. CASE ReadLine
    <3>1. out' \in Seq(Line) /\ left' \subseteq opts.expect
      BY <2>2 DEF ReadLine
    <3>2. signalled' \in BOOLEAN /\ status' \in {status, "failed"} /\ UNCHANGED task
      BY <2>2 DEF ReadLine
    <3> QED BY <2>2, <3>1, <3>2 DEF ReadLine
  <2>3. CASE SeeSocket \/ Connect
    BY <2>3 DEF SeeSocket, Connect
  <2>4. ASSUME NEW k, Receive(k)
        PROVE  toHost' \in Seq(Message) /\ Head(toHost) \in Message /\ Head(toHost).m = k
    BY <2>4 DEF Receive
  <2>5. CASE HandleReady
    BY <2>5, <2>4, RequestsType DEF HandleReady, Receive
  <2>6. CASE HandleData
    <3>1. Head(toHost).path \in Path /\ Head(toHost).data \in 1..Chunks /\ toHost' \in Seq(Message)
      BY <2>6, <2>4, MessageTypes DEF HandleData
    <3>2. got' \in [Path -> Seq(1..Chunks)]
      BY <2>6, <3>1 DEF HandleData, Store
    <3> QED BY <2>6, <3>1, <3>2 DEF HandleData, Receive
  <2>7. CASE HandleExit
    BY <2>7, <2>4, MessageTypes DEF HandleExit, SetExitcode, Receive
  <2>8. CASE HandleDone \/ HandleError
    BY <2>8, <2>4 DEF HandleDone, HandleError, Receive
  <2> QED BY <1>4, <2>1, <2>2, <2>3, <2>5, <2>6, <2>7, <2>8 DEF Loop
<1> QED BY <1>0, <1>1, <1>2, <1>3, <1>4 DEF Next

-----------------------------------------------------------------------------
(* The steps *)

LEMMA TasksStep ==
    ASSUME TypeOK, TasksOK, [Next]_vars
    PROVE  TasksOK'
<1> USE DEF TypeOK, TasksOK, Task
<1>0. CASE UNCHANGED vars
  BY <1>0 DEF vars, process, vm, host
<1>1. CASE Qemu
  BY <1>1 DEF Qemu, StartGuest, BindSocket, Listen, PrintLine, End, vm, host
<1>2. CASE Guest
  BY <1>2 DEF Guest, SendReady, RunScript, ScriptExits, SendData, SendDone, SendError, Reset,
              Requested, Running, process, host
<1>3. CASE TimeoutExpires \/ IoTimeoutExpires
  BY <1>3 DEF TimeoutExpires, IoTimeoutExpires, Expire, process, vm
<1>4. CASE ProcessExited \/ StdoutEnds \/ Finish \/ SerialEnds
  BY <1>4 DEF ProcessExited, StdoutEnds, Finish, SerialEnds, Raise, Done, Waiting, Reading, At,
              process, vm
<1>5. CASE ReadLine
  BY <1>5 DEF ReadLine, Reading, Raise, vm
<1>6. CASE SeeSocket \/ Connect
  BY <1>6 DEF SeeSocket, Connect, At, Raise, process, vm
<1>7. CASE HandleReady \/ HandleData \/ HandleExit \/ HandleDone \/ HandleError
  BY <1>7 DEF HandleReady, HandleData, HandleExit, HandleDone, HandleError, Receive, At, Raise,
              process
<1> QED BY <1>0, <1>1, <1>2, <1>3, <1>4, <1>5, <1>6, <1>7 DEF Next, Loop

LEMMA OrphanStep ==
    ASSUME TypeOK, TasksOK, NoOrphan, [Next]_vars
    PROVE  NoOrphan'
<1> USE DEF TypeOK, NoOrphan
<1>0. CASE UNCHANGED vars
  BY <1>0 DEF vars, process, vm, host
<1>1. CASE Qemu
  BY <1>1 DEF Qemu, StartGuest, BindSocket, Listen, PrintLine, End, vm, host
<1>2. CASE Guest
  BY <1>2 DEF Guest, SendReady, RunScript, ScriptExits, SendData, SendDone, SendError, Reset,
              process, host
<1>3. CASE TimeoutExpires \/ IoTimeoutExpires
  BY <1>3 DEF TimeoutExpires, IoTimeoutExpires, Expire, Terminate, process, vm
<1>4. CASE ProcessExited \/ StdoutEnds \/ Finish \/ SerialEnds
  BY <1>4 DEF ProcessExited, StdoutEnds, Finish, SerialEnds, TasksOK, Raise, Terminate, process, vm
<1>5. CASE ReadLine
  BY <1>5 DEF ReadLine, Reading, Raise, Terminate, vm
<1>6. CASE SeeSocket \/ Connect
  BY <1>6 DEF SeeSocket, Connect, At, Raise, Terminate, process, vm
<1>7. CASE HandleReady \/ HandleData \/ HandleExit \/ HandleDone \/ HandleError
  BY <1>7 DEF HandleReady, HandleData, HandleExit, HandleDone, HandleError, Receive, At, Raise,
              Terminate, process
<1> QED BY <1>0, <1>1, <1>2, <1>3, <1>4, <1>5, <1>6, <1>7 DEF Next, Loop

LinesOK == LinesLookedAt /\ UnreadArePrinted /\ FoundArePrinted

\* Only two actions touch the lines; the other ones can but end the run.
LEMMA LinesFrame ==
    ASSUME TypeOK, LinesOK, UNCHANGED <<opts, out, printed, left>>,
           status' = status \/ status # "failed"
    PROVE  LinesOK'
BY DEF LinesOK, LinesLookedAt, UnreadArePrinted, FoundArePrinted

LEMMA LinesStep ==
    ASSUME TypeOK, LinesOK, [Next]_vars
    PROVE  LinesOK'
<1>0. CASE UNCHANGED vars
  BY <1>0, LinesFrame DEF vars, process, vm, host
<1>1. CASE StartGuest \/ BindSocket \/ Listen \/ End
  BY <1>1, LinesFrame DEF StartGuest, BindSocket, Listen, End, vm, host
<1>2. CASE PrintLine
  <2>1. PICK l \in Line : out' = Append(out, l) /\ printed' = printed \cup ({l} \cap Decodable)
    BY <1>2 DEF PrintLine
  <2>2. UNCHANGED <<opts, left, status>>
    BY <1>2 DEF PrintLine, host
  <2>3. /\ Len(out') = Len(out) + 1 /\ Len(out) \in Nat
        /\ out'[Len(out) + 1] = l
        /\ \A i \in 1..Len(out) : out'[i] = out[i] /\ i \in 1..Len(out')
    BY <2>1 DEF TypeOK
  <2>4. LinesLookedAt'
    <3>1. SUFFICES ASSUME NEW k \in printed', k # l, Matches[k] \cap opts.expectNot # {},
                          status # "failed"
                   PROVE  \E i \in 1..Len(out') : out'[i] = k
      BY <2>2, <2>3 DEF LinesLookedAt
    <3>2. k \in printed
      BY <3>1, <2>1
    <3>3. PICK i \in 1..Len(out) : out[i] = k
      BY <3>1, <3>2 DEF LinesOK, LinesLookedAt
    <3> QED BY <3>3, <2>3
  <2>5. UnreadArePrinted'
    BY <2>1, <2>3 DEF LinesOK, UnreadArePrinted
  <2>6. FoundArePrinted'
    BY <2>1, <2>2 DEF LinesOK, FoundArePrinted
  <2> QED BY <2>4, <2>5, <2>6 DEF LinesOK
<1>3. CASE Guest
  BY <1>3, LinesFrame DEF Guest, SendReady, RunScript, ScriptExits, SendData, SendDone,
                          SendError, Reset, process, host
<1>4. CASE TimeoutExpires \/ IoTimeoutExpires
  BY <1>4, LinesFrame DEF TimeoutExpires, IoTimeoutExpires, Expire, process, vm
<1>5. CASE ProcessExited \/ StdoutEnds \/ Finish \/ SerialEnds
  BY <1>5, LinesFrame DEF ProcessExited, StdoutEnds, Finish, SerialEnds, Waiting, Reading, At,
                          Raise, process, vm
<1>6. CASE ReadLine
  <2> DEFINE l == Head(out)
  <2>1. /\ out # <<>> /\ out' = Tail(out) /\ left' = left \ Found(l)
        /\ UNCHANGED <<opts, printed>> /\ status = "running"
    BY <1>6 DEF ReadLine, Reading
  <2>2. /\ Len(out) \in Nat \ {0} /\ Len(out') = Len(out) - 1
        /\ l = out[1] /\ 1 \in 1..Len(out)
        /\ \A i \in 1..Len(out') : out'[i] = out[i + 1] /\ i + 1 \in 1..Len(out)
    BY <2>1 DEF TypeOK
  <2>3. l \in Decodable => l \in printed
    BY <2>2 DEF LinesOK, UnreadArePrinted
  <2>4. LinesLookedAt'
    <3>1. Found(l) \cap opts.expectNot = {} \/ status' = "failed"
      BY <1>6 DEF ReadLine, Raise
    <3>2. SUFFICES ASSUME NEW k \in printed, Matches[k] \cap opts.expectNot # {},
                          status' # "failed"
                   PROVE  \E i \in 1..Len(out') : out'[i] = k
      BY <2>1 DEF LinesLookedAt
    <3>3. PICK i \in 1..Len(out) : out[i] = k
      BY <3>2, <2>1 DEF LinesOK, LinesLookedAt
    <3>4. k \in Decodable
      BY DEF TypeOK
    <3>5. i # 1
      BY <3>1, <3>2, <3>3, <3>4, <2>2 DEF Found
    <3>6. i - 1 \in 1..Len(out') /\ out'[i - 1] = k
      BY <3>3, <3>5, <2>2
    <3> QED BY <3>6
  <2>5. UnreadArePrinted'
    BY <2>1, <2>2 DEF LinesOK, UnreadArePrinted
  <2>6. FoundArePrinted'
    BY <2>1, <2>3 DEF LinesOK, FoundArePrinted, Found
  <2> QED BY <2>4, <2>5, <2>6 DEF LinesOK
<1>7. CASE SeeSocket \/ Connect
  BY <1>7, LinesFrame DEF SeeSocket, Connect, At, Raise, process, vm
<1>8. CASE HandleReady \/ HandleData \/ HandleExit \/ HandleDone \/ HandleError
  BY <1>8, LinesFrame DEF HandleReady, HandleData, HandleExit, HandleDone, HandleError, Receive,
                          At, Raise, process
<1> QED BY <1>0, <1>1, <1>2, <1>3, <1>4, <1>5, <1>6, <1>7, <1>8 DEF Next, Loop, Qemu

\* What the guest sends is behind all that it has sent before.
LEMMA SendExit ==
    ASSUME TypeOK, ExitCodeArrives, NEW msg \in Message, toHost' = Append(toHost, msg),
           UNCHANGED <<status, exitcode>>,
           lastExit' = IF msg.m = "exit" THEN msg.exitcode ELSE lastExit
    PROVE  ExitCodeArrives'
<1>1. /\ Len(toHost) \in Nat /\ Len(toHost') = Len(toHost) + 1
      /\ toHost'[Len(toHost) + 1] = msg
      /\ \A i \in 1..Len(toHost) : toHost'[i] = toHost[i] /\ i \in 1..Len(toHost')
  BY DEF TypeOK
<1>2. CASE msg.m = "exit"
  BY <1>1, <1>2 DEF ExitCodeArrives, IsExit
<1>3. CASE msg.m # "exit"
  BY <1>1, <1>3 DEF ExitCodeArrives, IsExit
<1> QED BY <1>2, <1>3

\* What the host handles is the oldest message.
LEMMA ReceiveExit ==
    ASSUME TypeOK, ExitCodeArrives, toHost # <<>>, toHost' = Tail(toHost),
           lastExit' = lastExit, status # "failed",
           exitcode' = IF Head(toHost).m = "exit" THEN Head(toHost).exitcode ELSE exitcode
    PROVE  ExitCodeArrives'
<1>1. /\ Len(toHost) \in Nat \ {0} /\ Len(toHost') = Len(toHost) - 1
      /\ Head(toHost) = toHost[1] /\ 1 \in 1..Len(toHost)
      /\ \A i \in 1..Len(toHost') : toHost'[i] = toHost[i + 1] /\ i + 1 \in 1..Len(toHost)
  BY DEF TypeOK
<1>2. CASE \A i \in 1..Len(toHost) : ~IsExit(i)
  <2>1. lastExit = exitcode /\ exitcode' = exitcode
    BY <1>1, <1>2 DEF ExitCodeArrives, IsExit
  <2>2. \A i \in 1..Len(toHost') : ~IsExit(i)'
    BY <1>1, <1>2 DEF IsExit
  <2> QED BY <2>1, <2>2 DEF ExitCodeArrives
<1>3. ASSUME NEW i \in 1..Len(toHost), IsExit(i), toHost[i].exitcode = lastExit,
             \A j \in 1..Len(toHost) : IsExit(j) => j <= i
      PROVE  ExitCodeArrives'
  <2>1. \A j \in 1..Len(toHost') : IsExit(j)' => IsExit(j + 1)
    BY <1>1 DEF IsExit
  <2>2. CASE i = 1
    <3>1. exitcode' = lastExit'
      BY <1>1, <1>3, <2>2 DEF IsExit
    <3>2. \A j \in 1..Len(toHost') : ~IsExit(j)'
      <4> SUFFICES ASSUME NEW j \in 1..Len(toHost'), IsExit(j)'
                   PROVE  FALSE
        OBVIOUS
      <4>1. j + 1 <= 1 /\ j \in Nat /\ j >= 1
        BY <1>1, <1>3, <2>1, <2>2
      <4> QED BY <4>1
    <3> QED BY <3>1, <3>2 DEF ExitCodeArrives
  <2>3. CASE i # 1
    <3>1. i - 1 \in 1..Len(toHost') /\ toHost'[i - 1] = toHost[i]
      BY <1>1, <2>3
    <3>2. IsExit(i - 1)' /\ toHost'[i - 1].exitcode = lastExit'
      BY <1>3, <3>1 DEF IsExit
    <3>3. \A j \in 1..Len(toHost') : IsExit(j)' => j <= i - 1
      <4> SUFFICES ASSUME NEW j \in 1..Len(toHost'), IsExit(j)'
                   PROVE  j <= i - 1
        OBVIOUS
      <4>1. j + 1 <= i /\ j \in Nat
        BY <1>1, <1>3, <2>1
      <4> QED BY <4>1
    <3> QED BY <3>1, <3>2, <3>3 DEF ExitCodeArrives
  <2> QED BY <2>2, <2>3
<1> QED BY <1>2, <1>3 DEF ExitCodeArrives

LEMMA ExitFrame ==
    ASSUME ExitCodeArrives, UNCHANGED <<toHost, lastExit, exitcode>>,
           status' = status \/ status # "failed"
    PROVE  ExitCodeArrives'
BY DEF ExitCodeArrives, IsExit

LEMMA ExitStep ==
    ASSUME TypeOK, ExitCodeArrives, [Next]_vars
    PROVE  ExitCodeArrives'
<1>0. CASE UNCHANGED vars
  BY <1>0, ExitFrame DEF vars, process, vm, host
<1>1. CASE Qemu
  BY <1>1, ExitFrame DEF Qemu, StartGuest, BindSocket, Listen, PrintLine, End, vm, host
<1>2. CASE Guest
  <2>1. CASE RunScript \/ Reset
    BY <2>1, ExitFrame DEF RunScript, Reset, process, host
  <2>2. CASE SendReady \/ SendDone \/ SendError
    <3>1. PICK k \in {"ready", "done", "error"} : toHost' = Append(toHost, [m |-> k])
      BY <2>2 DEF SendReady, SendDone, SendError, Send
    <3>2. UNCHANGED <<status, exitcode, lastExit>>
      BY <2>2 DEF SendReady, SendDone, SendError, host
    <3> QED BY <3>1, <3>2, SendExit, MessageTypes
  <2>3. CASE ScriptExits
    <3>1. PICK c \in Code : toHost' = Append(toHost, [m |-> "exit", exitcode |-> c]) /\ lastExit' = c
      BY <2>3 DEF ScriptExits, Send
    <3>2. UNCHANGED <<status, exitcode>>
      BY <2>3 DEF ScriptExits, host
    <3> QED BY <3>1, <3>2, SendExit, MessageTypes
  <2>4. CASE SendData
    <3> DEFINE msg == [m |-> "download-data", path |-> Head(toGuest).path, data |-> sent + 1]
    <3>1. toHost' = Append(toHost, msg) /\ UNCHANGED <<status, exitcode, lastExit>>
      BY <2>4 DEF SendData, Send, host
    <3>2. msg \in Message
      <4>1. Head(toGuest) \in Request
        BY <2>4, QueueType DEF SendData, Requested, TypeOK
      <4>2. Head(toGuest).path \in Path /\ sent + 1 \in 1..Chunks
        BY <2>4, <4>1, MessageTypes, ConstantsAssumption DEF SendData, Requested, TypeOK
      <4> QED BY <4>2, MessageTypes
    <3>3. msg.m # "exit"
      OBVIOUS
    <3> HIDE DEF msg
    <3> QED BY <3>1, <3>2, <3>3, SendExit
  <2> QED BY <1>2, <2>1, <2>2, <2>3, <2>4 DEF Guest
<1>3. CASE TimeoutExpires \/ IoTimeoutExpires
  BY <1>3, ExitFrame DEF TimeoutExpires, IoTimeoutExpires, Expire, process, vm
<1>4. CASE ProcessExited \/ ReadLine \/ StdoutEnds \/ Finish \/ SerialEnds
  BY <1>4, ExitFrame DEF ProcessExited, ReadLine, StdoutEnds, Finish, SerialEnds, Waiting,
                         Reading, At, Raise, process, vm
<1>5. CASE SeeSocket \/ Connect
  BY <1>5, ExitFrame DEF SeeSocket, Connect, At, Raise, process, vm
<1>6. CASE HandleReady \/ HandleData \/ HandleExit \/ HandleDone \/ HandleError
  BY <1>6, ReceiveExit DEF HandleReady, HandleData, HandleExit, HandleDone, HandleError,
                           SetExitcode, Receive, At
<1> QED BY <1>0, <1>1, <1>2, <1>3, <1>4, <1>5, <1>6 DEF Next, Loop

-----------------------------------------------------------------------------
(* The first boot: requests, chunks and answers                               *)

LEMMA Concatenated ==
    ASSUME NEW S, NEW a \in Seq(S), NEW b \in Seq(S), NEW c \in Seq(S), Len(a) = 1, Len(c) = 1
    PROVE  /\ Len((a \o b) \o c) = Len(b) + 2
           /\ ((a \o b) \o c)[1] = a[1] /\ ((a \o b) \o c)[Len(b) + 2] = c[1]
           /\ \A i \in 1..Len(b) : ((a \o b) \o c)[i + 1] = b[i]
<1>1. PICK d : d = a \o b
  OBVIOUS
<1>2. /\ d \in Seq(S) /\ Len(d) = Len(b) + 1 /\ Len(b) \in Nat
      /\ \A i \in 1..(Len(b) + 1) : d[i] = IF i <= 1 THEN a[i] ELSE b[i - 1]
  BY <1>1, ConcatProperties
<1>3. /\ Len(d \o c) = Len(b) + 2
      /\ \A i \in 1..(Len(b) + 2) :
            (d \o c)[i] = IF i <= Len(b) + 1 THEN d[i] ELSE c[i - (Len(b) + 1)]
  <2>1. /\ Len(d \o c) = Len(d) + Len(c)
        /\ \A i \in 1..(Len(d) + Len(c)) :
              (d \o c)[i] = IF i <= Len(d) THEN d[i] ELSE c[i - Len(d)]
    BY <1>2, ConcatProperties
  <2>2. Len(d) = Len(b) + 1 /\ Len(d) + Len(c) = Len(b) + 2
    BY <1>2
  <2> QED BY <2>1, <2>2
<1>4. (d \o c)[1] = a[1]
  BY <1>2, <1>3
<1>5. (d \o c)[Len(b) + 2] = c[1]
  BY <1>2, <1>3
<1>6. ASSUME NEW i \in 1..Len(b)
      PROVE  (d \o c)[i + 1] = b[i]
  <2>1. /\ i + 1 \in 1..(Len(b) + 2) /\ i + 1 <= Len(b) + 1 /\ i + 1 \in 1..(Len(b) + 1)
        /\ ~(i + 1 <= 1) /\ i + 1 - 1 = i
    BY <1>2
  <2> QED BY <1>2, <1>3, <2>1
<1> QED BY <1>1, <1>3, <1>4, <1>5, <1>6

LEMMA RequestList ==
    ASSUME TypeOK
    PROVE  /\ Len(opts.downloads) \in Nat /\ Len(Requests) = Len(opts.downloads) + 2
           /\ Requests[1] = [m |-> "launch"] /\ Requests[Len(Requests)] = [m |-> "done"]
           /\ \A i \in Downloads :
                Requests[i + 1] = [m |-> "download", path |-> opts.downloads[i]]
           /\ \A i \in Downloads : opts.downloads[i] \in Path
           /\ \A i, j \in Downloads : opts.downloads[i] = opts.downloads[j] => i = j
<1> DEFINE dl == opts.downloads
           asked == [i \in DOMAIN dl |-> [m |-> "download", path |-> dl[i]]]
           first == <<[m |-> "launch"]>>
           last == <<[m |-> "done"]>>
<1>1. dl \in Seq(Path) /\ \A i, j \in DOMAIN dl : dl[i] = dl[j] => i = j
  BY ConstantsAssumption DEF TypeOK, Option
<1>2. DOMAIN dl = Downloads /\ Len(dl) \in Nat /\ \A i \in Downloads : dl[i] \in Path
  BY <1>1 DEF Downloads
<1>3. asked \in Seq(Request) /\ Len(asked) = Len(dl)
      /\ \A i \in Downloads : asked[i] = [m |-> "download", path |-> dl[i]]
  <2>1. \A i \in DOMAIN dl : [m |-> "download", path |-> dl[i]] \in Request
    BY <1>2 DEF Request
  <2> QED BY <1>2, <2>1 DEF Downloads
<1>4. first \in Seq(Request) /\ last \in Seq(Request) /\ Len(first) = 1 /\ Len(last) = 1
      /\ first[1] = [m |-> "launch"] /\ last[1] = [m |-> "done"]
  BY DEF Request
<1> HIDE DEF asked, first, last
<1>5. Requests = (first \o asked) \o last
  BY DEF Requests, first, asked, last
<1>6. /\ Len(Requests) = Len(dl) + 2 /\ Requests[1] = first[1]
      /\ Requests[Len(dl) + 2] = last[1]
      /\ \A i \in 1..Len(dl) : Requests[i + 1] = asked[i]
  <2>1. /\ Len((first \o asked) \o last) = Len(asked) + 2
        /\ ((first \o asked) \o last)[1] = first[1]
        /\ ((first \o asked) \o last)[Len(asked) + 2] = last[1]
        /\ \A i \in 1..Len(asked) : ((first \o asked) \o last)[i + 1] = asked[i]
    BY <1>3, <1>4, Concatenated
  <2> QED BY <1>3, <1>5, <2>1
<1> QED BY <1>1, <1>2, <1>3, <1>4, <1>6 DEF Downloads

LEMMA Sending ==
    ASSUME TypeOK, NEW msg \in Message, toHost' = Append(toHost, msg)
    PROVE  /\ Len(toHost) \in Nat /\ Len(toHost') = Len(toHost) + 1
           /\ toHost'[Len(toHost) + 1] = msg
           /\ \A j \in OnLine : toHost'[j] = toHost[j]
           /\ OnLine' = OnLine \cup {Len(toHost) + 1}
BY DEF TypeOK, OnLine

LEMMA Receiving ==
    ASSUME TypeOK, toHost # <<>>, toHost' = Tail(toHost)
    PROVE  /\ Len(toHost) \in Nat \ {0} /\ Len(toHost') = Len(toHost) - 1
           /\ Head(toHost) = toHost[1] /\ 1 \in OnLine
           /\ \A j \in OnLine' : toHost'[j] = toHost[j + 1] /\ j + 1 \in OnLine
           /\ \A j \in OnLine : j # 1 => j - 1 \in OnLine' /\ toHost'[j - 1] = toHost[j]
BY DEF TypeOK, OnLine

\* A message of another kind comes, or goes.
LEMMA ChunksQuiet ==
    ASSUME TypeOK, NEW n \in Nat, NEW k \in Nat, ChunksOK(n), UNCHANGED <<opts, got>>,
           \A i \in Downloads : SentOf(i, k)' = SentOf(i, n),
           \/ toHost' = toHost
           \/ \E msg \in Message : msg.m # "download-data" /\ toHost' = Append(toHost, msg)
           \/ toHost # <<>> /\ Head(toHost).m # "download-data" /\ toHost' = Tail(toHost)
    PROVE  ChunksOK(k)'
<1>0. Downloads' = Downloads
  BY DEF Downloads
<1>1. ASSUME \A p, d : Sent(p, d) => Sent(p, d)',
             \A j \in OnLine' : IsData(j)' =>
                \E l \in OnLine : IsData(l) /\ toHost'[j] = toHost[l],
             DataOrdered'
      PROVE  ChunksOK(k)'
  <2>1. ASSUME NEW i \in Downloads
        PROVE  FileOK(opts.downloads[i], SentOf(i, k))'
    BY <1>1 DEF ChunksOK, FileOK
  <2>2. ASSUME NEW j \in OnLine', IsData(j)'
        PROVE  DataOK(j, k)'
    BY <1>0, <1>1, <2>2 DEF ChunksOK, DataOK
  <2> QED BY <1>0, <1>1, <2>1, <2>2 DEF ChunksOK
<1>2. CASE toHost' = toHost
  BY <1>1, <1>2 DEF ChunksOK, Sent, OnLine, IsData, DataOrdered
<1>3. ASSUME NEW msg \in Message, msg.m # "download-data", toHost' = Append(toHost, msg)
      PROVE  ChunksOK(k)'
  <2>1. \A j \in OnLine' : IsData(j)' => j \in OnLine /\ IsData(j) /\ toHost'[j] = toHost[j]
    BY <1>3, Sending DEF IsData
  <2>2. \A j \in OnLine : IsData(j) => j \in OnLine' /\ IsData(j)' /\ toHost'[j] = toHost[j]
    BY <1>3, Sending DEF IsData
  <2>3. DataOrdered'
    BY <2>1 DEF ChunksOK, DataOrdered
  <2> QED BY <1>1, <2>1, <2>2, <2>3 DEF Sent
<1>4. CASE toHost # <<>> /\ Head(toHost).m # "download-data" /\ toHost' = Tail(toHost)
  <2>1. \A j \in OnLine' : IsData(j)' => j + 1 \in OnLine /\ IsData(j + 1) /\ toHost'[j] = toHost[j + 1]
    BY <1>4, Receiving DEF IsData
  <2>2. \A j \in OnLine : IsData(j) => j - 1 \in OnLine' /\ IsData(j - 1)' /\ toHost'[j - 1] = toHost[j]
    BY <1>4, Receiving DEF IsData
  <2>3. DataOrdered'
    <3>1. \A j, l \in OnLine' : j < l => j + 1 < l + 1
      BY DEF OnLine
    <3> QED BY <2>1, <3>1 DEF ChunksOK, DataOrdered
  <2> QED BY <1>1, <2>1, <2>2, <2>3 DEF Sent
<1> QED BY <1>2, <1>3, <1>4

LEMMA DataMessage ==
    ASSUME TypeOK, NEW j \in OnLine, IsData(j)
    PROVE  toHost[j].path \in Path /\ toHost[j].data \in 1..Chunks
BY MessageTypes DEF TypeOK, OnLine, IsData

\* The guest sends the next chunk of the n-th download.
LEMMA ChunkSent ==
    ASSUME TypeOK, NEW n \in Downloads, NEW k \in Nat, ChunksOK(n), UNCHANGED <<opts, got>>,
           SentOf(n, k)' = sent + 1, \A i \in Downloads \ {n} : SentOf(i, k)' = SentOf(i, n),
           NEW msg \in Message, msg.m = "download-data", msg.path = opts.downloads[n],
           msg.data = sent + 1, toHost' = Append(toHost, msg)
    PROVE  ChunksOK(k)'
<1>0. Downloads' = Downloads /\ SentOf(n, n) = sent /\ sent \in Nat
  BY DEF Downloads, SentOf, TypeOK
<1>1. PICK e \in Nat : e = Len(toHost) + 1
  BY DEF TypeOK
<1>2. \A j \in OnLine : toHost'[j] = toHost[j] /\ (IsData(j)' <=> IsData(j)) /\ j \in OnLine' /\ j < e
  BY <1>1, Sending DEF IsData, OnLine
<1>3. e \in OnLine' /\ toHost'[e] = msg /\ IsData(e)'
  BY <1>1, Sending DEF IsData
<1>4. \A j \in OnLine' : j \in OnLine \/ j = e
  BY <1>1, Sending
<1>5. \A i \in Downloads : Len(got[opts.downloads[i]]) \in Nat
  BY RequestList DEF TypeOK
<1>6. \A p, d : Sent(p, d) \/ (p = msg.path /\ d = msg.data) => Sent(p, d)'
  BY <1>2, <1>3 DEF Sent
<1>7. ASSUME NEW i \in Downloads
      PROVE  FileOK(opts.downloads[i], SentOf(i, k))'
  <2>1. FileOK(opts.downloads[i], SentOf(i, n))
    BY DEF ChunksOK
  <2>2. CASE i # n
    BY <1>6, <2>1, <2>2 DEF FileOK
  <2>3. CASE i = n
    <3>1. PICK p, m : p = opts.downloads[n] /\ m = sent
      OBVIOUS
    <3>2. FileOK(p, m) /\ m \in Nat /\ Len(got[p]) \in Nat
      BY <1>0, <1>5, <2>1, <2>3, <3>1
    <3>3. FileOK(p, m + 1)'
      <4>1. \A d \in (Len(got[p]) + 1)..(m + 1) : d = m + 1 \/ d \in (Len(got[p]) + 1)..m
        BY <3>2
      <4>2. \A d \in (Len(got[p]) + 1)..(m + 1) : Sent(p, d)'
        BY <1>6, <3>1, <3>2, <4>1 DEF FileOK
      <4>3. Len(got[p]) <= m + 1
        BY <3>2 DEF FileOK
      <4> QED BY <3>2, <4>2, <4>3 DEF FileOK
    <3>4. opts'.downloads[i] = p /\ SentOf(i, k)' = m + 1
      BY <2>3, <3>1
    <3> QED BY <3>3, <3>4
  <2> QED BY <2>2, <2>3
<1>8. ASSUME NEW j \in OnLine', IsData(j)'
      PROVE  DataOK(j, k)'
  <2>1. CASE j \in OnLine
    <3>1. PICK i \in Downloads : /\ toHost[j].path = opts.downloads[i]
                                 /\ Len(got[opts.downloads[i]]) < toHost[j].data
                                 /\ toHost[j].data <= SentOf(i, n)
      BY <1>2, <1>8, <2>1 DEF ChunksOK, DataOK
    <3>2. toHost[j].data \in Nat
      BY <1>2, <1>8, <2>1, DataMessage, ConstantsAssumption
    <3>3. toHost[j].data <= SentOf(i, k)'
      BY <1>0, <3>1, <3>2
    <3> QED BY <1>0, <1>2, <2>1, <3>1, <3>3 DEF DataOK
  <2>2. CASE j = e
    <3>1. Len(got[opts.downloads[n]]) <= sent
      BY <1>0 DEF ChunksOK, FileOK
    <3>2. Len(got[opts.downloads[n]]) < sent + 1 /\ sent + 1 <= SentOf(n, k)'
      BY <1>0, <1>5, <3>1
    <3> QED BY <1>0, <1>3, <2>2, <3>2 DEF DataOK
  <2> QED BY <1>4, <1>8, <2>1, <2>2
<1>9. DataOrdered'
  <2> SUFFICES ASSUME NEW j \in OnLine', NEW l \in OnLine', IsData(j)', IsData(l)',
                      toHost'[j].path = toHost'[l].path, j < l
               PROVE  toHost'[j].data < toHost'[l].data
    BY DEF DataOrdered
  <2>1. j \in OnLine
    BY <1>2, <1>4 DEF OnLine
  <2>2. CASE l \in OnLine
    BY <1>2, <2>1, <2>2 DEF ChunksOK, DataOrdered
  <2>3. CASE l = e
    <3>1. PICK i \in Downloads : /\ toHost[j].path = opts.downloads[i]
                                 /\ toHost[j].data <= SentOf(i, n)
      BY <1>2, <2>1 DEF ChunksOK, DataOK
    <3>2. i = n
      <4>1. toHost[j].path = opts.downloads[n]
        BY <1>2, <1>3, <2>1, <2>3
      <4> QED BY <3>1, <4>1, RequestList
    <3>3. toHost[j].data \in Nat
      BY <1>2, <2>1, DataMessage, ConstantsAssumption
    <3>4. toHost[j].data <= sent
      BY <1>0, <3>1, <3>2
    <3>5. toHost'[j].data = toHost[j].data /\ toHost'[l].data = sent + 1
      BY <1>2, <1>3, <2>1, <2>3
    <3> QED BY <1>0, <3>3, <3>4, <3>5
  <2> QED BY <1>4, <2>2, <2>3
<1> QED BY <1>0, <1>7, <1>8, <1>9 DEF ChunksOK

\* The host handles the oldest message, with a chunk.
LEMMA ChunkStored ==
    ASSUME TypeOK, NEW n \in Nat, ChunksOK(n), UNCHANGED <<opts, sent>>,
           toHost # <<>>, Head(toHost).m = "download-data", toHost' = Tail(toHost),
           got' = [got EXCEPT ![Head(toHost).path] = Append(@, Head(toHost).data)]
    PROVE  ChunksOK(n)'
<1>0. Downloads' = Downloads /\ \A i \in Downloads : SentOf(i, n)' = SentOf(i, n)
  BY DEF Downloads, SentOf
<1>1. PICK q, c : q = toHost[1].path /\ c = toHost[1].data
  OBVIOUS
<1>2. toHost[1] = Head(toHost) /\ 1 \in OnLine /\ IsData(1)
  BY Receiving DEF IsData
<1>3. q \in Path /\ c \in 1..Chunks /\ c \in Nat
  BY <1>1, <1>2, DataMessage, ConstantsAssumption
<1>4. PICK x \in Downloads : q = opts.downloads[x] /\ Len(got[q]) < c /\ c <= SentOf(x, n)
  BY <1>1, <1>2 DEF ChunksOK, DataOK
<1>5. Len(got[q]) \in Nat /\ \A i \in Downloads : SentOf(i, n) \in Nat
  BY <1>3, ConstantsAssumption DEF TypeOK, SentOf
<1>6. c = Len(got[q]) + 1
  <2> SUFFICES ASSUME c # Len(got[q]) + 1 PROVE FALSE
    OBVIOUS
  <2>1. Len(got[q]) + 1 \in (Len(got[q]) + 1)..SentOf(x, n) /\ Len(got[q]) + 1 < c
    BY <1>3, <1>4, <1>5
  <2>2. Sent(q, Len(got[q]) + 1)
    BY <1>4, <2>1 DEF ChunksOK, FileOK
  <2>3. PICK j \in OnLine : IsData(j) /\ toHost[j].path = q /\ toHost[j].data = Len(got[q]) + 1
    BY <2>2 DEF Sent
  <2>4. 1 < j
    BY <1>1, <2>1, <2>3 DEF OnLine
  <2>5. c < toHost[j].data
    BY <1>1, <1>2, <2>3, <2>4 DEF ChunksOK, DataOrdered
  <2> QED BY <1>3, <1>5, <2>1, <2>3, <2>5
<1>7. /\ got'[q] = Append(got[q], c)
      /\ \A p \in Path \ {q} : got'[p] = got[p]
  BY <1>1, <1>2, <1>3 DEF TypeOK
<1>8. /\ Len(got'[q]) = c /\ got'[q][c] = c
      /\ \A d \in 1..Len(got[q]) : got'[q][d] = got[q][d]
  BY <1>3, <1>6, <1>7 DEF TypeOK
<1>9. \A j \in OnLine' : /\ toHost'[j] = toHost[j + 1] /\ j + 1 \in OnLine /\ 1 < j + 1
                         /\ IsData(j)' <=> IsData(j + 1)
  BY Receiving DEF IsData, OnLine
<1>10. \A j \in OnLine \ {1} : /\ toHost'[j - 1] = toHost[j] /\ j - 1 \in OnLine'
                               /\ toHost'[j - 1].m = "download-data" <=> IsData(j)
  BY Receiving DEF IsData
<1>11. \A p, d : Sent(p, d) /\ (p # q \/ d # c) => Sent(p, d)'
  <2> SUFFICES ASSUME NEW p, NEW d, Sent(p, d), p # q \/ d # c
               PROVE  Sent(p, d)'
    OBVIOUS
  <2>1. PICK j \in OnLine : IsData(j) /\ toHost[j].path = p /\ toHost[j].data = d
    BY DEF Sent
  <2>2. j # 1
    BY <1>1, <2>1
  <2>3. PICK l \in OnLine' : l = j - 1
    BY <1>10, <2>2
  <2> QED BY <1>10, <2>1, <2>2, <2>3 DEF Sent, IsData
<1>12. ASSUME NEW i \in Downloads
       PROVE  FileOK(opts.downloads[i], SentOf(i, n))'
  <2>1. PICK p, m : p = opts.downloads[i] /\ m = SentOf(i, n)
    OBVIOUS
  <2>2. FileOK(p, m) /\ p \in Path /\ m \in Nat
    BY <1>5, <2>1, RequestList DEF ChunksOK
  <2>3. CASE p # q
    <3>1. FileOK(p, m)'
      BY <1>7, <1>11, <2>2, <2>3 DEF FileOK
    <3> QED BY <1>0, <2>1, <3>1
  <2>4. CASE p = q
    <3>1. i = x
      BY <1>4, <2>1, <2>4, RequestList
    <3>2. \A d \in 1..c : d = c \/ d \in 1..Len(got[q])
      BY <1>3, <1>5, <1>6
    <3>3. \A d \in 1..Len(got'[p]) : got'[p][d] = d
      BY <1>8, <2>2, <2>4, <3>2 DEF FileOK
    <3>4. \A d \in (c + 1)..m : d \in (Len(got[p]) + 1)..m /\ d # c
      BY <1>3, <1>5, <1>6, <2>2, <2>4
    <3>5. \A d \in (c + 1)..m : Sent(p, d)'
      BY <1>11, <2>2, <3>4 DEF FileOK
    <3>6. c <= m
      BY <1>4, <2>1, <3>1
    <3>7. FileOK(p, m)'
      BY <1>8, <2>4, <3>3, <3>5, <3>6 DEF FileOK
    <3> QED BY <1>0, <2>1, <3>7
  <2> QED BY <2>3, <2>4
<1>13. ASSUME NEW j \in OnLine', IsData(j)'
       PROVE  DataOK(j, n)'
  <2>1. IsData(j + 1) /\ j + 1 \in OnLine
    BY <1>9, <1>13
  <2>2. PICK i \in Downloads : /\ toHost[j + 1].path = opts.downloads[i]
                               /\ Len(got[opts.downloads[i]]) < toHost[j + 1].data
                               /\ toHost[j + 1].data <= SentOf(i, n)
    BY <2>1 DEF ChunksOK, DataOK
  <2>3. Len(got'[opts.downloads[i]]) < toHost[j + 1].data
    <3>1. CASE opts.downloads[i] = q
      <4>1. c < toHost[j + 1].data
        BY <1>1, <1>2, <1>9, <2>1, <2>2, <3>1 DEF ChunksOK, DataOrdered
      <4> QED BY <1>8, <3>1, <4>1
    <3>2. CASE opts.downloads[i] # q
      BY <1>7, <2>2, <3>2, RequestList
    <3> QED BY <3>1, <3>2
  <2> QED BY <1>0, <1>9, <2>2, <2>3 DEF DataOK
<1>14. DataOrdered'
  <2>1. \A j, l \in OnLine' : j < l => j + 1 < l + 1
    BY DEF OnLine
  <2> QED BY <1>9, <2>1 DEF ChunksOK, DataOrdered
<1> QED BY <1>0, <1>12, <1>13, <1>14 DEF ChunksOK

LEMMA RequestKind ==
    ASSUME TypeOK, NEW j \in 1..Len(Requests)
    PROVE  /\ Requests[j].m = "launch" => j = 1
           /\ Requests[j].m = "done" => j = Len(Requests)
           /\ Requests[j].m = "download" =>
                j - 1 \in Downloads /\ Requests[j].path = opts.downloads[j - 1]
<1>1. j = 1 \/ j = Len(Requests) \/ j - 1 \in Downloads
  BY RequestList DEF Downloads
<1>2. CASE j = 1
  BY <1>2, RequestList
<1>3. CASE j = Len(Requests)
  BY <1>3, RequestList
<1>4. CASE j - 1 \in Downloads
  <2>1. Requests[(j - 1) + 1] = [m |-> "download", path |-> opts.downloads[j - 1]]
    BY <1>4, RequestList
  <2>2. (j - 1) + 1 = j
    OBVIOUS
  <2> QED BY <1>4, <2>1, <2>2
<1> QED BY <1>1, <1>2, <1>3, <1>4

\* The guest says something.
LEMMA AnswerSent ==
    ASSUME TypeOK, NEW n \in Nat, NEW k \in Nat, AnswersOK(n), UNCHANGED <<opts, exitcode, completed>>,
           NEW msg \in Message, toHost' = Append(toHost, msg), msg.m # "ready",
           n = Len(Requests) => msg.m = "error" /\ k = n,
           msg.m = "done" => k = Len(Requests),
           k > 0 /\ guest' = "idle" => (n > 0 /\ guest = "idle") \/ msg.m = "exit"
    PROVE  AnswersOK(k)'
<1>0. Requests' = Requests
  BY DEF Requests
<1>1. PICK e \in Nat : e = Len(toHost) + 1
  BY DEF TypeOK
<1>2. \A j \in OnLine : toHost'[j] = toHost[j] /\ j \in OnLine' /\ j < e
  BY <1>1, Sending DEF OnLine
<1>3. e \in OnLine' /\ toHost'[e] = msg
  BY <1>1, Sending
<1>4. \A j \in OnLine' : j \in OnLine \/ j = e
  BY <1>1, Sending
<1>5. k > 0 /\ guest' = "idle" => exitcode' # None \/ \E j \in OnLine' : toHost'[j].m = "exit"
  BY <1>2, <1>3 DEF AnswersOK
<1>6. \A j \in OnLine' : toHost'[j].m # "ready"
  BY <1>2, <1>3, <1>4 DEF AnswersOK
<1>7. ASSUME NEW j \in OnLine', NEW l \in OnLine', toHost'[j].m = "done", j < l
      PROVE  toHost'[l].m = "error"
  <2>1. j \in OnLine
    <3>1. j \in Int /\ l \in Int
      BY DEF OnLine
    <3> QED BY <1>2, <1>4, <1>7, <3>1
  <2>2. n = Len(Requests)
    BY <1>2, <1>7, <2>1 DEF AnswersOK
  <2> QED BY <1>2, <1>3, <1>4, <1>7, <2>1, <2>2 DEF AnswersOK
<1>8. completed' => \A j \in OnLine' : toHost'[j].m = "error"
  BY <1>2, <1>3, <1>4 DEF AnswersOK
<1>9. (\E j \in OnLine' : toHost'[j].m = "done") \/ completed' => k = Len(Requests')
  BY <1>0, <1>2, <1>3, <1>4 DEF AnswersOK
<1> QED BY <1>5, <1>6, <1>7, <1>8, <1>9 DEF AnswersOK

\* The host handles the oldest message.
LEMMA AnswerHandled ==
    ASSUME TypeOK, NEW n \in Nat, AnswersOK(n), UNCHANGED <<opts, guest>>,
           toHost # <<>>, toHost' = Tail(toHost),
           IF Head(toHost).m = "exit" THEN exitcode' # None ELSE exitcode' = exitcode,
           completed' = (completed \/ Head(toHost).m = "done")
    PROVE  AnswersOK(n)'
<1>0. Requests' = Requests
  BY DEF Requests
<1>1. Head(toHost) = toHost[1] /\ 1 \in OnLine
  BY Receiving
<1>2. \A j \in OnLine' : toHost'[j] = toHost[j + 1] /\ j + 1 \in OnLine /\ 1 < j + 1
  BY Receiving DEF OnLine
<1>3. n > 0 /\ guest' = "idle" => exitcode' # None \/ \E j \in OnLine' : toHost'[j].m = "exit"
  <2> SUFFICES ASSUME n > 0, guest = "idle", exitcode' = None
               PROVE  \E j \in OnLine' : toHost'[j].m = "exit"
    OBVIOUS
  <2>1. PICK j \in OnLine : toHost[j].m = "exit"
    BY DEF AnswersOK
  <2>2. j # 1
    BY <1>1, <2>1
  <2>3. j - 1 \in OnLine' /\ toHost'[j - 1] = toHost[j]
    BY <2>2, Receiving
  <2> QED BY <2>1, <2>3
<1>4. \A j, l \in OnLine' : toHost'[j].m = "done" /\ j < l => toHost'[l].m = "error"
  <2> SUFFICES ASSUME NEW j \in OnLine', NEW l \in OnLine', toHost'[j].m = "done", j < l
               PROVE  toHost'[l].m = "error"
    OBVIOUS
  <2>1. j + 1 < l + 1
    BY DEF OnLine
  <2>2. toHost[j + 1].m = "done" /\ j + 1 \in OnLine /\ l + 1 \in OnLine
    BY <1>2
  <2>3. toHost[l + 1].m = "error"
    BY <2>1, <2>2 DEF AnswersOK
  <2> QED BY <1>2, <2>3
<1>5. completed' => \A j \in OnLine' : toHost'[j].m = "error"
  BY <1>1, <1>2 DEF AnswersOK
<1>6. (\E j \in OnLine' : toHost'[j].m = "done") \/ completed' => n = Len(Requests')
  BY <1>0, <1>1, <1>2 DEF AnswersOK
<1>7. \A j \in OnLine' : toHost'[j].m # "ready"
  BY <1>2 DEF AnswersOK
<1> QED BY <1>3, <1>4, <1>5, <1>6, <1>7 DEF AnswersOK

\* The guest takes the next request.
LEMMA RequestTaken ==
    ASSUME TypeOK, NEW n \in Nat, Serving(n), UNCHANGED opts, toGuest # <<>>, toGuest' = Tail(toGuest)
    PROVE  /\ n + 1 \in 1..Len(Requests) /\ Requests' = Requests
           /\ Head(toGuest) = Requests[n + 1]
           /\ Len(toGuest') + (n + 1) = Len(Requests')
           /\ \A j \in 1..Len(toGuest') : toGuest'[j] = Requests'[n + 1 + j]
<1>1. /\ Len(toGuest) \in Nat \ {0} /\ Head(toGuest) = toGuest[1] /\ Len(toGuest') = Len(toGuest) - 1
      /\ \A j \in 1..Len(toGuest') : toGuest'[j] = toGuest[j + 1] /\ j + 1 \in 1..Len(toGuest)
  BY DEF TypeOK
<1>2. Len(Requests) \in Nat /\ Len(toGuest) + n = Len(Requests)
  BY RequestList DEF Serving
<1>3. Requests' = Requests
  BY DEF Requests
<1>4. \A j \in 1..Len(toGuest') : n + (j + 1) = n + 1 + j
  OBVIOUS
<1> QED BY <1>1, <1>2, <1>3, <1>4 DEF Serving

LEMMA GuestServes ==
    ASSUME TypeOK, NEW n \in 0..Len(Requests), Serving(n), Guest, boots' = 1
    PROVE  \E k \in 0..Len(Requests)' : Serving(k)'
<1>0. /\ UNCHANGED opts /\ Requests' = Requests /\ Downloads' = Downloads
      /\ Len(Requests) \in Nat /\ Len(Requests) = Len(opts.downloads) + 2
      /\ n \in Nat /\ n + 1 \in Nat /\ Len(opts.downloads) \in Nat /\ sent \in Nat
  <2>1. UNCHANGED opts
    BY DEF Guest, SendReady, RunScript, ScriptExits, SendData, SendDone, SendError, Reset
  <2>2. Requests' = Requests /\ Downloads' = Downloads
    BY <2>1 DEF Requests, Downloads
  <2>3. Len(Requests) = Len(opts.downloads) + 2 /\ Len(opts.downloads) \in Nat
    BY RequestList
  <2> QED BY <2>1, <2>2, <2>3 DEF TypeOK
<1>1. UNCHANGED <<exitcode, completed, got>>
  BY DEF Guest, SendReady, RunScript, ScriptExits, SendData, SendDone, SendError, Reset, host
<1>2. CASE SendReady
  BY <1>2 DEF SendReady, Serving
<1>3. CASE RunScript
  <2>1. toGuest # <<>> /\ toGuest' = Tail(toGuest) /\ Head(toGuest).m = "launch" /\ guest' = "script"
        /\ UNCHANGED <<toHost, sent>>
    BY <1>3 DEF RunScript, Requested
  <2>2. n = 0
    BY <1>0, <2>1, RequestTaken, RequestKind
  <2>3. sent = 0
    BY <1>0, <2>2 DEF Serving, Downloads
  <2>4. ChunksOK(1)'
    <3>1. \A i \in Downloads : SentOf(i, 1)' = SentOf(i, n)
      BY <2>1, <2>2, <2>3 DEF SentOf, Downloads
    <3> QED BY <1>0, <1>1, <2>1, <3>1, ChunksQuiet DEF Serving
  <2>5. AnswersOK(1)'
    <3>1. ~completed /\ \A j \in OnLine : toHost[j].m # "done"
      BY <1>0, <2>2 DEF Serving, AnswersOK
    <3> QED BY <1>1, <2>1, <3>1 DEF Serving, AnswersOK, OnLine
  <2>6. Serving(1)'
    BY <1>0, <2>1, <2>2, <2>3, <2>4, <2>5, RequestTaken DEF Serving
  <2> QED BY <1>0, <2>6
<1>4. CASE ScriptExits
  <2>1. PICK c \in Code : toHost' = Append(toHost, [m |-> "exit", exitcode |-> c])
    BY <1>4 DEF ScriptExits, Send
  <2>2. n = 1 /\ guest' = "idle" /\ UNCHANGED <<toGuest, sent>>
    BY <1>4 DEF ScriptExits, Serving
  <2>3. AnswersOK(n)'
    <3>1. PICK msg \in Message : msg.m = "exit" /\ toHost' = Append(toHost, msg)
      BY <2>1, MessageTypes
    <3>2. n # Len(Requests)
      BY <1>0, <2>2
    <3> QED BY <1>0, <1>1, <3>1, <3>2, AnswerSent DEF Serving
  <2>4. ChunksOK(n)'
    <3>1. \A i \in Downloads : SentOf(i, n)' = SentOf(i, n)
      BY <2>2 DEF SentOf
    <3>2. \E msg \in Message : msg.m # "download-data" /\ toHost' = Append(toHost, msg)
      BY <2>1, MessageTypes
    <3> QED BY <1>0, <1>1, <3>1, <3>2, ChunksQuiet DEF Serving
  <2>5. Serving(n)'
    BY <1>0, <2>2, <2>3, <2>4 DEF Serving
  <2> QED BY <1>0, <2>5
<1>5. CASE SendData
  <2>1. /\ toGuest # <<>> /\ Head(toGuest).m = "download" /\ guest = "idle" /\ guest' = "idle"
        /\ toHost' = Append(toHost, [m |-> "download-data", path |-> Head(toGuest).path, data |-> sent + 1])
        /\ IF sent + 1 = Chunks THEN sent' = 0 /\ toGuest' = Tail(toGuest)
           ELSE sent' = sent + 1 /\ toGuest' = toGuest
    BY <1>5 DEF SendData, Requested, Send
  <2>2. Head(toGuest) = Requests[n + 1] /\ n + 1 \in 1..Len(Requests)
    <3>1. Len(toGuest) \in Nat \ {0} /\ Head(toGuest) = toGuest[1]
      BY <2>1 DEF TypeOK
    <3> QED BY <1>0, <3>1 DEF Serving
  <2>3. n \in Downloads /\ Head(toGuest).path = opts.downloads[n] /\ n > 0
    BY <1>0, <2>1, <2>2, RequestKind DEF Downloads
  <2>4. PICK msg \in Message : /\ msg.m = "download-data" /\ msg.path = opts.downloads[n]
                               /\ msg.data = sent + 1 /\ toHost' = Append(toHost, msg)
    <3>1. sent + 1 \in 1..Chunks /\ opts.downloads[n] \in Path
      BY <2>3, RequestList, ConstantsAssumption DEF TypeOK
    <3> QED BY <2>1, <2>3, <3>1, MessageTypes
  <2>5. n < Len(Requests) - 1
    BY <1>0, <2>3 DEF Downloads
  <2>6. CASE sent + 1 = Chunks
    <3>1. SentOf(n, n + 1)' = sent + 1
      BY <1>0, <2>6 DEF SentOf
    <3>2. \A i \in Downloads \ {n} : SentOf(i, n + 1)' = SentOf(i, n)
      BY <1>0, <2>1, <2>3, <2>6 DEF SentOf, Downloads
    <3>3. ChunksOK(n + 1)'
      BY <1>0, <1>1, <2>3, <2>4, <3>1, <3>2, ChunkSent DEF Serving
    <3>4. AnswersOK(n + 1)'
      BY <1>0, <1>1, <2>1, <2>3, <2>4, <2>5, AnswerSent DEF Serving
    <3>5. Serving(n + 1)'
      BY <1>0, <2>1, <2>6, <3>3, <3>4, RequestTaken DEF Serving
    <3> QED BY <1>0, <2>5, <3>5
  <2>7. CASE sent + 1 # Chunks
    <3>1. SentOf(n, n)' = sent + 1
      BY <2>1, <2>3, <2>7 DEF SentOf, Downloads
    <3>2. \A i \in Downloads \ {n} : SentOf(i, n)' = SentOf(i, n)
      BY DEF SentOf
    <3>3. ChunksOK(n)'
      BY <1>0, <1>1, <2>3, <2>4, <3>1, <3>2, ChunkSent DEF Serving
    <3>4. AnswersOK(n)'
      BY <1>0, <1>1, <2>1, <2>3, <2>4, <2>5, AnswerSent DEF Serving
    <3>5. Serving(n)'
      BY <1>0, <2>1, <2>3, <2>7, <3>3, <3>4 DEF Serving
    <3> QED BY <1>0, <3>5
  <2> QED BY <2>6, <2>7
<1>6. CASE SendDone
  <2>1. /\ toGuest # <<>> /\ toGuest' = Tail(toGuest) /\ Head(toGuest).m = "done"
        /\ guest = "idle" /\ guest' = "idle" /\ sent' = sent
        /\ toHost' = Append(toHost, [m |-> "done"])
    BY <1>6 DEF SendDone, Requested, Send
  <2>2. n + 1 = Len(Requests)
    BY <1>0, <2>1, RequestTaken, RequestKind
  <2>3. sent = 0 /\ n > 0
    BY <1>0, <2>2 DEF Serving, Downloads
  <2>4. PICK msg \in Message : msg.m = "done" /\ toHost' = Append(toHost, msg)
    BY <2>1, MessageTypes
  <2>5. AnswersOK(n + 1)'
    BY <1>0, <1>1, <2>1, <2>2, <2>3, <2>4, AnswerSent DEF Serving
  <2>6. ChunksOK(n + 1)'
    <3>1. \A i \in Downloads : SentOf(i, n + 1)' = SentOf(i, n)
      BY <1>0, <2>2 DEF SentOf, Downloads
    <3> QED BY <1>0, <1>1, <2>4, <3>1, ChunksQuiet DEF Serving
  <2>7. Serving(n + 1)'
    BY <1>0, <2>1, <2>3, <2>5, <2>6, RequestTaken DEF Serving
  <2> QED BY <1>0, <2>2, <2>7
<1>7. CASE SendError
  <2>1. UNCHANGED <<guest, toGuest, sent>> /\ toHost' = Append(toHost, [m |-> "error"])
    BY <1>7 DEF SendError, Send
  <2>2. PICK msg \in Message : msg.m = "error" /\ toHost' = Append(toHost, msg)
    BY <2>1, MessageTypes
  <2>3. AnswersOK(n)'
    BY <1>0, <1>1, <2>1, <2>2, AnswerSent DEF Serving
  <2>4. ChunksOK(n)'
    <3>1. \A i \in Downloads : SentOf(i, n)' = SentOf(i, n)
      BY <2>1 DEF SentOf
    <3> QED BY <1>0, <1>1, <2>2, <3>1, ChunksQuiet DEF Serving
  <2>5. Serving(n)'
    BY <1>0, <2>1, <2>3, <2>4 DEF Serving
  <2> QED BY <1>0, <2>5
<1>8. CASE Reset
  BY <1>8 DEF Reset, TypeOK
<1> QED BY <1>2, <1>3, <1>4, <1>5, <1>6, <1>7, <1>8 DEF Guest

LEMMA GuestStarts ==
    ASSUME TypeOK, Starting, Guest, boots' = 1
    PROVE  Starting'
<1>1. UNCHANGED <<opts, exitcode, completed, got>>
  BY DEF Guest, SendReady, RunScript, ScriptExits, SendData, SendDone, SendError, Reset, host
<1>2. CASE SendReady
  <2>1. toHost' = Append(<<>>, [m |-> "ready"]) /\ guest' = "idle" /\ UNCHANGED <<toGuest, sent>>
    BY <1>2 DEF SendReady, Send, Starting
  <2>2. [m |-> "ready"] \in Message
    BY MessageTypes
  <2>3. toHost' # <<>> /\ toHost'[1].m = "ready" /\ OnLine' = {1}
    BY <2>1, <2>2 DEF OnLine
  <2> QED BY <1>1, <2>1, <2>3 DEF Starting
<1>3. CASE SendError
  <2>1. UNCHANGED <<guest, toGuest, sent>> /\ guest = "idle" /\ toHost' = Append(toHost, [m |-> "error"])
    BY <1>3 DEF SendError, Send, Starting
  <2>2. PICK msg \in Message : msg.m = "error" /\ toHost' = Append(toHost, msg)
    BY <2>1, MessageTypes
  <2>3. toHost # <<>> /\ toHost[1].m = "ready" /\ \A j \in OnLine : j > 1 => toHost[j].m = "error"
    BY <2>1 DEF Starting
  <2>4. 1 \in OnLine /\ toHost' # <<>>
    BY <2>2, <2>3 DEF OnLine, TypeOK
  <2>5. toHost'[1].m = "ready" /\ \A j \in OnLine' : j > 1 => toHost'[j].m = "error"
    BY <2>2, <2>3, <2>4, Sending
  <2> QED BY <1>1, <2>1, <2>4, <2>5 DEF Starting
<1>4. CASE RunScript \/ ScriptExits \/ SendData \/ SendDone \/ Reset
  BY <1>4 DEF RunScript, ScriptExits, SendData, SendDone, Reset, Requested, Starting, TypeOK
<1> QED BY <1>2, <1>3, <1>4 DEF Guest

Handle == HandleReady \/ HandleData \/ HandleExit \/ HandleDone \/ HandleError

LEMMA HostServes ==
    ASSUME TypeOK, NEW n \in 0..Len(Requests), Serving(n), Handle
    PROVE  Serving(n)'
<1>0. /\ UNCHANGED <<opts, guest, sent>> /\ Requests' = Requests /\ Downloads' = Downloads
      /\ toHost # <<>> /\ toHost' = Tail(toHost) /\ n \in Nat
  <2>1. UNCHANGED <<opts, guest, sent>> /\ toHost # <<>> /\ toHost' = Tail(toHost)
    BY DEF Handle, HandleReady, HandleData, HandleExit, HandleDone, HandleError, Receive
  <2>2. Requests' = Requests /\ Downloads' = Downloads
    BY <2>1 DEF Requests, Downloads
  <2> QED BY <2>1, <2>2, RequestList
<1>1. \A i \in Downloads : SentOf(i, n)' = SentOf(i, n)
  BY <1>0 DEF SentOf
<1>2. CASE HandleReady
  BY <1>2, <1>0, Receiving DEF HandleReady, Receive, Serving, AnswersOK
<1>3. CASE HandleData
  <2>1. /\ Head(toHost).m = "download-data" /\ UNCHANGED <<toGuest, exitcode, completed>>
        /\ got' = [got EXCEPT ![Head(toHost).path] = Append(@, Head(toHost).data)]
    BY <1>3 DEF HandleData, Receive, Store
  <2>2. ChunksOK(n)'
    BY <1>0, <2>1, ChunkStored DEF Serving
  <2>3. AnswersOK(n)'
    BY <1>0, <2>1, AnswerHandled DEF Serving, TypeOK
  <2> QED BY <1>0, <2>1, <2>2, <2>3 DEF Serving
<1>4. CASE HandleExit
  <2>1. Head(toHost).m = "exit" /\ UNCHANGED <<toGuest, got, completed>> /\ exitcode' = Head(toHost).exitcode
    BY <1>4 DEF HandleExit, Receive, SetExitcode
  <2>2. exitcode' # None
    BY <1>0, <2>1, QueueType, MessageTypes, ConstantsAssumption DEF TypeOK
  <2>3. AnswersOK(n)'
    BY <1>0, <2>1, <2>2, AnswerHandled DEF Serving, TypeOK
  <2>4. ChunksOK(n)'
    BY <1>0, <1>1, <2>1, ChunksQuiet DEF Serving
  <2> QED BY <1>0, <2>1, <2>3, <2>4 DEF Serving
<1>5. CASE HandleDone \/ HandleError
  <2>1. /\ Head(toHost).m \in {"done", "error"} /\ UNCHANGED <<toGuest, got, exitcode>>
        /\ completed' = (completed \/ Head(toHost).m = "done")
    BY <1>5 DEF HandleDone, HandleError, Receive, TypeOK
  <2>2. AnswersOK(n)'
    BY <1>0, <2>1, AnswerHandled DEF Serving
  <2>3. ChunksOK(n)'
    BY <1>0, <1>1, <2>1, ChunksQuiet DEF Serving
  <2> QED BY <1>0, <2>1, <2>2, <2>3 DEF Serving
<1> QED BY <1>2, <1>3, <1>4, <1>5 DEF Handle

LEMMA HostStarts ==
    ASSUME TypeOK, Starting, Handle
    PROVE  Serving(0)'
<1>1. /\ toHost # <<>> /\ toHost' = Tail(toHost)
      /\ \E k \in {"ready", "download-data", "exit", "done", "error"} : Head(toHost).m = k /\ Receive(k)
  BY DEF Handle, HandleReady, HandleData, HandleExit, HandleDone, HandleError, Receive
<1>2. toHost[1].m = "ready" /\ guest = "idle" /\ \A j \in OnLine : j > 1 => toHost[j].m = "error"
  BY <1>1 DEF Starting
<1>3. HandleReady
  BY <1>1, <1>2, Receiving DEF Handle, HandleReady, HandleData, HandleExit, HandleDone, HandleError, Receive
<1>4. /\ toGuest' = <<>> \o Requests /\ guest' = "idle" /\ sent' = 0 /\ exitcode' = None /\ ~completed'
      /\ got' = [p \in Path |-> <<>>] /\ opts' = opts
  BY <1>2, <1>3 DEF HandleReady, Receive, Starting
<1>5. Requests' = Requests /\ Requests \in Seq(Request) /\ toGuest' = Requests /\ Len(Requests) \in Nat
  BY <1>4, RequestsType, ConcatEmptySeq DEF Requests
<1>6. \A j \in OnLine' : toHost'[j].m = "error"
  BY <1>1, <1>2, Receiving DEF OnLine
<1>7. AnswersOK(0)'
  BY <1>4, <1>6 DEF AnswersOK
<1>8. ChunksOK(0)'
  <2>1. ASSUME NEW i \in Downloads'
        PROVE  FileOK(opts.downloads[i], SentOf(i, 0))'
    <3>1. opts'.downloads[i] \in Path
      BY <1>4, RequestList DEF Downloads
    <3>2. got'[opts'.downloads[i]] = <<>>
      BY <1>4, <3>1
    <3>3. SentOf(i, 0)' = 0
      BY <1>4 DEF SentOf, Downloads
    <3> QED BY <3>2, <3>3 DEF FileOK
  <2> QED BY <1>6, <2>1 DEF ChunksOK, IsData, DataOrdered
<1> QED BY <1>4, <1>5, <1>7, <1>8 DEF Serving

LEMMA FirstFrame ==
    ASSUME TypeOK, FirstBoot,
           UNCHANGED <<opts, guest, boots, toGuest, toHost, sent, exitcode, got, completed>>
    PROVE  FirstBoot'
<1>1. Requests' = Requests
  BY DEF Requests
<1>2. CASE Starting
  BY <1>2 DEF FirstBoot, Starting, OnLine
<1>3. ASSUME NEW n \in 0..Len(Requests), Serving(n)
      PROVE  Serving(n)'
  <2>1. AnswersOK(n)'
    BY <1>1, <1>3 DEF Serving, AnswersOK, OnLine
  <2>2. ChunksOK(n)'
    <3>1. \A i \in Downloads : SentOf(i, n)' = SentOf(i, n)
      BY DEF SentOf
    <3>2. n \in Nat
      BY RequestList
    <3> QED BY <1>3, <3>1, <3>2, ChunksQuiet DEF Serving
  <2> QED BY <1>1, <1>3, <2>1, <2>2 DEF Serving, Downloads
<1> QED BY <1>1, <1>2, <1>3 DEF FirstBoot

LEMMA FirstStep ==
    ASSUME TypeOK, FirstBoot, [Next]_vars
    PROVE  FirstBoot'
<1>0. CASE UNCHANGED vars
  BY <1>0, FirstFrame DEF vars, vm, host
<1>1. CASE Qemu
  BY <1>1, FirstFrame DEF Qemu, StartGuest, BindSocket, Listen, PrintLine, End, vm, host
<1>2. CASE TimeoutExpires \/ IoTimeoutExpires
  BY <1>2, FirstFrame DEF TimeoutExpires, IoTimeoutExpires, Expire, vm
<1>3. CASE ProcessExited \/ ReadLine \/ StdoutEnds \/ Finish \/ SeeSocket \/ Connect \/ SerialEnds
  BY <1>3, FirstFrame DEF ProcessExited, ReadLine, StdoutEnds, Finish, SeeSocket, Connect, SerialEnds, vm
<1>4. CASE Guest
  <2> SUFFICES ASSUME boots' = 1
               PROVE  (Starting \/ \E n \in 0..Len(Requests) : Serving(n))'
    BY DEF FirstBoot
  <2>1. boots = 1
    BY <1>4 DEF Guest, SendReady, RunScript, ScriptExits, SendData, SendDone, SendError, Reset, TypeOK
  <2> QED BY <1>4, <2>1, GuestStarts, GuestServes DEF FirstBoot
<1>5. CASE Handle
  <2>1. boots' = boots /\ Len(Requests)' = Len(Requests) /\ 0 \in 0..Len(Requests)
    <3>1. boots' = boots /\ opts' = opts
      BY <1>5 DEF Handle, HandleReady, HandleData, HandleExit, HandleDone, HandleError, Receive
    <3> QED BY <3>1, RequestList DEF Requests
  <2> QED BY <1>5, <2>1, HostStarts, HostServes DEF FirstBoot
<1> QED BY <1>0, <1>1, <1>2, <1>3, <1>4, <1>5 DEF Next, Loop, Handle

LEMMA SignalsStep ==
    ASSUME TypeOK, SignalsOK, [Next]_vars
    PROVE  SignalsOK'
<1> USE DEF TypeOK, SignalsOK, Expired
<1>0. CASE UNCHANGED vars
  BY <1>0 DEF vars, process, vm, host
<1>1. CASE Qemu
  BY <1>1 DEF Qemu, StartGuest, BindSocket, Listen, PrintLine, End, vm, host
<1>2. CASE Guest
  BY <1>2 DEF Guest, SendReady, RunScript, ScriptExits, SendData, SendDone, SendError, Reset,
              process, host
<1>3. CASE TimeoutExpires \/ IoTimeoutExpires
  BY <1>3 DEF TimeoutExpires, IoTimeoutExpires, Expire, Terminate, process, vm
<1>4. CASE ProcessExited \/ StdoutEnds \/ Finish \/ SerialEnds
  BY <1>4 DEF ProcessExited, StdoutEnds, Finish, SerialEnds, Raise, Terminate, process, vm
<1>5. CASE ReadLine
  BY <1>5 DEF ReadLine, Satisfied, Raise, Terminate, vm
<1>6. CASE SeeSocket \/ Connect
  BY <1>6 DEF SeeSocket, Connect, At, Raise, Terminate, process, vm
<1>7. CASE Handle
  BY <1>7 DEF Handle, HandleReady, HandleData, HandleExit, HandleDone, HandleError, Receive, At,
              Raise, Terminate, process
<1> QED BY <1>0, <1>1, <1>2, <1>3, <1>4, <1>5, <1>6, <1>7 DEF Next, Loop, Handle

\* After "done" nothing is missing.
LEMMA DoneIsWhole ==
    ASSUME TypeOK, FirstBoot, completed, boots = 1
    PROVE  exitcode # None /\ AllWhole
<1>1. PICK n \in 0..Len(Requests) : Serving(n)
  BY DEF FirstBoot, Starting
<1>2. /\ n = Len(Requests) /\ Len(Requests) = Len(opts.downloads) + 2 /\ Len(opts.downloads) \in Nat
      /\ \A j \in OnLine : toHost[j].m = "error"
  BY <1>1, RequestList DEF Serving, AnswersOK
<1>3. exitcode # None
  BY <1>1, <1>2 DEF Serving, AnswersOK
<1>4. ASSUME NEW i \in Downloads
      PROVE  Whole(opts.downloads[i])
  <2>1. PICK p : p = opts.downloads[i]
    OBVIOUS
  <2>2. SentOf(i, n) = Chunks
    BY <1>2 DEF SentOf, Downloads
  <2>3. FileOK(p, Chunks) /\ \A d : ~Sent(p, d)
    BY <1>1, <1>2, <2>1, <2>2 DEF Serving, ChunksOK, Sent, IsData
  <2>4. p \in Path /\ got[p] \in Seq(1..Chunks) /\ Len(got[p]) \in Nat /\ Chunks \in Nat
    BY <2>1, RequestList, ConstantsAssumption DEF TypeOK
  <2>5. Len(got[p]) = Chunks
    BY <2>3, <2>4 DEF FileOK
  <2>6. got[p] = [d \in 1..Chunks |-> d]
    BY <2>3, <2>4, <2>5 DEF FileOK
  <2> QED BY <2>1, <2>6 DEF Whole
<1>5. DOMAIN opts.downloads = Downloads
  BY ConstantsAssumption DEF TypeOK, Option, Downloads
<1> QED BY <1>3, <1>4, <1>5 DEF AllWhole

-----------------------------------------------------------------------------
(* The theorems *)

LEMMA InitInv == Init => IInv
<1> SUFFICES ASSUME Init
             PROVE  IInv
  OBVIOUS
<1> USE DEF Init
<1>1. TypeOK
  <2>1. got \in [Path -> Seq(1..Chunks)] /\ out \in Seq(Line) /\ toGuest \in Seq(Request)
        /\ toHost \in Seq(Message)
    BY QueueType
  <2>2. armed \in BOOLEAN /\ boots \in 1..MaxBoots /\ sent \in 0..(Chunks - 1) /\ task \in Task
    BY ConstantsAssumption DEF Task, Option
  <2> QED BY <2>1, <2>2 DEF TypeOK
<1>2. TasksOK /\ NoOrphan
  BY DEF TasksOK, NoOrphan
<1>3. LinesLookedAt /\ UnreadArePrinted /\ FoundArePrinted /\ ExitCodeArrives
  BY DEF LinesLookedAt, UnreadArePrinted, FoundArePrinted, ExitCodeArrives
<1>4. FirstBoot /\ SignalsOK
  BY DEF FirstBoot, Starting, SignalsOK
<1> QED BY <1>1, <1>2, <1>3, <1>4 DEF IInv

LEMMA Inductive == Spec => []IInv
<1>1. IInv /\ [Next]_vars => IInv'
  BY TypeStep, TasksStep, LinesStep, ExitStep, OrphanStep, FirstStep, SignalsStep DEF IInv, LinesOK
<1> QED BY InitInv, <1>1, PTL DEF Spec

\* Everything that vm-util, the serial line and the pipe hold keeps its type.
THEOREM TypeCorrect == Spec => []TypeOK
BY Inductive, PTL DEF IInv

\* Status 0 of a run with --ci-script means that the script has ended with 0.
THEOREM SuccessMeansPassed == Spec => []SuccessMeansScript
<1>1. IInv => SuccessMeansScript
  BY DEF IInv, TypeOK, TasksOK, ExitCodeArrives, SuccessMeansScript
<1> QED BY Inductive, <1>1, PTL

\* Status 0 means that each --expect was seen, and that no line of the whole boot
\* matches an --expect-not (process_stdout).
THEOREM SuccessMeansExpected == Spec => []ExpectationsMet
<1>1. IInv => SuccessMeansSeen
  BY DEF IInv, TasksOK, FoundArePrinted, SuccessMeansSeen
<1>2. IInv => SuccessMeansClean
  BY DEF IInv, TasksOK, LinesLookedAt, SuccessMeansClean
<1> QED BY Inductive, <1>1, <1>2, PTL DEF ExpectationsMet

\* In a first boot the host has a beginning of each file at any time, and the whole file
\* once it has got the "done", however messages and the end of QEMU interleave
\* (_do_ci_boot).
THEOREM DownloadsAreIntact == Spec => []DownloadsIntact
<1>1. ASSUME IInv, boots = 1, NEW i \in DOMAIN opts.downloads
      PROVE  Beginning(opts.downloads[i])
  <2>1. i \in Downloads /\ opts.downloads[i] \in Path
    BY <1>1, ConstantsAssumption DEF IInv, TypeOK, Option, Downloads
  <2>2. CASE Starting
    <3>1. got[opts.downloads[i]] = <<>>
      BY <2>1, <2>2 DEF Starting
    <3> QED BY <3>1 DEF Beginning
  <2>3. CASE \E n \in 0..Len(Requests) : Serving(n)
    BY <2>1, <2>3 DEF Serving, ChunksOK, FileOK, Beginning
  <2> QED BY <1>1, <2>2, <2>3 DEF IInv, FirstBoot
<1>2. IInv => DownloadsIntact
  BY <1>1, DoneIsWhole DEF IInv, DownloadsIntact
<1> QED BY Inductive, <1>2, PTL

\* Without --expect, a guest that boots for the first time with a script is told to end
\* only after its exit code and its files are there, or when its time is up, as long as
\* vm-util runs (do_wait, _do_ci_boot).
THEOREM GuestsMayFinish == Spec => []NotCutShort
<1>1. IInv => NotCutShort
  BY DoneIsWhole DEF IInv, SignalsOK, NotCutShort
<1> QED BY Inductive, <1>1, PTL

\* vm-util does not leave a QEMU behind that nobody has told to end.
THEOREM QemuIsToldToEnd == Spec => []NoOrphan
BY Inductive, PTL DEF IInv
=============================================================================
