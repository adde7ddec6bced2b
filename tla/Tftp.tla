-------------------------------- MODULE Tftp --------------------------------
(* TftpServer of vm-util.py: the file server of netboots.

   The server is one thread.  It takes a request from port 69, serves it from a port
   of its own and looks at nothing else meanwhile.  It never sends a packet twice
   and waits for ACKs without a timeout.  The network is external: it loses, delays,
   reorders and duplicates.  So are the clients, firmware as RFC 1350, 2347, 2349 and
   7440 describe it: they repeat a request or an ACK after a timeout, take what comes
   in order from the port that has answered first, and may give up at any time.
   Packets to a closed port disappear.  A DATA packet carries the number of a piece
   of the file and its length.                                                 *)
EXTENDS Naturals, Sequences

CONSTANTS
    Client,     \* clients, each with one transfer
    Requests,   \* what they may ask for, all of them
    MaxBlock,   \* the largest block number that fits into two bytes
    MaxData,    \* the longest data that fit into a datagram after their header
    Default,    \* the block size without an option, 512
    MaxServed,  \* bound on how often a client's request is served
    Port69, None

Request == [valid : BOOLEAN,           \* RRQ, a mode and options that are supported
            size : Nat \cup {None},    \* of the file, None: not in the TFTP root
            blksize : Nat \cup {None}, windowsize : Nat \cup {None}, tsize : Nat \cup {None},
            exact : BOOLEAN]           \* the client's ACKs have four bytes, its ERRORs a code

ASSUME ConstantsAssumption ==
    /\ Requests \subseteq [Client -> Request]
    /\ MaxBlock \in Nat \ {0} /\ MaxData \in Nat
    /\ Default \in Nat \ {0} /\ MaxServed \in Nat \ {0}
    /\ None \notin Nat \cup (Client \X Nat) /\ Port69 \notin Client
    /\ Client \cap (Client \X Nat) = {}

VARIABLES
    request,    \* of each client
    net,        \* packets under way
    pc,         \* the server: "idle", "data", "ack", "lastAck" or "dead"
    port,       \* the client that it serves, and which of its requests
    block,      \* the next block number
    piece,      \* the next piece of the file
    served,     \* how often each client's request has been served
    phase,      \* a client: "idle", "asked", "receiving", "done" or "failed"
    peer,       \* the port that it has heard from first
    got, bytes, \* the pieces that it has accepted, and their length
    gaveUp,     \* history: the clients that gave up
    fellBack,   \* history: those that have got DATA before the ACK of their options
    trouble     \* history: a packet that is sent once has been lost or overtaken

server == <<pc, port, block, piece, served>>
client == <<phase, peer, got, bytes, fellBack>>
vars == <<request, net, server, client, gaveUp, trouble>>

Port == Client \X (1..MaxServed)

Packet ==
    [to : {Port69}, from : Client, op : {"RRQ"}]
    \cup [to : Port, op : {"ACK"}, block : Nat] \cup [to : Port, op : {"ERROR"}]
    \cup [to : Client, from : Port \cup {Port69}, op : {"ERROR"}]
    \cup [to : Client, from : Port, op : {"OACK"}]
    \cup [to : Client, from : Port, op : {"DATA"}, block : 1..MaxBlock,
          piece : Nat \ {0}, len : Nat]

Init ==
    /\ request \in Requests
    /\ net = {}
    /\ pc = "idle" /\ port = None /\ block = 1 /\ piece = 1
    /\ served = [c \in Client |-> 0]
    /\ phase = [c \in Client |-> "idle"] /\ peer = [c \in Client |-> None]
    /\ got = [c \in Client |-> <<>>] /\ bytes = [c \in Client |-> 0]
    /\ gaveUp = {} /\ fellBack = {} /\ trouble = FALSE

-----------------------------------------------------------------------------
(* Requests                                                                   *)

Options(r) == {r.blksize, r.windowsize, r.tsize} # {None}

BlockSize(r) == IF r.blksize \in {None, 0} THEN Default ELSE r.blksize

Windowed(r) == r.windowsize \notin {None, 0}

TotalBytes(r) ==
    IF r.tsize = None THEN r.size ELSE IF r.tsize < r.size THEN r.tsize ELSE r.size

\* mutant: a multiple of the block size ends with a full block and an empty one less.
FullBlocks_Short(r) == (TotalBytes(r) - 1) \div BlockSize(r)

FullBlocks(r) == TotalBytes(r) \div BlockSize(r)

\* With tsize 0, only the size is sent.
WantsData(r) == r.tsize # 0

HasRest(r) == TotalBytes(r) % BlockSize(r) # 0

\* f.read() without a limit: all that follows, also beyond total_bytes.
LastLength(r) == IF HasRest(r) THEN r.size - FullBlocks(r) * BlockSize(r) ELSE 0

-----------------------------------------------------------------------------
(* The network                                                                *)

Ended(ph) == ph \in {"done", "failed"}

\* Somebody still reads what is sent to an address.
Open(to, pt, ph) ==
    IF to = Port69 THEN TRUE
    ELSE IF to \in Client THEN ~Ended(ph[to]) ELSE to = pt

\* From one state of the network to the next.  A packet that arrives may arrive again.
Exchange(arrived, sent, pt, ph) ==
    \E gone \in SUBSET arrived :
        net' = {m \in (net \ gone) \cup sent : Open(m.to, pt, ph)}

\* Clients repeat a request, and an ACK while they wait; nothing else is sent twice.
Missed(m) ==
    \/ m.op = "DATA" /\ m.block > Len(got[m.to])
    \/ m.op = "OACK" /\ phase[m.to] = "asked"
    \/ m.op = "ERROR"
    \/ m.op = "ACK" /\ Ended(phase[m.to[1]])

Lose(m) ==
    /\ net' = net \ {m}
    /\ trouble' = (trouble \/ Missed(m))
    /\ UNCHANGED <<request, server, client, gaveUp>>

-----------------------------------------------------------------------------
(* The server                                                                 *)

Current == request[port[1]]

\* One request from port 69.  The data follow without the client's ACK of the options.
Serve(c) ==
    LET m == [to |-> Port69, from |-> c, op |-> "RRQ"]
        r == request[c]
        p == <<c, served[c] + 1>>
        found == r.valid /\ r.size # None
        reply(from, op) == [to |-> c, from |-> from, op |-> op]
        replies == IF ~r.valid THEN {reply(Port69, "ERROR")}
                   ELSE IF ~found THEN {reply(p, "ERROR")}
                   ELSE IF Options(r) THEN {reply(p, "OACK")} ELSE {}
    IN  /\ pc = "idle" /\ m \in net /\ served[c] < MaxServed
        /\ served' = [served EXCEPT ![c] = @ + 1]
        /\ IF found /\ WantsData(r)
           THEN pc' = "data" /\ port' = p
           ELSE UNCHANGED <<pc, port>>
        /\ block' = 1 /\ piece' = 1
        /\ Exchange({m}, replies, port', phase)
        /\ UNCHANGED <<request, client, gaveUp, trouble>>

Data(len) == [to |-> port[1], from |-> port, op |-> "DATA", block |-> block,
              piece |-> piece, len |-> len]

\* mutant: the ACKs are one block late.
EndsWindow_Late(r) == Windowed(r) => block % (r.windowsize + 1) = 0

EndsWindow(r) == Windowed(r) => block % r.windowsize = 0

\* mutant: a signed comparison, or one that is off by one.
Overflows_Early == block >= MaxBlock

\* struct.pack(">HH", ...) raises struct.error.
Overflows == block > MaxBlock

DataLength == IF piece <= FullBlocks(Current) THEN BlockSize(Current) ELSE LastLength(Current)

\* cs.sendto(...) raises OSError (EMSGSIZE): neither blksize nor f.read() has a limit.
TooLong == DataLength > MaxData

\* mutant: within a window, the block number stays.
Advance_NoBlock == piece' = piece + 1 /\ UNCHANGED block

Advance == piece' = piece + 1 /\ block' = block + 1

SendBlock ==
    /\ pc = "data" /\ piece <= FullBlocks(Current) /\ ~Overflows /\ ~TooLong
    /\ Exchange({}, {Data(BlockSize(Current))}, port, phase)
    /\ IF EndsWindow(Current)
       THEN pc' = "ack" /\ UNCHANGED <<block, piece>>
       ELSE Advance /\ UNCHANGED pc
    /\ UNCHANGED <<request, port, served, client, gaveUp, trouble>>

\* The last packet is shorter than a block, and may be empty.
SendLast ==
    /\ pc = "data" /\ piece > FullBlocks(Current) /\ ~Overflows /\ ~TooLong
    /\ Exchange({}, {Data(LastLength(Current))}, port, phase)
    /\ pc' = "lastAck"
    /\ UNCHANGED <<request, port, block, piece, served, client, gaveUp, trouble>>

Waits == pc \in {"ack", "lastAck"}

\* struct.unpack(">H", ...) raises struct.error on a part that does not have two bytes.
Misreads ==
    /\ Waits /\ ~Current.exact
    /\ \E m \in net : m.to = port /\ m.op \in {"ACK", "ERROR"}

\* Nobody catches struct.error or OSError.
Die ==
    /\ (pc = "data" /\ (Overflows \/ TooLong)) \/ Misreads
    /\ pc' = "dead"
    /\ UNCHANGED <<request, net, port, block, piece, served, client, gaveUp, trouble>>

\* The ACKs and ERRORs that wait_for_ack can read.
Reads(m) == Waits /\ m.to = port /\ Current.exact

\* wait_for_ack returns or raises ValueError; after that, continue skips block += 1.
GoOn(m, acked) ==
    /\ IF pc = "ack"
       THEN /\ pc' = "data" /\ piece' = piece + 1
            /\ block' = IF acked THEN block + 1 ELSE block
       ELSE pc' = "idle" /\ UNCHANGED <<block, piece>>
    /\ port' = IF pc' = "idle" THEN None ELSE port
    /\ Exchange({m}, {}, port', phase)
    /\ UNCHANGED <<request, served, client, gaveUp, trouble>>

\* mutant: the block number is incremented before the ACK is waited for.
Acknowledges_Next(m) == m.op = "ACK" /\ m.block = block + 1

Acknowledges(m) == m.op = "ACK" /\ m.block = block

ReceiveAck(m) == Reads(m) /\ Acknowledges(m) /\ GoOn(m, TRUE)

ReceiveRefusal(m) == Reads(m) /\ m.op = "ERROR" /\ GoOn(m, FALSE)

IgnoreAck(m) ==
    /\ Reads(m) /\ m.op = "ACK" /\ ~Acknowledges(m)
    /\ net' = net \ {m}
    /\ UNCHANGED <<request, server, client, gaveUp, trouble>>

-----------------------------------------------------------------------------
(* The clients                                                                *)

Ask(c) ==
    /\ phase[c] = "idle" \/ (phase[c] = "asked" /\ served[c] < MaxServed)
    /\ phase' = [phase EXCEPT ![c] = "asked"]
    /\ Exchange({}, {[to |-> Port69, from |-> c, op |-> "RRQ"]}, port, phase')
    /\ UNCHANGED <<request, server, peer, got, bytes, fellBack, gaveUp, trouble>>

Ack(c, p, n) == [to |-> p, op |-> "ACK", block |-> n]

Repeat(c) ==
    /\ phase[c] = "receiving"
    /\ Exchange({}, {Ack(c, peer[c], Len(got[c]))}, port, phase)
    /\ UNCHANGED <<request, server, client, gaveUp, trouble>>

\* Its ERROR may not be sent: it is reset, or switched off.
GiveUp(c) ==
    /\ phase[c] \in {"asked", "receiving"}
    /\ phase' = [phase EXCEPT ![c] = "failed"]
    /\ gaveUp' = gaveUp \cup {c}
    /\ \E out \in SUBSET {[to |-> peer[c], op |-> "ERROR"]} :
        Exchange({}, IF peer[c] = None THEN {} ELSE out, port, phase')
    /\ UNCHANGED <<request, server, peer, got, bytes, fellBack, trouble>>

Hears(c, m) ==
    /\ m.to = c
    /\ phase[c] = "asked" \/ (phase[c] = "receiving" /\ peer[c] = m.from)

ReceiveError(c, m) ==
    /\ Hears(c, m) /\ m.op = "ERROR"
    /\ phase' = [phase EXCEPT ![c] = "failed"]
    /\ Exchange({m}, {}, port, phase')
    /\ UNCHANGED <<request, server, peer, got, bytes, fellBack, gaveUp, trouble>>

\* With tsize 0, the firmware asks for the size and for nothing else.
ReceiveOack(c, m) ==
    /\ m.to = c /\ phase[c] = "asked" /\ m.op = "OACK"
    /\ peer' = [peer EXCEPT ![c] = m.from]
    /\ phase' = [phase EXCEPT ![c] = IF request[c].tsize = 0 THEN "done" ELSE "receiving"]
    /\ Exchange({m}, {Ack(c, m.from, 0)}, port, phase')
    /\ UNCHANGED <<request, server, got, bytes, fellBack, gaveUp, trouble>>

\* Without an answer to its options a client takes them as ignored.
Plain(c) == c \in fellBack' \/ ~Options(request[c])
BlockSizeOf(c) == IF Plain(c) THEN Default ELSE BlockSize(request[c])
WindowOf(c) == IF Plain(c) \/ ~Windowed(request[c]) THEN 1 ELSE request[c].windowsize

ReceiveData(c, m) ==
    LET next == m.block = Len(got[c]) + 1
        n == IF next THEN m.block ELSE Len(got[c])
        last == next /\ m.len < BlockSizeOf(c)
        fits == m.len <= BlockSizeOf(c)
        answer == IF ~fits THEN {[to |-> m.from, op |-> "ERROR"]}
                  ELSE IF last \/ n % WindowOf(c) = 0 \/ m.block > n
                       THEN {Ack(c, m.from, n)} ELSE {}
    IN  /\ Hears(c, m) /\ m.op = "DATA"
        /\ fellBack' = IF phase[c] = "asked" /\ Options(request[c])
                       THEN fellBack \cup {c} ELSE fellBack
        /\ trouble' = (trouble \/ fellBack' # fellBack \/ m.block > n)
        /\ peer' = [peer EXCEPT ![c] = m.from]
        /\ phase' = [phase EXCEPT ![c] = IF ~fits THEN "failed"
                                         ELSE IF last THEN "done" ELSE "receiving"]
        /\ IF next /\ fits
           THEN /\ got' = [got EXCEPT ![c] = Append(@, m.piece)]
                /\ bytes' = [bytes EXCEPT ![c] = @ + m.len]
           ELSE UNCHANGED <<got, bytes>>
        /\ Exchange({m}, answer, port, phase')
        /\ UNCHANGED <<request, server, gaveUp>>

\* An ACK of options that comes too late.
IgnoreOack(c, m) ==
    /\ Hears(c, m) /\ phase[c] = "receiving" /\ m.op = "OACK"
    /\ net' = net \ {m}
    /\ UNCHANGED <<request, server, client, gaveUp, trouble>>

\* An answer to a repeated request, from another port.
Decline(c, m) ==
    /\ m.to = c /\ phase[c] = "receiving" /\ peer[c] # m.from
    /\ Exchange({m}, IF m.op = "ERROR" THEN {} ELSE {[to |-> m.from, op |-> "ERROR"]}, port, phase)
    /\ UNCHANGED <<request, server, client, gaveUp, trouble>>

-----------------------------------------------------------------------------
Server ==
    \/ \E c \in Client : Serve(c)
    \/ SendBlock \/ SendLast \/ Die
    \/ \E m \in net : ReceiveAck(m) \/ ReceiveRefusal(m)

Firmware(c) ==
    \/ Ask(c) \/ Repeat(c)
    \/ \E m \in net :
        \/ ReceiveError(c, m) \/ ReceiveOack(c, m) \/ ReceiveData(c, m)
        \/ IgnoreOack(c, m) \/ Decline(c, m)

Next ==
    \/ Server \/ \E m \in net : IgnoreAck(m) \/ Lose(m)
    \/ \E c \in Client : Firmware(c) \/ GiveUp(c)

Spec == Init /\ [][Next]_vars

Fresh(c, m) == m.op = "DATA" /\ m.block > Len(got[c])

\* The server and its clients go on.  What stays in the network arrives, and so does
\* one of infinitely many copies.
FairSpec ==
    /\ Spec
    /\ WF_vars(SendBlock \/ SendLast \/ Die)
    /\ SF_vars(Die \/ \E m \in net : ReceiveAck(m)) /\ WF_vars(\E m \in net : ReceiveRefusal(m))
    /\ \A c \in Client :
        /\ SF_vars(Serve(c)) /\ WF_vars(Ask(c)) /\ WF_vars(Repeat(c))
        /\ WF_vars(\E m \in net : ReceiveError(c, m))
        /\ WF_vars(\E m \in net : ReceiveOack(c, m))
        /\ WF_vars(\E m \in net : Fresh(c, m) /\ ReceiveData(c, m))
        /\ WF_vars(\E m \in net : Decline(c, m))

-----------------------------------------------------------------------------
(* Properties                                                                 *)

TypeOK ==
    /\ request \in Requests
    /\ net \subseteq Packet
    /\ pc \in {"idle", "data", "ack", "lastAck", "dead"}
    /\ port \in Port \cup {None} /\ (pc # "idle" => port # None)
    /\ block \in Nat \ {0} /\ piece \in Nat \ {0}
    /\ served \in [Client -> 0..MaxServed]
    /\ phase \in [Client -> {"idle", "asked", "receiving", "done", "failed"}]
    /\ peer \in [Client -> Port \cup {None}]
    /\ got \in [Client -> Seq(Nat \ {0})] /\ bytes \in [Client -> Nat]
    /\ gaveUp \subseteq Client /\ fellBack \subseteq Client /\ trouble \in BOOLEAN

\* A client that takes no options for granted, as the ACK of its options was overtaken
\* (line 372), reads a short block as the last one.
CutShort(c) == c \in fellBack /\ BlockSize(request[c]) < Default

\* tsize asks for a part of the file, in whole blocks.
Part(r) == r.tsize \notin {None, 0} /\ r.tsize < r.size /\ ~HasRest(r)

\* A file that a client regards as complete is the whole file (lines 380-409), or the
\* part it has asked for, whatever got lost, was repeated or came out of order.
CompleteMeansWhole ==
    \A c \in Client : LET r == request[c] IN
        phase[c] = "done" /\ r.tsize # 0 /\ ~CutShort(c) =>
            bytes[c] = IF Part(r) THEN r.tsize ELSE r.size

\* The server is not further ahead of a client than a window (lines 390-397), as long as
\* the client has not refused anything.
WindowRespected ==
    \A m \in net : m.op = "DATA" /\ phase[m.to] = "receiving" /\ m.from = peer[m.to] =>
        LET r == request[m.to]
            w == IF Windowed(r) THEN r.windowsize ELSE 1
        IN  m.block <= (Len(got[m.to]) \div w + 1) * w

\* A packet of the transfer is too long for a datagram.
Oversized(r) == (FullBlocks(r) > 0 /\ BlockSize(r) > MaxData) \/ LastLength(r) > MaxData

\* An exception ends the server only on files that need more blocks than there are
\* numbers, including the empty one after a multiple of the block size (line 303), on
\* blocks or a rest that no datagram can hold (lines 386, 401), and on answers that are
\* shorter or longer than wait_for_ack takes for granted (lines 317, 332).
DiesOnlyOfLength ==
    pc = "dead" => \/ FullBlocks(Current) >= MaxBlock
                   \/ Oversized(Current)
                   \/ ~Current.exact

\* Nobody will ever send what the server waits for (line 329).
Stuck ==
    /\ pc \in {"ack", "lastAck"} /\ Ended(phase[port[1]])
    /\ \A m \in net : m.to = port => m.op = "ACK" /\ ~Acknowledges(m)

\* The server is stuck on a client that has ended only if that client gave up, has been
\* served for a repeated request, or a packet was lost that nobody repeats.
StuckOnlyOnTrouble == Stuck => trouble \/ port[1] \in gaveUp \/ served[port[1]] > 1

\* Why the server serves nobody any more (lines 303, 329, 332, 386, 401).
EndsOnlyOnTrouble == DiesOnlyOfLength /\ StuckOnlyOnTrouble

\* Each client sees an ordered copy of the file that grows until it ends.
Transfer == INSTANCE FileTransfer WITH
    want <- [c \in Client |-> IF request[c].size = None \/ request[c].tsize = 0 THEN 0
                              ELSE FullBlocks(request[c]) + 1],
    outcome <- [c \in Client |->
        IF phase[c] \in {"idle", "asked", "receiving"} THEN "pending"
        ELSE IF phase[c] = "done" /\ ~CutShort(c) THEN "complete" ELSE "failed"]

OrderedCopies == Transfer!Spec

Deliverable(r) ==
    /\ r.valid /\ r.size # None /\ r.exact
    /\ r.tsize \in {None, 0} \/ r.tsize >= r.size
    /\ r.tsize # 0 => FullBlocks(r) < MaxBlock /\ ~Oversized(r)

\* A client that does not give up gets its file, even if requests and ACKs are lost on
\* the way, unless the server hangs or is dead (lines 326-420).
Delivers ==
    \A c \in Client : Deliverable(request[c]) =>
        <>(phase[c] = "done" \/ c \in gaveUp \/ trouble \/ Stuck \/ pc = "dead")
=============================================================================
