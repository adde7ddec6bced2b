---------------------------- MODULE Tftp_proofs ----------------------------
(* Proofs about Tftp, for all clients, requests, block sizes and windows. *)
EXTENDS Tftp, Integers, TLAPS

-----------------------------------------------------------------------------
(* Arithmetic *)

LEMMA DivMod ==
    ASSUME NEW a \in Nat, NEW b \in Nat \ {0}
    PROVE  /\ a \div b \in Nat /\ a % b \in 0..(b - 1)
           /\ a = b * (a \div b) + (a % b)
OBVIOUS

LEMMA MultipleMod ==
    ASSUME NEW k \in Nat, NEW w \in Nat \ {0}
    PROVE  (k * w) % w = 0
OBVIOUS

LEMMA DivBound ==
    ASSUME NEW k \in Nat, NEW w \in Nat \ {0}, NEW n \in Nat, k * w <= n
    PROVE  k <= n \div w
OBVIOUS

LEMMA Distribute ==
    ASSUME NEW k \in Nat, NEW w \in Nat
    PROVE  (k + 1) * w = k * w + w /\ k * w \in Nat
OBVIOUS

LEMMA Monotone ==
    ASSUME NEW k \in Nat, NEW n \in Nat, NEW w \in Nat, k <= n
    PROVE  k * w <= n * w
OBVIOUS

-----------------------------------------------------------------------------
(* Requests *)

\* A request that the server answers with data.
Sent(r) == r.valid /\ r.size # None /\ r.tsize # 0

Pieces(r) == FullBlocks(r) + 1

LengthOf(r, n) == IF n <= FullBlocks(r) THEN BlockSize(r) ELSE LastLength(r)

\* The length of the first n pieces.
LengthTo(r, n) ==
    IF n <= FullBlocks(r) THEN n * BlockSize(r) ELSE FullBlocks(r) * BlockSize(r) + LastLength(r)

Window(r) == IF Windowed(r) THEN r.windowsize ELSE 1

LEMMA RequestTypes ==
    ASSUME NEW r \in Request
    PROVE  /\ r.valid \in BOOLEAN /\ r.size \in Nat \cup {None} /\ r.blksize \in Nat \cup {None}
           /\ r.windowsize \in Nat \cup {None} /\ r.tsize \in Nat \cup {None}
           /\ r.exact \in BOOLEAN
BY DEF Request

LEMMA SizeTypes ==
    ASSUME NEW r \in Request
    PROVE  /\ BlockSize(r) \in Nat \ {0} /\ Window(r) \in Nat \ {0}
           /\ r.blksize = None => BlockSize(r) = Default
<1>1. /\ r.blksize \in Nat \cup {None} /\ r.windowsize \in Nat \cup {None}
      /\ Default \in Nat \ {0}
  BY RequestTypes, ConstantsAssumption
<1> QED BY <1>1 DEF BlockSize, Window, Windowed

LEMMA FileTypes ==
    ASSUME NEW r \in Request, r.size # None
    PROVE  /\ TotalBytes(r) \in Nat /\ TotalBytes(r) <= r.size /\ r.size \in Nat
           /\ FullBlocks(r) \in Nat /\ LastLength(r) \in Nat
           /\ FullBlocks(r) * BlockSize(r) \in Nat
           /\ FullBlocks(r) * BlockSize(r) <= TotalBytes(r)
           /\ HasRest(r) => FullBlocks(r) * BlockSize(r) + LastLength(r) = r.size
           /\ ~HasRest(r) => FullBlocks(r) * BlockSize(r) = TotalBytes(r) /\ LastLength(r) = 0
<1>1. r.size \in Nat /\ r.tsize \in Nat \cup {None} /\ None \notin Nat
  BY RequestTypes, ConstantsAssumption
<1>2. TotalBytes(r) \in Nat /\ TotalBytes(r) <= r.size
  BY <1>1 DEF TotalBytes
<1> DEFINE b == BlockSize(r)
           t == TotalBytes(r)
<1>3. b \in Nat \ {0}
  BY SizeTypes
<1> HIDE DEF b, t
<1>4. /\ t \div b \in Nat /\ t % b \in 0..(b - 1) /\ t = b * (t \div b) + (t % b)
  BY <1>2, <1>3, DivMod DEF t
<1>5. FullBlocks(r) = t \div b /\ HasRest(r) <=> t % b # 0
  BY DEF FullBlocks, HasRest, b, t
<1>6. FullBlocks(r) * b = b * (t \div b) /\ FullBlocks(r) * b \in Nat
  BY <1>3, <1>4 DEF FullBlocks, b, t
<1>7. FullBlocks(r) \in Nat
  BY <1>4 DEF FullBlocks, b, t
<1>8. FullBlocks(r) * b <= t
  BY <1>2, <1>3, <1>4, <1>6 DEF t
<1>9. CASE HasRest(r)
  <2>1. LastLength(r) = r.size - FullBlocks(r) * b
    BY <1>9 DEF LastLength, b
  <2> QED BY <1>1, <1>2, <1>6, <1>7, <1>8, <1>9, <2>1 DEF b, t
<1>10. CASE ~HasRest(r)
  <2>1. LastLength(r) = 0 /\ t % b = 0
    BY <1>10 DEF LastLength, HasRest, b, t
  <2>2. FullBlocks(r) * b = t
    BY <1>2, <1>3, <1>4, <1>6, <2>1 DEF t
  <2> QED BY <1>1, <1>2, <1>6, <1>7, <1>10, <2>1, <2>2 DEF b, t
<1> QED BY <1>9, <1>10

\* One more piece.
LEMMA NextLength ==
    ASSUME NEW r \in Request, r.size # None, NEW n \in Nat, n <= FullBlocks(r)
    PROVE  /\ LengthTo(r, n + 1) = LengthTo(r, n) + LengthOf(r, n + 1)
           /\ LengthOf(r, n + 1) \in Nat /\ LengthTo(r, n) \in Nat
<1>1. /\ BlockSize(r) \in Nat \ {0} /\ FullBlocks(r) \in Nat /\ LastLength(r) \in Nat
      /\ FullBlocks(r) * BlockSize(r) \in Nat
  BY SizeTypes, FileTypes
<1>2. (n + 1) * BlockSize(r) = n * BlockSize(r) + BlockSize(r) /\ n * BlockSize(r) \in Nat
  BY <1>1, Distribute
<1>3. CASE n < FullBlocks(r)
  BY <1>1, <1>2, <1>3 DEF LengthTo, LengthOf
<1>4. CASE n = FullBlocks(r)
  BY <1>1, <1>2, <1>4 DEF LengthTo, LengthOf
<1> QED BY <1>1, <1>3, <1>4

-----------------------------------------------------------------------------
(* The inductive invariant. *)

\* A client that refuses a port never takes anything from it again.
Refused(p) ==
    \/ Ended(phase[p[1]])
    \/ phase[p[1]] = "receiving" /\ peer[p[1]] # p

\* A block of the window that follows the blocks that a client has.
InWindow(c, b) ==
    \E k \in Nat : LET w == Window(request[c]) IN k * w <= Len(got[c]) /\ b <= k * w + w

\* Block numbers are those of the pieces until an ERROR makes the server skip one.
OnTrack(p, b, n) == Refused(p) \/ (b = n /\ InWindow(p[1], b))

DataOK(m) ==
    /\ m.from[1] = m.to /\ Sent(request[m.to])
    /\ m.piece <= Pieces(request[m.to]) /\ m.len = LengthOf(request[m.to], m.piece)
    /\ OnTrack(m.from, m.block, m.piece)

PacketOK(m) ==
    /\ m.op = "DATA" => DataOK(m)
    /\ m.op = "ACK" => m.block <= Len(got[m.to[1]])
    /\ m.op = "ERROR" /\ m.to \in Port => Refused(m.to)
    /\ m.op = "OACK" => m.from[1] = m.to

NetOK == \A m \in net : PacketOK(m)

ServerOK ==
    pc # "idle" =>
        /\ Sent(Current) /\ block <= piece /\ piece <= Pieces(Current)
        /\ pc = "ack" => piece <= FullBlocks(Current) /\ block % Window(Current) = 0
        /\ pc = "dead" => block > MaxBlock \/ Oversized(Current) \/ ~Current.exact
        /\ OnTrack(port, block, piece)

CopyOK(c) ==
    \/ got[c] = <<>> /\ bytes[c] = 0
    \/ /\ Sent(request[c]) /\ Len(got[c]) <= Pieces(request[c])
       /\ bytes[c] = LengthTo(request[c], Len(got[c]))

DoneOK(c) ==
    phase[c] = "done" /\ request[c].tsize # 0 /\ ~CutShort(c) =>
        Sent(request[c]) /\ Len(got[c]) = Pieces(request[c])

ClientsOK ==
    \A c \in Client :
        /\ phase[c] = "receiving" => peer[c] # None
        /\ peer[c] # None => peer[c][1] = c
        /\ CopyOK(c) /\ DoneOK(c)

IInv == TypeOK /\ NetOK /\ ServerOK /\ ClientsOK

-----------------------------------------------------------------------------
(* Types *)

LEMMA Ports ==
    /\ \A p \in Port : p[1] \in Client /\ p # None
    /\ Client \cap Port = {} /\ Port69 \notin Client /\ None \notin Nat
BY ConstantsAssumption DEF Port

LEMMA RequestOf ==
    ASSUME TypeOK, NEW c \in Client
    PROVE  request[c] \in Request
BY ConstantsAssumption DEF TypeOK

LEMMA PacketTypes ==
    ASSUME NEW m \in Packet
    PROVE  /\ m.op = "DATA" => m \in [to : Client, from : Port, op : {"DATA"}, block : 1..MaxBlock,
                                      piece : Nat \ {0}, len : Nat]
           /\ m.op = "ACK" => m \in [to : Port, op : {"ACK"}, block : Nat]
           /\ m.op = "OACK" => m \in [to : Client, from : Port, op : {"OACK"}]
           /\ m.to \in Client => m.op \in {"DATA", "OACK", "ERROR"}
BY Ports DEF Packet

\* The packets of servers and clients.
LEMMA Packets ==
    /\ \A c \in Client : [to |-> Port69, from |-> c, op |-> "RRQ"] \in Packet
    /\ \A p \in Port, n \in Nat : [to |-> p, op |-> "ACK", block |-> n] \in Packet
    /\ \A p \in Port : [to |-> p, op |-> "ERROR"] \in Packet
    /\ \A c \in Client, p \in Port \cup {Port69} : [to |-> c, from |-> p, op |-> "ERROR"] \in Packet
    /\ \A c \in Client, p \in Port : [to |-> c, from |-> p, op |-> "OACK"] \in Packet
BY DEF Packet

LEMMA Sending ==
    ASSUME NEW arrived, NEW sent, NEW pt, NEW ph, Exchange(arrived, sent, pt, ph)
    PROVE  net' \subseteq net \cup sent
BY DEF Exchange

LEMMA TypeStep ==
    ASSUME IInv, [Next]_vars
    PROVE  TypeOK'
<1> USE ConstantsAssumption, Ports DEF IInv, TypeOK
<1>0. CASE UNCHANGED vars
  BY <1>0 DEF vars, server, client
<1>1. ASSUME NEW c \in Client, Serve(c)
      PROVE  TypeOK'
  <2>1. <<c, served[c] + 1>> \in Port
    BY <1>1 DEF Port, Serve
  <2>2. net' \subseteq Packet
    <3>1. PICK replies \in SUBSET Packet : Exchange({[to |-> Port69, from |-> c, op |-> "RRQ"]},
                                                   replies, port', phase)
      <4> DEFINE p == <<c, served[c] + 1>>
                 reply(from, op) == [to |-> c, from |-> from, op |-> op]
                 found == request[c].valid /\ request[c].size # None
                 replies == IF ~request[c].valid THEN {reply(Port69, "ERROR")}
                            ELSE IF ~found THEN {reply(p, "ERROR")}
                            ELSE IF Options(request[c]) THEN {reply(p, "OACK")} ELSE {}
      <4>1. replies \subseteq Packet
        <5>1. /\ \A from \in Port \cup {Port69} : reply(from, "ERROR") \in Packet
              /\ \A from \in Port : reply(from, "OACK") \in Packet
          BY Packets
        <5> HIDE DEF reply, found, p
        <5>2. p \in Port
          BY <2>1 DEF p
        <5> QED BY <5>1, <5>2
      <4>2. Exchange({[to |-> Port69, from |-> c, op |-> "RRQ"]}, replies, port', phase)
        BY <1>1 DEF Serve
      <4> HIDE DEF replies
      <4> QED BY <4>1, <4>2
    <3> QED BY <3>1, Sending
  <2>3. /\ served' \in [Client -> 0..MaxServed] /\ block' = 1 /\ piece' = 1
        /\ pc' \in {"idle", "data"} /\ port' \in {port, <<c, served[c] + 1>>}
        /\ pc' = "data" => port' # None
        /\ UNCHANGED <<request, client, gaveUp, trouble>>
    <3>1. served[c] + 1 \in 0..MaxServed
      BY <1>1 DEF Serve
    <3>2. served' = [served EXCEPT ![c] = @ + 1]
      BY <1>1 DEF Serve
    <3>3. served' \in [Client -> 0..MaxServed]
      BY <3>1, <3>2
    <3>4. /\ pc = "idle" /\ block' = 1 /\ piece' = 1
          /\ \/ pc' = "data" /\ port' = <<c, served[c] + 1>>
             \/ UNCHANGED <<pc, port>>
          /\ UNCHANGED <<request, client, gaveUp, trouble>>
      BY ONLY <1>1 DEF Serve
    <3>5. <<c, served[c] + 1>> # None
      BY <2>1, Ports
    <3> QED BY <3>3, <3>4, <3>5
  <2>4. port' \in Port \cup {None} /\ (pc' # "idle" => port' # None)
    BY <2>1, <2>3
  <2>5. /\ phase' = phase /\ peer' = peer /\ got' = got /\ bytes' = bytes
        /\ fellBack' = fellBack /\ request' = request /\ gaveUp' = gaveUp /\ trouble' = trouble
    BY <2>3 DEF client
  <2> QED BY <2>2, <2>3, <2>4, <2>5
<1>2. CASE SendBlock \/ SendLast
  <2>1. PICK len \in Nat : ~Overflows /\ net' \subseteq net \cup {Data(len)}
    <3>1. Sent(Current) /\ Current \in Request
      BY <1>2, RequestOf DEF SendBlock, SendLast, ServerOK, Current
    <3>2. BlockSize(Current) \in Nat /\ LastLength(Current) \in Nat
      BY <3>1, SizeTypes, FileTypes DEF Sent
    <3> QED BY <1>2, <3>2, Sending DEF SendBlock, SendLast
  <2>2. Data(len) \in Packet
    BY <1>2, <2>1 DEF SendBlock, SendLast, Data, Overflows, Packet
  <2> QED BY <1>2, <2>1, <2>2 DEF SendBlock, SendLast, Advance, client
<1>3. CASE Die
  BY <1>3 DEF Die, Misreads, Waits, client
<1>4. ASSUME NEW m \in net, ReceiveAck(m) \/ ReceiveRefusal(m)
      PROVE  TypeOK'
  <2>1. net' \subseteq net
    BY <1>4, Sending DEF ReceiveAck, ReceiveRefusal, GoOn
  <2> QED BY <1>4, <2>1 DEF ReceiveAck, ReceiveRefusal, Reads, GoOn, Waits, client
<1>5. ASSUME NEW m \in net, IgnoreAck(m) \/ Lose(m)
      PROVE  TypeOK'
  BY <1>5 DEF IgnoreAck, Lose, Missed, server, client
<1>6. ASSUME NEW c \in Client, Ask(c) \/ Repeat(c) \/ GiveUp(c)
      PROVE  TypeOK'
  <2>1. CASE Ask(c)
    <3>1. net' \subseteq Packet
      BY <2>1, Packets, Sending DEF Ask
    <3> QED BY <2>1, <3>1 DEF Ask, server
  <2>2. CASE Repeat(c)
    <3>1. peer[c] \in Port /\ peer[c][1] = c /\ Len(got[c]) \in Nat
      BY <2>2 DEF Repeat, ClientsOK
    <3>2. net' \subseteq Packet
      BY <2>2, <3>1, Packets, Sending DEF Repeat, Ack
    <3> QED BY <2>2, <3>2 DEF Repeat, server, client
  <2>3. CASE GiveUp(c)
    <3>1. peer[c] # None => [to |-> peer[c], op |-> "ERROR"] \in Packet
      BY Packets
    <3>2. PICK sent \in SUBSET Packet : Exchange({}, sent, port, phase')
      BY <2>3, <3>1 DEF GiveUp
    <3>3. net' \subseteq Packet
      BY <3>2, Sending
    <3> QED BY <2>3, <3>3 DEF GiveUp, server
  <2> QED BY <1>6, <2>1, <2>2, <2>3
<1>7. ASSUME NEW c \in Client, NEW m \in net, ReceiveError(c, m) \/ IgnoreOack(c, m)
      PROVE  TypeOK'
  <2>1. net' \subseteq net
    BY <1>7, Sending DEF ReceiveError, IgnoreOack
  <2> QED BY <1>7, <2>1 DEF ReceiveError, IgnoreOack, server, client
<1>8. ASSUME NEW c \in Client, NEW m \in net, ReceiveOack(c, m)
      PROVE  TypeOK'
  <2>1. m.from \in Port
    BY <1>8, PacketTypes DEF ReceiveOack
  <2>2. net' \subseteq Packet
    <3>1. 0 \in Nat /\ Exchange({m}, {[to |-> m.from, op |-> "ACK", block |-> 0]}, port, phase')
      BY <1>8 DEF ReceiveOack, Ack
    <3>2. [to |-> m.from, op |-> "ACK", block |-> 0] \in Packet
      BY <2>1, <3>1, Packets
    <3>3. net' \subseteq net \cup {[to |-> m.from, op |-> "ACK", block |-> 0]}
      BY <3>1, Sending
    <3> QED BY <3>2, <3>3
  <2> QED BY <1>8, <2>1, <2>2 DEF ReceiveOack, server
<1>9. ASSUME NEW c \in Client, NEW m \in net, ReceiveData(c, m)
      PROVE  TypeOK'
  <2>1. m.from \in Port /\ m.piece \in Nat \ {0} /\ m.len \in Nat /\ m.block \in Nat
    BY <1>9, PacketTypes DEF ReceiveData
  <2>2. net' \subseteq Packet
    <3>1. Len(got[c]) \in Nat
      OBVIOUS
    <3>2. PICK answer \in SUBSET Packet : Exchange({m}, answer, port, phase')
      BY <1>9, <2>1, <3>1, Packets DEF ReceiveData, Ack
    <3> QED BY <3>2, Sending
  <2>3. phase' \in [Client -> {"idle", "asked", "receiving", "done", "failed"}]
    BY <1>9 DEF ReceiveData
  <2>4. got' \in [Client -> Seq(Nat \ {0})] /\ bytes' \in [Client -> Nat]
    <3>1. \/ /\ got' = [got EXCEPT ![c] = Append(@, m.piece)]
             /\ bytes' = [bytes EXCEPT ![c] = @ + m.len]
          \/ UNCHANGED <<got, bytes>>
      BY <1>9 DEF ReceiveData
    <3>2. Append(got[c], m.piece) \in Seq(Nat \ {0}) /\ bytes[c] + m.len \in Nat
      BY <2>1
    <3>3. got \in [Client -> Seq(Nat \ {0})] /\ bytes \in [Client -> Nat]
      OBVIOUS
    <3>4. CASE UNCHANGED <<got, bytes>>
      BY <3>3, <3>4
    <3>5. CASE /\ got' = [got EXCEPT ![c] = Append(@, m.piece)]
               /\ bytes' = [bytes EXCEPT ![c] = @ + m.len]
      <4> DEFINE longer == Append(got[c], m.piece)
      <4>1. longer \in Seq(Nat \ {0}) /\ got' = [got EXCEPT ![c] = longer]
        BY <3>2, <3>5
      <4> HIDE DEF longer
      <4> QED BY ONLY <3>2, <3>3, <3>5, <4>1
    <3> QED BY <3>1, <3>4, <3>5
  <2>5. trouble' \in BOOLEAN
    BY <1>9 DEF ReceiveData
  <2> QED BY <1>9, <2>1, <2>2, <2>3, <2>4, <2>5 DEF ReceiveData, server
<1>10. ASSUME NEW c \in Client, NEW m \in net, Decline(c, m)
       PROVE  TypeOK'
  <2>1. net' \subseteq Packet
    <3>1. m.op # "ERROR" => m.from \in Port
      BY <1>10, PacketTypes DEF Decline
    <3> QED BY <1>10, <3>1, Packets, Sending DEF Decline
  <2> QED BY <1>10, <2>1 DEF Decline, server, client
<1> QED BY <1>0, <1>1, <1>2, <1>3, <1>4, <1>5, <1>6, <1>7, <1>8, <1>9, <1>10
        DEF Next, Server, Firmware

-----------------------------------------------------------------------------
(* What stays true *)

\* Requests stay, copies grow, and a client that hears a port stays with it to its end.
Grown(c) ==
    /\ request'[c] = request[c]
    /\ Len(got[c]) \in Nat /\ Len(got'[c]) \in Nat /\ Len(got[c]) <= Len(got'[c])
    /\ Ended(phase[c]) => phase'[c] = phase[c]
    /\ phase[c] = "receiving" => Ended(phase'[c]) \/ (phase'[c] = "receiving" /\ peer'[c] = peer[c])

LEMMA Grows ==
    ASSUME IInv, [Next]_vars, NEW c \in Client
    PROVE  Grown(c)
<1> USE DEF Grown, Ended
<1>0. TypeOK /\ TypeOK'
  BY TypeStep DEF IInv
<1>1. Len(got[c]) \in Nat
  BY <1>0 DEF TypeOK
<1>2. CASE UNCHANGED vars \/ Server \/ \E m \in net : IgnoreAck(m) \/ Lose(m)
  <2>1. UNCHANGED <<request, phase, peer, got>>
    BY <1>2 DEF vars, Server, Serve, SendBlock, SendLast, Die, ReceiveAck, ReceiveRefusal, GoOn,
                IgnoreAck, Lose, server, client
  <2> QED BY <1>1, <2>1
<1>3. ASSUME NEW d \in Client, Ask(d) \/ Repeat(d) \/ GiveUp(d)
      PROVE  Grown(c)
  <2>1. UNCHANGED <<request, peer, got>>
    BY <1>3 DEF Ask, Repeat, GiveUp, client
  <2>2. \/ phase' = phase
        \/ phase[d] \notin {"receiving", "done", "failed"} /\ phase' = [phase EXCEPT ![d] = "asked"]
        \/ phase[d] \notin {"done", "failed"} /\ phase' = [phase EXCEPT ![d] = "failed"]
    BY <1>3 DEF Ask, Repeat, GiveUp, client
  <2> QED BY <1>0, <1>1, <2>1, <2>2 DEF TypeOK
<1>4. ASSUME NEW d \in Client, NEW m \in net,
             \/ ReceiveError(d, m) \/ ReceiveOack(d, m) \/ IgnoreOack(d, m) \/ Decline(d, m)
      PROVE  Grown(c)
  <2>1. UNCHANGED <<request, got>> /\ (phase[d] = "receiving" => UNCHANGED peer)
    BY <1>4 DEF ReceiveError, ReceiveOack, IgnoreOack, Decline, client
  <2>2. \/ UNCHANGED <<phase, peer>>
        \/ /\ phase[d] = "asked" /\ phase' \in {[phase EXCEPT ![d] = "done"], [phase EXCEPT ![d] = "receiving"]}
           /\ peer' = [peer EXCEPT ![d] = m.from]
        \/ phase[d] \in {"asked", "receiving"} /\ phase' = [phase EXCEPT ![d] = "failed"] /\ peer' = peer
    BY <1>4 DEF ReceiveError, ReceiveOack, IgnoreOack, Decline, Hears, client
  <2> QED BY <1>0, <1>1, <2>1, <2>2 DEF TypeOK
<1>5. ASSUME NEW d \in Client, NEW m \in net, ReceiveData(d, m)
      PROVE  Grown(c)
  <2>1. UNCHANGED request /\ (UNCHANGED got \/ got' = [got EXCEPT ![d] = Append(@, m.piece)])
    BY <1>5 DEF ReceiveData
  <2>2. Len(Append(got[d], m.piece)) = Len(got[d]) + 1
    BY <1>0 DEF TypeOK
  <2>3. Len(got'[c]) \in Nat /\ Len(got[c]) <= Len(got'[c])
    <3>1. got'[c] = got[c] \/ (c = d /\ got'[c] = Append(got[c], m.piece))
      BY <1>0, <2>1 DEF TypeOK
    <3> QED BY <1>1, <2>2, <3>1
  <2>4. /\ phase[d] \in {"asked", "receiving"} /\ (phase[d] = "receiving" => peer[d] = m.from)
        /\ \E ph \in {"done", "failed", "receiving"} : phase' = [phase EXCEPT ![d] = ph]
        /\ peer' = [peer EXCEPT ![d] = m.from]
    BY <1>5 DEF ReceiveData, Hears
  <2> QED BY <1>0, <1>1, <2>1, <2>3, <2>4 DEF TypeOK
<1> QED BY <1>2, <1>3, <1>4, <1>5 DEF Next, Firmware

LEMMA KeptTracks ==
    ASSUME IInv, [Next]_vars, NEW p \in Port
    PROVE  /\ Refused(p) => Refused(p)'
           /\ \A b \in Nat, n \in Nat : OnTrack(p, b, n) => OnTrack(p, b, n)'
<1>1. p[1] \in Client
  BY Ports
<1>2. Grown(p[1])
  BY <1>1, Grows
<1>3. Refused(p) => Refused(p)'
  BY <1>2 DEF Refused, Grown, Ended
<1>4. ASSUME NEW b \in Nat, InWindow(p[1], b)
      PROVE  InWindow(p[1], b)'
  <2>1. request[p[1]] \in Request
    BY <1>1, RequestOf DEF IInv
  <2> DEFINE w == Window(request[p[1]])
  <2>2. PICK k \in Nat : k * w <= Len(got[p[1]]) /\ b <= k * w + w
    BY <1>4 DEF InWindow
  <2>3. w \in Nat /\ w = Window(request'[p[1]])
    BY <1>2, <2>1, SizeTypes DEF Grown
  <2>4. k * w \in Nat
    BY <2>3, Distribute
  <2>5. k * w <= Len(got'[p[1]])
    <3> HIDE DEF w
    <3> QED BY <1>2, <2>2, <2>4 DEF Grown
  <2> QED BY <2>2, <2>3, <2>5 DEF InWindow
<1> QED BY <1>3, <1>4 DEF OnTrack

LEMMA KeptPacket ==
    ASSUME IInv, [Next]_vars, NEW m \in net
    PROVE  PacketOK(m)'
<1>1. PacketOK(m) /\ m \in Packet
  BY DEF IInv, NetOK, TypeOK
<1>2. CASE m.op = "DATA"
  <2>1. m.from \in Port /\ m.to \in Client /\ m.block \in Nat /\ m.piece \in Nat
    BY <1>1, <1>2, PacketTypes
  <2>2. DataOK(m)
    BY <1>1, <1>2 DEF PacketOK
  <2>3. Grown(m.to)
    BY <2>1, Grows
  <2>4. OnTrack(m.from, m.block, m.piece)'
    BY <2>1, <2>2, KeptTracks DEF DataOK
  <2>5. DataOK(m)'
    BY <2>2, <2>3, <2>4 DEF DataOK, Grown
  <2> QED BY <1>2, <2>5 DEF PacketOK
<1>3. CASE m.op = "ACK"
  <2>1. m.to[1] \in Client /\ m.block \in Nat
    BY <1>1, <1>3, PacketTypes, Ports
  <2> QED BY <1>1, <1>3, <2>1, Grows DEF PacketOK, Grown
<1>4. CASE m.op = "ERROR" /\ m.to \in Port
  BY <1>1, <1>4, KeptTracks DEF PacketOK
<1> QED BY <1>1, <1>2, <1>3, <1>4 DEF PacketOK

\* It is enough to look at what a step sends.
LEMMA KeptNet ==
    ASSUME IInv, [Next]_vars, NEW sent, net' \subseteq net \cup sent, \A m \in sent : PacketOK(m)'
    PROVE  NetOK'
BY KeptPacket DEF NetOK

LEMMA KeptNetOne ==
    ASSUME IInv, [Next]_vars, NEW m, net' \subseteq net \cup {m}, PacketOK(m)'
    PROVE  NetOK'
BY KeptPacket DEF NetOK

-----------------------------------------------------------------------------
(* The server *)

LEMMA KeptServer ==
    ASSUME IInv, [Next]_vars, UNCHANGED server
    PROVE  ServerOK'
<1> SUFFICES ASSUME pc # "idle" PROVE ServerOK'
  BY DEF ServerOK, server
<1>1. port \in Port /\ port[1] \in Client /\ block \in Nat /\ piece \in Nat
  BY Ports DEF IInv, TypeOK
<1>2. OnTrack(port, block, piece)'
  <2>1. OnTrack(port, block, piece)
    BY DEF IInv, ServerOK
  <2>2. port' = port /\ block' = block /\ piece' = piece
    BY DEF server
  <2> QED BY <1>1, <2>1, <2>2, KeptTracks DEF OnTrack, Refused, InWindow
<1>3. Current' = Current
  BY <1>1, Grows DEF Current, Grown, server
<1> QED BY <1>2, <1>3 DEF IInv, ServerOK, server

LEMMA Serving ==
    ASSUME IInv, TypeOK', [Next]_vars, NEW c \in Client, Serve(c)
    PROVE  NetOK' /\ ServerOK'
<1> DEFINE p == <<c, served[c] + 1>>
           found == request[c].valid /\ request[c].size # None
<1>1. /\ pc = "idle" /\ block' = 1 /\ piece' = 1 /\ request' = request /\ got' = got
      /\ \/ found /\ WantsData(request[c]) /\ pc' = "data" /\ port' = p
         \/ UNCHANGED <<pc, port>>
  BY ONLY Serve(c) DEF Serve, client
<1>2. NetOK'
  <2>1. PICK replies : /\ Exchange({[to |-> Port69, from |-> c, op |-> "RRQ"]}, replies, port', phase)
                       /\ \A m \in replies :
                           /\ m.to = c /\ m.op \in {"ERROR", "OACK"}
                           /\ m.op = "OACK" => m.from = p
    <3> DEFINE reply(from, op) == [to |-> c, from |-> from, op |-> op]
               replies == IF ~request[c].valid THEN {reply(Port69, "ERROR")}
                          ELSE IF ~found THEN {reply(p, "ERROR")}
                          ELSE IF Options(request[c]) THEN {reply(p, "OACK")} ELSE {}
    <3>1. Exchange({[to |-> Port69, from |-> c, op |-> "RRQ"]}, replies, port', phase)
      BY ONLY Serve(c) DEF Serve
    <3>2. \A m \in replies : /\ m.to = c /\ m.op \in {"ERROR", "OACK"}
                             /\ m.op = "OACK" => m.from = p
      OBVIOUS
    <3> HIDE DEF replies
    <3> QED BY <3>1, <3>2
  <2>2. net' \subseteq net \cup replies
    BY <2>1, Sending
  <2>3. \A m \in replies : PacketOK(m)'
    BY <2>1, Ports DEF PacketOK
  <2> QED BY <2>2, <2>3, KeptNet
<1>3. CASE UNCHANGED <<pc, port>>
  BY <1>1, <1>2, <1>3 DEF ServerOK
<1>4. CASE found /\ WantsData(request[c]) /\ pc' = "data" /\ port' = p
  <2> DEFINE r == request[c]
             w == Window(r)
  <2>1. r \in Request /\ Sent(r) /\ Current' = r /\ port'[1] = c
    BY <1>1, <1>4, RequestOf DEF IInv, Sent, WantsData, Current
  <2>2. Pieces(r) \in Nat /\ Pieces(r) >= 1 /\ w \in Nat \ {0}
    BY <2>1, FileTypes, SizeTypes DEF Pieces, Sent
  <2>3. InWindow(c, 1)'
    <3>1. Len(got[c]) \in Nat
      BY DEF IInv, TypeOK
    <3>2. 0 * w <= Len(got[c]) /\ 1 <= 0 * w + w
      <4> HIDE DEF w
      <4> QED BY <2>2, <3>1
    <3> QED BY <1>1, <3>2 DEF InWindow
  <2> HIDE DEF r, w
  <2> QED BY <1>1, <1>2, <1>4, <2>1, <2>2, <2>3 DEF ServerOK, OnTrack
<1> QED BY <1>1, <1>3, <1>4

LEMMA SendingData ==
    ASSUME IInv, TypeOK', [Next]_vars, SendBlock \/ SendLast
    PROVE  NetOK' /\ ServerOK'
<1> DEFINE r == Current
           w == Window(r)
<1>1. /\ port \in Port /\ port[1] \in Client /\ port' = port /\ request' = request
      /\ block \in Nat /\ piece \in Nat /\ Current' = r /\ r \in Request /\ r = request[port[1]]
      /\ got' = got
  BY Ports, RequestOf DEF IInv, TypeOK, SendBlock, SendLast, Current, client
<1>2. Sent(r) /\ block <= piece /\ piece <= Pieces(r) /\ OnTrack(port, block, piece)
  BY DEF IInv, ServerOK, SendBlock, SendLast
<1>3. FullBlocks(r) \in Nat /\ Pieces(r) = FullBlocks(r) + 1 /\ w \in Nat \ {0}
  BY <1>1, <1>2, FileTypes, SizeTypes DEF Pieces, Sent
<1>4. OnTrack(port, block, piece)' <=> Refused(port)' \/ (block' = piece' /\ InWindow(port[1], block)')
  BY <1>1 DEF OnTrack
<1>5. OnTrack(port, block, piece) => Refused(port)' \/ (block = piece /\ InWindow(port[1], block))
  BY <1>1, KeptTracks DEF OnTrack, Refused
<1>6. NetOK'
  <2> DEFINE len == LengthOf(r, piece)
  <2>1. net' \subseteq net \cup {Data(len)}
    <3>1. CASE SendBlock
      BY <3>1, Sending DEF SendBlock, LengthOf
    <3>2. CASE SendLast
      <4>1. ~(piece <= FullBlocks(r))
        BY <1>1, <1>3, <3>2 DEF SendLast
      <4> QED BY <3>2, <4>1, Sending DEF SendLast, LengthOf
    <3> QED BY <3>1, <3>2
  <2>2. PICK m : m = Data(len) /\ net' \subseteq net \cup {m}
    BY <2>1
  <2>3. /\ m.op = "DATA" /\ m.to = port[1] /\ m.from = port /\ m.block = block /\ m.piece = piece
        /\ m.len = LengthOf(r, piece)
    BY <2>2 DEF Data
  <2>4. OnTrack(port, block, piece) => OnTrack(m.from, m.block, m.piece)'
    BY <1>1, <2>3, KeptTracks
  <2>5. DataOK(m)'
    BY <1>1, <1>2, <2>3, <2>4 DEF DataOK
  <2>6. PacketOK(m)'
    BY <2>3, <2>5 DEF PacketOK
  <2> QED BY <2>2, <2>6, KeptNetOne
<1>7. CASE SendBlock /\ EndsWindow(r)
  <2>1. piece <= FullBlocks(r) /\ pc' = "ack" /\ block' = block /\ piece' = piece
    BY <1>7 DEF SendBlock
  <2>2. block % w = 0
    BY <1>1, <1>3, <1>7 DEF EndsWindow, Window
  <2>3. OnTrack(port, block, piece)'
    BY <1>1, <1>2, <1>4, <1>5, <2>1 DEF InWindow
  <2> QED BY <1>1, <1>2, <1>6, <2>1, <2>2, <2>3 DEF ServerOK
<1>8. CASE SendBlock /\ ~EndsWindow(r)
  <2>1. piece <= FullBlocks(r) /\ pc' = "data" /\ block' = block + 1 /\ piece' = piece + 1
    BY <1>8 DEF SendBlock, Advance
  <2>2. w = r.windowsize /\ block % w # 0
    BY <1>8 DEF EndsWindow, Window
  <2>3. ASSUME InWindow(port[1], block)
        PROVE  InWindow(port[1], block)'
    <3>1. PICK k \in Nat : k * w <= Len(got[port[1]]) /\ block <= k * w + w
      BY <1>1, <2>3 DEF InWindow
    <3>2. block + 1 <= k * w + w
      <4>1. k * w \in Nat /\ (k + 1) * w = k * w + w /\ ((k + 1) * w) % w = 0 /\ k + 1 \in Nat
        <5> HIDE DEF w
        <5>1. w \in Nat \ {0} /\ w \in Nat /\ k + 1 \in Nat
          BY <1>3
        <5>2. k * w \in Nat /\ (k + 1) * w = k * w + w
          BY <5>1, Distribute
        <5>3. ((k + 1) * w) % w = 0
          BY <5>1, MultipleMod
        <5> QED BY <5>1, <5>2, <5>3
      <4>2. block # k * w + w
        BY <2>2, <4>1
      <4> HIDE DEF w
      <4> QED BY <1>1, <1>3, <3>1, <4>1, <4>2
    <3> QED BY <1>1, <2>1, <3>1, <3>2 DEF InWindow
  <2>4. OnTrack(port, block, piece)'
    BY <1>1, <1>2, <1>4, <1>5, <2>1, <2>3
  <2> HIDE DEF r, w
  <2> QED BY <1>1, <1>2, <1>3, <1>6, <2>1, <2>4 DEF ServerOK
<1>9. CASE SendLast
  <2>1. pc' = "lastAck" /\ block' = block /\ piece' = piece
    BY <1>9 DEF SendLast
  <2>2. OnTrack(port, block, piece)'
    BY <1>1, <1>2, <1>4, <1>5, <2>1 DEF InWindow
  <2> QED BY <1>1, <1>2, <1>6, <2>1, <2>2 DEF ServerOK
<1> QED BY <1>6, <1>7, <1>8, <1>9

LEMMA GoingOn ==
    ASSUME IInv, TypeOK', [Next]_vars, NEW m \in net, ReceiveAck(m) \/ ReceiveRefusal(m)
    PROVE  NetOK' /\ ServerOK'
<1> DEFINE r == Current
           w == Window(r)
           c == port[1]
<1>1. /\ port \in Port /\ c \in Client /\ pc # "idle" /\ pc # "dead" /\ m.to = port
      /\ block \in Nat /\ piece \in Nat /\ r \in Request /\ r = request[c]
      /\ request' = request /\ got' = got /\ net' \subseteq net
  BY Ports, RequestOf, Sending
     DEF IInv, TypeOK, ReceiveAck, ReceiveRefusal, Reads, Waits, GoOn, Current, client
<1>2. /\ Sent(r) /\ block <= piece /\ OnTrack(port, block, piece)
      /\ pc = "ack" => piece <= FullBlocks(r) /\ block % w = 0
  BY <1>1 DEF IInv, ServerOK
<1>3. FullBlocks(r) \in Nat /\ Pieces(r) = FullBlocks(r) + 1 /\ w \in Nat \ {0}
  BY <1>1, <1>2, FileTypes, SizeTypes DEF Pieces, Sent
<1>4. NetOK'
  BY <1>1, KeptPacket DEF NetOK
<1>5. CASE pc # "ack"
  <2>1. pc' = "idle"
    BY <1>5 DEF ReceiveAck, ReceiveRefusal, GoOn
  <2> QED BY <1>4, <2>1 DEF ServerOK
<1>6. CASE pc = "ack"
  <2>1. pc' = "data" /\ piece' = piece + 1 /\ port' = port /\ block' \in {block, block + 1}
    BY <1>6 DEF ReceiveAck, ReceiveRefusal, GoOn
  <2>2. OnTrack(port, block, piece)'
    <3>1. OnTrack(port, block, piece)' <=> Refused(port)' \/ (block' = piece' /\ InWindow(c, block)')
      BY <2>1 DEF OnTrack
    <3>2. Refused(port) => Refused(port)'
      BY <1>1, <2>1, KeptTracks DEF Refused
    <3>3. CASE ReceiveRefusal(m)
      <4>1. Refused(port)
        BY <1>1, <3>3 DEF ReceiveRefusal, IInv, NetOK, PacketOK
      <4> QED BY <3>1, <3>2, <4>1
    <3>4. CASE ReceiveAck(m)
      <4>1. block' = block + 1 /\ m.op = "ACK" /\ m.block = block
        BY <1>6, <3>4 DEF ReceiveAck, GoOn, Acknowledges
      <4>2. block <= Len(got[c]) /\ Len(got[c]) \in Nat
        BY <1>1, <4>1 DEF IInv, NetOK, PacketOK, TypeOK
      <4>3. InWindow(c, block)'
        <5> DEFINE k == block \div w
        <5>1. k \in Nat /\ block = w * k + (block % w) /\ block % w = 0
          BY <1>1, <1>2, <1>3, <1>6, DivMod
        <5>2. block = k * w
          <6> HIDE DEF k, w
          <6>1. w \in Nat
            BY <1>3
          <6>2. w * k = k * w /\ k * w \in Nat
            BY ONLY <5>1, <6>1
          <6> QED BY ONLY <5>1, <6>2
        <5>3. k * w <= Len(got'[c]) /\ block' <= k * w + w
          <6>1. block <= Len(got'[c]) /\ block' <= block + w
            BY <1>1, <1>3, <4>1, <4>2
          <6> HIDE DEF k, w
          <6> QED BY <5>2, <6>1
        <5>4. w = Window(request'[port'[1]])
          BY <1>1, <2>1
        <5> HIDE DEF k, w
        <5> QED BY <2>1, <5>1, <5>3, <5>4 DEF InWindow
      <4> QED BY <1>2, <2>1, <3>1, <3>2, <4>1, <4>3 DEF OnTrack
    <3> QED BY <3>3, <3>4
  <2>3. Current' = r
    BY <1>1, <2>1 DEF Current
  <2> HIDE DEF r, w
  <2> QED BY <1>1, <1>2, <1>3, <1>4, <1>6, <2>1, <2>2, <2>3 DEF ServerOK
<1> QED BY <1>5, <1>6

\* The rest of what happens to the server and to the network.
LEMMA Otherwise ==
    ASSUME IInv, TypeOK', [Next]_vars, UNCHANGED vars \/ Die \/ \E m \in net : IgnoreAck(m) \/ Lose(m)
    PROVE  NetOK' /\ ServerOK'
<1>1. NetOK'
  <2>1. net' \subseteq net
    BY DEF vars, Die, IgnoreAck, Lose
  <2> QED BY <2>1, KeptPacket DEF NetOK
<1>2. CASE Die
  <2>1. /\ pc' = "dead" /\ port' = port /\ block' = block /\ piece' = piece /\ pc # "idle"
        /\ request' = request /\ got' = got /\ phase' = phase /\ peer' = peer
        /\ block > MaxBlock \/ DataLength > MaxData \/ ~Current.exact
    BY <1>2 DEF Die, Overflows, TooLong, Misreads, Waits, client
  <2>2. Sent(Current) /\ piece <= Pieces(Current) /\ port \in Port /\ piece \in Nat \ {0}
    BY <2>1 DEF IInv, ServerOK, TypeOK
  <2>3. FullBlocks(Current) \in Nat
    BY <2>2, Ports, RequestOf, FileTypes DEF IInv, Current, Sent
  <2>4. DataLength > MaxData => Oversized(Current)
    BY <2>2, <2>3 DEF DataLength, Oversized
  <2>5. Current' = Current
    BY <2>1 DEF Current
  <2>6. /\ Sent(Current)' /\ block' <= piece' /\ piece' <= Pieces(Current)'
        /\ Oversized(Current)' <=> Oversized(Current)
    BY <2>1, <2>5 DEF IInv, ServerOK, Sent, Pieces, FullBlocks, TotalBytes, BlockSize, Oversized,
                      LastLength, HasRest
  <2>7. OnTrack(port, block, piece)'
    BY <2>1 DEF IInv, ServerOK, OnTrack, Refused, InWindow
  <2>8. block' > MaxBlock \/ Oversized(Current)' \/ ~Current'.exact
    BY <2>1, <2>4, <2>5, <2>6
  <2>9. OnTrack(port, block, piece)' /\ pc' = "dead"
    BY <2>1, <2>7
  <2> QED BY ONLY <1>1, <2>6, <2>8, <2>9 DEF ServerOK
<1>3. CASE UNCHANGED vars \/ \E m \in net : IgnoreAck(m) \/ Lose(m)
  <2>1. UNCHANGED server
    BY <1>3 DEF vars, IgnoreAck, Lose
  <2> QED BY <1>1, <2>1, KeptServer
<1> QED BY <1>2, <1>3

-----------------------------------------------------------------------------
(* The clients *)

\* What clients send.
LEMMA Answers ==
    ASSUME IInv, TypeOK', [Next]_vars, NEW c \in Client, Firmware(c) \/ GiveUp(c)
    PROVE  NetOK' /\ ServerOK'
<1>1. UNCHANGED server
  BY DEF Firmware, Ask, Repeat, GiveUp, ReceiveError, ReceiveOack, ReceiveData, IgnoreOack, Decline
<1>2. ServerOK'
  BY <1>1, KeptServer
<1>3. NetOK'
  <2> USE Ports
  <2>1. CASE Ask(c)
    <3>1. PICK m : m = [to |-> Port69, from |-> c, op |-> "RRQ"] /\ net' \subseteq net \cup {m}
      BY <2>1, Sending DEF Ask
    <3>2. PacketOK(m)'
      BY <3>1 DEF PacketOK
    <3> QED BY <3>1, <3>2, KeptNetOne
  <2>2. CASE Repeat(c)
    <3>1. PICK m : m = Ack(c, peer[c], Len(got[c])) /\ net' \subseteq net \cup {m}
      BY <2>2, Sending DEF Repeat
    <3>2. got' = got /\ Len(got[c]) \in Nat /\ peer[c][1] = c
      BY <2>2 DEF Repeat, client, IInv, TypeOK, ClientsOK
    <3>3. PacketOK(m)'
      BY <3>1, <3>2 DEF PacketOK, Ack
    <3> QED BY <3>1, <3>3, KeptNetOne
  <2>3. CASE GiveUp(c)
    <3>1. PICK m : m = [to |-> peer[c], op |-> "ERROR"]
      OBVIOUS
    <3>2. net' \subseteq net \/ (net' \subseteq net \cup {m} /\ peer[c] # None)
      <4>1. PICK sent : Exchange({}, sent, port, phase') /\ sent \subseteq {m}
                        /\ (peer[c] = None => sent = {})
        BY <2>3, <3>1 DEF GiveUp
      <4> QED BY <4>1, Sending
    <3>3. phase' = [phase EXCEPT ![c] = "failed"]
      BY <2>3 DEF GiveUp
    <3>4. CASE net' \subseteq net
      BY <3>4, KeptPacket DEF NetOK
    <3>5. CASE net' \subseteq net \cup {m} /\ peer[c] # None
      <4>1. peer[c][1] = c
        BY <3>5 DEF IInv, ClientsOK
      <4>2. PacketOK(m)'
        BY <3>1, <3>3, <4>1 DEF PacketOK, Refused, Ended, IInv, TypeOK
      <4> QED BY <3>5, <4>2, KeptNetOne
    <3> QED BY <3>2, <3>4, <3>5
  <2>4. ASSUME NEW m \in net, ReceiveError(c, m) \/ IgnoreOack(c, m)
        PROVE  NetOK'
    <3>1. net' \subseteq net
      BY <2>4, Sending DEF ReceiveError, IgnoreOack
    <3> QED BY <3>1, KeptPacket DEF NetOK
  <2>5. ASSUME NEW m \in net, ReceiveOack(c, m)
        PROVE  NetOK'
    <3>1. PICK x : x = Ack(c, m.from, 0) /\ net' \subseteq net \cup {x}
      BY <2>5, Sending DEF ReceiveOack
    <3>2. got' = got /\ Len(got[c]) \in Nat /\ m.from[1] = c
      BY <2>5 DEF ReceiveOack, IInv, TypeOK, NetOK, PacketOK
    <3>3. PacketOK(x)'
      BY <3>1, <3>2 DEF PacketOK, Ack
    <3> QED BY <3>1, <3>3, KeptNetOne
  <2>6. ASSUME NEW m \in net, ReceiveData(c, m)
        PROVE  NetOK'
    <3>1. m.op = "DATA" /\ m \in Packet /\ m.from \in Port /\ m.from[1] = c /\ m.block \in Nat
      BY <2>6, PacketTypes DEF ReceiveData, Hears, IInv, TypeOK, NetOK, PacketOK, DataOK
    <3>2. PICK x : /\ net' \subseteq net \cup {x}
                   /\ \/ x = [to |-> m.from, op |-> "ERROR"] /\ phase' = [phase EXCEPT ![c] = "failed"]
                      \/ x = Ack(c, m.from, Len(got'[c]))
                      \/ net' \subseteq net
      <4> DEFINE next == m.block = Len(got[c]) + 1
                 n == IF next THEN m.block ELSE Len(got[c])
                 fits == m.len <= BlockSizeOf(c)
      <4>1. PICK answer : /\ Exchange({m}, answer, port, phase')
                          /\ \/ ~fits /\ answer = {[to |-> m.from, op |-> "ERROR"]}
                             \/ fits /\ answer = {Ack(c, m.from, n)}
                             \/ answer = {}
        BY <2>6 DEF ReceiveData
      <4>2. ~fits => phase' = [phase EXCEPT ![c] = "failed"]
        BY <2>6 DEF ReceiveData
      <4>3. fits => n = Len(got'[c])
        <5>1. got \in [Client -> Seq(Nat \ {0})]
          BY DEF IInv, TypeOK
        <5>2. Len(Append(got[c], m.piece)) = Len(got[c]) + 1
          BY <5>1
        <5>3. fits => got' = IF next THEN [got EXCEPT ![c] = Append(@, m.piece)] ELSE got
          BY <2>6 DEF ReceiveData
        <5> QED BY <5>1, <5>2, <5>3
      <4>4. net' \subseteq net \cup answer
        BY <4>1, Sending
      <4> HIDE DEF fits, n
      <4> QED BY <4>1, <4>2, <4>3, <4>4
    <3>3. CASE net' \subseteq net
      BY <3>3, KeptPacket DEF NetOK
    <3>4. CASE x = [to |-> m.from, op |-> "ERROR"] /\ phase' = [phase EXCEPT ![c] = "failed"]
      <4>1. PacketOK(x)'
        BY <3>1, <3>4 DEF PacketOK, Refused, Ended, IInv, TypeOK
      <4> QED BY <3>2, <4>1, KeptNetOne
    <3>5. CASE x = Ack(c, m.from, Len(got'[c]))
      <4>1. Len(got'[c]) \in Nat
        BY DEF TypeOK
      <4>2. PacketOK(x)'
        BY <3>1, <3>5, <4>1 DEF PacketOK, Ack
      <4> QED BY <3>2, <4>2, KeptNetOne
    <3> QED BY <3>2, <3>3, <3>4, <3>5
  <2>7. ASSUME NEW m \in net, Decline(c, m)
        PROVE  NetOK'
    <3>1. CASE m.op = "ERROR"
      <4>1. net' \subseteq net
        BY <2>7, <3>1, Sending DEF Decline
      <4> QED BY <4>1, KeptPacket DEF NetOK
    <3>2. CASE m.op # "ERROR"
      <4>1. PICK x : x = [to |-> m.from, op |-> "ERROR"] /\ net' \subseteq net \cup {x}
        BY <2>7, <3>2, Sending DEF Decline
      <4>2. m.from \in Port /\ m.from[1] = c
        BY <2>7, <3>2, PacketTypes DEF Decline, IInv, TypeOK, NetOK, PacketOK, DataOK
      <4>3. phase' = phase /\ peer' = peer /\ phase[c] = "receiving" /\ peer[c] # m.from
        BY <2>7 DEF Decline, client
      <4>4. PacketOK(x)'
        BY <4>1, <4>2, <4>3 DEF PacketOK, Refused
      <4> QED BY <4>1, <4>4, KeptNetOne
    <3> QED BY <3>1, <3>2
  <2> QED BY <2>1, <2>2, <2>3, <2>4, <2>5, <2>6, <2>7 DEF Firmware
<1> QED BY <1>2, <1>3

\* What a client makes of DATA: the next piece of its file, or nothing.
Taken(c) ==
    /\ got' = [got EXCEPT ![c] = Append(@, Len(got[c]) + 1)]
    /\ bytes' = [bytes EXCEPT ![c] = @ + LengthOf(request[c], Len(got[c]) + 1)]
    /\ Len(got[c]) <= FullBlocks(request[c])
    /\ phase'[c] \in {"receiving", "done"}
    /\ phase'[c] = "done" => CutShort(c)' \/ Len(got[c]) = FullBlocks(request[c])

NotTaken(c) == UNCHANGED <<got, bytes>> /\ phase'[c] \in {"receiving", "failed"}

LEMMA Taking ==
    ASSUME IInv, TypeOK', [Next]_vars, NEW c \in Client, NEW m \in net, ReceiveData(c, m)
    PROVE  /\ phase[c] \in {"asked", "receiving"} /\ request' = request /\ Sent(request[c])
           /\ peer' = [peer EXCEPT ![c] = m.from] /\ m.from \in Port /\ m.from[1] = c
           /\ fellBack' \in {fellBack, fellBack \cup {c}}
           /\ \A d \in Client \ {c} : phase'[d] = phase[d]
           /\ Taken(c) \/ NotTaken(c)
<1> DEFINE r == request[c]
           next == m.block = Len(got[c]) + 1
           fits == m.len <= BlockSizeOf(c)
           last == next /\ m.len < BlockSizeOf(c)
<1>1. /\ m \in Packet /\ m.op = "DATA" /\ m.to = c /\ m.from \in Port /\ m.block \in Nat
      /\ m.piece \in Nat
      /\ request' = request /\ fellBack' \in {fellBack, fellBack \cup {c}}
      /\ peer' = [peer EXCEPT ![c] = m.from]
  BY PacketTypes DEF ReceiveData, Hears, IInv, TypeOK
<1>2. /\ phase[c] = "asked" \/ (phase[c] = "receiving" /\ peer[c] = m.from)
      /\ phase' = [phase EXCEPT ![c] = IF ~fits THEN "failed" ELSE IF last THEN "done" ELSE "receiving"]
      /\ IF next /\ fits
         THEN /\ got' = [got EXCEPT ![c] = Append(@, m.piece)]
              /\ bytes' = [bytes EXCEPT ![c] = @ + m.len]
         ELSE UNCHANGED <<got, bytes>>
  BY DEF ReceiveData, Hears
<1>3. DataOK(m)
  BY <1>1 DEF IInv, NetOK, PacketOK
<1>4. m.from[1] = c /\ Sent(r) /\ r \in Request
  BY <1>1, <1>3, RequestOf DEF DataOK, IInv
<1>5. m.piece = m.block
  BY <1>2, <1>3, <1>4 DEF DataOK, OnTrack, Refused, Ended
<1>6. /\ FullBlocks(r) \in Nat /\ m.piece <= FullBlocks(r) + 1 /\ m.len = LengthOf(r, m.piece)
      /\ BlockSize(r) \in Nat \ {0} /\ Default \in Nat
  BY <1>1, <1>3, <1>4, FileTypes, SizeTypes, ConstantsAssumption DEF Sent, DataOK, Pieces
<1>7. /\ \A d \in Client \ {c} : phase'[d] = phase[d]
      /\ phase'[c] = IF ~fits THEN "failed" ELSE IF last THEN "done" ELSE "receiving"
  <2>1. phase \in [Client -> {"idle", "asked", "receiving", "done", "failed"}]
    BY DEF IInv, TypeOK
  <2> HIDE DEF fits, last
  <2> QED BY <1>2, <2>1
<1>8. CASE next /\ fits
  <2>1. last /\ ~CutShort(c)' => m.piece = FullBlocks(r) + 1
    <3> SUFFICES ASSUME m.len < BlockSizeOf(c), m.piece <= FullBlocks(r), ~CutShort(c)'
                 PROVE  FALSE
      BY <1>1, <1>6
    <3>1. m.len = BlockSize(r)
      BY <1>6 DEF LengthOf
    <3>2. c \notin fellBack' \/ ~(BlockSize(r) < Default)
      BY <1>1 DEF CutShort
    <3>3. CASE c \in fellBack'
      BY <1>6, <3>1, <3>2, <3>3 DEF BlockSizeOf, Plain
    <3>4. CASE c \notin fellBack' /\ ~Options(r)
      <4>1. BlockSize(r) = Default
        BY <1>4, <3>4, SizeTypes DEF Options
      <4> QED BY <1>6, <3>1, <3>4, <4>1 DEF BlockSizeOf, Plain
    <3>5. CASE c \notin fellBack' /\ Options(r)
      BY <1>6, <3>1, <3>5 DEF BlockSizeOf, Plain
    <3> QED BY <3>3, <3>4, <3>5
  <2>2. Len(got[c]) \in Nat /\ m.piece = Len(got[c]) + 1
    BY <1>5, <1>8 DEF IInv, TypeOK
  <2>3. phase'[c] \in {"receiving", "done"} /\ (phase'[c] = "done" => last)
    BY <1>7, <1>8
  <2> HIDE DEF last, fits
  <2>4. Taken(c)
    BY <1>2, <1>6, <1>8, <2>1, <2>2, <2>3 DEF Taken
  <2> QED BY <1>1, <1>2, <1>4, <1>7, <2>4
<1>9. CASE ~(next /\ fits)
  <2>1. NotTaken(c)
    BY <1>2, <1>7, <1>9 DEF NotTaken
  <2> QED BY <1>1, <1>2, <1>4, <1>7, <2>1
<1> QED BY <1>8, <1>9

LEMMA KeptClient ==
    ASSUME IInv, [Next]_vars, NEW c \in Client,
           request' = request, got'[c] = got[c], bytes'[c] = bytes[c], peer'[c] = peer[c],
           c \in fellBack' <=> c \in fellBack,
           phase'[c] = phase[c] \/ phase'[c] \in {"asked", "failed"}
    PROVE  /\ phase'[c] = "receiving" => peer'[c] # None
           /\ peer'[c] # None => peer'[c][1] = c
           /\ CopyOK(c)' /\ DoneOK(c)'
BY DEF IInv, ClientsOK, CopyOK, DoneOK, CutShort

LEMMA ClientsStep ==
    ASSUME IInv, TypeOK', [Next]_vars
    PROVE  ClientsOK'
<1> SUFFICES ASSUME NEW c \in Client
             PROVE  /\ phase'[c] = "receiving" => peer'[c] # None
                    /\ peer'[c] # None => peer'[c][1] = c
                    /\ CopyOK(c)' /\ DoneOK(c)'
  BY DEF ClientsOK
<1>0. TypeOK
  BY DEF IInv
<1>1. CASE UNCHANGED vars \/ Server \/ \E m \in net : IgnoreAck(m) \/ Lose(m)
  <2>1. UNCHANGED <<request, client>>
    BY <1>1 DEF vars, Server, Serve, SendBlock, SendLast, Die, ReceiveAck, ReceiveRefusal, GoOn,
                IgnoreAck, Lose
  <2> QED BY <2>1, KeptClient DEF client
<1>2. ASSUME NEW d \in Client,
             \/ Ask(d) \/ Repeat(d) \/ GiveUp(d)
             \/ \E m \in net : ReceiveError(d, m) \/ IgnoreOack(d, m) \/ Decline(d, m)
      PROVE  /\ phase'[c] = "receiving" => peer'[c] # None
             /\ peer'[c] # None => peer'[c][1] = c
             /\ CopyOK(c)' /\ DoneOK(c)'
  <2>1. /\ UNCHANGED <<request, peer, got, bytes, fellBack>>
        /\ phase' \in {phase, [phase EXCEPT ![d] = "asked"], [phase EXCEPT ![d] = "failed"]}
    BY <1>2 DEF Ask, Repeat, GiveUp, ReceiveError, IgnoreOack, Decline, client
  <2>2. phase'[c] = phase[c] \/ phase'[c] \in {"asked", "failed"}
    BY <1>0, <2>1 DEF TypeOK
  <2> QED BY <2>1, <2>2, KeptClient
<1>3. ASSUME NEW d \in Client, NEW m \in net, ReceiveOack(d, m)
      PROVE  /\ phase'[c] = "receiving" => peer'[c] # None
             /\ peer'[c] # None => peer'[c][1] = c
             /\ CopyOK(c)' /\ DoneOK(c)'
  <2>1. /\ UNCHANGED <<request, got, bytes, fellBack>>
        /\ peer' = [peer EXCEPT ![d] = m.from]
        /\ phase' = [phase EXCEPT ![d] = IF request[d].tsize = 0 THEN "done" ELSE "receiving"]
        /\ m.from \in Port /\ m.from[1] = d
    BY <1>3, PacketTypes DEF ReceiveOack, IInv, NetOK, PacketOK, TypeOK
  <2>2. CASE c # d
    <3>1. phase'[c] = phase[c] /\ peer'[c] = peer[c]
      BY <1>0, <2>1, <2>2 DEF TypeOK
    <3> QED BY <2>1, <3>1, KeptClient
  <2>3. CASE c = d
    <3>1. peer'[c] = m.from /\ peer'[c] # None
      BY <1>0, <2>1, <2>3, Ports DEF TypeOK
    <3>2. CopyOK(c)'
      BY <2>1 DEF IInv, ClientsOK, CopyOK
    <3>3. DoneOK(c)'
      BY <1>0, <2>1, <2>3 DEF DoneOK, TypeOK
    <3> QED BY <2>1, <2>3, <3>1, <3>2, <3>3
  <2> QED BY <2>2, <2>3
<1>4. ASSUME NEW d \in Client, NEW m \in net, ReceiveData(d, m)
      PROVE  /\ phase'[c] = "receiving" => peer'[c] # None
             /\ peer'[c] # None => peer'[c][1] = c
             /\ CopyOK(c)' /\ DoneOK(c)'
  <2>1. /\ phase[d] \in {"asked", "receiving"} /\ request' = request /\ Sent(request[d])
        /\ peer' = [peer EXCEPT ![d] = m.from] /\ m.from \in Port /\ m.from[1] = d
        /\ fellBack' \in {fellBack, fellBack \cup {d}}
        /\ \A e \in Client \ {d} : phase'[e] = phase[e]
        /\ Taken(d) \/ NotTaken(d)
    BY <1>4, Taking
  <2>2. CASE c # d
    <3>1. peer'[c] = peer[c] /\ phase'[c] = phase[c] /\ got'[c] = got[c] /\ bytes'[c] = bytes[c]
      BY <1>0, <2>1, <2>2 DEF TypeOK, Taken, NotTaken
    <3> QED BY <2>1, <2>2, <3>1, KeptClient
  <2>3. CASE c = d
    <3> DEFINE r == request[c]
               n == Len(got[c])
    <3>1. peer'[c] = m.from /\ peer'[c] # None /\ r \in Request /\ Sent(r) /\ n \in Nat
      BY <1>0, <2>1, <2>3, Ports, RequestOf DEF TypeOK
    <3>2. CASE Taken(c)
      <4>1. /\ got'[c] = Append(got[c], n + 1) /\ bytes'[c] = bytes[c] + LengthOf(r, n + 1)
            /\ n <= FullBlocks(r) /\ FullBlocks(r) \in Nat /\ bytes[c] \in Nat
        BY <1>0, <3>1, <3>2, FileTypes DEF Taken, TypeOK, Sent
      <4>2. Len(got'[c]) = n + 1
        BY <1>0, <4>1 DEF TypeOK
      <4>3. LengthTo(r, n + 1) = LengthTo(r, n) + LengthOf(r, n + 1) /\ LengthTo(r, n) \in Nat
        BY <3>1, <4>1, NextLength DEF Sent
      <4>4. bytes[c] = LengthTo(r, n)
        <5>1. CASE got[c] = <<>> /\ bytes[c] = 0
          <6>1. n = 0 /\ BlockSize(r) \in Nat
            BY <3>1, <5>1, SizeTypes
          <6>2. LengthTo(r, 0) = 0 * BlockSize(r) /\ 0 * BlockSize(r) = 0
            BY <4>1, <6>1 DEF LengthTo
          <6> QED BY <5>1, <6>1, <6>2
        <5>2. CASE bytes[c] = LengthTo(r, n)
          BY <5>2
        <5> QED BY <5>1, <5>2 DEF IInv, ClientsOK, CopyOK
      <4>5. CopyOK(c)'
        <5> HIDE DEF n, r
        <5>1. Len(got'[c]) <= Pieces(r) /\ bytes'[c] = LengthTo(r, Len(got'[c]))
          BY <3>1, <4>1, <4>2, <4>3, <4>4 DEF Pieces
        <5> QED BY <2>1, <3>1, <5>1 DEF CopyOK, r
      <4>6. DoneOK(c)'
        BY <2>1, <3>1, <3>2, <4>2 DEF DoneOK, Taken, Pieces
      <4> QED BY <2>1, <2>3, <3>1, <4>5, <4>6
    <3>3. CASE NotTaken(c)
      <4>1. CopyOK(c)' /\ DoneOK(c)'
        BY <2>1, <3>3 DEF NotTaken, IInv, ClientsOK, CopyOK, DoneOK
      <4> QED BY <2>1, <2>3, <3>1, <4>1
    <3> QED BY <2>1, <2>3, <3>2, <3>3
  <2> QED BY <2>2, <2>3
<1> QED BY <1>1, <1>2, <1>3, <1>4 DEF Next, Firmware

-----------------------------------------------------------------------------
THEOREM InitInv == Init => IInv
<1> SUFFICES ASSUME Init PROVE IInv
  OBVIOUS
<1>1. TypeOK
  <2>1. /\ served \in [Client -> 0..MaxServed]
        /\ phase \in [Client -> {"idle", "asked", "receiving", "done", "failed"}]
        /\ peer \in [Client -> Port \cup {None}] /\ bytes \in [Client -> Nat]
    BY ConstantsAssumption DEF Init
  <2>2. <<>> \in Seq(Nat \ {0})
    OBVIOUS
  <2>3. got \in [Client -> Seq(Nat \ {0})]
    BY <2>2 DEF Init
  <2>4. /\ request \in Requests /\ net \subseteq Packet /\ pc = "idle" /\ port = None
        /\ block \in Nat \ {0} /\ piece \in Nat \ {0}
    BY DEF Init
  <2>5. gaveUp \subseteq Client /\ fellBack \subseteq Client /\ trouble \in BOOLEAN
    BY DEF Init
  <2> QED BY <2>1, <2>3, <2>4, <2>5 DEF TypeOK
<1>2. NetOK /\ ServerOK
  BY DEF Init, NetOK, ServerOK
<1>3. ClientsOK
  BY DEF Init, ClientsOK, CopyOK, DoneOK
<1> QED BY <1>1, <1>2, <1>3 DEF IInv

THEOREM NextInv == IInv /\ [Next]_vars => IInv'
<1> SUFFICES ASSUME IInv, [Next]_vars PROVE IInv'
  OBVIOUS
<1>1. TypeOK'
  BY TypeStep
<1>2. NetOK' /\ ServerOK'
  BY <1>1, Serving, SendingData, GoingOn, Otherwise, Answers DEF Next, Server
<1>3. ClientsOK'
  BY <1>1, ClientsStep
<1> QED BY <1>1, <1>2, <1>3 DEF IInv

THEOREM Invariant == Spec => []IInv
BY InitInv, NextInv, PTL DEF Spec

-----------------------------------------------------------------------------
(* The results. *)

\* Every variable keeps its type.
THEOREM TypeCorrect == Spec => []TypeOK
<1>1. IInv => TypeOK
  BY DEF IInv
<1> QED BY <1>1, Invariant, PTL

\* A file that a client regards as complete has the length of the whole file, or of the
\* part that it has asked for (_handle_rrq), whatever the network does.
THEOREM CompleteIsWhole == Spec => []CompleteMeansWhole
<1>1. IInv => CompleteMeansWhole
  <2> SUFFICES ASSUME IInv, NEW c \in Client,
                      phase[c] = "done", request[c].tsize # 0, ~CutShort(c)
               PROVE  bytes[c] = IF Part(request[c]) THEN request[c].tsize ELSE request[c].size
    BY DEF CompleteMeansWhole
  <2> DEFINE r == request[c]
             full == FullBlocks(r)
  <2>1. Sent(r) /\ Len(got[c]) = full + 1 /\ CopyOK(c)
    BY DEF IInv, ClientsOK, DoneOK, Pieces
  <2>2. r \in Request /\ r.size \in Nat /\ r.tsize \in Nat \cup {None} /\ None \notin Nat
    BY <2>1, RequestOf, RequestTypes, ConstantsAssumption DEF IInv, Sent
  <2>3. /\ full \in Nat /\ LastLength(r) \in Nat /\ full * BlockSize(r) \in Nat
        /\ HasRest(r) => full * BlockSize(r) + LastLength(r) = r.size
        /\ ~HasRest(r) => full * BlockSize(r) = TotalBytes(r) /\ LastLength(r) = 0
    BY <2>1, <2>2, FileTypes DEF Sent
  <2>4. bytes[c] = LengthTo(r, full + 1)
    <3>1. got[c] # <<>>
      BY <2>1, <2>3
    <3> QED BY <2>1, <3>1 DEF CopyOK
  <2>5. bytes[c] = full * BlockSize(r) + LastLength(r)
    BY <2>3, <2>4 DEF LengthTo
  <2> HIDE DEF full
  <2> QED BY <2>2, <2>3, <2>5 DEF Part, TotalBytes, r
<1> QED BY <1>1, Invariant, PTL

\* The server sends no block beyond the window that follows what a client has, unless
\* that client has refused its port (_handle_rrq).
THEOREM WindowIsRespected == Spec => []WindowRespected
<1>1. IInv => WindowRespected
  <2> SUFFICES ASSUME IInv, NEW m \in net,
                      m.op = "DATA", phase[m.to] = "receiving", m.from = peer[m.to]
               PROVE  m.block <= (Len(got[m.to]) \div Window(request[m.to]) + 1)
                                 * Window(request[m.to])
    BY DEF WindowRespected, Window
  <2> DEFINE c == m.to
             w == Window(request[c])
             n == Len(got[c])
  <2>1. /\ c \in Client /\ m.from \in Port /\ m.block \in Nat /\ m.from[1] = c
        /\ OnTrack(m.from, m.block, m.piece)
    BY PacketTypes DEF IInv, TypeOK, NetOK, PacketOK, DataOK
  <2>2. InWindow(c, m.block)
    BY <2>1 DEF OnTrack, Refused, Ended
  <2>3. w \in Nat \ {0} /\ n \in Nat
    BY <2>1, RequestOf, SizeTypes DEF IInv, TypeOK
  <2>4. PICK k \in Nat : k * w <= n /\ m.block <= k * w + w
    BY <2>2 DEF InWindow
  <2> HIDE DEF c, w, n
  <2>5. k <= n \div w /\ n \div w \in Nat
    BY <2>3, <2>4, DivBound, DivMod
  <2>6. k * w <= (n \div w) * w /\ (n \div w + 1) * w = (n \div w) * w + w
        /\ (n \div w) * w \in Nat /\ k * w \in Nat
    BY <2>3, <2>5, Monotone, Distribute
  <2>7. m.block <= (n \div w + 1) * w
    BY <2>1, <2>3, <2>4, <2>6
  <2> QED BY <2>7 DEF c, w, n
<1> QED BY <1>1, Invariant, PTL

\* Only lengths end the server: those of a file with more blocks than there are numbers
\* (struct.pack), of data that no datagram holds (sendto), and of answers (struct.unpack).
THEOREM DiesOfLengthOnly == Spec => []DiesOnlyOfLength
<1>1. IInv => DiesOnlyOfLength
  <2> SUFFICES ASSUME IInv, pc = "dead", ~Oversized(Current), Current.exact
               PROVE  FullBlocks(Current) >= MaxBlock
    BY DEF DiesOnlyOfLength
  <2>1. /\ Sent(Current) /\ block <= piece /\ piece <= FullBlocks(Current) + 1 /\ block > MaxBlock
        /\ block \in Nat /\ piece \in Nat /\ port \in Port
    BY DEF IInv, ServerOK, TypeOK, Pieces
  <2>2. FullBlocks(Current) \in Nat
    BY <2>1, Ports, RequestOf, FileTypes DEF IInv, Current, Sent
  <2> QED BY <2>1, <2>2, ConstantsAssumption
<1> QED BY <1>1, Invariant, PTL

-----------------------------------------------------------------------------
(* Why the server gets stuck.  What is under way tells how far the server has come,
   and an ended client leaves the server an answer unless there was trouble. *)

\* A packet shows that its client was served, and DATA from the open port are behind
\* the server.
Traced(m) ==
    /\ m.to \in Client => served[m.to] >= 1
    /\ m.op \in {"DATA", "OACK"} => m.from[2] <= served[m.to]
    /\ m.op = "ERROR" /\ m.to \in Client => ~Sent(request[m.to])
    /\ m.op = "DATA" /\ m.from = port => m.piece < piece \/ (m.piece = piece /\ pc # "data")

TracesOK == \A m \in net : Traced(m)

PortOK == IF pc = "idle" THEN port = None ELSE port[2] = served[port[1]]

HeardOK ==
    \A c \in Client :
        /\ phase[c] \in {"receiving", "done", "failed"} => served[c] >= 1 \/ c \in gaveUp
        /\ peer[c] # None => peer[c][2] <= served[c]

FallsOK == fellBack # {} => trouble

\* Nothing that the server hangs on has happened to a client.
Smooth(c) == ~trouble /\ c \notin gaveUp /\ served[c] = 1

Awaited(m) == m.to = port /\ (m.op = "ERROR" \/ Acknowledges(m))

AnswerOK ==
    pc \notin {"idle", "dead"} /\ Ended(phase[port[1]]) /\ Smooth(port[1]) =>
        pc = "lastAck" /\ \E m \in net : Awaited(m)

StuckInv == IInv /\ TracesOK /\ PortOK /\ HeardOK /\ FallsOK /\ AnswerOK

\* What the server does in a step.
LEMMA ServerMoves ==
    ASSUME [Next]_vars
    PROVE  \/ UNCHANGED server
           \/ \E c \in Client : Serve(c)
           \/ /\ pc = "data" /\ pc' # "idle" /\ port' = port /\ served' = served
              /\ \/ piece' = piece + 1
                 \/ piece' = piece /\ pc' \in {"ack", "lastAck", "dead"}
           \/ pc = "ack" /\ pc' = "data" /\ port' = port /\ served' = served /\ piece' = piece + 1
           \/ pc = "lastAck" /\ pc' = "idle" /\ port' = None /\ served' = served
           \/ Waits /\ pc' = "dead" /\ port' = port /\ served' = served /\ piece' = piece
<1>1. CASE UNCHANGED vars \/ \E m \in net : IgnoreAck(m) \/ Lose(m)
  BY <1>1 DEF vars, IgnoreAck, Lose
<1>2. CASE \E c \in Client : Firmware(c) \/ GiveUp(c)
  <2>1. UNCHANGED server
    BY <1>2 DEF Firmware, Ask, Repeat, GiveUp, ReceiveError, ReceiveOack, ReceiveData,
                IgnoreOack, Decline
  <2> QED BY <2>1
<1>3. CASE SendBlock \/ SendLast \/ Die
  BY <1>3 DEF SendBlock, SendLast, Die, Misreads, Advance
<1>4. ASSUME NEW m \in net, ReceiveAck(m) \/ ReceiveRefusal(m)
      PROVE  \/ pc = "ack" /\ pc' = "data" /\ port' = port /\ served' = served /\ piece' = piece + 1
             \/ pc = "lastAck" /\ pc' = "idle" /\ port' = None /\ served' = served
  BY <1>4 DEF ReceiveAck, ReceiveRefusal, Reads, GoOn, Waits
<1> QED BY <1>1, <1>2, <1>3, <1>4 DEF Next, Server

\* What stays and what only grows.
LEMMA Histories ==
    ASSUME TypeOK, TypeOK', [Next]_vars
    PROVE  /\ request' = request
           /\ \A c \in Client : served[c] \in Nat /\ served'[c] \in Nat /\ served[c] <= served'[c]
           /\ gaveUp \subseteq gaveUp' /\ (trouble => trouble')
<1>1. \A c \in Client : served[c] \in Nat /\ served'[c] \in Nat
  BY DEF TypeOK
<1>2. UNCHANGED served \/ \E c \in Client : served' = [served EXCEPT ![c] = @ + 1]
  BY ServerMoves DEF server, Serve
<1>3. \A c \in Client : served[c] <= served'[c]
  <2>1. CASE UNCHANGED served
    BY <1>1, <2>1
  <2>2. ASSUME NEW c \in Client, served' = [served EXCEPT ![c] = @ + 1]
        PROVE  \A d \in Client : served[d] <= served'[d]
    BY <1>1, <2>2 DEF TypeOK
  <2> QED BY <1>2, <2>1, <2>2
<1>4. request' = request /\ gaveUp \subseteq gaveUp'
  BY DEF Next, vars, Server, Serve, SendBlock, SendLast, Die, ReceiveAck, ReceiveRefusal, GoOn,
         IgnoreAck, Lose, Firmware, Ask, Repeat, GiveUp, ReceiveError, ReceiveOack, ReceiveData,
         IgnoreOack, Decline
<1>5. trouble => trouble'
  <2>1. CASE trouble' = trouble
    BY <2>1
  <2>2. ASSUME NEW m \in net, Lose(m)
        PROVE  trouble => trouble'
    BY Zenon, <2>2 DEF Lose
  <2>3. ASSUME NEW c \in Client, NEW m \in net, ReceiveData(c, m)
        PROVE  trouble => trouble'
    BY Zenon, <2>3 DEF ReceiveData
  <2>4. CASE \E m \in net : IgnoreAck(m)
    BY <2>1, <2>4 DEF IgnoreAck
  <2>5. CASE Server \/ UNCHANGED vars
    <3>1. trouble' = trouble
      BY <2>5 DEF vars, Server, Serve, SendBlock, SendLast, Die, ReceiveAck, ReceiveRefusal, GoOn
    <3> QED BY <2>1, <3>1
  <2>6. ASSUME NEW c \in Client,
               \/ Ask(c) \/ Repeat(c) \/ GiveUp(c)
               \/ \E m \in net : ReceiveError(c, m) \/ ReceiveOack(c, m) \/ IgnoreOack(c, m) \/ Decline(c, m)
        PROVE  trouble => trouble'
    <3>1. trouble' = trouble
      BY <2>6 DEF Ask, Repeat, GiveUp, ReceiveError, ReceiveOack, IgnoreOack, Decline
    <3> QED BY <2>1, <3>1
  <2> QED BY <2>2, <2>3, <2>4, <2>5, <2>6 DEF Next, Firmware
<1> QED BY <1>1, <1>3, <1>4, <1>5

\* What is new in the network.
LEMMA WhatIsSent ==
    ASSUME IInv, [Next]_vars, NEW m \in net', m \notin net
    PROVE  \/ m.to \notin Client /\ m.op \in {"RRQ", "ACK", "ERROR"}
           \/ \E c \in Client :
                /\ Serve(c) /\ m.to = c /\ m.op \in {"OACK", "ERROR"}
                /\ m.op = "OACK" => m.from = <<c, served[c] + 1>>
                /\ m.op = "ERROR" => ~Sent(request[c])
           \/ (SendBlock \/ SendLast) /\ \E len : m = Data(len)
<1> DEFINE ClientSent == m.to \notin Client /\ m.op \in {"RRQ", "ACK", "ERROR"}
<1>1. CASE UNCHANGED vars \/ Die \/ \E x \in net : IgnoreAck(x) \/ Lose(x)
  <2>1. net' \subseteq net
    BY <1>1 DEF vars, Die, IgnoreAck, Lose
  <2> QED BY <2>1
<1>2. ASSUME NEW x \in net, ReceiveAck(x) \/ ReceiveRefusal(x)
      PROVE  FALSE
  BY <1>2, Sending DEF ReceiveAck, ReceiveRefusal, GoOn
<1>3. CASE SendBlock \/ SendLast
  BY <1>3, Sending DEF SendBlock, SendLast
<1>4. ASSUME NEW c \in Client, Serve(c)
      PROVE  /\ m.to = c /\ m.op \in {"OACK", "ERROR"}
             /\ m.op = "OACK" => m.from = <<c, served[c] + 1>>
             /\ m.op = "ERROR" => ~Sent(request[c])
  <2> DEFINE r == request[c]
             p == <<c, served[c] + 1>>
             found == r.valid /\ r.size # None
             reply(from, op) == [to |-> c, from |-> from, op |-> op]
             replies == IF ~r.valid THEN {reply(Port69, "ERROR")}
                        ELSE IF ~found THEN {reply(p, "ERROR")}
                        ELSE IF Options(r) THEN {reply(p, "OACK")} ELSE {}
  <2>1. Exchange({[to |-> Port69, from |-> c, op |-> "RRQ"]}, replies, port', phase)
    BY ONLY <1>4 DEF Serve
  <2>2. \A x \in replies :
          /\ x.to = c /\ x.op \in {"OACK", "ERROR"}
          /\ x.op = "OACK" => x.from = p
          /\ x.op = "ERROR" => ~Sent(r)
    BY DEF Sent
  <2> HIDE DEF replies, p, r
  <2>3. m \in replies
    BY <2>1, Sending
  <2> QED BY <2>2, <2>3 DEF p, r
<1>5. ASSUME NEW c \in Client, Ask(c) \/ Repeat(c) \/ GiveUp(c)
      PROVE  ClientSent
  <2>1. CASE Ask(c)
    <3>1. m = [to |-> Port69, from |-> c, op |-> "RRQ"]
      BY <2>1, Sending DEF Ask
    <3> QED BY <3>1, Ports
  <2>2. CASE Repeat(c)
    <3>1. m = Ack(c, peer[c], Len(got[c])) /\ peer[c] \in Port
      BY <2>2, Sending DEF Repeat, IInv, TypeOK, ClientsOK
    <3> QED BY <3>1, Ports DEF Ack
  <2>3. CASE GiveUp(c)
    <3>1. PICK sent : /\ Exchange({}, sent, port, phase') /\ sent \subseteq {[to |-> peer[c], op |-> "ERROR"]}
                      /\ peer[c] = None => sent = {}
      BY <2>3 DEF GiveUp
    <3>2. m = [to |-> peer[c], op |-> "ERROR"] /\ peer[c] # None
      BY <3>1, Sending
    <3>3. peer[c] \in Port
      BY <3>2 DEF IInv, TypeOK
    <3> QED BY <3>2, <3>3, Ports
  <2> QED BY <1>5, <2>1, <2>2, <2>3
<1>6. ASSUME NEW c \in Client, NEW x \in net,
             \/ ReceiveError(c, x) \/ ReceiveOack(c, x) \/ ReceiveData(c, x)
             \/ IgnoreOack(c, x) \/ Decline(c, x)
      PROVE  ClientSent
  <2>0. x \in Packet
    BY DEF IInv, TypeOK
  <2>1. CASE ReceiveError(c, x) \/ IgnoreOack(c, x)
    BY <2>1, Sending DEF ReceiveError, IgnoreOack
  <2>2. CASE ReceiveOack(c, x)
    <3>1. m = Ack(c, x.from, 0) /\ x.from \in Port
      BY <2>0, <2>2, Sending, PacketTypes DEF ReceiveOack
    <3> QED BY <3>1, Ports DEF Ack
  <2>3. CASE ReceiveData(c, x)
    <3>1. m = [to |-> x.from, op |-> "ERROR"] \/ \E n : m = Ack(c, x.from, n)
      <4>1. PICK answer : /\ Exchange({x}, answer, port, phase')
                          /\ \/ answer = {[to |-> x.from, op |-> "ERROR"]}
                             \/ \E n : answer = {Ack(c, x.from, n)}
                             \/ answer = {}
        BY <2>3 DEF ReceiveData
      <4> QED BY <4>1, Sending
    <3>2. x.from \in Port
      BY <2>0, <2>3, PacketTypes DEF ReceiveData
    <3> QED BY <3>1, <3>2, Ports DEF Ack
  <2>4. CASE Decline(c, x)
    <3>1. m = [to |-> x.from, op |-> "ERROR"] /\ x.op # "ERROR"
      BY <2>4, Sending DEF Decline
    <3>2. x.from \in Port
      BY <2>0, <2>4, <3>1, PacketTypes DEF Decline
    <3> QED BY <3>1, <3>2, Ports
  <2> QED BY <1>6, <2>1, <2>2, <2>3, <2>4
<1> QED BY <1>1, <1>2, <1>3, <1>4, <1>5, <1>6 DEF Next, Server, Firmware

LEMMA PortStep ==
    ASSUME IInv, TypeOK', [Next]_vars, PortOK
    PROVE  PortOK'
<1>1. CASE UNCHANGED server
  BY <1>1 DEF PortOK, server
<1>2. ASSUME NEW c \in Client, Serve(c)
      PROVE  PortOK'
  <2>1. /\ pc = "idle" /\ served' = [served EXCEPT ![c] = @ + 1]
        /\ \/ pc' = "data" /\ port' = <<c, served[c] + 1>>
           \/ UNCHANGED <<pc, port>>
    BY ONLY <1>2 DEF Serve
  <2>2. served'[c] = served[c] + 1
    BY <2>1 DEF IInv, TypeOK
  <2> QED BY <2>1, <2>2 DEF PortOK
<1> QED BY <1>1, <1>2, ServerMoves DEF PortOK, Waits

\* Nothing that is under way is caught up with.
LEMMA TracedStays ==
    ASSUME IInv, TypeOK', [Next]_vars, PortOK, NEW m \in net, Traced(m)
    PROVE  Traced(m)'
<1>0. m \in Packet /\ TypeOK
  BY DEF IInv, TypeOK
<1>1. /\ request' = request
      /\ \A c \in Client : served[c] \in Nat /\ served'[c] \in Nat /\ served[c] <= served'[c]
  BY <1>0, Histories
<1>2. m.op \in {"DATA", "OACK"} => m.to \in Client /\ m.from \in Port /\ m.from[2] \in Nat
  BY <1>0, PacketTypes, ConstantsAssumption DEF Port
<1>3. ASSUME m.op = "DATA", m.from = port'
      PROVE  m.piece < piece' \/ (m.piece = piece' /\ pc' # "data")
  <2>1. /\ m.from \in Port /\ m.from # None /\ m.from[1] = m.to /\ m.to \in Client
        /\ m.from[2] <= served[m.to] /\ m.piece \in Nat /\ piece \in Nat
    BY <1>0, <1>2, <1>3, Ports, PacketTypes DEF IInv, NetOK, PacketOK, DataOK, Traced, TypeOK
  <2>2. m.from = port => m.piece < piece \/ (m.piece = piece /\ pc # "data")
    BY <1>3 DEF Traced
  <2>3. CASE UNCHANGED server
    BY <1>3, <2>2, <2>3 DEF server
  <2>4. ASSUME NEW c \in Client, Serve(c)
        PROVE  FALSE
    <3>1. pc = "idle" /\ (port' = <<c, served[c] + 1>> \/ port' = port)
      BY ONLY <2>4 DEF Serve
    <3>2. port = None
      BY <3>1 DEF PortOK
    <3>3. m.from = <<c, served[c] + 1>>
      BY <1>3, <2>1, <3>1, <3>2
    <3>4. m.to = c /\ served[c] + 1 <= served[c]
      BY <2>1, <3>3
    <3> QED BY <1>1, <3>4
  <2>5. CASE port' = port /\ pc \in {"data", "ack"} /\ piece' = piece + 1
    BY <1>3, <2>1, <2>2, <2>5
  <2>6. CASE port' = port /\ pc = "data" /\ piece' = piece
    BY <1>3, <2>1, <2>2, <2>6
  <2>7. CASE port' = None
    BY <1>3, <2>1, <2>7
  <2>8. CASE port' = port /\ pc' = "dead" /\ piece' = piece
    BY <1>3, <2>1, <2>2, <2>8
  <2> QED BY <2>3, <2>4, <2>5, <2>6, <2>7, <2>8, ServerMoves
<1> QED BY <1>1, <1>2, <1>3, <1>0 DEF Traced

LEMMA TracesStep ==
    ASSUME IInv, TypeOK', [Next]_vars, PortOK, TracesOK
    PROVE  TracesOK'
<1> SUFFICES ASSUME NEW m \in net' PROVE Traced(m)'
  BY DEF TracesOK
<1>0. TypeOK
  BY DEF IInv
<1>1. CASE m \in net
  BY <1>1, TracedStays DEF TracesOK
<1>2. CASE m.to \notin Client /\ m.op \in {"RRQ", "ACK", "ERROR"}
  BY <1>2 DEF Traced
<1>3. ASSUME NEW c \in Client, Serve(c), m.to = c, m.op \in {"OACK", "ERROR"},
             m.op = "OACK" => m.from = <<c, served[c] + 1>>,
             m.op = "ERROR" => ~Sent(request[c])
      PROVE  Traced(m)'
  <2>1. request' = request /\ served[c] \in Nat /\ served' = [served EXCEPT ![c] = @ + 1]
    BY <1>0, <1>3, Histories DEF Serve
  <2>2. served'[c] = served[c] + 1
    BY <1>0, <2>1 DEF TypeOK
  <2> QED BY <1>3, <2>1, <2>2 DEF Traced
<1>4. ASSUME SendBlock \/ SendLast, NEW len, m = Data(len)
      PROVE  Traced(m)'
  <2>1. /\ m.to = port[1] /\ m.from = port /\ m.op = "DATA" /\ m.piece = piece
        /\ piece \in Nat /\ port \in Port /\ port[1] \in Client
    BY <1>0, <1>4, Ports DEF Data, TypeOK, SendBlock, SendLast
  <2>2. served' = served /\ port[2] = served[port[1]] /\ port[2] \in 1..MaxServed
    BY <1>4, <2>1 DEF SendBlock, SendLast, PortOK, Port
  <2>3. \/ piece' = piece + 1
        \/ piece' = piece /\ pc' # "data"
    BY <1>4 DEF SendBlock, SendLast, Advance
  <2>4. MaxServed \in Nat
    BY ConstantsAssumption
  <2> QED BY <2>1, <2>2, <2>3, <2>4 DEF Traced
<1> QED BY <1>1, <1>2, <1>3, <1>4, WhatIsSent, <1>0 DEF IInv

LEMMA HeardStep ==
    ASSUME IInv, TypeOK', [Next]_vars, TracesOK, HeardOK
    PROVE  HeardOK'
<1>0. TypeOK
  BY DEF IInv
<1> SUFFICES ASSUME NEW c \in Client
             PROVE  /\ phase'[c] \in {"receiving", "done", "failed"} => served'[c] >= 1 \/ c \in gaveUp'
                    /\ peer'[c] # None => peer'[c][2] <= served'[c]
  BY DEF HeardOK
<1>1. /\ served[c] \in Nat /\ served'[c] \in Nat /\ served[c] <= served'[c] /\ gaveUp \subseteq gaveUp'
      /\ phase[c] \in {"receiving", "done", "failed"} => served[c] >= 1 \/ c \in gaveUp
      /\ peer[c] # None => peer[c] \in Port /\ peer[c][2] \in Nat /\ peer[c][2] <= served[c]
  <2>1. /\ served[c] \in Nat /\ served'[c] \in Nat /\ served[c] <= served'[c]
        /\ gaveUp \subseteq gaveUp'
    BY <1>0, Histories
  <2>2. peer[c] # None => peer[c] \in Port /\ peer[c][2] \in Nat
    BY <1>0, ConstantsAssumption DEF TypeOK, Port
  <2> QED BY <2>1, <2>2 DEF HeardOK
<1>2. CASE phase'[c] = phase[c] /\ peer'[c] = peer[c]
  BY <1>1, <1>2
<1>3. ASSUME NEW m \in net, m.to = c, m.op \in {"DATA", "OACK", "ERROR"},
             peer'[c] = peer[c] \/ (m.op # "ERROR" /\ peer'[c] = m.from)
      PROVE  /\ phase'[c] \in {"receiving", "done", "failed"} => served'[c] >= 1 \/ c \in gaveUp'
             /\ peer'[c] # None => peer'[c][2] <= served'[c]
  <2>1. served[c] >= 1 /\ (m.op # "ERROR" => m.from[2] <= served[c])
    BY <1>3 DEF TracesOK, Traced
  <2>2. m.op # "ERROR" => m.from \in Port /\ m.from[2] \in Nat
    <3>1. m \in Packet
      BY <1>0 DEF TypeOK
    <3>2. m.op # "ERROR" => m.from \in Port
      BY <1>3, <3>1, PacketTypes
    <3> QED BY <3>2, ConstantsAssumption DEF Port
  <2> QED BY <1>1, <1>3, <2>1, <2>2
<1>4. CASE UNCHANGED vars \/ Server \/ \E m \in net : IgnoreAck(m) \/ Lose(m)
  <2>1. UNCHANGED client
    BY <1>4 DEF vars, Server, Serve, SendBlock, SendLast, Die, ReceiveAck, ReceiveRefusal, GoOn,
                IgnoreAck, Lose
  <2> QED BY <1>2, <2>1 DEF client
<1>5. ASSUME NEW d \in Client, Ask(d) \/ Repeat(d) \/ GiveUp(d)
      PROVE  \/ phase'[c] = phase[c] /\ peer'[c] = peer[c]
             \/ phase'[c] = "asked" /\ peer'[c] = peer[c]
             \/ c \in gaveUp' /\ peer'[c] = peer[c]
  BY <1>0, <1>5 DEF Ask, Repeat, GiveUp, client, TypeOK
<1>6. ASSUME NEW d \in Client, NEW m \in net,
             \/ ReceiveError(d, m) \/ ReceiveOack(d, m) \/ ReceiveData(d, m)
             \/ IgnoreOack(d, m) \/ Decline(d, m)
      PROVE  \/ phase'[c] = phase[c] /\ peer'[c] = peer[c]
             \/ /\ m.to = c /\ m.op \in {"DATA", "OACK", "ERROR"}
                /\ peer'[c] = peer[c] \/ (m.op # "ERROR" /\ peer'[c] = m.from)
  <2>1. CASE IgnoreOack(d, m) \/ Decline(d, m)
    BY <2>1 DEF IgnoreOack, Decline, client
  <2>2. CASE ReceiveError(d, m)
    BY <1>0, <2>2 DEF ReceiveError, Hears, TypeOK
  <2>3. CASE ReceiveOack(d, m)
    BY <1>0, <2>3 DEF ReceiveOack, TypeOK
  <2>4. CASE ReceiveData(d, m)
    <3>1. /\ m.to = d /\ m.op = "DATA" /\ peer' = [peer EXCEPT ![d] = m.from]
          /\ \E ph : phase' = [phase EXCEPT ![d] = ph]
      BY <2>4 DEF ReceiveData, Hears
    <3> QED BY <1>0, <3>1 DEF TypeOK
  <2> QED BY <1>6, <2>1, <2>2, <2>3, <2>4
<1>7. ASSUME phase'[c] = "asked" \/ c \in gaveUp', peer'[c] = peer[c]
      PROVE  /\ phase'[c] \in {"receiving", "done", "failed"} => served'[c] >= 1 \/ c \in gaveUp'
             /\ peer'[c] # None => peer'[c][2] <= served'[c]
  BY <1>1, <1>7
<1> QED BY <1>2, <1>3, <1>4, <1>5, <1>6, <1>7 DEF Next, Firmware

LEMMA FallsStep ==
    ASSUME TypeOK, TypeOK', [Next]_vars, FallsOK
    PROVE  FallsOK'
<1>1. trouble => trouble'
  BY Histories
<1>2. CASE fellBack' = fellBack
  BY <1>1, <1>2 DEF FallsOK
<1>3. CASE UNCHANGED vars \/ Server \/ \E m \in net : IgnoreAck(m) \/ Lose(m)
  <2>1. UNCHANGED client
    BY <1>3 DEF vars, Server, Serve, SendBlock, SendLast, Die, ReceiveAck, ReceiveRefusal, GoOn,
                IgnoreAck, Lose
  <2> QED BY <1>2, <2>1 DEF client
<1>4. ASSUME NEW c \in Client, NEW m \in net, ReceiveData(c, m)
      PROVE  FallsOK'
  <2>1. fellBack' # fellBack => trouble'
    BY Zenon, <1>4 DEF ReceiveData
  <2> QED BY <1>2, <2>1 DEF FallsOK
<1>5. ASSUME NEW c \in Client,
             \/ Ask(c) \/ Repeat(c) \/ GiveUp(c)
             \/ \E m \in net : ReceiveError(c, m) \/ ReceiveOack(c, m) \/ IgnoreOack(c, m) \/ Decline(c, m)
      PROVE  FallsOK'
  <2>1. fellBack' = fellBack
    BY <1>5 DEF Ask, Repeat, GiveUp, ReceiveError, ReceiveOack, IgnoreOack, Decline, client
  <2> QED BY <1>2, <2>1
<1> QED BY <1>3, <1>4, <1>5 DEF Next, Firmware

LEMMA Arrives ==
    ASSUME NEW arrived, NEW sent, NEW pt, NEW ph, Exchange(arrived, sent, pt, ph),
           NEW m, m \in (net \ arrived) \cup sent, Open(m.to, pt, ph)
    PROVE  m \in net'
BY DEF Exchange

LEMMA OpenPort == \A p \in Port : \A ph : Open(p, p, ph)
BY Ports DEF Open

\* No client takes what the server waits for out of the network.
LEMMA AwaitedStays ==
    ASSUME TypeOK, [Next]_vars, port \in Port, NEW c \in Client, Firmware(c) \/ GiveUp(c),
           NEW m \in net, m.to = port
    PROVE  m \in net'
<1>0. m.to \notin Client /\ \A ph : Open(m.to, port, ph)
  BY Ports, OpenPort
<1>1. CASE Ask(c) \/ Repeat(c) \/ GiveUp(c)
  <2>1. PICK sent, ph : Exchange({}, sent, port, ph)
    BY <1>1 DEF Ask, Repeat, GiveUp
  <2> QED BY <1>0, <2>1, Arrives
<1>2. ASSUME NEW x \in net,
             ReceiveError(c, x) \/ ReceiveOack(c, x) \/ ReceiveData(c, x) \/ Decline(c, x)
      PROVE  m \in net'
  <2>1. x.to = c
    BY <1>2 DEF ReceiveError, ReceiveOack, ReceiveData, Decline, Hears
  <2>2. PICK sent, ph : Exchange({x}, sent, port, ph)
    BY <1>2 DEF ReceiveError, ReceiveOack, ReceiveData, Decline
  <2>3. m # x
    BY <1>0, <2>1
  <2> QED BY <1>0, <2>2, <2>3, Arrives
<1>3. ASSUME NEW x \in net, IgnoreOack(c, x)
      PROVE  m \in net'
  <2>1. x.to = c /\ net' = net \ {x}
    BY <1>3 DEF IgnoreOack, Hears
  <2> QED BY <1>0, <2>1
<1> QED BY <1>1, <1>2, <1>3 DEF Firmware

\* DATA that end their client are the last, and the server gets an answer to them.
LEMMA LastData ==
    ASSUME IInv, TypeOK', [Next]_vars, TracesOK, PortOK, FallsOK,
           NEW c \in Client, NEW m \in net, ReceiveData(c, m),
           pc \notin {"idle", "dead"}, port[1] = c, ~trouble', served[c] = 1, Ended(phase'[c])
    PROVE  pc = "lastAck" /\ \E x \in net' : Awaited(x)
<1> DEFINE r == request[c]
           next == m.block = Len(got[c]) + 1
           n == IF next THEN m.block ELSE Len(got[c])
           fits == m.len <= BlockSizeOf(c)
           last == next /\ m.len < BlockSizeOf(c)
           answer == IF ~fits THEN {[to |-> m.from, op |-> "ERROR"]}
                     ELSE IF last \/ n % WindowOf(c) = 0 \/ m.block > n
                          THEN {Ack(c, m.from, n)} ELSE {}
<1>0. TypeOK /\ m \in Packet
  BY DEF IInv, TypeOK
<1>1. /\ m.op = "DATA" /\ m.to = c
      /\ phase[c] = "asked" \/ (phase[c] = "receiving" /\ peer[c] = m.from)
      /\ phase' = [phase EXCEPT ![c] = IF ~fits THEN "failed" ELSE IF last THEN "done" ELSE "receiving"]
      /\ Exchange({m}, answer, port, phase')
  BY DEF ReceiveData, Hears
<1>2. ~fits \/ last
  <2>1. phase'[c] = IF ~fits THEN "failed" ELSE IF last THEN "done" ELSE "receiving"
    <3> HIDE DEF fits, last
    <3> QED BY <1>0, <1>1 DEF TypeOK
  <2> HIDE DEF fits, last
  <2> QED BY <2>1 DEF Ended
<1>3. fellBack' = {}
  <2>1. ~trouble
    BY <1>0, Histories
  <2>2. fellBack' = fellBack
    BY Zenon DEF ReceiveData
  <2> QED BY <2>1, <2>2 DEF FallsOK
<1>4. /\ m.from = port /\ port \in Port /\ r \in Request /\ Sent(r) /\ Current = r
      /\ m.block \in Nat /\ m.piece \in Nat /\ block \in Nat /\ piece \in Nat
  <2>1. m.from \in Port /\ m.block \in Nat /\ m.piece \in Nat
    BY <1>0, <1>1, PacketTypes
  <2>2. m.from[1] = c /\ m.from[2] <= 1
    BY <1>1 DEF IInv, NetOK, PacketOK, DataOK, TracesOK, Traced
  <2>3. port \in Port /\ port[2] = 1
    BY <1>0 DEF TypeOK, PortOK
  <2>4. m.from = port
    BY <2>1, <2>2, <2>3, ConstantsAssumption DEF Port
  <2> QED BY <1>0, <2>1, <2>3, <2>4, RequestOf DEF IInv, ServerOK, Current, TypeOK
<1>5. ~Refused(port)
  BY <1>1, <1>4 DEF Refused, Ended
<1>6. /\ block = piece /\ m.block = m.piece /\ piece <= FullBlocks(r) + 1
      /\ m.len = LengthOf(r, m.piece) /\ m.piece <= FullBlocks(r) + 1
      /\ pc = "ack" => piece <= FullBlocks(r)
      /\ m.piece < piece \/ (m.piece = piece /\ pc # "data")
  BY <1>1, <1>4, <1>5 DEF IInv, ServerOK, NetOK, PacketOK, DataOK, OnTrack, Pieces, TracesOK, Traced
<1>7. BlockSizeOf(c) = BlockSize(r) /\ BlockSize(r) \in Nat /\ FullBlocks(r) \in Nat
  <2>1. Plain(c) <=> ~Options(r)
    BY <1>3 DEF Plain
  <2>2. ~Options(r) => BlockSize(r) = Default
    BY <1>4, SizeTypes DEF Options
  <2> QED BY <1>4, <2>1, <2>2, SizeTypes, FileTypes DEF BlockSizeOf, Sent
<1>8. m.piece = FullBlocks(r) + 1 /\ m.piece = piece /\ pc = "lastAck"
  <2>1. m.len # BlockSize(r)
    BY <1>2, <1>7
  <2>2. ~(m.piece <= FullBlocks(r))
    BY <1>6, <2>1 DEF LengthOf
  <2> QED BY <1>0, <1>4, <1>6, <1>7, <2>2 DEF IInv, TypeOK
<1>9. \E x \in answer : Awaited(x)
  <2>1. CASE ~fits
    BY <1>4, <2>1 DEF Awaited
  <2>2. CASE fits /\ last
    <3>1. n = block /\ Ack(c, m.from, n) \in answer
      BY <1>6, <1>8, <2>2
    <3> HIDE DEF n, answer
    <3> QED BY <1>4, <3>1 DEF Awaited, Acknowledges, Ack
  <2> QED BY <1>2, <2>1, <2>2
<1>10. PICK x \in answer : Awaited(x)
  BY <1>9
<1>11. x \in net'
  <2>1. Open(x.to, port, phase')
    BY <1>4, <1>10, OpenPort DEF Awaited
  <2> HIDE DEF answer
  <2> QED BY <1>1, <1>10, <2>1, Arrives
<1> QED BY <1>8, <1>10, <1>11

LEMMA AnswerStep ==
    ASSUME StuckInv, TypeOK', PortOK', [Next]_vars
    PROVE  AnswerOK'
<1>0. /\ IInv /\ TypeOK /\ TracesOK /\ PortOK /\ HeardOK /\ FallsOK
      /\ request' = request /\ (trouble => trouble') /\ gaveUp \subseteq gaveUp'
      /\ \A c \in Client : served[c] \in Nat /\ served'[c] \in Nat /\ served[c] <= served'[c]
  BY Histories DEF StuckInv, IInv
<1> SUFFICES ASSUME pc' \notin {"idle", "dead"}, Ended(phase'[port'[1]]), ~trouble', port'[1] \notin gaveUp',
                    served'[port'[1]] = 1
             PROVE  pc' = "lastAck" /\ \E m \in net' : Awaited(m)'
  BY DEF AnswerOK, Smooth
<1> DEFINE Before == pc \notin {"idle", "dead"} /\ port' = port /\ Ended(phase[port[1]])
<1>1. ASSUME Before
      PROVE  pc = "lastAck" /\ \E m \in net : Awaited(m)
  <2>1. port \in Port /\ port[1] \in Client /\ port[2] >= 1 /\ port[2] = served[port[1]]
    BY <1>0, <1>1, Ports DEF TypeOK, PortOK, Port
  <2>2. Smooth(port[1])
    BY <1>0, <1>1, <2>1 DEF Smooth
  <2> QED BY <1>1, <2>2 DEF StuckInv, AnswerOK
<1>2. CASE UNCHANGED vars
  <2>1. UNCHANGED <<net, server, phase>>
    BY <1>2 DEF vars, client
  <2>2. Before
    BY <2>1 DEF server
  <2> QED BY <1>1, <2>1, <2>2 DEF server, Awaited, Acknowledges
<1>3. ASSUME NEW c \in Client, Serve(c)
      PROVE  FALSE
  <2>1. /\ pc = "idle" /\ phase' = phase /\ gaveUp' = gaveUp /\ served' = [served EXCEPT ![c] = @ + 1]
        /\ port' = <<c, served[c] + 1>> \/ UNCHANGED <<pc, port>>
    BY ONLY <1>3 DEF Serve, client
  <2>2. port'[1] = c /\ served'[c] = served[c] + 1
    BY <1>0, <2>1 DEF TypeOK
  <2>3. phase[c] \in {"done", "failed"} /\ c \notin gaveUp /\ served[c] = 0
    BY <1>0, <2>1, <2>2 DEF Ended
  <2> QED BY <1>0, <2>3 DEF HeardOK
<1>4. CASE SendBlock \/ SendLast \/ Die
  <2>1. pc = "data" /\ pc' # "dead" /\ port' = port /\ phase' = phase
    BY <1>4 DEF SendBlock, SendLast, Die, client
  <2> QED BY <1>1, <2>1
<1>5. ASSUME NEW m \in net, ReceiveAck(m) \/ ReceiveRefusal(m)
      PROVE  FALSE
  <2>1. pc = "ack" /\ port' = port /\ phase' = phase
    BY <1>5 DEF ReceiveAck, ReceiveRefusal, GoOn, client
  <2> QED BY <1>1, <2>1
<1>6. ASSUME NEW x \in net, IgnoreAck(x) \/ Lose(x)
      PROVE  pc' = "lastAck" /\ \E m \in net' : Awaited(m)'
  <2>1. UNCHANGED <<server, client>> /\ net' = net \ {x}
    BY <1>6 DEF IgnoreAck, Lose
  <2>2. Before
    BY <2>1 DEF server, client
  <2>3. PICK m \in net : pc = "lastAck" /\ Awaited(m)
    BY <1>1, <2>2
  <2>4. m # x
    <3>1. CASE IgnoreAck(x)
      BY <2>3, <3>1 DEF IgnoreAck, Awaited
    <3>2. CASE Lose(x)
      <4>1. ~Missed(x)
        BY Zenon, <3>2 DEF Lose
      <4>2. Missed(m)
        BY <2>2, <2>3 DEF Missed, Awaited, Acknowledges
      <4> QED BY <4>1, <4>2
    <3> QED BY <1>6, <3>1, <3>2
  <2> QED BY <2>1, <2>3, <2>4 DEF Awaited, Acknowledges, server
<1>7. ASSUME NEW c \in Client, Firmware(c) \/ GiveUp(c)
      PROVE  pc' = "lastAck" /\ \E m \in net' : Awaited(m)'
  <2>1. UNCHANGED server
    BY <1>7 DEF Firmware, Ask, Repeat, GiveUp, ReceiveError, ReceiveOack, ReceiveData,
                IgnoreOack, Decline
  <2>2. /\ pc \notin {"idle", "dead"} /\ pc' = pc /\ port' = port /\ served' = served /\ port \in Port
        /\ port[1] \in Client
    BY <1>0, <2>1, Ports DEF server, TypeOK
  <2>3. \A m : Awaited(m)' <=> Awaited(m)
    BY <2>1 DEF server, Awaited, Acknowledges
  <2>4. CASE Ended(phase[port[1]])
    <3>1. PICK m \in net : pc = "lastAck" /\ Awaited(m)
      BY <1>1, <2>2, <2>4
    <3>2. m \in net'
      BY <1>0, <1>7, <2>2, <3>1, AwaitedStays DEF Awaited
    <3> QED BY <2>2, <2>3, <3>1, <3>2
  <2>5. CASE ~Ended(phase[port[1]])
    <3>1. Sent(request[port[1]])
      BY <1>0, <2>2 DEF IInv, ServerOK, Current
    <3>2. phase'[port[1]] # phase[port[1]] /\ Ended(phase'[port[1]]) /\ port[1] \notin gaveUp'
      BY <2>2, <2>5
    <3>3. ~(\/ Ask(c) \/ Repeat(c) \/ GiveUp(c)
            \/ \E m \in net : IgnoreOack(c, m) \/ Decline(c, m))
      BY <1>0, <2>2, <3>2 DEF Ask, Repeat, GiveUp, IgnoreOack, Decline, client, Ended, TypeOK
    <3>4. ASSUME NEW m \in net, ReceiveError(c, m)
          PROVE  FALSE
      <4>1. m.to = c /\ m.op = "ERROR" /\ phase' = [phase EXCEPT ![c] = "failed"]
        BY <3>4 DEF ReceiveError, Hears
      <4>2. c = port[1]
        BY <1>0, <2>2, <3>2, <4>1 DEF TypeOK
      <4>3. ~Sent(request[c])
        BY <1>0, <4>1 DEF TracesOK, Traced
      <4> QED BY <3>1, <4>2, <4>3
    <3>5. ASSUME NEW m \in net, ReceiveOack(c, m)
          PROVE  FALSE
      <4>1. phase' = [phase EXCEPT ![c] = IF request[c].tsize = 0 THEN "done" ELSE "receiving"]
        BY <3>5 DEF ReceiveOack
      <4>2. c = port[1] /\ request[c].tsize = 0
        BY <1>0, <2>2, <3>2, <4>1 DEF TypeOK, Ended
      <4> QED BY <3>1, <4>2 DEF Sent
    <3>6. ASSUME NEW m \in net, ReceiveData(c, m)
          PROVE  pc' = "lastAck" /\ \E x \in net' : Awaited(x)'
      <4>1. c = port[1]
        <5>1. \E ph : phase' = [phase EXCEPT ![c] = ph]
          BY <3>6 DEF ReceiveData
        <5> QED BY <1>0, <2>2, <3>2, <5>1 DEF TypeOK
      <4>2. served[c] = 1 /\ Ended(phase'[c])
        BY <2>2, <3>2, <4>1
      <4>3. pc = "lastAck" /\ \E x \in net' : Awaited(x)
        BY <1>0, <2>2, <3>6, <4>1, <4>2, LastData
      <4> QED BY <2>2, <2>3, <4>3
    <3> QED BY <1>7, <3>3, <3>4, <3>5, <3>6 DEF Firmware
  <2> QED BY <2>4, <2>5
<1> QED BY <1>2, <1>3, <1>4, <1>5, <1>6, <1>7 DEF Next, Server

\* The server ends only on lengths (DiesOfLengthOnly), and waits in vain for
\* a client that has ended (wait_for_ack) only if that client gave up, was served for a
\* repeated request, or a packet was lost or overtaken that nobody repeats.
THEOREM TroubleEndsService == Spec => []EndsOnlyOnTrouble
<1>1. Init => StuckInv
  BY InitInv DEF Init, StuckInv, TracesOK, PortOK, HeardOK, FallsOK, AnswerOK
<1>2. StuckInv /\ [Next]_vars => StuckInv'
  <2> SUFFICES ASSUME StuckInv, [Next]_vars PROVE StuckInv'
    OBVIOUS
  <2>1. IInv' /\ TypeOK' /\ TypeOK
    BY NextInv DEF StuckInv, IInv
  <2>2. PortOK' /\ TracesOK' /\ HeardOK' /\ FallsOK'
    BY <2>1, PortStep, TracesStep, HeardStep, FallsStep DEF StuckInv
  <2> QED BY <2>1, <2>2, AnswerStep DEF StuckInv
<1>3. StuckInv => StuckOnlyOnTrouble
  <2> SUFFICES ASSUME StuckInv, Stuck, ~trouble, port[1] \notin gaveUp, ~(served[port[1]] > 1)
               PROVE  FALSE
    BY DEF StuckOnlyOnTrouble
  <2>1. pc \notin {"idle", "dead"} /\ port \in Port /\ port[1] \in Client
    BY Ports DEF Stuck, StuckInv, IInv, TypeOK
  <2>2. served[port[1]] = 1
    BY <2>1 DEF StuckInv, IInv, TypeOK, PortOK, Port
  <2>3. PICK m \in net : Awaited(m)
    BY <2>1, <2>2 DEF StuckInv, AnswerOK, Smooth, Stuck
  <2> QED BY <2>3 DEF Stuck, Awaited
<1>4. Spec => []StuckOnlyOnTrouble
  BY <1>1, <1>2, <1>3, PTL DEF Spec
<1> QED BY <1>4, DiesOfLengthOnly, PTL DEF EndsOnlyOnTrouble

-----------------------------------------------------------------------------
(* The refinement. *)

LEMMA TransferInit == Init => Transfer!Init
<1> SUFFICES ASSUME Init PROVE Transfer!Init
  OBVIOUS
<1>1. \A c \in Client : request[c].size # None => FullBlocks(request[c]) \in Nat
  BY ConstantsAssumption, FileTypes DEF Init
<1> QED BY <1>1 DEF Init, Transfer!Init

\* What becomes of a client.
Outcome(c) ==
    IF phase[c] \in {"idle", "asked", "receiving"} THEN "pending"
    ELSE IF phase[c] = "done" /\ ~CutShort(c) THEN "complete" ELSE "failed"

Wanted(c) ==
    IF request[c].size = None \/ request[c].tsize = 0 THEN 0 ELSE FullBlocks(request[c]) + 1

transferVars == <<[c \in Client |-> Wanted(c)], got, [c \in Client |-> Outcome(c)]>>

\* Only client c moves on.
LEMMA TransferMove ==
    ASSUME TypeOK, NEW c \in Client, NEW out \in {"pending", "complete", "failed"},
           \A d \in Client : Wanted(d)' = Wanted(d),
           \A d \in Client \ {c} : Outcome(d)' = Outcome(d),
           Outcome(c) = "pending", Outcome(c)' = out,
           \/ got' = got /\ (out = "complete" => Wanted(c) = 0)
           \/ /\ Len(got[c]) < Wanted(c)
              /\ got' = [got EXCEPT ![c] = Append(@, Len(got[c]) + 1)]
              /\ out = "complete" => Len(got[c]) + 1 = Wanted(c)
    PROVE  Transfer!Next \/ UNCHANGED transferVars
<1> DEFINE outcome == [d \in Client |-> Outcome(d)]
           want == [d \in Client |-> Wanted(d)]
<1>1. want' = want /\ want[c] = Wanted(c)
  OBVIOUS
<1>2. outcome' = [outcome EXCEPT ![c] = out] /\ outcome[c] = "pending"
  OBVIOUS
<1>3. CASE got' = got /\ out = "pending"
  BY <1>1, <1>2, <1>3 DEF transferVars
<1>4. CASE got' = got /\ out = "complete" /\ Wanted(c) = 0
  BY <1>1, <1>2, <1>4 DEF Transfer!Next, Transfer!Answer, Outcome, Wanted
<1>5. CASE got' = got /\ out = "failed"
  BY <1>1, <1>2, <1>5 DEF Transfer!Next, Transfer!Fail, Outcome, Wanted
<1>6. CASE /\ Len(got[c]) < Wanted(c)
           /\ got' = [got EXCEPT ![c] = Append(@, Len(got[c]) + 1)]
           /\ out = "complete" => Len(got[c]) + 1 = Wanted(c)
  <2>1. outcome' = outcome \/ out # "pending"
    BY <1>2
  <2> QED BY <1>1, <1>2, <1>6, <2>1 DEF Transfer!Next, Transfer!Accept, Outcome, Wanted
<1> QED BY <1>3, <1>4, <1>5, <1>6

LEMMA TransferStep ==
    ASSUME IInv, IInv', [Next]_vars
    PROVE  Transfer!Next \/ UNCHANGED transferVars
<1>1. TypeOK /\ TypeOK'
  BY DEF IInv
<1>2. ASSUME request' = request
      PROVE  \A d \in Client : Wanted(d)' = Wanted(d)
  BY <1>2 DEF Wanted
<1>3. ASSUME request' = request, got' = got, fellBack' = fellBack, NEW c \in Client,
             phase[c] \in {"idle", "asked", "receiving"},
             \A d \in Client \ {c} : phase'[d] = phase[d],
             Outcome(c)' = "complete" => Wanted(c) = 0
      PROVE  Transfer!Next \/ UNCHANGED transferVars
  <2>1. \A d \in Client \ {c} : Outcome(d)' = Outcome(d)
    BY <1>3 DEF Outcome, CutShort
  <2>2. Outcome(c) = "pending" /\ Outcome(c)' \in {"pending", "complete", "failed"}
    BY <1>3 DEF Outcome
  <2> QED BY <1>1, <1>2, <1>3, <2>1, <2>2, TransferMove
<1>4. CASE UNCHANGED <<request, client>>
  BY <1>4 DEF transferVars, Wanted, Outcome, CutShort, client
<1>5. CASE UNCHANGED vars \/ Server \/ \E m \in net : IgnoreAck(m) \/ Lose(m)
  <2>1. UNCHANGED <<request, client>>
    BY <1>5 DEF vars, Server, Serve, SendBlock, SendLast, Die, ReceiveAck, ReceiveRefusal, GoOn,
                IgnoreAck, Lose
  <2> QED BY <1>4, <2>1
<1>6. ASSUME NEW c \in Client,
             Ask(c) \/ GiveUp(c) \/ \E m \in net : ReceiveError(c, m) \/ ReceiveOack(c, m)
      PROVE  Transfer!Next \/ UNCHANGED transferVars
  <2>1. /\ UNCHANGED <<request, got, fellBack>> /\ phase[c] \in {"idle", "asked", "receiving"}
        /\ \E ph \in {"asked", "receiving", "failed", "done"} :
            /\ phase' = [phase EXCEPT ![c] = ph]
            /\ ph = "done" => request[c].tsize = 0
    BY <1>6 DEF Ask, GiveUp, ReceiveError, ReceiveOack, Hears
  <2>2. PICK ph \in {"asked", "receiving", "failed", "done"} :
            phase' = [phase EXCEPT ![c] = ph] /\ (ph = "done" => request[c].tsize = 0)
    BY <2>1
  <2>3. \A d \in Client \ {c} : phase'[d] = phase[d]
    BY <1>1, <2>2 DEF TypeOK
  <2>4. Outcome(c)' = "complete" => Wanted(c) = 0
    BY <1>1, <2>2 DEF Outcome, Wanted, TypeOK
  <2> QED BY <1>3, <2>1, <2>3, <2>4
<1>7. ASSUME NEW c \in Client, Repeat(c) \/ \E m \in net : IgnoreOack(c, m) \/ Decline(c, m)
      PROVE  Transfer!Next \/ UNCHANGED transferVars
  <2>1. UNCHANGED <<request, client>>
    BY <1>7 DEF Repeat, IgnoreOack, Decline
  <2> QED BY <1>4, <2>1
<1>8. ASSUME NEW c \in Client, NEW m \in net, ReceiveData(c, m)
      PROVE  Transfer!Next \/ UNCHANGED transferVars
  <2>1. /\ phase[c] \in {"asked", "receiving"} /\ request' = request /\ Sent(request[c])
        /\ fellBack' \in {fellBack, fellBack \cup {c}}
        /\ \A d \in Client \ {c} : phase'[d] = phase[d]
        /\ Taken(c) \/ NotTaken(c)
    BY <1>1, <1>8, Taking
  <2>2. \A d \in Client \ {c} : Outcome(d)' = Outcome(d)
    BY <2>1 DEF Outcome, CutShort
  <2>3. Outcome(c) = "pending" /\ Outcome(c)' \in {"pending", "complete", "failed"}
    BY <2>1 DEF Outcome
  <2>4. Wanted(c) = FullBlocks(request[c]) + 1 /\ FullBlocks(request[c]) \in Nat /\ Len(got[c]) \in Nat
    BY <1>1, <2>1, RequestOf, FileTypes DEF Wanted, Sent, TypeOK
  <2>5. CASE Taken(c)
    <3>1. Len(got[c]) < Wanted(c) /\ (Outcome(c)' = "complete" => Len(got[c]) + 1 = Wanted(c))
      BY <2>4, <2>5 DEF Taken, Outcome
    <3> QED BY <1>1, <1>2, <2>1, <2>2, <2>3, <2>5, <3>1, TransferMove DEF Taken
  <2>6. CASE NotTaken(c)
    <3>1. got' = got /\ Outcome(c)' # "complete"
      BY <2>6 DEF NotTaken, Outcome
    <3> QED BY <1>1, <1>2, <2>1, <2>2, <2>3, <3>1, TransferMove
  <2> QED BY <2>1, <2>5, <2>6
<1> QED BY <1>5, <1>6, <1>7, <1>8 DEF Next, Firmware

\* Each copy is that of FileTransfer: it grows in the order of the file, whatever is
\* lost, repeated, reordered or sent to another port (run, wait_for_ack).
THEOREM CopiesAreOrdered == Spec => OrderedCopies
<1>1. IInv /\ IInv' /\ [Next]_vars
      => [Transfer!Next]_<<[c \in Client |-> IF request[c].size = None \/ request[c].tsize = 0 THEN 0
                                              ELSE FullBlocks(request[c]) + 1],
                           got,
                           [c \in Client |->
                               IF phase[c] \in {"idle", "asked", "receiving"} THEN "pending"
                               ELSE IF phase[c] = "done" /\ ~CutShort(c) THEN "complete"
                               ELSE "failed"]>>
  BY TransferStep DEF transferVars, Outcome, Wanted
<1> QED BY <1>1, TransferInit, Invariant, PTL DEF Spec, OrderedCopies, Transfer!Spec
=============================================================================
