------------------------- MODULE UpdateImage_proofs -------------------------
(* Proofs about UpdateImage, for all images, states of the sysroot, ways to mount
   and plans.                                                                     *)
EXTENDS UpdateImage, TLAPS

-----------------------------------------------------------------------------
(* The inductive invariants. *)

\* In what is left to write, the stamp comes right after the ESP.
StampsFollow == \A i \in 2..Len(left) : left[i] = "stamp" => left[i - 1] = "esp"

\* What a stamp goes to, if it is written next, holds the ESP that it speaks of.
EspWritten ==
    left # <<>> /\ Head(left) = "stamp" /\ (Direct("stamp") \/ (Mounted /\ Top.esp)) =>
        content[Target("stamp")].esp = Current(config)

WriteOK == pc = "write" => config \in Image /\ StampsFollow /\ EspWritten

IInv ==
    /\ TypeOK /\ WriteOK
    /\ pc \in Command => plan # <<>>
    /\ pc = "esp" => Mounted
    /\ starting # {} => "fuse2fs" \in Method

\* A mount exists only with the mount info that speaks of it, unless the process is
\* about to write it.
MountOK ==
    /\ pc # "idle" => ginfo = info
    /\ starting # {} => pc = "mounting"
    /\ pc = "attach" => info = None
    /\ pc \in {"attach", "wait"} => ~Mounted
    /\ pc = "mounting" => info = None /\ starting \subseteq {args.image} /\ (Mounted => starting = {})
    /\ pc \in {"esp", "record"} => Mounted
    /\ Mounted => Len(stack) = 1
    /\ Mounted /\ pc \in {"mounting", "esp", "record"} => Top.image = args.image
    /\ Mounted /\ pc \notin {"mounting", "esp", "record"} => info # None /\ info.image = Top.image

PlanOK ==
    /\ pc \in {"update-fs", "remake"} => Head(plan) = pc
    /\ pc = "write" => IF Remaking THEN config = args.image ELSE ginfo # None /\ config = ginfo.image

OwnInv == IInv /\ MountOK /\ PlanOK /\ BootsItsOwnRoot

\* No mount is left behind that is not recorded.
Recorded ==
    /\ Failing \cap {"esp", "record"} = {}
    /\ Killable \cap {"mounting", "esp", "record"} = {}

-----------------------------------------------------------------------------
(* Sequences *)

LEMMA Pushed ==
    ASSUME NEW S, NEW x \in S, NEW s \in Seq(S)
    PROVE  LET t == <<x>> \o s IN
           t \in Seq(S) /\ t # <<>> /\ Head(t) = x /\ Tail(t) = s /\ Len(t) = Len(s) + 1
OBVIOUS

LEMMA Popped ==
    ASSUME NEW S, NEW s \in Seq(S), s # <<>>
    PROVE  Head(s) \in S /\ Tail(s) \in Seq(S) /\ Len(Tail(s)) = Len(s) - 1 /\ Len(s) \in Nat \ {0}
OBVIOUS

LEMMA Orders ==
    /\ \A t \in {<<"esp">>, <<"esp", "stamp">>} :
        /\ <<"tree">> \o t \in Seq(Piece) /\ t \o <<"tree">> \in Seq(Piece)
        /\ <<"tree", "wipe">> \o t \in Seq(Piece) /\ <<"wipe">> \o t \o <<"tree">> \in Seq(Piece)
    /\ EspPieces \in {<<"esp">>, <<"esp", "stamp">>}
BY DEF Piece, EspPieces

-----------------------------------------------------------------------------
(* Types *)

LEMMA Stacked ==
    ASSUME TypeOK, Mounted
    PROVE  Top \in Mount /\ Tail(stack) \in Seq(Mount) /\ Len(Tail(stack)) = Len(stack) - 1
BY Popped DEF TypeOK, Mounted, Top

LEMMA PutTypes ==
    ASSUME TypeOK, NEW piece \in Piece, NEW v \in Value \cup {None, Mixed},
           piece = "stamp" => v # Mixed, Put(piece, v)
    PROVE  /\ content' \in [Image -> [esp : Value \cup {None, Mixed}, stamp : Value \cup {None},
                                      root : Value \cup {None, Mixed}, stray : BOOLEAN]]
           /\ bare' \in BOOLEAN
<1>1. CASE Direct(piece) \/ Mounted
  <2> DEFINE t == Target(piece)
             S == [esp : Value \cup {None, Mixed}, stamp : Value \cup {None},
                   root : Value \cup {None, Mixed}, stray : BOOLEAN]
  <2>1. content[t] \in S => With(content[t], piece, v) \in S
    BY DEF With, Piece
  <2>2. content' = [content EXCEPT ![t] = With(content[t], piece, v)] /\ bare' = bare
    BY <1>1 DEF Put
  <2>3. content \in [Image -> S] /\ bare \in BOOLEAN
    BY DEF TypeOK
  <2> HIDE DEF t, S
  <2> QED BY <2>1, <2>2, <2>3 DEF S
<1>2. CASE ~(Direct(piece) \/ Mounted)
  BY <1>2 DEF Put, TypeOK
<1> QED BY <1>1, <1>2

LEMMA CutTypes ==
    ASSUME TypeOK, CutShort
    PROVE  /\ content' \in [Image -> [esp : Value \cup {None, Mixed}, stamp : Value \cup {None},
                                      root : Value \cup {None, Mixed}, stray : BOOLEAN]]
           /\ bare' \in BOOLEAN
<1>1. CASE UNCHANGED <<content, bare>>
  BY <1>1 DEF TypeOK
<1>2. CASE /\ left # <<>> /\ Head(left) # "wipe"
           /\ Put(Head(left), IF Head(left) = "stamp" THEN None ELSE Mixed)
  <2>1. Head(left) \in Piece
    BY <1>2, Popped DEF TypeOK
  <2>2. None # Mixed
    BY ConstantsAssumption
  <2> QED BY <1>2, <2>1, <2>2, PutTypes
<1> QED BY <1>1, <1>2 DEF CutShort

\* The steps that move mounts.
LEMMA MountTypes ==
    ASSUME IInv, MountRoot \/ SpawnFuse2fs \/ MountEsp \/ UnmountEsp \/ UnmountRoot \/ UnmountFuse
                 \/ \E i \in Image : FuseMounts(i)
    PROVE  TypeOK'
<1> USE DEF Command, Step, host, local
<1>0. TypeOK
  BY DEF IInv
<1>1. CASE MountRoot
  <2>1. [image |-> args.image, method |-> args.method, esp |-> args.method = "guestfs"] \in Mount
    BY <1>0 DEF TypeOK, Mount
  <2>2. stack' \in Seq(Mount)
    BY <1>0, <1>1, <2>1, Pushed DEF MountRoot, TypeOK
  <2> QED BY <1>0, <1>1, <2>2 DEF MountRoot, TypeOK
<1>2. CASE SpawnFuse2fs
  BY <1>0, <1>2 DEF SpawnFuse2fs, TypeOK
<1>3. CASE MountEsp
  <2>1. Mounted
    BY <1>3 DEF IInv, MountEsp
  <2>2. [Top EXCEPT !.esp = TRUE] \in Mount /\ Tail(stack) \in Seq(Mount)
    BY <1>0, <2>1, Stacked DEF Mount
  <2>3. stack' \in Seq(Mount)
    BY <1>3, <2>2, Pushed DEF MountEsp
  <2> QED BY <1>0, <1>3, <2>3 DEF MountEsp, TypeOK
<1>4. CASE UnmountEsp
  <2>1. Mounted
    BY <1>4 DEF UnmountEsp, NoMount
  <2>2. [Top EXCEPT !.esp = FALSE] \in Mount /\ Tail(stack) \in Seq(Mount)
    BY <1>0, <2>1, Stacked DEF Mount
  <2>3. stack' \in Seq(Mount)
    BY <1>4, <2>2, Pushed DEF UnmountEsp
  <2> QED BY <1>0, <1>4, <2>3 DEF UnmountEsp, TypeOK
<1>5. CASE UnmountRoot
  <2>1. stack' \in Seq(Mount)
    BY <1>0, <1>5, Stacked DEF UnmountRoot
  <2> QED BY <1>0, <1>5, <2>1 DEF UnmountRoot, TypeOK
<1>6. CASE UnmountFuse
  <2>1. Mounted
    BY <1>6 DEF UnmountFuse, NoMount
  <2>2. stack' \in Seq(Mount) /\ Top.image \in Image
    BY <1>0, <1>6, <2>1, Stacked DEF UnmountFuse, Mount
  <2> QED BY <1>0, <1>6, <2>2 DEF UnmountFuse, TypeOK
<1>7. ASSUME NEW i \in Image, FuseMounts(i)
      PROVE  TypeOK'
  <2>1. [image |-> i, method |-> "fuse2fs", esp |-> FALSE] \in Mount
    BY <1>7 DEF IInv, FuseMounts, Mount
  <2>2. stack' \in Seq(Mount)
    BY <1>0, <1>7, <2>1, Pushed DEF FuseMounts, TypeOK
  <2> QED BY <1>0, <1>7, <2>2 DEF FuseMounts, TypeOK
<1> QED BY <1>1, <1>2, <1>3, <1>4, <1>5, <1>6, <1>7

\* The steps that write.
LEMMA WriteTypes ==
    ASSUME IInv, PlanFs \/ PlanRemake \/ WritePiece \/ Fail \/ Kill
    PROVE  TypeOK'
<1> USE DEF Command, host, local
<1>0. TypeOK
  BY DEF IInv
<1>1. CASE PlanFs
  <2>1. left' \in Seq(Piece)
    BY <1>1, Orders DEF PlanFs
  <2>2. config' \in Image
    <3>1. CASE ginfo # None
      BY <1>0, <1>1, <3>1 DEF PlanFs, TypeOK, Info
    <3>2. CASE ginfo = None
      <4>1. Mounted
        BY <1>1, <3>2 DEF PlanFs, NoDisk
      <4> QED BY <1>0, <1>1, <3>2, <4>1, Stacked DEF PlanFs, Mount
    <3> QED BY <3>1, <3>2
  <2> QED BY <1>0, <1>1, <2>1, <2>2 DEF PlanFs, TypeOK
<1>2. CASE PlanRemake
  <2>1. left' \in Seq(Piece)
    BY <1>2, Orders DEF PlanRemake
  <2> QED BY <1>0, <1>2, <2>1 DEF PlanRemake, TypeOK
<1>3. CASE WritePiece
  <2>1. Head(left) \in Piece /\ left' \in Seq(Piece)
    BY <1>0, <1>3, Popped DEF WritePiece, TypeOK
  <2>2. Current(config) \in Value /\ Current(config) # Mixed
    BY <1>0, <1>3, ConstantsAssumption DEF IInv, WriteOK, WritePiece, TypeOK, Current, Value
  <2>3. Put(Head(left), Current(config))
    BY <1>3 DEF WritePiece
  <2>4. /\ content' \in [Image -> [esp : Value \cup {None, Mixed}, stamp : Value \cup {None},
                                   root : Value \cup {None, Mixed}, stray : BOOLEAN]]
        /\ bare' \in BOOLEAN
    BY <1>0, <2>1, <2>2, <2>3, PutTypes
  <2> QED BY <1>0, <1>3, <2>1, <2>4 DEF WritePiece, TypeOK
<1>4. CASE Fail \/ Kill
  <2>1. CutShort \/ UNCHANGED <<content, bare>>
    BY <1>4 DEF Fail, Kill
  <2>2. /\ content' \in [Image -> [esp : Value \cup {None, Mixed}, stamp : Value \cup {None},
                                   root : Value \cup {None, Mixed}, stray : BOOLEAN]]
        /\ bare' \in BOOLEAN
    BY <1>0, <2>1, CutTypes DEF TypeOK
  <2>3. CASE Fail
    <3>1. plan' \in Seq(Action) /\ left' \in Seq(Piece)
      <4>1. plan # <<>>
        BY <2>3, ConstantsAssumption DEF Fail, IInv
      <4>2. Tail(plan) \in Seq(Action) /\ <<>> \in Seq(Piece)
        BY <1>0, <4>1, Popped DEF TypeOK
      <4> QED BY <2>3, <4>2 DEF Fail, EndAction
    <3>2. errors' \in BOOLEAN
      BY <1>0, <2>3 DEF Fail, EndAction, TypeOK
    <3> QED BY <1>0, <2>2, <2>3, <3>1, <3>2 DEF Fail, EndAction, TypeOK
  <2>4. CASE Kill
    <3>1. <<>> \in Seq(Action) /\ <<>> \in Seq(Piece)
      OBVIOUS
    <3> QED BY <1>0, <2>2, <2>4, <3>1 DEF Kill, Exit, TypeOK
  <2> QED BY <1>4, <2>3, <2>4
<1> QED BY <1>1, <1>2, <1>3, <1>4

\* The end of an action.
LEMMA EndTypes ==
    ASSUME IInv, NEW failed \in BOOLEAN, EndAction(failed), pc \in Command
    PROVE  /\ plan' \in Seq(Action) /\ left' \in Seq(Piece) /\ errors' \in BOOLEAN
           /\ pc' \in {"idle", "next"} \cup Command /\ UNCHANGED <<args, result>>
<1>1. Tail(plan) \in Seq(Action) /\ <<>> \in Seq(Piece)
  BY Popped DEF IInv, TypeOK
<1>2. errors' \in BOOLEAN
  BY DEF EndAction, IInv, TypeOK
<1> QED BY <1>1, <1>2 DEF EndAction

LEMMA EndStepTypes ==
    ASSUME IInv, AlreadyMounted \/ SeeExit \/ Record \/ NoDiskToUpdate \/ WritesDone
                 \/ NothingToUnmount \/ NoFuse2fsProcess \/ Forget
    PROVE  TypeOK'
<1>1. \E failed \in BOOLEAN : EndAction(failed) /\ pc \in Command
  BY DEF AlreadyMounted, SeeExit, Record, NoDiskToUpdate, WritesDone, NothingToUnmount,
         NoFuse2fsProcess, Forget, Command
<1>2. /\ plan' \in Seq(Action) /\ left' \in Seq(Piece) /\ errors' \in BOOLEAN
      /\ pc' \in {"idle", "next"} \cup Command /\ UNCHANGED <<args, result>>
  BY <1>1, EndTypes
<1>3. CASE Record \/ Forget
  <2>1. info' \in Info \cup {None} /\ ginfo' \in Info \cup {None}
    <3>1. [image |-> args.image, method |-> args.method] \in Info
      BY DEF IInv, TypeOK, Info
    <3> QED BY <1>3, <3>1 DEF Record, Forget
  <2> QED BY <1>2, <1>3, <2>1 DEF Record, Forget, IInv, TypeOK, host
<1>4. CASE Quiet
  BY <1>2, <1>4 DEF Quiet, IInv, TypeOK, host
<1> QED BY <1>3, <1>4 DEF AlreadyMounted, SeeExit, NoDiskToUpdate, WritesDone, NothingToUnmount,
                          NoFuse2fsProcess

LEMMA OtherTypes ==
    ASSUME IInv, \/ UNCHANGED vars \/ Begin \/ NextAction \/ Finish \/ DropStaleInfo \/ SeeMount \/ DetachLoop
                 \/ Rebuild \/ Reboot \/ \E i \in Image : Flushed(i) \/ FuseDies(i)
    PROVE  TypeOK'
<1> USE DEF Command, Step, host, local
<1>0. TypeOK
  BY DEF IInv
<1>1. CASE UNCHANGED vars
  BY <1>0, <1>1 DEF vars, TypeOK
<1>2. ASSUME NEW i \in Image, NEW m \in Method, NEW actions \in Plans, Start(i, m, actions)
      PROVE  TypeOK'
  <2>1. actions \in Seq(Action)
    BY ConstantsAssumption
  <2> QED BY <1>0, <1>2, <2>1 DEF Start, TypeOK
<1>3. CASE NextAction
  <2>1. Head(plan) \in Action
    BY <1>0, <1>3, Popped DEF NextAction, TypeOK
  <2> QED BY <1>0, <1>3, <2>1 DEF NextAction, TypeOK, Action
<1>4. CASE Finish
  <2>1. <<>> \in Seq(Action) /\ <<>> \in Seq(Piece)
    OBVIOUS
  <2> QED BY <1>0, <1>4, <2>1 DEF Finish, Exit, Status, TypeOK
<1>5. CASE DropStaleInfo \/ SeeMount \/ DetachLoop
  BY <1>0, <1>5 DEF DropStaleInfo, SeeMount, DetachLoop, Quiet, TypeOK
<1>6. CASE Rebuild
  BY <1>0, <1>6 DEF Rebuild, TypeOK
<1>7. CASE Reboot
  <2>1. <<>> \in Seq(Mount)
    OBVIOUS
  <2> QED BY <1>0, <1>7, <2>1 DEF Reboot, TypeOK
<1>8. ASSUME NEW i \in Image, Flushed(i) \/ FuseDies(i)
      PROVE  TypeOK'
  BY <1>0, <1>8 DEF Flushed, FuseDies, TypeOK
<1> QED BY <1>1, <1>2, <1>3, <1>4, <1>5, <1>6, <1>7, <1>8 DEF Begin

LEMMA TypeStep ==
    ASSUME IInv, [Next]_vars
    PROVE  TypeOK'
BY MountTypes, WriteTypes, EndStepTypes, OtherTypes
   DEF Next, Run, Mounting, Writing, Unmounting, Serve, Trouble

-----------------------------------------------------------------------------
(* The stamp *)

\* The orders in which files are written.
LEMMA OrdersFollow ==
    \A t \in {<<"esp">>, <<"esp", "stamp">>} :
        \A s \in {<<"tree">> \o t, t \o <<"tree">>, <<"tree", "wipe">> \o t, <<"wipe">> \o t \o <<"tree">>} :
            /\ Head(s) # "stamp"
            /\ \A i \in 2..Len(s) : s[i] = "stamp" => s[i - 1] = "esp"
<1> DEFINE e == <<"esp">>
           es == <<"esp", "stamp">>
           Good(s) == /\ Head(s) # "stamp"
                      /\ \A i \in 2..Len(s) : s[i] = "stamp" => s[i - 1] = "esp"
<1>1. Good(<<"tree">> \o e)
  OBVIOUS
<1>2. Good(e \o <<"tree">>)
  OBVIOUS
<1>3. Good(<<"tree", "wipe">> \o e)
  OBVIOUS
<1>4. Good(<<"wipe">> \o e \o <<"tree">>)
  OBVIOUS
<1>5. Good(<<"tree">> \o es)
  OBVIOUS
<1>6. Good(es \o <<"tree">>)
  OBVIOUS
<1>7. Good(<<"tree", "wipe">> \o es)
  OBVIOUS
<1>8. Good(<<"wipe">> \o es \o <<"tree">>)
  OBVIOUS
<1> QED BY <1>1, <1>2, <1>3, <1>4, <1>5, <1>6, <1>7, <1>8

LEMMA FollowTail ==
    ASSUME TypeOK, StampsFollow, left # <<>>
    PROVE  /\ \A i \in 2..Len(Tail(left)) : Tail(left)[i] = "stamp" => Tail(left)[i - 1] = "esp"
           /\ Tail(left) # <<>> /\ Head(Tail(left)) = "stamp" => Head(left) = "esp"
<1>1. left \in Seq(Piece)
  BY DEF TypeOK
<1>2. \A i \in 1..Len(Tail(left)) : Tail(left)[i] = left[i + 1] /\ i + 1 \in 2..Len(left)
  BY <1>1
<1>3. Tail(left) # <<>> => Head(Tail(left)) = left[2] /\ 2 \in 2..Len(left) /\ Head(left) = left[1]
  BY <1>1
<1>4. ASSUME NEW i \in 2..Len(Tail(left)), Tail(left)[i] = "stamp"
      PROVE  Tail(left)[i - 1] = "esp"
  <2>1. i \in 1..Len(Tail(left)) /\ i - 1 \in 1..Len(Tail(left)) /\ (i - 1) + 1 = i /\ (i + 1) - 1 = i
    BY <1>1
  <2>2. left[i + 1] = "stamp" /\ i + 1 \in 2..Len(left) /\ Tail(left)[i - 1] = left[i]
    BY <1>2, <1>4, <2>1
  <2> QED BY <2>1, <2>2 DEF StampsFollow
<1> QED BY <1>3, <1>4 DEF StampsFollow

\* The steps that lead to a write.
LEMMA Writers ==
    ASSUME IInv, [Next]_vars, pc' = "write"
    PROVE  \/ PlanFs \/ PlanRemake \/ WritePiece
           \/ pc = "write" /\ (UNCHANGED vars \/ Serve \/ \E i \in Image : FuseDies(i))
<1> USE DEF Step, EndAction, Exit, Action
<1>1. CASE NextAction
  <2>1. Head(plan) \in Action
    BY <1>1, Popped DEF NextAction, IInv, TypeOK
  <2> QED BY <1>1, <2>1 DEF NextAction
<1>2. ~(Begin \/ Finish \/ Mounting \/ Unmounting \/ Fail \/ Kill \/ Reboot \/ Rebuild \/ WritesDone \/ NoDiskToUpdate)
  BY DEF Begin, Start, Finish, Mounting, AlreadyMounted, DropStaleInfo, MountRoot, SpawnFuse2fs,
         SeeMount, SeeExit, MountEsp, Record, Unmounting, UnmountEsp, DetachLoop, UnmountRoot,
         UnmountFuse, NothingToUnmount, NoFuse2fsProcess, Forget, Fail, Kill, Reboot, Rebuild,
         WritesDone, NoDiskToUpdate
<1> QED BY <1>1, <1>2 DEF Next, Run, Writing, Trouble, Serve, FuseMounts, Flushed, FuseDies, vars

LEMMA WriteStep ==
    ASSUME IInv, TypeOK', [Next]_vars
    PROVE  WriteOK'
<1> SUFFICES ASSUME pc' = "write" PROVE (config \in Image /\ StampsFollow /\ EspWritten)'
  BY DEF WriteOK
<1>1. \/ PlanFs \/ PlanRemake \/ WritePiece
      \/ pc = "write" /\ (UNCHANGED vars \/ Serve \/ \E i \in Image : FuseDies(i))
  BY Writers
<1>2. CASE PlanFs
  <2>1. /\ left' \in {<<"tree">> \o EspPieces, EspPieces \o <<"tree">>}
        /\ config' # None
    BY <1>2, ConstantsAssumption, Stacked DEF PlanFs, NoDisk, IInv, TypeOK, Info, Mount
  <2>2. StampsFollow' /\ Head(left') # "stamp"
    BY <2>1, Orders, OrdersFollow DEF StampsFollow
  <2> QED BY <2>1, <2>2 DEF TypeOK, EspWritten
<1>3. CASE PlanRemake
  <2>1. left' \in {<<"tree", "wipe">> \o EspPieces, <<"wipe">> \o EspPieces \o <<"tree">>}
    BY <1>3 DEF PlanRemake
  <2>2. StampsFollow' /\ Head(left') # "stamp"
    BY <2>1, Orders, OrdersFollow DEF StampsFollow
  <2> QED BY <1>3, <2>2 DEF PlanRemake, EspWritten, IInv, TypeOK
<1>4. CASE WritePiece
  <2>1. /\ config' = config /\ config \in Image /\ left # <<>> /\ left' = Tail(left) /\ StampsFollow
        /\ sysroot' = sysroot /\ stack' = stack /\ plan' = plan /\ args' = args /\ ginfo' = ginfo
        /\ Put(Head(left), Current(config))
    BY <1>4 DEF WritePiece, IInv, WriteOK, local
  <2>2. StampsFollow' /\ (left' # <<>> /\ Head(left') = "stamp" => Head(left) = "esp")
    BY <2>1, FollowTail DEF IInv, StampsFollow
  <2>3. ASSUME Head(left) = "esp", Direct("stamp") \/ (Mounted /\ Top.esp)
        PROVE  content'[Target("stamp")].esp = Current(config)
    <3>1. /\ Direct("esp") = Direct("stamp") /\ Target("esp") = Target("stamp")
          /\ Direct("esp") \/ Mounted
      BY <2>3 DEF Direct, Target
    <3>2. Target("esp") \in Image
      BY <3>1, Stacked, ConstantsAssumption DEF Target, Direct, Via, IInv, TypeOK, Info, Mount
    <3>3. content' = [content EXCEPT ![Target("esp")] = With(@, "esp", Current(config))]
      BY <2>1, <2>3, <3>1 DEF Put
    <3>4. With(content[Target("esp")], "esp", Current(config))
            = [content[Target("esp")] EXCEPT !.esp = Current(config)]
      BY <2>3, <3>1 DEF With
    <3> QED BY <3>1, <3>2, <3>3, <3>4 DEF IInv, TypeOK
  <2>4. EspWritten'
    BY <2>1, <2>2, <2>3 DEF EspWritten, Direct, Target, Mounted, Top, Current, Remaking, Via
  <2> QED BY <2>1, <2>2, <2>4
<1>5. CASE pc = "write" /\ (UNCHANGED vars \/ Serve \/ \E i \in Image : FuseDies(i))
  <2>1. /\ config' = config /\ left' = left /\ content' = content /\ sysroot' = sysroot
        /\ plan' = plan /\ args' = args /\ ginfo' = ginfo
        /\ config \in Image /\ StampsFollow /\ EspWritten
    BY <1>5 DEF vars, Serve, FuseMounts, Flushed, FuseDies, local, IInv, WriteOK
  <2>2. stack' = stack \/ (Mounted' /\ ~Top'.esp)
    <3>1. CASE stack' = stack
      BY <3>1
    <3>2. ASSUME NEW i \in Image, FuseMounts(i)
          PROVE  Mounted' /\ ~Top'.esp
      <4> DEFINE m == [image |-> i, method |-> "fuse2fs", esp |-> FALSE]
      <4>1. stack' = <<m>> \o stack /\ stack \in Seq(Mount) /\ m \in Mount
        BY <3>2 DEF FuseMounts, IInv, TypeOK, Mount
      <4>2. stack' # <<>> /\ Head(stack') = m
        BY <4>1, Pushed
      <4> QED BY <4>2 DEF Mounted, Top
    <3> QED BY <1>5, <3>1, <3>2 DEF vars, Serve, Flushed, FuseDies
  <2>3. EspWritten'
    BY <2>1, <2>2 DEF EspWritten, Direct, Target, Mounted, Top, Current, Remaking, Via
  <2> QED BY <2>1, <2>3 DEF StampsFollow
<1> QED BY <1>1, <1>2, <1>3, <1>4, <1>5

\* A step other than NextAction keeps the plan, or ends an action or the process.
LEMMA PlanStep ==
    ASSUME IInv, [Next]_vars
    PROVE  pc' \in Command => plan' # <<>>
<1> USE DEF IInv, Step, EndAction, Exit, Command
<1>1. CASE UNCHANGED vars \/ Begin \/ NextAction \/ Finish \/ Serve \/ Rebuild \/ Trouble
  BY <1>1, ConstantsAssumption
     DEF vars, Begin, Start, NextAction, Finish, Serve, FuseMounts, Flushed, Rebuild, Trouble, Fail, Kill,
         Reboot, FuseDies
<1>2. CASE Mounting
  BY <1>2 DEF Mounting, AlreadyMounted, DropStaleInfo, MountRoot, SpawnFuse2fs, SeeMount, SeeExit,
              MountEsp, Record
<1>3. CASE Writing
  BY <1>3 DEF Writing, PlanFs, NoDiskToUpdate, PlanRemake, WritePiece, WritesDone
<1>4. CASE Unmounting
  BY <1>4 DEF Unmounting, UnmountEsp, DetachLoop, UnmountRoot, UnmountFuse, NothingToUnmount,
              NoFuse2fsProcess, Forget
<1> QED BY <1>1, <1>2, <1>3, <1>4 DEF Next, Run

\* Only MountRoot leads to the step that mounts the ESP.
LEMMA EspStep ==
    ASSUME IInv, [Next]_vars, pc' = "esp"
    PROVE  Mounted'
<1> USE DEF Step, EndAction, Exit, Action
<1>1. MountRoot \/ (pc = "esp" /\ (UNCHANGED vars \/ Serve \/ \E i \in Image : FuseDies(i)))
  <2>1. CASE NextAction
    <3>1. Head(plan) \in Action
      BY <2>1, Popped DEF NextAction, IInv, TypeOK
    <3> QED BY <2>1, <3>1 DEF NextAction
  <2>2. ~(Begin \/ Finish \/ Writing \/ Unmounting \/ Fail \/ Kill \/ Reboot \/ Rebuild)
    BY DEF Begin, Start, Finish, Writing, PlanFs, NoDiskToUpdate, PlanRemake, WritePiece, WritesDone,
           Unmounting, UnmountEsp, DetachLoop, UnmountRoot, UnmountFuse, NothingToUnmount,
           NoFuse2fsProcess, Forget, Fail, Kill, Reboot, Rebuild
  <2>3. Mounting => MountRoot
    BY DEF Mounting, AlreadyMounted, DropStaleInfo, SpawnFuse2fs, SeeMount, SeeExit, MountEsp, Record
  <2> QED BY <2>1, <2>2, <2>3 DEF Next, Run, Trouble, Serve, FuseMounts, Flushed, FuseDies, vars
<1>2. CASE MountRoot
  <2>1. [image |-> args.image, method |-> args.method, esp |-> args.method = "guestfs"] \in Mount
    BY DEF IInv, TypeOK, Mount
  <2> QED BY <1>2, <2>1, Pushed DEF MountRoot, IInv, TypeOK, Mounted
<1>3. CASE pc = "esp" /\ (UNCHANGED vars \/ Serve \/ \E i \in Image : FuseDies(i))
  <2>1. Mounted
    BY <1>3 DEF IInv
  <2>2. CASE stack' = stack
    BY <2>1, <2>2 DEF Mounted
  <2>3. ASSUME NEW i \in Image, FuseMounts(i)
        PROVE  Mounted'
    <3>1. [image |-> i, method |-> "fuse2fs", esp |-> FALSE] \in Mount
      BY <2>3 DEF IInv, FuseMounts, Mount
    <3> QED BY <2>3, <3>1, Pushed DEF FuseMounts, IInv, TypeOK, Mounted
  <2> QED BY <1>3, <2>2, <2>3 DEF vars, Serve, Flushed, FuseDies
<1> QED BY <1>1, <1>2, <1>3

\* fuse2fs is started only if it is asked for.
LEMMA FuseStep ==
    ASSUME IInv, [Next]_vars, starting' # {}
    PROVE  "fuse2fs" \in Method
<1>1. CASE starting # {}
  BY <1>1 DEF IInv
<1>2. CASE starting = {}
  <2>1. SpawnFuse2fs
    BY <1>2 DEF Next, Begin, Start, Run, NextAction, Finish, Mounting, AlreadyMounted, DropStaleInfo,
        MountRoot, SeeMount, SeeExit, MountEsp, Record, Writing, PlanFs, NoDiskToUpdate,
        PlanRemake, WritePiece, WritesDone, Unmounting, UnmountEsp, DetachLoop, UnmountRoot,
        UnmountFuse, NothingToUnmount, NoFuse2fsProcess, Forget, Serve, FuseMounts, Flushed,
        Rebuild, Trouble, Fail, Kill, Reboot, FuseDies, Quiet, host, vars
  <2> QED BY <2>1 DEF SpawnFuse2fs, IInv, TypeOK
<1> QED BY <1>1, <1>2

-----------------------------------------------------------------------------
THEOREM InitInv == Init => IInv
<1> SUFFICES ASSUME Init PROVE IInv
  OBVIOUS
<1>1. content \in [Image -> [esp : Value \cup {None, Mixed}, stamp : Value \cup {None},
                             root : Value \cup {None, Mixed}, stray : BOOLEAN]]
  BY DEF Init
<1>2. <<>> \in Seq(Mount) /\ <<>> \in Seq(Action) /\ <<>> \in Seq(Piece)
  OBVIOUS
<1>3. args \in [image : Image, method : Method, plan : Plans \cup {<<>>}]
  BY DEF Init
<1>4. TypeOK
  BY <1>1, <1>2, <1>3 DEF Init, TypeOK
<1> QED BY <1>4 DEF Init, IInv, WriteOK, Command

THEOREM NextInv == IInv /\ [Next]_vars => IInv'
BY TypeStep, WriteStep, PlanStep, EspStep, FuseStep DEF IInv

THEOREM Invariant == Spec => []IInv
BY InitInv, NextInv, PTL DEF Spec

\* Every variable keeps its type.
THEOREM TypeCorrect == Spec => []TypeOK
<1>1. IInv => TypeOK
  BY DEF IInv
<1> QED BY <1>1, Invariant, PTL

\* What a write makes of an image.
LEMMA PutStamps ==
    ASSUME TypeOK, NEW piece \in Piece, NEW v, Put(piece, v), NEW i \in Image,
           content'[i].stamp # None, content'[i].stamp # content[i].stamp
    PROVE  /\ piece = "stamp" /\ i = Target("stamp") /\ (Direct("stamp") \/ (Mounted /\ Top.esp))
           /\ content'[i].stamp = v /\ content'[i].esp = content[i].esp
<1>1. Direct(piece) \/ Mounted
  BY DEF Put
<1>2. content' = [content EXCEPT ![Target(piece)] = With(@, piece, v)]
  BY <1>1 DEF Put
<1>3. i = Target(piece) /\ content'[i] = With(content[i], piece, v)
  BY <1>2 DEF TypeOK
<1>4. piece = "stamp" /\ (Direct(piece) \/ Top.esp) /\ content'[i] = [content[i] EXCEPT !.stamp = v]
  BY <1>3 DEF With, Piece, TypeOK
<1> QED BY <1>1, <1>3, <1>4 DEF TypeOK

\* A stamp appears on an ESP only when the ESP is what the stamp says, whatever fails or
\* is killed between the two (plan_esp_tree).
THEOREM StampsGoLast == Spec => StampGoesLast
<1> DEFINE A == \A i \in Image :
        content'[i].stamp \notin {None, content[i].stamp} => content'[i].esp = content'[i].stamp
<1>1. IInv /\ [Next]_vars => [A]_vars
  <2> SUFFICES ASSUME IInv, Next, NEW i \in Image,
                      content'[i].stamp # None, content'[i].stamp # content[i].stamp
               PROVE  content'[i].esp = content'[i].stamp
    OBVIOUS
  <2>1. CASE WritePiece
    <3>1. left # <<>> /\ Head(left) \in Piece /\ Put(Head(left), Current(config)) /\ TypeOK /\ EspWritten
      BY <2>1, Popped DEF WritePiece, IInv, WriteOK, TypeOK
    <3>2. /\ Head(left) = "stamp" /\ i = Target("stamp") /\ (Direct("stamp") \/ (Mounted /\ Top.esp))
          /\ content'[i].stamp = Current(config) /\ content'[i].esp = content[i].esp
      BY <3>1, PutStamps
    <3> QED BY <3>1, <3>2 DEF EspWritten
  <2>2. CASE Fail \/ Kill
    <3>1. left # <<>> /\ Put(Head(left), IF Head(left) = "stamp" THEN None ELSE Mixed)
      BY <2>2 DEF Fail, Kill, CutShort
    <3>2. Head(left) \in Piece /\ TypeOK
      BY <3>1, Popped DEF IInv, TypeOK
    <3>3. Head(left) = "stamp" /\ content'[i].stamp = IF Head(left) = "stamp" THEN None ELSE Mixed
      BY <3>1, <3>2, PutStamps
    <3> QED BY <3>3
  <2>3. CASE content' = content
    BY <2>3
  <2>4. WritePiece \/ Fail \/ Kill \/ content' = content
    BY DEF Next, Begin, Start, Run, NextAction, Finish, Mounting, AlreadyMounted, DropStaleInfo,
        MountRoot, SpawnFuse2fs, SeeMount, SeeExit, MountEsp, Record, Writing, PlanFs, NoDiskToUpdate,
        PlanRemake, WritesDone, Unmounting, UnmountEsp, DetachLoop, UnmountRoot,
        UnmountFuse, NothingToUnmount, NoFuse2fsProcess, Forget, Serve, FuseMounts, Flushed,
        Rebuild, Trouble, Reboot, FuseDies, Quiet
  <2> QED BY <2>1, <2>2, <2>3, <2>4
<1> QED BY <1>1, Invariant, PTL DEF Spec, StampGoesLast

-----------------------------------------------------------------------------
(* Each image boots its own root *)

LEMMA NextPc ==
    ASSUME IInv, NextAction
    PROVE  pc = "next" /\ pc' = Head(plan) /\ pc' \in Action /\ plan' = plan
BY Popped DEF NextAction, IInv, TypeOK

\* The mounts and the mount info.
LEMMA MountStep ==
    ASSUME Recorded, IInv, IInv', [Next]_vars, MountOK
    PROVE  MountOK'
<1> USE DEF MountOK, Step, EndAction, Exit, host, local, Mounted, Top
<1>0. TypeOK /\ TypeOK'
  BY DEF IInv
<1>1. CASE UNCHANGED vars \/ Begin \/ Finish
  BY <1>1 DEF vars, Begin, Start, Finish
<1>2. CASE NextAction
  BY <1>2, NextPc DEF NextAction, Action
<1>3. CASE AlreadyMounted \/ SeeMount \/ SeeExit \/ Record
  <2>1. CASE AlreadyMounted
    BY <2>1 DEF AlreadyMounted, Quiet
  <2>2. CASE SeeMount
    BY <2>2 DEF SeeMount
  <2>3. CASE SeeExit
    BY <2>3 DEF SeeExit, Quiet
  <2>4. CASE Record
    BY <2>4, ConstantsAssumption, <1>0 DEF Record, TypeOK, Info
  <2> QED BY <1>3, <2>1, <2>2, <2>3, <2>4
<1>4. CASE DropStaleInfo
  BY <1>4 DEF DropStaleInfo, Valid
<1>5. CASE MountRoot
  <2> DEFINE m == [image |-> args.image, method |-> args.method, esp |-> args.method = "guestfs"]
  <2>1. m \in Mount /\ stack \in Seq(Mount) /\ stack = <<>> /\ stack' = <<m>> \o stack
    BY <1>0, <1>5 DEF MountRoot, TypeOK, Mount
  <2>2. stack' # <<>> /\ Head(stack') = m /\ Len(stack') = 1
    BY <2>1, Pushed
  <2> QED BY <1>5, <2>2 DEF MountRoot
<1>6. CASE SpawnFuse2fs
  BY <1>6 DEF SpawnFuse2fs
<1>7. CASE MountEsp \/ UnmountEsp
  <2>1. stack # <<>> /\ pc \in {"esp", "unmount"}
    BY <1>7 DEF MountEsp, UnmountEsp, NoMount
  <2>2. PICK m \in Mount : stack' = <<m>> \o Tail(stack) /\ m.image = Head(stack).image
    <3>1. Head(stack) \in Mount
      BY <1>0, <2>1, Popped DEF TypeOK
    <3>2. \A b \in BOOLEAN : /\ [Head(stack) EXCEPT !.esp = b] \in Mount
                             /\ [Head(stack) EXCEPT !.esp = b].image = Head(stack).image
      BY <3>1 DEF Mount
    <3> QED BY <1>7, <3>2 DEF MountEsp, UnmountEsp
  <2>3. Tail(stack) \in Seq(Mount) /\ Len(Tail(stack)) = 0
    BY <1>0, <2>1, Popped DEF TypeOK
  <2>4. stack' # <<>> /\ Head(stack') = m /\ Len(stack') = 1
    BY <2>2, <2>3, Pushed
  <2> QED BY <1>7, <2>1, <2>2, <2>4 DEF MountEsp, UnmountEsp
<1>8. CASE Writing
  BY <1>8 DEF Writing, PlanFs, NoDiskToUpdate, PlanRemake, WritePiece, WritesDone, Quiet
<1>9. CASE UnmountRoot \/ UnmountFuse
  <2>1. stack # <<>> /\ stack' = Tail(stack) /\ Len(stack) = 1
    BY <1>9 DEF UnmountRoot, UnmountFuse, NoMount
  <2>2. stack' = <<>>
    BY <1>0, <2>1 DEF TypeOK
  <2> QED BY <1>9, <2>2 DEF UnmountRoot, UnmountFuse
<1>10. CASE DetachLoop \/ NothingToUnmount \/ NoFuse2fsProcess \/ Forget
  BY <1>10 DEF DetachLoop, NothingToUnmount, NoFuse2fsProcess, Forget, Quiet
<1>11. ASSUME NEW i \in Image, FuseMounts(i)
       PROVE  MountOK'
  <2> DEFINE m == [image |-> i, method |-> "fuse2fs", esp |-> FALSE]
  <2>1. /\ pc = "mounting" /\ starting' = {} /\ i = args.image /\ stack = <<>>
        /\ m \in Mount /\ stack \in Seq(Mount) /\ stack' = <<m>> \o stack
    BY <1>0, <1>11 DEF FuseMounts, IInv, Mount, TypeOK
  <2>2. stack' # <<>> /\ Head(stack') = m /\ Len(stack') = 1
    BY <2>1, Pushed
  <2> QED BY <1>11, <2>1, <2>2 DEF FuseMounts
<1>12. ASSUME NEW i \in Image, Flushed(i) \/ FuseDies(i)
       PROVE  MountOK'
  BY <1>12 DEF Flushed, FuseDies
<1>13. CASE Rebuild \/ Reboot
  BY <1>13 DEF Rebuild, Reboot
<1>14. CASE Fail \/ Kill
  BY <1>14, ConstantsAssumption DEF Fail, Kill, Recorded, Command
<1> QED BY <1>1, <1>2, <1>3, <1>4, <1>5, <1>6, <1>7, <1>8, <1>9, <1>10, <1>11, <1>12, <1>13, <1>14
        DEF Next, Run, Mounting, Unmounting, Serve, Trouble

\* partitions.toml speaks of the image that is written to.
LEMMA ConfigStep ==
    ASSUME IInv, [Next]_vars, MountOK, PlanOK
    PROVE  PlanOK'
<1> USE DEF PlanOK, Step, EndAction, Exit, local, Remaking
<1>1. CASE UNCHANGED vars \/ Begin \/ Finish \/ Serve \/ Rebuild
  BY <1>1 DEF vars, Begin, Start, Finish, Serve, FuseMounts, Flushed, Rebuild
<1>2. CASE Trouble
  BY <1>2 DEF Trouble, Fail, Kill, Reboot, FuseDies
<1>3. CASE NextAction
  BY <1>3, NextPc DEF Action
<1>4. CASE Mounting
  BY <1>4 DEF Mounting, AlreadyMounted, DropStaleInfo, MountRoot, SpawnFuse2fs, SeeMount, SeeExit,
              MountEsp, Record
<1>5. CASE PlanFs
  <2>1. ginfo # None
    BY <1>5 DEF PlanFs, NoDisk, MountOK
  <2> QED BY <1>5, <2>1 DEF PlanFs
<1>6. CASE NoDiskToUpdate \/ PlanRemake \/ WritePiece \/ WritesDone
  BY <1>6 DEF NoDiskToUpdate, PlanRemake, WritePiece, WritesDone
<1>7. CASE Unmounting
  BY <1>7 DEF Unmounting, UnmountEsp, DetachLoop, UnmountRoot, UnmountFuse, NothingToUnmount,
              NoFuse2fsProcess, Forget
<1> QED BY <1>1, <1>2, <1>3, <1>4, <1>5, <1>6, <1>7 DEF Next, Run, Writing

\* What is written goes to that image.
LEMMA PutRoots ==
    ASSUME TypeOK, MountOK, PlanOK, pc = "write", NEW piece \in Piece, NEW w, Put(piece, w),
           NEW i \in Image, NEW v \in {content'[i].esp, content'[i].root} \cap Value
    PROVE  v \in {content[i].esp, content[i].root} \/ (v = w /\ i = config) \/ v = None
<1>1. CASE Direct(piece) \/ Mounted
  <2>1. content' = [content EXCEPT ![Target(piece)] = With(@, piece, w)]
    BY <1>1 DEF Put
  <2>2. Target(piece) = config
    BY <1>1 DEF Target, Direct, PlanOK, MountOK
  <2>3. i # config => content'[i] = content[i]
    BY <2>1, <2>2 DEF TypeOK
  <2>4. i = config => content'[i] = With(content[i], piece, w)
    BY <2>1, <2>2 DEF TypeOK
  <2>5. CASE i # config
    BY <2>3, <2>5
  <2>6. CASE i = config
    <3>1. content[i] \in [esp : Value \cup {None, Mixed}, stamp : Value \cup {None},
                          root : Value \cup {None, Mixed}, stray : BOOLEAN]
      BY DEF TypeOK
    <3>2. \/ content'[i] = [content[i] EXCEPT !.esp = None, !.stamp = None]
          \/ content'[i] = [content[i] EXCEPT !.root = w]
          \/ content'[i] = [content[i] EXCEPT !.stray = TRUE]
          \/ content'[i] = [content[i] EXCEPT !.esp = w]
          \/ content'[i] = [content[i] EXCEPT !.stamp = w]
      <4>1. CASE piece = "wipe"
        BY <2>4, <2>6, <4>1 DEF With
      <4>2. CASE piece = "tree"
        BY <2>4, <2>6, <4>2 DEF With
      <4>3. CASE piece \in {"esp", "stamp"}
        BY <2>4, <2>6, <4>3 DEF With
      <4> QED BY <4>1, <4>2, <4>3 DEF Piece
    <3> QED BY <2>6, <3>1, <3>2
  <2> QED BY <2>5, <2>6
<1>2. CASE ~(Direct(piece) \/ Mounted)
  BY <1>2 DEF Put
<1> QED BY <1>1, <1>2

LEMMA RootStep ==
    ASSUME IInv, [Next]_vars, MountOK, PlanOK, BootsItsOwnRoot
    PROVE  BootsItsOwnRoot'
<1> SUFFICES ASSUME NEW i \in Image, NEW v \in {content'[i].esp, content'[i].root} \cap Value
             PROVE  v.disk = i
  BY DEF BootsItsOwnRoot
<1>0. TypeOK /\ None \notin Value /\ Mixed \notin Value
  BY ConstantsAssumption DEF IInv
<1>1. CASE content' = content
  BY <1>1 DEF BootsItsOwnRoot
<1>2. ASSUME pc = "write", left # <<>>, NEW w \in {Current(config), None, Mixed}, Put(Head(left), w)
      PROVE  v.disk = i
  <2>1. Head(left) \in Piece
    BY <1>0, <1>2, Popped DEF TypeOK
  <2>2. v \in {content[i].esp, content[i].root} \/ (v = w /\ i = config)
    BY <1>0, <1>2, <2>1, PutRoots
  <2> QED BY <1>0, <1>2, <2>2 DEF BootsItsOwnRoot, Current
<1>3. WritePiece \/ Fail \/ Kill \/ content' = content
  BY DEF Next, Begin, Start, Run, NextAction, Finish, Mounting, AlreadyMounted, DropStaleInfo,
      MountRoot, SpawnFuse2fs, SeeMount, SeeExit, MountEsp, Record, Writing, PlanFs, NoDiskToUpdate,
      PlanRemake, WritesDone, Unmounting, UnmountEsp, DetachLoop, UnmountRoot,
      UnmountFuse, NothingToUnmount, NoFuse2fsProcess, Forget, Serve, FuseMounts, Flushed,
      Rebuild, Trouble, Reboot, FuseDies, Quiet, vars
<1>4. CASE WritePiece
  BY <1>2, <1>4 DEF WritePiece
<1>5. CASE Fail \/ Kill
  BY <1>1, <1>2, <1>5 DEF Fail, Kill, CutShort
<1> QED BY <1>1, <1>3, <1>4, <1>5

\* What is written to an image speaks of that image's own partitions, although all images
\* are made from one sysroot, as long as no mount is left behind unrecorded: the process
\* is not killed between mount and the write of the mount info, and the mount of the ESP
\* and that write do not fail (mount_action, update_fs_action).
THEOREM RootsAreOwn ==
    ASSUME Recorded
    PROVE  Spec => []BootsItsOwnRoot
<1>1. Init => OwnInv
  <2> SUFFICES ASSUME Init PROVE OwnInv
    OBVIOUS
  <2>1. MountOK /\ PlanOK
    BY DEF Init, MountOK, PlanOK, Mounted
  <2>2. BootsItsOwnRoot
    BY ConstantsAssumption DEF Init, BootsItsOwnRoot
  <2> QED BY <2>1, <2>2, InitInv DEF OwnInv
<1>2. OwnInv /\ [Next]_vars => OwnInv'
  BY NextInv, MountStep, ConfigStep, RootStep DEF OwnInv
<1>3. OwnInv => BootsItsOwnRoot
  BY DEF OwnInv
<1> QED BY <1>1, <1>2, <1>3, PTL DEF Spec

-----------------------------------------------------------------------------
(* A run that succeeds populates its image *)

\* There is one image, so that what an earlier run has left mounted is the image of this
\* run.
OneImageOnly == \A i, j \in Image : i = j

\* guestmount brings the ESP along with the root, and is left by guestunmount only.
MethodOK ==
    /\ pc = "mounting" => args.method = "fuse2fs"
    /\ pc \in {"detach", "root", "wait"} => ginfo # None
    /\ pc = "record" /\ args.method = "guestfs" => Top.esp
    /\ Mounted /\ info # None /\ info.method = "guestfs" => Top.esp

\* An earlier run has unmounted the ESP, but not the root.
EspGone == Mounted /\ Via(Elevated) /\ ~Top.esp

\* The pieces of an image, and those that are among s.
Wanted == IF sysroot \in Legacy THEN {"tree", "esp"} ELSE {"tree", "esp", "stamp"}
Among(s) == {s[k] : k \in 1..Len(s)}

\* The file system is made before the pieces in W.
WipesBefore(s, W) ==
    \A k \in 1..Len(s) : s[k] = "wipe" => \A piece \in W : \E j \in k+1..Len(s) : s[j] = piece

Has(c, piece, v) == v = CASE piece = "tree" -> c.root
                          [] piece = "esp" -> c.esp
                          [] OTHER -> c.stamp
Written(piece) == Has(content[args.image], piece, Current(args.image))

\* What is not left was written, except that files for an ESP that is gone went astray.
PiecesOK ==
    pc = "write" =>
        /\ WipesBefore(left, Wanted \ {"tree"})
        /\ Remaking \/ Mounted =>
              \A piece \in Wanted \ Among(left) :
                  Written(piece) \/ (piece # "tree" /\ ~Remaking /\ EspGone)

\* How far an errorless run of the default plan and of remake has come.
Ready == Populated(args.image)
DefaultOK ==
    args.plan = Default /\ pc # "idle" /\ ~errors =>
        \/ plan = Default /\ pc \in {"next", "mount", "attach", "mounting", "esp", "record"}
        \/ plan = <<"update-fs", "unmount">> /\ pc \in {"next", "update-fs", "write"} /\ Mounted
        \/ plan = <<"unmount">> /\ pc \in {"next", "unmount"} /\ (EspGone \/ Ready)
        \/ plan = <<"unmount">> /\ pc \in {"detach", "root", "wait"} /\ Ready
        \/ plan = <<>> /\ pc = "next" /\ Ready /\ args.image \notin flushing
RemakeOK ==
    args.plan = <<"remake">> /\ pc # "idle" /\ ~errors =>
        \/ plan = <<"remake">> /\ pc \in {"next", "remake", "write"}
        \/ plan = <<>> /\ pc = "next" /\ Ready

ResultOK == (pc # "idle" => result = "none") /\ SuccessMeansPopulated

SuccessInv == /\ IInv /\ MountOK /\ PlanOK
              /\ MethodOK /\ PiecesOK /\ DefaultOK /\ RemakeOK /\ ResultOK

LEMMA AmongTail ==
    ASSUME NEW s \in Seq(Piece), s # <<>>, NEW W, WipesBefore(s, W)
    PROVE  /\ Among(s) = {Head(s)} \cup Among(Tail(s))
           /\ WipesBefore(Tail(s), W)
           /\ Head(s) = "wipe" => W \subseteq Among(Tail(s))
<1> DEFINE t == Tail(s)
<1>1. t \in Seq(Piece) /\ Len(s) \in Nat \ {0} /\ Len(t) = Len(s) - 1 /\ Head(s) = s[1]
  OBVIOUS
<1>2. \A k \in 1..Len(t) : t[k] = s[k + 1] /\ k + 1 \in 2..Len(s)
  OBVIOUS
<1>3. \A k \in 2..Len(s) : s[k] = t[k - 1] /\ k - 1 \in 1..Len(t)
  <2> SUFFICES ASSUME NEW k \in 2..Len(s) PROVE s[k] = t[k - 1] /\ k - 1 \in 1..Len(t)
    OBVIOUS
  <2>1. k - 1 \in 1..Len(t) /\ (k - 1) + 1 = k
    BY <1>1
  <2> QED BY <1>2, <2>1
<1> HIDE DEF t
<1>4. Among(s) = {Head(s)} \cup Among(t)
  <2>1. ASSUME NEW x \in Among(s) PROVE x \in {Head(s)} \cup Among(t)
    <3>1. PICK k \in 1..Len(s) : x = s[k]
      BY <2>1 DEF Among
    <3>2. k = 1 \/ k \in 2..Len(s)
      BY <1>1
    <3> QED BY <1>1, <1>3, <3>1, <3>2 DEF Among
  <2>2. ASSUME NEW x \in Among(t) PROVE x \in Among(s)
    <3>1. PICK k \in 1..Len(t) : x = t[k]
      BY <2>2 DEF Among
    <3>2. k + 1 \in 1..Len(s)
      BY <1>1, <1>2
    <3> QED BY <1>2, <3>1, <3>2 DEF Among
  <2>3. Head(s) \in Among(s)
    <3>1. 1 \in 1..Len(s)
      BY <1>1
    <3> QED BY <1>1, <3>1 DEF Among
  <2> QED BY <2>1, <2>2, <2>3
<1>5. ASSUME NEW k \in 1..Len(s), s[k] = "wipe", NEW piece \in W
      PROVE  \E j \in 1..Len(t) : t[j] = piece /\ j >= k
  <2>1. PICK j \in k+1..Len(s) : s[j] = piece
    BY <1>5 DEF WipesBefore
  <2>2. j \in 2..Len(s) /\ j - 1 >= k
    BY <1>1
  <2> QED BY <1>3, <2>1, <2>2
<1>6. WipesBefore(t, W)
  <2> SUFFICES ASSUME NEW k \in 1..Len(t), t[k] = "wipe", NEW piece \in W
               PROVE  \E j \in k+1..Len(t) : t[j] = piece
    BY DEF WipesBefore
  <2>1. k + 1 \in 1..Len(s) /\ s[k + 1] = "wipe"
    BY <1>1, <1>2
  <2>2. PICK j \in 1..Len(t) : t[j] = piece /\ j >= k + 1
    BY <1>5, <2>1
  <2>3. j \in k+1..Len(t)
    BY <1>1, <2>2
  <2> QED BY <2>2, <2>3
<1>7. Head(s) = "wipe" => W \subseteq Among(t)
  <2> SUFFICES ASSUME Head(s) = "wipe", NEW piece \in W PROVE piece \in Among(t)
    OBVIOUS
  <2>1. 1 \in 1..Len(s) /\ s[1] = "wipe"
    BY <1>1
  <2>2. PICK j \in 1..Len(t) : t[j] = piece
    BY <1>5, <2>1
  <2> QED BY <2>2 DEF Among
<1> QED BY <1>4, <1>6, <1>7 DEF t

\* The orders in which files are written have all the pieces, and wipe first.
LEMMA OrdersComplete ==
    \A s \in {<<"tree">> \o EspPieces, EspPieces \o <<"tree">>,
              <<"tree", "wipe">> \o EspPieces, <<"wipe">> \o EspPieces \o <<"tree">>} :
        Wanted \subseteq Among(s) /\ WipesBefore(s, Wanted \ {"tree"})
<1> DEFINE e == <<"esp">>
           es == <<"esp", "stamp">>
           W == {"tree", "esp"}
           WS == {"tree", "esp", "stamp"}
           Good(s, w) == w \subseteq Among(s) /\ WipesBefore(s, w \ {"tree"})
<1> USE DEF Among, WipesBefore
<1>1. Good(<<"tree">> \o e, W)
  OBVIOUS
<1>2. Good(e \o <<"tree">>, W)
  OBVIOUS
<1>3. Good(<<"tree", "wipe">> \o e, W)
  OBVIOUS
<1>4. Good(<<"wipe">> \o e \o <<"tree">>, W)
  OBVIOUS
<1>5. Good(<<"tree">> \o es, WS)
  OBVIOUS
<1>6. Good(es \o <<"tree">>, WS)
  OBVIOUS
<1>7. Good(<<"tree", "wipe">> \o es, WS)
  OBVIOUS
<1>8. Good(<<"wipe">> \o es \o <<"tree">>, WS)
  OBVIOUS
<1> HIDE DEF Among, WipesBefore
<1> QED BY <1>1, <1>2, <1>3, <1>4, <1>5, <1>6, <1>7, <1>8 DEF EspPieces, Wanted

\* A piece is written to the image of the run.
LEMMA PutImage ==
    ASSUME OneImageOnly, IInv, PlanOK, pc = "write", Remaking \/ Mounted, left # <<>>,
           Put(Head(left), Current(config))
    PROVE  /\ args.image \in Image /\ config = args.image
           /\ content'[args.image] = With(content[args.image], Head(left), Current(args.image))
<1>1. args.image \in Image /\ config \in Image
  BY DEF IInv, TypeOK, WriteOK
<1>2. config = args.image
  BY <1>1 DEF OneImageOnly
<1>3. Direct(Head(left)) \/ Mounted
  BY DEF Direct
<1>4. Target(Head(left)) \in Image
  BY <1>1, <1>3, Stacked DEF Target, PlanOK, IInv, TypeOK, Info, Mount
<1>5. Target(Head(left)) = args.image
  BY <1>1, <1>4 DEF OneImageOnly
<1>6. content' = [content EXCEPT ![args.image] = With(@, Head(left), Current(args.image))]
  BY <1>2, <1>3, <1>5 DEF Put
<1> QED BY <1>1, <1>2, <1>6 DEF IInv, TypeOK

\* What a write makes of the other pieces, and of its own.
LEMMA WithPieces ==
    ASSUME NEW c \in [esp : Value \cup {None, Mixed}, stamp : Value \cup {None},
                      root : Value \cup {None, Mixed}, stray : BOOLEAN],
           NEW piece \in Piece, NEW v, NEW other \in {"tree", "esp", "stamp"}
    PROVE  /\ other # piece /\ (piece = "wipe" => other = "tree") /\ Has(c, other, v) =>
                 Has(With(c, piece, v), other, v)
           /\ other = piece => Has(With(c, piece, v), other, v)
                               \/ (other # "tree" /\ ~Direct(piece) /\ ~Top.esp)
<1>1. CASE piece = "wipe"
  BY <1>1 DEF With, Has
<1>2. CASE piece = "tree"
  BY <1>2 DEF With, Has
<1>3. CASE piece = "esp"
  BY <1>3 DEF With, Has
<1>4. CASE piece = "stamp"
  BY <1>4 DEF With, Has
<1> QED BY <1>1, <1>2, <1>3, <1>4 DEF Piece

\* The mount and what is known of it stay while files are written.
LEMMA SameMount ==
    ASSUME ginfo' = ginfo, stack' = stack
    PROVE  EspGone' = EspGone /\ Mounted' = Mounted
BY DEF EspGone, Mounted, Via, Top

LEMMA PiecesStep ==
    ASSUME OneImageOnly, IInv, IInv', MountOK, PlanOK, MethodOK, PiecesOK, [Next]_vars
    PROVE  PiecesOK'
<1> SUFFICES ASSUME pc' = "write"
             PROVE  /\ WipesBefore(left', Wanted' \ {"tree"})
                    /\ (Remaking \/ Mounted)' =>
                          \A piece \in Wanted' \ Among(left') :
                              Written(piece)' \/ (piece # "tree" /\ ~Remaking' /\ EspGone')
  BY DEF PiecesOK, Among, WipesBefore
<1>1. CASE PlanFs \/ PlanRemake
  <2>1. left' \in {<<"tree">> \o EspPieces, EspPieces \o <<"tree">>,
                   <<"tree", "wipe">> \o EspPieces, <<"wipe">> \o EspPieces \o <<"tree">>}
    BY <1>1 DEF PlanFs, PlanRemake
  <2>2. Wanted' = Wanted
    BY <1>1 DEF PlanFs, PlanRemake, host, Wanted
  <2> QED BY <2>1, <2>2, OrdersComplete
<1>2. CASE WritePiece
  <2>1. /\ pc = "write" /\ left # <<>> /\ left' = Tail(left) /\ left \in Seq(Piece)
        /\ Put(Head(left), Current(config))
        /\ args' = args /\ sysroot' = sysroot /\ ginfo' = ginfo /\ stack' = stack /\ plan' = plan
    BY <1>2 DEF WritePiece, local, IInv, TypeOK
  <2>2. Wanted' = Wanted /\ Remaking' = Remaking /\ Current(args.image)' = Current(args.image)
    BY <2>1 DEF Wanted, Remaking, Current
  <2>3. EspGone' = EspGone /\ Mounted' = Mounted
    BY <2>1, SameMount
  <2>4. /\ Among(left) = {Head(left)} \cup Among(left')
        /\ WipesBefore(left', Wanted \ {"tree"})
        /\ Head(left) = "wipe" => Wanted \ {"tree"} \subseteq Among(left')
    BY <2>1, AmongTail DEF PiecesOK
  <2>5. ASSUME Remaking \/ Mounted, NEW piece \in Wanted \ Among(left')
        PROVE  Written(piece)' \/ (piece # "tree" /\ ~Remaking /\ EspGone)
    <3> DEFINE c == content[args.image]
               p == Head(left)
               v == Current(args.image)
    <3>1. content'[args.image] = With(c, p, v) /\ args.image \in Image
      BY <2>1, <2>5, PutImage
    <3>2. c \in [esp : Value \cup {None, Mixed}, stamp : Value \cup {None},
                 root : Value \cup {None, Mixed}, stray : BOOLEAN]
      BY <3>1 DEF IInv, TypeOK
    <3>3. p \in Piece /\ piece \in {"tree", "esp", "stamp"}
      BY <2>1, Popped DEF Wanted
    <3>4. Written(piece) = Has(c, piece, v) /\ Written(piece)' = Has(With(c, p, v), piece, v)
      BY <2>1, <2>2, <3>1 DEF Written, Has
    <3> HIDE DEF c, p, v
    <3>5. CASE piece = p
      <4>1. Has(With(c, p, v), piece, v) \/ (piece # "tree" /\ ~Direct(p) /\ ~Top.esp)
        BY <3>2, <3>3, <3>5, WithPieces
      <4>2. ASSUME piece # "tree", ~Direct(p), ~Top.esp PROVE ~Remaking /\ EspGone
        <5>1. ~Remaking /\ ~Via({"fuse2fs"}) /\ Mounted
          BY <2>5, <3>5, <4>2 DEF Direct
        <5>2. ginfo # None /\ ginfo = info /\ ginfo.method \in Elevated \cup Fuse
          BY <2>1, <5>1, ConstantsAssumption DEF PlanOK, MountOK, IInv, TypeOK, Info
        <5>3. ginfo.method \in Elevated
          BY <4>2, <5>1, <5>2 DEF Via, Fuse, MethodOK
        <5> QED BY <4>2, <5>1, <5>2, <5>3 DEF EspGone, Via
      <4> QED BY <3>4, <4>1, <4>2
    <3>6. CASE piece # p
      <4>1. piece \notin Among(left)
        BY <2>4, <2>5, <3>6 DEF p
      <4>2. Written(piece) \/ (piece # "tree" /\ ~Remaking /\ EspGone)
        BY <2>1, <2>5, <4>1 DEF PiecesOK
      <4>3. p = "wipe" => piece = "tree"
        BY <2>4, <2>5 DEF p
      <4> QED BY <3>2, <3>3, <3>4, <3>6, <4>2, <4>3, WithPieces
    <3> QED BY <3>5, <3>6
  <2> QED BY <2>2, <2>3, <2>4, <2>5
<1>3. CASE pc = "write" /\ (UNCHANGED vars \/ Serve \/ \E i \in Image : FuseDies(i))
  <2>1. /\ left' = left /\ content' = content /\ sysroot' = sysroot
        /\ plan' = plan /\ args' = args /\ ginfo' = ginfo /\ stack' = stack
    <3>1. starting = {}
      BY <1>3 DEF MountOK
    <3> QED BY <1>3, <3>1 DEF vars, Serve, FuseMounts, Flushed, FuseDies, local
  <2>2. /\ Wanted' = Wanted /\ Remaking' = Remaking
        /\ \A piece : Written(piece)' = Written(piece)
    BY <2>1 DEF Wanted, Remaking, Written, Has, Current
  <2>3. EspGone' = EspGone /\ Mounted' = Mounted
    BY <2>1, SameMount
  <2> QED BY <1>3, <2>1, <2>2, <2>3 DEF PiecesOK
<1> QED BY <1>1, <1>2, <1>3, Writers

LEMMA MethodStep ==
    ASSUME Recorded, IInv, MountOK, MethodOK, [Next]_vars
    PROVE  MethodOK'
<1> USE DEF MethodOK, Step, EndAction, Exit, host, local, Mounted, Top
<1>0. TypeOK /\ args.method \in Elevated \cup Fuse
  BY ConstantsAssumption DEF IInv, TypeOK
<1>1. CASE UNCHANGED vars \/ Begin \/ Finish \/ Rebuild
  BY <1>1 DEF vars, Begin, Start, Finish, Rebuild
<1>2. CASE NextAction
  BY <1>2, NextPc DEF NextAction, Action
<1>3. CASE AlreadyMounted \/ SeeMount \/ SeeExit
  BY <1>3 DEF AlreadyMounted, SeeMount, SeeExit, Quiet, MountOK
<1>4. CASE Record
  <2>1. [image |-> args.image, method |-> args.method].method = args.method
    OBVIOUS
  <2> QED BY <1>4, <2>1 DEF Record
<1>5. CASE DropStaleInfo \/ SpawnFuse2fs
  BY <1>5 DEF DropStaleInfo, SpawnFuse2fs, MountOK
<1>6. CASE MountRoot
  <2> DEFINE m == [image |-> args.image, method |-> args.method, esp |-> args.method = "guestfs"]
  <2>1. m \in Mount /\ stack \in Seq(Mount) /\ stack' = <<m>> \o stack
    BY <1>0, <1>6 DEF MountRoot, TypeOK, Mount
  <2>2. stack' # <<>> /\ Head(stack') = m
    BY <2>1, Pushed
  <2>3. info' = info /\ info = None /\ pc' \in {"esp", "record"} /\ args' = args
    BY <1>6 DEF MountRoot, MountOK
  <2>4. m.esp = (args.method = "guestfs")
    OBVIOUS
  <2> HIDE DEF m
  <2>5. args.method = "guestfs" => Head(stack').esp
    BY <2>2, <2>4
  <2> QED BY <2>3, <2>5
<1>7. CASE MountEsp
  <2>1. stack # <<>> /\ Head(stack) \in Mount /\ Tail(stack) \in Seq(Mount)
    BY <1>0, <1>7, Popped DEF MountEsp, MountOK, TypeOK
  <2> DEFINE top == [Head(stack) EXCEPT !.esp = TRUE]
  <2>2. top \in Mount /\ top.esp /\ stack' = <<top>> \o Tail(stack)
    BY <1>7, <2>1 DEF Mount, MountEsp
  <2> HIDE DEF top
  <2>3. Head(stack') = top
    BY <2>1, <2>2, Pushed
  <2> QED BY <1>7, <2>2, <2>3 DEF MountEsp
<1>8. CASE Writing
  BY <1>8 DEF Writing, PlanFs, NoDiskToUpdate, PlanRemake, WritePiece, WritesDone, Quiet
<1>9. CASE UnmountEsp
  <2>1. ginfo # None /\ info = ginfo /\ ginfo.method # "guestfs"
    BY <1>9 DEF UnmountEsp, Via, MountOK, Elevated
  <2> QED BY <1>9, <2>1 DEF UnmountEsp
<1>10. CASE UnmountRoot \/ UnmountFuse
  <2>1. stack # <<>> /\ stack' = Tail(stack) /\ Len(stack) = 1
    BY <1>10 DEF UnmountRoot, UnmountFuse, NoMount, MountOK
  <2>2. stack' = <<>>
    BY <1>0, <2>1 DEF TypeOK
  <2> QED BY <1>10, <2>2 DEF UnmountRoot, UnmountFuse, Via
<1>11. CASE DetachLoop \/ NothingToUnmount \/ NoFuse2fsProcess \/ Forget
  BY <1>11 DEF DetachLoop, NothingToUnmount, NoFuse2fsProcess, Forget, Quiet
<1>12. ASSUME NEW i \in Image, FuseMounts(i)
       PROVE  MethodOK'
  <2>1. pc = "mounting" /\ info = None /\ info' = info /\ pc' = pc /\ args' = args
    BY <1>12 DEF FuseMounts, MountOK
  <2> QED BY <2>1
<1>13. ASSUME NEW i \in Image, Flushed(i) \/ FuseDies(i)
       PROVE  MethodOK'
  BY <1>13 DEF Flushed, FuseDies
<1>14. CASE Fail \/ Kill \/ Reboot
  BY <1>14 DEF Fail, Kill, Reboot
<1> QED BY <1>1, <1>2, <1>3, <1>4, <1>5, <1>6, <1>7, <1>8, <1>9, <1>10, <1>11, <1>12, <1>13, <1>14
        DEF Next, Run, Mounting, Unmounting, Serve, Trouble

\* The two plans, action by action.
LEMMA Suffixes ==
    /\ Head(Default) = "mount" /\ Tail(Default) = <<"update-fs", "unmount">>
    /\ Head(<<"update-fs", "unmount">>) = "update-fs" /\ Tail(<<"update-fs", "unmount">>) = <<"unmount">>
    /\ Head(<<"unmount">>) = "unmount" /\ Tail(<<"unmount">>) = <<>>
    /\ Head(<<"remake">>) = "remake" /\ Tail(<<"remake">>) = <<>>
    /\ Default # <<>> /\ <<"update-fs", "unmount">> # <<>> /\ <<"unmount">> # <<>> /\ <<"remake">> # <<>>
BY DEF Default

LEMMA SameImage ==
    ASSUME content' = content, sysroot' = sysroot, args' = args
    PROVE  Ready' = Ready
BY DEF Ready, Populated, Current

\* All pieces are written when none is left.
LEMMA AllWritten ==
    ASSUME PiecesOK, pc = "write", left = <<>>, Remaking \/ Mounted
    PROVE  Ready \/ (~Remaking /\ EspGone)
<1>1. Among(left) = {}
  BY DEF Among
<1>2. \A piece \in Wanted : Written(piece) \/ (piece # "tree" /\ ~Remaking /\ EspGone)
  BY <1>1 DEF PiecesOK
<1>3. CASE \A piece \in Wanted : Written(piece)
  BY <1>3 DEF Wanted, Written, Has, Ready, Populated
<1> QED BY <1>2, <1>3

LEMMA RemakeStep ==
    ASSUME IInv, PiecesOK, RemakeOK, [Next]_vars
    PROVE  RemakeOK'
<1> USE DEF Step, EndAction, Exit, host, local
<1> SUFFICES ASSUME args'.plan = <<"remake">>, pc' # "idle", ~errors'
             PROVE  \/ plan' = <<"remake">> /\ pc' \in {"next", "remake", "write"}
                    \/ plan' = <<>> /\ pc' = "next" /\ Ready'
  BY DEF RemakeOK
<1>1. CASE Begin
  BY <1>1 DEF Begin, Start
<1>2. CASE NextAction
  BY <1>2, Suffixes, SameImage DEF NextAction, RemakeOK
<1>3. CASE Finish \/ Rebuild \/ Reboot \/ Kill \/ Fail
  BY <1>3 DEF Finish, Rebuild, Reboot, Kill, Fail
<1>4. CASE Mounting \/ Unmounting \/ PlanFs \/ NoDiskToUpdate
  BY <1>4 DEF RemakeOK, Mounting, AlreadyMounted, DropStaleInfo, MountRoot, SpawnFuse2fs, SeeMount,
     SeeExit, MountEsp, Record, Unmounting, UnmountEsp, DetachLoop, UnmountRoot, UnmountFuse,
     NothingToUnmount, NoFuse2fsProcess, Forget, PlanFs, NoDiskToUpdate
<1>5. CASE PlanRemake \/ WritePiece
  BY <1>5 DEF PlanRemake, WritePiece, RemakeOK
<1>6. CASE WritesDone
  <2>1. plan = <<"remake">> /\ pc = "write" /\ left = <<>> /\ Remaking
    BY <1>6, Suffixes DEF WritesDone, RemakeOK, Remaking
  <2>2. Ready
    BY <2>1, AllWritten
  <2> QED BY <1>6, <2>1, <2>2, Suffixes, SameImage DEF WritesDone, Quiet
<1>7. CASE UNCHANGED vars \/ Serve \/ \E i \in Image : FuseDies(i)
  BY <1>7, SameImage DEF vars, Serve, FuseMounts, Flushed, FuseDies, RemakeOK
<1> QED BY <1>1, <1>2, <1>3, <1>4, <1>5, <1>6, <1>7 DEF Next, Run, Writing, Trouble

LEMMA DefaultStep ==
    ASSUME OneImageOnly, IInv, MountOK, MethodOK, PiecesOK, DefaultOK, [Next]_vars
    PROVE  DefaultOK'
<1> USE DEF Step, EndAction, Exit, host, local
<1> DEFINE Goal == \/ plan' = Default /\ pc' \in {"next", "mount", "attach", "mounting", "esp", "record"}
                   \/ /\ plan' = <<"update-fs", "unmount">>
                      /\ pc' \in {"next", "update-fs", "write"} /\ Mounted'
                   \/ plan' = <<"unmount">> /\ pc' \in {"next", "unmount"} /\ (EspGone' \/ Ready')
                   \/ plan' = <<"unmount">> /\ pc' \in {"detach", "root", "wait"} /\ Ready'
                   \/ plan' = <<>> /\ pc' = "next" /\ Ready' /\ args'.image \notin flushing'
<1> SUFFICES ASSUME args'.plan = Default, pc' # "idle", ~errors'
             PROVE  Goal
  BY DEF DefaultOK
<1>1. CASE Begin
  BY <1>1 DEF Begin, Start
<1>2. CASE NextAction
  BY <1>2, Suffixes, SameImage, SameMount DEF NextAction, DefaultOK
<1>3. CASE Finish \/ Rebuild \/ Reboot \/ Kill \/ Fail
  BY <1>3 DEF Finish, Rebuild, Reboot, Kill, Fail
<1>4. CASE Mounting
  <2>1. plan = Default
    BY <1>4, Suffixes DEF DefaultOK, Mounting, AlreadyMounted, DropStaleInfo, MountRoot, SpawnFuse2fs,
       SeeMount, SeeExit, MountEsp, Record
  <2>2. CASE AlreadyMounted
    BY <2>1, <2>2, Suffixes, SameMount DEF AlreadyMounted, Valid, Quiet
  <2>3. CASE Record
    BY <2>1, <2>3, Suffixes DEF Record, MountOK, Mounted
  <2>4. CASE DropStaleInfo \/ MountRoot \/ SpawnFuse2fs \/ SeeMount \/ SeeExit \/ MountEsp
    BY <2>1, <2>4 DEF DropStaleInfo, MountRoot, SpawnFuse2fs, SeeMount, SeeExit, MountEsp
  <2> QED BY <1>4, <2>2, <2>3, <2>4 DEF Mounting
<1>5. CASE PlanFs \/ WritePiece
  BY <1>5, Suffixes, SameMount DEF PlanFs, WritePiece, DefaultOK
<1>6. CASE NoDiskToUpdate \/ PlanRemake
  BY <1>6 DEF NoDiskToUpdate, PlanRemake, DefaultOK
<1>7. CASE WritesDone
  <2>1. plan = <<"update-fs", "unmount">> /\ pc = "write" /\ left = <<>> /\ Mounted
    BY <1>7 DEF WritesDone, DefaultOK
  <2>2. Ready \/ EspGone
    BY <2>1, AllWritten
  <2>3. Ready' = Ready /\ EspGone' = EspGone
    BY <1>7, SameImage, SameMount DEF WritesDone, Quiet
  <2> QED BY <1>7, <2>1, <2>2, <2>3, Suffixes DEF WritesDone
<1>8. CASE UnmountEsp \/ UnmountFuse
  <2>1. pc = "unmount" /\ plan = <<"unmount">> /\ (EspGone \/ Ready)
    BY <1>8 DEF UnmountEsp, UnmountFuse, DefaultOK
  <2>2. ~EspGone
    BY <1>8 DEF UnmountEsp, UnmountFuse, NoMount, EspGone, Via, Elevated, Fuse
  <2>3. Ready' = Ready
    BY <1>8, SameImage DEF UnmountEsp, UnmountFuse
  <2> QED BY <1>8, <2>1, <2>2, <2>3 DEF UnmountEsp, UnmountFuse
<1>9. CASE DetachLoop \/ UnmountRoot
  BY <1>9, SameImage DEF DetachLoop, UnmountRoot, Quiet, DefaultOK
<1>10. CASE NothingToUnmount \/ NoFuse2fsProcess
  BY <1>10 DEF NothingToUnmount, NoFuse2fsProcess
<1>11. CASE Forget
  <2>1. pc = "wait" /\ plan = <<"unmount">> /\ Ready
    BY <1>11 DEF Forget, DefaultOK
  <2>2. ginfo.image = args.image
    BY <2>1 DEF MethodOK, OneImageOnly, IInv, TypeOK, Info
  <2>3. Ready' = Ready
    BY <1>11, SameImage DEF Forget
  <2> QED BY <1>11, <2>1, <2>2, <2>3, Suffixes DEF Forget
<1>12. ASSUME NEW i \in Image, FuseMounts(i) \/ FuseDies(i)
       PROVE  Goal
  BY <1>12 DEF FuseMounts, FuseDies, MountOK, DefaultOK
<1>13. CASE UNCHANGED vars \/ \E i \in Image : Flushed(i)
  BY <1>13, SameImage, SameMount DEF vars, Flushed, DefaultOK
<1> QED BY <1>1, <1>2, <1>3, <1>4, <1>5, <1>6, <1>7, <1>8, <1>9, <1>10, <1>11, <1>12, <1>13
        DEF Next, Run, Writing, Unmounting, Serve, Trouble

LEMMA ResultStep ==
    ASSUME IInv, DefaultOK, RemakeOK, ResultOK, [Next]_vars
    PROVE  ResultOK'
<1> USE DEF Step, EndAction, Exit, host, local
<1> DEFINE Good == /\ Ready
                   /\ args.plan = Default => args.image \notin flushing
<1>1. CASE Begin
  BY <1>1 DEF Begin, Start, ResultOK, SuccessMeansPopulated
<1>2. CASE Finish
  <2>1. result' = "ok" /\ args.plan \in {Default, <<"remake">>} => Good
    BY <1>2, Suffixes DEF Finish, Status, DefaultOK, RemakeOK, ResultOK
  <2>2. Ready' = Ready /\ args' = args /\ flushing' = flushing /\ pc' = "idle"
    BY <1>2, SameImage DEF Finish
  <2> QED BY <2>1, <2>2 DEF ResultOK, SuccessMeansPopulated, Ready
<1>3. CASE Kill \/ Rebuild
  BY <1>3 DEF Kill, Rebuild, ResultOK, SuccessMeansPopulated
<1>4. CASE UNCHANGED vars \/ Serve \/ Reboot \/ \E i \in Image : FuseDies(i)
  <2>1. Ready' = Ready /\ args' = args /\ flushing' \subseteq flushing /\ pc' = pc /\ result' = result
    BY <1>4, SameImage DEF vars, Serve, FuseMounts, Flushed, Reboot, FuseDies
  <2> QED BY <2>1 DEF ResultOK, SuccessMeansPopulated, Ready
<1>5. CASE NextAction \/ Mounting \/ Writing \/ Unmounting \/ Fail
  <2>1. pc # "idle" /\ result' = result
    BY <1>5, ConstantsAssumption DEF NextAction, Mounting, AlreadyMounted, DropStaleInfo, MountRoot,
       SpawnFuse2fs, SeeMount, SeeExit, MountEsp, Record, Writing, PlanFs, NoDiskToUpdate, PlanRemake,
       WritePiece, WritesDone, Unmounting, UnmountEsp, DetachLoop, UnmountRoot, UnmountFuse,
       NothingToUnmount, NoFuse2fsProcess, Forget, Fail, Command
  <2> QED BY <2>1 DEF ResultOK, SuccessMeansPopulated
<1> QED BY <1>1, <1>2, <1>3, <1>4, <1>5 DEF Next, Run, Trouble

\* With one image, a run of the default plan or of remake that exits with status 0 has
\* brought all of it in line with the sysroot, and nothing writes to it any more.  It
\* does so whatever earlier runs have left mounted: with an ESP that was unmounted
\* before its root was, the files for it go astray, but then the unmount fails as well
\* (mount_action, update_fs_action, unmount_action).
THEOREM SuccessIsPopulated ==
    ASSUME OneImageOnly, Recorded
    PROVE  Spec => []SuccessMeansPopulated
<1>1. Init => SuccessInv
  <2> SUFFICES ASSUME Init PROVE SuccessInv
    OBVIOUS
  <2>1. MountOK /\ PlanOK
    BY DEF Init, MountOK, PlanOK, Mounted
  <2>2. MethodOK /\ PiecesOK /\ DefaultOK /\ RemakeOK
    BY DEF Init, MethodOK, PiecesOK, DefaultOK, RemakeOK, Mounted
  <2>3. ResultOK
    BY DEF Init, ResultOK, SuccessMeansPopulated
  <2> QED BY <2>1, <2>2, <2>3, InitInv DEF SuccessInv
<1>2. SuccessInv /\ [Next]_vars => SuccessInv'
  BY NextInv, MountStep, ConfigStep, MethodStep, PiecesStep, DefaultStep, RemakeStep, ResultStep
     DEF SuccessInv
<1>3. SuccessInv => SuccessMeansPopulated
  BY DEF SuccessInv, ResultOK
<1> QED BY <1>1, <1>2, <1>3, PTL DEF Spec
=============================================================================
