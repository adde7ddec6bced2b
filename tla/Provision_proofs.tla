-------------------------- MODULE Provision_proofs --------------------------
(* Proofs about Provision, for all requests and shipments.                    *)
EXTENDS Provision, TLAPS, FiniteSetTheorems, SequenceTheorems, WellFoundedInduction

-----------------------------------------------------------------------------
(* The operators on tables. *)

\* A non-empty set of naturals has a least element.
LEMMA SmallestOf ==
    ASSUME NEW S \in SUBSET Nat, S # {}
    PROVE  \E x \in S : \A y \in S : x <= y
<1> DEFINE R == {ss \in Nat \X Nat : ss[1] < ss[2]}
<1>1. IsWellFoundedOn(R, Nat)
  BY NatLessThanWellFounded DEF OpToRel
<1>2. \E x \in S : \A y \in S : ~(<<y, x>> \in R)
  BY <1>1, WFMin
<1>3. \A x, y \in Nat : ~(<<y, x>> \in R) => x <= y
  OBVIOUS
<1> QED BY <1>2, <1>3

\* The loop of add_user ends at an id that nobody has.
LEMMA FreeIdIsFree ==
    ASSUME NEW used \in SUBSET Nat, IsFiniteSet(used)
    PROVE  FreeId(used) \in Nat /\ FreeId(used) >= FirstUid /\ FreeId(used) \notin used
<1> DEFINE n == Cardinality(used)
           I == FirstUid..(FirstUid + n)
           First(i) == i \notin used /\ \A j \in FirstUid..(i - 1) : j \in used
<1>0. FirstUid \in Nat /\ n \in Nat
  BY ConstantsAssumption, FS_CardinalityType
<1>1. IsFiniteSet(I) /\ Cardinality(I) = n + 1
  BY <1>0, FS_Interval
<1>2. I \ used # {} /\ I \ used \subseteq Nat
  <2>1. ASSUME I \subseteq used PROVE FALSE
    <3>1. Cardinality(I) <= n
      BY <2>1, FS_Subset
    <3> QED BY <1>0, <1>1, <3>1
  <2> QED BY <1>0, <2>1
<1>3. PICK i \in I \ used : \A j \in I \ used : i <= j
  BY <1>2, SmallestOf
<1>4. i \in I /\ First(i)
  BY <1>0, <1>3
<1>5. FreeId(used) \in I /\ First(FreeId(used))
  BY <1>4 DEF FreeId
<1> QED BY <1>0, <1>5

\* The image of a finite set under a function is finite.
LEMMA FiniteImage ==
    ASSUME NEW S, IsFiniteSet(S), NEW f, DOMAIN f = S, f = [x \in S |-> f[x]]
    PROVE  IsFiniteSet({f[x] : x \in S})
<1>1. f \in Surjection(S, {f[x] : x \in S})
  BY DEF Surjection
<1> QED BY <1>1, FS_Surjection

LEMMA FindFinds ==
    ASSUME NEW rows, NEW n, Has(rows, n)
    PROVE  Find(rows, n) \in rows /\ Find(rows, n).name = n
BY DEF Has, Find

\* write_file of one table leaves the others alone.
LEMMA SaveFields ==
    ASSUME NEW e \in Tables, NEW a \in Tables, NEW x \in Table
    PROVE  LET f == [e EXCEPT ![x] = a[x]] IN
           /\ f \in Tables
           /\ f.passwd = IF x = "passwd" THEN a.passwd ELSE e.passwd
           /\ f.group = IF x = "group" THEN a.group ELSE e.group
           /\ f.shadow = IF x = "shadow" THEN a.shadow ELSE e.shadow
           /\ f.gshadow = IF x = "gshadow" THEN a.gshadow ELSE e.gshadow
BY DEF Tables, Table

-----------------------------------------------------------------------------
(* What holds of any tables, on the disk or in memory. *)

Sized(t) == IsFiniteSet(t.passwd) /\ IsFiniteSet(t.group)

\* An account whose group is missing has no other group of that name, so that
\* the missing one can be added.
Fillable(t) ==
    \A p \in t.passwd : Has(t.group, p.name) => \E g \in t.group : g.gid = p.gid

\* A group that does not come with the packages is that of an account.
Known(t) ==
    \A g \in t.group : Has(t.passwd, g.name) \/ Has(packages.tables.group, g.name)

TablesOK(t) == WellFormed(t) /\ Sized(t) /\ Fillable(t) /\ Known(t)

LEMMA WithAccountOK ==
    ASSUME NEW t \in Tables, TablesOK(t), NEW n \in Name, ~(Created(t, n) /\ Has(t.group, n))
    PROVE  LET u == WithAccount(t, n) IN
           /\ u \in Tables /\ TablesOK(u)
           /\ Has(u.passwd, n) /\ t.passwd \subseteq u.passwd
           /\ ~Created(t, n) => u.passwd = t.passwd
           /\ \A p \in u.passwd \ t.passwd : p.name = n
           /\ u.group = t.group /\ u.shadow = t.shadow /\ u.gshadow = t.gshadow
<1>1. CASE ~Created(t, n)
  BY <1>1 DEF WithAccount, Created
<1>2. CASE Created(t, n)
  <2> DEFINE id == FreeId(UsedIds(t))
             row == [name |-> n, uid |-> id, gid |-> id]
             u == [t EXCEPT !.passwd = @ \cup {row}]
  <2>1. UsedIds(t) \in SUBSET Nat /\ IsFiniteSet(UsedIds(t))
    <3> DEFINE uid == [p \in t.passwd |-> p.uid]
               gid == [g \in t.group |-> g.gid]
    <3>1. IsFiniteSet({uid[p] : p \in t.passwd}) /\ IsFiniteSet({gid[g] : g \in t.group})
      BY FiniteImage DEF TablesOK, Sized
    <3>2. /\ {uid[p] : p \in t.passwd} = {p.uid : p \in t.passwd}
          /\ {gid[g] : g \in t.group} = {g.gid : g \in t.group}
      OBVIOUS
    <3>3. UsedIds(t) \in SUBSET Nat
      BY DEF UsedIds, Tables, Account, Group, Id
    <3> QED BY <3>1, <3>2, <3>3, FS_Union DEF UsedIds
  <2>2. id \in Nat /\ id \notin UsedIds(t)
    BY <2>1, FreeIdIsFree
  <2>3. WithAccount(t, n) = u
    BY <1>2 DEF WithAccount, NewAccount
  <2>4. row \in Account /\ row.name = n /\ row.uid = id
    BY <2>2 DEF Account, Id
  <2> HIDE DEF id, row
  <2>5. u \in Tables /\ u.passwd = t.passwd \cup {row}
        /\ u.group = t.group /\ u.shadow = t.shadow /\ u.gshadow = t.gshadow
    BY <2>4 DEF Tables
  <2> HIDE DEF u
  <2>6. WellFormed(u)
    <3>1. \A p \in t.passwd : p.name # n
      BY <1>2 DEF Created, Has
    <3>2. \A p \in t.passwd : p.uid # id
      BY <2>2 DEF UsedIds
    <3> QED BY <2>4, <2>5, <3>1, <3>2 DEF WellFormed, Named, TablesOK
  <2>7. Sized(u)
    BY <2>5, FS_AddElement DEF Sized, TablesOK
  <2>8. Fillable(u)
    BY <1>2, <2>4, <2>5 DEF Fillable, TablesOK
  <2>9. Known(u)
    BY <2>5 DEF Known, Has, TablesOK
  <2>10. Has(u.passwd, n)
    BY <2>4, <2>5 DEF Has
  <2> QED BY <1>2, <2>3, <2>4, <2>5, <2>6, <2>7, <2>8, <2>9, <2>10 DEF TablesOK
<1> QED BY <1>1, <1>2

LEMMA WithGroupOK ==
    ASSUME NEW t \in Tables, TablesOK(t), NEW n \in Name, Has(t.passwd, n)
    PROVE  LET u == WithGroup(t, n) IN
           /\ u \in Tables /\ TablesOK(u)
           /\ t.group \subseteq u.group
           /\ u.passwd = t.passwd /\ u.shadow = t.shadow /\ u.gshadow = t.gshadow
<1> DEFINE p == Find(t.passwd, n)
           row == [name |-> n, gid |-> p.gid, members |-> {}]
           u == [t EXCEPT !.group = @ \cup {row}]
<1>1. CASE \E g \in t.group : g.gid = p.gid
  BY <1>1 DEF WithGroup
<1>2. CASE ~\E g \in t.group : g.gid = p.gid
  <2>1. p \in t.passwd /\ p.name = n
    BY FindFinds
  <2>2. row \in Group /\ row.name = n /\ row.gid = p.gid
    BY <2>1 DEF Group, Tables, Account
  <2>3. WithGroup(t, n) = u
    BY <1>2 DEF WithGroup
  <2> HIDE DEF p, row
  <2>4. u \in Tables /\ u.group = t.group \cup {row}
        /\ u.passwd = t.passwd /\ u.shadow = t.shadow /\ u.gshadow = t.gshadow
    BY <2>2 DEF Tables
  <2> HIDE DEF u
  <2>5. ~Has(t.group, n)
    BY <1>2, <2>1 DEF TablesOK, Fillable
  <2>6. WellFormed(u)
    <3>1. \A g \in t.group : g.name # n /\ g.gid # p.gid
      BY <1>2, <2>5 DEF Has
    <3> QED BY <2>2, <2>4, <3>1 DEF WellFormed, Named, TablesOK
  <2>7. Sized(u)
    BY <2>4, FS_AddElement DEF Sized, TablesOK
  <2>8. Fillable(u)
    <3> SUFFICES ASSUME NEW q \in t.passwd, Has(u.group, q.name)
                 PROVE  \E g \in u.group : g.gid = q.gid
      BY <2>4 DEF Fillable
    <3>1. CASE q.name = n
      <4>1. q = p
        BY <2>1, <3>1 DEF TablesOK, WellFormed, Named
      <4> QED BY <2>2, <2>4, <4>1
    <3>2. CASE q.name # n
      <4>1. Has(t.group, q.name)
        BY <2>2, <2>4, <3>2 DEF Has
      <4> QED BY <2>4, <4>1 DEF TablesOK, Fillable
    <3> QED BY <3>1, <3>2
  <2>9. Known(u)
    BY <2>2, <2>4 DEF Known, TablesOK
  <2> QED BY <2>3, <2>4, <2>6, <2>7, <2>8, <2>9 DEF TablesOK
<1> QED BY <1>1, <1>2

LEMMA WithGroupSecretOK ==
    ASSUME NEW t \in Tables, TablesOK(t), NEW n \in Name
    PROVE  LET u == WithGroupSecret(t, n) IN
           /\ u \in Tables /\ TablesOK(u)
           /\ t.gshadow \subseteq u.gshadow
           /\ u.passwd = t.passwd /\ u.shadow = t.shadow /\ u.group = t.group
<1> DEFINE row == [name |-> n, members |-> {}]
           u == [t EXCEPT !.gshadow = @ \cup {row}]
<1>1. CASE ~(Has(t.group, n) /\ ~Has(t.gshadow, n))
  BY <1>1 DEF WithGroupSecret
<1>2. CASE Has(t.group, n) /\ ~Has(t.gshadow, n)
  <2>1. WithGroupSecret(t, n) = u
    BY <1>2 DEF WithGroupSecret
  <2>2. u \in Tables /\ u.gshadow = t.gshadow \cup {row}
        /\ u.passwd = t.passwd /\ u.shadow = t.shadow /\ u.group = t.group
    BY DEF Tables, GroupSecret
  <2> HIDE DEF u
  <2>3. Named(u.gshadow)
    <3>1. \A r \in t.gshadow : r.name # row.name
      BY <1>2 DEF Has
    <3> QED BY <2>2, <3>1 DEF TablesOK, WellFormed, Named
  <2>4. TablesOK(u)
    BY <2>2, <2>3 DEF TablesOK, WellFormed, Sized, Fillable, Known
  <2> QED BY <2>1, <2>2, <2>4
<1> QED BY <1>1, <1>2

LEMMA WithSecretOK ==
    ASSUME NEW t \in Tables, TablesOK(t), NEW n \in Name, today \in Nat
    PROVE  LET u == WithSecret(t, n) IN
           /\ u \in Tables /\ TablesOK(u)
           /\ t.shadow \subseteq u.shadow
           /\ u.passwd = t.passwd /\ u.gshadow = t.gshadow /\ u.group = t.group
<1> DEFINE row == [name |-> n, hash |-> Locked, day |-> today]
           u == [t EXCEPT !.shadow = @ \cup {row}]
<1>1. CASE Has(t.shadow, n)
  BY <1>1 DEF WithSecret
<1>2. CASE ~Has(t.shadow, n)
  <2>1. WithSecret(t, n) = u
    BY <1>2 DEF WithSecret
  <2>2. u \in Tables /\ u.shadow = t.shadow \cup {row}
        /\ u.passwd = t.passwd /\ u.gshadow = t.gshadow /\ u.group = t.group
    BY DEF Tables, Secret
  <2> HIDE DEF u
  <2>3. Named(u.shadow)
    <3>1. \A r \in t.shadow : r.name # row.name
      BY <1>2 DEF Has
    <3> QED BY <2>2, <3>1 DEF TablesOK, WellFormed, Named
  <2>4. TablesOK(u)
    BY <2>2, <2>3 DEF TablesOK, WellFormed, Sized, Fillable, Known
  <2> QED BY <2>1, <2>2, <2>4
<1> QED BY <1>1, <1>2

\* add_user keeps the tables in order, and only adds rows.
LEMMA WithUserOK ==
    ASSUME NEW t \in Tables, TablesOK(t), NEW n \in Name, today \in Nat,
           ~(Created(t, n) /\ Has(t.group, n))
    PROVE  LET u == WithUser(t, n) IN
           /\ u \in Tables /\ TablesOK(u)
           /\ Has(u.passwd, n)
           /\ ~Created(t, n) => u.passwd = t.passwd
           /\ \A p \in u.passwd \ t.passwd : p.name = n
           /\ t.passwd \subseteq u.passwd /\ t.group \subseteq u.group
           /\ t.shadow \subseteq u.shadow /\ t.gshadow \subseteq u.gshadow
<1> DEFINE a == WithAccount(t, n)
           b == WithGroup(a, n)
           c == WithGroupSecret(b, n)
<1>1. /\ a \in Tables /\ TablesOK(a) /\ Has(a.passwd, n)
      /\ ~Created(t, n) => a.passwd = t.passwd
      /\ \A p \in a.passwd \ t.passwd : p.name = n
      /\ t.passwd \subseteq a.passwd
      /\ a.group = t.group /\ a.shadow = t.shadow /\ a.gshadow = t.gshadow
  BY WithAccountOK
<1> HIDE DEF a
<1>2. /\ b \in Tables /\ TablesOK(b)
      /\ a.group \subseteq b.group
      /\ b.passwd = a.passwd /\ b.shadow = a.shadow /\ b.gshadow = a.gshadow
  BY <1>1, WithGroupOK
<1> HIDE DEF b
<1>3. /\ c \in Tables /\ TablesOK(c)
      /\ b.gshadow \subseteq c.gshadow
      /\ c.passwd = b.passwd /\ c.shadow = b.shadow /\ c.group = b.group
  BY <1>2, WithGroupSecretOK
<1> HIDE DEF c
<1> DEFINE d == WithSecret(c, n)
<1>4. /\ d \in Tables /\ TablesOK(d)
      /\ c.shadow \subseteq d.shadow
      /\ d.passwd = c.passwd /\ d.gshadow = c.gshadow /\ d.group = c.group
  BY <1>3, WithSecretOK
<1>5. WithUser(t, n) = d
  BY DEF WithUser, a, b, c
<1> HIDE DEF d
<1> QED BY <1>1, <1>2, <1>3, <1>4, <1>5

\* The rows of w are those of a table with more members.
MoreMembers(R, rows, w) ==
    /\ w \subseteq R
    /\ \A r \in rows : \E s \in w : s.name = r.name /\ r.members \subseteq s.members
    /\ \A s \in w : \E r \in rows : s.name = r.name
    /\ Named(rows) => Named(w)
    /\ R = Group => /\ \A r \in rows : \E s \in w : s.name = r.name /\ s.gid = r.gid
                                                    /\ r.members \subseteq s.members
                    /\ (\A g, h \in rows : g.gid = h.gid => g = h)
                         => \A g, h \in w : g.gid = h.gid => g = h
    /\ IsFiniteSet(rows) => IsFiniteSet(w)

\* add_member on all the rows of a table changes nothing but members.
LEMMA WithMemberRows ==
    ASSUME NEW R \in {Group, GroupSecret}, NEW rows \in SUBSET R, NEW n \in Name, NEW gs
    PROVE  MoreMembers(R, rows, WithMember(rows, gs, n))
<1> DEFINE f == [row \in rows |-> IF row.name \in gs THEN [row EXCEPT !.members = @ \cup {n}] ELSE row]
           w == WithMember(rows, gs, n)
<1>1. \A r \in rows : /\ f[r] \in R /\ f[r].name = r.name /\ r.members \subseteq f[r].members
                      /\ R = Group => f[r].gid = r.gid
  <2>1. CASE R = Group
    BY <2>1 DEF Group
  <2>2. CASE R = GroupSecret /\ R # Group
    BY <2>2 DEF GroupSecret
  <2> QED BY <2>1, <2>2
<1>2. w = {f[r] : r \in rows}
  BY DEF WithMember
<1>3. DOMAIN f = rows /\ f = [r \in rows |-> f[r]]
  OBVIOUS
<1> HIDE DEF f, w
<1>4. IsFiniteSet(rows) => IsFiniteSet(w)
  BY <1>2, <1>3, FiniteImage
<1>5. Named(rows) => Named(w)
  BY <1>1, <1>2 DEF Named
<1>6. R = Group /\ (\A g, h \in rows : g.gid = h.gid => g = h) => \A g, h \in w : g.gid = h.gid => g = h
  BY <1>1, <1>2
<1> QED BY <1>1, <1>2, <1>4, <1>5, <1>6 DEF w, MoreMembers

\* add_to_groups keeps the tables in order.
LEMMA JoinOK ==
    ASSUME NEW t \in Tables, TablesOK(t), NEW n \in Name, NEW gs
    PROVE  LET u == [t EXCEPT !.group = WithMember(@, gs, n), !.gshadow = WithMember(@, gs, n)] IN
           /\ u \in Tables /\ TablesOK(u)
           /\ u.passwd = t.passwd /\ u.shadow = t.shadow
           /\ \A g \in t.group : \E h \in u.group : h.name = g.name /\ h.gid = g.gid
                                                    /\ g.members \subseteq h.members
           /\ \A g \in t.gshadow : \E h \in u.gshadow : h.name = g.name /\ g.members \subseteq h.members
<1> DEFINE u == [t EXCEPT !.group = WithMember(@, gs, n), !.gshadow = WithMember(@, gs, n)]
           wg == WithMember(t.group, gs, n)
           ws == WithMember(t.gshadow, gs, n)
<1>1. t.group \in SUBSET Group /\ t.gshadow \in SUBSET GroupSecret
  BY DEF Tables
<1>2. MoreMembers(Group, t.group, wg) /\ MoreMembers(GroupSecret, t.gshadow, ws)
  BY <1>1, WithMemberRows
<1> HIDE DEF wg, ws
<1>3. /\ u \in Tables /\ u.passwd = t.passwd /\ u.shadow = t.shadow
      /\ u.group = wg /\ u.gshadow = ws
  BY <1>2 DEF Tables, MoreMembers, wg, ws
<1> HIDE DEF u
<1>4. /\ \A g \in t.group : \E h \in wg : h.name = g.name /\ h.gid = g.gid /\ g.members \subseteq h.members
      /\ \A g \in wg : \E h \in t.group : g.name = h.name
      /\ \A g \in t.gshadow : \E h \in ws : h.name = g.name /\ g.members \subseteq h.members
  BY <1>2 DEF MoreMembers
<1>5. WellFormed(u) /\ Sized(u)
  BY <1>2, <1>3 DEF MoreMembers, WellFormed, Sized, TablesOK
<1>6. Fillable(u)
  BY <1>3, <1>4 DEF Fillable, Has, TablesOK
<1>7. Known(u)
  BY <1>3, <1>4 DEF Known, Has, TablesOK
<1> QED BY <1>3, <1>4, <1>5, <1>6, <1>7 DEF u, TablesOK

\* set_password_hash keeps the tables in order.
LEMMA PassOK ==
    ASSUME NEW t \in Tables, TablesOK(t), NEW n \in Name, NEW hash \in Hash, today \in Nat
    PROVE  LET u == [t EXCEPT !.shadow = WithHash(@, n, hash)] IN
           /\ u \in Tables /\ TablesOK(u)
           /\ u.passwd = t.passwd /\ u.group = t.group /\ u.gshadow = t.gshadow
           /\ \A s \in t.shadow : \E r \in u.shadow :
                 r = s \/ (r.name = s.name /\ r.name = n /\ r.hash = hash)
<1> DEFINE u == [t EXCEPT !.shadow = WithHash(@, n, hash)]
           f == [row \in t.shadow |-> IF row.name = n /\ row.hash # hash
                                      THEN [row EXCEPT !.hash = hash, !.day = today] ELSE row]
           w == WithHash(t.shadow, n, hash)
<1>1. \A r \in t.shadow : /\ f[r] \in Secret /\ f[r].name = r.name
                          /\ f[r] = r \/ (r.name = n /\ f[r].hash = hash)
  BY DEF Tables, Secret
<1>2. w = {f[r] : r \in t.shadow}
  BY DEF WithHash
<1> HIDE DEF f, w
<1>3. u \in Tables /\ u.passwd = t.passwd /\ u.group = t.group /\ u.gshadow = t.gshadow /\ u.shadow = w
  BY <1>1, <1>2 DEF Tables, w
<1> HIDE DEF u
<1>4. Named(w)
  BY <1>1, <1>2 DEF Named, TablesOK, WellFormed
<1>5. TablesOK(u)
  BY <1>3, <1>4 DEF TablesOK, WellFormed, Sized, Fillable, Known
<1> QED BY <1>1, <1>2, <1>3, <1>5 DEF u

-----------------------------------------------------------------------------
(* The inductive invariant. *)

InstalledOK == etc # None => packages # None /\ TablesOK(etc)
InMemoryOK == acc # None => etc # None /\ pc # "idle" /\ TablesOK(acc)

\* The tables in memory are ahead of those on the disk by accounts whose group
\* the latter do not have.
Ahead ==
    acc # None =>
        /\ etc.passwd \subseteq acc.passwd
        /\ \A p \in acc.passwd \ etc.passwd : ~Has(etc.group, p.name)
        /\ \A g \in etc.group : Has(acc.group, g.name)

\* The tables are saved once all options are applied, passwd first.
SavesOnTrack ==
    /\ todo.saves \in {SaveOrder, <<"group", "shadow", "gshadow">>, <<"shadow", "gshadow">>,
                       <<"gshadow">>, <<>>}
    /\ todo.users # <<>> \/ todo.groups # <<>> \/ todo.hashes # <<>> => todo.saves = SaveOrder
    /\ acc # None /\ todo.saves # SaveOrder => etc.passwd = acc.passwd
    /\ acc = None => todo.saves \in {SaveOrder, <<>>}

\* add_user makes the home directory of an account that is not on the disk yet.
InAddUser ==
    pc \in {"home", "chown"} =>
        /\ acc # None /\ todo.users # <<>>
        /\ Has(acc.passwd, User) /\ ~Has(etc.passwd, User)

HomesOnTrack ==
    AsRoot /\ acc # None =>
        \A p \in acc.passwd : \/ Has(packages.tables.passwd, p.name)
                              \/ home[p.name] = p.uid
                              \/ pc \in {"home", "chown"} /\ p.name = User

\* A run has a command line.
OptsGiven == pc # "idle" => opts \in Request

IInv == /\ TypeOK /\ OptsGiven /\ InstalledOK /\ InMemoryOK /\ Ahead /\ SavesOnTrack
        /\ InAddUser /\ HomesOnTrack /\ HomesOwned

LEMMA WorkType ==
    ASSUME NEW o \in Request \cup {NoOptions}
    PROVE  /\ Work(o) \in Part
           /\ Work(o).users = o.users /\ Work(o).groups = o.groups /\ Work(o).hashes = o.hashes
           /\ Work(o).saves = IF NeedsAccounts(o) THEN SaveOrder ELSE <<>>
<1>1. o.users \in Seq(Name) /\ o.groups \in Seq(Membership) /\ o.hashes \in Seq(Password)
  <2>1. CASE o \in Request
    BY <2>1, ConstantsAssumption
  <2>2. CASE o = NoOptions
    BY <2>2, EmptySeq DEF NoOptions
  <2> QED BY <2>1, <2>2
<1>2. SaveOrder \in Seq(Table)
  BY DEF SaveOrder, Table
<1>3. /\ (IF o.sshd THEN <<"sshd">> ELSE <<>>) \in Seq(File)
      /\ (IF o.channel # None THEN <<"repository", "keys">> ELSE <<>>) \in Seq(File)
  <2>1. <<"sshd">> \in Seq(File) /\ <<"repository", "keys">> \in Seq(File) /\ <<>> \in Seq(File)
    BY DEF File
  <2> QED BY <2>1
<1>4. Work(o).files \in Seq(File)
  BY <1>3, ConcatProperties DEF Work
<1>5. Work(o).saves \in Seq(Table)
  BY <1>2 DEF Work
<1> QED BY <1>1, <1>4, <1>5 DEF Work, Part

LEMMA PhaseIs ==
    ASSUME TypeOK
    PROVE  LET loaded == todo.saves = <<>> \/ acc # None IN
           /\ Phase = "read" => pc = "apply" /\ todo.saves # <<>> /\ acc = None
           /\ Phase = "users" => pc = "apply" /\ loaded /\ todo.users # <<>>
           /\ Phase = "groups" => pc = "apply" /\ loaded /\ todo.users = <<>> /\ todo.groups # <<>>
           /\ Phase = "hashes" => /\ pc = "apply" /\ loaded /\ todo.users = <<>> /\ todo.groups = <<>>
                                 /\ todo.hashes # <<>>
           /\ Phase = "saves" => /\ pc = "apply" /\ acc # None /\ todo.saves # <<>>
                                /\ todo.users = <<>> /\ todo.groups = <<>> /\ todo.hashes = <<>>
           /\ Phase = "files" => pc = "apply" /\ todo.saves = <<>> /\ todo.files # <<>>
           /\ Phase = "finish" => pc = "apply"
<1>1. pc \in {"idle", "apply", "home", "chown"}
  BY DEF TypeOK
<1>2. CASE pc # "apply"
  BY <1>1, <1>2 DEF Phase
<1>3. CASE pc = "apply"
  BY <1>3 DEF Phase
<1> QED BY <1>2, <1>3

THEOREM InitInv == Init => IInv
<1> SUFFICES ASSUME Init PROVE IInv
  OBVIOUS
<1>1. TypeOK
  BY WorkType, ConstantsAssumption DEF Init, TypeOK, Id, File
<1>2. SavesOnTrack
  BY WorkType DEF Init, SavesOnTrack, NoOptions, NeedsAccounts
<1> QED BY <1>1, <1>2 DEF Init, IInv, OptsGiven, InstalledOK, InMemoryOK, Ahead, InAddUser, HomesOnTrack, HomesOwned

\* A run takes up a command line.
LEMMA StartStep ==
    ASSUME IInv, NEW o \in Request, Start(o)
    PROVE  IInv'
<1> USE DEF IInv, OptsGiven
<1>1. /\ pc = "idle" /\ pc' = "apply" /\ opts' = o /\ todo' = Work(o) /\ acc' = acc /\ acc = None
      /\ etc' = etc /\ home' = home /\ conf' = conf /\ today' = today /\ packages' = packages
      /\ result' = "none" /\ done' \in {done, None}
  BY DEF Start, world, InMemoryOK
<1>2. TypeOK'
  BY <1>1, WorkType DEF TypeOK
<1>3. SavesOnTrack'
  BY <1>1, WorkType DEF SavesOnTrack, NeedsAccounts
<1>4. InstalledOK' /\ HomesOwned'
  BY <1>1 DEF InstalledOK, HomesOwned, TablesOK, WellFormed, Named, Sized, Fillable, Known, Has
<1>5. InMemoryOK' /\ Ahead' /\ InAddUser' /\ HomesOnTrack'
  BY <1>1 DEF InMemoryOK, Ahead, InAddUser, HomesOnTrack
<1> QED BY <1>1, <1>2, <1>3, <1>4, <1>5

LEMMA ReadStep ==
    ASSUME IInv, ReadTables
    PROVE  IInv'
<1> USE DEF IInv, OptsGiven
<1>1. /\ pc = "apply" /\ pc' = pc /\ opts' = opts /\ todo' = todo
      /\ acc = None /\ acc' = etc /\ etc # None
      /\ etc' = etc /\ home' = home /\ conf' = conf /\ today' = today /\ packages' = packages
      /\ result' = result /\ done' = done
  BY PhaseIs DEF ReadTables, world
<1>2. TypeOK'
  BY <1>1 DEF TypeOK
<1>3. InstalledOK' /\ InMemoryOK' /\ HomesOwned'
  BY <1>1 DEF InstalledOK, InMemoryOK, HomesOwned, TablesOK, WellFormed, Named, Sized, Fillable, Known, Has
<1>4. Ahead' /\ SavesOnTrack' /\ InAddUser' /\ HomesOnTrack'
  BY <1>1 DEF Ahead, SavesOnTrack, InAddUser, HomesOnTrack, HomesOwned, Has, User
<1> QED BY <1>1, <1>2, <1>3, <1>4

\* add_user, up to the home directory.
LEMMA AddUserStep ==
    ASSUME IInv, AddUser
    PROVE  IInv'
<1> USE DEF IInv, OptsGiven
<1>1. /\ pc = "apply" /\ todo.users # <<>> /\ acc # None
      /\ ~(Created(acc, User) /\ Has(acc.group, User))
      /\ acc' = WithUser(acc, User)
      /\ etc' = etc /\ home' = home /\ conf' = conf /\ today' = today /\ packages' = packages
      /\ opts' = opts /\ result' = result /\ done' = done
  BY PhaseIs DEF AddUser, world, RefusedUser, SavesOnTrack, SaveOrder
<1>2. /\ IF Created(acc, User) THEN pc' = "home" /\ todo' = todo
                               ELSE pc' = pc /\ todo' = [todo EXCEPT !.users = Tail(@)]
  BY DEF AddUser, Pop
<1>3. /\ User \in Name /\ today \in Nat /\ acc \in Tables /\ TablesOK(acc)
      /\ Tail(todo.users) \in Seq(Name)
  BY <1>1, HeadTailProperties DEF TypeOK, User, Part, InMemoryOK
<1>4. /\ acc' \in Tables /\ TablesOK(acc') /\ acc' # None
      /\ Has(acc'.passwd, User)
      /\ ~Created(acc, User) => acc'.passwd = acc.passwd
      /\ \A p \in acc'.passwd \ acc.passwd : p.name = User
      /\ acc.passwd \subseteq acc'.passwd /\ acc.group \subseteq acc'.group
  BY <1>1, <1>3, WithUserOK, ConstantsAssumption
<1>5. /\ todo' \in Part /\ todo'.saves = todo.saves /\ todo.saves = SaveOrder
      /\ todo'.groups = todo.groups /\ todo'.hashes = todo.hashes
  BY <1>1, <1>2, <1>3 DEF TypeOK, Part, SavesOnTrack
<1>6. ~Created(acc, User) => pc' = "apply"
  BY <1>1, <1>2
<1>7. Created(acc, User) => User' = User /\ todo' = todo /\ pc' = "home"
  BY <1>2 DEF User
<1> HIDE DEF User
<1>8. TypeOK'
  BY <1>1, <1>4, <1>5, <1>6, <1>7 DEF TypeOK
<1>9. InstalledOK' /\ HomesOwned' /\ InMemoryOK'
  BY <1>1, <1>4, <1>6, <1>7 DEF InstalledOK, HomesOwned, InMemoryOK, TablesOK, WellFormed, Named, Sized,
                                Fillable, Known, Has
<1>10. Ahead'
  <2>1. /\ etc.passwd \subseteq acc.passwd
        /\ \A p \in acc.passwd \ etc.passwd : ~Has(etc.group, p.name)
        /\ \A g \in etc.group : Has(acc.group, g.name)
    BY <1>1 DEF Ahead
  <2>2. Created(acc, User) => ~Has(etc.group, User)
    BY <1>1, <2>1 DEF Has
  <2> QED BY <1>1, <1>4, <2>1, <2>2 DEF Ahead, Has
<1>11. SavesOnTrack'
  BY <1>1, <1>4, <1>5 DEF SavesOnTrack
<1>12. InAddUser'
  BY <1>1, <1>4, <1>6, <1>7 DEF InAddUser, Created, Has, Ahead
<1>13. HomesOnTrack'
  BY <1>1, <1>4, <1>6, <1>7 DEF HomesOnTrack
<1> QED BY <1>1, <1>6, <1>7, <1>8, <1>9, <1>10, <1>11, <1>12, <1>13

\* The home directory is made, and given to the account.
LEMMA HomeStep ==
    ASSUME IInv, MakeHome \/ OwnHome
    PROVE  IInv'
<1> USE DEF IInv, OptsGiven
<1>1. /\ acc' = acc /\ etc' = etc /\ conf' = conf /\ today' = today /\ packages' = packages
      /\ opts' = opts /\ result' = result /\ done' = done
      /\ acc # None /\ etc # None /\ todo.users # <<>>
      /\ Has(acc.passwd, User) /\ ~Has(etc.passwd, User)
  BY DEF MakeHome, OwnHome, InAddUser, InMemoryOK
<1>2. User \in Name /\ Tail(todo.users) \in Seq(Name)
  BY <1>1, HeadTailProperties DEF TypeOK, User, Part
<1> DEFINE row == Find(acc.passwd, User)
<1>3. row \in acc.passwd /\ row.name = User /\ row.uid \in Nat
  BY <1>1, FindFinds DEF TypeOK, Tables, Account, Id
<1>4. /\ home' \in [Name -> Id \cup {None}]
      /\ \A n \in Name \ {User} : home'[n] = home[n]
  BY <1>2, <1>3 DEF MakeHome, OwnHome, TypeOK, Id
<1>5. /\ todo' \in Part /\ todo'.saves = todo.saves
      /\ todo'.groups = todo.groups /\ todo'.hashes = todo.hashes
      /\ todo.saves = SaveOrder
  BY <1>1, <1>2 DEF MakeHome, OwnHome, Pop, TypeOK, Part, SavesOnTrack
<1>6. TypeOK'
  BY <1>1, <1>4, <1>5 DEF TypeOK, MakeHome, OwnHome
<1>7. InstalledOK' /\ InMemoryOK' /\ Ahead' /\ SavesOnTrack'
  BY <1>1, <1>5 DEF InstalledOK, InMemoryOK, Ahead, SavesOnTrack, MakeHome, OwnHome,
                    TablesOK, WellFormed, Named, Sized, Fillable, Known, Has
<1>8. InAddUser'
  BY <1>1 DEF MakeHome, OwnHome, InAddUser, User, Has
<1>9. HomesOwned'
  <2>1. \A p \in etc.passwd : p.name \in Name \ {User}
    BY <1>1 DEF Has, TypeOK, Tables, Account
  <2> QED BY <1>1, <1>4, <2>1 DEF HomesOwned, Has
<1>10. HomesOnTrack'
  <2> SUFFICES ASSUME AsRoot, NEW p \in acc.passwd, ~Has(packages.tables.passwd, p.name)
               PROVE  home'[p.name] = p.uid \/ (pc' \in {"home", "chown"} /\ p.name = User')
    BY <1>1 DEF HomesOnTrack, Has
  <2>1. CASE p.name # User
    <3>1. home[p.name] = p.uid /\ p.name \in Name
      BY <1>1, <2>1 DEF HomesOnTrack, TypeOK, Tables, Account
    <3> QED BY <1>4, <2>1, <3>1
  <2>2. CASE p.name = User /\ MakeHome
    BY <2>2 DEF MakeHome, User
  <2>3. CASE p.name = User /\ OwnHome
    <3>1. p = row
      BY <1>1, <1>3, <2>3 DEF InMemoryOK, TablesOK, WellFormed, Named
    <3>2. home'[User] = row.uid
      BY <1>2, <2>3 DEF OwnHome, TypeOK
    <3> QED BY <2>3, <3>1, <3>2
  <2> QED BY <2>1, <2>2, <2>3
<1>11. opts' \in Request
  BY <1>1 DEF MakeHome, OwnHome
<1> QED BY <1>11, <1>6, <1>7, <1>8, <1>9, <1>10

\* The options are applied to the tables in memory.
LEMMA OptionStep ==
    ASSUME IInv, AddToGroups \/ SetPasswordHash
    PROVE  IInv'
<1> USE DEF IInv, OptsGiven
<1>1. /\ pc = "apply" /\ pc' = pc /\ acc # None /\ etc # None
      /\ etc' = etc /\ home' = home /\ conf' = conf /\ today' = today /\ packages' = packages
      /\ opts' = opts /\ result' = result /\ done' = done
  BY PhaseIs DEF AddToGroups, SetPasswordHash, world, SavesOnTrack, SaveOrder, InMemoryOK
<1>2. acc \in Tables /\ TablesOK(acc) /\ today \in Nat /\ todo \in Part
  BY <1>1 DEF TypeOK, InMemoryOK
<1>3. /\ acc' \in Tables /\ TablesOK(acc') /\ acc'.passwd = acc.passwd
      /\ \A g \in acc.group : Has(acc'.group, g.name)
      /\ todo' \in Part /\ todo'.users = todo.users /\ todo'.saves = todo.saves /\ todo.saves = SaveOrder
  <2>1. CASE AddToGroups
    <3>1. todo.groups # <<>>
      BY <2>1, PhaseIs DEF AddToGroups
    <3>2. Join \in Membership /\ Tail(todo.groups) \in Seq(Membership)
      <4>1. todo.groups \in Seq(Membership)
        BY <1>2 DEF Part
      <4> QED BY <3>1, <4>1, HeadTailProperties DEF Join
    <3> DEFINE u == [acc EXCEPT !.group = WithMember(@, Join.groups, Join.name),
                                !.gshadow = WithMember(@, Join.groups, Join.name)]
    <3>5. Join.name \in Name
      BY <3>2 DEF Membership
    <3>6. /\ u \in Tables /\ TablesOK(u) /\ u.passwd = acc.passwd
          /\ \A g \in acc.group : \E h \in u.group : h.name = g.name /\ h.gid = g.gid
                                                       /\ g.members \subseteq h.members
      BY <1>2, <3>5, JoinOK
    <3>7. acc' = u
      BY <2>1 DEF AddToGroups
    <3> HIDE DEF u
    <3>3. /\ acc' \in Tables /\ TablesOK(acc') /\ acc'.passwd = acc.passwd
          /\ \A g \in acc.group : \E h \in acc'.group : h.name = g.name
      BY <3>6, <3>7
    <3>4. todo' \in Part /\ todo'.users = todo.users /\ todo'.saves = todo.saves
      BY <1>2, <2>1, <3>2 DEF AddToGroups, Pop, Part
    <3> QED BY <3>1, <3>3, <3>4 DEF Has, SavesOnTrack
  <2>2. CASE SetPasswordHash
    <3>1. todo.hashes # <<>>
      BY <2>2, PhaseIs DEF SetPasswordHash
    <3>2. Pass \in Password /\ Tail(todo.hashes) \in Seq(Password)
      <4>1. todo.hashes \in Seq(Password)
        BY <1>2 DEF Part
      <4> QED BY <3>1, <4>1, HeadTailProperties DEF Pass
    <3>5. Pass.name \in Name /\ Pass.hash \in Hash
      BY <3>2 DEF Password
    <3>3. acc' \in Tables /\ TablesOK(acc') /\ acc'.passwd = acc.passwd /\ acc'.group = acc.group
      BY <1>2, <2>2, <3>5, PassOK DEF SetPasswordHash
    <3>4. todo' \in Part /\ todo'.users = todo.users /\ todo'.saves = todo.saves
      BY <1>2, <2>2, <3>2 DEF SetPasswordHash, Pop, Part
    <3> QED BY <3>1, <3>3, <3>4 DEF Has, SavesOnTrack
  <2> QED BY <2>1, <2>2
<1>4. acc' # None
  BY <1>3, ConstantsAssumption
<1>5. TypeOK'
  BY <1>1, <1>3 DEF TypeOK
<1>6. InstalledOK' /\ HomesOwned' /\ InMemoryOK'
  BY <1>1, <1>3 DEF InstalledOK, HomesOwned, InMemoryOK, TablesOK, WellFormed, Named, Sized, Fillable, Known, Has
<1>7. Ahead' /\ SavesOnTrack' /\ InAddUser' /\ HomesOnTrack'
  BY <1>1, <1>3, <1>4 DEF Ahead, SavesOnTrack, InAddUser, HomesOnTrack, Has
<1> QED BY <1>1, <1>5, <1>6, <1>7

\* A table is saved.
LEMMA SaveStep ==
    ASSUME IInv, SaveTable
    PROVE  IInv'
<1> USE DEF IInv, OptsGiven
<1> DEFINE x == Head(todo.saves)
<1>1. /\ pc = "apply" /\ pc' = pc /\ acc # None /\ etc # None /\ acc' = acc
      /\ etc' = [etc EXCEPT ![x] = acc[x]]
      /\ todo' = [todo EXCEPT !.saves = Tail(@)]
      /\ home' = home /\ conf' = conf /\ today' = today /\ packages' = packages
      /\ opts' = opts /\ result' = result /\ done' = done
      /\ todo.saves # <<>> /\ todo.users = <<>> /\ todo.groups = <<>> /\ todo.hashes = <<>>
  BY PhaseIs DEF SaveTable, Pop, InMemoryOK
<1>2. etc \in Tables /\ acc \in Tables /\ todo \in Part
  BY <1>1 DEF TypeOK
<1>3. x \in Table /\ Tail(todo.saves) \in Seq(Table)
  BY <1>1, <1>2, HeadTailProperties DEF Part
<1>4. /\ todo' \in Part /\ todo'.saves = Tail(todo.saves)
      /\ todo'.users = <<>> /\ todo'.groups = <<>> /\ todo'.hashes = <<>>
  BY <1>1, <1>2, <1>3 DEF Part
<1>5. /\ etc' \in Tables
      /\ etc'.passwd = IF x = "passwd" THEN acc.passwd ELSE etc.passwd
      /\ etc'.group = IF x = "group" THEN acc.group ELSE etc.group
      /\ etc'.shadow = IF x = "shadow" THEN acc.shadow ELSE etc.shadow
      /\ etc'.gshadow = IF x = "gshadow" THEN acc.gshadow ELSE etc.gshadow
  BY <1>1, <1>2, <1>3, SaveFields
<1>6. /\ x = "passwd" <=> todo.saves = SaveOrder
      /\ Tail(todo.saves) \in {<<"group", "shadow", "gshadow">>, <<"shadow", "gshadow">>, <<"gshadow">>, <<>>}
  <2> DEFINE g == <<"group", "shadow", "gshadow">>
             s == <<"shadow", "gshadow">>
             h == <<"gshadow">>
  <2>1. /\ Head(SaveOrder) = "passwd" /\ Tail(SaveOrder) = g
        /\ Head(g) = "group" /\ Tail(g) = s
        /\ Head(s) = "shadow" /\ Tail(s) = h
        /\ Head(h) = "gshadow" /\ Tail(h) = <<>>
    BY DEF SaveOrder
  <2>2. todo.saves \in {SaveOrder, g, s, h}
    BY <1>1 DEF SavesOnTrack
  <2> HIDE DEF g, s, h
  <2>3. /\ x = "passwd" <=> todo.saves = SaveOrder
        /\ Tail(todo.saves) \in {g, s, h, <<>>}
    BY <2>1, <2>2
  <2> QED BY <2>3 DEF g, s, h
<1> HIDE DEF x
<1>7. etc'.passwd = acc.passwd
  BY <1>1, <1>5, <1>6 DEF SavesOnTrack
<1>8. TypeOK'
  BY <1>1, <1>4, <1>5 DEF TypeOK
<1>9. etc' # None
  BY <1>5, ConstantsAssumption
<1>10. packages # None /\ TablesOK(etc) /\ TablesOK(acc)
  BY <1>1 DEF InstalledOK, InMemoryOK
<1>11. WellFormed(etc') /\ Sized(etc')
  BY <1>5, <1>10 DEF TablesOK, WellFormed, Sized
<1>12. Fillable(etc')
  <2>1. \A p \in acc.passwd : Has(etc.group, p.name) => \E g \in etc.group : g.gid = p.gid
    BY <1>1, <1>10 DEF Ahead, TablesOK, Fillable
  <2>2. \A p \in acc.passwd : Has(acc.group, p.name) => \E g \in acc.group : g.gid = p.gid
    BY <1>10 DEF TablesOK, Fillable
  <2> QED BY <1>5, <1>7, <2>1, <2>2 DEF Fillable
<1>13. \A g \in etc'.group : Has(etc'.passwd, g.name) \/ Has(packages.tables.group, g.name)
  <2>1. \A g \in etc.group : Has(acc.passwd, g.name) \/ Has(packages.tables.group, g.name)
    BY <1>1, <1>10 DEF Ahead, TablesOK, Known, Has
  <2>2. \A g \in acc.group : Has(acc.passwd, g.name) \/ Has(packages.tables.group, g.name)
    BY <1>10 DEF TablesOK, Known
  <2> QED BY <1>5, <1>7, <2>1, <2>2
<1>14. InstalledOK'
  BY <1>1, <1>10, <1>11, <1>12, <1>13 DEF InstalledOK, TablesOK, Known, WellFormed, Named, Sized, Fillable, Has
<1>15. InMemoryOK'
  BY <1>1, <1>9, <1>10 DEF InMemoryOK, TablesOK, Known, WellFormed, Named, Sized, Fillable, Has
<1>16. Ahead'
  BY <1>1, <1>5, <1>7 DEF Ahead, Has
<1>17. SavesOnTrack'
  BY <1>1, <1>4, <1>6, <1>7 DEF SavesOnTrack
<1>18. InAddUser' /\ HomesOnTrack' /\ HomesOwned'
  BY <1>1, <1>7 DEF InAddUser, HomesOnTrack, HomesOwned, Has
<1> QED BY <1>1, <1>8, <1>14, <1>15, <1>16, <1>17, <1>18

LEMMA ConfStep ==
    ASSUME IInv, WriteConf
    PROVE  IInv'
<1> USE DEF IInv, OptsGiven
<1> DEFINE f == Head(todo.files)
<1>1. /\ pc = "apply" /\ pc' = pc /\ acc' = acc /\ etc' = etc /\ home' = home
      /\ today' = today /\ packages' = packages
      /\ opts' = opts /\ result' = result /\ done' = done /\ todo.files # <<>>
  BY PhaseIs DEF WriteConf
<1>2. f \in File /\ Tail(todo.files) \in Seq(File)
  BY <1>1, HeadTailProperties DEF TypeOK, Part
<1>3. /\ todo' \in Part /\ todo'.saves = todo.saves /\ todo'.users = todo.users
      /\ todo'.groups = todo.groups /\ todo'.hashes = todo.hashes
  BY <1>2 DEF WriteConf, Pop, TypeOK, Part
<1>4. Wanted(f) \in Channel \cup {"provisioned", None}
  <2>1. opts.channel \in Channel \cup {None}
    BY ConstantsAssumption DEF TypeOK, NoOptions
  <2> QED BY <2>1 DEF Wanted
<1>5. conf' \in [File -> Channel \cup {"provisioned", None}]
  BY <1>2, <1>4 DEF WriteConf, TypeOK
<1>6. TypeOK'
  BY <1>1, <1>3, <1>5 DEF TypeOK
<1>7. InstalledOK' /\ InMemoryOK' /\ HomesOwned'
  BY <1>1 DEF InstalledOK, HomesOwned, InMemoryOK, TablesOK, WellFormed, Named, Sized, Fillable, Known, Has
<1>8. Ahead' /\ SavesOnTrack' /\ InAddUser' /\ HomesOnTrack'
  BY <1>1, <1>3 DEF Ahead, SavesOnTrack, InAddUser, HomesOnTrack, Has
<1> QED BY <1>1, <1>6, <1>7, <1>8

\* The process ends.
LEMMA ExitStep ==
    ASSUME IInv, Finish \/ Refuse \/ Stop
    PROVE  IInv'
<1> USE DEF IInv, OptsGiven
<1>1. /\ pc' = "idle" /\ todo' = Work(NoOptions) /\ acc' = None
      /\ etc' = etc /\ home' = home /\ conf' = conf /\ today' = today /\ packages' = packages
      /\ opts' = opts /\ result' \in {"ok", "refused", "stopped"}
      /\ done' = done \/ (Finish /\ done' = opts)
  BY DEF Finish, Refuse, Stop, Exit, world
<1>2. TypeOK'
  <2>1. Finish => opts \in Request
    BY PhaseIs DEF Finish
  <2> QED BY <1>1, <2>1, WorkType DEF TypeOK
<1>3. InstalledOK' /\ InMemoryOK' /\ HomesOwned'
  BY <1>1 DEF InstalledOK, HomesOwned, InMemoryOK, TablesOK, WellFormed, Named, Sized, Fillable, Known, Has
<1>4. Ahead' /\ SavesOnTrack' /\ InAddUser' /\ HomesOnTrack'
  BY <1>1, WorkType DEF Ahead, SavesOnTrack, InAddUser, HomesOnTrack, NeedsAccounts, NoOptions
<1> QED BY <1>1, <1>2, <1>3, <1>4

\* What happens between the runs.
LEMMA OutsideStep ==
    ASSUME IInv, (\E s \in Shipment : Install(s)) \/ NextDay
    PROVE  IInv'
<1> USE DEF IInv, OptsGiven
<1>1. CASE NextDay
  <2>1. /\ today' = today + 1 /\ etc' = etc /\ home' = home /\ conf' = conf /\ packages' = packages
        /\ pc' = pc /\ opts' = opts /\ todo' = todo /\ acc' = acc /\ result' = result /\ done' = done
    BY <1>1 DEF NextDay
  <2> QED BY <2>1 DEF TypeOK, InstalledOK, HomesOwned, InMemoryOK, Ahead, SavesOnTrack, InAddUser,
                      HomesOnTrack, User, TablesOK, WellFormed, Named, Sized, Fillable, Known, Has
<1>2. CASE \E s \in Shipment : Install(s)
  <2>1. PICK s \in Shipment : Install(s)
    BY <1>2
  <2>2. /\ pc = "idle" /\ pc' = pc /\ packages' = s /\ etc' = s.tables
        /\ conf' = conf /\ today' = today /\ opts' = opts /\ todo' = todo /\ acc' = acc
        /\ result' = "none" /\ done' = None /\ acc = None
    BY <2>1 DEF Install, InMemoryOK
  <2>3. s.tables \in Tables /\ s # None
    BY ConstantsAssumption
  <2>4. home' \in [Name -> Id \cup {None}]
    BY <2>1 DEF Install, TypeOK, Id
  <2>5. TypeOK'
    BY <2>2, <2>3, <2>4 DEF TypeOK
  <2>6. TablesOK(s.tables)'
    BY <2>2, ShipmentAssumption DEF TablesOK, Sized, Fillable, Known, Has, WellFormed, Named
  <2>7. InstalledOK' /\ InMemoryOK' /\ HomesOwned'
    BY <2>2, <2>3, <2>6 DEF InstalledOK, HomesOwned, InMemoryOK, TablesOK, WellFormed, Named, Sized,
                            Fillable, Known, Has
  <2>8. Ahead' /\ SavesOnTrack' /\ InAddUser' /\ HomesOnTrack'
    BY <2>2 DEF Ahead, SavesOnTrack, InAddUser, HomesOnTrack
  <2> QED BY <2>2, <2>5, <2>7, <2>8
<1> QED BY <1>1, <1>2

THEOREM NextInv == IInv /\ [Next]_vars => IInv'
<1> SUFFICES ASSUME IInv, [Next]_vars PROVE IInv'
  OBVIOUS
<1>1. CASE UNCHANGED vars
  BY <1>1 DEF vars, IInv, OptsGiven, TypeOK, InstalledOK, HomesOwned, InMemoryOK, Ahead, SavesOnTrack,
              InAddUser, HomesOnTrack, User, TablesOK, WellFormed, Named, Sized, Fillable, Known, Has
<1>2. CASE \E o \in Request : Start(o)
  BY <1>2, StartStep
<1>3. CASE Run
  BY <1>3, ReadStep, AddUserStep, HomeStep, OptionStep, SaveStep, ConfStep, ExitStep DEF Run
<1>4. CASE Trouble
  BY <1>4, ExitStep, OutsideStep DEF Trouble
<1>5. CASE NextDay
  BY <1>5, OutsideStep
<1> QED BY <1>1, <1>2, <1>3, <1>4, <1>5 DEF Next

THEOREM Invariant == Spec => []IInv
BY InitInv, NextInv, PTL DEF Spec

-----------------------------------------------------------------------------
(* What an option asks of the tables. *)

\* The account of n has all its rows.
Complete(t, n) ==
    /\ Has(t.passwd, n) /\ Has(t.shadow, n)
    /\ \A p \in t.passwd : p.name = n => \E g \in t.group : g.gid = p.gid
    /\ Has(t.group, n) => Has(t.gshadow, n)

Joined(t, j) ==
    /\ Has(t.passwd, j.name) /\ \A g \in j.groups : Has(t.group, g)
    /\ \A row \in t.group : row.name \in j.groups => j.name \in row.members
    /\ \A row \in t.gshadow : row.name \in j.groups => j.name \in row.members

HasHash(t, p) ==
    /\ Has(t.passwd, p.name) /\ Has(t.shadow, p.name)
    /\ \A row \in t.shadow : row.name = p.name => row.hash = p.hash

\* add_user completes an account, and spoils no other one.
LEMMA WithUserRows ==
    ASSUME NEW t \in Tables, TablesOK(t), NEW n \in Name, today \in Nat,
           ~(Created(t, n) /\ Has(t.group, n))
    PROVE  LET u == WithUser(t, n) IN
           /\ Complete(u, n)
           /\ \A m \in Name : Complete(t, m) => Complete(u, m)
<1> DEFINE a == WithAccount(t, n)
           b == WithGroup(a, n)
           c == WithGroupSecret(b, n)
           d == WithSecret(c, n)
<1>1. /\ a \in Tables /\ TablesOK(a) /\ Has(a.passwd, n)
      /\ \A p \in a.passwd \ t.passwd : p.name = n
      /\ t.passwd \subseteq a.passwd
      /\ a.group = t.group /\ a.shadow = t.shadow /\ a.gshadow = t.gshadow
  BY WithAccountOK
<1> HIDE DEF a
<1>2. /\ b \in Tables /\ TablesOK(b) /\ a.group \subseteq b.group
      /\ b.passwd = a.passwd /\ b.shadow = a.shadow /\ b.gshadow = a.gshadow
  BY <1>1, WithGroupOK
<1>3. /\ \E g \in b.group : g.gid = Find(a.passwd, n).gid
      /\ \A g \in b.group \ a.group : g.name = n
  <2> DEFINE row == [name |-> n, gid |-> Find(a.passwd, n).gid, members |-> {}]
  <2>1. row.name = n /\ row.gid = Find(a.passwd, n).gid
    OBVIOUS
  <2>2. \/ b.group = a.group \cup {row}
        \/ b = a /\ \E g \in a.group : g.gid = Find(a.passwd, n).gid
    <3>1. CASE \E g \in a.group : g.gid = Find(a.passwd, n).gid
      BY <3>1 DEF b, WithGroup
    <3>2. CASE ~\E g \in a.group : g.gid = Find(a.passwd, n).gid
      BY <1>1, <3>2 DEF b, WithGroup, Tables
    <3> QED BY <3>1, <3>2
  <2> HIDE DEF row
  <2> QED BY <2>1, <2>2
<1>4. \A p \in a.passwd : p.name = n => p = Find(a.passwd, n)
  BY <1>1, FindFinds DEF TablesOK, WellFormed, Named
<1> HIDE DEF b
<1>5. /\ c \in Tables /\ TablesOK(c) /\ b.gshadow \subseteq c.gshadow
      /\ c.passwd = b.passwd /\ c.shadow = b.shadow /\ c.group = b.group
  BY <1>2, WithGroupSecretOK
<1>6. Has(c.group, n) => Has(c.gshadow, n)
  <2>1. CASE Has(b.group, n) /\ ~Has(b.gshadow, n)
    <3> DEFINE row == [name |-> n, members |-> {}]
    <3>1. c.gshadow = b.gshadow \cup {row} /\ row.name = n
      BY <1>2, <2>1 DEF c, WithGroupSecret, Tables
    <3> HIDE DEF row
    <3> QED BY <3>1 DEF Has
  <2>2. CASE ~(Has(b.group, n) /\ ~Has(b.gshadow, n))
    BY <2>2 DEF c, WithGroupSecret
  <2> QED BY <2>1, <2>2
<1> HIDE DEF c
<1>7. /\ d \in Tables /\ TablesOK(d) /\ c.shadow \subseteq d.shadow
      /\ d.passwd = c.passwd /\ d.gshadow = c.gshadow /\ d.group = c.group
  BY <1>5, WithSecretOK
<1>8. Has(d.shadow, n)
  <2>1. CASE Has(c.shadow, n)
    BY <1>7, <2>1 DEF Has
  <2>2. CASE ~Has(c.shadow, n)
    <3> DEFINE row == [name |-> n, hash |-> Locked, day |-> today]
    <3>1. d.shadow = c.shadow \cup {row} /\ row.name = n
      BY <1>5, <2>2 DEF d, WithSecret, Tables
    <3> HIDE DEF row
    <3> QED BY <3>1 DEF Has
  <2> QED BY <2>1, <2>2
<1>9. WithUser(t, n) = d
  BY DEF WithUser, a, b, c, d
<1> HIDE DEF d
<1>10. Complete(d, n)
  BY <1>1, <1>2, <1>3, <1>4, <1>5, <1>6, <1>7, <1>8 DEF Complete, Has
<1>11. ASSUME NEW m \in Name \ {n}, Complete(t, m)
       PROVE  Complete(d, m)
  <2>1. /\ t.passwd \subseteq d.passwd /\ t.group \subseteq d.group
        /\ t.shadow \subseteq d.shadow /\ t.gshadow \subseteq d.gshadow
        /\ \A p \in d.passwd \ t.passwd : p.name = n
        /\ \A g \in d.group \ t.group : g.name = n
    BY <1>1, <1>2, <1>3, <1>5, <1>7
  <2> QED BY <1>11, <2>1 DEF Complete, Has
<1> QED BY <1>9, <1>10, <1>11

\* add_user leaves a complete account alone.
LEMMA UserAgain ==
    ASSUME NEW t \in Tables, NEW n \in Name, Complete(t, n)
    PROVE  WithUser(t, n) = t /\ ~Created(t, n)
<1>1. Find(t.passwd, n) \in t.passwd /\ Find(t.passwd, n).name = n
  BY FindFinds DEF Complete
<1>2. WithAccount(t, n) = t /\ ~Created(t, n)
  BY DEF WithAccount, Created, Complete
<1>3. WithGroup(t, n) = t
  BY <1>1 DEF WithGroup, Complete
<1>4. WithGroupSecret(t, n) = t /\ WithSecret(t, n) = t
  BY DEF WithGroupSecret, WithSecret, Complete
<1> QED BY <1>2, <1>3, <1>4 DEF WithUser

\* add_to_groups joins the groups, and no account leaves one.
LEMMA JoinRows ==
    ASSUME NEW t \in Tables, NEW j \in Membership
    PROVE  LET u == [t EXCEPT !.group = WithMember(@, j.groups, j.name),
                              !.gshadow = WithMember(@, j.groups, j.name)] IN
           /\ Has(t.passwd, j.name) /\ (\A g \in j.groups : Has(t.group, g)) => Joined(u, j)
           /\ \A k \in Membership : Joined(t, k) => Joined(u, k)
           /\ \A m \in Name : Complete(t, m) => Complete(u, m)
           /\ Joined(t, j) => u = t
<1> DEFINE F(row) == IF row.name \in j.groups THEN [row EXCEPT !.members = @ \cup {j.name}] ELSE row
           wg == WithMember(t.group, j.groups, j.name)
           ws == WithMember(t.gshadow, j.groups, j.name)
           u == [t EXCEPT !.group = wg, !.gshadow = ws]
<1>1. wg = {F(row) : row \in t.group} /\ ws = {F(row) : row \in t.gshadow}
  BY DEF WithMember, wg, ws
<1> HIDE DEF wg, ws
<1>2. /\ u.passwd = t.passwd /\ u.shadow = t.shadow /\ u.group = wg /\ u.gshadow = ws
      /\ wg = t.group /\ ws = t.gshadow => u = t
  BY DEF Tables
<1>3. \A row \in t.group : /\ F(row).name = row.name /\ F(row).gid = row.gid
                           /\ row.members \subseteq F(row).members
                           /\ row.name \in j.groups => j.name \in F(row).members
                           /\ (row.name \in j.groups => j.name \in row.members) => F(row) = row
  BY DEF Tables, Group
<1>4. \A row \in t.gshadow : /\ F(row).name = row.name
                             /\ row.members \subseteq F(row).members
                             /\ row.name \in j.groups => j.name \in F(row).members
                             /\ (row.name \in j.groups => j.name \in row.members) => F(row) = row
  BY DEF Tables, GroupSecret
<1> HIDE DEF F, u
<1>5. \A n : /\ Has(t.group, n) <=> Has(wg, n)
             /\ Has(t.gshadow, n) <=> Has(ws, n)
  BY <1>1, <1>3, <1>4 DEF Has
<1>6. ASSUME Has(t.passwd, j.name), \A g \in j.groups : Has(t.group, g)
      PROVE  Joined(u, j)
  <2>1. \A row \in wg : row.name \in j.groups => j.name \in row.members
    BY <1>1, <1>3
  <2>2. \A row \in ws : row.name \in j.groups => j.name \in row.members
    BY <1>1, <1>4
  <2> QED BY <1>2, <1>5, <1>6, <2>1, <2>2 DEF Joined
<1>7. ASSUME NEW k \in Membership, Joined(t, k)
      PROVE  Joined(u, k)
  <2>1. \A row \in t.group : row.name \in k.groups => k.name \in F(row).members
    BY <1>3, <1>7 DEF Joined
  <2>2. \A row \in t.gshadow : row.name \in k.groups => k.name \in F(row).members
    BY <1>4, <1>7 DEF Joined
  <2>3. \A row \in wg : row.name \in k.groups => k.name \in row.members
    BY <1>1, <1>3, <2>1
  <2>4. \A row \in ws : row.name \in k.groups => k.name \in row.members
    BY <1>1, <1>4, <2>2
  <2> QED BY <1>2, <1>5, <1>7, <2>3, <2>4 DEF Joined
<1>8. ASSUME NEW m \in Name, Complete(t, m)
      PROVE  Complete(u, m)
  BY <1>1, <1>2, <1>3, <1>5, <1>8 DEF Complete
<1>9. ASSUME Joined(t, j)
      PROVE  u = t
  <2>1. wg = t.group
    BY <1>1, <1>3, <1>9 DEF Joined
  <2>2. ws = t.gshadow
    BY <1>1, <1>4, <1>9 DEF Joined
  <2> QED BY <1>2, <2>1, <2>2
<1> QED BY <1>6, <1>7, <1>8, <1>9 DEF u, wg, ws

\* set_password_hash sets one password.
LEMMA PassRows ==
    ASSUME NEW t \in Tables, NEW p \in Password
    PROVE  LET u == [t EXCEPT !.shadow = WithHash(@, p.name, p.hash)] IN
           /\ Has(t.passwd, p.name) /\ Has(t.shadow, p.name) => HasHash(u, p)
           /\ \A q \in Password : q.name # p.name /\ HasHash(t, q) => HasHash(u, q)
           /\ \A j \in Membership : Joined(t, j) => Joined(u, j)
           /\ \A m \in Name : Complete(t, m) => Complete(u, m)
           /\ HasHash(t, p) => u = t
<1> DEFINE F(row) == IF row.name = p.name /\ row.hash # p.hash
                     THEN [row EXCEPT !.hash = p.hash, !.day = today] ELSE row
           w == WithHash(t.shadow, p.name, p.hash)
           u == [t EXCEPT !.shadow = w]
<1>1. w = {F(row) : row \in t.shadow}
  BY DEF WithHash, w
<1> HIDE DEF w
<1>2. /\ u.passwd = t.passwd /\ u.group = t.group /\ u.gshadow = t.gshadow /\ u.shadow = w
      /\ w = t.shadow => u = t
  BY DEF Tables
<1>3. \A row \in t.shadow : /\ F(row).name = row.name
                            /\ row.name = p.name => F(row).hash = p.hash
                            /\ row.name # p.name \/ row.hash = p.hash => F(row) = row
  BY DEF Tables, Secret
<1> HIDE DEF F, u
<1>4. \A n : Has(t.shadow, n) <=> Has(w, n)
  BY <1>1, <1>3 DEF Has
<1>5. ASSUME Has(t.passwd, p.name), Has(t.shadow, p.name)
      PROVE  HasHash(u, p)
  BY <1>1, <1>2, <1>3, <1>4, <1>5 DEF HasHash
<1>6. ASSUME NEW q \in Password, q.name # p.name, HasHash(t, q)
      PROVE  HasHash(u, q)
  BY <1>1, <1>2, <1>3, <1>4, <1>6 DEF HasHash
<1>7. /\ \A j \in Membership : Joined(t, j) => Joined(u, j)
      /\ \A m \in Name : Complete(t, m) => Complete(u, m)
  BY <1>2, <1>4 DEF Joined, Complete
<1>8. ASSUME HasHash(t, p)
      PROVE  u = t
  <2>1. w = t.shadow
    BY <1>1, <1>3, <1>8 DEF HasHash
  <2> QED BY <1>2, <2>1
<1> QED BY <1>5, <1>6, <1>7, <1>8 DEF u, w

-----------------------------------------------------------------------------
(* What is left to do of a command line, and what has been done. *)

\* t is what is left of s.
Left(t, s) == Len(t) <= Len(s) /\ \A i \in 1..Len(t) : t[i] = s[Len(s) - Len(t) + i]

Passed(t, s) == 1..(Len(s) - Len(t))

IsIn(x, s) == \E i \in 1..Len(s) : s[i] = x

OptionsLeft ==
    pc # "idle" =>
        /\ Left(todo.users, opts.users) /\ Left(todo.groups, opts.groups)
        /\ Left(todo.hashes, opts.hashes)
        /\ todo.users # <<>> => todo.groups = opts.groups
        /\ todo.users # <<>> \/ todo.groups # <<>> => todo.hashes = opts.hashes
        /\ todo.saves # <<>> => NeedsAccounts(opts)
        /\ acc = None => /\ todo.users = opts.users /\ todo.groups = opts.groups
                         /\ todo.hashes = opts.hashes
                         /\ todo.saves = <<>> => ~NeedsAccounts(opts)

\* The options that have been applied.
InMemoryDone ==
    acc # None =>
        /\ pc \in {"home", "chown"} => Complete(acc, User)
        /\ \A i \in Passed(todo.users, opts.users) : Complete(acc, opts.users[i])
        /\ \A i \in Passed(todo.groups, opts.groups) : Joined(acc, opts.groups[i])
        /\ \A i \in Passed(todo.hashes, opts.hashes) : HasHash(acc, opts.hashes[i])

Saved == acc # None => \A x \in Table : etc[x] = acc[x] \/ IsIn(x, todo.saves)

\* u has the rows of t, with more members and the passwords that were asked for.
Extends(t, u) ==
    /\ t.passwd \subseteq u.passwd
    /\ \A g \in t.group : \E h \in u.group : h.name = g.name /\ h.gid = g.gid /\ g.members \subseteq h.members
    /\ \A s \in t.shadow : \E r \in u.shadow : r = s \/ (r.name = s.name /\ Asked(r.name, r.hash))
    /\ \A g \in t.gshadow : \E h \in u.gshadow : h.name = g.name /\ g.members \subseteq h.members

Grown == acc # None => Extends(etc, acc)

WantsFile(o, f) == (f = "sshd" /\ o.sshd) \/ (f \in {"repository", "keys"} /\ o.channel # None)

Content(o, f) == IF f = "repository" THEN o.channel ELSE "provisioned"

FilesOnTrack ==
    pc # "idle" =>
        \A f \in File : /\ WantsFile(opts, f) => IsIn(f, todo.files) \/ conf[f] = Content(opts, f)
                        /\ IsIn(f, todo.files) => WantsFile(opts, f)

\* The installation is as o asks for.
Settled(o) ==
    /\ NeedsAccounts(o) => etc # None
    /\ \A i \in 1..Len(o.users) : Complete(etc, o.users[i])
    /\ \A i \in 1..Len(o.groups) : Joined(etc, o.groups[i])
    /\ \A i \in 1..Len(o.hashes) : HasHash(etc, o.hashes[i])
    /\ \A f \in File : WantsFile(o, f) => conf[f] = Content(o, f)

DoneOK == done # None => Settled(done)

\* A run with the options of the last successful one finds nothing to change.
Rerun == done # None /\ pc # "idle" => opts = done /\ pc = "apply" /\ (acc # None => acc = etc)

ResultOK ==
    /\ result = "ok" => pc = "idle" /\ done = opts /\ opts \in Request
    /\ pc # "idle" => result = "none"

RunsOK == OptionsLeft /\ InMemoryDone /\ Saved /\ Grown /\ FilesOnTrack
DoneRunsOK == DoneOK /\ Rerun /\ ResultOK

LEMMA TailLeft ==
    ASSUME NEW S, NEW t \in Seq(S), NEW s \in Seq(S), Left(t, s), t # <<>>
    PROVE  \E k \in 1..Len(s) :
              /\ Head(t) = s[k] /\ Head(t) \in S
              /\ Tail(t) \in Seq(S) /\ Left(Tail(t), s)
              /\ Passed(Tail(t), s) = Passed(t, s) \cup {k} /\ k \notin Passed(t, s)
<1> DEFINE k == Len(s) - Len(t) + 1
<1>1. Len(s) \in Nat /\ Len(t) \in Nat /\ Len(t) > 0 /\ Len(t) <= Len(s)
  BY DEF Left
<1>2. k \in 1..Len(s) /\ Head(t) = s[k] /\ Head(t) \in S
  BY <1>1 DEF Left
<1>3. Tail(t) \in Seq(S) /\ Len(Tail(t)) = Len(t) - 1
  OBVIOUS
<1>4. \A i \in 1..(Len(t) - 1) : Tail(t)[i] = t[i + 1]
  OBVIOUS
<1>5. Left(Tail(t), s)
  <2> SUFFICES ASSUME NEW i \in 1..(Len(t) - 1)
               PROVE  Tail(t)[i] = s[Len(s) - (Len(t) - 1) + i]
    BY <1>1, <1>3 DEF Left
  <2>1. i + 1 \in 1..Len(t) /\ Len(s) - Len(t) + (i + 1) = Len(s) - (Len(t) - 1) + i
    BY <1>1
  <2> QED BY <1>4, <2>1 DEF Left
<1>6. Passed(Tail(t), s) = Passed(t, s) \cup {k} /\ k \notin Passed(t, s)
  BY <1>1, <1>3 DEF Passed
<1> QED BY <1>2, <1>3, <1>5, <1>6

LEMMA TailIsIn ==
    ASSUME NEW S, NEW s \in Seq(S), s # <<>>, NEW x
    PROVE  /\ IsIn(x, s) <=> x = Head(s) \/ IsIn(x, Tail(s))
<1>1. Len(s) \in Nat /\ Len(s) > 0 /\ Len(Tail(s)) = Len(s) - 1 /\ Head(s) = s[1]
  OBVIOUS
<1>2. \A i \in 1..(Len(s) - 1) : Tail(s)[i] = s[i + 1]
  OBVIOUS
<1>3. ASSUME NEW i \in 1..Len(s), s[i] = x, x # Head(s)
      PROVE  IsIn(x, Tail(s))
  <2>1. i - 1 \in 1..(Len(s) - 1) /\ (i - 1) + 1 = i
    BY <1>1, <1>3
  <2>2. Tail(s)[i - 1] = x
    BY <1>2, <1>3, <2>1
  <2> QED BY <1>1, <2>1, <2>2 DEF IsIn
<1>4. ASSUME NEW i \in 1..(Len(s) - 1), Tail(s)[i] = x
      PROVE  IsIn(x, s)
  <2>1. i + 1 \in 1..Len(s)
    BY <1>1
  <2> QED BY <1>2, <1>4, <2>1 DEF IsIn
<1>5. x = Head(s) => IsIn(x, s)
  BY <1>1 DEF IsIn
<1> QED BY <1>1, <1>3, <1>4, <1>5 DEF IsIn

LEMMA WorkFiles ==
    ASSUME NEW o \in Request, NEW f \in File
    PROVE  IsIn(f, Work(o).files) <=> WantsFile(o, f)
<1> DEFINE s == IF o.sshd THEN <<"sshd">> ELSE <<>>
           r == IF o.channel # None THEN <<"repository", "keys">> ELSE <<>>
<1>1. Work(o).files = s \o r
  BY DEF Work
<1>2. /\ s \in Seq(File) /\ r \in Seq(File)
      /\ o.sshd => Len(s) = 1 /\ s[1] = "sshd"
      /\ ~o.sshd => Len(s) = 0
      /\ o.channel # None => Len(r) = 2 /\ r[1] = "repository" /\ r[2] = "keys"
      /\ o.channel = None => Len(r) = 0
  <2>1. /\ <<"sshd">> \in Seq(File) /\ <<"repository", "keys">> \in Seq(File) /\ <<>> \in Seq(File)
        /\ Len(<<>>) = 0
    BY DEF File
  <2> QED BY <2>1
<1> HIDE DEF s, r
<1>3. /\ Len(s \o r) = Len(s) + Len(r)
      /\ \A i \in 1..(Len(s) + Len(r)) :
            (s \o r)[i] = IF i <= Len(s) THEN s[i] ELSE r[i - Len(s)]
  BY <1>2, ConcatProperties
<1> DEFINE w == s \o r
<1> HIDE DEF w
<1>4. IsIn(f, w) <=> IsIn(f, s) \/ IsIn(f, r)
  <2>1. /\ Len(s) \in Nat /\ Len(r) \in Nat /\ Len(w) = Len(s) + Len(r)
        /\ \A i \in 1..(Len(s) + Len(r)) : w[i] = IF i <= Len(s) THEN s[i] ELSE r[i - Len(s)]
    BY <1>2, <1>3 DEF w
  <2>2. ASSUME NEW i \in 1..Len(s), s[i] = f PROVE IsIn(f, w)
    BY <2>1, <2>2 DEF IsIn
  <2>3. ASSUME NEW i \in 1..Len(r), r[i] = f PROVE IsIn(f, w)
    <3>1. Len(s) + i \in 1..Len(w) /\ w[Len(s) + i] = r[i]
      BY <2>1
    <3> QED BY <2>3, <3>1 DEF IsIn
  <2>4. ASSUME NEW i \in 1..Len(w), w[i] = f PROVE IsIn(f, s) \/ IsIn(f, r)
    <3>1. CASE i <= Len(s)
      BY <2>1, <2>4, <3>1 DEF IsIn
    <3>2. CASE ~(i <= Len(s))
      <4>1. i - Len(s) \in 1..Len(r) /\ r[i - Len(s)] = f
        BY <2>1, <2>4, <3>2
      <4> QED BY <4>1 DEF IsIn
    <3> QED BY <3>1, <3>2
  <2> QED BY <2>2, <2>3, <2>4 DEF IsIn
<1>5. IsIn(f, s) <=> f = "sshd" /\ o.sshd
  BY <1>2 DEF IsIn
<1>6. IsIn(f, r) <=> f \in {"repository", "keys"} /\ o.channel # None
  BY <1>2 DEF IsIn
<1> QED BY <1>1, <1>4, <1>5, <1>6 DEF w, WantsFile

LEMMA SaveOrderIsAll ==
    ASSUME NEW x \in Table
    PROVE  IsIn(x, SaveOrder)
<1>1. Len(SaveOrder) = 4 /\ SaveOrder[1] = "passwd" /\ SaveOrder[2] = "group"
      /\ SaveOrder[3] = "shadow" /\ SaveOrder[4] = "gshadow"
  BY DEF SaveOrder
<1> QED BY <1>1 DEF IsIn, Table

LEMMA OptsTypes ==
    ASSUME NEW o \in Request
    PROVE  /\ o.users \in Seq(Name) /\ o.groups \in Seq(Membership) /\ o.hashes \in Seq(Password)
           /\ o # None /\ o.channel \in Channel \cup {None}
BY ConstantsAssumption

LEMMA ExtendsReflexive ==
    ASSUME NEW t PROVE Extends(t, t)
BY DEF Extends

LEMMA ExtendsTransitive ==
    ASSUME NEW t, NEW u, NEW v, Extends(t, u), Extends(u, v)
    PROVE  Extends(t, v)
<1>1. ASSUME NEW g \in t.group
      PROVE  \E h \in v.group : h.name = g.name /\ h.gid = g.gid /\ g.members \subseteq h.members
  <2>1. PICK h \in u.group : h.name = g.name /\ h.gid = g.gid /\ g.members \subseteq h.members
    BY DEF Extends
  <2> QED BY <2>1 DEF Extends
<1>2. ASSUME NEW s \in t.shadow
      PROVE  \E r \in v.shadow : r = s \/ (r.name = s.name /\ Asked(r.name, r.hash))
  <2>1. PICK r \in u.shadow : r = s \/ (r.name = s.name /\ Asked(r.name, r.hash))
    BY DEF Extends
  <2> QED BY <2>1 DEF Extends
<1>3. ASSUME NEW g \in t.gshadow
      PROVE  \E h \in v.gshadow : h.name = g.name /\ g.members \subseteq h.members
  <2>1. PICK h \in u.gshadow : h.name = g.name /\ g.members \subseteq h.members
    BY DEF Extends
  <2> QED BY <2>1 DEF Extends
<1> QED BY <1>1, <1>2, <1>3 DEF Extends

-----------------------------------------------------------------------------
(* Each action keeps them. *)

LEMMA StartRuns ==
    ASSUME IInv, RunsOK, DoneRunsOK, NEW o \in Request, Start(o)
    PROVE  RunsOK' /\ DoneRunsOK'
<1>1. /\ pc = "idle" /\ pc' = "apply" /\ opts' = o /\ todo' = Work(o) /\ acc' = None
      /\ etc' = etc /\ conf' = conf /\ result' = "none"
      /\ done' = None \/ (done' = done /\ done = o)
  BY DEF Start, world, IInv, InMemoryOK
<1>2. /\ o.users \in Seq(Name) /\ o.groups \in Seq(Membership) /\ o.hashes \in Seq(Password)
      /\ todo'.users = o.users /\ todo'.groups = o.groups /\ todo'.hashes = o.hashes
      /\ todo'.saves = IF NeedsAccounts(o) THEN SaveOrder ELSE <<>>
  BY <1>1, WorkType, OptsTypes
<1>3. SaveOrder # <<>>
  BY DEF SaveOrder
<1>4. OptionsLeft'
  <2>1. Left(o.users, o.users) /\ Left(o.groups, o.groups) /\ Left(o.hashes, o.hashes)
    BY <1>2 DEF Left
  <2> QED BY <1>1, <1>2, <1>3, <2>1 DEF OptionsLeft
<1>5. FilesOnTrack'
  BY <1>1, WorkFiles DEF FilesOnTrack
<1>6. InMemoryDone' /\ Saved' /\ Grown'
  BY <1>1 DEF InMemoryDone, Saved, Grown
<1>7. DoneRunsOK'
  BY <1>1 DEF DoneRunsOK, DoneOK, Settled, Rerun, ResultOK
<1> QED BY <1>4, <1>5, <1>6, <1>7 DEF RunsOK

LEMMA ReadRuns ==
    ASSUME IInv, RunsOK, DoneRunsOK, ReadTables
    PROVE  RunsOK' /\ DoneRunsOK'
<1>1. /\ pc = "apply" /\ pc' = pc /\ opts' = opts /\ todo' = todo
      /\ acc = None /\ acc' = etc /\ etc # None /\ todo.saves # <<>>
      /\ etc' = etc /\ conf' = conf /\ result' = result /\ done' = done
  BY PhaseIs DEF ReadTables, world, IInv
<1>2. OptionsLeft' /\ FilesOnTrack'
  BY <1>1 DEF RunsOK, OptionsLeft, FilesOnTrack
<1>3. InMemoryDone'
  <2>1. todo.users = opts.users /\ todo.groups = opts.groups /\ todo.hashes = opts.hashes
    BY <1>1 DEF RunsOK, OptionsLeft
  <2>2. Len(opts.users) \in Nat /\ Len(opts.groups) \in Nat /\ Len(opts.hashes) \in Nat
    BY <1>1, OptsTypes DEF IInv, OptsGiven
  <2> QED BY <1>1, <2>1, <2>2 DEF InMemoryDone, Passed
<1>4. Saved' /\ Grown'
  BY <1>1, ExtendsReflexive DEF Saved, Grown, Extends
<1>5. DoneRunsOK'
  BY <1>1 DEF DoneRunsOK, DoneOK, Settled, Rerun, ResultOK
<1> QED BY <1>2, <1>3, <1>4, <1>5 DEF RunsOK

\* What the next user, group or hash is.
LEMMA NextOptions ==
    ASSUME IInv, RunsOK, pc # "idle"
    PROVE  /\ todo.users # <<>> => \E k \in 1..Len(opts.users) :
                 /\ User = opts.users[k] /\ User \in Name /\ Left(Tail(todo.users), opts.users)
                 /\ Passed(Tail(todo.users), opts.users) = Passed(todo.users, opts.users) \cup {k}
           /\ todo.groups # <<>> => \E k \in 1..Len(opts.groups) :
                 /\ Join = opts.groups[k] /\ Join \in Membership
                 /\ Left(Tail(todo.groups), opts.groups)
                 /\ Passed(Tail(todo.groups), opts.groups) = Passed(todo.groups, opts.groups) \cup {k}
           /\ todo.hashes # <<>> => \E k \in 1..Len(opts.hashes) :
                 /\ Pass = opts.hashes[k] /\ Pass \in Password
                 /\ Left(Tail(todo.hashes), opts.hashes)
                 /\ Passed(Tail(todo.hashes), opts.hashes) = Passed(todo.hashes, opts.hashes) \cup {k}
                 /\ k \notin Passed(todo.hashes, opts.hashes)
<1>1. /\ opts.users \in Seq(Name) /\ opts.groups \in Seq(Membership) /\ opts.hashes \in Seq(Password)
  BY OptsTypes DEF IInv, OptsGiven
<1>2. /\ todo.users \in Seq(Name) /\ todo.groups \in Seq(Membership) /\ todo.hashes \in Seq(Password)
  BY DEF IInv, TypeOK, Part
<1>3. Left(todo.users, opts.users) /\ Left(todo.groups, opts.groups) /\ Left(todo.hashes, opts.hashes)
  BY DEF RunsOK, OptionsLeft
<1>4. todo.users # <<>> => \E k \in 1..Len(opts.users) :
                 /\ User = opts.users[k] /\ User \in Name /\ Left(Tail(todo.users), opts.users)
                 /\ Passed(Tail(todo.users), opts.users) = Passed(todo.users, opts.users) \cup {k}
  <2> SUFFICES ASSUME todo.users # <<>>
               PROVE  \E k \in 1..Len(opts.users) :
                         /\ User = opts.users[k] /\ User \in Name
                         /\ Left(Tail(todo.users), opts.users)
                         /\ Passed(Tail(todo.users), opts.users) = Passed(todo.users, opts.users) \cup {k}
                         /\ k \notin Passed(todo.users, opts.users)
    OBVIOUS
  <2>1. \E k \in 1..Len(opts.users) :
           /\ Head(todo.users) = opts.users[k] /\ Head(todo.users) \in Name
           /\ Left(Tail(todo.users), opts.users)
           /\ Passed(Tail(todo.users), opts.users) = Passed(todo.users, opts.users) \cup {k}
           /\ k \notin Passed(todo.users, opts.users)
    BY <1>1, <1>2, <1>3, TailLeft
  <2> QED BY <2>1 DEF User
<1>5. todo.groups # <<>> => \E k \in 1..Len(opts.groups) :
                 /\ Join = opts.groups[k] /\ Join \in Membership
                 /\ Left(Tail(todo.groups), opts.groups)
                 /\ Passed(Tail(todo.groups), opts.groups) = Passed(todo.groups, opts.groups) \cup {k}
  <2> SUFFICES ASSUME todo.groups # <<>>
               PROVE  \E k \in 1..Len(opts.groups) :
                         /\ Join = opts.groups[k] /\ Join \in Membership
                         /\ Left(Tail(todo.groups), opts.groups)
                         /\ Passed(Tail(todo.groups), opts.groups) = Passed(todo.groups, opts.groups) \cup {k}
                         /\ k \notin Passed(todo.groups, opts.groups)
    OBVIOUS
  <2>1. \E k \in 1..Len(opts.groups) :
           /\ Head(todo.groups) = opts.groups[k] /\ Head(todo.groups) \in Membership
           /\ Left(Tail(todo.groups), opts.groups)
           /\ Passed(Tail(todo.groups), opts.groups) = Passed(todo.groups, opts.groups) \cup {k}
           /\ k \notin Passed(todo.groups, opts.groups)
    BY <1>1, <1>2, <1>3, TailLeft
  <2> QED BY <2>1 DEF Join
<1>6. todo.hashes # <<>> => \E k \in 1..Len(opts.hashes) :
                 /\ Pass = opts.hashes[k] /\ Pass \in Password
                 /\ Left(Tail(todo.hashes), opts.hashes)
                 /\ Passed(Tail(todo.hashes), opts.hashes) = Passed(todo.hashes, opts.hashes) \cup {k}
                 /\ k \notin Passed(todo.hashes, opts.hashes)
  <2> SUFFICES ASSUME todo.hashes # <<>>
               PROVE  \E k \in 1..Len(opts.hashes) :
                         /\ Pass = opts.hashes[k] /\ Pass \in Password
                         /\ Left(Tail(todo.hashes), opts.hashes)
                         /\ Passed(Tail(todo.hashes), opts.hashes) = Passed(todo.hashes, opts.hashes) \cup {k}
                         /\ k \notin Passed(todo.hashes, opts.hashes)
    OBVIOUS
  <2>1. \E k \in 1..Len(opts.hashes) :
           /\ Head(todo.hashes) = opts.hashes[k] /\ Head(todo.hashes) \in Password
           /\ Left(Tail(todo.hashes), opts.hashes)
           /\ Passed(Tail(todo.hashes), opts.hashes) = Passed(todo.hashes, opts.hashes) \cup {k}
           /\ k \notin Passed(todo.hashes, opts.hashes)
    BY <1>1, <1>2, <1>3, TailLeft
  <2> QED BY <2>1 DEF Pass
<1> QED BY <1>4, <1>5, <1>6

\* In a rerun, the next option is one that the installation has already.
LEMMA RerunOptions ==
    ASSUME IInv, RunsOK, DoneRunsOK, pc # "idle", done # None
    PROVE  /\ todo.users # <<>> => Complete(etc, User)
           /\ todo.groups # <<>> => Joined(etc, Join)
           /\ todo.hashes # <<>> => HasHash(etc, Pass)
           /\ todo.saves # <<>> => etc # None
           /\ acc # None => acc = etc
           /\ pc = "apply"
<1>1. opts = done /\ Settled(opts) /\ pc = "apply" /\ (acc # None => acc = etc)
  BY DEF DoneRunsOK, DoneOK, Rerun
<1> QED BY <1>1, NextOptions DEF Settled, RunsOK, OptionsLeft

LEMMA AddUserRuns ==
    ASSUME IInv, RunsOK, DoneRunsOK, AddUser
    PROVE  RunsOK' /\ DoneRunsOK'
<1>1. /\ pc = "apply" /\ todo.users # <<>> /\ acc # None /\ todo.saves = SaveOrder
      /\ ~(Created(acc, User) /\ Has(acc.group, User))
      /\ acc' = WithUser(acc, User)
      /\ etc' = etc /\ conf' = conf /\ opts' = opts /\ result' = result /\ done' = done
  BY PhaseIs DEF AddUser, world, RefusedUser, SavesOnTrack, SaveOrder, IInv
<1>2. \/ Created(acc, User) /\ pc' = "home" /\ todo' = todo
      \/ ~Created(acc, User) /\ pc' = pc /\ todo' = [todo EXCEPT !.users = Tail(@)]
  BY DEF AddUser, Pop
<1>3. PICK k \in 1..Len(opts.users) :
         /\ User = opts.users[k] /\ User \in Name /\ Left(Tail(todo.users), opts.users)
         /\ Passed(Tail(todo.users), opts.users) = Passed(todo.users, opts.users) \cup {k}
  BY <1>1, NextOptions
<1>4. acc \in Tables /\ TablesOK(acc) /\ today \in Nat
  BY <1>1 DEF IInv, InMemoryOK, TypeOK
<1>5. /\ Complete(acc', User) /\ \A m \in Name : Complete(acc, m) => Complete(acc', m)
      /\ acc' \in Tables /\ acc' # None
  BY <1>1, <1>3, <1>4, WithUserRows, WithUserOK, ConstantsAssumption
<1>6. Extends(acc, acc')
  <2>1. /\ acc.passwd \subseteq acc'.passwd /\ acc.group \subseteq acc'.group
        /\ acc.shadow \subseteq acc'.shadow /\ acc.gshadow \subseteq acc'.gshadow
    BY <1>1, <1>3, <1>4, WithUserOK
  <2> QED BY <2>1 DEF Extends
<1>7. /\ todo'.groups = opts.groups /\ todo'.hashes = opts.hashes
      /\ todo.groups = opts.groups /\ todo.hashes = opts.hashes
      /\ todo'.saves = todo.saves /\ todo'.files = todo.files
      /\ todo' = todo \/ todo'.users = Tail(todo.users)
  BY <1>1, <1>2 DEF RunsOK, OptionsLeft, IInv, TypeOK, Part
<1>8. OptionsLeft'
  BY <1>1, <1>2, <1>3, <1>5, <1>7 DEF RunsOK, OptionsLeft
<1>9. InMemoryDone'
  <2>1. opts.users \in Seq(Name) /\ Len(opts.groups) \in Nat /\ Len(opts.hashes) \in Nat
    BY <1>1, OptsTypes DEF IInv, OptsGiven
  <2>2. todo' = todo => User' = User
    BY DEF User
  <2>3. \A i \in Passed(todo.users, opts.users) : Complete(acc, opts.users[i])
    BY <1>1 DEF RunsOK, InMemoryDone
  <2>4. \A i \in Passed(todo.users, opts.users) : opts.users[i] \in Name
    <3>1. Len(todo.users) \in Nat
      BY DEF IInv, TypeOK, Part
    <3> QED BY <2>1, <3>1 DEF Passed
  <2>5. \A i \in Passed(todo'.users, opts.users) : Complete(acc', opts.users[i])
    BY <1>3, <1>5, <1>7, <2>3, <2>4
  <2>6. Passed(todo'.groups, opts.groups) = {} /\ Passed(todo'.hashes, opts.hashes) = {}
    BY <1>7, <2>1 DEF Passed
  <2>7. pc' \in {"home", "chown"} => Complete(acc', User')
    BY <1>1, <1>2, <1>5, <2>2
  <2> QED BY <1>1, <2>5, <2>6, <2>7 DEF InMemoryDone
<1>10. Saved'
  BY <1>1, <1>7, SaveOrderIsAll DEF Saved
<1>11. Grown'
  <2>1. Extends(etc, acc')
    BY <1>1, <1>6, ExtendsTransitive DEF RunsOK, Grown
  <2> QED BY <1>1, <2>1 DEF Grown, Extends, Asked
<1>12. FilesOnTrack'
  BY <1>1, <1>2, <1>7 DEF RunsOK, FilesOnTrack
<1>13. DoneRunsOK'
  <2>1. CASE done = None
    BY <1>1, <1>2, <2>1 DEF DoneRunsOK, DoneOK, Rerun, ResultOK
  <2>2. CASE done # None
    <3>1. Complete(acc, User) /\ acc = etc /\ opts = done
      BY <1>1, <2>2, RerunOptions DEF DoneRunsOK, Rerun
    <3>2. acc' = acc /\ ~Created(acc, User)
      BY <1>1, <1>3, <1>4, <3>1, UserAgain
    <3> QED BY <1>1, <1>2, <3>1, <3>2 DEF DoneRunsOK, DoneOK, Settled, Rerun, ResultOK
  <2> QED BY <2>1, <2>2
<1> QED BY <1>8, <1>9, <1>10, <1>11, <1>12, <1>13 DEF RunsOK

LEMMA HomeRuns ==
    ASSUME IInv, RunsOK, DoneRunsOK, MakeHome \/ OwnHome
    PROVE  RunsOK' /\ DoneRunsOK'
<1>1. /\ pc \in {"home", "chown"} /\ pc' \in {"apply", "chown"} /\ acc # None /\ todo.users # <<>>
      /\ acc' = acc /\ etc' = etc /\ conf' = conf /\ opts' = opts
      /\ result' = result /\ done' = done
      /\ (todo' = todo \/ todo' = [todo EXCEPT !.users = Tail(@)])
      /\ pc' = "chown" => todo' = todo
  BY DEF MakeHome, OwnHome, Pop, IInv, InAddUser
<1>2. PICK k \in 1..Len(opts.users) :
         /\ User = opts.users[k] /\ Left(Tail(todo.users), opts.users)
         /\ Passed(Tail(todo.users), opts.users) = Passed(todo.users, opts.users) \cup {k}
  BY <1>1, NextOptions
<1>3. /\ todo.groups = opts.groups /\ todo.hashes = opts.hashes
      /\ todo'.groups = todo.groups /\ todo'.hashes = todo.hashes
      /\ todo'.saves = todo.saves /\ todo'.files = todo.files
      /\ todo' = todo \/ todo'.users = Tail(todo.users)
  BY <1>1 DEF RunsOK, OptionsLeft, IInv, TypeOK, Part
<1>4. OptionsLeft'
  BY <1>1, <1>2, <1>3 DEF RunsOK, OptionsLeft
<1>5. InMemoryDone'
  <2>1. todo' = todo => User' = User
    BY DEF User
  <2>2. Complete(acc, User) /\ \A i \in Passed(todo.users, opts.users) : Complete(acc, opts.users[i])
    BY <1>1 DEF RunsOK, InMemoryDone
  <2>3. \A i \in Passed(todo'.users, opts.users) : Complete(acc, opts.users[i])
    BY <1>2, <1>3, <2>2
  <2> QED BY <1>1, <1>3, <2>1, <2>2, <2>3 DEF RunsOK, InMemoryDone
<1>6. Saved' /\ Grown' /\ FilesOnTrack'
  BY <1>1, <1>3 DEF RunsOK, Saved, Grown, Extends, Asked, FilesOnTrack
<1>7. DoneRunsOK'
  BY <1>1, RerunOptions DEF DoneRunsOK, DoneOK, Settled, Rerun, ResultOK
<1> QED BY <1>4, <1>5, <1>6, <1>7 DEF RunsOK

LEMMA JoinRuns ==
    ASSUME IInv, RunsOK, DoneRunsOK, AddToGroups
    PROVE  RunsOK' /\ DoneRunsOK'
<1>1. /\ pc = "apply" /\ pc' = pc /\ todo.users = <<>> /\ todo.groups # <<>> /\ acc # None
      /\ todo.saves = SaveOrder /\ ~RefusedJoin
      /\ acc' = [acc EXCEPT !.group = WithMember(@, Join.groups, Join.name),
                            !.gshadow = WithMember(@, Join.groups, Join.name)]
      /\ todo' = [todo EXCEPT !.groups = Tail(@)]
      /\ etc' = etc /\ conf' = conf /\ opts' = opts /\ result' = result /\ done' = done
  <2>1. Phase = "groups" /\ TypeOK /\ SavesOnTrack
    BY DEF AddToGroups, IInv
  <2>2. pc = "apply" /\ todo.users = <<>> /\ todo.groups # <<>> /\ (todo.saves = <<>> \/ acc # None)
    BY <2>1, PhaseIs
  <2>3. todo.saves = SaveOrder /\ acc # None
    BY <2>1, <2>2 DEF SavesOnTrack, SaveOrder
  <2> QED BY <2>2, <2>3 DEF AddToGroups, Pop, world
<1>2. PICK k \in 1..Len(opts.groups) :
         /\ Join = opts.groups[k] /\ Join \in Membership /\ Left(Tail(todo.groups), opts.groups)
         /\ Passed(Tail(todo.groups), opts.groups) = Passed(todo.groups, opts.groups) \cup {k}
  BY <1>1, NextOptions
<1>3. acc \in Tables /\ TablesOK(acc) /\ Join.name \in Name
  BY <1>1, <1>2 DEF IInv, InMemoryOK, TypeOK, Membership
<1>4. /\ Joined(acc', Join)
      /\ \A j \in Membership : Joined(acc, j) => Joined(acc', j)
      /\ \A m \in Name : Complete(acc, m) => Complete(acc', m)
      /\ Joined(acc, Join) => acc' = acc
  BY <1>1, <1>2, <1>3, JoinRows DEF RefusedJoin
<1>5. acc' \in Tables /\ acc' # None /\ Extends(acc, acc')
  <2> DEFINE wg == WithMember(acc.group, Join.groups, Join.name)
             ws == WithMember(acc.gshadow, Join.groups, Join.name)
  <2>1. acc.group \in SUBSET Group /\ acc.gshadow \in SUBSET GroupSecret
    BY <1>3 DEF Tables
  <2>2. MoreMembers(Group, acc.group, wg) /\ MoreMembers(GroupSecret, acc.gshadow, ws)
    BY <1>3, <2>1, WithMemberRows
  <2>3. acc' = [acc EXCEPT !.group = wg, !.gshadow = ws]
    BY <1>1
  <2> HIDE DEF wg, ws
  <2>4. /\ wg \subseteq Group /\ ws \subseteq GroupSecret
        /\ \A g \in acc.group : \E h \in wg : h.name = g.name /\ h.gid = g.gid /\ g.members \subseteq h.members
        /\ \A g \in acc.gshadow : \E h \in ws : h.name = g.name /\ g.members \subseteq h.members
    BY <2>2 DEF MoreMembers
  <2>5. /\ acc' \in Tables /\ acc'.passwd = acc.passwd /\ acc'.shadow = acc.shadow
        /\ acc'.group = wg /\ acc'.gshadow = ws
    BY <1>3, <2>3, <2>4 DEF Tables
  <2> QED BY <2>4, <2>5, ConstantsAssumption DEF Extends
<1>6. /\ todo'.users = todo.users /\ todo'.groups = Tail(todo.groups) /\ todo'.hashes = todo.hashes
      /\ todo.hashes = opts.hashes /\ todo'.saves = todo.saves /\ todo'.files = todo.files
  BY <1>1 DEF RunsOK, OptionsLeft, IInv, TypeOK, Part
<1>7. OptionsLeft'
  BY <1>1, <1>2, <1>5, <1>6 DEF RunsOK, OptionsLeft
<1>8. InMemoryDone'
  <2>1. opts.users \in Seq(Name) /\ opts.groups \in Seq(Membership) /\ Len(opts.hashes) \in Nat
    BY <1>1, OptsTypes DEF IInv, OptsGiven
  <2>2. /\ \A i \in Passed(todo.users, opts.users) : Complete(acc, opts.users[i])
        /\ \A i \in Passed(todo.groups, opts.groups) : Joined(acc, opts.groups[i])
    BY <1>1 DEF RunsOK, InMemoryDone
  <2>3. /\ \A i \in Passed(todo.users, opts.users) : opts.users[i] \in Name
        /\ \A i \in Passed(todo.groups, opts.groups) : opts.groups[i] \in Membership
    <3>1. Len(todo.users) \in Nat /\ Len(todo.groups) \in Nat
      BY DEF IInv, TypeOK, Part
    <3> QED BY <2>1, <3>1 DEF Passed
  <2>4. \A i \in Passed(todo'.users, opts.users) : Complete(acc', opts.users[i])
    BY <1>4, <1>6, <2>2, <2>3
  <2>5. \A i \in Passed(todo'.groups, opts.groups) : Joined(acc', opts.groups[i])
    BY <1>2, <1>4, <1>6, <2>2, <2>3
  <2>6. Passed(todo'.hashes, opts.hashes) = {}
    BY <1>6, <2>1 DEF Passed
  <2> QED BY <1>1, <2>4, <2>5, <2>6 DEF InMemoryDone
<1>9. Saved'
  BY <1>1, <1>6, SaveOrderIsAll DEF Saved
<1>10. Grown'
  <2>1. Extends(etc, acc')
    BY <1>1, <1>5, ExtendsTransitive DEF RunsOK, Grown
  <2> QED BY <1>1, <2>1 DEF Grown, Extends, Asked
<1>11. FilesOnTrack'
  BY <1>1, <1>6 DEF RunsOK, FilesOnTrack
<1>12. DoneRunsOK'
  <2>1. done # None => acc' = acc
    BY <1>1, <1>4, RerunOptions
  <2> QED BY <1>1, <2>1 DEF DoneRunsOK, DoneOK, Settled, Rerun, ResultOK
<1> QED BY <1>7, <1>8, <1>9, <1>10, <1>11, <1>12 DEF RunsOK

LEMMA PassRuns ==
    ASSUME IInv, RunsOK, DoneRunsOK, SetPasswordHash
    PROVE  RunsOK' /\ DoneRunsOK'
<1>1. /\ pc = "apply" /\ pc' = pc /\ todo.users = <<>> /\ todo.groups = <<>> /\ todo.hashes # <<>>
      /\ acc # None /\ todo.saves = SaveOrder /\ ~RefusedPass
      /\ acc' = [acc EXCEPT !.shadow = WithHash(@, Pass.name, Pass.hash)]
      /\ todo' = [todo EXCEPT !.hashes = Tail(@)]
      /\ etc' = etc /\ conf' = conf /\ opts' = opts /\ result' = result /\ done' = done
  <2>1. Phase = "hashes" /\ TypeOK /\ SavesOnTrack
    BY DEF SetPasswordHash, IInv
  <2>2. pc = "apply" /\ todo.users = <<>> /\ todo.groups = <<>> /\ todo.hashes # <<>> /\ (todo.saves = <<>> \/ acc # None)
    BY <2>1, PhaseIs
  <2>3. todo.saves = SaveOrder /\ acc # None
    BY <2>1, <2>2 DEF SavesOnTrack, SaveOrder
  <2> QED BY <2>2, <2>3 DEF SetPasswordHash, Pop, world
<1>2. PICK k \in 1..Len(opts.hashes) :
         /\ Pass = opts.hashes[k] /\ Pass \in Password /\ Left(Tail(todo.hashes), opts.hashes)
         /\ Passed(Tail(todo.hashes), opts.hashes) = Passed(todo.hashes, opts.hashes) \cup {k}
         /\ k \notin Passed(todo.hashes, opts.hashes)
  BY <1>1, NextOptions
<1>3. /\ acc \in Tables /\ TablesOK(acc) /\ today \in Nat
      /\ Pass.name \in Name /\ Pass.hash \in Hash /\ Pass = [name |-> Pass.name, hash |-> Pass.hash]
  BY <1>1, <1>2 DEF IInv, InMemoryOK, TypeOK, Password
<1>4. /\ HasHash(acc', Pass)
      /\ \A p \in Password : p.name # Pass.name /\ HasHash(acc, p) => HasHash(acc', p)
      /\ \A j \in Membership : Joined(acc, j) => Joined(acc', j)
      /\ \A m \in Name : Complete(acc, m) => Complete(acc', m)
      /\ HasHash(acc, Pass) => acc' = acc
  BY <1>1, <1>2, <1>3, PassRows DEF RefusedPass
<1>0. opts.users \in Seq(Name) /\ opts.groups \in Seq(Membership) /\ opts.hashes \in Seq(Password)
      /\ opts \in Request
  BY <1>1, OptsTypes DEF IInv, OptsGiven
<1>5. acc' \in Tables /\ acc' # None /\ Extends(acc, acc')
  <2>1. /\ acc' \in Tables /\ acc'.passwd = acc.passwd /\ acc'.group = acc.group
        /\ acc'.gshadow = acc.gshadow
        /\ \A s \in acc.shadow : \E r \in acc'.shadow :
              r = s \/ (r.name = s.name /\ r.name = Pass.name /\ r.hash = Pass.hash)
    BY <1>1, <1>3, PassOK
  <2>2. Asked(Pass.name, Pass.hash)
    <3>1. k \in DOMAIN opts.hashes
      BY <1>0
    <3> QED BY <1>2, <1>3, <3>1 DEF Asked
  <2> QED BY <2>1, <2>2, ConstantsAssumption DEF Extends
<1>6. /\ todo'.users = todo.users /\ todo'.groups = todo.groups /\ todo'.hashes = Tail(todo.hashes)
      /\ todo'.saves = todo.saves /\ todo'.files = todo.files
  BY <1>1 DEF IInv, TypeOK, Part
<1>7. OptionsLeft'
  BY <1>1, <1>2, <1>5, <1>6 DEF RunsOK, OptionsLeft
<1>8. InMemoryDone'
  <2>2. /\ \A i \in Passed(todo.users, opts.users) : Complete(acc, opts.users[i])
        /\ \A i \in Passed(todo.groups, opts.groups) : Joined(acc, opts.groups[i])
        /\ \A i \in Passed(todo.hashes, opts.hashes) : HasHash(acc, opts.hashes[i])
    BY <1>1 DEF RunsOK, InMemoryDone
  <2>3. /\ \A i \in Passed(todo.users, opts.users) : opts.users[i] \in Name
        /\ \A i \in Passed(todo.groups, opts.groups) : opts.groups[i] \in Membership
        /\ \A i \in Passed(todo.hashes, opts.hashes) :
              i \in DOMAIN opts.hashes /\ opts.hashes[i] \in Password
    <3>1. Len(todo.users) \in Nat /\ Len(todo.groups) \in Nat /\ Len(todo.hashes) \in Nat
      BY DEF IInv, TypeOK, Part
    <3> QED BY <1>0, <3>1 DEF Passed
  <2>4. /\ \A i \in Passed(todo'.users, opts.users) : Complete(acc', opts.users[i])
        /\ \A i \in Passed(todo'.groups, opts.groups) : Joined(acc', opts.groups[i])
    BY <1>4, <1>6, <2>2, <2>3
  <2>5. \A i \in Passed(todo.hashes, opts.hashes) : HasHash(acc', opts.hashes[i])
    <3> SUFFICES ASSUME NEW i \in Passed(todo.hashes, opts.hashes)
                 PROVE  HasHash(acc', opts.hashes[i])
      OBVIOUS
    <3>1. i # k /\ i \in DOMAIN opts.hashes /\ k \in DOMAIN opts.hashes
      BY <1>0, <1>2, <2>3
    <3>2. opts.hashes[i].name # Pass.name
      BY <1>0, <1>2, <3>1, RequestAssumption
    <3> QED BY <1>4, <2>2, <2>3, <3>2
  <2>6. \A i \in Passed(todo'.hashes, opts.hashes) : HasHash(acc', opts.hashes[i])
    BY <1>2, <1>4, <1>6, <2>5
  <2> QED BY <1>1, <2>4, <2>6 DEF InMemoryDone
<1>9. Saved'
  BY <1>1, <1>6, SaveOrderIsAll DEF Saved
<1>10. Grown'
  <2>1. Extends(etc, acc')
    BY <1>1, <1>5, ExtendsTransitive DEF RunsOK, Grown
  <2> QED BY <1>1, <2>1 DEF Grown, Extends, Asked
<1>11. FilesOnTrack'
  BY <1>1, <1>6 DEF RunsOK, FilesOnTrack
<1>12. DoneRunsOK'
  <2>1. done # None => acc' = acc
    BY <1>1, <1>4, RerunOptions
  <2> QED BY <1>1, <2>1 DEF DoneRunsOK, DoneOK, Settled, Rerun, ResultOK
<1> QED BY <1>7, <1>8, <1>9, <1>10, <1>11, <1>12 DEF RunsOK

\* A table on the disk becomes that in memory.
LEMMA SaveExtends ==
    ASSUME IInv, RunsOK, SaveTable
    PROVE  /\ Extends(etc, etc') /\ Extends(etc', acc)
           /\ \A y \in Table : etc'[y] = IF y = Head(todo.saves) THEN acc[y] ELSE etc[y]
<1> DEFINE x == Head(todo.saves)
<1>1. acc # None /\ etc # None /\ etc' = [etc EXCEPT ![x] = acc[x]] /\ todo.saves # <<>>
  BY PhaseIs DEF SaveTable, IInv, InMemoryOK
<1>2. etc \in Tables /\ acc \in Tables /\ x \in Table
  <2>1. todo.saves \in Seq(Table)
    BY DEF IInv, TypeOK, Part
  <2> QED BY <1>1, <2>1 DEF IInv, TypeOK
<1>3. \A y \in Table : etc'[y] = IF y = x THEN acc[y] ELSE etc[y]
  BY <1>1, <1>2 DEF Tables, Table
<1>4. /\ etc'.passwd = IF x = "passwd" THEN acc.passwd ELSE etc.passwd
      /\ etc'.group = IF x = "group" THEN acc.group ELSE etc.group
      /\ etc'.shadow = IF x = "shadow" THEN acc.shadow ELSE etc.shadow
      /\ etc'.gshadow = IF x = "gshadow" THEN acc.gshadow ELSE etc.gshadow
  BY <1>1, <1>2, SaveFields
<1>5. Extends(etc, acc) /\ Extends(etc, etc) /\ Extends(acc, acc)
  BY <1>1, ExtendsReflexive DEF RunsOK, Grown
<1> HIDE DEF x
<1>6. Extends(etc, etc') /\ Extends(etc', acc)
  BY <1>4, <1>5 DEF Extends
<1> QED BY <1>3, <1>6 DEF x

LEMMA SaveRuns ==
    ASSUME IInv, RunsOK, DoneRunsOK, SaveTable
    PROVE  RunsOK' /\ DoneRunsOK'
<1> DEFINE x == Head(todo.saves)
<1>1. /\ pc = "apply" /\ pc' = pc /\ acc # None /\ etc # None /\ acc' = acc
      /\ etc' = [etc EXCEPT ![x] = acc[x]] /\ todo' = [todo EXCEPT !.saves = Tail(@)]
      /\ conf' = conf /\ opts' = opts /\ result' = result /\ done' = done
      /\ todo.saves # <<>> /\ todo.users = <<>> /\ todo.groups = <<>> /\ todo.hashes = <<>>
  BY PhaseIs DEF SaveTable, Pop, IInv, InMemoryOK
<1>2. /\ todo'.users = todo.users /\ todo'.groups = todo.groups /\ todo'.hashes = todo.hashes
      /\ todo'.files = todo.files /\ todo'.saves = Tail(todo.saves) /\ todo.saves \in Seq(Table)
  BY <1>1 DEF IInv, TypeOK, Part
<1>3. OptionsLeft'
  BY <1>1, <1>2 DEF RunsOK, OptionsLeft
<1>4. InMemoryDone' /\ FilesOnTrack'
  BY <1>1, <1>2 DEF RunsOK, InMemoryDone, FilesOnTrack
<1>5. Saved'
  <2> SUFFICES ASSUME NEW y \in Table PROVE etc'[y] = acc[y] \/ IsIn(y, Tail(todo.saves))
    BY <1>1, <1>2 DEF Saved
  <2>1. etc[y] = acc[y] \/ IsIn(y, todo.saves)
    BY <1>1 DEF RunsOK, Saved
  <2>2. IsIn(y, todo.saves) => y = x \/ IsIn(y, Tail(todo.saves))
    BY <1>1, <1>2, TailIsIn
  <2> QED BY <2>1, <2>2, SaveExtends
<1>6. Grown'
  <2>1. Extends(etc', acc)
    BY SaveExtends
  <2> QED BY ONLY <1>1, <2>1 DEF Grown, Extends, Asked
<1>7. DoneRunsOK'
  <2>1. done # None => etc' = etc
    <3>1. etc \in Tables /\ x \in Table
      BY <1>1, <1>2 DEF IInv, TypeOK
    <3>2. [etc EXCEPT ![x] = etc[x]] = etc
      BY <3>1 DEF Tables, Table
    <3> QED BY <1>1, <3>2, RerunOptions
  <2> QED BY <1>1, <2>1 DEF DoneRunsOK, DoneOK, Settled, Rerun, ResultOK
<1> QED BY <1>3, <1>4, <1>5, <1>6, <1>7 DEF RunsOK

LEMMA ConfRuns ==
    ASSUME IInv, RunsOK, DoneRunsOK, WriteConf
    PROVE  RunsOK' /\ DoneRunsOK' /\ (done # None => conf' = conf)
<1> DEFINE f == Head(todo.files)
<1>1. /\ pc = "apply" /\ pc' = pc /\ acc' = acc /\ etc' = etc
      /\ todo' = [todo EXCEPT !.files = Tail(@)]
      /\ conf' = [conf EXCEPT ![f] = Content(opts, f)]
      /\ opts' = opts /\ result' = result /\ done' = done /\ todo.files # <<>>
  BY PhaseIs DEF WriteConf, Pop, Wanted, Content, IInv
<1>2. /\ todo'.users = todo.users /\ todo'.groups = todo.groups /\ todo'.hashes = todo.hashes
      /\ todo'.saves = todo.saves /\ todo'.files = Tail(todo.files) /\ todo.files \in Seq(File)
      /\ f \in File /\ conf = [g \in File |-> conf[g]]
  BY <1>1 DEF IInv, TypeOK, Part
<1>3. \A g \in File : IsIn(g, todo.files) <=> g = f \/ IsIn(g, Tail(todo.files))
  BY <1>1, <1>2, TailIsIn
<1> HIDE DEF f
<1>4. \A g \in File : conf'[g] = IF g = f THEN Content(opts, f) ELSE conf[g]
  BY <1>1, <1>2
<1>5. FilesOnTrack'
  BY <1>1, <1>2, <1>3, <1>4 DEF RunsOK, FilesOnTrack
<1>6. OptionsLeft' /\ InMemoryDone' /\ Saved' /\ Grown'
  BY <1>1, <1>2 DEF RunsOK, OptionsLeft, InMemoryDone, Saved, Grown, Extends, Asked
<1>7. done # None => conf' = conf
  <2> SUFFICES ASSUME done # None PROVE conf' = conf
    OBVIOUS
  <2>1. WantsFile(opts, f)
    BY <1>1, <1>2, <1>3 DEF RunsOK, FilesOnTrack
  <2>2. conf[f] = Content(opts, f)
    BY <1>1, <1>2, <2>1 DEF DoneRunsOK, DoneOK, Rerun, Settled
  <2> QED BY <1>1, <1>2, <2>2
<1>8. DoneRunsOK'
  BY <1>1, <1>7 DEF DoneRunsOK, DoneOK, Settled, Rerun, ResultOK
<1> QED BY <1>5, <1>6, <1>7, <1>8 DEF RunsOK

\* A run that ends with status 0 leaves what it was asked for.
LEMMA FinishSettles ==
    ASSUME IInv, RunsOK, DoneRunsOK, Finish
    PROVE  Settled(opts)
<1>1. /\ pc = "apply" /\ todo.users = <<>> /\ todo.groups = <<>> /\ todo.hashes = <<>>
      /\ todo.saves = <<>> /\ todo.files = <<>>
  <2>1. pc \in {"idle", "apply", "home", "chown"} /\ Phase = "finish"
    BY DEF Finish, IInv, TypeOK
  <2>2. pc = "apply"
    BY <2>1 DEF Phase
  <2> QED BY <2>1, <2>2 DEF Phase
<1>2. opts.users \in Seq(Name) /\ opts.groups \in Seq(Membership) /\ opts.hashes \in Seq(Password)
  BY <1>1, OptsTypes DEF IInv, OptsGiven
<1>3. \A f \in File : WantsFile(opts, f) => conf[f] = Content(opts, f)
  BY <1>1 DEF RunsOK, FilesOnTrack, IsIn
<1>4. CASE acc = None
  <2>1. opts.users = <<>> /\ opts.groups = <<>> /\ opts.hashes = <<>> /\ ~NeedsAccounts(opts)
    BY <1>1, <1>4 DEF RunsOK, OptionsLeft
  <2> QED BY <1>3, <2>1 DEF Settled
<1>5. CASE acc # None
  <2>1. etc = acc /\ etc # None
    <3>1. etc # None /\ etc \in Tables /\ acc \in Tables
      BY <1>5 DEF IInv, InMemoryOK, TypeOK
    <3>2. \A x \in Table : etc[x] = acc[x]
      BY <1>1, <1>5 DEF RunsOK, Saved, IsIn
    <3>3. etc["passwd"] = acc["passwd"] /\ etc["group"] = acc["group"]
          /\ etc["shadow"] = acc["shadow"] /\ etc["gshadow"] = acc["gshadow"]
      BY <3>2 DEF Table
    <3> QED BY <3>1, <3>3 DEF Tables
  <2>2. /\ Passed(todo.users, opts.users) = 1..Len(opts.users)
        /\ Passed(todo.groups, opts.groups) = 1..Len(opts.groups)
        /\ Passed(todo.hashes, opts.hashes) = 1..Len(opts.hashes)
    BY <1>1, <1>2 DEF Passed
  <2> QED BY <1>3, <1>5, <2>1, <2>2 DEF Settled, RunsOK, InMemoryDone
<1> QED BY <1>4, <1>5

LEMMA ExitRuns ==
    ASSUME IInv, RunsOK, DoneRunsOK, Finish \/ Refuse \/ Stop
    PROVE  RunsOK' /\ DoneRunsOK'
<1>1. /\ pc' = "idle" /\ acc' = None /\ etc' = etc /\ conf' = conf /\ opts' = opts
      /\ \/ result' = "ok" /\ done' = opts /\ Settled(opts) /\ opts \in Request
         \/ result' \in {"refused", "stopped"} /\ done' = done
  <2>1. Finish => opts \in Request
    BY PhaseIs DEF Finish, IInv, OptsGiven
  <2> QED BY <2>1, FinishSettles DEF Finish, Refuse, Stop, Exit, world
<1> QED BY <1>1 DEF RunsOK, OptionsLeft, InMemoryDone, Saved, Grown, FilesOnTrack,
                    DoneRunsOK, DoneOK, Settled, Rerun, ResultOK

LEMMA OutsideRuns ==
    ASSUME IInv, RunsOK, DoneRunsOK, (\E s \in Shipment : Install(s)) \/ NextDay \/ UNCHANGED vars
    PROVE  RunsOK' /\ DoneRunsOK'
<1>1. CASE NextDay \/ UNCHANGED vars
  <2>1. /\ etc' = etc /\ conf' = conf /\ pc' = pc /\ opts' = opts /\ todo' = todo /\ acc' = acc
        /\ result' = result /\ done' = done
    BY <1>1 DEF NextDay, vars
  <2>2. RunsOK'
    BY <2>1 DEF RunsOK, OptionsLeft, InMemoryDone, User, Saved, Grown, Extends, Asked, FilesOnTrack
  <2>3. DoneRunsOK'
    BY <2>1 DEF DoneRunsOK, DoneOK, Settled, Rerun, ResultOK
  <2> QED BY <2>2, <2>3
<1>2. CASE \E s \in Shipment : Install(s)
  <2>1. /\ pc' = "idle" /\ acc' = None /\ result' = "none" /\ done' = None
    BY <1>2 DEF Install, IInv, InMemoryOK
  <2> QED BY <2>1 DEF RunsOK, OptionsLeft, InMemoryDone, Saved, Grown, FilesOnTrack,
                      DoneRunsOK, DoneOK, Rerun, ResultOK
<1> QED BY <1>1, <1>2

THEOREM RunsInvariant == Spec => [](IInv /\ RunsOK /\ DoneRunsOK)
<1>1. Init => RunsOK /\ DoneRunsOK
  BY DEF Init, RunsOK, OptionsLeft, InMemoryDone, Saved, Grown, FilesOnTrack,
         DoneRunsOK, DoneOK, Rerun, ResultOK
<1>2. IInv /\ RunsOK /\ DoneRunsOK /\ [Next]_vars => RunsOK' /\ DoneRunsOK'
  BY StartRuns, ReadRuns, AddUserRuns, HomeRuns, JoinRuns, PassRuns, SaveRuns, ConfRuns, ExitRuns,
     OutsideRuns DEF Next, Run, Trouble
<1> QED BY <1>1, <1>2, Invariant, PTL DEF Spec

-----------------------------------------------------------------------------
(* The results. *)

\* Every variable keeps its type.
THEOREM TypeCorrect == Spec => []TypeOK
<1>1. IInv => TypeOK
  BY DEF IInv
<1> QED BY <1>1, Invariant, PTL

\* The tables on the disk never give one name or one id to two users or groups,
\* wherever the runs of add_user, add_to_groups and save have been interrupted.
THEOREM IdentitiesAreUnique == Spec => []Identities
<1>1. IInv => Identities
  BY DEF IInv, InstalledOK, TablesOK, Identities
<1> QED BY <1>1, Invariant, PTL

\* add_user makes the home directory and gives it to its owner before save makes
\* the account visible.
THEOREM HomesComeFirst == Spec => []HomesOwned
<1>1. IInv => HomesOwned
  BY DEF IInv
<1> QED BY <1>1, Invariant, PTL

\* What add_user finds in group of an interrupted run does not make it refuse the
\* account.
THEOREM NeverRefusesItself == Spec => []NoSelfRefusal
<1>1. IInv => NoSelfRefusal
  <2> SUFFICES ASSUME IInv, Phase = "users", RefusedUser
               PROVE  Has(packages.tables.group, User)
    BY DEF NoSelfRefusal
  <2>1. TablesOK(acc)
    BY PhaseIs DEF IInv, InMemoryOK, SavesOnTrack, SaveOrder
  <2>2. PICK g \in acc.group : g.name = User
    BY DEF RefusedUser, Has
  <2> QED BY <2>1, <2>2 DEF RefusedUser, Created, TablesOK, Known
<1> QED BY <1>1, Invariant, PTL

\* A run of cmd_apply that ends with status 0 has applied all its options, and has
\* completed the accounts that interrupted runs of add_user and save have left.
THEOREM SuccessIsProvisioned == Spec => []SuccessMeansProvisioned
<1>1. IInv /\ RunsOK /\ DoneRunsOK => SuccessMeansProvisioned
  <2> SUFFICES ASSUME IInv, DoneRunsOK, result = "ok" PROVE SuccessMeansProvisioned
    BY DEF SuccessMeansProvisioned
  <2>1. opts \in Request /\ opts # None /\ Settled(opts)
    BY OptsTypes DEF DoneRunsOK, ResultOK, DoneOK
  <2>2. /\ DOMAIN opts.users = 1..Len(opts.users) /\ DOMAIN opts.groups = 1..Len(opts.groups)
        /\ DOMAIN opts.hashes = 1..Len(opts.hashes)
    BY <2>1, OptsTypes
  <2>3. ASSUME NEW i \in DOMAIN opts.users
        PROVE  UserProvisioned(opts.users[i])
    <3> DEFINE n == opts.users[i]
    <3>1. Complete(etc, n)
      BY <2>1, <2>2 DEF Settled
    <3> HIDE DEF n
    <3>2. Find(etc.passwd, n) \in etc.passwd /\ Find(etc.passwd, n).name = n
      BY <3>1, FindFinds DEF Complete
    <3>3. UserProvisioned(n)
      BY <3>1, <3>2 DEF Complete, UserProvisioned
    <3> QED BY <3>3 DEF n
  <2>4. ASSUME NEW i \in DOMAIN opts.groups, NEW g \in opts.groups[i].groups
        PROVE  MemberOf(opts.groups[i].name, g)
    <3> DEFINE j == opts.groups[i]
    <3>1. Joined(etc, j) /\ g \in j.groups
      BY <2>1, <2>2 DEF Settled
    <3> HIDE DEF j
    <3>2. /\ Has(etc.group, g)
          /\ Find(etc.group, g) \in etc.group /\ Find(etc.group, g).name = g
          /\ Has(etc.gshadow, g) => Find(etc.gshadow, g) \in etc.gshadow /\ Find(etc.gshadow, g).name = g
      BY <3>1, FindFinds DEF Joined
    <3>3. MemberOf(j.name, g)
      BY <3>1, <3>2 DEF Joined, MemberOf
    <3> QED BY <3>3 DEF j
  <2>5. ASSUME NEW i \in DOMAIN opts.hashes
        PROVE  Find(etc.shadow, opts.hashes[i].name).hash = opts.hashes[i].hash
    <3> DEFINE p == opts.hashes[i]
    <3>1. HasHash(etc, p)
      BY <2>1, <2>2 DEF Settled
    <3> HIDE DEF p
    <3>2. Find(etc.shadow, p.name) \in etc.shadow /\ Find(etc.shadow, p.name).name = p.name
      BY <3>1, FindFinds DEF HasHash
    <3>3. Find(etc.shadow, p.name).hash = p.hash
      BY <3>1, <3>2 DEF HasHash
    <3> QED BY <3>3 DEF p
  <2>6. /\ opts.sshd => conf["sshd"] = Wanted("sshd")
        /\ opts.channel # None => \A f \in {"repository", "keys"} : conf[f] = Wanted(f)
    BY <2>1 DEF Settled, WantsFile, Content, Wanted, File
  <2> QED BY <2>3, <2>4, <2>5, <2>6 DEF SuccessMeansProvisioned
<1> QED BY <1>1, RunsInvariant, PTL

\* No step of a run removes or changes a row of the tables on the disk, members and
\* the passwords that were asked for excepted (add_user, add_to_groups,
\* set_password_hash, save).
THEOREM RunsOnlyAdd == Spec => OnlyAdds
<1>1. IInv /\ RunsOK /\ DoneRunsOK /\ [Next]_vars
      => [pc # "idle" /\ etc # None =>
            /\ etc.passwd \subseteq etc'.passwd
            /\ \A g \in etc.group : \E h \in etc'.group :
                   h.name = g.name /\ h.gid = g.gid /\ g.members \subseteq h.members
            /\ \A s \in etc.shadow : \E r \in etc'.shadow :
                   r = s \/ (r.name = s.name /\ Asked(r.name, r.hash))
            /\ \A g \in etc.gshadow : \E h \in etc'.gshadow :
                   h.name = g.name /\ g.members \subseteq h.members]_vars
  <2> SUFFICES ASSUME IInv, RunsOK, Next, pc # "idle" PROVE Extends(etc, etc')
    BY DEF Extends
  <2>1. CASE SaveTable
    BY <2>1, SaveExtends
  <2>2. CASE ~SaveTable
    <3>1. etc' = etc
      BY <2>2 DEF Next, Start, Run, ReadTables, AddUser, MakeHome, OwnHome, AddToGroups,
                  SetPasswordHash, WriteConf, Finish, Refuse, Exit, Trouble, Stop, Install, NextDay, world
    <3> QED BY <3>1, ExtendsReflexive
  <2> QED BY <2>1, <2>2
<1> QED BY <1>1, RunsInvariant, PTL DEF Spec, OnlyAdds

\* A run with the options of the last successful run changes no table, home directory
\* or other file, and is not refused (cmd_apply), whatever the day.
THEOREM RerunsAreNoOps == Spec => RerunIsNoOp
<1>1. IInv /\ RunsOK /\ DoneRunsOK /\ [Next]_vars
      => [pc # "idle" /\ done # None => UNCHANGED <<etc, home, conf>> /\ result' # "refused"]_vars
  <2> SUFFICES ASSUME IInv, RunsOK, DoneRunsOK, Next, pc # "idle", done # None
               PROVE  UNCHANGED <<etc, home, conf>> /\ result' # "refused"
    OBVIOUS
  <2>1. /\ pc = "apply" /\ result = "none"
        /\ todo.users # <<>> => Complete(etc, User)
        /\ todo.groups # <<>> => Joined(etc, Join)
        /\ todo.hashes # <<>> => HasHash(etc, Pass)
        /\ todo.saves # <<>> => etc # None
        /\ acc # None => acc = etc
    BY RerunOptions DEF DoneRunsOK, ResultOK
  <2>2. CASE Refuse
    <3>1. Phase # "read" \/ etc # None
      BY <2>1, PhaseIs DEF IInv
    <3>2. Phase \in {"users", "groups", "hashes"} => acc = etc
      <4>1. SaveOrder # <<>>
        BY DEF SaveOrder
      <4> QED BY <2>1, <4>1, PhaseIs DEF IInv, SavesOnTrack
    <3>3. Phase = "users" => ~RefusedUser
      BY <2>1, <3>2, PhaseIs DEF IInv, RefusedUser, Created, Complete
    <3>4. Phase = "groups" => ~RefusedJoin
      BY <2>1, <3>2, PhaseIs DEF IInv, RefusedJoin, Joined
    <3>5. Phase = "hashes" => ~RefusedPass
      BY <2>1, <3>2, PhaseIs DEF IInv, RefusedPass, HasHash
    <3> QED BY <2>2, <3>1, <3>3, <3>4, <3>5 DEF Refuse, Refused
  <2>3. CASE SaveTable
    <3>1. acc = etc /\ etc \in Tables /\ Head(todo.saves) \in Table
      <4>1. todo.saves # <<>> /\ acc # None /\ etc # None /\ todo.saves \in Seq(Table)
        BY <2>1, <2>3, PhaseIs DEF SaveTable, IInv, TypeOK, Part
      <4> QED BY <2>1, <4>1 DEF IInv, TypeOK
    <3>2. [etc EXCEPT ![Head(todo.saves)] = etc[Head(todo.saves)]] = etc
      BY <3>1 DEF Tables, Table
    <3> QED BY <2>1, <2>3, <3>1, <3>2 DEF SaveTable
  <2>4. CASE WriteConf
    BY <2>1, <2>4, ConfRuns DEF WriteConf
  <2>5. CASE ~(Refuse \/ SaveTable \/ WriteConf)
    BY <2>1, <2>5 DEF Next, Start, Run, ReadTables, AddUser, MakeHome, OwnHome, AddToGroups,
                SetPasswordHash, Finish, Exit, Trouble, Stop, Install, NextDay, world
  <2> QED BY <2>2, <2>3, <2>4, <2>5
<1> QED BY <1>1, RunsInvariant, PTL DEF Spec, RerunIsNoOp
=============================================================================
