----------------------------- MODULE Provision -----------------------------
(* provision-sysroot.py: it adds users, group memberships, password hashes, the
   settings of sshd and the xbps repository to an installation.

   The tables of /etc are read, extended in memory and saved one after another,
   each by an atomic rename.  A run may stop anywhere, and is repeated; packages
   are installed between runs, which brings back the tables that they ship.    *)
EXTENDS Naturals, Sequences, FiniteSets

CONSTANTS
    Name,      \* names of users and of groups that check_name accepts
    Hash,      \* password hashes that set_password_hash accepts
    Channel,   \* of the xbps repository
    Shipment,  \* what core-files brings: the tables, and home directories
    Request,   \* the command lines
    FirstUid,  \* FIRST_UID
    AsRoot,    \* whether runs have the right to chown
    MaxDay,    \* bound: days that pass
    Locked,    \* the hash "!"
    None       \* not there, or not asked for

Id == Nat
Account == [name : Name, uid : Id, gid : Id]
Group == [name : Name, gid : Id, members : SUBSET Name]
Secret == [name : Name, hash : Hash \cup {Locked}, day : Nat]
GroupSecret == [name : Name, members : SUBSET Name]
Tables == [passwd : SUBSET Account, group : SUBSET Group,
           shadow : SUBSET Secret, gshadow : SUBSET GroupSecret]
Membership == [name : Name, groups : SUBSET Name]
Password == [name : Name, hash : Hash]
File == {"sshd", "repository", "keys"}

Table == {"passwd", "group", "shadow", "gshadow"}

\* Table.find, and whether it finds anything.
Has(rows, n) == \E row \in rows : row.name = n
Find(rows, n) == CHOOSE row \in rows : row.name = n

Named(rows) == \A r, s \in rows : r.name = s.name => r = s

\* Tables in which names and ids stand for one thing each.
WellFormed(t) ==
    /\ Named(t.passwd) /\ Named(t.group) /\ Named(t.shadow) /\ Named(t.gshadow)
    /\ \A p, q \in t.passwd : p.uid = q.uid => p = q
    /\ \A g, h \in t.group : g.gid = h.gid => g = h

ASSUME ConstantsAssumption ==
    /\ FirstUid \in Nat /\ MaxDay \in Nat /\ AsRoot \in BOOLEAN
    /\ Shipment \subseteq [tables : Tables, homes : SUBSET Name]
    /\ Request \subseteq [users : Seq(Name), groups : Seq(Membership), hashes : Seq(Password),
                          sshd : BOOLEAN, channel : Channel \cup {None}]
    /\ Locked \notin Hash /\ None \notin Nat \cup Channel \cup Request \cup Tables \cup Shipment

\* core-files ships tables in which every account has its group.
ASSUME ShipmentAssumption ==
    \A s \in Shipment :
        /\ WellFormed(s.tables)
        /\ IsFiniteSet(s.tables.passwd) /\ IsFiniteSet(s.tables.group)
        /\ \A p \in s.tables.passwd : \E g \in s.tables.group : g.gid = p.gid

\* A command line that sets one password twice sets it twice on every run.
ASSUME RequestAssumption ==
    \A o \in Request : \A i, j \in DOMAIN o.hashes : o.hashes[i].name = o.hashes[j].name => i = j

VARIABLES
    etc,       \* the tables, or None before core-files is installed
    home,      \* the owner of each home directory, or None
    conf,      \* the other files that are written
    today,     \* days_since_epoch
    packages,  \* the shipment that is installed, or None
    pc,        \* "idle", "apply", or, within add_user, "home" and "chown"
    opts,      \* the command line of the last run
    todo,      \* what is left of it
    acc,       \* the Accounts, or None
    result,    \* how the last run has ended
    done       \* history: the command line of a successful run after which
               \* neither another one has run nor packages were installed

vars == <<etc, home, conf, today, packages, pc, opts, todo, acc, result, done>>
world == <<etc, home, conf, today, packages>>

NoOptions == [users |-> <<>>, groups |-> <<>>, hashes |-> <<>>, sshd |-> FALSE, channel |-> None]

SaveOrder_GroupFirst ==  \* mutant: passwd is not the first table
    <<"group", "passwd", "shadow", "gshadow">>
SaveOrder == <<"passwd", "group", "shadow", "gshadow">>

NeedsAccounts(o) == o.users # <<>> \/ o.groups # <<>> \/ o.hashes # <<>>

Work(o) ==
    [users |-> o.users, groups |-> o.groups, hashes |-> o.hashes,
     saves |-> IF NeedsAccounts(o) THEN SaveOrder ELSE <<>>,
     files |-> (IF o.sshd THEN <<"sshd">> ELSE <<>>)
               \o (IF o.channel # None THEN <<"repository", "keys">> ELSE <<>>)]

Init ==
    /\ etc = None
    /\ home = [n \in Name |-> None]
    /\ conf = [f \in File |-> None]
    /\ today = 0
    /\ packages = None
    /\ pc = "idle"
    /\ opts = NoOptions
    /\ todo = Work(NoOptions)
    /\ acc = None
    /\ result = "none"
    /\ done = None

-----------------------------------------------------------------------------
(* The run, in the order of cmd_apply. *)

\* What the run has to do next.
Phase ==
    IF pc # "apply" THEN pc
    ELSE IF todo.saves # <<>> /\ acc = None THEN "read"
    ELSE IF todo.users # <<>> THEN "users"
    ELSE IF todo.groups # <<>> THEN "groups"
    ELSE IF todo.hashes # <<>> THEN "hashes"
    ELSE IF todo.saves # <<>> THEN "saves"
    ELSE IF todo.files # <<>> THEN "files"
    ELSE "finish"

Pop(part) == todo' = [todo EXCEPT ![part] = Tail(@)]

Start(o) ==
    /\ pc = "idle" /\ pc' = "apply"
    /\ opts' = o
    /\ todo' = Work(o)
    /\ result' = "none"
    /\ done' = IF o = done THEN done ELSE None
    /\ UNCHANGED <<world, acc>>

ReadTables ==
    /\ Phase = "read" /\ etc # None
    /\ acc' = etc
    /\ UNCHANGED <<world, pc, opts, todo, result, done>>

-----------------------------------------------------------------------------
(* add_user *)

UsedIds_GroupsOnly(t) ==  \* mutant: the ids of other users are not skipped
    {g.gid : g \in t.group}
UsedIds(t) == {p.uid : p \in t.passwd} \cup {g.gid : g \in t.group}

\* The first id from FIRST_UID on that is not taken.
FreeId(used) ==
    CHOOSE i \in FirstUid..(FirstUid + Cardinality(used)) :
        i \notin used /\ \A j \in FirstUid..(i - 1) : j \in used

Created(t, n) == ~Has(t.passwd, n)

NewAccount(t, n) == LET id == FreeId(UsedIds(t)) IN [name |-> n, uid |-> id, gid |-> id]

WithAccount(t, n) ==
    IF Created(t, n) THEN [t EXCEPT !.passwd = @ \cup {NewAccount(t, n)}] ELSE t

WithGroup(t, n) ==
    IF \E g \in t.group : g.gid = Find(t.passwd, n).gid THEN t
    ELSE [t EXCEPT !.group = @ \cup {[name |-> n, gid |-> Find(t.passwd, n).gid, members |-> {}]}]

WithGroupSecret(t, n) ==
    IF Has(t.group, n) /\ ~Has(t.gshadow, n)
    THEN [t EXCEPT !.gshadow = @ \cup {[name |-> n, members |-> {}]}] ELSE t

WithSecret_Fresh(t, n) ==  \* mutant: an existing password is locked again
    [t EXCEPT !.shadow = {s \in @ : s.name # n} \cup {[name |-> n, hash |-> Locked, day |-> today]}]
WithSecret(t, n) ==
    IF Has(t.shadow, n) THEN t
    ELSE [t EXCEPT !.shadow = @ \cup {[name |-> n, hash |-> Locked, day |-> today]}]

WithUser_New(t, n) ==  \* mutant: an account that is in passwd is taken to be complete
    IF Created(t, n) THEN WithSecret(WithGroupSecret(WithGroup(WithAccount(t, n), n), n), n) ELSE t
\* The rows of an account that are missing.
WithUser(t, n) == WithSecret(WithGroupSecret(WithGroup(WithAccount(t, n), n), n), n)

User == Head(todo.users)

RefusedUser_Always == Has(acc.group, User)  \* mutant: also for accounts that exist
\* Who wants an account whose name is the one of somebody else's group.
RefusedUser == Created(acc, User) /\ Has(acc.group, User)

AddUser ==
    /\ Phase = "users" /\ ~RefusedUser
    /\ acc' = WithUser(acc, User)
    /\ IF Created(acc, User) THEN pc' = "home" /\ UNCHANGED todo
                             ELSE Pop("users") /\ UNCHANGED pc
    /\ UNCHANGED <<world, opts, result, done>>

MakeHome_NewOnly ==  \* mutant: only a new directory gets its owner
    /\ pc = "home"
    /\ home' = [home EXCEPT ![User] = IF @ = None THEN 0 ELSE @]
    /\ IF home[User] = None THEN pc' = "chown" /\ UNCHANGED todo
                            ELSE pc' = "apply" /\ Pop("users")
    /\ UNCHANGED <<etc, conf, today, packages, opts, acc, result, done>>

\* A directory belongs to root at first.
MakeHome ==
    /\ pc = "home" /\ pc' = "chown"
    /\ home' = [home EXCEPT ![User] = IF @ = None THEN 0 ELSE @]
    /\ UNCHANGED <<etc, conf, today, packages, opts, todo, acc, result, done>>

\* An existing directory gets its owner, too.
OwnHome ==
    /\ pc = "chown" /\ pc' = "apply"
    /\ home' = [home EXCEPT ![User] = IF AsRoot THEN Find(acc.passwd, User).uid ELSE @]
    /\ Pop("users")
    /\ UNCHANGED <<etc, conf, today, packages, opts, acc, result, done>>

-----------------------------------------------------------------------------
(* add_to_groups and set_password_hash *)

WithMember(rows, gs, n) ==
    {IF row.name \in gs THEN [row EXCEPT !.members = @ \cup {n}] ELSE row : row \in rows}

Join == Head(todo.groups)

RefusedJoin == ~Has(acc.passwd, Join.name) \/ \E g \in Join.groups : ~Has(acc.group, g)

AddToGroups ==
    /\ Phase = "groups" /\ ~RefusedJoin
    /\ acc' = [acc EXCEPT !.group = WithMember(@, Join.groups, Join.name),
                          !.gshadow = WithMember(@, Join.groups, Join.name)]
    /\ Pop("groups")
    /\ UNCHANGED <<world, pc, opts, result, done>>

WithHash_NewDay(rows, n, hash) ==  \* mutant: the day is set even if the hash is not new
    {IF row.name = n THEN [row EXCEPT !.hash = hash, !.day = today] ELSE row : row \in rows}
WithHash(rows, n, hash) ==
    {IF row.name = n /\ row.hash # hash THEN [row EXCEPT !.hash = hash, !.day = today] ELSE row :
        row \in rows}

Pass == Head(todo.hashes)

RefusedPass == ~Has(acc.passwd, Pass.name) \/ ~Has(acc.shadow, Pass.name)

SetPasswordHash ==
    /\ Phase = "hashes" /\ ~RefusedPass
    /\ acc' = [acc EXCEPT !.shadow = WithHash(@, Pass.name, Pass.hash)]
    /\ Pop("hashes")
    /\ UNCHANGED <<world, pc, opts, result, done>>

-----------------------------------------------------------------------------
(* The files are written, and the run ends. *)

\* write_file: the table is the old one or the new one at any time.
SaveTable ==
    /\ Phase = "saves"
    /\ etc' = [etc EXCEPT ![Head(todo.saves)] = acc[Head(todo.saves)]]
    /\ Pop("saves")
    /\ UNCHANGED <<home, conf, today, packages, pc, opts, acc, result, done>>

Wanted(file) == IF file = "repository" THEN opts.channel ELSE "provisioned"

WriteConf ==
    /\ Phase = "files"
    /\ conf' = [conf EXCEPT ![Head(todo.files)] = Wanted(Head(todo.files))]
    /\ Pop("files")
    /\ UNCHANGED <<etc, home, today, packages, pc, opts, acc, result, done>>

\* The process ends, and its variables with it.
Exit(status) ==
    /\ pc' = "idle"
    /\ todo' = Work(NoOptions)
    /\ acc' = None
    /\ result' = status
    /\ UNCHANGED <<world, opts>>

Finish ==
    /\ Phase = "finish"
    /\ Exit("ok")
    /\ done' = opts

\* A ProvisionError.
Refused ==
    \/ Phase = "read" /\ etc = None
    \/ Phase = "users" /\ RefusedUser
    \/ Phase = "groups" /\ RefusedJoin
    \/ Phase = "hashes" /\ RefusedPass

Refuse ==
    /\ Refused
    /\ Exit("refused")
    /\ UNCHANGED done

\* An OSError, a signal, or a crash of a system that keeps renames in order.
Stop ==
    /\ pc # "idle"
    /\ Exit("stopped")
    /\ UNCHANGED done

-----------------------------------------------------------------------------
(* Between the runs. *)

Install(s) ==
    /\ pc = "idle"
    /\ packages' = s
    /\ etc' = s.tables
    /\ home' = [n \in Name |-> IF n \in s.homes /\ home[n] = None THEN 0 ELSE home[n]]
    /\ result' = "none" /\ done' = None
    /\ UNCHANGED <<conf, today, pc, opts, todo, acc>>

NextDay ==
    /\ today < MaxDay
    /\ today' = today + 1
    /\ UNCHANGED <<etc, home, conf, packages, pc, opts, todo, acc, result, done>>

Run == ReadTables \/ AddUser \/ MakeHome \/ OwnHome \/ AddToGroups \/ SetPasswordHash
       \/ SaveTable \/ WriteConf \/ Finish \/ Refuse
Trouble == Stop \/ \E s \in Shipment : Install(s)

Next == (\E o \in Request : Start(o)) \/ Run \/ Trouble \/ NextDay

Spec == Init /\ [][Next]_vars

\* The scheduler lets a run go on, and each request is made again and again.
FairSpec == Spec /\ WF_vars(Run) /\ \A o \in Request : SF_vars(Start(o))

-----------------------------------------------------------------------------
(* Properties *)

Part == [users : Seq(Name), groups : Seq(Membership), hashes : Seq(Password),
         saves : Seq(Table), files : Seq(File)]

TypeOK ==
    /\ etc \in Tables \cup {None}
    /\ home \in [Name -> Id \cup {None}]
    /\ conf \in [File -> Channel \cup {"provisioned", None}]
    /\ today \in Nat
    /\ packages \in Shipment \cup {None}
    /\ pc \in {"idle", "apply", "home", "chown"}
    /\ opts \in Request \cup {NoOptions}
    /\ todo \in Part
    /\ acc \in Tables \cup {None}
    /\ result \in {"none", "ok", "refused", "stopped"}
    /\ done \in Request \cup {None}

\* However runs with different options are interrupted between two tables, no two
\* users share a name or an id, and no two groups do.
Identities == etc # None => WellFormed(etc)

UserProvisioned(n) ==
    /\ Has(etc.passwd, n) /\ Has(etc.shadow, n)
    /\ \E g \in etc.group : g.gid = Find(etc.passwd, n).gid
    /\ Has(etc.group, n) => Has(etc.gshadow, n)

MemberOf(n, g) ==
    /\ n \in Find(etc.group, g).members
    /\ Has(etc.gshadow, g) => n \in Find(etc.gshadow, g).members

\* A run that ends with status 0 has done all that it was asked for, and has
\* completed what interrupted runs have left of these accounts.
SuccessMeansProvisioned ==
    result = "ok" =>
        /\ \A i \in DOMAIN opts.users : UserProvisioned(opts.users[i])
        /\ \A i \in DOMAIN opts.groups : \A g \in opts.groups[i].groups : MemberOf(opts.groups[i].name, g)
        /\ \A i \in DOMAIN opts.hashes : Find(etc.shadow, opts.hashes[i].name).hash = opts.hashes[i].hash
        /\ opts.sshd => conf["sshd"] = Wanted("sshd")
        /\ opts.channel # None => \A f \in {"repository", "keys"} : conf[f] = Wanted(f)

\* No account is visible in passwd before its home directory exists and is its
\* own, whether a run, an interrupted one or a package has made the directory.
HomesOwned ==
    AsRoot /\ etc # None =>
        \A p \in etc.passwd : ~Has(packages.tables.passwd, p.name) => home[p.name] = p.uid

\* "group already exists" is said of the packages' groups only, never of one that
\* an interrupted run has left.
NoSelfRefusal == Phase = "users" /\ RefusedUser => Has(packages.tables.group, User)

Asked(n, hash) == \E i \in DOMAIN opts.hashes : opts.hashes[i] = [name |-> n, hash |-> hash]

\* "Each option only adds to what the packages ship": no run removes or changes a
\* row, members and the passwords that were asked for excepted.
OnlyAdds ==
    [][pc # "idle" /\ etc # None =>
         /\ etc.passwd \subseteq etc'.passwd
         /\ \A g \in etc.group : \E h \in etc'.group :
                h.name = g.name /\ h.gid = g.gid /\ g.members \subseteq h.members
         /\ \A s \in etc.shadow : \E r \in etc'.shadow : r = s \/ (r.name = s.name /\ Asked(r.name, r.hash))
         /\ \A g \in etc.gshadow : \E h \in etc'.gshadow : h.name = g.name /\ g.members \subseteq h.members]_vars

\* "rerunning with the same options is a no-op", on a later day, too, and it is
\* not refused.
RerunIsNoOp ==
    [][pc # "idle" /\ done # None => UNCHANGED <<etc, home, conf>> /\ result' # "refused"]_vars

\* What the packages that are installed allow for, whatever other runs have added.
Sound(o) ==
    /\ NeedsAccounts(o) => packages # None
    /\ \A i \in DOMAIN o.users :
        Has(packages.tables.group, o.users[i]) => Has(packages.tables.passwd, o.users[i])
    /\ \A i \in DOMAIN o.groups :
        /\ \E j \in DOMAIN o.users : o.users[j] = o.groups[i].name
        /\ \A g \in o.groups[i].groups : Has(packages.tables.group, g)
    /\ \A i \in DOMAIN o.hashes :
        \/ \E j \in DOMAIN o.users : o.users[j] = o.hashes[i].name
        \/ /\ Has(packages.tables.passwd, o.hashes[i].name)
           /\ Has(packages.tables.shadow, o.hashes[i].name)

\* As long as troubles end, every request that the packages allow for succeeds,
\* whatever interrupted runs have left.
Recovers ==
    \/ []<><<Trouble>>_vars
    \/ \A o \in Request : <>[]Sound(o) => []<>(result = "ok" /\ opts = o)
=============================================================================
