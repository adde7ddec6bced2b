---------------------------- MODULE MCUpdateEsp ----------------------------
(* A small instance of UpdateEsp: two paths, two contents, two Limine builds
   and three states of the installation, which differ in a file's content, in
   a file's existence and in the build.                                     *)
EXTENDS UpdateEsp, TLC

CONSTANTS p1, p2, a, b

MCPath == {p1, p2}
MCContent == {a, b}
MCBuild == {1, 2}
MCRoot ==
    {[files |-> (p1 :> a @@ p2 :> a), limine |-> 1],
     [files |-> (p1 :> a @@ p2 :> None), limine |-> 1],
     [files |-> (p1 :> b @@ p2 :> None), limine |-> 2]}

\* Two states of the installation for the runs with one path.
MCOnePath == {p1}
MCTwoRoots ==
    {[files |-> (p1 :> a), limine |-> 1], [files |-> (p1 :> b), limine |-> 2]}

AllPhases == Phase
\* Every phase but the one between the removal of the stamp and os.sync().
NotBeforeSync == Phase \ {"dropped"}
=============================================================================
