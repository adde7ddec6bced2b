--------------------------- MODULE MCPackageBuild ---------------------------
(* A small instance of PackageBuild: two crates with ports, one of them in two
   incompatible versions; a program, a hard link to it, a copy and a script.      *)
EXTENDS PackageBuild, TLC

CONSTANTS serde, libc, prog, link, copy, script, id1

MCVersion == {<<0, 1, 0>>, <<0, 1, 1>>, <<0, 2, 0>>, <<1, 0, 0>>, <<1, 1, 0>>}
MCPatches == <<[name |-> libc, version |-> <<0, 1, 1>>], [name |-> libc, version |-> <<0, 2, 0>>],
               [name |-> serde, version |-> <<1, 1, 0>>]>>

Crates(n, v) == [name |-> n, version |-> v, registry |-> TRUE]

MCLocks == {None, {}, {Crates(libc, <<0, 1, 0>>), Crates(libc, <<1, 0, 0>>)},
            {Crates(libc, <<0, 2, 0>>), Crates(serde, <<1, 0, 0>>)}}
MCExtra == {Crates(serde, <<1, 0, 0>>)}

MCFile == {prog, link, copy, script}
MCElf == {prog, link, copy}
MCBuildId == prog :> id1 @@ link :> id1 @@ copy :> id1 @@ script :> None
MCInode == prog :> 1 @@ link :> 1 @@ copy :> 2 @@ script :> 3
=============================================================================
