----------------------------- MODULE MCDevpkgs -----------------------------
(* A small instance of Devpkgs: two packages, of which one is built twice.     *)
EXTENDS Devpkgs, TLC

CONSTANTS p1, p2, b1, b2, b3

MCPackage == {p1, p2}
MCBuild == {b1, b2, b3}
MCMakes == (p1 :> {b1, b2}) @@ (p2 :> {b3})
=============================================================================
