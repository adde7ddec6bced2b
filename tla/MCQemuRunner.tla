---------------------------- MODULE MCQemuRunner ----------------------------
(* A small instance of QemuRunner: the command lines of the CI (a script, with and
   without a download), of test-image (expected lines), and a manual boot.      *)
EXTENDS QemuRunner, TLC

CONSTANTS booting, login, panic, junk,  \* lines
          eBooting, eLogin, ePanic,     \* expressions
          file1

MCLine == {booting, login, panic, junk}
MCDecodable == {booting, login, panic}
MCExpr == {eBooting, eLogin, ePanic}
MCMatches == (booting :> {eBooting}) @@ (login :> {eLogin})
             @@ (panic :> {ePanic}) @@ (junk :> {ePanic})
MCPath == {file1}
MCCode == {0, 1}

Plain == [ci |-> FALSE, downloads |-> <<>>, expect |-> {}, expectNot |-> {},
          timeout |-> FALSE, ioTimeout |-> FALSE]
Timed(o) == [o EXCEPT !.timeout = TRUE, !.ioTimeout = TRUE]
Script == [Plain EXCEPT !.ci = TRUE, !.downloads = <<file1>>]
Expecting == [Plain EXCEPT !.expect = {eBooting, eLogin}, !.expectNot = {ePanic}]
Both == [Script EXCEPT !.expect = {eLogin}, !.expectNot = {ePanic}, !.ioTimeout = TRUE]

MCOptions == {Timed(Plain), Script, Timed(Script), Expecting, Timed(Expecting), Both}
=============================================================================
