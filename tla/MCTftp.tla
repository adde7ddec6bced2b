------------------------------- MODULE MCTftp -------------------------------
(* A small instance of Tftp with two clients.  Block sizes are in units, the default
   is 2, the largest block number is 4, and a datagram holds 4.                    *)
EXTENDS Tftp, TLC

CONSTANTS c1, c2
MCClient == {c1, c2}

Ask3 == [valid |-> TRUE, size |-> 3, blksize |-> None, windowsize |-> None, tsize |-> None,
         exact |-> TRUE]

\* A window and a multiple of the block size, a question for the size; a block size below
\* the default, a missing file; a file that is too long; parts of a file, a bad option;
\* a rest and a block size that are too long for a datagram, a client with odd answers.
MCRequests ==
    {c1 :> [Ask3 EXCEPT !.size = 6, !.windowsize = 2] @@ c2 :> [Ask3 EXCEPT !.tsize = 0],
     c1 :> [Ask3 EXCEPT !.size = 2, !.blksize = 1, !.windowsize = 2]
        @@ c2 :> [Ask3 EXCEPT !.size = None],
     c1 :> [Ask3 EXCEPT !.size = 8] @@ c2 :> Ask3,
     c1 :> [Ask3 EXCEPT !.tsize = 2] @@ c2 :> [Ask3 EXCEPT !.valid = FALSE],
     c1 :> [Ask3 EXCEPT !.size = 2, !.blksize = 3, !.tsize = 1]
        @@ c2 :> [Ask3 EXCEPT !.valid = FALSE],
     c1 :> [Ask3 EXCEPT !.size = 5, !.tsize = 1] @@ c2 :> [Ask3 EXCEPT !.exact = FALSE],
     c1 :> [Ask3 EXCEPT !.size = 6, !.blksize = 5] @@ c2 :> [Ask3 EXCEPT !.valid = FALSE]}
=============================================================================
