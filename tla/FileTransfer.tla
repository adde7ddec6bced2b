---------------------------- MODULE FileTransfer ----------------------------
(* What a file server promises to its clients: each copy grows piece by piece, in
   the order of the file, it is complete only when all pieces are there, and it
   does not change any more when the transfer has ended.                       *)
EXTENDS Naturals, Sequences

CONSTANT Client

VARIABLES
    want,     \* the number of pieces of each client's file
    got,      \* the pieces that it has, in the order of their arrival
    outcome   \* "pending", "complete" or "failed"

Init ==
    /\ want \in [Client -> Nat]
    /\ got = [c \in Client |-> <<>>]
    /\ outcome = [c \in Client |-> "pending"]

Accept(c) ==
    /\ outcome[c] = "pending" /\ Len(got[c]) < want[c]
    /\ got' = [got EXCEPT ![c] = Append(@, Len(got[c]) + 1)]
    /\ \/ UNCHANGED outcome
       \/ Len(got[c]) + 1 = want[c] /\ outcome' = [outcome EXCEPT ![c] = "complete"]
       \/ outcome' = [outcome EXCEPT ![c] = "failed"]
    /\ UNCHANGED want

\* A client that asks for nothing but the size has its answer.
Answer(c) ==
    /\ outcome[c] = "pending" /\ want[c] = 0
    /\ outcome' = [outcome EXCEPT ![c] = "complete"]
    /\ UNCHANGED <<want, got>>

Fail(c) ==
    /\ outcome[c] = "pending"
    /\ outcome' = [outcome EXCEPT ![c] = "failed"]
    /\ UNCHANGED <<want, got>>

Next == \E c \in Client : Accept(c) \/ Answer(c) \/ Fail(c)

Spec == Init /\ [][Next]_<<want, got, outcome>>
=============================================================================
