--------------------------- MODULE StampProtocol ---------------------------
(* What the stamp of a boot volume promises, without saying how it is kept.

   A volume holds items (boot files, limine-bios.sys, the BIOS stages).  At
   any moment it makes one claim, a function from items to the values they
   must hold, or no claim at all.  Readers that find a claim act on it
   without looking at the items, so a claim may only be made of what is there
   and has to be withdrawn before a claimed item changes.

   update-boot.py keeps this promise twice: for the volume as other programs
   see it, and for the volume as a power loss would leave it.  UpdateEsp
   instantiates this module once for each.                                  *)
EXTENDS Integers

CONSTANTS
    Item,       \* the things on the volume that a claim may speak of
    Unclaimed,  \* the value of an item that a claim leaves open
    NoClaim     \* the volume carries no usable stamp

VARIABLES
    claim,      \* NoClaim, or a function from Item to the claimed values
    content     \* what every item really holds

\* The items that a claim c pins down.
Covered(c) == {i \in Item : c # NoClaim /\ c[i] # Unclaimed}

\* c describes the volume v.
Describes(c, v) == \A i \in Covered(c) : v[i] = c[i]

Honest == Describes(claim, content)

Init == claim = NoClaim

\* The items that c pins down do not change.
Keeps(c) == \A i \in Covered(c) : content'[i] = content[i]

\* The content may change in any way that the claim, which stays, allows.
Disturb ==
    /\ claim' = claim
    /\ Keeps(claim)

\* Before anything that is claimed changes, the claim is withdrawn.
Withdraw ==
    /\ claim' = NoClaim
    /\ Keeps(claim)

\* A claim is made only where there was none, and of what is there already.
Claim ==
    /\ claim = NoClaim
    /\ Describes(claim', content)
    /\ Keeps(claim')

Next == Disturb \/ Withdraw \/ Claim

Spec == Init /\ [][Next]_<<claim, content>>
=============================================================================
