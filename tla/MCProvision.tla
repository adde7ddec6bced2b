---------------------------- MODULE MCProvision ----------------------------
(* A small instance of Provision: the request of the live image's task, another
   one that only sets up xbps, one for two more users, and one that sets the
   password of a user who may not exist.

   Of the two shipments one has a user and a group with ids that provisioning
   would give away, and ships the home directory of a user.                   *)
EXTENDS Provision

CONSTANTS root, managarm, daemon, guest, wheel, h1, h2, stable, nightly

MCName == {root, managarm, daemon, guest, wheel}
MCHash == {h1, h2}
MCChannel == {stable, nightly}
Uid == 2

BaseTables ==
    [passwd |-> {[name |-> root, uid |-> 0, gid |-> 0]},
     group |-> {[name |-> root, gid |-> 0, members |-> {}], [name |-> wheel, gid |-> 1, members |-> {}]},
     shadow |-> {[name |-> root, hash |-> Locked, day |-> 0]},
     gshadow |-> {[name |-> root, members |-> {}], [name |-> wheel, members |-> {}]}]
MoreTables ==
    [BaseTables EXCEPT !.passwd = @ \cup {[name |-> daemon, uid |-> 3, gid |-> 0]},
                       !.group = @ \cup {[name |-> guest, gid |-> 2, members |-> {daemon}]}]

MCShipment == {[tables |-> BaseTables, homes |-> {}],
               [tables |-> MoreTables, homes |-> {managarm}]}

Live == [users |-> <<managarm>>,
         groups |-> <<[name |-> managarm, groups |-> {wheel}]>>,
         hashes |-> <<[name |-> managarm, hash |-> h1], [name |-> root, hash |-> h2]>>,
         sshd |-> TRUE, channel |-> stable]
XbpsOnly == [users |-> <<>>, groups |-> <<>>, hashes |-> <<>>, sshd |-> FALSE, channel |-> nightly]
Others == [users |-> <<guest, daemon, managarm>>,
           groups |-> <<[name |-> guest, groups |-> {wheel}]>>,
           hashes |-> <<>>, sshd |-> FALSE, channel |-> None]
GuestPass == [users |-> <<>>, groups |-> <<[name |-> guest, groups |-> {wheel}]>>,
              hashes |-> <<[name |-> guest, hash |-> h2]>>, sshd |-> FALSE, channel |-> None]
MCRequest == {Live, XbpsOnly, Others, GuestPass}
=============================================================================
