----------------------------- MODULE MCAccounts -----------------------------
(***************************************************************************)
(* Small instances of Accounts for TLC: ann is registered, the demo        *)
(* administrator is seeded or not yet.                                     *)
(***************************************************************************)
EXTENDS Accounts, TLC

CONSTANTS ann, ann_mail, bob, demo, demo_mail

MCOldRow == [i \in OldIds |-> [name |-> ann, email |-> ann_mail, password |-> i, active |-> TRUE]]
AllOps == {"register", "ask", "confirm", "anonymize", "delete", "seed"}
RequestsSymmetry == Permutations(Requests)

=============================================================================
