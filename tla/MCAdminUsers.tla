---------------------------- MODULE MCAdminUsers ----------------------------
(***************************************************************************)
(* A small instance of account changes for TLC: two administrators and a   *)
(* student, with requests that race for the same accounts.                 *)
(***************************************************************************)
EXTENDS AdminUsers, TLC

CONSTANTS alice, root, boss

MCInitialBalance == [u \in Users |-> 0]
MCInitialProducts == [p \in Products |-> NoRow]

Access(a, u, ro, st) == [admin |-> a, user |-> u, role |-> ro, status |-> st]

MCAccessCalls ==
  {Access(root, alice, Keep, "BLOCKED"), Access(boss, alice, "ADMIN", "BLOCKED"),
   Access(root, boss, "STUDENT", Keep), Access(boss, root, Keep, "BLOCKED"),
   Access(boss, root, "STUDENT", "BLOCKED"), Access(root, boss, "ADMIN", "ACTIVE"),
   Access(boss, boss, "STUDENT", Keep), Access(root, root, "ADMIN", "BLOCKED"),
   Access(root, root, Keep, Keep)}

MCSymmetry == Permutations(Slots)

=============================================================================
