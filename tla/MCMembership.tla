---------------------------- MODULE MCMembership ----------------------------
(***************************************************************************)
(* Small instances of joining the association for TLC: a person who waits  *)
(* for an invitation, another one who was removed, and requests that race  *)
(* for their rows and links.                                               *)
(***************************************************************************)
EXTENDS Membership, TLC

CONSTANTS ann, ben, new1, new2, mail1, mail2, mail3, mail4,
          n1, n2, n3, n4

Waiting(email, number) == NewPerson(email, number)
Removed(email, number) == [NewPerson(email, number) EXCEPT !.deleted = TRUE]

\* Ann waits for an invitation; the other ids are unused.
MCOnlyAnn == [p \in People |-> IF p = ann THEN Waiting(mail1, n1) ELSE NoRow]

\* Ann waits, Ben was removed.
MCAnnAndBen == [p \in People |-> CASE p = ann -> Waiting(mail1, n1)
                                   [] p = ben -> Removed(mail2, n2)
                                   [] OTHER -> NoRow]

Update(p, e, n) == [op |-> "update", person |-> p, email |-> e, number |-> n]
Remove(p) == [op |-> "remove", person |-> p]
Create(e, n) == [op |-> "create", email |-> e, number |-> n]
Import(policy, rows) == [op |-> "import", policy |-> policy, rows |-> rows]
Id(e, n) == [email |-> e, number |-> n]

MCInvitationCalls == {[op |-> o, person |-> ann] : o \in {"send", "resend"}}
MCLinkCalls == [op : {"verify", "complete"}, link : Slots]

MCFewChanges == {Update(ann, mail2, Keep), Remove(ann)}
MCChanges == {Update(ann, mail2, Keep), Update(ann, Keep, n2), Remove(ann),
              Create(mail1, n1)}
MCOneImport == {Import("UPDATE", <<Id(mail2, n1)>>)}
MCNoImports == {}

\* Imports: both people as they are, with a new number or address, crossed over,
\* twice, and with newcomers and an invalid row, under each policy.
MCImports ==
  {Import("UPDATE", <<Id(mail1, n3), Id(mail2, n2)>>),
   Import("UPDATE", <<Id(mail3, n1), Id(mail1, n3), InvalidRow>>),
   Import("UPDATE", <<Id(mail1, n2), Id(mail3, n3)>>),
   Import("UPDATE", <<Id(mail2, n3), Id(mail3, n1), Id(mail3, n2)>>),
   Import("SKIP", <<Id(mail1, n1), Id(mail3, n3), Id(mail3, n4), Id(mail4, n4)>>),
   Import("FAIL", <<Id(mail3, n3)>>),
   Import("FAIL", <<Id(mail3, n3), Id(mail4, n4)>>),
   Import("FAIL", <<Id(mail3, n3), Id(mail3, n2)>>),
   Import("FAIL", <<Id(mail3, n3), InvalidRow>>)}

MCImportChanges ==
  {Update(ann, mail3, Keep), Update(ann, Keep, n3), Remove(ann),
   Create(mail2, n2), Create(mail3, n3)}

MCSymmetry == Permutations(Slots)
MCImportSymmetry == Permutations(Slots) \cup Permutations({new1, new2})

=============================================================================
