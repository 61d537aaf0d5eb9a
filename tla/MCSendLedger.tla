---------------------------- MODULE MCSendLedger ----------------------------
(***************************************************************************)
(* Small instances of SendLedger.  One draft that can be edited and sent   *)
(* by two commands at once; and two drafts for the same person.            *)
(***************************************************************************)
EXTENDS SendLedger, TLC

CONSTANTS m1, m2, p1, s1, s2, f1, f2, k1, k2

OneDraft == [m \in {m1} |-> p1]
TwoDrafts == [m \in {m1, m2} |-> p1]

Symmetric == Permutations(Call)
SymmetricDrafts == Permutations(Call) \cup Permutations(Message)
=============================================================================
