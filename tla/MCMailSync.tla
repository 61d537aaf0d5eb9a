----------------------------- MODULE MCMailSync -----------------------------
(***************************************************************************)
(* Small instances of MailSync: the founder wrote to the person's first    *)
(* address, and the person asked for no further e-mail, in the same thread *)
(* from the second address.                                                *)
(***************************************************************************)
EXTENDS MailSync, TLC

CONSTANTS wrote, optOut, work, private, k1, k2

PeerOf == [m \in {wrote, optOut} |-> IF m = wrote THEN work ELSE private]
OneThread == [m \in {wrote, optOut} |-> "thread"]

Symmetric == Permutations(Call)
=============================================================================
