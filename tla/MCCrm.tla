------------------------------- MODULE MCCrm -------------------------------
(* Three leads, one of them perhaps deleted and restored, one task and one *)
(* tag, two requests at a time.                                            *)
EXTENDS Crm, TLC

Identities == Permutations(Lead) \cup Permutations(Contact)
                \cup Permutations(Request)
=============================================================================
