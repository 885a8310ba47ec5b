----------------------------- MODULE MCAccounts -----------------------------
(***************************************************************************)
(* The administrator and two others, ids enough for two accounts and one   *)
(* that is given again, two threads.                                       *)
(***************************************************************************)
EXTENDS StoreAccounts

CONSTANTS w1, w2, root, ann, bob

MCWorker == {w1, w2}
MCPerson == {root, ann, bob}
=============================================================================
