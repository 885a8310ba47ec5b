------------------------------ MODULE MCStore ------------------------------
(***************************************************************************)
(* One buyer, a draft and a release of a product, two names, two threads   *)
(* for the catalogue and one for payments.                                 *)
(***************************************************************************)
EXTENDS StoreCommerce, TLC

CONSTANTS w1, w2, c1, u1, a, b, draft, r1

MCWorker == {w1, w2}
MCCashier == {c1}
MCUser == {u1}
MCPath == {a, b}
MCContent == {draft, r1}
MCSymmetry == Permutations(MCWorker) \union Permutations(MCPath)
\* A file that is there from the start is a draft that the user accepted; releases are
\* uploaded, and acceptances of what replaces the draft are still to come.
MCInit ==
    /\ Init
    /\ \A p \in Path : files[p] # None => files[p].content = draft /\ acceptances # {}
MCSpec == MCInit /\ [][Next]_vars

\* A request is killed when there is another to come.
MCEarlyFaults == faults' > faults => served < MaxRequests

MCSequence == [c \in MCContent |-> IF c = draft THEN 0 ELSE 1]
=============================================================================
