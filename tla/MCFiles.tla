------------------------------ MODULE MCFiles ------------------------------
(***************************************************************************)
(* Two processes, two slices, one key and one recipient.  Two tools of any *)
(* kind; a third and a fourth of those that protect, where no import       *)
(* changed anything, so that a container can be signed while it is         *)
(* protected, and then licensed and decrypted.                             *)
(***************************************************************************)
EXTENDS Workbench, TLC

CONSTANTS p1, p2, f, g, k1, r1

MCProcess == {p1, p2}
MCInput == {f, g}
MCKey == {k1}
MCRecipient == {r1}
MCSymmetry == Permutations(MCProcess) \union Permutations(MCInput)

MCLateTools ==
    begun' > 2 =>
        target' = 0 /\ (\A i \in Inode : version'[i] = 0) /\ Importing = {}
        /\ \A p \in Process : job'[p] # job[p] => job'[p].op \notin {"sign", "export"} \/ begun' = begun
=============================================================================
