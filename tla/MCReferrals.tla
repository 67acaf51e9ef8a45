---------------------------- MODULE MCReferrals ----------------------------
(* Instances of Referrals: users and handlers are interchangeable.          *)
EXTENDS Referrals, TLC
Symmetry == Permutations(Users) \cup Permutations(Processes)
=============================================================================
