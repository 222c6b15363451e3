----------------------------- MODULE MCSession -----------------------------
(***************************************************************************)
(* Instances of Session for TLC.                                           *)
(***************************************************************************)
EXTENDS Session, TLC

\* Instances, objects, identities and request slots are interchangeable.
Symmetry == Permutations(Ids) \cup Permutations(Clients)
            \cup Permutations(Jids) \cup Permutations(Reqs)
=============================================================================
