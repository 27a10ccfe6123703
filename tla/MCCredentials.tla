---------------------------- MODULE MCCredentials ----------------------------
(***************************************************************************)
(* An instance of Credentials: two requests for one user, with as many     *)
(* reset tokens as overlapping requests can leave and one more.            *)
(***************************************************************************)
EXTENDS Credentials, TLC

CONSTANTS s1, s2, u1, w1, w2, id1, id2, id3, t1, t2

MCSlot == {s1, s2}
MCUser == {u1}
MCPassword == {w1, w2}
MCResetId == {id1, id2, id3}
MCJwt == {t1, t2}

Symmetry ==
    Permutations(MCSlot) \cup Permutations(MCPassword)
    \cup Permutations(MCResetId) \cup Permutations(MCJwt)
=============================================================================
