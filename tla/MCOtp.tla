-------------------------------- MODULE MCOtp --------------------------------
(***************************************************************************)
(* An instance of Otp: two requests for one user, of every kind, with two  *)
(* codes, so that a guess may be right, wrong or right for another OTP.    *)
(***************************************************************************)
EXTENDS Otp, TLC

CONSTANTS s1, s2, u1, c1, c2, id1, id2, id3

MCSlot == {s1, s2}
MCUser == {u1}
MCCode == {c1, c2}
MCMaxAttempts == [p \in Purpose |-> IF p = "signup" THEN 2 ELSE 1]

\* Three rows, of either purpose; fewer while a request remembers a deleted one.
MCOtpId == {id1, id2, id3}

Symmetry == Permutations(MCSlot) \cup Permutations(MCCode) \cup Permutations(MCOtpId)
=============================================================================
