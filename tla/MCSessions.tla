----------------------------- MODULE MCSessions -----------------------------
(***************************************************************************)
(* Small instances of Sessions.                                            *)
(***************************************************************************)
EXTENDS Sessions, TLC

CONSTANTS l1, l2, u1, u2

\* Two sessions of different users; the first user logs out.
TwoUsers == [r \in Logins \cup Logouts |-> IF r = l2 THEN u2 ELSE u1]

Symmetry == Permutations(Refreshes)
============================================================================
