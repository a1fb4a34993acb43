--------------------------- MODULE MCSecureShuffle ---------------------------
(* Two parties with two threads, for TLC. *)
EXTENDS SecureShuffle

CONSTANTS t1, t2

TwoParties == {0, 1}

\* One thread meets every permutation of up to three units and the six of four that
\* move the first to the end, the other rotations by none or one.
MCDraws(t, n) ==
  IF t = t1 THEN {perm \in Perms(n) : n = 4 => perm[0] = 3}
  ELSE {[i \in 0 .. Pow2(n) - 1 |-> IF i < n THEN (i + k) % n ELSE i] : k \in {0, 1}}
=============================================================================
