------------------------- MODULE MCMonetaryDonation -------------------------
(* Four deciders, so that one decision can overlap two others that finish.  *)
EXTENDS MonetaryDonation, TLC

Symmetry == Permutations(Deciders)
=============================================================================
