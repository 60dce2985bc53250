--------------------------- MODULE MCBulkLicenses ---------------------------
(* One batch of at most three licences, two concurrent requests.           *)
EXTENDS BulkLicenses, TLC

CONSTANTS m1, m2, h1, u1, u2

McSymmetry == Permutations({m1, m2}) \cup Permutations({u1, u2})
=============================================================================
