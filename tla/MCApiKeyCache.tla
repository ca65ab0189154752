--------------------------- MODULE MCApiKeyCache ----------------------------
EXTENDS ApiKeyCache, TLC

CONSTANTS k1, r1, r2, r3, d1, d2

MCSymmetry == Permutations(Requests) \union Permutations(Deleters)

=============================================================================
