--------------------------- MODULE MCPreKeyMaint ---------------------------
\* Instances of PreKeyMaint for TLC; goroutines are interchangeable.
EXTENDS PreKeyMaint, TLC

MaintainerSymmetry == Permutations(Maintainers)
============================================================================
