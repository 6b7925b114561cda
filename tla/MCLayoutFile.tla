---------------------------- MODULE MCLayoutFile ----------------------------
EXTENDS LayoutFile, TLC

CONSTANTS v1, v2, v3

MCVersions == {v1, v2, v3}

Interchangeable == Permutations(MCVersions)
=============================================================================
