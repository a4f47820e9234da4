---------------------------- MODULE MCPtydManager -----------------------------
EXTENDS PtydManager, TLC
KeySymmetry == Permutations(Key)
=============================================================================
