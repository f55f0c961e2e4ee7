---------------------------- MODULE MCWasmRegions ----------------------------
EXTENDS WasmRegions, TLC

Symmetric == Permutations(Addresses)
=============================================================================
