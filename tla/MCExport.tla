------------------------------ MODULE MCExport ------------------------------
EXTENDS Export, TLC

ExportSymmetry == Permutations(Attempts) \cup Permutations(Deliveries)
=============================================================================
