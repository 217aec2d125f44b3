----------------------------- MODULE MCBackupChain -----------------------------
EXTENDS BackupChain, TLC
CONSTANTS w1, w2, m1, m2, genesis
MCSymmetry == Permutations(Messages) \cup Permutations(Workers)
================================================================================
