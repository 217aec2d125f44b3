------------------------------- MODULE MCArchive -------------------------------
(* A year of 7 days, 3 months of 2 days and one day over.                  *)
EXTENDS Archive
CONSTANT genesis
================================================================================
