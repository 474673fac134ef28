------------------------------ MODULE MCDatabase ------------------------------
(* Three goroutines on one key, enough for two of them to pass the lock    *)
(* together and a third to find it released under them.                    *)
EXTENDS Database, TLC
CONSTANTS p1, p2, p3
CallerSymmetry == Permutations({p1, p2, p3})
=============================================================================
