---------------------------- MODULE MCDebugLog -----------------------------
(* Instances of DebugLog for TLC. *)
EXTENDS DebugLog, TLC

CONSTANTS c1, c2,   \* model values for Calls
          f1, f2    \* model values for Folders

OpenWriteFaults == {"open", "write"}
SSLCategories   == {"SSL_DATA_IN", "SSL_DATA_OUT"}
Symmetry        == {p @@ q : p \in Permutations(Calls), q \in Permutations(Folders)}
=============================================================================
