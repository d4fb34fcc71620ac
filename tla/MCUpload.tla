------------------------------ MODULE MCUpload ------------------------------
(* Instances of Upload for TLC. *)
EXTENDS Upload

TwoFiles == {[target |-> 2, maxActive |-> 2]}

=============================================================================
