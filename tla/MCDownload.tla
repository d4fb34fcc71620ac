----------------------------- MODULE MCDownload -----------------------------
(* Instances of Download for TLC. *)
EXTENDS Download

TwoAhead == {[target |-> 2, openAhead |-> 3, maxActive |-> 2]}

=============================================================================
