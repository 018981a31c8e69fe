----------------------------- MODULE MCDBlkCrash -----------------------------
(* DBlkCrash on a small disk; client data is one value that is no list. *)
EXTENDS DBlkCrash

MCContents == {[s \in Slots |-> -2]}
=============================================================================
