----------------------------- MODULE MCDBlkAlloc -----------------------------
(* DBlkAlloc on a small disk. *)
EXTENDS DBlkAlloc

\* A client's block: data that reads as a list of low block ids.
LookAlike == [s \in Slots |-> s]
MCContents == {LookAlike}
=============================================================================
