------------------------------ MODULE MCAnchor ------------------------------
(***************************************************************************)
(* Instances of Anchor.  The batch cap is below the number of receipts, so *)
(* a backlog spans two batches; with two workers the passes of the ticker  *)
(* and the admin trigger overlap.                                          *)
(***************************************************************************)
EXTENDS Anchor, TLC

Interchangeable == Permutations(Worker) \cup Permutations(Provider)
=============================================================================
