----------------------------- MODULE MCRefundWorker -----------------------------
(* A small instance of RefundWorker for TLC: the runs of one refund share   *)
(* nothing with those of another but the workers.                           *)
EXTENDS RefundWorker, TLC

Interchangeable == Permutations(Refunds) \cup Permutations(Workers)
================================================================================
