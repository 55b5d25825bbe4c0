------------------------- MODULE MCQueueTransactions -------------------------
(***************************************************************************)
(* Instances of the queue's transactions for TLC.                          *)
(***************************************************************************)
EXTENDS QueueTransactions, TLC

\* Sessions are interchangeable; rows are not, their ids are ordered.
Sessions == Permutations(Txn)
=============================================================================
