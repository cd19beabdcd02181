---------------------------- MODULE MCParallelScan ----------------------------
(* Command lines for the model checker: a full universal scan of one       *)
(* polarisation, a low band scan of both, and ranges at the switching      *)
(* frequency.  The proofs are extended for their inductive invariant.      *)
EXTENDS ParallelScan_proofs

Request(pols, start, end) ==
  [sys |-> "sat", lnb |-> "UNIVERSAL_LNB", pols |-> pols, start |-> start, end |-> end]

TwoPassRequests == {Request({H}, -1, -1), Request({H, V}, -1, 11700000),
                    Request({V}, 11700000, 11700000)}

OnePass == {Request({V}, -1, 11000000)}
===============================================================================
