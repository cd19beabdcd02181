--------------------------- MODULE MCBlindscanSession ---------------------------
(* Command lines for the model checker.                                     *)
EXTENDS BlindscanSession

Options(pols, start, end, rf_in, switch) ==
  [sys |-> "sat", lnb |-> "UNIVERSAL_LNB", pols |-> pols, start |-> start, end |-> end,
   rf_in |-> rf_in, switch |-> switch]

BothBands == {Options({V}, -1, -1, TRUE, TRUE), Options({H, V}, 11700000, 12750000, FALSE, FALSE)}

(* Both polarisations of the low band, one, and a range in the high band.   *)
SomeRanges == {Options({H, V}, -1, 11700000, TRUE, TRUE), Options({H}, -1, 11700000, FALSE, TRUE),
               Options({H}, 12000000, 12500000, FALSE, TRUE)}

Again  == {"MASTER", "UNCHANGED"}
AllAnswers == {"MASTER", "RETRY", "UNCHANGED", "NOT_SUPPORTED", "FAILED"}
AllFailing == {"voltage", "tone_off", "message", "tone"}
================================================================================
