------------------------------- MODULE ScanPlan -------------------------------
(***************************************************************************)
(* Which bands stid135-blindscan scans: the defaults parse_options gives   *)
(* the frequency range, and the passes the double loop of scanner_t::scan  *)
(* makes over polarisation and band.                                       *)
(***************************************************************************)
EXTENDS Lnb, Sequences

DeliverySystems == {"sat", "terrestrial", "cable", "other"}

H == "H"
V == "V"

Wideband(sys, lnb) == sys = "sat" /\ lnb \in {"WIDEBAND_LNB", "WIDEBAND_UK_LNB"}

(* parse_options: a negative bound was not given on the command line.  For *)
(* a wideband LNB the start is overwritten and the end has no default.     *)
StartFreq(sys, lnb, start) ==
  IF sys = "other" \/ (start >= 0 /\ ~Wideband(sys, lnb)) THEN start
  ELSE IF sys # "sat" THEN 40000
  ELSE IF lnb = "C_LNB" THEN 3400000 ELSE 10700000

EndFreq(sys, lnb, end) ==
  IF sys = "other" \/ end >= 0 \/ Wideband(sys, lnb) THEN end
  ELSE IF sys = "terrestrial" THEN 1002000
  ELSE IF sys = "cable" THEN 900000
  ELSE IF lnb = "C_LNB" THEN 4200000 ELSE 12750000

(* A range that is empty after this becomes a single frequency.            *)
ScanRange(sys, lnb, start, end) ==
  LET s == StartFreq(sys, lnb, start)
      e == EndFreq(sys, lnb, end)
  IN  <<s, IF e < s THEN s + 1 ELSE e>>

(* The two scan_band calls of one polarisation; "append" makes the second  *)
(* pass add to the spectrum file the first one has written.                *)
NeverAppends(start) == FALSE                                      \* mutant
Appends(start)      == start < lnb_universal_slof

(* scan tests the two bands independently.                                 *)
HighInstead(start, end) == end > lnb_universal_slof /\ start >= lnb_universal_slof  \* mutant
HighNeeded(start, end)  == end > lnb_universal_slof

LowPass(p, start, end) ==
  IF start < lnb_universal_slof
  THEN << [band |-> 0, pol |-> p, start |-> start, append |-> FALSE,
           end |-> IF end < lnb_universal_slof THEN end ELSE lnb_universal_slof] >>
  ELSE << >>

HighPass(p, start, end) ==
  IF HighNeeded(start, end)
  THEN << [band |-> 1, pol |-> p, end |-> end, append |-> Appends(start),
           start |-> IF start > lnb_universal_slof THEN start ELSE lnb_universal_slof] >>
  ELSE << >>

PolPasses(pols, p, start, end) ==
  IF p \in pols THEN LowPass(p, start, end) \o HighPass(p, start, end) ELSE << >>

Plan(pols, start, end) == PolPasses(pols, H, start, end) \o PolPasses(pols, V, start, end)

===============================================================================
