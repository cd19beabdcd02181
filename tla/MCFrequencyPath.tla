---------------------------- MODULE MCFrequencyPath ----------------------------
(* Transponders on and next to every boundary the code knows, in pairs, and *)
(* command lines that end on, before and after those boundaries.            *)
EXTENDS FrequencyPath

Request(lnbType, start, end) ==
  [sys |-> "sat", lnb |-> lnbType, pols |-> {H, V}, start |-> start, end |-> end]

Universal(start, end) == Request("UNIVERSAL_LNB", start, end)

SatRequests ==
  {Universal(-1, -1), Universal(11700000, 11700000), Universal(11699999, 11700001),
   Universal(11699999, -1), Universal(-1, 11700001), Universal(12000000, 11000000),
   Request("C_LNB", -1, -1), Request("C_LNB", 4200000, 3400000),
   Request("WIDEBAND_LNB", -1, 12750000), Request("WIDEBAND_UK_LNB", -1, 11700000)}

Transponder(p, f) == [pol |-> p, freq |-> f]

KuFrequencies == {10700000, 11699998, 11699999, 11700000, 11700001, 12000000, 12749998}
CFrequencies  == {3400000, 3400001, 4199998, 4200000}

Pairs(frequencies) ==
  {{Transponder(p, f), Transponder(V, g)} : p \in {H, V}, f, g \in frequencies}

SatSkies == Pairs(KuFrequencies) \cup Pairs(CFrequencies)

Near == -1 .. 1

(* A cable tuner with a carrier, and a range for a wideband LNB.            *)
UnusualRequests ==
  {[sys |-> "cable", lnb |-> "UNIVERSAL_LNB", pols |-> {H}, start |-> -1, end |-> -1],
   Request("WIDEBAND_LNB", 11000000, 12000000)}
AllSkies == SatSkies \cup {{Transponder(H, 474000)}}
================================================================================
