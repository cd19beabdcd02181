-------------------------------- MODULE Lnb ----------------------------------
(***************************************************************************)
(* The frequency arithmetic of a low noise block.  Frequencies are in kHz. *)
(* A satellite frequency is what the user asks for and what is saved; a    *)
(* driver frequency is the intermediate frequency the tuner works with.    *)
(* Each program has its own copy; these are those of stid135-blindscan.    *)
(***************************************************************************)
EXTENDS Integers, Sequences

LnbTypes == {"UNIVERSAL_LNB", "WIDEBAND_LNB", "WIDEBAND_UK_LNB", "C_LNB"}

Bands == {0, 1}

lnb_universal_slof     == 11700000
lnb_universal_lof_low  ==  9750000
lnb_universal_lof_high == 10600000
lnb_wideband_lof       == 10400000
lnb_wideband_uk_lof    == 10410000
lnb_c_lof              ==  5150000

(* The local oscillator of each LNB in the low and in the high band.       *)
Lofs == [UNIVERSAL_LNB   |-> <<lnb_universal_lof_low, lnb_universal_lof_high>>,
         WIDEBAND_LNB    |-> <<lnb_wideband_lof, lnb_wideband_lof>>,
         WIDEBAND_UK_LNB |-> <<lnb_wideband_uk_lof, lnb_wideband_uk_lof>>,
         C_LNB           |-> <<lnb_c_lof, lnb_c_lof>>]

Lof(lnb, band) == Lofs[lnb][band + 1]

band_for_freq(lnb, f) ==
  IF lnb = "UNIVERSAL_LNB" /\ f >= lnb_universal_slof THEN 1 ELSE 0

(* The two assertions of driver_freq_for_freq; the build keeps assert().   *)
InBand(lnb, f, band) ==
  lnb = "UNIVERSAL_LNB" =>
    IF band = 0 THEN f <= lnb_universal_slof ELSE f >= lnb_universal_slof

(* The C band LNB mirrors the spectrum: its oscillator is above the band.  *)
driver_freq_for_freq(lnb, f, band) ==
  IF lnb = "C_LNB" THEN Lof(lnb, band) - f ELSE f - Lof(lnb, band)

freq_for_driver_freq(lnb, f, band) ==
  IF lnb = "C_LNB" THEN Lof(lnb, band) - f ELSE f + Lof(lnb, band)

==============================================================================
