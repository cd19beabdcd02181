----------------------------- MODULE FrequencyPath -----------------------------
(***************************************************************************)
(* What happens to frequencies in a scan of stid135-blindscan, from the    *)
(* range on the command line to the line in the output file:               *)
(* driver_start_spectrum turns each pass of the plan into a range for the  *)
(* driver, get_spectrum turns the candidates the driver finds in it back   *)
(* into satellite frequencies, tune_it turns a candidate into the driver's *)
(* frequency again, and save_info saves where the driver has locked.       *)
(*                                                                         *)
(* The sky, the LNB and the driver are external: a candidate may be off    *)
(* the transponder it belongs to, and locking corrects that.               *)
(***************************************************************************)
EXTENDS ScanPlan

CONSTANTS
  CommandLines, \* the command lines: records of sys, lnb, pols, start, end
  Skies,        \* external: sets of transponders, as records of pol and freq
  Offsets       \* external: how far a candidate may be off its transponder

ASSUME FrequencyPathAssumption ==
  /\ CommandLines \subseteq [sys: DeliverySystems, lnb: LnbTypes, pols: SUBSET {H, V},
                             start: Int, end: Int]
  /\ Skies \subseteq SUBSET [pol: {H, V}, freq: Int]
  /\ Offsets \subseteq Int

VARIABLES
  options,     \* options_t
  sky,         \* external: the transponders there are
  plan, pass,  \* the passes, and the present one
  step,        \* "ask", "find", "tune", "save", "done" or "abort"
  asked,       \* the range the driver is asked to scan, in its frequencies
  heard,       \* external: the transponders found in the present pass
  station,     \* external: the transponder behind the present candidate
  peak_freq,   \* spectral_peak_t::freq of the present candidate
  saved        \* the output file: what was saved for which transponder

pathVars == <<options, sky, plan, pass, step, asked, heard, station, peak_freq, saved>>

lnb  == options.lnb
PassBand == plan[pass].band
PlanOf(r) ==
  LET range == ScanRange(r.sys, r.lnb, r.start, r.end)
  IN  Plan(r.pols, range[1], range[2])

(* External: the frequency at which a transponder arrives at the tuner; no *)
(* LNB converts the signal of a cable or terrestrial antenna.              *)
Arrives(t) ==
  IF options.sys # "sat" THEN t.freq
  ELSE IF lnb = "C_LNB" THEN Lof(lnb, PassBand) - t.freq ELSE t.freq - Lof(lnb, PassBand)

-------------------------------------------------------------------------------
(* The single decisions of the code, each next to the faulty variants that *)
(* the mutation runs put in its place.                                     *)

(* driver_start_spectrum swaps the bounds of a mirrored range.             *)
Ordered(s, e) == IF s > e THEN <<e, s>> ELSE <<s, e>>

(* The end is converted as the last frequency before it.                   *)
LastFreq(p) == p.end - 1

(* tune_it tunes in the band of the pass.                                  *)
LowBand  == 0                                                     \* mutant
TuneBand == PassBand

(* scan_peak works out again in which band the peak is.                    *)
AlwaysLow(f) == 0                                                 \* mutant
SaveBand(f)  == band_for_freq(lnb, f)

(* The loops of scan end after the last pass.                              *)
MorePasses  == pass < Len(plan)

-------------------------------------------------------------------------------
PathInit ==
  /\ options \in CommandLines
  /\ sky \in Skies
  /\ plan = PlanOf(options)
  /\ pass = 1
  /\ step = IF plan = <<>> THEN "done" ELSE "ask"
  /\ asked = <<0, 0>> /\ heard = {}
  /\ station = [pol |-> H, freq |-> 0] /\ peak_freq = 0
  /\ saved = {}

(* driver_start_spectrum.  For cable and terrestrial systems the bounds    *)
(* are multiplied by 1000 afterwards, here they stay in kHz.               *)
AskSpectrum ==
  /\ step = "ask"
  /\ LET p == plan[pass]
     IN  IF InBand(lnb, p.start, p.band) /\ InBand(lnb, LastFreq(p), p.band)
         THEN /\ asked' = Ordered(driver_freq_for_freq(lnb, p.start, p.band),
                                  driver_freq_for_freq(lnb, LastFreq(p), p.band) + 1)
              /\ step' = "find"
         ELSE step' = "abort" /\ UNCHANGED asked
  /\ heard' = {}
  /\ UNCHANGED <<options, sky, plan, pass, station, peak_freq, saved>>

(* get_spectrum and reserve_peak_to_scan: the next candidate.              *)
FindCandidate ==
  /\ step = "find"
  /\ \E t \in sky \ heard, o \in Offsets :
       /\ t.pol = plan[pass].pol
       /\ Arrives(t) \in asked[1] .. asked[2]
       /\ Arrives(t) + o \in asked[1] .. asked[2]
       /\ station' = t /\ heard' = heard \cup {t}
       /\ peak_freq' = freq_for_driver_freq(lnb, Arrives(t) + o, PassBand)
  /\ step' = "tune"
  /\ UNCHANGED <<options, sky, plan, pass, asked, saved>>

(* tune_it: the driver locks when it was sent close to the transponder.    *)
TuneCandidate ==
  /\ step = "tune"
  /\ step' = IF ~InBand(lnb, peak_freq, TuneBand) THEN "abort"
           ELSE IF driver_freq_for_freq(lnb, peak_freq, TuneBand) - Arrives(station) \in Offsets
                THEN "save" ELSE "find"
  /\ UNCHANGED <<options, sky, plan, pass, asked, heard, station, peak_freq, saved>>

(* save_info: the driver reports the frequency it has locked on.           *)
SaveInfo ==
  /\ step = "save"
  /\ saved' = saved \cup
       {[station |-> station, peak |-> peak_freq, band |-> PassBand,
         freq |-> freq_for_driver_freq(lnb, Arrives(station), SaveBand(peak_freq))]}
  /\ step' = "find"
  /\ UNCHANGED <<options, sky, plan, pass, asked, heard, station, peak_freq>>

(* All candidates of the pass have been scanned.                           *)
NextPass ==
  /\ step = "find"
  /\ \A t \in sky \ heard : t.pol = plan[pass].pol => Arrives(t) \notin asked[1] .. asked[2]
  /\ pass' = pass + 1
  /\ step' = IF MorePasses THEN "ask" ELSE "done"
  /\ UNCHANGED <<options, sky, plan, asked, heard, station, peak_freq, saved>>

PathFinished == step \in {"done", "abort"} /\ UNCHANGED pathVars

PathNext == AskSpectrum \/ FindCandidate \/ TuneCandidate \/ SaveInfo \/ NextPass \/ PathFinished

PathSpec == PathInit /\ [][PathNext]_pathVars

-------------------------------------------------------------------------------
(* Correctness.                                                            *)

FullRange == ScanRange(options.sys, options.lnb, options.start, options.end)

PathTypeOK ==
  /\ options \in CommandLines
  /\ plan = PlanOf(options)
  /\ pass \in 1 .. Len(plan) + 1 /\ (step \in {"ask", "find", "tune", "save"} => pass <= Len(plan))
  /\ step \in {"ask", "find", "tune", "save", "done", "abort"}
  /\ asked \in Int \X Int
  /\ sky \in Skies /\ heard \subseteq sky
  /\ station \in [pol: {H, V}, freq: Int] /\ (step \in {"tune", "save"} => station \in heard)
  /\ peak_freq \in Int
  /\ saved \subseteq [station: [pol: {H, V}, freq: Int], peak: Int, band: Bands, freq: Int]

(* The assertions of driver_freq_for_freq hold for every range of the plan *)
(* and for every peak the driver may find in it.                           *)
AssertionsHold == step # "abort"

(* A line of the output file gives the frequency of the transponder that   *)
(* was locked, unless the low band candidate was exactly on the switching  *)
(* frequency of the LNB, which scan_peak counts to the high band.          *)
SavedIsTrue ==
  options.sys = "sat" => \A s \in saved :
    s.freq = s.station.freq \/ (s.band = 0 /\ s.peak = lnb_universal_slof)

(* Every transponder the user asked for is in the file at the end, with    *)
(* the one exception of SavedIsTrue.                                       *)
RangeIsCovered ==
  step = "done" =>
    \A t \in sky :
      t.pol \in options.pols /\ FullRange[1] <= t.freq /\ t.freq < FullRange[2] - 1
        => \E s \in saved : s.station = t

(* "The scanned portion is the range [start-freq, end-freq]."              *)
OnlyRangeScanned == step = "find" => plan[pass].start >= options.start
================================================================================
