------------------------- MODULE FrequencyPath_proofs --------------------------
(***************************************************************************)
(* Frequencies on their way to the tuner and back.                         *)
(*                                                                         *)
(* In a scan, for every command line, every sky and every error of the     *)
(* candidates: the two conversions are inverse, no assertion of            *)
(* driver_freq_for_freq can fail, and what is saved is true.               *)
(*                                                                         *)
(* In neumo-tune, for every command line and whatever the requests return  *)
(* and the signals interrupt: the tuner receives the frequency that was    *)
(* asked for, behind the LNB and the switches that were asked for, and a   *)
(* lock is reported only if it was reached since the request.              *)
(***************************************************************************)
EXTENDS FrequencyPath, NeumoTune, SequenceTheorems, TLAPS

Stations == [pol: {H, V}, freq: Int]

(* Passes are in order, and on one side of the universal LNB's switching   *)
(* frequency each, whatever the LNB.                                       *)
Passes ==
  {p \in [band: Bands, pol: {H, V}, start: Int, end: Int, append: BOOLEAN] :
     /\ p.start <= p.end
     /\ p.band = 0 => p.end <= lnb_universal_slof
     /\ p.band = 1 => p.start >= lnb_universal_slof /\ p.end > lnb_universal_slof}

(* The frequencies from which candidates of a pass may come.               *)
Between(type, p, f) == type # "C_LNB" => p.start <= f /\ f <= p.end

Working == step \in {"ask", "find", "tune", "save"}

PlanInv ==
  /\ options \in CommandLines /\ sky \in Skies
  /\ plan \in Seq(Passes)
  /\ pass \in Nat \ {0}
  /\ step \in {"ask", "find", "tune", "save", "done", "abort"}
  /\ Working => pass <= Len(plan)

AskedInv ==
  /\ asked \in Int \X Int
  /\ step \in {"find", "tune", "save"} =>
       \A d \in asked[1] .. asked[2] :
         Between(lnb, plan[pass], freq_for_driver_freq(lnb, d, PassBand))

PeakInv ==
  /\ peak_freq \in Int /\ station \in Stations
  /\ step \in {"tune", "save"} => Between(lnb, plan[pass], peak_freq)

SavedInv ==
  /\ saved \subseteq [station: Stations, peak: Int, band: Bands, freq: Int]
  /\ SavedIsTrue

PathInv == PlanInv /\ AskedInv /\ PeakInv /\ SavedInv /\ AssertionsHold

-------------------------------------------------------------------------------
(* The oscillators and the switching frequency are integers.               *)
LEMMA LofType ==
  ASSUME NEW type \in LnbTypes, NEW b \in Bands
  PROVE  Lof(type, b) \in Int
BY SMT DEF LnbTypes, Bands, Lof, Lofs, lnb_universal_lof_low, lnb_universal_lof_high,
           lnb_wideband_lof, lnb_wideband_uk_lof, lnb_c_lof

(* Only the universal LNB has two oscillators.                             *)
LEMMA OneLof ==
  ASSUME NEW type \in LnbTypes, NEW b \in Bands, NEW c \in Bands, type # "UNIVERSAL_LNB"
  PROVE  Lof(type, b) = Lof(type, c)
BY SMT DEF LnbTypes, Bands, Lof, Lofs

LEMMA SlofType == lnb_universal_slof \in Int
BY SMT DEF lnb_universal_slof

(* driver_freq_for_freq and freq_for_driver_freq undo each other in the    *)
(* same band, for every LNB.                                               *)
THEOREM RoundTrip ==
  ASSUME NEW type \in LnbTypes, NEW b \in Bands, NEW f \in Int
  PROVE  /\ driver_freq_for_freq(type, f, b) \in Int
         /\ freq_for_driver_freq(type, f, b) \in Int
         /\ freq_for_driver_freq(type, driver_freq_for_freq(type, f, b), b) = f
         /\ driver_freq_for_freq(type, freq_for_driver_freq(type, f, b), b) = f
BY LofType DEF driver_freq_for_freq, freq_for_driver_freq

-------------------------------------------------------------------------------
(* The passes of one polarisation lie where they should.                   *)
LEMMA PolPassesType ==
  ASSUME NEW pols, NEW p \in {H, V}, NEW start \in Int, NEW end \in Int, start <= end
  PROVE  PolPasses(pols, p, start, end) \in Seq(Passes)
<1> DEFINE slof == lnb_universal_slof
<1>0. slof \in Int
  BY SlofType
<1> HIDE DEF slof
<1>1. LowPass(p, start, end) \in Seq(Passes)
  <2> DEFINE e == IF end < slof THEN end ELSE slof
             r == [band |-> 0, pol |-> p, start |-> start, append |-> FALSE, end |-> e]
  <2>1. CASE start < slof
    <3>1. e \in Int /\ start <= e /\ e <= slof
      BY <1>0, <2>1
    <3>2. r \in Passes
      BY <3>1 DEF Passes, Bands, slof
    <3>3. << r >> \in Seq(Passes)
      BY <3>2
    <3> QED BY <2>1, <3>3 DEF LowPass, slof
  <2>2. CASE ~(start < slof)
    BY <2>2 DEF LowPass, slof
  <2> QED BY <2>1, <2>2
<1>2. HighPass(p, start, end) \in Seq(Passes)
  <2> DEFINE s == IF start > slof THEN start ELSE slof
             a == Appends(start)
             r == [band |-> 1, pol |-> p, end |-> end, append |-> a, start |-> s]
  <2>1. CASE end > slof
    <3>1. s \in Int /\ s >= slof /\ s <= end /\ a \in BOOLEAN
      BY <1>0, <2>1 DEF Appends
    <3>2. r \in Passes
      BY <2>1, <3>1 DEF Passes, Bands, slof
    <3>3. << r >> \in Seq(Passes)
      BY <3>2
    <3> QED BY <2>1, <3>3 DEF HighPass, HighNeeded, slof
  <2>2. CASE ~(end > slof)
    BY <2>2 DEF HighPass, HighNeeded, slof
  <2> QED BY <2>1, <2>2
<1> QED BY <1>1, <1>2 DEF PolPasses

(* So does the whole plan of every command line.                           *)
LEMMA PlanType ==
  ASSUME NEW r \in CommandLines
  PROVE  PlanOf(r) \in Seq(Passes)
<1> DEFINE range == ScanRange(r.sys, r.lnb, r.start, r.end)
<1>1. r.start \in Int /\ r.end \in Int
  BY FrequencyPathAssumption
<1>2. range[1] \in Int /\ range[2] \in Int /\ range[1] <= range[2]
  BY <1>1, SMT DEF ScanRange, StartFreq, EndFreq
<1> HIDE DEF range
<1>3. Plan(r.pols, range[1], range[2]) \in Seq(Passes)
  BY <1>2, PolPassesType DEF Plan
<1> QED BY <1>3 DEF range, PlanOf

(* A frequency between the bounds of a pass satisfies the assertions.      *)
LEMMA BetweenIsInBand ==
  ASSUME NEW type \in LnbTypes, NEW p \in Passes, NEW f \in Int, Between(type, p, f)
  PROVE  InBand(type, f, p.band)
BY SlofType DEF Between, InBand, Passes, Bands, LnbTypes

(* Every frequency of the range the driver is asked for is in the pass.    *)
LEMMA AskedIsBetween ==
  ASSUME NEW type \in LnbTypes, NEW p \in Passes, NEW d \in Int,
         LET s == driver_freq_for_freq(type, p.start, p.band)
             e == driver_freq_for_freq(type, p.end - 1, p.band) + 1
         IN  d \in Ordered(s, e)[1] .. Ordered(s, e)[2]
  PROVE  Between(type, p, freq_for_driver_freq(type, d, p.band))
<1>1. p.band \in Bands /\ p.start \in Int /\ p.end \in Int /\ p.start <= p.end
  BY DEF Passes
<1>2. Lof(type, p.band) \in Int
  BY <1>1, LofType
<1> QED BY <1>1, <1>2 DEF Between, Ordered, driver_freq_for_freq, freq_for_driver_freq

-------------------------------------------------------------------------------
LEMMA PathInitInv == PathInit => PathInv
<1> SUFFICES ASSUME PathInit PROVE PathInv
  OBVIOUS
<1>1. plan \in Seq(Passes)
  BY PlanType DEF PathInit
<1>2. PlanInv
  BY <1>1 DEF PathInit, PlanInv, Working
<1>3. AskedInv /\ PeakInv /\ SavedInv /\ AssertionsHold
  BY DEF PathInit, AskedInv, PeakInv, SavedInv, SavedIsTrue, AssertionsHold, Stations
<1> QED BY <1>2, <1>3 DEF PathInv

(* What is known while a pass is worked on.                                *)
LEMMA Present ==
  ASSUME PlanInv, Working
  PROVE  lnb \in LnbTypes /\ plan[pass] \in Passes /\ PassBand \in Bands
<1>1. lnb \in LnbTypes
  BY FrequencyPathAssumption DEF PlanInv, lnb
<1>2. plan[pass] \in Passes
  BY DEF PlanInv
<1> QED BY <1>1, <1>2 DEF PassBand, Passes

LEMMA PlanStep == PlanInv /\ [PathNext]_pathVars => PlanInv'
BY DEF PlanInv, PathNext, pathVars, Working, lnb, AskSpectrum, FindCandidate, TuneCandidate, SaveInfo,
       NextPass, PathFinished, MorePasses

LEMMA AskedStep ==
  ASSUME PlanInv, AskedInv, [PathNext]_pathVars
  PROVE  AskedInv'
<1>1. CASE AskSpectrum
  <2> DEFINE p == plan[pass]
             s == driver_freq_for_freq(lnb, p.start, p.band)
             e == driver_freq_for_freq(lnb, p.end - 1, p.band) + 1
  <2>1. lnb \in LnbTypes /\ p \in Passes /\ PassBand \in Bands
    BY <1>1, Present DEF AskSpectrum, Working
  <2>2. p.start \in Int /\ p.end - 1 \in Int /\ p.band \in Bands
    BY <2>1 DEF Passes
  <2>3. s \in Int /\ e \in Int
    BY <2>1, <2>2, RoundTrip
  <2>4. UNCHANGED <<options, plan, pass>> /\ (asked' = Ordered(s, e) \/ asked' = asked)
    BY <1>1 DEF AskSpectrum, LastFreq
  <2>5. step' = "find" => asked' = Ordered(s, e)
    BY <1>1 DEF AskSpectrum, LastFreq
  <2>6. step' \in {"find", "abort"}
    BY <1>1 DEF AskSpectrum
  <2>7. ASSUME step' = "find", NEW d \in Int, d \in Ordered(s, e)[1] .. Ordered(s, e)[2]
        PROVE  Between(lnb, p, freq_for_driver_freq(lnb, d, p.band))
    BY <2>1, <2>7, AskedIsBetween
  <2>8. asked' \in Int \X Int
    BY <2>3, <2>4 DEF AskedInv, Ordered
  <2>9. lnb' = lnb /\ plan[pass]' = p /\ PassBand' = p.band
    BY <2>4 DEF lnb, PassBand
  <2> HIDE DEF p, s, e
  <2>10. step' = "find" =>
           \A d \in asked'[1] .. asked'[2] :
             Between(lnb, p, freq_for_driver_freq(lnb, d, p.band))
    <3> SUFFICES ASSUME step' = "find", NEW d \in asked'[1] .. asked'[2]
                 PROVE  Between(lnb, p, freq_for_driver_freq(lnb, d, p.band))
      OBVIOUS
    <3>1. asked'[1] \in Int /\ asked'[2] \in Int
      BY <2>8
    <3>2. d \in Int
      BY <3>1
    <3> QED BY <2>5, <2>7, <3>2
  <2> QED BY <2>6, <2>8, <2>9, <2>10 DEF AskedInv, p
<1>2. CASE FindCandidate \/ TuneCandidate \/ SaveInfo
  BY <1>2 DEF FindCandidate, TuneCandidate, SaveInfo, AskedInv, PassBand, lnb
<1>3. CASE NextPass
  BY <1>3 DEF NextPass, AskedInv
<1>4. CASE PathFinished \/ UNCHANGED pathVars
  BY <1>4 DEF PathFinished, pathVars, AskedInv, PassBand, lnb
<1> QED BY <1>1, <1>2, <1>3, <1>4 DEF PathNext

LEMMA PeakStep ==
  ASSUME PlanInv, AskedInv, PeakInv, [PathNext]_pathVars
  PROVE  PeakInv'
<1>1. CASE FindCandidate
  <2>1. PICK t \in sky, o \in Offsets :
          /\ Arrives(t) + o \in asked[1] .. asked[2]
          /\ station' = t
          /\ peak_freq' = freq_for_driver_freq(lnb, Arrives(t) + o, PassBand)
    BY <1>1 DEF FindCandidate
  <2>2. t \in Stations
    BY FrequencyPathAssumption DEF PlanInv, Stations
  <2>3. lnb \in LnbTypes /\ PassBand \in Bands
    BY <1>1, Present DEF FindCandidate, Working
  <2>4. Arrives(t) + o \in Int
    BY <2>1 DEF AskedInv
  <2>5. peak_freq' \in Int
    BY <2>1, <2>3, <2>4, RoundTrip
  <2>6. Between(lnb, plan[pass], peak_freq')
    BY <1>1, <2>1 DEF AskedInv, FindCandidate
  <2>7. UNCHANGED <<options, plan, pass>>
    BY <1>1 DEF FindCandidate
  <2> QED BY <2>1, <2>2, <2>5, <2>6, <2>7 DEF PeakInv, lnb
<1>2. CASE AskSpectrum \/ TuneCandidate \/ SaveInfo \/ NextPass
  BY <1>2 DEF AskSpectrum, TuneCandidate, SaveInfo, NextPass, PeakInv, lnb
<1>3. CASE PathFinished \/ UNCHANGED pathVars
  BY <1>3 DEF PathFinished, pathVars, PeakInv, lnb
<1> QED BY <1>1, <1>2, <1>3 DEF PathNext

LEMMA AssertionStep ==
  ASSUME PlanInv, PeakInv, AssertionsHold, [PathNext]_pathVars
  PROVE  AssertionsHold'
<1>1. CASE AskSpectrum
  <2>1. lnb \in LnbTypes /\ plan[pass] \in Passes
    BY <1>1, Present DEF AskSpectrum, Working
  <2>2. InBand(lnb, plan[pass].start, plan[pass].band)
    BY <2>1, SlofType DEF InBand, Passes, Bands
  <2>3. InBand(lnb, plan[pass].end - 1, plan[pass].band)
    BY <2>1, SlofType DEF InBand, Passes, Bands
  <2> QED BY <1>1, <2>2, <2>3 DEF AskSpectrum, LastFreq, AssertionsHold
<1>2. CASE TuneCandidate
  <2>1. lnb \in LnbTypes /\ plan[pass] \in Passes
    BY <1>2, Present DEF TuneCandidate, Working
  <2>2. InBand(lnb, peak_freq, plan[pass].band)
    BY <1>2, <2>1, BetweenIsInBand DEF PeakInv, TuneCandidate
  <2> QED BY <1>2, <2>2 DEF TuneCandidate, TuneBand, PassBand, AssertionsHold
<1>3. CASE FindCandidate \/ SaveInfo \/ NextPass
  BY <1>3 DEF FindCandidate, SaveInfo, NextPass, AssertionsHold
<1>4. CASE PathFinished \/ UNCHANGED pathVars
  BY <1>4 DEF PathFinished, pathVars, AssertionsHold
<1> QED BY <1>1, <1>2, <1>3, <1>4 DEF PathNext

LEMMA SavedStep ==
  ASSUME PlanInv, PeakInv, SavedInv, [PathNext]_pathVars
  PROVE  SavedInv'
<1>1. CASE SaveInfo
  <2> DEFINE freq == freq_for_driver_freq(lnb, Arrives(station), SaveBand(peak_freq))
             line == [station |-> station, peak |-> peak_freq, band |-> PassBand, freq |-> freq]
  <2>1. lnb \in LnbTypes /\ plan[pass] \in Passes /\ PassBand \in Bands
    BY <1>1, Present DEF SaveInfo, Working
  <2>2. SaveBand(peak_freq) \in Bands
    BY DEF SaveBand, band_for_freq, Bands
  <2>3. Lof(lnb, PassBand) \in Int /\ Lof(lnb, SaveBand(peak_freq)) \in Int
    BY <2>1, <2>2, LofType
  <2>4. station.freq \in Int /\ station \in Stations /\ peak_freq \in Int
    BY DEF PeakInv, Stations
  <2>5. Arrives(station) \in Int
    BY <2>3, <2>4 DEF Arrives
  <2>6. line \in [station: Stations, peak: Int, band: Bands, freq: Int]
    BY <2>1, <2>2, <2>4, <2>5, RoundTrip
  <2>7. Lof(lnb, SaveBand(peak_freq)) = Lof(lnb, PassBand)
          \/ (PassBand = 0 /\ peak_freq = lnb_universal_slof)
    <3>1. CASE lnb # "UNIVERSAL_LNB"
      BY <2>1, <2>2, <3>1, OneLof
    <3>2. CASE lnb = "UNIVERSAL_LNB"
      <4>1. Between(lnb, plan[pass], peak_freq)
        BY <1>1 DEF SaveInfo, PeakInv
      <4>2. SaveBand(peak_freq) = PassBand \/ (PassBand = 0 /\ peak_freq = lnb_universal_slof)
        BY <2>1, <2>4, <3>2, <4>1, SlofType DEF SaveBand, band_for_freq, Between, Passes, Bands, PassBand
      <4> QED BY <4>2
    <3> QED BY <3>1, <3>2
  <2>8. options.sys = "sat" =>
          freq = station.freq \/ (PassBand = 0 /\ peak_freq = lnb_universal_slof)
    BY <2>3, <2>4, <2>7 DEF Arrives, freq_for_driver_freq
  <2>9. saved' = saved \cup {line} /\ options' = options
    BY <1>1 DEF SaveInfo
  <2>10. line.freq = freq /\ line.station = station /\ line.band = PassBand /\ line.peak = peak_freq
    OBVIOUS
  <2> HIDE DEF line, freq
  <2>11. SavedIsTrue'
    BY <2>8, <2>9, <2>10 DEF SavedInv, SavedIsTrue
  <2> QED BY <2>6, <2>9, <2>11 DEF SavedInv
<1>2. CASE AskSpectrum \/ FindCandidate \/ TuneCandidate \/ NextPass
  BY <1>2 DEF AskSpectrum, FindCandidate, TuneCandidate, NextPass, SavedInv, SavedIsTrue
<1>3. CASE PathFinished \/ UNCHANGED pathVars
  BY <1>3 DEF PathFinished, pathVars, SavedInv, SavedIsTrue
<1> QED BY <1>1, <1>2, <1>3 DEF PathNext

-------------------------------------------------------------------------------
(* The invariant holds in every reachable state.                           *)
THEOREM PathInvariance == PathSpec => []PathInv
<1>1. PathInv /\ [PathNext]_pathVars => PathInv'
  BY PlanStep, AskedStep, PeakStep, AssertionStep, SavedStep DEF PathInv
<1> QED BY PathInitInv, <1>1, PTL DEF PathSpec

(* No assertion of driver_freq_for_freq fails, whatever range is given and *)
(* whatever the driver finds in the range it is asked for.                 *)
THEOREM NoAssertionFails == PathSpec => []AssertionsHold
<1>1. PathInv => AssertionsHold
  BY DEF PathInv
<1> QED BY PathInvariance, <1>1, PTL

(* The output file tells the truth about every transponder, except for a   *)
(* low band candidate on the switching frequency.                          *)
THEOREM FileIsTrue == PathSpec => []SavedIsTrue
<1>1. PathInv => SavedIsTrue
  BY DEF PathInv, SavedInv
<1> QED BY PathInvariance, <1>1, PTL

-------------------------------------------------------------------------------
(* Everything that was asked for is found.  The range of the driver for a  *)
(* pass, and what arrives in it.                                           *)
Window(type, p) ==
  Ordered(driver_freq_for_freq(type, p.start, p.band),
          driver_freq_for_freq(type, p.end - 1, p.band) + 1)

Audible(type, p, t) ==
  /\ t.pol = p.pol
  /\ driver_freq_for_freq(type, t.freq, p.band) \in Window(type, p)[1] .. Window(type, p)[2]

IsSaved(t) == \E s \in saved : s.station = t

(* A pass is left only when all that is audible in it was saved.           *)
CoverInv ==
  /\ plan = PlanOf(options)
  /\ step = "done" => pass > Len(plan)
  /\ step \in {"find", "tune", "save"} => asked = Window(lnb, plan[pass])
  /\ step = "find" => \A t \in heard : IsSaved(t)
  /\ step \in {"tune", "save"} => \A t \in heard : t = station \/ IsSaved(t)
  /\ step = "tune" => driver_freq_for_freq(lnb, peak_freq, PassBand) - Arrives(station) \in Offsets
  /\ \A k \in 1 .. Len(plan) : k < pass =>
       \A t \in sky : Audible(lnb, plan[k], t) => IsSaved(t)

(* The requests for which the conversions fit the range: a dish, and for a *)
(* C band LNB a range below the switching frequency of the universal LNB,  *)
(* which is far above the C band.                                          *)
Convertible(r) == r.sys = "sat" /\ (r.lnb = "C_LNB" => r.end <= lnb_universal_slof)

LEMMA InConcatenation ==
  ASSUME NEW S, NEW s \in Seq(S), NEW t \in Seq(S)
  PROVE  /\ \A k \in 1 .. Len(s) : k \in 1 .. Len(s \o t) /\ (s \o t)[k] = s[k]
         /\ \A k \in 1 .. Len(t) : Len(s) + k \in 1 .. Len(s \o t) /\ (s \o t)[Len(s) + k] = t[k]
<1>1. Len(s) \in Nat /\ Len(t) \in Nat /\ Len(s \o t) = Len(s) + Len(t)
  BY LenProperties, ConcatProperties
<1>2. \A i \in 1 .. Len(s) + Len(t) : (s \o t)[i] = IF i <= Len(s) THEN s[i] ELSE t[i - Len(s)]
  BY ConcatProperties
<1> QED BY <1>1, <1>2

(* What arrives from within a pass is audible in it.                       *)
LEMMA PassIsAudible ==
  ASSUME NEW type \in LnbTypes, NEW p \in Passes, NEW t \in Stations, t.pol = p.pol,
         p.start <= t.freq, t.freq < p.end - (IF type = "C_LNB" THEN 1 ELSE 0)
  PROVE  Audible(type, p, t)
<1>1. p.start \in Int /\ p.end \in Int /\ p.band \in Bands /\ t.freq \in Int
  BY DEF Passes, Stations
<1>2. Lof(type, p.band) \in Int
  BY <1>1, LofType
<1>3. CASE type = "C_LNB"
  BY <1>1, <1>2, <1>3 DEF Audible, Window, Ordered, driver_freq_for_freq
<1>4. CASE type # "C_LNB"
  BY <1>1, <1>2, <1>4 DEF Audible, Window, Ordered, driver_freq_for_freq
<1> QED BY <1>3, <1>4

(* The passes of a polarisation leave nothing of the range out.            *)
LEMMA PolIsCovered ==
  ASSUME NEW type \in LnbTypes, NEW pols, NEW t \in Stations, t.pol \in pols,
         NEW start \in Int, NEW end \in Int, start <= t.freq, t.freq < end - 1,
         type = "C_LNB" => end <= lnb_universal_slof \/ start >= lnb_universal_slof
  PROVE  \E k \in 1 .. Len(PolPasses(pols, t.pol, start, end)) :
           Audible(type, PolPasses(pols, t.pol, start, end)[k], t)
<1> DEFINE slof == lnb_universal_slof
           p    == t.pol
           low  == [band |-> 0, pol |-> p, start |-> start, append |-> FALSE,
                    end |-> IF end < slof THEN end ELSE slof]
           high == [band |-> 1, pol |-> p, end |-> end, append |-> Appends(start),
                    start |-> IF start > slof THEN start ELSE slof]
<1>1. slof \in Int /\ p \in {H, V} /\ t.freq \in Int
  BY SlofType DEF Stations
<1>2. PolPasses(pols, p, start, end) = LowPass(p, start, end) \o HighPass(p, start, end)
  BY DEF PolPasses
<1> HIDE DEF slof, p
<1>3. LowPass(p, start, end) = IF start < slof THEN <<low>> ELSE << >>
  BY DEF LowPass, slof
<1>4. HighPass(p, start, end) = IF end > slof THEN <<high>> ELSE << >>
  BY DEF HighPass, HighNeeded, slof
<1>5. Appends(start) \in BOOLEAN
  BY SlofType DEF Appends
<1>6. start < slof => low \in Passes
  BY <1>1 DEF Passes, Bands, slof
<1>7. start <= end /\ (end > slof => high \in Passes)
  BY <1>1, <1>5 DEF Passes, Bands, slof
<1>8. LowPass(p, start, end) \in Seq(Passes) /\ HighPass(p, start, end) \in Seq(Passes)
  BY <1>3, <1>4, <1>6, <1>7
<1>9. CASE t.freq < slof
  <2>1. start < slof /\ low \in Passes
    BY <1>1, <1>6, <1>9
  <2>2. low.pol = p /\ low.start = start /\ low.end = IF end < slof THEN end ELSE slof
    OBVIOUS
  <2>3. type = "C_LNB" => low.end = end
    BY <1>1, <2>1, <2>2 DEF slof
  <2>4. t.freq < low.end - (IF type = "C_LNB" THEN 1 ELSE 0)
    BY <1>1, <1>9, <2>2, <2>3
  <2> HIDE DEF low
  <2>5. Audible(type, low, t)
    BY <2>1, <2>2, <2>4, PassIsAudible DEF p
  <2>6. LowPass(p, start, end) = <<low>> /\ Len(<<low>>) = 1 /\ <<low>>[1] = low
    BY <1>3, <2>1
  <2>7. 1 \in 1 .. Len(LowPass(p, start, end)) /\ LowPass(p, start, end)[1] = low
    BY <2>6
  <2>8. /\ 1 \in 1 .. Len(PolPasses(pols, p, start, end))
        /\ PolPasses(pols, p, start, end)[1] = low
    BY <1>2, <1>8, <2>7, InConcatenation
  <2> QED BY <2>5, <2>8 DEF p
<1>10. CASE ~(t.freq < slof)
  <2>1. end > slof /\ high \in Passes
    BY <1>1, <1>7, <1>10
  <2>2. high.pol = p /\ high.end = end /\ high.start = IF start > slof THEN start ELSE slof
    OBVIOUS
  <2>3. high.start <= t.freq /\ t.freq < high.end - (IF type = "C_LNB" THEN 1 ELSE 0)
    BY <1>1, <1>10, <2>2
  <2> HIDE DEF high
  <2>4. Audible(type, high, t)
    BY <2>1, <2>2, <2>3, PassIsAudible DEF p
  <2>5. HighPass(p, start, end) = <<high>> /\ Len(<<high>>) = 1 /\ <<high>>[1] = high
    BY <1>4, <2>1
  <2>6. 1 \in 1 .. Len(HighPass(p, start, end)) /\ HighPass(p, start, end)[1] = high
    BY <2>5
  <2> QED BY <1>2, <1>8, <2>4, <2>6, InConcatenation DEF p
<1> QED BY <1>9, <1>10

(* Nor does the plan.                                                      *)
LEMMA PlanIsCovered ==
  ASSUME NEW r \in CommandLines, Convertible(r), NEW t \in Stations, t.pol \in r.pols,
         ScanRange(r.sys, r.lnb, r.start, r.end)[1] <= t.freq,
         t.freq < ScanRange(r.sys, r.lnb, r.start, r.end)[2] - 1
  PROVE  \E k \in 1 .. Len(PlanOf(r)) : Audible(r.lnb, PlanOf(r)[k], t)
<1> DEFINE range == ScanRange(r.sys, r.lnb, r.start, r.end)
           Of(p) == PolPasses(r.pols, p, range[1], range[2])
<1>1. r.start \in Int /\ r.end \in Int /\ r.lnb \in LnbTypes
  BY FrequencyPathAssumption
<1>2. range[1] \in Int /\ range[2] \in Int /\ range[1] <= range[2]
  BY <1>1, SMT DEF ScanRange, StartFreq, EndFreq
<1>3. r.lnb = "C_LNB" => range[2] <= lnb_universal_slof \/ range[1] >= lnb_universal_slof
  <2> SUFFICES ASSUME r.lnb = "C_LNB" PROVE range[2] <= lnb_universal_slof \/ range[1] >= lnb_universal_slof
    OBVIOUS
  <2>1. r.sys = "sat" /\ r.end <= lnb_universal_slof /\ ~Wideband(r.sys, r.lnb)
    BY DEF Convertible, Wideband
  <2>2. EndFreq(r.sys, r.lnb, r.end) \in Int /\ EndFreq(r.sys, r.lnb, r.end) <= lnb_universal_slof
    BY <1>1, <2>1 DEF EndFreq, lnb_universal_slof
  <2>3. StartFreq(r.sys, r.lnb, r.start) \in Int
    BY <1>1 DEF StartFreq
  <2> QED BY <2>2, <2>3, SlofType DEF ScanRange
<1> HIDE DEF range
<1>4. PlanOf(r) = Of(H) \o Of(V)
  BY DEF PlanOf, Plan, range
<1>5. Of(H) \in Seq(Passes) /\ Of(V) \in Seq(Passes)
  BY <1>2, PolPassesType
<1>6. \E k \in 1 .. Len(Of(t.pol)) : Audible(r.lnb, Of(t.pol)[k], t)
  BY <1>1, <1>2, <1>3, PolIsCovered DEF range
<1>7. t.pol \in {H, V}
  BY DEF Stations
<1> HIDE DEF Of
<1> QED BY <1>4, <1>5, <1>6, <1>7, InConcatenation

(* A line that was written stays.                                          *)
LEMMA LinesStay ==
  ASSUME [PathNext]_pathVars
  PROVE  \A t : IsSaved(t) => IsSaved(t)'
BY DEF IsSaved, PathNext, pathVars, AskSpectrum, FindCandidate, TuneCandidate, SaveInfo, NextPass, PathFinished

LEMMA CoverStep ==
  ASSUME \A r \in CommandLines : Convertible(r), PathInv, CoverInv, [PathNext]_pathVars
  PROVE  CoverInv'
<1>1. options.sys = "sat" /\ options' = options /\ plan' = plan /\ sky' = sky
  BY DEF PathInv, PlanInv, Convertible, PathNext, pathVars, AskSpectrum, FindCandidate, TuneCandidate, SaveInfo,
         NextPass, PathFinished
<1>2. CASE UNCHANGED pass
  <2>1. \A k \in 1 .. Len(plan) : k < pass =>
          \A t \in sky : Audible(lnb, plan[k], t) => IsSaved(t)'
    BY LinesStay DEF CoverInv
  <2>2. /\ plan' = PlanOf(options')
        /\ \A k \in 1 .. Len(plan') : k < pass' =>
             \A t \in sky' : Audible(lnb, plan[k], t)' => IsSaved(t)'
    BY <1>1, <1>2, <2>1 DEF CoverInv, lnb
  <2> DEFINE Rest ==
        /\ step = "done" => pass > Len(plan)
        /\ step \in {"find", "tune", "save"} => asked = Window(lnb, plan[pass])
        /\ step = "find" => \A t \in heard : IsSaved(t)
        /\ step \in {"tune", "save"} => \A t \in heard : t = station \/ IsSaved(t)
        /\ step = "tune" => driver_freq_for_freq(lnb, peak_freq, PassBand) - Arrives(station) \in Offsets
  <2>3. CASE AskSpectrum
    <3>1. heard' = {} /\ step' \in {"find", "abort"}
      BY <2>3 DEF AskSpectrum
    <3>2. step' = "find" => asked' = Window(lnb, plan[pass])
      BY <2>3 DEF AskSpectrum, LastFreq, Window
    <3>3. Rest'
      BY <1>1, <1>2, <3>1, <3>2 DEF lnb
    <3> QED BY <2>2, <3>3 DEF CoverInv
  <2>4. CASE FindCandidate
    <3>1. PICK t \in sky, o \in Offsets :
            /\ Arrives(t) + o \in asked[1] .. asked[2]
            /\ station' = t /\ heard' = heard \cup {t}
            /\ peak_freq' = freq_for_driver_freq(lnb, Arrives(t) + o, PassBand)
      BY <2>4 DEF FindCandidate
    <3>2. /\ step = "find" /\ step' = "tune" /\ asked' = asked /\ saved' = saved
      BY <2>4 DEF FindCandidate
    <3>3. t \in Stations /\ lnb \in LnbTypes /\ PassBand \in Bands
      BY <3>2, Present, FrequencyPathAssumption DEF PathInv, PlanInv, Stations, Working
    <3>4. Arrives(t) \in Int /\ o \in Int /\ Arrives(t)' = Arrives(t)
      BY <1>1, <1>2, <3>3, LofType, FrequencyPathAssumption DEF Arrives, Stations, lnb, PassBand
    <3>5. driver_freq_for_freq(lnb, peak_freq', PassBand) = Arrives(t) + o
      BY <3>1, <3>3, <3>4, RoundTrip
    <3>6. driver_freq_for_freq(lnb, peak_freq', PassBand) - Arrives(t) \in Offsets
      BY <3>4, <3>5
    <3>7. Rest'
      BY <1>1, <1>2, <3>1, <3>2, <3>4, <3>6 DEF CoverInv, IsSaved, lnb, PassBand
    <3> QED BY <2>2, <3>7 DEF CoverInv
  <2>5. CASE TuneCandidate
    <3>1. step = "tune" /\ step' \in {"save", "abort"} /\ UNCHANGED <<asked, heard, station, saved>>
      BY <2>5 DEF TuneCandidate, TuneBand, CoverInv
    <3>2. Rest'
      BY <1>1, <1>2, <3>1 DEF CoverInv, IsSaved, lnb
    <3> QED BY <2>2, <3>2 DEF CoverInv
  <2>6. CASE SaveInfo
    <3>1. step = "save" /\ step' = "find" /\ UNCHANGED <<asked, heard, station>>
      BY <2>6 DEF SaveInfo
    <3>2. IsSaved(station)'
      <4> DEFINE line == [station |-> station, peak |-> peak_freq, band |-> PassBand,
                  freq |-> freq_for_driver_freq(lnb, Arrives(station), SaveBand(peak_freq))]
      <4>1. line \in saved' /\ line.station = station
        BY <2>6 DEF SaveInfo
      <4> HIDE DEF line
      <4> QED BY <3>1, <4>1 DEF IsSaved
    <3>3. Rest'
      BY <1>1, <1>2, <3>1, <3>2, LinesStay DEF CoverInv, lnb
    <3> QED BY <2>2, <3>3 DEF CoverInv
  <2>7. CASE NextPass
    BY <1>2, <2>7 DEF NextPass, PathInv, PlanInv
  <2>8. CASE PathFinished \/ UNCHANGED pathVars
    BY <2>8 DEF PathFinished, pathVars, CoverInv, IsSaved, lnb, PassBand, Arrives
  <2> QED BY <2>3, <2>4, <2>5, <2>6, <2>7, <2>8 DEF PathNext
<1>3. CASE ~UNCHANGED pass
  <2>1. NextPass
    BY <1>3 DEF PathNext, pathVars, AskSpectrum, FindCandidate, TuneCandidate, SaveInfo, PathFinished
  <2>2. /\ step = "find" /\ pass' = pass + 1 /\ saved' = saved
        /\ step' = IF pass < Len(plan) THEN "ask" ELSE "done"
    BY <2>1 DEF NextPass, MorePasses
  <2>3. pass \in Nat /\ Len(plan) \in Nat /\ pass <= Len(plan)
    BY <2>2, LenProperties DEF PathInv, PlanInv, Working
  <2>4. lnb \in LnbTypes /\ PassBand \in Bands
    BY <2>2, Present DEF PathInv, Working
  <2>5. ASSUME NEW t \in sky, Audible(lnb, plan[pass], t)
        PROVE  IsSaved(t)
    <3>1. Arrives(t) = driver_freq_for_freq(lnb, t.freq, plan[pass].band)
      BY <1>1 DEF Arrives, driver_freq_for_freq, PassBand
    <3>2. asked = Window(lnb, plan[pass])
      BY <2>2 DEF CoverInv
    <3>3. t \in heard
      BY <2>1, <2>5, <3>1, <3>2 DEF NextPass, Audible
    <3> QED BY <2>2, <3>3 DEF CoverInv
  <2>6. \A k \in 1 .. Len(plan) : k < pass + 1 =>
          \A t \in sky : Audible(lnb, plan[k], t) => IsSaved(t)
    <3> TAKE k \in 1 .. Len(plan)
    <3>1. k < pass + 1 => k < pass \/ k = pass
      BY <2>3
    <3> QED BY <2>5, <3>1 DEF CoverInv
  <2>7. step' = "done" => pass' > Len(plan)
    BY <2>2, <2>3
  <2>8. step' \in {"ask", "done"}
    BY <2>2
  <2> QED BY <1>1, <2>2, <2>6, <2>7, <2>8 DEF CoverInv, IsSaved, lnb
<1> QED BY <1>2, <1>3

(* Every transponder in the range asked for is in the file when the scan   *)
(* is over, but for the last frequencies of the range, for every dish.     *)
THEOREM NothingLeftOut ==
  ASSUME \A r \in CommandLines : Convertible(r)
  PROVE  PathSpec => []RangeIsCovered
<1>1. PathInit => CoverInv
  <2> SUFFICES ASSUME PathInit PROVE CoverInv
    OBVIOUS
  <2>1. Len(plan) \in Nat /\ (plan = << >> => Len(plan) = 0)
    BY PlanType, LenProperties, EmptySeq DEF PathInit
  <2> QED BY <2>1 DEF PathInit, CoverInv
<1>2. PathInv /\ CoverInv /\ [PathNext]_pathVars => CoverInv'
  BY CoverStep
<1>3. PathInv /\ CoverInv => RangeIsCovered
  <2> SUFFICES ASSUME PathInv, CoverInv, step = "done", NEW t \in sky, t.pol \in options.pols,
                      FullRange[1] <= t.freq, t.freq < FullRange[2] - 1
               PROVE  IsSaved(t)
    BY DEF RangeIsCovered, IsSaved
  <2>1. options \in CommandLines /\ t \in Stations /\ pass \in Nat
    BY FrequencyPathAssumption DEF PathInv, PlanInv, Stations
  <2>2. \E k \in 1 .. Len(plan) : Audible(lnb, plan[k], t)
    BY <2>1, PlanIsCovered DEF CoverInv, FullRange, lnb
  <2>3. \A k \in 1 .. Len(plan) : k < pass
    BY <2>1, LenProperties DEF CoverInv, PathInv, PlanInv
  <2> QED BY <2>2, <2>3 DEF CoverInv
<1> QED BY <1>1, <1>2, <1>3, PathInvariance, PTL DEF PathSpec

-------------------------------------------------------------------------------
(***************************************************************************)
(* neumo-tune.                                                             *)
(***************************************************************************)

(* Before the tuning request nothing is waited for.                        *)
Beginning == {"open", "flush", "rf_input", "voltage"}
Setting   == {"diseqc", "tone"}
Before    == Beginning \cup Setting \cup {"request"}

Counted ==
  /\ pc \in Beginning => command = 1 /\ repeated = 0
  /\ pc \in Before => count = 0
  /\ pc \in {"wait", "get"} => count < MaxCount

(* A status of this request was reached since it was sent, and so was that *)
(* of every event that is read while the program waits.                    *)
LevelReached ==
  /\ pc \in Before => ~locked /\ ~samples
  /\ Waiting => /\ level <= best
                /\ \A i \in DOMAIN queue : queue[i].level <= best
                /\ locked => best >= 2
  /\ pc = "getinfo" /\ ~misread => best = 3
  /\ samples /\ ~misread => best = 3

Nowhere == [s \in {"C", "U"} |-> 0]

Wanted == IF request.pol = "V" THEN "13" ELSE "18"

(* What the LNB and the switches are told, from one step to the next.  A   *)
(* switch command is sent with the tone off, and only an error leaves it so.*)
DishAgrees ==
  /\ DOMAIN switch = {"C", "U"}
  /\ sent["C"] # 0 => Tail(switch["C"]) = <<hi_lo, request.pol>>
  /\ pc \in Beginning => ~tone_off_called
  /\ sent # Nowhere => tone_off_called
  /\ pc \in Setting => voltage = Wanted
  /\ (pc = "request" \/ Waiting) /\ dish_ret = 0 =>
       /\ voltage = Wanted
       /\ tone_off_called => tone = IF hi_lo THEN "on" ELSE "off"
  /\ Waiting => tuned = driver_freq_for_freq(lnb_type, request.freq, Band)

TuneInv == TypeOK /\ Counted /\ LevelReached /\ DishAgrees
-------------------------------------------------------------------------------
TuneEvents == [level: Levels, timedout: BOOLEAN]

(* The bounds are numbers.                                                 *)
LEMMA TuneNumbers ==
  /\ MaxCount \in Nat \ {0} /\ NumRepeats \in Nat /\ QueueSize \in Nat \ {0}
  /\ MaxStatus \in Nat /\ MaxFaults \in Nat /\ Offset \in Nat
BY NeumoTuneAssumption

(* What the fields of a request may be.                                    *)
LEMMA RequestType ==
  ASSUME NEW r \in Requests
  PROVE  /\ r.freq \in Int /\ r.committed \in Int /\ r.uncommitted \in Int
         /\ r.diseqc \in Seq({"M", "C", "U", "X", "P", " "})
         /\ Len(r.diseqc) \in Nat /\ (r.diseqc # <<>> => Len(r.diseqc) >= 1)
<1>1. /\ r.freq \in Int /\ r.committed \in Int /\ r.uncommitted \in Int
      /\ r.diseqc \in Seq({"M", "C", "U", "X", "P", " "})
  BY NeumoTuneAssumption
<1>2. Len(r.diseqc) \in Nat /\ (r.diseqc # <<>> => Len(r.diseqc) # 0)
  BY <1>1, LenProperties, EmptySeq, Zenon
<1>3. \A n \in Nat : n # 0 => n >= 1
  OBVIOUS
<1> QED
  BY <1>1, <1>2, <1>3, Zenon

(* Every event of the queue has a level.                                   *)
LEMMA QueueEvents ==
  ASSUME TypeOK
  PROVE  /\ queue \in Seq(TuneEvents) /\ Len(queue) \in Nat /\ DOMAIN queue = 1 .. Len(queue)
         /\ Len(queue) <= QueueSize
         /\ \A i \in DOMAIN queue : queue[i] \in TuneEvents
<1>1. queue \in Seq(TuneEvents) /\ Len(queue) <= QueueSize
  BY DEF TypeOK, TuneEvents
<1> QED
  BY <1>1, LenProperties, ElementOfSeq, Zenon

(* Reading takes the first event; the others were there before.            *)
LEMMA QueueRead ==
  ASSUME TypeOK, queue # <<>>, queue' = Tail(queue)
  PROVE  /\ queue' \in Seq(TuneEvents) /\ Len(queue') <= QueueSize
         /\ Head(queue) \in TuneEvents /\ Head(queue) = queue[1] /\ 1 \in DOMAIN queue
         /\ \A i \in DOMAIN queue' : \E j \in DOMAIN queue : queue'[i] = queue[j]
<1>1. queue \in Seq(TuneEvents) /\ Len(queue) \in Nat /\ Len(queue) <= QueueSize
  BY QueueEvents
<1>2. /\ queue' \in Seq(TuneEvents) /\ Len(queue') = Len(queue) - 1 /\ Head(queue) \in TuneEvents
      /\ \A i \in 1 .. Len(queue') : queue'[i] = queue[i + 1]
  BY <1>1, HeadTailProperties
<1>3. Len(queue) \in Nat \ {0} /\ QueueSize \in Nat
  BY <1>1, EmptySeq, TuneNumbers, Zenon
<1>4. DOMAIN queue = 1 .. Len(queue) /\ DOMAIN queue' = 1 .. Len(queue')
  BY <1>1, <1>2, LenProperties, Zenon
<1>5. \A i \in 1 .. Len(queue') : i + 1 \in 1 .. Len(queue) /\ queue'[i] = queue[i + 1]
  BY <1>2, <1>3
<1>6. Len(queue') <= QueueSize /\ 1 \in 1 .. Len(queue)
  BY <1>1, <1>2, <1>3
<1>7. Head(queue) = queue[1]
  BY <1>1
<1> QED
  BY <1>2, <1>4, <1>5, <1>6, <1>7

(* What arrives is the last; the others were there before.                 *)
LEMMA QueueArrive ==
  ASSUME TypeOK, NEW e \in TuneEvents, Arrive(e)
  PROVE  /\ queue' \in Seq(TuneEvents) /\ Len(queue') <= QueueSize
         /\ overflow' \in BOOLEAN /\ edge' \in BOOLEAN
         /\ \A i \in DOMAIN queue' : queue'[i] = e \/ \E j \in DOMAIN queue : queue'[i] = queue[j]
<1>1. /\ queue \in Seq(TuneEvents) /\ Len(queue) \in Nat /\ Len(queue) <= QueueSize
      /\ DOMAIN queue = 1 .. Len(queue) /\ QueueSize \in Nat \ {0}
  BY QueueEvents, TuneNumbers
<1>2. overflow' \in BOOLEAN /\ edge' \in BOOLEAN
  BY Zenon DEF Arrive, TypeOK
<1>3. CASE Len(queue) < QueueSize
  <2>1. queue' = Append(queue, e)
    BY <1>3 DEF Arrive
  <2>2. /\ queue' \in Seq(TuneEvents) /\ Len(queue') = Len(queue) + 1
        /\ \A i \in 1 .. Len(queue) : queue'[i] = queue[i]
        /\ queue'[Len(queue) + 1] = e
    BY <1>1, <2>1, AppendProperties
  <2>3. DOMAIN queue' = 1 .. Len(queue')
    BY <2>2, LenProperties, Zenon
  <2>4. /\ \A i \in 1 .. Len(queue') : i = Len(queue) + 1 \/ i \in 1 .. Len(queue)
        /\ Len(queue') <= QueueSize
    BY <1>1, <1>3, <2>2
  <2> QED
    BY <1>1, <1>2, <2>2, <2>3, <2>4
<1>4. CASE ~(Len(queue) < QueueSize)
  <2>1. queue' = Append(Tail(queue), e)
    BY <1>4 DEF Arrive
  <2>2. queue # <<>> /\ Len(queue) = QueueSize /\ Len(queue) \in Nat \ {0}
    <3>1. \A n \in Nat, m \in Nat \ {0} : n <= m /\ ~(n < m) => n = m /\ n # 0
      OBVIOUS
    <3>2. Len(queue) = QueueSize /\ Len(queue) # 0
      BY <1>1, <1>4, <3>1, Zenon
    <3> QED
      BY <1>1, <3>2, EmptySeq, Zenon
  <2> DEFINE rest == Tail(queue)
  <2>3. /\ rest \in Seq(TuneEvents) /\ Len(rest) = Len(queue) - 1
        /\ \A i \in 1 .. Len(rest) : rest[i] = queue[i + 1]
    BY <1>1, <2>2, HeadTailProperties, Zenon
  <2>4. /\ queue' \in Seq(TuneEvents) /\ Len(queue') = Len(rest) + 1
        /\ \A i \in 1 .. Len(rest) : queue'[i] = rest[i]
        /\ queue'[Len(rest) + 1] = e
    BY <2>1, <2>3, AppendProperties
  <2> HIDE DEF rest
  <2>5. \A i \in 1 .. Len(queue') :
          i = Len(rest) + 1 \/ (i + 1 \in 1 .. Len(queue) /\ queue'[i] = queue[i + 1])
    <3> SUFFICES ASSUME NEW i \in 1 .. Len(queue'), i # Len(rest) + 1
                 PROVE  i + 1 \in 1 .. Len(queue) /\ queue'[i] = queue[i + 1]
      OBVIOUS
    <3>1. i \in 1 .. Len(rest) /\ i + 1 \in 1 .. Len(queue)
      BY <2>2, <2>3, <2>4
    <3> QED
      BY <2>3, <2>4, <3>1, Zenon
  <2>6. DOMAIN queue' = 1 .. Len(queue') /\ Len(queue') <= QueueSize
    BY <1>1, <2>2, <2>3, <2>4, LenProperties
  <2> QED
    BY <1>1, <1>2, <2>4, <2>5, <2>6, Zenon
<1> QED
  BY <1>3, <1>4

(* What the options alone decide.                                          *)
LEMMA DishKept ==
  ASSUME request' = request
  PROVE  hi_lo' = hi_lo /\ lnb_type' = lnb_type /\ Band' = Band /\ Wanted' = Wanted
BY SMT DEF hi_lo, lnb_type, Band, Wanted

(* The empty queue is a queue.                                             *)
LEMMA EmptyQueue ==
  <<>> \in Seq(TuneEvents) /\ Len(<<>>) = 0 /\ DOMAIN <<>> = {}
<1>1. <<>> \in Seq(TuneEvents) /\ Len(<<>>) = 0
  BY EmptySeq
<1>2. DOMAIN <<>> = {}
  OBVIOUS
<1> QED
  BY <1>1, <1>2

(* The tuner: its status is of the present request, and so is the event.   *)
LEMMA StatusStep ==
  ASSUME TuneInv, TunerStatus \/ TunerSettles
  PROVE  TuneInv'
<1> USE DEF TuneInv
<1>1. /\ level \in Levels /\ best \in Levels /\ settled \in BOOLEAN /\ emitted \in 0 .. MaxStatus
      /\ MaxStatus \in Nat
  BY TuneNumbers DEF TypeOK
<1>2. PICK e \in TuneEvents :
        /\ e.level = level' /\ level' \in Levels /\ settled' \in BOOLEAN /\ emitted' \in 0 .. MaxStatus
        /\ Arrive(e) \/ UNCHANGED queueVars
        /\ Higher(level')
        /\ UNCHANGED <<request, pc, dishVars, scanVars, fileVars, tuned>>
  <2>1. CASE TunerStatus
    <3>1. /\ emitted < MaxStatus /\ emitted' = emitted + 1 /\ settled' = settled
          /\ UNCHANGED <<request, pc, dishVars, scanVars, fileVars, tuned>>
      BY <2>1 DEF TunerStatus
    <3>2. PICK l \in Levels : level' = l /\ Higher(l) /\ Arrive([level |-> l, timedout |-> FALSE])
      <4>1. PICK l \in (IF settled THEN 0 .. 3 ELSE 0 .. 2) \ {level} :
              level' = l /\ Higher(l) /\ Arrive([level |-> l, timedout |-> FALSE])
        BY <2>1, Zenon DEF TunerStatus
      <4>2. l \in Levels
        BY DEF Levels
      <4> QED
        BY <4>1, <4>2, Zenon
    <3>3. [level |-> l, timedout |-> FALSE] \in TuneEvents
      BY DEF TuneEvents
    <3>4. emitted' \in 0 .. MaxStatus
      BY <1>1, <3>1
    <3> QED
      BY <1>1, <3>1, <3>2, <3>3, <3>4, Zenon
  <2>2. CASE TunerSettles
    <3>1. /\ settled' = TRUE /\ emitted' = emitted /\ Higher(level')
          /\ UNCHANGED <<request, pc, dishVars, scanVars, fileVars, tuned>>
      BY <2>2 DEF TunerSettles
    <3>2. CASE level' = 3 /\ Arrive([level |-> 3, timedout |-> FALSE])
      <4>1. [level |-> 3, timedout |-> FALSE] \in TuneEvents /\ 3 \in Levels /\ TRUE \in BOOLEAN
        BY DEF TuneEvents, Levels
      <4> QED
        BY <1>1, <3>1, <3>2, <4>1, Zenon
    <3>3. CASE level' = 0 /\ Arrive([level |-> 0, timedout |-> TRUE])
      <4>1. [level |-> 0, timedout |-> TRUE] \in TuneEvents /\ 0 \in Levels /\ TRUE \in BOOLEAN
        BY DEF TuneEvents, Levels
      <4> QED
        BY <1>1, <3>1, <3>3, <4>1, Zenon
    <3>4. CASE UNCHANGED <<level, queueVars>>
      <4>1. [level |-> level, timedout |-> FALSE] \in TuneEvents
        BY <1>1 DEF TuneEvents
      <4> QED
        BY <1>1, <3>1, <3>4, <4>1, Zenon
    <3> QED
      BY <2>2, <3>2, <3>3, <3>4 DEF TunerSettles
  <2> QED
    BY <2>1, <2>2
<1>3. /\ queue' \in Seq(TuneEvents) /\ Len(queue') <= QueueSize
      /\ overflow' \in BOOLEAN /\ edge' \in BOOLEAN
      /\ \A i \in DOMAIN queue' : queue'[i] = e \/ \E j \in DOMAIN queue : queue'[i] = queue[j]
  <2>1. CASE Arrive(e)
    BY <2>1, QueueArrive
  <2>2. CASE UNCHANGED queueVars
    BY <2>2 DEF queueVars, TypeOK, TuneEvents
  <2> QED
    BY <1>2, <2>1, <2>2
<1>4. best' \in Levels /\ best <= best' /\ level' <= best'
  BY <1>1, <1>2 DEF Higher, Levels
<1>5. /\ UNCHANGED <<request, pc, repeated, command, tone_off_called, ret, dish_ret>>
      /\ UNCHANGED <<voltage, tone, switch, sent, timedout, locked, count>>
      /\ UNCHANGED <<samples, result, misread, faults, tuned>>
  BY <1>2, Zenon DEF dishVars, diseqcVars, lineVars, scanVars, fileVars
<1>6. TypeOK'
  BY <1>2, <1>3, <1>4, <1>5, SMT DEF TypeOK, TuneEvents
<1>7. Counted'
  BY <1>5, Zenon DEF Counted
<1>8. LevelReached'
  <2>1. Waiting' = Waiting /\ (pc \in Before)' = (pc \in Before)
    BY <1>5 DEF Waiting
  <2>2. ASSUME Waiting, NEW i \in DOMAIN queue' PROVE queue'[i].level <= best'
    <3>1. CASE queue'[i] = e
      BY <1>2, <1>4, <3>1
    <3>2. CASE \E j \in DOMAIN queue : queue'[i] = queue[j]
      <4>1. PICK j \in DOMAIN queue : queue'[i] = queue[j]
        BY <3>2
      <4>2. queue[j].level <= best
        BY <2>2 DEF LevelReached
      <4>3. queue[j].level \in Levels
        BY QueueEvents DEF TuneEvents
      <4> QED
        BY <1>1, <1>4, <4>1, <4>2, <4>3 DEF Levels
    <3> QED
      BY <1>3, <3>1, <3>2
  <2>3. (best >= 2 => best' >= 2) /\ (best = 3 => best' = 3)
    BY <1>1, <1>4 DEF Levels
  <2> QED
    BY <1>4, <1>5, <2>1, <2>2, <2>3, Zenon DEF LevelReached
<1>9. DishAgrees'
  BY <1>5, DishKept DEF DishAgrees, Waiting
<1> QED
  BY <1>6, <1>7, <1>8, <1>9

(* The steps of the program that neither set the dish nor read an event.   *)
Moves ==
  \/ pc \in {"open", "rf_input", "request", "getinfo"} /\ pc' \in {"exit", "abort"}
  \/ pc = "open" /\ pc' = "flush"
  \/ pc = "flush" /\ pc' = "rf_input"
  \/ pc = "rf_input" /\ pc' = "voltage"
  \/ pc \in {"wait", "get"} /\ pc' \in {"wait", "get", "scanned"}
  \/ pc = "check" /\ pc' = "scanned"
  \/ pc = "check" /\ pc' = "getinfo" /\ (misread' \/ level = 3)
  \/ pc = "getinfo" /\ pc' = "scanned"
  \/ pc = "scanned" /\ pc' \in {"sleep", "done"}

Simple ==
  /\ UNCHANGED <<request, dishVars, locked, count, tunerVars, queue>>
  /\ timedout' \in BOOLEAN /\ samples' \in BOOLEAN /\ result' \in BOOLEAN /\ misread' \in BOOLEAN
  /\ faults' \in 0 .. MaxFaults /\ overflow' \in BOOLEAN /\ edge' \in BOOLEAN
  /\ Moves
  /\ misread => misread'
  /\ samples' => samples \/ pc = "getinfo"

(* The steps that neither send a message to the dish nor read an event nor *)
(* make the request, in a few words.                                       *)
LEMMA SimpleActions ==
  ASSUME TypeOK,
         \/ Open \/ FlushEnds \/ SetRfInput \/ RequestFails \/ EpollReturns \/ EpollInterrupted
         \/ EpollTimesOut \/ GetEventFails \/ CheckLockStatus \/ StatusMisread \/ GetInfo
         \/ GetInfoFails \/ Afterwards
  PROVE  Simple
<1> USE DEF Simple, Moves, scanVars, fileVars, queueVars
<1>1. /\ timedout \in BOOLEAN /\ samples \in BOOLEAN /\ result \in BOOLEAN /\ misread \in BOOLEAN
      /\ faults \in 0 .. MaxFaults /\ overflow \in BOOLEAN /\ edge \in BOOLEAN /\ MaxFaults \in Nat
  BY TuneNumbers DEF TypeOK
<1>2. CASE Open
  BY <1>1, <1>2 DEF Open
<1>3. CASE FlushEnds
  BY <1>1, <1>3 DEF FlushEnds
<1>4. CASE SetRfInput
  BY <1>1, <1>4 DEF SetRfInput
<1>5. CASE RequestFails
  BY <1>1, <1>5 DEF RequestFails
<1>6. CASE EpollReturns
  BY <1>1, <1>6 DEF EpollReturns
<1>7. CASE EpollInterrupted
  BY <1>1, <1>7 DEF EpollInterrupted
<1>8. CASE EpollTimesOut
  BY <1>1, <1>8 DEF EpollTimesOut, AfterTimeout
<1>9. CASE GetEventFails
  BY <1>1, <1>9 DEF GetEventFails
<1>10. CASE CheckLockStatus
  BY <1>1, <1>10 DEF CheckLockStatus, LockBit
<1>11. CASE StatusMisread
  BY <1>1, <1>11 DEF StatusMisread
<1>12. CASE GetInfo
  <2>1. /\ pc = "getinfo" /\ pc' = "scanned"
        /\ UNCHANGED <<request, dishVars, scanVars, misread, faults, tunerVars, queueVars>>
    BY <1>12 DEF GetInfo
  <2>2. samples' \in BOOLEAN
    BY <1>12 DEF GetInfo, save_constellation_samples
  <2>3. result' \in BOOLEAN
    <3>1. PICK found \in {tuned - Offset, tuned, tuned + Offset} : result' = Printed(found)
      BY <1>12, Zenon DEF GetInfo
    <3>2. found \in Int /\ request.freq \in Int /\ Offset \in Int /\ Band \in Int
      <4>1. tuned \in Int /\ Offset \in Int /\ request \in Requests
        BY TuneNumbers DEF TypeOK
      <4>2. request.freq \in Int
        BY <4>1, RequestType, Zenon
      <4>3. Band \in Int
        BY DEF Band, band_for_freq
      <4> QED
        BY <4>1, <4>2, <4>3
    <3>3. Printed(found) \in BOOLEAN
      BY <3>2 DEF Printed
    <3> QED
      BY <3>1, <3>3
  <2> QED
    BY <1>1, <2>1, <2>2, <2>3
<1>13. CASE GetInfoFails
  BY <1>1, <1>13 DEF GetInfoFails
<1>14. CASE Afterwards
  BY <1>1, <1>14 DEF Afterwards
<1> QED
  BY <1>2, <1>3, <1>4, <1>5, <1>6, <1>7, <1>8, <1>9, <1>10, <1>11, <1>12, <1>13, <1>14

(* Such a step keeps the invariant.                                        *)
LEMMA SimpleStep ==
  ASSUME TuneInv, Simple
  PROVE  TuneInv'
<1> USE DEF TuneInv
<1>1. /\ UNCHANGED <<request, repeated, command, tone_off_called, ret, dish_ret>>
      /\ UNCHANGED <<voltage, tone, switch, sent, locked, count>>
      /\ UNCHANGED <<tuned, level, settled, emitted, best, queue>>
  BY DEF Simple, dishVars, diseqcVars, lineVars, tunerVars
<1>2. TypeOK'
  BY <1>1 DEF Simple, Moves, TypeOK
<1>3. Counted'
  BY <1>1 DEF Simple, Moves, Counted, Beginning, Setting, Before
<1>4. LevelReached'
  <2>1. (pc \in Before)' => ~locked' /\ ~samples'
    BY <1>1 DEF Simple, Moves, LevelReached, Beginning, Setting, Before
  <2>2. Waiting' => /\ level' <= best'
                    /\ \A i \in DOMAIN queue' : queue'[i].level <= best'
                    /\ locked' => best' >= 2
    BY <1>1 DEF Simple, Moves, LevelReached, Waiting
  <2>3. pc' = "getinfo" /\ ~misread' => best' = 3
    BY <1>1 DEF Simple, Moves, LevelReached, Waiting, TypeOK, Levels
  <2>4. samples' /\ ~misread' => best' = 3
    BY <1>1 DEF Simple, Moves, LevelReached
  <2> QED
    BY <2>1, <2>2, <2>3, <2>4, Zenon DEF LevelReached
<1>5. DishAgrees'
  BY <1>1, DishKept DEF Simple, Moves, DishAgrees, Beginning, Setting, Waiting
<1> QED
  BY <1>2, <1>3, <1>4, <1>5

(* Reading the events of an earlier request, and of this one.              *)
LEMMA FlushStep ==
  ASSUME TuneInv, FlushOne
  PROVE  TuneInv'
<1> USE DEF TuneInv
<1>1. /\ pc = "flush" /\ queue # <<>> /\ queue' = Tail(queue)
      /\ UNCHANGED <<request, pc, dishVars, scanVars, fileVars, tunerVars, overflow, edge>>
  BY DEF FlushOne, CanRead
<1>2. /\ UNCHANGED <<request, pc, repeated, command, tone_off_called, ret, dish_ret>>
      /\ UNCHANGED <<voltage, tone, switch, sent, timedout, locked, count, overflow, edge>>
      /\ UNCHANGED <<samples, result, misread, faults, tuned, level, settled, emitted, best>>
  BY <1>1 DEF dishVars, diseqcVars, lineVars, scanVars, fileVars, tunerVars
<1>3. queue' \in Seq(TuneEvents) /\ Len(queue') <= QueueSize
  BY <1>1, QueueRead
<1>4. TypeOK'
  BY <1>2, <1>3 DEF TypeOK, TuneEvents
<1>5. Counted' /\ LevelReached' /\ DishAgrees'
  BY <1>1, <1>2, DishKept DEF Counted, LevelReached, DishAgrees, Waiting
<1> QED
  BY <1>4, <1>5

(* An event that is read while the program waits is of its request.        *)
LEMMA GetStep ==
  ASSUME TuneInv, GetEvent
  PROVE  TuneInv'
<1> USE DEF TuneInv
<1>1. /\ pc = "get" /\ queue # <<>> /\ queue' = Tail(queue)
      /\ timedout' = Head(queue).timedout /\ locked' = ViterbiBit(Head(queue).level)
      /\ count' = count + 1 /\ pc' \in {"wait", "check", AfterTimeout}
      /\ pc' = "wait" => GoesOn(count', timedout', locked')
      /\ UNCHANGED <<request, dishVars, fileVars, tunerVars, overflow, edge>>
  BY DEF GetEvent, CanRead, AfterTimeout
<1>2. /\ UNCHANGED <<request, repeated, command, tone_off_called, ret, dish_ret>>
      /\ UNCHANGED <<voltage, tone, switch, sent, overflow, edge>>
      /\ UNCHANGED <<samples, result, misread, faults, tuned, level, settled, emitted, best>>
  BY <1>1 DEF dishVars, diseqcVars, lineVars, fileVars, tunerVars
<1>3. /\ queue' \in Seq(TuneEvents) /\ Len(queue') <= QueueSize
      /\ Head(queue) \in TuneEvents /\ Head(queue) = queue[1] /\ 1 \in DOMAIN queue
      /\ \A i \in DOMAIN queue' : \E j \in DOMAIN queue : queue'[i] = queue[j]
  BY <1>1, QueueRead
<1>4. Head(queue).level \in 0 .. 3 /\ Head(queue).timedout \in BOOLEAN
  BY <1>3 DEF TuneEvents, Levels
<1>5. count \in Nat /\ count < MaxCount /\ MaxCount \in Nat /\ best \in 0 .. 3
  BY <1>1, TuneNumbers DEF Counted, TypeOK, Levels
<1>6. timedout' \in BOOLEAN /\ locked' \in BOOLEAN /\ count' \in 0 .. MaxCount
  BY <1>1, <1>4, <1>5 DEF ViterbiBit
<1>7. TypeOK'
  BY <1>1, <1>2, <1>3, <1>6 DEF TypeOK, TuneEvents, AfterTimeout
<1>8. Counted'
  BY <1>1, <1>2, <1>6 DEF Counted, Beginning, Setting, Before, GoesOn, AfterTimeout
<1>9. \A i \in DOMAIN queue : queue[i].level <= best
  BY <1>1 DEF LevelReached, Waiting
<1>10. locked' => best >= 2
  <2>1. Head(queue).level <= best
    BY <1>3, <1>9, Zenon
  <2>2. locked' => Head(queue).level >= 2
    BY <1>1, Zenon DEF ViterbiBit
  <2> QED
    BY <1>4, <1>5, <2>1, <2>2
<1>11. LevelReached'
  BY <1>1, <1>2, <1>3, <1>9, <1>10
  DEF LevelReached, Beginning, Setting, Before, Waiting, AfterTimeout
<1>12. DishAgrees'
  BY <1>1, <1>2, DishKept DEF DishAgrees, Beginning, Setting, Waiting, AfterTimeout
<1> QED
  BY <1>7, <1>8, <1>11, <1>12

(* The request forgets the status and the events there were.               *)
LEMMA RequestStep ==
  ASSUME TuneInv, Request
  PROVE  TuneInv'
<1> USE DEF TuneInv
<1>1. /\ pc = "request" /\ pc' = "wait" /\ queue' = <<>> /\ overflow' = FALSE
      /\ tuned' = driver_freq_for_freq(lnb_type, request.freq, Band)
      /\ level' = 0 /\ settled' = FALSE /\ emitted' = 0 /\ best' = 0
      /\ UNCHANGED <<request, repeated, command, tone_off_called, ret, dish_ret>>
      /\ UNCHANGED <<voltage, tone, switch, sent, timedout, locked, count, edge>>
      /\ UNCHANGED <<samples, result, misread, faults>>
  BY Zenon DEF Request, dishVars, diseqcVars, lineVars, scanVars, fileVars
<1>2. tuned' \in Int
  <2>1. request.freq \in Int
    BY RequestType, Zenon DEF TypeOK
  <2> QED
    BY <1>1, <2>1 DEF driver_freq_for_freq, Lof, Lofs, lnb_type, Band, band_for_freq,
       lnb_universal_lof_low, lnb_universal_lof_high, lnb_c_lof
<1>3. /\ 0 \in Levels /\ 0 \in 0 .. MaxStatus /\ FALSE \in BOOLEAN /\ 0 <= QueueSize
      /\ count = 0 /\ 0 < MaxCount /\ ~locked /\ ~samples
  BY <1>1, TuneNumbers DEF Levels, Counted, LevelReached, Before
<1>4. TypeOK'
  BY <1>1, <1>2, <1>3, EmptyQueue DEF TypeOK, TuneEvents
<1>5. Counted'
  BY <1>1, <1>3 DEF Counted, Beginning, Setting, Before
<1>6. LevelReached'
  BY <1>1, <1>3, EmptyQueue DEF LevelReached, Beginning, Setting, Before
<1>7. DishAgrees'
  BY <1>1, DishKept DEF DishAgrees, Beginning, Setting, Waiting
<1> QED
  BY <1>4, <1>5, <1>6, <1>7

(* What the loop of diseqc makes of its variables.                         *)
LEMMA CheckRetStep ==
  ASSUME TypeOK, pc = "diseqc", NEW r \in {-1, 0}, CheckRet(r)
  PROVE  /\ pc' \in {"diseqc", "tone", "request"} /\ (pc' = "request" => dish_ret' = -1)
         /\ command' \in Nat \ {0} /\ repeated' \in 0 .. NumRepeats /\ dish_ret' \in {-1, 0}
         /\ (pc' = "diseqc" => command' <= Len(request.diseqc))
<1>1. /\ command \in Nat \ {0} /\ repeated \in 0 .. NumRepeats /\ dish_ret \in {-1, 0}
      /\ NumRepeats \in Nat
  BY TuneNumbers DEF TypeOK
<1>2. Len(request.diseqc) \in Nat /\ (request.diseqc # <<>> => Len(request.diseqc) >= 1)
  BY RequestType, Zenon DEF TypeOK
<1> DEFINE n == Len(request.diseqc)
<1>3. n \in Nat /\ command <= n
  BY <1>2 DEF TypeOK
<1>4. CheckRet(r)
  OBVIOUS
<1> HIDE DEF n
<1>5. CASE r < 0
  BY <1>1, <1>3, <1>4, <1>5 DEF CheckRet, DishReturns
<1>6. CASE r = 0 /\ command < n
  BY <1>1, <1>3, <1>4, <1>6 DEF CheckRet, Proceed, n
<1>7. CASE r = 0 /\ ~(command < n) /\ repeated < NumRepeats
  BY <1>1, <1>3, <1>4, <1>7 DEF CheckRet, Proceed, n
<1>8. CASE r = 0 /\ ~(command < n) /\ ~(repeated < NumRepeats)
  BY <1>1, <1>3, <1>4, <1>8 DEF CheckRet, Proceed, n
<1> QED
  BY <1>5, <1>6, <1>7, <1>8

(* What is left of a message after its first command.                      *)
LEMMA TailOfMessage ==
  ASSUME NEW a, NEW b, NEW c
  PROVE  Tail(<<a, b, c>>) = <<b, c>>
OBVIOUS

(* The commands of diseqc: what a switch is told last agrees with the band *)
(* and polarisation, and the tone is off before anything is sent.          *)
Sends ==
  /\ pc = "diseqc" /\ \E r \in {-1, 0} : CheckRet(r)
  /\ ret' \in {-1, 0} /\ tone_off_called' \in BOOLEAN /\ tone' \in {"on", "off"}
  /\ UNCHANGED <<request, voltage, scanVars, fileVars, tunerVars, queueVars>>
  /\ DOMAIN switch' = {"C", "U"} /\ sent' \in [{"C", "U"} -> Nat]
  /\ sent' # Nowhere => tone_off_called'
  /\ sent'["C"] # 0 => Tail(switch'["C"]) = <<hi_lo, request.pol>>

(* The steps that send a command to a switch, in a few words.              *)
LEMMA SendActions ==
  ASSUME TypeOK, DishAgrees, SkipCommand \/ SendCommand \/ SendFails \/ OtherCommand
  PROVE  Sends
<1>1. /\ ret \in {-1, 0} /\ tone_off_called \in BOOLEAN /\ tone \in {"on", "off"}
      /\ sent \in [{"C", "U"} -> Nat] /\ DOMAIN switch = {"C", "U"}
      /\ sent # Nowhere => tone_off_called
      /\ sent["C"] # 0 => Tail(switch["C"]) = <<hi_lo, request.pol>>
  BY DEF TypeOK, DishAgrees
<1>2. ASSUME TurnsToneOff PROVE tone_off_called' = TRUE /\ tone' \in {"on", "off"}
  BY <1>1, <1>2 DEF TurnsToneOff
<1>3. CASE SkipCommand
  <2>1. /\ pc = "diseqc" /\ CheckRet(0)
        /\ UNCHANGED <<request, tone_off_called, ret, voltage, tone, switch, sent>>
        /\ UNCHANGED <<scanVars, fileVars, tunerVars, queueVars>>
    BY <1>3 DEF SkipCommand, CheckRet, lineVars
  <2> QED
    BY <1>1, <2>1 DEF Sends
<1>4. CASE SendCommand
  <2>1. /\ pc = "diseqc" /\ CheckRet(0) /\ ret' = 0 /\ Letter \in {"C", "U"} /\ TurnsToneOff
        /\ switch' = [switch EXCEPT ![Letter] = Message(Letter)]
        /\ sent' = [sent EXCEPT ![Letter] = @ + 1]
        /\ UNCHANGED <<request, voltage, scanVars, fileVars, tunerVars, queueVars>>
    BY <1>4 DEF SendCommand
  <2>2. DOMAIN switch' = {"C", "U"} /\ sent' \in [{"C", "U"} -> Nat]
    BY <1>1, <2>1
  <2>3. CASE Letter = "C"
    <3>1. switch'["C"] = <<Port("C"), hi_lo, request.pol>>
      BY <1>1, <2>1, <2>3 DEF Message
    <3>2. Tail(switch'["C"]) = <<hi_lo, request.pol>>
      BY <3>1, TailOfMessage, Zenon
    <3>3. tone_off_called' = TRUE /\ tone' \in {"on", "off"}
      BY <1>2, <2>1
    <3>4. 0 \in {-1, 0} /\ TRUE \in BOOLEAN
      OBVIOUS
    <3> QED
      BY <2>1, <2>2, <3>2, <3>3, <3>4, Zenon DEF Sends
  <2>4. CASE Letter = "U"
    <3>1. switch'["C"] = switch["C"] /\ sent'["C"] = sent["C"]
      BY <1>1, <2>1, <2>4
    <3> QED
      BY <1>1, <1>2, <2>1, <2>2, <3>1 DEF Sends
  <2> QED
    BY <2>1, <2>3, <2>4
<1>5. CASE SendFails
  <2>1. /\ pc = "diseqc" /\ CheckRet(-1) /\ ret' = -1 /\ TurnsToneOff
        /\ UNCHANGED <<request, voltage, switch, sent, scanVars, fileVars, tunerVars, queueVars>>
    BY <1>5 DEF SendFails
  <2> QED
    BY <1>1, <1>2, <2>1 DEF Sends
<1>6. CASE OtherCommand
  <2>1. /\ pc = "diseqc" /\ CheckRet(ret)
        /\ TurnsToneOff \/ UNCHANGED <<tone_off_called, tone>>
        /\ UNCHANGED <<request, ret, voltage, switch, sent, scanVars, fileVars, tunerVars, queueVars>>
    BY <1>6 DEF OtherCommand
  <2>2. tone_off_called' \in BOOLEAN /\ tone' \in {"on", "off"} /\ (tone_off_called => tone_off_called')
    <3>1. CASE TurnsToneOff
      BY <1>2, <3>1
    <3>2. CASE UNCHANGED <<tone_off_called, tone>>
      BY <1>1, <3>2, Zenon
    <3> QED
      BY <2>1, <3>1, <3>2
  <2>3. switch' = switch /\ sent' = sent /\ ret' = ret
    BY <2>1
  <2> QED
    BY <1>1, <2>1, <2>2, <2>3, Zenon DEF Sends
<1> QED
  BY <1>3, <1>4, <1>5, <1>6

(* A switch is set to what the command line asks for.                      *)
LEMMA SendStep ==
  ASSUME TuneInv, Sends
  PROVE  TuneInv'
<1> USE DEF TuneInv
<1>1. /\ pc = "diseqc" /\ pc' \in {"diseqc", "tone", "request"} /\ (pc' = "request" => dish_ret' = -1)
      /\ command' \in Nat \ {0} /\ repeated' \in 0 .. NumRepeats /\ dish_ret' \in {-1, 0}
      /\ (pc' = "diseqc" => command' <= Len(request.diseqc))
  <2>1. PICK r \in {-1, 0} : CheckRet(r)
    BY DEF Sends
  <2> QED
    BY <2>1, CheckRetStep DEF Sends
<1>2. /\ UNCHANGED <<request, voltage, timedout, locked, count, samples, result, misread, faults>>
      /\ UNCHANGED <<tuned, level, settled, emitted, best, queue, overflow, edge>>
  BY DEF Sends, scanVars, fileVars, tunerVars, queueVars
<1>3. TypeOK'
  BY <1>1, <1>2 DEF Sends, TypeOK
<1>4. Counted' /\ LevelReached'
  BY <1>1, <1>2 DEF Counted, LevelReached, Beginning, Setting, Before, Waiting
<1>5. DishAgrees'
  BY <1>1, <1>2, DishKept DEF Sends, DishAgrees, Nowhere, Beginning, Setting, Waiting
<1> QED
  BY <1>3, <1>4, <1>5

(* The voltage, the tone, and what an error leaves behind.                 *)
LEMMA LineStep ==
  ASSUME TuneInv, SetVoltage \/ SetTone \/ DishFails
  PROVE  TuneInv'
<1> USE DEF TuneInv
<1>1. /\ UNCHANGED <<request, repeated, command, tone_off_called, switch, sent>>
      /\ UNCHANGED <<timedout, locked, count, samples, result, misread, faults>>
      /\ UNCHANGED <<tuned, level, settled, emitted, best, queue, overflow, edge>>
  BY Zenon DEF SetVoltage, SetTone, DishFails, diseqcVars, lineVars, scanVars, fileVars, tunerVars, queueVars
<1>2. \/ /\ pc = "voltage" /\ pc' \in {"diseqc", "tone"} /\ voltage' = Wanted
         /\ (pc' = "diseqc" => request.diseqc # <<>>)
         /\ ret' \in {-1, 0} /\ UNCHANGED <<dish_ret, tone>>
      \/ /\ pc = "tone" /\ pc' = "request" /\ dish_ret' = 0
         /\ tone' = (IF tone_off_called THEN IF hi_lo THEN "on" ELSE "off" ELSE tone)
         /\ UNCHANGED <<ret, voltage>>
      \/ /\ pc \in {"voltage", "diseqc", "tone"} /\ pc' = "request" /\ dish_ret' = -1
         /\ UNCHANGED <<ret, voltage, tone>>
  <2>1. CASE SetVoltage
    BY <2>1 DEF SetVoltage, Wanted
  <2>2. CASE SetTone
    BY <2>2 DEF SetTone, DishReturns, diseqcVars
  <2>3. CASE DishFails
    BY <2>3 DEF DishFails, DishReturns, diseqcVars, lineVars
  <2> QED
    BY <2>1, <2>2, <2>3
<1>3. voltage' \in {"13", "18"} /\ tone' \in {"on", "off"} /\ ret' \in {-1, 0} /\ dish_ret' \in {-1, 0}
  BY <1>2 DEF TypeOK, Wanted
<1>4. pc' = "diseqc" => command' <= Len(request'.diseqc)
  <2>1. ASSUME request.diseqc # <<>> PROVE Len(request.diseqc) \in Nat /\ Len(request.diseqc) >= 1
    BY <2>1, RequestType, Zenon DEF TypeOK
  <2>2. pc = "voltage" => command = 1
    BY DEF Counted, Beginning
  <2> QED
    BY <1>1, <1>2, <2>1, <2>2
<1>5. TypeOK'
  BY <1>1, <1>2, <1>3, <1>4 DEF TypeOK
<1>6. Counted' /\ LevelReached'
  BY <1>1, <1>2 DEF Counted, LevelReached, Beginning, Setting, Before, Waiting
<1>7. DishAgrees'
  BY <1>1, <1>2, DishKept DEF DishAgrees, Nowhere, Beginning, Setting, Waiting
<1> QED
  BY <1>5, <1>6, <1>7

(* The invariant holds when neumo-tune begins.                             *)
LEMMA TuneInit == Init => TuneInv
<1> SUFFICES ASSUME Init PROVE TuneInv
  OBVIOUS
<1>1. TypeOK
  <2>1. 0 \in 0 .. NumRepeats /\ 0 \in 0 .. MaxCount /\ 0 \in 0 .. MaxFaults /\ 0 \in 0 .. MaxStatus
    BY TuneNumbers
  <2>2. level \in Levels /\ best \in Levels
    BY DEF Init, Levels
  <2>3. queue \in Seq([level: Levels, timedout: BOOLEAN]) /\ Len(queue) <= QueueSize
    BY EmptyQueue, TuneNumbers DEF Init, TuneEvents
  <2>4. tuned \in Int /\ (ret \in {-1, 0}) /\ dish_ret \in {-1, 0} /\ command \in Nat \ {0}
        /\ pc # "diseqc" /\ sent \in [{"C", "U"} -> Nat]
    BY SMT DEF Init
  <2>5. /\ tone_off_called \in BOOLEAN /\ timedout \in BOOLEAN /\ locked \in BOOLEAN
        /\ samples \in BOOLEAN /\ result \in BOOLEAN /\ misread \in BOOLEAN
        /\ settled \in BOOLEAN /\ overflow \in BOOLEAN /\ edge \in BOOLEAN
    BY Zenon DEF Init
  <2>6. /\ request \in Requests /\ voltage \in {"13", "18"} /\ tone \in {"on", "off"}
        /\ pc \in {"open", "flush", "rf_input", "voltage", "diseqc", "tone", "request", "wait", "get",
                   "check", "getinfo", "scanned", "sleep", "done", "exit", "abort"}
        /\ repeated = 0 /\ count = 0 /\ faults = 0 /\ emitted = 0
    BY Zenon DEF Init
  <2> QED
    BY <2>1, <2>2, <2>3, <2>4, <2>5, <2>6, Zenon DEF TypeOK
<1>2. Counted /\ LevelReached
  BY TuneNumbers DEF Init, Counted, LevelReached, Beginning, Setting, Before, Waiting
<1>3. DishAgrees
  <2>1. DOMAIN switch = {"C", "U"} /\ sent = Nowhere /\ sent["C"] = 0
    BY DEF Init, Nowhere
  <2> QED
    BY <2>1 DEF Init, DishAgrees, Beginning, Setting, Waiting
<1> QED
  BY <1>1, <1>2, <1>3 DEF TuneInv

(* The inductive invariant holds in every reachable state.                 *)
THEOREM TuneInvariance == Spec => []TuneInv
<1>1. TuneInv /\ [Next]_vars => TuneInv'
  <2> SUFFICES ASSUME TuneInv, [Next]_vars PROVE TuneInv'
    OBVIOUS
  <2>1. CASE TunerStatus \/ TunerSettles
    BY <2>1, StatusStep
  <2>2. CASE Program
    <3>1. CASE FlushOne
      BY <3>1, FlushStep
    <3>2. CASE GetEvent
      BY <3>2, GetStep
    <3>3. CASE Request
      BY <3>3, RequestStep
    <3>4. CASE Dish
      <4>1. TypeOK /\ DishAgrees
        BY DEF TuneInv
      <4> QED
        BY <3>4, <4>1, SendActions, SendStep, LineStep DEF Dish
    <3>5. CASE \/ Open \/ FlushEnds \/ SetRfInput \/ RequestFails \/ EpollReturns
               \/ EpollInterrupted \/ EpollTimesOut \/ GetEventFails \/ CheckLockStatus
               \/ StatusMisread \/ GetInfo \/ GetInfoFails \/ Afterwards
      <4>1. TypeOK
        BY DEF TuneInv
      <4> QED
        BY <3>5, <4>1, SimpleActions, SimpleStep
    <3> QED
      BY <2>2, <3>1, <3>2, <3>3, <3>4, <3>5 DEF Program
  <2>3. CASE UNCHANGED vars
    <3>1. /\ UNCHANGED <<request, pc, repeated, command, tone_off_called, ret, dish_ret>>
          /\ UNCHANGED <<voltage, tone, switch, sent, timedout, locked, count>>
          /\ UNCHANGED <<samples, result, misread, faults>>
          /\ UNCHANGED <<tuned, level, settled, emitted, best, queue, overflow, edge>>
      BY <2>3 DEF vars, dishVars, diseqcVars, lineVars, scanVars, fileVars, tunerVars, queueVars
    <3>2. TypeOK' /\ Counted' /\ LevelReached'
      BY <3>1 DEF TuneInv, TypeOK, Counted, LevelReached, Waiting
    <3>3. DishAgrees'
      BY <3>1, DishKept DEF TuneInv, DishAgrees, Nowhere, Waiting
    <3> QED
      BY <3>2, <3>3 DEF TuneInv
  <2> QED
    BY <2>1, <2>2, <2>3 DEF Next, Finished
<1> QED
  BY <1>1, TuneInit, PTL DEF Spec

(* The wait ends with a lock only if the tuner has reached FE_HAS_VITERBI  *)
(* since the request, and a constellation is saved only of a carrier       *)
(* locked since then, unless the status could not be read.                 *)
THEOREM LockIsOfThisRequestEver == Spec => []LockIsOfThisRequest
<1>1. TuneInv => LockIsOfThisRequest
  BY DEF TuneInv, LevelReached, LockIsOfThisRequest
<1> QED
  BY <1>1, TuneInvariance, PTL

(* The tone of a band that was chosen by the frequency selects the         *)
(* oscillator that was subtracted from it.                                 *)
LEMMA RoundTripByTone ==
  ASSUME NEW t \in BOOLEAN, request.freq \in Int, t = hi_lo
  PROVE  freq_for_driver_freq(lnb_type, driver_freq_for_freq(lnb_type, request.freq, Band),
                              IF t THEN 1 ELSE 0) = request.freq
<1> DEFINE f == request.freq
<1>1. Lof("C_LNB", 0) = 5150000 /\ Lof("C_LNB", 1) = 5150000
  BY SMT DEF Lof, Lofs, lnb_c_lof
<1>2. Lof("UNIVERSAL_LNB", 0) = 9750000 /\ Lof("UNIVERSAL_LNB", 1) = 10600000
  BY SMT DEF Lof, Lofs, lnb_universal_lof_low, lnb_universal_lof_high
<1>3. CASE f < 4800000
  BY <1>1, <1>3, SMT DEF freq_for_driver_freq, driver_freq_for_freq, lnb_type, Band, band_for_freq
<1>4. CASE ~(f < 4800000)
  <2>1. lnb_type = "UNIVERSAL_LNB" /\ lnb_type # "C_LNB"
    BY <1>4 DEF lnb_type
  <2>2. Band = (IF t THEN 1 ELSE 0)
    BY <2>1, Zenon DEF Band, band_for_freq, hi_lo
  <2>3. CASE t
    BY <1>2, <2>1, <2>2, <2>3, SMT DEF freq_for_driver_freq, driver_freq_for_freq
  <2>4. CASE ~t
    BY <1>2, <2>1, <2>2, <2>4, SMT DEF freq_for_driver_freq, driver_freq_for_freq
  <2> QED
    BY <2>3, <2>4
<1> QED
  BY <1>3, <1>4

(* When the dish was set without error and a switch was sent its command,  *)
(* the tuner receives the frequency that was asked for.                    *)
THEOREM TunedToRequestEver == Spec => []TunedToRequest
<1>1. TuneInv => TunedToRequest
  <2> SUFFICES ASSUME TuneInv, Waiting, dish_ret = 0, sent # Nowhere
               PROVE  /\ Received = request.freq
                      /\ voltage = (IF request.pol = "V" THEN "13" ELSE "18")
                      /\ sent["C"] # 0 => Tail(switch["C"]) = <<tone = "on", request.pol>>
    BY DEF TunedToRequest, Nowhere
  <2>1. /\ voltage = Wanted /\ tone = (IF hi_lo THEN "on" ELSE "off")
        /\ tuned = driver_freq_for_freq(lnb_type, request.freq, Band)
        /\ sent["C"] # 0 => Tail(switch["C"]) = <<hi_lo, request.pol>>
    BY DEF TuneInv, DishAgrees
  <2>2. request.freq \in Int
    BY RequestType, Zenon DEF TuneInv, TypeOK
  <2>3. hi_lo \in BOOLEAN /\ (tone = "on") \in BOOLEAN /\ (tone = "on") = hi_lo
    BY <2>1, <2>2 DEF hi_lo, lnb_universal_slof
  <2>4. Received = request.freq
    BY <2>1, <2>2, <2>3, RoundTripByTone DEF Received
  <2> QED
    BY <2>1, <2>3, <2>4 DEF Wanted
<1> QED
  BY <1>1, TuneInvariance, PTL
================================================================================
