------------------------- MODULE ParallelScan_proofs --------------------------
(***************************************************************************)
(* Safety of the parallel blindscan for every number of frontends and of   *)
(* peaks and for every set of command lines.                               *)
(***************************************************************************)
EXTENDS ParallelScan, FiniteSetTheorems, TLAPS

(* The main thread knows which passes there are and which it is in.        *)
InBandScan == mpc \in {"select", "spectrum", "connect", "spawn", "join", "count"}

PassInv == InBandScan => pass <= Len(plan)

(* Threads exist only between the spawn loop and the join loop, and the    *)
(* loop variable tells which ones.                                         *)
ThreadInv ==
  /\ mpc \notin {"spawn", "join", "exit"} => \A f \in Frontends : tpc[f] = "none"
  /\ mpc = "spawn" => \A f \in Frontends : f >= next <=> tpc[f] = "none"
  /\ mpc = "join"  => \A f \in Frontends : f < next <=> tpc[f] = "none"

(* The peaks handed out are those up to next_to_scan; a thread that found  *)
(* no peak left found them all handed out.                                 *)
PoolInv ==
  /\ next_to_scan <= num_spectral_peaks
  /\ mpc \in {"spectrum", "connect"} => next_to_scan = 0
  /\ mpc \notin {"spectrum", "exit"} =>
       \A i \in 1 .. MaxPeaks : scans[i] = IF i <= next_to_scan THEN 1 ELSE 0
  /\ \A i \in 1 .. MaxPeaks : scans[i] <= 1
  /\ \A f \in Frontends : Scanning(f) <=> peak[f] # 0
  /\ \A f \in Frontends : Scanning(f) => peak[f] <= next_to_scan
  /\ \A f, g \in Frontends : Scanning(f) /\ Scanning(g) /\ peak[f] = peak[g] => f = g
  /\ (\E f \in Frontends : tpc[f] = "returned") => next_to_scan = num_spectral_peaks
  /\ mpc = "join" /\ next > 1 => next_to_scan = num_spectral_peaks
  /\ mpc = "count" => next_to_scan = num_spectral_peaks

(* The dish is on the setting of the pass, and every thread with it.       *)
DishInv ==
  /\ mpc \notin {"open", "exit"} => spectrum_fe \in Frontends
  /\ mpc \in {"spectrum", "connect", "spawn", "join"} => selected = Setting(plan[pass])
  /\ mpc \in {"spectrum", "connect"} => rf_input[spectrum_fe] # "none"
  /\ mpc \in {"spawn", "join"} => \A f \in Frontends : rf_input[f] # "none"
  /\ \A f \in Frontends : tpc[f] \notin {"none", "start"} => fe_band[f] = selected
  /\ \A f \in Frontends : Scanning(f) => rf_input[f] # "none"
  /\ \A f \in Frontends : rf_input[f] = "master" => mpc # "open" /\ f = spectrum_fe

IInv == TypeOK /\ PassInv /\ ThreadInv /\ PoolInv /\ DishInv

-------------------------------------------------------------------------------
LEMMA SlofType == lnb_universal_slof \in Int
BY SMT DEF lnb_universal_slof

(* The low and the high pass of one polarisation have the type of passes.   *)
LEMMA LowHighType ==
  ASSUME NEW p \in {H, V}, NEW start \in Int, NEW end \in Int
  PROVE  LowPass(p, start, end) \in Seq(Passes) /\ HighPass(p, start, end) \in Seq(Passes)
<1>1. ASSUME NEW b \in Bands, NEW s \in Int, NEW e \in Int, NEW a \in BOOLEAN
      PROVE  << [band |-> b, pol |-> p, start |-> s, append |-> a, end |-> e] >> \in Seq(Passes)
  BY <1>1 DEF Passes
<1>2. LowPass(p, start, end) \in Seq(Passes)
  <2>1. CASE start < lnb_universal_slof
    <3> DEFINE e == IF end < lnb_universal_slof THEN end ELSE lnb_universal_slof
    <3>1. e \in Int
      BY SlofType
    <3>2. << [band |-> 0, pol |-> p, start |-> start, append |-> FALSE, end |-> e] >> \in Seq(Passes)
      BY <1>1, <3>1 DEF Bands
    <3> QED BY <2>1, <3>2 DEF LowPass
  <2>2. CASE ~(start < lnb_universal_slof)
    BY <2>2 DEF LowPass
  <2> QED BY <2>1, <2>2
<1>3. HighPass(p, start, end) \in Seq(Passes)
  <2>1. CASE HighNeeded(start, end)
    <3> DEFINE s == IF start > lnb_universal_slof THEN start ELSE lnb_universal_slof
               a == Appends(start)
    <3>1. s \in Int /\ a \in BOOLEAN
      BY SlofType DEF Appends
    <3>2. << [band |-> 1, pol |-> p, start |-> s, append |-> a, end |-> end] >> \in Seq(Passes)
      BY <1>1, <3>1 DEF Bands
    <3> QED BY <2>1, <3>2 DEF HighPass
  <2>2. CASE ~HighNeeded(start, end)
    BY <2>2 DEF HighPass
  <2> QED BY <2>1, <2>2
<1> QED BY <1>2, <1>3

(* So have the passes of one polarisation.                                 *)
LEMMA PolPassesType ==
  ASSUME NEW pols, NEW p \in {H, V}, NEW start \in Int, NEW end \in Int
  PROVE  PolPasses(pols, p, start, end) \in Seq(Passes)
<1>1. LowPass(p, start, end) \in Seq(Passes) /\ HighPass(p, start, end) \in Seq(Passes)
  BY LowHighType
<1>2. LowPass(p, start, end) \o HighPass(p, start, end) \in Seq(Passes) /\ << >> \in Seq(Passes)
  BY <1>1
<1> QED BY <1>2 DEF PolPasses

(* The plan of every command line consists of passes.                      *)
LEMMA PlanType ==
  ASSUME NEW r \in Requests
  PROVE  LET range == ScanRange(r.sys, r.lnb, r.start, r.end)
         IN  Plan(r.pols, range[1], range[2]) \in Seq(Passes)
<1> DEFINE range == ScanRange(r.sys, r.lnb, r.start, r.end)
<1>1. r.start \in Int /\ r.end \in Int
  BY RequestsAssumption
<1>2. range[1] \in Int /\ range[2] \in Int
  BY <1>1, SMT DEF ScanRange, StartFreq, EndFreq
<1> HIDE DEF range
<1>3. Plan(r.pols, range[1], range[2]) \in Seq(Passes)
  BY <1>2, PolPassesType DEF Plan
<1> QED BY <1>3 DEF range

(* The setting of a pass is a band and a polarisation.                     *)
LEMMA SettingType ==
  ASSUME TypeOK, pass <= Len(plan)
  PROVE  Setting(plan[pass]) \in Bands \X {H, V}
<1>1. plan[pass] \in Passes
  BY DEF TypeOK
<1> QED BY <1>1 DEF Setting, Passes

(* Every step keeps the types.                                             *)
LEMMA TypeStep ==
  ASSUME TypeOK, PassInv, ThreadInv, PoolInv, [Next]_vars
  PROVE  TypeOK'
<1> USE NumFrontendsAssumption, MaxPeaksAssumption
         DEF mainVars, poolVars, fileVars, workerVars, dishVars, PeakLeft, Advanced, LastJoin, Mode,
             TaskBand, LinesAfterOpen
<1>1. CASE OpenFrontends
  BY <1>1 DEF OpenFrontends, TypeOK, NextPass
<1>2. CASE OpenFails
  BY <1>2 DEF OpenFails, TypeOK, Exit
<1>3. CASE SelectBand
  <2>1. Setting(plan[pass]) \in Bands \X {H, V}
    BY <1>3, SettingType DEF SelectBand, PassInv, InBandScan
  <2>2. fe_band' \in [Frontends -> Bands \X {H, V}]
    BY <1>3, <2>1 DEF SelectBand, TypeOK
  <2>3. rf_input' \in [Frontends -> {"none", "master", "slave"}]
    BY <1>3 DEF SelectBand, TypeOK
  <2>4. selected' \in {<<>>} \cup (Bands \X {H, V}) /\ next_to_scan' \in 0 .. MaxPeaks
    BY <1>3, <2>1 DEF SelectBand
  <2>5. mpc' = "spectrum" /\ UNCHANGED <<plan, pass, next, spectrum_fft_fe, spectrum_sweep_fe,
                               num_spectral_peaks, fileVars, workerVars, scans>>
    BY <1>3 DEF SelectBand
  <2> QED BY <2>2, <2>3, <2>4, <2>5 DEF TypeOK, fileVars, workerVars
<1>4. CASE AcquireSpectrum
  <2>1. plan[pass].band \in Bands
    <3>1. plan[pass] \in Passes
      BY <1>4 DEF AcquireSpectrum, TypeOK, PassInv, InBandScan
    <3> QED BY <3>1 DEF Passes
  <2>2. spectrum_file' \in [{H, V} -> SUBSET Bands]
    <3>1. ASSUME NEW written \in SUBSET {plan[pass].band}
          PROVE  [spectrum_file EXCEPT ![plan[pass].pol] =
                    (IF plan[pass].append THEN @ ELSE {}) \cup written] \in [{H, V} -> SUBSET Bands]
      BY <2>1 DEF TypeOK
    <3>2. CASE UNCHANGED spectrum_file
      BY <3>2 DEF TypeOK
    <3>3. save_spectrum
      BY <1>4 DEF AcquireSpectrum
    <3> QED BY <3>1, <3>2, <3>3 DEF save_spectrum
  <2>3. scans' \in [1 .. MaxPeaks -> Nat] /\ num_spectral_peaks' \in 0 .. MaxPeaks
    BY <1>4 DEF AcquireSpectrum
  <2>4. mpc' = "connect" /\ UNCHANGED <<plan, pass, next, spectrum_fft_fe, spectrum_sweep_fe,
                 next_to_scan, fpout_bs, lines, workerVars, dishVars, fe_band>>
    BY <1>4 DEF AcquireSpectrum
  <2> QED BY <2>2, <2>3, <2>4 DEF TypeOK, workerVars, dishVars
<1>5. CASE ConnectOthers
  <2>1. rf_input' \in [Frontends -> {"none", "master", "slave"}]
    BY <1>5 DEF ConnectOthers, TypeOK
  <2>2. next' \in Frontends /\ lines' \subseteq (Nat \X Nat) /\ fpout_bs' \in BOOLEAN
    BY <1>5 DEF ConnectOthers, TypeOK, Frontends
  <2>3. mpc' = "spawn" /\ UNCHANGED <<plan, pass, spectrum_fft_fe, spectrum_sweep_fe, poolVars,
                 spectrum_file, workerVars, selected, fe_band, scans>>
    BY <1>5 DEF ConnectOthers
  <2> QED BY <2>1, <2>2, <2>3 DEF TypeOK, poolVars, workerVars
<1>6. CASE BandFails
  BY <1>6 DEF BandFails, TypeOK, Exit
<1>7. CASE Spawn
  <2>1. next' \in Frontends /\ mpc' \in {"spawn", "join", "count"}
    <3>1. next \in 1 .. NumFrontends
      BY DEF TypeOK, Frontends
    <3>2. /\ next' = 1 \/ (next # NumFrontends /\ next' = next + 1)
          /\ mpc' \in {"spawn", "join", "count"}
      BY <1>7 DEF Spawn
    <3> QED BY <3>1, <3>2 DEF Frontends
  <2>2. tpc' \in [Frontends -> {"none", "start", "reserve", "scan", "save", "returned"}]
    BY <1>7 DEF Spawn, TypeOK
  <2>3. UNCHANGED <<plan, pass, spectrum_fft_fe, spectrum_sweep_fe, poolVars, fileVars, peak,
                    fe_peaks, fe_locked, dishVars, fe_band, scans>>
    BY <1>7 DEF Spawn
  <2> QED BY <2>1, <2>2, <2>3 DEF TypeOK, poolVars, fileVars, dishVars
<1>8. CASE Join
  <2>1. next' \in Frontends /\ mpc' \in {"spawn", "join", "count"}
    <3>1. next \in 1 .. NumFrontends
      BY DEF TypeOK, Frontends
    <3>2. /\ next' = 1 \/ (next # NumFrontends /\ next' = next + 1)
          /\ mpc' \in {"spawn", "join", "count"}
      BY <1>8 DEF Join
    <3> QED BY <3>1, <3>2 DEF Frontends
  <2>2. tpc' \in [Frontends -> {"none", "start", "reserve", "scan", "save", "returned"}]
    BY <1>8 DEF Join, TypeOK
  <2>3. UNCHANGED <<plan, pass, spectrum_fft_fe, spectrum_sweep_fe, poolVars, fileVars, peak,
                    fe_peaks, fe_locked, dishVars, fe_band, scans>>
    BY <1>8 DEF Join
  <2> QED BY <2>1, <2>2, <2>3 DEF TypeOK, poolVars, fileVars, dishVars
<1>9. CASE CountBand
  BY <1>9 DEF CountBand, TypeOK, NextPass
<1>10. CASE Close
  BY <1>10 DEF Close, TypeOK
<1>11. ASSUME NEW f \in Frontends, TaskStart(f) PROVE TypeOK'
  BY <1>11, SettingType DEF TaskStart, TypeOK, PassInv, InBandScan, ThreadInv, Running
<1>12. ASSUME NEW f \in Frontends, ReservePeak(f) PROVE TypeOK'
  <2>1. next_to_scan' \in 0 .. MaxPeaks /\ next_to_scan + 1 \in 1 .. MaxPeaks
    BY <1>12 DEF ReservePeak, TypeOK
  <2>2. peak' \in [Frontends -> 0 .. MaxPeaks]
    BY <1>12, <2>1 DEF ReservePeak, TypeOK
  <2>3. scans' \in [1 .. MaxPeaks -> Nat]
    BY <1>12, <2>1 DEF ReservePeak, TypeOK
  <2>4. tpc' \in [Frontends -> {"none", "start", "reserve", "scan", "save", "returned"}]
    BY <1>12 DEF ReservePeak, TypeOK
  <2>5. UNCHANGED <<plan, mainVars, num_spectral_peaks, fileVars, fe_peaks, fe_locked,
                    dishVars, fe_band>>
    BY <1>12 DEF ReservePeak
  <2> QED BY <2>1, <2>2, <2>3, <2>4, <2>5 DEF TypeOK
<1>13. ASSUME NEW f \in Frontends, TaskReturn(f) PROVE TypeOK'
  BY <1>13 DEF TaskReturn, TypeOK
<1>14. ASSUME NEW f \in Frontends, PeakSkipped(f) PROVE TypeOK'
  BY <1>14 DEF PeakSkipped, TypeOK
<1>15. ASSUME NEW f \in Frontends, PeakNotLocked(f) PROVE TypeOK'
  <2>1. fe_peaks' \in [Frontends -> Nat] /\ peak' \in [Frontends -> 0 .. MaxPeaks]
    BY <1>15 DEF PeakNotLocked, TypeOK
  <2>2. tpc' \in [Frontends -> {"none", "start", "reserve", "scan", "save", "returned"}]
    BY <1>15 DEF PeakNotLocked, TypeOK
  <2>3. UNCHANGED <<plan, mainVars, poolVars, fileVars, fe_locked, dishVars, fe_band, scans>>
    BY <1>15 DEF PeakNotLocked
  <2> QED BY <2>1, <2>2, <2>3 DEF TypeOK
<1>16. ASSUME NEW f \in Frontends, PeakLocked(f) PROVE TypeOK'
  <2>1. fe_peaks' \in [Frontends -> Nat] /\ fe_locked' \in [Frontends -> Nat]
    BY <1>16 DEF PeakLocked, TypeOK
  <2>2. tpc' \in [Frontends -> {"none", "start", "reserve", "scan", "save", "returned"}]
    BY <1>16 DEF PeakLocked, TypeOK
  <2>3. UNCHANGED <<plan, mainVars, poolVars, fileVars, peak, dishVars, fe_band, scans>>
    BY <1>16 DEF PeakLocked
  <2> QED BY <2>1, <2>2, <2>3 DEF TypeOK
<1>17. ASSUME NEW f \in Frontends, SaveInfo(f) PROVE TypeOK'
  BY <1>17 DEF SaveInfo, TypeOK
<1>18. ASSUME NEW f \in Frontends, TaskFails(f) PROVE TypeOK'
  BY <1>18 DEF TaskFails, TypeOK, Exit
<1>19. CASE Terminated \/ UNCHANGED vars
  <2>1. UNCHANGED vars
    BY <1>19 DEF Terminated
  <2> QED BY <2>1 DEF vars, TypeOK
<1> QED
  BY <1>1, <1>2, <1>3, <1>4, <1>5, <1>6, <1>7, <1>8, <1>9, <1>10, <1>11, <1>12, <1>13, <1>14,
     <1>15, <1>16, <1>17, <1>18, <1>19 DEF Next, Main, Task, ScanPeak


(* Every step keeps the main thread within the plan.                       *)
LEMMA PassStep ==
  ASSUME TypeOK, PassInv, [Next]_vars
  PROVE  PassInv'
<1> USE DEF mainVars, poolVars, fileVars, workerVars, dishVars, PeakLeft, Advanced, LastJoin, Mode,
             TaskBand, LinesAfterOpen
<1>1. CASE OpenFrontends
  BY <1>1 DEF OpenFrontends, PassInv, InBandScan, NextPass
<1>2. CASE OpenFails
  BY <1>2 DEF OpenFails, PassInv, InBandScan, Exit
<1>3. CASE SelectBand
  BY <1>3 DEF SelectBand, PassInv, InBandScan
<1>4. CASE AcquireSpectrum
  BY <1>4 DEF AcquireSpectrum, PassInv, InBandScan
<1>5. CASE ConnectOthers
  BY <1>5 DEF ConnectOthers, PassInv, InBandScan
<1>6. CASE BandFails
  BY <1>6 DEF BandFails, PassInv, InBandScan, Exit
<1>7. CASE Spawn
  BY <1>7 DEF Spawn, PassInv, InBandScan
<1>8. CASE Join
  BY <1>8 DEF Join, PassInv, InBandScan
<1>9. CASE CountBand
  BY <1>9 DEF CountBand, PassInv, InBandScan, NextPass
<1>10. CASE Close
  BY <1>10 DEF Close, PassInv, InBandScan
<1>11. ASSUME NEW f \in Frontends, TaskStart(f) PROVE PassInv'
  BY <1>11 DEF TaskStart, PassInv, InBandScan
<1>12. ASSUME NEW f \in Frontends, ReservePeak(f) PROVE PassInv'
  BY <1>12 DEF ReservePeak, PassInv, InBandScan
<1>13. ASSUME NEW f \in Frontends, TaskReturn(f) PROVE PassInv'
  BY <1>13 DEF TaskReturn, PassInv, InBandScan
<1>14. ASSUME NEW f \in Frontends, PeakSkipped(f) PROVE PassInv'
  BY <1>14 DEF PeakSkipped, PassInv, InBandScan
<1>15. ASSUME NEW f \in Frontends, PeakNotLocked(f) PROVE PassInv'
  BY <1>15 DEF PeakNotLocked, PassInv, InBandScan
<1>16. ASSUME NEW f \in Frontends, PeakLocked(f) PROVE PassInv'
  BY <1>16 DEF PeakLocked, PassInv, InBandScan
<1>17. ASSUME NEW f \in Frontends, SaveInfo(f) PROVE PassInv'
  BY <1>17 DEF SaveInfo, PassInv, InBandScan
<1>18. ASSUME NEW f \in Frontends, TaskFails(f) PROVE PassInv'
  BY <1>18 DEF TaskFails, PassInv, InBandScan, Exit
<1>19. CASE Terminated \/ UNCHANGED vars
  BY <1>19 DEF Terminated, vars, PassInv, InBandScan
<1> QED
  BY <1>1, <1>2, <1>3, <1>4, <1>5, <1>6, <1>7, <1>8, <1>9, <1>10, <1>11, <1>12, <1>13, <1>14,
     <1>15, <1>16, <1>17, <1>18, <1>19 DEF Next, Main, Task, ScanPeak


(* Every step keeps the threads where the loops of scan_band say.          *)
LEMMA ThreadStep ==
  ASSUME TypeOK, ThreadInv, [Next]_vars
  PROVE  ThreadInv'
<1> USE NumFrontendsAssumption
         DEF mainVars, poolVars, fileVars, workerVars, dishVars, PeakLeft, Advanced, LastJoin, Mode,
             TaskBand, LinesAfterOpen
<1>1. CASE OpenFrontends
  BY <1>1 DEF OpenFrontends, ThreadInv, TypeOK, NextPass
<1>2. CASE OpenFails
  BY <1>2 DEF OpenFails, ThreadInv, TypeOK, Exit
<1>3. CASE SelectBand
  BY <1>3 DEF SelectBand, ThreadInv, TypeOK
<1>4. CASE AcquireSpectrum
  BY <1>4 DEF AcquireSpectrum, ThreadInv, TypeOK
<1>5. CASE ConnectOthers
  BY <1>5 DEF ConnectOthers, ThreadInv, TypeOK, Frontends
<1>6. CASE BandFails
  BY <1>6 DEF BandFails, ThreadInv, TypeOK, Exit
<1>7. CASE Spawn
  <2>1. \A f \in Frontends : tpc'[f] = IF f = next THEN "start" ELSE tpc[f]
    BY <1>7 DEF Spawn, TypeOK
  <2>2. \A f \in Frontends : tpc'[f] = "none" <=> f > next
    <3>1. \A f \in Frontends : f >= next <=> tpc[f] = "none"
      BY <1>7 DEF Spawn, ThreadInv
    <3>2. \A f \in Frontends : (f >= next <=> f = next \/ f > next) /\ (f = next => ~(f > next))
      BY DEF Frontends, TypeOK
    <3> QED BY <2>1, <3>1, <3>2
  <2>3. CASE next = NumFrontends
    <3>1. mpc' = "join" /\ next' = 1 /\ \A f \in Frontends : tpc'[f] # "none" /\ f >= 1
      BY <1>7, <2>2, <2>3 DEF Spawn, Frontends
    <3> QED BY <3>1 DEF ThreadInv, Frontends
  <2>4. CASE next # NumFrontends
    <3>1. mpc' = "spawn" /\ next' = next + 1
      BY <1>7, <2>4 DEF Spawn
    <3>2. \A f \in Frontends : f >= next + 1 <=> f > next
      BY DEF Frontends, TypeOK
    <3> QED BY <2>2, <3>1, <3>2 DEF ThreadInv
  <2> QED BY <2>3, <2>4
<1>8. CASE Join
  <2>1. \A f \in Frontends : tpc'[f] = IF f = next THEN "none" ELSE tpc[f]
    BY <1>8 DEF Join, TypeOK
  <2>2. \A f \in Frontends : tpc'[f] = "none" <=> f <= next
    <3>1. \A f \in Frontends : f < next <=> tpc[f] = "none"
      BY <1>8 DEF Join, ThreadInv
    <3>2. \A f \in Frontends : f <= next <=> f = next \/ f < next
      BY DEF Frontends, TypeOK
    <3> QED BY <2>1, <3>1, <3>2
  <2>3. CASE next = NumFrontends
    <3>1. mpc' = "count" /\ \A f \in Frontends : tpc'[f] = "none"
      BY <1>8, <2>2, <2>3 DEF Join, Frontends
    <3> QED BY <3>1 DEF ThreadInv
  <2>4. CASE next # NumFrontends
    <3>1. mpc' = "join" /\ next' = next + 1
      BY <1>8, <2>4 DEF Join
    <3>2. \A f \in Frontends : f < next + 1 <=> f <= next
      BY DEF Frontends, TypeOK
    <3> QED BY <2>2, <3>1, <3>2 DEF ThreadInv
  <2> QED BY <2>3, <2>4
<1>9. CASE CountBand
  BY <1>9 DEF CountBand, ThreadInv, TypeOK, NextPass
<1>10. CASE Close
  BY <1>10 DEF Close, ThreadInv, TypeOK
<1>11. ASSUME NEW f \in Frontends, TaskStart(f) PROVE ThreadInv'
  BY <1>11 DEF TaskStart, ThreadInv, TypeOK, Running
<1>12. ASSUME NEW f \in Frontends, ReservePeak(f) PROVE ThreadInv'
  BY <1>12 DEF ReservePeak, ThreadInv, TypeOK, Running
<1>13. ASSUME NEW f \in Frontends, TaskReturn(f) PROVE ThreadInv'
  BY <1>13 DEF TaskReturn, ThreadInv, TypeOK, Running
<1>14. ASSUME NEW f \in Frontends, PeakSkipped(f) PROVE ThreadInv'
  BY <1>14 DEF PeakSkipped, ThreadInv, TypeOK, Running
<1>15. ASSUME NEW f \in Frontends, PeakNotLocked(f) PROVE ThreadInv'
  BY <1>15 DEF PeakNotLocked, ThreadInv, TypeOK, Running
<1>16. ASSUME NEW f \in Frontends, PeakLocked(f) PROVE ThreadInv'
  BY <1>16 DEF PeakLocked, ThreadInv, TypeOK, Running
<1>17. ASSUME NEW f \in Frontends, SaveInfo(f) PROVE ThreadInv'
  BY <1>17 DEF SaveInfo, ThreadInv, TypeOK, Running
<1>18. ASSUME NEW f \in Frontends, TaskFails(f) PROVE ThreadInv'
  BY <1>18 DEF TaskFails, ThreadInv, TypeOK, Exit
<1>19. CASE Terminated \/ UNCHANGED vars
  BY <1>19 DEF Terminated, vars, ThreadInv, TypeOK
<1> QED
  BY <1>1, <1>2, <1>3, <1>4, <1>5, <1>6, <1>7, <1>8, <1>9, <1>10, <1>11, <1>12, <1>13, <1>14,
     <1>15, <1>16, <1>17, <1>18, <1>19 DEF Next, Main, Task, ScanPeak


(* Every step keeps the pool consistent.                                   *)
LEMMA PoolStep ==
  ASSUME TypeOK, ThreadInv, PoolInv, [Next]_vars
  PROVE  PoolInv'
<1> USE NumFrontendsAssumption, MaxPeaksAssumption
         DEF mainVars, poolVars, fileVars, workerVars, dishVars, PeakLeft, Advanced, LastJoin, Mode,
             TaskBand, LinesAfterOpen
<1>1. CASE OpenFrontends
  BY <1>1 DEF OpenFrontends, PoolInv, TypeOK, Scanning, NextPass
<1>2. CASE OpenFails
  BY <1>2 DEF OpenFails, PoolInv, TypeOK, Scanning, Exit
<1>3. CASE SelectBand
  BY <1>3 DEF SelectBand, PoolInv, TypeOK, Scanning, ThreadInv
<1>4. CASE AcquireSpectrum
  BY <1>4 DEF AcquireSpectrum, PoolInv, TypeOK, Scanning, ThreadInv
<1>5. CASE ConnectOthers
  BY <1>5 DEF ConnectOthers, PoolInv, TypeOK, Scanning, ThreadInv
<1>6. CASE BandFails
  BY <1>6 DEF BandFails, PoolInv, TypeOK, Scanning, Exit
<1>7. CASE Spawn
  <2>1. \A g \in Frontends : tpc'[g] = "returned" => tpc[g] = "returned"
    BY <1>7 DEF Spawn, TypeOK
  <2>2. \A g \in Frontends : Scanning(g)' <=> Scanning(g)
    <3>1. tpc[next] = "none"
      BY <1>7 DEF Spawn, ThreadInv, TypeOK, Frontends
    <3> QED BY <1>7, <3>1 DEF Spawn, TypeOK, Scanning
  <2>3. UNCHANGED <<num_spectral_peaks, next_to_scan, peak, scans>>
    BY <1>7 DEF Spawn, poolVars
  <2>4. mpc = "spawn" /\ mpc' \in {"spawn", "join"} /\ (mpc' = "join" => next' = 1)
    BY <1>7 DEF Spawn
  <2> QED BY <2>1, <2>2, <2>3, <2>4 DEF PoolInv
<1>8. CASE Join
  <2>1. \A g \in Frontends : tpc'[g] = "returned" => tpc[g] = "returned"
    BY <1>8 DEF Join, TypeOK
  <2>2. \A g \in Frontends : Scanning(g)' <=> Scanning(g)
    BY <1>8 DEF Join, TypeOK, Scanning
  <2>3. UNCHANGED <<num_spectral_peaks, next_to_scan, peak, scans>>
    BY <1>8 DEF Join, poolVars
  <2>4. mpc = "join" /\ mpc' \in {"join", "count"}
    BY <1>8 DEF Join
  <2>5. next_to_scan = num_spectral_peaks
    BY <1>8 DEF Join, PoolInv, TypeOK
  <2> QED BY <2>1, <2>2, <2>3, <2>4, <2>5 DEF PoolInv
<1>9. CASE CountBand
  BY <1>9 DEF CountBand, PoolInv, TypeOK, Scanning, NextPass, ThreadInv
<1>10. CASE Close
  BY <1>10 DEF Close, PoolInv, TypeOK, Scanning, ThreadInv
<1>11. ASSUME NEW f \in Frontends, TaskStart(f) PROVE PoolInv'
  BY <1>11 DEF TaskStart, PoolInv, TypeOK, Scanning, Running, ThreadInv
<1>12. ASSUME NEW f \in Frontends, ReservePeak(f) PROVE PoolInv'
  <2>1. mpc \in {"spawn", "join"}
    BY <1>12 DEF ReservePeak, ThreadInv, TypeOK, Running
  <2>2. /\ next_to_scan' = next_to_scan + 1 /\ next_to_scan' \in 1 .. MaxPeaks
        /\ num_spectral_peaks' = num_spectral_peaks /\ next_to_scan' <= num_spectral_peaks
        /\ mpc' = mpc /\ next' = next
    BY <1>12 DEF ReservePeak, TypeOK, mainVars
  <2>3. \A i \in 1 .. MaxPeaks : scans'[i] = IF i <= next_to_scan' THEN 1 ELSE 0
    BY <1>12, <2>1, <2>2 DEF ReservePeak, TypeOK, PoolInv
  <2>4. /\ peak'[f] = next_to_scan' /\ tpc'[f] = "scan"
        /\ \A g \in Frontends \ {f} : peak'[g] = peak[g] /\ tpc'[g] = tpc[g]
    BY <1>12, <2>2 DEF ReservePeak, TypeOK
  <2>5. \A g \in Frontends : Scanning(g) => peak[g] <= next_to_scan /\ peak[g] \in Nat
    BY DEF PoolInv, TypeOK
  <2>6. \A g \in Frontends : Scanning(g)' => peak'[g] <= next_to_scan'
    <3> TAKE g \in Frontends
    <3>1. CASE g = f
      BY <2>2, <2>4, <3>1
    <3>2. CASE g # f
      BY <2>2, <2>4, <2>5, <3>2 DEF Scanning, TypeOK
    <3> QED BY <3>1, <3>2
  <2>7. \A g, h \in Frontends : Scanning(g)' /\ Scanning(h)' /\ peak'[g] = peak'[h] => g = h
    <3> SUFFICES ASSUME NEW g \in Frontends, NEW h \in Frontends, g # h,
                        Scanning(g)', Scanning(h)'
                 PROVE  peak'[g] # peak'[h]
      OBVIOUS
    <3> next_to_scan \in Nat
      BY DEF TypeOK
    <3>1. CASE g = f
      <4>1. Scanning(h) /\ peak'[h] = peak[h]
        BY <2>4, <3>1 DEF Scanning
      <4> QED BY <2>2, <2>4, <2>5, <3>1, <4>1
    <3>2. CASE h = f
      <4>1. Scanning(g) /\ peak'[g] = peak[g]
        BY <2>4, <3>2 DEF Scanning
      <4> QED BY <2>2, <2>4, <2>5, <3>2, <4>1
    <3>3. CASE g # f /\ h # f
      BY <2>4, <3>3 DEF PoolInv, Scanning
    <3> QED BY <3>1, <3>2, <3>3
  <2>8. ~ (\E g \in Frontends : tpc'[g] = "returned") /\ (mpc = "join" => next = 1)
    <3>1. next_to_scan # num_spectral_peaks
      BY <1>12 DEF ReservePeak, TypeOK
    <3>2. ~ (\E g \in Frontends : tpc[g] = "returned") /\ (mpc = "join" => ~(next > 1))
      BY <3>1 DEF PoolInv
    <3>3. next \in Nat /\ next >= 1
      BY DEF TypeOK, Frontends
    <3>4. ~ (\E g \in Frontends : tpc'[g] = "returned")
      BY <2>4, <3>2
    <3> QED BY <3>2, <3>3, <3>4
  <2>9. \A g \in Frontends : Scanning(g)' <=> peak'[g] # 0
    <3> TAKE g \in Frontends
    <3>1. CASE g = f
      BY <2>2, <2>4, <3>1 DEF Scanning
    <3>2. CASE g # f
      BY <2>4, <3>2 DEF PoolInv, Scanning
    <3> QED BY <3>1, <3>2
  <2> QED BY <2>1, <2>2, <2>3, <2>6, <2>7, <2>8, <2>9 DEF PoolInv
<1>13. ASSUME NEW f \in Frontends, TaskReturn(f) PROVE PoolInv'
  BY <1>13 DEF TaskReturn, PoolInv, TypeOK, Scanning, Running, ThreadInv
<1>14. ASSUME NEW f \in Frontends, PeakSkipped(f) PROVE PoolInv'
  BY <1>14 DEF PeakSkipped, PoolInv, TypeOK, Scanning, Running, ThreadInv
<1>15. ASSUME NEW f \in Frontends, PeakNotLocked(f) PROVE PoolInv'
  BY <1>15 DEF PeakNotLocked, PoolInv, TypeOK, Scanning, Running, ThreadInv
<1>16. ASSUME NEW f \in Frontends, PeakLocked(f) PROVE PoolInv'
  <2>1. \A g \in Frontends : Scanning(g)' <=> Scanning(g)
    BY <1>16 DEF PeakLocked, TypeOK, Scanning
  <2>2. \A g \in Frontends : tpc'[g] = "returned" => tpc[g] = "returned"
    BY <1>16 DEF PeakLocked, TypeOK
  <2>3. UNCHANGED <<mpc, next, next_to_scan, num_spectral_peaks, scans, peak>>
    BY <1>16 DEF PeakLocked, mainVars, poolVars
  <2> QED BY <2>1, <2>2, <2>3 DEF PoolInv
<1>17. ASSUME NEW f \in Frontends, SaveInfo(f) PROVE PoolInv'
  BY <1>17 DEF SaveInfo, PoolInv, TypeOK, Scanning, Running, ThreadInv
<1>18. ASSUME NEW f \in Frontends, TaskFails(f) PROVE PoolInv'
  BY <1>18 DEF TaskFails, PoolInv, TypeOK, Scanning, Exit
<1>19. CASE Terminated \/ UNCHANGED vars
  <2>1. UNCHANGED <<tpc, mpc, next, next_to_scan, num_spectral_peaks, scans, peak>>
    BY <1>19 DEF Terminated, vars, mainVars, poolVars, workerVars
  <2>2. \A g : Scanning(g)' <=> Scanning(g)
    BY <2>1 DEF Scanning
  <2> QED BY <2>1, <2>2 DEF PoolInv
<1> QED
  BY <1>1, <1>2, <1>3, <1>4, <1>5, <1>6, <1>7, <1>8, <1>9, <1>10, <1>11, <1>12, <1>13, <1>14,
     <1>15, <1>16, <1>17, <1>18, <1>19 DEF Next, Main, Task, ScanPeak


(* Every step keeps the dish on the setting of the pass.                   *)
LEMMA DishStep ==
  ASSUME TypeOK, ThreadInv, DishInv, [Next]_vars
  PROVE  DishInv'
<1> USE NumFrontendsAssumption
         DEF mainVars, poolVars, fileVars, workerVars, dishVars, PeakLeft, Advanced, LastJoin, Mode,
             TaskBand, LinesAfterOpen
<1>1. CASE OpenFrontends
  BY <1>1 DEF OpenFrontends, DishInv, TypeOK, Scanning, spectrum_fe, NextPass, Frontends
<1>2. CASE OpenFails
  BY <1>2 DEF OpenFails, DishInv, TypeOK, Scanning, spectrum_fe, Exit
<1>3. CASE SelectBand
  BY <1>3 DEF SelectBand, DishInv, TypeOK, Scanning, spectrum_fe, ThreadInv
<1>4. CASE AcquireSpectrum
  BY <1>4 DEF AcquireSpectrum, DishInv, TypeOK, Scanning, spectrum_fe, ThreadInv
<1>5. CASE ConnectOthers
  BY <1>5 DEF ConnectOthers, DishInv, TypeOK, Scanning, spectrum_fe, ThreadInv
<1>6. CASE BandFails
  BY <1>6 DEF BandFails, DishInv, TypeOK, Scanning, spectrum_fe, Exit
<1>7. CASE Spawn
  BY <1>7 DEF Spawn, DishInv, TypeOK, Scanning, spectrum_fe, Frontends, ThreadInv
<1>8. CASE Join
  BY <1>8 DEF Join, DishInv, TypeOK, Scanning, spectrum_fe, Frontends, ThreadInv
<1>9. CASE CountBand
  BY <1>9 DEF CountBand, DishInv, TypeOK, Scanning, spectrum_fe, NextPass, ThreadInv
<1>10. CASE Close
  BY <1>10 DEF Close, DishInv, TypeOK, Scanning, spectrum_fe, ThreadInv
<1>11. ASSUME NEW f \in Frontends, TaskStart(f) PROVE DishInv'
  BY <1>11 DEF TaskStart, DishInv, TypeOK, Scanning, spectrum_fe, Running, ThreadInv
<1>12. ASSUME NEW f \in Frontends, ReservePeak(f) PROVE DishInv'
  BY <1>12 DEF ReservePeak, DishInv, TypeOK, Scanning, spectrum_fe, Running, ThreadInv
<1>13. ASSUME NEW f \in Frontends, TaskReturn(f) PROVE DishInv'
  BY <1>13 DEF TaskReturn, DishInv, TypeOK, Scanning, spectrum_fe, Running, ThreadInv
<1>14. ASSUME NEW f \in Frontends, PeakSkipped(f) PROVE DishInv'
  BY <1>14 DEF PeakSkipped, DishInv, TypeOK, Scanning, spectrum_fe, Running, ThreadInv
<1>15. ASSUME NEW f \in Frontends, PeakNotLocked(f) PROVE DishInv'
  BY <1>15 DEF PeakNotLocked, DishInv, TypeOK, Scanning, spectrum_fe, Running, ThreadInv
<1>16. ASSUME NEW f \in Frontends, PeakLocked(f) PROVE DishInv'
  BY <1>16 DEF PeakLocked, DishInv, TypeOK, Scanning, spectrum_fe, Running, ThreadInv
<1>17. ASSUME NEW f \in Frontends, SaveInfo(f) PROVE DishInv'
  BY <1>17 DEF SaveInfo, DishInv, TypeOK, Scanning, spectrum_fe, Running, ThreadInv
<1>18. ASSUME NEW f \in Frontends, TaskFails(f) PROVE DishInv'
  BY <1>18 DEF TaskFails, DishInv, TypeOK, Scanning, spectrum_fe, Exit
<1>19. CASE Terminated \/ UNCHANGED vars
  BY <1>19 DEF Terminated, vars, DishInv, TypeOK, Scanning, spectrum_fe
<1> QED
  BY <1>1, <1>2, <1>3, <1>4, <1>5, <1>6, <1>7, <1>8, <1>9, <1>10, <1>11, <1>12, <1>13, <1>14,
     <1>15, <1>16, <1>17, <1>18, <1>19 DEF Next, Main, Task, ScanPeak


-------------------------------------------------------------------------------
(* The inductive invariant holds initially.                                *)
LEMMA InitInv ==
  ASSUME Init
  PROVE  IInv
<1> USE NumFrontendsAssumption, MaxPeaksAssumption
<1>1. plan \in Seq(Passes)
  BY PlanType DEF Init
<1>2. <<0, H>> \in Bands \X {H, V}
  BY DEF Bands
<1>3. TypeOK
  <2>1. /\ fe_band \in [Frontends -> Bands \X {H, V}]
        /\ spectrum_file \in [{H, V} -> SUBSET Bands]
    BY <1>2 DEF Init
  <2>2. next \in Frontends
    BY DEF Init, Frontends
  <2>3. /\ tpc \in [Frontends -> {"none", "start", "reserve", "scan", "save", "returned"}]
        /\ peak \in [Frontends -> 0 .. MaxPeaks]
        /\ fe_peaks \in [Frontends -> Nat] /\ fe_locked \in [Frontends -> Nat]
        /\ rf_input \in [Frontends -> {"none", "master", "slave"}]
        /\ scans \in [1 .. MaxPeaks -> Nat]
    BY DEF Init
  <2>4. /\ mpc = "open" /\ pass = 1 /\ spectrum_fft_fe = 0 /\ spectrum_sweep_fe = 0
        /\ num_spectral_peaks = 0 /\ next_to_scan = 0
    BY DEF Init
  <2>5. fpout_bs \in BOOLEAN /\ lines \subseteq (Nat \X Nat)
    <3>1. fpout_bs = FALSE /\ lines = {}
      BY DEF Init
    <3> QED BY <3>1, Zenon
  <2>6. selected \in {<<>>} \cup (Bands \X {H, V})
    BY DEF Init
  <2> QED BY <1>1, <2>1, <2>2, <2>3, <2>4, <2>5, <2>6 DEF TypeOK
<1>4. PassInv /\ ThreadInv /\ PoolInv
  BY DEF Init, PassInv, InBandScan, ThreadInv, PoolInv, Scanning, Frontends
<1>5. DishInv
  BY DEF Init, DishInv, Scanning
<1> QED BY <1>3, <1>4, <1>5 DEF IInv

(* Every step preserves it, part by part.                                  *)
LEMMA NextInv ==
  ASSUME IInv, [Next]_vars
  PROVE  IInv'
BY TypeStep, PassStep, ThreadStep, PoolStep, DishStep DEF IInv

(* The inductive invariant holds in every reachable state.                 *)
THEOREM Invariance == Spec => []IInv
<1>1. Init => IInv
  BY InitInv
<1>2. IInv /\ [Next]_vars => IInv'
  BY NextInv
<1> QED BY <1>1, <1>2, PTL DEF Spec

(* Every variable keeps its type.                                          *)
THEOREM TypeCorrect == Spec => []TypeOK
<1>1. IInv => TypeOK
  BY DEF IInv
<1> QED BY <1>1, Invariance, PTL

(* reserve_peak_to_scan never hands out a peak twice.                      *)
THEOREM ScannedOnce == Spec => []NoPeakScannedTwice
<1>1. IInv => NoPeakScannedTwice
  BY DEF IInv, PoolInv, NoPeakScannedTwice
<1> QED BY <1>1, Invariance, PTL

(* When the threads have been joined every peak has been scanned.          *)
THEOREM JoinComplete == Spec => []JoinedMeansScanned
<1>1. IInv => JoinedMeansScanned
  BY DEF IInv, PoolInv, JoinedMeansScanned
<1> QED BY <1>1, Invariance, PTL

(* No thread tunes while the LNB is on another band or polarisation.       *)
THEOREM LnbAgreement == Spec => []TunedToSelectedLnb
<1>1. IInv => TunedToSelectedLnb
  BY DEF IInv, DishInv, TunedToSelectedLnb, Scanning
<1> QED BY <1>1, Invariance, PTL

(* At most one frontend is the master of the LNB.                          *)
THEOREM SingleMaster == Spec => []OneMaster
<1>1. IInv => OneMaster
  BY DEF IInv, DishInv, OneMaster
<1> QED BY <1>1, Invariance, PTL

(* The LNB is switched only when every thread has been joined: SelectBand  *)
(* is the one action that switches it, and no thread exists there.         *)
THEOREM LnbSwitching == Spec => LnbSwitchedOnlyWhenIdle
<1>1. ASSUME IInv, [Next]_vars
      PROVE  [selected' # selected => \A f \in Frontends : tpc[f] = "none"]_vars
  <2>1. CASE SelectBand
    BY <1>1, <2>1 DEF IInv, ThreadInv, SelectBand
  <2>2. CASE ~SelectBand
    <3>1. selected' = selected
      BY <1>1, <2>2 DEF Next, Main, Task, ScanPeak, Terminated, vars, dishVars, OpenFrontends,
        OpenFails, AcquireSpectrum, ConnectOthers, BandFails, Spawn, Join, CountBand, Close,
        TaskStart, ReservePeak, TaskReturn, PeakSkipped, PeakNotLocked, PeakLocked, SaveInfo,
        TaskFails
    <3> QED BY <3>1
  <2> QED BY <2>1, <2>2
<1> QED BY <1>1, Invariance, PTL DEF Spec, LnbSwitchedOnlyWhenIdle


-------------------------------------------------------------------------------
(* The output file.  A line of the present pass is about a peak that was   *)
(* handed out and that no thread holds any more; the file is open as long  *)
(* as there are threads, and was empty before it was opened.               *)
OfPeakGivenBack(l) ==
  /\ mpc \in {"spawn", "join", "count", "exit"}
  /\ l[2] <= next_to_scan
  /\ \A f \in Frontends : Scanning(f) => peak[f] # l[2]

LineInv ==
  /\ \A l \in lines : l[1] < pass \/ (l[1] = pass /\ OfPeakGivenBack(l))
  /\ mpc \in {"spawn", "join", "count"} => fpout_bs
  /\ ~fpout_bs /\ mpc # "done" => lines = {}
  /\ \A f \in Frontends : Scanning(f) => fpout_bs

Saving == {f \in Frontends : tpc[f] = "save"}

CountInv ==
  /\ IsFiniteSet(lines) /\ IsFiniteSet(Counted)
  /\ Cardinality(lines) + Cardinality(Saving) = Cardinality(Counted)

LEMMA SavingType == IsFiniteSet(Saving) /\ IsFiniteSet(Saving')
<1>1. IsFiniteSet(Frontends)
  BY NumFrontendsAssumption, FS_Interval DEF Frontends
<1>2. Saving \in SUBSET Frontends /\ Saving' \in SUBSET Frontends
  BY DEF Saving
<1> QED BY <1>1, <1>2, FS_Subset

(* The lines keep their place while no peak changes hands.                 *)
LEMMA LineFrame ==
  ASSUME LineInv, mpc # "done", UNCHANGED <<pass, fpout_bs, lines, next_to_scan, peak>>,
         mpc' = mpc \/ mpc' = "exit" \/ (mpc = "spawn" /\ mpc' = "join")
           \/ (mpc = "join" /\ mpc' = "count"),
         \A f \in Frontends : Scanning(f)' => Scanning(f)
  PROVE  LineInv'
<1>1. \A l \in lines : OfPeakGivenBack(l) => OfPeakGivenBack(l)'
  BY DEF OfPeakGivenBack
<1> QED BY <1>1 DEF LineInv

LEMMA LineStep ==
  ASSUME IInv, LineInv, [Next]_vars
  PROVE  LineInv'
<1> USE DEF mainVars, poolVars, fileVars, workerVars, dishVars, PeakLeft, Advanced, LastJoin
<1>1. lines \subseteq Nat \X Nat /\ pass \in Nat /\ next_to_scan \in Nat
  BY DEF IInv, TypeOK
<1>2. CASE OpenFrontends
  BY <1>2 DEF OpenFrontends, LineInv, OfPeakGivenBack, NextPass, Scanning
<1>3. CASE OpenFails \/ BandFails \/ \E f \in Frontends : TaskFails(f)
  <2>1. mpc # "done" /\ mpc' = "exit" /\ UNCHANGED <<pass, fpout_bs, lines, next_to_scan, peak, tpc>>
    BY <1>3 DEF OpenFails, BandFails, TaskFails, Exit, IInv, ThreadInv
  <2> QED BY <2>1, LineFrame DEF Scanning
<1>4. CASE SelectBand \/ AcquireSpectrum
  <2>1. \A l \in lines : l[1] < pass
    BY <1>4 DEF SelectBand, AcquireSpectrum, LineInv, OfPeakGivenBack
  <2>2. /\ mpc \notin {"done"} /\ mpc' \notin {"spawn", "join", "count"}
        /\ UNCHANGED <<pass, fpout_bs, lines, tpc>>
    BY <1>4 DEF SelectBand, AcquireSpectrum
  <2> QED BY <2>1, <2>2 DEF LineInv, Scanning
<1>5. CASE ConnectOthers
  <2>1. \A l \in lines : l[1] < pass
    BY <1>5 DEF ConnectOthers, LineInv, OfPeakGivenBack
  <2>2. fpout_bs' = TRUE /\ lines' = lines /\ pass' = pass
    BY <1>5 DEF ConnectOthers, LinesAfterOpen, LineInv
  <2> QED BY <2>1, <2>2 DEF LineInv
<1>6. CASE Spawn \/ Join
  <2>1. \A f \in Frontends : Scanning(f)' => Scanning(f)
    BY <1>6 DEF Spawn, Join, IInv, TypeOK, Scanning
  <2>2. /\ mpc # "done" /\ UNCHANGED <<pass, fpout_bs, lines, next_to_scan, peak>>
        /\ mpc' = mpc \/ (mpc = "spawn" /\ mpc' = "join") \/ (mpc = "join" /\ mpc' = "count")
    BY <1>6 DEF Spawn, Join
  <2> QED BY <2>1, <2>2, LineFrame
<1>7. CASE CountBand
  <2>1. \A l \in lines : l[1] <= pass
    BY <1>1 DEF LineInv
  <2>2. /\ fpout_bs /\ pass' = pass + 1 /\ mpc' \in {"select", "close"}
        /\ UNCHANGED <<fpout_bs, lines, tpc>>
    BY <1>7 DEF CountBand, NextPass, LineInv
  <2>3. \A l \in lines' : l[1] < pass'
    BY <1>1, <2>1, <2>2
  <2> QED BY <2>2, <2>3 DEF LineInv
<1>8. CASE Close
  <2>1. \A l \in lines : l[1] < pass
    BY <1>8 DEF Close, LineInv, OfPeakGivenBack
  <2>2. \A f \in Frontends : ~Scanning(f)'
    BY <1>8 DEF Close, IInv, ThreadInv, Scanning
  <2> QED BY <1>8, <2>1, <2>2 DEF Close, LineInv
<1>9. ASSUME NEW f \in Frontends,
             TaskStart(f) \/ TaskReturn(f) \/ PeakLocked(f)
      PROVE  LineInv'
  <2>1. \A g \in Frontends : Scanning(g)' => Scanning(g)
    BY <1>9 DEF TaskStart, TaskReturn, PeakLocked, IInv, TypeOK, Scanning
  <2>2. mpc # "done" /\ UNCHANGED <<mpc, pass, fpout_bs, lines, next_to_scan, peak>>
    BY <1>9 DEF TaskStart, TaskReturn, PeakLocked, IInv, ThreadInv
  <2> QED BY <2>1, <2>2, LineFrame
<1>10. ASSUME NEW f \in Frontends, PeakSkipped(f) \/ PeakNotLocked(f) \/ SaveInfo(f)
       PROVE  LineInv'
  <2>1. /\ mpc \in {"spawn", "join"} /\ mpc' = mpc /\ Scanning(f) /\ tpc'[f] = "reserve"
        /\ UNCHANGED <<pass, fpout_bs, next_to_scan>>
        /\ lines' = lines \/ lines' = lines \cup {<<pass, peak[f]>>}
    BY <1>10 DEF PeakSkipped, PeakNotLocked, SaveInfo, IInv, TypeOK, ThreadInv, Running, Scanning
  <2>2. /\ ~Scanning(f)'
        /\ \A g \in Frontends \ {f} : peak'[g] = peak[g] /\ (Scanning(g)' => Scanning(g))
    BY <1>10, <2>1 DEF PeakSkipped, PeakNotLocked, SaveInfo, IInv, TypeOK, Scanning
  <2> DEFINE number == peak[f]
  <2>3. number <= next_to_scan /\ \A g \in Frontends \ {f} : Scanning(g) => peak[g] # number
    BY <2>1 DEF IInv, PoolInv
  <2> HIDE DEF number
  <2>4. ASSUME NEW l \in lines'
        PROVE  l[1] < pass \/ (l[1] = pass /\ OfPeakGivenBack(l)')
    <3>1. CASE l \in lines
      BY <2>1, <2>2, <3>1 DEF LineInv, OfPeakGivenBack
    <3>2. CASE l = <<pass, number>>
      BY <2>1, <2>2, <2>3, <3>2 DEF OfPeakGivenBack
    <3> QED BY <2>1, <3>1, <3>2 DEF number
  <2> QED BY <2>1, <2>4 DEF LineInv
<1>11. ASSUME NEW f \in Frontends, ReservePeak(f)
       PROVE  LineInv'
  <2>1. /\ mpc \in {"spawn", "join"} /\ mpc' = mpc /\ next_to_scan' = next_to_scan + 1
        /\ UNCHANGED <<pass, fpout_bs, lines>>
    BY <1>11 DEF ReservePeak, IInv, TypeOK, ThreadInv, Running
  <2>2. /\ peak'[f] = next_to_scan + 1
        /\ \A g \in Frontends \ {f} : peak'[g] = peak[g] /\ (Scanning(g)' => Scanning(g))
    BY <1>11 DEF ReservePeak, IInv, TypeOK, Scanning
  <2>3. ASSUME NEW l \in lines, OfPeakGivenBack(l)
        PROVE  OfPeakGivenBack(l)'
    BY <1>1, <2>1, <2>2, <2>3 DEF OfPeakGivenBack
  <2> QED BY <2>1, <2>3 DEF LineInv
<1>12. CASE Terminated \/ UNCHANGED vars
  BY <1>12 DEF Terminated, vars, LineInv, OfPeakGivenBack, Scanning
<1> QED BY <1>2, <1>3, <1>4, <1>5, <1>6, <1>7, <1>8, <1>9, <1>10, <1>11, <1>12
        DEF Next, Main, Task, ScanPeak

(* A line is written once for each lock that is counted.                   *)
LEMMA CountStep ==
  ASSUME IInv, LineInv, CountInv, [Next]_vars
  PROVE  CountInv'
<1> USE DEF mainVars, poolVars, fileVars, workerVars, dishVars
<1>1. CASE \E f \in Frontends : PeakLocked(f)
  <2>1. PICK f \in Frontends : PeakLocked(f)
    BY <1>1
  <2> DEFINE new == <<f, fe_locked[f] + 1>>
  <2>2. fe_locked \in [Frontends -> Nat] /\ tpc[f] # "save" /\ lines' = lines
    BY <2>1 DEF PeakLocked, IInv, TypeOK
  <2>3. /\ fe_locked'[f] = fe_locked[f] + 1
        /\ \A g \in Frontends \ {f} : fe_locked'[g] = fe_locked[g]
    BY <2>1, <2>2 DEF PeakLocked
  <2>4. 1 .. fe_locked'[f] = (1 .. fe_locked[f]) \cup {fe_locked[f] + 1}
    BY <2>2, <2>3
  <2>5. Counted' = Counted \cup {new} /\ new \notin Counted
    BY <2>2, <2>3, <2>4 DEF Counted
  <2>6. Saving' = Saving \cup {f} /\ f \notin Saving
    BY <2>1, <2>2 DEF PeakLocked, Saving, IInv, TypeOK
  <2> HIDE DEF new
  <2>7. /\ Cardinality(Counted') = Cardinality(Counted) + 1 /\ IsFiniteSet(Counted')
        /\ Cardinality(Saving') = Cardinality(Saving) + 1
    BY <2>5, <2>6, SavingType, FS_AddElement DEF CountInv
  <2>8. Cardinality(lines) \in Nat /\ Cardinality(Saving) \in Nat
    BY SavingType, FS_CardinalityType DEF CountInv
  <2> QED BY <2>2, <2>7, <2>8 DEF CountInv
<1>2. CASE \E f \in Frontends : SaveInfo(f)
  <2>1. PICK f \in Frontends : SaveInfo(f)
    BY <1>2
  <2> DEFINE new == <<pass, peak[f]>>
  <2>2. Scanning(f) /\ lines' = lines \cup {new} /\ fe_locked' = fe_locked
    BY <2>1 DEF SaveInfo, Scanning
  <2>3. new \notin lines
    BY <2>2 DEF LineInv, OfPeakGivenBack, IInv, TypeOK
  <2>4. Saving' = Saving \ {f} /\ f \in Saving
    BY <2>1 DEF SaveInfo, Saving, IInv, TypeOK
  <2> HIDE DEF new
  <2>5. /\ Cardinality(lines') = Cardinality(lines) + 1 /\ IsFiniteSet(lines')
        /\ Cardinality(Saving') = Cardinality(Saving) - 1
    BY <2>2, <2>3, <2>4, SavingType, FS_AddElement, FS_RemoveElement DEF CountInv
  <2>6. Cardinality(lines) \in Nat /\ Cardinality(Saving) \in Nat
    BY SavingType, FS_CardinalityType DEF CountInv
  <2>7. Counted' = Counted
    BY <2>2 DEF Counted
  <2> QED BY <2>5, <2>6, <2>7 DEF CountInv
<1>3. CASE ~(\E f \in Frontends : PeakLocked(f) \/ SaveInfo(f))
  <2>1. lines' = lines
    BY <1>3 DEF Next, Main, Task, ScanPeak, Terminated, vars, OpenFrontends, OpenFails, SelectBand,
      AcquireSpectrum, ConnectOthers, LinesAfterOpen, LineInv, BandFails, Spawn, Join, CountBand,
      Close, TaskStart, ReservePeak, TaskReturn, PeakSkipped, PeakNotLocked, TaskFails
  <2>2. fe_locked' = fe_locked
    BY <1>3 DEF Next, Main, Task, ScanPeak, Terminated, vars, OpenFrontends, OpenFails, SelectBand,
      AcquireSpectrum, ConnectOthers, BandFails, Spawn, Join, CountBand, Close, TaskStart,
      ReservePeak, TaskReturn, PeakSkipped, PeakNotLocked, TaskFails
  <2>3. Saving' = Saving
    <3>1. CASE Spawn \/ Join
      <4>1. tpc[next] # "save"
        BY <3>1 DEF Spawn, Join, IInv, ThreadInv, TypeOK, Frontends
      <4> QED BY <3>1, <4>1 DEF Spawn, Join, IInv, TypeOK, Saving
    <3>2. CASE \E f \in Frontends : TaskStart(f) \/ ReservePeak(f) \/ TaskReturn(f)
      BY <3>2 DEF TaskStart, ReservePeak, TaskReturn, IInv, TypeOK, Saving
    <3>3. CASE \E f \in Frontends : PeakSkipped(f) \/ PeakNotLocked(f)
      BY <3>3 DEF PeakSkipped, PeakNotLocked, IInv, TypeOK, Saving
    <3>4. CASE tpc' = tpc
      BY <3>4 DEF Saving
    <3> QED
      BY <1>3, <3>1, <3>2, <3>3, <3>4 DEF Next, Main, Task, ScanPeak, Terminated, vars,
        OpenFrontends, OpenFails, SelectBand, AcquireSpectrum, ConnectOthers, BandFails, CountBand,
        Close, TaskFails
  <2> QED BY <2>1, <2>2, <2>3 DEF CountInv, Counted
<1> QED BY <1>1, <1>2, <1>3

(* Over all passes the file has a line for every lock the frontends have   *)
(* counted, but for those that a thread is about to write, and the file is *)
(* open for these.                                                         *)
THEOREM LocksAreSaved == Spec => []EveryLockSaved
<1>1. Init => LineInv /\ CountInv
  <2> SUFFICES ASSUME Init PROVE LineInv /\ CountInv
    OBVIOUS
  <2>1. lines = {} /\ Saving = {} /\ Counted = {}
    BY DEF Init, Saving, Counted
  <2> QED BY <2>1, FS_EmptySet DEF Init, LineInv, CountInv, Scanning
<1>2. IInv /\ LineInv /\ CountInv /\ [Next]_vars => (LineInv /\ CountInv)'
  BY LineStep, CountStep
<1>3. LineInv /\ CountInv => EveryLockSaved
  <2> SUFFICES ASSUME LineInv, CountInv PROVE EveryLockSaved
    OBVIOUS
  <2>1. Saving # {} => fpout_bs
    BY DEF LineInv, Saving, Scanning
  <2> QED BY <2>1 DEF CountInv, EveryLockSaved, Saving
<1> QED BY <1>1, <1>2, <1>3, Invariance, PTL DEF Spec

-------------------------------------------------------------------------------
(* The spectrum files.  A pass adds to the file whenever an earlier one is *)
(* of its polarisation.                                                    *)
LaterAppends(passes) ==
  \A i, j \in 1 .. Len(passes) : i < j /\ passes[i].pol = passes[j].pol => passes[j].append

(* The bands of a polarisation in the passes up to n.                      *)
BandsUpTo(n, p) == {plan[i].band : i \in {j \in 1 .. Len(plan) : j <= n /\ plan[j].pol = p}}

(* The last pass whose spectrum has been acquired.                         *)
LastAcquired == IF mpc \in {"connect", "spawn", "join", "count"} THEN pass ELSE pass - 1

FileInv ==
  /\ LaterAppends(plan)
  /\ mpc # "exit" => \A p \in {H, V} : spectrum_file[p] \subseteq BandsUpTo(LastAcquired, p)

(* Two lists of passes, one after the other.                               *)
LEMMA ConcatAppends ==
  ASSUME NEW a \in Seq(Passes), NEW b \in Seq(Passes), LaterAppends(a), LaterAppends(b),
         \A i \in 1 .. Len(a), j \in 1 .. Len(b) : a[i].pol = b[j].pol => b[j].append
  PROVE  LaterAppends(a \o b)
<1> DEFINE c == a \o b
<1>1. /\ Len(a) \in Nat /\ Len(b) \in Nat /\ Len(c) = Len(a) + Len(b)
      /\ \A i \in 1 .. Len(a) : c[i] = a[i]
      /\ \A i \in (Len(a) + 1) .. Len(c) : i - Len(a) \in 1 .. Len(b) /\ c[i] = b[i - Len(a)]
  OBVIOUS
<1> HIDE DEF c
<1>2. SUFFICES ASSUME NEW i \in 1 .. Len(c), NEW j \in 1 .. Len(c), i < j, c[i].pol = c[j].pol
               PROVE  c[j].append
  BY DEF LaterAppends, c
<1>3. CASE j <= Len(a)
  <2>1. i \in 1 .. Len(a) /\ j \in 1 .. Len(a)
    BY <1>1, <1>2, <1>3
  <2> QED BY <2>1, <1>1, <1>2 DEF LaterAppends
<1>4. CASE i > Len(a)
  <2>1. i \in (Len(a) + 1) .. Len(c) /\ j \in (Len(a) + 1) .. Len(c)
    BY <1>1, <1>2, <1>4
  <2>2. i - Len(a) < j - Len(a)
    BY <1>1, <1>2
  <2> QED BY <2>1, <2>2, <1>1, <1>2 DEF LaterAppends
<1>5. CASE i <= Len(a) /\ Len(a) < j
  <2>1. i \in 1 .. Len(a) /\ j \in (Len(a) + 1) .. Len(c)
    BY <1>1, <1>2, <1>5
  <2> QED BY <2>1, <1>1, <1>2
<1> QED BY <1>1, <1>3, <1>4, <1>5

(* A polarisation has a pass that creates its file, and at most a second   *)
(* one, which appends: the high band after the low band.                   *)
LEMMA PolPassesAppend ==
  ASSUME NEW pols, NEW p \in {H, V}, NEW start \in Int, NEW end \in Int
  PROVE  /\ LaterAppends(PolPasses(pols, p, start, end))
         /\ \A i \in 1 .. Len(PolPasses(pols, p, start, end)) :
              PolPasses(pols, p, start, end)[i].pol = p
<1> DEFINE low == LowPass(p, start, end)
           high == HighPass(p, start, end)
<1>1. CASE p \notin pols
  <2>1. PolPasses(pols, p, start, end) = << >>
    BY <1>1 DEF PolPasses
  <2> QED BY <2>1 DEF LaterAppends
<1>2. CASE p \in pols
  <2>1. PolPasses({p}, p, start, end) = low \o high /\ PolPasses(pols, p, start, end) = low \o high
    BY <1>2 DEF PolPasses
  <2>2. low = << >> \/ (start < lnb_universal_slof /\ Len(low) = 1 /\ low[1].pol = p)
    BY DEF LowPass
  <2>3. high = << >> \/ (Len(high) = 1 /\ high[1].pol = p /\ high[1].append = Appends(start))
    BY DEF HighPass
  <2>4. low \in Seq(Passes) /\ high \in Seq(Passes)
    BY LowHighType
  <2>5. Len(low) \in {0, 1} /\ Len(high) \in {0, 1}
    BY <2>2, <2>3
  <2>6. LaterAppends(low) /\ LaterAppends(high)
    BY <2>5 DEF LaterAppends
  <2>7. \A i \in 1 .. Len(low), j \in 1 .. Len(high) : high[j].append
    <3> HIDE DEF low, high
    <3> SUFFICES ASSUME NEW i \in 1 .. Len(low), NEW j \in 1 .. Len(high) PROVE high[j].append
      OBVIOUS
    <3>1. start < lnb_universal_slof
      BY <2>2
    <3>2. j = 1 /\ high # << >>
      <4>1. Len(high) \in {0, 1} /\ (high = << >> => Len(high) = 0)
        BY <2>3
      <4> QED BY <4>1
    <3>3. high[1].append = Appends(start)
      BY <3>2, <2>3
    <3> QED BY <3>1, <3>2, <3>3 DEF Appends
  <2> HIDE DEF low, high
  <2>8. LaterAppends(low \o high)
    BY <2>4, <2>6, <2>7, ConcatAppends
  <2>9. \A i \in 1 .. Len(low \o high) : (low \o high)[i].pol = p
    BY <2>2, <2>3, <2>4
  <2> QED BY <2>1, <2>8, <2>9
<1> QED BY <1>1, <1>2

(* No file is created twice in one scan.                                   *)
LEMMA PlanAppends ==
  ASSUME NEW r \in Requests
  PROVE  LET range == ScanRange(r.sys, r.lnb, r.start, r.end)
         IN  LaterAppends(Plan(r.pols, range[1], range[2]))
<1> DEFINE range == ScanRange(r.sys, r.lnb, r.start, r.end)
<1>1. range[1] \in Int /\ range[2] \in Int
  BY RequestsAssumption, SMT DEF ScanRange, StartFreq, EndFreq
<1> HIDE DEF range
<1> DEFINE a == PolPasses(r.pols, H, range[1], range[2])
           b == PolPasses(r.pols, V, range[1], range[2])
<1>2. a \in Seq(Passes) /\ b \in Seq(Passes)
  BY <1>1, PolPassesType
<1>3. /\ LaterAppends(a) /\ \A i \in 1 .. Len(a) : a[i].pol = H
      /\ LaterAppends(b) /\ \A i \in 1 .. Len(b) : b[i].pol = V
  BY <1>1, PolPassesAppend
<1> HIDE DEF a, b
<1>4. LaterAppends(a \o b)
  BY <1>2, <1>3, ConcatAppends DEF H, V
<1> QED BY <1>4 DEF Plan, range, a, b

(* A step that takes nothing out of the files.                             *)
FilesGrow == \A p \in {H, V} : spectrum_file[p] \subseteq spectrum_file'[p]

(* What acquiring a spectrum makes of the file of its polarisation: that    *)
(* loses nothing, for if the pass creates the file there was no pass of     *)
(* its polarisation before, and nothing is in it.                          *)
LEMMA AcquireFile ==
  ASSUME TypeOK, PassInv, FileInv, AcquireSpectrum
  PROVE  FileInv' /\ FilesGrow
<1> DEFINE pol == plan[pass].pol
           old == IF plan[pass].append THEN spectrum_file[pol] ELSE {}
<1>1. /\ pass \in 1 .. Len(plan) /\ pass \in Nat /\ Len(plan) \in Nat /\ plan[pass] \in Passes
      /\ pol \in {H, V} /\ LastAcquired = pass - 1 /\ LastAcquired' = pass
  <2>1. pass \in Nat \ {0} /\ Len(plan) \in Nat /\ pass <= Len(plan)
    BY DEF TypeOK, PassInv, InBandScan, AcquireSpectrum
  <2>2. plan[pass] \in Passes
    BY <2>1 DEF TypeOK
  <2>3. LastAcquired = pass - 1 /\ LastAcquired' = pass
    BY DEF AcquireSpectrum, LastAcquired
  <2> QED BY <2>1, <2>2, <2>3 DEF Passes
<1>2. \A p \in {H, V} : spectrum_file[p] \subseteq BandsUpTo(pass - 1, p)
  BY <1>1 DEF FileInv, AcquireSpectrum
<1>3. old = spectrum_file[pol]
  <2>1. CASE ~plan[pass].append
    <3>1. {j \in 1 .. Len(plan) : j <= pass - 1 /\ plan[j].pol = pol} = {}
      BY <2>1, <1>1 DEF FileInv, LaterAppends
    <3>2. BandsUpTo(pass - 1, pol) = {}
      BY <3>1 DEF BandsUpTo
    <3> QED BY <3>2, <2>1, <1>1, <1>2
  <2> QED BY <2>1
<1>4. \A p \in {H, V} : BandsUpTo(pass - 1, p) \subseteq BandsUpTo(pass, p)
  <2>1. ASSUME NEW p \in {H, V}
        PROVE  {j \in 1 .. Len(plan) : j <= pass - 1 /\ plan[j].pol = p}
                 \subseteq {j \in 1 .. Len(plan) : j <= pass /\ plan[j].pol = p}
    BY <1>1
  <2> QED BY <2>1 DEF BandsUpTo
<1>5. plan[pass].band \in BandsUpTo(pass, pol)
  BY <1>1 DEF BandsUpTo
<1>6. \A p \in {H, V} :
        /\ spectrum_file[p] \subseteq spectrum_file'[p]
        /\ spectrum_file'[p] \subseteq BandsUpTo(pass, p)
  <2>1. CASE UNCHANGED spectrum_file
    BY <2>1, <1>2, <1>4
  <2>2. ASSUME NEW written \in SUBSET {plan[pass].band},
               spectrum_file' = [spectrum_file EXCEPT ![pol] = old \cup written]
        PROVE  \A p \in {H, V} : /\ spectrum_file[p] \subseteq spectrum_file'[p]
                                 /\ spectrum_file'[p] \subseteq BandsUpTo(pass, p)
    <3>1. spectrum_file'[pol] = spectrum_file[pol] \cup written
      BY <2>2, <1>1, <1>3 DEF TypeOK
    <3>2. \A p \in {H, V} : p # pol => spectrum_file'[p] = spectrum_file[p]
      BY <2>2, <1>1 DEF TypeOK
    <3>3. written \subseteq BandsUpTo(pass, pol)
      BY <1>5
    <3> QED BY <3>1, <3>2, <3>3, <1>1, <1>2, <1>4
  <2> QED BY <2>1, <2>2 DEF AcquireSpectrum, save_spectrum
<1>7. \A n, p : BandsUpTo(n, p)' = BandsUpTo(n, p)
  BY DEF BandsUpTo, AcquireSpectrum
<1>8. \A p \in {H, V} : spectrum_file'[p] \subseteq BandsUpTo(LastAcquired, p)'
  BY <1>1, <1>6, <1>7
<1> QED BY <1>6, <1>8 DEF FileInv, FilesGrow, AcquireSpectrum, LaterAppends

(* What keeps the plan, the files and the number of passes acquired keeps   *)
(* the invariant.                                                          *)
LEMMA FileFrame ==
  ASSUME FileInv, plan' = plan, spectrum_file' = spectrum_file, mpc # "exit",
         mpc' = "exit" \/ LastAcquired' = LastAcquired
  PROVE  FileInv' /\ FilesGrow
BY DEF FileInv, FilesGrow, LaterAppends, BandsUpTo

(* Every step leaves in the spectrum files what they hold.                 *)
LEMMA FileStep ==
  ASSUME TypeOK, PassInv, FileInv, [Next]_vars
  PROVE  FileInv' /\ FilesGrow
<1> USE DEF mainVars, fileVars
<1>1. CASE OpenFrontends
  BY <1>1, FileFrame DEF OpenFrontends, LastAcquired, NextPass
<1>2. CASE OpenFails \/ BandFails \/ \E f \in Frontends : TaskFails(f)
  BY <1>2, FileFrame DEF OpenFails, BandFails, TaskFails, Exit, Running
<1>3. CASE SelectBand
  BY <1>3, FileFrame DEF SelectBand, LastAcquired
<1>4. CASE AcquireSpectrum
  BY <1>4, AcquireFile
<1>5. CASE ConnectOthers
  BY <1>5, FileFrame DEF ConnectOthers, LastAcquired
<1>6. CASE Spawn
  BY <1>6, FileFrame DEF Spawn, LastAcquired
<1>7. CASE Join
  BY <1>7, FileFrame DEF Join, LastAcquired
<1>8. CASE CountBand
  <2>1. plan' = plan /\ spectrum_file' = spectrum_file /\ LastAcquired' = LastAcquired
    BY <1>8 DEF CountBand, LastAcquired, NextPass, TypeOK
  <2> QED BY <2>1, <1>8, FileFrame DEF CountBand
<1>9. CASE Close
  BY <1>9, FileFrame DEF Close, LastAcquired
<1>10. ASSUME NEW f \in Frontends,
              \/ TaskStart(f) \/ ReservePeak(f) \/ TaskReturn(f) \/ PeakSkipped(f)
              \/ PeakNotLocked(f) \/ PeakLocked(f) \/ SaveInfo(f)
       PROVE  FileInv' /\ FilesGrow
  <2>1. mpc # "exit" /\ UNCHANGED <<plan, spectrum_file, mpc, pass>>
    BY <1>10 DEF TaskStart, ReservePeak, TaskReturn, PeakSkipped, PeakNotLocked, PeakLocked,
                 SaveInfo, Running
  <2> QED BY <2>1, FileFrame DEF LastAcquired
<1>11. CASE Terminated \/ UNCHANGED vars
  <2>1. UNCHANGED <<plan, spectrum_file, mpc, pass>>
    BY <1>11 DEF Terminated, vars
  <2> QED BY <2>1 DEF FileInv, FilesGrow, LaterAppends, BandsUpTo, LastAcquired
<1> QED BY <1>1, <1>2, <1>3, <1>4, <1>5, <1>6, <1>7, <1>8, <1>9, <1>10, <1>11
        DEF Next, Main, Task, ScanPeak

(* Whatever spectra are acquired and whichever files can be opened, no pass *)
(* wipes out what an earlier pass of the scan has written: save_spectrum    *)
(* creates a file only where no pass of its polarisation has come before.  *)
THEOREM SpectrumKeptEver == Spec => SpectrumKept
<1>1. Init => FileInv
  <2> SUFFICES ASSUME Init PROVE FileInv
    OBVIOUS
  <2>1. LaterAppends(plan)
    BY PlanAppends DEF Init
  <2>2. \A p \in {H, V} : spectrum_file[p] = {}
    BY DEF Init
  <2> QED BY <2>1, <2>2 DEF FileInv
<1>2. TypeOK /\ PassInv /\ FileInv /\ [Next]_vars => FileInv'
  BY FileStep
<1>3. TypeOK /\ PassInv /\ FileInv /\ [Next]_vars
        => [\A p \in {H, V} : spectrum_file[p] \subseteq spectrum_file'[p]]_vars
  BY FileStep DEF FilesGrow
<1> QED BY <1>1, <1>2, <1>3, Invariance, PTL DEF Spec, IInv, SpectrumKept

-------------------------------------------------------------------------------
(* The pool of threads implements ScanContract.                            *)

(* The abstract state depends on these variables only.                     *)
LEMMA SameBars ==
  ASSUME num_spectral_peaks' = num_spectral_peaks, next_to_scan' = next_to_scan,
         peak' = peak, scans' = scans, todoBar' = todoBar, stateBar' = stateBar,
         Running' = Running
  PROVE  UNCHANGED Contract!vars
BY DEF Contract!vars, busyBar, finishedBar

(* No peak is announced, and none is being scanned, while no thread exists. *)
LEMMA IdleBars ==
  ASSUME IInv, mpc \notin {"connect", "spawn", "join", "exit"}
  PROVE  todoBar = {} /\ busyBar = {}
<1>1. \A f \in Frontends : peak[f] = 0
  BY DEF IInv, TypeOK, ThreadInv, PoolInv, Scanning
<1> QED BY <1>1 DEF todoBar, busyBar

(* exit(1) in any thread is Abort.                                         *)
LEMMA ExitAborts ==
  ASSUME mpc # "done", Running, mpc' = "exit", peak' = peak, scans' = scans
  PROVE  Contract!Abort
BY DEF Contract!Abort, todoBar, busyBar, finishedBar, stateBar, Running

(* A thread that gives its peak back finishes it.                          *)
LEMMA GiveBack ==
  ASSUME IInv, NEW f \in Frontends, Running, Scanning(f),
         peak' = [peak EXCEPT ![f] = 0], UNCHANGED <<mpc, next_to_scan, num_spectral_peaks, scans>>
  PROVE  Contract!Work
<1> DEFINE i == peak[f]
<1>1. i \in 1 .. MaxPeaks /\ scans[i] \in Nat /\ scans[i] > 0
  <2>1. i \in 1 .. MaxPeaks /\ i <= next_to_scan
    BY MaxPeaksAssumption DEF IInv, TypeOK, PoolInv
  <2>2. mpc \in {"spawn", "join"}
    BY DEF IInv, TypeOK, ThreadInv, Scanning, Running
  <2> QED BY <2>1, <2>2 DEF IInv, PoolInv, TypeOK
<1>2. \A g \in Frontends : g # f => peak[g] # i /\ peak'[g] = peak[g]
  BY DEF IInv, PoolInv, TypeOK
<1>3. peak'[f] = 0
  BY DEF IInv, TypeOK
<1> HIDE DEF i
<1>4. i \in busyBar
  BY <1>1 DEF busyBar, i
<1>5. busyBar' = busyBar \ {i}
  BY <1>1, <1>2, <1>3 DEF busyBar, Running, i
<1>6. finishedBar' = finishedBar \cup {i}
  BY <1>1, <1>2, <1>3 DEF finishedBar, i
<1>7. todoBar' = todoBar /\ stateBar' = stateBar /\ stateBar = "scanning"
  BY DEF todoBar, stateBar, IInv, ThreadInv, Scanning, Running
<1>8. Contract!Finish(i)
  BY <1>4, <1>5, <1>6, <1>7 DEF Contract!Finish
<1> QED BY <1>1, <1>8 DEF Contract!Work

(* Every step of the program is a step of the contract, or a stutter.      *)
LEMMA StepRefines ==
  ASSUME IInv, [Next]_vars
  PROVE  [Contract!Next]_(Contract!vars)
<1> USE DEF mainVars, poolVars, workerVars, PeakLeft, Advanced, LastJoin
<1>1. CASE OpenFrontends
  <2>1. CASE mpc' = "exit"
    BY <1>1, <2>1, ExitAborts DEF OpenFrontends, Running, Contract!Next
  <2>2. CASE mpc' # "exit"
    BY <1>1, <2>2, SameBars DEF OpenFrontends, NextPass, todoBar, stateBar, Running
  <2> QED BY <2>1, <2>2
<1>2. CASE OpenFails \/ BandFails \/ \E f \in Frontends : TaskFails(f)
  <2>1. mpc # "done" /\ Running /\ mpc' = "exit" /\ peak' = peak /\ scans' = scans
    BY <1>2 DEF OpenFails, BandFails, TaskFails, Exit, Running, IInv, ThreadInv
  <2> QED BY <2>1, ExitAborts DEF Contract!Next
<1>3. CASE SelectBand
  <2>1. todoBar = {} /\ busyBar = {}
    BY <1>3, IdleBars DEF SelectBand
  <2>2. todoBar' = {} /\ busyBar' = busyBar /\ finishedBar' = finishedBar /\ stateBar' = stateBar
    BY <1>3 DEF SelectBand, todoBar, busyBar, finishedBar, stateBar, Running
  <2> QED BY <2>1, <2>2 DEF Contract!vars
<1>4. CASE AcquireSpectrum
  <2>1. todoBar = {} /\ busyBar = {} /\ stateBar = "scanning"
    BY <1>4, IdleBars DEF AcquireSpectrum, stateBar
  <2>2. busyBar' = busyBar /\ stateBar' = stateBar
    BY <1>4 DEF AcquireSpectrum, busyBar, stateBar, Running
  <2>3. finishedBar' = {}
    BY <1>4 DEF AcquireSpectrum, finishedBar
  <2>4. todoBar' = 1 .. num_spectral_peaks' /\ num_spectral_peaks' \in 0 .. MaxPeaks
    BY <1>4 DEF AcquireSpectrum, todoBar, IInv, PoolInv, TypeOK
  <2>5. Contract!Announce
    BY <2>1, <2>2, <2>3, <2>4 DEF Contract!Announce, Contract!Idle
  <2> QED BY <2>5 DEF Contract!Next
<1>5. CASE ConnectOthers
  BY <1>5, SameBars DEF ConnectOthers, todoBar, stateBar, Running
<1>6. CASE Spawn
  BY <1>6, SameBars DEF Spawn, todoBar, stateBar, Running
<1>7. CASE Join
  <2>1. mpc' = "count" => (next_to_scan + 1) .. num_spectral_peaks = {}
    BY <1>7 DEF Join, IInv, PoolInv, TypeOK
  <2> QED BY <1>7, <2>1, SameBars DEF Join, todoBar, stateBar, Running
<1>8. CASE CountBand
  BY <1>8, SameBars DEF CountBand, NextPass, todoBar, stateBar, Running
<1>9. CASE Close
  <2>1. todoBar = {} /\ busyBar = {} /\ stateBar = "scanning"
    BY <1>9, IdleBars DEF Close, stateBar
  <2>2. todoBar' = todoBar /\ busyBar' = busyBar /\ finishedBar' = finishedBar /\ stateBar' = "ended"
    BY <1>9 DEF Close, todoBar, busyBar, finishedBar, stateBar, Running
  <2>3. Contract!End
    BY <2>1, <2>2 DEF Contract!End, Contract!Idle
  <2> QED BY <2>3 DEF Contract!Next
<1>10. CASE \E f \in Frontends : TaskStart(f) \/ TaskReturn(f) \/ PeakLocked(f)
  <2>1. UNCHANGED <<mpc, num_spectral_peaks, next_to_scan, peak, scans>>
    BY <1>10 DEF TaskStart, TaskReturn, PeakLocked
  <2> QED BY <2>1, SameBars DEF todoBar, stateBar, Running
<1>11. ASSUME NEW f \in Frontends, ReservePeak(f)
       PROVE  Contract!Next
  <2> DEFINE i == next_to_scan + 1
  <2>1. /\ mpc \in {"spawn", "join"} /\ mpc' = mpc
        /\ num_spectral_peaks' = num_spectral_peaks /\ next_to_scan' = i
    BY <1>11 DEF ReservePeak, IInv, TypeOK, ThreadInv, Running
  <2>2. i \in 1 .. MaxPeaks /\ i \in Nat /\ i <= num_spectral_peaks
    BY <1>11, MaxPeaksAssumption DEF ReservePeak, IInv, TypeOK
  <2>3. i \in todoBar /\ todoBar' = todoBar \ {i}
    <3>1. todoBar = i .. num_spectral_peaks /\ todoBar' = (i + 1) .. num_spectral_peaks
      BY <2>1 DEF todoBar
    <3>2. i \in Nat /\ num_spectral_peaks \in Nat /\ i <= num_spectral_peaks
      BY <2>2 DEF IInv, TypeOK
    <3> HIDE DEF i
    <3> QED BY <3>1, <3>2
  <2>4. peak'[f] = i /\ peak[f] = 0 /\ \A g \in Frontends \ {f} : peak'[g] = peak[g]
    BY <1>11, <2>1 DEF ReservePeak, IInv, TypeOK, PoolInv, Scanning
  <2>5. \A g \in Frontends : peak[g] # i
    <3>1. \A g \in Frontends : peak[g] \in Nat /\ peak[g] <= next_to_scan
      BY DEF IInv, TypeOK, PoolInv
    <3>2. next_to_scan \in Nat
      BY DEF IInv, TypeOK
    <3> QED BY <3>1, <3>2
  <2>6. scans[i] = 0 /\ scans'[i] = 1 /\ \A j \in (1 .. MaxPeaks) \ {i} : scans'[j] = scans[j]
    BY <1>11, <2>1, <2>2 DEF ReservePeak, IInv, TypeOK, PoolInv
  <2> HIDE DEF i
  <2>7. busyBar' = busyBar \cup {i}
    BY <2>1, <2>2, <2>4 DEF busyBar, Running
  <2>8. finishedBar' = finishedBar
    <3>1. i \notin finishedBar /\ i \notin finishedBar'
      BY <2>2, <2>4, <2>6 DEF finishedBar
    <3>2. ASSUME NEW j \in (1 .. MaxPeaks) \ {i}
          PROVE  j \in finishedBar' <=> j \in finishedBar
      BY <2>2, <2>4, <2>6, <3>2 DEF finishedBar
    <3>3. finishedBar \subseteq 1 .. MaxPeaks /\ finishedBar' \subseteq 1 .. MaxPeaks
      BY DEF finishedBar
    <3>4. \A j \in 1 .. MaxPeaks : j \in finishedBar' <=> j \in finishedBar
      BY <3>1, <3>2
    <3> QED BY <3>3, <3>4, Zenon
  <2>9. stateBar = "scanning" /\ stateBar' = "scanning"
    BY <2>1 DEF stateBar
  <2>10. Contract!Claim(i)
    BY <2>3, <2>7, <2>8, <2>9 DEF Contract!Claim
  <2> QED BY <2>2, <2>10 DEF Contract!Next, Contract!Work
<1>12. ASSUME NEW f \in Frontends, PeakSkipped(f) \/ PeakNotLocked(f) \/ SaveInfo(f)
       PROVE  Contract!Next
  <2>1. /\ Running /\ Scanning(f) /\ peak' = [peak EXCEPT ![f] = 0]
        /\ UNCHANGED <<mpc, next_to_scan, num_spectral_peaks, scans>>
    BY <1>12 DEF PeakSkipped, PeakNotLocked, SaveInfo, Scanning
  <2> QED BY <2>1, GiveBack DEF Contract!Next
<1>13. CASE Terminated \/ UNCHANGED vars
  <2>1. UNCHANGED <<mpc, num_spectral_peaks, next_to_scan, peak, scans>>
    BY <1>13 DEF Terminated, vars
  <2> QED BY <2>1, SameBars DEF todoBar, stateBar, Running
<1> QED BY <1>1, <1>2, <1>3, <1>4, <1>5, <1>6, <1>7, <1>8, <1>9, <1>10, <1>11, <1>12, <1>13
        DEF Next, Main, Task, ScanPeak

(* The threads, the mutex and the shared vector implement the contract.    *)
THEOREM Refinement == Spec => Contract!Spec
<1>1. Init => Contract!Init
  <2> SUFFICES ASSUME Init PROVE Contract!Init
    OBVIOUS
  <2>1. mpc = "open" /\ \A i \in 1 .. MaxPeaks : scans[i] = 0
    BY DEF Init
  <2>2. IInv
    BY InitInv
  <2> QED BY <2>1, <2>2, IdleBars DEF Contract!Init, finishedBar, stateBar
<1>2. IInv /\ [Next]_vars => [Contract!Next]_(Contract!vars)
  BY StepRefines
<1> QED BY <1>1, <1>2, Invariance, PTL DEF Spec, Contract!Spec

===============================================================================
