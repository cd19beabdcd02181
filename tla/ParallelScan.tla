----------------------------- MODULE ParallelScan -----------------------------
(***************************************************************************)
(* The parallel blindscan of stid135-blindscan.  The main thread           *)
(* (scanner_t::scan and scan_band) goes through the passes of the plan: it *)
(* selects band and polarisation with the spectrum frontend, acquires the  *)
(* spectrum, starts one task thread per frontend and joins them all.  The  *)
(* threads (frontend_t::task) take the spectral peaks one by one from the  *)
(* shared vector and scan them.                                            *)
(*                                                                         *)
(* The scan of one peak is abstracted here to the outcome it may have;     *)
(* PeakTuning models it in full.  Selecting the LNB is abstracted to the   *)
(* band and polarisation asked for; SecControl models it in full.          *)
(***************************************************************************)
EXTENDS ScanPlan, FiniteSets
LOCAL INSTANCE FiniteSetsExt

CONSTANTS
  NumFrontends,   \* how many adapters are given on the command line
  MaxPeaks,       \* bound on the peaks the driver finds in one pass
  Requests        \* the command lines: records of sys, lnb, pols, start, end

ASSUME NumFrontendsAssumption == NumFrontends \in Nat \ {0}
ASSUME MaxPeaksAssumption     == MaxPeaks \in Nat
ASSUME RequestsAssumption     ==
  Requests \subseteq [sys: DeliverySystems, lnb: LnbTypes, pols: SUBSET {H, V},
                      start: Int, end: Int]

Frontends == 1 .. NumFrontends       \* positions in the vector "frontends"

VARIABLES
  plan,                \* the passes, fixed by the options
  mpc,                 \* where the main thread is
  pass,                \* the pass it is working on
  next,                \* the frontend its spawn or join loop is at
  spectrum_fft_fe,     \* the first frontend with an fft spectrum, 0 if none
  spectrum_sweep_fe,   \* the first frontend with a sweep spectrum, 0 if none
  num_spectral_peaks,  \* spectral_peaks.size()
  next_to_scan,        \* how many of the peaks have been reserved
  fpout_bs,            \* is the output file open?
  spectrum_file,       \* per polarisation: the bands this scan has put into its
                       \*   spectrum file, as far as they are still there
  total_peaks,         \* num_peaks and num_locked of the scanner, which are
  total_locked,        \*   printed at the end
  tpc,                 \* where each task thread is, "none" without a thread
  peak,                \* the peak each thread has reserved, 0 if none
  fe_band,             \* band and polarisation each frontend believes in
  fe_peaks,            \* num_peaks and
  fe_locked,           \*   num_locked of each frontend
  rf_input,            \* external: how the driver connects each frontend
  selected,            \* external: the setting the LNB was last asked to take
  lines,               \* the output file: which peak of which pass is in it
  scans                \* history: how often scan_peak was called for each peak

mainVars   == <<mpc, pass, next, spectrum_fft_fe, spectrum_sweep_fe, total_peaks, total_locked>>
poolVars   == <<num_spectral_peaks, next_to_scan>>
fileVars   == <<fpout_bs, spectrum_file, lines>>
workerVars == <<tpc, peak, fe_peaks, fe_locked>>
dishVars   == <<rf_input, selected>>
vars == <<plan, mainVars, poolVars, fileVars, workerVars, dishVars, fe_band, scans>>

Setting(p) == <<p.band, p.pol>>

Running == mpc # "exit"

spectrum_fe == IF spectrum_fft_fe # 0 THEN spectrum_fft_fe ELSE spectrum_sweep_fe

(***************************************************************************)
(* The single decisions of the code, each next to the faulty variants that *)
(* the mutation runs put in its place.                                     *)
(***************************************************************************)

(* reserve_peak_to_scan: is there a peak, and the counter after taking it. *)
PeakLeftButLast   == next_to_scan + 1 < num_spectral_peaks        \* mutant
PeakLeft          == next_to_scan < num_spectral_peaks

NotAdvanced == next_to_scan                                       \* mutant
Advanced    == next_to_scan + 1

(* scan_band joins every thread it has spawned.                            *)
LastJoinEarly(f) == f >= NumFrontends - 1                         \* mutant
LastJoin(f)      == f = NumFrontends

(* The reservation mode set_rf_input asks for.                             *)
Mode(as_master) == IF as_master THEN "master" ELSE "slave"

(* task tells its frontend which band and polarisation it tunes in.        *)
BandKept(f) == fe_band[f]                                         \* mutant
TaskBand(f) == Setting(plan[pass])

(* open_output, which truncates the file, is called once.                  *)
LinesTruncated  == {}                                             \* mutant
LinesAfterOpen  == IF fpout_bs THEN lines ELSE {}

-------------------------------------------------------------------------------
Init ==
  /\ \E r \in Requests :
       LET range == ScanRange(r.sys, r.lnb, r.start, r.end)
       IN  plan = Plan(r.pols, range[1], range[2])
  /\ mpc = "open" /\ pass = 1 /\ next = 1
  /\ spectrum_fft_fe = 0 /\ spectrum_sweep_fe = 0
  /\ num_spectral_peaks = 0 /\ next_to_scan = 0
  /\ fpout_bs = FALSE /\ lines = {} /\ spectrum_file = [p \in {H, V} |-> {}]
  /\ total_peaks = 0 /\ total_locked = 0
  /\ tpc = [f \in Frontends |-> "none"]
  /\ peak = [f \in Frontends |-> 0]
  /\ fe_band = [f \in Frontends |-> <<0, H>>]
  /\ fe_peaks = [f \in Frontends |-> 0]
  /\ fe_locked = [f \in Frontends |-> 0]
  /\ rf_input = [f \in Frontends |-> "none"]
  /\ selected = <<>>
  /\ scans = [i \in 1 .. MaxPeaks |-> 0]

(* exit(1), which every thread may call.                                   *)
Exit == mpc' = "exit"

-------------------------------------------------------------------------------
(* The main thread.                                                        *)

NextPass(p) == IF p <= Len(plan) THEN "select" ELSE "close"

(* open_frontends: the first frontend with an fft and the first one with a *)
(* sweep spectrum may be any two, or there may be none (0) of either kind. *)
OpenFrontends ==
  /\ mpc = "open"
  /\ spectrum_fft_fe' \in 0 .. NumFrontends
  /\ spectrum_sweep_fe' \in 0 .. NumFrontends
  /\ mpc' = IF spectrum_fft_fe' = 0 /\ spectrum_sweep_fe' = 0 THEN "exit" ELSE NextPass(pass)
  /\ UNCHANGED <<plan, pass, next, total_peaks, total_locked, poolVars, fileVars,
                 workerVars, dishVars, fe_band, scans>>

OpenFails ==
  /\ mpc = "open"
  /\ Exit
  /\ UNCHANGED <<plan, pass, next, spectrum_fft_fe, spectrum_sweep_fe, total_peaks,
                 total_locked, poolVars, fileVars, workerVars, dishVars, fe_band, scans>>

(* scan_band up to the call of spectrum_band.                              *)
SelectBand ==
  /\ mpc = "select"
  /\ next_to_scan' = 0
  /\ fe_band' = [fe_band EXCEPT ![spectrum_fe] = Setting(plan[pass])]
  /\ rf_input' = [rf_input EXCEPT ![spectrum_fe] = Mode(TRUE)]
  /\ selected' = Setting(plan[pass])
  /\ mpc' = "spectrum"
  /\ UNCHANGED <<plan, pass, next, spectrum_fft_fe, spectrum_sweep_fe, total_peaks,
                 total_locked, num_spectral_peaks, fileVars, workerVars, scans>>

(* A file for each polarisation, created or appended to.  The result is    *)
(* ignored: when fopen is refused the scan goes on with the file as it is. *)
(* A spectrum that has no samples opens the file and writes nothing.       *)
save_spectrum ==
  \/ UNCHANGED spectrum_file
  \/ \E written \in SUBSET {plan[pass].band} :
       spectrum_file' = [spectrum_file EXCEPT ![plan[pass].pol] =
                           (IF plan[pass].append THEN @ ELSE {}) \cup written]

(* spectrum_band and save_spectrum.  After a timeout there are no peaks    *)
(* and no samples; a driver may also return one without the other.         *)
AcquireSpectrum ==
  /\ mpc = "spectrum"
  /\ num_spectral_peaks' \in 0 .. MaxPeaks
  /\ scans' = [i \in 1 .. MaxPeaks |-> 0]
  /\ save_spectrum
  /\ mpc' = "connect"
  /\ UNCHANGED <<plan, pass, next, spectrum_fft_fe, spectrum_sweep_fe, total_peaks,
                 total_locked, next_to_scan, fpout_bs, lines, workerVars, dishVars, fe_band>>

(* set_rf_input(false) on the other frontends, then open_output.           *)
ConnectOthers ==
  /\ mpc = "connect"
  /\ rf_input' = [f \in Frontends |-> IF f = spectrum_fe THEN rf_input[f] ELSE Mode(FALSE)]
  /\ fpout_bs' = TRUE
  /\ lines' = LinesAfterOpen
  /\ mpc' = "spawn" /\ next' = 1
  /\ UNCHANGED <<plan, pass, spectrum_fft_fe, spectrum_sweep_fe, total_peaks, total_locked,
                 poolVars, spectrum_file, workerVars, selected, fe_band, scans>>

(* An ioctl of these steps fails, or the output file cannot be created.    *)
BandFails ==
  /\ mpc \in {"select", "spectrum", "connect"}
  /\ Exit
  /\ UNCHANGED <<plan, pass, next, spectrum_fft_fe, spectrum_sweep_fe, total_peaks,
                 total_locked, poolVars, fileVars, workerVars, dishVars, fe_band, scans>>

Spawn ==
  /\ mpc = "spawn"
  /\ tpc' = [tpc EXCEPT ![next] = "start"]
  /\ IF next = NumFrontends THEN mpc' = "join" /\ next' = 1
                            ELSE mpc' = mpc /\ next' = next + 1
  /\ UNCHANGED <<plan, pass, spectrum_fft_fe, spectrum_sweep_fe, total_peaks, total_locked,
                 poolVars, fileVars, peak, fe_peaks, fe_locked, dishVars, fe_band, scans>>

Join ==
  /\ mpc = "join"
  /\ tpc[next] = "returned"
  /\ tpc' = [tpc EXCEPT ![next] = "none"]
  /\ IF LastJoin(next) THEN mpc' = "count" /\ next' = 1
                            ELSE mpc' = mpc /\ next' = next + 1
  /\ UNCHANGED <<plan, pass, spectrum_fft_fe, spectrum_sweep_fe, total_peaks, total_locked,
                 poolVars, fileVars, peak, fe_peaks, fe_locked, dishVars, fe_band, scans>>

SumOf(count) == MapThenSumSet(LAMBDA f : count[f], Frontends)

(* The sums scan_band returns; scan uses them in the high band only.       *)
CountBand ==
  /\ mpc = "count"
  /\ IF plan[pass].band = 1
     THEN /\ total_peaks' = total_peaks + SumOf(fe_peaks)
          /\ total_locked' = total_locked + SumOf(fe_locked)
     ELSE UNCHANGED <<total_peaks, total_locked>>
  /\ pass' = pass + 1
  /\ mpc' = NextPass(pass')
  /\ UNCHANGED <<plan, next, spectrum_fft_fe, spectrum_sweep_fe, poolVars, fileVars,
                 workerVars, dishVars, fe_band, scans>>

(* close_output, sort_output, close_frontends.                             *)
Close ==
  /\ mpc = "close"
  /\ fpout_bs' = FALSE
  /\ rf_input' = [f \in Frontends |-> "none"]
  /\ mpc' = "done"
  /\ UNCHANGED <<plan, pass, next, spectrum_fft_fe, spectrum_sweep_fe, total_peaks,
                 total_locked, poolVars, spectrum_file, lines, workerVars, selected,
                 fe_band, scans>>

-------------------------------------------------------------------------------
(* The task threads.                                                       *)

TaskStart(f) ==
  /\ Running /\ tpc[f] = "start"
  /\ fe_band' = [fe_band EXCEPT ![f] = TaskBand(f)]
  /\ tpc' = [tpc EXCEPT ![f] = "reserve"]
  /\ UNCHANGED <<plan, mainVars, poolVars, fileVars, peak, fe_peaks, fe_locked, dishVars, scans>>

(* reserve_peak_to_scan, under the mutex of the scanner.                   *)
ReservePeak(f) ==
  /\ Running /\ tpc[f] = "reserve"
  /\ PeakLeft
  /\ next_to_scan' = Advanced
  /\ peak' = [peak EXCEPT ![f] = next_to_scan + 1]
  /\ scans' = [scans EXCEPT ![next_to_scan + 1] = @ + 1]
  /\ tpc' = [tpc EXCEPT ![f] = "scan"]
  /\ UNCHANGED <<plan, mainVars, num_spectral_peaks, fileVars, fe_peaks, fe_locked,
                 dishVars, fe_band>>

(* Without a peak left the thread returns, it does not wait for more.       *)
TaskPolls(f) == Running /\ tpc[f] = "reserve" /\ ~PeakLeft /\ UNCHANGED vars   \* mutant

TaskReturn(f) ==
  /\ Running /\ tpc[f] = "reserve"
  /\ ~PeakLeft
  /\ tpc' = [tpc EXCEPT ![f] = "returned"]
  /\ UNCHANGED <<plan, mainVars, poolVars, fileVars, peak, fe_peaks, fe_locked, dishVars,
                 fe_band, scans>>

(* scan_peak returns because tuning failed or timed out.                   *)
PeakSkipped(f) ==
  /\ Running /\ tpc[f] = "scan"
  /\ peak' = [peak EXCEPT ![f] = 0]
  /\ tpc' = [tpc EXCEPT ![f] = "reserve"]
  /\ UNCHANGED <<plan, mainVars, poolVars, fileVars, fe_peaks, fe_locked, dishVars, fe_band, scans>>

(* scan_peak gives up after ten events without a lock.                     *)
PeakNotLocked(f) ==
  /\ Running /\ tpc[f] = "scan"
  /\ fe_peaks' = [fe_peaks EXCEPT ![f] = @ + 1]
  /\ peak' = [peak EXCEPT ![f] = 0]
  /\ tpc' = [tpc EXCEPT ![f] = "reserve"]
  /\ UNCHANGED <<plan, mainVars, poolVars, fileVars, fe_locked, dishVars, fe_band, scans>>

PeakLocked(f) ==
  /\ Running /\ tpc[f] = "scan"
  /\ fe_peaks' = [fe_peaks EXCEPT ![f] = @ + 1]
  /\ fe_locked' = [fe_locked EXCEPT ![f] = @ + 1]
  /\ tpc' = [tpc EXCEPT ![f] = "save"]
  /\ UNCHANGED <<plan, mainVars, poolVars, fileVars, peak, dishVars, fe_band, scans>>

(* save_info ends with bs_printf, under the mutex of the scanner.          *)
SaveInfo(f) ==
  /\ Running /\ tpc[f] = "save"
  /\ lines' = lines \cup {<<pass, peak[f]>>}
  /\ peak' = [peak EXCEPT ![f] = 0]
  /\ tpc' = [tpc EXCEPT ![f] = "reserve"]
  /\ UNCHANGED <<plan, mainVars, poolVars, fpout_bs, spectrum_file, fe_peaks, fe_locked,
                 dishVars, fe_band, scans>>

(* DTV_CLEAR fails while tuning, or FE_GET_PROPERTY while saving.          *)
TaskFails(f) ==
  /\ Running /\ tpc[f] \in {"scan", "save"}
  /\ Exit
  /\ UNCHANGED <<plan, pass, next, spectrum_fft_fe, spectrum_sweep_fe, total_peaks,
                 total_locked, poolVars, fileVars, workerVars, dishVars, fe_band, scans>>

-------------------------------------------------------------------------------
Main == \/ OpenFrontends \/ OpenFails \/ SelectBand \/ AcquireSpectrum \/ ConnectOthers
        \/ BandFails \/ Spawn \/ Join \/ CountBand \/ Close

ScanPeak(f) == PeakSkipped(f) \/ PeakNotLocked(f) \/ PeakLocked(f)

Task(f) == \/ TaskStart(f) \/ ReservePeak(f) \/ TaskReturn(f) \/ ScanPeak(f)
           \/ SaveInfo(f) \/ TaskFails(f)

(* main has returned, or some thread has called exit(1).                    *)
Terminated == mpc \in {"done", "exit"} /\ UNCHANGED vars

Next == Main \/ (\E f \in Frontends : Task(f)) \/ Terminated

Spec == Init /\ [][Next]_vars

(* The operating system schedules every thread, and every wait of          *)
(* scan_peak has the timeout epoll_timeout.                                *)
Fairness == WF_vars(Main) /\ \A f \in Frontends : WF_vars(Task(f))

FairSpec == Spec /\ Fairness

-------------------------------------------------------------------------------
(* Correctness.                                                            *)

Passes == [band: Bands, pol: {H, V}, start: Int, end: Int, append: BOOLEAN]

(* Every variable that the proofs need keeps its type.                     *)
TypeOK ==
  /\ plan \in Seq(Passes)
  /\ mpc \in {"open", "select", "spectrum", "connect", "spawn", "join", "count",
              "close", "done", "exit"}
  /\ pass \in Nat \ {0}
  /\ next \in Frontends
  /\ spectrum_fft_fe \in 0 .. NumFrontends /\ spectrum_sweep_fe \in 0 .. NumFrontends
  /\ num_spectral_peaks \in 0 .. MaxPeaks
  /\ next_to_scan \in 0 .. MaxPeaks
  /\ fpout_bs \in BOOLEAN
  /\ spectrum_file \in [{H, V} -> SUBSET Bands]
  /\ tpc \in [Frontends -> {"none", "start", "reserve", "scan", "save", "returned"}]
  /\ peak \in [Frontends -> 0 .. MaxPeaks]
  /\ fe_band \in [Frontends -> Bands \X {H, V}]
  /\ fe_peaks \in [Frontends -> Nat] /\ fe_locked \in [Frontends -> Nat]
  /\ rf_input \in [Frontends -> {"none", "master", "slave"}]
  /\ selected \in {<<>>} \cup (Bands \X {H, V})
  /\ lines \subseteq (Nat \X Nat)
  /\ scans \in [1 .. MaxPeaks -> Nat]

Scanning(f) == tpc[f] \in {"scan", "save"}

(* reserve_peak_to_scan: two threads never work on the same peak, and a    *)
(* peak that was handed out is not handed out again in the same pass.      *)
NoPeakScannedTwice ==
  /\ \A f, g \in Frontends : Scanning(f) /\ Scanning(g) /\ peak[f] = peak[g] => f = g
  /\ \A i \in 1 .. MaxPeaks : scans[i] <= 1

(* When the last thread has been joined every peak of the vector has been  *)
(* scanned, once: replacing the vector or closing the frontends is safe.   *)
JoinedMeansScanned ==
  mpc = "count" =>
    \A i \in 1 .. MaxPeaks : scans[i] = IF i <= num_spectral_peaks THEN 1 ELSE 0

(* A thread tunes only while the LNB, which only the spectrum frontend     *)
(* controls, is on the band and polarisation the thread believes in, and   *)
(* while its own tuner is connected to that LNB.                           *)
TunedToSelectedLnb ==
  \A f \in Frontends : Scanning(f) => fe_band[f] = selected /\ rf_input[f] # "none"

(* At most one frontend controls the LNB.                                  *)
OneMaster ==
  \A f, g \in Frontends : rf_input[f] = "master" /\ rf_input[g] = "master" => f = g

(* The LNB is never switched under a thread that has not been joined.      *)
LnbSwitchedOnlyWhenIdle ==
  [][selected' # selected => \A f \in Frontends : tpc[f] = "none"]_vars

(* The locks that the frontends have counted, one by one.                 *)
Counted == UNION {{f} \X (1 .. fe_locked[f]) : f \in Frontends}

(* No lock is lost or saved twice by concurrent save_info calls: over all  *)
(* passes, the frontends count as many locks as the file has lines, up to  *)
(* the lines that are about to be written to the open file.                *)
EveryLockSaved ==
  LET saving == {f \in Frontends : tpc[f] = "save"}
  IN  /\ Cardinality(lines) + Cardinality(saving) = Cardinality(Counted)
      /\ saving # {} => fpout_bs

(* save_spectrum: no pass wipes out what an earlier one has written.  The  *)
(* decision to append is taken before it is known whether the earlier pass *)
(* acquired a spectrum and could open its file.                            *)
SpectrumKept ==
  [][\A p \in {H, V} : spectrum_file[p] \subseteq spectrum_file'[p]]_vars

(* The printed total is the number of transponders in the output file.     *)
TotalLockedIsTotal == mpc = "done" => total_locked = Cardinality(lines)

(* Whatever the outcomes and the interleaving, main returns or exits.      *)
ScanEnds == <>(mpc \in {"done", "exit"})

-------------------------------------------------------------------------------
(* The pool of threads implements the contract.                            *)
todoBar ==
  IF mpc \in {"connect", "spawn", "join"}
  THEN (next_to_scan + 1) .. num_spectral_peaks ELSE {}

busyBar == {i \in 1 .. MaxPeaks : Running /\ \E f \in Frontends : peak[f] = i}

finishedBar == {i \in 1 .. MaxPeaks : scans[i] > 0 /\ \A f \in Frontends : peak[f] # i}

stateBar == IF mpc = "done" THEN "ended" ELSE IF mpc = "exit" THEN "aborted" ELSE "scanning"

Contract == INSTANCE ScanContract WITH
  todo <- todoBar, busy <- busyBar, finished <- finishedBar, state <- stateBar

ImplementsContract == Contract!FairSpec
===============================================================================
