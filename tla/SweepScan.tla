------------------------------- MODULE SweepScan -------------------------------
(***************************************************************************)
(* The sweep blindscan of neumo-blindscan for satellite: for each          *)
(* polarisation main_blindscan_sweep steps through the range, and          *)
(* scan_freq searches for a carrier around each frequency and returns      *)
(* where to go on.  Frequencies are in kHz and positive, so that comparing *)
(* a uint32_t with an int compares numbers.                                *)
(*                                                                         *)
(* The driver is external: a search finds some carrier of its window or    *)
(* none.  The wait for its events is that of PeakTuning, here one step.    *)
(***************************************************************************)
EXTENDS Integers

CONSTANTS
  Pols,            \* how many polarisations are scanned
  start_freq, end_freq, step_freq, search_range,     \* the options
  Carriers,        \* external: offset and half bandwidth of what may be found
  Stale            \* external: what may be read while nothing is locked

HalfRange == search_range \div 2

ASSUME SweepScanAssumption ==
  /\ Pols \in {1, 2}
  /\ start_freq \in Nat /\ end_freq \in Nat
  /\ step_freq \in Nat \ {0} /\ search_range \in Nat /\ step_freq <= 2 * HalfRange
  /\ Carriers \subseteq (-HalfRange .. HalfRange) \X Nat
  /\ Stale \subseteq Nat

VARIABLES
  pol,          \* the polarisation, 1 or 2
  frequency,    \* the variable of the loop
  stage,        \* "scan", "done" or "exit"
  reach,        \* history: everything from start_freq up to here was searched
  misread       \* history: has check_lock_status failed for this polarisation?

sweepVars == <<pol, frequency, stage, reach, misread>>

-------------------------------------------------------------------------------
(* The single decisions of the code, each next to the faulty variants that *)
(* the mutation runs put in its place.                                     *)

(* The frequency after one for which scan_freq has returned this.          *)
AsReturned(new) == new                                            \* mutant
Advanced(new)   == IF new > frequency THEN new ELSE frequency + step_freq

(* Where the search goes on after a carrier was found.                     *)
AfterItsRange(c) == frequency + c[1] + c[2] + search_range        \* mutant
AfterCarrier(c)  == frequency + c[1] + c[2] + HalfRange

(* The loop ends before the end of the range.                              *)
InRange(f) == f < end_freq

-------------------------------------------------------------------------------
Larger(a, b) == IF a > b THEN a ELSE b

(* The sweep goes on at f; the last polarisation ends it.                  *)
GoOn(f) ==
  IF InRange(f) THEN frequency' = f /\ UNCHANGED <<pol, stage>>
  ELSE /\ pol' = IF pol < Pols THEN pol + 1 ELSE pol
       /\ stage' = IF pol < Pols THEN stage ELSE "done"
       /\ frequency' = IF pol < Pols THEN start_freq ELSE f

(* What was searched: the window, and the carrier that was found.          *)
Searched(upTo) ==
  /\ reach' = IF pol' # pol THEN start_freq ELSE Larger(reach, upTo)
  /\ misread' = (misread /\ pol' = pol)

SweepInit ==
  /\ pol = 1 /\ frequency = start_freq
  /\ stage = IF InRange(start_freq) THEN "scan" ELSE "done"
  /\ reach = start_freq /\ misread = FALSE

(* scan_freq with a timeout of the driver or of the wait.                  *)
TimedOut ==
  /\ stage = "scan"
  /\ GoOn(Advanced(frequency + step_freq)) /\ Searched(frequency + HalfRange)

(* Three events without a lock, or the lock is gone when it is checked.    *)
NotLocked ==
  /\ stage = "scan"
  /\ GoOn(Advanced(frequency)) /\ Searched(frequency + HalfRange)

Locked(c) ==
  /\ stage = "scan"
  /\ GoOn(Advanced(AfterCarrier(c)))
  /\ Searched(Larger(frequency + HalfRange, frequency + c[1] + c[2]))

(* check_lock_status returns -1, which scan_freq takes for a lock.         *)
Misread(f) ==
  /\ stage = "scan"
  /\ GoOn(Advanced(f + HalfRange))
  /\ reach' = IF pol' # pol THEN start_freq ELSE Larger(reach, frequency + HalfRange)
  /\ misread' = (pol' = pol)

(* The tuning request fails, or the query of getinfo does.                 *)
ScanFails == stage = "scan" /\ stage' = "exit" /\ UNCHANGED <<pol, frequency, reach, misread>>

Scan == \/ TimedOut \/ NotLocked \/ ScanFails
        \/ \E c \in Carriers : Locked(c)
        \/ \E f \in Stale : Misread(f)

SweepFinished == stage \in {"done", "exit"} /\ UNCHANGED sweepVars

SweepNext == Scan \/ SweepFinished

SweepSpec == SweepInit /\ [][SweepNext]_sweepVars

(* The program is scheduled, and the wait of scan_freq has a timeout.      *)
FairSweep == SweepSpec /\ WF_sweepVars(Scan)

-------------------------------------------------------------------------------
(* Correctness.                                                            *)

SweepTypeOK ==
  /\ pol \in 1 .. Pols /\ stage \in {"scan", "done", "exit"}
  /\ frequency \in Nat /\ (stage = "scan" => frequency < end_freq)
  /\ reach \in Nat /\ misread \in BOOLEAN

(* The window of the next search begins where the windows and carriers so  *)
(* far end, or before: no frequency is skipped between two searches.       *)
NoGap == stage # "exit" /\ ~misread => frequency - HalfRange <= reach

(* "The scanned portion is the range [start-freq, end-freq]": when the     *)
(* sweep is over the whole range was searched.                             *)
WholeRangeSearched == stage = "done" /\ ~misread => reach >= end_freq

(* The sweep comes to an end, though some searches find nothing new.       *)
SweepEnds == <>(stage # "scan")
================================================================================
