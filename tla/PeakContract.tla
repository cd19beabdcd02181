----------------------------- MODULE PeakContract -----------------------------
(***************************************************************************)
(* What ParallelScan assumes of frontend_t::scan_peak: a scan that has     *)
(* begun ends in one of three ways; only a scan that ends with a decision  *)
(* of the tuner is counted, and only one that ends with a lock is saved.   *)
(***************************************************************************)
EXTENDS Naturals

VARIABLES
  phase,       \* "reserve", "scan", "save", or "exit" when the program ended
  num_peaks,   \* the counters of the frontend
  num_locked,
  num_saved    \* the lines it has written

vars == <<phase, num_peaks, num_locked, num_saved>>

Init == phase = "reserve" /\ num_peaks = 0 /\ num_locked = 0 /\ num_saved = 0

Begin == phase = "reserve" /\ phase' = "scan" /\ UNCHANGED <<num_peaks, num_locked, num_saved>>

Skip == phase = "scan" /\ phase' = "reserve" /\ UNCHANGED <<num_peaks, num_locked, num_saved>>

NotLocked ==
  /\ phase = "scan" /\ phase' = "reserve"
  /\ num_peaks' = num_peaks + 1
  /\ UNCHANGED <<num_locked, num_saved>>

Locked ==
  /\ phase = "scan" /\ phase' = "save"
  /\ num_peaks' = num_peaks + 1 /\ num_locked' = num_locked + 1
  /\ UNCHANGED num_saved

Save ==
  /\ phase = "save" /\ phase' = "reserve"
  /\ num_saved' = num_saved + 1
  /\ UNCHANGED <<num_peaks, num_locked>>

Exit ==
  /\ phase \in {"scan", "save"} /\ phase' = "exit"
  /\ UNCHANGED <<num_peaks, num_locked, num_saved>>

Next == Begin \/ Skip \/ NotLocked \/ Locked \/ Save \/ Exit

Spec == Init /\ [][Next]_vars /\ WF_vars(Skip \/ NotLocked \/ Locked \/ Save \/ Exit)
===============================================================================
