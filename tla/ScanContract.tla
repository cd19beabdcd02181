----------------------------- MODULE ScanContract -----------------------------
(***************************************************************************)
(* What the pool of task threads promises, without threads, mutex or       *)
(* vector: in each round a set of peaks is announced; every peak is        *)
(* claimed once and finished once; the next round starts, and the scan     *)
(* ends, only when no peak is left.  The whole scan may be aborted.        *)
(***************************************************************************)
EXTENDS Integers

CONSTANT MaxPeaks

VARIABLES
  todo,      \* the announced peaks nobody has claimed
  busy,      \* those somebody is scanning
  finished,  \* those whose scan is over
  state      \* "scanning", "ended" or "aborted"

vars == <<todo, busy, finished, state>>

Init == todo = {} /\ busy = {} /\ finished = {} /\ state = "scanning"

Idle == state = "scanning" /\ todo = {} /\ busy = {}

Announce ==
  /\ Idle
  /\ \E n \in 0 .. MaxPeaks : todo' = 1 .. n
  /\ finished' = {}
  /\ UNCHANGED <<busy, state>>

Claim(i) ==
  /\ state = "scanning" /\ i \in todo
  /\ todo' = todo \ {i}
  /\ busy' = busy \cup {i}
  /\ UNCHANGED <<finished, state>>

Finish(i) ==
  /\ state = "scanning" /\ i \in busy
  /\ busy' = busy \ {i}
  /\ finished' = finished \cup {i}
  /\ UNCHANGED <<todo, state>>

End == Idle /\ state' = "ended" /\ UNCHANGED <<todo, busy, finished>>

Abort ==
  /\ state = "scanning"
  /\ state' = "aborted" /\ todo' = {} /\ busy' = {}
  /\ UNCHANGED finished

Work == \E i \in 1 .. MaxPeaks : Claim(i) \/ Finish(i)

Next == Announce \/ Work \/ End \/ Abort

Spec == Init /\ [][Next]_vars

(* Work that was announced gets done, unless the scan is aborted.          *)
FairSpec == Spec /\ WF_vars(Work)
===============================================================================
