------------------------------ MODULE PeakTuning ------------------------------
(***************************************************************************)
(* frontend_t::scan_peak of stid135-blindscan, one thread of which scans   *)
(* peak after peak on one frontend, together with the frontend it waits    *)
(* for: the queue of status events and the edge-triggered epoll of         *)
(* create_poll.  The frontend is external: it is modelled by what the code *)
(* relies on.  An event tells the lock and timeout bits of the status.     *)
(*                                                                         *)
(* The timeout of epoll_wait is 5000 seconds, far longer than any tuning   *)
(* attempt: it expires only after the tuner has come to its verdict.       *)
(***************************************************************************)
EXTENDS Integers, Sequences, FiniteSets

CONSTANTS
  NumPeaks,      \* how many peaks the thread scans one after the other
  MaxCount,      \* events scan_peak reads for one peak; 10 in the code
  QueueSize,     \* external: events the frontend keeps
  MaxStatus,     \* bound on the status changes of one tuning attempt
  ClearsOnTune   \* external: does a tuning request discard unread events?

ASSUME PeakTuningAssumption ==
  /\ NumPeaks \in Nat /\ MaxCount \in Nat \ {0}
  /\ QueueSize \in Nat \ {0} /\ MaxStatus \in Nat
  /\ ClearsOnTune \in BOOLEAN

VARIABLES
  pc,          \* where the thread is
  peak,        \* the peak it is scanning, or has scanned last
  timedout, locked, count,    \* the local variables of scan_peak
  num_peaks, num_locked,      \* the counters of the frontend
  result,      \* how the scan of each peak ended
  tuned,       \* external: the peak the frontend is tuned to, 0 before
  verdict,     \* external: what came of each attempt
  emitted,     \* external: status changes of the present attempt
  queue,       \* external: the unread events
  overflow,    \* external: was an event dropped since the last read?
  edge         \* external: did an event arrive since epoll_wait returned?

threadVars == <<pc, peak, timedout, locked, count, num_peaks, num_locked, result>>
driverVars == <<tuned, verdict, emitted, queue, overflow, edge>>
vars == <<threadVars, driverVars>>

Peaks == 1 .. NumPeaks

Event(p, l, t) == [of |-> p, lock |-> l, timedout |-> t]

Init ==
  /\ pc = "reserve" /\ peak = 0
  /\ timedout = FALSE /\ locked = FALSE /\ count = 0
  /\ num_peaks = 0 /\ num_locked = 0
  /\ result = [p \in Peaks |-> "none"]
  /\ tuned = 0 /\ verdict = [p \in Peaks |-> "none"] /\ emitted = 0
  /\ queue = <<>> /\ overflow = FALSE /\ edge = FALSE

-------------------------------------------------------------------------------
(* The frontend.                                                           *)

Arrive(e) ==
  /\ edge' = TRUE
  /\ IF Len(queue) < QueueSize
     THEN queue' = Append(queue, e) /\ UNCHANGED overflow
     ELSE queue' = Append(Tail(queue), e) /\ overflow' = TRUE

(* A status change that is neither the first lock nor the timeout.         *)
DriverStatus ==
  /\ tuned # 0 /\ emitted < MaxStatus
  /\ emitted' = emitted + 1
  /\ Arrive(Event(tuned, verdict[tuned] = "lock", FALSE))
  /\ UNCHANGED <<threadVars, tuned, verdict>>

DriverVerdict(v) ==
  /\ tuned # 0 /\ verdict[tuned] = "pending"
  /\ verdict' = [verdict EXCEPT ![tuned] = v]
  /\ IF v = "silent" THEN UNCHANGED <<queue, overflow, edge>>
     ELSE Arrive(Event(tuned, v = "lock", v = "timedout"))
  /\ UNCHANGED <<threadVars, tuned, emitted>>

-------------------------------------------------------------------------------
(* The thread.  Each decision of the code stands next to the faulty        *)
(* variants that the mutation runs put in its place.                       *)

(* FE_GET_EVENT succeeds.                                                  *)
CanRead == ~overflow /\ queue # <<>>

(* Does the loop of scan_peak go on after these values?                    *)
GoesOn(n, t, l) == n < MaxCount /\ ~t /\ ~l

(* The lock bit of the status that an event carries.                       *)
AnyStatusLocks(e) == ~e.timedout                                 \* mutant
LockMissed(e)     == FALSE                                       \* mutant
LockBit(e)        == e.lock

Return(how) == pc' = "reserve" /\ result' = [result EXCEPT ![peak] = how]

(* epoll_wait has returned 0: give the peak up, without reading an event.  *)
ReadAnyway == pc' = "get" /\ UNCHANGED result                    \* mutant
GiveUp     == Return("timeout")

BeginPeak ==
  /\ pc = "reserve" /\ peak < NumPeaks
  /\ peak' = peak + 1
  /\ pc' = "flush"
  /\ UNCHANGED <<timedout, locked, count, num_peaks, num_locked, result, driverVars>>

(* flush_events reads until FE_GET_EVENT fails, for whatever reason.       *)
FlushOne ==
  /\ pc = "flush" /\ CanRead
  /\ queue' = Tail(queue)
  /\ UNCHANGED <<threadVars, tuned, verdict, emitted, overflow, edge>>

FlushEnds ==
  /\ pc = "flush" /\ ~CanRead
  /\ overflow' = FALSE
  /\ pc' = "tune"
  /\ UNCHANGED <<peak, timedout, locked, count, num_peaks, num_locked, result,
                 tuned, verdict, emitted, queue, edge>>

Tune ==
  /\ pc = "tune"
  /\ tuned' = peak /\ emitted' = 0
  /\ verdict' = [verdict EXCEPT ![peak] = "pending"]
  /\ IF ClearsOnTune THEN queue' = <<>> /\ overflow' = FALSE ELSE UNCHANGED <<queue, overflow>>
  /\ timedout' = FALSE /\ locked' = FALSE /\ count' = 0
  /\ pc' = "wait"
  /\ UNCHANGED <<peak, num_peaks, num_locked, result, edge>>

(* FE_SET_PROPERTY refuses the tuning request.                             *)
TuneFails ==
  /\ pc = "tune"
  /\ Return("failed")
  /\ UNCHANGED <<peak, timedout, locked, count, num_peaks, num_locked, driverVars>>

(* DTV_CLEAR, or the query of save_info, fails and the program ends.       *)
Fatal ==
  /\ pc \in {"tune", "save"}
  /\ pc' = "exit"
  /\ UNCHANGED <<peak, timedout, locked, count, num_peaks, num_locked, result, driverVars>>

(* An edge wakes epoll_wait; with nothing to read it sleeps again.         *)
EpollReturns ==
  /\ pc = "wait" /\ edge
  /\ edge' = FALSE
  /\ pc' = IF queue = <<>> THEN "wait" ELSE "get"
  /\ UNCHANGED <<peak, timedout, locked, count, num_peaks, num_locked, result,
                 tuned, verdict, emitted, queue, overflow>>

EpollTimesOut ==
  /\ pc = "wait" /\ ~edge /\ verdict[peak] # "pending"
  /\ GiveUp
  /\ timedout' = TRUE
  /\ UNCHANGED <<peak, locked, count, num_peaks, num_locked, driverVars>>

(* One FE_GET_EVENT for each return of epoll_wait.                         *)
GetEvent ==
  /\ pc = "get" /\ CanRead
  /\ LET e == Head(queue)
     IN  /\ timedout' = e.timedout /\ locked' = LockBit(e) /\ count' = count + 1
         /\ pc' = IF GoesOn(count', timedout', locked') THEN "wait" ELSE "decide"
  /\ queue' = Tail(queue)
  /\ UNCHANGED <<peak, num_peaks, num_locked, result, tuned, verdict, emitted, overflow, edge>>

GetEventFails ==
  /\ pc = "get" /\ ~CanRead
  /\ overflow' = FALSE
  /\ pc' = "wait"
  /\ UNCHANGED <<peak, timedout, locked, count, num_peaks, num_locked, result,
                 tuned, verdict, emitted, queue, edge>>

(* What follows the loop; the lock is counted before it is saved.          *)
DecideTimedOut ==
  /\ pc = "decide" /\ timedout
  /\ Return("timeout")
  /\ UNCHANGED <<peak, timedout, locked, count, num_peaks, num_locked, driverVars>>

DecideNotLocked ==
  /\ pc = "decide" /\ ~timedout /\ ~locked
  /\ num_peaks' = num_peaks + 1
  /\ Return("notlocked")
  /\ UNCHANGED <<peak, timedout, locked, count, num_locked, driverVars>>

DecideLocked ==
  /\ pc = "decide" /\ ~timedout /\ locked
  /\ num_peaks' = num_peaks + 1 /\ num_locked' = num_locked + 1
  /\ pc' = "save"
  /\ UNCHANGED <<peak, timedout, locked, count, result, driverVars>>

SaveInfo ==
  /\ pc = "save"
  /\ Return("saved")
  /\ UNCHANGED <<peak, timedout, locked, count, num_peaks, num_locked, driverVars>>

-------------------------------------------------------------------------------
Driver == DriverStatus \/ \E v \in {"lock", "timedout", "silent"} : DriverVerdict(v)

Thread == \/ FlushOne \/ FlushEnds \/ Tune \/ TuneFails \/ Fatal \/ EpollReturns \/ EpollTimesOut
          \/ GetEvent \/ GetEventFails \/ DecideTimedOut \/ DecideNotLocked \/ DecideLocked
          \/ SaveInfo

Finished == (pc = "exit" \/ (pc = "reserve" /\ peak = NumPeaks)) /\ UNCHANGED vars

Next == BeginPeak \/ Thread \/ Driver \/ Finished

Spec == Init /\ [][Next]_vars

(* The thread is scheduled, and a tuning attempt comes to an end.          *)
FairSpec ==
  /\ Spec /\ WF_vars(Thread)
  /\ WF_vars(\E v \in {"lock", "timedout", "silent"} : DriverVerdict(v))

-------------------------------------------------------------------------------
(* Correctness.                                                            *)

TypeOK ==
  /\ pc \in {"reserve", "flush", "tune", "wait", "get", "decide", "save", "exit"}
  /\ peak \in 0 .. NumPeaks /\ tuned \in 0 .. NumPeaks
  /\ timedout \in BOOLEAN /\ locked \in BOOLEAN /\ count \in 0 .. MaxCount
  /\ num_peaks \in 0 .. NumPeaks /\ num_locked \in 0 .. NumPeaks
  /\ result \in [Peaks -> {"none", "failed", "timeout", "notlocked", "saved"}]
  /\ verdict \in [Peaks -> {"none", "pending", "lock", "timedout", "silent"}]
  /\ emitted \in 0 .. MaxStatus
  /\ queue \in Seq([of: Peaks, lock: BOOLEAN, timedout: BOOLEAN]) /\ Len(queue) <= QueueSize
  /\ overflow \in BOOLEAN /\ edge \in BOOLEAN

(* A peak is counted and saved as locked only if the frontend locked on    *)
(* this very peak; a lock reported for an earlier one is never taken for   *)
(* it, although events arrive while scan_peak flushes and tunes.           *)
NoStaleLock == \A p \in Peaks : (pc = "save" /\ p = peak) \/ result[p] = "saved" => verdict[p] = "lock"

(* A timeout of the wait never races the tuner's answer: when a peak was   *)
(* given up although the tuner locked, the lock sits unread in the queue.  *)
LostLockIsUnread ==
  (pc = "reserve" /\ peak # 0 /\ tuned = peak
     /\ result[peak] = "timeout" /\ verdict[peak] = "lock")
  => \E i \in 1 .. Len(queue) : queue[i].lock

(* If the transponder locks, the output is saved (doc/tuning_scanning.md). *)
LockIsSaved ==
  \A p \in Peaks : verdict[p] = "lock" => result[p] \in {"none", "saved"}

phaseBar == IF pc \in {"reserve", "save", "exit"} THEN pc ELSE "scan"

savedBar == Cardinality({p \in Peaks : result[p] = "saved"})

Contract == INSTANCE PeakContract WITH phase <- phaseBar, num_saved <- savedBar

(* scan_peak is the scan that ParallelScan takes it for, and returns,      *)
(* whatever the frontend reports and however often.                        *)
ImplementsContract == Contract!Spec
===============================================================================
