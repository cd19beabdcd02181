--------------------------- MODULE PeakTuning_proofs ---------------------------
(***************************************************************************)
(* What scan_peak makes of the events of its frontend, for any number of   *)
(* peaks and status changes, any queue and any number of reads, and that   *)
(* it is the scan ParallelScan takes it for.                               *)
(***************************************************************************)
EXTENDS PeakTuning, SequenceTheorems, FiniteSetTheorems, TLAPS

Events == [of: Peaks, lock: BOOLEAN, timedout: BOOLEAN]

Queued == 1 .. Len(queue)

Reading  == {"wait", "get", "decide"}
Scanning == Reading \cup {"flush", "tune"}

(* A peak is counted once, when its scan has come to a decision, and the   *)
(* loop of scan_peak has a read left while it waits.                       *)
CountOK ==
  /\ num_locked <= num_peaks /\ num_peaks <= peak
  /\ pc \in Scanning => num_peaks < peak
  /\ pc \in {"wait", "get"} => count < MaxCount

(* The frontend is tuned to the peak that is read, and to an earlier one   *)
(* while it is flushed and tuned.                                          *)
TunedOK ==
  /\ tuned <= peak
  /\ pc \in {"flush", "tune"} => tuned < peak
  /\ pc \in Reading \cup {"save"} => tuned = peak /\ peak >= 1

(* A peak has no result before its scan has ended.                         *)
ResultOK ==
  \A p \in Peaks : p > peak \/ (p = peak /\ pc \in Scanning \cup {"save"}) => result[p] = "none"

(* If a tuning request discards the unread events, every event is about    *)
(* the peak the frontend is tuned to, and a lock it tells is one; so is    *)
(* the lock the thread has read.                                           *)
HonestQueue ==
  /\ \A i \in Queued : queue[i].of = tuned /\ (queue[i].lock => verdict[tuned] = "lock")
  /\ pc = "decide" /\ locked => verdict[peak] = "lock"
  /\ NoStaleLock

(* A lock of the tuner that the thread has not read is in the queue: what  *)
(* an overflow drops is older than the lock, or followed by another event  *)
(* that tells it.                                                          *)
Unread == \/ pc \in {"wait", "get"}
          \/ pc = "decide" /\ ~locked
          \/ pc = "reserve" /\ peak # 0 /\ result[peak] = "timeout"

LockKept ==
  Unread /\ tuned = peak /\ verdict[peak] = "lock" => \E i \in Queued : queue[i].lock

(* No event tells a lock and a timeout at once.                            *)
OneVerdict ==
  /\ \A i \in Queued : ~(queue[i].lock /\ queue[i].timedout)
  /\ pc = "decide" => ~(locked /\ timedout)

IInv ==
  /\ TypeOK /\ CountOK /\ TunedOK /\ ResultOK /\ OneVerdict
  /\ ClearsOnTune => HonestQueue
  /\ LockKept
-------------------------------------------------------------------------------
LEMMA Numbers ==
  /\ NumPeaks \in Nat /\ MaxCount \in Nat \ {0} /\ QueueSize \in Nat \ {0} /\ MaxStatus \in Nat
  /\ ClearsOnTune \in BOOLEAN
BY PeakTuningAssumption

LEMMA QueueType ==
  ASSUME TypeOK
  PROVE  /\ queue \in Seq(Events) /\ Len(queue) \in Nat /\ Len(queue) <= QueueSize
         /\ \A i \in Queued : queue[i] \in Events
<1>1. queue \in Seq(Events) /\ Len(queue) <= QueueSize
  BY DEF TypeOK, Events
<1> QED
  BY <1>1, LenProperties, ElementOfSeq DEF Queued

(* What is left after a read was in the queue before, and every event is   *)
(* left but the one that was read.                                         *)
LEMMA ReadStep ==
  ASSUME TypeOK, queue # <<>>, queue' = Tail(queue)
  PROVE  /\ queue' \in Seq(Events) /\ Len(queue') <= QueueSize
         /\ 1 \in Queued /\ Head(queue) = queue[1]
         /\ \A i \in Queued' : \E j \in Queued : queue'[i] = queue[j]
         /\ \A j \in Queued : j = 1 \/ \E i \in Queued' : queue'[i] = queue[j]
<1>1. /\ queue \in Seq(Events) /\ Len(queue) \in Nat /\ Len(queue) <= QueueSize
  BY QueueType
<1>2. /\ queue' \in Seq(Events) /\ Len(queue') = Len(queue) - 1
      /\ \A i \in 1 .. Len(queue') : queue'[i] = queue[i + 1]
  BY <1>1, HeadTailProperties
<1>3. Len(queue) \in Nat \ {0} /\ QueueSize \in Nat
  BY <1>1, EmptySeq, Numbers, Zenon
<1>4. \A i \in 1 .. Len(queue') : i + 1 \in 1 .. Len(queue) /\ queue'[i] = queue[i + 1]
  BY <1>2, <1>3
<1>5. \A j \in 1 .. Len(queue) : j = 1 \/ (j - 1 \in 1 .. Len(queue') /\ queue'[j - 1] = queue[j])
  BY <1>2, <1>3
<1>6. Len(queue') <= QueueSize /\ 1 \in 1 .. Len(queue)
  BY <1>1, <1>2, <1>3
<1>7. Head(queue) = queue[1]
  BY <1>1
<1> QED
  BY <1>2, <1>4, <1>5, <1>6, <1>7 DEF Queued

(* What is in the queue when an event has arrived.                         *)
LEMMA ArriveStep ==
  ASSUME TypeOK, NEW e \in Events, Arrive(e)
  PROVE  /\ queue' \in Seq(Events) /\ Len(queue') <= QueueSize
         /\ overflow' \in BOOLEAN /\ edge' = TRUE
         /\ \A i \in Queued' : queue'[i] = e \/ \E j \in Queued : queue'[i] = queue[j]
         /\ \E i \in Queued' : queue'[i] = e
<1>1. queue \in Seq(Events) /\ Len(queue) \in Nat /\ Len(queue) <= QueueSize /\ QueueSize \in Nat \ {0}
  BY QueueType, Numbers
<1>2. CASE Len(queue) < QueueSize
  <2>1. queue' = Append(queue, e) /\ overflow' = overflow /\ edge' = TRUE
    BY <1>2 DEF Arrive
  <2>2. /\ queue' \in Seq(Events) /\ Len(queue') = Len(queue) + 1
        /\ \A i \in 1 .. Len(queue) : queue'[i] = queue[i]
        /\ queue'[Len(queue) + 1] = e
    BY <1>1, <2>1, AppendProperties
  <2>3. /\ \A i \in 1 .. Len(queue') : i = Len(queue) + 1 \/ i \in 1 .. Len(queue)
        /\ Len(queue) + 1 \in 1 .. Len(queue') /\ Len(queue') <= QueueSize
    BY <1>1, <1>2, <2>2
  <2> QED
    BY <2>1, <2>2, <2>3 DEF Queued, TypeOK
<1>3. CASE ~(Len(queue) < QueueSize)
  <2>1. queue' = Append(Tail(queue), e) /\ overflow' = TRUE /\ edge' = TRUE
    BY <1>3 DEF Arrive
  <2>2. queue # <<>> /\ Len(queue) = QueueSize
    BY <1>1, <1>3, EmptySeq
  <2> DEFINE rest == Tail(queue)
  <2>3. /\ rest \in Seq(Events) /\ Len(rest) = Len(queue) - 1
        /\ \A i \in 1 .. Len(rest) : rest[i] = queue[i + 1]
    BY <1>1, <2>2, HeadTailProperties
  <2>4. /\ queue' \in Seq(Events) /\ Len(queue') = Len(rest) + 1
        /\ \A i \in 1 .. Len(rest) : queue'[i] = rest[i]
        /\ queue'[Len(rest) + 1] = e
    BY <2>1, <2>3, AppendProperties
  <2> HIDE DEF rest
  <2>5. \A i \in 1 .. Len(queue') :
          i = Len(rest) + 1 \/ (i + 1 \in 1 .. Len(queue) /\ queue'[i] = queue[i + 1])
    BY <1>1, <2>3, <2>4
  <2>6. Len(rest) + 1 \in 1 .. Len(queue') /\ Len(queue') <= QueueSize
    BY <1>1, <2>2, <2>3, <2>4
  <2> QED
    BY <2>1, <2>4, <2>5, <2>6, Zenon DEF Queued
<1> QED
  BY <1>2, <1>3

(* The frontend is tuned to a peak, whose verdict has a type.              *)
LEMMA TunedType ==
  ASSUME TypeOK, tuned # 0
  PROVE  tuned \in Peaks /\ verdict[tuned] \in {"none", "pending", "lock", "timedout", "silent"}
<1>1. tuned \in Peaks
  BY Numbers DEF TypeOK, Peaks
<1> QED
  BY <1>1 DEF TypeOK

(* A status change tells the lock of the peak that is tuned.               *)
LEMMA StatusStep ==
  ASSUME IInv, DriverStatus
  PROVE  IInv'
<1> USE DEF IInv
<1> DEFINE e == Event(tuned, verdict[tuned] = "lock", FALSE)
<1>1. tuned # 0 /\ emitted < MaxStatus /\ emitted' = emitted + 1 /\ UNCHANGED <<threadVars, tuned, verdict>>
  BY DEF DriverStatus
<1>2. tuned \in Peaks
  BY <1>1, TunedType
<1>3. e.of = tuned /\ e.lock = (verdict[tuned] = "lock") /\ ~e.timedout /\ e \in Events
  BY <1>2 DEF Event, Events
<1>4. Arrive(e)
  BY DEF DriverStatus
<1> HIDE DEF e
<1>5. /\ queue' \in Seq(Events) /\ Len(queue') <= QueueSize /\ overflow' \in BOOLEAN /\ edge' = TRUE
      /\ \A i \in Queued' : queue'[i] = e \/ \E j \in Queued : queue'[i] = queue[j]
      /\ \E i \in Queued' : queue'[i] = e
  BY <1>3, <1>4, ArriveStep
<1>6. TypeOK'
  <2>1. emitted' \in 0 .. MaxStatus
    BY <1>1, Numbers DEF TypeOK
  <2>2. edge' \in BOOLEAN
    BY <1>5, Zenon
  <2> QED
    BY <1>1, <1>5, <2>1, <2>2 DEF TypeOK, threadVars, Events
<1>7. CountOK' /\ TunedOK' /\ ResultOK' /\ OneVerdict'
  BY <1>1, <1>3, <1>5 DEF CountOK, TunedOK, ResultOK, OneVerdict, threadVars
<1>8. ASSUME ClearsOnTune PROVE HonestQueue'
  <2>1. \A i \in Queued' : queue'[i].of = tuned /\ (queue'[i].lock => verdict[tuned] = "lock")
    BY <1>3, <1>5, <1>8 DEF HonestQueue
  <2> QED
    BY <1>1, <1>8, <2>1 DEF HonestQueue, NoStaleLock, threadVars
<1>9. LockKept'
  <2>1. verdict[tuned] = "lock" => \E i \in Queued' : queue'[i].lock
    BY <1>3, <1>5
  <2> QED
    BY <1>1, <2>1 DEF LockKept, threadVars
<1> QED
  BY <1>1, <1>6, <1>7, <1>8, <1>9

(* A verdict is the first event that tells a lock.                         *)
LEMMA VerdictStep ==
  ASSUME IInv, NEW v \in {"lock", "timedout", "silent"}, DriverVerdict(v)
  PROVE  IInv'
<1> USE DEF IInv
<1> DEFINE e == Event(tuned, v = "lock", v = "timedout")
<1>1. /\ tuned # 0 /\ verdict[tuned] = "pending" /\ verdict' = [verdict EXCEPT ![tuned] = v]
      /\ UNCHANGED <<threadVars, tuned, emitted>>
  BY DEF DriverVerdict
<1>2. tuned \in Peaks /\ verdict'[tuned] = v /\ \A p \in Peaks : p # tuned => verdict'[p] = verdict[p]
  BY <1>1, TunedType DEF TypeOK
<1>3. e.of = tuned /\ e.lock = (v = "lock") /\ ~(e.lock /\ e.timedout) /\ e \in Events
  BY <1>2 DEF Event, Events
<1>4. /\ queue' \in Seq(Events) /\ Len(queue') <= QueueSize /\ overflow' \in BOOLEAN /\ edge' \in BOOLEAN
      /\ \A i \in Queued' : queue'[i] = e \/ \E j \in Queued : queue'[i] = queue[j]
      /\ (v = "lock" => \E i \in Queued' : queue'[i] = e)
  <2>1. CASE v = "silent"
    <3>1. UNCHANGED <<queue, overflow, edge>>
      BY <2>1 DEF DriverVerdict
    <3> QED
      BY <2>1, <3>1, QueueType DEF TypeOK, Queued
  <2>2. CASE v # "silent"
    <3>1. Arrive(e)
      BY <2>2 DEF DriverVerdict
    <3> HIDE DEF e
    <3>2. /\ queue' \in Seq(Events) /\ Len(queue') <= QueueSize /\ overflow' \in BOOLEAN /\ edge' = TRUE
          /\ \A i \in Queued' : queue'[i] = e \/ \E j \in Queued : queue'[i] = queue[j]
          /\ \E i \in Queued' : queue'[i] = e
      BY <1>3, <3>1, ArriveStep
    <3>3. edge' \in BOOLEAN
      BY <3>2, Zenon
    <3> QED
      BY <3>2, <3>3
  <2> QED
    BY <2>1, <2>2
<1> HIDE DEF e
<1>5. TypeOK'
  <2>1. verdict' \in [Peaks -> {"none", "pending", "lock", "timedout", "silent"}]
    BY <1>1, <1>2 DEF TypeOK
  <2> QED
    BY <1>1, <1>4, <2>1 DEF TypeOK, threadVars, Events
<1>6. CountOK' /\ TunedOK' /\ ResultOK' /\ OneVerdict'
  BY <1>1, <1>3, <1>4 DEF CountOK, TunedOK, ResultOK, OneVerdict, threadVars
<1>7. ASSUME ClearsOnTune PROVE HonestQueue'
  <2>1. \A i \in Queued' : queue'[i].of = tuned /\ (queue'[i].lock => verdict'[tuned] = "lock")
    BY <1>1, <1>2, <1>3, <1>4, <1>7 DEF HonestQueue
  <2>2. pc = "decide" /\ locked => verdict'[peak] = "lock"
    BY <1>1, <1>2, <1>7 DEF HonestQueue, TunedOK, Reading
  <2>3. \A p \in Peaks : verdict[p] = "lock" => verdict'[p] = "lock"
    BY <1>1, <1>2
  <2> QED
    BY <1>1, <1>7, <2>1, <2>2, <2>3 DEF HonestQueue, NoStaleLock, threadVars
<1>8. LockKept'
  <2>1. verdict'[tuned] = "lock" => \E i \in Queued' : queue'[i].lock
    BY <1>2, <1>3, <1>4
  <2> QED
    BY <1>1, <2>1 DEF LockKept, threadVars
<1> QED
  BY <1>1, <1>5, <1>6, <1>7, <1>8

LEMMA BeginStep ==
  ASSUME IInv, BeginPeak
  PROVE  IInv'
<1> USE DEF IInv
<1>1. /\ pc = "reserve" /\ pc' = "flush" /\ peak < NumPeaks /\ peak' = peak + 1
      /\ UNCHANGED <<timedout, locked, count, num_peaks, num_locked, result,
                     tuned, verdict, emitted, queue, overflow, edge>>
  BY DEF BeginPeak, driverVars
<1>2. /\ peak \in Nat /\ peak' \in 0 .. NumPeaks /\ peak < peak'
      /\ num_peaks \in Nat /\ num_locked \in Nat /\ tuned \in Nat
  BY <1>1, Numbers DEF TypeOK
<1>3. TypeOK'
  BY <1>1, <1>2 DEF TypeOK
<1>4. CountOK' /\ TunedOK'
  BY <1>1, <1>2 DEF CountOK, TunedOK, Scanning, Reading
<1>5. ResultOK'
  <2>1. \A p \in Peaks : p > peak' \/ p = peak' => p > peak
    BY <1>2 DEF Peaks
  <2> QED
    BY <1>1, <2>1 DEF ResultOK
<1>6. ClearsOnTune => HonestQueue'
  BY <1>1 DEF HonestQueue, NoStaleLock, Queued
<1>7. LockKept' /\ OneVerdict'
  BY <1>1 DEF LockKept, Unread, OneVerdict, Queued
<1> QED
  BY <1>1, <1>3, <1>4, <1>5, <1>6, <1>7

(* Flushing takes events away and is over before the peak is tuned.        *)
LEMMA FlushStep ==
  ASSUME IInv, FlushOne \/ FlushEnds
  PROVE  IInv'
<1> USE DEF IInv
<1>1. /\ pc = "flush" /\ pc' \in {"flush", "tune"}
      /\ UNCHANGED <<peak, timedout, locked, count, num_peaks, num_locked, result,
                     tuned, verdict, emitted, edge>>
  BY DEF FlushOne, FlushEnds, threadVars
<1>2. /\ queue' \in Seq(Events) /\ Len(queue') <= QueueSize /\ overflow' \in BOOLEAN
      /\ \A i \in Queued' : \E j \in Queued : queue'[i] = queue[j]
  <2>1. CASE FlushOne
    <3>1. queue # <<>> /\ queue' = Tail(queue) /\ overflow' = overflow
      BY <2>1 DEF FlushOne, CanRead
    <3> QED
      BY <3>1, ReadStep DEF TypeOK
  <2>2. CASE FlushEnds
    BY <2>2, QueueType DEF FlushEnds, Queued
  <2> QED
    BY <2>1, <2>2
<1>3. TypeOK'
  BY <1>1, <1>2 DEF TypeOK, Events
<1>4. CountOK' /\ TunedOK' /\ ResultOK'
  BY <1>1 DEF CountOK, TunedOK, ResultOK, Scanning, Reading
<1>5. ClearsOnTune => HonestQueue'
  BY <1>1, <1>2 DEF HonestQueue, NoStaleLock
<1>6. LockKept' /\ OneVerdict'
  BY <1>1, <1>2 DEF LockKept, Unread, OneVerdict
<1> QED
  BY <1>1, <1>3, <1>4, <1>5, <1>6

(* The peak is tuned anew: what the tuner has told of others is gone if    *)
(* the request discards the unread events.                                 *)
LEMMA TuneStep ==
  ASSUME IInv, Tune
  PROVE  IInv'
<1> USE DEF IInv
<1>1. /\ pc = "tune" /\ pc' = "wait" /\ tuned' = peak /\ emitted' = 0
      /\ verdict' = [verdict EXCEPT ![peak] = "pending"]
      /\ timedout' = FALSE /\ locked' = FALSE /\ count' = 0
      /\ UNCHANGED <<peak, num_peaks, num_locked, result, edge>>
  BY DEF Tune
<1>2. peak \in Peaks /\ peak >= 1 /\ tuned < peak
  BY <1>1, Numbers DEF TypeOK, TunedOK, Peaks
<1>3. verdict'[peak] = "pending" /\ \A p \in Peaks : p # peak => verdict'[p] = verdict[p]
  BY <1>1, <1>2 DEF TypeOK
<1>4. /\ queue' \in Seq(Events) /\ Len(queue') <= QueueSize /\ overflow' \in BOOLEAN
      /\ (ClearsOnTune => Queued' = {}) /\ (~ClearsOnTune => queue' = queue)
  <2>1. CASE ClearsOnTune
    <3>1. queue' = <<>> /\ overflow' = FALSE
      BY <2>1 DEF Tune
    <3>2. <<>> \in Seq(Events) /\ Len(<<>>) = 0
      BY EmptySeq
    <3>3. Len(queue') = 0 /\ 1 .. 0 = {}
      BY <3>1, <3>2
    <3>4. Queued' = {}
      BY <3>3 DEF Queued
    <3>5. 0 <= QueueSize
      BY Numbers
    <3>6. overflow' \in BOOLEAN
      BY <3>1, Zenon
    <3> QED
      BY <2>1, <3>1, <3>2, <3>4, <3>5, <3>6, Zenon
  <2>2. CASE ~ClearsOnTune
    BY <2>2, QueueType DEF Tune, TypeOK
  <2> QED
    BY <2>1, <2>2
<1>5. TypeOK'
  <2>1. verdict' \in [Peaks -> {"none", "pending", "lock", "timedout", "silent"}]
    BY <1>1, <1>2 DEF TypeOK
  <2>2. count' \in 0 .. MaxCount /\ emitted' \in 0 .. MaxStatus
    BY <1>1, Numbers
  <2>3. timedout' \in BOOLEAN /\ locked' \in BOOLEAN
    BY <1>1, Zenon
  <2> QED
    BY <1>1, <1>4, <2>1, <2>2, <2>3 DEF TypeOK, Events
<1>6. CountOK' /\ TunedOK' /\ ResultOK'
  BY <1>1, <1>2, Numbers DEF CountOK, TunedOK, ResultOK, Scanning, Reading, TypeOK
<1>7. ASSUME ClearsOnTune PROVE HonestQueue'
  <2>1. result[peak] = "none"
    BY <1>1, <1>2 DEF ResultOK, Scanning
  <2>2. NoStaleLock'
    BY <1>1, <1>3, <1>7, <2>1 DEF HonestQueue, NoStaleLock
  <2> QED
    BY <1>1, <1>4, <1>7, <2>2 DEF HonestQueue
<1>8. LockKept' /\ OneVerdict'
  BY <1>1, <1>3, <1>4 DEF LockKept, OneVerdict, Queued
<1> QED
  BY <1>1, <1>5, <1>6, <1>7, <1>8

(* A scan that ends without a lock, and the end of the program.            *)
LEMMA EndStep ==
  ASSUME IInv, TuneFails \/ Fatal \/ EpollTimesOut \/ DecideTimedOut \/ DecideNotLocked
  PROVE  IInv'
<1> USE DEF IInv
<1>1. /\ pc \in Scanning \cup {"save"}
      /\ UNCHANGED <<peak, locked, count, num_locked, tuned, verdict, emitted, queue, overflow, edge>>
      /\ timedout' \in {timedout, TRUE}
      /\ num_peaks' = num_peaks \/ (num_peaks' = num_peaks + 1 /\ pc \in Scanning)
  BY DEF TuneFails, Fatal, EpollTimesOut, DecideTimedOut, DecideNotLocked, Scanning, Reading, driverVars
<1>2. \/ pc' = "exit" /\ result' = result
      \/ /\ pc' = "reserve" /\ pc # "save"
         /\ \E how \in {"failed", "timeout", "notlocked"} :
              /\ result' = [result EXCEPT ![peak] = how]
              /\ how = "timeout" => pc = "wait" \/ (pc = "decide" /\ timedout)
  BY DEF TuneFails, Fatal, EpollTimesOut, DecideTimedOut, DecideNotLocked, Return, GiveUp
<1>3. peak \in Peaks /\ num_peaks \in Nat /\ num_locked \in Nat /\ tuned \in Nat
  BY <1>1, Numbers DEF TypeOK, TunedOK, Scanning, Reading, Peaks
<1>4. \A p \in Peaks : p # peak => result'[p] = result[p]
  BY <1>2, <1>3 DEF TypeOK
<1>5. result' \in [Peaks -> {"none", "failed", "timeout", "notlocked", "saved"}]
  BY <1>2, <1>3 DEF TypeOK
<1>6. pc' \in {"reserve", "exit"} /\ (pc' = "reserve" => result'[peak] # "saved")
  BY <1>2, <1>3 DEF TypeOK
<1>7. /\ num_peaks' \in Nat /\ num_peaks <= num_peaks' /\ num_peaks' <= peak
  BY <1>1, <1>3 DEF CountOK, Peaks
<1>8. TypeOK'
  <2>1. num_peaks' \in 0 .. NumPeaks
    BY <1>3, <1>7, Numbers DEF Peaks
  <2>2. timedout' \in BOOLEAN
    BY <1>1 DEF TypeOK
  <2> QED
    BY <1>1, <1>5, <1>6, <2>1, <2>2 DEF TypeOK
<1>9. CountOK' /\ TunedOK'
  BY <1>1, <1>3, <1>6, <1>7 DEF CountOK, TunedOK, Scanning, Reading, Peaks
<1>10. ResultOK'
  <2>1. \A p \in Peaks : p > peak => p # peak
    BY <1>3 DEF Peaks
  <2> QED
    BY <1>1, <1>4, <1>6, <2>1 DEF ResultOK, Scanning, Reading
<1>11. ASSUME ClearsOnTune PROVE HonestQueue'
  <2>1. NoStaleLock'
    BY <1>1, <1>2, <1>4, <1>6, <1>11 DEF HonestQueue, NoStaleLock
  <2> QED
    BY <1>1, <1>6, <1>11, <2>1 DEF HonestQueue, Queued
<1>12. OneVerdict'
  BY <1>1, <1>6 DEF OneVerdict, Queued
<1>13. LockKept'
  <2>1. SUFFICES ASSUME pc' = "reserve", result'[peak] = "timeout", tuned = peak, verdict[peak] = "lock"
                 PROVE  \E i \in Queued : queue[i].lock
    BY <1>1, <1>6 DEF LockKept, Unread, Queued
  <2>2. pc = "wait" \/ (pc = "decide" /\ timedout)
    BY <1>2, <1>3, <2>1 DEF TypeOK
  <2> QED
    BY <2>1, <2>2 DEF LockKept, Unread, OneVerdict
<1> QED
  BY <1>8, <1>9, <1>10, <1>11, <1>12, <1>13

(* Waiting, and a read that fails, lose nothing.                           *)
LEMMA WaitStep ==
  ASSUME IInv, EpollReturns \/ GetEventFails
  PROVE  IInv'
<1> USE DEF IInv
<1>1. /\ pc \in {"wait", "get"} /\ pc' \in {"wait", "get"}
      /\ UNCHANGED <<peak, timedout, locked, count, num_peaks, num_locked, result,
                     tuned, verdict, emitted, queue>>
      /\ edge' \in {edge, FALSE} /\ overflow' \in {overflow, FALSE}
  BY DEF EpollReturns, GetEventFails
<1>2. TypeOK'
  BY <1>1 DEF TypeOK
<1>3. CountOK' /\ TunedOK' /\ ResultOK' /\ OneVerdict' /\ LockKept'
  BY <1>1 DEF CountOK, TunedOK, ResultOK, OneVerdict, LockKept, Unread, Scanning, Reading, Queued
<1>4. ClearsOnTune => HonestQueue'
  BY <1>1 DEF HonestQueue, NoStaleLock, Queued
<1> QED
  BY <1>1, <1>2, <1>3, <1>4

(* What the thread reads it decides on; an unread lock is behind it.       *)
LEMMA GetStep ==
  ASSUME IInv, GetEvent
  PROVE  IInv'
<1> USE DEF IInv
<1> DEFINE e == Head(queue)
<1>1. /\ pc = "get" /\ queue # <<>> /\ queue' = Tail(queue)
      /\ timedout' = e.timedout /\ locked' = e.lock /\ count' = count + 1
      /\ pc' = (IF GoesOn(count', timedout', locked') THEN "wait" ELSE "decide")
      /\ UNCHANGED <<peak, num_peaks, num_locked, result, tuned, verdict, emitted, overflow, edge>>
  BY DEF GetEvent, CanRead, LockBit
<1>2. /\ queue' \in Seq(Events) /\ Len(queue') <= QueueSize
      /\ 1 \in Queued /\ e = queue[1]
      /\ \A i \in Queued' : \E j \in Queued : queue'[i] = queue[j]
      /\ \A j \in Queued : j = 1 \/ \E i \in Queued' : queue'[i] = queue[j]
  BY <1>1, ReadStep
<1>3. e \in Events
  BY <1>2, QueueType
<1>4. timedout' \in BOOLEAN /\ locked' \in BOOLEAN
  BY <1>1, <1>3 DEF Events
<1> HIDE DEF e
<1>5. count \in Nat /\ count < MaxCount /\ MaxCount \in Nat
  BY <1>1, Numbers DEF CountOK, TypeOK
<1>6. pc' \in {"wait", "decide"} /\ (pc' = "wait" => count' < MaxCount /\ ~locked')
  BY <1>1 DEF GoesOn
<1>7. TypeOK'
  <2>1. count' \in 0 .. MaxCount
    BY <1>1, <1>5
  <2> QED
    BY <1>1, <1>2, <1>4, <1>6, <2>1 DEF TypeOK, Events
<1>8. CountOK' /\ TunedOK' /\ ResultOK'
  BY <1>1, <1>6 DEF CountOK, TunedOK, ResultOK, Scanning, Reading
<1>9. OneVerdict'
  BY <1>1, <1>2 DEF OneVerdict
<1>10. ASSUME ClearsOnTune PROVE HonestQueue'
  <2>1. tuned = peak
    BY <1>1 DEF TunedOK, Reading
  <2>2. locked' => verdict[peak] = "lock"
    BY <1>1, <1>2, <1>10, <2>1 DEF HonestQueue
  <2>3. \A i \in Queued' : queue'[i].of = tuned /\ (queue'[i].lock => verdict[tuned] = "lock")
    BY <1>2, <1>10 DEF HonestQueue
  <2> QED
    BY <1>1, <1>6, <1>10, <2>2, <2>3 DEF HonestQueue, NoStaleLock
<1>11. LockKept'
  <2>1. SUFFICES ASSUME ~locked', tuned = peak, verdict[peak] = "lock"
                 PROVE  \E i \in Queued' : queue'[i].lock
    BY <1>1, <1>6 DEF LockKept, Unread
  <2>2. PICK j \in Queued : queue[j].lock
    BY <1>1, <2>1 DEF LockKept, Unread
  <2>3. j # 1
    BY <1>1, <1>2, <2>1, <2>2
  <2> QED
    BY <1>2, <2>2, <2>3
<1> QED
  BY <1>7, <1>8, <1>9, <1>10, <1>11

(* A lock that was read is counted and saved.                              *)
LEMMA LockedStep ==
  ASSUME IInv, DecideLocked \/ SaveInfo
  PROVE  IInv'
<1> USE DEF IInv
<1>1. UNCHANGED <<peak, timedout, locked, count, tuned, verdict, emitted, queue, overflow, edge>>
  BY DEF DecideLocked, SaveInfo, driverVars
<1>2. /\ pc \in {"decide", "save"}
      /\ (pc = "decide" => locked /\ pc' = "save" /\ result' = result
                           /\ num_peaks' = num_peaks + 1 /\ num_locked' = num_locked + 1)
      /\ (pc = "save" => /\ pc' = "reserve" /\ result' = [result EXCEPT ![peak] = "saved"]
                         /\ num_peaks' = num_peaks /\ num_locked' = num_locked)
  BY DEF DecideLocked, SaveInfo, Return
<1>3. /\ peak \in Peaks /\ tuned = peak /\ num_peaks \in Nat /\ num_locked \in Nat
      /\ NumPeaks \in Nat /\ peak \in Nat /\ peak <= NumPeaks
  BY <1>2, Numbers DEF TypeOK, TunedOK, Reading, Peaks
<1>4. /\ num_locked' \in Nat /\ num_peaks' \in Nat
      /\ num_locked' <= num_peaks' /\ num_peaks' <= peak
  BY <1>2, <1>3 DEF CountOK, Scanning, Reading
<1>5. /\ result' \in [Peaks -> {"none", "failed", "timeout", "notlocked", "saved"}]
      /\ \A p \in Peaks : p # peak => result'[p] = result[p]
      /\ (pc = "save" => result'[peak] = "saved")
  BY <1>2, <1>3 DEF TypeOK
<1>6. TypeOK'
  <2>1. num_locked' \in 0 .. NumPeaks /\ num_peaks' \in 0 .. NumPeaks
    BY <1>3, <1>4
  <2> QED
    BY <1>1, <1>2, <1>5, <2>1 DEF TypeOK
<1>7. CountOK' /\ TunedOK'
  BY <1>1, <1>2, <1>4 DEF CountOK, TunedOK, Scanning, Reading
<1>8. ResultOK'
  <2>1. \A p \in Peaks : p > peak => p # peak
    BY <1>3 DEF Peaks
  <2> QED
    BY <1>1, <1>2, <1>5, <2>1 DEF ResultOK, Scanning, Reading
<1>9. ASSUME ClearsOnTune PROVE HonestQueue'
  <2>1. verdict[peak] = "lock"
    BY <1>2, <1>3, <1>9 DEF HonestQueue, NoStaleLock
  <2>2. NoStaleLock'
    BY <1>1, <1>2, <1>5, <1>9, <2>1 DEF HonestQueue, NoStaleLock
  <2> QED
    BY <1>1, <1>2, <1>9, <2>2 DEF HonestQueue, Queued
<1>10. OneVerdict' /\ LockKept'
  BY <1>1, <1>2, <1>5 DEF OneVerdict, LockKept, Unread, Queued
<1> QED
  BY <1>6, <1>7, <1>8, <1>9, <1>10

LEMMA StutterStep ==
  ASSUME IInv, UNCHANGED vars
  PROVE  IInv'
<1> USE DEF IInv, vars, threadVars, driverVars
<1>1. TypeOK' /\ CountOK' /\ TunedOK' /\ ResultOK'
  BY DEF TypeOK, CountOK, TunedOK, ResultOK
<1>2. OneVerdict' /\ LockKept' /\ (ClearsOnTune => HonestQueue')
  BY DEF OneVerdict, LockKept, Unread, HonestQueue, NoStaleLock, Queued
<1> QED
  BY <1>1, <1>2

LEMMA InitStep ==
  ASSUME Init
  PROVE  IInv
<1> USE DEF Init
<1>1. <<>> \in Seq(Events) /\ Len(<<>>) = 0 /\ Queued = {}
  <2>1. <<>> \in Seq(Events) /\ Len(<<>>) = 0
    BY EmptySeq
  <2>2. 1 .. 0 = {}
    OBVIOUS
  <2> QED
    BY <2>1, <2>2 DEF Queued
<1>2. TypeOK
  <2>1. 0 \in 0 .. NumPeaks /\ 0 \in 0 .. MaxCount /\ 0 \in 0 .. MaxStatus /\ 0 <= QueueSize
    BY Numbers
  <2>2. timedout \in BOOLEAN /\ locked \in BOOLEAN /\ overflow \in BOOLEAN /\ edge \in BOOLEAN
    BY Zenon
  <2> QED
    BY <1>1, <2>1, <2>2 DEF TypeOK, Events
<1>3. CountOK /\ TunedOK /\ ResultOK /\ OneVerdict /\ LockKept
  BY <1>1 DEF CountOK, TunedOK, ResultOK, OneVerdict, LockKept, Unread, Scanning, Reading
<1>4. HonestQueue
  BY <1>1 DEF HonestQueue, NoStaleLock
<1> QED
  BY <1>2, <1>3, <1>4 DEF IInv

(* The inductive invariant holds in every reachable state.                 *)
THEOREM Invariance == Spec => []IInv
<1>1. IInv /\ [Next]_vars => IInv'
  BY BeginStep, FlushStep, TuneStep, EndStep, WaitStep, GetStep, LockedStep, StatusStep,
     VerdictStep, StutterStep, Zenon DEF Next, Thread, Driver, Finished
<1> QED
  BY <1>1, InitStep, PTL DEF Spec

(* The variables of the thread and of the frontend have their types.       *)
THEOREM TypeCorrect == Spec => []TypeOK
<1>1. IInv => TypeOK
  BY DEF IInv
<1> QED
  BY <1>1, Invariance, PTL

(* If a tuning request discards the unread events, no peak is counted or   *)
(* saved for the lock of another one.                                      *)
THEOREM NoLockIsStale ==
  ASSUME ClearsOnTune
  PROVE  Spec => []NoStaleLock
<1>1. IInv => NoStaleLock
  BY DEF IInv, HonestQueue
<1> QED
  BY <1>1, Invariance, PTL

(* A peak that is given up although the tuner locked has left the lock     *)
(* unread, whether a tuning request discards unread events or not.         *)
THEOREM LockIsUnread == Spec => []LostLockIsUnread
<1>1. IInv => LostLockIsUnread
  BY DEF IInv, LockKept, Unread, LostLockIsUnread, Queued
<1> QED
  BY <1>1, Invariance, PTL
-------------------------------------------------------------------------------
(* The refinement.  A result that is not "saved" leaves the lines that are *)
(* written; saving a peak that has none adds one.                          *)
LEMMA SavedCount ==
  ASSUME TypeOK, TypeOK', NEW p \in Peaks, result[p] = "none",
         NEW how \in {"failed", "timeout", "notlocked", "saved"},
         result' = [result EXCEPT ![p] = how]
  PROVE  savedBar' = IF how = "saved" THEN savedBar + 1 ELSE savedBar
<1> DEFINE saved == {q \in Peaks : result[q] = "saved"}
<1>1. IsFiniteSet(saved)
  <2>1. IsFiniteSet(Peaks)
    BY FS_Interval, Numbers DEF Peaks
  <2>2. saved \in SUBSET Peaks
    OBVIOUS
  <2> QED
    BY <2>1, <2>2, FS_Subset
<1>2. \A q \in Peaks : result'[q] = IF q = p THEN how ELSE result[q]
  BY DEF TypeOK
<1>3. p \notin saved
  OBVIOUS
<1>4. CASE how = "saved"
  <2>1. saved' = saved \cup {p}
    BY <1>2, <1>4
  <2> HIDE DEF saved
  <2>2. Cardinality(saved \cup {p}) = Cardinality(saved) + 1
    BY <1>1, <1>3, FS_AddElement
  <2>3. savedBar = Cardinality(saved) /\ savedBar' = Cardinality(saved')
    BY DEF savedBar, saved
  <2> QED
    BY <1>4, <2>1, <2>2, <2>3
<1>5. CASE how # "saved"
  <2>1. saved' = saved
    BY <1>2, <1>5
  <2> QED
    BY <1>5, <2>1 DEF savedBar
<1> QED
  BY <1>4, <1>5

(* Every step of the thread is a step of the contract or none, every step  *)
(* of the frontend is none.                                                *)
LEMMA StepSimulation ==
  ASSUME IInv, IInv', [Next]_vars
  PROVE  [Contract!Next]_(Contract!vars)
<1> USE DEF Contract!Next, Contract!vars
<1>1. CASE BeginPeak
  <2>1. savedBar' = savedBar
    BY <1>1 DEF BeginPeak, savedBar
  <2> QED
    BY <1>1, <2>1 DEF BeginPeak, Contract!Begin, phaseBar
<1>2. CASE FlushOne \/ FlushEnds \/ Tune \/ EpollReturns \/ GetEvent \/ GetEventFails
  <2>1. UNCHANGED <<num_peaks, num_locked, result>>
    BY <1>2 DEF FlushOne, FlushEnds, Tune, EpollReturns, GetEvent, GetEventFails, threadVars
  <2>2. phaseBar' = phaseBar
    BY <1>2 DEF FlushOne, FlushEnds, Tune, EpollReturns, GetEvent, GetEventFails, threadVars, phaseBar
  <2>3. savedBar' = savedBar
    BY <2>1 DEF savedBar
  <2> QED
    BY <2>1, <2>2, <2>3
<1>3. CASE TuneFails \/ EpollTimesOut \/ DecideTimedOut
  <2>1. /\ pc \in Scanning /\ pc' = "reserve" /\ UNCHANGED <<num_peaks, num_locked>>
        /\ \E how \in {"failed", "timeout"} : result' = [result EXCEPT ![peak] = how]
    BY <1>3 DEF TuneFails, EpollTimesOut, DecideTimedOut, Return, GiveUp, Scanning, Reading
  <2>2. peak \in Peaks /\ result[peak] = "none"
    BY <2>1, Numbers DEF IInv, TypeOK, TunedOK, ResultOK, Scanning, Reading, Peaks
  <2>3. savedBar' = savedBar
    BY <2>1, <2>2, SavedCount DEF IInv
  <2> QED
    BY <2>1, <2>3 DEF Contract!Skip, phaseBar, Scanning, Reading
<1>4. CASE DecideNotLocked
  <2>1. /\ pc = "decide" /\ pc' = "reserve" /\ num_peaks' = num_peaks + 1 /\ num_locked' = num_locked
        /\ result' = [result EXCEPT ![peak] = "notlocked"]
    BY <1>4 DEF DecideNotLocked, Return
  <2>2. peak \in Peaks /\ result[peak] = "none"
    BY <2>1, Numbers DEF IInv, TypeOK, TunedOK, ResultOK, Scanning, Reading, Peaks
  <2>3. savedBar' = savedBar
    BY <2>1, <2>2, SavedCount DEF IInv
  <2> QED
    BY <2>1, <2>3 DEF Contract!NotLocked, phaseBar
<1>5. CASE DecideLocked
  <2>1. savedBar' = savedBar
    BY <1>5 DEF DecideLocked, savedBar
  <2> QED
    BY <1>5, <2>1 DEF DecideLocked, Contract!Locked, phaseBar
<1>6. CASE SaveInfo
  <2>1. /\ pc = "save" /\ pc' = "reserve" /\ UNCHANGED <<num_peaks, num_locked>>
        /\ result' = [result EXCEPT ![peak] = "saved"]
    BY <1>6 DEF SaveInfo, Return
  <2>2. peak \in Peaks /\ result[peak] = "none"
    BY <2>1, Numbers DEF IInv, TypeOK, TunedOK, ResultOK, Peaks
  <2>3. savedBar' = savedBar + 1
    BY <2>1, <2>2, SavedCount DEF IInv
  <2> QED
    BY <2>1, <2>3 DEF Contract!Save, phaseBar
<1>7. CASE Fatal
  <2>1. savedBar' = savedBar
    BY <1>7 DEF Fatal, savedBar
  <2> QED
    BY <1>7, <2>1 DEF Fatal, Contract!Exit, phaseBar
<1>8. CASE Driver \/ UNCHANGED vars
  <2>1. UNCHANGED threadVars
    BY <1>8 DEF Driver, DriverStatus, DriverVerdict, vars
  <2> QED
    BY <2>1 DEF threadVars, phaseBar, savedBar
<1> QED
  BY <1>1, <1>2, <1>3, <1>4, <1>5, <1>6, <1>7, <1>8 DEF Next, Thread, Finished

(* scan_peak is the scan that ParallelScan takes it for: the safety half   *)
(* of ImplementsContract, for every number of peaks.                       *)
THEOREM RefinesContract == Spec => Contract!Init /\ [][Contract!Next]_(Contract!vars)
<1>1. Init => Contract!Init
  <2> SUFFICES ASSUME Init PROVE Contract!Init
    OBVIOUS
  <2>1. {p \in Peaks : result[p] = "saved"} = {}
    BY DEF Init
  <2>2. savedBar = 0
    BY <2>1, FS_EmptySet DEF savedBar
  <2> QED
    BY <2>2 DEF Init, Contract!Init, phaseBar
<1>2. IInv /\ IInv' /\ [Next]_vars => [Contract!Next]_(Contract!vars)
  BY StepSimulation
<1> QED
  BY <1>1, <1>2, Invariance, PTL DEF Spec
===============================================================================
