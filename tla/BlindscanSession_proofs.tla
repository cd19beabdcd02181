------------------------ MODULE BlindscanSession_proofs ------------------------
(***************************************************************************)
(* What a blindscan by the driver saves and reads, for every command line, *)
(* every number of transponders and status changes, and whatever the       *)
(* driver and the ioctls answer.                                           *)
(***************************************************************************)
EXTENDS BlindscanSession, SequenceTheorems, TLAPS

Events == [lock: BOOLEAN, done: BOOLEAN]

Queued == 1 .. Len(queue)

Scanning == {"wait", "get", "handle", "continue"}

AtTransponder == scan = "found" => at >= 1

(* If a scan command discards the unread events, an event that tells a     *)
(* lock is about the transponder the driver stands at.                     *)
HonestQueue ==
  /\ \A i \in Queued : queue[i].lock => scan = "found"
  /\ pc = "handle" /\ found => scan = "found"

(* Unless a read has failed, the driver is told to continue only from a    *)
(* transponder that was saved.                                             *)
SavedFirst ==
  ~failed => MovedOnIsSaved /\ (pc = "continue" => scan = "found" /\ <<pass, at>> \in lines)

IInv ==
  /\ TypeOK /\ AtTransponder
  /\ ClearsOnScan => HonestQueue /\ SavedFirst
-------------------------------------------------------------------------------
LEMMA Numbers ==
  /\ MaxFound \in Nat /\ MaxStatus \in Nat /\ MaxInterrupts \in Nat /\ QueueSize \in Nat \ {0}
  /\ ClearsOnScan \in BOOLEAN
BY BlindscanSessionAssumption

(* Every command line has a finite sequence of passes.                     *)
LEMMA PlanType ==
  ASSUME NEW r \in Requests
  PROVE  Len(SessionPlan(r)) \in Nat /\ (SessionPlan(r) # << >> => Len(SessionPlan(r)) >= 1)
<1> DEFINE Passes == [pol: {H, V}, start: Int, end: Int]
           range  == ScanRange(r.sys, r.lnb, r.start, r.end)
<1>1. r.start \in Int /\ r.end \in Int /\ lnb_universal_slof \in Int
  BY BlindscanSessionAssumption DEF lnb_universal_slof
<1>2. StartFreq(r.sys, r.lnb, r.start) \in Int /\ EndFreq(r.sys, r.lnb, r.end) \in Int
  BY <1>1 DEF StartFreq, EndFreq
<1>3. range[1] \in Int /\ range[2] \in Int
  BY <1>2 DEF ScanRange
<1> HIDE DEF range
<1>4. ASSUME NEW p \in {H, V}
      PROVE  BandPasses(p, range[1], range[2]) \in Seq(Passes)
  <2> DEFINE lower == [pol |-> p, start |-> range[1],
                       end |-> IF range[2] < lnb_universal_slof THEN range[2] ELSE lnb_universal_slof]
             upper == [pol |-> p, start |-> lnb_universal_slof, end |-> range[2]]
  <2>1. lower \in Passes /\ upper \in Passes
    BY <1>1, <1>3
  <2> HIDE DEF lower, upper, Passes
  <2>2. <<lower>> \in Seq(Passes) /\ <<upper>> \in Seq(Passes) /\ << >> \in Seq(Passes)
    BY <2>1, EmptySeq
  <2> DEFINE low  == IF range[1] < lnb_universal_slof THEN <<lower>> ELSE << >>
             high == IF range[2] > lnb_universal_slof THEN <<upper>> ELSE << >>
  <2>3. low \in Seq(Passes) /\ high \in Seq(Passes)
    BY <2>2
  <2>4. BandPasses(p, range[1], range[2]) = low \o high
    BY Zenon DEF BandPasses, lower, upper
  <2> QED
    BY <2>3, <2>4, ConcatProperties
<1> DEFINE Of(p) == IF p \in r.pols THEN BandPasses(p, range[1], range[2]) ELSE << >>
<1>5. SessionPlan(r) = Of(H) \o Of(V)
  BY Zenon DEF SessionPlan, range
<1> HIDE DEF Passes
<1>6. Of(H) \in Seq(Passes) /\ Of(V) \in Seq(Passes)
  BY <1>4, EmptySeq
<1> HIDE DEF Of
<1>7. SessionPlan(r) \in Seq(Passes)
  BY <1>5, <1>6, ConcatProperties
<1> QED
  BY <1>7, LenProperties, EmptySeq

LEMMA PassType ==
  ASSUME TypeOK
  PROVE  /\ Len(plan) \in Nat /\ pass \in Nat /\ pass >= 1
         /\ (pc \notin {"done", "exit"} => pass \in 1 .. Len(plan))
BY PlanType DEF TypeOK

LEMMA QueueType ==
  ASSUME TypeOK
  PROVE  /\ queue \in Seq(Events) /\ Len(queue) \in Nat /\ Len(queue) <= QueueSize
         /\ \A i \in Queued : queue[i] \in Events
<1>1. queue \in Seq(Events) /\ Len(queue) <= QueueSize
  BY DEF TypeOK, Events
<1> QED
  BY <1>1, LenProperties, ElementOfSeq DEF Queued

(* What is left after a read was in the queue before.                      *)
LEMMA TailStep ==
  ASSUME TypeOK, queue # <<>>, queue' = Tail(queue)
  PROVE  /\ queue' \in Seq(Events) /\ Len(queue') <= QueueSize
         /\ 1 \in Queued /\ Head(queue) = queue[1] /\ Head(queue) \in Events
         /\ \A i \in Queued' : \E j \in Queued : queue'[i] = queue[j]
<1>1. queue \in Seq(Events) /\ Len(queue) <= QueueSize /\ Len(queue) \in Nat
  BY QueueType
<1>2. /\ queue' \in Seq(Events) /\ Len(queue') = Len(queue) - 1 /\ Head(queue) \in Events
      /\ \A i \in 1 .. Len(queue') : queue'[i] = queue[i + 1]
  BY <1>1, HeadTailProperties
<1>3. Len(queue) \in Nat \ {0} /\ QueueSize \in Nat
  BY <1>1, EmptySeq, Numbers, Zenon
<1>4. \A i \in 1 .. Len(queue') : i + 1 \in 1 .. Len(queue) /\ queue'[i] = queue[i + 1]
  BY <1>2, <1>3
<1>5. Len(queue') <= QueueSize /\ 1 \in 1 .. Len(queue)
  BY <1>1, <1>2, <1>3
<1>6. Head(queue) = queue[1]
  BY <1>1
<1> QED
  BY <1>2, <1>4, <1>5, <1>6 DEF Queued

(* An event that arrives is the only new one, whether the queue overflows  *)
(* or not.                                                                 *)
LEMMA QueueAfter ==
  ASSUME TypeOK, NEW e \in Events, Arrive(e)
  PROVE  /\ queue' \in Seq(Events) /\ Len(queue') <= QueueSize
         /\ overflow' \in BOOLEAN /\ edge' \in BOOLEAN
         /\ \A i \in Queued' : queue'[i] = e \/ \E j \in Queued : queue'[i] = queue[j]
<1>1. queue \in Seq(Events) /\ Len(queue) \in Nat /\ Len(queue) <= QueueSize /\ QueueSize \in Nat \ {0}
  BY QueueType, Numbers
<1>2. edge' \in BOOLEAN
  BY Zenon DEF Arrive
<1>3. CASE Len(queue) < QueueSize
  <2>1. queue' = Append(queue, e) /\ overflow' = overflow
    BY <1>3 DEF Arrive
  <2>2. /\ queue' \in Seq(Events) /\ Len(queue') = Len(queue) + 1
        /\ \A i \in 1 .. Len(queue) : queue'[i] = queue[i]
        /\ queue'[Len(queue) + 1] = e
    BY <1>1, <2>1, AppendProperties
  <2>3. /\ \A i \in 1 .. Len(queue') : i = Len(queue) + 1 \/ i \in 1 .. Len(queue)
        /\ Len(queue') <= QueueSize
    BY <1>1, <1>3, <2>2
  <2> QED
    BY <1>2, <2>1, <2>2, <2>3 DEF Queued, TypeOK
<1>4. CASE ~(Len(queue) < QueueSize)
  <2>1. queue' = Append(Tail(queue), e) /\ overflow' = TRUE
    BY <1>4 DEF Arrive
  <2>2. queue # <<>> /\ Len(queue) = QueueSize
    BY <1>1, <1>4, EmptySeq
  <2> DEFINE rest == Tail(queue)
  <2>3. /\ rest \in Seq(Events) /\ Len(rest) = Len(queue) - 1
        /\ \A i \in 1 .. Len(rest) : rest[i] = queue[i + 1]
    BY <1>1, <2>2, HeadTailProperties
  <2>4. /\ queue' \in Seq(Events) /\ Len(queue') = Len(rest) + 1
        /\ \A i \in 1 .. Len(rest) : queue'[i] = rest[i]
        /\ queue'[Len(rest) + 1] = e
    BY <2>1, <2>3, AppendProperties
  <2> HIDE DEF rest
  <2>5. \A i \in 1 .. Len(queue') :
          i = Len(rest) + 1 \/ (i + 1 \in 1 .. Len(queue) /\ queue'[i] = queue[i + 1])
    BY <1>1, <2>3, <2>4
  <2>6. Len(queue') <= QueueSize
    BY <1>1, <2>2, <2>3, <2>4
  <2>7. overflow' \in BOOLEAN
    BY <2>1, Zenon
  <2> QED
    BY <1>2, <2>4, <2>5, <2>6, <2>7, Zenon DEF Queued
<1> QED
  BY <1>3, <1>4

(* A command that discards the unread events leaves an empty queue.        *)
LEMMA CommandedStep ==
  ASSUME TypeOK, Commanded
  PROVE  /\ queue' \in Seq(Events) /\ Len(queue') <= QueueSize
         /\ overflow' \in BOOLEAN /\ edge' \in BOOLEAN /\ status' \in 0 .. MaxStatus
         /\ (ClearsOnScan => Queued' = {})
<1>1. edge' \in BOOLEAN /\ status' \in 0 .. MaxStatus
  BY Numbers DEF Commanded, TypeOK
<1>2. CASE ClearsOnScan
  <2>1. queue' = <<>> /\ overflow' = FALSE
    BY <1>2 DEF Commanded
  <2>2. <<>> \in Seq(Events) /\ Len(<<>>) = 0
    BY EmptySeq
  <2>3. Len(queue') = 0 /\ 1 .. 0 = {} /\ 0 <= QueueSize
    BY <2>1, <2>2, Numbers
  <2>4. Queued' = {}
    BY <2>3 DEF Queued
  <2>5. overflow' \in BOOLEAN
    BY <2>1, Zenon
  <2> QED
    BY <1>1, <2>1, <2>2, <2>3, <2>4, <2>5, Zenon
<1>3. CASE ~ClearsOnScan
  BY <1>1, <1>3, QueueType DEF Commanded, TypeOK
<1> QED
  BY <1>2, <1>3

(* What is said of the saved lines stays true while their variables do not *)
(* change and the program stays where it was said.                         *)
LEMMA SavedFrame ==
  ASSUME SavedFirst, UNCHANGED <<pass, scan, at, lines, failed>>,
         pc' \in Scanning \cup {"next"} => pc \in Scanning \cup {"next"},
         pc' = "continue" => pc = "continue"
  PROVE  SavedFirst'
BY DEF SavedFirst, MovedOnIsSaved, Left, Scanning

-------------------------------------------------------------------------------
(* The driver.  It leaves no transponder behind by itself.                 *)
LEMMA FindsStep ==
  ASSUME IInv, DriverFinds
  PROVE  IInv'
<1> USE DEF IInv
<1> DEFINE e == [lock |-> TRUE, done |-> FALSE]
<1>1. /\ scan = "searching" /\ at < MaxFound /\ scan' = "found" /\ at' = at + 1 /\ Arrive(e)
      /\ UNCHANGED <<request, plan, pc, pass, found, done, first, spectra, failed, dish_ret, reserved,
                     voltage, tone, status, interrupts, lines>>
  BY DEF DriverFinds, bandVars, dishVars
<1>2. e \in Events
  BY DEF Events
<1>3. /\ queue' \in Seq(Events) /\ Len(queue') <= QueueSize
      /\ overflow' \in BOOLEAN /\ edge' \in BOOLEAN
  BY <1>1, <1>2, QueueAfter
<1>4. at \in Nat /\ at' \in 0 .. MaxFound /\ at' >= 1 /\ 1 .. at' - 1 = 1 .. at
  BY <1>1, Numbers DEF TypeOK
<1>5. TypeOK'
  BY <1>1, <1>3, <1>4 DEF TypeOK, Events
<1>6. ASSUME ClearsOnScan PROVE HonestQueue' /\ SavedFirst'
  <2>1. HonestQueue'
    BY <1>1 DEF HonestQueue
  <2>2. Left' = Left
    BY <1>1, <1>4 DEF Left
  <2>3. SavedFirst'
    BY <1>1, <1>6, <2>2 DEF SavedFirst, MovedOnIsSaved
  <2> QED
    BY <2>1, <2>3
<1> QED
  BY <1>1, <1>4, <1>5, <1>6 DEF AtTransponder

LEMMA EndsStep ==
  ASSUME IInv, DriverEnds \/ DriverStatus
  PROVE  IInv'
<1> USE DEF IInv
<1>1. PICK e \in Events :
        /\ Arrive(e) /\ (e.lock => scan = "found" /\ scan' = "found")
  <2>1. CASE DriverEnds
    <3>1. [lock |-> FALSE, done |-> TRUE] \in Events /\ ~[lock |-> FALSE, done |-> TRUE].lock
      BY DEF Events
    <3> QED
      BY <2>1, <3>1 DEF DriverEnds
  <2>2. CASE DriverStatus
    <3>1. PICK locked \in BOOLEAN :
            (locked => scan = "found") /\ Arrive([lock |-> locked, done |-> FALSE]) /\ scan' = scan
      BY <2>2 DEF DriverStatus
    <3>2. [lock |-> locked, done |-> FALSE] \in Events /\ [lock |-> locked, done |-> FALSE].lock = locked
      BY DEF Events
    <3> QED
      BY <3>1, <3>2
  <2> QED
    BY <2>1, <2>2
<1>2. /\ UNCHANGED <<request, plan, pc, pass, found, done, first, spectra, failed, dish_ret, reserved,
                     voltage, tone, at, interrupts, lines>>
      /\ scan' = scan \/ (scan = "searching" /\ scan' = "ended")
      /\ status' = status \/ (status < MaxStatus /\ status' = status + 1)
  BY DEF DriverEnds, DriverStatus, bandVars, dishVars
<1>3. /\ queue' \in Seq(Events) /\ Len(queue') <= QueueSize
      /\ overflow' \in BOOLEAN /\ edge' \in BOOLEAN
      /\ \A i \in Queued' : queue'[i] = e \/ \E j \in Queued : queue'[i] = queue[j]
  BY <1>1, QueueAfter
<1>4. TypeOK'
  <2>1. status' \in 0 .. MaxStatus
    BY <1>2, Numbers DEF TypeOK
  <2> QED
    BY <1>2, <1>3, <2>1 DEF TypeOK, Events
<1>5. ASSUME ClearsOnScan PROVE HonestQueue' /\ SavedFirst'
  <2>1. \A i \in Queued' : queue'[i].lock => scan = "found"
    BY <1>1, <1>3, <1>5 DEF HonestQueue
  <2>2. HonestQueue'
    BY <1>2, <1>5, <2>1 DEF HonestQueue
  <2>3. Left' = Left
    BY <1>2 DEF Left
  <2>4. SavedFirst'
    BY <1>2, <1>5, <2>3 DEF SavedFirst, MovedOnIsSaved
  <2> QED
    BY <2>2, <2>4
<1> QED
  BY <1>2, <1>4, <1>5 DEF AtTransponder

-------------------------------------------------------------------------------
(* The program.                                                            *)
LEMMA FlushStep ==
  ASSUME IInv, FlushOne \/ FlushEnds
  PROVE  IInv'
<1> USE DEF IInv
<1>1. /\ pc = "flush" /\ pc' \in {"flush", "dish"}
      /\ UNCHANGED <<request, plan, pass, found, done, first, spectra, failed, dish_ret, reserved,
                     voltage, tone, scan, at, status, edge, interrupts, lines>>
  BY DEF FlushOne, FlushEnds, bandVars, dishVars, scanVars
<1>2. /\ queue' \in Seq(Events) /\ Len(queue') <= QueueSize /\ overflow' \in BOOLEAN
      /\ \A i \in Queued' : \E j \in Queued : queue'[i] = queue[j]
  <2>1. CASE FlushOne
    <3>1. queue # <<>> /\ queue' = Tail(queue) /\ overflow' = overflow
      BY <2>1 DEF FlushOne, CanRead
    <3> QED
      BY <3>1, TailStep DEF TypeOK
  <2>2. CASE FlushEnds
    <3>1. overflow' \in BOOLEAN
      BY <2>2, Zenon DEF FlushEnds
    <3> QED
      BY <2>2, <3>1, QueueType DEF FlushEnds, Queued
  <2> QED
    BY <2>1, <2>2
<1>3. TypeOK'
  BY <1>1, <1>2 DEF TypeOK, Events
<1>4. ClearsOnScan => HonestQueue'
  BY <1>1, <1>2 DEF HonestQueue
<1>5. (ClearsOnScan => SavedFirst') /\ AtTransponder'
  BY <1>1, SavedFrame DEF Scanning, AtTransponder
<1> QED
  BY <1>3, <1>4, <1>5

(* do_lnb_and_diseqc leaves what was found and saved alone.                *)
LEMMA DishStep ==
  ASSUME IInv, SetDish \/ RfInputRefused \/ DishFails
  PROVE  IInv'
<1> USE DEF IInv
<1>1. /\ pc = "dish" /\ pc' \in {"start", "exit"}
      /\ UNCHANGED <<request, plan, pass, found, done, first, spectra, failed, scan, at, status,
                     queue, overflow, edge, interrupts, lines>>
  BY DEF SetDish, RfInputRefused, DishFails, bandVars, scanVars, queueVars
<1>2. /\ dish_ret' \in {-1, 0} /\ reserved' \in BOOLEAN
      /\ voltage' \in {"13", "18"} /\ tone' \in {"on", "off"}
  <2>1. CASE SetDish
    BY <2>1, BlindscanSessionAssumption DEF SetDish, Reserves, hi_lo, TypeOK
  <2>2. CASE RfInputRefused
    BY <2>2 DEF RfInputRefused, TypeOK
  <2>3. CASE DishFails
    BY <2>3, BlindscanSessionAssumption DEF DishFails, Reserves, TypeOK
  <2> QED
    BY <2>1, <2>2, <2>3
<1>3. TypeOK'
  BY <1>1, <1>2 DEF TypeOK
<1>5. (ClearsOnScan => HonestQueue') /\ AtTransponder'
  BY <1>1 DEF HonestQueue, Queued, AtTransponder
<1>6. ClearsOnScan => SavedFirst'
  BY <1>1 DEF SavedFirst, MovedOnIsSaved
<1> QED
  BY <1>3, <1>5, <1>6

(* The band is searched anew: nothing is left behind.                      *)
LEMMA StartStep ==
  ASSUME IInv, StartScan
  PROVE  IInv'
<1> USE DEF IInv
<1>1. /\ pc = "start" /\ pc' = "wait" /\ scan' = "searching" /\ at' = 0 /\ Commanded
      /\ found' = FALSE /\ done' = FALSE /\ first' = TRUE /\ spectra' = 0 /\ failed' = FALSE
      /\ UNCHANGED <<request, plan, pass, dish_ret, reserved, voltage, tone, interrupts, lines>>
  BY DEF StartScan, dishVars
<1>2. /\ queue' \in Seq(Events) /\ Len(queue') <= QueueSize
      /\ overflow' \in BOOLEAN /\ edge' \in BOOLEAN /\ status' \in 0 .. MaxStatus
      /\ (ClearsOnScan => Queued' = {})
  BY <1>1, CommandedStep
<1>3. TypeOK'
  <2>1. found' \in BOOLEAN /\ done' \in BOOLEAN /\ first' \in BOOLEAN /\ failed' \in BOOLEAN
    BY <1>1, Zenon
  <2>2. at' \in 0 .. MaxFound /\ spectra' \in Nat
    BY <1>1, Numbers
  <2> QED
    BY <1>1, <1>2, <2>1, <2>2 DEF TypeOK, Events
<1>4. Left' = {}
  BY <1>1 DEF Left
<1>5. ClearsOnScan => HonestQueue' /\ SavedFirst'
  BY <1>1, <1>2, <1>4 DEF HonestQueue, SavedFirst, MovedOnIsSaved
<1>6. AtTransponder'
  BY <1>1 DEF Scanning, AtTransponder
<1> QED
  BY <1>3, <1>5, <1>6

(* A command the driver refuses ends the program.                          *)
LEMMA ExitStep ==
  ASSUME IInv, CommandFails
  PROVE  IInv'
<1> USE DEF IInv
<1>1. /\ pc' = "exit"
      /\ UNCHANGED <<request, plan, pass, found, done, first, spectra, failed, dish_ret, reserved,
                     voltage, tone, scan, at, status, queue, overflow, edge, interrupts, lines>>
  BY DEF CommandFails, Exit, bandVars, dishVars, scanVars, queueVars
<1>2. TypeOK'
  BY <1>1 DEF TypeOK
<1>3. AtTransponder'
  BY <1>1 DEF AtTransponder
<1>4. ClearsOnScan => HonestQueue' /\ SavedFirst'
  BY <1>1 DEF HonestQueue, Queued, SavedFirst, MovedOnIsSaved
<1> QED
  BY <1>2, <1>3, <1>4

LEMMA EpollStep ==
  ASSUME IInv, EpollReturns \/ EpollInterrupted \/ EpollTimesOut
  PROVE  IInv'
<1> USE DEF IInv
<1>1. /\ pc = "wait" /\ pc' \in {"wait", "get", "next"}
      /\ UNCHANGED <<request, plan, pass, found, done, first, spectra, failed, dish_ret, reserved,
                     voltage, tone, scan, at, status, queue, overflow, lines>>
  BY DEF EpollReturns, EpollInterrupted, EpollTimesOut, AfterTimeout, bandVars, dishVars, scanVars,
         queueVars
<1>2. edge' \in BOOLEAN /\ interrupts' \in 0 .. MaxInterrupts
  <2>1. CASE EpollReturns
    BY <2>1 DEF EpollReturns, TypeOK
  <2>2. CASE EpollInterrupted
    BY <2>2, Numbers DEF EpollInterrupted, TypeOK, queueVars
  <2>3. CASE EpollTimesOut
    BY <2>3 DEF EpollTimesOut, TypeOK, queueVars
  <2> QED
    BY <2>1, <2>2, <2>3
<1>3. TypeOK'
  BY <1>1, <1>2 DEF TypeOK
<1>4. AtTransponder'
  BY <1>1 DEF AtTransponder, Scanning
<1>5. ClearsOnScan => HonestQueue' /\ SavedFirst'
  BY <1>1, SavedFrame DEF HonestQueue, Queued, Scanning
<1> QED
  BY <1>3, <1>4, <1>5

(* What the program finds is what the event tells.                         *)
LEMMA GetStep ==
  ASSUME IInv, GetEvent
  PROVE  IInv'
<1> USE DEF IInv
<1>1. /\ pc = "get" /\ pc' = "handle" /\ queue # <<>> /\ queue' = Tail(queue)
      /\ found' = Head(queue).lock /\ done' = Head(queue).done
      /\ UNCHANGED <<request, plan, pass, first, spectra, failed, dish_ret, reserved,
                     voltage, tone, scan, at, status, overflow, edge, interrupts, lines>>
  BY DEF GetEvent, CanRead, IsFound, dishVars, scanVars
<1>2. /\ queue' \in Seq(Events) /\ Len(queue') <= QueueSize
      /\ 1 \in Queued /\ Head(queue) = queue[1] /\ Head(queue) \in Events
      /\ \A i \in Queued' : \E j \in Queued : queue'[i] = queue[j]
  BY <1>1, TailStep
<1>3. found' \in BOOLEAN /\ done' \in BOOLEAN
  BY <1>1, <1>2, Zenon DEF Events
<1>4. TypeOK'
  BY <1>1, <1>2, <1>3 DEF TypeOK, Events
<1>5. AtTransponder'
  BY <1>1 DEF AtTransponder, Scanning
<1>6. ASSUME ClearsOnScan PROVE HonestQueue'
  <2>1. queue[1].lock => scan = "found"
    BY <1>2, <1>6 DEF HonestQueue
  <2>2. \A i \in Queued' : queue'[i].lock => scan = "found"
    BY <1>2, <1>6 DEF HonestQueue
  <2> QED
    BY <1>1, <1>2, <2>1, <2>2 DEF HonestQueue
<1>7. ClearsOnScan => SavedFirst'
  BY <1>1, SavedFrame DEF Scanning
<1> QED
  BY <1>4, <1>5, <1>6, <1>7

(* After a read that fails nothing is said of what is saved.               *)
LEMMA GetFailsStep ==
  ASSUME IInv, GetEventFails
  PROVE  IInv'
<1> USE DEF IInv
<1>1. /\ pc = "get" /\ pc' \in {"continue", "next", "wait"} /\ overflow' = FALSE /\ failed' = TRUE
      /\ UNCHANGED <<request, plan, pass, found, done, first, spectra, dish_ret, reserved,
                     voltage, tone, scan, at, status, queue, edge, interrupts, lines>>
  BY DEF GetEventFails, After, dishVars, scanVars
<1>2. overflow' \in BOOLEAN /\ failed' \in BOOLEAN
  BY <1>1, Zenon
<1>3. TypeOK'
  BY <1>1, <1>2 DEF TypeOK
<1>4. AtTransponder'
  BY <1>1 DEF AtTransponder, Scanning
<1>5. ClearsOnScan => HonestQueue' /\ SavedFirst'
  BY <1>1 DEF HonestQueue, Queued, SavedFirst
<1> QED
  BY <1>3, <1>4, <1>5

(* The program goes on to the continue command only from a transponder it  *)
(* has just written.                                                       *)
LEMMA HandleStep ==
  ASSUME IInv, HandleEvent
  PROVE  IInv'
<1> USE DEF IInv
<1>1. /\ pc = "handle" /\ pc' = After(found, done)
      /\ lines' = (IF found THEN lines \cup {<<pass, at>>} ELSE lines)
      /\ UNCHANGED <<request, plan, pass, found, done, failed, dish_ret, reserved,
                     voltage, tone, scan, at, status, queue, overflow, edge, interrupts>>
  BY DEF HandleEvent, getinfo, dishVars, scanVars, queueVars
<1>2. pc' \in {"continue", "next", "wait"} /\ (pc' = "continue" => found)
  BY <1>1 DEF After, Continues
<1>3. spectra' \in Nat /\ first' \in BOOLEAN
  <2>1. CASE ReadsSpectrum(found, done)
    <3>1. spectra' = spectra + 1 /\ first' = FALSE
      BY <2>1 DEF HandleEvent, get_spectrum
    <3>2. first' \in BOOLEAN
      BY <3>1, Zenon
    <3> QED
      BY <3>1, <3>2 DEF TypeOK
  <2>2. CASE ~ReadsSpectrum(found, done)
    BY <2>2 DEF HandleEvent, TypeOK
  <2> QED
    BY <2>1, <2>2
<1>4. lines' \subseteq (1 .. Len(plan)) \X (0 .. MaxFound)
  BY <1>1, PassType DEF TypeOK
<1>5. TypeOK'
  BY <1>1, <1>2, <1>3, <1>4 DEF TypeOK
<1>6. AtTransponder'
  BY <1>1, <1>2 DEF AtTransponder, Scanning
<1>7. ASSUME ClearsOnScan PROVE HonestQueue' /\ SavedFirst'
  <2>1. HonestQueue'
    BY <1>1, <1>2, <1>7 DEF HonestQueue, Queued
  <2>2. pc' = "continue" => scan' = "found" /\ <<pass', at'>> \in lines'
    BY <1>1, <1>2, <1>7 DEF HonestQueue
  <2>3. lines \subseteq lines' /\ Left' = Left
    BY <1>1 DEF Left
  <2>4. SavedFirst'
    BY <1>1, <1>7, <2>2, <2>3 DEF SavedFirst, MovedOnIsSaved
  <2> QED
    BY <2>1, <2>4
<1> QED
  BY <1>5, <1>6, <1>7

(* The transponder that is left behind is the one that was written.        *)
LEMMA ContinueStep ==
  ASSUME IInv, ContinueScan
  PROVE  IInv'
<1> USE DEF IInv
<1>1. /\ pc = "continue" /\ pc' = "wait" /\ Commanded
      /\ scan' = (IF scan = "found" THEN "searching" ELSE scan)
      /\ UNCHANGED <<request, plan, pass, found, done, first, spectra, failed, dish_ret, reserved,
                     voltage, tone, at, interrupts, lines>>
  BY DEF ContinueScan, bandVars, dishVars
<1>2. /\ queue' \in Seq(Events) /\ Len(queue') <= QueueSize
      /\ overflow' \in BOOLEAN /\ edge' \in BOOLEAN /\ status' \in 0 .. MaxStatus
      /\ (ClearsOnScan => Queued' = {})
  BY <1>1, CommandedStep
<1>3. TypeOK'
  BY <1>1, <1>2 DEF TypeOK, Events
<1>4. AtTransponder'
  BY <1>1 DEF AtTransponder, Scanning
<1>5. ASSUME ClearsOnScan PROVE HonestQueue' /\ SavedFirst'
  <2>1. HonestQueue'
    BY <1>1, <1>2, <1>5 DEF HonestQueue
  <2>2. ASSUME ~failed PROVE MovedOnIsSaved'
    <3>1. scan = "found" /\ <<pass, at>> \in lines /\ \A i \in Left : <<pass, i>> \in lines
      BY <1>1, <1>5, <2>2 DEF SavedFirst, MovedOnIsSaved
    <3>2. at \in Nat /\ Left = 1 .. at - 1 /\ Left' = 1 .. at
      BY <1>1, <3>1, Numbers DEF Left, TypeOK
    <3>3. \A i \in Left' : i = at \/ i \in Left
      BY <3>2
    <3> QED
      BY <1>1, <3>1, <3>3 DEF MovedOnIsSaved
  <2> QED
    BY <1>1, <2>1, <2>2 DEF SavedFirst
<1> QED
  BY <1>3, <1>4, <1>5

LEMMA NextStep ==
  ASSUME IInv, NextPass
  PROVE  IInv'
<1> USE DEF IInv
<1>1. /\ pc = "next" /\ pc' \in {"flush", "done"}
      /\ (pc' = "flush" => pass < Len(plan) /\ pass' = pass + 1) /\ (pc' = "done" => pass' = pass)
      /\ UNCHANGED <<request, plan, found, done, first, spectra, failed, dish_ret, reserved,
                     voltage, tone, scan, at, status, queue, overflow, edge, interrupts, lines>>
  BY DEF NextPass, MorePasses, bandVars, dishVars, scanVars, queueVars
<1>2. pass' \in 1 .. Len(plan) + 1 /\ (pc' \notin {"done", "exit"} => pass' <= Len(plan))
  BY <1>1, PassType
<1>3. TypeOK'
  BY <1>1, <1>2 DEF TypeOK
<1>4. AtTransponder'
  BY <1>1 DEF AtTransponder
<1>5. ClearsOnScan => HonestQueue' /\ SavedFirst'
  BY <1>1 DEF HonestQueue, Queued, SavedFirst, MovedOnIsSaved
<1> QED
  BY <1>3, <1>4, <1>5

LEMMA StutterStep ==
  ASSUME IInv, UNCHANGED vars
  PROVE  IInv'
<1> USE DEF IInv, vars, bandVars, dishVars, scanVars, queueVars
<1>1. TypeOK'
  BY DEF TypeOK
<1>2. AtTransponder'
  BY DEF AtTransponder
<1>3. ClearsOnScan => HonestQueue' /\ SavedFirst'
  BY SavedFrame DEF HonestQueue, Queued
<1> QED
  BY <1>1, <1>2, <1>3

LEMMA InitStep == Init => IInv
<1> SUFFICES ASSUME Init PROVE IInv
  OBVIOUS
<1>1. Len(plan) \in Nat /\ (plan # << >> => Len(plan) >= 1)
  BY PlanType DEF Init
<1>2. pass \in 1 .. Len(plan) + 1 /\ (pc \notin {"done", "exit"} => pass <= Len(plan))
  BY <1>1 DEF Init
<1>3. queue \in Seq(Events) /\ Len(queue) = 0 /\ Len(queue) <= QueueSize
  BY EmptySeq, Numbers DEF Init
<1>4. /\ found \in BOOLEAN /\ done \in BOOLEAN /\ first \in BOOLEAN /\ failed \in BOOLEAN
      /\ reserved \in BOOLEAN /\ overflow \in BOOLEAN /\ edge \in BOOLEAN
  BY Zenon DEF Init
<1>5. at \in 0 .. MaxFound /\ status \in 0 .. MaxStatus /\ interrupts \in 0 .. MaxInterrupts
      /\ spectra \in Nat
  BY Numbers DEF Init
<1>6. TypeOK
  BY <1>2, <1>3, <1>4, <1>5 DEF Init, TypeOK, Events
<1>7. AtTransponder
  BY DEF Init, AtTransponder
<1>8. Queued = {}
  BY <1>3 DEF Queued
<1>9. HonestQueue /\ SavedFirst
  BY <1>8 DEF Init, HonestQueue, SavedFirst, MovedOnIsSaved
<1> QED
  BY <1>6, <1>7, <1>9 DEF IInv

-------------------------------------------------------------------------------
(* What is known of the session holds in every state of every session.     *)
THEOREM Invariance == Spec => []IInv
<1>1. IInv /\ [Next]_vars => IInv'
  <2> SUFFICES ASSUME IInv, [Next]_vars PROVE IInv'
    OBVIOUS
  <2> USE DEF Next, Driver, Program, Finished
  <2> QED
    BY FindsStep, EndsStep, FlushStep, DishStep, StartStep, ExitStep, EpollStep, GetStep,
       GetFailsStep, HandleStep, ContinueStep, NextStep, StutterStep
<1> QED
  BY InitStep, <1>1, PTL DEF Spec

(* The variables of the session keep their types, for every command line.  *)
THEOREM TypeCorrect == Spec => []TypeOK
<1>1. IInv => TypeOK
  BY DEF IInv
<1> QED
  BY <1>1, Invariance, PTL

(* If a scan command discards the unread events, every transponder that is *)
(* left behind was saved, unless a read of an event has failed.            *)
THEOREM ReadIsSaved ==
  ASSUME ClearsOnScan
  PROVE  Spec => []ReadMeansSaved
<1>1. IInv => ReadMeansSaved
  BY DEF IInv, SavedFirst, ReadMeansSaved
<1> QED
  BY <1>1, Invariance, PTL

(* If a scan command discards the unread events, getinfo writes a line     *)
(* only while the driver stands at a transponder.                          *)
THEOREM OnlyFoundIsWritten ==
  ASSUME ClearsOnScan
  PROVE  Spec => LinesAreFound
<1>1. IInv /\ [Next]_vars => [lines' # lines => scan = "found"]_vars
  <2> SUFFICES ASSUME IInv, Next, lines' # lines PROVE scan = "found"
    BY DEF vars
  <2>1. HandleEvent
    BY DEF Next, Driver, DriverFinds, DriverEnds, DriverStatus, Program, FlushOne, FlushEnds, SetDish,
           RfInputRefused, DishFails, StartScan, CommandFails, EpollReturns, EpollInterrupted,
           EpollTimesOut, GetEvent, GetEventFails, ContinueScan, NextPass, Finished, vars
  <2>2. pc = "handle" /\ found
    BY <2>1 DEF HandleEvent
  <2> QED
    BY <2>2 DEF IInv, HonestQueue
<1> QED
  BY <1>1, Invariance, PTL DEF Spec, LinesAreFound

-------------------------------------------------------------------------------
(* The spectrum.  As long as none was read the pass has written no line;   *)
(* what has ended the loop was a result, unless it was a timeout.          *)
LinesBefore == \A l \in lines : l[1] < pass

SpectrumInv ==
  /\ spectra = IF first THEN 0 ELSE 1
  /\ \A l \in lines : l[1] <= pass
  /\ pc \in {"flush", "dish", "start"} => LinesBefore
  /\ pc \in Scanning => (first <=> LinesBefore)
  /\ pc \in {"wait", "get", "continue"} => ~done
  /\ pc = "next" => (first <=> ~done /\ LinesBefore)

(* Steps that read no event and write nothing.                             *)
LEMMA SpectrumFrame ==
  ASSUME SpectrumInv, UNCHANGED <<pass, lines, first, spectra, done>>,
         \/ pc' = pc
         \/ pc \in {"flush", "dish", "start"} /\ pc' \in {"flush", "dish", "start", "exit"}
         \/ pc \in {"wait", "get", "continue"} /\ pc' \in {"wait", "get", "continue", "next"}
         \/ pc' \in {"done", "exit"}
  PROVE  SpectrumInv'
BY DEF SpectrumInv, LinesBefore, Scanning

(* An event with a result reads the spectrum of the band, if it is the     *)
(* first.                                                                  *)
LEMMA SpectrumHandle ==
  ASSUME TypeOK, SpectrumInv, HandleEvent
  PROVE  SpectrumInv'
<1>1. /\ pc = "handle" /\ pc' = After(found, done) /\ UNCHANGED <<pass, found, done>>
      /\ found \in BOOLEAN /\ done \in BOOLEAN /\ first \in BOOLEAN
  BY DEF HandleEvent, TypeOK
<1>2. /\ pass \in Nat /\ (first <=> LinesBefore) /\ spectra = (IF first THEN 0 ELSE 1)
      /\ \A l \in lines : l[1] <= pass
  BY <1>1, PassType DEF SpectrumInv, Scanning
<1>3. CASE ~found /\ ~done
  <2>1. UNCHANGED <<spectra, first, lines>> /\ pc' = "wait"
    BY <1>1, <1>3 DEF HandleEvent, ReadsSpectrum, After, Continues
  <2> QED
    BY <1>1, <1>2, <1>3, <2>1 DEF SpectrumInv, LinesBefore, Scanning
<1>4. CASE found \/ done
  <2>1. spectra' = 1 /\ ~first'
    <3>1. CASE first
      <4>1. ReadsSpectrum(found, done)
        BY <1>4, <3>1 DEF ReadsSpectrum
      <4>2. spectra' = spectra + 1 /\ first' = FALSE
        BY <4>1 DEF HandleEvent, get_spectrum
      <4>3. spectra = 0
        BY <1>2, <3>1
      <4>4. spectra' = 1
        BY <4>2, <4>3
      <4> QED
        BY <4>2, <4>4
    <3>2. CASE ~first
      BY <1>2, <3>2 DEF HandleEvent, ReadsSpectrum
    <3> QED
      BY <3>1, <3>2
  <2>2. CASE found
    <3>1. lines' = lines \cup {<<pass, at>>}
      BY <2>2 DEF HandleEvent, getinfo
    <3>2. <<pass, at>> \in lines' /\ <<pass, at>>[1] = pass /\ ~(pass < pass)
      BY <1>2, <3>1
    <3>3. ~LinesBefore'
      BY <1>1, <3>2 DEF LinesBefore
    <3>4. \A l \in lines' : l[1] <= pass
      BY <1>2, <3>1
    <3>5. pc' = IF done THEN "next" ELSE "continue"
      BY <1>1, <2>2 DEF After, Continues
    <3> QED
      BY <1>1, <2>1, <3>3, <3>4, <3>5 DEF SpectrumInv, Scanning
  <2>3. CASE ~found /\ done
    <3>1. lines' = lines /\ pc' = "next"
      BY <1>1, <2>3 DEF HandleEvent, After, Continues
    <3> QED
      BY <1>1, <1>2, <2>1, <2>3, <3>1 DEF SpectrumInv, Scanning
  <2> QED
    BY <1>4, <2>2, <2>3
<1> QED
  BY <1>3, <1>4

LEMMA SpectrumStep ==
  ASSUME TypeOK, SpectrumInv, [Next]_vars
  PROVE  SpectrumInv'
<1> USE DEF bandVars, queueVars
<1>1. CASE Driver
  BY <1>1, SpectrumFrame DEF Driver, DriverFinds, DriverEnds, DriverStatus
<1>2. CASE FlushOne \/ FlushEnds \/ SetDish \/ RfInputRefused \/ DishFails
  BY <1>2, SpectrumFrame DEF FlushOne, FlushEnds, SetDish, RfInputRefused, DishFails
<1>3. CASE StartScan
  <2>1. /\ pc = "start" /\ pc' = "wait" /\ first' /\ spectra' = 0 /\ ~done'
        /\ UNCHANGED <<pass, lines>>
    BY <1>3 DEF StartScan
  <2> QED
    BY <2>1 DEF SpectrumInv, LinesBefore, Scanning
<1>4. CASE CommandFails
  BY <1>4, SpectrumFrame DEF CommandFails, Exit
<1>5. CASE EpollReturns \/ EpollInterrupted \/ EpollTimesOut
  BY <1>5, SpectrumFrame DEF EpollReturns, EpollInterrupted, EpollTimesOut, AfterTimeout
<1>6. CASE GetEvent
  <2>1. pc = "get" /\ pc' = "handle" /\ UNCHANGED <<pass, first, spectra, lines>>
    BY <1>6 DEF GetEvent
  <2> QED
    BY <2>1 DEF SpectrumInv, LinesBefore, Scanning
<1>7. CASE GetEventFails
  <2>1. /\ pc = "get" /\ pc' \in {"wait", "continue", "next"}
        /\ UNCHANGED <<pass, first, spectra, lines, done>>
    BY <1>7 DEF GetEventFails, After
  <2> QED
    BY <2>1, SpectrumFrame
<1>8. CASE HandleEvent
  BY <1>8, SpectrumHandle
<1>9. CASE ContinueScan
  BY <1>9, SpectrumFrame DEF ContinueScan
<1>10. CASE NextPass
  <2>1. CASE pass' = pass /\ pc' = "done"
    BY <1>10, <2>1, SpectrumFrame DEF NextPass
  <2>2. CASE pass' = pass + 1 /\ pc' = "flush"
    <3>1. pass \in Nat /\ \A l \in lines : l[1] <= pass
      BY PassType DEF SpectrumInv
    <3>2. \A l \in lines : l[1] \in Nat
      <4>1. \A l \in lines : l[1] \in 1 .. Len(plan)
        BY DEF TypeOK
      <4> QED
        BY <4>1, PassType
    <3>3. \A l \in lines : l[1] < pass'
      BY <2>2, <3>1, <3>2
    <3>4. LinesBefore' /\ UNCHANGED <<first, spectra, lines>>
      BY <1>10, <3>3 DEF NextPass, LinesBefore
    <3>5. \A l \in lines' : l[1] <= pass'
      BY <2>2, <3>1, <3>2, <3>4
    <3> QED
      BY <2>2, <3>4, <3>5 DEF SpectrumInv, Scanning
  <2> QED
    BY <1>10, <2>1, <2>2 DEF NextPass
<1>11. CASE UNCHANGED vars
  BY <1>11, SpectrumFrame DEF vars
<1> QED
  BY <1>1, <1>2, <1>3, <1>4, <1>5, <1>6, <1>7, <1>8, <1>9, <1>10, <1>11
  DEF Next, Program, Finished

(* For every number of transponders, queue and order of events the         *)
(* spectrum of a band is read once if the band had a result, else never.   *)
THEOREM SpectrumReadOnceEver == Spec => []SpectrumReadOnce
<1>1. Init => SpectrumInv
  BY DEF Init, SpectrumInv, LinesBefore, Scanning
<1>2. TypeOK /\ SpectrumInv /\ [Next]_vars => SpectrumInv'
  BY SpectrumStep
<1>3. TypeOK /\ SpectrumInv => SpectrumReadOnce
  <2> SUFFICES ASSUME TypeOK, SpectrumInv, pc = "next"
               PROVE  spectra = IF HadResult THEN 1 ELSE 0
    BY DEF SpectrumReadOnce
  <2>1. \A l \in lines : l \in (1 .. Len(plan)) \X (0 .. MaxFound) /\ l[1] <= pass
    BY DEF TypeOK, SpectrumInv
  <2>2. pass \in Nat /\ Len(plan) \in Nat
    BY PassType
  <2>3. LinesBefore <=> ~\E i \in 0 .. MaxFound : <<pass, i>> \in lines
    <3>1. ASSUME NEW i \in 0 .. MaxFound, <<pass, i>> \in lines
          PROVE  ~LinesBefore
      <4>1. <<pass, i>>[1] = pass /\ ~(pass < pass)
        BY <2>2
      <4> QED
        BY <3>1, <4>1 DEF LinesBefore
    <3>2. ASSUME NEW l \in lines, ~(l[1] < pass)
          PROVE  \E i \in 0 .. MaxFound : <<pass, i>> \in lines
      <4>1. l[1] = pass
        BY <2>1, <2>2, <3>2
      <4>2. l = <<l[1], l[2]>> /\ l[2] \in 0 .. MaxFound
        BY <2>1
      <4> QED
        BY <4>1, <4>2
    <3> QED
      BY <3>1, <3>2 DEF LinesBefore
  <2> QED
    BY <2>3 DEF SpectrumInv, HadResult, TypeOK
<1> QED
  BY <1>1, <1>2, <1>3, TypeCorrect, PTL DEF Spec
===============================================================================
