----------------------------- MODULE SpectrumCommand -----------------------------
(***************************************************************************)
(* The spectrum command of neumo-blindscan: main_spectrum goes through the *)
(* polarisations and bands; for each, spectrum_band starts the driver,     *)
(* waits for the event that says the spectrum is there, and get_spectrum   *)
(* appends it to the file of the polarisation, marking the samples at      *)
(* which the driver suspects a transponder.                                *)
(*                                                                         *)
(* The driver is external: it acquires the spectrum it was last asked for, *)
(* tells so with an event, and may send other events before.  As in        *)
(* BlindscanSession, events are read through an edge-triggered epoll with  *)
(* a timeout that expires only when the driver has nothing left to do.     *)
(***************************************************************************)
EXTENDS ScanPlan, SequencesExt

CONSTANTS
  Requests,      \* command lines: records of pols, start, end
  Spectra,       \* external: what the driver may return: records of n, candidates
  MaxStatus,     \* bound on the other events of an acquisition
  MaxInterrupts, \* bound on the waits a signal interrupts
  QueueSize,     \* external: events the frontend keeps
  ClearsOnScan   \* external: does a scan command discard unread events?

ASSUME SpectrumAssumption ==
  /\ \A r \in Requests : r.pols \subseteq {H, V} /\ r.start \in Int /\ r.end \in Int
  /\ \A s \in Spectra : s.n \in Nat /\ s.candidates \in Seq([at : Nat])
  /\ MaxStatus \in Nat /\ MaxInterrupts \in Nat
  /\ QueueSize \in Nat \ {0} /\ ClearsOnScan \in BOOLEAN

VARIABLES
  request, plan, \* the options and the passes
  pc, pass,      \* where the program is
  fpout,         \* the file main_spectrum has open
  files,         \* what the files hold: the blocks written for each polarisation
  driver,        \* external: "idle", "acquiring", "ready" or "gave_up"
  held,          \* external: which pass and spectrum the driver holds
  status,        \* external: other events since the command
  queue, overflow, edge, \* external: the unread events, as in PeakTuning
  interrupts,    \* external: interrupted waits so far
  failed,        \* history: has a read of an event failed in this pass?
  acquired       \* history: the passes that left a spectrum and no event behind

queueVars  == <<queue, overflow, edge>>
driverVars == <<driver, held, status>>
fileVars   == <<fpout, files>>
vars == <<request, plan, pc, pass, fileVars, driverVars, queueVars, interrupts, failed, acquired>>

Present == plan[pass]
Closed  == "closed"
Nothing == [pass |-> 0, n |-> 0, candidates |-> <<>>]

-------------------------------------------------------------------------------
(* main_spectrum: the high band starts at the switching frequency wherever *)
(* the range does.                                                         *)
SpectrumBands(p, start, end) ==
  (IF start < lnb_universal_slof
   THEN << [pol |-> p, band |-> 0, start |-> start,
            end |-> IF end < lnb_universal_slof THEN end ELSE lnb_universal_slof] >>
   ELSE << >>) \o
  (IF end > lnb_universal_slof
   THEN << [pol |-> p, band |-> 1, start |-> lnb_universal_slof, end |-> end] >> ELSE << >>)

Passes(r) ==
  LET Of(p) == IF p \in r.pols THEN SpectrumBands(p, r.start, r.end) ELSE << >>
  IN  Of(H) \o Of(V)

(* A pass that ends its polarisation also closes the file.                 *)
EndsPol(i) == i = Len(plan) \/ plan[i + 1].pol # plan[i].pol

-------------------------------------------------------------------------------
(* The single decisions of the code, each next to the faulty variants that *)
(* the mutation runs put in its place.                                     *)

(* found: the driver's spectrum is there.                                  *)
AnyEvent(e) == TRUE                                               \* mutant
IsFound(e)  == e = "sync"

(* A wait that times out ends the band.                                    *)
AfterTimeout == "next"

(* The candidate looked for after the one just met.                        *)
SkipsOne(k)      == k + 2                                         \* mutant
NextCandidate(k) == k + 1

(* The first spectrum of a polarisation opens the file, the next appends.  *)
Truncates(p) == <<>>                                              \* mutant
Before(p)    == IF fpout = Closed THEN <<>> ELSE files[p]

-------------------------------------------------------------------------------
(* get_spectrum walks over the samples and the candidates together: the    *)
(* candidate it looks for is replaced by the next only when it was met.    *)
(* The symbol rate it prints is read after this replacement.               *)

MetUpTo(s) ==
  LET met[i \in 0 .. s.n] ==
        IF i = 0 THEN 1
        ELSE LET k == met[i - 1] IN
             IF k \in DOMAIN s.candidates /\ s.candidates[k].at = i THEN NextCandidate(k) ELSE k
  IN met

Marked(s) == {i \in 1 .. s.n : MetUpTo(s)[i] # MetUpTo(s)[i - 1]}

(* Which candidate's symbol rate stands beside a marked sample.            *)
RateAt(s, i) ==
  LET k == MetUpTo(s)[i] IN IF k \in DOMAIN s.candidates THEN k ELSE Len(s.candidates)

Block(s) == [of |-> s, pass |-> s.pass, band |-> Present.band,
             marks |-> [i \in Marked(s) |-> RateAt(s, i)]]

-------------------------------------------------------------------------------
Init ==
  /\ request \in Requests
  /\ plan = Passes(request)
  /\ pass = 1 /\ pc = IF plan = <<>> THEN "done" ELSE "flush"
  /\ fpout = Closed /\ files = [p \in {H, V} |-> <<>>]
  /\ driver = "idle" /\ held = Nothing /\ status = 0
  /\ queue = <<>> /\ overflow = FALSE /\ edge = FALSE
  /\ interrupts = 0 /\ failed = FALSE /\ acquired = {}

-------------------------------------------------------------------------------
(* The driver.                                                             *)

Arrive(e) ==
  /\ edge' = TRUE
  /\ IF Len(queue) < QueueSize
     THEN queue' = Append(queue, e) /\ UNCHANGED overflow
     ELSE queue' = Append(Tail(queue), e) /\ overflow' = TRUE

DriverReady ==
  /\ driver = "acquiring"
  /\ driver' = "ready"
  /\ \E s \in Spectra : held' = [pass |-> pass, n |-> s.n, candidates |-> s.candidates]
  /\ Arrive("sync")
  /\ UNCHANGED <<request, plan, pc, pass, fileVars, status, interrupts, failed, acquired>>

DriverGivesUp ==
  /\ driver = "acquiring"
  /\ driver' = "gave_up"
  /\ Arrive("timedout")
  /\ UNCHANGED <<request, plan, pc, pass, fileVars, held, status, interrupts, failed, acquired>>

(* The bit that tells of a spectrum stays set when the status changes.     *)
DriverStatus ==
  /\ driver \in {"acquiring", "ready"} /\ status < MaxStatus
  /\ status' = status + 1
  /\ Arrive(IF driver = "ready" THEN "sync" ELSE "status")
  /\ UNCHANGED <<request, plan, pc, pass, fileVars, driver, held, interrupts, failed, acquired>>

-------------------------------------------------------------------------------
(* The program.                                                            *)

CanRead == ~overflow /\ queue # <<>>

FlushOne ==
  /\ pc = "flush" /\ CanRead
  /\ queue' = Tail(queue)
  /\ UNCHANGED <<request, plan, pc, pass, fileVars, driverVars, overflow, edge, interrupts, failed, acquired>>

(* A read that fails clears the overflow, and ends the flushing.           *)
FlushEnds ==
  /\ pc = "flush" /\ ~CanRead
  /\ overflow' = FALSE
  /\ pc' = "start"
  /\ UNCHANGED <<request, plan, pass, fileVars, driverVars, queue, edge, interrupts, failed, acquired>>

(* driver_start_spectrum: the LNB is set, as in BlindscanSession, and the  *)
(* request sent.                                                           *)
driver_start_spectrum ==
  /\ pc = "start"
  /\ driver' = "acquiring" /\ status' = 0
  /\ IF ClearsOnScan THEN queue' = <<>> /\ overflow' = FALSE ELSE UNCHANGED <<queue, overflow>>
  /\ failed' = FALSE
  /\ pc' = "wait"
  /\ UNCHANGED <<request, plan, pass, fileVars, held, edge, interrupts, acquired>>

StartFails ==
  /\ pc = "start"
  /\ pc' = "exit"
  /\ UNCHANGED <<request, plan, pass, fileVars, driverVars, queueVars, interrupts, failed, acquired>>

EpollReturns ==
  /\ pc = "wait" /\ edge
  /\ edge' = FALSE
  /\ pc' = IF queue = <<>> THEN "wait" ELSE "get"
  /\ UNCHANGED <<request, plan, pass, fileVars, driverVars, queue, overflow, interrupts, failed, acquired>>

(* A negative result of epoll_wait is logged, and an event is read anyway. *)
EpollInterrupted ==
  /\ pc = "wait" /\ interrupts < MaxInterrupts
  /\ interrupts' = interrupts + 1
  /\ pc' = "get"
  /\ UNCHANGED <<request, plan, pass, fileVars, driverVars, queueVars, failed, acquired>>

EpollTimesOut ==
  /\ pc = "wait" /\ ~edge /\ driver \in {"ready", "gave_up"}
  /\ pc' = AfterTimeout
  /\ UNCHANGED <<request, plan, pass, fileVars, driverVars, queueVars, interrupts, failed, acquired>>

GetEvent ==
  /\ pc = "get" /\ CanRead
  /\ queue' = Tail(queue)
  /\ pc' = IF IsFound(Head(queue)) THEN "read" ELSE "wait"
  /\ UNCHANGED <<request, plan, pass, fileVars, driverVars, overflow, edge, interrupts, failed, acquired>>

GetEventFails ==
  /\ pc = "get" /\ ~CanRead
  /\ overflow' = FALSE /\ failed' = TRUE
  /\ pc' = "wait"
  /\ UNCHANGED <<request, plan, pass, fileVars, driverVars, queue, edge, interrupts, acquired>>

(* get_spectrum: without samples no file is opened; otherwise the first    *)
(* spectrum of a polarisation creates its file.                            *)
get_spectrum ==
  /\ pc = "read" /\ held # Nothing
  /\ LET p == Present.pol IN
     IF held.n = 0 THEN UNCHANGED fileVars
     ELSE /\ fpout' = p
          /\ files' = [files EXCEPT ![p] = Append(Before(p), Block(held))]
  /\ pc' = "next"
  /\ UNCHANGED <<request, plan, pass, driverVars, queueVars, interrupts, failed, acquired>>

(* The driver refuses (an assertion fails), or the file cannot be opened.  *)
ReadFails ==
  /\ pc = "read"
  /\ pc' = "exit"
  /\ UNCHANGED <<request, plan, pass, fileVars, driverVars, queueVars, interrupts, failed, acquired>>

Acquired == pc = "next" /\ driver = "ready" /\ held.n > 0

NextPass ==
  /\ pc = "next"
  /\ fpout' = IF EndsPol(pass) THEN Closed ELSE fpout
  /\ IF pass < Len(plan) THEN pass' = pass + 1 /\ pc' = "flush" ELSE pass' = pass /\ pc' = "done"
  /\ acquired' = IF Acquired /\ ~failed /\ queue = <<>> THEN acquired \cup {pass} ELSE acquired
  /\ UNCHANGED <<request, plan, files, driverVars, queueVars, interrupts, failed>>

-------------------------------------------------------------------------------
Driver  == DriverReady \/ DriverGivesUp \/ DriverStatus
Program == \/ FlushOne \/ FlushEnds \/ driver_start_spectrum \/ StartFails \/ EpollReturns
           \/ EpollInterrupted \/ EpollTimesOut \/ GetEvent \/ GetEventFails \/ get_spectrum
           \/ ReadFails \/ NextPass

Finished == pc \in {"done", "exit"} /\ UNCHANGED vars

Next == Driver \/ Program \/ Finished

Spec == Init /\ [][Next]_vars

(* The program is scheduled, and the acquisition comes to a result.        *)
FairSpec == Spec /\ WF_vars(Program) /\ WF_vars(DriverReady \/ DriverGivesUp)

-------------------------------------------------------------------------------
(* Correctness.                                                            *)

TypeOK ==
  /\ request \in Requests /\ plan = Passes(request)
  /\ pc \in {"flush", "start", "wait", "get", "read", "next", "done", "exit"}
  /\ pass \in 1 .. Len(plan) + 1 /\ (pc \notin {"done", "exit"} => pass <= Len(plan))
  /\ fpout \in {Closed, H, V} /\ DOMAIN files = {H, V}
  /\ driver \in {"idle", "acquiring", "ready", "gave_up"} /\ status \in 0 .. MaxStatus
  /\ held.pass \in 0 .. Len(plan)
  /\ queue \in Seq({"sync", "status", "timedout"}) /\ Len(queue) <= QueueSize
  /\ overflow \in BOOLEAN /\ edge \in BOOLEAN /\ failed \in BOOLEAN
  /\ interrupts \in 0 .. MaxInterrupts /\ acquired \subseteq 1 .. Len(plan)

Blocks == {b \in {H, V} \X (1 .. Len(plan)) : b[2] \in DOMAIN files[b[1]]}

(* Every file holds, in the order of the passes and each once, spectra of  *)
(* its own polarisation, converted with the oscillator of the band they    *)
(* were acquired in: an event of the pass before is not taken for the      *)
(* spectrum of this one, although nothing but the event is looked at.      *)
FilesHoldTheirPasses ==
  \A b \in Blocks :
    LET f == files[b[1]]  this == f[b[2]] IN
    /\ plan[this.pass].pol = b[1] /\ plan[this.pass].band = this.band
    /\ b[2] > 1 => f[b[2] - 1].pass < this.pass

(* A driver that keeps to its word: ascending candidates on the grid.      *)
OnGrid(s) ==
  /\ \A k \in DOMAIN s.candidates : s.candidates[k].at \in 1 .. s.n
  /\ \A j, k \in DOMAIN s.candidates : j < k => s.candidates[j].at < s.candidates[k].at

(* Then a sample is marked if and only if it is a candidate.               *)
MarksAreCandidates ==
  \A b \in Blocks :
    LET this == files[b[1]][b[2]] IN
    OnGrid(this.of) =>
      DOMAIN this.marks = {this.of.candidates[k].at : k \in DOMAIN this.of.candidates}

(* As long as no read fails and no event is left in the queue, a spectrum  *)
(* that was acquired before the wait ended is in the file of its           *)
(* polarisation, and stays there whatever the later passes do.             *)
Written == {f.pass : f \in UNION {ToSet(files[p]) : p \in {H, V}}}

AcquiredIsWritten == acquired \subseteq Written

(* Without this condition it may be missed: two events that arrive before  *)
(* the same wait wake the program once, and the second stays unread.       *)
AcquiredIsAlwaysWritten == Acquired => pass \in Written

(* Each mark stands for the candidate whose symbol rate is printed.        *)
RatesAreTheirs ==
  \A b \in Blocks :
    LET this == files[b[1]][b[2]] IN
    \A i \in DOMAIN this.marks : this.of.candidates[this.marks[i]].at = i

(* Even if a candidate lies between two samples, the others are marked.    *)
OneOffGridIsHarmless ==
  \A b \in Blocks :
    LET this == files[b[1]][b[2]] IN
    {this.of.candidates[k].at : k \in DOMAIN this.of.candidates} \cap (1 .. this.of.n)
      \subseteq DOMAIN this.marks

(* Whatever the driver does, the command ends.                             *)
SpectrumEnds == <>(pc \in {"done", "exit"})
================================================================================
