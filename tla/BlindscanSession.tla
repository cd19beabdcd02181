---------------------------- MODULE BlindscanSession ----------------------------
(***************************************************************************)
(* The fft blindscan of neumo-blindscan, which leaves the search to the    *)
(* driver: main_blindscan_fft goes through the passes; for each, scan_band *)
(* starts the driver's scan, and then, event by event, saves what the      *)
(* driver has found and tells it to continue.                              *)
(*                                                                         *)
(* The driver is external: it searches the band, stops at each transponder *)
(* until it is told to continue, and reports the end of the band as a      *)
(* timeout.  The status may also change without a lock being gained.       *)
(* Its events are read through an edge-triggered epoll, with a timeout of  *)
(* 5000 seconds: it expires only when the driver has nothing left to do.   *)
(***************************************************************************)
EXTENDS ScanPlan

CONSTANTS
  Requests,      \* command lines: records of sys, lnb, pols, start, end, rf_in, switch
  Answers,       \* external: what FE_SET_RF_INPUT may return
  Failing,       \* external: which ioctls of do_lnb_and_diseqc may fail
  MaxFound,      \* bound on the transponders of a band
  MaxStatus,     \* bound on the other status changes between two commands
  MaxInterrupts, \* bound on the waits a signal interrupts
  QueueSize,     \* external: events the frontend keeps
  ClearsOnScan   \* external: does a scan command discard unread events?

ASSUME BlindscanSessionAssumption ==
  /\ Requests \subseteq [sys: DeliverySystems, lnb: LnbTypes, pols: SUBSET {H, V}, start: Int,
                         end: Int, rf_in: BOOLEAN, switch: BOOLEAN]
  /\ Answers \subseteq {"MASTER", "SLAVE", "RETRY", "UNICABLE_RETRY", "UNCHANGED",
                        "RELEASED", "NOT_SUPPORTED", "EINVAL", "FAILED"}
  /\ Failing \subseteq {"voltage", "tone_off", "message", "tone"}
  /\ MaxFound \in Nat /\ MaxStatus \in Nat /\ MaxInterrupts \in Nat
  /\ QueueSize \in Nat \ {0} /\ ClearsOnScan \in BOOLEAN

VARIABLES
  request, plan,  \* the options and the passes
  pc, pass,       \* where the program is
  found, done, first,     \* the local variables of scan_band
  dish_ret,       \* what do_lnb_and_diseqc has returned, which is ignored
  reserved,       \* external: has the driver made the frontend master?
  voltage, tone,  \* external: what the LNB is told
  scan,           \* external: "idle", "searching", "found" or "ended"
  at,             \* external: how many transponders of the band were found
  status,         \* external: status changes since the last command
  queue, overflow, edge,  \* external: the unread events, as in PeakTuning
  interrupts,     \* external: interrupted waits so far
  lines,          \* the output file: which transponder of which pass
  spectra,        \* how often the spectrum was read in this pass
  failed          \* history: has a read of an event failed in this pass?

bandVars  == <<found, done, first, spectra, failed>>
dishVars  == <<dish_ret, reserved, voltage, tone>>
queueVars == <<queue, overflow, edge>>
scanVars  == <<scan, at, status>>
vars == <<request, plan, pc, pass, bandVars, dishVars, scanVars, queueVars, interrupts, lines>>

Present == plan[pass]

-------------------------------------------------------------------------------
(* The passes of main_blindscan_fft: the high band starts at the switching *)
(* frequency wherever the range does.                                      *)
BandPasses(p, start, end) ==
  (IF start < lnb_universal_slof
   THEN << [pol |-> p, start |-> start,
            end |-> IF end < lnb_universal_slof THEN end ELSE lnb_universal_slof] >>
   ELSE << >>) \o
  (IF end > lnb_universal_slof
   THEN << [pol |-> p, start |-> lnb_universal_slof, end |-> end] >> ELSE << >>)

SessionPlan(r) ==
  LET range == ScanRange(r.sys, r.lnb, r.start, r.end)
      Of(p) == IF p \in r.pols THEN BandPasses(p, range[1], range[2]) ELSE << >>
  IN  Of(H) \o Of(V)

-------------------------------------------------------------------------------
(* The single decisions of the code, each next to the faulty variants that *)
(* the mutation runs put in its place.                                     *)

(* The band is high from the switching frequency on.                       *)
hi_lo(f) == IF f >= lnb_universal_slof THEN "on" ELSE "off"

(* found and done, and the condition under which the driver is to go on.   *)
AnyEventFound(e) == TRUE                                          \* mutant
IsFound(e)       == e.lock
ContinuesAlways(f, d) == ~d                                       \* mutant
Continues(f, d)       == f /\ ~d

(* The spectrum is read with the first result only, which may be the end.  *)
ReadsSpectrum(f, d) == (f \/ d) /\ first

(* A wait that times out ends the band; so does a done event.              *)
WaitAgain    == "wait"                                            \* mutant
AfterTimeout == "next"

MorePasses  == pass < Len(plan)

-------------------------------------------------------------------------------
Init ==
  /\ request \in Requests
  /\ plan = SessionPlan(request)
  /\ pass = 1 /\ pc = IF plan = <<>> THEN "done" ELSE "flush"
  /\ found = FALSE /\ done = FALSE /\ first = TRUE /\ spectra = 0 /\ failed = FALSE
  /\ dish_ret = 0 /\ reserved = FALSE /\ voltage \in {"13", "18"} /\ tone \in {"on", "off"}
  /\ scan = "idle" /\ at = 0 /\ status = 0
  /\ queue = <<>> /\ overflow = FALSE /\ edge = FALSE /\ interrupts = 0
  /\ lines = {}

Exit == pc' = "exit"

-------------------------------------------------------------------------------
(* The driver.                                                             *)

Arrive(e) ==
  /\ edge' = TRUE
  /\ IF Len(queue) < QueueSize
     THEN queue' = Append(queue, e) /\ UNCHANGED overflow
     ELSE queue' = Append(Tail(queue), e) /\ overflow' = TRUE

DriverFinds ==
  /\ scan = "searching" /\ at < MaxFound
  /\ scan' = "found" /\ at' = at + 1
  /\ Arrive([lock |-> TRUE, done |-> FALSE])
  /\ UNCHANGED <<request, plan, pc, pass, bandVars, dishVars, status, interrupts, lines>>

DriverEnds ==
  /\ scan = "searching"
  /\ scan' = "ended"
  /\ Arrive([lock |-> FALSE, done |-> TRUE])
  /\ UNCHANGED <<request, plan, pc, pass, bandVars, dishVars, at, status, interrupts, lines>>

(* At a transponder the lock may be lost and regained.                     *)
DriverStatus ==
  /\ scan \in {"searching", "found"} /\ status < MaxStatus
  /\ status' = status + 1
  /\ \E locked \in BOOLEAN :
       /\ locked => scan = "found"
       /\ Arrive([lock |-> locked, done |-> FALSE])
  /\ UNCHANGED <<request, plan, pc, pass, bandVars, dishVars, scan, at, interrupts, lines>>

(* A scan command reaches the driver.                                      *)
Commanded ==
  /\ status' = 0
  /\ IF ClearsOnScan THEN queue' = <<>> /\ overflow' = FALSE ELSE UNCHANGED <<queue, overflow>>
  /\ UNCHANGED edge

-------------------------------------------------------------------------------
(* The program.                                                            *)

(* An FE_GET_EVENT that fails clears the overflow.                         *)
CanRead == ~overflow /\ queue # <<>>

FlushOne ==
  /\ pc = "flush" /\ CanRead
  /\ queue' = Tail(queue)
  /\ UNCHANGED <<request, plan, pc, pass, bandVars, dishVars, scanVars, overflow, edge,
                 interrupts, lines>>

FlushEnds ==
  /\ pc = "flush" /\ ~CanRead
  /\ overflow' = FALSE
  /\ pc' = "dish"
  /\ UNCHANGED <<request, plan, pass, bandVars, dishVars, scanVars, queue, edge, interrupts, lines>>

Reserves ==
  /\ request.rf_in => "MASTER" \in Answers
  /\ reserved' = (reserved \/ request.rf_in)

(* do_lnb_and_diseqc, whose result nobody looks at: every result of        *)
(* FE_SET_RF_INPUT but 0 makes it return before anything is set.  Without  *)
(* a switch command the tone is left alone.                                *)
SetDish ==
  /\ pc = "dish"
  /\ pc' = "start" /\ dish_ret' = 0
  /\ voltage' = IF Present.pol = V THEN "13" ELSE "18"
  /\ tone' = IF request.switch THEN hi_lo(Present.start) ELSE tone
  /\ Reserves
  /\ UNCHANGED <<request, plan, pass, bandVars, scanVars, queueVars, interrupts, lines>>

RfInputRefused ==
  /\ pc = "dish" /\ request.rf_in
  /\ \E answer \in Answers \ {"MASTER"} :
       /\ answer = "UNCHANGED" => reserved
       /\ pc' = IF answer \in {"NOT_SUPPORTED", "EINVAL"} THEN "exit" ELSE "start"
  /\ dish_ret' = -1
  /\ UNCHANGED <<request, plan, pass, bandVars, reserved, voltage, tone, scanVars, queueVars,
                 interrupts, lines>>

(* A later ioctl fails: what was set before it stays.                      *)
DishFails ==
  /\ pc = "dish" /\ Reserves
  /\ \E what \in Failing :
       /\ what # "voltage" => request.switch
       /\ voltage' = IF what = "voltage" THEN voltage ELSE IF Present.pol = V THEN "13" ELSE "18"
       /\ tone' = IF what \in {"message", "tone"} THEN "off" ELSE tone
  /\ pc' = "start" /\ dish_ret' = -1
  /\ UNCHANGED <<request, plan, pass, bandVars, scanVars, queueVars, interrupts, lines>>

(* driver_start_blindscan, and the variables scan_band starts with.        *)
StartScan ==
  /\ pc = "start"
  /\ scan' = "searching" /\ at' = 0
  /\ Commanded
  /\ found' = FALSE /\ done' = FALSE /\ first' = TRUE /\ spectra' = 0 /\ failed' = FALSE
  /\ pc' = "wait"
  /\ UNCHANGED <<request, plan, pass, dishVars, interrupts, lines>>

(* FE_SET_PROPERTY fails, or a query of get_spectrum or getinfo does.      *)
CommandFails ==
  /\ pc \in {"start", "handle", "continue"}
  /\ Exit
  /\ UNCHANGED <<request, plan, pass, bandVars, dishVars, scanVars, queueVars, interrupts, lines>>

EpollReturns ==
  /\ pc = "wait" /\ edge
  /\ edge' = FALSE
  /\ pc' = IF queue = <<>> THEN "wait" ELSE "get"
  /\ UNCHANGED <<request, plan, pass, bandVars, dishVars, scanVars, queue, overflow,
                 interrupts, lines>>

(* A negative result of epoll_wait is logged, and an event is read anyway. *)
EpollInterrupted ==
  /\ pc = "wait" /\ interrupts < MaxInterrupts
  /\ interrupts' = interrupts + 1
  /\ pc' = "get"
  /\ UNCHANGED <<request, plan, pass, bandVars, dishVars, scanVars, queueVars, lines>>

EpollTimesOut ==
  /\ pc = "wait" /\ ~edge /\ scan \in {"found", "ended"}
  /\ pc' = AfterTimeout
  /\ UNCHANGED <<request, plan, pass, bandVars, dishVars, scanVars, queueVars, interrupts, lines>>

GetEvent ==
  /\ pc = "get" /\ CanRead
  /\ found' = IsFound(Head(queue)) /\ done' = Head(queue).done
  /\ queue' = Tail(queue)
  /\ pc' = "handle"
  /\ UNCHANGED <<request, plan, pass, first, spectra, failed, dishVars, scanVars, overflow, edge,
                 interrupts, lines>>

After(f, d) == IF Continues(f, d) THEN "continue" ELSE IF d THEN "next" ELSE "wait"

(* found keeps the value of the event before.                              *)
GetEventFails ==
  /\ pc = "get" /\ ~CanRead
  /\ overflow' = FALSE /\ failed' = TRUE
  /\ pc' = After(found, done)
  /\ UNCHANGED <<request, plan, pass, found, done, first, spectra, dishVars, scanVars, queue, edge,
                 interrupts, lines>>

(* getinfo asks what the frontend is tuned to, and writes it as a line.    *)
getinfo == <<pass, at>>

(* get_spectrum asks for the spectrum of the band and writes it.           *)
get_spectrum == spectra' = spectra + 1

HandleEvent ==
  /\ pc = "handle"
  /\ IF ReadsSpectrum(found, done) THEN get_spectrum /\ first' = FALSE
                                   ELSE UNCHANGED <<spectra, first>>
  /\ lines' = IF found THEN lines \cup {getinfo} ELSE lines
  /\ pc' = After(found, done)
  /\ UNCHANGED <<request, plan, pass, found, done, failed, dishVars, scanVars, queueVars, interrupts>>

(* driver_continue_blindscan; the driver ignores it while it searches.     *)
ContinueScan ==
  /\ pc = "continue"
  /\ scan' = IF scan = "found" THEN "searching" ELSE scan
  /\ Commanded
  /\ pc' = "wait"
  /\ UNCHANGED <<request, plan, pass, bandVars, dishVars, at, interrupts, lines>>

NextPass ==
  /\ pc = "next"
  /\ IF MorePasses THEN pass' = pass + 1 /\ pc' = "flush" ELSE pass' = pass /\ pc' = "done"
  /\ UNCHANGED <<request, plan, bandVars, dishVars, scanVars, queueVars, interrupts, lines>>

-------------------------------------------------------------------------------
Driver  == DriverFinds \/ DriverEnds \/ DriverStatus
Program == \/ FlushOne \/ FlushEnds \/ SetDish \/ RfInputRefused \/ DishFails \/ StartScan
           \/ CommandFails \/ EpollReturns \/ EpollInterrupted \/ EpollTimesOut \/ GetEvent
           \/ GetEventFails \/ HandleEvent \/ ContinueScan \/ NextPass

Finished == pc \in {"done", "exit"} /\ UNCHANGED vars

Next == Driver \/ Program \/ Finished

Spec == Init /\ [][Next]_vars

(* The program is scheduled, and the driver's search comes to a result.    *)
FairSpec == Spec /\ WF_vars(Program) /\ WF_vars(DriverFinds \/ DriverEnds)

-------------------------------------------------------------------------------
(* Correctness.                                                            *)

TypeOK ==
  /\ request \in Requests /\ plan = SessionPlan(request)
  /\ pc \in {"flush", "dish", "start", "wait", "get", "handle", "continue", "next", "done", "exit"}
  /\ pass \in 1 .. Len(plan) + 1 /\ (pc \notin {"done", "exit"} => pass <= Len(plan))
  /\ found \in BOOLEAN /\ done \in BOOLEAN /\ first \in BOOLEAN /\ failed \in BOOLEAN
  /\ dish_ret \in {-1, 0} /\ reserved \in BOOLEAN
  /\ voltage \in {"13", "18"} /\ tone \in {"on", "off"}
  /\ scan \in {"idle", "searching", "found", "ended"}
  /\ at \in 0 .. MaxFound /\ status \in 0 .. MaxStatus /\ interrupts \in 0 .. MaxInterrupts
  /\ queue \in Seq([lock: BOOLEAN, done: BOOLEAN]) /\ Len(queue) <= QueueSize
  /\ overflow \in BOOLEAN /\ edge \in BOOLEAN
  /\ lines \subseteq (1 .. Len(plan)) \X (0 .. MaxFound)
  /\ spectra \in Nat

(* getinfo writes a line only while the driver stands at a transponder: an *)
(* event of the pass before, or of the transponder before, is never taken  *)
(* for a new one, although nothing but the event is looked at.             *)
LinesAreFound == [][lines' # lines => scan = "found"]_vars

(* The transponders the driver has left behind in this pass.               *)
Left == 1 .. (IF scan = "found" THEN at - 1 ELSE at)

MovedOnIsSaved ==
  pc \in {"wait", "get", "handle", "continue", "next"} => \A i \in Left : <<pass, i>> \in lines

(* As long as every event is read, the driver is sent on from a            *)
(* transponder only after this was saved.                                  *)
ReadMeansSaved == ~failed => MovedOnIsSaved

(* "If the transponder locks, the output is saved": even when the wait is  *)
(* interrupted or the queue overflows, nothing is left behind unsaved.     *)
LockIsSaved == MovedOnIsSaved

(* scan_band reads the spectrum of a band within its event loop, with      *)
(* whatever result comes first.  When it leaves the loop, by the driver's  *)
(* end of the band or by a timeout, it has read it once if it has seen the *)
(* end or written any transponder, and never otherwise, whatever           *)
(* reads have failed and however often the loop went on.                   *)
HadResult == done \/ \E i \in 0 .. MaxFound : <<pass, i>> \in lines

SpectrumReadOnce == pc = "next" => spectra = IF HadResult THEN 1 ELSE 0

AgreesWith(p) == /\ voltage = (IF p.pol = V THEN "13" ELSE "18")
                 /\ request.switch => (tone = "on" <=> p.start >= lnb_universal_slof)

(* "22KHz: off = low band; on = high band 13V = vertical or right-hand 18V *)
(* = horizontal": the band that is searched is the one that is reported.   *)
LnbAlwaysOnPass == pc = "wait" /\ scan = "searching" => AgreesWith(Present)

(* "driver algo has finished with complete scan" is what ends a band.      *)
BandScannedToEnd == pc = "next" => scan = "ended"

(* "The scanned portion is the range [start-freq, end-freq]."              *)
OnlyRangeScanned == pc = "wait" => Present.start >= request.start

(* Whatever the driver reports, the program ends.                          *)
SessionEnds == <>(pc \in {"done", "exit"})
================================================================================
