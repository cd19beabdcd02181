------------------------------- MODULE NeumoTune -------------------------------
(***************************************************************************)
(* neumo-tune, which tunes one transponder and stays there, or fetches a   *)
(* constellation of it and ends.  The whole program is modelled: opening   *)
(* the frontend, the control of the dish, the tuning request, the wait for *)
(* the tuner's events and what is done with a lock.                        *)
(*                                                                         *)
(* The frontend is external: its status is a level, of which 2 has the bit *)
(* FE_HAS_VITERBI and 3 FE_HAS_LOCK as well; each change is an event for   *)
(* the queue that an edge-triggered epoll watches (as in PeakTuning).  An  *)
(* earlier program may have left it tuned.  Of the time the program sleeps *)
(* during DiSEqC nothing is kept; SecControl is about that.                *)
(***************************************************************************)
EXTENDS Lnb

CONSTANTS
  Requests,      \* command lines: records of command, pol, freq, rf_in, diseqc, committed, uncommitted
  Answers,       \* external: what FE_SET_RF_INPUT may return
  Failing,       \* external: the ioctls that may fail
  MaxCount,      \* events scan_freq reads; 3 in the code
  NumRepeats,    \* diseqc_num_repeats; 2 in the code
  QueueSize,     \* external: events the frontend keeps
  MaxStatus,     \* bound on the status changes before and after the request
  MaxFaults,     \* bound on the interrupted waits and failed reads of the status
  Offset         \* external: how far from the frequency asked for a carrier may be

Commands == {"tune", "iq"}

ASSUME NeumoTuneAssumption ==
  /\ Requests \subseteq [command: Commands, pol: {"H", "V", "none"}, freq: Int, rf_in: BOOLEAN,
                         diseqc: Seq({"M", "C", "U", "X", "P", " "}), committed: Int, uncommitted: Int]
  /\ Answers \subseteq {"MASTER", "SLAVE", "RETRY", "UNICABLE_RETRY", "UNCHANGED", "RELEASED",
                        "NOT_SUPPORTED", "EINVAL", "FAILED"}
  /\ Failing \subseteq {"open", "info", "clear", "voltage", "tone_off", "message", "tone", "request",
                        "getinfo"}
  /\ MaxCount \in Nat \ {0} /\ NumRepeats \in Nat /\ QueueSize \in Nat \ {0}
  /\ MaxStatus \in Nat /\ MaxFaults \in Nat /\ Offset \in Nat

VARIABLES
  request,           \* the options
  pc,                \* where the program is
  repeated, command, tone_off_called, ret,   \* the local variables of diseqc
  dish_ret,          \* what do_lnb_and_diseqc has returned, which is ignored
  timedout, locked, count,   \* the local variables of scan_freq
  samples, result,   \* was the constellation saved, was the RESULT line printed?
  misread, faults,   \* has FE_READ_STATUS failed, how often did anything?
  voltage, tone, switch,     \* external: what the LNB and the switches are told
  tuned,             \* external: the frequency the driver is asked for, 0 before
  level, settled,    \* external: the status, and has the tuner made up its mind?
  emitted,           \* external: status changes since the last request
  queue, overflow, edge,     \* external: the unread events
  sent,              \* history: how often each switch was sent its command
  best               \* history: the highest level since the request

diseqcVars == <<repeated, command, tone_off_called, ret>>
lineVars   == <<voltage, tone, switch, sent>>
scanVars   == <<timedout, locked, count>>
fileVars   == <<samples, result, misread, faults>>
tunerVars  == <<tuned, level, settled, emitted, best>>
queueVars  == <<queue, overflow, edge>>
dishVars   == <<diseqcVars, dish_ret, lineVars>>
vars == <<request, pc, dishVars, scanVars, fileVars, tunerVars, queueVars>>

(* Only the two kinds of LNB that parse_options tells apart by frequency.  *)
lnb_type == IF request.freq < 4800000 THEN "C_LNB" ELSE "UNIVERSAL_LNB"

Band == band_for_freq(lnb_type, request.freq)

Letter == request.diseqc[command]

Port(letter) == IF letter = "C" THEN request.committed ELSE request.uncommitted

-------------------------------------------------------------------------------
(* The single decisions of the code, each next to the faulty variants that *)
(* the mutation runs put in its place.                                     *)

(* The tone tells a band that depends on the frequency alone.              *)
LowUpToSlof == request.freq > lnb_universal_slof                  \* mutant
hi_lo       == request.freq >= lnb_universal_slof

(* The status bit that ends the loop, and the one that means a lock.       *)
CarrierBit(l) == l >= 1                                           \* mutant
ViterbiBit(l) == l >= 2
LockBit(l)    == l = 3

(* A command whose port was not given is skipped.                          *)
Skipped(letter) == Port(letter) < 0

(* The loop of scan_freq.                                                  *)
GoesOn(n, t, l)     == n < MaxCount /\ ~t /\ ~l

(* A wait that times out ends scan_freq.                                   *)
WaitAgain    == "wait"                                            \* mutant
AfterTimeout == "scanned"

-------------------------------------------------------------------------------
Init ==
  /\ request \in Requests
  /\ pc = "open"
  /\ repeated = 0 /\ command = 1 /\ tone_off_called = FALSE /\ ret = 0 /\ dish_ret = 0
  /\ timedout = FALSE /\ locked = FALSE /\ count = 0
  /\ samples = FALSE /\ result = FALSE /\ misread = FALSE /\ faults = 0
  /\ voltage \in {"13", "18"} /\ tone \in {"on", "off"}
  /\ switch = [s \in {"C", "U"} |-> <<>>] /\ sent = [s \in {"C", "U"} |-> 0]
  /\ tuned = 0 /\ level \in {0, 3} /\ settled = TRUE /\ emitted = 0 /\ best = 0
  /\ queue = <<>> /\ overflow = FALSE /\ edge = FALSE

-------------------------------------------------------------------------------
(* The frontend.                                                           *)

Arrive(e) ==
  /\ edge' = TRUE
  /\ IF Len(queue) < QueueSize
     THEN queue' = Append(queue, e) /\ UNCHANGED overflow
     ELSE queue' = Append(Tail(queue), e) /\ overflow' = TRUE

Higher(l) == best' = IF l > best THEN l ELSE best

(* The status changes while the tuner searches, and after it has locked.   *)
TunerStatus ==
  /\ pc # "open" /\ emitted < MaxStatus
  /\ emitted' = emitted + 1
  /\ \E l \in (IF settled THEN 0 .. 3 ELSE 0 .. 2) \ {level} :
       level' = l /\ Higher(l) /\ Arrive([level |-> l, timedout |-> FALSE])
  /\ UNCHANGED <<request, pc, dishVars, scanVars, fileVars, tuned, settled>>

(* The tuner locks, reports that it could not, or does neither.            *)
TunerSettles ==
  /\ ~settled
  /\ settled' = TRUE
  /\ \/ level' = 3 /\ Arrive([level |-> 3, timedout |-> FALSE])
     \/ level' = 0 /\ Arrive([level |-> 0, timedout |-> TRUE])
     \/ UNCHANGED <<level, queueVars>>
  /\ Higher(level')
  /\ UNCHANGED <<request, pc, dishVars, scanVars, fileVars, tuned, emitted>>

-------------------------------------------------------------------------------
(* Opening, and the beginning of scan_freq.                                *)

(* open_frontend and get_frontend_info; the polarisation must be given.    *)
Open ==
  /\ pc = "open"
  /\ \/ pc' = IF request.pol = "none" THEN "abort" ELSE "flush"
     \/ Failing \cap {"open", "info"} # {} /\ pc' = "exit"
  /\ UNCHANGED <<request, dishVars, scanVars, fileVars, tunerVars, queueVars>>

(* FE_GET_EVENT succeeds.                                                  *)
CanRead == ~overflow /\ queue # <<>>

FlushOne ==
  /\ pc = "flush" /\ CanRead
  /\ queue' = Tail(queue)
  /\ UNCHANGED <<request, pc, dishVars, scanVars, fileVars, tunerVars, overflow, edge>>

FlushEnds ==
  /\ pc = "flush" /\ ~CanRead
  /\ overflow' = FALSE
  /\ pc' = "rf_input"
  /\ UNCHANGED <<request, dishVars, scanVars, fileVars, tunerVars, queue, edge>>

(* tune: DTV_CLEAR and, if the option is given, FE_SET_RF_INPUT.  To be    *)
(* made a slave, or not to be understood, is good enough.                  *)
SetRfInput ==
  /\ pc = "rf_input"
  /\ \/ /\ request.rf_in => Answers \cap {"MASTER", "SLAVE", "NOT_SUPPORTED"} # {}
        /\ pc' = "voltage"
     \/ /\ \/ "clear" \in Failing
           \/ request.rf_in /\ Answers \ {"MASTER", "SLAVE", "NOT_SUPPORTED"} # {}
        /\ pc' = "exit"
  /\ UNCHANGED <<request, dishVars, scanVars, fileVars, tunerVars, queueVars>>

-------------------------------------------------------------------------------
(* do_lnb_and_diseqc.                                                      *)

DishReturns(r) == dish_ret' = r /\ pc' = "request"

(* FE_SET_VOLTAGE, and the beginning of diseqc, which leaves its variable  *)
(* ret uninitialised.                                                      *)
SetVoltage ==
  /\ pc = "voltage"
  /\ voltage' = IF request.pol = "V" THEN "13" ELSE "18"
  /\ ret' \in {-1, 0}
  /\ pc' = IF request.diseqc = <<>> THEN "tone" ELSE "diseqc"
  /\ UNCHANGED <<request, repeated, command, tone_off_called, dish_ret, tone, switch, sent,
                 scanVars, fileVars, tunerVars, queueVars>>

(* On to the next command, the next repetition, or the end of diseqc.      *)
Proceed ==
  IF command < Len(request.diseqc)
  THEN command' = command + 1 /\ pc' = "diseqc" /\ UNCHANGED repeated
  ELSE IF repeated < NumRepeats
  THEN repeated' = repeated + 1 /\ command' = 1 /\ pc' = "diseqc"
  ELSE pc' = "tone" /\ UNCHANGED <<repeated, command>>

(* The check of ret after the switch statement.                            *)
CheckRet(r) ==
  IF r < 0 THEN DishReturns(r) /\ UNCHANGED <<repeated, command>>
           ELSE Proceed /\ UNCHANGED dish_ret

SkipCommand ==
  /\ pc = "diseqc" /\ Letter \in {"C", "U"} /\ Skipped(Letter)
  /\ Proceed
  /\ UNCHANGED <<request, tone_off_called, ret, dish_ret, lineVars, scanVars, fileVars, tunerVars,
                 queueVars>>

TurnsToneOff == tone_off_called' = TRUE /\ tone' = IF tone_off_called THEN tone ELSE "off"

(* A committed switch is told the band and polarisation as well.           *)
Message(letter) ==
  IF letter = "C" THEN <<Port(letter), hi_lo, request.pol>> ELSE <<Port(letter)>>

SendCommand ==
  /\ pc = "diseqc" /\ Letter \in {"C", "U"} /\ ~Skipped(Letter)
  /\ TurnsToneOff
  /\ switch' = [switch EXCEPT ![Letter] = Message(Letter)]
  /\ sent' = [sent EXCEPT ![Letter] = @ + 1]
  /\ ret' = 0
  /\ CheckRet(0)
  /\ UNCHANGED <<request, voltage, scanVars, fileVars, tunerVars, queueVars>>

(* send_diseqc_message fails after the tone was turned off.                *)
SendFails ==
  /\ pc = "diseqc" /\ Letter \in {"C", "U"} /\ ~Skipped(Letter) /\ "message" \in Failing
  /\ TurnsToneOff
  /\ ret' = -1
  /\ CheckRet(-1)
  /\ UNCHANGED <<request, voltage, switch, sent, scanVars, fileVars, tunerVars, queueVars>>

(* The tone burst is prepared but not sent; pauses and other letters do    *)
(* nothing but reach the check of ret.                                     *)
OtherCommand ==
  /\ pc = "diseqc" /\ Letter \notin {"C", "U"}
  /\ IF Letter = "M" THEN TurnsToneOff ELSE UNCHANGED <<tone_off_called, tone>>
  /\ CheckRet(ret)
  /\ UNCHANGED <<request, ret, voltage, switch, sent, scanVars, fileVars, tunerVars, queueVars>>

(* The tone is set again if diseqc has turned it off.                      *)
SetTone ==
  /\ pc = "tone"
  /\ tone' = IF tone_off_called THEN IF hi_lo THEN "on" ELSE "off" ELSE tone
  /\ DishReturns(0)
  /\ UNCHANGED <<request, diseqcVars, voltage, switch, sent, scanVars, fileVars, tunerVars, queueVars>>

(* FE_SET_VOLTAGE or FE_SET_TONE fails.                                    *)
DishFails ==
  /\ \/ pc = "voltage" /\ "voltage" \in Failing
     \/ pc = "tone" /\ tone_off_called /\ "tone" \in Failing
     \/ /\ pc = "diseqc" /\ ~tone_off_called /\ "tone_off" \in Failing
        /\ Letter = "M" \/ (Letter \in {"C", "U"} /\ ~Skipped(Letter))
  /\ DishReturns(-1)
  /\ UNCHANGED <<request, diseqcVars, lineVars, scanVars, fileVars, tunerVars, queueVars>>

-------------------------------------------------------------------------------
(* tune_it, the wait of scan_freq, and what follows it.                    *)

(* The request goes out whatever do_lnb_and_diseqc has returned.  It       *)
(* discards the unread events and the status of the frontend.              *)
Request ==
  /\ pc = "request"
  /\ tuned' = driver_freq_for_freq(lnb_type, request.freq, Band)
  /\ level' = 0 /\ settled' = FALSE /\ emitted' = 0 /\ best' = 0
  /\ queue' = <<>> /\ overflow' = FALSE
  /\ pc' = "wait"
  /\ UNCHANGED <<request, dishVars, scanVars, fileVars, edge>>

RequestFails ==
  /\ pc = "request" /\ "request" \in Failing
  /\ pc' = "exit"
  /\ UNCHANGED <<request, dishVars, scanVars, fileVars, tunerVars, queueVars>>

EpollReturns ==
  /\ pc = "wait" /\ edge
  /\ edge' = FALSE
  /\ pc' = IF queue = <<>> THEN "wait" ELSE "get"
  /\ UNCHANGED <<request, dishVars, scanVars, fileVars, tunerVars, queue, overflow>>

(* A negative result of epoll_wait is logged, and an event is read anyway. *)
EpollInterrupted ==
  /\ pc = "wait" /\ faults < MaxFaults
  /\ faults' = faults + 1
  /\ pc' = "get"
  /\ UNCHANGED <<request, dishVars, scanVars, samples, result, misread, tunerVars, queueVars>>

(* The timeout of 5000 seconds expires only when the tuner is settled.     *)
EpollTimesOut ==
  /\ pc = "wait" /\ ~edge /\ settled
  /\ timedout' = TRUE
  /\ pc' = AfterTimeout
  /\ UNCHANGED <<request, dishVars, locked, count, fileVars, tunerVars, queueVars>>

(* One FE_GET_EVENT for each return of epoll_wait.                         *)
GetEvent ==
  /\ pc = "get" /\ CanRead
  /\ LET e == Head(queue)
     IN  /\ timedout' = e.timedout /\ locked' = ViterbiBit(e.level) /\ count' = count + 1
         /\ pc' = IF GoesOn(count', timedout', locked') THEN "wait"
                  ELSE IF timedout' THEN AfterTimeout ELSE "check"
  /\ queue' = Tail(queue)
  /\ UNCHANGED <<request, dishVars, fileVars, tunerVars, overflow, edge>>

GetEventFails ==
  /\ pc = "get" /\ ~CanRead
  /\ overflow' = FALSE
  /\ pc' = "wait"
  /\ UNCHANGED <<request, dishVars, scanVars, fileVars, tunerVars, queue, edge>>

(* check_lock_status asks for the status of now, not that of the event; it *)
(* returns -1 if it cannot read it, which passes for a lock.               *)
CheckLockStatus ==
  /\ pc = "check"
  /\ pc' = IF LockBit(level) THEN "getinfo" ELSE "scanned"
  /\ UNCHANGED <<request, dishVars, scanVars, fileVars, tunerVars, queueVars>>

StatusMisread ==
  /\ pc = "check" /\ faults < MaxFaults
  /\ misread' = TRUE /\ faults' = faults + 1
  /\ pc' = "getinfo"
  /\ UNCHANGED <<request, dishVars, scanVars, samples, result, tunerVars, queueVars>>

(* getinfo saves the samples that the driver has, if any, and prints its   *)
(* result unless the frequency is too low; it is given the band where it   *)
(* expects the frequency of the oscillator.                                *)
Printed(found) == found + Band >= request.freq - Offset

save_constellation_samples ==
  samples' \in (IF request.command = "iq" THEN BOOLEAN ELSE {FALSE})

GetInfo ==
  /\ pc = "getinfo"
  /\ save_constellation_samples
  /\ \E found \in {tuned - Offset, tuned, tuned + Offset} : result' = Printed(found)
  /\ pc' = "scanned"
  /\ UNCHANGED <<request, dishVars, scanVars, misread, faults, tunerVars, queueVars>>

(* FE_GET_PROPERTY fails, and with it an assertion.                        *)
GetInfoFails ==
  /\ pc = "getinfo" /\ "getinfo" \in Failing
  /\ pc' = "abort"
  /\ UNCHANGED <<request, dishVars, scanVars, fileVars, tunerVars, queueVars>>

(* main_tune sleeps for ever, main_constellation returns.                  *)
Afterwards ==
  /\ pc = "scanned"
  /\ pc' = IF request.command = "tune" THEN "sleep" ELSE "done"
  /\ UNCHANGED <<request, dishVars, scanVars, fileVars, tunerVars, queueVars>>

-------------------------------------------------------------------------------
Dish == \/ SetVoltage \/ SkipCommand \/ SendCommand \/ SendFails \/ OtherCommand \/ SetTone
        \/ DishFails

Program == \/ Open \/ FlushOne \/ FlushEnds \/ SetRfInput \/ Dish \/ Request \/ RequestFails
           \/ EpollReturns \/ EpollInterrupted \/ EpollTimesOut \/ GetEvent \/ GetEventFails
           \/ CheckLockStatus \/ StatusMisread \/ GetInfo \/ GetInfoFails \/ Afterwards

Finished == pc \in {"sleep", "done", "exit", "abort"} /\ UNCHANGED vars

Next == TunerStatus \/ TunerSettles \/ Program \/ Finished

Spec == Init /\ [][Next]_vars

(* The program is scheduled, and a tuning request comes to an end.         *)
FairSpec == Spec /\ WF_vars(Program) /\ WF_vars(TunerSettles)

-------------------------------------------------------------------------------
(* Correctness.                                                            *)

Levels == 0 .. 3

TypeOK ==
  /\ request \in Requests
  /\ pc \in {"open", "flush", "rf_input", "voltage", "diseqc", "tone", "request", "wait", "get",
            "check", "getinfo", "scanned", "sleep", "done", "exit", "abort"}
  /\ repeated \in 0 .. NumRepeats
  /\ command \in Nat \ {0} /\ (pc = "diseqc" => command <= Len(request.diseqc))
  /\ tone_off_called \in BOOLEAN /\ ret \in {-1, 0} /\ dish_ret \in {-1, 0}
  /\ timedout \in BOOLEAN /\ locked \in BOOLEAN /\ count \in 0 .. MaxCount
  /\ samples \in BOOLEAN /\ result \in BOOLEAN /\ misread \in BOOLEAN
  /\ faults \in 0 .. MaxFaults
  /\ voltage \in {"13", "18"} /\ tone \in {"on", "off"}
  /\ sent \in [{"C", "U"} -> Nat]
  /\ tuned \in Int /\ level \in Levels /\ best \in Levels /\ settled \in BOOLEAN
  /\ emitted \in 0 .. MaxStatus
  /\ queue \in Seq([level: Levels, timedout: BOOLEAN]) /\ Len(queue) <= QueueSize
  /\ overflow \in BOOLEAN /\ edge \in BOOLEAN

(* What arrives at the tuner at the frequency it is asked for.             *)
Received == freq_for_driver_freq(lnb_type, tuned, IF tone = "on" THEN 1 ELSE 0)

Waiting == pc \in {"wait", "get", "check", "getinfo"}

(* When the dish was set without error and a switch command was sent, the  *)
(* oscillator subtracted from the frequency, the tone, the voltage and the *)
(* switch agree: the tuner receives what was asked for.                    *)
TunedToRequest ==
  Waiting /\ dish_ret = 0 /\ sent # [s \in {"C", "U"} |-> 0] =>
    /\ Received = request.freq
    /\ voltage = (IF request.pol = "V" THEN "13" ELSE "18")
    /\ sent["C"] # 0 => Tail(switch["C"]) = <<tone = "on", request.pol>>

(* The wait ends with "locked" only if the tuner has reached FE_HAS_VITERBI *)
(* since the request, and a constellation is saved only of a carrier that  *)
(* it has locked since then, unless the status could not be read: a lock   *)
(* that an earlier program left behind, or that was reported during        *)
(* DiSEqC, is not taken for one.                                           *)
LockIsOfThisRequest ==
  /\ Waiting /\ locked => best >= 2
  /\ samples /\ ~misread => best = 3

(* "will connect adapter 0 to RF INPUT 2 on the card, ... tune to 10719V   *)
(* ... and then wait forever", while the other command ends: whatever the  *)
(* tuner does, both come to where they belong, unless they fail.           *)
ComesToAnEnd ==
  <>(pc \in {"exit", "abort", IF request.command = "tune" THEN "sleep" ELSE "done"})

(* "will connect to adapter 8, tune to 11138V and obtain 8000 IQ samples": *)
(* without samples the tuner has given up, or found nothing.               *)
EndsAfterTuner == pc = "done" /\ ~samples => settled

(* A lock that was found when the wait ended is reported in a RESULT line. *)
LockIsReported == pc \in {"sleep", "done"} /\ locked /\ level = 3 => result
================================================================================
