------------------------------ MODULE SecControl ------------------------------
(***************************************************************************)
(* How stid135-blindscan points its dish: frontend_t::do_lnb_and_diseqc,   *)
(* called for one pass of the scan after the other.  It reserves the RF    *)
(* input, sets the voltage (polarisation), lets diseqc send the switch     *)
(* commands with the tone off, and sets the tone (band).  ParallelScan     *)
(* takes the whole call for one step, SelectBand.                          *)
(*                                                                         *)
(* The equipment is external: voltage and tone are what the last           *)
(* FE_SET_VOLTAGE and FE_SET_TONE asked for, and a switch obeys the last   *)
(* message sent to it.                                                     *)
(***************************************************************************)
EXTENDS Integers, Sequences

CONSTANTS
  Settings,      \* the band and polarisation of one pass after the other
  Requests,      \* the command lines: records of diseqc, committed, uncommitted
  Answers,       \* external: what FE_SET_RF_INPUT may return
  MaxAttempts,   \* of set_rf_input; 10 in the code
  NumRepeats,    \* diseqc_num_repeats; 2 in the code
  QuietCap       \* bound on the silence that is measured, in milliseconds

Bands == {0, 1}
Pols  == {"H", "V"}

ASSUME SecControlAssumption ==
  /\ Settings \in Seq(Bands \X Pols) /\ Settings # <<>>
  /\ Requests \subseteq [diseqc: Seq({"M", "C", "U", "X", "P", " "}), committed: Int, uncommitted: Int]
  /\ Answers \subseteq {"MASTER", "SLAVE", "RETRY", "UNICABLE_RETRY", "UNCHANGED",
                        "RELEASED", "NOT_SUPPORTED", "FAILED"}
  /\ MaxAttempts \in Nat \ {0} /\ NumRepeats \in Nat
  /\ QuietCap \in Nat /\ QuietCap >= 200   \* the longest pause of diseqc is measured in full

VARIABLES
  request,           \* the options
  pc,                \* where do_lnb_and_diseqc is
  pass,              \* the setting it makes
  count, slept,      \* set_rf_input: attempts so far and seconds asleep
  repeated, command, \* the two loops of diseqc
  tone_off_called, must_pause, ret,     \* the other local variables of diseqc
  result,            \* what diseqc has returned
  mode,              \* external: how the driver connects the frontend
  retries,           \* external: how often it has said "retry" in this call
  voltage, tone,     \* external: what the LNB is told
  switch,            \* external: what each switch was told last
  quiet,             \* external: milliseconds since the last message
  first,             \* history: was that message a first transmission?
  sent               \* history: the commands this call of diseqc has sent

reserveVars == <<count, slept, mode, retries>>
diseqcVars  == <<repeated, command, tone_off_called, must_pause, ret>>
lineVars    == <<switch, quiet, first, sent>>
vars == <<request, pc, pass, reserveVars, diseqcVars, result, voltage, tone, lineVars>>

Band == Settings[pass][1]
Pol  == Settings[pass][2]

Letter == request.diseqc[command]

(* The port of the switch that a command is for; negative if not given.    *)
Port(letter) == IF letter = "C" THEN request.committed ELSE request.uncommitted

-------------------------------------------------------------------------------
(* The single decisions of the code, each next to the faulty variants that *)
(* the mutation runs put in its place.                                     *)

(* diseqc starts with the tone as it is.                                   *)
StillOff     == tone_off_called                                   \* mutant
CalledBefore == FALSE

(* A first transmission needs a long pause after it.                       *)
PauseAfterRepeats == repeated > 0                                 \* mutant
PauseNeeded       == repeated = 0

(* A committed switch is told the band and polarisation as well.           *)
Message(letter) == IF letter = "C" THEN <<Port(letter), Band, Pol>> ELSE <<Port(letter)>>

(* The tone is set again if diseqc has turned it off.                      *)
ToneLeftOff(t) == t                                               \* mutant
ToneAfter(t)   == IF result = 1 THEN IF Band = 1 THEN "on" ELSE "off" ELSE t

(* A command whose port was not given is skipped.                          *)
SkippedUnlessBoth(letter) == request.committed < 0 \/ request.uncommitted < 0  \* mutant
Skipped(letter)           == Port(letter) < 0

(* What diseqc returns at its end.                                         *)
Returned == IF tone_off_called THEN 1 ELSE 0

(* set_rf_input ends in success only if the driver said so.                *)
GoesOnUnreserved(n) == "voltage"                                  \* mutant
AfterAttempt(n)     == IF n < MaxAttempts THEN "reserve" ELSE "exit"

-------------------------------------------------------------------------------
Init ==
  /\ request \in Requests
  /\ pc = "reserve" /\ pass = 1
  /\ count = 0 /\ slept = 0 /\ mode = "none" /\ retries = 0
  /\ repeated = 0 /\ command = 1 /\ tone_off_called = FALSE /\ must_pause = FALSE
  /\ ret = 0 /\ result = 0
  /\ voltage \in {"13", "18"} /\ tone \in {"on", "off"}
  /\ switch = [s \in {"C", "U"} |-> <<>>]
  /\ quiet = QuietCap /\ first = FALSE /\ sent = {}

Exit == pc' = "exit"

(* set_rf_input: one FE_SET_RF_INPUT of its loop.  Four of the results the *)
(* switch means to handle are labels without "case" and match nothing.     *)
Reserved(answer) ==
  /\ pc = "reserve"
  /\ \/ answer = "MASTER" /\ mode' = "master"
     \/ answer = "UNCHANGED" /\ mode = "master" /\ UNCHANGED mode
  /\ pc' = "voltage"
  /\ UNCHANGED <<request, pass, count, slept, retries, diseqcVars, result, voltage, tone, lineVars>>

RetryReservation(answer) ==
  /\ pc = "reserve"
  /\ answer \in {"RETRY", "UNICABLE_RETRY", "NOT_SUPPORTED", "FAILED"}
  /\ count' = count + 1
  /\ slept' = slept + (IF answer = "RETRY" THEN 1 ELSE 0)
  /\ retries' = retries + (IF answer \in {"RETRY", "UNICABLE_RETRY"} THEN 1 ELSE 0)
  /\ pc' = AfterAttempt(count')
  /\ UNCHANGED <<request, pass, mode, diseqcVars, result, voltage, tone, lineVars>>

(* RELEASED is an error, SLAVE fails the assertion.                        *)
ReservationFails(answer) ==
  /\ pc = "reserve"
  /\ answer \in {"RELEASED", "SLAVE"}
  /\ Exit
  /\ UNCHANGED <<request, pass, reserveVars, diseqcVars, result, voltage, tone, lineVars>>

(* FE_SET_VOLTAGE, and the beginning of diseqc, which leaves its variable  *)
(* ret uninitialised.                                                      *)
SetVoltage ==
  /\ pc = "voltage"
  /\ voltage' = IF Pol = "V" THEN "13" ELSE "18"
  /\ repeated' = 0 /\ command' = 1
  /\ tone_off_called' = CalledBefore /\ must_pause' = FALSE
  /\ ret' \in {-1, 0} /\ sent' = {}
  /\ pc' = IF request.diseqc = <<>> THEN "end" ELSE "diseqc"
  /\ UNCHANGED <<request, pass, reserveVars, result, tone, switch, quiet, first>>

(* An ioctl that sets the voltage, the tone or a switch fails.             *)
IoctlFails ==
  /\ \/ pc \in {"voltage", "send"}
     \/ pc = "tone" /\ result = 1
     \/ pc = "diseqc" /\ ~tone_off_called /\ (Letter = "M" \/ (Letter \in {"C", "U"} /\ ~Skipped(Letter)))
  /\ Exit
  /\ UNCHANGED <<request, pass, reserveVars, diseqcVars, result, voltage, tone, lineVars>>

Sleep(ms) == quiet' = IF quiet + ms < QuietCap THEN quiet + ms ELSE QuietCap

(* tone_off, which acts at most once in a call, and the sleep after it.    *)
ToneOffAndSleep ==
  /\ tone' = IF tone_off_called THEN tone ELSE "off"
  /\ tone_off_called' = TRUE
  /\ Sleep(IF must_pause THEN 200 ELSE 30)

(* On to the next command, the next repetition, or the end of diseqc.      *)
Proceed ==
  IF command < Len(request.diseqc)
  THEN command' = command + 1 /\ pc' = "diseqc" /\ UNCHANGED repeated
  ELSE IF repeated < NumRepeats
  THEN repeated' = repeated + 1 /\ command' = 1 /\ pc' = "diseqc"
  ELSE pc' = "end" /\ UNCHANGED <<repeated, command>>

(* The check of ret after the switch statement: a negative value ends the  *)
(* call, and the callers of do_lnb_and_diseqc do not look at the result.   *)
CheckRet ==
  IF ret < 0 THEN result' = ret /\ pc' = "returned" /\ UNCHANGED <<repeated, command>>
             ELSE Proceed /\ UNCHANGED result

SkipCommand ==
  /\ pc = "diseqc" /\ Letter \in {"C", "U"} /\ Skipped(Letter)
  /\ Proceed
  /\ UNCHANGED <<request, pass, reserveVars, tone_off_called, must_pause, ret, result,
                 voltage, tone, lineVars>>

PrepareMessage ==
  /\ pc = "diseqc" /\ Letter \in {"C", "U"} /\ ~Skipped(Letter)
  /\ ToneOffAndSleep
  /\ pc' = "send"
  /\ UNCHANGED <<request, pass, reserveVars, repeated, command, must_pause, ret, result,
                 voltage, switch, first, sent>>

(* send_diseqc_message, which returns 0 or exits.                          *)
SendMessage ==
  /\ pc = "send"
  /\ switch' = [switch EXCEPT ![Letter] = Message(Letter)]
  /\ quiet' = 0 /\ first' = (repeated = 0) /\ sent' = sent \cup {Letter}
  /\ ret' = 0 /\ must_pause' = PauseNeeded
  /\ Proceed
  /\ UNCHANGED <<request, pass, reserveVars, tone_off_called, result, voltage, tone>>

(* The case of the tone burst prepares it but sends none.                  *)
MiniDiseqc ==
  /\ pc = "diseqc" /\ Letter = "M"
  /\ ToneOffAndSleep
  /\ must_pause' = PauseNeeded
  /\ CheckRet
  /\ UNCHANGED <<request, pass, reserveVars, ret, voltage, switch, first, sent>>

Pause ==
  /\ pc = "diseqc" /\ Letter = " "
  /\ Sleep(50)
  /\ must_pause' = FALSE
  /\ CheckRet
  /\ UNCHANGED <<request, pass, reserveVars, tone_off_called, ret, voltage, tone, switch,
                 first, sent>>

OtherCommand ==
  /\ pc = "diseqc" /\ Letter \notin {"M", "C", "U", " "}
  /\ CheckRet
  /\ UNCHANGED <<request, pass, reserveVars, tone_off_called, must_pause, ret, voltage, tone,
                 lineVars>>

DiseqcReturns ==
  /\ pc = "end"
  /\ Sleep(IF must_pause THEN 100 ELSE 0)
  /\ result' = Returned
  /\ pc' = "tone"
  /\ UNCHANGED <<request, pass, reserveVars, diseqcVars, voltage, tone, switch, first, sent>>

SetTone ==
  /\ pc = "tone"
  /\ tone' = ToneAfter(tone)
  /\ pc' = "returned"
  /\ UNCHANGED <<request, pass, reserveVars, diseqcVars, result, voltage, lineVars>>

(* The band is scanned, and do_lnb_and_diseqc is called for the next one.  *)
NextPass ==
  /\ pc = "returned" /\ pass < Len(Settings)
  /\ pass' = pass + 1
  /\ count' = 0 /\ slept' = 0 /\ retries' = 0
  /\ Sleep(QuietCap)
  /\ pc' = "reserve"
  /\ UNCHANGED <<request, mode, diseqcVars, result, voltage, tone, switch, first, sent>>

Diseqc == SkipCommand \/ PrepareMessage \/ SendMessage \/ MiniDiseqc \/ Pause \/ OtherCommand

Step == \/ \E a \in Answers : Reserved(a) \/ RetryReservation(a) \/ ReservationFails(a)
        \/ SetVoltage \/ IoctlFails \/ Diseqc \/ DiseqcReturns \/ SetTone

Finished == (pc = "exit" \/ (pc = "returned" /\ pass = Len(Settings))) /\ UNCHANGED vars

Next == Step \/ NextPass \/ Finished

Spec == Init /\ [][Next]_vars

-------------------------------------------------------------------------------
(* Correctness.                                                            *)

TypeOK ==
  /\ request \in Requests
  /\ pc \in {"reserve", "voltage", "diseqc", "send", "end", "tone", "returned", "exit"}
  /\ pass \in 1 .. Len(Settings)
  /\ count \in 0 .. MaxAttempts /\ slept \in 0 .. count /\ retries \in 0 .. count
  /\ repeated \in 0 .. NumRepeats
  /\ command \in Nat \ {0} /\ (pc \in {"diseqc", "send"} => command <= Len(request.diseqc))
  /\ tone_off_called \in BOOLEAN /\ must_pause \in BOOLEAN /\ ret \in {-1, 0}
  /\ result \in {-1, 0, 1}
  /\ mode \in {"none", "master"}
  /\ voltage \in {"13", "18"} /\ tone \in {"on", "off"}
  /\ quiet \in 0 .. QuietCap /\ first \in BOOLEAN /\ sent \subseteq {"C", "U"}

(* "turn off tone to not interfere with diseqc": in no pass is a message   *)
(* sent over the tone of the pass before.                                  *)
DiseqcWithToneOff == pc = "send" => tone = "off"

(* Nothing on the cable changes while the driver has not made the frontend *)
(* the master of the RF input.                                             *)
OnlyMasterControls ==
  [][<<voltage, tone, switch>>' # <<voltage, tone, switch>> => mode = "master"]_vars

(* A message that follows a first transmission waits for the switch, over  *)
(* the skipped commands and into the next repetition; a pause in the       *)
(* string replaces the long wait by a shorter one.                         *)
LongPauseAfterFirst ==
  pc = "send" /\ first =>
    quiet >= IF \E i \in DOMAIN request.diseqc : request.diseqc[i] = " " THEN 80 ELSE 200

Agrees == /\ voltage = (IF Pol = "V" THEN "13" ELSE "18")
          /\ tone = (IF Band = 1 THEN "on" ELSE "off")

(* Where a switch command was sent, voltage, tone and the message to the   *)
(* committed switch tell the LNB the same setting, that of the pass.       *)
LnbOnSetting ==
  pc = "returned" /\ sent # {} =>
    Agrees /\ ("C" \in sent => Tail(switch["C"]) = Settings[pass])

(* "select the proper lnb band; 22KHz: off = low band; on = high band".    *)
ToneIsBand == pc = "returned" => Agrees

(* When the scan goes on, every command of the string whose port was given *)
(* has reached its switch in this call.                                    *)
EveryCommandSent ==
  pc = "returned" =>
    \A i \in DOMAIN request.diseqc :
      LET l == request.diseqc[i]
      IN  l \in {"C", "U"} /\ Port(l) >= 0 => l \in sent /\ switch[l] = Message(l)

(* "Returns <0 on error, 0 of no diseqc command was sent, 1 if at least 1  *)
(* diseqc command was sent."                                               *)
ReturnTellsSent == pc = "tone" => (result = 1 <=> sent # {})

(* "another frontend has started a unicable command. Retry later": every   *)
(* answer that asks to retry is followed by a wait before the next try.    *)
RetriesLater == slept = retries
===============================================================================
