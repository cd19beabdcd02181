---------------------------- MODULE SecControl_proofs ----------------------------
(***************************************************************************)
(* What the dish is told, for every sequence of passes, every command      *)
(* string, any number of repetitions and attempts, and whatever the driver *)
(* answers to FE_SET_RF_INPUT.                                             *)
(***************************************************************************)
EXTENDS SecControl, SequenceTheorems, TLAPS

Commands == {"C", "U"}

InDiseqc == {"diseqc", "send", "end"}
InCall   == InDiseqc \cup {"tone"}

(* What TypeOK leaves out: the switches, and that another attempt is left  *)
(* while set_rf_input is in its loop.                                      *)
SwitchOK  == switch = [s \in Commands |-> switch[s]]
AttemptOK == pc = "reserve" => count < MaxAttempts

(* From the reservation to the tone the frontend stays the master.         *)
MasterHeld == pc \in InCall \cup {"voltage"} => mode = "master"

VoltageHeld == pc \in InCall \cup {"returned"} => voltage = (IF Pol = "V" THEN "13" ELSE "18")

(* Once diseqc has turned the tone off nothing turns it on but SetTone.    *)
ToneHeld == pc \in InCall /\ tone_off_called => tone = "off"

(* What is about to be sent is a command with a port.                      *)
Sending == pc = "send" => Letter \in Commands /\ ~Skipped(Letter) /\ tone_off_called

(* What has been sent in this call is what the switches were told last, it *)
(* was sent with the tone off, and ret is no longer uninitialised.         *)
SentHeld ==
  /\ pc \in InCall \cup {"returned"} => \A l \in sent : switch[l] = Message(l)
  /\ pc \in InCall /\ sent # {} => tone_off_called /\ ret = 0
  /\ pc = "tone" => result = Returned

(* The commands the two loops have passed have been sent.                  *)
IsSent(i) ==
  request.diseqc[i] \in Commands /\ Port(request.diseqc[i]) >= 0 => request.diseqc[i] \in sent

LoopsSent ==
  /\ pc \in {"diseqc", "send"} =>
       \A i \in DOMAIN request.diseqc : i < command \/ repeated > 0 => IsSent(i)
  /\ pc \in {"end", "tone"} \/ (pc = "returned" /\ result # -1) =>
       \A i \in DOMAIN request.diseqc : IsSent(i)

HasPause == \E i \in DOMAIN request.diseqc : request.diseqc[i] = " "

(* After a first transmission the long pause is still due or already over. *)
PauseDue ==
  /\ pc \in {"reserve", "voltage"} => quiet >= 200
  /\ pc = "diseqc" /\ first => must_pause \/ quiet >= 200 \/ (HasPause /\ quiet >= 50)
  /\ LongPauseAfterFirst

IInv ==
  /\ TypeOK /\ SwitchOK /\ AttemptOK
  /\ MasterHeld /\ VoltageHeld /\ ToneHeld
  /\ Sending /\ SentHeld /\ LoopsSent
  /\ PauseDue /\ LnbOnSetting
-------------------------------------------------------------------------------
LEMMA RequestType ==
  ASSUME TypeOK
  PROVE  /\ request.diseqc \in Seq({"M", "C", "U", "X", "P", " "})
         /\ DOMAIN request.diseqc = 1 .. Len(request.diseqc) /\ Len(request.diseqc) \in Nat
         /\ (request.diseqc = <<>> => DOMAIN request.diseqc = {})
         /\ (request.diseqc # <<>> => Len(request.diseqc) >= 1)
         /\ \A letter : Port(letter) \in Int
<1>1. request \in [diseqc: Seq({"M", "C", "U", "X", "P", " "}), committed: Int, uncommitted: Int]
  BY SecControlAssumption DEF TypeOK
<1>2. request.diseqc \in Seq({"M", "C", "U", "X", "P", " "})
  BY <1>1
<1>3. request.committed \in Int /\ request.uncommitted \in Int
  BY <1>1
<1>4. \A letter : Port(letter) \in Int
  BY <1>3 DEF Port
<1>5. DOMAIN request.diseqc = 1 .. Len(request.diseqc) /\ Len(request.diseqc) \in Nat
  BY <1>2, LenProperties
<1>6. request.diseqc # <<>> => Len(request.diseqc) >= 1
  <2>1. request.diseqc # <<>> => Len(request.diseqc) \in Nat \ {0}
    BY <1>2, EmptySeq, Zenon
  <2> QED
    BY <2>1
<1>7. request.diseqc = <<>> => DOMAIN request.diseqc = {}
  BY <1>5
<1> QED
  BY <1>2, <1>4, <1>5, <1>6, <1>7, Zenon

LEMMA SettingType ==
  ASSUME TypeOK
  PROVE  Band \in Bands /\ Pol \in Pols /\ Settings[pass] = <<Band, Pol>>
<1>1. Settings \in Seq(Bands \X Pols) /\ pass \in 1 .. Len(Settings)
  BY SecControlAssumption DEF TypeOK
<1>2. Settings[pass] \in Bands \X Pols
  BY <1>1, ElementOfSeq
<1> QED
  BY <1>2 DEF Band, Pol

(* The constants that are numbers.                                         *)
LEMMA Numbers ==
  MaxAttempts \in Nat \ {0} /\ NumRepeats \in Nat /\ QuietCap \in Nat /\ QuietCap >= 200
BY SecControlAssumption

(* A sleep keeps the measure of the silence in its range; it adds the time *)
(* slept, as far as the measure reaches.                                   *)
LEMMA SleepStep ==
  ASSUME quiet \in 0 .. QuietCap, NEW ms \in Nat, Sleep(ms)
  PROVE  /\ quiet' \in 0 .. QuietCap /\ quiet' >= quiet
         /\ (quiet + ms <= 200 => quiet' >= quiet + ms)
         /\ (quiet + ms >= 200 => quiet' >= 200)
BY Numbers DEF Sleep

(* The loops go on after a command that is sent or need not be: what they  *)
(* have passed has been sent, and at the end of diseqc everything has.     *)
LEMMA ProceedStep ==
  ASSUME TypeOK, LoopsSent, pc \in {"diseqc", "send"}, Proceed,
         request' = request, sent \subseteq sent',
         \A i \in DOMAIN request.diseqc : i = command => IsSent(i)'
  PROVE  /\ pc' \in {"diseqc", "end"}
         /\ repeated' \in 0 .. NumRepeats
         /\ command' \in Nat \ {0} /\ (pc' = "diseqc" => command' <= Len(request'.diseqc))
         /\ LoopsSent'
<1>1. /\ command \in 1 .. Len(request.diseqc) /\ Len(request.diseqc) \in Nat
      /\ DOMAIN request.diseqc = 1 .. Len(request.diseqc)
      /\ repeated \in 0 .. NumRepeats /\ NumRepeats \in Nat
  <2>1. DOMAIN request.diseqc = 1 .. Len(request.diseqc) /\ Len(request.diseqc) \in Nat
    BY RequestType, Zenon
  <2>2. command \in Nat \ {0} /\ command <= Len(request.diseqc) /\ repeated \in 0 .. NumRepeats
    BY DEF TypeOK
  <2> QED
    BY <2>1, <2>2, Numbers
<1>2. \A i \in DOMAIN request.diseqc : i < command \/ repeated > 0 => IsSent(i)'
  BY DEF LoopsSent, IsSent, Port
<1>3. CASE command < Len(request.diseqc)
  <2>1. command' = command + 1 /\ pc' = "diseqc" /\ repeated' = repeated
    BY <1>3 DEF Proceed
  <2>2. \A i \in DOMAIN request.diseqc : i < command' => i < command \/ i = command
    BY <1>1, <2>1
  <2>3. \A i \in DOMAIN request.diseqc : i < command' \/ repeated' > 0 => IsSent(i)'
    BY <1>2, <2>1, <2>2, Zenon
  <2>4. LoopsSent'
    BY <2>1, <2>3 DEF LoopsSent
  <2> QED
    BY <1>1, <1>3, <2>1, <2>4
<1>4. CASE ~(command < Len(request.diseqc))
  <2>1. \A i \in DOMAIN request.diseqc : i < command \/ i = command
    BY <1>1, <1>4
  <2>2. \A i \in DOMAIN request.diseqc : IsSent(i)'
    BY <1>2, <2>1, Zenon
  <2>3. LoopsSent'
    BY <2>2 DEF LoopsSent
  <2>4. CASE repeated < NumRepeats
    BY <1>1, <1>4, <2>3, <2>4 DEF Proceed
  <2>5. CASE ~(repeated < NumRepeats)
    BY <1>1, <1>4, <2>3, <2>5 DEF Proceed
  <2> QED
    BY <2>4, <2>5
<1> QED
  BY <1>3, <1>4

(* The same behind the check of ret; a call that ret ends has not sent     *)
(* anything.                                                               *)
LEMMA CheckRetStep ==
  ASSUME TypeOK, SentHeld, LoopsSent, pc = "diseqc", Letter \notin Commands, CheckRet,
         request' = request, sent' = sent
  PROVE  /\ pc' \in {"diseqc", "end", "returned"}
         /\ repeated' \in 0 .. NumRepeats
         /\ command' \in Nat \ {0} /\ (pc' = "diseqc" => command' <= Len(request'.diseqc))
         /\ result' \in {-1, 0, 1}
         /\ (pc' = "returned" => sent = {} /\ result' = -1)
         /\ LoopsSent'
<1>1. CASE ret < 0
  <2>1. pc' = "returned" /\ result' = ret /\ repeated' = repeated /\ command' = command
    BY <1>1 DEF CheckRet
  <2>2. ret = -1 /\ sent = {}
    BY <1>1 DEF TypeOK, SentHeld, InCall, InDiseqc
  <2> QED
    BY <2>1, <2>2 DEF TypeOK, LoopsSent
<1>2. CASE ~(ret < 0)
  <2>1. Proceed /\ result' = result
    BY <1>2 DEF CheckRet
  <2>2. \A i \in DOMAIN request.diseqc : i = command => IsSent(i)'
    BY DEF IsSent, Letter
  <2>3. /\ pc' \in {"diseqc", "end"}
        /\ repeated' \in 0 .. NumRepeats
        /\ command' \in Nat \ {0} /\ (pc' = "diseqc" => command' <= Len(request'.diseqc))
        /\ LoopsSent'
    <3>1. pc \in {"diseqc", "send"} /\ sent \subseteq sent'
      OBVIOUS
    <3> QED
      BY <2>1, <2>2, <3>1, ProceedStep, Zenon
  <2> QED
    BY <2>1, <2>3 DEF TypeOK
<1> QED
  BY <1>1, <1>2

(* Within a pass the settings and the messages that stand for them do not  *)
(* change.                                                                 *)
LEMMA Frame ==
  ASSUME UNCHANGED <<request, pass>>
  PROVE  /\ Band' = Band /\ Pol' = Pol /\ HasPause' = HasPause
         /\ \A l : Port(l)' = Port(l) /\ Message(l)' = Message(l) /\ Skipped(l)' = Skipped(l)
BY DEF Band, Pol, HasPause, Port, Message, Skipped

(* set_rf_input sends nothing; it gives up before the attempts run out of  *)
(* their range.                                                            *)
LEMMA ReserveStep ==
  ASSUME IInv, NEW a \in Answers, Reserved(a) \/ RetryReservation(a) \/ ReservationFails(a)
  PROVE  IInv'
<1> USE DEF IInv, InCall, InDiseqc
<1>1. /\ pc = "reserve" /\ quiet >= 200
      /\ UNCHANGED <<request, pass, diseqcVars, result, voltage, tone, lineVars>>
  BY DEF Reserved, RetryReservation, ReservationFails, PauseDue, reserveVars
<1>2. pc' \in {"voltage", "reserve", "exit"}
  BY DEF Reserved, RetryReservation, ReservationFails, AfterAttempt, Exit
<1>3. pc' = "voltage" => mode' = "master"
  BY DEF Reserved, RetryReservation, ReservationFails, AfterAttempt, Exit
<1>4. /\ count' \in 0 .. MaxAttempts /\ slept' \in 0 .. count' /\ retries' \in 0 .. count'
      /\ mode' \in {"none", "master"} /\ AttemptOK'
  <2>1. /\ count \in Nat /\ count < MaxAttempts /\ slept \in 0 .. count /\ retries \in 0 .. count
        /\ mode \in {"none", "master"} /\ MaxAttempts \in Nat
    BY <1>1, Numbers DEF TypeOK, AttemptOK
  <2>2. CASE Reserved(a)
    BY <2>1, <2>2 DEF Reserved, AttemptOK
  <2>3. CASE RetryReservation(a)
    BY <2>1, <2>3 DEF RetryReservation, AttemptOK, AfterAttempt
  <2>4. CASE ReservationFails(a)
    BY <2>1, <2>4 DEF ReservationFails, AttemptOK, reserveVars, Exit
  <2> QED
    BY <2>2, <2>3, <2>4
<1>5. TypeOK'
  BY <1>1, <1>2, <1>4 DEF TypeOK, diseqcVars, lineVars
<1>6. SwitchOK' /\ MasterHeld' /\ VoltageHeld' /\ ToneHeld' /\ Sending' /\ SentHeld' /\ LoopsSent'
  BY <1>1, <1>2, <1>3 DEF SwitchOK, MasterHeld, VoltageHeld, ToneHeld, Sending, SentHeld,
                          LoopsSent, lineVars
<1>7. PauseDue' /\ LnbOnSetting'
  BY <1>1, <1>2 DEF PauseDue, LongPauseAfterFirst, LnbOnSetting, lineVars
<1> QED
  BY <1>4, <1>5, <1>6, <1>7

(* A failing ioctl ends the program.                                       *)
LEMMA FailStep ==
  ASSUME IInv, IoctlFails
  PROVE  IInv'
<1> USE DEF IInv, InCall, InDiseqc
<1>1. pc' = "exit" /\ UNCHANGED <<request, pass, reserveVars, diseqcVars, result, voltage, tone, lineVars>>
  BY DEF IoctlFails, Exit
<1>2. TypeOK'
  BY <1>1 DEF TypeOK, reserveVars, diseqcVars, lineVars
<1>3. /\ SwitchOK' /\ AttemptOK' /\ MasterHeld' /\ VoltageHeld' /\ ToneHeld' /\ Sending' /\ SentHeld'
      /\ LoopsSent' /\ PauseDue' /\ LnbOnSetting'
  BY <1>1 DEF SwitchOK, AttemptOK, MasterHeld, VoltageHeld, ToneHeld, Sending, SentHeld,
              LoopsSent, PauseDue, LongPauseAfterFirst, LnbOnSetting, lineVars
<1> QED
  BY <1>2, <1>3

(* The voltage of the pass is set before diseqc begins, and diseqc begins  *)
(* with nothing sent and the last message long past.                       *)
LEMMA VoltageStep ==
  ASSUME IInv, SetVoltage
  PROVE  IInv'
<1> USE DEF IInv, InCall, InDiseqc
<1>1. /\ pc = "voltage" /\ voltage' = (IF Pol = "V" THEN "13" ELSE "18")
      /\ repeated' = 0 /\ command' = 1 /\ tone_off_called' = FALSE /\ must_pause' = FALSE
      /\ ret' \in {-1, 0} /\ sent' = {}
      /\ pc' = (IF request.diseqc = <<>> THEN "end" ELSE "diseqc")
      /\ UNCHANGED <<request, pass, reserveVars, result, tone, switch, quiet, first>>
  BY DEF SetVoltage, CalledBefore
<1>2. /\ pc' \in {"end", "diseqc"}
      /\ (pc' = "diseqc" => command' <= Len(request'.diseqc))
      /\ (pc' = "end" => DOMAIN request'.diseqc = {})
  <2>1. CASE request.diseqc = <<>>
    BY <1>1, <2>1, RequestType
  <2>2. CASE request.diseqc # <<>>
    BY <1>1, <2>2, RequestType
  <2> QED
    BY <2>1, <2>2
<1>3. TypeOK'
  <2>1. repeated' \in 0 .. NumRepeats /\ command' \in Nat \ {0}
    BY <1>1, Numbers
  <2>2. tone_off_called' \in BOOLEAN /\ must_pause' \in BOOLEAN /\ sent' \subseteq {"C", "U"}
    BY <1>1, Zenon
  <2> QED
    BY <1>1, <1>2, <2>1, <2>2 DEF TypeOK, reserveVars
<1>4. VoltageHeld' /\ MasterHeld' /\ SwitchOK' /\ AttemptOK'
  BY <1>1, <1>2, Frame DEF VoltageHeld, MasterHeld, SwitchOK, AttemptOK, reserveVars
<1>5. ToneHeld' /\ Sending' /\ SentHeld'
  BY <1>1, <1>2 DEF ToneHeld, Sending, SentHeld
<1>6. LoopsSent'
  <2>1. DOMAIN request'.diseqc = 1 .. Len(request.diseqc) /\ Len(request.diseqc) \in Nat
    BY <1>1, RequestType
  <2>2. \A i \in 1 .. Len(request.diseqc) : ~(i < 1 \/ 0 > 0)
    BY <2>1
  <2> QED
    BY <1>1, <1>2, <2>1, <2>2 DEF LoopsSent
<1>7. PauseDue' /\ LnbOnSetting'
  BY <1>1, <1>2 DEF PauseDue, LongPauseAfterFirst, LnbOnSetting
<1> QED
  BY <1>3, <1>4, <1>5, <1>6, <1>7

(* A skipped command has no port, so the loops may pass it.                *)
LEMMA SkipStep ==
  ASSUME IInv, SkipCommand
  PROVE  IInv'
<1> USE DEF IInv, InCall, InDiseqc
<1>1. /\ pc = "diseqc" /\ Letter \in {"C", "U"} /\ Skipped(Letter) /\ Proceed
      /\ UNCHANGED <<request, pass, reserveVars, tone_off_called, must_pause, ret, result,
                     voltage, tone, switch, quiet, first, sent>>
  BY DEF SkipCommand, lineVars
<1>2. \A i \in DOMAIN request.diseqc : i = command => IsSent(i)'
  <2>1. Port(Letter) < 0 /\ Port(Letter) \in Int
    BY <1>1, RequestType DEF Skipped
  <2>2. ~(Port(Letter) >= 0)
    BY <2>1
  <2> QED
    BY <1>1, <2>1, <2>2 DEF IsSent, Letter, Port
<1>3. /\ pc' \in {"diseqc", "end"} /\ repeated' \in 0 .. NumRepeats
      /\ command' \in Nat \ {0} /\ (pc' = "diseqc" => command' <= Len(request'.diseqc))
      /\ LoopsSent'
  <2>1. pc \in {"diseqc", "send"} /\ sent \subseteq sent' /\ request' = request
    BY <1>1
  <2> QED
    BY <1>1, <1>2, <2>1, ProceedStep, Zenon
<1>4. TypeOK'
  BY <1>1, <1>3 DEF TypeOK, reserveVars
<1>5. SwitchOK' /\ AttemptOK' /\ MasterHeld' /\ VoltageHeld' /\ ToneHeld' /\ Sending' /\ SentHeld'
  BY <1>1, <1>3, Frame DEF SwitchOK, AttemptOK, MasterHeld, VoltageHeld, ToneHeld, Sending, SentHeld,
                           reserveVars
<1>6. PauseDue' /\ LnbOnSetting'
  BY <1>1, <1>3, Frame DEF PauseDue, LongPauseAfterFirst, LnbOnSetting
<1> QED
  BY <1>3, <1>4, <1>5, <1>6

(* Before a command is sent the tone is off and the pause that is due is   *)
(* over.                                                                   *)
LEMMA PrepareStep ==
  ASSUME IInv, PrepareMessage
  PROVE  IInv'
<1> USE DEF IInv, InCall, InDiseqc
<1>1. /\ pc = "diseqc" /\ Letter \in {"C", "U"} /\ ~Skipped(Letter) /\ pc' = "send"
      /\ tone' = (IF tone_off_called THEN tone ELSE "off") /\ tone_off_called' = TRUE
      /\ UNCHANGED <<request, pass, reserveVars, repeated, command, must_pause, ret, result,
                     voltage, switch, first, sent>>
  BY DEF PrepareMessage, ToneOffAndSleep
<1>2. quiet' \in 0 .. QuietCap /\ (first => quiet' >= IF HasPause THEN 80 ELSE 200)
  <2>1. /\ quiet \in 0 .. QuietCap /\ QuietCap \in Nat
        /\ (first => must_pause \/ quiet >= 200 \/ (HasPause /\ quiet >= 50))
    BY <1>1, Numbers DEF TypeOK, PauseDue
  <2>2. CASE must_pause
    <3>1. Sleep(200) /\ 200 \in Nat
      BY <2>2 DEF PrepareMessage, ToneOffAndSleep
    <3>2. quiet' \in 0 .. QuietCap /\ quiet' >= 200
      BY <2>1, <3>1, SleepStep
    <3> QED
      BY <3>2
  <2>3. CASE ~must_pause
    <3>1. Sleep(30) /\ 30 \in Nat
      BY <2>3 DEF PrepareMessage, ToneOffAndSleep
    <3>2. quiet' \in 0 .. QuietCap /\ (quiet >= 200 => quiet' >= 200) /\ (quiet >= 50 => quiet' >= 80)
      BY <2>1, <3>1, SleepStep, Numbers
    <3> QED
      BY <2>1, <2>3, <3>2
  <2> QED
    BY <2>2, <2>3
<1>3. TypeOK'
  BY <1>1, <1>2 DEF TypeOK, reserveVars
<1>4. SwitchOK' /\ AttemptOK' /\ MasterHeld' /\ VoltageHeld' /\ ToneHeld'
  BY <1>1, Frame DEF SwitchOK, AttemptOK, MasterHeld, VoltageHeld, ToneHeld, reserveVars
<1>5. Letter' = Letter /\ \A i \in DOMAIN request.diseqc : IsSent(i)' = IsSent(i)
  BY <1>1 DEF Letter, IsSent, Port
<1>6. Sending' /\ SentHeld' /\ LoopsSent'
  BY <1>1, <1>5, Frame DEF Sending, SentHeld, LoopsSent, Commands
<1>7. PauseDue' /\ LnbOnSetting'
  BY <1>1, <1>2, Frame DEF PauseDue, LongPauseAfterFirst, LnbOnSetting, HasPause
<1> QED
  BY <1>3, <1>4, <1>6, <1>7

(* A message is sent to the switch of its command and recorded as sent; if *)
(* it is a first transmission the long pause is due.                       *)
LEMMA SendStep ==
  ASSUME IInv, SendMessage
  PROVE  IInv'
<1> USE DEF IInv, InCall, InDiseqc
<1>1. /\ pc = "send" /\ Letter \in Commands /\ tone_off_called /\ tone = "off"
      /\ switch' = [switch EXCEPT ![Letter] = Message(Letter)]
      /\ quiet' = 0 /\ first' = (repeated = 0) /\ must_pause' = (repeated = 0)
      /\ sent' = sent \cup {Letter} /\ ret' = 0 /\ Proceed
      /\ UNCHANGED <<request, pass, reserveVars, tone_off_called, result, voltage, tone>>
  BY DEF SendMessage, PauseNeeded, Sending, ToneHeld
<1>2. switch' = [s \in Commands |-> IF s = Letter THEN Message(Letter) ELSE switch[s]]
  BY <1>1 DEF SwitchOK, Commands
<1>3. \A i \in DOMAIN request.diseqc : i = command => IsSent(i)'
  BY <1>1 DEF IsSent, Letter
<1>4. /\ pc' \in {"diseqc", "end"} /\ repeated' \in 0 .. NumRepeats
      /\ command' \in Nat \ {0} /\ (pc' = "diseqc" => command' <= Len(request'.diseqc))
      /\ LoopsSent'
  <2>1. pc \in {"diseqc", "send"} /\ sent \subseteq sent' /\ request' = request
    BY <1>1
  <2> QED
    BY <1>1, <1>3, <2>1, ProceedStep, Zenon
<1>5. TypeOK'
  <2>1. quiet' \in 0 .. QuietCap
    BY <1>1, Numbers
  <2>2. first' \in BOOLEAN /\ must_pause' \in BOOLEAN /\ sent' \subseteq {"C", "U"}
    BY <1>1, Zenon DEF TypeOK, Commands
  <2> QED
    BY <1>1, <1>4, <2>1, <2>2 DEF TypeOK, reserveVars
<1>6. SwitchOK' /\ AttemptOK' /\ MasterHeld' /\ VoltageHeld' /\ ToneHeld' /\ Sending'
  BY <1>1, <1>2, <1>4, Frame DEF SwitchOK, AttemptOK, MasterHeld, VoltageHeld, ToneHeld, Sending,
                                 reserveVars, Commands
<1>7. SentHeld'
  <2>1. \A l \in sent : l \in Commands /\ switch[l] = Message(l)
    BY <1>1 DEF SentHeld, TypeOK, Commands
  <2>2. \A l \in sent' : switch'[l] = Message(l)
    BY <1>1, <1>2, <2>1
  <2>3. \A l \in sent' : (switch[l])' = Message(l)'
    BY <1>1, <2>2, Frame
  <2> QED
    BY <1>1, <1>4, <2>3 DEF SentHeld
<1>8. PauseDue' /\ LnbOnSetting'
  BY <1>1, <1>4 DEF PauseDue, LongPauseAfterFirst, LnbOnSetting
<1> QED
  BY <1>4, <1>5, <1>6, <1>7, <1>8

(* The other letters of the string send nothing.  A pause in the string    *)
(* replaces the one that is due.                                           *)
LEMMA OtherStep ==
  ASSUME IInv, MiniDiseqc \/ Pause \/ OtherCommand
  PROVE  IInv'
<1> USE DEF IInv, InCall, InDiseqc
<1>1. /\ pc = "diseqc" /\ Letter \notin Commands /\ CheckRet
      /\ UNCHANGED <<request, pass, reserveVars, ret, voltage, switch, first, sent>>
  BY DEF MiniDiseqc, Pause, OtherCommand, Commands, lineVars
<1>2. /\ pc' \in {"diseqc", "end", "returned"}
      /\ repeated' \in 0 .. NumRepeats
      /\ command' \in Nat \ {0} /\ (pc' = "diseqc" => command' <= Len(request'.diseqc))
      /\ result' \in {-1, 0, 1}
      /\ (pc' = "returned" => sent = {} /\ result' = -1)
      /\ LoopsSent'
  <2>1. request' = request /\ sent' = sent
    BY <1>1
  <2> QED
    BY <1>1, <2>1, CheckRetStep, Zenon
<1>3. /\ quiet \in 0 .. QuietCap /\ QuietCap \in Nat
      /\ (first => must_pause \/ quiet >= 200 \/ (HasPause /\ quiet >= 50))
      /\ (tone_off_called => tone = "off")
      /\ tone \in {"on", "off"} /\ tone_off_called \in BOOLEAN /\ must_pause \in BOOLEAN
      /\ repeated \in Nat
  BY <1>1, Numbers DEF TypeOK, PauseDue, ToneHeld
<1>4. /\ quiet' \in 0 .. QuietCap /\ must_pause' \in BOOLEAN
      /\ tone' \in {"on", "off"} /\ tone_off_called' \in BOOLEAN
      /\ (tone_off_called' => tone' = "off") /\ (tone_off_called => tone_off_called')
      /\ (first => must_pause' \/ quiet' >= 200 \/ (HasPause /\ quiet' >= 50))
  <2>1. CASE MiniDiseqc
    <3>1. tone' = (IF tone_off_called THEN tone ELSE "off") /\ tone_off_called' = TRUE
      BY <2>1 DEF MiniDiseqc, ToneOffAndSleep
    <3>2. must_pause' \in BOOLEAN
      BY <2>1, Zenon DEF MiniDiseqc, PauseNeeded
    <3>3. CASE must_pause
      <4>1. Sleep(200) /\ 200 \in Nat
        BY <2>1, <3>3 DEF MiniDiseqc, ToneOffAndSleep
      <4>2. quiet' \in 0 .. QuietCap /\ quiet' >= 200
        BY <1>3, <4>1, SleepStep
      <4> QED
        BY <1>3, <3>1, <3>2, <4>2
    <3>4. CASE ~must_pause
      <4>1. Sleep(30) /\ 30 \in Nat
        BY <2>1, <3>4 DEF MiniDiseqc, ToneOffAndSleep
      <4>2. quiet' \in 0 .. QuietCap /\ quiet' >= quiet
        BY <1>3, <4>1, SleepStep
      <4>3. (quiet >= 200 => quiet' >= 200) /\ (quiet >= 50 => quiet' >= 50)
        BY <1>3, <4>2
      <4> QED
        BY <1>3, <3>1, <3>2, <3>4, <4>2, <4>3
    <3> QED
      BY <3>3, <3>4
  <2>2. CASE Pause
    <3>1. /\ Letter = " " /\ Sleep(50) /\ 50 \in Nat /\ must_pause' = FALSE
          /\ UNCHANGED <<tone_off_called, tone>>
      BY <2>2 DEF Pause
    <3>2. HasPause
      <4>1. command \in DOMAIN request.diseqc
        <5>1. DOMAIN request.diseqc = 1 .. Len(request.diseqc) /\ Len(request.diseqc) \in Nat
          BY RequestType, Zenon
        <5>2. command \in Nat \ {0} /\ command <= Len(request.diseqc)
          BY <1>1 DEF TypeOK
        <5> QED
          BY <5>1, <5>2
      <4> QED
        BY <3>1, <4>1 DEF HasPause, Letter
    <3>3. quiet' \in 0 .. QuietCap /\ quiet' >= 50
      <4>1. /\ quiet' \in 0 .. QuietCap
            /\ (quiet + 50 <= 200 => quiet' >= quiet + 50)
            /\ (quiet + 50 >= 200 => quiet' >= 200)
        BY <1>3, <3>1, SleepStep, Zenon
      <4> QED
        BY <1>3, <4>1
    <3> QED
      BY <1>3, <3>1, <3>2, <3>3
  <2>3. CASE OtherCommand
    BY <1>3, <2>3 DEF OtherCommand, lineVars
  <2> QED
    BY <2>1, <2>2, <2>3
<1>5. TypeOK'
  BY <1>1, <1>2, <1>4 DEF TypeOK, reserveVars
<1>6. SwitchOK' /\ AttemptOK' /\ MasterHeld' /\ VoltageHeld' /\ ToneHeld' /\ Sending' /\ SentHeld'
  BY <1>1, <1>2, <1>4, Frame DEF SwitchOK, AttemptOK, MasterHeld, VoltageHeld, ToneHeld, Sending,
                                 SentHeld, reserveVars
<1>7. PauseDue' /\ LnbOnSetting'
  BY <1>1, <1>2, <1>4, Frame DEF PauseDue, LongPauseAfterFirst, LnbOnSetting
<1> QED
  BY <1>2, <1>5, <1>6, <1>7

(* At the end of diseqc its return value says whether the tone is off.     *)
LEMMA ReturnStep ==
  ASSUME IInv, DiseqcReturns
  PROVE  IInv'
<1> USE DEF IInv, InCall, InDiseqc
<1>1. /\ pc = "end" /\ pc' = "tone" /\ result' = Returned /\ Returned \in {0, 1}
      /\ UNCHANGED <<request, pass, reserveVars, diseqcVars, voltage, tone, switch, first, sent>>
  BY DEF DiseqcReturns, Returned
<1>2. quiet' \in 0 .. QuietCap
  <2>1. quiet \in 0 .. QuietCap
    BY DEF TypeOK
  <2>2. CASE must_pause
    BY <2>1, <2>2, SleepStep DEF DiseqcReturns
  <2>3. CASE ~must_pause
    BY <2>1, <2>3, SleepStep DEF DiseqcReturns
  <2> QED
    BY <2>2, <2>3
<1>3. TypeOK'
  BY <1>1, <1>2 DEF TypeOK, reserveVars, diseqcVars
<1>4. /\ SwitchOK' /\ AttemptOK' /\ MasterHeld' /\ VoltageHeld' /\ ToneHeld' /\ Sending'
      /\ PauseDue' /\ LnbOnSetting'
  BY <1>1, Frame DEF SwitchOK, AttemptOK, MasterHeld, VoltageHeld, ToneHeld, Sending, PauseDue,
                     LongPauseAfterFirst, LnbOnSetting, reserveVars, diseqcVars
<1>5. SentHeld' /\ LoopsSent'
  <2>1. Returned' = Returned
    BY <1>1 DEF Returned, diseqcVars
  <2>2. \A i \in DOMAIN request.diseqc : IsSent(i)' = IsSent(i)
    BY <1>1 DEF IsSent, Port
  <2> QED
    BY <1>1, <2>1, <2>2, Frame DEF SentHeld, LoopsSent, diseqcVars
<1> QED
  BY <1>3, <1>4, <1>5

(* The tone is set to the band where a command was sent: diseqc has        *)
(* returned 1 there.                                                       *)
LEMMA ToneStep ==
  ASSUME IInv, SetTone
  PROVE  IInv'
<1> USE DEF IInv, InCall, InDiseqc
<1>1. /\ pc = "tone" /\ pc' = "returned" /\ tone' = ToneAfter(tone)
      /\ UNCHANGED <<request, pass, reserveVars, diseqcVars, result, voltage, lineVars>>
  BY DEF SetTone
<1>2. TypeOK'
  BY <1>1 DEF TypeOK, ToneAfter, reserveVars, diseqcVars, lineVars
<1>3. /\ SwitchOK' /\ AttemptOK' /\ MasterHeld' /\ VoltageHeld' /\ ToneHeld' /\ Sending' /\ PauseDue'
  BY <1>1, Frame DEF SwitchOK, AttemptOK, MasterHeld, VoltageHeld, ToneHeld, Sending, PauseDue,
                     LongPauseAfterFirst, reserveVars, diseqcVars, lineVars
<1>4. SentHeld' /\ LoopsSent'
  <2>1. \A i \in DOMAIN request.diseqc : IsSent(i)' = IsSent(i)
    BY <1>1 DEF IsSent, Port, lineVars
  <2> QED
    BY <1>1, <2>1, Frame DEF SentHeld, LoopsSent, lineVars
<1>5. LnbOnSetting'
  <2>1. SUFFICES ASSUME sent # {}
                 PROVE  Agrees' /\ ("C" \in sent => (Tail(switch["C"]) = Settings[pass])')
    BY <1>1 DEF LnbOnSetting, lineVars
  <2>2. result = 1
    BY <1>1, <2>1 DEF SentHeld, Returned
  <2>3. Agrees'
    BY <1>1, <2>2, Frame DEF Agrees, ToneAfter, VoltageHeld
  <2>4. ASSUME "C" \in sent PROVE Tail(switch["C"]) = Settings[pass]
    <3>1. switch["C"] = <<Port("C"), Band, Pol>>
      BY <1>1, <2>4 DEF SentHeld, Message
    <3>2. Tail(<<Port("C"), Band, Pol>>) = <<Band, Pol>>
      OBVIOUS
    <3> QED
      BY <3>1, <3>2, SettingType
  <2> QED
    BY <1>1, <2>3, <2>4 DEF lineVars
<1> QED
  BY <1>2, <1>3, <1>4, <1>5

(* Between two passes a whole band is scanned, so the silence is long.     *)
LEMMA NextPassStep ==
  ASSUME IInv, NextPass
  PROVE  IInv'
<1> USE DEF IInv, InCall, InDiseqc
<1>1. /\ pc = "returned" /\ pc' = "reserve" /\ pass < Len(Settings) /\ pass' = pass + 1
      /\ count' = 0 /\ slept' = 0 /\ retries' = 0 /\ Sleep(QuietCap)
      /\ UNCHANGED <<request, mode, diseqcVars, result, voltage, tone, switch, first, sent>>
  BY DEF NextPass
<1>2. pass' \in 1 .. Len(Settings)
  <2>1. Len(Settings) \in Nat
    BY SecControlAssumption, LenProperties
  <2> QED
    BY <1>1, <2>1 DEF TypeOK
<1>3. quiet' \in 0 .. QuietCap /\ quiet' >= 200
  BY <1>1, Numbers DEF TypeOK, Sleep
<1>4. /\ count' \in 0 .. MaxAttempts /\ slept' \in 0 .. count' /\ retries' \in 0 .. count'
      /\ AttemptOK'
  BY <1>1, Numbers DEF AttemptOK
<1>5. TypeOK'
  BY <1>1, <1>2, <1>3, <1>4 DEF TypeOK, diseqcVars
<1>6. /\ SwitchOK' /\ MasterHeld' /\ VoltageHeld' /\ ToneHeld' /\ Sending' /\ SentHeld' /\ LoopsSent'
      /\ PauseDue' /\ LnbOnSetting'
  BY <1>1, <1>3 DEF SwitchOK, MasterHeld, VoltageHeld, ToneHeld, Sending, SentHeld, LoopsSent,
                    PauseDue, LongPauseAfterFirst, LnbOnSetting
<1> QED
  BY <1>4, <1>5, <1>6
-------------------------------------------------------------------------------
(* The inductive invariant holds in every reachable state.                 *)
THEOREM Invariance == Spec => []IInv
<1>1. ASSUME Init PROVE IInv
  <2> USE <1>1 DEF InCall, InDiseqc
  <2>1. /\ pc = "reserve" /\ quiet = QuietCap /\ sent = {} /\ first = FALSE /\ count = 0
        /\ switch = [s \in Commands |-> <<>>]
    BY DEF Init, Commands
  <2>2. TypeOK
    <3>1. 1 \in 1 .. Len(Settings)
      <4>1. Len(Settings) \in Nat \ {0}
        BY SecControlAssumption, EmptySeq, Zenon
      <4> QED
        BY <4>1
    <3>2. 0 \in 0 .. MaxAttempts /\ 0 \in 0 .. NumRepeats /\ QuietCap \in 0 .. QuietCap
      BY Numbers
    <3>3. tone_off_called \in BOOLEAN /\ must_pause \in BOOLEAN /\ first \in BOOLEAN
      BY Zenon DEF Init
    <3> QED
      BY <3>1, <3>2, <3>3 DEF TypeOK, Init
  <2>3. SwitchOK /\ AttemptOK /\ PauseDue
    BY <2>1, Numbers DEF SwitchOK, AttemptOK, PauseDue, LongPauseAfterFirst
  <2>4. MasterHeld /\ VoltageHeld /\ ToneHeld /\ Sending /\ SentHeld /\ LoopsSent /\ LnbOnSetting
    BY <2>1 DEF MasterHeld, VoltageHeld, ToneHeld, Sending, SentHeld, LoopsSent, LnbOnSetting
  <2> QED
    BY <2>2, <2>3, <2>4 DEF IInv
<1>2. IInv /\ [Next]_vars => IInv'
  <2> SUFFICES ASSUME IInv, [Next]_vars PROVE IInv'
    OBVIOUS
  <2>1. ASSUME NEW a \in Answers, Reserved(a) \/ RetryReservation(a) \/ ReservationFails(a)
        PROVE  IInv'
    BY <2>1, ReserveStep
  <2>2. CASE SetVoltage
    BY <2>2, VoltageStep
  <2>3. CASE IoctlFails
    BY <2>3, FailStep
  <2>4. CASE SkipCommand
    BY <2>4, SkipStep
  <2>5. CASE PrepareMessage
    BY <2>5, PrepareStep
  <2>6. CASE SendMessage
    BY <2>6, SendStep
  <2>7. CASE MiniDiseqc \/ Pause \/ OtherCommand
    BY <2>7, OtherStep
  <2>8. CASE DiseqcReturns
    BY <2>8, ReturnStep
  <2>9. CASE SetTone
    BY <2>9, ToneStep
  <2>10. CASE NextPass
    BY <2>10, NextPassStep
  <2>11. CASE UNCHANGED vars
    <3> USE <2>11 DEF vars, reserveVars, diseqcVars, lineVars, IInv
    <3>1. TypeOK'
      BY DEF TypeOK
    <3>2. SwitchOK' /\ AttemptOK' /\ MasterHeld' /\ VoltageHeld' /\ ToneHeld'
      BY Frame DEF SwitchOK, AttemptOK, MasterHeld, VoltageHeld, ToneHeld
    <3>3. Letter' = Letter /\ Returned' = Returned
      BY DEF Letter, Returned
    <3>4. Sending' /\ SentHeld'
      BY <3>3, Frame DEF Sending, SentHeld
    <3>5. \A i : IsSent(i)' = IsSent(i)
      BY DEF IsSent, Port
    <3>6. LoopsSent'
      BY <3>5 DEF LoopsSent
    <3>7. HasPause' = HasPause /\ LongPauseAfterFirst' = LongPauseAfterFirst
      BY DEF HasPause, LongPauseAfterFirst
    <3>8. PauseDue'
      BY <3>7 DEF PauseDue
    <3>9. Band' = Band /\ Pol' = Pol
      BY DEF Band, Pol
    <3>10. LnbOnSetting'
      BY <3>9 DEF LnbOnSetting, Agrees
    <3> QED
      BY <3>1, <3>2, <3>4, <3>6, <3>8, <3>10
  <2> QED
    BY <2>1, <2>2, <2>3, <2>4, <2>5, <2>6, <2>7, <2>8, <2>9, <2>10, <2>11
       DEF Next, Step, Diseqc, Finished
<1> QED
  BY <1>1, <1>2, PTL DEF Spec

(* The state of the calls has the types of the code in every reachable     *)
(* state.                                                                  *)
THEOREM TypeCorrect == Spec => []TypeOK
<1>1. IInv => TypeOK
  BY DEF IInv
<1> QED
  BY <1>1, Invariance, PTL

(* No switch command is sent over the tone, in any pass of any scan.       *)
THEOREM ToneOffFirst == Spec => []DiseqcWithToneOff
<1>1. IInv => DiseqcWithToneOff
  BY DEF IInv, Sending, ToneHeld, InCall, InDiseqc, DiseqcWithToneOff
<1> QED
  BY <1>1, Invariance, PTL

(* A message after a first transmission waits for the switch, whatever     *)
(* stands between the two in the command string.                           *)
THEOREM SwitchHasTime == Spec => []LongPauseAfterFirst
<1>1. IInv => LongPauseAfterFirst
  BY DEF IInv, PauseDue
<1> QED
  BY <1>1, Invariance, PTL

(* Where a switch command was sent, the whole LNB is on the setting of the *)
(* pass that is scanned.                                                   *)
THEOREM LnbFollowsPass == Spec => []LnbOnSetting
<1>1. IInv => LnbOnSetting
  BY DEF IInv
<1> QED
  BY <1>1, Invariance, PTL

(* Only a frontend that is master of its RF input changes what the dish is *)
(* told.                                                                   *)
THEOREM MasterOnly == Spec => OnlyMasterControls
<1>1. IInv /\ [Next]_vars => [<<voltage, tone, switch>>' # <<voltage, tone, switch>> => mode = "master"]_vars
  <2> SUFFICES ASSUME IInv, Next, <<voltage, tone, switch>>' # <<voltage, tone, switch>>
               PROVE  mode = "master"
    OBVIOUS
  <2>1. CASE pc \in InCall \cup {"voltage"}
    BY <2>1 DEF IInv, MasterHeld
  <2>2. CASE pc \notin InCall \cup {"voltage"}
    <3>1. ~(SetVoltage \/ Diseqc \/ DiseqcReturns \/ SetTone)
      BY <2>2 DEF InCall, InDiseqc, SetVoltage, Diseqc, SkipCommand, PrepareMessage, SendMessage,
                  MiniDiseqc, Pause, OtherCommand, DiseqcReturns, SetTone
    <3>2. ~(IoctlFails \/ NextPass \/ Finished)
      BY DEF IoctlFails, NextPass, Finished, vars, lineVars
    <3>3. \A a \in Answers : ~(Reserved(a) \/ RetryReservation(a) \/ ReservationFails(a))
      BY DEF Reserved, RetryReservation, ReservationFails, lineVars
    <3> QED
      BY <3>1, <3>2, <3>3 DEF Next, Step
  <2> QED
    BY <2>1, <2>2
<1> QED
  BY <1>1, Invariance, PTL DEF Spec, OnlyMasterControls

(* A call of diseqc that does not end early has sent every command of the  *)
(* string whose port was given, and each is what its switch was told last. *)
CompletedCallSent ==
  pc = "returned" /\ result >= 0 =>
    \A i \in DOMAIN request.diseqc :
      LET l == request.diseqc[i]
      IN  l \in {"C", "U"} /\ Port(l) >= 0 => l \in sent /\ switch[l] = Message(l)

THEOREM CompletedCalls == Spec => []CompletedCallSent
<1>1. IInv => CompletedCallSent
  <2> SUFFICES ASSUME IInv, pc = "returned", result >= 0, NEW i \in DOMAIN request.diseqc,
                      request.diseqc[i] \in {"C", "U"}, Port(request.diseqc[i]) >= 0
               PROVE  /\ request.diseqc[i] \in sent
                      /\ switch[request.diseqc[i]] = Message(request.diseqc[i])
    BY DEF CompletedCallSent
  <2>1. result # -1
    OBVIOUS
  <2>2. IsSent(i)
    BY <2>1 DEF IInv, LoopsSent
  <2> QED
    BY <2>2 DEF IsSent, IInv, SentHeld, Commands
<1> QED
  BY <1>1, Invariance, PTL

(* A string is orderly if every other letter stands behind a command whose *)
(* port is given: until one is sent, diseqc checks a variable that nothing *)
(* has assigned.                                                           *)
Orderly(r) ==
  \A i \in DOMAIN r.diseqc :
    r.diseqc[i] \notin Commands =>
      \E j \in DOMAIN r.diseqc :
        /\ j < i /\ r.diseqc[j] \in Commands
        /\ (IF r.diseqc[j] = "C" THEN r.committed ELSE r.uncommitted) >= 0

NotCutShort == pc = "returned" => result # -1

(* With orderly strings, the default UC among them, no call ends early and *)
(* every command is sent, in spite of the uninitialised variable.          *)
THEOREM AllSent ==
  ASSUME \A r \in Requests : Orderly(r)
  PROVE  Spec => []EveryCommandSent
<1>1. Init => NotCutShort
  BY DEF Init, NotCutShort
<1>2. ASSUME IInv, NotCutShort, [Next]_vars
      PROVE  NotCutShort'
  <2>1. CASE MiniDiseqc \/ Pause \/ OtherCommand
    <3>1. /\ pc = "diseqc" /\ Letter \notin Commands /\ CheckRet
      BY <2>1 DEF MiniDiseqc, Pause, OtherCommand, Commands
    <3>2. command \in DOMAIN request.diseqc /\ request \in Requests
      <4>1. DOMAIN request.diseqc = 1 .. Len(request.diseqc) /\ Len(request.diseqc) \in Nat
        BY <1>2, RequestType, Zenon DEF IInv
      <4>2. command \in Nat \ {0} /\ command <= Len(request.diseqc) /\ request \in Requests
        BY <1>2, <3>1 DEF IInv, TypeOK
      <4> QED
        BY <4>1, <4>2
    <3>3. PICK j \in DOMAIN request.diseqc :
            j < command /\ request.diseqc[j] \in Commands /\ Port(request.diseqc[j]) >= 0
      BY <3>1, <3>2 DEF Orderly, Letter, Port
    <3>4. request.diseqc[j] \in sent
      BY <1>2, <3>1, <3>3 DEF IInv, LoopsSent, IsSent
    <3>5. ret = 0
      BY <1>2, <3>1, <3>4 DEF IInv, SentHeld, InCall, InDiseqc
    <3>6. pc' # "returned"
      BY <3>1, <3>5 DEF CheckRet, Proceed
    <3> QED
      BY <3>6 DEF NotCutShort
  <2>2. CASE SetTone
    BY <1>2, <2>2 DEF SetTone, NotCutShort, IInv, SentHeld, InCall, Returned
  <2>3. CASE UNCHANGED vars
    BY <1>2, <2>3 DEF vars, NotCutShort
  <2>4. CASE NextPass \/ IoctlFails \/ SetVoltage \/ DiseqcReturns \/ PrepareMessage
    BY <2>4 DEF NextPass, IoctlFails, SetVoltage, DiseqcReturns, PrepareMessage, Exit, NotCutShort
  <2>5. CASE SkipCommand \/ SendMessage
    BY <2>5 DEF SkipCommand, SendMessage, Proceed, NotCutShort
  <2>6. ASSUME NEW a \in Answers, Reserved(a) \/ RetryReservation(a) \/ ReservationFails(a)
        PROVE  NotCutShort'
    BY <2>6 DEF Reserved, RetryReservation, ReservationFails, AfterAttempt, Exit, NotCutShort
  <2> QED
    BY <1>2, <2>1, <2>2, <2>3, <2>4, <2>5, <2>6 DEF Next, Step, Diseqc, Finished
<1>3. IInv /\ NotCutShort => EveryCommandSent
  <2> SUFFICES ASSUME IInv, NotCutShort, pc = "returned", NEW i \in DOMAIN request.diseqc,
                      request.diseqc[i] \in {"C", "U"}, Port(request.diseqc[i]) >= 0
               PROVE  /\ request.diseqc[i] \in sent
                      /\ switch[request.diseqc[i]] = Message(request.diseqc[i])
    BY DEF EveryCommandSent
  <2>1. IsSent(i)
    BY DEF IInv, LoopsSent, NotCutShort
  <2> QED
    BY <2>1 DEF IsSent, IInv, SentHeld, Commands
<1> QED
  BY <1>1, <1>2, <1>3, Invariance, PTL DEF Spec
===============================================================================
