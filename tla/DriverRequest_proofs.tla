------------------------- MODULE DriverRequest_proofs -------------------------
(***************************************************************************)
(* Proofs about DriverRequest and about CommandLine, the parser it gets    *)
(* its options from, for every command line, lexicon and number of         *)
(* requests.                                                               *)
(***************************************************************************)
EXTENDS DriverRequest, FiniteSetTheorems, SequenceTheorems, WellFoundedInduction, TLAPS

(* While a request is under way the driver keeps nothing.                  *)
NothingKept == request # NoRequest => cache = Nothing

(* It begins with DTV_CLEAR, and ends with the answer of the driver; the   *)
(* parser does not touch it.                                               *)
LEMMA ClearedFirst == Spec => []NothingKept
PROOF
<1>1. RequestInit => NothingKept
  BY DEF RequestInit, NothingKept
<1>2. NothingKept /\ [Next]_<<vars, requestVars>> => NothingKept'
  <2> SUFFICES ASSUME NothingKept, [Next]_<<vars, requestVars>>
               PROVE  NothingKept'
    OBVIOUS
  <2>1. CASE Parse /\ UNCHANGED requestVars
    BY <2>1 DEF NothingKept, requestVars
  <2>2. CASE Clear
    BY <2>2 DEF Clear, NothingKept, Cleared
  <2>3. CASE Send
    BY <2>3 DEF Send, NothingKept
  <2>4. CASE Refuse
    BY <2>4 DEF Refuse, NothingKept
  <2>5. CASE Finish
    BY <2>5 DEF Finish, NothingKept, requestVars
  <2>6. CASE Done
    BY <2>6 DEF Done, NothingKept, requestVars
  <2>7. CASE UNCHANGED <<vars, requestVars>>
    BY <2>7 DEF NothingKept, requestVars
  <2> QED
    BY <2>1, <2>2, <2>3, <2>4, <2>5, <2>6, <2>7 DEF Next, Work
<1> QED
  BY <1>1, <1>2, PTL DEF Spec

(* NothingStale: FE_SET_PROPERTY makes the driver act on the properties of  *)
(* the request, because clear has come before it whatever became of the    *)
(* request before that.                                                    *)
StepIsFresh == Executes => executed' = KeptAfter(Nothing, Len(props))

THEOREM NothingStaleEver == Spec => NothingStale
PROOF
<1>1. NothingKept /\ [Next]_<<vars, requestVars>> => [StepIsFresh]_<<vars, requestVars>>
  <2> SUFFICES ASSUME NothingKept, [Next]_<<vars, requestVars>>, Executes
               PROVE  executed' = KeptAfter(Nothing, Len(props))
    BY DEF StepIsFresh
  <2> USE DEF Executes
  <2>1. CASE Parse /\ UNCHANGED requestVars
    BY <2>1 DEF requestVars
  <2>2. CASE Clear
    BY <2>2 DEF Clear
  <2>3. CASE Send
    <3>1. cache = Nothing
      BY <2>3 DEF Send, NothingKept
    <3>2. executed' = KeptAfter(cache, Len(props))
      BY <2>3 DEF Send
    <3> QED
      BY <3>1, <3>2
  <2>4. CASE Refuse
    BY <2>4 DEF Refuse
  <2>5. CASE Finish
    BY <2>5 DEF Finish, requestVars
  <2>6. CASE Done
    BY <2>6 DEF Done, requestVars
  <2>7. CASE UNCHANGED <<vars, requestVars>>
    BY <2>7 DEF requestVars
  <2> QED
    BY <2>1, <2>2, <2>3, <2>4, <2>5, <2>6, <2>7 DEF Next, Work
<1> QED
  BY <1>1, ClearedFirst, PTL DEF Spec, NothingStale, StepIsFresh

-------------------------------------------------------------------------------
(* A sequence of at most n properties, all of them different and in keys.  *)
Fits(s, n, keys) ==
  \E S : /\ s \in Seq(S) /\ Len(s) <= n
         /\ \A i \in 1 .. Len(s) : s[i][1] \in keys
         /\ \A i, j \in 1 .. Len(s) : s[i][1] = s[j][1] => i = j

Apart(K, L) == K \cap L = {}

LEMMA None == ASSUME NEW keys PROVE Fits(<< >>, 0, keys)
PROOF
<1>1. << >> \in Seq({}) /\ Len(<< >>) = 0
  OBVIOUS
<1> QED
  BY <1>1 DEF Fits

LEMMA One == ASSUME NEW k, NEW v PROVE Fits(<< <<k, v>> >>, 1, {k})
PROOF
<1> DEFINE pair == <<k, v>>
           s    == << pair >>
<1>1. pair[1] = k
  OBVIOUS
<1> HIDE DEF pair
<1>2. s \in Seq({pair}) /\ Len(s) = 1 /\ s[1] = pair
  OBVIOUS
<1> HIDE DEF s
<1>3. \A i \in 1 .. Len(s) : i = 1
  BY <1>2
<1>4. \A i \in 1 .. Len(s) : s[i][1] \in {k}
  BY <1>1, <1>2, <1>3
<1>5. \A i, j \in 1 .. Len(s) : s[i][1] = s[j][1] => i = j
  BY <1>3
<1>6. Len(s) <= 1
  BY <1>2
<1>7. Fits(s, 1, {k})
  BY <1>2, <1>4, <1>5, <1>6 DEF Fits
<1> QED
  BY <1>7 DEF s, pair

LEMMA Weaken ==
  ASSUME NEW s, NEW m \in Nat, NEW n \in Nat, NEW K, NEW L, Fits(s, m, K), m <= n, K \subseteq L
  PROVE  Fits(s, n, L)
PROOF
<1>1. PICK S : /\ s \in Seq(S) /\ Len(s) <= m
               /\ \A i \in 1 .. Len(s) : s[i][1] \in K
               /\ \A i, j \in 1 .. Len(s) : s[i][1] = s[j][1] => i = j
  BY DEF Fits
<1>2. Len(s) <= n
  BY <1>1
<1> QED
  BY <1>1, <1>2 DEF Fits

(* Joined sequences have room for both, and if no property is in both then *)
(* none occurs twice.                                                      *)
LEMMA Joined ==
  ASSUME NEW s, NEW t, NEW m \in Nat, NEW n \in Nat, NEW K, NEW L,
         Fits(s, m, K), Fits(t, n, L), Apart(K, L)
  PROVE  Fits(s \o t, m + n, K \cup L)
PROOF
<1>1. PICK S : /\ s \in Seq(S) /\ Len(s) <= m
               /\ \A i \in 1 .. Len(s) : s[i][1] \in K
               /\ \A i, j \in 1 .. Len(s) : s[i][1] = s[j][1] => i = j
  BY DEF Fits
<1>2. PICK T : /\ t \in Seq(T) /\ Len(t) <= n
               /\ \A i \in 1 .. Len(t) : t[i][1] \in L
               /\ \A i, j \in 1 .. Len(t) : t[i][1] = t[j][1] => i = j
  BY DEF Fits
<1> DEFINE r == s \o t
<1>3. s \in Seq(S \union T) /\ t \in Seq(S \union T) /\ Len(s) \in Nat /\ Len(t) \in Nat
  BY <1>1, <1>2
<1>4. /\ r \in Seq(S \union T) /\ Len(r) = Len(s) + Len(t)
      /\ \A i \in 1 .. Len(s) + Len(t) : r[i] = IF i <= Len(s) THEN s[i] ELSE t[i - Len(s)]
  BY <1>3, ConcatProperties
<1> HIDE DEF r
<1>5. \A i \in 1 .. Len(r) :
        \/ i \in 1 .. Len(s) /\ r[i] = s[i]
        \/ i > Len(s) /\ i - Len(s) \in 1 .. Len(t) /\ r[i] = t[i - Len(s)]
  BY <1>3, <1>4
<1>6. Len(r) <= m + n
  BY <1>1, <1>2, <1>3, <1>4
<1>7. \A i \in 1 .. Len(r) : r[i][1] \in K \cup L
  BY <1>1, <1>2, <1>5
<1>8. ASSUME NEW i \in 1 .. Len(r), NEW j \in 1 .. Len(r), r[i][1] = r[j][1]
      PROVE  i = j
  <2> DEFINE InFirst(x)  == x \in 1 .. Len(s) /\ r[x] = s[x]
             InSecond(x) == x > Len(s) /\ x - Len(s) \in 1 .. Len(t) /\ r[x] = t[x - Len(s)]
  <2>1. (InFirst(i) \/ InSecond(i)) /\ (InFirst(j) \/ InSecond(j))
    BY <1>5
  <2>2. ASSUME NEW x, InFirst(x) PROVE r[x][1] \in K
    BY <1>1, <2>2
  <2>3. ASSUME NEW x, InSecond(x) PROVE r[x][1] \in L
    BY <1>2, <2>3
  <2>4. CASE InFirst(i) /\ InFirst(j)
    <3>1. s[i][1] = s[j][1]
      BY <1>8, <2>4
    <3> QED
      BY <1>1, <2>4, <3>1
  <2>5. CASE InSecond(i) /\ InSecond(j)
    <3> DEFINE a == i - Len(s)
               b == j - Len(s)
    <3>1. a \in 1 .. Len(t) /\ b \in 1 .. Len(t) /\ t[a][1] = t[b][1]
      BY <1>8, <2>5
    <3> HIDE DEF a, b
    <3>2. a = b
      BY <1>2, <3>1
    <3> QED
      BY <1>3, <1>4, <3>2 DEF a, b
  <2> HIDE DEF InFirst, InSecond
  <2>6. ~(InFirst(i) /\ InSecond(j)) /\ ~(InSecond(i) /\ InFirst(j))
    BY <1>8, <2>2, <2>3 DEF Apart
  <2> QED
    BY <2>1, <2>4, <2>5, <2>6
<1> QED
  BY <1>4, <1>6, <1>7, <1>8 DEF Fits, r

(* Three or four of them.                                                  *)
LEMMA JoinedThree ==
  ASSUME NEW s, NEW t, NEW u, NEW m \in Nat, NEW n \in Nat, NEW l \in Nat, NEW K, NEW L, NEW M,
         Fits(s, m, K), Fits(t, n, L), Fits(u, l, M), Apart(K, L), Apart(K \cup L, M)
  PROVE  Fits(s \o t \o u, m + n + l, K \cup L \cup M)
PROOF
<1>1. Fits(s \o t, m + n, K \cup L) /\ m + n \in Nat
  BY Joined
<1> QED
  BY <1>1, Joined

LEMMA JoinedFour ==
  ASSUME NEW s, NEW t, NEW u, NEW v,
         NEW m \in Nat, NEW n \in Nat, NEW l \in Nat, NEW k \in Nat,
         NEW K, NEW L, NEW M, NEW N,
         Fits(s, m, K), Fits(t, n, L), Fits(u, l, M), Fits(v, k, N),
         Apart(K, L), Apart(K \cup L, M), Apart(K \cup L \cup M, N)
  PROVE  Fits(s \o t \o u \o v, m + n + l + k, K \cup L \cup M \cup N)
PROOF
<1>1. Fits(s \o t \o u, m + n + l, K \cup L \cup M) /\ m + n + l \in Nat
  BY JoinedThree
<1> QED
  BY <1>1, Joined

(* What may be left out.                                                   *)
LEMMA Given ==
  ASSUME NEW P, NEW k, NEW v PROVE Fits(IF P THEN << <<k, v>> >> ELSE << >>, 1, {k})
PROOF
<1>1. Fits(<< >>, 1, {k})
  BY None, Weaken
<1> QED
  BY <1>1, One

-------------------------------------------------------------------------------
(* The parts of which the requests are made.                               *)

WindowKeys == {"SCAN_START_FREQUENCY", "SCAN_END_FREQUENCY", "SCAN_RESOLUTION", "SCAN_FFT_SIZE"}
PlsKeys    == {"PLS_SEARCH_LIST", "PLS_SEARCH_RANGE"}
TuningKeys ==
  {"ALGORITHM", "DELIVERY_SYSTEM", "MODULATION", "SEARCH_RANGE", "SYMBOL_RATE", "FREQUENCY",
   "STREAM_ID", "OUTPUT_BBFRAMES", "CONSTELLATION"} \cup PlsKeys

(* The properties of a request have different names.                       *)
LEMMA Parts ==
  /\ \A a : Fits(Algorithm(a), 1, {"ALGORITHM"})
  /\ \A sys : Fits(System(sys), 1, {"DELIVERY_SYSTEM"})
  /\ Fits(Frequency, 1, {"FREQUENCY"})
  /\ \A id : Fits(Stream(id), 1, {"STREAM_ID"})
  /\ \A o : Fits(SearchRange(o), 1, {"SEARCH_RANGE"})
  /\ \A o : Fits(RateGiven(o), 1, {"SYMBOL_RATE"})
PROOF
<1>1. \A a : Fits(Algorithm(a), 1, {"ALGORITHM"})
  BY One DEF Algorithm
<1>2. \A sys : Fits(System(sys), 1, {"DELIVERY_SYSTEM"})
  BY One DEF System
<1>3. Fits(Frequency, 1, {"FREQUENCY"})
  BY One DEF Frequency
<1>4. \A id : Fits(Stream(id), 1, {"STREAM_ID"})
  BY One DEF Stream
<1>5. \A o : Fits(SearchRange(o), 1, {"SEARCH_RANGE"})
  BY One DEF SearchRange
<1>6. \A o : Fits(RateGiven(o), 1, {"SYMBOL_RATE"})
  <2> TAKE o
  <2> DEFINE rate == 1000 * o.symbol_rate
             some == o.symbol_rate > 0
  <2>1. RateGiven(o) = IF some THEN << <<"SYMBOL_RATE", rate>> >> ELSE << >>
    BY DEF RateGiven
  <2> HIDE DEF rate, some
  <2> QED
    BY <2>1, Given
<1> QED
  BY <1>1, <1>2, <1>3, <1>4, <1>5, <1>6

LEMMA WindowFits == ASSUME NEW o PROVE Fits(Window(o), 4, WindowKeys)
PROOF
<1> DEFINE from  == << <<"SCAN_START_FREQUENCY", Asked>> >>
           upTo  == << <<"SCAN_END_FREQUENCY", Asked>> >>
           steps == << <<"SCAN_RESOLUTION", o.spectral_resolution>> >>
           size  == << <<"SCAN_FFT_SIZE", o.fft_size>> >>
<1>1. Fits(from, 1, {"SCAN_START_FREQUENCY"})
  BY One
<1>2. Fits(upTo, 1, {"SCAN_END_FREQUENCY"})
  BY One
<1>3. Fits(steps, 1, {"SCAN_RESOLUTION"})
  BY One
<1>4. Fits(size, 1, {"SCAN_FFT_SIZE"})
  BY One
<1>5. Window(o) =
       from \o upTo \o steps \o size
  BY DEF Window
<1> HIDE DEF from, upTo, steps, size
<1>6. /\ Apart({"SCAN_START_FREQUENCY"}, {"SCAN_END_FREQUENCY"})
      /\ Apart({"SCAN_START_FREQUENCY"} \cup {"SCAN_END_FREQUENCY"}, {"SCAN_RESOLUTION"})
      /\ Apart({"SCAN_START_FREQUENCY"} \cup {"SCAN_END_FREQUENCY"} \cup
           {"SCAN_RESOLUTION"}, {"SCAN_FFT_SIZE"})
  BY DEF Apart
<1>7. Fits(from \o upTo \o steps \o size, 4,
           {"SCAN_START_FREQUENCY"} \cup {"SCAN_END_FREQUENCY"} \cup {"SCAN_RESOLUTION"} \cup
           {"SCAN_FFT_SIZE"})
  BY <1>1, <1>2, <1>3, <1>4, <1>6, JoinedFour, 1 + 1 + 1 + 1 = 4
<1>8. {"SCAN_START_FREQUENCY"} \cup {"SCAN_END_FREQUENCY"} \cup {"SCAN_RESOLUTION"} \cup
           {"SCAN_FFT_SIZE"}
        \subseteq WindowKeys
  BY DEF WindowKeys
<1>9. Fits(from \o upTo \o steps \o size, 4, WindowKeys)
  BY <1>7, <1>8, Weaken
<1> QED
  BY <1>5, <1>9

(* A list, a range, both or neither.                                       *)
LEMMA PlsFits == ASSUME NEW p, NEW o PROVE Fits(PlsProps(p, o), 2, PlsKeys)
PROOF
<1> DEFINE list  == IF SearchesList(o) THEN << <<"PLS_SEARCH_LIST", o.pls_codes>> >> ELSE << >>
           range == IF SearchesRange(o)
                    THEN << <<"PLS_SEARCH_RANGE",
                              <<RangeEnd(p, o, o.start_pls_code),
                                RangeEnd(p, o, o.end_pls_code)>> >> >>
                    ELSE << >>
<1>1. Fits(list, 1, {"PLS_SEARCH_LIST"})
  BY Given DEF SearchesList
<1>2. Fits(range, 1, {"PLS_SEARCH_RANGE"})
  BY Given DEF SearchesRange
<1>3. PlsProps(p, o) =
       list \o range
  BY DEF PlsProps
<1> HIDE DEF list, range
<1>4. /\ Apart({"PLS_SEARCH_LIST"}, {"PLS_SEARCH_RANGE"})
  BY DEF Apart
<1>5. Fits(list \o range, 2,
           {"PLS_SEARCH_LIST"} \cup {"PLS_SEARCH_RANGE"})
  BY <1>1, <1>2, <1>4, Joined, 1 + 1 = 2
<1>6. {"PLS_SEARCH_LIST"} \cup {"PLS_SEARCH_RANGE"}
        \subseteq PlsKeys
  BY DEF PlsKeys
<1>7. Fits(list \o range, 2, PlsKeys)
  BY <1>5, <1>6, Weaken
<1> QED
  BY <1>3, <1>7


SpectrumKeys ==
  {"SET_SEC_CONFIGURED", "DELIVERY_SYSTEM", "SYMBOL_RATE", "SPECTRUM"} \cup WindowKeys

LEMMA SpectrumFits == ASSUME NEW p, NEW o PROVE Fits(SpectrumProps(p, o), 8, SpectrumKeys)
PROOF
<1> DEFINE first  == IF p = SB THEN << <<"SET_SEC_CONFIGURED", 0>> >> ELSE << >>
           rate   == << <<"SYMBOL_RATE", Bandwidth(o)>> >>
           method == << <<"SPECTRUM", o.spectrum_method>> >>
<1>1. Fits(first, 1, {"SET_SEC_CONFIGURED"})
  BY Given
<1>2. Fits(System(o.delivery_system), 1, {"DELIVERY_SYSTEM"})
  BY Parts
<1>3. Fits(Window(o), 4, WindowKeys)
  BY WindowFits
<1>4. Fits(rate, 1, {"SYMBOL_RATE"})
  BY One
<1>5. Fits(method, 1, {"SPECTRUM"})
  BY One
<1>6. SpectrumProps(p, o) =
       first \o System(o.delivery_system) \o Window(o) \o rate \o method
  BY DEF SpectrumProps
<1> HIDE DEF first, rate, method
<1>7. /\ Apart({"SET_SEC_CONFIGURED"}, {"DELIVERY_SYSTEM"})
      /\ Apart({"SET_SEC_CONFIGURED"} \cup {"DELIVERY_SYSTEM"}, WindowKeys)
      /\ Apart({"SET_SEC_CONFIGURED"} \cup {"DELIVERY_SYSTEM"} \cup
           WindowKeys, {"SYMBOL_RATE"})
  BY DEF Apart, WindowKeys
<1>8. Fits(first \o System(o.delivery_system) \o Window(o) \o rate, 7,
           {"SET_SEC_CONFIGURED"} \cup {"DELIVERY_SYSTEM"} \cup WindowKeys \cup
           {"SYMBOL_RATE"})
  BY <1>1, <1>2, <1>3, <1>4, <1>7, JoinedFour, 1 + 1 + 4 + 1 = 7
<1>9. /\ Apart({"SET_SEC_CONFIGURED"} \cup {"DELIVERY_SYSTEM"} \cup WindowKeys \cup
           {"SYMBOL_RATE"}, {"SPECTRUM"})
  BY DEF Apart, WindowKeys
<1>10. Fits(first \o System(o.delivery_system) \o Window(o) \o rate \o method, 8,
           {"SET_SEC_CONFIGURED"} \cup {"DELIVERY_SYSTEM"} \cup WindowKeys \cup
           {"SYMBOL_RATE"} \cup {"SPECTRUM"})
  BY <1>8, <1>5, <1>9, Joined, 7 + 1 = 8
<1>11. {"SET_SEC_CONFIGURED"} \cup {"DELIVERY_SYSTEM"} \cup WindowKeys \cup
           {"SYMBOL_RATE"} \cup {"SPECTRUM"}
        \subseteq SpectrumKeys
  BY DEF WindowKeys, SpectrumKeys
<1>12. Fits(first \o System(o.delivery_system) \o Window(o) \o rate \o method, 8, SpectrumKeys)
  BY <1>10, <1>11, Weaken
<1> QED
  BY <1>6, <1>12

(* The request of the driver's own blind scan is the longest.              *)
BlindscanKeys == TuningKeys \cup WindowKeys \cup {"VOLTAGE", "MAX_SYMBOL_RATE", "SCAN"}

LEMMA BlindscanFits == ASSUME NEW o PROVE Fits(BlindscanProps(o), 13, BlindscanKeys)
PROOF
<1> DEFINE voltage == << <<"VOLTAGE", Asked>> >>
           rate    == << <<"MAX_SYMBOL_RATE", 1000 * o.max_symbol_rate>> >>
           scan    == << <<"SCAN", TRUE>> >>
<1>1. Fits(System(AnySystem), 1, {"DELIVERY_SYSTEM"})
  BY Parts
<1>2. Fits(Algorithm("blind"), 1, {"ALGORITHM"})
  BY Parts
<1>3. Fits(Window(o), 4, WindowKeys)
  BY WindowFits
<1>4. Fits(voltage, 1, {"VOLTAGE"})
  BY One
<1>5. Fits(SearchRange(o), 1, {"SEARCH_RANGE"})
  BY Parts
<1>6. Fits(rate, 1, {"MAX_SYMBOL_RATE"})
  BY One
<1>7. Fits(PlsProps(NB, o), 2, PlsKeys)
  BY PlsFits
<1>8. Fits(Stream(o.stream_id), 1, {"STREAM_ID"})
  BY Parts
<1>9. Fits(scan, 1, {"SCAN"})
  BY One
<1>10. BlindscanProps(o) =
       System(AnySystem) \o Algorithm("blind") \o Window(o) \o voltage \o SearchRange(o)
       \o rate \o PlsProps(NB, o) \o Stream(o.stream_id) \o scan
  BY DEF BlindscanProps
<1> HIDE DEF voltage, rate, scan
<1>11. /\ Apart({"DELIVERY_SYSTEM"}, {"ALGORITHM"})
      /\ Apart({"DELIVERY_SYSTEM"} \cup {"ALGORITHM"}, WindowKeys)
      /\ Apart({"DELIVERY_SYSTEM"} \cup {"ALGORITHM"} \cup WindowKeys, {"VOLTAGE"})
  BY DEF Apart, WindowKeys
<1>12. Fits(System(AnySystem) \o Algorithm("blind") \o Window(o) \o voltage, 7,
           {"DELIVERY_SYSTEM"} \cup {"ALGORITHM"} \cup WindowKeys \cup {"VOLTAGE"})
  BY <1>1, <1>2, <1>3, <1>4, <1>11, JoinedFour, 1 + 1 + 4 + 1 = 7
<1>13. /\ Apart({"DELIVERY_SYSTEM"} \cup {"ALGORITHM"} \cup WindowKeys \cup
           {"VOLTAGE"}, {"SEARCH_RANGE"})
      /\ Apart({"DELIVERY_SYSTEM"} \cup {"ALGORITHM"} \cup WindowKeys \cup {"VOLTAGE"} \cup
           {"SEARCH_RANGE"}, {"MAX_SYMBOL_RATE"})
      /\ Apart({"DELIVERY_SYSTEM"} \cup {"ALGORITHM"} \cup WindowKeys \cup {"VOLTAGE"} \cup
           {"SEARCH_RANGE"} \cup {"MAX_SYMBOL_RATE"}, PlsKeys)
  BY DEF Apart, WindowKeys, PlsKeys
<1>14. Fits(System(AnySystem) \o Algorithm("blind") \o Window(o) \o voltage
           \o SearchRange(o) \o rate \o PlsProps(NB, o), 11,
           {"DELIVERY_SYSTEM"} \cup {"ALGORITHM"} \cup WindowKeys \cup {"VOLTAGE"} \cup
           {"SEARCH_RANGE"} \cup {"MAX_SYMBOL_RATE"} \cup PlsKeys)
  BY <1>12, <1>5, <1>6, <1>7, <1>13, JoinedFour, 7 + 1 + 1 + 2 = 11
<1>15. /\ Apart({"DELIVERY_SYSTEM"} \cup {"ALGORITHM"} \cup WindowKeys \cup {"VOLTAGE"} \cup
           {"SEARCH_RANGE"} \cup {"MAX_SYMBOL_RATE"} \cup PlsKeys, {"STREAM_ID"})
      /\ Apart({"DELIVERY_SYSTEM"} \cup {"ALGORITHM"} \cup WindowKeys \cup {"VOLTAGE"} \cup
           {"SEARCH_RANGE"} \cup {"MAX_SYMBOL_RATE"} \cup PlsKeys \cup
           {"STREAM_ID"}, {"SCAN"})
  BY DEF Apart, WindowKeys, PlsKeys
<1>16. Fits(System(AnySystem) \o Algorithm("blind") \o Window(o) \o voltage
           \o SearchRange(o) \o rate \o PlsProps(NB, o) \o Stream(o.stream_id) \o scan, 13,
           {"DELIVERY_SYSTEM"} \cup {"ALGORITHM"} \cup WindowKeys \cup {"VOLTAGE"} \cup
           {"SEARCH_RANGE"} \cup {"MAX_SYMBOL_RATE"} \cup PlsKeys \cup {"STREAM_ID"} \cup
           {"SCAN"})
  BY <1>14, <1>8, <1>9, <1>15, JoinedThree, 11 + 1 + 1 = 13
<1>17. {"DELIVERY_SYSTEM"} \cup {"ALGORITHM"} \cup WindowKeys \cup {"VOLTAGE"} \cup
           {"SEARCH_RANGE"} \cup {"MAX_SYMBOL_RATE"} \cup PlsKeys \cup {"STREAM_ID"} \cup
           {"SCAN"}
        \subseteq BlindscanKeys
  BY DEF WindowKeys, PlsKeys, BlindscanKeys, TuningKeys
<1>18. Fits(System(AnySystem) \o Algorithm("blind") \o Window(o) \o voltage
           \o SearchRange(o) \o rate \o PlsProps(NB, o) \o Stream(o.stream_id) \o scan, 13, BlindscanKeys)
  BY <1>16, <1>17, Weaken
<1> QED
  BY <1>10, <1>18

(* To go on with it, the codes are sent again.                             *)
LEMMA ContinueFits == ASSUME NEW o PROVE Fits(ContinueProps(o), 5, BlindscanKeys)
PROOF
<1> DEFINE scan == << <<"SCAN", FALSE>> >>
<1>1. Fits(PlsProps(NB, o), 2, PlsKeys)
  BY PlsFits
<1>2. Fits(SearchRange(o), 1, {"SEARCH_RANGE"})
  BY Parts
<1>3. Fits(Stream(o.stream_id), 1, {"STREAM_ID"})
  BY Parts
<1>4. Fits(scan, 1, {"SCAN"})
  BY One
<1>5. ContinueProps(o) =
       PlsProps(NB, o) \o SearchRange(o) \o Stream(o.stream_id) \o scan
  BY DEF ContinueProps
<1> HIDE DEF scan
<1>6. /\ Apart(PlsKeys, {"SEARCH_RANGE"})
      /\ Apart(PlsKeys \cup {"SEARCH_RANGE"}, {"STREAM_ID"})
      /\ Apart(PlsKeys \cup {"SEARCH_RANGE"} \cup {"STREAM_ID"}, {"SCAN"})
  BY DEF Apart, PlsKeys
<1>7. Fits(PlsProps(NB, o) \o SearchRange(o) \o Stream(o.stream_id) \o scan, 5,
           PlsKeys \cup {"SEARCH_RANGE"} \cup {"STREAM_ID"} \cup {"SCAN"})
  BY <1>1, <1>2, <1>3, <1>4, <1>6, JoinedFour, 2 + 1 + 1 + 1 = 5
<1>8. PlsKeys \cup {"SEARCH_RANGE"} \cup {"STREAM_ID"} \cup {"SCAN"}
        \subseteq BlindscanKeys
  BY DEF PlsKeys, BlindscanKeys, TuningKeys
<1>9. Fits(PlsProps(NB, o) \o SearchRange(o) \o Stream(o.stream_id) \o scan, 5, BlindscanKeys)
  BY <1>7, <1>8, Weaken
<1> QED
  BY <1>5, <1>9

(* One step of the sweep, before the property that starts it.              *)
LEMMA SweepTuneFits == ASSUME NEW o PROVE Fits(SweepTuneProps(o), 11, TuningKeys)
PROOF
<1> DEFINE rate == << <<"SYMBOL_RATE", 1000 * o.max_symbol_rate>> >>
<1>1. Fits(Algorithm("blind"), 1, {"ALGORITHM"})
  BY Parts
<1>2. Fits(System(AnySystem), 1, {"DELIVERY_SYSTEM"})
  BY Parts
<1>3. Fits(SearchRange(o), 1, {"SEARCH_RANGE"})
  BY Parts
<1>4. Fits(rate, 1, {"SYMBOL_RATE"})
  BY One
<1>5. Fits(Frequency, 1, {"FREQUENCY"})
  BY Parts
<1>6. Fits(PlsProps(NB, o), 2, PlsKeys)
  BY PlsFits
<1>7. Fits(Stream(o.stream_id), 1, {"STREAM_ID"})
  BY Parts
<1>8. SweepTuneProps(o) =
       Algorithm("blind") \o System(AnySystem) \o SearchRange(o) \o rate \o Frequency
       \o PlsProps(NB, o) \o Stream(o.stream_id)
  BY DEF SweepTuneProps
<1> HIDE DEF rate
<1>9. /\ Apart({"ALGORITHM"}, {"DELIVERY_SYSTEM"})
      /\ Apart({"ALGORITHM"} \cup {"DELIVERY_SYSTEM"}, {"SEARCH_RANGE"})
      /\ Apart({"ALGORITHM"} \cup {"DELIVERY_SYSTEM"} \cup
           {"SEARCH_RANGE"}, {"SYMBOL_RATE"})
  BY DEF Apart
<1>10. Fits(Algorithm("blind") \o System(AnySystem) \o SearchRange(o) \o rate, 4,
           {"ALGORITHM"} \cup {"DELIVERY_SYSTEM"} \cup {"SEARCH_RANGE"} \cup
           {"SYMBOL_RATE"})
  BY <1>1, <1>2, <1>3, <1>4, <1>9, JoinedFour, 1 + 1 + 1 + 1 = 4
<1>11. /\ Apart({"ALGORITHM"} \cup {"DELIVERY_SYSTEM"} \cup {"SEARCH_RANGE"} \cup
           {"SYMBOL_RATE"}, {"FREQUENCY"})
      /\ Apart({"ALGORITHM"} \cup {"DELIVERY_SYSTEM"} \cup {"SEARCH_RANGE"} \cup
           {"SYMBOL_RATE"} \cup {"FREQUENCY"}, PlsKeys)
      /\ Apart({"ALGORITHM"} \cup {"DELIVERY_SYSTEM"} \cup {"SEARCH_RANGE"} \cup
           {"SYMBOL_RATE"} \cup {"FREQUENCY"} \cup PlsKeys, {"STREAM_ID"})
  BY DEF Apart, PlsKeys
<1>12. Fits(Algorithm("blind") \o System(AnySystem) \o SearchRange(o) \o rate \o Frequency
           \o PlsProps(NB, o) \o Stream(o.stream_id), 8,
           {"ALGORITHM"} \cup {"DELIVERY_SYSTEM"} \cup {"SEARCH_RANGE"} \cup
           {"SYMBOL_RATE"} \cup {"FREQUENCY"} \cup PlsKeys \cup {"STREAM_ID"})
  BY <1>10, <1>5, <1>6, <1>7, <1>11, JoinedFour, 4 + 1 + 2 + 1 = 8
<1>13. {"ALGORITHM"} \cup {"DELIVERY_SYSTEM"} \cup {"SEARCH_RANGE"} \cup
           {"SYMBOL_RATE"} \cup {"FREQUENCY"} \cup PlsKeys \cup {"STREAM_ID"}
        \subseteq TuningKeys
  BY DEF PlsKeys, TuningKeys
<1>14. Fits(Algorithm("blind") \o System(AnySystem) \o SearchRange(o) \o rate \o Frequency
           \o PlsProps(NB, o) \o Stream(o.stream_id), 11, TuningKeys)
  BY <1>12, <1>13, Weaken
<1> QED
  BY <1>8, <1>14

(* One peak, with the symbol rate if the spectrum gave one.                *)
LEMMA PeakTuneFits == ASSUME NEW o, NEW rate PROVE Fits(PeakTuneProps(o, rate), 11, TuningKeys)
PROOF
<1> DEFINE ifGiven == IF rate > 0 THEN << <<"SYMBOL_RATE", rate>> >> ELSE << >>
           width == << <<"SEARCH_RANGE", IF rate >= 2000000 THEN Max({rate, 4000000}) ELSE rate>> >>
<1>1. Fits(Algorithm("blind"), 1, {"ALGORITHM"})
  BY Parts
<1>2. Fits(System(AnySystem), 1, {"DELIVERY_SYSTEM"})
  BY Parts
<1>3. Fits(ifGiven, 1, {"SYMBOL_RATE"})
  BY Given
<1>4. Fits(Frequency, 1, {"FREQUENCY"})
  BY Parts
<1>5. Fits(PlsProps(SB, o), 2, PlsKeys)
  BY PlsFits
<1>6. Fits(Stream(o.stream_id), 1, {"STREAM_ID"})
  BY Parts
<1>7. Fits(width, 1, {"SEARCH_RANGE"})
  BY One
<1>8. PeakTuneProps(o, rate) =
       Algorithm("blind") \o System(AnySystem) \o ifGiven \o Frequency \o PlsProps(SB, o)
       \o Stream(o.stream_id) \o width
  BY DEF PeakTuneProps
<1> HIDE DEF ifGiven, width
<1>9. /\ Apart({"ALGORITHM"}, {"DELIVERY_SYSTEM"})
      /\ Apart({"ALGORITHM"} \cup {"DELIVERY_SYSTEM"}, {"SYMBOL_RATE"})
      /\ Apart({"ALGORITHM"} \cup {"DELIVERY_SYSTEM"} \cup
           {"SYMBOL_RATE"}, {"FREQUENCY"})
  BY DEF Apart
<1>10. Fits(Algorithm("blind") \o System(AnySystem) \o ifGiven \o Frequency, 4,
           {"ALGORITHM"} \cup {"DELIVERY_SYSTEM"} \cup {"SYMBOL_RATE"} \cup {"FREQUENCY"})
  BY <1>1, <1>2, <1>3, <1>4, <1>9, JoinedFour, 1 + 1 + 1 + 1 = 4
<1>11. /\ Apart({"ALGORITHM"} \cup {"DELIVERY_SYSTEM"} \cup {"SYMBOL_RATE"} \cup
           {"FREQUENCY"}, PlsKeys)
      /\ Apart({"ALGORITHM"} \cup {"DELIVERY_SYSTEM"} \cup {"SYMBOL_RATE"} \cup
           {"FREQUENCY"} \cup PlsKeys, {"STREAM_ID"})
      /\ Apart({"ALGORITHM"} \cup {"DELIVERY_SYSTEM"} \cup {"SYMBOL_RATE"} \cup
           {"FREQUENCY"} \cup PlsKeys \cup {"STREAM_ID"}, {"SEARCH_RANGE"})
  BY DEF Apart, PlsKeys
<1>12. Fits(Algorithm("blind") \o System(AnySystem) \o ifGiven \o Frequency
           \o PlsProps(SB, o) \o Stream(o.stream_id) \o width, 8,
           {"ALGORITHM"} \cup {"DELIVERY_SYSTEM"} \cup {"SYMBOL_RATE"} \cup {"FREQUENCY"} \cup
           PlsKeys \cup {"STREAM_ID"} \cup {"SEARCH_RANGE"})
  BY <1>10, <1>5, <1>6, <1>7, <1>11, JoinedFour, 4 + 2 + 1 + 1 = 8
<1>13. {"ALGORITHM"} \cup {"DELIVERY_SYSTEM"} \cup {"SYMBOL_RATE"} \cup {"FREQUENCY"} \cup
           PlsKeys \cup {"STREAM_ID"} \cup {"SEARCH_RANGE"}
        \subseteq TuningKeys
  BY DEF PlsKeys, TuningKeys
<1>14. Fits(Algorithm("blind") \o System(AnySystem) \o ifGiven \o Frequency
           \o PlsProps(SB, o) \o Stream(o.stream_id) \o width, 11, TuningKeys)
  BY <1>12, <1>13, Weaken
<1> QED
  BY <1>8, <1>14

(* neumo-tune: blind or with known parameters.                             *)
GoalKeys == TuningKeys \ {"OUTPUT_BBFRAMES", "CONSTELLATION"}

LEMMA BlindTuneFits == ASSUME NEW o PROVE Fits(BlindTuning(o), 9, GoalKeys)
PROOF
<1>1. Fits(Algorithm("blind"), 1, {"ALGORITHM"})
  BY Parts
<1>2. Fits(System(AnySystem), 1, {"DELIVERY_SYSTEM"})
  BY Parts
<1>3. Fits(SearchRange(o), 1, {"SEARCH_RANGE"})
  BY Parts
<1>4. Fits(RateGiven(o), 1, {"SYMBOL_RATE"})
  BY Parts
<1>5. Fits(Frequency, 1, {"FREQUENCY"})
  BY Parts
<1>6. Fits(PlsProps(NT, o), 2, PlsKeys)
  BY PlsFits
<1>7. Fits(Stream(o.stream_id), 1, {"STREAM_ID"})
  BY Parts
<1>8. BlindTuning(o) =
       Algorithm("blind") \o System(AnySystem) \o SearchRange(o) \o RateGiven(o)
       \o Frequency \o PlsProps(NT, o) \o Stream(o.stream_id)
  BY DEF BlindTuning
<1>9. /\ Apart({"ALGORITHM"}, {"DELIVERY_SYSTEM"})
      /\ Apart({"ALGORITHM"} \cup {"DELIVERY_SYSTEM"}, {"SEARCH_RANGE"})
      /\ Apart({"ALGORITHM"} \cup {"DELIVERY_SYSTEM"} \cup
           {"SEARCH_RANGE"}, {"SYMBOL_RATE"})
  BY DEF Apart
<1>10. Fits(Algorithm("blind") \o System(AnySystem) \o SearchRange(o) \o RateGiven(o), 4,
           {"ALGORITHM"} \cup {"DELIVERY_SYSTEM"} \cup {"SEARCH_RANGE"} \cup
           {"SYMBOL_RATE"})
  BY <1>1, <1>2, <1>3, <1>4, <1>9, JoinedFour, 1 + 1 + 1 + 1 = 4
<1>11. /\ Apart({"ALGORITHM"} \cup {"DELIVERY_SYSTEM"} \cup {"SEARCH_RANGE"} \cup
           {"SYMBOL_RATE"}, {"FREQUENCY"})
      /\ Apart({"ALGORITHM"} \cup {"DELIVERY_SYSTEM"} \cup {"SEARCH_RANGE"} \cup
           {"SYMBOL_RATE"} \cup {"FREQUENCY"}, PlsKeys)
      /\ Apart({"ALGORITHM"} \cup {"DELIVERY_SYSTEM"} \cup {"SEARCH_RANGE"} \cup
           {"SYMBOL_RATE"} \cup {"FREQUENCY"} \cup PlsKeys, {"STREAM_ID"})
  BY DEF Apart, PlsKeys
<1>12. Fits(Algorithm("blind") \o System(AnySystem) \o SearchRange(o) \o RateGiven(o)
           \o Frequency \o PlsProps(NT, o) \o Stream(o.stream_id), 8,
           {"ALGORITHM"} \cup {"DELIVERY_SYSTEM"} \cup {"SEARCH_RANGE"} \cup
           {"SYMBOL_RATE"} \cup {"FREQUENCY"} \cup PlsKeys \cup {"STREAM_ID"})
  BY <1>10, <1>5, <1>6, <1>7, <1>11, JoinedFour, 4 + 1 + 2 + 1 = 8
<1>13. {"ALGORITHM"} \cup {"DELIVERY_SYSTEM"} \cup {"SEARCH_RANGE"} \cup
           {"SYMBOL_RATE"} \cup {"FREQUENCY"} \cup PlsKeys \cup {"STREAM_ID"}
        \subseteq GoalKeys
  BY DEF PlsKeys, GoalKeys, TuningKeys
<1>14. Fits(Algorithm("blind") \o System(AnySystem) \o SearchRange(o) \o RateGiven(o)
           \o Frequency \o PlsProps(NT, o) \o Stream(o.stream_id), 9, GoalKeys)
  BY <1>12, <1>13, Weaken
<1> QED
  BY <1>8, <1>14

LEMMA KnownTuneFits == ASSUME NEW o PROVE Fits(KnownTuning(o), 9, GoalKeys)
PROOF
<1> DEFINE algo       == Algorithm(IF o.algo = Algorithms["warm"] THEN "warm" ELSE "cold")
           modulation == << <<"MODULATION", o.modulation>> >>
<1>1. Fits(algo, 1, {"ALGORITHM"})
  BY Parts
<1>2. Fits(System(o.delivery_system), 1, {"DELIVERY_SYSTEM"})
  BY Parts
<1>3. Fits(modulation, 1, {"MODULATION"})
  BY One
<1>4. Fits(SearchRange(o), 1, {"SEARCH_RANGE"})
  BY Parts
<1>5. Fits(RateGiven(o), 1, {"SYMBOL_RATE"})
  BY Parts
<1>6. Fits(Frequency, 1, {"FREQUENCY"})
  BY Parts
<1>7. Fits(PlsProps(NT, o), 2, PlsKeys)
  BY PlsFits
<1>8. Fits(Stream(StreamSelected(o)), 1, {"STREAM_ID"})
  BY Parts
<1>9. KnownTuning(o) =
       algo \o System(o.delivery_system) \o modulation \o SearchRange(o) \o RateGiven(o)
       \o Frequency \o PlsProps(NT, o) \o Stream(StreamSelected(o))
  BY DEF KnownTuning
<1> HIDE DEF algo, modulation
<1>10. /\ Apart({"ALGORITHM"}, {"DELIVERY_SYSTEM"})
      /\ Apart({"ALGORITHM"} \cup {"DELIVERY_SYSTEM"}, {"MODULATION"})
      /\ Apart({"ALGORITHM"} \cup {"DELIVERY_SYSTEM"} \cup
           {"MODULATION"}, {"SEARCH_RANGE"})
  BY DEF Apart
<1>11. Fits(algo \o System(o.delivery_system) \o modulation \o SearchRange(o), 4,
           {"ALGORITHM"} \cup {"DELIVERY_SYSTEM"} \cup {"MODULATION"} \cup {"SEARCH_RANGE"})
  BY <1>1, <1>2, <1>3, <1>4, <1>10, JoinedFour, 1 + 1 + 1 + 1 = 4
<1>12. /\ Apart({"ALGORITHM"} \cup {"DELIVERY_SYSTEM"} \cup {"MODULATION"} \cup
           {"SEARCH_RANGE"}, {"SYMBOL_RATE"})
      /\ Apart({"ALGORITHM"} \cup {"DELIVERY_SYSTEM"} \cup {"MODULATION"} \cup
           {"SEARCH_RANGE"} \cup {"SYMBOL_RATE"}, {"FREQUENCY"})
      /\ Apart({"ALGORITHM"} \cup {"DELIVERY_SYSTEM"} \cup {"MODULATION"} \cup
           {"SEARCH_RANGE"} \cup {"SYMBOL_RATE"} \cup {"FREQUENCY"}, PlsKeys)
  BY DEF Apart, PlsKeys
<1>13. Fits(algo \o System(o.delivery_system) \o modulation \o SearchRange(o)
           \o RateGiven(o) \o Frequency \o PlsProps(NT, o), 8,
           {"ALGORITHM"} \cup {"DELIVERY_SYSTEM"} \cup {"MODULATION"} \cup {"SEARCH_RANGE"} \cup
           {"SYMBOL_RATE"} \cup {"FREQUENCY"} \cup PlsKeys)
  BY <1>11, <1>5, <1>6, <1>7, <1>12, JoinedFour, 4 + 1 + 1 + 2 = 8
<1>14. /\ Apart({"ALGORITHM"} \cup {"DELIVERY_SYSTEM"} \cup {"MODULATION"} \cup
           {"SEARCH_RANGE"} \cup {"SYMBOL_RATE"} \cup {"FREQUENCY"} \cup
           PlsKeys, {"STREAM_ID"})
  BY DEF Apart, PlsKeys
<1>15. Fits(algo \o System(o.delivery_system) \o modulation \o SearchRange(o)
           \o RateGiven(o) \o Frequency \o PlsProps(NT, o) \o Stream(StreamSelected(o)), 9,
           {"ALGORITHM"} \cup {"DELIVERY_SYSTEM"} \cup {"MODULATION"} \cup {"SEARCH_RANGE"} \cup
           {"SYMBOL_RATE"} \cup {"FREQUENCY"} \cup PlsKeys \cup {"STREAM_ID"})
  BY <1>13, <1>8, <1>14, Joined, 8 + 1 = 9
<1>16. {"ALGORITHM"} \cup {"DELIVERY_SYSTEM"} \cup {"MODULATION"} \cup {"SEARCH_RANGE"} \cup
           {"SYMBOL_RATE"} \cup {"FREQUENCY"} \cup PlsKeys \cup {"STREAM_ID"}
        \subseteq GoalKeys
  BY DEF PlsKeys, GoalKeys, TuningKeys
<1>17. Fits(algo \o System(o.delivery_system) \o modulation \o SearchRange(o)
           \o RateGiven(o) \o Frequency \o PlsProps(NT, o) \o Stream(StreamSelected(o)), 9, GoalKeys)
  BY <1>15, <1>16, Weaken
<1> QED
  BY <1>9, <1>17

LEMMA TuneFits == ASSUME NEW o PROVE Fits(TuneProps(o), 11, TuningKeys)
PROOF
<1> DEFINE tuning == IF o.algo = Algorithms["blind"] THEN BlindTuning(o) ELSE KnownTuning(o)
           frames == IF o.bbframes_mode THEN << <<"OUTPUT_BBFRAMES", 1>> >> ELSE << >>
           iq     == IF o.command = Commands(NT)["iq"]
                     THEN << <<"CONSTELLATION", o.num_samples>> >> ELSE << >>
<1>1. Fits(tuning, 9, GoalKeys)
  BY BlindTuneFits, KnownTuneFits
<1>2. Fits(frames, 1, {"OUTPUT_BBFRAMES"})
  BY Given
<1>3. Fits(iq, 1, {"CONSTELLATION"})
  BY Given
<1>4. TuneProps(o) =
       tuning \o frames \o iq
  BY DEF TuneProps
<1> HIDE DEF tuning, frames, iq
<1>5. /\ Apart(GoalKeys, {"OUTPUT_BBFRAMES"})
      /\ Apart(GoalKeys \cup {"OUTPUT_BBFRAMES"}, {"CONSTELLATION"})
  BY DEF Apart, GoalKeys
<1>6. Fits(tuning \o frames \o iq, 11,
           GoalKeys \cup {"OUTPUT_BBFRAMES"} \cup {"CONSTELLATION"})
  BY <1>1, <1>2, <1>3, <1>5, JoinedThree, 9 + 1 + 1 = 11
<1>7. GoalKeys \cup {"OUTPUT_BBFRAMES"} \cup {"CONSTELLATION"}
        \subseteq TuningKeys
  BY DEF TuningKeys, GoalKeys
<1>8. Fits(tuning \o frames \o iq, 11, TuningKeys)
  BY <1>6, <1>7, Weaken
<1> QED
  BY <1>4, <1>8

(* None of the requests is longer than the driver's blind scan, and none   *)
(* has a property twice.                                                   *)
LEMMA RequestsFit == ASSUME NEW p, NEW r, NEW o PROVE \E keys : Fits(Properties(p, r, o), 13, keys)
PROOF
<1> DEFINE tuning == CASE p = NB -> SweepTuneProps(o)
                       [] p = SB -> PeakTuneProps(o, r[2])
                       [] OTHER  -> TuneProps(o)
<1>1. Fits(tuning, 11, TuningKeys)
  BY SweepTuneFits, PeakTuneFits, TuneFits, Zenon
<1>2. Fits(<< <<"TUNE", 0>> >>, 1, {"TUNE"}) /\ Apart(TuningKeys, {"TUNE"})
  BY One DEF Apart, TuningKeys, PlsKeys
<1> HIDE DEF tuning
<1>3. Fits(tuning \o << <<"TUNE", 0>> >>, 12, TuningKeys \cup {"TUNE"})
  BY <1>1, <1>2, Joined, 11 + 1 = 12
<1>4. Fits(tuning \o << <<"TUNE", 0>> >>, 13, TuningKeys \cup {"TUNE"})
  BY <1>3, Weaken
<1>5. Fits(SpectrumProps(p, o), 13, SpectrumKeys)
  BY SpectrumFits, Weaken
<1>6. Fits(BlindscanProps(o), 13, BlindscanKeys) /\ Fits(ContinueProps(o), 13, BlindscanKeys)
  BY BlindscanFits, ContinueFits, Weaken
<1> QED
  BY <1>4, <1>5, <1>6, Zenon DEF Properties, tuning

PropsFit == \E keys : Fits(props, 13, keys)

LEMMA AlwaysPropsFit == Spec => []PropsFit
PROOF
<1>1. RequestInit => PropsFit
  <2>1. Fits(<< >>, 13, {})
    BY None, Weaken
  <2> QED
    BY <2>1 DEF RequestInit, PropsFit
<1>2. PropsFit /\ [Next]_<<vars, requestVars>> => PropsFit'
  <2> SUFFICES ASSUME PropsFit, [Next]_<<vars, requestVars>>
               PROVE  PropsFit'
    OBVIOUS
  <2>1. CASE Clear
    <3>1. CASE props' = props
      BY <3>1 DEF PropsFit
    <3>2. ASSUME NEW r, props' = Properties(prog, r, opts)
          PROVE  PropsFit'
      <4>1. \E keys : Fits(props', 13, keys)
        BY <3>2, RequestsFit
      <4> QED
        BY <4>1 DEF PropsFit
    <3> QED
      BY <2>1, <3>1, <3>2 DEF Clear
  <2>2. CASE props' = props
    BY <2>2 DEF PropsFit
  <2> QED
    BY <2>1, <2>2 DEF Next, Work, Send, Refuse, Finish, Done, requestVars
<1> QED
  BY <1>1, <1>2, PTL DEF Spec

(* cmdseq_t's assertion that fewer than sixteen properties are in it never *)
(* fails, and no property is set twice by one request, for any command     *)
(* line that the parser accepts.                                           *)
THEOREM AlwaysFits == Spec => []RequestFits
PROOF
<1>1. PropsFit => RequestFits
  <2>1. ASSUME NEW s, NEW keys, Fits(s, 13, keys)
        PROVE  Len(s) <= 15 /\ \A i, j \in DOMAIN s : s[i][1] = s[j][1] => i = j
    <3>1. PICK S : /\ s \in Seq(S) /\ Len(s) <= 13
                   /\ \A i, j \in 1 .. Len(s) : s[i][1] = s[j][1] => i = j
      BY <2>1 DEF Fits
    <3>2. DOMAIN s = 1 .. Len(s) /\ Len(s) \in Nat
      BY <3>1, LenProperties
    <3> QED
      BY <3>1, <3>2
  <2> QED
    BY <2>1 DEF PropsFit, RequestFits, HasRoom, Capacity
<1> QED
  BY <1>1, AlwaysPropsFit, PTL

-------------------------------------------------------------------------------
(* The order of the natural numbers is well founded; hence each non-empty  *)
(* set of them has a least element.                                        *)
NatOrder == {pair \in Nat \X Nat : pair[1] < pair[2]}

LEMMA LeastNumber ==
  ASSUME NEW T, T \subseteq Nat, T # {}
  PROVE  \E x \in T : \A y \in T : x <= y
<1>1. IsWellFoundedOn(NatOrder, Nat)
  <2>1. NatOrder = OpToRel(<, Nat)
    BY DEF NatOrder, OpToRel
  <2> QED BY <2>1, NatLessThanWellFounded, Zenon
<1>2. PICK x \in T : \A y \in T : <<y, x>> \notin NatOrder
  BY <1>1, WFMin, Zenon
<1>3. ASSUME NEW y \in T
      PROVE  x <= y
  <2>1. x \in Nat /\ y \in Nat
    BY Zenon
  <2>2. <<y, x>> \notin NatOrder
    BY <1>2, Zenon
  <2> QED BY <2>1, <2>2 DEF NatOrder
<1> QED BY <1>3

-------------------------------------------------------------------------------
(* Lists of lists, put one behind the other.  FlattenSeq is a recursive    *)
(* function: that it exists is shown for longer and longer lists.          *)
IsFlat(ss, flat, n) ==
  flat = [i \in 1 .. n |-> IF i = 1 THEN ss[i] ELSE flat[i - 1] \o ss[i]]

LEMMA FlatExists ==
  ASSUME NEW ss, NEW n \in Nat
  PROVE  \E flat : IsFlat(ss, flat, n)
<1> DEFINE Good(m) == \E flat : IsFlat(ss, flat, m)
           Bad == {m \in Nat : ~Good(m)}
<1>1. Good(0)
  <2> DEFINE flat == [i \in 1 .. 0 |-> ss[i]]
  <2>1. flat = [i \in 1 .. 0 |-> IF i = 1 THEN ss[i] ELSE flat[i - 1] \o ss[i]]
    <3>1. \A i \in 1 .. 0 : FALSE
      OBVIOUS
    <3> QED BY <3>1
  <2> HIDE DEF flat
  <2> QED BY <2>1 DEF IsFlat
<1>2. ASSUME NEW m \in Nat, Good(m)
      PROVE  Good(m + 1)
  <2>1. PICK flat : flat = [i \in 1 .. m |-> IF i = 1 THEN ss[i] ELSE flat[i - 1] \o ss[i]]
    BY <1>2 DEF IsFlat
  <2> DEFINE new == IF m = 0 THEN ss[1] ELSE flat[m] \o ss[m + 1]
             more == [i \in 1 .. m + 1 |-> IF i = m + 1 THEN new ELSE flat[i]]
  <2>2. ASSUME NEW i \in 1 .. m + 1
        PROVE  more[i] = IF i = 1 THEN ss[i] ELSE more[i - 1] \o ss[i]
    <3>1. CASE i = m + 1
      <4>1. more[i] = new /\ (m # 0 => more[i - 1] = flat[m])
        BY <3>1
      <4> HIDE DEF more
      <4> QED BY <3>1, <4>1
    <3>2. CASE i # m + 1
      <4>1. i \in 1 .. m /\ more[i] = flat[i] /\ (i # 1 => more[i - 1] = flat[i - 1])
        BY <3>2
      <4>2. flat[i] = IF i = 1 THEN ss[i] ELSE flat[i - 1] \o ss[i]
        BY <2>1, <4>1
      <4> HIDE DEF more
      <4> QED BY <4>1, <4>2
    <3> QED BY <3>1, <3>2
  <2>3. more = [i \in 1 .. m + 1 |-> IF i = 1 THEN ss[i] ELSE more[i - 1] \o ss[i]]
    <3>1. more = [i \in 1 .. m + 1 |-> more[i]]
      OBVIOUS
    <3> HIDE DEF more
    <3> QED BY <2>2, <3>1, Zenon
  <2> HIDE DEF more
  <2> QED BY <2>3 DEF IsFlat
<1>3. Bad = {}
  <2>1. SUFFICES ASSUME Bad # {}
                 PROVE  FALSE
    OBVIOUS
  <2>2. PICK x \in Bad : \A y \in Bad : x <= y
    <3>1. Bad \subseteq Nat
      OBVIOUS
    <3> HIDE DEF Bad
    <3> QED BY <2>1, <3>1, LeastNumber
  <2> HIDE DEF Good
  <2>3. x # 0
    BY <1>1
  <2>4. x - 1 \in Nat /\ x - 1 \notin Bad
    BY <2>2, <2>3
  <2>5. Good(x - 1)
    BY <2>4
  <2>6. Good(x - 1 + 1)
    BY <1>2, <2>4, <2>5
  <2>7. x - 1 + 1 = x
    OBVIOUS
  <2> QED BY <2>6, <2>7
<1> QED BY <1>3

(* What is in the whole is in one of the parts, and the other way round.   *)
Together(ss) == UNION {ToSet(ss[i]) : i \in DOMAIN ss}

LEMMA Joining ==
  ASSUME NEW T, NEW a \in Seq(T), NEW b \in Seq(T)
  PROVE  /\ a \o b \in Seq(T)
         /\ ToSet(a \o b) = ToSet(a) \cup ToSet(b)
<1>1. /\ a \o b \in Seq(T) /\ Len(a \o b) = Len(a) + Len(b)
      /\ \A i \in 1 .. Len(a) : (a \o b)[i] = a[i]
      /\ \A i \in 1 .. Len(b) : (a \o b)[Len(a) + i] = b[i]
      /\ Len(a) \in Nat /\ Len(b) \in Nat
      /\ DOMAIN a = 1 .. Len(a) /\ DOMAIN b = 1 .. Len(b)
      /\ DOMAIN (a \o b) = 1 .. Len(a) + Len(b)
  OBVIOUS
<1> DEFINE c == a \o b
<1> HIDE DEF c
<1>2. ASSUME NEW x \in ToSet(c)
      PROVE  x \in ToSet(a) \cup ToSet(b)
  <2>1. PICK i \in 1 .. Len(a) + Len(b) : c[i] = x
    BY <1>1 DEF c, ToSet
  <2>2. CASE i <= Len(a)
    <3>1. i \in DOMAIN a /\ c[i] = a[i]
      BY <1>1, <2>1, <2>2 DEF c
    <3> QED BY <2>1, <3>1 DEF ToSet
  <2>3. CASE i > Len(a)
    <3> DEFINE k == i - Len(a)
    <3>1. k \in DOMAIN b /\ Len(a) + k = i
      BY <1>1, <2>1, <2>3
    <3>2. c[i] = b[k]
      BY <1>1, <3>1 DEF c
    <3> QED BY <2>1, <3>1, <3>2 DEF ToSet
  <2> QED BY <1>1, <2>1, <2>2, <2>3
<1>3. ASSUME NEW x \in ToSet(a)
      PROVE  x \in ToSet(c)
  <2>1. PICK i \in DOMAIN a : a[i] = x
    BY DEF ToSet
  <2>2. i \in DOMAIN c /\ c[i] = x
    BY <1>1, <2>1 DEF c
  <2> QED BY <2>2 DEF ToSet
<1>4. ASSUME NEW x \in ToSet(b)
      PROVE  x \in ToSet(c)
  <2>1. PICK i \in DOMAIN b : b[i] = x
    BY DEF ToSet
  <2>2. Len(a) + i \in DOMAIN c /\ c[Len(a) + i] = x
    BY <1>1, <2>1 DEF c
  <2> QED BY <2>2 DEF ToSet
<1>5. c \in Seq(T)
  BY <1>1 DEF c
<1> QED BY <1>2, <1>3, <1>4, <1>5 DEF c

LEMMA Flattened ==
  ASSUME NEW T, NEW ss \in Seq(Seq(T))
  PROVE  /\ FlattenSeq(ss) \in Seq(T)
         /\ ToSet(FlattenSeq(ss)) = Together(ss)
<1> DEFINE n == Len(ss)
<1>1. n \in Nat /\ DOMAIN ss = 1 .. n /\ \A i \in 1 .. n : ss[i] \in Seq(T)
  OBVIOUS
<1>2. CASE n = 0
  <2>1. FlattenSeq(ss) = ss /\ ss = << >>
    BY <1>2 DEF FlattenSeq
  <2>2. DOMAIN ss = {}
    BY <2>1
  <2>3. ToSet(ss) = {} /\ Together(ss) = {}
    BY <2>2 DEF ToSet, Together
  <2>4. << >> \in Seq(T)
    OBVIOUS
  <2> QED BY <2>1, <2>3, <2>4
<1>3. CASE n # 0
  <2> DEFINE all == CHOOSE flat : IsFlat(ss, flat, n)
             Upto(i) == UNION {ToSet(ss[j]) : j \in 1 .. i}
             Good(i) == all[i] \in Seq(T) /\ ToSet(all[i]) = Upto(i)
  <2>1. IsFlat(ss, all, n)
    BY <1>1, FlatExists
  <2>2. FlattenSeq(ss) = all[n]
    BY <1>3, Zenon DEF FlattenSeq, IsFlat
  <2> HIDE DEF all, n
  <2>3. all[1] = ss[1] /\ \A i \in 2 .. n : all[i] = all[i - 1] \o ss[i]
    <3>1. all = [i \in 1 .. n |-> IF i = 1 THEN ss[i] ELSE all[i - 1] \o ss[i]]
      BY <2>1 DEF IsFlat
    <3>2. ASSUME NEW i \in 1 .. n
          PROVE  all[i] = IF i = 1 THEN ss[i] ELSE all[i - 1] \o ss[i]
      BY <3>1, Zenon
    <3>3. 1 \in 1 .. n /\ \A i \in 2 .. n : i \in 1 .. n /\ i # 1
      BY <1>1, <1>3
    <3> QED BY <3>2, <3>3, Zenon
  <2>4. Good(1)
    <3>1. Upto(1) = ToSet(ss[1])
      <4>1. 1 .. 1 = {1}
        OBVIOUS
      <4> QED BY <4>1
    <3>2. 1 \in 1 .. n
      BY <1>1, <1>3
    <3> HIDE DEF Upto
    <3> QED BY <1>1, <2>3, <3>1, <3>2
  <2>5. ASSUME NEW i \in 2 .. n, Good(i - 1)
        PROVE  Good(i)
    <3>1. i \in 1 .. n
      BY <1>1
    <3>2. all[i] = all[i - 1] \o ss[i] /\ ss[i] \in Seq(T)
      BY <1>1, <2>3, <3>1, Zenon
    <3>3. Upto(i) = Upto(i - 1) \cup ToSet(ss[i])
      <4>1. 1 .. i = (1 .. i - 1) \cup {i}
        BY <1>1
      <4> QED BY <4>1
    <3> HIDE DEF Upto
    <3> QED BY <2>5, <3>2, <3>3, Joining
  <2>6. {i \in 1 .. n : ~Good(i)} = {}
    <3> DEFINE Bad == {i \in 1 .. n : ~Good(i)}
    <3>1. SUFFICES ASSUME Bad # {}
                   PROVE  FALSE
      OBVIOUS
    <3>2. PICK x \in Bad : \A y \in Bad : x <= y
      <4>1. Bad \subseteq Nat
        BY <1>1
      <4> HIDE DEF Bad
      <4> QED BY <3>1, <4>1, LeastNumber
    <3> HIDE DEF Good
    <3>3. x \in 2 .. n
      BY <1>1, <2>4, <3>2
    <3>4. x - 1 \in 1 .. n /\ x - 1 \notin Bad
      BY <1>1, <3>2, <3>3
    <3> QED BY <2>5, <3>2, <3>3, <3>4
  <2>7. Good(n)
    <3> HIDE DEF Good
    <3> QED BY <1>1, <1>3, <2>6
  <2>8. Upto(n) = Together(ss)
    BY <1>1 DEF Together
  <2> HIDE DEF Upto
  <2> QED BY <2>2, <2>7, <2>8
<1> QED BY <1>2, <1>3
-------------------------------------------------------------------------------
(* What the parser makes of a line.                                        *)

(* A token of short options stands for at most two: what a flag puts back  *)
(* is a short option again, and behind a second flag comes nothing more.   *)
(* The properties speak of such lines; what they call the pieces of a      *)
(* token are these two.                                                    *)
NamesFlag(text) == \E o \in Named(text) : IsFlag(o)

PlainToken(text) ==
  LET pushed == Lexicon[text].pushed
  IN  Class(text) = "short" /\ NamesFlag(text) /\ Lexicon[text].value # "" =>
        /\ pushed # "" /\ Class(pushed) = "short"
        /\ NamesFlag(pushed) => Lexicon[pushed].value = ""

PlainLine == \A i \in DOMAIN line : PlainToken(line[i])

LineTypes ==
  /\ prog \in Programs /\ line \in Seq(DOMAIN Lexicon) /\ args \in Seq(DOMAIN Lexicon)
  /\ results \in [Indices -> Seq(DOMAIN Lexicon)]
  /\ missing \in Seq({"mark", "long", "short", "word"} \X DOMAIN Lexicon)
  /\ at \in Nat \ {0}

(* A token is dealt with.                                                  *)
Treated(i) ==
  \/ line[i] = "--"
  \/ LeftOver # {}
  \/ \A text \in Pieces(line[i]) : \E o \in Named(text) : results[o] # << >>
  \/ \E o \in Indices : ToSet(Items(o, line[i])) \subseteq ToSet(results[o])

(* The parser is at token j, or at what the flag in token j has put back.  *)
Rest(j) == SubSeq(line, j, Len(line))

PutBack(j) ==
  /\ ~positional_only /\ NamesFlag(line[j]) /\ Class(line[j]) = "short"
  /\ Lexicon[line[j]].value # "" /\ Next1 = Lexicon[line[j]].pushed
  /\ \E o \in Named(line[j]) : results[o] # << >>

IsAt(j) ==
  /\ args # << >> /\ Tail(args) = Rest(j + 1)
  /\ Next1 = line[j] \/ PutBack(j)
  /\ \A i \in 1 .. j - 1 : Treated(i)

Place ==
  \/ args = << >> /\ \A i \in DOMAIN line : Treated(i)
  \/ \E j \in DOMAIN line : IsAt(j)

(* What was given to an option stands at its name.                         *)
Stands(o, x) == \E j \in DOMAIN line : Naming(j, o) # {} /\ x \in SaidAt(j, o)

ResultsSaid ==
  \A o \in Indices : ~IsFlag(o) /\ Options[o].pname = "" =>
    \A x \in ToSet(results[o]) : Stands(o, x)

(* The callbacks have looked at every result before option at.             *)
Looked ==
  /\ pc \in {"callbacks", "parsed"} => args = << >>
  /\ pc \in {"callbacks", "parsed"} =>
       \A o \in Indices : o < at /\ results[o] # << >> => Reduces(o)
  /\ pc = "parsed" => ToRun = {} /\ LeftOver = {}
  /\ pc = "parse" => at = 1

LineInv == LineTypes /\ Looked /\ (pc # "exit" => Place) /\ ResultsSaid

-------------------------------------------------------------------------------
LEMMA Lowest ==
  ASSUME NEW S, S \subseteq Nat, S # {}
  PROVE  Min(S) \in S /\ \A y \in S : Min(S) <= y
BY LeastNumber DEF Min

(* A name is one option's.                                                 *)
LEMMA OwnNames ==
  ASSUME prog \in Programs, NEW text, NEW o1 \in Named(text), NEW o2 \in Named(text)
  PROVE  o1 \in Indices /\ o1 = o2
<1> DEFINE name == Lexicon[text].name
<1>1. o1 \in Indices /\ o2 \in Indices
  BY DEF Named
<1>2. \/ name \in Options[o1].lnames \cap Options[o2].lnames
      \/ name \in Options[o1].snames \cap Options[o2].snames
  <2>1. CASE Class(text) = "long"
    BY <2>1 DEF Named
  <2>2. CASE Class(text) = "short"
    BY <2>2 DEF Named
  <2>3. CASE Class(text) \notin {"long", "short"}
    BY <2>3 DEF Named
  <2> QED BY <2>1, <2>2, <2>3
<1> QED BY <1>1, <1>2, TableAssumption DEF Options, Indices

LEMMA IndicesAreNumbers == ASSUME prog \in Programs PROVE Indices \subseteq Nat \ {0}
BY TableAssumption DEF Indices, Options

(* What a token is and may stand for depends on the program and the line.  *)
LEMMA SameLine ==
  ASSUME UNCHANGED given
  PROVE  /\ Indices' = Indices /\ Options' = Options /\ prog' = prog /\ line' = line
         /\ \A text : Class(text)' = Class(text) /\ Named(text)' = Named(text)
         /\ \A text : Pieces(text)' = Pieces(text) /\ NamesFlag(text)' = NamesFlag(text)
         /\ \A o, text : Items(o, text)' = Items(o, text)
         /\ \A o : IsFlag(o)' = IsFlag(o)
         /\ \A j, o : Naming(j, o)' = Naming(j, o) /\ SaidAt(j, o)' = SaidAt(j, o)
         /\ \A j : Rest(j)' = Rest(j)
         /\ PlainLine' = PlainLine
<1>1. prog' = prog /\ line' = line
  BY DEF given
<1>2. Indices' = Indices /\ Options' = Options
  BY <1>1 DEF Indices, Options
<1>3. \A text : Class(text)' = Class(text)
  BY <1>2 DEF Class
<1>4. \A text : Named(text)' = Named(text)
  BY <1>2, <1>3, Zenon DEF Named
<1>5. \A o : IsFlag(o)' = IsFlag(o)
  BY <1>2, Zenon DEF IsFlag
<1>6. \A text : Pieces(text)' = Pieces(text) /\ NamesFlag(text)' = NamesFlag(text)
  BY <1>4, <1>5, Zenon DEF Pieces, NamesFlag
<1>7. \A o, text : Items(o, text)' = Items(o, text)
  BY <1>2, Zenon DEF Items
<1>8. \A j, o : Naming(j, o)' = Naming(j, o)
  BY <1>1, <1>4, <1>6, Zenon DEF Naming
<1>9. ASSUME NEW j, NEW o
      PROVE  SaidAt(j, o)' = SaidAt(j, o)
  <2> DEFINE attached == {Lexicon[text].value : text \in Naming(j, o)}
             after == IF Options[o].many
                      THEN {k \in j + 1 .. Len(line) : \A m \in j + 2 .. k : Class(line[m]) = "word"}
                      ELSE {j + 1} \cap DOMAIN line
             next == IF "" \in attached \/ Options[o].many THEN {line[k] : k \in after} ELSE {}
             said == (attached \ {""}) \union next
  <2>1. attached' = attached
    BY <1>8, Zenon
  <2>2. after' = after
    BY <1>1, <1>2, <1>3
  <2> HIDE DEF after, attached
  <2>3. next' = next
    BY <1>1, <1>2, <2>1, <2>2
  <2> HIDE DEF next
  <2>4. said' = said
    BY <2>1, <2>3
  <2> HIDE DEF said
  <2>5. \A text : ToSet(Items(o, text))' = ToSet(Items(o, text))
    BY <1>7, Zenon
  <2>6. SaidAt(j, o) = UNION {ToSet(Items(o, text)) : text \in said}
    BY Zenon DEF SaidAt, said, next, after, attached
  <2>7. SaidAt(j, o)' = UNION {ToSet(Items(o, text))' : text \in said'}
    BY Zenon DEF SaidAt, said, next, after, attached
  <2> HIDE DEF said
  <2> QED BY <2>4, <2>5, <2>6, <2>7
<1>10. \A text : PlainToken(text)' = PlainToken(text)
  BY <1>3, <1>6, Zenon DEF PlainToken
<1>11. \A j : Rest(j)' = Rest(j)
  BY <1>1, Zenon DEF Rest
<1>12. PlainLine' = PlainLine
  BY <1>1, <1>10, Zenon DEF PlainLine
<1> QED BY <1>1, <1>2, <1>3, <1>4, <1>5, <1>6, <1>7, <1>8, <1>9, <1>11, <1>12, Zenon

(* What is left of the line.                                               *)
LEMMA RestFacts ==
  ASSUME NEW T, line \in Seq(T), NEW k \in 1 .. Len(line) + 1
  PROVE  /\ Rest(k) \in Seq(T) /\ Len(Rest(k)) = Len(line) - k + 1
         /\ \A i \in 1 .. Len(line) - k + 1 : Rest(k)[i] = line[k + i - 1]
         /\ k = Len(line) + 1 => Rest(k) = << >>
         /\ k <= Len(line) => Rest(k) # << >> /\ Head(Rest(k)) = line[k] /\ Tail(Rest(k)) = Rest(k + 1)
         /\ \A q \in 0 .. Len(line) - k + 1 :
              SubSeq(Rest(k), q + 1, Len(Rest(k))) = Rest(k + q)
<1>1. Len(line) \in Nat /\ DOMAIN line = 1 .. Len(line) /\ \A i \in 1 .. Len(line) : line[i] \in T
  OBVIOUS
<1>2. /\ Rest(k) \in Seq(T) /\ Len(Rest(k)) = Len(line) - k + 1
      /\ \A i \in 1 .. Len(line) - k + 1 : Rest(k)[i] = line[k + i - 1]
  <2>1. Rest(k) = [i \in 1 .. Len(line) - k + 1 |-> line[k + i - 1]]
    BY <1>1 DEF Rest
  <2>2. Len(line) - k + 1 \in Nat /\ \A i \in 1 .. Len(line) - k + 1 : k + i - 1 \in 1 .. Len(line)
    BY <1>1
  <2> QED BY <1>1, <2>1, <2>2
<1>3. k = Len(line) + 1 => Rest(k) = << >>
  BY <1>1, <1>2
<1>4. ASSUME k <= Len(line)
      PROVE  Rest(k) # << >> /\ Head(Rest(k)) = line[k] /\ Tail(Rest(k)) = Rest(k + 1)
  <2>1. k \in 1 .. Len(line) /\ Len(line) \in k .. Len(line)
    BY <1>1, <1>4
  <2>2. Len(Rest(k)) # 0
    BY <1>1, <1>2, <1>4
  <2> QED BY <2>1, <2>2, HeadTailOfSubSeq DEF Rest
<1>5. ASSUME NEW q \in 0 .. Len(line) - k + 1
      PROVE  SubSeq(Rest(k), q + 1, Len(Rest(k))) = Rest(k + q)
  <2> DEFINE r == Rest(k)
             n == Len(line) - k + 1
  <2>1. n \in Nat /\ Len(r) = n /\ \A i \in 1 .. n : r[i] = line[k + i - 1]
    BY <1>1, <1>2
  <2> HIDE DEF r
  <2>2. SubSeq(r, q + 1, Len(r)) = [i \in 1 .. n - q |-> r[q + i]]
    <3>1. SubSeq(r, q + 1, n) = [i \in 1 .. (1 + n - (q + 1)) |-> r[q + 1 + i - 1]]
      BY <2>1
    <3>2. 1 + n - (q + 1) = n - q /\ \A i \in 1 .. n - q : q + 1 + i - 1 = q + i
      BY <2>1
    <3> HIDE DEF n
    <3> QED BY <2>1, <3>1, <3>2
  <2>3. Rest(k + q) = [i \in 1 .. n - q |-> line[k + q + i - 1]]
    BY <1>1 DEF Rest
  <2>4. \A i \in 1 .. n - q : r[q + i] = line[k + q + i - 1]
    <3>1. \A i \in 1 .. n - q : q + i \in 1 .. n /\ k + (q + i) - 1 = k + q + i - 1
      BY <2>1
    <3> QED BY <2>1, <3>1
  <2>5. SubSeq(r, q + 1, Len(r)) = Rest(k + q)
    <3> HIDE DEF n
    <3> QED BY <2>2, <2>3, <2>4
  <2> QED BY <2>5 DEF r
<1> QED BY <1>2, <1>3, <1>4, <1>5

(* A vector takes words.                                                   *)
LEMMA WordsFacts ==
  ASSUME NEW T, NEW tokens \in Seq(T)
  PROVE  /\ Words(tokens) \in 0 .. Len(tokens)
         /\ \A i \in 1 .. Words(tokens) : Class(tokens[i]) = "word"
<1> DEFINE stops == {i \in DOMAIN tokens : Class(tokens[i]) # "word"}
<1>1. Len(tokens) \in Nat /\ DOMAIN tokens = 1 .. Len(tokens)
  OBVIOUS
<1>2. CASE stops = {}
  <2>1. Words(tokens) = Len(tokens)
    BY <1>2 DEF Words
  <2> QED BY <1>1, <1>2, <2>1
<1>3. CASE stops # {}
  <2>1. Words(tokens) = Min(stops) - 1
    BY <1>3 DEF Words
  <2>2. stops \subseteq Nat
    BY <1>1
  <2>3. Min(stops) \in stops /\ \A y \in stops : Min(stops) <= y
    <3> HIDE DEF stops
    <3> QED BY <1>3, <2>2, Lowest
  <2>4. Min(stops) \in 1 .. Len(tokens)
    BY <1>1, <2>3
  <2>5. ASSUME NEW i \in 1 .. Words(tokens)
        PROVE  Class(tokens[i]) = "word"
    <3>1. i \in DOMAIN tokens /\ i < Min(stops)
      BY <1>1, <2>1, <2>4
    <3>2. i \notin stops
      <4> HIDE DEF stops
      <4> QED BY <1>1, <2>3, <2>4, <3>1
    <3> QED BY <3>1, <3>2
  <2>6. Words(tokens) \in 0 .. Len(tokens)
    BY <1>1, <2>1, <2>4
  <2> QED BY <2>5, <2>6
<1> QED BY <1>2, <1>3

(* What a token stands for.                                                *)
LEMMA ItemsType ==
  ASSUME NEW o, NEW text \in DOMAIN Lexicon
  PROVE  /\ Items(o, text) \in Seq(DOMAIN Lexicon) /\ Items(o, text) # << >>
         /\ ToSet(Items(o, text)) # {}
<1>1. Lexicon[text].items \in Seq(DOMAIN Lexicon) \ {<< >>}
  BY CommandLineAssumption
<1>2. <<text>> \in Seq(DOMAIN Lexicon) \ {<< >>}
  OBVIOUS
<1>3. Items(o, text) \in Seq(DOMAIN Lexicon) \ {<< >>}
  BY <1>1, <1>2 DEF Items
<1> DEFINE s == Items(o, text)
<1> HIDE DEF s
<1>4. s \in Seq(DOMAIN Lexicon) \ {<< >>}
  BY <1>3 DEF s
<1>5. s[1] \in ToSet(s)
  BY <1>4 DEF ToSet
<1> QED BY <1>4, <1>5 DEF s

(* What an option is given is added to what it was given.                  *)
LEMMA GivenIsAdded ==
  ASSUME LineTypes, NEW o \in Indices, NEW texts \in Seq(DOMAIN Lexicon), texts # << >>, Give(o, texts)
  PROVE  /\ results' \in [Indices -> Seq(DOMAIN Lexicon)]
         /\ results'[o] # << >>
         /\ \A p \in Indices : results[p] # << >> => results'[p] # << >>
         /\ \A p \in Indices : ToSet(results[p]) \subseteq ToSet(results'[p])
         /\ \A i \in DOMAIN texts : ToSet(Items(o, texts[i])) \subseteq ToSet(results'[o])
         /\ \A p \in Indices : \A x \in ToSet(results'[p]) :
              \/ x \in ToSet(results[p])
              \/ p = o /\ \E i \in DOMAIN texts : x \in ToSet(Items(o, texts[i]))
<1> DEFINE parts == [i \in DOMAIN texts |-> Items(o, texts[i])]
           new == ItemsOf(o, texts)
<1>1. /\ parts \in Seq(Seq(DOMAIN Lexicon)) /\ DOMAIN parts = DOMAIN texts
      /\ \A i \in DOMAIN texts : parts[i] = Items(o, texts[i])
  <2>1. /\ Len(texts) \in Nat /\ DOMAIN texts = 1 .. Len(texts)
        /\ \A i \in DOMAIN texts : texts[i] \in DOMAIN Lexicon
    OBVIOUS
  <2>2. \A i \in DOMAIN texts : Items(o, texts[i]) \in Seq(DOMAIN Lexicon)
    BY <2>1, ItemsType, Zenon
  <2> QED BY <2>1, <2>2
<1>2. new = FlattenSeq(parts)
  BY Zenon DEF ItemsOf
<1> HIDE DEF parts
<1>3. new \in Seq(DOMAIN Lexicon) /\ ToSet(new) = Together(parts)
  BY <1>1, <1>2, Flattened
<1>4. results' = [results EXCEPT ![o] = @ \o new]
  BY DEF Give
<1> HIDE DEF new
<1>5. results \in [Indices -> Seq(DOMAIN Lexicon)]
  BY DEF LineTypes
<1>6. /\ results[o] \o new \in Seq(DOMAIN Lexicon)
      /\ ToSet(results[o] \o new) = ToSet(results[o]) \cup ToSet(new)
  BY <1>3, <1>5, Joining
<1>7. results' \in [Indices -> Seq(DOMAIN Lexicon)] /\ results'[o] = results[o] \o new
      /\ \A p \in Indices : p # o => results'[p] = results[p]
  BY <1>4, <1>5, <1>6
<1>8. \A x : x \in ToSet(new) <=> \E i \in DOMAIN texts : x \in ToSet(Items(o, texts[i]))
  BY <1>1, <1>3 DEF Together
<1>9. 1 \in DOMAIN texts /\ texts[1] \in DOMAIN Lexicon
  OBVIOUS
<1>10. ToSet(new) # {}
  BY <1>8, <1>9, ItemsType
<1>11. results'[o] # << >>
  <2>1. ToSet(results'[o]) # {}
    BY <1>6, <1>7, <1>10
  <2>2. ToSet(<< >>) = {}
    BY DEF ToSet
  <2> QED BY <2>1, <2>2
<1>12. \A p \in Indices : results[p] # << >> => results'[p] # << >>
  BY <1>7, <1>11, Zenon
<1>13. \A p \in Indices : ToSet(results[p]) \subseteq ToSet(results'[p])
  BY <1>6, <1>7
<1>14. \A i \in DOMAIN texts : ToSet(Items(o, texts[i])) \subseteq ToSet(results'[o])
  BY <1>6, <1>7, <1>8
<1>15. ASSUME NEW p \in Indices, NEW x \in ToSet(results'[p])
       PROVE  \/ x \in ToSet(results[p])
              \/ p = o /\ \E i \in DOMAIN texts : x \in ToSet(Items(o, texts[i]))
  BY <1>6, <1>7, <1>8
<1> QED BY <1>7, <1>11, <1>12, <1>13, <1>14, <1>15

(* Nothing that was given or left over is taken back while a line is read. *)
Grows ==
  /\ LineTypes /\ UNCHANGED given
  /\ \A p \in Indices : results[p] # << >> => results'[p] # << >>
  /\ \A p \in Indices : ToSet(results[p]) \subseteq ToSet(results'[p])
  /\ LeftOver # {} => LeftOver' # {}

LEMMA StaysTreated ==
  ASSUME Grows, NEW i, Treated(i)
  PROVE  Treated(i)'
<1>1. UNCHANGED given /\ prog \in Programs
  BY DEF Grows, LineTypes
<1>2. /\ Indices' = Indices /\ line' = line /\ \A text : Named(text)' = Named(text)
      /\ Pieces(line[i])' = Pieces(line[i]) /\ \A o, text : Items(o, text)' = Items(o, text)
  BY <1>1, SameLine, Zenon
<1>3. CASE line[i] = "--"
  BY <1>2, <1>3 DEF Treated
<1>4. CASE LeftOver # {}
  BY <1>4 DEF Treated, Grows
<1>5. CASE \A text \in Pieces(line[i]) : \E o \in Named(text) : results[o] # << >>
  <2>1. ASSUME NEW text \in Pieces(line[i])
        PROVE  \E o \in Named(text) : results'[o] # << >>
    <3>1. PICK o \in Named(text) : results[o] # << >>
      BY <1>5
    <3>2. o \in Indices
      BY <1>1, OwnNames
    <3> QED BY <3>1, <3>2 DEF Grows
  <2> QED BY <1>2, <2>1, Zenon DEF Treated
<1>6. CASE \E o \in Indices : ToSet(Items(o, line[i])) \subseteq ToSet(results[o])
  <2>1. PICK o \in Indices : ToSet(Items(o, line[i])) \subseteq ToSet(results[o])
    BY <1>6
  <2>2. ToSet(Items(o, line[i])) \subseteq ToSet(results'[o])
    BY <2>1 DEF Grows
  <2>3. \E p \in Indices : ToSet(Items(p, line[i])) \subseteq ToSet(results'[p])
    BY <2>2
  <2>4. \A p : ToSet(Items(p, line[i]))' = ToSet(Items(p, line[i]))
    BY <1>2, Zenon DEF ToSet
  <2>5. \A p : ToSet(results[p])' = ToSet(results'[p])
    BY DEF ToSet
  <2> QED BY <1>2, <2>3, <2>4, <2>5 DEF Treated
<1> QED BY <1>3, <1>4, <1>5, <1>6 DEF Treated

(* The parser is at the next token when those before it are dealt with.    *)
LEMMA GoesOn ==
  ASSUME line \in Seq(DOMAIN Lexicon), UNCHANGED line, NEW m \in 1 .. Len(line) + 1,
         args' = Rest(m), \A i \in 1 .. m - 1 : Treated(i)'
  PROVE  Place'
<1>1. Len(line) \in Nat /\ DOMAIN line = 1 .. Len(line)
  OBVIOUS
<1>2. CASE m = Len(line) + 1
  <2>1. args' = << >> /\ \A i \in DOMAIN line : Treated(i)'
    <3>1. \A i \in DOMAIN line : i \in 1 .. m - 1
      BY <1>1, <1>2
    <3> QED BY <1>2, <3>1, RestFacts
  <2> QED BY <2>1 DEF Place
<1>3. CASE m # Len(line) + 1
  <2>1. m \in DOMAIN line /\ m <= Len(line)
    BY <1>1, <1>3
  <2>2. args' # << >> /\ Head(args') = line[m] /\ Tail(args') = Rest(m + 1)
    BY <2>1, RestFacts
  <2>3. Rest(m + 1)' = Rest(m + 1)
    BY DEF Rest
  <2>4. IsAt(m)'
    BY <2>2, <2>3 DEF IsAt, Next1
  <2> QED BY <2>1, <2>4 DEF Place
<1> QED BY <1>2, <1>3

(* Where a step of the parser finds itself.                                *)
LEMMA ReadsAt ==
  ASSUME LineTypes, Place, args # << >>
  PROVE  \E j \in DOMAIN line :
           /\ IsAt(j) /\ Next1 \in DOMAIN Lexicon /\ line[j] \in DOMAIN Lexicon
           /\ j \in 1 .. Len(line) /\ j + 1 \in 1 .. Len(line) + 1
<1>1. PICK j \in DOMAIN line : IsAt(j)
  BY DEF Place
<1>2. line \in Seq(DOMAIN Lexicon) /\ args \in Seq(DOMAIN Lexicon) /\ args # << >>
  BY DEF LineTypes
<1>3. Next1 \in DOMAIN Lexicon
  BY <1>2 DEF Next1
<1>4. line[j] \in DOMAIN Lexicon /\ j \in 1 .. Len(line) /\ j + 1 \in 1 .. Len(line) + 1
  BY <1>2
<1> QED BY <1>1, <1>3, <1>4

LEMMA Missed ==
  ASSUME LineTypes, Next1 \in DOMAIN Lexicon,
         NEW class \in {"mark", "long", "short", "word"}, MoveToMissing(class)
  PROVE  /\ missing' \in Seq({"mark", "long", "short", "word"} \X DOMAIN Lexicon)
         /\ LeftOver # {} => LeftOver' # {}
         /\ class # "mark" => LeftOver' # {}
<1> DEFINE M == {"mark", "long", "short", "word"} \X DOMAIN Lexicon
           new == <<class, Next1>>
<1>1. missing \in Seq(M) /\ new \in M /\ new[1] = class
  BY DEF LineTypes
<1>2. missing' = Append(missing, new)
  BY DEF MoveToMissing
<1> HIDE DEF M, new
<1>3. /\ missing' \in Seq(M) /\ Len(missing') = Len(missing) + 1 /\ Len(missing) \in Nat
      /\ missing'[Len(missing) + 1] = new /\ \A i \in 1 .. Len(missing) : missing'[i] = missing[i]
      /\ DOMAIN missing = 1 .. Len(missing) /\ DOMAIN missing' = 1 .. Len(missing) + 1
  BY <1>1, <1>2
<1>4. ASSUME NEW i \in LeftOver
      PROVE  i \in LeftOver'
  BY <1>3 DEF LeftOver
<1>5. class # "mark" => Len(missing) + 1 \in LeftOver'
  BY <1>1, <1>3 DEF LeftOver
<1>6. missing' \in Seq(M)
  BY <1>3
<1> QED BY <1>4, <1>5, <1>6 DEF M

(* What a flag has put back is a short option, and no flag with more.      *)
LEMMA PutBackIsShort ==
  ASSUME PlainLine, NEW j \in DOMAIN line, PutBack(j)
  PROVE  /\ Class(Next1) = "short" /\ Next1 # "" /\ ~positional_only
         /\ NamesFlag(Next1) => Attached = ""
BY DEF PlainLine, PlainToken, PutBack, Attached

(* The token under the parser is dealt with when its option has a value,   *)
(* and puts nothing back.                                                  *)
LEMMA NamedIsTreated ==
  ASSUME Grows, NEW j \in DOMAIN line, IsAt(j), NEW o \in Named(Next1), results'[o] # << >>,
         Next1 = line[j] /\ IsFlag(o) => Lexicon[line[j]].pushed = ""
  PROVE  Treated(j)'
<1>1. UNCHANGED given /\ prog \in Programs
  BY DEF Grows, LineTypes
<1>2. /\ line' = line /\ Pieces(line[j])' = Pieces(line[j]) /\ \A text : Named(text)' = Named(text)
  BY <1>1, SameLine, Zenon
<1>3. ASSUME NEW text \in Pieces(line[j])
      PROVE  \E p \in Named(text) : results'[p] # << >>
  <2>1. CASE Next1 = line[j]
    <3>1. ASSUME NEW p \in Named(line[j]), IsFlag(p)
          PROVE  Lexicon[line[j]].pushed = ""
      <4>1. p = o
        BY <1>1, <2>1, OwnNames
      <4> QED BY <2>1, <3>1, <4>1
    <3>2. text = line[j]
      BY <3>1 DEF Pieces
    <3> QED BY <2>1, <3>2
  <2>2. CASE PutBack(j)
    <3>1. text \in {line[j], Next1}
      BY <2>2 DEF PutBack, Pieces
    <3>2. PICK p \in Named(line[j]) : results[p] # << >>
      BY <2>2 DEF PutBack
    <3>3. results'[p] # << >>
      BY <1>1, <3>2, OwnNames DEF Grows
    <3> QED BY <3>1, <3>2, <3>3
  <2> QED BY <2>1, <2>2 DEF IsAt
<1> QED BY <1>2, <1>3, Zenon DEF Treated

(* So it is when it is left over, or when an option has its items.         *)
LEMMA LeftIsTreated ==
  ASSUME LeftOver' # {}, NEW i
  PROVE  Treated(i)'
BY DEF Treated

LEMMA ItemsAreTreated ==
  ASSUME UNCHANGED given, NEW i, NEW o \in Indices,
         ToSet(Items(o, line[i])) \subseteq ToSet(results'[o])
  PROVE  Treated(i)'
<1>1. Indices' = Indices /\ line' = line /\ \A p, text : Items(p, text)' = Items(p, text)
  BY SameLine, Zenon
<1>2. \A p : ToSet(Items(p, line[i]))' = ToSet(Items(p, line[i]))
  BY <1>1, Zenon DEF ToSet
<1>3. \A p : ToSet(results[p])' = ToSet(results'[p])
  BY DEF ToSet
<1>4. \E p \in Indices : ToSet(Items(p, line[i])) \subseteq ToSet(results'[p])
  OBVIOUS
<1> QED BY <1>1, <1>2, <1>3, <1>4 DEF Treated

(* What is new in the results stands at its name.                          *)
LEMMA SaidStays ==
  ASSUME UNCHANGED given, ResultsSaid,
         \A p \in Indices : ~IsFlag(p) /\ Options[p].pname = "" =>
           \A x \in ToSet(results'[p]) : x \in ToSet(results[p]) \/ Stands(p, x)
  PROVE  ResultsSaid'
<1>1. /\ Indices' = Indices /\ Options' = Options /\ line' = line
      /\ \A o : IsFlag(o)' = IsFlag(o)
      /\ \A j, o : Naming(j, o)' = Naming(j, o) /\ SaidAt(j, o)' = SaidAt(j, o)
  BY SameLine, Zenon
<1>2. \A o, x : Stands(o, x) => Stands(o, x)'
  BY <1>1, Zenon DEF Stands
<1>3. \A p : ToSet(results[p])' = ToSet(results'[p])
  BY DEF ToSet
<1>4. ASSUME NEW p \in Indices, ~IsFlag(p), Options[p].pname = "", NEW x \in ToSet(results'[p])
      PROVE  Stands(p, x)'
  BY <1>2, <1>4, Zenon DEF ResultsSaid
<1> QED BY <1>1, <1>3, <1>4, Zenon DEF ResultsSaid

LEMMA StandsAt ==
  ASSUME PlainLine, line \in Seq(DOMAIN Lexicon),
         NEW j \in DOMAIN line, IsAt(j), NEW o \in Named(Next1)
  PROVE  /\ Attached # "" => \A x \in ToSet(Items(o, Attached)) : Stands(o, x)
         /\ Attached = "" /\ j + 1 \in DOMAIN line =>
              \A x \in ToSet(Items(o, line[j + 1])) : Stands(o, x)
         /\ Options[o].many =>
              \A k \in j + 1 .. Len(line) : (\A m \in j + 2 .. k : Class(line[m]) = "word") =>
                \A x \in ToSet(Items(o, line[k])) : Stands(o, x)
<1>1. Next1 \in Naming(j, o)
  <2>1. Next1 \in Pieces(line[j])
    <3>1. CASE Next1 = line[j]
      BY <3>1 DEF Pieces
    <3>2. CASE PutBack(j)
      <4>1. Next1 = Lexicon[line[j]].pushed /\ Next1 # "" /\ \E p \in Named(line[j]) : IsFlag(p)
        BY <3>2, PutBackIsShort DEF PutBack, NamesFlag
      <4> QED BY <4>1 DEF Pieces
    <3> QED BY <3>1, <3>2 DEF IsAt
  <2> QED BY <2>1 DEF Naming
<1> DEFINE attached == {Lexicon[text].value : text \in Naming(j, o)}
           after == IF Options[o].many
                    THEN {k \in j + 1 .. Len(line) : \A m \in j + 2 .. k : Class(line[m]) = "word"}
                    ELSE {j + 1} \cap DOMAIN line
           next == IF "" \in attached \/ Options[o].many THEN {line[k] : k \in after} ELSE {}
<1>2. Attached \in attached
  BY <1>1 DEF Attached
<1>3. SaidAt(j, o) = UNION {ToSet(Items(o, text)) : text \in (attached \ {""}) \union next}
  BY Zenon DEF SaidAt
<1> HIDE DEF attached
<1>4. \A text \in (attached \ {""}) \union next : \A x \in ToSet(Items(o, text)) : Stands(o, x)
  <2> HIDE DEF next
  <2>1. ASSUME NEW text \in (attached \ {""}) \union next, NEW x \in ToSet(Items(o, text))
        PROVE  x \in SaidAt(j, o)
    BY <1>3
  <2> QED BY <1>1, <2>1 DEF Stands
<1>5. Attached # "" => \A x \in ToSet(Items(o, Attached)) : Stands(o, x)
  BY <1>2, <1>4
<1>6. ASSUME Options[o].many, NEW k \in j + 1 .. Len(line),
             \A m \in j + 2 .. k : Class(line[m]) = "word"
      PROVE  line[k] \in next
  BY <1>6
<1>7. ASSUME j + 1 \in DOMAIN line, Attached = ""
      PROVE  line[j + 1] \in next
  <2>1. CASE Options[o].many
    <3>1. j + 1 \in DOMAIN line
      BY <1>7
    <3>2. j + 1 \in j + 1 .. Len(line) /\ \A m \in j + 2 .. j + 1 : FALSE
      <4>1. Len(line) \in Nat /\ DOMAIN line = 1 .. Len(line)
        OBVIOUS
      <4> QED BY <3>1, <4>1
    <3> QED BY <1>6, <2>1, <3>2
  <2>2. CASE ~Options[o].many
    BY <1>2, <1>7, <2>2
  <2> QED BY <2>1, <2>2
<1> HIDE DEF next
<1> QED BY <1>4, <1>5, <1>6, <1>7

-------------------------------------------------------------------------------
(* The steps of the parser.                                                *)
ReadInv == LineTypes /\ Place /\ ResultsSaid

LEMMA MarkStep ==
  ASSUME PlainLine, ReadInv, ParseMark
  PROVE  ReadInv'
<1>1. LineTypes /\ Place /\ ResultsSaid /\ args # << >> /\ UNCHANGED given
  BY DEF ReadInv, ParseMark, Parsing
<1>2. PICK j \in DOMAIN line :
        /\ IsAt(j) /\ Next1 \in DOMAIN Lexicon /\ line[j] \in DOMAIN Lexicon
        /\ j \in 1 .. Len(line) /\ j + 1 \in 1 .. Len(line) + 1
  BY <1>1, ReadsAt
<1>3. Class(Next1) = "mark" /\ MoveToMissing("mark") /\ args' = Tail(args) /\ UNCHANGED results
  BY DEF ParseMark
<1>4. Next1 = line[j] /\ line[j] = "--"
  <2>1. ~PutBack(j)
    BY <1>3, PutBackIsShort
  <2>2. Lexicon[Next1].class = "mark"
    BY <1>3 DEF Class
  <2> QED BY <1>2, <2>1, <2>2, CommandLineAssumption DEF IsAt
<1>5. /\ missing' \in Seq({"mark", "long", "short", "word"} \X DOMAIN Lexicon)
      /\ LeftOver # {} => LeftOver' # {}
  BY <1>1, <1>2, <1>3, Missed
<1>6. Grows
  BY <1>1, <1>3, <1>5 DEF Grows
<1>7. prog' = prog /\ line' = line /\ Indices' = Indices
  BY <1>1, SameLine
<1>8. LineTypes'
  BY <1>1, <1>3, <1>5, <1>7 DEF LineTypes, ParseMark, Parsing
<1>9. ASSUME NEW i \in 1 .. j + 1 - 1
      PROVE  Treated(i)'
  <2>1. CASE i = j
    BY <1>4, <1>7, <2>1 DEF Treated
  <2>2. CASE i # j
    <3>1. i \in 1 .. j - 1
      BY <1>2, <2>2
    <3> QED BY <1>2, <1>6, <3>1, StaysTreated DEF IsAt
  <2> QED BY <2>1, <2>2
<1>10. Place'
  <2>1. args' = Rest(j + 1) /\ line \in Seq(DOMAIN Lexicon)
    BY <1>1, <1>2, <1>3 DEF IsAt, LineTypes
  <2> QED BY <1>2, <1>7, <1>9, <2>1, GoesOn
<1>11. ResultsSaid'
  BY <1>1, <1>3, SaidStays
<1> QED BY <1>8, <1>10, <1>11 DEF ReadInv

LEMMA UnknownStep ==
  ASSUME PlainLine, ReadInv, ParseUnknown
  PROVE  ReadInv'
<1>1. LineTypes /\ Place /\ ResultsSaid /\ args # << >> /\ UNCHANGED given
  BY DEF ReadInv, ParseUnknown, Parsing
<1>2. PICK j \in DOMAIN line :
        /\ IsAt(j) /\ Next1 \in DOMAIN Lexicon /\ line[j] \in DOMAIN Lexicon
        /\ j \in 1 .. Len(line) /\ j + 1 \in 1 .. Len(line) + 1
  BY <1>1, ReadsAt
<1>3. /\ Class(Next1) \in {"long", "short"} /\ MoveToMissing(Class(Next1))
      /\ args' = Tail(args) /\ UNCHANGED results
  BY DEF ParseUnknown, IsOption
<1>4. /\ missing' \in Seq({"mark", "long", "short", "word"} \X DOMAIN Lexicon)
      /\ LeftOver' # {}
  BY <1>1, <1>2, <1>3, Missed
<1>5. prog' = prog /\ line' = line /\ Indices' = Indices
  BY <1>1, SameLine
<1>6. LineTypes'
  BY <1>1, <1>3, <1>4, <1>5 DEF LineTypes, ParseUnknown, Parsing
<1>7. Place'
  <2>1. args' = Rest(j + 1) /\ line \in Seq(DOMAIN Lexicon)
    BY <1>1, <1>2, <1>3 DEF IsAt, LineTypes
  <2>2. \A i : Treated(i)'
    BY <1>4, LeftIsTreated
  <2> QED BY <1>2, <1>5, <2>1, <2>2, GoesOn
<1>8. ResultsSaid'
  BY <1>1, <1>3, SaidStays
<1> QED BY <1>6, <1>7, <1>8 DEF ReadInv

(* A word is the first positional argument's that wants one, or left over. *)
LEMMA PositionalStep ==
  ASSUME PlainLine, ReadInv, ParsePositional
  PROVE  ReadInv'
<1>1. LineTypes /\ Place /\ ResultsSaid /\ args # << >> /\ UNCHANGED given
  BY DEF ReadInv, ParsePositional, Parsing
<1>2. PICK j \in DOMAIN line :
        /\ IsAt(j) /\ Next1 \in DOMAIN Lexicon /\ line[j] \in DOMAIN Lexicon
        /\ j \in 1 .. Len(line) /\ j + 1 \in 1 .. Len(line) + 1
  BY <1>1, ReadsAt
<1>3. prog' = prog /\ line' = line /\ Indices' = Indices /\ args' = Tail(args) /\ UNCHANGED at
  BY <1>1, SameLine DEF ParsePositional, Parsing
<1>4. args' = Rest(j + 1) /\ line \in Seq(DOMAIN Lexicon) /\ args' \in Seq(DOMAIN Lexicon)
  BY <1>1, <1>2, <1>3 DEF IsAt, LineTypes
<1>5. Next1 = line[j]
  <2>1. ~PutBack(j)
    BY PutBackIsShort DEF ParsePositional
  <2> QED BY <1>2, <2>1 DEF IsAt
<1>6. CASE Wanting = {}
  <2>1. MoveToMissing("word") /\ UNCHANGED results
    BY <1>6 DEF ParsePositional
  <2>2. /\ missing' \in Seq({"mark", "long", "short", "word"} \X DOMAIN Lexicon)
        /\ LeftOver' # {}
    BY <1>1, <1>2, <2>1, Missed
  <2>3. LineTypes'
    BY <1>1, <1>3, <1>4, <2>1, <2>2 DEF LineTypes
  <2>4. \A i : Treated(i)'
    BY <2>2, LeftIsTreated
  <2>5. Place'
    BY <1>2, <1>3, <1>4, <2>4, GoesOn
  <2>6. ResultsSaid'
    BY <1>1, <2>1, SaidStays
  <2> QED BY <2>3, <2>5, <2>6 DEF ReadInv
<1>7. CASE Wanting # {}
  <2> DEFINE o == Min(Wanting)
  <2>1. Give(o, <<Next1>>) /\ UNCHANGED missing
    BY <1>7 DEF ParsePositional
  <2>2. o \in Wanting
    <3>1. Wanting \subseteq Nat
      BY <1>1, IndicesAreNumbers DEF Wanting, LineTypes
    <3> QED BY <1>7, <3>1, Lowest
  <2> HIDE DEF o
  <2>3. o \in Indices /\ Options[o].pname # ""
    BY <2>2 DEF Wanting
  <2> DEFINE texts == <<Next1>>
  <2>4. texts \in Seq(DOMAIN Lexicon) /\ texts # << >> /\ DOMAIN texts = {1} /\ texts[1] = Next1
    BY <1>2
  <2>5. Give(o, texts)
    BY <2>1
  <2> HIDE DEF texts
  <2>6. /\ results' \in [Indices -> Seq(DOMAIN Lexicon)]
        /\ \A p \in Indices : results[p] # << >> => results'[p] # << >>
        /\ \A p \in Indices : ToSet(results[p]) \subseteq ToSet(results'[p])
        /\ \A i \in DOMAIN texts : ToSet(Items(o, texts[i])) \subseteq ToSet(results'[o])
        /\ \A p \in Indices : \A x \in ToSet(results'[p]) : x \in ToSet(results[p]) \/ p = o
    BY <1>1, <2>3, <2>4, <2>5, GivenIsAdded
  <2>7. Grows
    BY <1>1, <2>1, <2>6 DEF Grows, LeftOver
  <2>8. LineTypes'
    BY <1>1, <1>3, <1>4, <2>1, <2>6 DEF LineTypes
  <2>9. ASSUME NEW i \in 1 .. j + 1 - 1
        PROVE  Treated(i)'
    <3>1. CASE i = j
      <4>1. ToSet(Items(o, line[i])) \subseteq ToSet(results'[o])
        BY <1>5, <2>4, <2>6, <3>1
      <4> QED BY <1>1, <2>3, <4>1, ItemsAreTreated
    <3>2. CASE i # j
      <4>1. i \in 1 .. j - 1
        BY <1>2, <3>2
      <4> QED BY <1>2, <2>7, <4>1, StaysTreated DEF IsAt
    <3> QED BY <3>1, <3>2
  <2>10. Place'
    BY <1>2, <1>3, <1>4, <2>9, GoesOn
  <2>11. ResultsSaid'
    BY <1>1, <2>3, <2>6, SaidStays
  <2> QED BY <2>8, <2>10, <2>11 DEF ReadInv
<1> QED BY <1>6, <1>7

(* A flag takes what is attached to its long name, and what follows its    *)
(* short one is read next.                                                 *)
LEMMA FlagStep ==
  ASSUME PlainLine, ReadInv, ParseFlag
  PROVE  ReadInv'
<1>1. LineTypes /\ Place /\ ResultsSaid /\ args # << >> /\ UNCHANGED given
  BY DEF ReadInv, ParseFlag, Parsing
<1>2. PICK j \in DOMAIN line :
        /\ IsAt(j) /\ Next1 \in DOMAIN Lexicon /\ line[j] \in DOMAIN Lexicon
        /\ j \in 1 .. Len(line) /\ j + 1 \in 1 .. Len(line) + 1
  BY <1>1, ReadsAt
<1> DEFINE text  == IF Class(Next1) = "long" /\ Attached # "" THEN Attached ELSE "true"
           texts == <<text>>
<1>3. PICK o \in Named(Next1) : IsFlag(o) /\ Give(o, texts)
  BY DEF ParseFlag
<1>4. o \in Indices
  BY <1>1, OwnNames DEF LineTypes
<1>5. texts \in Seq(DOMAIN Lexicon) /\ texts # << >>
  <2>1. text \in DOMAIN Lexicon
    BY <1>2, CommandLineAssumption DEF Attached
  <2> HIDE DEF text
  <2> QED BY <2>1
<1> HIDE DEF texts
<1>6. /\ results' \in [Indices -> Seq(DOMAIN Lexicon)]
      /\ results'[o] # << >>
      /\ \A p \in Indices : results[p] # << >> => results'[p] # << >>
      /\ \A p \in Indices : ToSet(results[p]) \subseteq ToSet(results'[p])
      /\ \A p \in Indices : \A x \in ToSet(results'[p]) : x \in ToSet(results[p]) \/ p = o
  BY <1>1, <1>3, <1>4, <1>5, GivenIsAdded
<1>7. /\ prog' = prog /\ line' = line /\ Indices' = Indices /\ UNCHANGED <<at, missing, positional_only>>
      /\ ~positional_only /\ Class(Next1) \in {"long", "short"} /\ args' = PushBack \o Tail(args)
  BY <1>1, SameLine DEF ParseFlag, Parsing, IsOption
<1>8. Grows
  BY <1>1, <1>6, <1>7 DEF Grows, LeftOver
<1>9. line \in Seq(DOMAIN Lexicon) /\ Tail(args) = Rest(j + 1) /\ Tail(args) \in Seq(DOMAIN Lexicon)
  BY <1>1, <1>2 DEF IsAt, LineTypes
<1>10. ResultsSaid'
  BY <1>1, <1>3, <1>6, SaidStays
<1>11. NamesFlag(Next1)
  BY <1>3 DEF NamesFlag
<1>12. \A i \in 1 .. j - 1 : Treated(i)'
  BY <1>2, <1>8, StaysTreated DEF IsAt
<1>13. CASE PushBack = << >>
  <2>1. args' = Rest(j + 1) /\ args' \in Seq(DOMAIN Lexicon)
    BY <1>7, <1>9, <1>13
  <2>2. LineTypes'
    BY <1>1, <1>6, <1>7, <2>1 DEF LineTypes
  <2>3. Next1 = line[j] => Lexicon[line[j]].pushed = ""
    <3>1. ~(Class(Next1) = "short" /\ Attached # "")
      <4>1. <<Lexicon[Next1].pushed>> # << >>
        OBVIOUS
      <4> QED BY <1>13, <4>1 DEF PushBack
    <3>2. Lexicon[Next1].class = "short" => Class(Next1) = "short"
      BY <1>7 DEF Class
    <3> QED BY <1>2, <3>1, <3>2, CommandLineAssumption DEF Attached
  <2>4. Treated(j)'
    BY <1>2, <1>6, <1>8, <2>3, NamedIsTreated
  <2>5. \A i \in 1 .. j + 1 - 1 : Treated(i)'
    <3>1. \A i \in 1 .. j + 1 - 1 : i = j \/ i \in 1 .. j - 1
      BY <1>2
    <3> QED BY <1>12, <2>4, <3>1, Zenon
  <2>6. Place'
    <3>1. /\ line \in Seq(DOMAIN Lexicon) /\ UNCHANGED line
          /\ j + 1 \in 1 .. Len(line) + 1 /\ args' = Rest(j + 1)
      BY <1>2, <1>7, <1>9, <2>1
    <3> QED BY <2>5, <3>1, GoesOn
  <2> QED BY <1>10, <2>2, <2>6 DEF ReadInv
<1>14. CASE PushBack # << >>
  <2> DEFINE pushed == Lexicon[Next1].pushed
  <2>1. Class(Next1) = "short" /\ Attached # "" /\ PushBack = <<pushed>>
    BY <1>14 DEF PushBack
  <2>2. Next1 = line[j] /\ ~PutBack(j)
    BY <1>2, <1>11, <2>1, PutBackIsShort DEF IsAt
  <2>3. pushed \in DOMAIN Lexicon
    <3>1. pushed # ""
      BY <1>11, <2>1, <2>2 DEF PlainLine, PlainToken, Attached
    <3> QED BY <1>2, <3>1, CommandLineAssumption
  <2> HIDE DEF pushed
  <2>4. /\ args' \in Seq(DOMAIN Lexicon) /\ args' # << >> /\ Head(args') = pushed
        /\ Tail(args') = Tail(args)
    <3> DEFINE t == Tail(args)
    <3>1. args' = <<pushed>> \o t /\ t \in Seq(DOMAIN Lexicon)
      BY <1>7, <1>9, <2>1
    <3> HIDE DEF t
    <3>2. args' \in Seq(DOMAIN Lexicon) /\ args' # << >> /\ Head(args') = pushed /\ Tail(args') = t
      BY <2>3, <3>1
    <3> QED BY <3>2 DEF t
  <2>5. LineTypes'
    BY <1>1, <1>6, <1>7, <2>4 DEF LineTypes
  <2>6. /\ Named(line[j])' = Named(line[j]) /\ NamesFlag(line[j])' = NamesFlag(line[j])
        /\ Class(line[j])' = Class(line[j]) /\ Rest(j + 1)' = Rest(j + 1)
    BY <1>1, SameLine, Zenon
  <2>7. PutBack(j)'
    BY <1>3, <1>6, <1>7, <1>11, <2>1, <2>2, <2>4, <2>6 DEF PutBack, Next1, Attached, pushed
  <2>8. IsAt(j)'
    BY <1>9, <1>12, <2>4, <2>6, <2>7 DEF IsAt
  <2>9. Place'
    BY <1>7, <2>8 DEF Place
  <2> QED BY <1>10, <2>5, <2>9 DEF ReadInv
<1> QED BY <1>13, <1>14

(* An option takes what is attached to it or the next token, and a vector  *)
(* the words after it with a "--" that ends them.                          *)
LEMMA OptionStep ==
  ASSUME PlainLine, ReadInv, ParseOption
  PROVE  \/ ReadInv' /\ UNCHANGED <<pc, outcome>>
         \/ pc' = "exit" /\ LineTypes' /\ ResultsSaid'
<1>1. LineTypes /\ Place /\ ResultsSaid /\ args # << >> /\ UNCHANGED given
  BY DEF ReadInv, ParseOption, Parsing
<1>2. PICK j \in DOMAIN line :
        /\ IsAt(j) /\ Next1 \in DOMAIN Lexicon /\ line[j] \in DOMAIN Lexicon
        /\ j \in 1 .. Len(line) /\ j + 1 \in 1 .. Len(line) + 1
  BY <1>1, ReadsAt
<1> DEFINE more(o) == IF Options[o].many THEN Words(AfterFirst) ELSE 0
           rest(o) == SubSeq(AfterFirst, more(o) + 1, Len(AfterFirst))
<1>3. PICK o \in Named(Next1) :
        /\ ~IsFlag(o)
        /\ IF FirstValue = << >>
           THEN pc' = "exit" /\ args' = << >> /\ UNCHANGED results
           ELSE /\ Give(o, FirstValue \o SubSeq(AfterFirst, 1, more(o)))
                /\ args' = IF Options[o].many THEN MarkEaten(rest(o)) ELSE rest(o)
                /\ UNCHANGED <<pc, outcome>>
  BY DEF ParseOption
<1> HIDE DEF more, rest
<1>4. o \in Indices
  BY <1>1, OwnNames DEF LineTypes
<1>5. /\ prog' = prog /\ line' = line /\ Indices' = Indices
      /\ UNCHANGED <<at, missing, positional_only>>
  BY <1>1, SameLine DEF ParseOption, Parsing
<1>6. /\ line \in Seq(DOMAIN Lexicon) /\ Len(line) \in Nat /\ DOMAIN line = 1 .. Len(line)
      /\ args \in Seq(DOMAIN Lexicon) /\ Tail(args) = Rest(j + 1)
  BY <1>1, <1>2 DEF IsAt, LineTypes
<1>7. CASE FirstValue = << >>
  <2>1. pc' = "exit" /\ args' = << >> /\ UNCHANGED results
    BY <1>3, <1>7
  <2>2. LineTypes'
    <3>1. << >> \in Seq(DOMAIN Lexicon)
      OBVIOUS
    <3> QED BY <1>1, <1>5, <2>1, <3>1 DEF LineTypes
  <2>3. ResultsSaid'
    BY <1>1, <2>1, SaidStays
  <2> QED BY <2>1, <2>2, <2>3
<1>8. CASE FirstValue # << >>
  <2> DEFINE own == Attached # ""
             second(base) == base = j + 2 /\ j + 1 \in DOMAIN line
  <2>1. PICK base \in 1 .. Len(line) + 1, first \in DOMAIN Lexicon :
          /\ base = j + 1 \/ second(base)
          /\ base = j + 1 => own /\ first = Attached
          /\ base # j + 1 => ~own /\ first = line[j + 1]
          /\ AfterFirst = Rest(base) /\ FirstValue = <<first>>
    <3>1. CASE own
      <4>1. FirstValue = <<Attached>> /\ AfterFirst = Tail(args)
        BY <3>1 DEF FirstValue, AfterFirst
      <4>2. Attached \in DOMAIN Lexicon
        BY <1>2, <3>1, CommandLineAssumption DEF Attached
      <4> HIDE DEF own
      <4> QED BY <1>2, <1>6, <3>1, <4>1, <4>2
    <3>2. CASE ~own
      <4>1. Len(args) > 1 /\ FirstValue = <<args[2]>> /\ AfterFirst = Tail(Tail(args))
        BY <1>8, <3>2 DEF FirstValue, AfterFirst
      <4> HIDE DEF own
      <4> DEFINE t == Tail(args)
      <4>2. t \in Seq(DOMAIN Lexicon) /\ t # << >> /\ Head(t) = args[2]
        <5>1. /\ t \in Seq(DOMAIN Lexicon) /\ Len(t) = Len(args) - 1
              /\ \A i \in 1 .. Len(t) : t[i] = args[i + 1]
          BY <1>1, <1>6, HeadTailProperties
        <5>2. Len(args) \in Nat
          BY <1>6
        <5> HIDE DEF t
        <5>3. Len(t) # 0 /\ t[1] = args[2]
          BY <4>1, <5>1, <5>2
        <5> QED BY <5>1, <5>3
      <4>3. t = Rest(j + 1)
        BY <1>6
      <4> HIDE DEF t
      <4>4. j + 1 # Len(line) + 1
        BY <1>2, <1>6, <4>2, <4>3, RestFacts
      <4>5. j + 1 \in 1 .. Len(line) /\ j + 2 \in 1 .. Len(line) + 1 /\ j + 1 + 1 = j + 2
        BY <1>2, <1>6, <4>4
      <4>6. Head(Rest(j + 1)) = line[j + 1] /\ Tail(Rest(j + 1)) = Rest(j + 1 + 1)
        <5>1. j + 1 \in 1 .. Len(line) + 1 /\ j + 1 <= Len(line)
          BY <1>6, <4>5
        <5> QED BY <1>6, <5>1, RestFacts
      <4>7. args[2] = line[j + 1] /\ AfterFirst = Rest(j + 2) /\ line[j + 1] \in DOMAIN Lexicon
        <5>1. args[2] = line[j + 1]
          BY <4>2, <4>3, <4>6, Zenon
        <5>2. AfterFirst = Rest(j + 2)
          BY <4>1, <4>3, <4>5, <4>6, Zenon DEF t
        <5>3. line[j + 1] \in DOMAIN Lexicon
          BY <1>6, <4>5
        <5> QED BY <5>1, <5>2, <5>3
      <4>8. j + 2 # j + 1 /\ second(j + 2)
        BY <1>2, <1>6, <4>5
      <4> QED BY <3>2, <4>1, <4>5, <4>7, <4>8, Zenon
    <3> QED BY <3>1, <3>2
  <2> HIDE DEF own
  <2> DEFINE after == AfterFirst
             n == more(o)
             taken == SubSeq(after, 1, n)
             texts == FirstValue \o taken
  <2>2. /\ after \in Seq(DOMAIN Lexicon) /\ Len(after) = Len(line) - base + 1
        /\ \A i \in 1 .. Len(line) - base + 1 : after[i] = line[base + i - 1]
        /\ \A q \in 0 .. Len(line) - base + 1 : SubSeq(after, q + 1, Len(after)) = Rest(base + q)
    BY <1>6, <2>1, RestFacts
  <2>3. /\ n \in 0 .. Len(after) /\ \A i \in 1 .. n : Options[o].many /\ Class(after[i]) = "word"
        /\ rest(o) = SubSeq(after, n + 1, Len(after))
    <3>1. Len(after) \in Nat
      BY <1>6, <2>2
    <3>2. CASE Options[o].many
      <4>1. n = Words(after)
        BY <3>2 DEF more
      <4> HIDE DEF after, n
      <4>2. n \in 0 .. Len(after) /\ \A i \in 1 .. n : Class(after[i]) = "word"
        BY <2>2, <4>1, WordsFacts
      <4> QED BY <3>2, <4>2 DEF rest, after, n
    <3>3. CASE ~Options[o].many
      <4>1. n = 0
        BY <3>3 DEF more
      <4> HIDE DEF after, n
      <4>2. n \in 0 .. Len(after) /\ \A i \in 1 .. n : FALSE
        BY <3>1, <4>1
      <4> QED BY <4>2 DEF rest, after, n
    <3> QED BY <3>2, <3>3
  <2>4. /\ Len(after) = Len(line) - base + 1 /\ n \in Nat /\ n <= Len(after)
        /\ base + n \in 1 .. Len(line) + 1 /\ j \in Nat /\ base \in {j + 1, j + 2}
    <3>1. Len(after) = Len(line) - base + 1 /\ n \in 0 .. Len(after)
      BY <2>2, <2>3
    <3> HIDE DEF after, n
    <3>2. base \in {j + 1, j + 2} /\ j \in Nat
      BY <1>2, <1>6, <2>1
    <3> QED BY <1>6, <3>1, <3>2
  <2>5. /\ taken \in Seq(DOMAIN Lexicon) /\ Len(taken) = n
        /\ \A i \in 1 .. n : taken[i] = line[base + i - 1]
    <3> HIDE DEF after, n
    <3>1. taken = [i \in 1 .. n |-> after[i]]
      BY <2>2, <2>4
    <3>2. \A i \in 1 .. n : i \in 1 .. Len(line) - base + 1 /\ i \in 1 .. Len(after)
      BY <1>6, <2>4
    <3>3. \A i \in 1 .. n : after[i] = line[base + i - 1] /\ after[i] \in DOMAIN Lexicon
      BY <2>2, <3>2
    <3> HIDE DEF taken
    <3> QED BY <2>4, <3>1, <3>3
  <2> HIDE DEF taken
  <2>6. /\ texts \in Seq(DOMAIN Lexicon) /\ texts # << >> /\ DOMAIN texts = 1 .. n + 1
        /\ texts[1] = first
        /\ \A i \in 1 .. n : texts[i + 1] = line[base + i - 1]
    <3> DEFINE one == <<first>>
    <3>1. one \in Seq(DOMAIN Lexicon) /\ Len(one) = 1 /\ one[1] = first
      OBVIOUS
    <3>2. texts = one \o taken
      BY <2>1
    <3> HIDE DEF texts, one, n
    <3>3. /\ texts \in Seq(DOMAIN Lexicon) /\ Len(texts) = 1 + n /\ DOMAIN texts = 1 .. 1 + n
          /\ texts[1] = first /\ \A i \in 1 .. n : texts[1 + i] = taken[i]
      <4>1. taken \in Seq(DOMAIN Lexicon) /\ Len(taken) = n /\ n \in Nat
        BY <2>4, <2>5
      <4>2. /\ texts \in Seq(DOMAIN Lexicon) /\ Len(texts) = Len(one) + Len(taken)
            /\ \A i \in 1 .. Len(one) + Len(taken) :
                 texts[i] = IF i <= Len(one) THEN one[i] ELSE taken[i - Len(one)]
        BY <3>1, <3>2, <4>1, ConcatProperties
      <4>3. DOMAIN texts = 1 .. Len(texts)
        BY <4>2
      <4>4. 1 \in 1 .. 1 + n /\ \A i \in 1 .. n : 1 + i \in 1 .. 1 + n /\ 1 + i - 1 = i /\ ~(1 + i <= 1)
        BY <4>1
      <4> QED BY <3>1, <4>1, <4>2, <4>3, <4>4
    <3>4. Len(texts) # 0 /\ 1 + n = n + 1 /\ \A i \in 1 .. n : 1 + i = i + 1
      BY <2>4, <3>3
    <3>5. texts # << >>
      BY <3>3, <3>4
    <3> QED BY <2>5, <3>3, <3>4, <3>5
  <2> HIDE DEF texts
  <2>7. Give(o, texts) /\ UNCHANGED <<pc, outcome>>
    BY <1>3, <1>8 DEF texts, taken, n
  <2>8. /\ results' \in [Indices -> Seq(DOMAIN Lexicon)]
        /\ results'[o] # << >>
        /\ \A p \in Indices : results[p] # << >> => results'[p] # << >>
        /\ \A p \in Indices : ToSet(results[p]) \subseteq ToSet(results'[p])
        /\ \A i \in DOMAIN texts : ToSet(Items(o, texts[i])) \subseteq ToSet(results'[o])
        /\ \A p \in Indices : \A x \in ToSet(results'[p]) :
             \/ x \in ToSet(results[p])
             \/ p = o /\ \E i \in DOMAIN texts : x \in ToSet(Items(o, texts[i]))
    BY <1>1, <1>4, <2>6, <2>7, GivenIsAdded
  <2>9. Grows
    BY <1>1, <1>5, <2>8 DEF Grows, LeftOver
  <2> DEFINE b == base + n
  <2>10. PICK m \in 1 .. Len(line) + 1 :
           /\ args' = Rest(m) /\ Rest(m) \in Seq(DOMAIN Lexicon)
           /\ \A i \in b .. m - 1 : i \in DOMAIN line /\ line[i] = "--"
    <3>1. rest(o) = Rest(b) /\ b \in 1 .. Len(line) + 1
      <4> HIDE DEF after, n
      <4>1. n \in 0 .. Len(line) - base + 1 /\ b \in 1 .. Len(line) + 1
        BY <1>6, <2>4
      <4> QED BY <2>2, <2>3, <4>1
    <3>2. args' = IF Options[o].many THEN MarkEaten(Rest(b)) ELSE Rest(b)
      BY <1>3, <1>8, <3>1
    <3> HIDE DEF b
    <3>3. Rest(b) \in Seq(DOMAIN Lexicon) /\ \A i \in b .. b - 1 : FALSE
      BY <1>6, <3>1, RestFacts
    <3>4. CASE args' = Rest(b)
      BY <3>1, <3>3, <3>4
    <3>5. CASE args' # Rest(b)
      <4>1. Rest(b) # << >> /\ Class(Head(Rest(b))) = "mark" /\ args' = Tail(Rest(b))
        BY <3>2, <3>5 DEF MarkEaten
      <4>2. b <= Len(line) /\ Head(Rest(b)) = line[b] /\ Tail(Rest(b)) = Rest(b + 1)
        <5>1. Rest(b) # << >>
          BY <4>1
        <5>2. b = Len(line) + 1 \/ b <= Len(line)
          BY <1>6, <3>1
        <5> QED BY <1>6, <3>1, <5>1, <5>2, RestFacts
      <4>3. b + 1 \in 1 .. Len(line) + 1 /\ b \in DOMAIN line /\ b \in Nat
        BY <1>6, <3>1, <4>2
      <4>4. line[b] = "--"
        <5>1. Lexicon[line[b]].class = "mark"
          BY <4>1, <4>2 DEF Class
        <5>2. line[b] \in DOMAIN Lexicon
          BY <1>6, <4>3
        <5> QED BY <5>1, <5>2, CommandLineAssumption
      <4>5. Rest(b + 1) \in Seq(DOMAIN Lexicon)
        BY <1>6, <4>3, RestFacts
      <4> DEFINE m == b + 1
      <4>6. /\ m \in 1 .. Len(line) + 1 /\ args' = Rest(m) /\ Rest(m) \in Seq(DOMAIN Lexicon)
            /\ \A i \in b .. m - 1 : i \in DOMAIN line /\ line[i] = "--"
        <5>1. ASSUME NEW i \in b .. m - 1
              PROVE  i \in DOMAIN line /\ line[i] = "--"
          <6>1. i = b
            BY <4>3
          <6> QED BY <4>3, <4>4, <6>1, Zenon
        <5>2. m \in 1 .. Len(line) + 1 /\ args' = Rest(m) /\ Rest(m) \in Seq(DOMAIN Lexicon)
          BY <4>1, <4>2, <4>3, <4>5
        <5> QED BY <5>1, <5>2, Zenon
      <4> HIDE DEF m
      <4> QED BY <4>6, Zenon
    <3> QED BY <3>4, <3>5
  <2> HIDE DEF after, n
  <2>11. Treated(j)'
    BY <1>2, <1>3, <2>8, <2>9, NamedIsTreated
  <2>12. ASSUME NEW i \in 1 .. m - 1
         PROVE  Treated(i)'
    <3>1. CASE i < j
      <4>1. i \in 1 .. j - 1
        BY <1>6, <2>4, <2>10, <3>1
      <4> QED BY <1>2, <2>9, <4>1, StaysTreated DEF IsAt
    <3>2. CASE i = j
      BY <2>11, <3>2
    <3>3. CASE i > j /\ i < b
      <4>1. \E k \in DOMAIN texts : texts[k] = line[i]
        <5>1. CASE i < base
          <6>1. i = j + 1 /\ base = j + 2 /\ 1 \in 1 .. n + 1
            BY <1>6, <2>4, <2>10, <3>3, <5>1
          <6>2. base # j + 1
            BY <2>4, <6>1
          <6>3. first = line[i]
            BY <2>1, <6>1, <6>2, Zenon
          <6> QED BY <2>6, <6>1, <6>3, Zenon
        <5>2. CASE i >= base
          <6> DEFINE k == i - base + 1
          <6>1. k \in 1 .. n /\ base + k - 1 = i /\ k + 1 \in 1 .. n + 1
            BY <1>6, <2>4, <2>10, <3>3, <5>2
          <6> HIDE DEF k
          <6>2. texts[k + 1] = line[i]
            BY <2>6, <6>1
          <6> QED BY <2>6, <6>1, <6>2
        <5>3. i < base \/ i >= base
          BY <1>6, <2>4, <2>10
        <5> QED BY <5>1, <5>2, <5>3
      <4>2. ToSet(Items(o, line[i])) \subseteq ToSet(results'[o])
        BY <2>8, <4>1
      <4> QED BY <1>1, <1>4, <4>2, ItemsAreTreated
    <3>4. CASE i >= b
      <4>1. i \in b .. m - 1
        BY <1>6, <2>4, <2>10, <3>4
      <4>2. line'[i] = "--"
        BY <1>5, <2>10, <4>1
      <4> QED BY <4>2 DEF Treated
    <3>5. i < j \/ i = j \/ (i > j /\ i < b) \/ i >= b
      BY <1>6, <2>4, <2>10
    <3> QED BY <3>1, <3>2, <3>3, <3>4, <3>5, Zenon
  <2>13. Place'
    BY <1>5, <1>6, <2>10, <2>12, GoesOn
  <2>14. LineTypes'
    BY <1>1, <1>5, <2>8, <2>10 DEF LineTypes
  <2>15. ASSUME NEW i \in DOMAIN texts, NEW x \in ToSet(Items(o, texts[i]))
         PROVE  Stands(o, x)
    <3>1. CASE i = 1
      <4>1. texts[i] = first
        BY <2>6, <3>1
      <4>2. CASE base = j + 1
        <5>1. x \in ToSet(Items(o, Attached)) /\ Attached # ""
          BY <2>1, <4>1, <4>2 DEF own
        <5> QED BY <1>2, <1>6, <5>1, StandsAt
      <4>3. CASE base # j + 1
        <5>1. x \in ToSet(Items(o, line[j + 1])) /\ Attached = "" /\ j + 1 \in DOMAIN line
          BY <2>1, <4>1, <4>3, Zenon DEF own
        <5> QED BY <1>2, <1>6, <5>1, StandsAt
      <4> QED BY <4>2, <4>3
    <3>2. CASE i # 1
      <4> DEFINE q == i - 1
                 k == base + q - 1
      <4>1. q \in 1 .. n /\ q + 1 = i
        <5>1. i \in 1 .. n + 1
          BY <2>6
        <5> QED BY <2>4, <3>2, <5>1
      <4> HIDE DEF q
      <4>2. texts[i] = line[k] /\ Options[o].many
        BY <2>3, <2>6, <4>1
      <4>3. k \in j + 1 .. Len(line)
        BY <1>6, <2>4, <4>1
      <4>4. ASSUME NEW p \in j + 2 .. k
            PROVE  Class(line[p]) = "word"
        <5> DEFINE r == p - base + 1
        <5>1. r \in 1 .. n /\ r \in 1 .. Len(line) - base + 1 /\ base + r - 1 = p
          BY <1>6, <2>4, <4>1
        <5> HIDE DEF r
        <5>2. Class(after[r]) = "word" /\ after[r] = line[p]
          BY <2>2, <2>3, <5>1
        <5> QED BY <5>2
      <4> HIDE DEF k
      <4>5. x \in ToSet(Items(o, line[k]))
        BY <2>15, <4>2
      <4> QED BY <1>2, <1>6, <4>2, <4>3, <4>4, <4>5, StandsAt
    <3> QED BY <3>1, <3>2
  <2>16. ResultsSaid'
    BY <1>1, <2>8, <2>15, SaidStays
  <2> QED BY <2>7, <2>13, <2>14, <2>16 DEF ReadInv
<1> QED BY <1>7, <1>8

-------------------------------------------------------------------------------
(* The parser begins at the first token, with nothing given.               *)
Fresh ==
  /\ prog \in Programs /\ line \in Seq(DOMAIN Lexicon)
  /\ pc = "parse" /\ args = line /\ missing = << >> /\ at = 1
  /\ results = [o \in Indices |-> << >>]

LEMMA FreshLine == Fresh => LineInv
<1> SUFFICES ASSUME Fresh PROVE LineInv
  OBVIOUS
<1>1. /\ prog \in Programs /\ line \in Seq(DOMAIN Lexicon) /\ args = line /\ at = 1 /\ pc = "parse"
      /\ missing = << >> /\ results = [o \in Indices |-> << >>]
  BY DEF Fresh
<1>2. << >> \in Seq(DOMAIN Lexicon) /\ ToSet(<< >>) = {}
      /\ << >> \in Seq({"mark", "long", "short", "word"} \X DOMAIN Lexicon)
  BY DEF ToSet
<1>3. results \in [Indices -> Seq(DOMAIN Lexicon)] /\ \A o \in Indices : results[o] = << >>
  BY <1>1, <1>2
<1>4. LineTypes
  BY <1>1, <1>2, <1>3 DEF LineTypes
<1>5. Looked
  BY <1>1 DEF Looked
<1>6. ResultsSaid
  BY <1>2, <1>3 DEF ResultsSaid
<1>7. Place
  <2>1. CASE line = << >>
    <3>1. DOMAIN line = {}
      BY <2>1
    <3> QED BY <1>1, <2>1, <3>1 DEF Place
  <2>2. CASE line # << >>
    <3>1. 1 \in DOMAIN line /\ 1 \in 1 .. Len(line) + 1 /\ 1 <= Len(line) /\ \A i \in 1 .. 1 - 1 : FALSE
      BY <1>1, <2>2
    <3>2. Rest(1) = line
      BY <1>1, SubSeqFull DEF Rest
    <3>3. Head(Rest(1)) = line[1] /\ Tail(Rest(1)) = Rest(1 + 1)
      BY <1>1, <3>1, RestFacts
    <3>4. IsAt(1)
      BY <1>1, <2>2, <3>1, <3>2, <3>3 DEF IsAt, Next1
    <3> QED BY <3>1, <3>4 DEF Place
  <2> QED BY <2>1, <2>2
<1> QED BY <1>4, <1>5, <1>6, <1>7 DEF LineInv

(* What does not read leaves the place and the results.                    *)
LEMMA Unread ==
  ASSUME LineTypes, ResultsSaid, UNCHANGED <<given, args, positional_only, results, missing>>
  PROVE  /\ at' \in Nat \ {0} => LineTypes'
         /\ ResultsSaid'
         /\ Place => Place'
         /\ LeftOver' = LeftOver /\ Indices' = Indices
         /\ \A o : Reduces(o)' = Reduces(o)
<1>1. /\ UNCHANGED given /\ prog' = prog /\ line' = line /\ Indices' = Indices /\ Options' = Options
      /\ \A o : IsFlag(o)' = IsFlag(o)
      /\ \A text : /\ Named(text)' = Named(text) /\ NamesFlag(text)' = NamesFlag(text)
                   /\ Class(text)' = Class(text)
      /\ \A j : Rest(j)' = Rest(j)
  <2>1. UNCHANGED given
    OBVIOUS
  <2> QED BY <2>1, SameLine, Zenon
<1>2. at' \in Nat \ {0} => LineTypes'
  BY <1>1 DEF LineTypes
<1>3. LeftOver' = LeftOver
  BY DEF LeftOver
<1>4. ResultsSaid'
  BY <1>1, SaidStays
<1>5. \A o : Reduces(o)' = Reduces(o)
  BY <1>1 DEF Reduces
<1>6. ASSUME Place
      PROVE  Place'
  <2>1. Grows
    BY <1>1, <1>3 DEF Grows
  <2>2. CASE args = << >> /\ \A i \in DOMAIN line : Treated(i)
    <3>1. \A i \in DOMAIN line : Treated(i)'
      BY <2>1, <2>2, StaysTreated
    <3> QED BY <1>1, <2>2, <3>1 DEF Place
  <2>3. ASSUME NEW j \in DOMAIN line, IsAt(j)
        PROVE  IsAt(j)'
    <3>1. PutBack(j) => PutBack(j)'
      BY <1>1, Zenon DEF PutBack, Next1
    <3>2. \A i \in 1 .. j - 1 : Treated(i)'
      BY <2>1, <2>3, StaysTreated DEF IsAt
    <3>3. args' # << >> /\ Tail(args') = Rest(j + 1)' /\ (Next1' = line'[j] \/ PutBack(j)')
      BY <1>1, <2>3, <3>1 DEF IsAt, Next1
    <3> QED BY <3>2, <3>3 DEF IsAt
  <2> QED BY <1>1, <1>6, <2>2, <2>3 DEF Place
<1> QED BY <1>1, <1>2, <1>3, <1>4, <1>5, <1>6

(* The program stays where it is, ends, or begins its work.                *)
LEMMA Stays ==
  ASSUME LineInv, UNCHANGED <<given, args, positional_only, results, missing, at>>,
         pc' \in {pc, "exit"} \/ (pc = "parsed" /\ pc' = "work")
  PROVE  LineInv'
<1>1. LineTypes /\ ResultsSaid /\ UNCHANGED <<given, args, positional_only, results, missing>>
  BY DEF LineInv
<1>2. /\ LineTypes' /\ ResultsSaid' /\ (Place => Place') /\ LeftOver' = LeftOver /\ Indices' = Indices
      /\ \A o : Reduces(o)' = Reduces(o)
  <2>1. at' \in Nat \ {0}
    BY <1>1 DEF LineTypes
  <2> QED BY <1>1, <2>1, Unread
<1>3. ToRun' = ToRun
  BY <1>2 DEF ToRun
<1>4. Looked'
  <2>1. CASE pc' = pc
    BY <1>2, <1>3, <2>1 DEF LineInv, Looked
  <2>2. CASE pc' \in {"exit", "work"}
    BY <2>2 DEF Looked
  <2> QED BY <2>1, <2>2
<1>5. pc' # "exit" => Place'
  BY <1>2 DEF LineInv
<1> QED BY <1>2, <1>4, <1>5 DEF LineInv

(* A step of the parser, then of the callbacks.                            *)
LEMMA ReadingStep ==
  ASSUME PlainLine, LineInv,
         ParseMark \/ ParseFlag \/ ParseOption \/ ParseUnknown \/ ParsePositional
  PROVE  LineInv'
<1>1. pc = "parse" /\ UNCHANGED at /\ ReadInv /\ at = 1
  BY DEF LineInv, Looked, ReadInv, ParseMark, ParseFlag, ParseOption, ParseUnknown, ParsePositional,
         Parsing
<1>2. \/ ReadInv' /\ pc' = "parse"
      \/ pc' = "exit" /\ LineTypes' /\ ResultsSaid'
  <2>1. CASE ParseMark
    BY <1>1, <2>1, MarkStep DEF ParseMark
  <2>2. CASE ParseFlag
    BY <1>1, <2>2, FlagStep DEF ParseFlag
  <2>3. CASE ParseOption
    BY <1>1, <2>3, OptionStep
  <2>4. CASE ParseUnknown
    BY <1>1, <2>4, UnknownStep DEF ParseUnknown
  <2>5. CASE ParsePositional
    BY <1>1, <2>5, PositionalStep DEF ParsePositional
  <2> QED BY <2>1, <2>2, <2>3, <2>4, <2>5
<1>3. Looked'
  BY <1>1, <1>2 DEF Looked
<1> QED BY <1>2, <1>3 DEF LineInv, ReadInv

LEMMA EndStep ==
  ASSUME LineInv, EndOfLine
  PROVE  LineInv'
<1>1. /\ LineTypes /\ ResultsSaid /\ Place /\ pc = "parse" /\ args = << >> /\ at = 1
      /\ UNCHANGED <<given, args, positional_only, results, missing, at>> /\ pc' = "callbacks"
  BY DEF LineInv, Looked, EndOfLine
<1>2. LineTypes' /\ ResultsSaid' /\ Place' /\ Indices' = Indices
  BY <1>1, Unread DEF LineTypes
<1>3. \A o \in Indices : ~(o < 1)
  BY <1>1, IndicesAreNumbers DEF LineTypes
<1>4. Looked'
  BY <1>1, <1>2, <1>3 DEF Looked
<1> QED BY <1>2, <1>4 DEF LineInv

LEMMA CallbackStep ==
  ASSUME LineInv, RunCallback
  PROVE  LineInv'
<1>1. /\ LineTypes /\ ResultsSaid /\ Place /\ pc = "callbacks" /\ args = << >>
      /\ \A p \in Indices : p < at /\ results[p] # << >> => Reduces(p)
      /\ UNCHANGED <<given, args, positional_only, results, missing>>
  BY DEF LineInv, Looked, RunCallback
<1>2. PICK o \in ToRun :
        /\ \A other \in ToRun : o <= other
        /\ \/ pc' = "exit" /\ UNCHANGED at
           \/ Reduces(o) /\ at' = o + 1 /\ UNCHANGED pc
  BY Zenon DEF RunCallback, Fails
<1>3. Indices \subseteq Nat \ {0} /\ o \in Indices /\ at \in Nat \ {0}
  BY <1>1, <1>2, IndicesAreNumbers DEF LineTypes, ToRun
<1>4. CASE pc' = "exit" /\ UNCHANGED at
  BY <1>1, <1>4, Stays
<1>5. CASE Reduces(o) /\ at' = o + 1 /\ UNCHANGED pc
  <2>1. at' \in Nat \ {0}
    BY <1>3, <1>5
  <2>2. LineTypes' /\ ResultsSaid' /\ Place' /\ Indices' = Indices /\ \A p : Reduces(p)' = Reduces(p)
    BY <1>1, <2>1, Unread
  <2>3. ASSUME NEW p \in Indices, p < o + 1, results[p] # << >>
        PROVE  Reduces(p)
    <3>1. CASE p < at
      BY <1>1, <2>3, <3>1
    <3>2. CASE p >= at
      <4>1. p \in ToRun
        BY <2>3, <3>2 DEF ToRun
      <4>2. p = o
        BY <1>2, <1>3, <2>3, <4>1
      <4> QED BY <1>5, <4>2
    <3> QED BY <1>3, <3>1, <3>2
  <2>4. Looked'
    BY <1>1, <1>5, <2>2, <2>3 DEF Looked
  <2> QED BY <2>2, <2>4 DEF LineInv
<1> QED BY <1>2, <1>4, <1>5

LEMMA EndOfCallbacksStep ==
  ASSUME LineInv, EndOfCallbacks
  PROVE  LineInv'
<1>1. /\ LineTypes /\ ResultsSaid /\ Place /\ pc = "callbacks" /\ args = << >> /\ ToRun = {}
      /\ \A p \in Indices : p < at /\ results[p] # << >> => Reduces(p)
      /\ UNCHANGED <<given, args, positional_only, results, missing>>
  BY DEF LineInv, Looked, EndOfCallbacks
<1>2. UNCHANGED at /\ (pc' = "exit" \/ (pc' = "parsed" /\ LeftOver = {}))
  BY Zenon DEF EndOfCallbacks, Fails
<1>3. CASE pc' = "exit"
  BY <1>1, <1>2, <1>3, Stays
<1>4. CASE pc' = "parsed" /\ LeftOver = {}
  <2>1. /\ LineTypes' /\ ResultsSaid' /\ Place' /\ Indices' = Indices /\ LeftOver' = {}
        /\ \A p : Reduces(p)' = Reduces(p)
    <3>1. at' \in Nat \ {0}
      BY <1>1, <1>2 DEF LineTypes
    <3> QED BY <1>1, <1>4, <3>1, Unread
  <2>2. ToRun' = {}
    BY <1>1, <1>2, <2>1 DEF ToRun
  <2>3. Looked'
    BY <1>1, <1>2, <1>4, <2>1, <2>2 DEF Looked
  <2> QED BY <2>1, <2>3 DEF LineInv
<1> QED BY <1>2, <1>3, <1>4

LEMMA AgainStep ==
  ASSUME LineInv, ParseAgain
  PROVE  Fresh'
<1>1. LineTypes /\ UNCHANGED given
  BY DEF LineInv, ParseAgain
<1>2. prog' = prog /\ line' = line /\ Indices' = Indices
  BY <1>1, SameLine
<1> QED BY <1>1, <1>2 DEF Fresh, ParseAgain, LineTypes

(* The reading of a plain line: what is behind the parser is dealt with,   *)
(* what an option was given stands at its name, and the callbacks have     *)
(* looked at all before them.                                              *)
LineInvariant == PlainLine => LineInv

LEMMA LineKept ==
  ASSUME LineInvariant, [Next]_<<vars, requestVars>>
  PROVE  \/ LineInvariant'
         \/ Fresh'
<1>1. UNCHANGED given
  BY DEF Next, Parse, Work, Done, Clear, Send, Refuse, Finish, vars, ParseMark, ParseFlag, ParseOption,
         ParseUnknown, ParsePositional, Parsing, EndOfLine, RunCallback, EndOfCallbacks, ParseAgain,
         Parsed, given
<1>2. PlainLine' = PlainLine
  BY <1>1, SameLine, Zenon
<1>3. SUFFICES ASSUME PlainLine, LineInv
               PROVE  LineInv' \/ Fresh'
  BY <1>2 DEF LineInvariant
<1>4. CASE ParseMark \/ ParseFlag \/ ParseOption \/ ParseUnknown \/ ParsePositional
  BY <1>3, <1>4, ReadingStep
<1>5. CASE EndOfLine
  BY <1>3, <1>5, EndStep
<1>6. CASE RunCallback
  BY <1>3, <1>6, CallbackStep
<1>7. CASE EndOfCallbacks
  BY <1>3, <1>7, EndOfCallbacksStep
<1>8. CASE ParseAgain
  BY <1>3, <1>8, AgainStep
<1>9. CASE Parsed \/ Work \/ Done \/ UNCHANGED <<vars, requestVars>>
  <2>1. /\ UNCHANGED <<given, args, positional_only, results, missing, at>>
        /\ pc' \in {pc, "exit"} \/ (pc = "parsed" /\ pc' = "work")
    BY <1>1, <1>9 DEF Parsed, Work, Clear, Send, Refuse, Finish, Done, vars
  <2> QED BY <1>3, <2>1, Stays
<1> QED BY <1>4, <1>5, <1>6, <1>7, <1>8, <1>9 DEF Next, Parse

THEOREM LineInvariance == Spec => []LineInvariant
<1>1. RequestInit => Fresh
  <2> SUFFICES ASSUME NEW c \in CommandLines, Start(c[1], c[2])
               PROVE  Fresh
    BY DEF RequestInit, Init
  <2>1. c[1] \in Programs /\ c[2] \in Seq(DOMAIN Lexicon)
    BY CommandLineAssumption
  <2> QED BY <2>1 DEF Fresh, Start, Indices, Options
<1>2. Fresh => LineInvariant
  BY FreshLine DEF LineInvariant
<1>3. LineInvariant /\ [Next]_<<vars, requestVars>> => LineInvariant' \/ Fresh'
  BY LineKept
<1> QED BY <1>1, <1>2, <1>3, PTL DEF Spec

(* With no callback left to run the parser is past every option given.     *)
LEMMA AllRun ==
  ASSUME LineTypes, ToRun = {}, NEW o \in Indices, results[o] # << >>
  PROVE  o < at
<1>1. ~(o >= at)
  BY Zenon DEF ToRun
<1>2. o \in Nat /\ at \in Nat
  BY IndicesAreNumbers DEF LineTypes
<1> QED BY <1>1, <1>2

(* ReadAsWritten: of a plain line that is accepted, every option has the   *)
(* values that stand at its name.                                          *)
THEOREM ReadAsWrittenEver == Spec => [](PlainLine => ReadAsWritten)
<1>1. LineInvariant => (PlainLine => ReadAsWritten)
  <2> SUFFICES ASSUME LineInv, Accepted, NEW o \in Indices, ~IsFlag(o), Options[o].pname = "",
                      results[o] # << >>
               PROVE  /\ Options[o].many \/ Len(results[o]) = 1
                      /\ \A i \in DOMAIN results[o] : \E j \in DOMAIN line :
                           Naming(j, o) # {} /\ results[o][i] \in SaidAt(j, o)
    BY Zenon DEF LineInvariant, ReadAsWritten
  <2>1. /\ ToRun = {} /\ LineTypes /\ ResultsSaid
        /\ \A p \in Indices : p < at /\ results[p] # << >> => Reduces(p)
    BY DEF LineInv, Looked, Accepted
  <2>2. Options[o].many \/ Len(results[o]) = 1
    BY <2>1, AllRun DEF Reduces
  <2>3. ASSUME NEW i \in DOMAIN results[o]
        PROVE  \E j \in DOMAIN line : Naming(j, o) # {} /\ results[o][i] \in SaidAt(j, o)
    <3>1. results[o][i] \in ToSet(results[o])
      BY DEF ToSet
    <3> QED BY <2>1, <3>1 DEF ResultsSaid, Stands
  <2> QED BY <2>2, <2>3
<1> QED BY <1>1, LineInvariance, PTL

(* NothingIgnored: no token of a plain line that is accepted is passed     *)
(* over.                                                                   *)
THEOREM NothingIgnoredEver == Spec => [](PlainLine => NothingIgnored)
<1>1. LineInvariant => (PlainLine => NothingIgnored)
  <2> SUFFICES ASSUME LineInv, Accepted
               PROVE  \A i \in DOMAIN line :
                        \/ line[i] = "--"
                        \/ \A text \in Pieces(line[i]) : \E o \in Named(text) : results[o] # << >>
                        \/ \E o \in Indices : ToSet(Items(o, line[i])) \subseteq ToSet(results[o])
    BY Zenon DEF LineInvariant, NothingIgnored
  <2>1. args = << >> /\ LeftOver = {} /\ Place
    BY DEF LineInv, Looked, Accepted
  <2>2. \A i \in DOMAIN line : Treated(i)
    BY <2>1 DEF Place, IsAt
  <2> QED BY <2>1, <2>2, Zenon DEF Treated
<1> QED BY <1>1, LineInvariance, PTL

-------------------------------------------------------------------------------
(* The codes of --pls-modes.  FoldLeft is a recursive function on the sets *)
(* of positions; that it exists is shown for longer and longer lists.      *)
IsFold(E, c, n, iter) ==
  iter = [s \in SUBSET (1 .. n) |->
            IF s = {} THEN c ELSE TakeEntry(iter[s \ {Max(s)}], E[Max(s)])]

(* A set of positions has a greatest.                                      *)
LEMMA Highest ==
  ASSUME NEW n \in Nat, NEW s \in SUBSET (1 .. n), s # {}
  PROVE  Max(s) \in s /\ \A y \in s : Max(s) >= y
<1> DEFINE Above == {k \in Nat : \A y \in s : k >= y}
<1>1. n \in Above
  OBVIOUS
<1>2. PICK x \in Above : \A y \in Above : x <= y
  <2>1. Above \subseteq Nat /\ Above # {}
    BY <1>1
  <2> HIDE DEF Above
  <2> QED BY <2>1, LeastNumber
<1>3. x \in s
  <2>1. SUFFICES ASSUME x \notin s PROVE FALSE
    OBVIOUS
  <2>2. \A y \in s : y \in Nat /\ y >= 1 /\ x >= y /\ x # y
    BY <1>2, <2>1
  <2>3. x \in Nat /\ x - 1 \in Nat
    <3>1. PICK y \in s : TRUE
      OBVIOUS
    <3>2. y \in Nat /\ y >= 1 /\ x >= y /\ x # y
      BY <2>2, <3>1
    <3>3. x \in Nat
      BY <1>2
    <3> QED BY <3>2, <3>3
  <2>4. \A y \in s : x - 1 >= y
    BY <2>2, <2>3
  <2>5. x - 1 \in Above
    BY <2>3, <2>4
  <2>6. x <= x - 1
    <3> HIDE DEF Above
    <3> QED BY <1>2, <2>5
  <2> QED BY <2>3, <2>6
<1>4. \E y \in s : \A z \in s : y >= z
  BY <1>2, <1>3
<1> QED BY <1>4 DEF Max

(* The fold over the positions up to n exists.                             *)
LEMMA FoldExists ==
  ASSUME NEW E, NEW c, NEW n \in Nat
  PROVE  \E iter : IsFold(E, c, n, iter)
<1> DEFINE Good(m) == \E iter : IsFold(E, c, m, iter)
           Bad == {m \in Nat : ~Good(m)}
<1>1. Good(0)
  <2> DEFINE iter == [s \in SUBSET (1 .. 0) |-> c]
  <2>1. \A s \in SUBSET (1 .. 0) : s = {}
    OBVIOUS
  <2>2. iter = [s \in SUBSET (1 .. 0) |->
                  IF s = {} THEN c ELSE TakeEntry(iter[s \ {Max(s)}], E[Max(s)])]
    BY <2>1, Zenon
  <2> HIDE DEF iter
  <2> QED BY <2>2, Zenon DEF IsFold
<1>2. ASSUME NEW m \in Nat, Good(m)
      PROVE  Good(m + 1)
  <2>1. PICK iter : IsFold(E, c, m, iter)
    BY <1>2
  <2> DEFINE k == m + 1
             more == [s \in SUBSET (1 .. k) |->
                        IF k \in s THEN TakeEntry(iter[s \ {k}], E[k]) ELSE iter[s]]
  <2>2. \A s \in SUBSET (1 .. k) : s \ {k} \in SUBSET (1 .. m) /\ (k \notin s => s \in SUBSET (1 .. m))
    <3>1. \A x \in 1 .. k : x # k => x \in 1 .. m
      BY <1>2
    <3> QED BY <3>1
  <2>3. k \in Nat /\ \A x \in 1 .. k : k >= x /\ x \in Nat
    BY <1>2
  <2> HIDE DEF k
  <2>4. ASSUME NEW s \in SUBSET (1 .. k)
        PROVE  more[s] = IF s = {} THEN c ELSE TakeEntry(more[s \ {Max(s)}], E[Max(s)])
    <3>1. CASE k \in s
      <4>1. Max(s) \in s /\ Max(s) >= k
        BY <2>3, <3>1, Highest
      <4>2. Max(s) = k
        <5>1. Max(s) \in 1 .. k
          BY <4>1
        <5>2. k >= Max(s) /\ Max(s) \in Nat
          BY <2>3, <5>1
        <5> QED BY <2>3, <4>1, <5>2
      <4>3. more[s] = TakeEntry(iter[s \ {k}], E[k]) /\ more[s \ {k}] = iter[s \ {k}]
        BY <3>1
      <4> HIDE DEF more
      <4> QED BY <3>1, <4>2, <4>3
    <3>2. CASE k \notin s
      <4>1. more[s] = iter[s] /\ \A x : more[s \ {x}] = iter[s \ {x}]
        BY <3>2
      <4>2. iter[s] = IF s = {} THEN c ELSE TakeEntry(iter[s \ {Max(s)}], E[Max(s)])
        BY <2>1, <2>2, <3>2, Zenon DEF IsFold
      <4> HIDE DEF more
      <4> QED BY <4>1, <4>2, Zenon
    <3> QED BY <3>1, <3>2
  <2>5. more = [s \in SUBSET (1 .. k) |-> more[s]]
    BY Zenon
  <2> HIDE DEF more
  <2>6. IsFold(E, c, k, more)
    BY <2>4, <2>5, Zenon DEF IsFold
  <2> QED BY <2>6 DEF k
<1>3. Bad = {}
  <2>1. SUFFICES ASSUME Bad # {}
                 PROVE  FALSE
    OBVIOUS
  <2>2. PICK x \in Bad : \A y \in Bad : x <= y
    <3>1. Bad \subseteq Nat
      OBVIOUS
    <3> HIDE DEF Bad
    <3> QED BY <2>1, <3>1, LeastNumber
  <2> HIDE DEF Good
  <2>3. x # 0
    BY <1>1
  <2>4. x - 1 \in Nat /\ x - 1 \notin Bad
    BY <2>2, <2>3
  <2>5. Good(x - 1)
    BY <2>4
  <2>6. Good(x - 1 + 1)
    BY <1>2, <2>4, <2>5
  <2>7. x - 1 + 1 = x
    OBVIOUS
  <2> QED BY <2>6, <2>7
<1> QED BY <1>3

(* Entry by entry.                                                         *)
LEMMA EntryByEntry ==
  ASSUME NEW E, NEW n \in Nat, DOMAIN E = 1 .. n, NEW c
  PROVE  \E codes : /\ parse_pls(c, E) = codes[n] /\ codes[0] = c
                    /\ \A k \in 1 .. n : codes[k] = TakeEntry(codes[k - 1], E[k])
<1> DEFINE iter == CHOOSE i : IsFold(E, c, n, i)
           codes == [k \in 0 .. n |-> iter[1 .. k]]
<1>1. IsFold(E, c, n, iter)
  BY FoldExists
<1>2. parse_pls(c, E) = iter[1 .. n]
  BY Zenon DEF parse_pls, FoldLeft, MapThenFoldSet, IsFold
<1> HIDE DEF iter
<1>3. \A s \in SUBSET (1 .. n) :
        iter[s] = IF s = {} THEN c ELSE TakeEntry(iter[s \ {Max(s)}], E[Max(s)])
  BY <1>1, Zenon DEF IsFold
<1>4. codes[0] = c
  <2>1. 1 .. 0 = {} /\ 0 \in 0 .. n /\ {} \in SUBSET (1 .. n)
    OBVIOUS
  <2> QED BY <1>3, <2>1, Zenon
<1>5. ASSUME NEW k \in 1 .. n
      PROVE  codes[k] = TakeEntry(codes[k - 1], E[k])
  <2> DEFINE s == 1 .. k
  <2>1. s \in SUBSET (1 .. n) /\ s # {} /\ k \in s /\ k \in Nat /\ \A y \in s : y \in Nat /\ k >= y
    <3>1. k \in s /\ k \in Nat /\ \A y \in s : y \in Nat /\ k >= y
      OBVIOUS
    <3>2. s \in SUBSET (1 .. n)
      OBVIOUS
    <3> HIDE DEF s
    <3> QED BY <3>1, <3>2
  <2>2. s \ {k} = 1 .. k - 1 /\ k \in 0 .. n /\ k - 1 \in 0 .. n
    OBVIOUS
  <2>3. Max(s) = k
    <3> HIDE DEF s
    <3>1. Max(s) \in s /\ \A y \in s : Max(s) >= y
      BY <2>1, Highest, Zenon
    <3> DEFINE m == Max(s)
    <3>2. m \in Nat /\ k >= m /\ m >= k
      BY <2>1, <3>1, Zenon
    <3> HIDE DEF m
    <3>3. m = k
      BY <2>1, <3>2
    <3> QED BY <3>3 DEF m
  <2>4. codes[k] = iter[s] /\ codes[k - 1] = iter[s \ {k}]
    BY <2>2, Zenon
  <2> HIDE DEF s, codes
  <2> QED BY <1>3, <2>1, <2>3, <2>4, Zenon
<1>6. codes[n] = iter[1 .. n]
  <2>1. n \in 0 .. n
    OBVIOUS
  <2> QED BY <2>1, Zenon
<1> HIDE DEF codes
<1> QED BY <1>2, <1>4, <1>5, <1>6

(* Listing the same entries twice makes no difference: the last that       *)
(* matches decides, and without one the list stays.                        *)
LEMMA PlsAgain ==
  ASSUME NEW E, NEW n \in Nat, DOMAIN E = 1 .. n, NEW c
  PROVE  parse_pls(parse_pls(c, E), E) = parse_pls(c, E)
<1> DEFINE d == parse_pls(c, E)
<1>1. PICK a : /\ d = a[n] /\ a[0] = c
               /\ \A k \in 1 .. n : a[k] = TakeEntry(a[k - 1], E[k])
  <2>1. PICK codes : /\ parse_pls(c, E) = codes[n] /\ codes[0] = c
                     /\ \A k \in 1 .. n : codes[k] = TakeEntry(codes[k - 1], E[k])
    BY EntryByEntry
  <2> QED BY <2>1
<1> HIDE DEF d
<1>2. PICK b : /\ parse_pls(d, E) = b[n] /\ b[0] = d
               /\ \A k \in 1 .. n : b[k] = TakeEntry(b[k - 1], E[k])
  BY EntryByEntry
<1> DEFINE Same(k) == a[k] = b[k] \/ (a[k] = c /\ b[k] = d)
           Bad == {k \in Nat : k \in 0 .. n /\ ~Same(k)}
<1>3. Bad = {}
  <2>1. SUFFICES ASSUME Bad # {}
                 PROVE  FALSE
    OBVIOUS
  <2>2. PICK x \in Bad : \A y \in Bad : x <= y
    <3>1. Bad \subseteq Nat
      OBVIOUS
    <3> HIDE DEF Bad
    <3> QED BY <2>1, <3>1, LeastNumber
  <2>3. x # 0
    BY <1>1, <1>2
  <2>4. x \in 1 .. n /\ x - 1 \in 0 .. n /\ x - 1 \in Nat /\ x - 1 \notin Bad
    <3> HIDE DEF Same
    <3> QED BY <2>2, <2>3
  <2>5. Same(x - 1)
    BY <2>4
  <2>6. a[x] = TakeEntry(a[x - 1], E[x]) /\ b[x] = TakeEntry(b[x - 1], E[x])
    BY <1>1, <1>2, <2>4
  <2>7. Same(x)
    BY <2>5, <2>6 DEF TakeEntry
  <2> QED BY <2>7
<1>4. n \in Nat /\ n \in 0 .. n
  OBVIOUS
<1>5. Same(n)
  BY <1>3, <1>4
<1> QED BY <1>1, <1>2, <1>5 DEF d
-------------------------------------------------------------------------------
(* Completing the frequency range twice makes no difference, whichever of  *)
(* its ends were completed.                                                *)
LEMMA RangeAgain ==
  ASSUME NEW sys, NEW lnb, NEW start \in Int, NEW end \in Int,
         NEW s \in {start, ScanRange(sys, lnb, start, end)[1]},
         NEW e \in {end, ScanRange(sys, lnb, start, end)[2]}
  PROVE  ScanRange(sys, lnb, s, e) = ScanRange(sys, lnb, start, end)
<1> DEFINE other == sys = "other"
           wide == Wideband(sys, lnb)
           low == IF sys # "sat" THEN 40000 ELSE IF lnb = "C_LNB" THEN 3400000 ELSE 10700000
           high == IF sys = "terrestrial" THEN 1002000
                   ELSE IF sys = "cable" THEN 900000
                   ELSE IF lnb = "C_LNB" THEN 4200000 ELSE 12750000
           first(x) == IF other \/ (x >= 0 /\ ~wide) THEN x ELSE low
           last(x) == IF other \/ x >= 0 \/ wide THEN x ELSE high
           range(x, y) == <<first(x), IF last(y) < first(x) THEN first(x) + 1 ELSE last(y)>>
<1>1. /\ \A x, y : ScanRange(sys, lnb, x, y) = range(x, y)
      /\ low \in Nat /\ high \in Nat
  BY DEF ScanRange, StartFreq, EndFreq
<1> HIDE DEF other, wide, low, high
<1>2. s \in {start, first(start)}
  BY <1>1
<1>3. e \in {end, IF last(end) < first(start) THEN first(start) + 1 ELSE last(end)}
  BY <1>1
<1>4. first(s) = first(start)
  BY <1>1, <1>2
<1>5. first(start) \in Int /\ last(end) \in Int /\ (~other => first(start) >= 0)
  BY <1>1
<1>6. /\ (IF last(e) < first(start) THEN first(start) + 1 ELSE last(e))
           = IF last(end) < first(start) THEN first(start) + 1 ELSE last(end)
  BY <1>1, <1>3, <1>5
<1>7. range(s, e) = range(start, end)
  BY <1>4, <1>6
<1> HIDE DEF range
<1> QED BY <1>1, <1>7

(* What WithCodes makes of options.                                        *)
LEMMA WithCodesIs ==
  ASSUME NEW o, NEW D, o = [v \in D |-> o[v]], NEW E
  PROVE  WithCodes(o, E) =
           [v \in D |-> CASE v = "lnb_type" -> (IF o["freq"] < 4800000 THEN 4 ELSE o["lnb_type"])
                          [] v = "pls_codes" -> parse_pls(o["pls_codes"], E)
                          [] OTHER -> o[v]]
<1> DEFINE l == IF o["freq"] < 4800000 THEN 4 ELSE o["lnb_type"]
           w == WithLnb(o)
<1>1. w = [v \in D |-> IF v = "lnb_type" THEN l ELSE o[v]]
  BY SMT DEF WithLnb
<1>2. WithCodes(o, E) = [w EXCEPT !["pls_codes"] = parse_pls(w["pls_codes"], E)]
  BY SMT DEF WithCodes
<1> HIDE DEF l, w
<1>3. "pls_codes" \in D => w["pls_codes"] = o["pls_codes"]
  BY <1>1, SMT
<1>4. WithCodes(o, E)
        = [v \in D |-> CASE v = "lnb_type" -> l
                        [] v = "pls_codes" -> parse_pls(o["pls_codes"], E)
                        [] OTHER -> o[v]]
  BY <1>1, <1>2, <1>3, SMT
<1> QED BY <1>4, SMT DEF l

(* Neither does it to complete options that have been completed before,    *)
(* with those given set again: y takes each member from s, or from what s  *)
(* was completed to.                                                       *)
LEMMA CompletedTwice ==
  ASSUME NEW s, NEW y, NEW E, NEW n \in Nat, DOMAIN E = 1 .. n,
         s = [v \in DOMAIN s |-> s[v]], y = [v \in DOMAIN s |-> y[v]],
         RangeMembers \subseteq DOMAIN s, s["start_freq"] \in Int, s["end_freq"] \in Int,
         \A v \in DOMAIN s : y[v] \in {s[v], WithRange(WithCodes(s, E))[v]}
  PROVE  WithRange(WithCodes(y, E)) = WithRange(WithCodes(s, E))
<1> DEFINE D == DOMAIN s
           lnb(o) == IF o["freq"] < 4800000 THEN 4 ELSE o["lnb_type"]
           range(o) == ScanRange(SystemClass(o["delivery_system"]), LnbNameOf(lnb(o)),
                                 o["start_freq"], o["end_freq"])
           done(o) == [v \in D |->
                         CASE v = "lnb_type" -> lnb(o)
                           [] v = "pls_codes" -> parse_pls(o["pls_codes"], E)
                           [] v = "start_freq" -> range(o)[1]
                           [] v = "end_freq" -> range(o)[2]
                           [] OTHER -> o[v]]
<1>1. ASSUME NEW o, o = [v \in D |-> o[v]]
      PROVE  WithRange(WithCodes(o, E)) = done(o)
  <2> DEFINE w == WithCodes(o, E)
  <2>1. w = [v \in D |-> CASE v = "lnb_type" -> lnb(o)
                            [] v = "pls_codes" -> parse_pls(o["pls_codes"], E)
                            [] OTHER -> o[v]]
    BY <1>1, WithCodesIs, SMT
  <2>2. /\ w["lnb_type"] = lnb(o) /\ w["delivery_system"] = o["delivery_system"]
        /\ w["start_freq"] = o["start_freq"] /\ w["end_freq"] = o["end_freq"]
    BY <2>1 DEF RangeMembers
  <2> HIDE DEF w, lnb
  <2>3. WithRange(w) = [w EXCEPT !["start_freq"] = range(o)[1], !["end_freq"] = range(o)[2]]
    BY <2>2 DEF WithRange
  <2> HIDE DEF range
  <2>4. WithRange(w) = done(o)
    BY <2>1, <2>3
  <2> QED BY <2>4 DEF w
<1>2. WithRange(WithCodes(s, E)) = done(s) /\ WithRange(WithCodes(y, E)) = done(y)
  BY <1>1
<1> DEFINE x == done(s)
<1>3. /\ x["lnb_type"] = lnb(s) /\ x["pls_codes"] = parse_pls(s["pls_codes"], E)
      /\ x["start_freq"] = range(s)[1] /\ x["end_freq"] = range(s)[2]
      /\ \A v \in D : v \notin {"lnb_type", "pls_codes", "start_freq", "end_freq"} => x[v] = s[v]
  <2> HIDE DEF lnb, range
  <2> QED BY DEF RangeMembers
<1>4. \A v \in D : y[v] \in {s[v], x[v]}
  BY <1>2
<1> HIDE DEF x
<1>5. y["freq"] = s["freq"] /\ y["delivery_system"] = s["delivery_system"]
  BY <1>3, <1>4 DEF RangeMembers
<1>6. lnb(y) = lnb(s)
  <2>1. y["lnb_type"] \in {s["lnb_type"], lnb(s)}
    <3> HIDE DEF lnb
    <3> QED BY <1>3, <1>4 DEF RangeMembers
  <2> QED BY <1>5, <2>1
<1>7. parse_pls(y["pls_codes"], E) = parse_pls(s["pls_codes"], E)
  <2>1. y["pls_codes"] \in {s["pls_codes"], parse_pls(s["pls_codes"], E)}
    BY <1>3, <1>4 DEF RangeMembers
  <2> QED BY <2>1, PlsAgain
<1>8. range(y) = range(s)
  <2> HIDE DEF lnb
  <2> DEFINE sys == SystemClass(s["delivery_system"])
             name == LnbNameOf(lnb(s))
  <2>1. range(s) = ScanRange(sys, name, s["start_freq"], s["end_freq"])
    OBVIOUS
  <2>2. range(y) = ScanRange(sys, name, y["start_freq"], y["end_freq"])
    BY <1>5, <1>6, Zenon
  <2>3. y["start_freq"] \in {s["start_freq"], range(s)[1]} /\ y["end_freq"] \in {s["end_freq"], range(s)[2]}
    <3> HIDE DEF range
    <3> QED BY <1>3, <1>4 DEF RangeMembers
  <2> HIDE DEF sys, name
  <2>4. s["start_freq"] \in Int /\ s["end_freq"] \in Int
    OBVIOUS
  <2> DEFINE a == s["start_freq"]
             b == s["end_freq"]
             c == y["start_freq"]
             d == y["end_freq"]
  <2>5. /\ a \in Int /\ b \in Int
        /\ c \in {a, ScanRange(sys, name, a, b)[1]} /\ d \in {b, ScanRange(sys, name, a, b)[2]}
    BY <2>1, <2>3, <2>4
  <2> HIDE DEF a, b, c, d, range
  <2>6. ScanRange(sys, name, c, d) = ScanRange(sys, name, a, b)
    BY <2>5, RangeAgain
  <2> QED BY <2>1, <2>2, <2>6 DEF a, b, c, d
<1>9. done(y) = done(s)
  <2>1. \A v \in D : v \notin {"lnb_type", "pls_codes", "start_freq", "end_freq"} => y[v] = s[v]
    BY <1>3, <1>4
  <2> HIDE DEF lnb, range
  <2> QED BY <1>6, <1>7, <1>8, <2>1
<1> QED BY <1>2, <1>9

-------------------------------------------------------------------------------
(* The parser is deterministic: what it does next follows from the tokens, *)
(* whether they are positional only, and the results so far.               *)
Chosen(a) == CHOOSE o \in Named(Head(a)) : TRUE
FirstOf(a) ==
  IF Lexicon[Head(a)].value # "" THEN <<Lexicon[Head(a)].value>>
  ELSE IF Len(a) > 1 THEN <<a[2]>> ELSE << >>
BehindFirst(a) == IF Lexicon[Head(a)].value # "" THEN Tail(a) ELSE Tail(Tail(a))
MoreOf(a, o) == IF Options[o].many THEN Words(BehindFirst(a)) ELSE 0
RestOf(a, o) == SubSeq(BehindFirst(a), MoreOf(a, o) + 1, Len(BehindFirst(a)))

FlagText(a) ==
  IF Class(Head(a)) = "long" /\ Lexicon[Head(a)].value # "" THEN Lexicon[Head(a)].value ELSE "true"
PushedBack(a) ==
  IF Class(Head(a)) = "short" /\ Lexicon[Head(a)].value # "" THEN <<Lexicon[Head(a)].pushed>> ELSE << >>

TextsFor(a, o) ==
  IF IsFlag(o) THEN <<FlagText(a)>> ELSE FirstOf(a) \o SubSeq(BehindFirst(a), 1, MoreOf(a, o))
ArgsBehind(a, o) ==
  IF IsFlag(o) THEN PushedBack(a) \o Tail(a)
  ELSE IF Options[o].many THEN MarkEaten(RestOf(a, o)) ELSE RestOf(a, o)

WantingOf(r) == {o \in Indices : Options[o].pname # "" /\ (Options[o].many \/ r[o] = << >>)}
AddedTo(r, o, texts) == [r EXCEPT ![o] = @ \o ItemsOf(o, texts)]

IsWord(a, only)  == only \/ Class(Head(a)) = "word"
NamesOne(a, only) == ~IsWord(a, only) /\ Named(Head(a)) # {}

NextOnly(a, only) == only \/ Class(Head(a)) = "mark"
NextArgs(a, only) == IF NamesOne(a, only) THEN ArgsBehind(a, Chosen(a)) ELSE Tail(a)
NextResults(a, only, r) ==
  IF NamesOne(a, only) THEN AddedTo(r, Chosen(a), TextsFor(a, Chosen(a)))
  ELSE IF IsWord(a, only) /\ WantingOf(r) # {} THEN AddedTo(r, Min(WantingOf(r)), <<Head(a)>>)
  ELSE r

Config(a, only, r) == [args |-> a, only |-> only, res |-> r]
After(c) ==
  Config(NextArgs(c.args, c.only), NextOnly(c.args, c.only), NextResults(c.args, c.only, c.res))
Cur == Config(args, positional_only, results)

(* What comes next of where the parser is.                                 *)
LEMMA AfterCur ==
  After(Cur) = Config(NextArgs(args, positional_only), NextOnly(args, positional_only),
                      NextResults(args, positional_only, results))
BY DEF After, Cur, Config

(* Only names of options name one.                                         *)
LEMMA ClassOfMark == ASSUME NEW text PROVE Class(text) \notin {"long", "short"} => Named(text) = {}
BY DEF Named

(* The option a token names is the one chosen, since no two share a name.  *)
LEMMA ChosenIs ==
  ASSUME prog \in Programs, NEW o \in Named(Next1)
  PROVE  Chosen(args) = o /\ o \in Indices
<1>1. Chosen(args) \in Named(Next1)
  BY Zenon DEF Chosen, Next1
<1> QED BY <1>1, OwnNames

(* Every action of the parser that reads a token is this step, unless it ends *)
(* the program.                                                            *)
LEMMA ReadingIsAfter ==
  ASSUME prog \in Programs, positional_only \in BOOLEAN,
         ParseMark \/ ParseFlag \/ ParseOption \/ ParseUnknown \/ ParsePositional
  PROVE  pc' = "exit" \/ Cur' = After(Cur)
<1>1. SUFFICES ASSUME pc' # "exit"
               PROVE  /\ args' = NextArgs(args, positional_only)
                      /\ positional_only' = NextOnly(args, positional_only)
                      /\ results' = NextResults(args, positional_only, results)
  BY AfterCur, Zenon DEF Cur
<1>2. CASE ParseMark
  <2>1. /\ ~positional_only /\ Class(Head(args)) = "mark" /\ positional_only' = TRUE
        /\ args' = Tail(args) /\ results' = results
    BY <1>2 DEF ParseMark, Next1
  <2>2. ~NamesOne(args, positional_only) /\ ~IsWord(args, positional_only)
    BY <2>1, ClassOfMark DEF NamesOne, IsWord
  <2> QED BY <2>1, <2>2, Zenon DEF NextArgs, NextOnly, NextResults
<1>3. CASE ParseUnknown
  <2>1. /\ ~positional_only /\ Class(Head(args)) \in {"long", "short"} /\ Named(Head(args)) = {}
        /\ positional_only' = positional_only /\ args' = Tail(args) /\ results' = results
    BY <1>3 DEF ParseUnknown, Next1, IsOption
  <2>2. ~NamesOne(args, positional_only) /\ ~IsWord(args, positional_only)
    BY <2>1 DEF NamesOne, IsWord
  <2>3. NextOnly(args, positional_only) = positional_only
    BY <2>1 DEF NextOnly
  <2> QED BY <2>1, <2>2, <2>3, Zenon DEF NextArgs, NextResults
<1>4. CASE ParsePositional
  <2>1. /\ positional_only \/ Class(Head(args)) = "word"
        /\ positional_only' = positional_only /\ args' = Tail(args)
    BY <1>4 DEF ParsePositional, Next1
  <2>2. ~NamesOne(args, positional_only) /\ IsWord(args, positional_only)
    BY <2>1 DEF NamesOne, IsWord
  <2>3. NextOnly(args, positional_only) = positional_only
    BY <2>1 DEF NextOnly
  <2>4. WantingOf(results) = Wanting
    BY Zenon DEF WantingOf, Wanting
  <2>5. results' = IF Wanting # {} THEN AddedTo(results, Min(Wanting), <<Head(args)>>) ELSE results
    BY <1>4, Zenon DEF ParsePositional, Give, AddedTo, Next1
  <2> QED BY <2>1, <2>2, <2>3, <2>4, <2>5, Zenon DEF NextArgs, NextResults
<1>5. CASE ParseFlag
  <2>1. /\ ~positional_only /\ Class(Head(args)) \in {"long", "short"}
        /\ positional_only' = positional_only
    BY <1>5 DEF ParseFlag, Next1, IsOption
  <2>2. PICK o \in Named(Next1) : IsFlag(o) /\ Give(o, <<FlagText(args)>>)
    BY <1>5, Zenon DEF ParseFlag, FlagText, Next1, Attached
  <2>3. Chosen(args) = o
    BY <2>2, ChosenIs
  <2>4. NamesOne(args, positional_only) /\ NextOnly(args, positional_only) = positional_only
    BY <2>1, <2>2 DEF NamesOne, IsWord, NextOnly, Next1
  <2>5. args' = PushedBack(args) \o Tail(args)
    BY <1>5, Zenon DEF ParseFlag, PushBack, PushedBack, Next1, Attached
  <2>6. args' = ArgsBehind(args, o) /\ results' = AddedTo(results, o, TextsFor(args, o))
    BY <2>2, <2>5, Zenon DEF ArgsBehind, TextsFor, Give, AddedTo
  <2> QED BY <2>1, <2>3, <2>4, <2>6, Zenon DEF NextArgs, NextResults
<1>6. CASE ParseOption
  <2>1. /\ ~positional_only /\ Class(Head(args)) \in {"long", "short"}
        /\ positional_only' = positional_only
    BY <1>6 DEF ParseOption, Next1, IsOption
  <2>2. FirstOf(args) = FirstValue /\ BehindFirst(args) = AfterFirst
    BY Zenon DEF FirstOf, FirstValue, BehindFirst, AfterFirst, Attached, Next1
  <2>3. PICK o \in Named(Next1) :
          /\ ~IsFlag(o)
          /\ Give(o, FirstOf(args) \o SubSeq(BehindFirst(args), 1, MoreOf(args, o)))
          /\ args' = IF Options[o].many THEN MarkEaten(RestOf(args, o)) ELSE RestOf(args, o)
    BY <1>1, <1>6, <2>2, Zenon DEF ParseOption, MoreOf, RestOf
  <2>4. Chosen(args) = o
    BY <2>3, ChosenIs
  <2>5. NamesOne(args, positional_only) /\ NextOnly(args, positional_only) = positional_only
    BY <2>1, <2>3 DEF NamesOne, IsWord, NextOnly, Next1
  <2>6. args' = ArgsBehind(args, o) /\ results' = AddedTo(results, o, TextsFor(args, o))
    BY <2>3, Zenon DEF ArgsBehind, TextsFor, Give, AddedTo
  <2> QED BY <2>1, <2>4, <2>5, <2>6, Zenon DEF NextArgs, NextResults
<1> QED BY <1>2, <1>3, <1>4, <1>5, <1>6

(* The configurations the parser comes to from one of them: those in every *)
(* set that has this one and is closed under what comes next.              *)
Configs == [args : Seq(DOMAIN Lexicon), only : BOOLEAN, res : [Indices -> Seq(DOMAIN Lexicon)]]
Closed(S) == \A x \in S : \A y \in Configs : x.args # << >> /\ y = After(x) => y \in S
From(x) == {y \in Configs : \A S \in SUBSET Configs : x \in S /\ Closed(S) => y \in S}

(* A configuration is among those the parser comes to from it.             *)
LEMMA FromItself == ASSUME NEW x \in Configs PROVE x \in From(x)
BY Zenon DEF From

(* So is the next of each.                                                 *)
LEMMA FromGoesOn ==
  ASSUME NEW x, NEW y \in From(x), y.args # << >>, After(y) \in Configs
  PROVE  After(y) \in From(x)
BY Zenon DEF From, Closed

(* They are closed under what comes next.                                  *)
LEMMA FromIsClosed == ASSUME NEW x PROVE Closed(From(x)) /\ From(x) \subseteq Configs
BY Zenon DEF From, Closed

(* Two ends of one line are the same.                                      *)
LEMMA OneEnd ==
  ASSUME NEW b \in Configs, NEW f \in From(b), NEW g \in From(b), f.args = << >>, g.args = << >>
  PROVE  f = g
<1> DEFINE T == {x \in Configs : f \in From(x)}
<1>1. f \in Configs /\ g \in Configs
  BY DEF From
<1>2. b \in T
  OBVIOUS
<1>3. ASSUME NEW x \in T, NEW y \in Configs, x.args # << >>, y = After(x)
      PROVE  y \in T
  <2> DEFINE S == {x} \cup From(y)
  <2>1. S \in SUBSET Configs /\ x \in S
    BY FromIsClosed
  <2>2. Closed(S)
    <3>1. \A z \in Configs : z = After(x) => z \in From(y)
      BY <1>3, FromItself
    <3>2. Closed(From(y))
      BY FromIsClosed
    <3> QED BY <3>1, <3>2, Zenon DEF Closed
  <2> HIDE DEF S
  <2>3. f \in S
    <3>1. f \in From(x)
      OBVIOUS
    <3> QED BY <2>1, <2>2, <3>1, Zenon DEF From
  <2>4. f # x
    BY <1>3
  <2> QED BY <2>3, <2>4 DEF S
<1>4. Closed(T) /\ T \in SUBSET Configs
  <2>1. T \in SUBSET Configs
    OBVIOUS
  <2> HIDE DEF T
  <2> QED BY <1>3, <2>1, Zenon DEF Closed
<1>5. g \in T
  <2> HIDE DEF T
  <2> QED BY <1>2, <1>4, Zenon DEF From
<1>6. f \in From(g)
  BY <1>5
<1>7. Closed({g}) /\ {g} \in SUBSET Configs /\ g \in {g}
  BY <1>1, Zenon DEF Closed
<1>8. f \in {g}
  BY <1>6, <1>7, Zenon DEF From
<1> QED BY <1>8

(* The start of a parse, and what the parser comes to from there, depend   *)
(* on the program and the line.                                            *)
Begin == Config(line, FALSE, [o \in Indices |-> << >>])

(* What comes next depends on the program and the line only.               *)
LEMMA SameSteps ==
  ASSUME UNCHANGED given
  PROVE  \A c : After(c)' = After(c)
<1>1. /\ Indices' = Indices /\ Options' = Options
      /\ \A text : Class(text)' = Class(text) /\ Named(text)' = Named(text)
      /\ \A o, text : Items(o, text)' = Items(o, text)
      /\ \A o : IsFlag(o)' = IsFlag(o)
  BY SameLine
<1>2. \A a : Chosen(a)' = Chosen(a)
  BY <1>1, Zenon DEF Chosen
<1>3. \A a : Words(a)' = Words(a) /\ MarkEaten(a)' = MarkEaten(a)
  BY <1>1, Zenon DEF Words, MarkEaten
<1>4. \A a, o : MoreOf(a, o)' = MoreOf(a, o)
  BY <1>1, <1>3, Zenon DEF MoreOf, BehindFirst
<1>5. \A a, o : RestOf(a, o)' = RestOf(a, o)
  BY <1>4, Zenon DEF RestOf, BehindFirst
<1>6. \A a : FlagText(a)' = FlagText(a) /\ PushedBack(a)' = PushedBack(a)
  BY <1>1, Zenon DEF FlagText, PushedBack
<1>7. \A a, o : TextsFor(a, o)' = TextsFor(a, o)
  BY <1>1, <1>4, <1>6, Zenon DEF TextsFor, FirstOf, BehindFirst
<1>8. \A a, o : ArgsBehind(a, o)' = ArgsBehind(a, o)
  BY <1>1, <1>3, <1>5, <1>6, Zenon DEF ArgsBehind
<1>9. \A r : WantingOf(r)' = WantingOf(r)
  BY <1>1, Zenon DEF WantingOf
<1>10. \A o, texts : ItemsOf(o, texts)' = ItemsOf(o, texts)
  <2> SUFFICES ASSUME NEW o, NEW texts
               PROVE  ItemsOf(o, texts)' = ItemsOf(o, texts)
    OBVIOUS
  <2> DEFINE lists == [i \in DOMAIN texts |-> Items(o, texts[i])]
  <2>1. lists' = lists
    BY <1>1, Zenon
  <2>2. ItemsOf(o, texts) = FlattenSeq(lists) /\ ItemsOf(o, texts)' = FlattenSeq(lists')
    BY Zenon DEF ItemsOf
  <2> HIDE DEF lists
  <2> QED BY <2>1, <2>2, Zenon
<1>11. \A r, o, texts : AddedTo(r, o, texts)' = AddedTo(r, o, texts)
  BY <1>10, Zenon DEF AddedTo
<1>12. \A a, only : IsWord(a, only)' = IsWord(a, only) /\ NamesOne(a, only)' = NamesOne(a, only)
                    /\ NextOnly(a, only)' = NextOnly(a, only)
  BY <1>1, Zenon DEF IsWord, NamesOne, NextOnly
<1>13. \A a, only : NextArgs(a, only)' = NextArgs(a, only)
  BY <1>2, <1>8, <1>12, Zenon DEF NextArgs
<1>14. \A a, only, r : NextResults(a, only, r)' = NextResults(a, only, r)
  BY <1>2, <1>7, <1>9, <1>11, <1>12, Zenon DEF NextResults
<1> QED BY <1>12, <1>13, <1>14, Zenon DEF After, Config

(* And so does what the parser comes to.                                   *)
LEMMA SameTrail ==
  ASSUME UNCHANGED given
  PROVE  Configs' = Configs /\ Begin' = Begin /\ From(Begin)' = From(Begin)
<1>1. Indices' = Indices /\ line' = line
  BY SameLine
<1>2. Configs' = Configs /\ Begin' = Begin
  BY <1>1, Zenon DEF Configs, Begin, Config
<1>3. \A S : Closed(S)' = Closed(S)
  BY <1>2, SameSteps, Zenon DEF Closed
<1>4. From(Begin)' = From(Begin)
  BY <1>2, <1>3, Zenon DEF From
<1> QED BY <1>2, <1>4

(* A parse starts in a configuration.                                      *)
LEMMA BeginIsConfig ==
  ASSUME line \in Seq(DOMAIN Lexicon)
  PROVE  Begin \in Configs
<1>1. << >> \in Seq(DOMAIN Lexicon)
  OBVIOUS
<1> QED BY <1>1 DEF Begin, Config, Configs

(* A step of the parser stays among the configurations reached.            *)
LEMMA ReadingReaches ==
  ASSUME LineTypes, LineTypes', UNCHANGED given, Cur \in From(Begin), args # << >>, pc' # "exit",
         ParseMark \/ ParseFlag \/ ParseOption \/ ParseUnknown \/ ParsePositional
  PROVE  (Cur \in From(Begin))'
<1>1. Cur \in Configs
  BY DEF From
<1>2. positional_only \in BOOLEAN /\ prog \in Programs
  BY <1>1 DEF Cur, Config, Configs, LineTypes
<1>3. Cur' = After(Cur)
  BY <1>2, ReadingIsAfter
<1>4. positional_only' \in BOOLEAN
  BY <1>2 DEF ParseMark, ParseFlag, ParseOption, ParseUnknown, ParsePositional
<1>5. Indices' = Indices
  BY SameLine
<1>6. Cur' \in Configs
  BY <1>4, <1>5 DEF Cur, Config, Configs, LineTypes
<1>7. Cur.args # << >>
  BY DEF Cur, Config
<1>8. After(Cur) \in From(Begin)
  BY <1>3, <1>6, <1>7, FromGoesOn, Zenon
<1> QED BY <1>3, <1>8, SameTrail, Zenon

-------------------------------------------------------------------------------
(* What options become: a member is what the results say, or what it was.  *)
Setters(r, v) == {o \in Indices : Options[o].var = v /\ r[o] # << >>}
ValueIn(r, o) ==
  IF Options[o].many THEN [i \in DOMAIN r[o] |-> Converted(o, r[o][i])] ELSE Converted(o, Last(r[o]))

OneOf(S) == CHOOSE o \in S : TRUE
Before(r, v, k) == {o \in Setters(r, v) : o < k}
SetUpTo(r, b, k) ==
  [v \in DOMAIN b |-> IF Before(r, v, k) = {} THEN b[v]
                      ELSE ValueIn(r, OneOf(Before(r, v, k)))]
SetAll(r, b) ==
  [v \in DOMAIN b |-> IF Setters(r, v) = {} THEN b[v]
                      ELSE ValueIn(r, OneOf(Setters(r, v)))]
EntriesIn(r) ==
  FlattenSeq([o \in Indices |-> IF Options[o].var = "pls_entries" THEN r[o] ELSE << >>])
Outcome(r, b) == AfterParsing(prog, SetAll(r, b), EntriesIn(r))

IsFunction(b, D) == b = [v \in D |-> b[v]]

(* No two options set one member.                                          *)
LEMMA OneSetter ==
  ASSUME prog \in Programs, NEW r, NEW v, NEW o1 \in Setters(r, v), NEW o2 \in Setters(r, v)
  PROVE  o1 = o2
<1>1. o1 \in DOMAIN Table[prog] /\ o2 \in DOMAIN Table[prog]
  BY Zenon DEF Setters, Options, Indices
<1>2. Table[prog][o1].var = Table[prog][o2].var
  BY Zenon DEF Setters, Options
<1> QED BY <1>1, <1>2, TableAssumption, Zenon

(* Setting options keeps the members.                                      *)
LEMMA SetAllIsFunction == ASSUME NEW r, NEW b PROVE IsFunction(SetAll(r, b), DOMAIN b)
BY DEF SetAll, IsFunction

(* What parse_options does afterwards adds no member.                      *)
LEMMA CompletedIsFunction ==
  ASSUME NEW p, NEW o, NEW D, IsFunction(o, D), NEW E
  PROVE  IsFunction(AfterParsing(p, o, E), D)
<1> DEFINE w == WithCodes(o, E)
<1>1. IsFunction(w, D)
  <2> DEFINE l == [v \in D |-> CASE v = "lnb_type" -> (IF o["freq"] < 4800000 THEN 4 ELSE o["lnb_type"])
                                 [] v = "pls_codes" -> parse_pls(o["pls_codes"], E)
                                 [] OTHER -> o[v]]
  <2>1. w = l
    BY WithCodesIs, SMT DEF IsFunction
  <2>2. l = [v \in D |-> l[v]]
    OBVIOUS
  <2> HIDE DEF l, w
  <2> QED BY <2>1, <2>2, Zenon DEF IsFunction
<1> HIDE DEF w
<1>2. IsFunction(WithRange(w), D)
  <2> DEFINE range == ScanRange(SystemClass(w.delivery_system), LnbNameOf(w.lnb_type),
                                w.start_freq, w.end_freq)
             x == range[1]
             y == range[2]
             w1 == [w EXCEPT !.start_freq = x]
  <2>1. WithRange(w) = [w1 EXCEPT !.end_freq = y]
    BY SMT DEF WithRange
  <2> HIDE DEF x, y
  <2>2. w1 = [v \in D |-> IF v = "start_freq" THEN x ELSE w[v]]
    BY <1>1, SMT DEF IsFunction
  <2> DEFINE l == [v \in D |-> IF v = "end_freq" THEN y ELSE IF v = "start_freq" THEN x ELSE w[v]]
  <2> HIDE DEF w1
  <2>3. [w1 EXCEPT !.end_freq = y] = l
    BY <2>2, SMT
  <2>4. l = [v \in D |-> l[v]]
    OBVIOUS
  <2>5. WithRange(w) = l
    BY <2>1, <2>3, Zenon
  <2> HIDE DEF l
  <2>6. IsFunction(l, D)
    BY <2>4, Zenon DEF IsFunction
  <2> QED BY <2>5, <2>6, Zenon
<1>3. CASE p = ND
  BY <1>3 DEF AfterParsing
<1>4. CASE p = NT
  BY <1>1, <1>4, SMT DEF AfterParsing, w, NT, ND
<1>5. CASE p \notin {ND, NT}
  BY <1>2, <1>5, SMT DEF AfterParsing, w
<1> QED BY <1>3, <1>4, <1>5

(* The entries are a list.                                                 *)
LEMMA EntriesAreListed ==
  ASSUME prog \in Programs, NEW r \in [Indices -> Seq(DOMAIN Lexicon)]
  PROVE  EntriesIn(r) \in Seq(DOMAIN Lexicon)
<1> DEFINE T == DOMAIN Lexicon
           ss == [o \in Indices |-> IF Options[o].var = "pls_entries" THEN r[o] ELSE << >>]
           n == Len(Table[prog])
<1>1. Indices = 1 .. n /\ n \in Nat
  BY TableAssumption DEF Indices, Options
<1> HIDE DEF n
<1>2. \A o \in Indices : ss[o] \in Seq(T)
  <2>1. << >> \in Seq(T)
    OBVIOUS
  <2> HIDE DEF T
  <2> QED BY <2>1 DEF T
<1>3. ss \in [1 .. n -> Seq(T)]
  BY <1>1, <1>2
<1>4. ss \in Seq(Seq(T))
  <2> HIDE DEF ss, T
  <2> QED BY <1>1, <1>3
<1> HIDE DEF ss, T
<1>5. FlattenSeq(ss) \in Seq(T)
  BY <1>4, Flattened
<1> QED BY <1>5, Zenon DEF EntriesIn, ss, T

(* Parsing again into the options as parsed once changes nothing.          *)
LEMMA OutcomeAgain ==
  ASSUME prog = NB, NEW r \in [Indices -> Seq(DOMAIN Lexicon)],
         \A o \in Indices : r[o] # << >> =>
           Options[o].var = "help" \/ IF IsFlag(o) THEN Converts(o, Last(r[o]))
                                      ELSE \A i \in DOMAIN r[o] : Converts(o, r[o][i])
  PROVE  Outcome(r, Outcome(r, Defaults[prog])) = Outcome(r, Defaults[prog])
<1> DEFINE d == Defaults[prog]
           D == DOMAIN d
           s == SetAll(r, d)
           E == EntriesIn(r)
           x == Outcome(r, d)
           y == SetAll(r, x)
           n == Len(E)
<1>1. prog \in Programs
  BY DEF Programs
<1>2. E \in Seq(DOMAIN Lexicon)
  BY <1>1, EntriesAreListed
<1>3. n \in Nat /\ DOMAIN E = 1 .. n
  BY <1>2
<1>4. IsFunction(s, D) /\ DOMAIN s = D
  <2>1. IsFunction(s, D)
    BY SetAllIsFunction
  <2>2. DOMAIN s = D
    BY DEF SetAll
  <2> QED BY <2>1, <2>2
<1>5. IsFunction(x, D)
  BY <1>4, CompletedIsFunction, Zenon DEF Outcome
<1>6. DOMAIN x = D
  <2> HIDE DEF x, D
  <2> QED BY <1>5 DEF IsFunction
<1>7. IsFunction(y, D)
  BY <1>6, SetAllIsFunction, Zenon
<1>8. x = WithRange(WithCodes(s, E)) /\ Outcome(r, x) = WithRange(WithCodes(y, E))
  <2>1. prog \notin {ND, NT}
    BY DEF NB, NT, ND
  <2> QED BY <2>1, Zenon DEF Outcome, AfterParsing
<1>9. ASSUME NEW v \in D
      PROVE  y[v] \in {s[v], x[v]}
  <2>1. y[v] = IF Setters(r, v) = {} THEN x[v] ELSE ValueIn(r, OneOf(Setters(r, v)))
    BY <1>6, Zenon DEF SetAll
  <2>2. s[v] = IF Setters(r, v) = {} THEN d[v] ELSE ValueIn(r, OneOf(Setters(r, v)))
    BY Zenon DEF SetAll
  <2> HIDE DEF x, y, s, d, D
  <2> QED BY <2>1, <2>2, Zenon
<1>10. RangeMembers \subseteq D /\ d["start_freq"] \in Int /\ d["end_freq"] \in Int
       /\ D \cap LocalVariables = {}
  BY <1>1, TableAssumption
<1>11. ASSUME NEW v \in {"start_freq", "end_freq"}
       PROVE  s[v] \in Int
  <2>1. v \in D /\ d[v] \in Int
    BY <1>10 DEF RangeMembers
  <2>2. s[v] = IF Setters(r, v) = {} THEN d[v] ELSE ValueIn(r, OneOf(Setters(r, v)))
    BY <2>1, Zenon DEF SetAll
  <2>3. CASE Setters(r, v) = {}
    BY <2>1, <2>2, <2>3
  <2>4. CASE Setters(r, v) # {}
    <3> DEFINE o == OneOf(Setters(r, v))
    <3>1. o \in Setters(r, v)
      BY <2>4, Zenon DEF OneOf
    <3>2. s[v] = ValueIn(r, o)
      BY <2>2, <2>4, Zenon
    <3> HIDE DEF o
    <3>3. o \in Indices /\ Options[o].var = v /\ r[o] # << >>
      BY <3>1 DEF Setters
    <3>4. Options[o].conv = "int" /\ ~Options[o].many
      BY <1>1, <3>3, TableAssumption DEF Indices, Options
    <3> DEFINE text == Last(r[o])
    <3>5. text \in DOMAIN Lexicon /\ \E i \in DOMAIN r[o] : text = r[o][i]
      <4> DEFINE w == r[o]
      <4>1. w \in Seq(DOMAIN Lexicon) /\ w # << >>
        BY <3>3
      <4> HIDE DEF w
      <4>2. Len(w) \in DOMAIN w /\ w[Len(w)] \in DOMAIN Lexicon
        BY <4>1
      <4>3. Last(w) = w[Len(w)]
        BY DEF Last
      <4> QED BY <4>2, <4>3 DEF w
    <3> HIDE DEF text
    <3>6. Converts(o, text)
      BY <3>3, <3>4, <3>5 DEF IsFlag
    <3>7. Lexicon[text].numbers # {} /\ Lexicon[text].numbers \subseteq Int
          /\ \A k, m \in Lexicon[text].numbers : k = m
      BY <3>4, <3>5, <3>6, CommandLineAssumption DEF Converts
    <3>8. Max(Lexicon[text].numbers) \in Int
      <4> DEFINE N == Lexicon[text].numbers
      <4> HIDE DEF N
      <4>1. N # {} /\ N \subseteq Int /\ \A k, m \in N : k = m
        BY <3>7 DEF N
      <4>2. \E k \in N : \A m \in N : k >= m
        <5>1. PICK k \in N : TRUE
          BY <4>1
        <5>2. \A m \in N : m = k /\ m \in Int
          BY <4>1
        <5>3. \A m \in N : k >= m
          BY <5>2
        <5> QED BY <5>3
      <4>3. Max(N) \in N
        BY <4>2, Zenon DEF Max
      <4> QED BY <4>1, <4>3 DEF N
    <3>9. ValueIn(r, o) = Max(Lexicon[text].numbers)
      BY <3>4 DEF ValueIn, Converted, text
    <3> QED BY <3>2, <3>8, <3>9
  <2> QED BY <2>3, <2>4
<1>12. s["start_freq"] \in Int /\ s["end_freq"] \in Int
  BY <1>11
<1>13. /\ s = [v \in DOMAIN s |-> s[v]] /\ y = [v \in DOMAIN s |-> y[v]]
       /\ RangeMembers \subseteq DOMAIN s
       /\ \A v \in DOMAIN s : y[v] \in {s[v], WithRange(WithCodes(s, E))[v]}
  BY <1>4, <1>7, <1>8, <1>9, <1>10, Zenon DEF IsFunction
<1> HIDE DEF s, y, E, n, x, d
<1>14. WithRange(WithCodes(y, E)) = WithRange(WithCodes(s, E))
  BY <1>3, <1>12, <1>13, CompletedTwice
<1>15. Outcome(r, x) = x
  BY <1>8, <1>14, Zenon
<1> QED BY <1>15, Zenon DEF x, d

-------------------------------------------------------------------------------
(* The options before, during and after the callbacks of either parse.     *)
Ends(f) == f \in From(Begin) /\ f.args = << >>

Base(b) ==
  \/ parses = 1 /\ b = Defaults[prog]
  \/ prog = NB /\ \E f : Ends(f) /\ b = Outcome(f.res, Defaults[prog])

WasConverted(o) == Options[o].var = "help" \/ AllConvert(o)

OptsInv ==
  /\ pc \in {"parse", "callbacks", "parsed"} => Cur \in From(Begin)
  /\ pc = "parse" => Base(opts)
  /\ pc = "callbacks" =>
       /\ \E b : Base(b) /\ opts = SetUpTo(results, b, at)
       /\ \A o \in Indices : o < at /\ results[o] # << >> => WasConverted(o)
  /\ pc = "parsed" => opts = Outcome(results, Defaults[prog])

(* What the options become depends on the program, the line and the results. *)
LEMMA SameOutcome ==
  ASSUME UNCHANGED given
  PROVE  /\ \A r, b : Outcome(r, b)' = Outcome(r, b)
         /\ \A r, b, k : SetUpTo(r, b, k)' = SetUpTo(r, b, k)
         /\ \A f : Ends(f)' = Ends(f)
         /\ UNCHANGED parses => \A b : Base(b)' = Base(b)
<1>1. Indices' = Indices /\ Options' = Options /\ prog' = prog
  BY SameLine
<1>2. \A o, text : Converted(o, text)' = Converted(o, text)
  <2>1. \A o, text : Enumerators(o, text)' = Enumerators(o, text)
    BY <1>1, Zenon DEF Enumerators, Search
  <2> QED BY <1>1, <2>1, Zenon DEF Converted, to_flag_value
<1>3. \A r, o : ValueIn(r, o)' = ValueIn(r, o)
  BY <1>1, <1>2, Zenon DEF ValueIn
<1>4. \A r, v : Setters(r, v)' = Setters(r, v)
  BY <1>1, Zenon DEF Setters
<1>5. \A r, v, k : Before(r, v, k)' = Before(r, v, k)
  BY <1>4, Zenon DEF Before
<1>6. \A r, b, k : SetUpTo(r, b, k)' = SetUpTo(r, b, k)
  BY <1>3, <1>5, Zenon DEF SetUpTo
<1>7. \A r, b : SetAll(r, b)' = SetAll(r, b)
  BY <1>3, <1>4, Zenon DEF SetAll
<1>8. ASSUME NEW r
      PROVE  EntriesIn(r)' = EntriesIn(r)
  <2> DEFINE ss == [o \in Indices |-> IF Options[o].var = "pls_entries" THEN r[o] ELSE << >>]
  <2>1. ss' = ss
    BY <1>1, Zenon
  <2>2. EntriesIn(r) = FlattenSeq(ss) /\ EntriesIn(r)' = FlattenSeq(ss')
    BY Zenon DEF EntriesIn
  <2> HIDE DEF ss
  <2> QED BY <2>1, <2>2, Zenon
<1>9. \A r, b : Outcome(r, b)' = Outcome(r, b)
  BY <1>1, <1>7, <1>8, Zenon DEF Outcome
<1>10. \A f : Ends(f)' = Ends(f)
  BY SameTrail, Zenon DEF Ends
<1>11. UNCHANGED parses => \A b : Base(b)' = Base(b)
  BY <1>1, <1>9, <1>10, Zenon DEF Base
<1> QED BY <1>6, <1>9, <1>10, <1>11

(* The options before a parse have the members of the defaults.            *)
LEMMA BaseIsFunction ==
  ASSUME prog \in Programs, NEW b, Base(b)
  PROVE  IsFunction(b, DOMAIN Defaults[prog]) /\ DOMAIN b = DOMAIN Defaults[prog]
<1> DEFINE d == Defaults[prog]
           D == DOMAIN d
<1>1. IsFunction(d, D)
  BY TableAssumption, Zenon DEF IsFunction
<1>2. ASSUME NEW r
      PROVE  IsFunction(Outcome(r, d), D)
  <2>1. IsFunction(SetAll(r, d), D)
    BY SetAllIsFunction
  <2> QED BY <2>1, CompletedIsFunction, Zenon DEF Outcome
<1>3. b = d \/ \E r : b = Outcome(r, d)
  BY Zenon DEF Base
<1>4. IsFunction(b, D)
  <2> HIDE DEF d, D
  <2>1. CASE b = d
    BY <1>1, <2>1
  <2>2. CASE \E r : b = Outcome(r, d)
    BY <1>2, <2>2, Zenon
  <2> QED BY <1>3, <2>1, <2>2
<1>5. DOMAIN b = D
  <2> HIDE DEF D
  <2> QED BY <1>4 DEF IsFunction
<1> QED BY <1>4, <1>5

(* With no callback run the options are as before.                         *)
LEMMA NoneSet ==
  ASSUME prog \in Programs, NEW r, NEW b, NEW D, IsFunction(b, D)
  PROVE  SetUpTo(r, b, 1) = b
<1>1. \A v : Before(r, v, 1) = {}
  BY IndicesAreNumbers DEF Before, Setters
<1>2. DOMAIN b = D
  BY DEF IsFunction
<1> QED BY <1>1, <1>2, Zenon DEF SetUpTo, IsFunction

(* With all callbacks run every option that was given is set.              *)
LEMMA AllSet ==
  ASSUME LineTypes, ToRun = {}, NEW b
  PROVE  SetUpTo(results, b, at) = SetAll(results, b)
<1>1. \A v : Before(results, v, at) = Setters(results, v)
  <2>1. SUFFICES ASSUME NEW v, NEW o \in Setters(results, v)
                 PROVE  o < at
    BY DEF Before
  <2>2. o \in Indices /\ results[o] # << >> /\ prog \in Programs /\ at \in Nat
    BY DEF Setters, LineTypes
  <2>3. o \in Nat
    BY <2>2, IndicesAreNumbers
  <2>4. ~(o >= at)
    BY <2>2 DEF ToRun
  <2> QED BY <2>2, <2>3, <2>4
<1> DEFINE f(v) == IF Before(results, v, at) = {} THEN b[v]
                   ELSE ValueIn(results, OneOf(Before(results, v, at)))
           g(v) == IF Setters(results, v) = {} THEN b[v]
                   ELSE ValueIn(results, OneOf(Setters(results, v)))
<1>2. ASSUME NEW v
      PROVE  f(v) = g(v)
  <2>1. Before(results, v, at) = Setters(results, v)
    BY <1>1
  <2> QED BY <2>1, Zenon
<1>3. /\ SetUpTo(results, b, at) = [v \in DOMAIN b |-> f(v)]
      /\ SetAll(results, b) = [v \in DOMAIN b |-> g(v)]
  BY Zenon DEF SetUpTo, SetAll
<1> HIDE DEF f, g
<1> QED BY <1>2, <1>3

(* A callback sets the member of its option.                               *)
LEMMA CallbackSets ==
  ASSUME LineTypes, NEW b, DOMAIN b \cap LocalVariables = {}, opts = SetUpTo(results, b, at),
         NEW o \in ToRun, \A other \in ToRun : o <= other,
         opts' = IF Options[o].var \in LocalVariables THEN opts
                 ELSE [opts EXCEPT ![Options[o].var] = ValueOf(o)]
  PROVE  opts' = SetUpTo(results, b, o + 1)
<1> DEFINE m == Options[o].var
           D == DOMAIN b
           x == ValueIn(results, o)
           now == SetUpTo(results, b, o + 1)
<1>1. prog \in Programs /\ at \in Nat
  BY DEF LineTypes
<1>2. o \in Indices /\ o >= at /\ results[o] # << >> /\ o \in Nat /\ Indices \subseteq Nat
  BY <1>1, IndicesAreNumbers DEF ToRun
<1>3. o \in Setters(results, m) /\ o \in Before(results, m, o + 1)
  BY <1>2 DEF Setters, Before
<1>4. ASSUME NEW v, v # m
      PROVE  Before(results, v, o + 1) = Before(results, v, at)
  <2>1. ASSUME NEW p \in Setters(results, v)
        PROVE  p < o + 1 <=> p < at
    <3>1. p \in Indices /\ results[p] # << >> /\ p # o /\ p \in Nat
      BY <1>2, <1>4 DEF Setters
    <3>2. p >= at => o <= p
      BY <3>1 DEF ToRun
    <3> QED BY <1>1, <1>2, <3>1, <3>2
  <2> QED BY <2>1 DEF Before
<1>5. Before(results, m, o + 1) = {o}
  BY <1>1, <1>3, OneSetter DEF Before
<1>6. OneOf(Before(results, m, o + 1)) = o
  BY <1>5 DEF OneOf
<1>7. ValueOf(o) = x
  BY Zenon DEF ValueOf, ValueIn
<1>8. opts = [v \in D |-> opts[v]] /\ DOMAIN opts = D
  <2>1. DOMAIN opts = D
    BY DEF SetUpTo
  <2>2. opts = [v \in D |-> IF Before(results, v, at) = {} THEN b[v]
                            ELSE ValueIn(results, OneOf(Before(results, v, at)))]
    BY Zenon DEF SetUpTo
  <2> DEFINE f(v) == IF Before(results, v, at) = {} THEN b[v]
                     ELSE ValueIn(results, OneOf(Before(results, v, at)))
  <2>3. opts = [v \in D |-> f(v)]
    BY <2>2, Zenon
  <2> HIDE DEF f
  <2> QED BY <2>1, <2>3
<1>9. \A v \in D : now[v] = IF v = m THEN x ELSE opts[v]
  <2>1. ASSUME NEW v \in D, v # m
        PROVE  now[v] = opts[v]
    <3>1. now[v] = IF Before(results, v, o + 1) = {} THEN b[v]
                   ELSE ValueIn(results, OneOf(Before(results, v, o + 1)))
      BY Zenon DEF SetUpTo
    <3>2. opts[v] = IF Before(results, v, at) = {} THEN b[v]
                    ELSE ValueIn(results, OneOf(Before(results, v, at)))
      BY Zenon DEF SetUpTo
    <3>3. Before(results, v, o + 1) = Before(results, v, at)
      BY <1>4, <2>1
    <3> HIDE DEF now
    <3> QED BY <3>1, <3>2, <3>3, Zenon
  <2>2. m \in D => now[m] = x
    <3>1. Before(results, m, o + 1) # {}
      BY <1>3
    <3> QED BY <1>6, <3>1, Zenon DEF SetUpTo
  <2> QED BY <2>1, <2>2, Zenon
<1>10. now = [v \in D |-> now[v]]
  <2> DEFINE f(v) == IF Before(results, v, o + 1) = {} THEN b[v]
                     ELSE ValueIn(results, OneOf(Before(results, v, o + 1)))
  <2>1. now = [v \in D |-> f(v)]
    BY Zenon DEF SetUpTo
  <2> HIDE DEF f, now
  <2> QED BY <2>1
<1> HIDE DEF now, x, D, m
<1>11. now = [v \in D |-> IF v = m THEN x ELSE opts[v]]
  BY <1>9, <1>10
<1>12. CASE m \in LocalVariables
  <2>1. \A v \in D : v # m
    BY <1>12 DEF D
  <2>2. opts' = opts
    BY <1>12 DEF m
  <2>3. now = opts
    BY <1>8, <1>9, <1>10, <2>1
  <2> QED BY <2>2, <2>3 DEF now
<1>13. CASE m \notin LocalVariables
  <2>1. opts' = [opts EXCEPT ![m] = x]
    BY <1>7, <1>13 DEF m
  <2>2. [opts EXCEPT ![m] = x] = [v \in D |-> IF v = m THEN x ELSE opts[v]]
    BY <1>8
  <2> QED BY <1>11, <2>1, <2>2 DEF now
<1> QED BY <1>12, <1>13

(* A parse starts from its base.                                           *)
LEMMA StartsAtBegin ==
  ASSUME line \in Seq(DOMAIN Lexicon), pc = "parse", args = line, positional_only = FALSE,
         results = [o \in Indices |-> << >>], Base(opts)
  PROVE  OptsInv
<1>1. Cur = Begin
  BY Zenon DEF Cur, Begin
<1>2. Cur \in From(Begin)
  BY <1>1, BeginIsConfig, FromItself
<1> QED BY <1>2 DEF OptsInv

(* Reading a token moves the parser on, and leaves the options alone.      *)
LEMMA ReadOpts ==
  ASSUME LineTypes, LineTypes', OptsInv,
         ParseMark \/ ParseFlag \/ ParseOption \/ ParseUnknown \/ ParsePositional
  PROVE  OptsInv'
<1>1. /\ pc = "parse" /\ args # << >> /\ UNCHANGED <<given, opts, parses>>
      /\ pc' \in {"parse", "exit"}
  BY DEF ParseMark, ParseFlag, ParseOption, ParseUnknown, ParsePositional, Parsing
<1>2. CASE pc' = "exit"
  BY <1>2 DEF OptsInv
<1>3. CASE pc' = "parse"
  <2>1. (Cur \in From(Begin))'
    BY <1>1, <1>3, ReadingReaches DEF OptsInv
  <2>2. Base(opts)'
    BY <1>1, SameOutcome, Zenon DEF OptsInv
  <2> QED BY <1>3, <2>1, <2>2 DEF OptsInv
<1> QED BY <1>1, <1>2, <1>3

(* Where the parser is does not change in the callbacks.                   *)
LEMMA StaysThere ==
  ASSUME UNCHANGED <<given, args, positional_only, results>>
  PROVE  (Cur \in From(Begin))' <=> Cur \in From(Begin)
<1>1. Cur' = Cur
  BY Zenon DEF Cur
<1> QED BY <1>1, SameTrail, Zenon

(* At the end of the line no callback has run.                             *)
LEMMA EndOpts ==
  ASSUME LineTypes, Looked, OptsInv, EndOfLine
  PROVE  OptsInv'
<1>1. /\ pc = "parse" /\ pc' = "callbacks" /\ at = 1 /\ Indices' = Indices
      /\ UNCHANGED <<given, args, positional_only, results, at, opts, parses>>
  BY SameLine DEF EndOfLine, Looked
<1>2. Cur \in From(Begin) /\ Base(opts)
  BY <1>1 DEF OptsInv
<1>3. (Cur \in From(Begin))'
  BY <1>1, <1>2, StaysThere
<1>4. opts = SetUpTo(results, opts, 1)
  <2>1. IsFunction(opts, DOMAIN Defaults[prog])
    BY <1>2, BaseIsFunction DEF LineTypes
  <2> QED BY <2>1, NoneSet DEF LineTypes
<1>5. (\E b : Base(b) /\ opts = SetUpTo(results, b, at))'
  <2>1. Base(opts) /\ opts = SetUpTo(results, opts, at)
    BY <1>1, <1>2, <1>4
  <2>2. Base(opts)' /\ opts' = SetUpTo(results, opts, at)'
    BY <1>1, <2>1, SameOutcome, Zenon
  <2> QED BY <2>2, Zenon
<1>6. \A o \in Indices' : ~(o < at')
  BY <1>1, IndicesAreNumbers DEF LineTypes
<1> QED BY <1>1, <1>3, <1>5, <1>6 DEF OptsInv

(* A callback sets its option, if all its values convert.                  *)
LEMMA CallbackOpts ==
  ASSUME LineTypes, OptsInv, RunCallback
  PROVE  OptsInv'
<1>1. /\ pc = "callbacks" /\ pc' \in {"callbacks", "exit"} /\ Indices' = Indices /\ prog \in Programs
      /\ UNCHANGED <<given, args, positional_only, results, parses>>
  BY SameLine DEF RunCallback, Fails, LineTypes
<1>2. CASE pc' = "exit"
  BY <1>2 DEF OptsInv
<1>3. CASE pc' = "callbacks"
  <2>1. (Cur \in From(Begin))'
    BY <1>1, StaysThere DEF OptsInv
  <2>2. PICK o \in ToRun :
          /\ \A other \in ToRun : o <= other
          /\ Options[o].var = "help" \/ AllConvert(o)
          /\ opts' = IF Options[o].var \in LocalVariables THEN opts
                     ELSE [opts EXCEPT ![Options[o].var] = ValueOf(o)]
          /\ at' = o + 1
    BY <1>3, Zenon DEF RunCallback, Fails
  <2>3. PICK b : Base(b) /\ opts = SetUpTo(results, b, at)
    BY <1>1 DEF OptsInv
  <2>4. DOMAIN b \cap LocalVariables = {}
    BY <1>1, <2>3, BaseIsFunction, TableAssumption
  <2>5. opts' = SetUpTo(results, b, o + 1)
    BY <2>2, <2>3, <2>4, CallbackSets
  <2>6. (\E x : Base(x) /\ opts = SetUpTo(results, x, at))'
    <3>1. Base(b)' /\ opts' = SetUpTo(results, b, at)'
      BY <1>1, <2>2, <2>3, <2>5, SameOutcome, Zenon
    <3> QED BY <3>1, Zenon
  <2>7. ASSUME NEW p \in Indices, p < at', results[p] # << >>
        PROVE  WasConverted(p)
    <3>1. p \in Nat /\ o \in Nat /\ at \in Nat /\ o \in Indices
      BY <1>1, IndicesAreNumbers DEF LineTypes, ToRun
    <3>2. p = o \/ p < o
      BY <2>2, <2>7, <3>1
    <3>3. p < o => p < at
      BY <2>2, <2>7, <3>1 DEF ToRun
    <3>4. p < at => WasConverted(p)
      BY <1>1, <2>7 DEF OptsInv
    <3>5. p = o => WasConverted(p)
      BY <2>2, Zenon DEF WasConverted
    <3> QED BY <3>2, <3>3, <3>4, <3>5
  <2>8. \A p : WasConverted(p)' = WasConverted(p)
    <3>1. Options' = Options
      BY <1>1, SameLine
    <3>2. \A p : AllConvert(p)' = AllConvert(p)
      BY <1>1, <3>1, Zenon DEF AllConvert, Converts, IsFlag, to_flag_value
    <3> QED BY <3>1, <3>2, Zenon DEF WasConverted
  <2>9. \A p \in Indices' : p < at' /\ results'[p] # << >> => WasConverted(p)'
    BY <1>1, <2>7, <2>8
  <2> QED BY <1>3, <2>1, <2>6, <2>9 DEF OptsInv
<1> QED BY <1>1, <1>2, <1>3

(* After the callbacks of the second parse every option has been set again *)
(* to what it was set to in the first.                                     *)
LEMMA EndOfCallbacksOpts ==
  ASSUME LineTypes, Looked, OptsInv, EndOfCallbacks
  PROVE  OptsInv'
<1>1. /\ pc = "callbacks" /\ args = << >> /\ pc' \in {"parsed", "exit"} /\ prog \in Programs
      /\ ToRun = {} /\ UNCHANGED <<given, args, positional_only, results, parses>>
  BY DEF EndOfCallbacks, Fails, LineTypes, Looked
<1>2. CASE pc' = "exit"
  BY <1>2 DEF OptsInv
<1>3. CASE pc' = "parsed"
  <2>1. (Cur \in From(Begin))'
    BY <1>1, StaysThere DEF OptsInv
  <2>2. PICK b : Base(b) /\ opts = SetUpTo(results, b, at)
    BY <1>1 DEF OptsInv
  <2>3. opts = SetAll(results, b)
    BY <1>1, <2>2, AllSet
  <2>4. opts' = AfterParsing(prog, opts, Entries)
    BY <1>3, Zenon DEF EndOfCallbacks, Fails
  <2>5. opts' = Outcome(results, b)
    <3>1. Entries = EntriesIn(results)
      BY Zenon DEF Entries, EntriesIn
    <3> QED BY <2>3, <2>4, <3>1, Zenon DEF Outcome
  <2>6. opts' = Outcome(results, Defaults[prog])
    <3>1. CASE b = Defaults[prog]
      BY <2>5, <3>1
    <3>2. CASE b # Defaults[prog]
      <4>1. prog = NB
        BY <2>2, <3>2 DEF Base
      <4>2. PICK f : Ends(f) /\ b = Outcome(f.res, Defaults[prog])
        BY <2>2, <3>2 DEF Base
      <4>3. Cur \in From(Begin) /\ Cur.args = << >> /\ Cur.res = results
        BY <1>1 DEF OptsInv, Cur, Config
      <4>4. Begin \in Configs
        BY BeginIsConfig DEF LineTypes
      <4>5. f = Cur
        BY <4>2, <4>3, <4>4, OneEnd DEF Ends
      <4>6. \A o \in Indices : results[o] # << >> => WasConverted(o)
        <5>1. \A o \in Indices : results[o] # << >> => o < at
          BY <1>1, AllRun
        <5> QED BY <1>1, <5>1 DEF OptsInv
      <4>7. Outcome(results, Outcome(results, Defaults[prog])) = Outcome(results, Defaults[prog])
        <5>1. \A o \in Indices : results[o] # << >> =>
                Options[o].var = "help" \/ IF IsFlag(o) THEN Converts(o, Last(results[o]))
                                           ELSE \A i \in DOMAIN results[o] : Converts(o, results[o][i])
          BY <4>6, Zenon DEF WasConverted, AllConvert
        <5>2. results \in [Indices -> Seq(DOMAIN Lexicon)]
          BY DEF LineTypes
        <5> QED BY <4>1, <5>1, <5>2, OutcomeAgain
      <4>8. b = Outcome(results, Defaults[prog])
        BY <4>2, <4>3, <4>5, Zenon
      <4> QED BY <2>5, <4>7, <4>8, Zenon
    <3> QED BY <3>1, <3>2
  <2>7. (opts = Outcome(results, Defaults[prog]))'
    <3>1. prog' = prog
      BY <1>1, SameLine
    <3> QED BY <1>1, <2>6, <3>1, SameOutcome, Zenon
  <2> QED BY <1>3, <2>1, <2>7 DEF OptsInv
<1> QED BY <1>1, <1>2, <1>3

(* The second parse starts from the options the first has left.            *)
LEMMA AgainOpts ==
  ASSUME LineTypes, Looked, OptsInv, ParseAgain
  PROVE  OptsInv'
<1>1. /\ pc = "parsed" /\ args = << >> /\ prog = NB /\ UNCHANGED <<given, opts>>
      /\ pc' = "parse" /\ args' = line /\ positional_only' = FALSE
      /\ results' = [o \in Indices |-> << >>]
  BY DEF ParseAgain, Looked
<1>2. Ends(Cur) /\ opts = Outcome(Cur.res, Defaults[prog])
  BY <1>1 DEF OptsInv, Ends, Cur, Config
<1>3. prog' = prog /\ line' = line /\ Indices' = Indices
  BY <1>1, SameLine
<1>4. Base(opts)'
  <2> DEFINE c == Cur
  <2>1. Ends(c) /\ opts = Outcome(c.res, Defaults[prog])
    BY <1>2
  <2> HIDE DEF c
  <2>2. \E f : Ends(f) /\ opts = Outcome(f.res, Defaults[prog])
    BY <2>1, Zenon
  <2>3. PICK f : Ends(f) /\ opts = Outcome(f.res, Defaults[prog])
    BY <2>2
  <2>4. Ends(f)'
    BY <1>1, <2>3, SameOutcome, Zenon
  <2>5. Outcome(f.res, Defaults[prog])' = Outcome(f.res, Defaults[prog])
    BY <1>1, <1>3, SameOutcome, Zenon
  <2> QED BY <1>1, <1>3, <2>3, <2>4, <2>5, Zenon DEF Base
<1>5. (line \in Seq(DOMAIN Lexicon))' /\ (results = [o \in Indices |-> << >>])'
  BY <1>1, <1>3, Zenon DEF LineTypes
<1>6. (args = line)' /\ (pc = "parse")' /\ (positional_only = FALSE)'
  BY <1>1, <1>3
<1>7. (Cur \in From(Begin))'
  <2>1. Begin \in Configs
    BY BeginIsConfig DEF LineTypes
  <2>2. Cur' = Begin
    BY <1>1, <1>3, Zenon DEF Cur, Begin
  <2>3. Cur' \in From(Begin)
    BY <2>1, <2>2, FromItself
  <2> QED BY <1>1, <2>3, SameTrail, Zenon
<1> QED BY <1>4, <1>6, <1>7 DEF OptsInv

OptsInvariant == PlainLine => OptsInv

(* Every step keeps what is known of the options.                          *)
LEMMA OptsKept ==
  ASSUME LineInvariant, LineInvariant', OptsInvariant, [Next]_<<vars, requestVars>>
  PROVE  OptsInvariant'
<1>1. UNCHANGED given
  BY DEF Next, Parse, Work, Done, Clear, Send, Refuse, Finish, vars, ParseMark, ParseFlag, ParseOption,
         ParseUnknown, ParsePositional, Parsing, EndOfLine, RunCallback, EndOfCallbacks, ParseAgain,
         Parsed, given
<1>2. PlainLine' = PlainLine
  BY <1>1, SameLine, Zenon
<1>3. SUFFICES ASSUME PlainLine, LineTypes, LineTypes', Looked, OptsInv
               PROVE  OptsInv'
  BY <1>2 DEF LineInvariant, LineInv, OptsInvariant
<1>4. CASE ParseMark \/ ParseFlag \/ ParseOption \/ ParseUnknown \/ ParsePositional
  BY <1>3, <1>4, ReadOpts
<1>5. CASE EndOfLine
  BY <1>3, <1>5, EndOpts
<1>6. CASE RunCallback
  BY <1>3, <1>6, CallbackOpts
<1>7. CASE EndOfCallbacks
  BY <1>3, <1>7, EndOfCallbacksOpts
<1>8. CASE ParseAgain
  BY <1>3, <1>8, AgainOpts
<1>9. CASE pc' \in {"work", "exit"}
  BY <1>9 DEF OptsInv
<1>10. CASE UNCHANGED <<pc, args, positional_only, results, at, opts, parses>>
  <2>1. UNCHANGED <<pc, args, positional_only, results, at, opts, parses>>
    BY <1>10
  <2>2. (Cur \in From(Begin))' <=> Cur \in From(Begin)
    BY <1>1, <2>1, StaysThere
  <2>3. /\ Options' = Options /\ Indices' = Indices /\ prog' = prog
        /\ Base(opts)' = Base(opts)
        /\ \A b : Base(b)' = Base(b) /\ SetUpTo(results, b, at)' = SetUpTo(results, b, at)
        /\ Outcome(results, Defaults[prog])' = Outcome(results, Defaults[prog])
    BY <1>1, <2>1, SameLine, SameOutcome, Zenon
  <2>4. \A p : WasConverted(p)' = WasConverted(p)
    <3>1. \A p : AllConvert(p)' = AllConvert(p)
      BY <2>1, <2>3, Zenon DEF AllConvert, Converts, IsFlag, to_flag_value
    <3> QED BY <2>3, <3>1, Zenon DEF WasConverted
  <2> QED BY <1>3, <2>1, <2>2, <2>3, <2>4, Zenon DEF OptsInv
<1>11. ASSUME Parsed \/ Work \/ Done \/ UNCHANGED <<vars, requestVars>>
       PROVE  pc' \in {"work", "exit"} \/ UNCHANGED <<pc, args, positional_only, results, at, opts, parses>>
  BY <1>11 DEF Parsed, Work, Clear, Send, Refuse, Finish, Done, vars
<1> QED BY <1>4, <1>5, <1>6, <1>7, <1>8, <1>9, <1>10, <1>11 DEF Next, Parse

(* The options are as the invariant says in every reachable state.         *)
THEOREM OptsInvariance == Spec => []OptsInvariant
<1>1. RequestInit => OptsInvariant
  <2> SUFFICES ASSUME NEW c \in CommandLines, Start(c[1], c[2])
               PROVE  OptsInv
    BY DEF RequestInit, Init, OptsInvariant
  <2>1. c[1] \in Programs /\ c[2] \in Seq(DOMAIN Lexicon)
    BY CommandLineAssumption
  <2>2. /\ line \in Seq(DOMAIN Lexicon) /\ pc = "parse" /\ args = line /\ positional_only = FALSE
        /\ results = [o \in Indices |-> << >>]
    BY <2>1 DEF Start, Indices, Options
  <2>3. Base(opts)
    BY DEF Start, Base
  <2> QED BY <2>2, <2>3, StartsAtBegin
<1>2. LineInvariant /\ LineInvariant' /\ OptsInvariant /\ [Next]_<<vars, requestVars>> => OptsInvariant'
  BY OptsKept
<1> QED BY <1>1, <1>2, LineInvariance, PTL DEF Spec

(* OptionsAreOfTheLine: what a program works with after a plain line is    *)
(* what the line says of each option, or its default, completed once.      *)
THEOREM OptionsAreOfTheLineEver == Spec => [](PlainLine => OptionsAreOfTheLine)
<1>1. LineInvariant /\ OptsInvariant => (PlainLine => OptionsAreOfTheLine)
  <2> SUFFICES ASSUME LineTypes, OptsInv, pc = "parsed"
               PROVE  opts = AfterParsing(prog, [v \in DOMAIN opts |-> Settled(v)], Entries)
    BY DEF LineInvariant, LineInv, OptsInvariant, OptionsAreOfTheLine, Accepted
  <2> DEFINE d == Defaults[prog]
             D == DOMAIN d
  <2>1. opts = Outcome(results, d)
    BY DEF OptsInv
  <2>2. DOMAIN opts = D
    <3>1. IsFunction(SetAll(results, d), D)
      BY SetAllIsFunction
    <3>2. IsFunction(opts, D)
      BY <2>1, <3>1, CompletedIsFunction, Zenon DEF Outcome
    <3> HIDE DEF D
    <3> QED BY <3>2 DEF IsFunction
  <2>3. Entries = EntriesIn(results)
    BY Zenon DEF Entries, EntriesIn
  <2>4. SetAll(results, d) = [v \in D |-> Settled(v)]
    <3> DEFINE f(v) == IF Setters(results, v) = {} THEN d[v]
                       ELSE ValueIn(results, OneOf(Setters(results, v)))
    <3>1. \A v : f(v) = Settled(v)
      <4>1. \A o : ValueOf(o) = ValueIn(results, o)
        BY Zenon DEF ValueOf, ValueIn
      <4>2. \A v : Settled(v) = IF Setters(results, v) = {} THEN Defaults[prog][v]
                                ELSE ValueOf(OneOf(Setters(results, v)))
        BY Zenon DEF Settled, Setters, OneOf
      <4> QED BY <4>1, <4>2, Zenon
    <3>2. SetAll(results, d) = [v \in D |-> f(v)]
      BY Zenon DEF SetAll
    <3> HIDE DEF f, d, D
    <3> QED BY <3>1, <3>2
  <2> HIDE DEF d, D
  <2> QED BY <2>1, <2>2, <2>3, <2>4, Zenon DEF Outcome
<1> QED BY <1>1, LineInvariance, OptsInvariance, PTL

===============================================================================
