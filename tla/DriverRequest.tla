---------------------------- MODULE DriverRequest ----------------------------
(***************************************************************************)
(* From the command line to the driver: the requests each program makes of *)
(* the options it has parsed.  A request is a sequence of properties that  *)
(* one FE_SET_PROPERTY hands over, built by cmdseq_t, which has room for   *)
(* sixteen and asserts that one place stays free.  The driver keeps every  *)
(* property it is given until DTV_CLEAR, and acts on all it has kept when  *)
(* the property that starts an operation arrives.                          *)
(*                                                                         *)
(* Which request comes next is up to the callers, which other modules      *)
(* describe; here it is any that the program has.                          *)
(***************************************************************************)
EXTENDS CommandLine

CONSTANT MaxRequests   \* bound: requests in a run

ASSUME RequestAssumption == MaxRequests \in Nat

VARIABLES
  request,    \* the operation asked for, or ""
  props,      \* cmdseq: its properties, in order
  cache,      \* external: what the driver keeps
  executed,   \* external: what it acts on since the last DTV_CLEAR
  requests    \* how many requests were begun

requestVars == <<request, props, cache, executed, requests>>

Nothing  == << >>   \* a function without arguments
Capacity == 15

-------------------------------------------------------------------------------
(* The properties.  Frequencies and the polarisation are those of the pass *)
(* or peak at work: here they are just asked for.                          *)
Asked == "asked"

SearchesList(o)  == o.pls_codes # << >>
SearchesRange(o) == o.end_pls_code > o.start_pls_code

(* neumo-tune packs the ends of the range; the scanners send them raw.     *)
RangeEnd(p, o, code) == IF p = NT THEN make_code(0, code, o.pls_search_timeout) ELSE code

OnePerCode(p, o) ==                                     \* mutant of PlsProps
  [i \in DOMAIN o.pls_codes |-> <<"PLS_SEARCH_LIST", o.pls_codes[i]>>]
PlsProps(p, o) ==
  (IF SearchesList(o) THEN << <<"PLS_SEARCH_LIST", o.pls_codes>> >> ELSE << >>)
  \o (IF SearchesRange(o)
      THEN << <<"PLS_SEARCH_RANGE",
                <<RangeEnd(p, o, o.start_pls_code), RangeEnd(p, o, o.end_pls_code)>> >> >>
      ELSE << >>)

Algorithm(algo) == << <<"ALGORITHM", algo>> >>
System(sys)     == << <<"DELIVERY_SYSTEM", sys>> >>
Frequency       == << <<"FREQUENCY", Asked>> >>
Stream(id)      == << <<"STREAM_ID", id>> >>
SearchRange(o)  == << <<"SEARCH_RANGE", 1000 * o.search_range>> >>

AnySystem == delsys_map["auto"]

(* The window of a spectrum or of a blind scan by the driver.              *)
Window(o) ==
  << <<"SCAN_START_FREQUENCY", Asked>>, <<"SCAN_END_FREQUENCY", Asked>>,
     <<"SCAN_RESOLUTION", o.spectral_resolution>>, <<"SCAN_FFT_SIZE", o.fft_size>> >>

Bandwidth(o) == IF SystemClass(o.delivery_system) = "sat" THEN 2000000 ELSE 8000000

SpectrumProps(p, o) ==
  (IF p = SB THEN << <<"SET_SEC_CONFIGURED", 0>> >> ELSE << >>)
  \o System(o.delivery_system) \o Window(o)
  \o << <<"SYMBOL_RATE", Bandwidth(o)>>, <<"SPECTRUM", o.spectrum_method>> >>

BlindscanProps(o) ==
  System(AnySystem) \o Algorithm("blind") \o Window(o) \o << <<"VOLTAGE", Asked>> >>
  \o SearchRange(o) \o << <<"MAX_SYMBOL_RATE", 1000 * o.max_symbol_rate>> >>
  \o PlsProps(NB, o) \o Stream(o.stream_id) \o << <<"SCAN", TRUE>> >>

ContinueProps(o) ==
  PlsProps(NB, o) \o SearchRange(o) \o Stream(o.stream_id) \o << <<"SCAN", FALSE>> >>

SweepTuneProps(o) ==
  Algorithm("blind") \o System(AnySystem) \o SearchRange(o)
  \o << <<"SYMBOL_RATE", 1000 * o.max_symbol_rate>> >> \o Frequency
  \o PlsProps(NB, o) \o Stream(o.stream_id)

(* The symbol rate that the spectrum gave for the peak, in Hz.             *)
PeakTuneProps(o, rate) ==
  Algorithm("blind") \o System(AnySystem)
  \o (IF rate > 0 THEN << <<"SYMBOL_RATE", rate>> >> ELSE << >>)
  \o Frequency \o PlsProps(SB, o) \o Stream(o.stream_id)
  \o << <<"SEARCH_RANGE", IF rate >= 2000000 THEN Max({rate, 4000000}) ELSE rate>> >>

(* Warm and cold tuning select a stream by number and code: the first code *)
(* of the list is put on top of eight bits of stream, given or not.        *)
StreamSelected(o) ==
  IF o.stream_id < 0 THEN -1
  ELSE (o.stream_id % 256) + (IF SearchesList(o) THEN o.pls_codes[1] ELSE 0)

RateGiven(o) ==
  IF o.symbol_rate > 0 THEN << <<"SYMBOL_RATE", 1000 * o.symbol_rate>> >> ELSE << >>

BlindTuning(o) ==
  Algorithm("blind") \o System(AnySystem) \o SearchRange(o) \o RateGiven(o)
  \o Frequency \o PlsProps(NT, o) \o Stream(o.stream_id)

KnownTuning(o) ==
  Algorithm(IF o.algo = Algorithms["warm"] THEN "warm" ELSE "cold")
  \o System(o.delivery_system) \o << <<"MODULATION", o.modulation>> >>
  \o SearchRange(o) \o RateGiven(o) \o Frequency \o PlsProps(NT, o)
  \o Stream(StreamSelected(o))

TuneProps(o) ==
  (IF o.algo = Algorithms["blind"] THEN BlindTuning(o) ELSE KnownTuning(o))
  \o (IF o.bbframes_mode THEN << <<"OUTPUT_BBFRAMES", 1>> >> ELSE << >>)
  \o (IF o.command = Commands(NT)["iq"] THEN << <<"CONSTELLATION", o.num_samples>> >> ELSE << >>)

(* Rates of peaks at the boundaries of tune_it.                            *)
PeakRates == {0, 1999999, 2000000, 5000000}

Requests(p) ==
  CASE p = NB -> {<<"spectrum", 0>>, <<"blindscan", 0>>, <<"continue", 0>>, <<"tune", 0>>}
    [] p = SB -> {<<"spectrum", 0>>} \union ({"tune"} \X PeakRates)
    [] p = NT -> {<<"tune", 0>>}
    [] OTHER -> {}

Properties(p, r, o) ==
  CASE r[1] = "spectrum"  -> SpectrumProps(p, o)
    [] r[1] = "blindscan" -> BlindscanProps(o)
    [] r[1] = "continue"  -> ContinueProps(o)
    [] OTHER -> (CASE p = NB -> SweepTuneProps(o)
                   [] p = SB -> PeakTuneProps(o, r[2])
                   [] OTHER  -> TuneProps(o)) \o << <<"TUNE", 0>> >>

-------------------------------------------------------------------------------
(* clear: the driver forgets, or fails; then nothing is requested and the  *)
(* program exits, there or in the caller.                                  *)
NoRequest == << >>

Kept == cache                                           \* mutant of Cleared
Cleared == Nothing

Clear ==
  /\ pc = "work" /\ request = NoRequest /\ requests < MaxRequests
  /\ \E r \in Requests(prog) :
       \/ /\ request' = r
          /\ props' = Properties(prog, r, opts)
          /\ cache' = Cleared
          /\ executed' = Nothing
          /\ UNCHANGED pc
       \/ /\ pc' = "exit"
          /\ UNCHANGED <<request, props, cache, executed>>
  /\ requests' = requests + 1
  /\ UNCHANGED <<prog, line, args, positional_only, results, missing, at, opts, parses, outcome>>

(* What the driver keeps after the first n properties: the last value of   *)
(* each, on top of what it has kept so far.                                *)
KeptAfter(kept, n) ==
  [key \in DOMAIN kept \union {props[i][1] : i \in 1 .. n} |->
     IF \E i \in 1 .. n : props[i][1] = key
     THEN props[Max({i \in 1 .. n : props[i][1] = key})][2] ELSE kept[key]]

(* FE_SET_PROPERTY: the driver takes them in order and acts on the last.   *)
Send ==
  /\ request # NoRequest
  /\ cache' = KeptAfter(cache, Len(props))
  /\ executed' = cache'
  /\ request' = NoRequest
  /\ UNCHANGED <<vars, props, requests>>

(* It may refuse one of them; those before it are kept.  The callers exit, *)
(* but a task of stid135-blindscan goes on with its next peak.             *)
SurvivesRefusal == prog = SB /\ request[1] = "tune"

Refuse ==
  /\ request # NoRequest
  /\ \E n \in 0 .. Len(props) - 1 : cache' = KeptAfter(cache, n)
  /\ pc' = IF SurvivesRefusal THEN pc ELSE "exit"
  /\ request' = NoRequest
  /\ UNCHANGED <<prog, line, args, positional_only, results, missing, at, opts, parses, outcome,
                 props, executed, requests>>

(* The program's work is done.                                             *)
Finish ==
  /\ pc = "work" /\ request = NoRequest
  /\ pc' = "exit"
  /\ UNCHANGED <<prog, line, args, positional_only, results, missing, at, opts, parses, outcome,
                 requestVars>>

Done == pc = "exit" /\ UNCHANGED <<vars, requestVars>>

RequestInit ==
  /\ Init
  /\ request = NoRequest /\ props = << >> /\ cache = Nothing /\ executed = Nothing
  /\ requests = 0

Work == Clear \/ Send \/ Refuse \/ Finish
Next == (Parse /\ UNCHANGED requestVars) \/ Work \/ Done

Spec == RequestInit /\ [][Next]_<<vars, requestVars>>

-------------------------------------------------------------------------------
(* A request has room in cmdseq_t whatever the command line says, and no   *)
(* property occurs twice in it: of two the driver would keep the second.   *)
HasRoom == Len(props) <= Capacity
RequestFits ==
  /\ HasRoom
  /\ \A i, j \in DOMAIN props : props[i][1] = props[j][1] => i = j

(* The driver acts on what the request says and on nothing that an earlier *)
(* request has left, even one that was refused half way.                   *)
Executes == executed' \notin {executed, Nothing}
NothingStale ==
  [][Executes => executed' = KeptAfter(Nothing, Len(props))]_<<vars, requestVars>>

(* doc/tuning_scanning.md: codes can be added to the built-in ones with    *)
(* --pls-modes.  Every request with a list searches the built-in codes and *)
(* those that the command line lists.                                      *)
CodesAreAdded ==
  "PLS_SEARCH_LIST" \in DOMAIN executed =>
    /\ Range(DefaultPlsCodes) \subseteq Range(executed["PLS_SEARCH_LIST"])
    /\ \A text \in ToSet(Entries) \cap DOMAIN PlsEntries :
         CodeOf(text) \in Range(executed["PLS_SEARCH_LIST"])

===============================================================================
