---------------------------- MODULE ProgramOptions ----------------------------
(***************************************************************************)
(* What parse_options of each program declares to the command line parser, *)
(* the values its options have when they are not given, and what it makes  *)
(* of them once the line is parsed.                                        *)
(*                                                                         *)
(* An option has short and long names, perhaps the name of a positional    *)
(* argument, the variable it sets and how its text is converted; "many"    *)
(* is a vector, which takes any number of words.  Enumerations are the     *)
(* numbers of the C enumerators.                                           *)
(***************************************************************************)
EXTENDS PlsCodes, ScanPlan, FiniteSets, Functions, TLC

NB == "neumo-blindscan"
SB == "stid135-blindscan"
NT == "neumo-tune"
ND == "neumo-dmx"

Programs == {NB, SB, NT, ND}
Scanners == {NB, SB}

(* The maps of names to enumerators.  Names are compared without case.     *)
Commands(prog) ==
  IF prog = NT THEN [tune |-> 0, iq |-> 1] ELSE [blindscan |-> 0, spectrum |-> 1, iq |-> 2]
BlindscanMethods == [sweep |-> 1, fft |-> 2]
SpectrumMethods  == [sweep |-> 0, fft |-> 1]
LnbNames         == "universal" :> 1 @@ "wideband" :> 2 @@ "wideband-uk" :> 3 @@ "c" :> 4
Algorithms       == [blind |-> 0, warm |-> 1, cold |-> 2]
Pols(prog)       == IF prog = NT THEN [v |-> 2, h |-> 1] ELSE [v |-> 2, h |-> 1, both |-> 3]

(* The enumerators of fe_delivery_system with a name, and their classes.   *)
delsys_map ==
  [dvbc |-> 1, dvbt |-> 3, dss |-> 4, dvbs |-> 5, dvbs2 |-> 6, dvbh |-> 7, isdbt |-> 8,
   isdbs |-> 9, isdbc |-> 10, atsc |-> 11, atscmh |-> 12, dtmb |-> 13, cmmb |-> 14,
   dab |-> 15, dvbt2 |-> 16, turbo |-> 17, dvbc2 |-> 19, dvbs2x |-> 20, dcii |-> 21,
   auto |-> 22]

SystemClass(sys) ==
  CASE sys \in {delsys_map[n] : n \in {"dvbs2", "dvbs", "dss", "isdbs", "dvbs2x"}} -> "sat"
    [] sys \in {delsys_map[n] : n \in {"dvbc", "isdbc", "dvbc2"}} -> "cable"
    [] sys \in {delsys_map[n] : n \in {"dvbt", "dvbt2", "isdbt", "atsc"}} -> "terrestrial"
    [] OTHER -> "other"

fe_modulation ==
  << "qpsk", "qam_16", "qam_32", "qam_64", "qam_128", "qam_256", "qam_auto", "vsb_8", "vsb_16",
     "psk_8", "apsk_16", "apsk_32", "dqpsk", "qam_4_nr", "qam_1024", "qam_4096", "apsk_8_l",
     "apsk_16_l", "apsk_32l", "apsk_64", "apsk_64l", "apsk_128", "apsk_256", "apsk_128l",
     "apsk_256l", "apsk_1024", "c_qpsk", "i_qpsk", "q_qpsk", "c_oqpsk", "qam_512" >>

modulation_map ==
  [n \in Range(fe_modulation) |-> (CHOOSE i \in DOMAIN fe_modulation : fe_modulation[i] = n) - 1]

-------------------------------------------------------------------------------
(* add_option and add_flag.                                                *)
Declare(short, long, var, conv, choices) ==
  [snames |-> {short} \ {""}, lnames |-> {long} \ {""}, pname |-> "", var |-> var,
   conv |-> conv, many |-> FALSE, choices |-> choices]

Flag(short, long, var) == Declare(short, long, var, "flag", << >>)
Whole(short, long, var)  == Declare(short, long, var, "int", << >>)
Text(short, long, var) == Declare(short, long, var, "text", << >>)
Enum(short, long, var, choices) == Declare(short, long, var, "choice", choices)

Many(option) == [option EXCEPT !.many = TRUE]

Help    == Flag("h", "help", "help")
Version == Flag("v", "api-version", "show_api_version")

(* A name without dashes is that of a positional argument: "--lnb-type,L". *)
LnbType == [Enum("", "lnb-type", "lnb_type", LnbNames) EXCEPT !.pname = "L"]

DishOptions ==
  << Text("d", "diseqc", "diseqc"), Whole("U", "uncommitted", "uncommitted"),
     Whole("C", "committed", "committed") >>

PlsOptions(name) ==
  << Many(Text("", name, "pls_entries")), Whole("", "start-pls-code", "start_pls_code"),
     Whole("", "end-pls-code", "end_pls_code") >>

(* The two scanners differ in the adapters, in the letter R and in what    *)
(* limits a search.                                                        *)
ScannerTable(prog) ==
  << Help, Version, Enum("c", "command", "command", Commands(prog)),
     Enum("", "blindscan-method", "blindscan_method", BlindscanMethods),
     Enum("", "delsys", "delivery_system", delsys_map), LnbType,
     Enum("", "spectrum-method", "spectrum_method", SpectrumMethods),
     IF prog = SB THEN Many(Whole("a", "adapter", "adapter_no")) ELSE Whole("a", "adapter", "adapter_no"),
     Whole("r", "rf-in", "rf_in"), Whole("", "frontend", "frontend_no"),
     Whole("s", "start-freq", "start_freq"), Whole("e", "end-freq", "end_freq"),
     Whole("S", "step-freq", "step_freq") >>
  \o (IF prog = SB
      THEN << Whole("", "spectral-resolution", "spectral_resolution"),
              Whole("F", "fft-size", "fft_size"), Whole("R", "search-range", "search_range") >>
      ELSE << Whole("R", "spectral-resolution", "spectral_resolution"),
              Whole("F", "fft-size", "fft_size"), Whole("M", "max-symbol-rate", "max_symbol_rate"),
              Whole("", "search-range", "search_range") >>)
  \o << Enum("p", "pol", "pol", Pols(prog)) >> \o PlsOptions("pls-modes") \o DishOptions

TuneTable ==
  << Help, Version, Enum("c", "command", "command", Commands(NT)),
     Enum("A", "algo", "algo", Algorithms), Whole("a", "adapter", "adapter_no"),
     Whole("r", "rf-in", "rf_in"), Whole("", "frontend", "frontend_no"),
     Whole("S", "symbol-rate", "symbol_rate"), Enum("m", "modulation", "modulation", modulation_map),
     Enum("", "delsys", "delivery_system", delsys_map), Whole("R", "search-range", "search_range"),
     Enum("p", "pol", "pol", Pols(NT)), Whole("n", "num-samples", "num_samples"),
     Whole("f", "frequency", "freq"), Whole("s", "stream-id", "stream_id") >>
  \o PlsOptions("pls-code")
  \o << Whole("T", "pls-search-timeout", "pls_search_timeout"), Text("d", "diseqc", "diseqc"),
        Flag("b", "bb_frames", "bbframes_mode"), Whole("U", "uncommitted", "uncommitted"),
        Whole("C", "committed", "committed") >>

DmxTable ==
  << Help, Version, Whole("a", "adapter", "adapter_no"), Whole("d", "demux", "demux_no"),
     Flag("", "fe-stream", "fe_stream"), Whole("", "stid-pid", "stid_pid"),
     Whole("", "stid-isi", "stid_isi"), Whole("", "t2mi-pid", "t2mi_pid"),
     Whole("", "t2mi-plp", "t2mi_plp"), Many(Whole("p", "pid", "pids")),
     Flag("e", "extract-es", "extract_es") >>

Table ==
  [prog \in Programs |->
     IF prog \in Scanners THEN ScannerTable(prog) ELSE IF prog = NT THEN TuneTable ELSE DmxTable]

-------------------------------------------------------------------------------
(* The members of options_t and what they are initialised with.            *)
Shared == [show_api_version |-> FALSE, adapter_no |-> 0]

DishDefaults ==
  Shared @@ [command |-> 0, delivery_system |-> 6, lnb_type |-> 1, search_range |-> 10000,
   pls_codes |-> DefaultPlsCodes, start_pls_code |-> -1, end_pls_code |-> -1, rf_in |-> -1,
   frontend_no |-> 0, diseqc |-> "UC", uncommitted |-> -1, committed |-> -1,
   num_samples |-> 1024, stream_id |-> -1]

ScannerDefaults(prog) ==
  [command |-> 1, blindscan_method |-> 2, freq |-> 10700000, start_freq |-> -1,
   end_freq |-> -1, step_freq |-> 6000, pol |-> 3,
   spectrum_method |-> IF prog = SB THEN 1 ELSE 0,
   spectral_resolution |-> IF prog = SB THEN 0 ELSE 2000,
   fft_size |-> IF prog = SB THEN 512 ELSE 256]
  @@ (IF prog = SB THEN [adapter_no |-> << >>] ELSE [max_symbol_rate |-> 45000])
  @@ DishDefaults

Defaults ==
  [prog \in Programs |->
    IF prog \in Scanners THEN ScannerDefaults(prog)
    ELSE IF prog = NT
    THEN [algo |-> 0, freq |-> -1, symbol_rate |-> -1, modulation |-> modulation_map["psk_8"],
          pol |-> 0, bbframes_mode |-> FALSE, pls_search_timeout |-> 25] @@ DishDefaults
    ELSE [pids |-> << >>, demux_no |-> 0, fe_stream |-> FALSE, stid_pid |-> -1, stid_isi |-> -1,
          t2mi_pid |-> -1, t2mi_plp |-> -2, extract_es |-> FALSE] @@ Shared]

-------------------------------------------------------------------------------
(* After parsing.  pls_entries is a local variable of parse_options and    *)
(* empty unless the option is given.                                       *)
LnbNameOf(lnb) == <<"UNIVERSAL_LNB", "WIDEBAND_LNB", "WIDEBAND_UK_LNB", "C_LNB">>[lnb]

WithLnb(o) == [o EXCEPT !.lnb_type = IF o.freq < 4800000 THEN 4 ELSE @]

WithCodes(o, entries) == [WithLnb(o) EXCEPT !.pls_codes = parse_pls(@, entries)]

WithRange(o) ==
  LET range == ScanRange(SystemClass(o.delivery_system), LnbNameOf(o.lnb_type),
                         o.start_freq, o.end_freq)
  IN  [o EXCEPT !.start_freq = range[1], !.end_freq = range[2]]

AfterParsing(prog, o, entries) ==
  IF prog = ND THEN o
  ELSE IF prog = NT THEN WithCodes(o, entries) ELSE WithRange(WithCodes(o, entries))

(* What parse_options refuses itself: two assertions, and an elementary    *)
(* stream that is not that of exactly one pid.                             *)
AllPids == 8192

Acceptable(prog, o) ==
  /\ prog = NB => o.max_symbol_rate \in 0 .. 60000
  /\ prog = NT => o.symbol_rate <= 60000
  /\ prog = ND => (o.extract_es => Len(o.pids) = 1 /\ o.pids[1] # AllPids)

===============================================================================
