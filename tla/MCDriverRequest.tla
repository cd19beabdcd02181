---------------------------- MODULE MCDriverRequest ----------------------------
(***************************************************************************)
(* Command lines for the four programs: every line of up to three tokens   *)
(* of a small pool, and longer ones chosen for what they combine.          *)
(***************************************************************************)
EXTENDS DriverRequest

Entry(text, class, name, value, pushed) ==
  [text |-> text, class |-> class, name |-> name, value |-> value, pushed |-> pushed,
   lower |-> text, numbers |-> {}, leading |-> {}, items |-> <<text>>]

Word(text)              == Entry(text, "word", "", "", "")
Upper(text, lower)      == [Word(text) EXCEPT !.lower = lower]
Numeral(text, n)        == [Word(text) EXCEPT !.numbers = {n}, !.leading = {n}]
Hexadecimal(text, n)    == [Word(text) EXCEPT !.numbers = {n}, !.leading = {0}]
Vector(text, items)     == [Word(text) EXCEPT !.items = items]
Long(text, name, value) == Entry(text, "long", name, value, "")
Short(text, name)       == Entry(text, "short", name, "", "")
Cluster(text, name, value, pushed) == Entry(text, "short", name, value, pushed)
Negative(text, n)       ==
  [Entry(text, "short", "1", "", "") EXCEPT !.numbers = {n}, !.leading = {n}]

AllEntries ==
  { Entry("--", "mark", "", "", ""),
     Word("true"), Word("no"), Word("wideband"), Word("blindscan"), Word("iq"),
     Word("cold"), Word("dvbc"), Word("V"), Upper("C", "c"), Upper("V", "v"), Word("UC"),
     Word("ROOT+12"), Word("GOLD+13"), Word("COMBO+262145"), Word("ROOT+1234567"),
     Numeral("0", 0), Numeral("1", 1), Numeral("2", 2), Numeral("12", 12), Numeral("16", 16),
     Numeral("17", 17), Hexadecimal("0x2", 2), Numeral("8192", 8192), Numeral("60001", 60001),
     Numeral("10800000", 10800000), Numeral("13000000", 13000000), Negative("-1", -1),
     Vector("[16,17]", <<"16", "17">>),
     Short("-a", "a"), Short("-c", "c"), Short("-d", "d"), Short("-e", "e"), Short("-h", "h"),
     Short("-p", "p"), Short("-r", "r"), Short("-s", "s"), Short("-v", "v"), Short("-x", "x"),
     Short("-A", "A"), Short("-M", "M"), Short("-S", "S"), Short("-R", "R"), Short("-b", "b"),
     Short("-f", "f"),
     Cluster("-a0", "a", "0", ""), Cluster("-pV", "p", "V", ""), Cluster("-va1", "v", "a1", "-a1"),
     Cluster("-a1", "a", "1", ""), Word("a1"),
     Long("--lnb-type=C", "lnb-type", "C"), Long("--lnb-type", "lnb-type", ""),
     Long("--delsys", "delsys", ""), Long("--pls-modes", "pls-modes", ""),
     Long("--pls-code", "pls-code", ""), Long("--pls-modes=ROOT+12", "pls-modes", "ROOT+12"),
     Long("--start-pls-code", "start-pls-code", ""), Long("--end-pls-code", "end-pls-code", ""),
     Long("--api-version=no", "api-version", "no"), Long("--bogus", "bogus", ""),
     Long("--fe-stream", "fe-stream", "") }

SomeLexicon ==
  [text \in {e.text : e \in AllEntries} |-> CHOOSE e \in AllEntries : e.text = text]
SomeDigits  == {"1"}

SomeEntries ==
  "ROOT+12" :> [mode |-> "ROOT", code |-> 12] @@ "GOLD+13" :> [mode |-> "GOLD", code |-> 13]
  @@ "COMBO+262145" :> [mode |-> "COMBO", code |-> 262145]

Pool(p) ==
  {"--", "-a", "2", "-va1", "-h", "--bogus"} \union
  CASE p \in Scanners -> {"--pls-modes", "ROOT+12", "wideband", "--lnb-type=C", "-d", "-e"}
    [] p = NT -> {"--pls-code", "GOLD+13", "-A", "cold", "-b", "-1"}
    [] OTHER  -> {"-p", "16", "-e", "[16,17]", "--fe-stream", "--api-version=no"}

ShortLines == UNION {{<<p, l>> : l \in SeqOf(Pool(p), 3)} : p \in Programs}

LongLines ==
  ({NB, SB} \X
   { <<"-c", "blindscan", "--pls-modes", "ROOT+12", "GOLD+13", "-pV", "--lnb-type", "wideband">>,
     <<"-a", "0", "2", "--pls-modes", "ROOT+1234567", "COMBO+262145">>,
     <<"--pls-modes=ROOT+12", "GOLD+13", "--start-pls-code", "0", "--end-pls-code", "12">>,
     <<"-s", "10800000", "-e", "2", "--delsys", "dvbc">>,
     <<"-s", "13000000", "-M", "60001">>, <<"--api-version=no", "--lnb-type=C">>,
     <<"--delsys", "12", "-c", "0x2", "-p", "V">>,
     <<"--pls-modes", "-va1", "ROOT+12", "--", "wideband", "--">>,
     <<"--lnb-type", "2", "-r", "-1", "-e", "-1", "-s", "0">> })
  \union ({NT} \X
   { <<"-A", "cold", "-c", "iq", "-b", "--pls-code", "ROOT+12", "GOLD+13", "-s", "17">>,
     <<"-A", "cold", "-s", "-1", "-S", "60001">>,
     <<"-A", "cold", "-S", "12", "-b", "-c", "iq", "--end-pls-code", "12", "-s", "2">>,
     <<"-A", "2", "-c", "1", "--end-pls-code", "12", "-d", "-b", "-p", "V">>,
     <<"-f", "10800000", "-S", "12", "-R", "wideband">> })
  \union ({ND} \X
   { <<"-p", "16", "17", "--", "-e">>, <<"-p", "8192", "-e">>, <<"-p", "16", "-va1", "-e", "-h">>,
     <<"-p", "[16,17]", "17", "-1", "-x">> })

Lines == ShortLines \union LongLines

===============================================================================
