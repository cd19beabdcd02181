----------------------------- MODULE CommandLine -----------------------------
(***************************************************************************)
(* The command line parser of the four programs: CLI::App of the vendored  *)
(* CLI11 as they use it - a flat table of options, no subcommands, no      *)
(* configuration file, nothing required - and parse_options around it.     *)
(*                                                                         *)
(* The parser takes the tokens one by one (_parse), then runs the callback *)
(* of every option that was given in the order of the table (_process),    *)
(* then refuses what is left over (_process_extras).  neumo-blindscan      *)
(* parses its command line twice, with a parser of its own each time but   *)
(* into the same options.                                                  *)
(*                                                                         *)
(* A token is its text.  Lexicon says how the text splits and reads:       *)
(*   class   "mark" for --, "long" for --name, "short" for -x, or "word"   *)
(*   name    the name after the dashes                                     *)
(*   value   what is attached to it (--name=value, -xvalue), or ""         *)
(*   pushed  the token -value that a flag puts back for -xvalue            *)
(*   lower   the text in small letters                                     *)
(*   numbers what stoll reads, if it reads the whole text and it fits      *)
(*   leading the decimal number it begins with, if it does                 *)
(*   items   the texts it stands for in a vector ("[16,17]"), at least one *)
(*           (a vector of none, "[]", is left out)                         *)
(***************************************************************************)
EXTENDS ProgramOptions

CONSTANTS
  CommandLines,  \* pairs of a program and a sequence of tokens
  Lexicon,       \* external: how texts split and read
  Digits         \* the names of short options that are digits

ASSUME CommandLineAssumption ==
  /\ \A c \in CommandLines : c[1] \in Programs /\ c[2] \in Seq(DOMAIN Lexicon)
  /\ \A text \in DOMAIN Lexicon :
       LET t == Lexicon[text]
       IN  /\ t.class \in {"mark", "long", "short", "word"}
           /\ t.class = "mark" <=> text = "--"
           /\ {t.value, t.pushed} \subseteq DOMAIN Lexicon \union {""}
           /\ t.pushed # "" => t.class = "short" /\ t.value # ""
           /\ t.numbers \subseteq Int /\ \A m, n \in t.numbers : m = n
           /\ t.leading \subseteq Int /\ \A m, n \in t.leading : m = n
           /\ t.items \in Seq(DOMAIN Lexicon) \ {<< >>}
  /\ "true" \in DOMAIN Lexicon

LocalVariables == {"help", "pls_entries"}  \* what a callback sets outside of options_t

(* The tables and defaults: add_option refuses a name that another option  *)
(* has, and no two options set one variable; what a callback sets outside  *)
(* of options_t is no member of it; of the range of neumo-blindscan, which *)
(* parse_options completes, the ends are whole numbers.                    *)
RangeMembers == {"delivery_system", "lnb_type", "freq", "start_freq", "end_freq", "pls_codes"}

ASSUME TableAssumption ==
  \A p \in Programs :
    /\ Len(Table[p]) \in Nat /\ DOMAIN Table[p] = 1 .. Len(Table[p])
    /\ \A o1, o2 \in DOMAIN Table[p] :
         \/ Table[p][o1].snames \cap Table[p][o2].snames # {}
         \/ Table[p][o1].lnames \cap Table[p][o2].lnames # {}
         \/ Table[p][o1].var = Table[p][o2].var
         => o1 = o2
    /\ \A o \in DOMAIN Table[p] :
         Table[p][o].var \in {"start_freq", "end_freq"} =>
           Table[p][o].conv = "int" /\ ~Table[p][o].many
    /\ Defaults[p] = [v \in DOMAIN Defaults[p] |-> Defaults[p][v]]
    /\ DOMAIN Defaults[p] \cap LocalVariables = {}
    /\ p = NB => /\ RangeMembers \subseteq DOMAIN Defaults[p]
                 /\ Defaults[p]["start_freq"] \in Int /\ Defaults[p]["end_freq"] \in Int

VARIABLES
  prog, line,       \* the program, and argv from the last parse on
  pc,
  args,             \* the tokens not looked at
  positional_only,
  results,          \* the texts each option was given
  missing,          \* tokens that are nobody's, with their class
  at,               \* the option whose callback is next
  opts,             \* options_t
  parses,           \* how often parse_options was called
  outcome           \* how parse_options ended, or the exception

given == <<prog, line>>
vars  == <<prog, line, pc, args, positional_only, results, missing, at, opts, parses, outcome>>

Options == Table[prog]
Indices == DOMAIN Options

Start(p, l) ==
  /\ prog = p /\ line = l
  /\ args = l
  /\ results = [o \in DOMAIN Table[p] |-> << >>]
  /\ opts = Defaults[p]
  /\ pc = "parse" /\ positional_only = FALSE /\ missing = << >> /\ at = 1
  /\ parses = 1 /\ outcome = "running"

Init == \E c \in CommandLines : Start(c[1], c[2])

-------------------------------------------------------------------------------
(* The parser.                                                             *)
Class(text) ==
  LET t == Lexicon[text]
  IN  IF /\ t.class = "short" /\ t.name \in Digits
         /\ \A o \in Indices : t.name \notin Options[o].snames
      THEN "word" ELSE t.class

Next1    == Head(args)
Attached == Lexicon[Next1].value

(* The options a token names; no two options share a name.                 *)
Named(text) ==
  LET name == Lexicon[text].name
  IN  CASE Class(text) = "long"  -> {o \in Indices : name \in Options[o].lnames}
        [] Class(text) = "short" -> {o \in Indices : name \in Options[o].snames}
        [] OTHER -> {}

IsOption == ~positional_only /\ Class(Next1) \in {"long", "short"}
IsFlag(o) == Options[o].conv = "flag"

Items(o, text) == IF Options[o].many THEN Lexicon[text].items ELSE <<text>>
ItemsOf(o, texts) == FlattenSeq([i \in DOMAIN texts |-> Items(o, texts[i])])

Give(o, texts) == results' = [results EXCEPT ![o] = @ \o ItemsOf(o, texts)]

Parsing == pc = "parse" /\ args # << >> /\ UNCHANGED <<given, at, opts, parses>>

MoveToMissing(class) == missing' = Append(missing, <<class, Next1>>)

(* "--" is remembered as left over, and all that follows is positional.    *)
ParseMark ==
  /\ Parsing
  /\ ~positional_only /\ Class(Next1) = "mark"
  /\ positional_only' = TRUE
  /\ MoveToMissing("mark")
  /\ args' = Tail(args)
  /\ UNCHANGED <<pc, results, outcome>>

(* A flag takes what --flag=value attaches.  What follows a short flag in  *)
(* the same token is put back as a token of short options.                 *)
PushBack ==
  IF Class(Next1) = "short" /\ Attached # "" THEN <<Lexicon[Next1].pushed>> ELSE << >>

ParseFlag ==
  /\ Parsing
  /\ IsOption
  /\ \E o \in Named(Next1) :
       /\ IsFlag(o)
       /\ Give(o, <<IF Class(Next1) = "long" /\ Attached # "" THEN Attached ELSE "true">>)
  /\ args' = PushBack \o Tail(args)
  /\ UNCHANGED <<pc, positional_only, missing, outcome>>

(* How many of the tokens a vector takes beyond the first: words, as long  *)
(* as they last.                                                           *)
Words(tokens) ==
  LET stops == {i \in DOMAIN tokens : Class(tokens[i]) # "word"}
  IN  IF stops = {} THEN Len(tokens) ELSE Min(stops) - 1

EatsNext(tokens) ==                                     \* mutant of MarkEaten
  IF tokens # << >> THEN Tail(tokens) ELSE tokens
MarkEaten(tokens) ==
  IF tokens # << >> /\ Class(Head(tokens)) = "mark" THEN Tail(tokens) ELSE tokens

(* An option takes what is attached to its name or else the next token,    *)
(* whatever that looks like; a vector takes the words after it too, and a  *)
(* "--" that ends them.                                                    *)
NextToken == IF Len(args) > 1 THEN <<args[2]>> ELSE << >>  \* mutant of FirstValue
FirstValue ==
  IF Attached # "" THEN <<Attached>> ELSE IF Len(args) > 1 THEN <<args[2]>> ELSE << >>
AfterFirst == IF Attached # "" THEN Tail(args) ELSE Tail(Tail(args))

ParseOption ==
  /\ Parsing
  /\ IsOption
  /\ \E o \in Named(Next1) :
       /\ ~IsFlag(o)
       /\ IF FirstValue = << >>
          THEN /\ outcome' = "ArgumentMismatch"
               /\ pc' = "exit"
               /\ args' = << >>
               /\ UNCHANGED results
          ELSE /\ LET more == IF Options[o].many THEN Words(AfterFirst) ELSE 0
                      rest == SubSeq(AfterFirst, more + 1, Len(AfterFirst))
                  IN  /\ Give(o, FirstValue \o SubSeq(AfterFirst, 1, more))
                      /\ args' = IF Options[o].many THEN MarkEaten(rest) ELSE rest
               /\ UNCHANGED <<pc, outcome>>
  /\ UNCHANGED <<positional_only, missing>>

ParseUnknown ==
  /\ Parsing
  /\ IsOption
  /\ Named(Next1) = {}
  /\ MoveToMissing(Class(Next1))
  /\ args' = Tail(args)
  /\ UNCHANGED <<pc, positional_only, results, outcome>>

(* A word goes to the first positional argument that wants one.            *)
Wanting == {o \in Indices : Options[o].pname # "" /\ (Options[o].many \/ results[o] = << >>)}

ParsePositional ==
  /\ Parsing
  /\ positional_only \/ Class(Next1) = "word"
  /\ IF Wanting # {}
     THEN Give(Min(Wanting), <<Next1>>) /\ UNCHANGED missing
     ELSE MoveToMissing("word") /\ UNCHANGED results
  /\ args' = Tail(args)
  /\ UNCHANGED <<pc, positional_only, outcome>>

EndOfLine ==
  /\ pc = "parse" /\ args = << >>
  /\ pc' = "callbacks"
  /\ UNCHANGED <<given, args, positional_only, results, missing, at, opts, parses, outcome>>

-------------------------------------------------------------------------------
(* The callbacks.  CheckedTransformer finds a name, or accepts the number  *)
(* of an enumerator written as the program would write it.                 *)
Search(map, text) == {map[name] : name \in {Lexicon[text].lower} \cap DOMAIN map}

Enumerators(o, text) ==
  LET map == Options[o].choices
  IN  IF Search(map, text) # {} THEN Search(map, text) ELSE {n \in Range(map) : ToString(n) = text}

Validates(o, text) == Options[o].conv = "choice" => Enumerators(o, text) # {}
Valid(o)   == \A i \in DOMAIN results[o] : Validates(o, results[o][i])
Reduces(o) == Options[o].many \/ IsFlag(o) \/ Len(results[o]) = 1

(* A flag's text is a word for yes or no, or a number however it goes on.   *)
Affirmative == {"true", "t", "y", "+", "on", "yes", "enable"}
Negatory    == {"false", "0", "f", "n", "-", "off", "no", "disable"}

to_flag_value(text) ==
  LET lower == Lexicon[text].lower
  IN  IF lower \in Affirmative THEN {1} ELSE IF lower \in Negatory THEN {-1}
      ELSE Lexicon[text].leading

Converts(o, text) ==
  CASE Options[o].conv = "int"  -> Lexicon[text].numbers # {}
    [] Options[o].conv = "flag" -> to_flag_value(text) # {}
    [] OTHER -> TRUE

Converted(o, text) ==
  CASE Options[o].conv = "int"    -> Max(Lexicon[text].numbers)
    [] Options[o].conv = "flag"   -> Max(to_flag_value(text)) > 0
    [] Options[o].conv = "choice" -> CHOOSE n \in Enumerators(o, text) : TRUE
    [] OTHER -> text

(* A flag takes the last of its results; a vector is cleared first.        *)
ValueOf(o) ==
  IF Options[o].many THEN [i \in DOMAIN results[o] |-> Converted(o, results[o][i])]
  ELSE Converted(o, Last(results[o]))

Fails(exception) == outcome' = exception /\ pc' = "exit" /\ UNCHANGED <<opts, at>>

AllConvert(o) ==
  IF IsFlag(o) THEN Converts(o, Last(results[o]))
  ELSE \A i \in DOMAIN results[o] : Converts(o, results[o][i])

(* _process_callbacks goes through the table.                              *)
ToRun == {o \in Indices : o >= at /\ results[o] # << >>}

RunCallback ==
  /\ pc = "callbacks"
  /\ \E o \in ToRun :
       /\ \A other \in ToRun : o <= other
       /\ IF ~Valid(o) THEN Fails("ValidationError")
          ELSE IF ~Reduces(o) THEN Fails("ArgumentMismatch")
          ELSE IF Options[o].var # "help" /\ ~AllConvert(o) THEN Fails("ConversionError")
          ELSE /\ opts' = IF Options[o].var \in LocalVariables THEN opts
                          ELSE [opts EXCEPT ![Options[o].var] = ValueOf(o)]
               /\ at' = o + 1
               /\ UNCHANGED <<pc, outcome>>
  /\ UNCHANGED <<given, args, positional_only, results, missing, parses>>

Entries ==
  FlattenSeq([o \in Indices |-> IF Options[o].var = "pls_entries" THEN results[o] ELSE << >>])

(* Help is asked for only after the callbacks; then what is left over is   *)
(* refused; then parse_options goes on with what was parsed.               *)
HelpWanted == \E o \in Indices : Options[o].var = "help" /\ results[o] # << >>
LeftOver   == {i \in DOMAIN missing : missing[i][1] # "mark"}

EndOfCallbacks ==
  /\ pc = "callbacks"
  /\ ToRun = {}
  /\ IF HelpWanted THEN Fails("CallForHelp")
     ELSE IF LeftOver # {} THEN Fails("ExtrasError")
     ELSE LET o == AfterParsing(prog, opts, Entries)
          IN  IF Acceptable(prog, o)
              THEN /\ pc' = "parsed" /\ opts' = o
                   /\ UNCHANGED <<at, outcome>>
              ELSE Fails("refused")
  /\ UNCHANGED <<given, args, positional_only, results, missing, parses>>

(* neumo-blindscan starts over, with new results and the options as set.   *)
ParseAgain ==
  /\ pc = "parsed" /\ prog = NB /\ parses = 1
  /\ parses' = 2
  /\ pc' = "parse" /\ args' = line
  /\ results' = [o \in Indices |-> << >>]
  /\ missing' = << >> /\ positional_only' = FALSE /\ at' = 1
  /\ UNCHANGED <<given, opts, outcome>>

Parsed ==
  /\ pc = "parsed" /\ (prog = NB => parses = 2)
  /\ outcome' = "parsed" /\ pc' = "work"
  /\ UNCHANGED <<given, args, positional_only, results, missing, at, opts, parses>>

Parse ==
  \/ ParseMark \/ ParseFlag \/ ParseOption \/ ParseUnknown \/ ParsePositional \/ EndOfLine
  \/ RunCallback \/ EndOfCallbacks \/ ParseAgain \/ Parsed

-------------------------------------------------------------------------------
Accepted == pc = "parsed"

(* What the line says of option o where token i names it: the attached     *)
(* value or the next token; of a vector also the words that follow.  A     *)
(* token of several letters says what its pieces say.                      *)
Pieces(text) ==
  {text} \union (IF \E o \in Named(text) : IsFlag(o) THEN {Lexicon[text].pushed} \ {""} ELSE {})
Naming(i, o) == {text \in Pieces(line[i]) : o \in Named(text)}

SaidAt(i, o) ==
  LET attached == {Lexicon[text].value : text \in Naming(i, o)}
      after == IF Options[o].many
               THEN {k \in i + 1 .. Len(line) : \A m \in i + 2 .. k : Class(line[m]) = "word"}
               ELSE {i + 1} \cap DOMAIN line
      next == IF "" \in attached \/ Options[o].many THEN {line[k] : k \in after} ELSE {}
  IN  UNION {ToSet(Items(o, text)) : text \in (attached \ {""}) \union next}

(* Of an accepted line every option has the value that stands at its name, *)
(* and a plain option is named once: two names, an attached value, tokens  *)
(* of several letters and words after a vector must not change hands.  The *)
(* positional argument, which any word may set, is left out.               *)
ReadAsWritten ==
  Accepted =>
    \A o \in {o \in Indices : ~IsFlag(o) /\ Options[o].pname = "" /\ results[o] # << >>} :
      /\ Options[o].many \/ Len(results[o]) = 1
      /\ \A i \in DOMAIN results[o] : \E j \in DOMAIN line :
           Naming(j, o) # {} /\ results[o][i] \in SaidAt(j, o)

(* No token of an accepted line is passed over: each is "--", or names an  *)
(* option that has a value, or is the value of one.                        *)
NothingIgnored ==
  Accepted =>
    \A i \in DOMAIN line :
      \/ line[i] = "--"
      \/ \A text \in Pieces(line[i]) : \E o \in Named(text) : results[o] # << >>
      \/ \E o \in Indices : ToSet(Items(o, line[i])) \subseteq ToSet(results[o])

(* What a program works with depends on its command line only: the value   *)
(* given or the default, completed once.  That neumo-blindscan parses its  *)
(* line twice into the same options, and the order of the callbacks, make  *)
(* no difference.                                                          *)
Settled(v) ==
  LET setters == {o \in Indices : Options[o].var = v /\ results[o] # << >>}
  IN  IF setters = {} THEN Defaults[prog][v] ELSE ValueOf(CHOOSE o \in setters : TRUE)

OptionsAreOfTheLine ==
  Accepted =>
    opts = AfterParsing(prog, [v \in DOMAIN opts |-> Settled(v)], Entries)

(* What the parser is sometimes believed to do, and does not: a word that  *)
(* follows no option is refused; nothing that looks like an option is      *)
(* taken for a value; --help is answered whatever else the line says.      *)
StrayWordsAreRefused ==
  Accepted =>
    \A o \in Indices : Options[o].pname # "" /\ results[o] # << >> =>
      \E j \in DOMAIN line : Naming(j, o) # {}
OptionsAreNoValues ==
  Accepted => \A o \in Indices : \A i \in DOMAIN results[o] : Class(results[o][i]) = "word"
HelpIsAnswered ==
  pc = "exit" => (outcome = "CallForHelp" <=> HelpWanted)

===============================================================================
