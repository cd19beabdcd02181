\* All lines of up to three tokens of a pool, some longer ones; two requests.
CONSTANTS
  PlsEntries <- SomeEntries
  CommandLines <- Lines
  Lexicon <- SomeLexicon
  Digits <- SomeDigits
  MaxRequests = 2
SPECIFICATION Spec
INVARIANTS
  ReadAsWritten
  NothingIgnored
  OptionsAreOfTheLine
  RequestFits
PROPERTY
  NothingStale
