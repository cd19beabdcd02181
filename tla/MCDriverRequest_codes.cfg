\* Codes of --pls-modes replace the built-in ones, and each other.
CONSTANTS
  PlsEntries <- SomeEntries
  CommandLines <- Lines
  Lexicon <- SomeLexicon
  Digits <- SomeDigits
  MaxRequests = 2
SPECIFICATION Spec
INVARIANT
  CodesAreAdded
