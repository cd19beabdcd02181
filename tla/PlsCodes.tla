------------------------------- MODULE PlsCodes -------------------------------
(***************************************************************************)
(* Physical layer scrambling codes: how the programs pack one into an      *)
(* integer, the codes they try without being told, and what the entries    *)
(* of --pls-modes (neumo-tune: --pls-code) do to that list.                *)
(***************************************************************************)
EXTENDS Integers, Sequences, SequencesExt

CONSTANT PlsEntries   \* what the texts that match (ROOT|GOLD|COMBO)\+[0-9]{1,6} say

Modes == [ROOT |-> 0, GOLD |-> 1, COMBO |-> 2]

ASSUME PlsAssumption ==
  \A text \in DOMAIN PlsEntries :
    PlsEntries[text].mode \in DOMAIN Modes /\ PlsEntries[text].code \in 0 .. 999999

(* Eight bits of timeout, eighteen of code, two of mode.  Six digits may   *)
(* exceed the eighteen bits: what is too much is cut off.                  *)
make_code(mode, code, timeout) ==
  (timeout % 2^8) + 2^8 * (code % 2^18) + 2^26 * (mode % 4)

DefaultPlsCodes ==
  << make_code(0, 16416, 0), make_code(0, 8, 0), make_code(1, 121212, 0),
     make_code(1, 262140, 0), make_code(1, 50416, 0), make_code(0, 211867, 0) >>

CodeOf(text) == make_code(Modes[PlsEntries[text].mode], PlsEntries[text].code, 0)

(* The flag that should empty the list once is declared in the loop: every *)
(* entry that matches empties it.  One that does not match is passed over. *)
AppendsCode(codes, text) ==                             \* mutant of TakeEntry
  IF text \in DOMAIN PlsEntries THEN Append(codes, CodeOf(text)) ELSE codes
TakeEntry(codes, text) ==
  IF text \in DOMAIN PlsEntries THEN <<CodeOf(text)>> ELSE codes

parse_pls(codes, entries) == FoldLeft(TakeEntry, codes, entries)

===============================================================================
