--------------------------- MODULE MCSpectrumCommand ---------------------------
(* Command lines and spectra for the model checker.                         *)
EXTENDS SpectrumCommand

Options(pols, start, end) == [pols |-> pols, start |-> start, end |-> end]

BothBands == {Options({V}, 10700000, 12750000), Options({H, V}, 11700000, 12750000),
              Options({H}, 10700000, 11700000)}

Found(n, positions) ==
  [n |-> n, candidates |-> [k \in DOMAIN positions |-> [at |-> positions[k]]]]

(* None, no candidate, two on the grid, one between two samples before one. *)
FewSpectra == {Found(0, <<>>), Found(3, <<>>), Found(3, <<1, 3>>), Found(3, <<0, 2>>)}
================================================================================
