------------------------------ MODULE MCNeumoTune ------------------------------
(* Both commands, both bands, the switching frequency, and the C band.      *)
EXTENDS NeumoTune

Options(cmd, pol, freq, diseqc, committed, uncommitted) ==
  [command |-> cmd, pol |-> pol, freq |-> freq, rf_in |-> TRUE, diseqc |-> diseqc,
   committed |-> committed, uncommitted |-> uncommitted]

AllRequests ==
  {Options("iq", "V", 10719000, <<"U", "C">>, -1, 8),
   Options("iq", "H", 11700000, <<"U", "C">>, 1, -1),
   Options("tune", "H", 12606000, <<"C", "U", "C", "U">>, 3, 9),
   Options("tune", "V", 3900000, <<"C">>, 0, -1),
   Options("tune", "none", 10719000, <<"U", "C">>, -1, -1),
   [Options("tune", "V", 12606000, <<>>, -1, -1) EXCEPT !.rf_in = FALSE],
   Options("iq", "V", 10719000, <<"M", " ", "U">>, -1, 0)}

OneRequest == {Options("iq", "V", 10719000, <<"U", "C">>, -1, 8)}

AllAnswers == {"MASTER", "SLAVE", "RETRY", "UNICABLE_RETRY", "UNCHANGED", "RELEASED",
               "NOT_SUPPORTED", "EINVAL", "FAILED"}
AllFailing == {"open", "info", "clear", "voltage", "tone_off", "message", "tone", "request",
               "getinfo"}
===============================================================================
