----------------------------- MODULE MCSecControl -----------------------------
(* The passes of a full scan, and command lines with and without switches.  *)
EXTENDS SecControl

FullScan == << <<0, "H">>, <<1, "H">>, <<0, "V">>, <<1, "V">> >>

Options(diseqc, committed, uncommitted) ==
  [diseqc |-> diseqc, committed |-> committed, uncommitted |-> uncommitted]

SwitchRequests ==
  {Options(<<"U", "C">>, c, u) : c, u \in {-1, 1}} \cup
  {Options(<<"U", " ", "C">>, 1, 1), Options(<<"C", "U">>, 1, 1), Options(<<"U", "M", "X">>, -1, 0),
   Options(<<>>, -1, -1)}

(* No switch, a string that begins with a pause, and one that is a burst.   *)
UnusualRequests ==
  {Options(<<"U", "C">>, -1, -1), Options(<<" ", "U">>, -1, 0), Options(<<"M">>, -1, -1)}

AllAnswers == {"MASTER", "SLAVE", "RETRY", "UNICABLE_RETRY", "UNCHANGED",
               "RELEASED", "NOT_SUPPORTED", "FAILED"}
WillingOrBusy == {"MASTER", "UNCHANGED", "UNICABLE_RETRY"}
===============================================================================
