------------------------------ MODULE MCNeumoDmx ------------------------------
(* Command lines with every way of choosing a stream.                       *)
EXTENDS NeumoDmx

Options(s, extract_es, p) ==
  [fe_stream |-> "fe_stream" \in s, stid |-> "stid" \in s, t2mi |-> "t2mi" \in s,
   extract_es |-> extract_es, pids |-> p]

AllRequests ==
  {Options({}, FALSE, <<>>), Options({"fe_stream"}, FALSE, <<270>>),
   Options({"stid", "t2mi"}, FALSE, <<FullStream>>), Options({}, TRUE, <<4096>>),
   Options({}, TRUE, <<FullStream>>), Options({}, FALSE, <<256, 257, 258>>)}
===============================================================================
