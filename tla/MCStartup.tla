-------------------------------- MODULE MCStartup --------------------------------
(* Programs, adapters and drivers for the model checker.                    *)
EXTENDS Startup

AllPrograms == {NB, SB, NT, ND}

(* None, one adapter, two, the same twice, and one without the RF input     *)
(* asked for.                                                               *)
Lists == {<<>>, <<0>>, <<0, 1>>, <<1, 1>>, <<2>>}
Inputs == [a \in 0 .. 2 |-> IF a = 2 THEN {0} ELSE {0, 1}]
AllVersions == {"absent", "unreadable", "foreign", "untyped", "unnumbered", "neumo"}
================================================================================
