------------------------------ MODULE MCSweepScan ------------------------------
(* Carriers at the ends and in the middle of the window, narrow and wide.   *)
EXTENDS SweepScan

Found == {-5000, -1000, 0, 4999, 5000} \X {0, 675, 14850}
Unlocked == {9750000, 10700000, 10730000}
================================================================================
