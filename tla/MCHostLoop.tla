----------------------------- MODULE MCHostLoop -----------------------------
(* HostLoop with constants for TLC: a second of 4, one or two ticks in it. *)
EXTENDS HostLoop

MCConfigs ==
    [sendRate : {1, 2}, recovery : {TRUE}, recoveryRate : {1, 2}] \cup
    [sendRate : {2}, recovery : {FALSE}, recoveryRate : {2}]
MCBytes == {0, 1}
MCWorkTimes == {1, 5}
=============================================================================
