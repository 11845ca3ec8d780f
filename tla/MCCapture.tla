------------------------------ MODULE MCCapture ------------------------------
(* A small instance of Capture for TLC: clockd is restarted once.           *)
EXTENDS Capture

CONSTANTS c1, c2, i1, nobody

ClockdPids == {c1, c2}
IngestPids == {i1}
AllPids == ClockdPids \cup IngestPids
=============================================================================
