----------------------------- MODULE MCRingLife -----------------------------
(* A small instance of RingLife for TLC: the writer is restarted twice.     *)
EXTENDS RingLife

CONSTANTS w, r1, nobody, gone

OneReader == {r1}
OneReaderProc == {w, r1}
Asked == {0, 2}
=============================================================================
