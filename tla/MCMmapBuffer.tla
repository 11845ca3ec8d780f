---------------------------- MODULE MCMmapBuffer ----------------------------
(* Small instances of MmapBuffer for TLC.                                   *)
EXTENDS MmapBuffer

CONSTANTS w, r1, nobody

OneReader == {r1}
OneReaderProc == {w, r1}

Asked == {0, 1, 2}
=============================================================================
