----------------------------- MODULE MCFFOutput -----------------------------
(* A small instance of FFOutput for TLC: two frames and two blocks of       *)
(* samples, each of two units; ffmpeg may end within any of them.           *)
EXTENDS FFOutput

TwoUnits == [s \in {"video", "audio"} |-> 2]
Units == [s \in {"video", "audio"} |-> 4]
BothPipes == {"video", "audio"}
ThePicture == {"uyvy_frame"}
=============================================================================
