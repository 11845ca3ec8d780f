------------------------------ MODULE FFOutput ------------------------------
(***************************************************************************)
(* Playing a file through the output card: src/core/ffoutput.cpp.          *)
(*                                                                         *)
(* ffmpeg, in a process of its own, decodes into a video and an audio      *)
(* pipe.  The main loop gives the card the next frame when the last one is *)
(* stale, gives aplay, another process, the next samples through a third   *)
(* pipe when it has taken the last, and reads what ffmpeg has written.     *)
(* There is one picture in memory, the same for every frame.               *)
(***************************************************************************)
EXTENDS DecklinkOutput, PipeBuffer

CONSTANTS MaxUnits,     \* bound on what ffmpeg writes into each pipe
          AplayPipe     \* units the pipe to aplay holds

ASSUME TwoPipes == Pipes = {"video", "audio"}
ASSUME OnePicture == Pictures = {"uyvy_frame"}
ASSUME BoundsAssumption == MaxUnits \in [Pipes -> Nat] /\ AplayPipe \in Nat \ {0}

VARIABLES main,         \* where the main loop is
          drawn,        \* the video blocks drawn so far
          buf,          \* PipeAudioOutput: what is left of data_buf
          clean,        \* buf_avail was 0 when it was first read
          audio,        \* the audio blocks taken so far
          played,       \* the units written to aplay, in order
          inAplayPipe,  \* how many of them it has not read yet
          aplay         \* "runs" or "dead"

ffVars == <<main, drawn, buf, clean, audio, played, inAplayPipe, aplay>>
vars == <<outputVars, pipeVars, ffVars>>

uyvy_frame == "uyvy_frame"
Ended == {"done", "killed"}
Content == Nat \cup {Torn}

TypeOK ==
    /\ PipeTypeOK
    /\ rcount \in [Pictures -> Nat] /\ content \in [Pictures -> Content]
    /\ {current_frame, new_frame, old_frame, in_frame} \subseteq Pictures \cup {Null}
    /\ current_frame_is_stale \in BOOLEAN
    /\ card \in {"playing", "completed", "taken", "copying", "copied"}
    /\ {copied, scheduled} \subseteq Content
    /\ main \in {"video", "memcpy", "set", "swap", "drop", "audio",
                "update video", "update audio"} \cup Ended
    /\ {drawn, audio, inAplayPipe} \subseteq Nat
    /\ {buf, played} \subseteq Seq(Nat)
    /\ clean \in BOOLEAN /\ aplay \in {"runs", "dead"}

\* PipeAudioOutput leaves buf_avail and buf_ptr as it finds them.
Init ==
    /\ OutputInit
    /\ rcount = [p \in Pictures |-> 1] /\ content = [p \in Pictures |-> Black]
    /\ PipeInit
    /\ main = "video"
    /\ drawn = 0 /\ audio = 0
    /\ buf = <<>> /\ clean \in BOOLEAN
    /\ played = <<>> /\ inAplayPipe = 0 /\ aplay = "runs"

-----------------------------------------------------------------------------
(* The main loop.                                                           *)

Finished ==
    /\ main = "video"
    /\ \A s \in Pipes : stream_finished(s)
    /\ main' = "done"
    /\ UNCHANGED <<outputVars, pipeVars, drawn, buf, clean, audio, played, inAplayPipe, aplay>>

\* Variants: a frame is drawn as soon as it is there; the flag is read the
\* wrong way round.
ReadyAlways == TRUE
ReadyFresh == ~current_frame_is_stale

\* ReadyForNextFrame( ), which takes no lock.
Ready == current_frame_is_stale

NoFrame ==
    /\ main = "video"
    /\ \E s \in Pipes : ~stream_finished(s)
    /\ ~Ready \/ ready_blocks["video"] = <<>>
    /\ main' = "audio"
    /\ UNCHANGED <<outputVars, pipeVars, drawn, buf, clean, audio, played, inAplayPipe, aplay>>

\* The next frame is copied into the picture, which holds neither one nor the
\* other meanwhile.
DrawBegin ==
    /\ main = "video"
    /\ Ready
    /\ TakeBlock("video")
    /\ content' = [content EXCEPT ![uyvy_frame] = Torn]
    /\ drawn' = drawn + 1
    /\ main' = "memcpy"
    /\ UNCHANGED <<rcount, sharedVars, setVars, cardVars, buf, clean, audio, played, inAplayPipe, aplay>>

DrawEnd ==
    /\ main = "memcpy"
    /\ content' = [content EXCEPT ![uyvy_frame] = drawn]
    /\ main' = "set"
    /\ UNCHANGED <<rcount, sharedVars, setVars, cardVars, pipeVars, drawn, buf, clean, audio, played, inAplayPipe, aplay>>

\* SetNextFrame( ): the picture replaced is the same one.
SetNextFrame ==
    /\ \/ main = "set" /\ TakeReference(uyvy_frame) /\ main' = "swap"
       \/ main = "swap" /\ Swap /\ main' = "drop"
       \/ main = "drop" /\ DropOld /\ main' = "audio"
    /\ UNCHANGED <<pipeVars, drawn, buf, clean, audio, played, inAplayPipe, aplay>>

\* do_poll( ), do_write( ): what is left is written as far as it goes.
Write(n) ==
    /\ n <= Len(buf) /\ n <= AplayPipe - inAplayPipe
    /\ played' = played \o SubSeq(buf, 1, n)
    /\ inAplayPipe' = inAplayPipe + n

\* SetNextAudio( ), if nothing is left and there is a block.
NextAudio(rest) ==
    IF rest = <<>> /\ ready_blocks["audio"] # <<>>
    THEN /\ buf' = Head(ready_blocks["audio"])
         /\ audio' = audio + 1
         /\ TakeBlock("audio")
    ELSE /\ buf' = rest
         /\ UNCHANGED <<audio, pipeVars>>

POLLOUT == inAplayPipe < AplayPipe

Audio ==
    /\ main = "audio" /\ clean
    /\ \/ /\ ~POLLOUT \/ buf = <<>>
          /\ UNCHANGED <<played, inAplayPipe>>
          /\ NextAudio(buf)
       \/ /\ POLLOUT /\ aplay = "runs"
          /\ \E n \in 1 .. Len(buf) : Write(n) /\ NextAudio(SubSeq(buf, n + 1, Len(buf)))
    /\ main' = "update video"
    /\ UNCHANGED <<outputVars, drawn, clean, aplay>>

\* A write to a pipe nobody reads is a SIGPIPE; one from wherever buf_ptr and
\* buf_avail happen to point fails, and nothing catches the exception.
AudioKills ==
    /\ main = "audio" /\ POLLOUT
    /\ ~clean \/ (aplay = "dead" /\ buf # <<>>)
    /\ main' = "killed"
    /\ UNCHANGED <<outputVars, pipeVars, drawn, buf, clean, audio, played, inAplayPipe, aplay>>

Update ==
    /\ \/ main = "update video" /\ update("video") /\ main' = "update audio"
       \/ main = "update audio" /\ update("audio") /\ main' = "video"
    /\ UNCHANGED <<outputVars, drawn, buf, clean, audio, played, inAplayPipe, aplay>>

-----------------------------------------------------------------------------
(* The card's thread, ffmpeg and aplay.                                     *)

Card ==
    /\ main # "killed"
    /\ FrameCompleted \/ TakeFrame \/ CopyBegin \/ CopyEnd \/ Schedule
    /\ UNCHANGED <<pipeVars, ffVars>>

FfmpegWrites(s) ==
    /\ ~hungup[s] /\ written[s] < MaxUnits[s]
    /\ written' = [written EXCEPT ![s] = @ + 1]
    /\ UNCHANGED <<outputVars, hungup, bufferVars, ffVars>>

\* ffmpeg ends, or is killed, in the middle of a frame maybe.
FfmpegEnds ==
    /\ \E s \in Pipes : ~hungup[s]
    /\ hungup' = [s \in Pipes |-> TRUE]
    /\ UNCHANGED <<outputVars, written, bufferVars, ffVars>>

AplayReads ==
    /\ aplay = "runs" /\ inAplayPipe > 0
    /\ inAplayPipe' = 0
    /\ UNCHANGED <<outputVars, pipeVars, main, drawn, buf, clean, audio, played, aplay>>

AplayDies ==
    /\ aplay = "runs"
    /\ aplay' = "dead"
    /\ UNCHANGED <<outputVars, pipeVars, main, drawn, buf, clean, audio, played, inAplayPipe>>

MainLoop ==
    \/ Finished \/ NoFrame \/ DrawBegin \/ DrawEnd \/ SetNextFrame
    \/ Audio \/ AudioKills \/ Update

Next ==
    \/ MainLoop
    \/ Card
    \/ \E s \in Pipes : FfmpegWrites(s)
    \/ FfmpegEnds \/ AplayReads \/ AplayDies

Spec == Init /\ [][Next]_vars

\* The loop and the card run on, aplay reads unless it is killed; nothing is
\* promised of ffmpeg.
FairSpec ==
    /\ Spec
    /\ WF_vars(MainLoop) /\ WF_vars(Card) /\ WF_vars(AplayReads)

-----------------------------------------------------------------------------
\* However the pipes portion the streams, every frame and every sample goes
\* through once, in order and whole: the blocks read, those drawn and those
\* handed to aplay.
StreamsWhole ==
    /\ BlocksWhole("video", drawn)
    /\ BlocksWhole("audio", audio)
    /\ played \o buf = [i \in 1 .. audio * BlockSize["audio"] |-> i]

\* The one picture is counted once for the program, and once for each place
\* that holds it: it is never freed, nor leaked, while both threads use it.
RefsExact ==
    rcount[uyvy_frame] = 1
        + (IF current_frame = uyvy_frame THEN 1 ELSE 0)
        + (IF new_frame = uyvy_frame THEN 1 ELSE 0)
        + (IF old_frame = uyvy_frame THEN 1 ELSE 0)
        + (IF in_frame = uyvy_frame THEN 1 ELSE 0)

\* What the card schedules is the last frame drawn or the one before it, if it
\* is not a mixture, and it never steps back: not taking the lock to look at
\* current_frame_is_stale costs no frame.
ScheduledInOrder ==
    [][card = "copied" /\ card' = "playing" =>
          \/ scheduled' = Torn
          \/ scheduled' >= drawn - 1 /\ (scheduled # Torn => scheduled' >= scheduled)]_vars

\* Every frame that ffmpeg has finished is drawn in the end, whatever becomes of
\* the audio, unless the program is killed by it.
FramesDrawn ==
    \A n \in 1 .. MaxUnits["video"] \div BlockSize["video"] :
        written["video"] >= n * BlockSize["video"] ~> drawn >= n \/ main = "killed"

\* With ffmpeg gone and aplay alive the program ends, having drawn every whole
\* frame and handed over all whole blocks of samples but the last, which it may
\* still have in hand.
Finishes ==
    (clean /\ <>[](hungup = [s \in Pipes |-> TRUE]) /\ [](aplay = "runs"))
      => <>(/\ main = "done"
            /\ drawn = written["video"] \div BlockSize["video"]
            /\ Len(played) + Len(buf) = BlockSize["audio"] * (written["audio"] \div BlockSize["audio"])
            /\ Len(buf) <= BlockSize["audio"])
-----------------------------------------------------------------------------
(* Why the safety properties hold: the inductive invariant.                 *)

\* Between the first line of SetNextFrame( ) and the last, new_frame and then
\* old_frame hold the picture.
LocalsInv ==
    /\ new_frame = (IF main = "swap" THEN uyvy_frame ELSE Null)
    /\ main # "drop" => old_frame = Null
    /\ card \in {"playing", "completed"} => in_frame = Null

\* A block that is being read is shorter than a block.
BlockInv == \A s \in Pipes : Len(current_read_buf[s]) < BlockSize[s]

\* Between DrawBegin and the end of SetNextFrame( ).
Drawing == main \in {"memcpy", "set", "swap"}

\* No frame can be drawn before the card takes the next.
NotNext == ~current_frame_is_stale \/ Drawing

\* The picture holds the last frame drawn; the first waits for a current frame.
DrawnInv ==
    /\ content[uyvy_frame] = (IF main = "memcpy" THEN Torn ELSE drawn)
    /\ Drawing => current_frame_is_stale
    /\ current_frame = Null => drawn = 0 \/ (drawn = 1 /\ Drawing)

\* From when the card takes a frame, one more can be drawn until it takes the
\* next: what it copies is at most one behind, and never behind what it showed.
CopyInv ==
    /\ scheduled = Torn \/ scheduled <= drawn
    /\ current_frame = Null => in_frame = Null /\ scheduled = Black
    /\ card \in {"taken", "copying", "copied"} /\ in_frame = Null =>
          /\ scheduled = Black /\ drawn <= 1
          /\ drawn = 1 => NotNext
          /\ card # "taken" => copied = Black
    /\ card \in {"copying", "copied"} /\ copied # Torn =>
          /\ copied \in {drawn, drawn - 1}
          /\ copied # drawn => NotNext
          /\ scheduled # Torn => scheduled <= copied

\* The inductive invariant.
IInv ==
    TypeOK /\ StreamsWhole /\ RefsExact /\ LocalsInv /\ BlockInv /\ DrawnInv /\ CopyInv
=============================================================================
