------------------------------- MODULE Replay -------------------------------
(***************************************************************************)
(* Cameras, operator interface and playout daemon together: main( ) of     *)
(* src/core/playoutd.cpp 457-498 between the commands of SdlGui and the    *)
(* status datagrams that go back to it.                                    *)
(*                                                                         *)
(* The cameras run at the same rate and were started at different times:   *)
(* their timecodes differ by a constant, give or take the frame under way. *)
(***************************************************************************)
EXTENDS SdlGui

CONSTANTS Skew,          \* timecode of each camera, less that of camera 0
          Window,        \* frames a ring holds
          First, Last,   \* bounds on the timecode of camera 0
          StatusRoom,    \* status datagrams the interface's socket has room for
          MaxKeys        \* bound on keys pressed and on restarts of the daemon

ASSUME SkewAssumption == Skew \in [Cameras -> Int] /\ Skew[0] = 0
ASSUME WindowAssumption == Window \in Nat /\ First \in Int /\ Last \in Int
ASSUME RoomAssumption == StatusRoom \in Nat \ {0} /\ MaxKeys \in Nat

VARIABLES statuses,      \* sent and not yet received
          keys           \* counts key presses and restarts

vars == <<controlVars, tc, guiVars, commands, statuses, keys>>

Marks == [Cameras -> Int]

CommandNames == {"CUE", "CUE_AND_GO", "CUT", "CUT_REWIND", "ADJUST_SPEED", "PAUSE", "RESUME",
                 "STEP_FORWARD", "STEP_BACKWARD", "CLOCK_TOGGLE", "CLOCK_ON", "CLOCK_OFF",
                 "DSK_TOGGLE", "DSK_ON", "DSK_OFF"}

Commands ==
    {c \in [cmd : CommandNames, source : Int, new_speed : Speeds, marks : Marks] :
        c.cmd \in {"CUE", "CUE_AND_GO", "CUT", "CUT_REWIND"} => c.source \in Cameras}

Statuses == [timecode : Int, active_source : Cameras, valid : BOOLEAN,
             clock_on : BOOLEAN, dsk_on : BOOLEAN]

ControlTypeOK ==
    /\ marks \in Marks /\ play_offset \in Int
    /\ playout_source \in Cameras
    /\ playout_speed \in Speeds
    /\ paused \in BOOLEAN /\ step \in BOOLEAN /\ step_backward \in BOOLEAN
    /\ overlay_clock \in BOOLEAN /\ dsk_active \subseteq Slots
    /\ onair \in [frame : Int, field : {"none", "both", "first", "second"}]
    /\ since \in {"start", "cued", "shown", "touched"}

GuiTypeOK ==
    /\ gui_marks \in Marks /\ saved_marks \in Seq(Marks)
    /\ preroll \in Nat /\ qreplay_speed \in Speeds /\ qreplay_cam \in Cameras
    /\ playout_status \in Statuses

TypeOK ==
    /\ ControlTypeOK /\ GuiTypeOK
    /\ tc \in Marks
    /\ commands \in Seq(Commands) /\ statuses \in Seq(Statuses)
    /\ keys \in 0 .. MaxKeys

\* The daemon runs, the rings have some frames, the next of camera 0 has just
\* come, and the interface is started.
Init ==
    /\ ControlInit
    /\ tc = [c \in Cameras |-> First + Skew[c] - (IF c = 0 THEN 0 ELSE 1)]
    /\ GuiInit
    /\ statuses = << >>
    /\ keys = 0

-----------------------------------------------------------------------------
(* The cameras.                                                             *)

\* Timecode of camera c on the clock of camera 0.
Moment(c) == tc[c] - Skew[c]

\* A frame of camera c: no camera gets ahead of another by more than a frame.
Tick(c) ==
    /\ Moment(c) < Last
    /\ \A d \in Cameras : Moment(c) <= Moment(d)
    /\ tc' = [tc EXCEPT ![c] = @ + 1]
    /\ UNCHANGED <<controlVars, guiVars, commands, statuses, keys>>

\* get_timecode( ) is one behind the latest frame (mmap_buffer.cpp 239).
Available(c, frame) == frame \in Nat \cap (tc[c] + 2 - Window .. tc[c] + 1)

-----------------------------------------------------------------------------
(* The daemon.                                                              *)

Status == [timecode |-> Truncated[FloatSum(marks[0], play_offset)],
           active_source |-> playout_source, valid |-> TRUE,
           clock_on |-> overlay_clock, dsk_on |-> 0 \in dsk_active]

\* After every event; a status the socket has no room for is lost.
SendStatus ==
    statuses' = IF Len(statuses) < StatusRoom THEN Append(statuses, Status') ELSE statuses

HandleCommand ==
    /\ commands # << >>
    /\ commands' = Tail(commands)
    /\ UNCHANGED <<tc, guiVars, keys>>
    /\ ParseCommand(Head(commands))
    /\ SendStatus

\* Variant: no status after a frame.
NeedFrameSilent ==
    /\ RenderNothing \/ (Available(playout_source, frame_no) /\ RenderFrame)
    /\ UNCHANGED <<tc, guiVars, commands, statuses, keys>>

\* A get( ) that a put( ) overlaps may miss, and a frame may not decode.
NeedFrame ==
    /\ UNCHANGED <<tc, guiVars, commands, keys>>
    /\ RenderNothing \/ (Available(playout_source, frame_no) /\ RenderFrame)
    /\ SendStatus

\* The daemon is killed and started again; what its socket held is gone.
Restart ==
    /\ keys < MaxKeys
    /\ keys' = keys + 1
    /\ marks' = [c \in Cameras |-> 0]
    /\ play_offset' = 0 /\ playout_source' = 0 /\ playout_speed' = 0
    /\ paused' = FALSE /\ step' = FALSE /\ step_backward' = FALSE
    /\ overlay_clock' = FALSE /\ dsk_active' = {}
    /\ onair' = Nothing
    /\ since' = "start"
    /\ commands' = << >>
    /\ UNCHANGED <<tc, guiVars, statuses>>

-----------------------------------------------------------------------------
(* The interface.                                                           *)

Press ==
    /\ keys < MaxKeys
    /\ keys' = keys + 1
    /\ Key
    /\ UNCHANGED <<controlVars, tc, statuses>>

\* update_playout_status( ) takes all there are; the last one stays.
ReceiveStatus ==
    /\ statuses # << >>
    /\ playout_status' = statuses[Len(statuses)]
    /\ statuses' = << >>
    /\ UNCHANGED <<controlVars, tc, gui_marks, saved_marks, settingVars, commands, keys>>

Next ==
    \/ \E c \in Cameras : Tick(c)
    \/ HandleCommand \/ NeedFrame \/ Restart
    \/ Press \/ ReceiveStatus

Spec == Init /\ [][Next]_vars

\* A frame asked for when there is room for the status that follows it.
NeedFrameReported == Len(statuses) < StatusRoom /\ NeedFrame

\* The daemon handles the events that come, the card asks for frames for ever,
\* and the interface goes round its loop.  Nobody has to press a key.
FairSpec ==
    Spec /\ WF_vars(HandleCommand) /\ WF_vars(NeedFrameReported) /\ WF_vars(ReceiveStatus)

-----------------------------------------------------------------------------
(* Correctness.                                                             *)

\* Marks that mean one moment on all cameras.
SameMoment(m) == \A c \in Cameras : m[c] - m[0] - Skew[c] \in {-1, 0, 1}

\* Whatever is marked, moved, saved, recalled, cued, lost or restarted, the
\* marks the operator has, has saved or has sent and those the daemon plays
\* from (unless it has none) mean one moment, so that a cut from one camera to
\* another shows the same play.
SameMomentEverywhere ==
    /\ SameMoment(gui_marks)
    /\ \A i \in 1 .. Len(saved_marks) : SameMoment(saved_marks[i])
    /\ \A i \in 1 .. Len(commands) :
         commands[i].cmd \in {"CUE", "CUE_AND_GO"} => SameMoment(commands[i].marks)
    /\ since # "start" => SameMoment(marks)

\* When no more keys are pressed, the tally and the overlay lights come to show
\* what is played, although commands and status may have been lost.
TallyFollows ==
    <>[](/\ playout_status.valid
         /\ playout_status.active_source = playout_source
         /\ playout_status.clock_on = overlay_clock
         /\ playout_status.dsk_on = (0 \in dsk_active))

-----------------------------------------------------------------------------
(* Why the marks agree: the inductive invariant.                            *)

GoodMarks == {m \in Marks : SameMoment(m)}
GoodCommands == {c \in Commands : c.cmd \in {"CUE", "CUE_AND_GO"} => c.marks \in GoodMarks}

\* No camera is more than a frame ahead of another.
CamerasTogether == \A c, d \in Cameras : Moment(c) <= Moment(d) + 1

\* Every place a set of marks is kept in holds good ones.
MarksInv ==
    /\ gui_marks \in GoodMarks
    /\ saved_marks \in Seq(GoodMarks)
    /\ commands \in Seq(GoodCommands)
    /\ since # "start" => marks \in GoodMarks

ReplayInv == TypeOK /\ CamerasTogether /\ MarksInv /\ CueInv
=============================================================================
