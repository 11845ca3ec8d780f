------------------------------- MODULE SdlGui -------------------------------
(***************************************************************************)
(* The operator interface: marks, saved marks, settings and the commands   *)
(* sent to the playout daemon, src/core/sdl_gui.cpp.                       *)
(*                                                                         *)
(* One action per key of main( ) 1063-1290 that does something; a key does *)
(* all its calls before the next one is looked at.  Drawing is left out,   *)
(* and numbers typed in on the keypad are any of a small set.              *)
(*                                                                         *)
(* Commands are datagrams: any of them may be lost, the others arrive in   *)
(* order.  The interface and the daemon both call their marks "marks"; the *)
(* interface's are gui_marks here.                                         *)
(***************************************************************************)
EXTENDS PlayoutControl, Sequences

CONSTANTS Numbers,       \* numbers the operator may type in: a keypad key that
                         \* has no character counts as -48
          SeekStep,      \* SEEK_STEP
          Preroll,       \* preroll at the start
          PrerollStep    \* the 5 of keys q and w

MIN_SPEED == -20
MAX_SPEED == 15
Speeds == MIN_SPEED .. MAX_SPEED

ASSUME NumbersAssumption == Numbers \subseteq Int
ASSUME SettingsAssumption == SeekStep \in Nat /\ Preroll \in Nat /\ PrerollStep \in Nat

VARIABLES tc,              \* get_timecode( ) of each camera's buffer
          gui_marks, saved_marks,
          preroll, qreplay_speed, qreplay_cam,
          playout_status,  \* the last status received
          commands         \* sent and not yet handled by the daemon

settingVars == <<preroll, qreplay_speed, qreplay_cam>>
guiVars == <<gui_marks, saved_marks, settingVars, playout_status>>

NoStatus == [timecode |-> 0, active_source |-> 0, valid |-> FALSE,
             clock_on |-> FALSE, dsk_on |-> FALSE]

\* mark( ): the moment preroll frames ago on every camera.
Marked == [c \in Cameras |-> tc[c] - preroll]

GuiInit ==
    /\ preroll = Preroll
    /\ gui_marks = [c \in Cameras |-> tc[c] - Preroll]
    /\ saved_marks = << >>
    /\ qreplay_speed = 10 /\ qreplay_cam = 0
    /\ playout_status = NoStatus
    /\ commands = << >>

-----------------------------------------------------------------------------
(* Sending.                                                                 *)

\* The fields a command does not use are whatever was on the stack; they are
\* given the values they have in the commands that do use them.
CommandFor(cmd, speed, m) ==
    [cmd |-> cmd, source |-> qreplay_cam, new_speed |-> speed, marks |-> m]

DskCommand(slot) == [CommandFor("DSK_TOGGLE", qreplay_speed, gui_marks) EXCEPT !.source = slot]

\* What arrives of one or two datagrams.
Arriving(sent) == {sent, << >>} \cup {<<sent[i]>> : i \in DOMAIN sent}

Send(sent) == \E s \in Arriving(sent) : commands' = commands \o s

Command(cmd) == CommandFor(cmd, qreplay_speed, gui_marks)

-----------------------------------------------------------------------------
(* Marks.                                                                   *)

\* m
Mark ==
    /\ gui_marks' = Marked
    /\ UNCHANGED <<saved_marks, settingVars, playout_status, commands>>

\* Keypad +: a new mark, cued at once.
MarkAndCue ==
    /\ gui_marks' = Marked
    /\ Send(<<CommandFor("CUE", qreplay_speed, Marked)>>)
    /\ UNCHANGED <<saved_marks, settingVars, playout_status>>

\* Variant: every camera is moved to the timecode of the status, which is that
\* of camera 0.
MarkPlayoutEach ==
    /\ gui_marks' = [c \in Cameras |-> playout_status.timecode]
    /\ UNCHANGED <<saved_marks, settingVars, playout_status, commands>>

\* i: all marks move by as much as brings camera 0 to where the daemon is.
MarkPlayout ==
    /\ LET displacement == playout_status.timecode - gui_marks[0]
       IN  gui_marks' = [c \in Cameras |-> gui_marks[c] + displacement]
    /\ UNCHANGED <<saved_marks, settingVars, playout_status, commands>>

\* Backspace
SaveMark ==
    /\ saved_marks' = Append(saved_marks, gui_marks)
    /\ UNCHANGED <<gui_marks, settingVars, playout_status, commands>>

\* Backslash: a number that was never saved, or is negative, changes nothing.
RecallMark(n) ==
    /\ gui_marks' = IF n < 0 \/ n >= Len(saved_marks) THEN gui_marks ELSE saved_marks[n + 1]
    /\ UNCHANGED <<saved_marks, settingVars, playout_status, commands>>

\* F5, F6, or the joystick.
Seek ==
    /\ \E d \in {-SeekStep, SeekStep} :
         gui_marks' = [c \in Cameras |-> gui_marks[c] + d]
    /\ UNCHANGED <<saved_marks, settingVars, playout_status, commands>>

-----------------------------------------------------------------------------
(* Settings.                                                                *)

\* q, w and e
SetPreroll(n) ==
    /\ \E p \in {preroll + PrerollStep, preroll - PrerollStep, n} :
         preroll' = IF p > 0 THEN p ELSE 0
    /\ UNCHANGED <<gui_marks, saved_marks, qreplay_speed, qreplay_cam, playout_status, commands>>

Clamped(speed) ==
    IF speed > MAX_SPEED THEN MAX_SPEED ELSE IF speed < MIN_SPEED THEN MIN_SPEED ELSE speed

\* z, x, c and F4, and F1 to F3, which are c with 2, 5 and 10: with Ctrl the
\* daemon is not told.
SetSpeed(n) ==
    /\ \E speed \in {qreplay_speed + 1, qreplay_speed - 1, n, -qreplay_speed} :
         /\ qreplay_speed' = Clamped(speed)
         /\ \/ UNCHANGED commands
            \/ Send(<<CommandFor("ADJUST_SPEED", Clamped(speed), gui_marks)>>)
    /\ UNCHANGED <<gui_marks, saved_marks, preroll, qreplay_cam, playout_status>>

\* Variant: the camera is set by the number on the key.
SetCameraAsTyped(n) ==
    /\ qreplay_cam' = IF n > 0 /\ n <= NCameras THEN n ELSE qreplay_cam
    /\ UNCHANGED <<gui_marks, saved_marks, preroll, qreplay_speed, playout_status, commands>>

\* PgUp, 1 to 9: cameras count from 1; one that is not there changes nothing.
SetCamera(n) ==
    /\ qreplay_cam' = IF n > 0 /\ n <= NCameras THEN n - 1 ELSE qreplay_cam
    /\ UNCHANGED <<gui_marks, saved_marks, preroll, qreplay_speed, playout_status, commands>>

-----------------------------------------------------------------------------
(* Commands to the daemon.                                                  *)

\* Enter cues, Space cues and rolls, PgDn cuts, Alt+PgDn and End rewind too,
\* button 7, F12, F9, F10, F11 and b send one command each.
SendCommand ==
    /\ \/ Send(<<Command("CUE")>>)
       \/ Send(<<Command("CUE"), Command("RESUME")>>)
       \/ \E cmd \in {"CUT", "CUE_AND_GO", "RESUME", "PAUSE", "STEP_BACKWARD",
                      "STEP_FORWARD", "CLOCK_TOGGLE"} : Send(<<Command(cmd)>>)
    /\ UNCHANGED guiVars

\* k: any number is sent.
ToggleDsk(n) ==
    /\ Send(<<DskCommand(n)>>)
    /\ UNCHANGED guiVars

\* Ctrl+End: "return from slow-mo on rewind"
RewindAtFullSpeed ==
    /\ qreplay_speed' = 10
    /\ Send(<<CommandFor("ADJUST_SPEED", 10, gui_marks), CommandFor("CUE_AND_GO", 10, gui_marks)>>)
    /\ UNCHANGED <<gui_marks, saved_marks, preroll, qreplay_cam, playout_status>>

Key ==
    \/ Mark \/ MarkAndCue \/ MarkPlayout \/ SaveMark \/ Seek
    \/ SendCommand \/ RewindAtFullSpeed
    \/ \E n \in Numbers :
         RecallMark(n) \/ SetPreroll(n) \/ SetSpeed(n) \/ SetCamera(n) \/ ToggleDsk(n)
=============================================================================
