--------------------------- MODULE PlayoutControl ---------------------------
(***************************************************************************)
(* What commands and rendering do to the position in the video: the        *)
(* playout daemon's parse_command( ) and render_next_frame( ),             *)
(* src/core/playoutd.cpp 34-59, 143-243, 266-346.                          *)
(*                                                                         *)
(* Positions and speeds are floats in the code.  Here they are integers,   *)
(* counting the smallest difference any of them can have: 2^-27 of a       *)
(* frame, the last place of 0.1.  Sums and conversions are rounded as      *)
(* floats are.  A speed is named by its tenths: that is what the operator  *)
(* interface divides by 10 and sends (sdl_gui.cpp 545, 568, 720).          *)
(*                                                                         *)
(* The module has no Init and no Next: a system EXTENDS it and says which  *)
(* commands arrive and which frames are there.                             *)
(***************************************************************************)
EXTENDS Integers

CONSTANTS NCameras,     \* number of buffers the daemon has opened
          NSlots,       \* N_DSK_SLOTS
          AutoDsk,      \* auto_dsk_presets; -1 for none
          Frame,        \* a frame: 2^27 of what positions count
          Precision,    \* numbers a float tells apart per unit: 2^24
          Ulps          \* what the last place of a float may be worth: powers of 2

Cameras == 0 .. NCameras - 1
Slots == 0 .. NSlots - 1

ASSUME NCamerasAssumption == NCameras \in Nat \ {0}
ASSUME NSlotsAssumption == NSlots \in Nat
ASSUME AutoDskAssumption == AutoDsk \in [Cameras -> Int]
ASSUME FloatAssumption ==
    /\ Frame \in Nat \ {0} /\ Precision \in Nat \ {0}
    /\ Ulps \subseteq Nat \ {0}
    /\ \A u \in Ulps : Frame % u = 0 \/ 2 * Frame <= u

VARIABLES marks, play_offset, playout_source, playout_speed,
          paused, step, step_backward,
          overlay_clock, dsk_active,     \* the DSK slots switched on
          onair,                         \* the frame rendered last
          since                          \* history: what came after the last cue

positionVars == <<marks, play_offset, playout_source, playout_speed>>
stepVars == <<paused, step, step_backward>>
overlayVars == <<overlay_clock, dsk_active>>
controlVars == <<positionVars, stepVars, overlayVars, onair, since>>

Nothing == [frame |-> -1, field |-> "none"]

ControlInit ==
    /\ marks = [c \in Cameras |-> 0]
    /\ play_offset = 0 /\ playout_source = 0 /\ playout_speed = 0
    /\ paused = FALSE /\ step = FALSE /\ step_backward = FALSE
    /\ overlay_clock = FALSE /\ dsk_active = {}
    /\ onair = Nothing
    /\ since = "start"

-----------------------------------------------------------------------------
(* parse_command( ).                                                        *)

\* "turn on the auto DSK and turn off all others"
UpdateAutoDsk(source) ==
    dsk_active' = IF AutoDsk[source] = -1 THEN dsk_active
                                          ELSE Slots \cap {AutoDsk[source]}

Cue(c) ==
    /\ c.cmd \in {"CUE", "CUE_AND_GO"}
    /\ paused' = (c.cmd = "CUE")
    /\ playout_speed' = c.new_speed
    /\ marks' = c.marks
    /\ play_offset' = 0
    /\ playout_source' = c.source
    /\ UpdateAutoDsk(c.source)
    /\ since' = "cued"
    /\ UNCHANGED <<step, step_backward, overlay_clock, onair>>

Cut(c) ==
    /\ c.cmd \in {"CUT", "CUT_REWIND"}
    /\ play_offset' = IF c.cmd = "CUT_REWIND" THEN 0 ELSE play_offset
    /\ playout_source' = c.source
    /\ UpdateAutoDsk(c.source)
    /\ UNCHANGED <<marks, playout_speed, stepVars, overlay_clock>>

AdjustSpeed(c) ==
    /\ c.cmd = "ADJUST_SPEED"
    /\ playout_speed' = c.new_speed
    /\ UNCHANGED <<marks, play_offset, playout_source, stepVars, overlayVars>>

PauseOrResume(c) ==
    /\ c.cmd \in {"PAUSE", "RESUME"}
    /\ paused' = (c.cmd = "PAUSE")
    /\ UNCHANGED <<positionVars, step, step_backward, overlayVars>>

\* A step is a flag: two of them before the next frame are one.
StepCommand(c) ==
    /\ c.cmd \in {"STEP_FORWARD", "STEP_BACKWARD"}
    /\ step' = (step \/ c.cmd = "STEP_FORWARD")
    /\ step_backward' = (step_backward \/ c.cmd = "STEP_BACKWARD")
    /\ UNCHANGED <<positionVars, paused, overlayVars>>

\* The clock, and the DSK of a number below N_DSK_SLOTS.  Nothing keeps that
\* number from being negative: what is written then lies in front of dsk_titles.
\* Of the numbers that can be typed (sdl_gui.cpp 1080-1081), -8 to -38 reach what
\* is kept for cameras from the 20th on, which are not opened, and lower ones
\* nothing of the daemon's state, or they end it, which is a restart.
Overlay(c) ==
    /\ \/ /\ c.cmd \in {"CLOCK_TOGGLE", "CLOCK_ON", "CLOCK_OFF"}
          /\ overlay_clock' = (\/ c.cmd = "CLOCK_ON"
                               \/ c.cmd = "CLOCK_TOGGLE" /\ ~overlay_clock)
          /\ UNCHANGED dsk_active
       \/ /\ c.cmd \in {"DSK_TOGGLE", "DSK_ON", "DSK_OFF"} /\ c.source \in Slots
          /\ dsk_active' = IF \/ c.cmd = "DSK_ON"
                              \/ c.cmd = "DSK_TOGGLE" /\ c.source \notin dsk_active
                           THEN dsk_active \cup {c.source} ELSE dsk_active \ {c.source}
          /\ UNCHANGED overlay_clock
       \/ /\ c.cmd \in {"DSK_TOGGLE", "DSK_ON", "DSK_OFF"}
          /\ c.source >= NSlots \/ c.source < 0
          /\ UNCHANGED overlayVars
    /\ UNCHANGED <<positionVars, stepVars>>

ParseCommand(c) ==
    \/ Cue(c)
    \/ /\ Cut(c) \/ AdjustSpeed(c) \/ PauseOrResume(c) \/ StepCommand(c) \/ Overlay(c)
       /\ since' = IF since = "start" THEN since ELSE "touched"
       /\ UNCHANGED onair

-----------------------------------------------------------------------------
(* Floats.                                                                  *)

Magnitude(x) == IF x >= 0 THEN x ELSE -x

\* What the last place of a float is worth for numbers of magnitude m; nothing is
\* smaller than the 1 that positions count.
Ulp == [m \in Nat |->
    LET fit == {u \in Ulps : m <= Precision * u /\ Precision * u < 2 * m}
    IN  IF fit = {} THEN 1 ELSE CHOOSE u \in fit : TRUE]

\* The multiple of u nearest to x, of two the even one.
Nearest == [u \in Nat \ {0} |-> [x \in Int |->
    u * (IF 2 * (x % u) > u \/ (2 * (x % u) = u /\ (x \div u) % 2 = 1)
         THEN x \div u + 1 ELSE x \div u)]]

Float == [x \in Int |-> Nearest[Ulp[Magnitude(x)]][x]]

\* new_speed, as sent: the float nearest to qreplay_speed / 10
SpeedOf == [tenths \in Int |->
    Nearest[10 * Ulp[(Magnitude(tenths * Frame) + 9) \div 10]][tenths * Frame] \div 10]

\* Conversion to int: towards zero.
Truncated == [x \in Int |-> IF x >= 0 THEN x \div Frame ELSE -((-x) \div Frame)]

\* A whole number of frames, as a float, plus an offset.
FloatSum(frames, offset) == Float[Float[Frame * frames] + offset]

-----------------------------------------------------------------------------
(* render_next_frame( ).                                                    *)

\* Variant: rounded to the nearest frame, as the comment has it.
FrameNoRounded == Truncated[FloatSum(marks[playout_source], play_offset) + Frame \div 2]

frame_no == Truncated[FloatSum(marks[playout_source], play_offset)]

\* "decode and scan double a field if we can get it": slow or standing video
\* shows the field of the moment.  (0.8 is a double: a speed of 0.8, sent as a
\* float, is above it.  Taking the whole part off the offset rounds nothing.)
Field ==
    IF playout_speed < 8 \/ paused
    THEN IF 2 * (play_offset % Frame) < Frame THEN "first" ELSE "second"
    ELSE "both"

\* One step forward, else one backward, else on at the speed of the replay.
Advance ==
    /\ play_offset' = IF step THEN Float[play_offset + Frame]
                      ELSE IF step_backward THEN Float[play_offset - Frame]
                      ELSE IF paused THEN play_offset
                      ELSE Float[play_offset + SpeedOf[playout_speed]]
    /\ step' = FALSE
    /\ step_backward' = (step_backward /\ step)

\* The frame is there and can be decoded.
RenderFrame ==
    /\ onair' = [frame |-> frame_no, field |-> Field]
    /\ Advance
    /\ since' = IF since = "cued" THEN "shown" ELSE since
    /\ UNCHANGED <<marks, playout_source, playout_speed, paused, overlayVars>>

\* It is not there, or cannot be decoded: nothing moves.  (Once it is decoded
\* nothing more fails, short of the memory for the digits of the clock: every
\* picture is of a format its callers can draw.)
RenderNothing == UNCHANGED controlVars

-----------------------------------------------------------------------------
(* Correctness.                                                             *)

\* Where the replay stands, exactly.
Position == Frame * marks[playout_source] + play_offset

\* A mark that a float holds exactly, and the frames next to it: 2^24 frames are
\* 155 hours.
Accurate(mark) == mark \in 1 - Precision .. Precision - 1

\* The field is chosen from the fraction of the offset, the frame number is the
\* rounded sum, truncated: do they show together the half frame the position
\* lies in?  They do, or else the second half of the frame after it, when that
\* frame is closer than the sum can tell.  Never is the frame one behind, two
\* ahead, or one ahead in its first half.
FieldInTime ==
    [][onair' # onair /\ onair' # Nothing /\ Accurate(marks[playout_source])
         /\ 0 <= Position /\ Position < Precision * Frame =>
         LET frame == Position \div Frame
             left == Frame * (frame + 1) - Position
         IN  /\ onair'.field \in {"both", IF 2 * left > Frame THEN "first" ELSE "second"}
             /\ \/ onair'.frame = frame
                \/ /\ onair'.frame = frame + 1 /\ onair'.field # "first"
                   /\ 2 * left <= Ulp[Position]]_onair

\* "Output should show the first frame" (README 72) of a replay that has been
\* cued and not touched since.
CueShowsFirst == paused /\ since = "shown" => onair.frame = marks[playout_source]

\* The first frame shown after a cue is the marked one of the source cued.
CueStartsThere ==
    [][since = "cued" /\ since' = "shown" /\ Accurate(marks[playout_source]) =>
         onair'.frame = marks[playout_source]]_controlVars

\* A step asked for before the cue is made after it: a replay that has been cued
\* and not touched since stays within a frame of its mark.
CueShowsNear ==
    paused /\ since = "shown" /\ Accurate(marks[playout_source]) =>
        onair.frame - marks[playout_source] \in {-1, 0, 1}

-----------------------------------------------------------------------------
(* Why: the inductive invariant.  Between a cue and the next command the    *)
(* position moves only by the steps that were pending.                      *)
CueInv ==
    /\ since = "cued" => play_offset = 0
    /\ since = "shown" /\ paused =>
         \/ play_offset = 0 /\ ~step /\ ~step_backward
         \/ play_offset = Frame /\ ~step
         \/ play_offset = -Frame /\ ~step /\ ~step_backward
    /\ CueShowsNear
=============================================================================
