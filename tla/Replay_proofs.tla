---------------------------- MODULE Replay_proofs ----------------------------
(***************************************************************************)
(* Proofs about operator interface and playout daemon, for any number of   *)
(* cameras, settings and keys.                                             *)
(***************************************************************************)
EXTENDS Replay, TLAPS

\* A mark made from cameras that run together means one moment on all of them
\* (sdl_gui.cpp 300-305).
LEMMA MarkedGood ==
    ASSUME TypeOK, CamerasTogether
    PROVE  Marked \in GoodMarks
<1> USE NCamerasAssumption, SkewAssumption
<1>1. 0 \in Cameras /\ tc \in [Cameras -> Int] /\ preroll \in Int
  BY DEF TypeOK, GuiTypeOK, Cameras, Marks
<1>2. Marked \in Marks
  BY <1>1 DEF Marked, Marks
<1>3. ASSUME NEW c \in Cameras
      PROVE  Marked[c] - Marked[0] - Skew[c] \in {-1, 0, 1}
  <2>1. Marked[c] - Marked[0] - Skew[c] = Moment(c) - Moment(0)
    BY <1>1, <1>3 DEF Marked, Moment
  <2>2. Moment(c) <= Moment(0) + 1 /\ Moment(0) <= Moment(c) + 1
    BY <1>1, <1>3 DEF CamerasTogether
  <2>3. Moment(c) \in Int /\ Moment(0) \in Int
    BY <1>1, <1>3 DEF Moment
  <2> QED
    BY <2>1, <2>2, <2>3
<1> QED
  BY <1>2, <1>3 DEF GoodMarks, SameMoment

\* Moving all marks by the same amount changes nothing between them
\* (sdl_gui.cpp 307-313, 645-655).
LEMMA MovedGood ==
    ASSUME NEW m \in GoodMarks, NEW d \in Int
    PROVE  [c \in Cameras |-> m[c] + d] \in GoodMarks
<1> USE NCamerasAssumption, SkewAssumption
<1> DEFINE w == [c \in Cameras |-> m[c] + d]
<1>1. 0 \in Cameras /\ m \in [Cameras -> Int] /\ SameMoment(m)
  BY DEF GoodMarks, Marks, Cameras
<1>2. w \in Marks
  BY <1>1 DEF Marks
<1>3. ASSUME NEW c \in Cameras
      PROVE  w[c] - w[0] - Skew[c] = m[c] - m[0] - Skew[c]
  <2>1. w[c] = m[c] + d /\ w[0] = m[0] + d
    BY <1>1
  <2>2. m[c] \in Int /\ m[0] \in Int /\ Skew[c] \in Int
    BY <1>1
  <2> HIDE DEF w
  <2> QED
    BY <2>1, <2>2
<1> HIDE DEF w
<1>4. w \in GoodMarks
  BY <1>1, <1>2, <1>3 DEF GoodMarks, SameMoment
<1> QED
  BY <1>4 DEF w

\* What arrives of good commands is good.
LEMMA ArrivingGood ==
    ASSUME NEW a \in GoodCommands, NEW b \in GoodCommands,
           NEW sent \in {<<a>>, <<a, b>>}, Send(sent), commands \in Seq(GoodCommands)
    PROVE  commands' \in Seq(GoodCommands)
<1>1. PICK s \in Arriving(sent) : commands' = commands \o s
  BY DEF Send
<1>2. s \in {<< >>, <<a>>, <<b>>, <<a, b>>}
  <2>1. CASE sent = <<a>>
    BY <1>1, <2>1 DEF Arriving
  <2>2. CASE sent = <<a, b>>
    <3>1. DOMAIN sent = {1, 2} /\ sent[1] = a /\ sent[2] = b
      BY <2>2
    <3> QED
      BY <1>1, <2>2, <3>1 DEF Arriving
  <2> QED
    BY <2>1, <2>2
<1>3. << >> \in Seq(GoodCommands) /\ <<a>> \in Seq(GoodCommands)
  OBVIOUS
<1>4. <<b>> \in Seq(GoodCommands) /\ <<a, b>> \in Seq(GoodCommands)
  OBVIOUS
<1>5. s \in Seq(GoodCommands)
  BY <1>2, <1>3, <1>4
<1> QED
  BY <1>1, <1>5

\* The commands the interface makes.
LEMMA CommandGood ==
    ASSUME TypeOK, NEW m \in GoodMarks, NEW speed \in Speeds, NEW cmd \in CommandNames
    PROVE  CommandFor(cmd, speed, m) \in GoodCommands
<1>1. qreplay_cam \in Cameras /\ qreplay_cam \in Nat /\ m \in Marks
  BY DEF TypeOK, GuiTypeOK, Cameras, GoodMarks
<1> QED
  BY <1>1 DEF CommandFor, GoodCommands, Commands

\* The limits of the speed (sdl_gui.cpp 695-717).
LEMMA ClampedSpeed ==
    ASSUME NEW speed \in Int
    PROVE  Clamped(speed) \in Speeds
  BY DEF Clamped, Speeds, MIN_SPEED, MAX_SPEED

\* What a set of good commands is also a set of.
LEMMA GoodAreTyped ==
    /\ \A q \in Seq(GoodCommands) : q \in Seq(Commands)
    /\ \A q \in Seq(GoodMarks) : q \in Seq(Marks)
<1>1. GoodCommands \subseteq Commands /\ GoodMarks \subseteq Marks
  BY DEF GoodCommands, GoodMarks
<1> QED
  BY <1>1

\* What parse_command( ) leaves (playoutd.cpp 161-245): the marks the daemon
\* has, if any were ever cued, are good ones.
LEMMA ParseStep ==
    ASSUME ReplayInv, NEW c \in GoodCommands, ParseCommand(c)
    PROVE  ControlTypeOK' /\ (since' # "start" => marks' \in GoodMarks)
<1>1. /\ ControlTypeOK /\ (since # "start" => marks \in GoodMarks)
      /\ c.new_speed \in Speeds /\ c.marks \in Marks
      /\ c.cmd \in {"CUE", "CUE_AND_GO"} => c.source \in Cameras /\ c.marks \in GoodMarks
      /\ c.cmd \in {"CUT", "CUT_REWIND"} => c.source \in Cameras
  BY DEF ReplayInv, TypeOK, MarksInv, GoodCommands, Commands
<1> USE <1>1 DEF ControlTypeOK
<1>2. ASSUME NEW s \in Cameras, UpdateAutoDsk(s)
      PROVE  dsk_active' \subseteq Slots
  BY <1>2 DEF UpdateAutoDsk
<1>3. CASE Cue(c)
  BY <1>2, <1>3 DEF Cue
<1>4. CASE Cut(c) /\ since' = (IF since = "start" THEN since ELSE "touched") /\ UNCHANGED onair
  <2>1. dsk_active' \subseteq Slots
    BY <1>2, <1>4 DEF Cut
  <2> QED
    BY <1>4, <2>1 DEF Cut, stepVars
<1>5. CASE /\ AdjustSpeed(c) \/ PauseOrResume(c) \/ StepCommand(c) \/ Overlay(c)
           /\ since' = (IF since = "start" THEN since ELSE "touched") /\ UNCHANGED onair
  <2>1. CASE AdjustSpeed(c)
    BY <1>5, <2>1 DEF AdjustSpeed, stepVars, overlayVars
  <2>2. CASE PauseOrResume(c)
    BY <1>5, <2>2 DEF PauseOrResume, positionVars, overlayVars
  <2>3. CASE StepCommand(c)
    BY <1>5, <2>3 DEF StepCommand, positionVars, overlayVars
  <2>4. CASE Overlay(c)
    <3>1. UNCHANGED <<marks, play_offset, playout_source, playout_speed, paused, step, step_backward>>
      BY <2>4 DEF Overlay, positionVars, stepVars
    <3>2. overlay_clock' \in BOOLEAN /\ dsk_active' \subseteq Slots
      BY <2>4 DEF Overlay, overlayVars
    <3> QED
      BY <1>5, <3>1, <3>2
  <2> QED
    BY <1>5, <2>1, <2>2, <2>3, <2>4
<1> QED
  BY <1>3, <1>4, <1>5 DEF ParseCommand

\* What the last place of a float is worth: for positions that floats tell frames
\* apart in, a frame is some number of it.
LEMMA UlpDividesFrame ==
    ASSUME NEW m \in Nat
    PROVE  /\ Ulp[m] \in Nat \ {0}
           /\ m <= Precision * Frame => Frame % Ulp[m] = 0
<1> USE FloatAssumption
<1> DEFINE fit == {u \in Ulps : m <= Precision * u /\ Precision * u < 2 * m}
<1>1. Ulp[m] = IF fit = {} THEN 1 ELSE CHOOSE u \in fit : TRUE
  BY DEF Ulp
<1>2. CASE fit = {}
  BY <1>1, <1>2
<1>3. CASE fit # {}
  <2>1. Ulp[m] \in fit
    BY <1>1, <1>3
  <2> DEFINE u == Ulp[m]
  <2>2. u \in Ulps /\ u \in Nat \ {0} /\ Precision * u < 2 * m
    BY <2>1
  <2> HIDE DEF u
  <2>3. ASSUME 2 * Frame <= u, m <= Precision * Frame
        PROVE  FALSE
    <3>1. PICK d \in Nat : u = 2 * Frame + d
      BY <2>2, <2>3
    <3>2. Precision * u = 2 * (Precision * Frame) + Precision * d /\ Precision * d \in Nat
      BY <3>1
    <3> QED
      BY <2>2, <2>3, <3>2
  <2> QED
    BY <2>2, <2>3 DEF u
<1> QED
  BY <1>2, <1>3

\* Quotient and remainder make up the number.
LEMMA Division ==
    ASSUME NEW u \in Nat \ {0}, NEW x \in Int, NEW q, q = x \div u, NEW r, r = x % u
    PROVE  q \in Int /\ r \in 0 .. u - 1 /\ x = u * q + r
<1>1. q \in Int /\ r \in Int /\ r \in 0 .. u - 1
  OBVIOUS
<1>2. x = u * q + r
  BY <1>1
<1> QED
  BY <1>1, <1>2

\* Rounding gives a multiple, half of one away at most.
LEMMA NearestClose ==
    ASSUME NEW u \in Nat \ {0}, NEW x \in Int
    PROVE  \E k \in Int : /\ Nearest[u][x] = u * k
                         /\ 2 * (u * k - x) <= u
                         /\ 2 * (x - u * k) <= u
<1> DEFINE q == x \div u
           r == x % u
<1>1. q \in Int /\ r \in 0 .. u - 1 /\ x = u * q + r
  BY Division
<1>2. Nearest[u][x] = u * (IF 2 * r > u \/ (2 * r = u /\ q % 2 = 1) THEN q + 1 ELSE q)
  BY DEF Nearest
<1>3. u * (q + 1) = u * q + u /\ u * q \in Int
  BY <1>1
<1> HIDE DEF q, r
<1>4. CASE 2 * r > u \/ (2 * r = u /\ q % 2 = 1)
  <2>1. Nearest[u][x] = u * (q + 1)
    BY <1>2, <1>4
  <2>2. 2 * r >= u
    BY <1>1, <1>4
  <2>3. 2 * (u * (q + 1) - x) <= u /\ 2 * (x - u * (q + 1)) <= u
    BY <1>1, <1>3, <2>2
  <2> QED
    BY <1>1, <2>1, <2>3
<1>5. CASE ~(2 * r > u \/ (2 * r = u /\ q % 2 = 1))
  <2>1. Nearest[u][x] = u * q
    BY <1>2, <1>5
  <2>2. 2 * r <= u
    BY <1>1, <1>5
  <2>3. 2 * (u * q - x) <= u /\ 2 * (x - u * q) <= u
    BY <1>1, <1>3, <2>2
  <2> QED
    BY <1>1, <2>1, <2>3
<1> QED
  BY <1>4, <1>5

\* A float is half of its last place away from what it stands for at most.
LEMMA FloatClose ==
    ASSUME NEW x \in Int
    PROVE  /\ Magnitude(x) \in Nat /\ Ulp[Magnitude(x)] \in Nat \ {0}
           /\ Float[x] \in Int
           /\ 2 * (Float[x] - x) <= Ulp[Magnitude(x)]
           /\ 2 * (x - Float[x]) <= Ulp[Magnitude(x)]
<1> DEFINE u == Ulp[Magnitude(x)]
<1>1. Magnitude(x) \in Nat
  BY DEF Magnitude
<1>2. u \in Nat \ {0}
  BY <1>1, UlpDividesFrame
<1>3. Float[x] = Nearest[u][x]
  BY DEF Float
<1> HIDE DEF u
<1>4. PICK k \in Int : Nearest[u][x] = u * k /\ 2 * (u * k - x) <= u /\ 2 * (x - u * k) <= u
  BY <1>2, NearestClose
<1>5. u * k \in Int
  BY <1>2
<1> QED
  BY <1>1, <1>2, <1>3, <1>4, <1>5 DEF u

\* Rounding passes no whole frame.
LEMMA FloatKeepsFrames ==
    ASSUME NEW x \in Int, Magnitude(x) <= Precision * Frame, NEW n \in Int
    PROVE  /\ Frame * n <= x => Frame * n <= Float[x]
           /\ x <= Frame * n => Float[x] <= Frame * n
<1> USE FloatAssumption
<1> DEFINE u == Ulp[Magnitude(x)]
<1>1. Magnitude(x) \in Nat /\ u \in Nat \ {0}
  BY FloatClose
<1>2. Frame % u = 0
  BY <1>1, UlpDividesFrame
<1>3. Float[x] = Nearest[u][x]
  BY DEF Float
<1> HIDE DEF u
<1>4. PICK k \in Int : Nearest[u][x] = u * k /\ 2 * (u * k - x) <= u /\ 2 * (x - u * k) <= u
  BY <1>1, NearestClose
<1>5. PICK j \in Int : Frame = u * j
  BY <1>1, <1>2
<1> DEFINE q == j * n
<1>6. q \in Int /\ Frame * n = u * q
  BY <1>1, <1>5
<1> HIDE DEF q
<1>7. ASSUME k < q
      PROVE  u * k <= u * q - u
  <2>1. PICK d \in Nat : q = k + 1 + d
    BY <1>6, <1>7
  <2>2. u * q = u * k + u + u * d /\ u * d \in Nat /\ u * k \in Int
    BY <1>1, <2>1
  <2> QED
    BY <1>1, <2>2
<1>8. ASSUME q < k
      PROVE  u * k >= u * q + u
  <2>1. PICK d \in Nat : k = q + 1 + d
    BY <1>6, <1>8
  <2>2. u * k = u * q + u + u * d /\ u * d \in Nat /\ u * q \in Int
    BY <1>1, <1>6, <2>1
  <2> QED
    BY <1>1, <2>2
<1>9. u * k \in Int /\ u * q \in Int
  BY <1>1, <1>6
<1>10. u * q <= x => u * q <= u * k
  <2> SUFFICES ASSUME u * q <= x, k < q PROVE FALSE
    BY <1>1, <1>6, <1>8, <1>9
  <2> QED
    BY <1>1, <1>4, <1>7, <1>9
<1>11. x <= u * q => u * k <= u * q
  <2> SUFFICES ASSUME x <= u * q, q < k PROVE FALSE
    BY <1>1, <1>6, <1>7, <1>9
  <2> QED
    BY <1>1, <1>4, <1>8, <1>9
<1> QED
  BY <1>3, <1>4, <1>6, <1>10, <1>11

\* Frames up to the precision of a float are floats.
LEMMA FloatExact ==
    ASSUME NEW n \in -Precision .. Precision
    PROVE  Float[Frame * n] = Frame * n
<1> USE FloatAssumption
<1>1. n \in Int /\ Frame * n \in Int
  OBVIOUS
<1>2. Magnitude(Frame * n) <= Precision * Frame
  <2>1. PICK d \in Nat : n = Precision - d
    OBVIOUS
  <2>2. PICK e \in Nat : n = e - Precision
    OBVIOUS
  <2>3. Frame * n = Precision * Frame - Frame * d /\ Frame * d \in Nat
    BY <2>1
  <2>4. Frame * n = Frame * e - Precision * Frame /\ Frame * e \in Nat
    BY <2>2
  <2> QED
    BY <2>3, <2>4 DEF Magnitude
<1>3. Frame * n <= Float[Frame * n] /\ Float[Frame * n] <= Frame * n
  BY <1>1, <1>2, FloatKeepsFrames
<1>4. Float[Frame * n] \in Int
  BY <1>1, FloatClose
<1> QED
  BY <1>1, <1>3, <1>4

\* A conversion to int gives one.
LEMMA TruncatedInt ==
    ASSUME NEW x \in Int
    PROVE  Truncated[x] \in Int
  BY FloatAssumption DEF Truncated

\* So does the sum of a mark and an offset.
LEMMA SumInt ==
    ASSUME NEW n \in Int, NEW x \in Int
    PROVE  FloatSum(n, x) \in Int /\ Truncated[FloatSum(n, x)] \in Int
<1>1. Frame * n \in Int
  BY FloatAssumption
<1>2. Float[Frame * n] \in Int
  BY <1>1, FloatClose
<1>3. FloatSum(n, x) \in Int
  BY <1>2, FloatClose DEF FloatSum
<1> QED
  BY <1>3, TruncatedInt

\* A speed is a whole number of what positions count.
LEMMA SpeedInt ==
    ASSUME NEW tenths \in Int
    PROVE  SpeedOf[tenths] \in Int
<1> USE FloatAssumption
<1> DEFINE x == tenths * Frame
           m == (Magnitude(x) + 9) \div 10
           u == 10 * Ulp[m]
<1>1. x \in Int /\ m \in Nat
  BY DEF Magnitude
<1> HIDE DEF m
<1>2. u \in Nat \ {0}
  BY <1>1, UlpDividesFrame
<1> HIDE DEF u, x
<1>3. PICK k \in Int : Nearest[u][x] = u * k
  BY <1>1, <1>2, NearestClose
<1>4. Nearest[u][x] \in Int
  BY <1>2, <1>3
<1>5. SpeedOf[tenths] = Nearest[u][x] \div 10
  BY DEF SpeedOf, u, x, m
<1> QED
  BY <1>4, <1>5

\* What rendering a frame leaves (playoutd.cpp 266-337).
LEMMA RenderStep ==
    ASSUME ControlTypeOK, RenderFrame
    PROVE  ControlTypeOK' /\ UNCHANGED marks /\ (since' = "start" <=> since = "start")
<1> USE DEF ControlTypeOK
<1>1. frame_no \in Int
  <2>1. marks[playout_source] \in Int
    BY DEF Marks
  <2> QED
    BY <2>1, SumInt DEF frame_no
<1>2. Field \in {"none", "both", "first", "second"}
  BY DEF Field
<1>3. onair' \in [frame : Int, field : {"none", "both", "first", "second"}]
  BY <1>1, <1>2 DEF RenderFrame
<1>4. play_offset' \in Int /\ step' \in BOOLEAN /\ step_backward' \in BOOLEAN
  <2>1. SpeedOf[playout_speed] \in Int
    BY SpeedInt DEF Speeds, MIN_SPEED, MAX_SPEED
  <2>2. play_offset' \in Int
    <3>1. \A x \in Int : Float[x] \in Int
      BY FloatClose
    <3>2. play_offset + Frame \in Int /\ play_offset - Frame \in Int
          /\ play_offset + SpeedOf[playout_speed] \in Int
      BY <2>1, FloatAssumption
    <3> QED
      BY <3>1, <3>2 DEF RenderFrame, Advance
  <2>3. step' = FALSE /\ step_backward' = (step_backward /\ step)
    BY DEF RenderFrame, Advance
  <2>4. step_backward' \in BOOLEAN
    BY <2>3, Zenon
  <2> QED
    BY <2>2, <2>3, <2>4
<1> QED
  BY <1>3, <1>4 DEF RenderFrame, overlayVars

\* A whole number of frames converts to that number.
LEMMA TruncatedWhole ==
    ASSUME NEW n \in Int
    PROVE  Truncated[Frame * n] = n
<1> USE FloatAssumption
<1>1. Frame * n \in Int /\ -(Frame * n) = Frame * (-n)
  OBVIOUS
<1>2. \A k \in Int : (Frame * k) \div Frame = k
  OBVIOUS
<1> QED
  BY <1>1, <1>2 DEF Truncated

\* Nothing moves between commands and frames.
LEMMA CueStands == CueInv /\ UNCHANGED controlVars => CueInv'
  BY DEF CueInv, CueShowsNear, controlVars, positionVars, stepVars

\* A command either cues or counts as a touch (playoutd.cpp 161-245).
LEMMA ParseCue ==
    ASSUME ReplayInv, NEW c, ParseCommand(c)
    PROVE  CueInv'
<1>1. CASE Cue(c)
  BY <1>1 DEF Cue, CueInv, CueShowsNear
<1>2. CASE since' = IF since = "start" THEN since ELSE "touched"
  BY <1>2 DEF CueInv, CueShowsNear
<1> QED
  BY <1>1, <1>2 DEF ParseCommand

\* A frame shown shows the mark, give or take the steps that were pending
\* (playoutd.cpp 278-337).
LEMMA RenderCue ==
    ASSUME ReplayInv, RenderFrame
    PROVE  /\ CueInv'
           /\ since = "cued" /\ Accurate(marks[playout_source]) =>
                onair'.frame = marks[playout_source]
<1> USE FloatAssumption
<1> DEFINE m == marks[playout_source]
<1>1. /\ m \in Int /\ ControlTypeOK /\ CueInv
      /\ step \in BOOLEAN /\ step_backward \in BOOLEAN /\ paused \in BOOLEAN
  BY DEF ReplayInv, TypeOK, ControlTypeOK, Marks
<1>2. /\ onair'.frame = Truncated[FloatSum(m, play_offset)]
      /\ m' = m /\ paused' = paused
      /\ since' = IF since = "cued" THEN "shown" ELSE since
  BY DEF RenderFrame, frame_no
<1>3. /\ play_offset' = IF step THEN Float[play_offset + Frame]
                        ELSE IF step_backward THEN Float[play_offset - Frame]
                        ELSE IF paused THEN play_offset
                        ELSE Float[play_offset + SpeedOf[playout_speed]]
      /\ ~step' /\ (step_backward' <=> step_backward /\ step)
  BY <1>1 DEF RenderFrame, Advance
<1>4. since = "cued" => play_offset = 0
  BY <1>1 DEF CueInv
<1>5. since = "shown" /\ paused => play_offset \in {-Frame, 0, Frame}
  BY <1>1 DEF CueInv
<1> HIDE DEF m
<1>6. ASSUME Accurate(m)
      PROVE  /\ play_offset = 0 => onair'.frame = m
             /\ play_offset = Frame => onair'.frame = m + 1
             /\ play_offset = -Frame => onair'.frame = m - 1
  <2>1. m \in -Precision .. Precision /\ m + 1 \in -Precision .. Precision
        /\ m - 1 \in -Precision .. Precision
    BY <1>1, <1>6 DEF Accurate
  <2>2. /\ Float[Frame * m] = Frame * m /\ Float[Frame * (m + 1)] = Frame * (m + 1)
        /\ Float[Frame * (m - 1)] = Frame * (m - 1)
    BY <2>1, FloatExact
  <2>3. /\ Frame * m + 0 = Frame * m
        /\ Frame * m + Frame = Frame * (m + 1)
        /\ Frame * m + (-Frame) = Frame * (m - 1)
    BY <1>1
  <2>4. /\ Truncated[Frame * m] = m /\ Truncated[Frame * (m + 1)] = m + 1
        /\ Truncated[Frame * (m - 1)] = m - 1
    BY <1>1, TruncatedWhole
  <2> QED
    BY <1>2, <2>2, <2>3, <2>4 DEF FloatSum
<1>7. paused' /\ since' = "shown" /\ Accurate(m') => onair'.frame - m' \in {-1, 0, 1}
  BY <1>1, <1>2, <1>4, <1>5, <1>6
<1>8. since' # "cued"
  BY <1>2
<1>9. paused' /\ since' = "shown" =>
        \/ play_offset' = 0 /\ ~step' /\ ~step_backward'
        \/ play_offset' = Frame /\ ~step'
        \/ play_offset' = -Frame /\ ~step' /\ ~step_backward'
  <2> SUFFICES ASSUME paused, since \in {"cued", "shown"}
               PROVE  \/ play_offset' = 0 /\ ~step' /\ ~step_backward'
                      \/ play_offset' = Frame /\ ~step'
                      \/ play_offset' = -Frame /\ ~step' /\ ~step_backward'
    BY <1>2
  <2>1. \/ play_offset = 0
        \/ play_offset = Frame /\ ~step
        \/ play_offset = -Frame /\ ~step /\ ~step_backward
    BY <1>1, <1>4 DEF CueInv
  <2>2. Float[0] = 0 /\ Float[Frame] = Frame /\ Float[-Frame] = -Frame
    <3>1. Frame * 0 = 0 /\ Frame * 1 = Frame /\ Frame * (-1) = -Frame
          /\ {-1, 0, 1} \subseteq -Precision .. Precision
      OBVIOUS
    <3> QED
      BY <3>1, FloatExact
  <2>3. /\ 0 + Frame = Frame /\ 0 - Frame = -Frame /\ Frame - Frame = 0
    OBVIOUS
  <2> QED
    BY <1>1, <1>3, <2>1, <2>2, <2>3
<1> QED
  BY <1>2, <1>4, <1>6, <1>7, <1>8, <1>9 DEF CueInv, CueShowsNear, m

\* Whatever the daemon does, its status is one (playoutd.cpp 482-497).
LEMMA StatusStep ==
    ASSUME ControlTypeOK', statuses \in Seq(Statuses), SendStatus
    PROVE  statuses' \in Seq(Statuses)
<1>1. Truncated[FloatSum(marks'[0], play_offset')] \in Int
  <2>1. 0 \in Cameras
    BY NCamerasAssumption DEF Cameras
  <2>2. marks'[0] \in Int /\ play_offset' \in Int
    BY <2>1 DEF ControlTypeOK, Marks
  <2> QED
    BY <2>2, SumInt
<1>2. Status' \in Statuses
  BY <1>1 DEF Status, Statuses, ControlTypeOK, FloatSum
<1> QED
  BY <1>2 DEF SendStatus

\* The cameras stay together.
LEMMA TickStep ==
    ASSUME ReplayInv, NEW c \in Cameras, Tick(c)
    PROVE  tc' \in Marks /\ CamerasTogether'
<1> USE SkewAssumption
<1>1. tc \in [Cameras -> Int] /\ tc' = [tc EXCEPT ![c] = @ + 1]
  BY DEF ReplayInv, TypeOK, Marks, Tick
<1>2. \A d \in Cameras : Moment(d) \in Int
  BY <1>1 DEF Moment
<1>3. \A d \in Cameras : Moment(d)' = Moment(d) + (IF d = c THEN 1 ELSE 0)
  BY <1>1 DEF Moment
<1>4. \A d \in Cameras : Moment(c) <= Moment(d)
  BY DEF Tick
<1>5. \A d, e \in Cameras : Moment(d) <= Moment(e) + 1
  BY DEF ReplayInv, CamerasTogether
<1>6. \A d, e \in Cameras : Moment(d)' <= Moment(e)' + 1
  <2> TAKE d, e \in Cameras
  <2>1. Moment(d)' = Moment(d) + (IF d = c THEN 1 ELSE 0)
        /\ Moment(e)' = Moment(e) + (IF e = c THEN 1 ELSE 0)
    BY <1>3
  <2> QED
    BY <2>1, <1>2, <1>4, <1>5
<1> QED
  BY <1>1, <1>6 DEF CamerasTogether, Marks

\* The keys that only touch marks (sdl_gui.cpp 300-337, 645-655).
LEMMA MarkKeys ==
    ASSUME ReplayInv, NEW n \in Int,
           Mark \/ MarkPlayout \/ SaveMark \/ RecallMark(n) \/ Seek
    PROVE  /\ gui_marks' \in GoodMarks /\ saved_marks' \in Seq(GoodMarks)
           /\ UNCHANGED <<settingVars, playout_status, commands>>
<1>1. /\ gui_marks \in GoodMarks /\ saved_marks \in Seq(GoodMarks)
      /\ TypeOK /\ CamerasTogether
  BY DEF ReplayInv, MarksInv
<1>2. CASE Mark
  BY <1>1, <1>2, MarkedGood DEF Mark
<1>3. CASE MarkPlayout
  <2>1. PICK d \in Int : gui_marks' = [c \in Cameras |-> gui_marks[c] + d]
    <3>1. playout_status.timecode - gui_marks[0] \in Int
      BY <1>1, NCamerasAssumption
      DEF TypeOK, GuiTypeOK, Statuses, GoodMarks, Marks, Cameras
    <3> QED
      BY <1>3, <3>1 DEF MarkPlayout
  <2> QED
    BY <1>1, <1>3, <2>1, MovedGood DEF MarkPlayout
<1>4. CASE SaveMark
  BY <1>1, <1>4 DEF SaveMark
<1>5. CASE RecallMark(n)
  <2>1. 0 <= n /\ n < Len(saved_marks) => saved_marks[n + 1] \in GoodMarks
    BY <1>1
  <2> QED
    BY <1>1, <1>5, <2>1 DEF RecallMark
<1>6. CASE Seek
  <2>1. PICK d \in {-SeekStep, SeekStep} :
            gui_marks' = [c \in Cameras |-> gui_marks[c] + d]
    BY <1>6 DEF Seek
  <2>2. d \in Int
    BY SettingsAssumption
  <2> QED
    BY <1>1, <1>6, <2>1, <2>2, MovedGood DEF Seek
<1> QED
  BY <1>2, <1>3, <1>4, <1>5, <1>6

\* The keys that only touch the settings or nothing (sdl_gui.cpp 592-600,
\* 657-736): what is sent is good.
LEMMA SettingKeys ==
    ASSUME ReplayInv, NEW n \in Int,
           SetPreroll(n) \/ SetSpeed(n) \/ SetCamera(n) \/ ToggleDsk(n)
    PROVE  /\ preroll' \in Nat /\ qreplay_speed' \in Speeds /\ qreplay_cam' \in Cameras
           /\ commands' \in Seq(GoodCommands)
           /\ UNCHANGED <<gui_marks, saved_marks, playout_status>>
<1>1. /\ preroll \in Nat /\ qreplay_speed \in Speeds /\ qreplay_cam \in Cameras
      /\ commands \in Seq(GoodCommands) /\ gui_marks \in GoodMarks /\ TypeOK
  BY DEF ReplayInv, TypeOK, GuiTypeOK, MarksInv
<1>2. CASE SetPreroll(n)
  BY <1>1, <1>2, SettingsAssumption DEF SetPreroll
<1>3. CASE SetSpeed(n)
  <2>1. qreplay_speed \in Int
    BY <1>1 DEF Speeds, MIN_SPEED, MAX_SPEED
  <2>2. PICK speed \in {qreplay_speed + 1, qreplay_speed - 1, n, -qreplay_speed} :
            /\ qreplay_speed' = Clamped(speed)
            /\ \/ UNCHANGED commands
               \/ Send(<<CommandFor("ADJUST_SPEED", Clamped(speed), gui_marks)>>)
    BY <1>3 DEF SetSpeed
  <2>3. Clamped(speed) \in Speeds
    BY <2>1, ClampedSpeed
  <2>4. CommandFor("ADJUST_SPEED", Clamped(speed), gui_marks) \in GoodCommands
    BY <1>1, <2>3, CommandGood DEF CommandNames
  <2>5. commands' \in Seq(GoodCommands)
    BY <1>1, <2>2, <2>4, ArrivingGood
  <2> QED
    BY <1>1, <1>3, <2>2, <2>3, <2>5 DEF SetSpeed
<1>4. CASE SetCamera(n)
  BY <1>1, <1>4, NCamerasAssumption DEF SetCamera, Cameras
<1>5. CASE ToggleDsk(n)
  <2>1. CommandFor("DSK_TOGGLE", qreplay_speed, gui_marks) \in GoodCommands
    BY <1>1, CommandGood DEF CommandNames
  <2>2. DskCommand(n) \in GoodCommands
    BY <2>1 DEF DskCommand, CommandFor, GoodCommands, Commands
  <2>3. commands' \in Seq(GoodCommands)
    BY <1>1, <1>5, <2>2, ArrivingGood DEF ToggleDsk
  <2> QED
    BY <1>1, <1>5, <2>3 DEF ToggleDsk, guiVars, settingVars
<1> QED
  BY <1>2, <1>3, <1>4, <1>5

\* The keys that send what the daemon shall do (sdl_gui.cpp 586-592, 1097-1100,
\* 1178-1208, 1251-1290): what is sent is good.
LEMMA CommandKeys ==
    ASSUME ReplayInv, MarkAndCue \/ SendCommand \/ RewindAtFullSpeed
    PROVE  /\ gui_marks' \in GoodMarks /\ qreplay_speed' \in Speeds
           /\ commands' \in Seq(GoodCommands)
           /\ UNCHANGED <<saved_marks, preroll, qreplay_cam, playout_status>>
<1>1. /\ qreplay_speed \in Speeds /\ commands \in Seq(GoodCommands)
      /\ gui_marks \in GoodMarks /\ TypeOK /\ CamerasTogether
  BY DEF ReplayInv, TypeOK, GuiTypeOK, MarksInv
<1>2. CASE MarkAndCue
  <2>1. Marked \in GoodMarks
    BY <1>1, MarkedGood
  <2>2. CommandFor("CUE", qreplay_speed, Marked) \in GoodCommands
    BY <1>1, <2>1, CommandGood DEF CommandNames
  <2>3. commands' \in Seq(GoodCommands)
    BY <1>1, <1>2, <2>2, ArrivingGood DEF MarkAndCue
  <2> QED
    BY <1>1, <1>2, <2>1, <2>3 DEF MarkAndCue, settingVars
<1>3. CASE SendCommand
  <2>1. \A cmd \in CommandNames : Command(cmd) \in GoodCommands
    BY <1>1, CommandGood DEF Command
  <2>2. Command("CUE") \in GoodCommands /\ Command("RESUME") \in GoodCommands
    BY <2>1 DEF CommandNames
  <2>3. ASSUME Send(<<Command("CUE")>>)
        PROVE  commands' \in Seq(GoodCommands)
    BY <1>1, <2>2, <2>3, ArrivingGood
  <2>4. ASSUME Send(<<Command("CUE"), Command("RESUME")>>)
        PROVE  commands' \in Seq(GoodCommands)
    BY <1>1, <2>2, <2>4, ArrivingGood
  <2>5. ASSUME NEW cmd \in CommandNames, Send(<<Command(cmd)>>)
        PROVE  commands' \in Seq(GoodCommands)
    BY <1>1, <2>1, <2>5, ArrivingGood
  <2>6. commands' \in Seq(GoodCommands)
    BY <1>3, <2>3, <2>4, <2>5 DEF SendCommand, CommandNames
  <2> QED
    BY <1>1, <1>3, <2>6 DEF SendCommand, guiVars, settingVars
<1>4. CASE RewindAtFullSpeed
  <2>1. 10 \in Speeds
    BY DEF Speeds, MIN_SPEED, MAX_SPEED
  <2>2. /\ CommandFor("ADJUST_SPEED", 10, gui_marks) \in GoodCommands
        /\ CommandFor("CUE_AND_GO", 10, gui_marks) \in GoodCommands
    BY <1>1, <2>1, CommandGood DEF CommandNames
  <2>3. commands' \in Seq(GoodCommands)
    BY <1>1, <1>4, <2>2, ArrivingGood DEF RewindAtFullSpeed
  <2> QED
    BY <1>1, <1>4, <2>1, <2>3 DEF RewindAtFullSpeed
<1> QED
  BY <1>2, <1>3, <1>4

\* Every key.
LEMMA PressStep ==
    ASSUME ReplayInv, Press
    PROVE  ReplayInv'
<1>1. /\ ReplayInv /\ ControlTypeOK /\ GuiTypeOK
      /\ gui_marks \in GoodMarks /\ saved_marks \in Seq(GoodMarks)
      /\ commands \in Seq(GoodCommands)
  BY DEF ReplayInv, TypeOK, MarksInv
<1>2. /\ GuiTypeOK' /\ gui_marks' \in GoodMarks /\ saved_marks' \in Seq(GoodMarks)
      /\ commands' \in Seq(GoodCommands)
  <2> DEFINE Good == /\ preroll' \in Nat /\ qreplay_speed' \in Speeds /\ qreplay_cam' \in Cameras
                     /\ playout_status' \in Statuses
                     /\ gui_marks' \in GoodMarks /\ saved_marks' \in Seq(GoodMarks)
                     /\ commands' \in Seq(GoodCommands)
  <2>1. ASSUME Mark \/ MarkPlayout \/ SaveMark \/ Seek
        PROVE  Good
    BY <1>1, <2>1, 0 \in Int, MarkKeys DEF GuiTypeOK, settingVars
  <2>2. ASSUME NEW n \in Numbers, RecallMark(n)
        PROVE  Good
    BY <1>1, <2>2, MarkKeys, NumbersAssumption DEF GuiTypeOK, settingVars
  <2>3. ASSUME NEW n \in Numbers, SetPreroll(n) \/ SetSpeed(n) \/ SetCamera(n) \/ ToggleDsk(n)
        PROVE  Good
    BY <1>1, <2>3, SettingKeys, NumbersAssumption DEF GuiTypeOK
  <2>4. ASSUME MarkAndCue \/ SendCommand \/ RewindAtFullSpeed
        PROVE  Good
    BY <1>1, <2>4, CommandKeys DEF GuiTypeOK
  <2>5. Good
    BY <2>1, <2>2, <2>3, <2>4 DEF Press, Key
  <2>6. gui_marks' \in Marks /\ saved_marks' \in Seq(Marks)
    BY <2>5, GoodAreTyped DEF GoodMarks
  <2> QED
    BY <2>5, <2>6 DEF GuiTypeOK
<1>3. UNCHANGED <<controlVars, tc, statuses>> /\ keys' \in 0 .. MaxKeys
  BY RoomAssumption DEF Press, ReplayInv, TypeOK
<1>4. /\ ControlTypeOK' /\ tc' \in Marks /\ CamerasTogether' /\ statuses' \in Seq(Statuses)
      /\ since' # "start" => marks' \in GoodMarks
  BY <1>3 DEF controlVars, positionVars, stepVars, overlayVars, ControlTypeOK, CamerasTogether,
              Moment, ReplayInv, TypeOK, MarksInv
<1>5. commands' \in Seq(Commands)
  BY <1>2, GoodAreTyped
<1>6. CueInv'
  BY <1>3, CueStands DEF ReplayInv
<1> QED
  BY <1>2, <1>3, <1>4, <1>5, <1>6 DEF ReplayInv, TypeOK, MarksInv

\* The daemon's two events (playoutd.cpp 459-497).
LEMMA DaemonStep ==
    ASSUME ReplayInv, HandleCommand \/ NeedFrame
    PROVE  ReplayInv'
<1>1. /\ ControlTypeOK /\ GuiTypeOK /\ tc \in Marks /\ CamerasTogether
      /\ statuses \in Seq(Statuses) /\ keys \in 0 .. MaxKeys
      /\ gui_marks \in GoodMarks /\ saved_marks \in Seq(GoodMarks)
      /\ commands \in Seq(GoodCommands)
      /\ since # "start" => marks \in GoodMarks
  BY DEF ReplayInv, TypeOK, MarksInv
<1>2. /\ ControlTypeOK' /\ commands' \in Seq(GoodCommands)
      /\ since' # "start" => marks' \in GoodMarks
  <2>1. CASE HandleCommand
    <3>1. Head(commands) \in GoodCommands /\ Tail(commands) \in Seq(GoodCommands)
      BY <1>1, <2>1 DEF HandleCommand
    <3> QED
      BY <2>1, <3>1, ParseStep DEF HandleCommand
  <2>2. CASE NeedFrame
    <3>1. CASE RenderFrame
      BY <1>1, <2>2, <3>1, RenderStep DEF NeedFrame
    <3>2. CASE RenderNothing
      BY <1>1, <2>2, <3>2 DEF NeedFrame, RenderNothing, controlVars, positionVars, stepVars,
                              overlayVars, ControlTypeOK
    <3> QED
      BY <2>2, <3>1, <3>2 DEF NeedFrame
  <2> QED
    BY <2>1, <2>2
<1>3. SendStatus /\ UNCHANGED <<tc, guiVars, keys>>
  BY DEF HandleCommand, NeedFrame
<1>4. statuses' \in Seq(Statuses)
  BY <1>1, <1>2, <1>3, StatusStep
<1>5. GuiTypeOK' /\ tc' \in Marks /\ CamerasTogether' /\ keys' \in 0 .. MaxKeys
  BY <1>1, <1>3 DEF guiVars, settingVars, GuiTypeOK, CamerasTogether, Moment
<1>6. gui_marks' \in GoodMarks /\ saved_marks' \in Seq(GoodMarks)
  BY <1>1, <1>3 DEF guiVars
<1>7. commands' \in Seq(Commands)
  BY <1>2, GoodAreTyped
<1>8. CueInv'
  <2>1. CueInv
    BY DEF ReplayInv
  <2> QED
    BY <2>1, ParseCue, RenderCue, CueStands DEF HandleCommand, NeedFrame, RenderNothing
<1> QED
  BY <1>2, <1>4, <1>5, <1>6, <1>7, <1>8 DEF ReplayInv, TypeOK, MarksInv

\* A camera's frame, a restart of the daemon, and a status that arrives.
LEMMA OtherStep ==
    ASSUME ReplayInv, (\E c \in Cameras : Tick(c)) \/ Restart \/ ReceiveStatus
    PROVE  ReplayInv'
<1>0. CueInv'
  <2>1. CueInv
    BY DEF ReplayInv
  <2>2. CASE Restart
    BY <2>2 DEF Restart, CueInv, CueShowsNear
  <2> QED
    BY <2>1, <2>2, CueStands DEF Tick, ReceiveStatus
<1>1. CASE \E c \in Cameras : Tick(c)
  <2>1. PICK c \in Cameras : Tick(c)
    BY <1>1
  <2>2. tc' \in Marks /\ CamerasTogether'
    BY <2>1, TickStep
  <2>3. UNCHANGED <<controlVars, guiVars, commands, statuses, keys>>
    BY <2>1 DEF Tick
  <2> QED
    BY <1>0, <2>2, <2>3
       DEF controlVars, positionVars, stepVars, overlayVars, guiVars, settingVars, ReplayInv, TypeOK, ControlTypeOK, GuiTypeOK, MarksInv
<1>2. CASE Restart
  <2>1. ControlTypeOK' /\ since' = "start" /\ UNCHANGED <<tc, guiVars, statuses>>
    <3>1. 0 \in Cameras /\ 0 \in Speeds
      BY NCamerasAssumption DEF Cameras, Speeds, MIN_SPEED, MAX_SPEED
    <3>2. Nothing \in [frame : Int, field : {"none", "both", "first", "second"}]
      BY DEF Nothing
    <3>3. [c \in Cameras |-> 0] \in Marks
      BY DEF Marks
    <3>4. onair' \in [frame : Int, field : {"none", "both", "first", "second"}]
      BY <1>2, <3>2 DEF Restart
    <3>5. marks' \in Marks
      BY <1>2, <3>3 DEF Restart
    <3>6. play_offset' \in Int /\ playout_source' \in Cameras /\ playout_speed' \in Speeds
      BY <1>2, <3>1 DEF Restart
    <3>7. /\ paused' \in BOOLEAN /\ step' \in BOOLEAN /\ step_backward' \in BOOLEAN
          /\ overlay_clock' \in BOOLEAN /\ dsk_active' \subseteq Slots
      BY <1>2 DEF Restart
    <3>8. since' = "start" /\ UNCHANGED <<tc, guiVars, statuses>>
      BY <1>2 DEF Restart
    <3> QED
      BY <3>4, <3>5, <3>6, <3>7, <3>8 DEF ControlTypeOK
  <2>2. /\ commands' = << >> /\ keys' \in 0 .. MaxKeys
        /\ << >> \in Seq(Commands) /\ << >> \in Seq(GoodCommands)
    BY <1>2, RoomAssumption DEF Restart, ReplayInv, TypeOK
  <2> QED
    BY <1>0, <2>1, <2>2 DEF guiVars, settingVars, ReplayInv, TypeOK, GuiTypeOK, MarksInv,
                      CamerasTogether, Moment
<1>3. CASE ReceiveStatus
  <2>1. playout_status' \in Statuses /\ statuses' \in Seq(Statuses)
    BY <1>3 DEF ReceiveStatus, ReplayInv, TypeOK
  <2> QED
    BY <1>0, <1>3, <2>1 DEF ReceiveStatus, controlVars, positionVars, stepVars, overlayVars,
                      settingVars, ReplayInv, TypeOK, ControlTypeOK, GuiTypeOK, MarksInv,
                      CamerasTogether, Moment
<1> QED
  BY <1>1, <1>2, <1>3

\* At the start the interface has just made its marks.
LEMMA Start == Init => ReplayInv
<1> SUFFICES ASSUME Init PROVE ReplayInv
  OBVIOUS
<1> USE NCamerasAssumption, SkewAssumption, WindowAssumption, SettingsAssumption, RoomAssumption
<1>1. tc \in Marks /\ \A c \in Cameras : Moment(c) = First - (IF c = 0 THEN 0 ELSE 1)
  BY DEF Init, Marks, Moment
<1>2. CamerasTogether
  <2> SUFFICES ASSUME NEW c \in Cameras, NEW d \in Cameras
               PROVE  Moment(c) <= Moment(d) + 1
    BY DEF CamerasTogether
  <2>1. /\ Moment(c) = First - (IF c = 0 THEN 0 ELSE 1)
        /\ Moment(d) = First - (IF d = 0 THEN 0 ELSE 1)
    BY <1>1
  <2> QED
    BY <2>1
<1>3. ControlTypeOK /\ since = "start"
  <2>1. 0 \in Cameras /\ 0 \in Speeds
    BY DEF Cameras, Speeds, MIN_SPEED, MAX_SPEED
  <2>2. Nothing \in [frame : Int, field : {"none", "both", "first", "second"}]
    BY DEF Nothing
  <2>3. [c \in Cameras |-> 0] \in Marks
    BY DEF Marks
  <2> QED
    BY <2>1, <2>2, <2>3 DEF Init, ControlInit, ControlTypeOK
<1>4. gui_marks \in Marks
  BY <1>1 DEF Init, GuiInit, Marks
<1>5. GuiTypeOK /\ saved_marks = << >>
  BY <1>4 DEF Init, GuiInit, GuiTypeOK, Cameras, Speeds, MIN_SPEED, MAX_SPEED, NoStatus, Statuses
<1>6. TypeOK
  BY <1>1, <1>3, <1>5 DEF Init, GuiInit, TypeOK
<1>7. gui_marks = Marked
  BY DEF Init, GuiInit, Marked
<1>8. gui_marks \in GoodMarks
  BY <1>2, <1>6, <1>7, MarkedGood
<1>9. commands = << >> /\ << >> \in Seq(GoodMarks) /\ << >> \in Seq(GoodCommands)
  BY DEF Init, GuiInit
<1> QED
  BY <1>2, <1>3, <1>5, <1>6, <1>8, <1>9 DEF ReplayInv, MarksInv, CueInv, CueShowsNear

\* The inductive invariant holds in every reachable state: every place marks
\* are kept in holds marks of one moment (sdl_gui.cpp 300-337, playoutd.cpp 163-171).
THEOREM Inductive == Spec => []ReplayInv
<1>1. Init => ReplayInv
  BY Start
<1>2. ReplayInv /\ [Next]_vars => ReplayInv'
  <2> SUFFICES ASSUME ReplayInv, [Next]_vars PROVE ReplayInv'
    OBVIOUS
  <2>1. CASE Press
    BY <2>1, PressStep
  <2>2. CASE HandleCommand \/ NeedFrame
    BY <2>2, DaemonStep
  <2>3. CASE (\E c \in Cameras : Tick(c)) \/ Restart \/ ReceiveStatus
    BY <2>3, OtherStep
  <2>4. CASE UNCHANGED vars
    BY <2>4, CueStands
            DEF vars, controlVars, positionVars, stepVars, overlayVars, guiVars, settingVars,
                ReplayInv, TypeOK, ControlTypeOK, GuiTypeOK, MarksInv, CamerasTogether, Moment
  <2> QED
    BY <2>1, <2>2, <2>3, <2>4 DEF Next
<1> QED
  BY <1>1, <1>2, PTL DEF Spec

\* Every variable of the interface and of the daemon keeps its type, and a
\* command that selects a camera names one that exists (sdl_gui.cpp 728-736).
THEOREM TypeCorrect == Spec => []TypeOK
<1>1. ReplayInv => TypeOK
  BY DEF ReplayInv
<1> QED
  BY <1>1, Inductive, PTL

\* Marks made, moved, saved, sent or played from mean one moment on all cameras,
\* whatever is lost or restarted (sdl_gui.cpp 300-337, 539-584; playoutd.cpp 163-171).
THEOREM MarksAgree == Spec => []SameMomentEverywhere
<1>1. ReplayInv => SameMomentEverywhere
  <2> SUFFICES ASSUME ReplayInv PROVE SameMomentEverywhere
    OBVIOUS
  <2>1. \A i \in 1 .. Len(saved_marks) : saved_marks[i] \in GoodMarks
    BY DEF ReplayInv, MarksInv
  <2>2. \A i \in 1 .. Len(commands) : commands[i] \in GoodCommands
    BY DEF ReplayInv, MarksInv
  <2> QED
    BY <2>1, <2>2 DEF ReplayInv, MarksInv, GoodCommands, GoodMarks, SameMomentEverywhere
<1> QED
  BY <1>1, Inductive, PTL

\* The frame and the field of it that are rendered, for the position they are
\* rendered at (playoutd.cpp 281-295).
LEMMA FieldStep ==
    ASSUME ReplayInv, RenderFrame, Accurate(marks[playout_source]),
           0 <= Position, Position < Precision * Frame,
           NEW frame, frame = Position \div Frame,
           NEW left, left = Frame * (frame + 1) - Position
    PROVE  /\ onair'.field \in {"both", IF 2 * left > Frame THEN "first" ELSE "second"}
           /\ \/ onair'.frame = frame
              \/ /\ onair'.frame = frame + 1 /\ onair'.field # "first"
                 /\ 2 * left <= Ulp[Position]
<1> USE FloatAssumption
<1> DEFINE m == marks[playout_source]
<1>1. m \in Int /\ play_offset \in Int /\ Position = Frame * m + play_offset
  BY DEF ReplayInv, TypeOK, ControlTypeOK, Marks, Position
<1>2. onair'.frame = Truncated[FloatSum(m, play_offset)] /\ onair'.field = Field
  BY DEF RenderFrame, frame_no
<1> HIDE DEF m
<1>3. Position \in Nat /\ frame \in Nat /\ left \in 1 .. Frame
  <2>1. Position \in Nat
    BY <1>1
  <2>2. PICK r : r = Position % Frame
    OBVIOUS
  <2> HIDE <2>2
  <2>3. frame \in Int /\ r \in 0 .. Frame - 1 /\ Position = Frame * frame + r
    BY <2>1, <2>2, Division
  <2>4. frame \in Nat /\ Position - Frame * frame \in 0 .. Frame - 1
    <3>1. frame < 0 => Frame * frame <= -Frame
      BY <2>3
    <3>2. Frame * frame \in Int
      BY <2>3
    <3> QED
      BY <2>1, <2>3, <3>1, <3>2
  <2>5. Frame * (frame + 1) = Frame * frame + Frame /\ Frame * frame \in Int
    BY <2>4
  <2> QED
    BY <2>1, <2>4, <2>5
<1>4. play_offset % Frame = Frame - left
  <2>1. play_offset = Frame * (frame - m) + (Frame - left)
    BY <1>1, <1>3
  <2>2. frame - m \in Int /\ Frame - left \in 0 .. Frame - 1
    BY <1>1, <1>3
  <2>3. \A k \in Int, r \in 0 .. Frame - 1 : (Frame * k + r) % Frame = r
    OBVIOUS
  <2> QED
    BY <2>1, <2>2, <2>3
<1>5. FloatSum(m, play_offset) = Float[Position]
  <2>1. m \in -Precision .. Precision
    BY <1>1 DEF Accurate, m
  <2> QED
    BY <1>1, <2>1, FloatExact DEF FloatSum
<1>6. /\ Frame * frame <= Float[Position] /\ Float[Position] <= Frame * (frame + 1)
      /\ Float[Position] \in Int /\ 2 * (Float[Position] - Position) <= Ulp[Position]
  <2>1. Magnitude(Position) = Position /\ Position <= Precision * Frame
    BY <1>3 DEF Magnitude
  <2>2. Frame * frame <= Position /\ Position <= Frame * (frame + 1)
    <3>1. Frame * (frame + 1) = Frame * frame + Frame /\ Frame * frame \in Int
      BY <1>3
    <3> QED
      BY <1>3, <3>1
  <2>3. Float[Position] \in Int /\ 2 * (Float[Position] - Position) <= Ulp[Position]
    BY <1>3, <2>1, FloatClose
  <2>4. ASSUME NEW n \in Int
        PROVE  /\ Frame * n <= Position => Frame * n <= Float[Position]
               /\ Position <= Frame * n => Float[Position] <= Frame * n
    <3>1. Position \in Int /\ Magnitude(Position) <= Precision * Frame
      BY <1>3, <2>1
    <3> QED
      BY <3>1, FloatKeepsFrames
  <2>5. frame \in Int /\ frame + 1 \in Int
    BY <1>3
  <2> QED
    BY <2>2, <2>3, <2>4, <2>5
<1>7. onair'.field \in {"both", IF 2 * left > Frame THEN "first" ELSE "second"}
  BY <1>2, <1>3, <1>4 DEF Field
<1>8. Truncated[Float[Position]] = Float[Position] \div Frame
  BY <1>3, <1>6 DEF Truncated
<1>9. CASE Float[Position] < Frame * (frame + 1)
  <2> DEFINE r == Float[Position] - Frame * frame
  <2>1. r \in 0 .. Frame - 1 /\ Float[Position] = Frame * frame + r
    <3>1. Frame * (frame + 1) = Frame * frame + Frame /\ Frame * frame \in Int
      BY <1>3
    <3> QED
      BY <1>6, <1>9, <3>1
  <2> HIDE DEF r
  <2>2. \A k \in Int, r_ \in 0 .. Frame - 1 : (Frame * k + r_) \div Frame = k
    OBVIOUS
  <2> QED
    BY <1>2, <1>3, <1>5, <1>7, <1>8, <2>1, <2>2
<1>10. CASE Float[Position] = Frame * (frame + 1)
  <2>1. Truncated[Float[Position]] = frame + 1
    BY <1>3, <1>10, TruncatedWhole
  <2>2. 2 * left <= Ulp[Position]
    BY <1>6, <1>10
  <2>3. Ulp[Position] <= Frame
    <3>1. Ulp[Position] \in Nat \ {0} /\ Frame % Ulp[Position] = 0
      BY <1>3, UlpDividesFrame
    <3> QED
      BY <3>1
  <2>4. 2 * left <= Frame /\ Ulp[Position] \in Int
    BY <1>3, <2>2, <2>3, UlpDividesFrame
  <2> QED
    BY <1>2, <1>5, <1>7, <1>3, <2>1, <2>2, <2>4
<1> QED
  BY <1>3, <1>6, <1>9, <1>10

\* The frame and the field shown together are the half frame the position lies
\* in, or the second half of the frame after it, and that only when the next
\* frame is closer than the sum can tell (playoutd.cpp 278-305).
THEOREM FieldsInTime == Spec => FieldInTime
<1> DEFINE Shown == onair' # onair /\ onair' # Nothing /\ Accurate(marks[playout_source])
                      /\ 0 <= Position /\ Position < Precision * Frame =>
                      LET frame == Position \div Frame
                          left == Frame * (frame + 1) - Position
                      IN  /\ onair'.field \in {"both", IF 2 * left > Frame THEN "first" ELSE "second"}
                          /\ \/ onair'.frame = frame
                             \/ /\ onair'.frame = frame + 1 /\ onair'.field # "first"
                                /\ 2 * left <= Ulp[Position]
<1>1. ReplayInv /\ [Next]_vars => [Shown]_onair
  <2> SUFFICES ASSUME ReplayInv, [Next]_vars, onair' # onair, onair' # Nothing
               PROVE  RenderFrame
    BY FieldStep
  <2>1. CASE HandleCommand
    BY <2>1 DEF HandleCommand, ParseCommand, Cue
  <2>2. CASE NeedFrame
    BY <2>2 DEF NeedFrame, RenderNothing, controlVars
  <2>3. CASE Restart
    BY <2>3 DEF Restart
  <2>4. CASE (\E c \in Cameras : Tick(c)) \/ Press \/ ReceiveStatus \/ UNCHANGED vars
    BY <2>4 DEF Tick, Press, ReceiveStatus, vars, controlVars
  <2> QED
    BY <2>1, <2>2, <2>3, <2>4 DEF Next
<1> QED
  BY <1>1, Inductive, PTL DEF Spec, FieldInTime

\* The first frame shown after a cue is the marked one of the camera cued
\* (playoutd.cpp 161-171, 278-337).
THEOREM CuedFrameFirst == Spec => CueStartsThere
<1>1. ReplayInv /\ [Next]_vars =>
        [since = "cued" /\ since' = "shown" /\ Accurate(marks[playout_source]) =>
           onair'.frame = marks[playout_source]]_controlVars
  <2> SUFFICES ASSUME ReplayInv, [Next]_vars, since = "cued", since' = "shown"
               PROVE  RenderFrame
    BY RenderCue
  <2>1. CASE HandleCommand
    BY <2>1 DEF HandleCommand, ParseCommand, Cue
  <2>2. CASE NeedFrame
    BY <2>2 DEF NeedFrame, RenderNothing, controlVars
  <2>3. CASE Restart
    BY <2>3 DEF Restart
  <2>4. CASE (\E c \in Cameras : Tick(c)) \/ Press \/ ReceiveStatus \/ UNCHANGED vars
    BY <2>4 DEF Tick, Press, ReceiveStatus, vars, controlVars
  <2> QED
    BY <2>1, <2>2, <2>3, <2>4 DEF Next
<1> QED
  BY <1>1, Inductive, PTL DEF Spec, CueStartsThere

\* A replay cued and not touched since stays within a frame of its mark: all
\* that can move it is one step asked for before (playoutd.cpp 184-200, 318-335).
THEOREM CuedFrameNear == Spec => []CueShowsNear
<1>1. ReplayInv => CueShowsNear
  BY DEF ReplayInv, CueInv
<1> QED
  BY <1>1, Inductive, PTL
=============================================================================
