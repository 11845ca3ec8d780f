----------------------------- MODULE MjpegCodec -----------------------------
(***************************************************************************)
(* What src/core/mjpeg_frame.cpp makes of the fields of a frame: weaving   *)
(* two fields into a picture, and doubling the lines of one field for slow *)
(* motion, from the field itself or in place in a picture that has both.   *)
(*                                                                         *)
(* A picture is a function from its scanlines to sets of samples: one that *)
(* is copied keeps its set, one that is interpolated has the samples of    *)
(* both it was made from.  What is encoded is what is decoded: the loss of *)
(* the JPEG compression, the pixels and their format are left out.         *)
(***************************************************************************)
EXTENDS Integers

CONSTANT FieldHeight   \* scanlines of a field; a frame has twice as many

ASSUME FieldHeightAssumption == FieldHeight \in Nat \ {0}

FieldLine == 0 .. FieldHeight - 1
Line == 0 .. 2 * FieldHeight - 1

\* Parity of a scanline: the even ones are 0, 2, 4, ...
Odd(i) == i % 2 = 1

\* interpolate_scanline( )
Interpolate(a, b) == a \cup b

-----------------------------------------------------------------------------
\* weave( ): even and odd scanlines by turns.
weave(even, odd) == [i \in Line |-> IF Odd(i) THEN odd[i \div 2] ELSE even[i \div 2]]

\* in = odd scanlines. Generate the even ones by interpolation; the first has
\* no scanline above it and is copied.
scan_double_up(in) ==
    [i \in Line |->
        LET j == i \div 2 IN
        IF Odd(i) \/ j = 0 THEN in[j] ELSE Interpolate(in[j - 1], in[j])]

\* in = even scanlines. Generate the odd ones by interpolation; the last has no
\* scanline below it and is copied.
scan_double_down(in) ==
    [i \in Line |->
        LET j == i \div 2 IN
        IF ~Odd(i) \/ j + 1 = FieldHeight THEN in[j] ELSE Interpolate(in[j], in[j + 1])]

\* Variant: the scanline being replaced takes part.
scan_double_full_frame_even_blend(p) ==
    [i \in Line |->
        IF ~Odd(i) THEN p[i]
        ELSE IF i + 1 \in Line THEN Interpolate(p[i], p[i + 1]) ELSE p[i - 1]]

\* The same in place, where the even scanlines are already where they belong,
scan_double_full_frame_even(p) ==
    [i \in Line |->
        IF ~Odd(i) THEN p[i]
        ELSE IF i + 1 \in Line THEN Interpolate(p[i - 1], p[i + 1]) ELSE p[i - 1]]

\* and where the odd ones are.
scan_double_full_frame_odd(p) ==
    [i \in Line |->
        IF Odd(i) THEN p[i]
        ELSE IF i - 1 \in Line THEN Interpolate(p[i - 1], p[i + 1]) ELSE p[i + 1]]

-----------------------------------------------------------------------------
(* MJPEGDecoder, of a frame [interlaced, odd_dominant, f1, f2] whose images *)
(* are what the encoder was given: f1 is the whole picture if the frame is  *)
(* not interlaced, the first of two fields if it is.                        *)

decode_full(frame) ==
    IF ~frame.interlaced THEN frame.f1
    ELSE IF frame.odd_dominant THEN weave(frame.f2, frame.f1)
                               ELSE weave(frame.f1, frame.f2)

decode_first(frame) == IF frame.interlaced THEN frame.f1 ELSE decode_full(frame)

decode_second(frame) == IF frame.interlaced THEN frame.f2 ELSE decode_full(frame)

decode_first_doubled(frame) ==
    IF frame.interlaced
    THEN IF frame.odd_dominant THEN scan_double_up(decode_first(frame))
                               ELSE scan_double_down(decode_first(frame))
    ELSE IF frame.odd_dominant THEN scan_double_full_frame_odd(decode_full(frame))
                               ELSE scan_double_full_frame_even(decode_full(frame))

decode_second_doubled(frame) ==
    IF frame.interlaced
    THEN IF frame.odd_dominant THEN scan_double_down(decode_second(frame))
                               ELSE scan_double_up(decode_second(frame))
    ELSE IF frame.odd_dominant THEN scan_double_full_frame_even(decode_full(frame))
                               ELSE scan_double_full_frame_odd(decode_full(frame))

-----------------------------------------------------------------------------
(* field_split.cpp and make_odd_dominant( ) of v4l2_ingest.cpp.             *)

\* The even or the odd scanlines of a picture.
FieldOf(p, odd) == [j \in FieldLine |-> p[IF odd THEN 2 * j + 1 ELSE 2 * j]]

\* The same frame as two images.
Split(frame) ==
    [frame EXCEPT !.interlaced = TRUE,
                  !.f1 = FieldOf(frame.f1, frame.odd_dominant),
                  !.f2 = FieldOf(frame.f1, ~frame.odd_dominant)]
=============================================================================
