---------------------------- MODULE MCMjpegIngest ----------------------------
(* A small instance of MjpegIngest for TLC, with a buffer of 17 bytes.  In  *)
(* the first stream the last image has FF among its data, and the first     *)
(* three together fill the buffer; in the second a pair of fields fits the  *)
(* buffer only if it is a pair of the stream; in the third an image that    *)
(* can be cut has another one behind it, and what is left of it is put as   *)
(* a frame of its own, empty or not.                                        *)
EXTENDS MjpegIngest

StreamOf(pictures) ==
    [bytes |-> FlattenSeq(pictures),
     ends  |-> [k \in DOMAIN pictures |-> Len(FlattenSeq(SubSeq(pictures, 1, k)))]]

ShortPictures == << <<FF, SOI, 1, FF, EOI>>,
                    <<FF, SOI, 2, 2, FF, EOI>>,
                    <<FF, SOI, 3, 3, FF, EOI>>,
                    <<FF, SOI, FF, 0, FF, 0, 4, FF, EOI>> >>
LongPictures == << <<FF, SOI, 1, FF, EOI>>,
                   <<FF, SOI, 2, 2, FF, 0, 2, FF, EOI>>,
                   <<FF, SOI, 3, 3, 3, 3, 3, FF, EOI>>,
                   <<FF, SOI, 4, FF, EOI>> >>
CutPictures == << <<FF, SOI, FF, EOI>>,
                  <<FF, SOI, FF, 0, FF, EOI>>,
                  <<FF, SOI, FF, EOI>>,
                  <<FF, SOI, FF, 0, FF, EOI>>,
                  <<FF, SOI, 5, FF, EOI>> >>

AllStreams == {StreamOf(ShortPictures), StreamOf(LongPictures), StreamOf(CutPictures)}
Modes == {{}, {"o"}, {"e", "p"}, {"e", "o"}}
FieldModes == {{"e"}}
=============================================================================
