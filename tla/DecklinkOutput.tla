--------------------------- MODULE DecklinkOutput ---------------------------
(***************************************************************************)
(* The video output: src/core/output_adapter.h 58-300, with the reference  *)
(* counts of src/core/picture.cpp 29-98.                                   *)
(*                                                                         *)
(* The client's thread hands over a picture with SetNextFrame( ); the      *)
(* card's thread calls ScheduledFrameCompleted( ) whenever one of the      *)
(* frames in its queue has been shown, and that frame is filled from the   *)
(* current picture and scheduled again.  The two threads share             *)
(* current_frame and current_frame_is_stale under _mut; a critical section *)
(* is one step, for the only thing done inside is a post to the event      *)
(* queue, whose mutex is always given back at once.                        *)
(*                                                                         *)
(* The card plays what is scheduled in order, DECKLINK_N_FIFO = 8 frames   *)
(* later (44, 110-121): what is said here of contents is said of what is   *)
(* scheduled, and only the order carries over to what is on air.           *)
(*                                                                         *)
(* A program EXTENDS this module and says what the client does.  A picture *)
(* is a place in memory; content[p] numbers what has been drawn in it.     *)
(***************************************************************************)
EXTENDS Integers

CONSTANTS Pictures,   \* the places a picture can be in
          Null        \* the null pointer

ASSUME NullAssumption == Null \notin Pictures

VARIABLES rcount, content,                       \* of each picture
          current_frame, current_frame_is_stale,
          new_frame, old_frame,                  \* locals of SetNextFrame( )
          card,                                  \* where the card's thread is
          in_frame,                              \* local of schedule_next_frame( )
          copied,                                \* what it has copied from in_frame
          scheduled                              \* contents last scheduled

pictureVars == <<rcount, content>>
sharedVars == <<current_frame, current_frame_is_stale>>
setVars == <<new_frame, old_frame>>
cardVars == <<card, in_frame, copied, scheduled>>
outputVars == <<pictureVars, sharedVars, setVars, cardVars>>

Black == 0       \* what a frame shows before there is a picture
Torn == -1       \* a copy of two contents at once

Live(p) == rcount[p] > 0
FreePictures == {p \in Pictures : ~Live(p)}

\* rcount after one more and one less reference to p; free( ) of a null
\* pointer does not happen (output_adapter.h 163, 268).
Addref(p) == [rcount EXCEPT ![p] = @ + 1]
Free(p) == IF p = Null THEN rcount ELSE [rcount EXCEPT ![p] = @ - 1]

OutputInit ==
    /\ current_frame = Null
    /\ current_frame_is_stale = TRUE
    /\ new_frame = Null /\ old_frame = Null
    /\ card = "playing" /\ in_frame = Null /\ copied = Black /\ scheduled = Black

-----------------------------------------------------------------------------
(* SetNextFrame( ), step by step, for the client's thread.                  *)

\* A picture the card can take as it is gets one more reference.
TakeReference(p) ==
    /\ new_frame' = p
    /\ rcount' = Addref(p)
    /\ UNCHANGED <<content, sharedVars, old_frame, cardVars>>

\* Any other is converted into a new picture.
Convert(p) ==
    /\ \E q \in FreePictures :
         /\ new_frame' = q
         /\ rcount' = Addref(q)
         /\ content' = [content EXCEPT ![q] = content[p]]
    /\ UNCHANGED <<sharedVars, old_frame, cardVars>>

Swap ==
    /\ old_frame' = current_frame
    /\ current_frame' = new_frame
    /\ current_frame_is_stale' = FALSE
    /\ new_frame' = Null
    /\ UNCHANGED <<pictureVars, cardVars>>

\* Variant: the picture replaced is forgotten.
DropOldNever ==
    /\ old_frame' = Null
    /\ UNCHANGED <<pictureVars, sharedVars, new_frame, cardVars>>

DropOld ==
    /\ rcount' = Free(old_frame)
    /\ old_frame' = Null
    /\ UNCHANGED <<content, sharedVars, new_frame, cardVars>>

-----------------------------------------------------------------------------
(* schedule_next_frame( ), in the card's thread.                            *)

\* The card has shown a frame and calls ScheduledFrameCompleted( ).
FrameCompleted ==
    /\ card = "playing"
    /\ card' = "completed"
    /\ UNCHANGED <<pictureVars, sharedVars, setVars, in_frame, copied, scheduled>>

\* Variant: every frame shown asks for a new one.
AsksAlways == current_frame # Null

\* The critical section makes a fresh frame stale: a new one is asked for.
AsksForFrame == current_frame # Null /\ ~current_frame_is_stale

\* Variant: the card's thread copies from a picture it holds no reference to.
TakeFrameUncounted ==
    /\ card = "completed"
    /\ card' = "taken"
    /\ in_frame' = current_frame
    /\ current_frame_is_stale' = (current_frame_is_stale \/ current_frame # Null)
    /\ UNCHANGED <<rcount, content, current_frame, setVars, copied, scheduled>>

TakeFrame ==
    /\ card = "completed"
    /\ card' = "taken"
    /\ in_frame' = current_frame
    /\ IF current_frame = Null
       THEN UNCHANGED <<rcount, current_frame_is_stale>>
       ELSE /\ rcount' = Addref(current_frame)
            /\ current_frame_is_stale' = TRUE
    /\ UNCHANGED <<content, current_frame, setVars, copied, scheduled>>

\* The lines are copied one after the other: two samples tell a copy of one
\* picture from a mixture.
CopyBegin ==
    /\ card = "taken"
    /\ card' = "copying"
    /\ copied' = IF in_frame = Null THEN Black ELSE content[in_frame]
    /\ UNCHANGED <<pictureVars, sharedVars, setVars, in_frame, scheduled>>

CopyEnd ==
    /\ card = "copying"
    /\ card' = "copied"
    /\ copied' = IF in_frame = Null \/ content[in_frame] = copied THEN copied ELSE Torn
    /\ UNCHANGED <<pictureVars, sharedVars, setVars, in_frame, scheduled>>

\* The reference is given back and the frame scheduled.
Schedule ==
    /\ card = "copied"
    /\ card' = "playing"
    /\ rcount' = Free(in_frame)
    /\ in_frame' = Null
    /\ scheduled' = copied
    /\ copied' = Black
    /\ UNCHANGED <<content, sharedVars, setVars>>
=============================================================================
