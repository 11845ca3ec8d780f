------------------------------ MODULE Playoutd ------------------------------
(***************************************************************************)
(* The playout daemon's three threads around its event queue:              *)
(* src/core/playoutd.cpp (main 449-499, CommandReceiver 92-109).           *)
(*                                                                         *)
(* The card's thread asks for a frame when it has used up the one it had;  *)
(* the receiver's thread posts every command datagram; the main thread     *)
(* answers a request with the picture it decodes, or with the last one     *)
(* again when the decoder or the ring has nothing.  What commands do to    *)
(* the position in the video is left out here: it decides which picture is *)
(* decoded, and whether one is.                                            *)
(***************************************************************************)
EXTENDS DecklinkOutput, EventQueue, FiniteSets

CONSTANTS Blank,        \* the picture shown until one has been decoded
          MaxPictures,  \* bound on the pictures decoded
          MaxLeaks,     \* bound on the pictures a decoder that fails leaves behind
          MaxCommands   \* bound on the commands waiting in the queue

ASSUME BlankAssumption == Blank \in Pictures
ASSUME BoundsAssumption == MaxPictures \in Nat /\ MaxLeaks \in Nat /\ MaxCommands \in Nat

VARIABLES main,           \* where the main thread is
          last_decoded,
          made,           \* how many pictures have been decoded
          leaked,         \* pictures allocated, with no pointer to them any more
          stuck           \* the decompressor stopped in the middle of an image

mainVars == <<main, last_decoded, made>>
decoderVars == <<leaked, stuck>>
vars == <<outputVars, queueVars, mainVars, decoderVars>>

NeedFrame == "EVT_OUTPUT_NEED_FRAME"
Command == "EVT_PLAYOUT_COMMAND_RECEIVED"

Contents == 0 .. MaxPictures

Turn(e) == IF e THEN 1 ELSE 0

TypeOK ==
    /\ queue \in Seq({NeedFrame, Command})
    /\ waiting \in {"no", "asleep", "awake"}
    /\ event \in {NoEvent, NeedFrame, Command}
    /\ rcount \in [Pictures -> Nat]
    /\ content \in [Pictures -> Contents]
    /\ {current_frame, new_frame, old_frame, in_frame} \subseteq Pictures \cup {Null}
    /\ last_decoded \in Pictures
    /\ current_frame_is_stale \in BOOLEAN
    /\ card \in {"playing", "completed", "taken", "copying", "copied"}
    /\ copied \in Contents \cup {Torn} /\ scheduled \in Contents \cup {Torn}
    /\ main \in {"start", "wait", "set", "swap", "drop"}
    /\ made \in Contents
    /\ leaked \subseteq Pictures /\ stuck \in BOOLEAN

\* The card plays the black frames scheduled by the constructor.
Init ==
    /\ OutputInit
    /\ QueueInit
    /\ rcount = [p \in Pictures |-> IF p = Blank THEN 1 ELSE 0]
    /\ content = [p \in Pictures |-> Black]
    /\ main = "start"
    /\ last_decoded = Blank
    /\ made = 0
    /\ leaked = {} /\ stuck = FALSE

-----------------------------------------------------------------------------
(* The main thread.                                                         *)

\* "ask client for its first frame", at the end of the output's constructor.
PostFirst ==
    /\ main = "start"
    /\ main' = "wait"
    /\ Post(NeedFrame)
    /\ UNCHANGED <<outputVars, last_decoded, made, decoderVars>>

NextEvent ==
    /\ main = "wait" /\ event = NoEvent
    /\ TakeAtOnce \/ FallAsleep \/ TakeAfterWait
    /\ UNCHANGED <<outputVars, mainVars, decoderVars>>

\* parse_command( ), which moves within the video only.
HandleCommand ==
    /\ main = "wait" /\ event = Command
    /\ event' = NoEvent
    /\ UNCHANGED <<outputVars, mainVars, decoderVars, queue, waiting>>

\* Variant: the blank picture is given up like any other.
RenderNewDropsBlank ==
    /\ main = "wait" /\ event = NeedFrame
    /\ ~stuck /\ made < MaxPictures
    /\ made' = made + 1
    /\ \E p \in FreePictures :
         /\ last_decoded' = p
         /\ rcount' = [q \in Pictures |->
              IF q = p THEN 1 ELSE IF q = last_decoded THEN rcount[q] - 1 ELSE rcount[q]]
         /\ content' = [content EXCEPT ![p] = made + 1]
    /\ main' = "set"
    /\ UNCHANGED <<sharedVars, setVars, cardVars, queueVars, decoderVars>>

\* render_next_frame( ) decodes a picture, which replaces the last one, ...
RenderNew ==
    /\ main = "wait" /\ event = NeedFrame
    /\ ~stuck /\ made < MaxPictures
    /\ made' = made + 1
    /\ \E p \in FreePictures :
         /\ last_decoded' = p
         /\ rcount' = [q \in Pictures |->
              IF q = p THEN 1
              ELSE IF q = last_decoded /\ q # Blank THEN rcount[q] - 1 ELSE rcount[q]]
         /\ content' = [content EXCEPT ![p] = made + 1]
    /\ main' = "set"
    /\ UNCHANGED <<sharedVars, setVars, cardVars, queueVars, decoderVars>>

\* Variant: with nothing to decode, the screen goes blank.
RenderNoneBlank ==
    /\ main = "wait" /\ event = NeedFrame
    /\ main' = "set"
    /\ last_decoded' = Blank
    /\ UNCHANGED <<outputVars, queueVars, made, decoderVars>>

\* ... or returns NULL: "just show the last frame decoded instead".  There may
\* be no such frame, or no more than the head of an image in it.
RenderNone ==
    /\ main = "wait" /\ event = NeedFrame
    /\ main' = "set"
    /\ stuck' \in {stuck, TRUE}
    /\ UNCHANGED <<outputVars, queueVars, last_decoded, made, leaked>>

\* An exception out of the decoder passes over the picture being decoded and the
\* first field, if there is one: nobody frees them.  Nobody calls jpeg_abort( )
\* either: when the data of an image end early, every later call of the
\* decompressor fails before a picture is allocated.  (MaxLeaks is for the pictures
\* that those still to be decoded must find room beside.)
RenderFails ==
    /\ main = "wait" /\ event = NeedFrame
    /\ ~stuck
    /\ \E p, q \in FreePictures :
         /\ Cardinality(leaked \cup {p, q}) <= MaxLeaks + Turn(p # q /\ last_decoded = Blank)
         /\ leaked' = leaked \cup {p, q}
         /\ rcount' = [r \in Pictures |-> IF r \in {p, q} THEN 1 ELSE rcount[r]]
         /\ stuck' \in (IF p = q THEN BOOLEAN ELSE {TRUE})
    /\ main' = "set"
    /\ UNCHANGED <<content, sharedVars, setVars, cardVars, queueVars, last_decoded, made>>

\* SetNextFrame( ): the blank picture is UYVY8, a decoded one is not.
SetNextFrame ==
    /\ main = "set"
    /\ main' = "swap"
    /\ IF last_decoded = Blank THEN TakeReference(Blank) ELSE Convert(last_decoded)
    /\ UNCHANGED <<queueVars, last_decoded, made, decoderVars>>

SwapFrames ==
    /\ main = "swap"
    /\ main' = "drop"
    /\ Swap
    /\ UNCHANGED <<queueVars, last_decoded, made, decoderVars>>

FrameSet ==
    /\ main = "drop"
    /\ main' = "wait"
    /\ DropOld
    /\ event' = NoEvent
    /\ UNCHANGED <<queue, waiting, last_decoded, made, decoderVars>>

-----------------------------------------------------------------------------
(* The other threads.                                                       *)

ReceiveCommand ==
    /\ Len(SelectSeq(queue, LAMBDA e : e = Command)) < MaxCommands
    /\ Post(Command)
    /\ UNCHANGED <<outputVars, mainVars, decoderVars>>

CardTakes ==
    /\ TakeFrame
    /\ IF AsksForFrame THEN Post(NeedFrame) ELSE UNCHANGED queueVars
    /\ UNCHANGED <<mainVars, decoderVars>>

CardStep ==
    \/ CardTakes
    \/ /\ FrameCompleted \/ CopyBegin \/ CopyEnd \/ Schedule
       /\ UNCHANGED <<queueVars, mainVars, decoderVars>>

MainStep ==
    \/ PostFirst \/ NextEvent \/ HandleCommand
    \/ RenderNew \/ RenderNone \/ RenderFails
    \/ SetNextFrame \/ SwapFrames \/ FrameSet

Next == MainStep \/ CardStep \/ ReceiveCommand

Spec == Init /\ [][Next]_vars

\* The same where a wait may end unasked, as POSIX allows.
WakeUp == SpuriousWakeup /\ UNCHANGED <<outputVars, mainVars, decoderVars>>
SpuriousSpec == Init /\ [][Next \/ WakeUp]_vars

\* The main thread and the card keep running; nobody has to send a command.
FairSpec == Spec /\ WF_vars(MainStep) /\ WF_vars(CardStep)

-----------------------------------------------------------------------------
(* Correctness.                                                             *)

Queued == \E i \in 1 .. Len(queue) : queue[i] = NeedFrame
Answering == event = NeedFrame /\ main # "drop"

\* The request for a frame is never lost and never doubled: it is still to be
\* posted, once in the queue, being answered, or turned into a fresh frame that
\* the card has not taken.  So however slow main is, it never falls behind.
OneRequest ==
    /\ \A i, j \in 1 .. Len(queue) : queue[i] = NeedFrame /\ queue[j] = NeedFrame => i = j
    /\ Turn(main = "start") + Turn(Queued) + Turn(Answering) + Turn(~current_frame_is_stale) = 1

\* The count of every picture is the number of pointers to it: none is freed
\* under a reader, and none is leaked but by a decoder that fails.
RefsExact ==
    \A p \in Pictures :
        rcount[p] = Turn(p = Blank) + Turn(p = last_decoded /\ p # Blank)
                      + Turn(p = new_frame) + Turn(p = old_frame)
                      + Turn(p = current_frame) + Turn(p = in_frame)
                      + Turn(p \in leaked)

\* What the card schedules is one picture, whole.
NothingTorn == scheduled # Torn

\* What is scheduled never goes back to an older picture, and the card plays what
\* is scheduled in order.
ScheduledInOrder == [][scheduled # Torn /\ scheduled' # Torn => scheduled' >= scheduled]_vars

\* However slow main or the card's thread is, what is scheduled is at most two
\* pictures behind the one decoded last.  (What is on air is behind that by the
\* frames the card holds.)
NeverFarBehind == made <= scheduled + 2

\* The handover never stops: again and again there is a fresh frame, and again
\* and again the card takes it.
KeepsPlaying == []<>current_frame_is_stale /\ []<>~current_frame_is_stale

-----------------------------------------------------------------------------
(* Why the safety properties hold: the inductive invariant.                 *)

\* Each local pointer is set in its own part of the code only.
PointerInv ==
    /\ main = "swap" <=> new_frame # Null
    /\ main # "drop" => old_frame = Null
    /\ main \in {"set", "swap", "drop"} => event = NeedFrame
    /\ card \in {"playing", "completed"} => in_frame = Null

\* The pictures form one line in time, from the one scheduled last to the one
\* decoded last: scheduled, in_frame, current_frame, new_frame, last_decoded.
InTimeOrder ==
    /\ content[last_decoded] = made
    /\ \A p \in Pictures : content[p] <= made
    /\ main = "swap" => content[new_frame] = made
    /\ scheduled \in Contents
    /\ current_frame = Null => scheduled = Black /\ in_frame = Null
    /\ current_frame # Null => scheduled <= content[current_frame]
    /\ in_frame # Null =>
         scheduled <= content[in_frame] /\ content[in_frame] <= content[current_frame]

\* A copy under way or made is of the picture it is made from.
CopyInv ==
    /\ card \in {"taken", "copying", "copied"} /\ in_frame = Null => scheduled = Black
    /\ card \in {"copying", "copied"} =>
         copied = IF in_frame = Null THEN Black ELSE content[in_frame]

\* What a picture shows, and the black frame there is before the first one.
Shows(p) == IF p = Null THEN Black ELSE content[p]

\* What the frame being filled will show, or the last one filled.
Filled == IF card \in {"playing", "completed"} THEN scheduled ELSE Shows(in_frame)

\* A frame that is still fresh is one ahead of the card at most, and the next
\* one is not decoded before the card has taken it.
HandoverInv ==
    /\ made <= Shows(current_frame) + 1
    /\ main \notin {"set", "swap"} => made = Shows(current_frame)
    /\ Filled <= scheduled + 1
    /\ Shows(current_frame) <= Filled + 1
    /\ current_frame_is_stale => Shows(current_frame) = Filled

PlayInv ==
    /\ TypeOK /\ OneRequest /\ NoLostWakeup /\ RefsExact
    /\ PointerInv /\ InTimeOrder /\ CopyInv /\ HandoverInv
=============================================================================
