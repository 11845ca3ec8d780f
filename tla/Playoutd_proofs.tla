--------------------------- MODULE Playoutd_proofs ---------------------------
(***************************************************************************)
(* Proofs about the playout daemon, for any pool of pictures, any number   *)
(* of pictures decoded and of commands waiting.                            *)
(***************************************************************************)
EXTENDS Playoutd, TLAPS

Events == {NeedFrame, Command}

\* The requests waiting in a queue: some, and never two.
Asked(q) == \E i \in 1 .. Len(q) : q[i] = NeedFrame
AskedOnce(q) ==
    \A i, j \in 1 .. Len(q) : q[i] = NeedFrame /\ q[j] = NeedFrame => i = j

\* What push_back does to the requests in the queue (event_handler.cpp 17).
LEMMA Pushed ==
    ASSUME NEW q \in Seq(Events), NEW e \in Events
    PROVE  /\ Asked(Append(q, e)) <=> Asked(q) \/ e = NeedFrame
           /\ AskedOnce(q) /\ (e = NeedFrame => ~Asked(q)) => AskedOnce(Append(q, e))
<1> DEFINE r == Append(q, e)
<1>1. Len(r) = Len(q) + 1 /\ Len(q) \in Nat
  OBVIOUS
<1>2. \A i \in 1 .. Len(q) : r[i] = q[i] /\ i \in 1 .. Len(r)
  OBVIOUS
<1>3. r[Len(q) + 1] = e /\ Len(q) + 1 \in 1 .. Len(r)
  OBVIOUS
<1>4. \A i \in 1 .. Len(r) : i \in 1 .. Len(q) \/ i = Len(q) + 1
  BY <1>1
<1> HIDE DEF r
<1>5. Asked(r) <=> Asked(q) \/ e = NeedFrame
  BY <1>2, <1>3, <1>4 DEF Asked
<1>6. ASSUME AskedOnce(q), e = NeedFrame => ~Asked(q)
      PROVE  AskedOnce(r)
  BY <1>2, <1>3, <1>4, <1>6 DEF Asked, AskedOnce
<1> QED
  BY <1>5, <1>6 DEF r

\* What pop_front does to them (event_handler.cpp 31-32).
LEMMA Popped ==
    ASSUME NEW q \in Seq(Events), q # << >>, AskedOnce(q)
    PROVE  /\ AskedOnce(Tail(q))
           /\ Head(q) = NeedFrame => Asked(q) /\ ~Asked(Tail(q))
           /\ Head(q) # NeedFrame => (Asked(Tail(q)) <=> Asked(q))
<1> DEFINE r == Tail(q)
<1>1. Len(r) = Len(q) - 1 /\ Len(q) \in Nat \ {0} /\ Head(q) = q[1]
  OBVIOUS
<1>2. \A i \in 1 .. Len(r) : r[i] = q[i + 1]
  OBVIOUS
<1> HIDE DEF r
<1>3. \A i \in 1 .. Len(r) : i + 1 \in 1 .. Len(q) /\ i + 1 # 1
  BY <1>1
<1>4. \A i \in 1 .. Len(q) : i = 1 \/ (i - 1 \in 1 .. Len(r) /\ r[i - 1] = q[i])
  BY <1>1, <1>2
<1>5. 1 \in 1 .. Len(q)
  BY <1>1
<1>6. AskedOnce(r)
  BY <1>1, <1>2, <1>3 DEF AskedOnce
<1>7. Head(q) = NeedFrame => Asked(q) /\ ~Asked(r)
  BY <1>1, <1>2, <1>3, <1>5 DEF Asked, AskedOnce
<1>8. Head(q) # NeedFrame => (Asked(r) <=> Asked(q))
  BY <1>1, <1>2, <1>3, <1>4 DEF Asked
<1> QED
  BY <1>6, <1>7, <1>8 DEF r

\* The request for a frame moves from one place to the next and is never in
\* two (event_handler.cpp 11-36, output_adapter.h 245-258, playoutd.cpp 461-479).
LEMMA RequestStep == PlayInv /\ [Next]_vars => OneRequest'
<1> SUFFICES ASSUME PlayInv, [Next]_vars PROVE OneRequest'
  OBVIOUS
<1> DEFINE At(begin, asked, answering, fresh) ==
             Turn(begin) + Turn(asked) + Turn(answering) + Turn(fresh) = 1
<1>1. /\ queue \in Seq(Events) /\ event \in Events \cup {NoEvent}
      /\ AskedOnce(queue)
      /\ At(main = "start", Asked(queue), event = NeedFrame /\ main # "drop",
            ~current_frame_is_stale)
  BY DEF PlayInv, TypeOK, OneRequest, Queued, Answering, Asked, AskedOnce, Events
<1>2. SUFFICES /\ AskedOnce(queue')
               /\ At(main' = "start", Asked(queue'), event' = NeedFrame /\ main' # "drop",
                     ~current_frame_is_stale')
  BY DEF OneRequest, Queued, Answering, Asked, AskedOnce
<1>3. main \in {"set", "swap", "drop"} => event = NeedFrame
  BY DEF PlayInv, PointerInv
<1>4. NeedFrame \in Events /\ Command \in Events /\ NeedFrame # Command /\ NeedFrame # NoEvent
  BY DEF Events, NeedFrame, Command, NoEvent
<1> USE DEF Turn
<1>5. ASSUME UNCHANGED <<queue, event, current_frame_is_stale>>,
             main = "start" <=> main' = "start",
             event = NeedFrame /\ main # "drop" <=> event = NeedFrame /\ main' # "drop"
      PROVE  /\ AskedOnce(queue')
             /\ At(main' = "start", Asked(queue'), event' = NeedFrame /\ main' # "drop",
                   ~current_frame_is_stale')
  BY <1>1, <1>5
<1>6. CASE PostFirst
  <2>1. /\ queue' = Append(queue, NeedFrame) /\ event' = event
        /\ main = "start" /\ main' = "wait"
        /\ current_frame_is_stale' = current_frame_is_stale
    BY <1>6 DEF PostFirst, Post, outputVars, sharedVars
  <2>2. ~Asked(queue) /\ AskedOnce(queue') /\ Asked(queue')
    BY <1>1, <1>4, <2>1, Pushed
  <2> QED
    BY <1>1, <1>2, <1>4, <2>1, <2>2
<1>7. CASE NextEvent
  <2>1. main = "wait" /\ main' = "wait" /\ event = NoEvent
        /\ current_frame_is_stale' = current_frame_is_stale
    BY <1>7 DEF NextEvent, outputVars, sharedVars, mainVars
  <2>2. CASE Pop
    <3>1. queue # << >> /\ event' = Head(queue) /\ queue' = Tail(queue)
      BY <2>2 DEF Pop
    <3> QED
      BY <1>1, <1>2, <1>4, <2>1, <3>1, Popped
  <2>3. CASE FallAsleep
    BY <1>5, <2>1, <2>3 DEF FallAsleep
  <2> QED
    BY <1>7, <2>2, <2>3 DEF NextEvent, TakeAtOnce, TakeAfterWait
<1>8. CASE HandleCommand
  <2>1. /\ main = "wait" /\ main' = main /\ event = Command /\ event' = NoEvent
        /\ UNCHANGED <<queue, current_frame_is_stale>>
    BY <1>8 DEF HandleCommand, outputVars, sharedVars, mainVars
  <2> QED
    BY <1>1, <1>2, <1>4, <2>1
<1>9. CASE RenderNew
  BY <1>5, <1>9 DEF RenderNew, sharedVars, queueVars
<1>10. CASE RenderNone \/ RenderFails
  BY <1>5, <1>10 DEF RenderNone, RenderFails, outputVars, sharedVars, queueVars
<1>11. CASE SetNextFrame
  BY <1>5, <1>11 DEF SetNextFrame, TakeReference, Convert, sharedVars, queueVars
<1>12. CASE SwapFrames
  <2>1. /\ main = "swap" /\ main' = "drop" /\ event' = event /\ queue' = queue
        /\ current_frame_is_stale' = FALSE
    BY <1>12 DEF SwapFrames, Swap, queueVars
  <2> QED
    BY <1>1, <1>2, <1>3, <2>1
<1>13. CASE FrameSet
  <2>1. /\ main = "drop" /\ main' = "wait" /\ event' = NoEvent
        /\ UNCHANGED <<queue, current_frame_is_stale>>
    BY <1>13 DEF FrameSet, DropOld, sharedVars
  <2> QED
    BY <1>1, <1>2, <1>4, <2>1
<1>14. CASE ReceiveCommand
  <2>1. queue' = Append(queue, Command) /\ UNCHANGED <<event, main, current_frame_is_stale>>
    BY <1>14 DEF ReceiveCommand, Post, outputVars, sharedVars, mainVars
  <2> QED
    BY <1>1, <1>2, <1>4, <2>1, Pushed
<1>15. CASE CardTakes
  <2>1. CASE AsksForFrame
    <3>1. /\ queue' = Append(queue, NeedFrame) /\ UNCHANGED <<event, main>>
          /\ ~current_frame_is_stale /\ current_frame_is_stale'
      BY <1>15, <2>1 DEF CardTakes, AsksForFrame, TakeFrame, Post, mainVars
    <3>2. ~Asked(queue) /\ AskedOnce(queue') /\ Asked(queue')
      BY <1>1, <1>4, <3>1, Pushed
    <3> QED
      BY <1>1, <1>2, <3>1, <3>2
  <2>2. CASE ~AsksForFrame
    <3>1. UNCHANGED <<queue, event, main>>
      BY <1>15, <2>2 DEF CardTakes, queueVars, mainVars
    <3>2. current_frame_is_stale' = current_frame_is_stale
      BY <1>15, <2>2 DEF CardTakes, AsksForFrame, TakeFrame, PlayInv, TypeOK
    <3> QED
      BY <1>5, <3>1, <3>2
  <2> QED
    BY <2>1, <2>2
<1>16. CASE (FrameCompleted \/ CopyBegin \/ CopyEnd \/ Schedule) /\ UNCHANGED <<queueVars, mainVars>>
  BY <1>5, <1>16 DEF FrameCompleted, CopyBegin, CopyEnd, Schedule, sharedVars, queueVars, mainVars
<1>17. CASE UNCHANGED vars
  BY <1>5, <1>17 DEF vars, outputVars, sharedVars, queueVars, mainVars
<1> QED
  BY <1>6, <1>7, <1>8, <1>9, <1>10, <1>11, <1>12, <1>13, <1>14, <1>15, <1>16, <1>17
     DEF Next, MainStep, CardStep

\* Every handler sets and clears its own local pointers (output_adapter.h
\* 138-166, 237-298).
LEMMA PointerStep == PlayInv /\ [Next]_vars => PointerInv'
<1> SUFFICES ASSUME PlayInv, [Next]_vars PROVE PointerInv'
  OBVIOUS
<1> USE NullAssumption, BlankAssumption DEF PlayInv, TypeOK, PointerInv
<1>1. CASE PostFirst
  BY <1>1 DEF PostFirst, Post, outputVars, setVars, cardVars
<1>2. CASE NextEvent
  BY <1>2 DEF NextEvent, outputVars, setVars, cardVars, mainVars
<1>3. CASE HandleCommand
  BY <1>3 DEF HandleCommand, outputVars, setVars, cardVars, mainVars
<1>4. CASE RenderNew
  BY <1>4 DEF RenderNew, setVars, cardVars, queueVars
<1>5. CASE RenderNone \/ RenderFails
  BY <1>5 DEF RenderNone, RenderFails, outputVars, setVars, cardVars, queueVars
<1>6. CASE SetNextFrame
  BY <1>6 DEF SetNextFrame, TakeReference, Convert, FreePictures, cardVars, queueVars
<1>7. CASE SwapFrames
  BY <1>7 DEF SwapFrames, Swap, cardVars, queueVars
<1>8. CASE FrameSet
  BY <1>8 DEF FrameSet, DropOld, cardVars
<1>9. CASE ReceiveCommand
  BY <1>9 DEF ReceiveCommand, Post, outputVars, setVars, cardVars, mainVars
<1>10. CASE CardTakes
  BY <1>10 DEF CardTakes, AsksForFrame, TakeFrame, Post, setVars, queueVars, mainVars
<1>11. CASE (FrameCompleted \/ CopyBegin \/ CopyEnd \/ Schedule) /\ UNCHANGED <<queueVars, mainVars>>
  BY <1>11 DEF FrameCompleted, CopyBegin, CopyEnd, Schedule, setVars, queueVars, mainVars
<1>12. CASE UNCHANGED vars
  BY <1>12 DEF vars, outputVars, setVars, cardVars, queueVars, mainVars
<1> QED
  BY <1>1, <1>2, <1>3, <1>4, <1>5, <1>6, <1>7, <1>8, <1>9, <1>10, <1>11, <1>12
     DEF Next, MainStep, CardStep

\* Every reference taken is counted and every one counted is given back
\* (picture.cpp 29-98), so a count is the number of pointers.
LEMMA RefsStep == PlayInv /\ [Next]_vars => RefsExact'
<1> SUFFICES ASSUME PlayInv, [Next]_vars, NEW p \in Pictures
             PROVE  rcount'[p] = Turn(p = Blank) + Turn(p = last_decoded' /\ p # Blank)
                      + Turn(p = new_frame') + Turn(p = old_frame')
                      + Turn(p = current_frame') + Turn(p = in_frame')
                      + Turn(p \in leaked')
  BY DEF RefsExact
<1>0. /\ \A q \in Pictures :
           rcount[q] = Turn(q = Blank) + Turn(q = last_decoded /\ q # Blank)
                         + Turn(q = new_frame) + Turn(q = old_frame)
                         + Turn(q = current_frame) + Turn(q = in_frame)
                         + Turn(q \in leaked)
      /\ rcount \in [Pictures -> Nat]
      /\ last_decoded \in Pictures
      /\ main = "swap" <=> new_frame # Null
      /\ main # "drop" => old_frame = Null
      /\ card \in {"playing", "completed"} => in_frame = Null
  BY DEF PlayInv, TypeOK, RefsExact, PointerInv
<1> USE NullAssumption, BlankAssumption DEF Turn
<1>1. CASE UNCHANGED <<rcount, last_decoded, new_frame, old_frame, current_frame, in_frame, leaked>>
  BY <1>0, <1>1
<1>2. CASE RenderNew
  <2>1. PICK n \in FreePictures :
          /\ last_decoded' = n
          /\ rcount' = [q \in Pictures |->
               IF q = n THEN 1
               ELSE IF q = last_decoded /\ q # Blank THEN rcount[q] - 1 ELSE rcount[q]]
    BY <1>2 DEF RenderNew
  <2>2. n \in Pictures /\ rcount[n] = 0
    BY <1>0 DEF FreePictures, Live
  <2>3. UNCHANGED <<new_frame, old_frame, current_frame, in_frame, leaked>>
    BY <1>2 DEF RenderNew, sharedVars, setVars, cardVars, decoderVars
  <2> QED
    BY <1>0, <2>1, <2>2, <2>3
<1>3. CASE SetNextFrame
  <2>1. UNCHANGED <<last_decoded, old_frame, current_frame, in_frame, leaked>> /\ new_frame = Null
    BY <1>0, <1>3 DEF SetNextFrame, TakeReference, Convert, sharedVars, cardVars, decoderVars
  <2>2. CASE last_decoded = Blank
    BY <1>0, <1>3, <2>1, <2>2 DEF SetNextFrame, TakeReference, Addref
  <2>3. CASE last_decoded # Blank
    <3>1. PICK q \in FreePictures : new_frame' = q /\ rcount' = Addref(q)
      BY <1>3, <2>3 DEF SetNextFrame, Convert
    <3>2. q \in Pictures /\ rcount[q] = 0
      BY <1>0 DEF FreePictures, Live
    <3> QED
      BY <1>0, <2>1, <3>1, <3>2 DEF Addref
  <2> QED
    BY <2>2, <2>3
<1>4. CASE SwapFrames
  BY <1>0, <1>4 DEF SwapFrames, Swap, pictureVars, cardVars, decoderVars
<1>5. CASE FrameSet
  BY <1>0, <1>5 DEF FrameSet, DropOld, Free, sharedVars, cardVars, decoderVars
<1>6. CASE CardTakes
  BY <1>0, <1>6 DEF CardTakes, TakeFrame, Addref, setVars, mainVars, decoderVars
<1>7. CASE Schedule /\ UNCHANGED <<mainVars, decoderVars>>
  BY <1>0, <1>7 DEF Schedule, Free, sharedVars, setVars, mainVars, decoderVars
<1>8. CASE (FrameCompleted \/ CopyBegin \/ CopyEnd) /\ UNCHANGED <<mainVars, decoderVars>>
  BY <1>1, <1>8 DEF FrameCompleted, CopyBegin, CopyEnd, pictureVars, sharedVars, setVars, mainVars,
     decoderVars
<1>9. CASE PostFirst \/ NextEvent \/ HandleCommand \/ RenderNone \/ ReceiveCommand \/ UNCHANGED vars
  BY <1>1, <1>9 DEF PostFirst, NextEvent, HandleCommand, RenderNone, ReceiveCommand, outputVars,
     pictureVars, sharedVars, setVars, cardVars, mainVars, decoderVars, vars
<1>10. CASE RenderFails
  <2>1. PICK n, m \in FreePictures :
          /\ leaked' = leaked \cup {n, m}
          /\ rcount' = [q \in Pictures |-> IF q \in {n, m} THEN 1 ELSE rcount[q]]
    BY <1>10 DEF RenderFails
  <2>2. rcount[n] = 0 /\ rcount[m] = 0
    BY <1>0 DEF FreePictures, Live
  <2>3. UNCHANGED <<last_decoded, new_frame, old_frame, current_frame, in_frame>>
    BY <1>10 DEF RenderFails, sharedVars, setVars, cardVars
  <2>4. CASE p \in {n, m}
    <3>1. rcount[p] = 0 /\ rcount'[p] = 1 /\ p \in leaked'
      BY <2>1, <2>2, <2>4
    <3>2. /\ Turn(p = Blank) + Turn(p = last_decoded /\ p # Blank) + Turn(p = new_frame)
               + Turn(p = old_frame) + Turn(p = current_frame) + Turn(p = in_frame) = 0
      BY <1>0, <3>1
    <3> QED
      BY <2>3, <3>1, <3>2
  <2>5. CASE p \notin {n, m}
    <3>1. rcount'[p] = rcount[p] /\ (p \in leaked' <=> p \in leaked)
      BY <2>1, <2>5
    <3> QED
      BY <1>0, <2>3, <3>1
  <2> QED
    BY <2>4, <2>5
<1> QED
  BY <1>2, <1>3, <1>4, <1>5, <1>6, <1>7, <1>8, <1>9, <1>10 DEF Next, MainStep, CardStep

\* A picture somebody points to is not free, so that drawing in a free one
\* leaves it as it is.
LEMMA PointedLive ==
    ASSUME PlayInv, NEW p \in FreePictures
    PROVE  p \notin {Blank, last_decoded, new_frame, old_frame, current_frame, in_frame}
BY BlankAssumption DEF PlayInv, TypeOK, RefsExact, FreePictures, Live, Turn

\* What a step does to the contents of the pictures: nothing, or it draws in a
\* free one (picture.cpp 52-65).
LEMMA ContentStep ==
    ASSUME PlayInv, [Next]_vars
    PROVE  \/ content' = content /\ made' = made /\ last_decoded' = last_decoded
           \/ \E p \in FreePictures :
                /\ RenderNew /\ made' = made + 1 /\ made < MaxPictures
                /\ last_decoded' = p
                /\ content' = [content EXCEPT ![p] = made + 1]
           \/ \E p \in FreePictures :
                /\ SetNextFrame /\ made' = made /\ last_decoded' = last_decoded
                /\ new_frame' = p
                /\ content' = [content EXCEPT ![p] = content[last_decoded]]
<1>1. CASE RenderNew
  BY <1>1 DEF RenderNew
<1>2. CASE SetNextFrame
  BY <1>2 DEF SetNextFrame, TakeReference, Convert
<1>3. CASE UNCHANGED vars
  BY <1>3 DEF vars, outputVars, pictureVars, mainVars
<1>4. CASE PostFirst \/ NextEvent \/ HandleCommand \/ RenderNone \/ RenderFails \/ SwapFrames \/ FrameSet \/ ReceiveCommand
  BY <1>4 DEF PostFirst, NextEvent, HandleCommand, RenderNone, RenderFails, SwapFrames, Swap, FrameSet,
     DropOld, ReceiveCommand, outputVars, pictureVars, mainVars
<1>5. CASE CardStep
  BY <1>5 DEF CardStep, CardTakes, TakeFrame, FrameCompleted, CopyBegin, CopyEnd, Schedule,
     pictureVars, mainVars
<1> QED
  BY <1>1, <1>2, <1>3, <1>4, <1>5 DEF Next, MainStep

\* Every variable keeps its type (the counts because they are exact).
LEMMA TypeStep == PlayInv /\ [Next]_vars => TypeOK'
<1> SUFFICES ASSUME PlayInv, [Next]_vars PROVE TypeOK'
  OBVIOUS
<1> USE NullAssumption, BlankAssumption, BoundsAssumption
<1>0. TypeOK
  BY DEF PlayInv
<1>1. /\ content' \in [Pictures -> Contents]
      /\ made' \in Contents
      /\ last_decoded' \in Pictures
  <2>1. content \in [Pictures -> Contents] /\ made \in Contents /\ last_decoded \in Pictures
    BY <1>0 DEF TypeOK
  <2>2. CASE content' = content /\ made' = made /\ last_decoded' = last_decoded
    BY <2>1, <2>2
  <2>3. ASSUME NEW p \in FreePictures, made' = made + 1, made < MaxPictures, last_decoded' = p,
               content' = [content EXCEPT ![p] = made + 1]
        PROVE  <1>1!1 /\ <1>1!2 /\ <1>1!3
    <3>1. p \in Pictures /\ made + 1 \in Contents
      BY <2>1, <2>3 DEF FreePictures, Contents
    <3> QED
      BY <2>1, <2>3, <3>1
  <2>4. ASSUME NEW p \in FreePictures, made' = made, last_decoded' = last_decoded,
               content' = [content EXCEPT ![p] = content[last_decoded]]
        PROVE  <1>1!1 /\ <1>1!2 /\ <1>1!3
    BY <2>1, <2>4 DEF FreePictures
  <2> QED
    BY <2>2, <2>3, <2>4, ContentStep
<1>2. rcount' \in [Pictures -> Nat]
  <2>1. rcount' = [q \in Pictures |-> rcount'[q]]
    BY <1>0 DEF TypeOK, Next, MainStep, CardStep, PostFirst, NextEvent, HandleCommand,
       RenderNew, RenderNone, RenderFails, SetNextFrame, TakeReference, Convert, SwapFrames, Swap, FrameSet,
       DropOld, ReceiveCommand, CardTakes, TakeFrame, FrameCompleted, CopyBegin, CopyEnd,
       Schedule, Addref, Free, outputVars, pictureVars, vars
  <2>2. \A q \in Pictures : rcount'[q] \in Nat
    BY RefsStep DEF RefsExact, Turn
  <2> QED
    BY <2>1, <2>2
<1>3. /\ queue' \in Seq({NeedFrame, Command})
      /\ waiting' \in {"no", "asleep", "awake"}
      /\ event' \in {NoEvent, NeedFrame, Command}
  <2> USE <1>0 DEF TypeOK
  <2>1. CASE UNCHANGED queueVars
    BY <2>1 DEF queueVars
  <2>2. ASSUME NEW e \in {NeedFrame, Command}, Post(e)
        PROVE  <1>3!1 /\ <1>3!2 /\ <1>3!3
    BY <2>2 DEF Post
  <2>3. CASE PostFirst \/ ReceiveCommand
    BY <2>2, <2>3 DEF PostFirst, ReceiveCommand
  <2>4. CASE NextEvent
    <3>1. CASE Pop /\ waiting' \in {"no", "asleep", "awake"}
      BY <3>1 DEF Pop
    <3> QED
      BY <2>4, <3>1 DEF NextEvent, TakeAtOnce, FallAsleep, TakeAfterWait
  <2>5. CASE HandleCommand \/ FrameSet
    BY <2>5 DEF HandleCommand, FrameSet
  <2>6. CASE CardTakes
    BY <2>1, <2>2, <2>6 DEF CardTakes
  <2> QED
    BY <2>1, <2>3, <2>4, <2>5, <2>6 DEF Next, MainStep, CardStep, RenderNew, RenderNone, RenderFails,
       SetNextFrame, SwapFrames, vars
<1>4. /\ {current_frame, new_frame, old_frame, in_frame}' \subseteq Pictures \cup {Null}
      /\ current_frame_is_stale' \in BOOLEAN
  BY <1>0 DEF TypeOK, Next, MainStep, CardStep, PostFirst, NextEvent, HandleCommand,
     RenderNew, RenderNone, RenderFails, SetNextFrame, TakeReference, Convert, FreePictures, SwapFrames, Swap,
     FrameSet, DropOld, ReceiveCommand, CardTakes, TakeFrame, FrameCompleted, CopyBegin,
     CopyEnd, Schedule, outputVars, sharedVars, setVars, cardVars, vars
<1>5. /\ card' \in {"playing", "completed", "taken", "copying", "copied"}
      /\ copied' \in Contents \cup {Torn} /\ scheduled' \in Contents \cup {Torn}
  <2> USE <1>0 DEF TypeOK, Contents, Black
  <2>1. CASE UNCHANGED cardVars
    BY <2>1 DEF cardVars
  <2>2. CASE CardStep
    <3>1. CASE CardTakes \/ FrameCompleted
      BY <3>1 DEF CardTakes, TakeFrame, FrameCompleted
    <3>1a. CASE CopyBegin
      <4>1. card' = "copying" /\ UNCHANGED scheduled
        BY <3>1a DEF CopyBegin
      <4>2. copied' = IF in_frame = Null THEN Black ELSE content[in_frame]
        BY <3>1a DEF CopyBegin
      <4>3. copied' \in Contents
        BY <4>2
      <4> QED
        BY <4>1, <4>3
    <3>2. CASE CopyEnd
      BY <3>2 DEF CopyEnd
    <3>3. CASE Schedule
      BY <3>3 DEF Schedule
    <3> QED
      BY <2>2, <3>1, <3>1a, <3>2, <3>3 DEF CardStep
  <2> QED
    BY <2>1, <2>2 DEF Next, MainStep, PostFirst, NextEvent, HandleCommand, RenderNew,
       RenderNone, RenderFails, SetNextFrame, TakeReference, Convert, SwapFrames, Swap, FrameSet, DropOld,
       ReceiveCommand, outputVars, vars
<1>6. main' \in {"start", "wait", "set", "swap", "drop"}
  BY <1>0 DEF TypeOK, Next, MainStep, CardStep, PostFirst, NextEvent, HandleCommand, RenderNew,
     RenderNone, RenderFails, SetNextFrame, SwapFrames, FrameSet, ReceiveCommand, CardTakes, mainVars, vars
<1>7. leaked' \subseteq Pictures /\ stuck' \in BOOLEAN
  <2> USE <1>0 DEF TypeOK
  <2>1. CASE UNCHANGED decoderVars
    BY <2>1 DEF decoderVars
  <2>2. CASE RenderNone
    BY <2>2 DEF RenderNone
  <2>3. CASE RenderFails
    BY <2>3 DEF RenderFails, FreePictures
  <2> QED
    BY <2>1, <2>2, <2>3 DEF Next, MainStep, CardStep, PostFirst, NextEvent, HandleCommand,
       RenderNew, SetNextFrame, SwapFrames, FrameSet, ReceiveCommand, CardTakes, vars
<1> QED
  BY <1>1, <1>2, <1>3, <1>4, <1>5, <1>6, <1>7 DEF TypeOK

\* A picture somebody points to keeps its contents.
LEMMA ContentKept ==
    ASSUME PlayInv, [Next]_vars, NEW p \in Pictures,
           p \in {last_decoded, new_frame, old_frame, current_frame, in_frame}
    PROVE  content'[p] = content[p]
<1>1. content \in [Pictures -> Contents]
  BY DEF PlayInv, TypeOK
<1>2. p \notin FreePictures
  BY PointedLive
<1> QED
  BY <1>1, <1>2, ContentStep

\* The pictures stay in the order they were decoded in: main hands on the last
\* one only, and the card takes the one handed on last (output_adapter.h
\* 157-161, 245-248).
LEMMA OrderStep == PlayInv /\ [Next]_vars => InTimeOrder'
<1> SUFFICES ASSUME PlayInv, [Next]_vars PROVE InTimeOrder'
  OBVIOUS
<1> USE NullAssumption, BlankAssumption, BoundsAssumption
<1>0. TypeOK /\ PointerInv /\ InTimeOrder /\ CopyInv
  BY DEF PlayInv
<1>1. /\ content \in [Pictures -> Contents] /\ content' \in [Pictures -> Contents]
      /\ made \in Nat /\ made' \in Nat /\ made <= made'
  <2>1. /\ content \in [Pictures -> Contents] /\ content' \in [Pictures -> Contents]
        /\ made \in Contents /\ made' \in Contents
    BY <1>0, TypeStep DEF TypeOK
  <2>2. made' = made \/ made' = made + 1
    BY ContentStep
  <2> QED
    BY <2>1, <2>2 DEF Contents
<1>2. content'[last_decoded'] = made' /\ \A p \in Pictures : content'[p] <= made'
  <2>1. /\ content[last_decoded] = made /\ last_decoded \in Pictures
        /\ \A p \in Pictures : content[p] <= made /\ content[p] \in Nat
    BY <1>0, <1>1 DEF InTimeOrder, TypeOK, Contents
  <2>2. CASE content' = content /\ made' = made /\ last_decoded' = last_decoded
    BY <2>1, <2>2
  <2>3. ASSUME NEW n \in FreePictures, made' = made + 1, last_decoded' = n,
               content' = [content EXCEPT ![n] = made + 1]
        PROVE  <1>2!1 /\ <1>2!2
    BY <1>1, <2>1, <2>3 DEF FreePictures
  <2>4. ASSUME NEW n \in FreePictures, made' = made, last_decoded' = last_decoded,
               content' = [content EXCEPT ![n] = content[last_decoded]]
        PROVE  <1>2!1 /\ <1>2!2
    BY <1>1, <2>1, <2>4 DEF FreePictures
  <2> QED
    BY <2>2, <2>3, <2>4, ContentStep
<1>3. main' = "swap" => content'[new_frame'] = made'
  <2>1. CASE SetNextFrame
    <3>1. CASE last_decoded = Blank
      <4>1. new_frame' = last_decoded' /\ made' = made
        BY <2>1, <3>1 DEF SetNextFrame, TakeReference
      <4> QED
        BY <1>2, <4>1
    <3>2. CASE last_decoded # Blank
      BY <1>0, <1>1, <2>1, <3>2 DEF SetNextFrame, Convert, FreePictures, InTimeOrder
    <3> QED
      BY <3>1, <3>2
  <2>2. CASE UNCHANGED <<main, made, new_frame>>
    <3>1. CASE main = "swap"
      <4>1. new_frame \in Pictures /\ content[new_frame] = made
        BY <1>0, <3>1 DEF TypeOK, PointerInv, InTimeOrder
      <4> QED
        BY <2>2, <4>1, ContentKept
    <3> QED
      BY <2>2, <3>1
  <2>3. CASE PostFirst \/ HandleCommand \/ RenderNew \/ RenderNone \/ RenderFails \/ SwapFrames \/ FrameSet
    BY <2>3 DEF PostFirst, HandleCommand, RenderNew, RenderNone, RenderFails, SwapFrames, FrameSet, mainVars
  <2>4. CASE NextEvent \/ ReceiveCommand \/ CardStep
    BY <2>2, <2>4 DEF NextEvent, ReceiveCommand, CardStep, CardTakes, TakeFrame,
       FrameCompleted, CopyBegin, CopyEnd, Schedule, outputVars, setVars, mainVars
  <2> QED
    BY <2>1, <2>2, <2>3, <2>4 DEF Next, MainStep, vars, outputVars, setVars, mainVars
<1> DEFINE Line == /\ scheduled \in Contents
                   /\ current_frame = Null => scheduled = Black /\ in_frame = Null
                   /\ current_frame # Null => scheduled <= content[current_frame]
                   /\ in_frame # Null => /\ scheduled <= content[in_frame]
                                         /\ content[in_frame] <= content[current_frame]
<1>4. Line /\ current_frame \in Pictures \cup {Null} /\ in_frame \in Pictures \cup {Null}
  BY <1>0 DEF InTimeOrder, TypeOK
<1>5. \A p \in Pictures : p \in {new_frame, current_frame, in_frame} => content'[p] = content[p]
  BY ContentKept
<1>6. Line'
  <2>1. CASE SwapFrames
    <3>1. /\ current_frame' = new_frame /\ UNCHANGED <<in_frame, scheduled, content>>
          /\ main = "swap"
      BY <2>1 DEF SwapFrames, Swap, pictureVars, cardVars
    <3>2. new_frame \in Pictures /\ content[new_frame] = made
      BY <1>0, <3>1 DEF TypeOK, PointerInv, InTimeOrder
    <3>3. \A p \in Pictures : content[p] <= made /\ content[p] \in Nat
      BY <1>0, <1>1 DEF InTimeOrder, Contents
    <3>4. scheduled \in Nat
      BY <1>4 DEF Contents
    <3> QED
      BY <1>1, <1>4, <3>1, <3>2, <3>3, <3>4 DEF Black
  <2>2. CASE CardTakes
    <3>1. in_frame' = current_frame /\ UNCHANGED <<current_frame, scheduled, content>>
      BY <2>2 DEF CardTakes, TakeFrame
    <3>2. current_frame # Null => content[current_frame] \in Nat
      BY <1>1, <1>4 DEF Contents
    <3> QED
      BY <1>4, <3>1, <3>2
  <2>3. CASE Schedule /\ UNCHANGED mainVars
    <3>1. /\ card = "copied" /\ in_frame' = Null /\ scheduled' = copied
          /\ UNCHANGED <<current_frame, content>>
      BY <2>3 DEF Schedule, sharedVars
    <3>2. CASE in_frame = Null
      BY <1>0, <1>4, <3>1, <3>2 DEF CopyInv
    <3>3. CASE in_frame # Null
      <4>1. copied = content[in_frame]
        BY <1>0, <3>1, <3>3 DEF CopyInv
      <4> QED
        BY <1>1, <1>4, <3>1, <3>3, <4>1
    <3> QED
      BY <3>2, <3>3
  <2>4. CASE UNCHANGED <<current_frame, in_frame, scheduled>>
    BY <1>4, <1>5, <2>4
  <2>5. CASE FrameCompleted \/ CopyBegin \/ CopyEnd
    BY <2>4, <2>5 DEF FrameCompleted, CopyBegin, CopyEnd, sharedVars
  <2>6. CASE PostFirst \/ NextEvent \/ HandleCommand \/ RenderNew \/ RenderNone
           \/ RenderFails \/ SetNextFrame
             \/ FrameSet \/ ReceiveCommand \/ UNCHANGED vars
    BY <2>4, <2>6 DEF PostFirst, NextEvent, HandleCommand, RenderNew, RenderNone, RenderFails, SetNextFrame,
       TakeReference, Convert, FrameSet, DropOld, ReceiveCommand, outputVars, sharedVars,
       cardVars, vars
  <2> QED
    BY <2>1, <2>2, <2>3, <2>5, <2>6 DEF Next, MainStep, CardStep, Schedule
<1> QED
  BY <1>2, <1>3, <1>6 DEF InTimeOrder

\* What has been copied is what the picture copied from still shows: the
\* reference the card's thread holds keeps it from being drawn over
\* (output_adapter.h 247-282).
LEMMA CopyStep == PlayInv /\ [Next]_vars => CopyInv'
<1> SUFFICES ASSUME PlayInv, [Next]_vars PROVE CopyInv'
  OBVIOUS
<1> USE NullAssumption
<1>0. TypeOK /\ InTimeOrder /\ CopyInv /\ PointerInv
  BY DEF PlayInv
<1>1. in_frame \in Pictures \cup {Null}
  BY <1>0 DEF TypeOK
<1>2. in_frame # Null => content'[in_frame] = content[in_frame]
  BY <1>1, ContentKept
<1>3. CASE CardTakes
  <2>1. card' = "taken" /\ in_frame' = current_frame /\ scheduled' = scheduled
    BY <1>3 DEF CardTakes, TakeFrame
  <2> QED
    BY <1>0, <2>1 DEF InTimeOrder, CopyInv
<1>4. CASE FrameCompleted \/ CopyBegin \/ CopyEnd \/ Schedule
  BY <1>0, <1>1, <1>4 DEF FrameCompleted, CopyBegin, CopyEnd, Schedule, pictureVars, CopyInv
<1>5. CASE UNCHANGED cardVars
  BY <1>0, <1>2, <1>5 DEF cardVars, CopyInv
<1> QED
  BY <1>3, <1>4, <1>5 DEF Next, MainStep, CardStep, PostFirst, NextEvent, HandleCommand, RenderNew,
     RenderNone, RenderFails, SetNextFrame, TakeReference, Convert, SwapFrames, Swap, FrameSet, DropOld,
     ReceiveCommand, outputVars, vars

\* What is scheduled, decoded and handed over, as numbers.
LEMMA Numbers ==
    ASSUME PlayInv
    PROVE  /\ made \in Nat /\ scheduled \in Nat
           /\ Shows(current_frame) \in Nat /\ Shows(in_frame) \in Nat /\ Filled \in Nat
<1>1. /\ content \in [Pictures -> Contents] /\ made \in Contents /\ scheduled \in Contents
      /\ current_frame \in Pictures \cup {Null} /\ in_frame \in Pictures \cup {Null}
  BY DEF PlayInv, TypeOK, InTimeOrder
<1>2. Contents \subseteq Nat
  BY BoundsAssumption DEF Contents
<1> QED
  BY <1>1, <1>2 DEF Shows, Filled, Black

\* While main answers a request the frame of the card is stale.
LEMMA MainAnswers ==
    ASSUME OneRequest, TypeOK, event = NeedFrame, main \in {"set", "swap"}
    PROVE  current_frame_is_stale
<1>1. Turn(main = "start") = 0 /\ Turn(Answering) = 1
  BY DEF Turn, Answering
<1>2. Turn(Queued) \in {0, 1} /\ (~current_frame_is_stale => Turn(~current_frame_is_stale) = 1)
  BY DEF Turn
<1>3. current_frame_is_stale \in BOOLEAN
  BY DEF TypeOK
<1> QED
  BY <1>1, <1>2, <1>3 DEF OneRequest

\* A fresh frame is handed over only when the one before has been taken: the
\* request it answers was posted then (output_adapter.h 245-258, playoutd.cpp
\* 461-479).
LEMMA HandoverStep == PlayInv /\ [Next]_vars => HandoverInv'
<1> SUFFICES ASSUME PlayInv, [Next]_vars PROVE HandoverInv'
  OBVIOUS
<1> USE NullAssumption
<1>0. /\ TypeOK /\ OneRequest /\ PointerInv /\ InTimeOrder /\ CopyInv /\ HandoverInv
      /\ current_frame \in Pictures \cup {Null} /\ in_frame \in Pictures \cup {Null}
      /\ card \in {"playing", "completed", "taken", "copying", "copied"}
  BY DEF PlayInv, TypeOK
<1>1. \A p \in Pictures :
        p \in {last_decoded, new_frame, current_frame, in_frame} => content'[p] = content[p]
  BY ContentKept
<1>2. /\ current_frame' = current_frame => Shows(current_frame)' = Shows(current_frame)
      /\ in_frame' = in_frame => Shows(in_frame)' = Shows(in_frame)
  BY <1>0, <1>1 DEF Shows
<1>3. /\ made \in Nat /\ scheduled \in Nat /\ Shows(current_frame) \in Nat
      /\ Shows(in_frame) \in Nat /\ Filled \in Nat
  BY Numbers
<1>4. UNCHANGED <<card, in_frame, scheduled>> => Filled' = Filled /\ scheduled' = scheduled
  BY <1>2 DEF Filled
<1>5. CASE RenderNew
  <2>1. /\ main = "wait" /\ main' = "set" /\ made' = made + 1
        /\ UNCHANGED <<current_frame, current_frame_is_stale, card, in_frame, scheduled>>
    BY <1>5 DEF RenderNew, sharedVars, cardVars
  <2> QED
    BY <1>0, <1>2, <1>3, <1>4, <2>1 DEF HandoverInv
<1>6. CASE SwapFrames
  <2>1. /\ main = "swap" /\ main' = "drop" /\ made' = made
        /\ current_frame' = new_frame /\ ~current_frame_is_stale'
        /\ UNCHANGED <<content, card, in_frame, scheduled>>
    BY <1>6 DEF SwapFrames, Swap, cardVars, pictureVars
  <2>2. Shows(current_frame)' = made
    BY <1>0, <2>1 DEF PointerInv, InTimeOrder, Shows
  <2>3. current_frame_is_stale
    BY <1>0, <2>1, MainAnswers DEF PointerInv
  <2>4. made <= Filled + 1 /\ Filled <= scheduled + 1
    BY <1>0, <2>3 DEF HandoverInv
  <2> QED
    BY <1>3, <1>4, <2>1, <2>2, <2>4 DEF HandoverInv
<1>7. CASE CardTakes
  <2>1. /\ card = "completed" /\ card' = "taken" /\ in_frame' = current_frame
        /\ UNCHANGED <<main, made, scheduled, content, current_frame>>
    BY <1>7 DEF CardTakes, TakeFrame, mainVars
  <2>2. /\ Filled = scheduled /\ Filled' = Shows(current_frame)
        /\ Shows(current_frame)' = Shows(current_frame)
    BY <1>2, <2>1 DEF Filled, Shows
  <2> QED
    BY <1>0, <1>3, <2>1, <2>2 DEF HandoverInv
<1>8. CASE Schedule /\ UNCHANGED mainVars
  <2>1. /\ card = "copied" /\ card' = "playing" /\ scheduled' = copied
        /\ UNCHANGED <<main, made, content, current_frame, current_frame_is_stale>>
    BY <1>8 DEF Schedule, sharedVars, mainVars
  <2>2. copied = Shows(in_frame)
    BY <1>0, <2>1 DEF CopyInv, Shows
  <2>3. Filled' = Filled /\ scheduled' = Filled
    BY <2>1, <2>2 DEF Filled
  <2> QED
    BY <1>0, <1>2, <1>3, <2>1, <2>3 DEF HandoverInv
<1>9. CASE (FrameCompleted \/ CopyBegin \/ CopyEnd) /\ UNCHANGED mainVars
  <2>1. /\ UNCHANGED <<in_frame, scheduled, content, current_frame, current_frame_is_stale>>
        /\ card \in {"playing", "completed"} <=> card' \in {"playing", "completed"}
    BY <1>9 DEF FrameCompleted, CopyBegin, CopyEnd, sharedVars, pictureVars
  <2>2. Filled' = Filled
    BY <1>2, <2>1 DEF Filled
  <2> QED
    BY <1>0, <1>2, <1>9, <2>1, <2>2 DEF HandoverInv, mainVars
<1>10. ASSUME UNCHANGED <<made, current_frame, current_frame_is_stale, card, in_frame, scheduled>>,
              \/ main' \in {"set", "swap"} \/ main' = main \/ main \notin {"set", "swap"}
       PROVE  HandoverInv'
  <2>1. /\ Shows(current_frame)' = Shows(current_frame) /\ Filled' = Filled
        /\ scheduled' = scheduled /\ made' = made /\ current_frame_is_stale' = current_frame_is_stale
    BY <1>2, <1>4, <1>10
  <2>2. main' \notin {"set", "swap"} => main \notin {"set", "swap"}
    BY <1>10
  <2> QED
    BY <1>0, <2>1, <2>2 DEF HandoverInv
<1>11. CASE PostFirst \/ NextEvent \/ HandleCommand \/ RenderNone \/ RenderFails \/ FrameSet
             \/ ReceiveCommand \/ UNCHANGED vars
  <2>1. /\ UNCHANGED <<made, current_frame, current_frame_is_stale, card, in_frame, scheduled>>
        /\ main' = main \/ main' = "set" \/ main \notin {"set", "swap"}
    BY <1>11 DEF PostFirst, NextEvent, HandleCommand, RenderNone, RenderFails, FrameSet, DropOld,
       ReceiveCommand, outputVars, sharedVars, cardVars, mainVars, vars
  <2> QED
    BY <1>10, <2>1
<1>12. CASE SetNextFrame
  <2>1. /\ UNCHANGED <<made, current_frame, current_frame_is_stale, card, in_frame, scheduled>>
        /\ main = "set" /\ main' = "swap"
    BY <1>12 DEF SetNextFrame, TakeReference, Convert, sharedVars, cardVars
  <2> QED
    BY <1>10, <2>1
<1>13. CASE MainStep
  BY <1>5, <1>6, <1>11, <1>12, <1>13 DEF MainStep
<1>14. CASE CardStep
  BY <1>7, <1>8, <1>9, <1>14 DEF CardStep
<1> QED
  BY <1>11, <1>13, <1>14 DEF Next

\* A post wakes the consumer up (event_handler.cpp 13-36).
LEMMA WakeupStep == NoLostWakeup /\ [Next]_vars => NoLostWakeup'
<1> SUFFICES ASSUME NoLostWakeup, [Next]_vars PROVE NoLostWakeup'
  OBVIOUS
<1>1. CASE UNCHANGED queueVars
  BY <1>1 DEF NoLostWakeup, queueVars
<1>2. ASSUME NEW e, Post(e) PROVE NoLostWakeup'
  BY <1>2 DEF Post, NoLostWakeup
<1>3. CASE NextEvent
  BY <1>3 DEF NextEvent, TakeAtOnce, FallAsleep, TakeAfterWait, NoLostWakeup
<1>4. CASE HandleCommand \/ FrameSet
  BY <1>4 DEF HandleCommand, FrameSet, NoLostWakeup
<1>5. CASE PostFirst \/ ReceiveCommand \/ CardTakes
  BY <1>1, <1>2, <1>5 DEF PostFirst, ReceiveCommand, CardTakes
<1> QED
  BY <1>1, <1>3, <1>4, <1>5 DEF Next, MainStep, CardStep, RenderNew, RenderNone, RenderFails, SetNextFrame,
     SwapFrames, vars

\* What the constructors and main set up before the first event.
LEMMA InitPlayInv == Init => PlayInv
<1> SUFFICES ASSUME Init PROVE PlayInv
  OBVIOUS
<1> USE NullAssumption, BlankAssumption, BoundsAssumption DEF Init, OutputInit, QueueInit
<1>1. TypeOK
  <2>1. /\ rcount \in [Pictures -> Nat] /\ content \in [Pictures -> Contents]
        /\ made \in Contents
    BY DEF Contents, Black
  <2>2. leaked \subseteq Pictures /\ stuck \in BOOLEAN
    OBVIOUS
  <2> QED
    BY <2>1, <2>2 DEF TypeOK, Contents, Black, Torn, NoEvent
<1>2. OneRequest
  BY DEF OneRequest, Queued, Answering, Turn, NoEvent, NeedFrame
<1>3. RefsExact
  <2> SUFFICES ASSUME NEW p \in Pictures
               PROVE  rcount[p] = Turn(p = Blank) + Turn(p = last_decoded /\ p # Blank)
                        + Turn(p = new_frame) + Turn(p = old_frame)
                        + Turn(p = current_frame) + Turn(p = in_frame)
                        + Turn(p \in leaked)
    BY DEF RefsExact
  <2>1. rcount[p] = Turn(p = Blank)
    BY DEF Turn
  <2>2. /\ Turn(p = last_decoded /\ p # Blank) = 0
        /\ Turn(p = new_frame) = 0 /\ Turn(p = old_frame) = 0
        /\ Turn(p = current_frame) = 0 /\ Turn(p = in_frame) = 0
        /\ Turn(p \in leaked) = 0
    BY DEF Turn
  <2>3. Turn(p = Blank) \in Nat
    BY DEF Turn
  <2> QED
    BY <2>1, <2>2, <2>3
<1>4. PointerInv /\ InTimeOrder /\ CopyInv
  BY DEF PointerInv, InTimeOrder, CopyInv, Contents, Black
<1>5. HandoverInv /\ NoLostWakeup
  BY DEF HandoverInv, Shows, Filled, Black, NoLostWakeup
<1> QED
  BY <1>1, <1>2, <1>3, <1>4, <1>5 DEF PlayInv

\* Every step of the three threads keeps the invariant.
LEMMA PlayStep == PlayInv /\ [Next]_vars => PlayInv'
  BY TypeStep, RequestStep, RefsStep, PointerStep, OrderStep, CopyStep, HandoverStep,
     WakeupStep DEF PlayInv

\* The invariant holds in every state of the daemon, for any pool of pictures,
\* any number of pictures decoded and of commands waiting.
THEOREM Inductive == Spec => []PlayInv
  BY InitPlayInv, PlayStep, PTL DEF Spec

\* Every variable keeps its type; no count of references goes below zero
\* (picture.cpp 86-98).
THEOREM TypeCorrect == Spec => []TypeOK
<1>1. PlayInv => TypeOK
  BY DEF PlayInv
<1> QED
  BY <1>1, Inductive, PTL

\* The request for a frame is never lost and never doubled
\* (output_adapter.h 245-257, event_handler.cpp 11-35).
THEOREM RequestKept == Spec => []OneRequest
<1>1. PlayInv => OneRequest
  BY DEF PlayInv
<1> QED
  BY <1>1, Inductive, PTL

\* No picture is freed under a pointer, and the only ones that stay behind with
\* none are those a decoder that fails leaves (picture.cpp 29-98, mjpeg_frame.cpp
\* 195-213 and 386-416, playoutd.cpp 284-345 and 466-476, output_adapter.h 138-166
\* and 237-298).
THEOREM RefsCounted == Spec => []RefsExact
<1>1. PlayInv => RefsExact
  BY DEF PlayInv
<1> QED
  BY <1>1, Inductive, PTL

\* What the card schedules is one picture, whole, although it is copied
\* outside the lock (output_adapter.h 265-292).
THEOREM Whole == Spec => []NothingTorn
<1>1. PlayInv => NothingTorn
  BY BoundsAssumption DEF PlayInv, InTimeOrder, NothingTorn, Contents, Torn
<1> QED
  BY <1>1, Inductive, PTL

\* What is scheduled never goes back to an older picture (output_adapter.h 153-161,
\* playoutd.cpp 466-480).
THEOREM InOrder == Spec => ScheduledInOrder
<1>1. PlayInv /\ [Next]_vars => [scheduled # Torn /\ scheduled' # Torn => scheduled' >= scheduled]_vars
  <2> SUFFICES ASSUME PlayInv, [Next]_vars PROVE scheduled' >= scheduled
    OBVIOUS
  <2>1. TypeOK /\ InTimeOrder /\ CopyInv
    BY DEF PlayInv
  <2>2. scheduled \in Nat
    BY <2>1, BoundsAssumption DEF InTimeOrder, Contents
  <2>3. CASE Schedule
    <3>1. card = "copied" /\ scheduled' = copied
      BY <2>3 DEF Schedule
    <3>2. CASE in_frame = Null
      BY <2>1, <2>2, <3>1, <3>2 DEF CopyInv
    <3>3. CASE in_frame # Null
      <4>1. content[in_frame] \in Nat
        BY <2>1, <3>3, BoundsAssumption DEF TypeOK, Contents
      <4> QED
        BY <2>1, <2>2, <3>1, <3>3, <4>1 DEF CopyInv, InTimeOrder
    <3> QED
      BY <3>2, <3>3
  <2>4. CASE scheduled' = scheduled
    BY <2>2, <2>4
  <2> QED
    BY <2>3, <2>4 DEF Next, MainStep, CardStep, PostFirst, NextEvent, HandleCommand, RenderNew,
       RenderNone, RenderFails, SetNextFrame, TakeReference, Convert, SwapFrames, Swap, FrameSet, DropOld,
       ReceiveCommand, CardTakes, TakeFrame, FrameCompleted, CopyBegin, CopyEnd,
       outputVars, cardVars, vars
<1> QED
  BY <1>1, Inductive, PTL DEF Spec, ScheduledInOrder

\* However slow the decoder or the card is, what is scheduled is at most two
\* pictures behind the one decoded last: one being filled, one waiting for it
\* (output_adapter.h 138-166 and 237-298, playoutd.cpp 461-480).
THEOREM NearlyLive == Spec => []NeverFarBehind
<1>1. PlayInv => NeverFarBehind
  <2> SUFFICES ASSUME PlayInv PROVE NeverFarBehind
    OBVIOUS
  <2>1. HandoverInv /\ OneRequest /\ TypeOK
    BY DEF PlayInv
  <2>2. CASE main \in {"set", "swap"}
    <3>1. event = NeedFrame
      BY <2>2 DEF PlayInv, PointerInv
    <3>2. current_frame_is_stale
      BY <2>1, <2>2, <3>1, MainAnswers
    <3> QED
      BY <2>1, <3>2, Numbers DEF HandoverInv, NeverFarBehind
  <2>3. CASE main \notin {"set", "swap"}
    BY <2>1, <2>3, Numbers DEF HandoverInv, NeverFarBehind
  <2> QED
    BY <2>2, <2>3
<1> QED
  BY <1>1, Inductive, PTL

\* The consumer of the event queue never sleeps on an event, and never takes
\* one from an empty list, as long as a wait ends only when it is signalled
\* (event_handler.cpp 22-36).
THEOREM QueueWaits == Spec => [](NoLostWakeup /\ NoEmptyPop)
<1>1. Init => NoEmptyPop
  BY DEF Init, QueueInit, NoEmptyPop
<1>2. PlayInv /\ NoEmptyPop /\ [Next]_vars => NoEmptyPop'
  <2> SUFFICES ASSUME TypeOK, NoEmptyPop, [Next]_vars PROVE NoEmptyPop'
    BY DEF PlayInv
  <2>0. queue \in Seq({NeedFrame, Command})
    BY DEF TypeOK
  <2>1. CASE UNCHANGED queueVars
    BY <2>1 DEF NoEmptyPop, queueVars
  <2>2. ASSUME NEW e \in {NeedFrame, Command}, Post(e) PROVE NoEmptyPop'
    <3>1. Len(Append(queue, e)) = Len(queue) + 1 /\ Len(queue) \in Nat /\ Len(<< >>) = 0
      BY <2>0
    <3> QED
      BY <2>2, <3>1 DEF Post, NoEmptyPop, NeedFrame, Command
  <2>3. CASE NextEvent
    BY <2>3 DEF NextEvent, TakeAtOnce, FallAsleep, TakeAfterWait, NoEmptyPop
  <2>4. CASE HandleCommand \/ FrameSet
    BY <2>4 DEF HandleCommand, FrameSet, NoEmptyPop
  <2>5. CASE PostFirst \/ ReceiveCommand \/ CardTakes
    BY <2>1, <2>2, <2>5 DEF PostFirst, ReceiveCommand, CardTakes
  <2> QED
    BY <2>1, <2>3, <2>4, <2>5 DEF Next, MainStep, CardStep, RenderNew, RenderNone, RenderFails,
       SetNextFrame, SwapFrames, vars
<1>3. PlayInv => NoLostWakeup
  BY DEF PlayInv
<1> QED
  BY <1>1, <1>2, <1>3, Inductive, PTL DEF Spec

\* Where a wait may end unasked, as POSIX allows, nothing breaks but the pop
\* from the empty list: requests, pictures, references and their order are as
\* before.
THEOREM SpuriousHarmless == SpuriousSpec => []PlayInv
<1>1. PlayInv /\ WakeUp => PlayInv'
  <2> SUFFICES ASSUME PlayInv, WakeUp PROVE PlayInv'
    OBVIOUS
  <2>1. UNCHANGED <<outputVars, mainVars, decoderVars, queue, event>> /\ waiting' = "awake"
    BY DEF WakeUp, SpuriousWakeup
  <2> USE <2>1 DEF outputVars, pictureVars, sharedVars, setVars, cardVars, mainVars,
                  decoderVars
  <2>2. TypeOK' /\ NoLostWakeup'
    BY DEF PlayInv, TypeOK, NoLostWakeup
  <2>3. OneRequest' /\ RefsExact'
    <3>1. OneRequest /\ RefsExact
      BY DEF PlayInv
    <3>2. Queued' = Queued /\ Answering' = Answering
      BY DEF Queued, Answering
    <3>3. OneRequest'
      BY <3>1, <3>2 DEF OneRequest
    <3>4. RefsExact'
      BY <3>1 DEF RefsExact
    <3> QED
      BY <3>3, <3>4
  <2>4. PointerInv' /\ InTimeOrder' /\ CopyInv' /\ HandoverInv'
    BY DEF PlayInv, PointerInv, InTimeOrder, CopyInv, HandoverInv, Filled, Shows
  <2> QED
    BY <2>2, <2>3, <2>4 DEF PlayInv
<1>2. PlayInv /\ [Next \/ WakeUp]_vars => PlayInv'
  BY <1>1, PlayStep
<1> QED
  BY InitPlayInv, <1>2, PTL DEF SpuriousSpec
=============================================================================
