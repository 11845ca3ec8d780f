--------------------------- MODULE RingLife_proofs ---------------------------
(***************************************************************************)
(* Proofs about RingLife: the ring under any number of writers that are    *)
(* killed and restarted, for any number of readers, records and frames.    *)
(***************************************************************************)
EXTENDS RingLife, MmapBuffer_proofs

-----------------------------------------------------------------------------
(* The arithmetic of the positions.                                         *)

\* How far behind the record last named a record is.
LEMMA Positions ==
    ASSUME RingTypeOK, NEW s \in Slot
    PROVE  /\ Behind(s) \in Int /\ 0 <= Behind(s) /\ Behind(s) < N
           /\ NextOffset(current_offset) \in Slot
           /\ NextOffset(current_offset) # current_offset
           /\ s = current_offset <=> Behind(s) = 0
           /\ s = NextOffset(current_offset) <=> Behind(s) = N - 1
  BY Numbers, LivesAssumption DEF Slot, Behind, NextOffset

\* get( ) looks for frame t as many records back as there are frames between.
LEMMA LocateBehind ==
    ASSUME RingTypeOK, NEW t \in Int, t <= current_timecode, current_timecode < t + N
    PROVE  LET s == Locate(current_offset, current_timecode, t)
           IN  s \in Slot /\ Behind(s) = current_timecode - t
  BY Numbers DEF Slot, Behind, Locate

\* The histories as facts about integers.
LEMMA LifeNumbers ==
    ASSUME RingTypeOK, PutInv, HistoryInv
    PROVE  /\ begun \in Int /\ slips \in Int /\ since \in Int
           /\ 0 <= slips /\ 0 <= since /\ since <= current_timecode + 1
           /\ current_timecode <= begun /\ begun <= current_timecode + 1
           /\ save_timecode <= begun
           /\ Newest \in Int /\ current_timecode <= Newest /\ Newest <= begun
           /\ Slipping => Newest = current_timecode + 1 /\ begun = current_timecode + 1
           /\ ~Slipping => Newest = current_timecode
<1>1. /\ begun \in Int /\ slips \in Int /\ since \in Int
      /\ 0 <= slips /\ 0 <= since /\ since <= current_timecode + 1
      /\ current_timecode <= begun /\ begun <= current_timecode + 1
      /\ save_timecode <= begun
  BY Numbers DEF HistoryInv
<1> QED
  BY <1>1, Numbers DEF Newest, Slipping, PutInv

\* The writer's position while it fills a record.
Filling == LockPC \cup (PutPC \ {"current", "unlock"})

LEMMA FillingCell ==
    ASSUME RingTypeOK, PutInv, HistoryInv, FillInv, pc[Writer] \in Filling
    PROVE  /\ save_timecode = current_timecode + 1 /\ begun = current_timecode + 1
           /\ save_offset \in Slot /\ save_offset = NextOffset(current_offset)
           /\ ~Slipping /\ Begun /\ Cell(save_offset)
           /\ Newest = current_timecode /\ Behind(save_offset) = N - 1
<1>1. /\ save_timecode = current_timecode + 1
      /\ save_offset = NextOffset(current_offset) /\ save_offset \in Slot
  BY Numbers DEF PutInv, FillInv, Filling, RingTypeOK
<1>2. begun = current_timecode + 1
  BY <1>1, LifeNumbers, Numbers
<1>3. save_offset # current_offset /\ Behind(save_offset) = N - 1
  BY <1>1, Positions
<1> QED
  BY <1>1, <1>2, <1>3 DEF Slipping, Begun, Cell, Newest

-----------------------------------------------------------------------------
(* What a record that carries a timecode is worth.                          *)

\* A published frame that is not overrun is whole wherever its timecode is
\* found.
LEMMA RecordWhole ==
    ASSUME RingTypeOK, PutInv, HistoryInv, WholeInv, AgeInv,
           NEW s \in Slot, NEW t \in Int, t # 0, t <= current_timecode,
           ~LifeOverrun(t), ring[s].timecode = t
    PROVE  ring[s] = FrameRecord(t) /\ ~Cell(s)
<1>1. ~Cell(s)
  <2> SUFFICES ASSUME Cell(s) PROVE FALSE
    OBVIOUS
  <2>1. s = NextOffset(current_offset) /\ ~Slipping /\ begun = current_timecode + 1
    BY DEF Cell, Begun
  <2>2. Behind(s) = N - 1 /\ Newest = current_timecode
    BY <2>1, Positions, LifeNumbers
  <2>3. t + (N - 1) <= current_timecode + slips
    BY <2>2, Numbers DEF AgeInv
  <2> QED
    BY <2>1, <2>3, Numbers, LifeNumbers DEF LifeOverrun
<1>2. BlankRecord.timecode = 0
  BY DEF BlankRecord
<1> QED
  BY <1>1, <1>2 DEF WholeInv

\* Frame 0 is whole in the place where a consistent pair puts it.
LEMMA FirstWhole ==
    ASSUME RingTypeOK, PutInv, HistoryInv, WholeInv, 0 <= current_timecode, ~Slipping,
           ~LifeOverrun(0),
           NEW s \in Slot, s = Locate(current_offset, current_timecode, 0),
           ring[s].timecode = 0
    PROVE  ring[s] = FrameRecord(0)
<1>1. begun + slips < N /\ current_timecode < N
  BY LifeNumbers, Numbers DEF LifeOverrun
<1>2. Behind(s) = current_timecode
  BY <1>1, LocateBehind, Numbers
<1>3. Newest = current_timecode
  BY LifeNumbers
<1>4. ~Cell(s)
  BY <1>1, <1>2, Positions, LifeNumbers, Numbers DEF Cell, Begun
<1>5. ~(Behind(s) > Newest + slips)
  BY <1>2, <1>3, LifeNumbers, Numbers
<1> QED
  BY <1>4, <1>5 DEF WholeInv

\* A frame the ring holds is whole in that place.
LEMMA HeldPlace ==
    ASSUME RingTypeOK, PutInv, HistoryInv, HeldInv, ~Slipping, NEW t \in Int, LifeHeld(t)
    PROVE  LET s == Locate(current_offset, current_timecode, t)
           IN  s \in Slot /\ ring[s] = FrameRecord(t)
<1> DEFINE s == Locate(current_offset, current_timecode, t)
<1>1. t <= current_timecode /\ since <= t /\ ~LifeOverrun(t)
  BY DEF LifeHeld
<1>2. current_timecode < t + N
  BY <1>1, LifeNumbers, Numbers DEF LifeOverrun
<1>3. s \in Slot /\ Behind(s) = current_timecode - t
  BY <1>1, <1>2, LocateBehind
<1>4. Newest - Behind(s) = t
  BY <1>3, LifeNumbers, Numbers
<1> QED
  BY <1>1, <1>3, <1>4 DEF HeldInv

-----------------------------------------------------------------------------
(* The ring, step by step.                                                  *)

RingPart == HistoryInv /\ WholeInv /\ AgeInv /\ HeldInv /\ FillInv

\* What a step that is no restart does to the histories.
Goes ==
    /\ begun' = IF save_timecode' > begun THEN save_timecode' ELSE begun
    /\ UNCHANGED <<lives, slips, since>>

\* A step that changes nothing the ring's invariants speak of.
Still == UNCHANGED <<current_timecode, current_offset, ring, save_timecode, save_offset,
                     begun, slips, since>>

LEMMA StillGoes ==
    ASSUME RingTypeOK, HistoryInv, Goes,
           UNCHANGED <<current_timecode, current_offset, ring, save_timecode, save_offset>>
    PROVE  Still
  BY Numbers DEF HistoryInv, Goes, Still

LEMMA StillRing ==
    ASSUME RingTypeOK, RingPart, Still,
           \/ pc'[Writer] = pc[Writer]
           \/ pc'[Writer] \in {"idle", "dead"}
           \/ pc[Writer] \in LockPC /\ pc'[Writer] \in LockPC \cup {"offset"}
    PROVE  RingPart'
<1>1. /\ Slipping' = Slipping /\ Newest' = Newest /\ Begun' = Begun
      /\ \A s : Behind(s)' = Behind(s) /\ Cell(s)' = Cell(s)
      /\ \A t : LifeOverrun(t)' = LifeOverrun(t)
  BY DEF Still, Slipping, Newest, Begun, Behind, Cell, NextOffset, LifeOverrun
<1>2. HistoryInv'
  BY DEF RingPart, HistoryInv, Still
<1>3. WholeInv'
  BY <1>1 DEF RingPart, WholeInv, Still
<1>4. AgeInv'
  BY <1>1 DEF RingPart, AgeInv, Still
<1>5. HeldInv'
  BY <1>1 DEF RingPart, HeldInv, Still
<1>6. FillInv'
  BY DEF RingPart, FillInv, Still, NextOffset, LockPC, PutPC
<1> QED
  BY <1>2, <1>3, <1>4, <1>5, <1>6 DEF RingPart

\* The beginning of put( ) gives up the record it is going to fill.
LEMMA BeginRing ==
    ASSUME RingTypeOK, PutInv, RingPart, PutBegin, Goes
    PROVE  RingPart'
<1>0. HistoryInv
  BY DEF RingPart
<1>1. /\ pc[Writer] = "idle" /\ pc'[Writer] = "length"
      /\ save_timecode = current_timecode
      /\ save_timecode' = current_timecode + 1 /\ save_offset' = NextOffset(current_offset)
      /\ UNCHANGED <<current_timecode, current_offset, ring, slips, since>>
  BY ProcAssumption DEF PutBegin, Step, Goto, RingTypeOK, PutInv, ipc, Goes
<1>2. begun' = current_timecode + 1 /\ begun <= begun'
  BY <1>0, <1>1, Numbers DEF HistoryInv, Goes
<1>3. ~Slipping /\ ~Slipping'
  <2>1. NextOffset(current_offset) # current_offset
    BY Numbers, LivesAssumption DEF NextOffset
  <2> QED
    BY <1>1, <2>1 DEF Slipping
<1>4. /\ Newest' = Newest /\ Begun' /\ (Begun => Begun')
      /\ \A s : Behind(s)' = Behind(s) /\ (Cell(s) => Cell(s)')
  BY <1>1, <1>2, <1>3 DEF Newest, Begun, Behind, Cell, NextOffset
<1>5. \A t \in Int : LifeOverrun(t) => LifeOverrun(t)'
  BY <1>0, <1>1, <1>2, LifeNumbers, Numbers DEF LifeOverrun
<1>6. HistoryInv'
  BY <1>0, <1>1, <1>2, Numbers DEF HistoryInv
<1>7. WholeInv'
  BY <1>1, <1>4 DEF RingPart, WholeInv
<1>8. AgeInv'
  BY <1>1, <1>4 DEF RingPart, AgeInv
<1>9. HeldInv'
  <2>1. \A s \in Slot : Newest - Behind(s) \in Int
    BY <1>0, Positions, LifeNumbers
  <2> QED
    BY <1>1, <1>4, <1>5, <2>1 DEF RingPart, HeldInv
<1>10. FillInv'
  BY <1>1 DEF FillInv, NextOffset, LockPC, PutPC
<1> QED
  BY <1>6, <1>7, <1>8, <1>9, <1>10 DEF RingPart

\* Filling a record touches none that is held.
LEMMA FillRing ==
    ASSUME RingTypeOK, PutInv, RingPart, Goes, pc[Writer] \in Filling,
           UNCHANGED <<current_timecode, current_offset, save_timecode, save_offset>>,
           \A s \in Slot \ {save_offset} : ring'[s] = ring[s],
           ring'[save_offset].timecode \in {ring[save_offset].timecode, save_timecode}
    PROVE  HistoryInv' /\ WholeInv' /\ AgeInv' /\ HeldInv'
<1>0. HistoryInv /\ FillInv
  BY DEF RingPart
<1>1. UNCHANGED <<begun, slips, since>>
  BY <1>0, Numbers DEF HistoryInv, Goes
<1>2. /\ Slipping' = Slipping /\ Newest' = Newest /\ Begun' = Begun
      /\ \A s : Behind(s)' = Behind(s) /\ Cell(s)' = Cell(s)
      /\ \A t : LifeOverrun(t)' = LifeOverrun(t)
  BY <1>1 DEF Slipping, Newest, Begun, Behind, Cell, NextOffset, LifeOverrun
<1>3. /\ save_timecode = current_timecode + 1 /\ begun = current_timecode + 1
      /\ Cell(save_offset) /\ save_offset \in Slot
      /\ Newest = current_timecode /\ Behind(save_offset) = N - 1
  BY <1>0, FillingCell
<1>4. HistoryInv'
  BY <1>1 DEF RingPart, HistoryInv
<1>5. WholeInv'
  <2> SUFFICES ASSUME NEW s \in Slot
               PROVE  \/ Cell(s)
                      \/ ring'[s] = BlankRecord /\ Behind(s) > Newest + slips
                      \/ ring'[s] = FrameRecord(ring'[s].timecode)
    BY <1>1, <1>2 DEF WholeInv, BlankRecord, FrameRecord
  <2>1. CASE s = save_offset
    BY <1>3, <2>1
  <2>2. CASE s # save_offset
    BY <2>2 DEF RingPart, WholeInv
  <2> QED
    BY <2>1, <2>2
<1>6. AgeInv'
  <2> SUFFICES ASSUME NEW s \in Slot
               PROVE  \/ ring'[s].timecode = 0
                      \/ ring'[s].timecode + Behind(s) <= Newest + slips
                      \/ Cell(s) /\ ring'[s].timecode = current_timecode + 1
    BY <1>1, <1>2 DEF AgeInv
  <2>1. CASE s = save_offset
    BY <1>3, <2>1 DEF RingPart, AgeInv
  <2>2. CASE s # save_offset
    BY <2>2 DEF RingPart, AgeInv
  <2> QED
    BY <2>1, <2>2
<1>7. HeldInv'
  <2> SUFFICES ASSUME NEW s \in Slot, since <= Newest - Behind(s),
                      ~LifeOverrun(Newest - Behind(s))
               PROVE  ring'[s] = FrameRecord(Newest - Behind(s))
    BY <1>1, <1>2 DEF HeldInv, FrameRecord
  <2>1. s # save_offset
    BY <1>0, <1>3, LifeNumbers, Numbers DEF LifeOverrun
  <2> QED
    BY <2>1 DEF RingPart, HeldInv
<1> QED
  BY <1>4, <1>5, <1>6, <1>7

\* The first of the two stores: the record just filled is the latest now.
LEMMA OffsetRing ==
    ASSUME RingTypeOK, PutInv, RingPart, PutOffset, Goes
    PROVE  RingPart'
<1>0. HistoryInv /\ FillInv
  BY DEF RingPart
<1>1. /\ pc[Writer] = "offset" /\ pc'[Writer] = "current"
      /\ current_offset' = save_offset
      /\ UNCHANGED <<current_timecode, ring, save_timecode, save_offset>>
  BY ProcAssumption DEF PutOffset, Step, Goto, RingTypeOK, putVars
<1>2. UNCHANGED <<begun, slips, since>>
  BY <1>0, <1>1, Numbers DEF HistoryInv, Goes
<1>3. /\ save_timecode = current_timecode + 1 /\ begun = current_timecode + 1
      /\ save_offset \in Slot /\ save_offset = NextOffset(current_offset)
      /\ Newest = current_timecode /\ Behind(save_offset) = N - 1
  BY <1>0, <1>1, FillingCell DEF Filling, PutPC
<1>4. ring[save_offset] = FrameRecord(save_timecode)
  BY <1>0, <1>1 DEF FillInv
<1>5. Slipping' /\ Newest' = current_timecode + 1
  BY <1>1, <1>3, Numbers DEF Slipping, Newest
<1>6. /\ \A s \in Slot : s = save_offset => Behind(s)' = 0
      /\ \A s \in Slot \ {save_offset} : Behind(s)' = Behind(s) + 1 /\ ~Cell(s)
  BY <1>1, <1>3, Numbers DEF Behind, NextOffset, Slot, Cell
<1>7. \A t : LifeOverrun(t)' = LifeOverrun(t)
  BY <1>2 DEF LifeOverrun
<1>8. HistoryInv'
  BY <1>0, <1>1, <1>2 DEF HistoryInv
<1>9. FrameRecord(save_timecode).timecode = save_timecode
  BY DEF FrameRecord
<1>10. WholeInv'
  <2> SUFFICES ASSUME NEW s \in Slot
               PROVE  \/ ring[s] = BlankRecord /\ Behind(s)' > Newest' + slips
                      \/ ring[s] = FrameRecord(ring[s].timecode)
    BY <1>1, <1>2 DEF WholeInv, BlankRecord, FrameRecord
  <2>1. CASE s = save_offset
    BY <1>4, <1>9, <2>1
  <2>2. CASE s # save_offset
    <3>1. Behind(s) \in Int /\ Behind(s)' = Behind(s) + 1 /\ ~Cell(s) /\ slips \in Int
      BY <1>0, <1>6, <2>2, Positions, LifeNumbers
    <3> QED
      BY <1>3, <1>5, <3>1, Numbers DEF RingPart, WholeInv
  <2> QED
    BY <2>1, <2>2
<1>11. AgeInv'
  <2> SUFFICES ASSUME NEW s \in Slot
               PROVE  \/ ring[s].timecode = 0
                      \/ ring[s].timecode + Behind(s)' <= Newest' + slips
    BY <1>1, <1>2 DEF AgeInv
  <2>1. CASE s = save_offset
    BY <1>0, <1>3, <1>4, <1>5, <1>6, <1>9, <2>1, LifeNumbers, Numbers
  <2>2. CASE s # save_offset
    <3>1. /\ Behind(s) \in Int /\ Behind(s)' = Behind(s) + 1 /\ ~Cell(s) /\ slips \in Int
          /\ ring[s].timecode \in Int
      BY <1>0, <1>6, <2>2, Positions, LifeNumbers, Defaults DEF RingTypeOK, Record
    <3> QED
      BY <1>3, <1>5, <3>1, Numbers DEF RingPart, AgeInv
  <2> QED
    BY <2>1, <2>2
<1>12. HeldInv'
  <2> SUFFICES ASSUME NEW s \in Slot, since <= Newest' - Behind(s)',
                      ~LifeOverrun(Newest' - Behind(s)')
               PROVE  ring[s] = FrameRecord(Newest' - Behind(s)')
    BY <1>1, <1>2, <1>7 DEF HeldInv, FrameRecord, LifeOverrun
  <2>1. CASE s = save_offset
    <3>1. Newest' - Behind(s)' = save_timecode
      BY <1>3, <1>5, <1>6, <2>1, Numbers
    <3> QED
      BY <1>4, <2>1, <3>1
  <2>2. CASE s # save_offset
    <3>1. Behind(s) \in Int /\ Behind(s)' = Behind(s) + 1
      BY <1>6, <2>2, Positions
    <3>2. Newest' - Behind(s)' = Newest - Behind(s)
      BY <1>3, <1>5, <3>1, Numbers
    <3> QED
      BY <3>2 DEF RingPart, HeldInv
  <2> QED
    BY <2>1, <2>2
<1>13. FillInv'
  BY <1>1, <1>4 DEF FillInv, LockPC, FrameRecord
<1> QED
  BY <1>8, <1>10, <1>11, <1>12, <1>13 DEF RingPart

\* The second one: the count of the frames has caught up.
LEMMA CurrentRing ==
    ASSUME RingTypeOK, PutInv, RingPart, PutCurrent, Goes
    PROVE  RingPart'
<1>0. HistoryInv
  BY DEF RingPart
<1>1. /\ pc[Writer] = "current" /\ pc'[Writer] = "unlock"
      /\ current_timecode' = save_timecode
      /\ save_timecode = current_timecode + 1 /\ current_offset = save_offset
      /\ UNCHANGED <<current_offset, ring, save_timecode, save_offset, slips, since>>
  BY Numbers, ProcAssumption
     DEF PutCurrent, Step, Goto, RingTypeOK, putVars, PutInv, PutPC, Goes
<1>2. begun' = begun /\ begun = current_timecode + 1
  BY <1>0, <1>1, Numbers DEF HistoryInv, Goes
<1>3. /\ Slipping /\ ~Slipping' /\ Newest' = Newest
      /\ \A s : Behind(s)' = Behind(s) /\ ~Cell(s)
      /\ \A t : LifeOverrun(t)' = LifeOverrun(t)
  BY <1>1, <1>2, Numbers DEF Slipping, Newest, Behind, Cell, Begun, LifeOverrun
<1>4. HistoryInv'
  BY <1>0, <1>1, <1>2, Numbers DEF HistoryInv
<1>5. WholeInv'
  BY <1>1, <1>3 DEF RingPart, WholeInv
<1>6. AgeInv'
  BY <1>1, <1>3 DEF RingPart, AgeInv
<1>7. HeldInv'
  BY <1>1, <1>3 DEF RingPart, HeldInv
<1>8. FillInv'
  BY <1>1 DEF FillInv, LockPC
<1> QED
  BY <1>4, <1>5, <1>6, <1>7, <1>8 DEF RingPart

\* A step of put( ) that fills the record, with what it leaves in it.
LEMMA FillStep ==
    ASSUME RingTypeOK, PutInv, RingPart, Goes,
           PutLength \/ PutValid \/ PutTimecode \/ PutCopyBegin \/ PutCopyEnd
    PROVE  /\ pc[Writer] \in Filling
           /\ UNCHANGED <<current_timecode, current_offset, save_timecode, save_offset>>
           /\ \A s \in Slot \ {save_offset} : ring'[s] = ring[s]
           /\ ring'[save_offset].timecode \in {ring[save_offset].timecode, save_timecode}
           /\ FillInv'
<1>1. /\ UNCHANGED <<current_timecode, current_offset, save_timecode, save_offset>>
      /\ save_offset \in Slot /\ ring \in [Slot -> Record] /\ ring[save_offset] \in Record
  BY DEF PutLength, PutValid, PutTimecode, PutCopyBegin, PutCopyEnd, ipc, putVars, RingTypeOK
<1> USE ProcAssumption, RingFields, RecordFields DEF Step, Goto
<1>2. CASE PutLength
  <2>1. /\ pc[Writer] = "length" /\ pc'[Writer] = "valid"
        /\ ring' = [ring EXCEPT ![save_offset].length = save_timecode]
    BY <1>2 DEF PutLength, RingTypeOK
  <2> QED
    BY <1>1, <2>1 DEF RingPart, FillInv, Filling, LockPC, PutPC, NextOffset
<1>3. CASE PutValid
  <2>1. /\ pc[Writer] = "valid" /\ pc'[Writer] = "timecode"
        /\ ring' = [ring EXCEPT ![save_offset].valid = TRUE]
    BY <1>3 DEF PutValid, RingTypeOK
  <2> QED
    BY <1>1, <2>1 DEF RingPart, FillInv, Filling, LockPC, PutPC, NextOffset
<1>4. CASE PutTimecode
  <2>1. /\ pc[Writer] = "timecode" /\ pc'[Writer] = "memcpy"
        /\ ring' = [ring EXCEPT ![save_offset].timecode = save_timecode]
    BY <1>4 DEF PutTimecode, RingTypeOK
  <2> QED
    BY <1>1, <2>1 DEF RingPart, FillInv, Filling, LockPC, PutPC, NextOffset
<1>5. CASE PutCopyBegin
  <2>1. /\ pc[Writer] = "memcpy" /\ pc'[Writer] = "memcpying"
        /\ ring' = [ring EXCEPT ![save_offset].data = Mixed]
    BY <1>5 DEF PutCopyBegin, RingTypeOK
  <2> QED
    BY <1>1, <2>1 DEF RingPart, FillInv, Filling, LockPC, PutPC, NextOffset
<1>6. CASE PutCopyEnd
  <2>1. /\ pc[Writer] = "memcpying" /\ pc'[Writer] = "lock"
        /\ ring' = [ring EXCEPT ![save_offset].data = save_timecode]
    BY <1>6 DEF PutCopyEnd, RingTypeOK
  <2>2. ring'[save_offset] = FrameRecord(save_timecode)
    BY <1>1, <2>1 DEF RingPart, FillInv
  <2>3. ring'[save_offset].timecode = save_timecode
    BY <2>2 DEF FrameRecord
  <2>4. save_offset = NextOffset(current_offset)
    BY <2>1 DEF RingPart, FillInv, PutPC
  <2>5. FillInv'
    BY <1>1, <2>1, <2>2, <2>4 DEF FillInv, LockPC, PutPC, NextOffset, FrameRecord
  <2> QED
    BY <1>1, <2>1, <2>3, <2>5 DEF Filling, PutPC
<1> QED
  BY <1>2, <1>3, <1>4, <1>5, <1>6

\* No step of a running program breaks the ring.
LEMMA NextRing ==
    ASSUME RingTypeOK, PutInv, RingPart, Next, Goes
    PROVE  RingPart'
<1>0. HistoryInv
  BY DEF RingPart
<1>1. CASE PutBegin
  BY <1>1, BeginRing
<1>2. CASE PutStep
  <2>1. CASE PutLength \/ PutValid \/ PutTimecode \/ PutCopyBegin \/ PutCopyEnd
    BY <2>1, FillStep, FillRing DEF RingPart
  <2>2. CASE PutLocked \/ PutUnlock
    <3>1. UNCHANGED <<current_timecode, current_offset, ring, save_timecode, save_offset>>
      BY <2>2 DEF PutLocked, PutUnlock, ipc, putVars
    <3>2. \/ pc[Writer] = "lock" /\ pc'[Writer] = "offset"
          \/ pc'[Writer] = "idle"
      BY <2>2, ProcAssumption DEF PutLocked, PutUnlock, LockReturn, Unlock, Goto, RingTypeOK
    <3> QED
      BY <1>0, <3>1, <3>2, StillGoes, StillRing DEF LockPC
  <2>3. CASE PutOffset
    BY <2>3, OffsetRing
  <2>4. CASE PutCurrent
    BY <2>4, CurrentRing
  <2> QED
    BY <1>2, <2>1, <2>2, <2>3, <2>4 DEF PutStep
<1>3. ASSUME NEW r \in Readers, GetBegin(r) \/ GetStep(r) PROVE RingPart'
  BY <1>0, <1>3, ReaderFrame, StillGoes, StillRing
<1>4. ASSUME NEW p \in Proc, LockStep(p) \/ Kill(p) PROVE RingPart'
  <2>1. UNCHANGED <<current_timecode, current_offset, ring, save_timecode, save_offset>>
    BY <1>4, LockFrame DEF ipc, putVars
  <2>2. \/ pc'[Writer] = pc[Writer] \/ pc'[Writer] = "dead"
        \/ pc[Writer] \in LockPC /\ pc'[Writer] \in LockPC
    BY <1>4, LockFrame, ProcAssumption
  <2> QED
    BY <1>0, <2>1, <2>2, StillGoes, StillRing
<1> QED
  BY <1>1, <1>2, <1>3, <1>4 DEF Next

\* What a restart changes.
LEMMA ReopenFrame ==
    ASSUME RingTypeOK, Reopen
    PROVE  /\ pc[Writer] = "dead" /\ pc'[Writer] = "idle"
           /\ \A r \in Readers : pc'[r] = pc[r]
           /\ UNCHANGED <<current_timecode, current_offset, ring, getVars, disturbed, begun>>
           /\ save_timecode' = current_timecode /\ save_offset' = current_offset
           /\ ~Slipping'
           /\ Slipping => slips' = slips + 1 /\ since' = current_timecode + 1
           /\ ~Slipping => slips' = slips /\ since' = since
<1>1. save_timecode' = current_timecode /\ current_timecode' = current_timecode
  BY DEF Reopen, ipc
<1>2. ~Slipping'
  BY <1>1 DEF Slipping
<1> QED
  BY <1>1, <1>2, ProcAssumption DEF Reopen, Goto, RingTypeOK, ipc

\* A restarted writer finds the ring as the invariant says, one frame further
\* back if its predecessor was killed between the two stores.
LEMMA ReopenRing ==
    ASSUME RingTypeOK, PutInv, RingPart, Reopen
    PROVE  RingTypeOK' /\ PutInv' /\ RingPart'
<1>0. HistoryInv
  BY DEF RingPart
<1>1. /\ pc'[Writer] = "idle"
      /\ UNCHANGED <<current_timecode, current_offset, ring, begun>>
      /\ save_timecode' = current_timecode /\ save_offset' = current_offset
      /\ ~Slipping'
      /\ Slipping => slips' = slips + 1 /\ since' = current_timecode + 1
      /\ ~Slipping => slips' = slips /\ since' = since
  BY ReopenFrame
<1>2. RingTypeOK'
  BY <1>1, ReopenFrame, ProcAssumption DEF RingTypeOK, Reopen, Goto, getVars
<1>3. PutInv'
  BY <1>1, Numbers DEF PutInv, LockPC, PutPC
<1>4. /\ \A s : Behind(s)' = Behind(s) /\ (Cell(s) => Cell(s)')
      /\ Newest' + slips' = Newest + slips
      /\ Newest' <= Newest /\ (Slipping => Newest' = current_timecode)
      /\ ~Slipping => Newest' = Newest
  <2>1. Newest' = current_timecode
    BY <1>1 DEF Newest
  <2> QED
    BY <1>0, <1>1, <2>1, LifeNumbers, Numbers DEF Behind, Cell, Begun, NextOffset
<1>5. HistoryInv'
  BY <1>0, <1>1, Numbers DEF HistoryInv
<1>6. WholeInv'
  <2> SUFFICES ASSUME NEW s \in Slot
               PROVE  \/ Cell(s)'
                      \/ ring[s] = BlankRecord /\ Behind(s) > Newest' + slips'
                      \/ ring[s] = FrameRecord(ring[s].timecode)
    BY <1>1, <1>4 DEF WholeInv, BlankRecord, FrameRecord
  <2> QED
    BY <1>4, Positions, LifeNumbers DEF RingPart, WholeInv
<1>7. AgeInv'
  BY <1>1, <1>4 DEF RingPart, AgeInv
<1>8. HeldInv'
  <2>1. CASE Slipping
    <3>1. \A s \in Slot : ~(since' <= Newest' - Behind(s))
      BY <1>0, <1>1, <1>4, <2>1, Positions, LifeNumbers, Numbers
    <3> QED
      BY <1>4, <3>1 DEF HeldInv
  <2>2. CASE ~Slipping
    <3>1. \A t : LifeOverrun(t)' = LifeOverrun(t)
      BY <1>1, <2>2 DEF LifeOverrun
    <3> QED
      BY <1>1, <1>4, <2>2, <3>1 DEF RingPart, HeldInv
  <2> QED
    BY <2>1, <2>2
<1>9. FillInv'
  BY <1>1 DEF FillInv, LockPC, PutPC
<1> QED
  BY <1>2, <1>3, <1>5, <1>6, <1>7, <1>8, <1>9 DEF RingPart

-----------------------------------------------------------------------------
(* What a get( ) knows.                                                     *)

\* A step of put( ) changes no record but the one it fills, and publishes only
\* later frames.
LEMMA WriterRecords ==
    ASSUME RingTypeOK, PutInv, RingPart, Goes, PutBegin \/ PutStep
    PROVE  /\ current_timecode' \in Int /\ current_timecode <= current_timecode'
           /\ \A t \in Int : LifeOverrun(t) => LifeOverrun(t)'
           /\ \A s \in Slot :
                \/ ring'[s] = ring[s]
                \/ /\ pc[Writer] \in Filling /\ Cell(s) /\ ~PutBegin
                   /\ ring'[s].timecode \in {ring[s].timecode, current_timecode + 1}
<1>0. HistoryInv /\ FillInv
  BY DEF RingPart
<1>1. /\ current_timecode' \in Int /\ current_timecode <= current_timecode'
      /\ save_timecode' \in Int
  BY Numbers, ProcAssumption
     DEF PutBegin, PutStep, PutLength, PutValid, PutTimecode, PutCopyBegin,
     PutCopyEnd, PutLocked, PutOffset, PutCurrent, PutUnlock, ipc, putVars, PutInv
<1>2. begun <= begun' /\ begun' \in Int /\ slips' = slips
  BY <1>0, <1>1, LifeNumbers DEF Goes
<1>3. \A t \in Int : LifeOverrun(t) => LifeOverrun(t)'
  BY <1>0, <1>2, LifeNumbers, Numbers DEF LifeOverrun
<1>4. ASSUME NEW s \in Slot
      PROVE  \/ ring'[s] = ring[s]
             \/ /\ pc[Writer] \in Filling /\ Cell(s) /\ ~PutBegin
                /\ ring'[s].timecode \in {ring[s].timecode, current_timecode + 1}
  <2>1. CASE PutLength \/ PutValid \/ PutTimecode \/ PutCopyBegin \/ PutCopyEnd
    <3>1. pc[Writer] \in Filling /\ pc[Writer] # "idle"
      BY <2>1, FillStep DEF Filling, LockPC, PutPC
    <3>2. Cell(save_offset) /\ save_timecode = current_timecode + 1
      BY <1>0, <3>1, FillingCell
    <3>3. ~PutBegin
      BY <3>1 DEF PutBegin, Step
    <3> QED
      BY <2>1, <3>1, <3>2, <3>3, FillStep
  <2>2. CASE ~(PutLength \/ PutValid \/ PutTimecode \/ PutCopyBegin \/ PutCopyEnd)
    BY <2>2 DEF PutBegin, PutStep, PutLocked, PutOffset, PutCurrent, PutUnlock
  <2> QED
    BY <2>1, <2>2
<1> QED
  BY <1>1, <1>3, <1>4

\* What the reader has found stays, unless its frame is overrun.
LEMMA FoundStays ==
    ASSUME RingTypeOK, PutInv, RingPart, Goes, PutBegin \/ PutStep,
           NEW s \in Slot, NEW t \in Int, t <= current_timecode, ~LifeOverrun(t),
           t # 0 \/ current_timecode = save_timecode
    PROVE  /\ ring[s] = FrameRecord(t) => ring'[s] = FrameRecord(t)
           /\ ring'[s].timecode = t => ring[s].timecode = t
<1>1. ring'[s].timecode = t => ring[s].timecode = t
  BY WriterRecords, Numbers
<1>2. ASSUME ring[s] = FrameRecord(t), ring'[s] # ring[s] PROVE FALSE
  <2>1. pc[Writer] \in Filling /\ Cell(s)
    BY <1>2, WriterRecords
  <2>2. t # 0
    BY <2>1, FillingCell, Numbers DEF RingPart
  <2>3. ring[s].timecode = t
    BY <1>2 DEF FrameRecord
  <2> QED
    BY <2>1, <2>2, <2>3, RecordWhole DEF RingPart
<1> QED
  BY <1>1, <1>2

\* The readers' view after a step of the writer.
LEMMA WriterLifeGet ==
    ASSUME RingTypeOK, PutInv, RingPart, Goes, PutBegin \/ PutStep,
           NEW r \in Readers, LifeGetInvOf(r), LifeQuietInvOf(r)
    PROVE  LifeGetInvOf(r)'
<1>1. /\ UNCHANGED getVars /\ pc'[r] = pc[r]
      /\ timecode[r] \in Int /\ seen[r] \in Int
      /\ pc[r] \in Located => slot[r] \in Slot
      /\ disturbed[r] \in BOOLEAN
  BY WriterFrame DEF RingTypeOK
<1>2. /\ current_timecode' \in Int /\ current_timecode <= current_timecode'
      /\ LifeOverrun(timecode[r]) => LifeOverrun(timecode[r])'
  <2>1. \A t \in Int : LifeOverrun(t) => LifeOverrun(t)'
    BY WriterRecords
  <2>2. LifeOverrun(timecode[r])' = (begun' + slips' >= timecode'[r] + N)
    BY DEF LifeOverrun
  <2> QED
    BY <1>1, <2>1, <2>2, WriterRecords DEF LifeOverrun, getVars
<1>3. pc[r] # "idle" /\ ~disturbed'[r] => ~disturbed[r]
  BY <1>1, WriterFrame DEF PutBegin
<1>4. pc[r] # "idle" /\ LifeSound(r)' => LifeSound(r)
  BY <1>1, <1>2, <1>3 DEF LifeSound, getVars
<1>5. ASSUME pc[r] \in Located, LifeSound(r)'
      PROVE  /\ ring[slot[r]] = FrameRecord(timecode[r])
                  => ring'[slot[r]] = FrameRecord(timecode[r])
             /\ ring'[slot[r]].timecode = timecode[r]
                  => ring[slot[r]].timecode = timecode[r]
  <2>1. LifeSound(r)
    BY <1>4, <1>5 DEF Located
  <2>2. timecode[r] <= current_timecode
    BY <1>5 DEF LifeGetInvOf, Checked, Located
  <2>3. timecode[r] = 0 => current_timecode = save_timecode
    BY <1>5, <2>1 DEF LifeSound, LifeQuietInvOf, Calling, Located
  <2> QED
    BY <1>1, <1>5, <2>1, <2>2, <2>3, FoundStays DEF LifeSound
<1> USE <1>1, <1>2 DEF getVars
<1>6. /\ pc'[r] = "old" => timecode'[r] <= current_timecode'
      /\ pc'[r] \in Checked => 0 <= timecode'[r] /\ timecode'[r] <= current_timecode'
      /\ pc'[r] = "timecode_read" => timecode'[r] <= seen'[r] /\ seen'[r] <= current_timecode'
  BY Numbers DEF LifeGetInvOf, Checked
<1>7. /\ pc'[r] = "offset_read" => seen'[r] \in Slot
      /\ pc'[r] = "length" /\ ~LifeOverrun(timecode[r])' => slot'[r] \in Slot
  BY DEF LifeGetInvOf
<1>8. /\ pc'[r] = "match" /\ LifeSound(r)' /\ ring'[slot'[r]].timecode = timecode'[r]
           => size'[r] = timecode'[r]
      /\ pc'[r] \in Matched /\ LifeSound(r)'
           => ring'[slot'[r]] = FrameRecord(timecode'[r]) /\ size'[r] = timecode'[r]
  BY <1>4, <1>5 DEF LifeGetInvOf, Matched, Located
<1>9. /\ pc'[r] = "memcpying" /\ LifeSound(r)' => data'[r] = timecode'[r]
      /\ pc'[r] = "hit" /\ LifeSound(r)' => size'[r] = timecode'[r] /\ data'[r] = timecode'[r]
  BY <1>4 DEF LifeGetInvOf
<1> QED
  BY <1>6, <1>7, <1>8, <1>9 DEF LifeGetInvOf, FrameRecord, Checked, Matched, Located, Slot

\* The record a reader works on is its frame if the timecode says so.
LEMMA MatchWhole ==
    ASSUME RingTypeOK, PutInv, RingPart, NEW r \in Readers,
           LifeGetInvOf(r), LifeQuietInvOf(r), pc[r] \in {"length", "match"},
           slot[r] \in Slot, LifeSound(r), ring[slot[r]].timecode = timecode[r]
    PROVE  ring[slot[r]] = FrameRecord(timecode[r])
<1>1. /\ timecode[r] \in Int /\ 0 <= timecode[r] /\ timecode[r] <= current_timecode
      /\ ~LifeOverrun(timecode[r])
  BY DEF RingTypeOK, LifeGetInvOf, Checked, LifeSound
<1>2. CASE timecode[r] # 0
  BY <1>1, <1>2, RecordWhole DEF RingPart
<1>3. CASE timecode[r] = 0
  <2>1. /\ current_timecode = save_timecode
        /\ slot[r] = Locate(current_offset, current_timecode, 0)
    BY <1>1, <1>3 DEF LifeSound, LifeQuietInvOf, Calling, Located
  <2>2. ~Slipping
    BY <2>1 DEF Slipping
  <2> QED
    BY <1>1, <1>3, <2>1, <2>2, FirstWhole DEF RingPart
<1> QED
  BY <1>2, <1>3

\* The address computed from one reading of each half stays in the ring.
LEMMA LifeLocateInRing ==
    ASSUME RingTypeOK, PutInv, HistoryInv, NEW offset \in Slot, NEW current \in Int,
           NEW t \in Int, t <= current, current <= current_timecode, ~LifeOverrun(t)
    PROVE  Locate(offset, current, t) \in Slot
<1>1. current - t < N
  BY Numbers, LifeNumbers DEF LifeOverrun
<1> QED
  BY <1>1, Numbers DEF Locate, Slot

\* The reader's own steps.
LEMMA ReaderLifeGet ==
    ASSUME RingTypeOK, PutInv, RingPart, Goes,
           NEW r \in Readers, GetBegin(r) \/ GetStep(r),
           LifeGetInvOf(r), LifeQuietInvOf(r)
    PROVE  LifeGetInvOf(r)'
<1>0. /\ UNCHANGED <<current_timecode, current_offset, ring, begun, slips>>
      /\ timecode[r] \in Int /\ seen[r] \in Int /\ slot[r] \in Int
      /\ HistoryInv
      /\ \A t : LifeOverrun(t)' = LifeOverrun(t)
  <2>1. UNCHANGED <<current_timecode, current_offset, ring, save_timecode, save_offset>>
    BY ReaderFrame
  <2>2. Still /\ HistoryInv
    BY <2>1, StillGoes DEF RingPart
  <2> QED
    BY <2>1, <2>2 DEF Still, LifeOverrun, RingTypeOK
<1> USE ProcAssumption DEF Step, Goto
<1>1. CASE GetBegin(r) \/ GetLocked(r) \/ GetReject(r) \/ GetReturn(r)
  <2>1. pc'[r] \in {"lock", "new", "miss", "idle"}
    BY <1>1 DEF GetBegin, GetLocked, GetReject, GetReturn, LockReturn, Unlock, RingTypeOK
  <2> QED
    BY <2>1 DEF LifeGetInvOf, Checked, Located, Matched
<1>2. CASE GetCheckNew(r)
  <2>1. /\ pc'[r] \in {"reject", "old"} /\ timecode' = timecode
        /\ pc'[r] = "old" => timecode[r] <= current_timecode
    BY <1>0, <1>2, Numbers DEF GetCheckNew, RingTypeOK, getVars
  <2> QED
    BY <1>0, <2>1 DEF LifeGetInvOf, Checked, Located, Matched
<1>3. CASE GetCheckOld(r)
  <2>1. /\ pc[r] = "old" /\ pc'[r] \in {"reject", "addr"} /\ timecode' = timecode
        /\ pc'[r] = "addr" => 0 <= timecode[r]
    BY <1>0, <1>3, Numbers DEF GetCheckOld, RingTypeOK, getVars
  <2> QED
    BY <1>0, <2>1 DEF LifeGetInvOf, Checked, Located, Matched
<1>4. CASE GetReadOffset(r)
  <2>1. /\ pc[r] = "addr" /\ pc'[r] = "offset_read" /\ timecode' = timecode
        /\ seen'[r] \in Slot
    BY <1>4 DEF GetReadOffset, RingTypeOK
  <2> QED
    BY <1>0, <2>1 DEF LifeGetInvOf, Checked, Located, Matched, Slot
<1>5. CASE GetReadTimecode(r)
  <2>1. /\ pc[r] = "addr" /\ pc'[r] = "timecode_read" /\ timecode' = timecode
        /\ seen'[r] = current_timecode
    BY <1>5 DEF GetReadTimecode, RingTypeOK
  <2> QED
    BY <1>0, <2>1, Numbers DEF LifeGetInvOf, Checked, Located, Matched
<1>6. CASE GetLocate(r)
  <2>1. /\ pc'[r] = "length" /\ timecode' = timecode
        /\ pc[r] \in {"offset_read", "timecode_read"}
    BY <1>6 DEF GetLocate, RingTypeOK
  <2>2. ~LifeOverrun(timecode[r]) => slot'[r] \in Slot
    <3>1. CASE pc[r] = "offset_read"
      <4>1. slot'[r] = Locate(seen[r], current_timecode, timecode[r])
        BY <1>6, <3>1 DEF GetLocate, RingTypeOK
      <4> QED
        BY <1>0, <3>1, <4>1, LifeLocateInRing, Numbers DEF LifeGetInvOf, Checked
    <3>2. CASE pc[r] = "timecode_read"
      <4>1. slot'[r] = Locate(current_offset, seen[r], timecode[r])
        BY <1>6, <3>2 DEF GetLocate, RingTypeOK
      <4>2. current_offset \in Slot
        BY DEF RingTypeOK
      <4> QED
        BY <1>0, <3>2, <4>1, <4>2, LifeLocateInRing DEF LifeGetInvOf
    <3> QED
      BY <2>1, <3>1, <3>2
  <2>3. LifeOverrun(timecode[r])' = LifeOverrun(timecode[r])
    BY <1>0, <2>1 DEF LifeOverrun
  <2> QED
    BY <1>0, <2>1, <2>2, <2>3 DEF LifeGetInvOf, Checked, Located, Matched, Slot
<1>7. CASE GetLength(r)
  <2>1. /\ pc[r] = "length" /\ pc'[r] = "match" /\ slot[r] \in Slot
        /\ timecode' = timecode /\ slot' = slot /\ disturbed' = disturbed
        /\ size'[r] = ring[slot[r]].length
    BY <1>7 DEF GetLength, RingTypeOK
  <2>2. LifeSound(r) /\ ring[slot[r]].timecode = timecode[r]
          => ring[slot[r]] = FrameRecord(timecode[r])
    BY <2>1, MatchWhole
  <2>3. FrameRecord(timecode[r]).length = timecode[r]
    BY DEF FrameRecord
  <2>4. LifeSound(r)' = LifeSound(r)
    BY <1>0, <2>1 DEF LifeSound, LifeOverrun
  <2> QED
    BY <1>0, <2>1, <2>2, <2>3, <2>4 DEF LifeGetInvOf, Checked, Located, Matched
<1>8. CASE GetMatch(r)
  <2>1. /\ pc[r] = "match" /\ slot[r] \in Slot
        /\ pc'[r] = "reject" \/ (pc'[r] = "valid" /\ ring[slot[r]].timecode = timecode[r])
        /\ timecode' = timecode /\ slot' = slot /\ size' = size /\ disturbed' = disturbed
    BY <1>8 DEF GetMatch, RingTypeOK, getVars, Located
  <2>2. LifeSound(r) /\ ring[slot[r]].timecode = timecode[r]
          => ring[slot[r]] = FrameRecord(timecode[r])
    BY <2>1, MatchWhole
  <2>3. LifeSound(r)' = LifeSound(r)
    BY <1>0, <2>1 DEF LifeSound, LifeOverrun
  <2>4. (ring[slot[r]] = FrameRecord(timecode[r]))'
          = (ring[slot[r]] = FrameRecord(timecode[r]))
    BY <1>0, <2>1 DEF FrameRecord
  <2> QED
    BY <1>0, <2>1, <2>2, <2>3, <2>4 DEF LifeGetInvOf, Checked, Located, Matched
<1>9. CASE GetValid(r) \/ GetAccept(r)
  <2>1. /\ pc[r] \in {"valid", "accept"} /\ pc'[r] \in {"reject", "accept", "memcpy"}
        /\ UNCHANGED getVars /\ disturbed' = disturbed
    BY <1>9 DEF GetValid, GetAccept, Unlock, RingTypeOK
  <2>2. LifeSound(r)' = LifeSound(r)
    BY <1>0, <2>1 DEF LifeSound, LifeOverrun, getVars
  <2>3. (ring[slot[r]] = FrameRecord(timecode[r]))'
          = (ring[slot[r]] = FrameRecord(timecode[r]))
    BY <1>0, <2>1 DEF FrameRecord, getVars
  <2> QED
    BY <1>0, <2>1, <2>2, <2>3 DEF LifeGetInvOf, Checked, Located, Matched, getVars
<1>10. CASE GetCopyBegin(r)
  <2>1. /\ pc[r] = "memcpy" /\ pc'[r] = "memcpying"
        /\ timecode' = timecode /\ slot' = slot /\ size' = size /\ disturbed' = disturbed
        /\ data'[r] = ring[slot[r]].data
    BY <1>10 DEF GetCopyBegin, RingTypeOK
  <2>2. LifeSound(r)' = LifeSound(r)
    BY <1>0, <2>1 DEF LifeSound, LifeOverrun
  <2>3. /\ (ring[slot[r]] = FrameRecord(timecode[r]))'
             = (ring[slot[r]] = FrameRecord(timecode[r]))
        /\ FrameRecord(timecode[r]).data = timecode[r]
    BY <1>0, <2>1 DEF FrameRecord
  <2> QED
    BY <1>0, <2>1, <2>2, <2>3 DEF LifeGetInvOf, Checked, Located, Matched
<1>11. CASE GetCopyEnd(r)
  <2>1. /\ pc[r] = "memcpying" /\ pc'[r] = "hit"
        /\ timecode' = timecode /\ slot' = slot /\ size' = size /\ disturbed' = disturbed
        /\ data[r] = ring[slot[r]].data => data'[r] = data[r]
    BY <1>11 DEF GetCopyEnd, RingTypeOK
  <2>2. LifeSound(r)' = LifeSound(r)
    BY <1>0, <2>1 DEF LifeSound, LifeOverrun
  <2>3. FrameRecord(timecode[r]).data = timecode[r]
    BY DEF FrameRecord
  <2> QED
    BY <1>0, <2>1, <2>2, <2>3 DEF LifeGetInvOf, Checked, Located, Matched
<1>12. CASE GetStray(r)
  <2>1. /\ pc[r] = "length" /\ pc'[r] \in {"reject", "hit", "dead"} /\ slot[r] \notin Slot
        /\ timecode' = timecode
    BY <1>12 DEF GetStray, RingTypeOK
  <2>2. LifeOverrun(timecode[r])'
    BY <1>0, <2>1 DEF LifeGetInvOf, LifeOverrun
  <2>3. ~LifeSound(r)'
    BY <2>2 DEF LifeSound
  <2> QED
    BY <1>0, <2>1, <2>3 DEF LifeGetInvOf, Checked, Located, Matched
<1> QED
  BY <1>1, <1>2, <1>3, <1>4, <1>5, <1>6, <1>7, <1>8, <1>9, <1>10, <1>11, <1>12 DEF GetStep

\* The reader's own steps, as long as no put( ) has overlapped the call.
LEMMA ReaderLifeQuiet ==
    ASSUME RingTypeOK, PutInv, RingPart, Goes,
           NEW r \in Readers, GetBegin(r) \/ GetStep(r),
           LifeGetInvOf(r), LifeQuietInvOf(r)
    PROVE  LifeQuietInvOf(r)'
<1>0. /\ UNCHANGED <<current_timecode, current_offset, ring, save_timecode, save_offset>>
      /\ UNCHANGED <<begun, slips, since>>
      /\ timecode[r] \in Int /\ disturbed[r] \in BOOLEAN
      /\ HistoryInv /\ HeldInv
  <2>1. UNCHANGED <<current_timecode, current_offset, ring, save_timecode, save_offset>>
    BY ReaderFrame
  <2>2. Still /\ HistoryInv /\ HeldInv
    BY <2>1, StillGoes DEF RingPart
  <2> QED
    BY <2>1, <2>2 DEF Still, RingTypeOK
<1>h. /\ timecode' = timecode => LifeHeld(timecode[r])' = LifeHeld(timecode[r])
      /\ timecode' = timecode => LifeOverrun(timecode[r])' = LifeOverrun(timecode[r])
      /\ \A a, b, t : Locate(a, b, t)' = Locate(a, b, t)
  BY <1>0 DEF LifeHeld, LifeOverrun, Locate
<1> USE ProcAssumption DEF Step, Goto
<1>1. CASE GetBegin(r)
  <2>1. pc'[r] = "lock" /\ disturbed'[r] = (save_timecode # current_timecode)
    BY <1>1 DEF GetBegin, RingTypeOK
  <2> QED
    BY <1>0, <2>1 DEF LifeQuietInvOf, Located
<1>2. CASE GetReturn(r)
  <2>1. pc'[r] = "idle"
    BY <1>2 DEF GetReturn, RingTypeOK
  <2> QED
    BY <2>1 DEF LifeQuietInvOf, Located, Calling
<1>3. CASE GetLocked(r) \/ GetAccept(r) \/ GetReject(r)
  <2>1. /\ pc[r] \in {"lock", "accept", "reject"}
        /\ pc[r] = "lock" => pc'[r] = "new"
        /\ pc[r] = "accept" => pc'[r] = "memcpy"
        /\ pc[r] = "reject" => pc'[r] = "miss"
        /\ UNCHANGED <<getVars, disturbed>>
    BY <1>3 DEF GetLocked, GetAccept, GetReject, LockReturn, Unlock, RingTypeOK
  <2> QED
    BY <1>0, <1>h, <2>1 DEF LifeQuietInvOf, Located, Calling, getVars
<1>4. CASE GetCheckNew(r)
  <2>1. /\ pc[r] = "new" /\ pc'[r] \in {"reject", "old"} /\ UNCHANGED <<getVars, disturbed>>
        /\ pc'[r] = "reject" => current_timecode < timecode[r]
    BY <1>0, <1>4, Numbers DEF GetCheckNew, RingTypeOK
  <2>2. pc'[r] = "reject" => ~LifeHeld(timecode[r])
    BY <1>0, <2>1, Numbers DEF LifeHeld
  <2> QED
    BY <1>0, <1>h, <2>1, <2>2 DEF LifeQuietInvOf, Located, Calling, getVars
<1>5. CASE GetCheckOld(r)
  <2>1. /\ pc[r] = "old" /\ pc'[r] \in {"reject", "addr"} /\ UNCHANGED <<getVars, disturbed>>
        /\ pc'[r] = "reject" => current_timecode - N > timecode[r] \/ timecode[r] < 0
    BY <1>0, <1>5, Numbers DEF GetCheckOld, RingTypeOK
  <2>2. pc'[r] = "reject" => ~LifeHeld(timecode[r])
    BY <1>0, <2>1, Numbers, LifeNumbers DEF LifeHeld, LifeOverrun
  <2> QED
    BY <1>0, <1>h, <2>1, <2>2 DEF LifeQuietInvOf, Located, Calling, getVars
<1>6. CASE GetReadOffset(r) \/ GetReadTimecode(r)
  <2>1. /\ pc[r] = "addr" /\ timecode' = timecode /\ disturbed' = disturbed
        /\ \/ pc'[r] = "offset_read" /\ seen'[r] = current_offset
           \/ pc'[r] = "timecode_read" /\ seen'[r] = current_timecode
    BY <1>6 DEF GetReadOffset, GetReadTimecode, RingTypeOK
  <2> QED
    BY <1>0, <2>1 DEF LifeQuietInvOf, Located, Calling
<1>7. CASE GetLocate(r)
  <2>1. /\ pc'[r] = "length" /\ timecode' = timecode /\ disturbed' = disturbed
        /\ \/ pc[r] = "offset_read"
              /\ slot'[r] = Locate(seen[r], current_timecode, timecode[r])
           \/ pc[r] = "timecode_read"
              /\ slot'[r] = Locate(current_offset, seen[r], timecode[r])
    BY <1>7 DEF GetLocate, RingTypeOK
  <2>2. ~disturbed[r] => /\ current_timecode = save_timecode
                         /\ slot'[r] = Locate(current_offset, current_timecode, timecode[r])
    BY <2>1 DEF LifeQuietInvOf, Calling
  <2> QED
    BY <1>0, <1>h, <2>1, <2>2 DEF LifeQuietInvOf, Located, Calling, Locate
<1>8. CASE GetLength(r) \/ GetCopyBegin(r) \/ GetCopyEnd(r)
  <2>1. /\ pc[r] \in {"length", "memcpy", "memcpying"}
        /\ pc'[r] \in {"match", "memcpying", "hit"}
        /\ timecode' = timecode /\ slot' = slot /\ disturbed' = disturbed
    BY <1>8 DEF GetLength, GetCopyBegin, GetCopyEnd, RingTypeOK
  <2> QED
    BY <1>0, <1>h, <2>1 DEF LifeQuietInvOf, Located, Calling, Locate
<1>9. CASE GetMatch(r) \/ GetValid(r)
  <2>1. /\ pc[r] \in {"match", "valid"} /\ pc'[r] \in {"reject", "valid", "accept"}
        /\ UNCHANGED <<getVars, disturbed>>
        /\ pc'[r] = "reject" => ring[slot[r]] # FrameRecord(timecode[r])
    BY <1>9 DEF GetMatch, GetValid, RingTypeOK, FrameRecord
  <2>2. ~disturbed[r] /\ LifeHeld(timecode[r])
          => /\ slot[r] = Locate(current_offset, current_timecode, timecode[r])
             /\ ~Slipping
    BY <2>1 DEF LifeQuietInvOf, Located, LifeHeld, Slipping, Calling
  <2>3. ~disturbed[r] /\ pc'[r] = "reject" => ~LifeHeld(timecode[r])
    BY <1>0, <2>1, <2>2, HeldPlace
  <2> QED
    BY <1>0, <1>h, <2>1, <2>3 DEF LifeQuietInvOf, Located, Calling, getVars, Locate
<1>10. CASE GetStray(r)
  <2>1. /\ pc[r] = "length" /\ pc'[r] \in {"reject", "hit", "dead"} /\ slot[r] \notin Slot
        /\ timecode' = timecode /\ disturbed' = disturbed
    BY <1>10 DEF GetStray, RingTypeOK
  <2>2. ~LifeHeld(timecode[r])
    BY <2>1 DEF LifeGetInvOf, LifeHeld
  <2> QED
    BY <1>0, <1>h, <2>1, <2>2 DEF LifeQuietInvOf, Located, Calling
<1> QED
  BY <1>1, <1>2, <1>3, <1>4, <1>5, <1>6, <1>7, <1>8, <1>9, <1>10 DEF GetStep

\* No step of put( ) falls into a call that none has overlapped, but its
\* beginning, which marks the call.
LEMMA WriterLifeQuiet ==
    ASSUME RingTypeOK, PutInv, RingPart, Goes, PutBegin \/ PutStep,
           NEW r \in Readers, LifeQuietInvOf(r)
    PROVE  LifeQuietInvOf(r)'
<1>0. UNCHANGED getVars /\ pc'[r] = pc[r] /\ disturbed[r] \in BOOLEAN
  BY WriterFrame DEF RingTypeOK
<1>1. CASE PutBegin
  <2>1. disturbed'[r] = (pc[r] # "idle")
    BY <1>1 DEF PutBegin
  <2> QED
    BY <1>0, <2>1 DEF LifeQuietInvOf, Located, Calling
<1>2. CASE PutStep /\ ~PutBegin
  <2>1. UNCHANGED <<save_timecode, save_offset, disturbed>>
    BY <1>2, WriterFrame
  <2>2. CASE Calling(r) /\ ~disturbed[r]
    <3>1. current_timecode = save_timecode
      BY <2>2 DEF LifeQuietInvOf
    <3>2. pc[Writer] \notin {"offset", "current"}
      BY <3>1, Numbers DEF PutInv, PutPC, LockPC
    <3>3. UNCHANGED ipc
      BY <1>2, <3>2 DEF PutStep, PutLength, PutValid, PutTimecode, PutCopyBegin, PutCopyEnd,
         PutLocked, PutOffset, PutCurrent, PutUnlock, Step
    <3>4. UNCHANGED <<begun, slips, since>>
      BY <2>1, Numbers DEF RingPart, HistoryInv, Goes
    <3> QED
      BY <1>0, <2>1, <3>3, <3>4
         DEF LifeQuietInvOf, Located, Calling, getVars, ipc, LifeHeld, LifeOverrun, Locate
  <2>3. CASE ~Calling(r) \/ disturbed[r]
    BY <1>0, <2>1, <2>3 DEF LifeQuietInvOf, Located, Calling
  <2> QED
    BY <2>2, <2>3
<1> QED
  BY <1>1, <1>2

\* Steps that leave r's locals alone and what they are compared with.
LEMMA OthersLife ==
    ASSUME NEW r \in Readers, LifeGetInvOf(r), LifeQuietInvOf(r), Still,
           pc'[r] = pc[r] \/ pc'[r] \in LockPC \cup {"dead"},
           pc'[r] \in LockPC => pc[r] # "idle" /\ pc[r] # "dead",
           timecode'[r] = timecode[r], seen'[r] = seen[r], slot'[r] = slot[r],
           size'[r] = size[r], data'[r] = data[r], disturbed'[r] = disturbed[r]
    PROVE  LifeGetInvOf(r)' /\ LifeQuietInvOf(r)'
<1>1. /\ LifeOverrun(timecode[r])' = LifeOverrun(timecode[r])
      /\ LifeHeld(timecode[r])' = LifeHeld(timecode[r])
      /\ LifeSound(r)' = LifeSound(r)
      /\ (ring[slot[r]] = FrameRecord(timecode[r]))'
           = (ring[slot[r]] = FrameRecord(timecode[r]))
  BY DEF Still, LifeOverrun, LifeHeld, LifeSound, FrameRecord
<1>2. LifeGetInvOf(r)'
  BY <1>1 DEF Still, LifeGetInvOf, Checked, Located, Matched, LockPC, Slot
<1>3. LifeQuietInvOf(r)'
  BY <1>1 DEF Still, LifeQuietInvOf, Located, Calling, LockPC, Locate
<1> QED
  BY <1>2, <1>3

\* A restart makes frames overrun sooner, but none of a quiet call.
LEMMA ReopenReaders ==
    ASSUME RingTypeOK, PutInv, RingPart, Reopen,
           NEW r \in Readers, LifeGetInvOf(r), LifeQuietInvOf(r)
    PROVE  LifeGetInvOf(r)' /\ LifeQuietInvOf(r)'
<1>1. /\ pc'[r] = pc[r] /\ timecode' = timecode /\ seen' = seen /\ slot' = slot
      /\ size' = size /\ data' = data /\ disturbed' = disturbed
      /\ UNCHANGED <<current_timecode, current_offset, ring, begun>>
      /\ save_timecode' = current_timecode
      /\ Slipping => slips' = slips + 1
      /\ ~Slipping => slips' = slips /\ since' = since
      /\ timecode[r] \in Int /\ HistoryInv
  BY ReopenFrame DEF getVars, RingTypeOK, RingPart
<1>2. LifeOverrun(timecode[r]) => LifeOverrun(timecode[r])'
  BY <1>1, LifeNumbers, Numbers DEF LifeOverrun
<1>3. LifeSound(r)' => LifeSound(r)
  BY <1>1, <1>2 DEF LifeSound
<1>4. (ring[slot[r]] = FrameRecord(timecode[r]))'
        = (ring[slot[r]] = FrameRecord(timecode[r]))
  BY <1>1 DEF FrameRecord
<1>5. LifeGetInvOf(r)'
  BY <1>1, <1>2, <1>3, <1>4 DEF LifeGetInvOf, Checked, Located, Matched, Slot
<1>6. LifeQuietInvOf(r)'
  <2>1. CASE Calling(r) /\ ~disturbed[r]
    <3>1. ~Slipping
      BY <2>1 DEF LifeQuietInvOf, Slipping
    <3>2. LifeHeld(timecode[r])' = LifeHeld(timecode[r])
          /\ LifeOverrun(timecode[r])' = LifeOverrun(timecode[r])
      BY <1>1, <3>1 DEF LifeHeld, LifeOverrun
    <3> QED
      BY <1>1, <3>2 DEF LifeQuietInvOf, Located, Calling, Locate
  <2>2. CASE ~Calling(r) \/ disturbed[r]
    BY <1>1, <2>2 DEF LifeQuietInvOf, Located, Calling
  <2> QED
    BY <2>1, <2>2
<1> QED
  BY <1>5, <1>6

-----------------------------------------------------------------------------
(* The theorems.                                                            *)

LEMMA InitLifeInv == LifeInit => LifeInv
<1> SUFFICES ASSUME LifeInit PROVE LifeInv
  OBVIOUS
<1>1. Init /\ begun = -1 /\ slips = 0 /\ since = 0
  BY DEF LifeInit
<1>2. RingTypeOK /\ PutInv
  BY <1>1, InitIInv DEF IInv, TypeOK
<1>3. /\ current_timecode = -1 /\ save_timecode = -1 /\ pc[Writer] = "idle"
      /\ current_offset = 0 /\ save_offset = 0
      /\ \A s \in Slot : ring[s] = BlankRecord
      /\ \A r \in Readers : pc[r] = "idle"
  BY <1>1, ProcAssumption DEF Init
<1>4. HistoryInv
  BY <1>1, <1>3 DEF HistoryInv
<1>5. Newest = -1 /\ ~Begun
  BY <1>1, <1>3 DEF Newest, Slipping, Begun
<1>6. \A s \in Slot : Behind(s) \in Int /\ 0 <= Behind(s)
  BY <1>2, Positions
<1>7. WholeInv
  BY <1>1, <1>3, <1>5, <1>6 DEF WholeInv
<1>8. AgeInv
  BY <1>3 DEF AgeInv, BlankRecord
<1>9. HeldInv
  BY <1>1, <1>5, <1>6 DEF HeldInv
<1>10. FillInv
  BY <1>3 DEF FillInv, LockPC, PutPC
<1>11. LifeGetInv /\ LifeQuietInv
  BY <1>3 DEF LifeGetInv, LifeGetInvOf, LifeQuietInv, LifeQuietInvOf,
     Checked, Located, Matched, Calling
<1> QED
  BY <1>2, <1>4, <1>7, <1>8, <1>9, <1>10, <1>11 DEF LifeInv

\* Readers after a step of a running program.
LEMMA NextReaders ==
    ASSUME LifeInv, Next, Goes, NEW r \in Readers
    PROVE  LifeGetInvOf(r)' /\ LifeQuietInvOf(r)'
<1>0. /\ RingTypeOK /\ PutInv /\ RingPart /\ HistoryInv
      /\ LifeGetInvOf(r) /\ LifeQuietInvOf(r)
  BY DEF LifeInv, RingPart, LifeGetInv, LifeQuietInv
<1>1. CASE PutBegin \/ PutStep
  BY <1>0, <1>1, WriterLifeGet, WriterLifeQuiet
<1>2. ASSUME NEW q \in Readers, GetBegin(q) \/ GetStep(q)
      PROVE  LifeGetInvOf(r)' /\ LifeQuietInvOf(r)'
  <2>1. CASE q = r
    BY <1>0, <1>2, <2>1, ReaderLifeGet, ReaderLifeQuiet
  <2>2. CASE q # r
    <3>1. /\ UNCHANGED <<current_timecode, current_offset, ring, save_timecode, save_offset>>
          /\ pc'[r] = pc[r]
          /\ timecode'[r] = timecode[r] /\ seen'[r] = seen[r] /\ slot'[r] = slot[r]
          /\ size'[r] = size[r] /\ data'[r] = data[r] /\ disturbed'[r] = disturbed[r]
      BY <1>0, <1>2, <2>2, ReaderFrame
    <3>2. Still
      BY <1>0, <3>1, StillGoes
    <3>3. pc[r] \in LockPC => pc[r] # "idle" /\ pc[r] # "dead"
      BY DEF LockPC
    <3> QED
      BY <1>0, <3>1, <3>2, <3>3, OthersLife
  <2> QED
    BY <2>1, <2>2
<1>3. ASSUME NEW p \in Proc, LockStep(p) \/ Kill(p)
      PROVE  LifeGetInvOf(r)' /\ LifeQuietInvOf(r)'
  <2>1. /\ UNCHANGED <<ipc, ring, putVars, getVars, disturbed>>
        /\ pc'[r] = pc[r] \/ pc'[r] = "dead" \/ (pc[r] \in LockPC /\ pc'[r] \in LockPC)
    BY <1>0, <1>3, LockFrame, ProcAssumption
  <2>2. Still
    BY <1>0, <2>1, StillGoes DEF ipc, putVars
  <2>3. /\ pc'[r] = pc[r] \/ pc'[r] \in LockPC \cup {"dead"}
        /\ pc'[r] \in LockPC => pc[r] # "idle" /\ pc[r] # "dead"
    BY <2>1 DEF LockPC
  <2> QED
    BY <1>0, <2>1, <2>2, <2>3, OthersLife DEF getVars
<1> QED
  BY <1>1, <1>2, <1>3 DEF Next

LEMMA LifeStep == LifeInv /\ [LifeNext]_<<vars, lifeVars>> => LifeInv'
<1> SUFFICES ASSUME LifeInv, [LifeNext]_<<vars, lifeVars>> PROVE LifeInv'
  OBVIOUS
<1>0. RingTypeOK /\ PutInv /\ RingPart
  BY DEF LifeInv, RingPart
<1>1. CASE Reopen
  <2>1. RingTypeOK' /\ PutInv' /\ RingPart'
    BY <1>0, <1>1, ReopenRing
  <2>2. LifeGetInv' /\ LifeQuietInv'
    BY <1>0, <1>1, ReopenReaders DEF LifeInv, LifeGetInv, LifeQuietInv
  <2> QED
    BY <2>1, <2>2 DEF LifeInv, RingPart
<1>2. CASE Next /\ Goes
  <2>1. RingTypeOK' /\ PutInv'
    BY <1>0, <1>2, RingTypeStep, PutInvStep
  <2>2. RingPart'
    BY <1>0, <1>2, NextRing
  <2>3. LifeGetInv' /\ LifeQuietInv'
    BY <1>2, NextReaders DEF LifeGetInv, LifeQuietInv
  <2> QED
    BY <2>1, <2>2, <2>3 DEF LifeInv, RingPart
<1>3. CASE UNCHANGED <<vars, lifeVars>>
  <2>1. /\ Still /\ UNCHANGED <<pc, getVars, disturbed>>
        /\ UNCHANGED vars
    BY <1>3 DEF Still, vars, lockVars, lifeVars, ipc, putVars
  <2>2. RingTypeOK' /\ PutInv'
    BY <1>0, <2>1, RingTypeStep, PutInvStep
  <2>3. RingPart'
    BY <1>0, <2>1, StillRing
  <2>4. ASSUME NEW r \in Readers PROVE LifeGetInvOf(r)' /\ LifeQuietInvOf(r)'
    <3>1. LifeGetInvOf(r) /\ LifeQuietInvOf(r)
      BY DEF LifeInv, LifeGetInv, LifeQuietInv
    <3>2. pc[r] \in LockPC => pc[r] # "idle" /\ pc[r] # "dead"
      BY DEF LockPC
    <3> QED
      BY <2>1, <3>1, <3>2, OthersLife DEF getVars
  <2> QED
    BY <2>2, <2>3, <2>4 DEF LifeInv, RingPart, LifeGetInv, LifeQuietInv
<1> QED
  BY <1>1, <1>2, <1>3 DEF LifeNext, Goes

\* The inductive invariant holds however often the writer is killed and
\* restarted, and wherever it is killed.
THEOREM LifeInductive == LifeSpec => []LifeInv
  BY InitLifeInv, LifeStep, PTL DEF LifeSpec

\* A get( ) that returns true delivers the frame asked for, whole and with its
\* own length, whether it was written before or after a writer was killed in
\* the middle of another one (mmap_buffer.cpp 167-236).
THEOREM LifeGetsWhole == LifeSpec => []LifeIntegrity
<1>1. LifeInv => LifeIntegrity
  BY DEF LifeInv, LifeGetInv, LifeGetInvOf, LifeIntegrity, LifeSound
<1> QED
  BY LifeInductive, <1>1, PTL

\* A get( ) that no put( ) overlaps finds every frame the ring holds; after a
\* writer was killed between the two stores of put( ) 188-189, every one written
\* since.
THEOREM LifeQuietGets == LifeSpec => []LifeGetHits
<1>1. LifeInv => LifeGetHits
  BY DEF LifeInv, RingTypeOK, LifeQuietInv, LifeQuietInvOf, LifeGetHits
<1> QED
  BY LifeInductive, <1>1, PTL

\* Those frames are complete and where get( ) looks for them, although a killed
\* writer leaves a record half filled.
THEOREM LifeStoreIntact == LifeSpec => []LifeIntact
<1>1. LifeInv => LifeIntact
  BY HeldPlace DEF LifeInv, LifeIntact, Timecode
<1> QED
  BY LifeInductive, <1>1, PTL

\* However often the writer is killed, frames are published one by one, each
\* after the last byte of its record, and no number is given out twice
\* (mmap_buffer.cpp 179-190).
THEOREM LifePublication == LifeSpec => PublishComplete
<1>1. ASSUME LifeInv, [LifeNext]_<<vars, lifeVars>>, current_timecode' # current_timecode
      PROVE  /\ current_timecode' = current_timecode + 1
             /\ ring[current_offset] = FrameRecord(current_timecode')
  <2>0. RingTypeOK /\ PutInv /\ FillInv
    BY <1>1 DEF LifeInv
  <2>1. Next
    BY <1>1 DEF LifeNext, Reopen, ipc, vars
  <2>2. PutCurrent
    <3>1. PutBegin \/ PutStep
      BY <1>1, <2>0, <2>1, ReaderFrame, LockFrame DEF Next, ipc
    <3> QED
      BY <1>1, <3>1 DEF PutStep, PutBegin, PutLength, PutValid, PutTimecode, PutCopyBegin,
         PutCopyEnd, PutLocked, PutOffset, PutUnlock, ipc
  <2>3. pc[Writer] = "current" /\ current_timecode' = save_timecode
    BY <2>2 DEF PutCurrent, Step
  <2>4. current_timecode = save_timecode - 1 /\ current_offset = save_offset
    BY <2>0, <2>3 DEF PutInv, PutPC
  <2>5. ring[save_offset] = FrameRecord(save_timecode)
    BY <2>0, <2>3 DEF FillInv
  <2> QED
    BY <2>0, <2>3, <2>4, <2>5, Numbers
<1>2. LifeInv /\ [LifeNext]_<<vars, lifeVars>> =>
        [current_timecode' # current_timecode =>
           /\ current_timecode' = current_timecode + 1
           /\ ring[current_offset] = FrameRecord(current_timecode')]_vars
  BY <1>1
<1> QED
  BY LifeInductive, <1>2, PTL DEF PublishComplete, LifeSpec

-----------------------------------------------------------------------------
(* The ring under restarts implements RestartedStore.                       *)

\* A step that changes neither the published pair, nor the histories, nor what
\* a caller sees is a stutter of the store.
LEMMA LifeSilent == Silent /\ UNCHANGED <<begun, slips, since>> => UNCHANGED Restarted!restartVars
  BY DEF Silent, Status, Answer, Restarted!restartVars, Restarted!vars

\* Readers know nothing of the writer's restarts.
LEMMA LifeReaderStep ==
    ASSUME NEW r \in Readers, Restarted!ReaderMove(r),
           UNCHANGED <<save_timecode, current_timecode, slips, since>>
    PROVE  Restarted!RestartNext
  BY DEF Restarted!RestartNext

\* put( ) is BeginNext, then PublishNext, and stutters in between.
LEMMA LifeWriterRefines ==
    ASSUME RingTypeOK, PutInv, HistoryInv, Goes, PutBegin \/ PutStep
    PROVE  [Restarted!RestartNext]_(Restarted!restartVars)
<1>1. /\ UNCHANGED <<timecode, slips, since>>
      /\ \A q \in Readers : Status(q)' = Status(q) /\ Answer(q)' = Answer(q)
  BY WriterFrame DEF Status, Answer, getVars, Goes
<1>2. CASE PutBegin
  <2>1. /\ save_timecode = current_timecode /\ save_timecode' = current_timecode + 1
        /\ current_timecode' = current_timecode
        /\ disturbed' = [q \in Readers |-> pc[q] # "idle"]
    BY <1>2 DEF PutBegin, PutInv, Step, ipc
  <2>2. /\ begun' = current_timecode + 1
        /\ save_timecode' # current_timecode'
    BY <2>1, Numbers DEF HistoryInv, Goes
  <2>3. \A q \in Readers : (Status(q) # "idle") = (pc[q] # "idle")
    BY DEF Status
  <2>4. Restarted!BeginNext
    BY <1>1, <2>1, <2>2, <2>3 DEF Restarted!BeginNext, Status, Answer
  <2> QED
    BY <2>4 DEF Restarted!RestartNext
<1>3. CASE PutCurrent
  <2>1. /\ save_timecode = current_timecode + 1 /\ current_timecode' = save_timecode
        /\ save_timecode' = save_timecode /\ disturbed' = disturbed
    BY <1>3, Numbers DEF PutCurrent, PutInv, PutPC, Step, putVars
  <2>2. begun = current_timecode + 1 /\ begun' = begun /\ save_timecode # current_timecode
    BY <2>1, Numbers DEF HistoryInv, Goes
  <2>3. Restarted!Publish
    BY <1>1, <2>1, <2>2 DEF Restarted!Publish, Status, Answer
  <2>4. Restarted!PublishNext
    BY <1>1, <2>1, <2>2, <2>3 DEF Restarted!PublishNext
  <2> QED
    BY <2>4 DEF Restarted!RestartNext
<1>4. CASE PutStep /\ ~PutBegin /\ ~PutCurrent
  <2>1. UNCHANGED <<current_timecode, save_timecode, disturbed>>
    BY <1>4 DEF PutStep, PutLength, PutValid, PutTimecode, PutCopyBegin, PutCopyEnd,
       PutLocked, PutOffset, PutUnlock, ipc, putVars
  <2>2. Silent
    BY <1>1, <2>1 DEF Silent
  <2>3. begun' = begun
    BY <2>1, Numbers DEF HistoryInv, Goes
  <2> QED
    BY <1>1, <2>2, <2>3, LifeSilent
<1> QED
  BY <1>2, <1>3, <1>4

\* The successor of a killed writer drops its put( ), and gives up a record
\* when it was killed between the two stores.
LEMMA ReopenRefines ==
    ASSUME RingTypeOK, PutInv, HistoryInv, Reopen
    PROVE  [Restarted!RestartNext]_(Restarted!restartVars)
<1>1. /\ UNCHANGED <<current_timecode, timecode, size, data, disturbed, begun>>
      /\ save_timecode' = current_timecode
      /\ \A q \in Readers : pc'[q] = pc[q]
      /\ \/ slips' = slips + 1 /\ since' = current_timecode + 1 /\ Slipping
         \/ UNCHANGED <<slips, since>>
  BY ReopenFrame, ProcAssumption DEF Reopen, ipc, getVars
<1>2. \A q \in Readers : Status(q)' = Status(q) /\ Answer(q)' = Answer(q)
  BY <1>1 DEF Status, Answer
<1>3. UNCHANGED Restarted!vars
  BY <1>1, <1>2 DEF Restarted!vars, Status, Answer
<1>4. CASE save_timecode = current_timecode
  <2>1. Silent /\ UNCHANGED <<begun, slips, since>>
    BY <1>1, <1>2, <1>4 DEF Silent, Slipping
  <2> QED
    BY <2>1, LifeSilent
<1>5. CASE save_timecode # current_timecode
  <2>1. Restarted!Restart
    BY <1>1, <1>3, <1>5 DEF Restarted!Restart
  <2> QED
    BY <2>1 DEF Restarted!RestartNext
<1> QED
  BY <1>4, <1>5

\* get( ) is AskWhile, then HitWhole or MissGone, then Done, and stutters in
\* between.
LEMMA LifeReaderRefines ==
    ASSUME RingTypeOK, PutInv, RingPart, Goes,
           NEW r \in Readers, GetBegin(r) \/ GetStep(r),
           LifeGetInvOf(r), LifeQuietInvOf(r)
    PROVE  [Restarted!RestartNext]_(Restarted!restartVars)
<1>1. /\ UNCHANGED <<current_timecode, save_timecode, begun, slips, since>>
      /\ \A q \in Readers \ {r} : Status(q)' = Status(q) /\ Answer(q)' = Answer(q)
      /\ \A t : LifeOverrun(t)' = LifeOverrun(t)
  <2>1. UNCHANGED <<current_timecode, current_offset, ring, save_timecode, save_offset>>
    BY ReaderFrame
  <2>2. Still
    BY <2>1, StillGoes DEF RingPart
  <2> QED
    BY <2>1, <2>2, OthersSilent DEF Still, LifeOverrun
<1>2. ASSUME Restarted!ReaderMove(r) PROVE Restarted!RestartNext
  BY <1>1, <1>2, LifeReaderStep
<1>3. CASE Asks(r)
  <2>1. Restarted!AskWhile(r)
    BY <1>1, <1>3 DEF Asks, Restarted!AskWhile, Status, Answer
  <2> QED
    BY <1>2, <2>1 DEF Restarted!ReaderMove
<1>4. CASE Finds(r)
  <2>1. 0 <= timecode[r] /\ timecode[r] <= current_timecode
    BY <1>4 DEF Finds, LifeGetInvOf, Checked
  <2>2. \/ LifeOverrun(timecode[r])
        \/ timecode[r] = 0 /\ disturbed[r]
        \/ size[r] = timecode[r] /\ data'[r] = timecode[r]
    <3>1. LifeGetInvOf(r)'
      BY ReaderLifeGet
    <3>2. disturbed[r] \in BOOLEAN
      BY DEF RingTypeOK
    <3>3. ~LifeOverrun(timecode[r]) /\ (timecode[r] = 0 => ~disturbed[r]) => LifeSound(r)'
      <4>1. LifeOverrun(timecode[r])' = LifeOverrun(timecode[r])
        BY <1>1, <1>4 DEF Finds, LifeOverrun
      <4> QED
        BY <1>4, <4>1 DEF LifeSound, Finds
    <3> QED
      BY <1>4, <3>1, <3>2, <3>3 DEF LifeGetInvOf, Finds
  <2>3. /\ [q \in Readers |-> Status(q)]' = [[q \in Readers |-> Status(q)] EXCEPT ![r] = "hit"]
        /\ [q \in Readers |-> Answer(q)]'
             = [[q \in Readers |-> Answer(q)] EXCEPT ![r] = <<size[r], data'[r]>>]
        /\ [q \in Readers |-> Status(q)][r] = "busy"
    BY <1>1, <1>4, SeenEntry DEF Finds
  <2>4. \E length, contents \in Contents :
          /\ \/ LifeOverrun(timecode[r])
             \/ timecode[r] = 0 /\ disturbed[r]
             \/ length = timecode[r] /\ contents = timecode[r]
          /\ [q \in Readers |-> Answer(q)]'
               = [[q \in Readers |-> Answer(q)] EXCEPT ![r] = <<length, contents>>]
    BY <1>4, <2>2, <2>3 DEF Finds
  <2>5. Restarted!HitWhole(r)
    BY <1>1, <1>4, <2>1, <2>3, <2>4
       DEF Restarted!HitWhole, Restarted!Reused, LifeOverrun, Finds, Status, Answer
  <2> QED
    BY <1>2, <2>5 DEF Restarted!ReaderMove
<1>5. CASE Misses(r)
  <2>1. LifeHeld(timecode[r]) => disturbed[r]
    BY <1>5 DEF LifeQuietInvOf, Misses
  <2>2. Restarted!MissGone(r)
    BY <1>1, <1>5, <2>1
       DEF Misses, Restarted!MissGone, Restarted!Kept, Restarted!Reused, LifeHeld,
           LifeOverrun, Status, Answer
  <2> QED
    BY <1>2, <2>2 DEF Restarted!ReaderMove
<1>6. CASE Returns(r)
  <2>1. Restarted!Done(r)
    BY <1>1, <1>6 DEF Returns, Restarted!Done, Restarted!NoAnswer, Status, Answer
  <2> QED
    BY <1>2, <2>1 DEF Restarted!ReaderMove
<1>7. CASE Dies(r)
  <2>1. Restarted!Crash(r)
    BY <1>1, <1>7 DEF Dies, Restarted!Crash, Restarted!NoAnswer, Status, Answer
  <2> QED
    BY <1>2, <2>1 DEF Restarted!ReaderMove
<1>8. CASE Works(r)
  <2>1. Silent
    BY <1>1, <1>8 DEF Silent, Works
  <2> QED
    BY <1>1, <2>1, LifeSilent
<1> QED
  BY <1>3, <1>4, <1>5, <1>6, <1>7, <1>8, ReaderSeen

\* The end of a process, and its steps in lock( ).
LEMMA LifeLockRefines ==
    ASSUME RingTypeOK, HistoryInv, PutInv, Goes, NEW p \in Proc, LockStep(p) \/ Kill(p)
    PROVE  [Restarted!RestartNext]_(Restarted!restartVars)
<1>1. UNCHANGED <<current_timecode, save_timecode, begun, slips, since>>
  BY LockSeen, Numbers DEF HistoryInv, Goes
<1>2. CASE Silent
  BY <1>1, <1>2, LifeSilent
<1>3. CASE /\ p \in Readers /\ Dies(p)
           /\ \A q \in Readers \ {p} : Status(q)' = Status(q) /\ Answer(q)' = Answer(q)
  <2>1. Restarted!Crash(p)
    BY <1>1, <1>3 DEF Dies, Restarted!Crash, Restarted!NoAnswer, Status, Answer
  <2>2. Restarted!ReaderMove(p)
    BY <2>1 DEF Restarted!ReaderMove
  <2> QED
    BY <1>1, <1>3, <2>2, LifeReaderStep
<1> QED
  BY <1>2, <1>3, LockSeen

\* Killed and restarted at any instant, the ring keeps the promise of
\* RestartedStore: a get( ) finds the frame asked for or none, and all a restart
\* can cost is one record (mjpeg_ingest.cpp 142, mmap_buffer.cpp 79-92, 167-236).
THEOREM LifeRefinement == LifeSpec => RestartedSpec
<1>1. LifeInit => Restarted!RestartInit
  BY ProcAssumption DEF LifeInit, Init, Restarted!RestartInit, Restarted!Init,
     Restarted!NoAnswer, None
<1>2. LifeInv /\ [LifeNext]_<<vars, lifeVars>> => [Restarted!RestartNext]_(Restarted!restartVars)
  <2> SUFFICES ASSUME LifeInv, [LifeNext]_<<vars, lifeVars>>
               PROVE  [Restarted!RestartNext]_(Restarted!restartVars)
    OBVIOUS
  <2>0. RingTypeOK /\ PutInv /\ HistoryInv /\ RingPart
    BY DEF LifeInv, RingPart
  <2>1. CASE Reopen
    BY <2>0, <2>1, ReopenRefines
  <2>2. CASE Next /\ Goes
    <3>1. CASE PutBegin \/ PutStep
      BY <2>0, <2>2, <3>1, LifeWriterRefines
    <3>2. ASSUME NEW r \in Readers, GetBegin(r) \/ GetStep(r)
          PROVE  [Restarted!RestartNext]_(Restarted!restartVars)
      BY <2>0, <2>2, <3>2, LifeReaderRefines DEF LifeInv, LifeGetInv, LifeQuietInv
    <3>3. ASSUME NEW p \in Proc, LockStep(p) \/ Kill(p)
          PROVE  [Restarted!RestartNext]_(Restarted!restartVars)
      BY <2>0, <2>2, <3>3, LifeLockRefines
    <3> QED
      BY <2>2, <3>1, <3>2, <3>3 DEF Next
  <2>3. CASE UNCHANGED <<vars, lifeVars>>
    BY <2>3 DEF vars, lockVars, lifeVars, ipc, putVars, getVars, Restarted!restartVars,
       Restarted!vars
  <2> QED
    BY <2>1, <2>2, <2>3 DEF LifeNext, Goes
<1> QED
  BY LifeInductive, <1>1, <1>2, PTL DEF LifeSpec, RestartedSpec, Restarted!RestartSpec
=============================================================================
