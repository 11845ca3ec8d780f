-------------------------- MODULE MmapBuffer_proofs --------------------------
(***************************************************************************)
(* Proofs about MmapBuffer, for any number of readers, records and frames. *)
(***************************************************************************)
EXTENDS MmapBuffer, TLAPS

\* A store to one field of one record leaves a ring of records.
LEMMA RingStores ==
    ASSUME NEW f \in [Slot -> Record], NEW s \in Slot,
           NEW t \in Timecode, NEW d \in Contents
    PROVE  /\ [f EXCEPT ![s].length = t] \in [Slot -> Record]
           /\ [f EXCEPT ![s].valid = TRUE] \in [Slot -> Record]
           /\ [f EXCEPT ![s].timecode = t] \in [Slot -> Record]
           /\ [f EXCEPT ![s].data = d] \in [Slot -> Record]
  BY DEF Record

\* The values a local starts from, and a frame number as contents.
LEMMA Defaults ==
    /\ None \in Int /\ None \in Contents /\ None \in Timecode \cup {None}
    /\ Mixed \in Contents
    /\ \A t \in Timecode : t \in Contents /\ t \in Int
  BY DEF None, Mixed, Contents, Timecode

\* Every step preserves the type invariant.
LEMMA RingTypeStep == RingTypeOK /\ [Next]_vars => RingTypeOK'
<1> SUFFICES ASSUME RingTypeOK, [Next]_vars PROVE RingTypeOK'
  OBVIOUS
<1> USE ProcAssumption, NAssumption, RequestsAssumption, MaxTimecodeAssumption,
        FreeAssumption, ThresholdAssumption
<1> USE DEF RingTypeOK, LockPC, PutPC, GetPC, Located,
        Step, Goto, ipc, putVars, getVars
<1>1. CASE PutBegin
  BY <1>1 DEF PutBegin, NextOffset, Timecode, Slot
<1>2. ASSUME PutLength PROVE RingTypeOK'
  <2>1. ring' \in [Slot -> Record]
    BY ONLY <1>2, RingTypeOK, RingStores, Defaults, ProcAssumption DEF PutLength, Step, RingTypeOK
  <2>2. QED
    BY <2>1, <1>2 DEF PutLength
<1>3. ASSUME PutValid PROVE RingTypeOK'
  <2>1. ring' \in [Slot -> Record]
    BY ONLY <1>3, RingTypeOK, RingStores, Defaults, ProcAssumption DEF PutValid, Step, RingTypeOK
  <2>2. QED
    BY <2>1, <1>3 DEF PutValid
<1>4. ASSUME PutTimecode PROVE RingTypeOK'
  <2>1. ring' \in [Slot -> Record]
    BY ONLY <1>4, RingTypeOK, RingStores, Defaults, ProcAssumption DEF PutTimecode, Step, RingTypeOK
  <2>2. QED
    BY <2>1, <1>4 DEF PutTimecode
<1>5. ASSUME PutCopyBegin PROVE RingTypeOK'
  <2>1. ring' \in [Slot -> Record]
    BY ONLY <1>5, RingTypeOK, RingStores, Defaults, ProcAssumption DEF PutCopyBegin, Step, RingTypeOK
  <2>2. QED
    BY <2>1, <1>5 DEF PutCopyBegin
<1>6. ASSUME PutCopyEnd PROVE RingTypeOK'
  <2>1. ring' \in [Slot -> Record]
    BY ONLY <1>6, RingTypeOK, RingStores, Defaults, ProcAssumption DEF PutCopyEnd, Step, RingTypeOK
  <2>2. QED
    BY <2>1, <1>6 DEF PutCopyEnd
<1>7. CASE PutLocked
  BY <1>7 DEF PutLocked, LockReturn
<1>8. CASE PutOffset
  BY <1>8 DEF PutOffset
<1>9. CASE PutCurrent
  BY <1>9 DEF PutCurrent
<1>10. CASE PutUnlock
  BY <1>10 DEF PutUnlock, Unlock
<1>11. ASSUME NEW r \in Readers, GetBegin(r) PROVE RingTypeOK'
  BY <1>11 DEF GetBegin, get_timecode, Timecode
<1>12. ASSUME NEW r \in Readers, GetLocked(r) PROVE RingTypeOK'
  BY <1>12 DEF GetLocked, LockReturn
<1>13. ASSUME NEW r \in Readers, GetCheckNew(r) PROVE RingTypeOK'
  BY <1>13 DEF GetCheckNew
<1>14. ASSUME NEW r \in Readers, GetCheckOld(r) PROVE RingTypeOK'
  BY <1>14 DEF GetCheckOld
<1>15. ASSUME NEW r \in Readers, GetReadOffset(r) PROVE RingTypeOK'
  BY <1>15 DEF GetReadOffset, Slot
<1>16. ASSUME NEW r \in Readers, GetReadTimecode(r) PROVE RingTypeOK'
  BY <1>16 DEF GetReadTimecode, Timecode
<1>17. ASSUME NEW r \in Readers, GetLocate(r) PROVE RingTypeOK'
  <2>1. slot' \in [Readers -> Int]
    BY <1>17 DEF GetLocate, Locate, Slot, Timecode
  <2>2. QED
    BY <2>1, <1>17, Defaults DEF GetLocate
<1>18. ASSUME NEW r \in Readers, GetLength(r) PROVE RingTypeOK'
  BY <1>18 DEF GetLength, Record
<1>19. ASSUME NEW r \in Readers, GetMatch(r) PROVE RingTypeOK'
  BY <1>19 DEF GetMatch
<1>20. ASSUME NEW r \in Readers, GetValid(r) PROVE RingTypeOK'
  BY <1>20 DEF GetValid
<1>21. ASSUME NEW r \in Readers, GetReject(r) PROVE RingTypeOK'
  BY <1>21 DEF GetReject, Unlock
<1>22. ASSUME NEW r \in Readers, GetAccept(r) PROVE RingTypeOK'
  BY <1>22 DEF GetAccept, Unlock
<1>23. ASSUME NEW r \in Readers, GetCopyBegin(r) PROVE RingTypeOK'
  BY <1>23 DEF GetCopyBegin, Record
<1>24. ASSUME NEW r \in Readers, GetCopyEnd(r) PROVE RingTypeOK'
  BY <1>24, Defaults DEF GetCopyEnd
<1>25. ASSUME NEW r \in Readers, GetStray(r) PROVE RingTypeOK'
  BY <1>25, Defaults DEF GetStray
<1>26. ASSUME NEW r \in Readers, GetReturn(r) PROVE RingTypeOK'
  BY <1>26, Defaults DEF GetReturn
<1>27. ASSUME NEW p \in Proc, LockStep(p) PROVE RingTypeOK'
  <2>1. CASE LockSpin(p)
    BY <1>27, <2>1 DEF LockStep, LockSpin
  <2>2. CASE CheckRead(p)
    BY <1>27, <2>2 DEF LockStep, CheckRead
  <2>3. CASE CheckStat(p)
    BY <1>27, <2>3 DEF LockStep, CheckStat
  <2>4. QED
    BY <1>27, <2>1, <2>2, <2>3 DEF LockStep
<1>28. ASSUME NEW p \in Proc, Kill(p) PROVE RingTypeOK'
  BY <1>28 DEF Kill, Die
<1>29. CASE UNCHANGED vars
  BY <1>29 DEF vars, lockVars
<1>30. QED
  BY <1>1, <1>2, <1>3, <1>4, <1>5, <1>6, <1>7, <1>8, <1>9, <1>10, <1>11,
     <1>12, <1>13, <1>14, <1>15, <1>16, <1>17, <1>18, <1>19, <1>20, <1>21,
     <1>22, <1>23, <1>24, <1>25, <1>26, <1>27, <1>28, <1>29 DEF Next,
     PutStep, GetStep

\* So do the lock word and what goes with it.
LEMMA TypeStep == TypeOK /\ [Next]_vars => TypeOK'
<1> SUFFICES ASSUME TypeOK, [Next]_vars PROVE LockTypeOK'
  BY RingTypeStep DEF TypeOK
<1> USE ProcAssumption, FreeAssumption, ThresholdAssumption
<1>1. ASSUME NEW p \in Proc, UNCHANGED holding,
             lock_pid' \in {lock_pid, Free}, spin' \in {spin, [spin EXCEPT ![p] = 0]}
      PROVE  LockTypeOK'
  BY <1>1 DEF TypeOK, LockTypeOK
<1>2. CASE PutBegin \/ PutStep
  BY <1>1, <1>2 DEF PutBegin, PutStep, PutLength, PutValid, PutTimecode, PutCopyBegin,
     PutCopyEnd, PutLocked, PutOffset, PutCurrent, PutUnlock, Step, LockReturn, Unlock
<1>3. ASSUME NEW r \in Readers, GetBegin(r) \/ GetStep(r) PROVE LockTypeOK'
  BY <1>1, <1>3 DEF GetBegin, GetStep, GetLocked, GetCheckNew, GetCheckOld, GetReadOffset,
     GetReadTimecode, GetLocate, GetLength, GetMatch, GetValid, GetReject, GetAccept,
     GetCopyBegin, GetCopyEnd, GetStray, GetReturn, Step, LockReturn, Unlock
<1>4. ASSUME NEW p \in Proc, LockStep(p) PROVE LockTypeOK'
  <2> USE DEF TypeOK, LockTypeOK
  <2>1. CASE LockSpin(p)
    BY <2>1 DEF LockSpin
  <2>2. CASE CheckRead(p)
    BY <2>2 DEF CheckRead
  <2>3. CASE CheckStat(p)
    BY <2>3 DEF CheckStat
  <2>4. QED
    BY <1>4, <2>1, <2>2, <2>3 DEF LockStep
<1>5. ASSUME NEW p \in Proc, Kill(p) PROVE LockTypeOK'
  BY <1>5 DEF Kill, Die, TypeOK, LockTypeOK
<1>6. CASE UNCHANGED vars
  BY <1>6 DEF vars, lockVars, TypeOK, LockTypeOK
<1>7. QED
  BY <1>2, <1>3, <1>4, <1>5, <1>6 DEF Next

-----------------------------------------------------------------------------
(* Who writes what.                                                         *)

\* A reader outside lock( ) and check_lock( ) stores nothing but its own locals
\* (mmap_buffer.cpp 194-236).
LEMMA ReaderFrame ==
    ASSUME RingTypeOK, NEW r \in Readers, GetBegin(r) \/ GetStep(r)
    PROVE  /\ UNCHANGED <<current_timecode, current_offset, ring,
                          save_timecode, save_offset>>
           /\ pc'[Writer] = pc[Writer]
           /\ \A q \in Readers \ {r} :
                /\ pc'[q] = pc[q] /\ timecode'[q] = timecode[q] /\ seen'[q] = seen[q]
                /\ slot'[q] = slot[q] /\ size'[q] = size[q] /\ data'[q] = data[q]
                /\ disturbed'[q] = disturbed[q]
<1> USE ProcAssumption DEF RingTypeOK, ipc, putVars, getVars, Step, Goto
<1>1. CASE GetBegin(r)
  BY <1>1 DEF GetBegin
<1>2. CASE GetLocked(r)
  BY <1>2 DEF GetLocked, LockReturn
<1>3. CASE GetCheckNew(r)
  BY <1>3 DEF GetCheckNew
<1>4. CASE GetCheckOld(r)
  BY <1>4 DEF GetCheckOld
<1>5. CASE GetReadOffset(r)
  BY <1>5 DEF GetReadOffset
<1>6. CASE GetReadTimecode(r)
  BY <1>6 DEF GetReadTimecode
<1>7. CASE GetLocate(r)
  BY <1>7 DEF GetLocate
<1>8. CASE GetLength(r)
  BY <1>8 DEF GetLength
<1>9. CASE GetMatch(r)
  BY <1>9 DEF GetMatch
<1>10. CASE GetValid(r)
  BY <1>10 DEF GetValid
<1>11. CASE GetReject(r)
  BY <1>11 DEF GetReject, Unlock
<1>12. CASE GetAccept(r)
  BY <1>12 DEF GetAccept, Unlock
<1>13. CASE GetCopyBegin(r)
  BY <1>13 DEF GetCopyBegin
<1>14. CASE GetCopyEnd(r)
  BY <1>14 DEF GetCopyEnd
<1>15. CASE GetStray(r)
  BY <1>15 DEF GetStray
<1>16. CASE GetReturn(r)
  BY <1>16 DEF GetReturn
<1>17. QED
  BY <1>1, <1>2, <1>3, <1>4, <1>5, <1>6, <1>7, <1>8, <1>9, <1>10, <1>11,
     <1>12, <1>13, <1>14, <1>15, <1>16 DEF GetStep

\* lock( ) and check_lock( ) store nothing but the lock word and move nobody but
\* the caller (mmap_buffer.cpp 126-161).
LEMMA LockFrame ==
    ASSUME RingTypeOK, NEW p \in Proc, LockStep(p) \/ Kill(p)
    PROVE  /\ UNCHANGED <<ipc, ring, putVars, getVars, disturbed>>
           /\ \A q \in Proc \ {p} : pc'[q] = pc[q]
           /\ pc'[p] = "dead" \/ (pc[p] \in LockPC /\ pc'[p] \in LockPC)
<1> USE DEF RingTypeOK, LockPC, Goto
<1>1. CASE LockStep(p)
  BY <1>1 DEF LockStep, LockSpin, CheckRead, CheckStat
<1>2. CASE Kill(p)
  BY <1>2 DEF Kill, Die
<1>3. QED
  BY <1>1, <1>2

\* put( ) moves no reader; only its beginning marks their calls as disturbed
\* (mmap_buffer.cpp 167-192).
LEMMA WriterFrame ==
    ASSUME RingTypeOK, PutBegin \/ PutStep
    PROVE  /\ UNCHANGED getVars
           /\ \A r \in Readers : pc'[r] = pc[r]
           /\ ~PutBegin => UNCHANGED <<save_timecode, save_offset, disturbed>>
<1> USE ProcAssumption DEF RingTypeOK, Step, Goto, putVars
<1>1. CASE PutBegin
  BY <1>1 DEF PutBegin
<1>2. CASE PutStep
  BY <1>2 DEF PutStep, PutLength, PutValid, PutTimecode, PutCopyBegin, PutCopyEnd,
              PutLocked, PutOffset, PutCurrent, PutUnlock, LockReturn, Unlock
<1>3. QED
  BY <1>1, <1>2

-----------------------------------------------------------------------------
(* The arithmetic of the ring.                                              *)

\* The type invariant as facts about integers.
LEMMA Numbers ==
    ASSUME RingTypeOK
    PROVE  /\ N \in Int /\ N >= 1
           /\ save_timecode \in Int /\ save_timecode >= -1
           /\ current_timecode \in Int /\ current_timecode >= -1
           /\ save_offset \in Int /\ 0 <= save_offset /\ save_offset < N
           /\ current_offset \in Int /\ 0 <= current_offset /\ current_offset < N
  BY NAssumption, MaxTimecodeAssumption DEF RingTypeOK, Slot, Timecode

\* Slot and frame determine each other among the last N frames.
LEMMA PlaceOfFrame ==
    ASSUME RingTypeOK, NEW s \in Slot
    PROVE  /\ save_timecode - N < FrameOf(s) /\ FrameOf(s) <= save_timecode
           /\ Place(FrameOf(s)) = s
           /\ FrameOf(save_offset) = save_timecode
           /\ FrameOf(s) = save_timecode => s = save_offset
  BY Numbers DEF Slot, FrameOf, Place, Locate

\* The last N frames have a slot each, the latest one the writer's own.
LEMMA FrameOfPlace ==
    ASSUME RingTypeOK, NEW t \in Int, save_timecode - N < t, t <= save_timecode
    PROVE  /\ Place(t) \in Slot
           /\ FrameOf(Place(t)) = t
           /\ t = save_timecode <=> Place(t) = save_offset
  BY Numbers DEF Slot, FrameOf, Place, Locate

\* Starting a new frame moves no other frame.
LEMMA Advance ==
    ASSUME RingTypeOK, PutInv, PutBegin
    PROVE  /\ save_timecode' = save_timecode + 1
           /\ FrameOf(save_offset') = save_timecode' - N
           /\ \A s \in Slot : s # save_offset' => FrameOf(s)' = FrameOf(s)
           /\ \A t \in Int : t <= save_timecode /\ save_timecode' - N < t
                               => Place(t)' = Place(t)
<1>1. /\ save_timecode' = save_timecode + 1
      /\ save_offset' = IF save_offset + 1 > N - 1 THEN 0 ELSE save_offset + 1
  BY DEF PutBegin, PutInv, Step, NextOffset
<1>2. FrameOf(save_offset') = save_timecode' - N
  BY <1>1, Numbers DEF FrameOf
<1>3. \A s \in Slot : s # save_offset' => FrameOf(s)' = FrameOf(s)
  BY <1>1, Numbers DEF FrameOf, Slot
<1>4. \A t \in Int : t <= save_timecode /\ save_timecode' - N < t
                       => Place(t)' = Place(t)
  BY <1>1, Numbers DEF Place, Locate
<1>5. QED
  BY <1>1, <1>2, <1>3, <1>4

-----------------------------------------------------------------------------
\* The two halves of the published pair.
LEMMA PutInvStep == RingTypeOK /\ PutInv /\ [Next]_vars => PutInv'
<1> SUFFICES ASSUME RingTypeOK, PutInv, [Next]_vars PROVE PutInv'
  OBVIOUS
<1> USE ProcAssumption DEF LockPC, PutPC
<1>1. ASSUME PutBegin PROVE PutInv'
  BY <1>1, Numbers DEF RingTypeOK, PutInv, PutBegin, Step, Goto, ipc
<1>2. ASSUME PutStep PROVE PutInv'
  <2> USE DEF RingTypeOK, PutInv, ipc, putVars, Step, Goto
  <2>1. CASE PutLength \/ PutValid \/ PutTimecode \/ PutCopyBegin \/ PutCopyEnd
    BY <2>1 DEF PutLength, PutValid, PutTimecode, PutCopyBegin, PutCopyEnd
  <2>2. CASE PutLocked \/ PutUnlock
    BY <2>2 DEF PutLocked, PutUnlock, LockReturn, Unlock
  <2>3. CASE PutOffset
    BY <2>3, Numbers DEF PutOffset
  <2>4. CASE PutCurrent
    BY <2>4, Numbers DEF PutCurrent
  <2>5. QED
    BY <1>2, <2>1, <2>2, <2>3, <2>4 DEF PutStep
<1>3. ASSUME NEW r \in Readers, GetBegin(r) \/ GetStep(r) PROVE PutInv'
  BY <1>3, ReaderFrame DEF PutInv, NextOffset
<1>4. ASSUME NEW p \in Proc, LockStep(p) \/ Kill(p) PROVE PutInv'
  BY <1>4, LockFrame DEF PutInv, NextOffset, ipc, putVars
<1>5. CASE UNCHANGED vars
  BY <1>5 DEF PutInv, vars, lockVars, ipc, putVars, NextOffset
<1>6. QED
  BY <1>1, <1>2, <1>3, <1>4, <1>5 DEF Next

\* A store to one field of the record at s touches no other record and no
\* other field.
LEMMA RingFields ==
    ASSUME NEW f \in [Slot -> Record], NEW s \in Slot, NEW v
    PROVE  /\ \A q \in Slot \ {s} :
                /\ [f EXCEPT ![s].length = v][q] = f[q]
                /\ [f EXCEPT ![s].valid = v][q] = f[q]
                /\ [f EXCEPT ![s].timecode = v][q] = f[q]
                /\ [f EXCEPT ![s].data = v][q] = f[q]
           /\ [f EXCEPT ![s].length = v][s] = [f[s] EXCEPT !.length = v]
           /\ [f EXCEPT ![s].valid = v][s] = [f[s] EXCEPT !.valid = v]
           /\ [f EXCEPT ![s].timecode = v][s] = [f[s] EXCEPT !.timecode = v]
           /\ [f EXCEPT ![s].data = v][s] = [f[s] EXCEPT !.data = v]
  OBVIOUS

\* A store to one field of a record leaves the others as they were.
LEMMA RecordFields ==
    ASSUME NEW rec \in Record, NEW v
    PROVE  LET a == [rec EXCEPT !.length = v]
               b == [rec EXCEPT !.valid = v]
               c == [rec EXCEPT !.timecode = v]
               d == [rec EXCEPT !.data = v]
           IN  /\ a.length = v /\ a.valid = rec.valid /\ a.timecode = rec.timecode
               /\ b.length = rec.length /\ b.valid = v /\ b.timecode = rec.timecode
               /\ c.length = rec.length /\ c.valid = rec.valid /\ c.timecode = v
               /\ d.length = rec.length /\ d.valid = rec.valid /\ d.timecode = rec.timecode
               /\ rec.length = v /\ rec.valid /\ rec.timecode = v => d = FrameRecord(v)
<1>1. rec = [length |-> rec.length, timecode |-> rec.timecode,
             valid |-> rec.valid, data |-> rec.data]
  BY DEF Record
<1>2. rec.valid \in BOOLEAN
  BY DEF Record
<1>3. [rec EXCEPT !.data = v] = [length |-> rec.length, timecode |-> rec.timecode,
                                 valid |-> rec.valid, data |-> v]
  BY <1>1
<1>4. QED
  BY <1>1, <1>2, <1>3 DEF FrameRecord

\* Only the record the writer is at is ever incomplete.
LEMMA RingInvStep == RingTypeOK /\ PutInv /\ RingInv /\ [Next]_vars => RingInv'
<1> SUFFICES ASSUME RingTypeOK, PutInv, RingInv, [Next]_vars PROVE RingInv'
  OBVIOUS
<1>t. RingTypeOK'
  BY RingTypeStep
<1>1. ASSUME PutBegin PROVE RingInv'
  <2>1. /\ ring' = ring /\ pc[Writer] = "idle" /\ pc'[Writer] = "length"
        /\ save_offset \in Slot /\ save_offset' \in Slot
        /\ current_timecode' # save_timecode'
    BY <1>1, <1>t, Numbers, ProcAssumption DEF PutBegin, Step, Goto, RingTypeOK, PutInv, ipc
  <2>2. ring[save_offset] = Filled(save_timecode)
    BY <2>1 DEF RingInv
  <2>3. \A s \in Slot : ring[s] = Filled(FrameOf(s))
    BY <2>1, <2>2, PlaceOfFrame DEF RingInv
  <2>4. \A s \in Slot \ {save_offset'} : ring'[s] = Filled(FrameOf(s)')
    BY <1>1, <2>1, <2>3, Advance
  <2>5. ring'[save_offset'] = Filled(save_timecode' - N)
    BY <1>1, <2>1, <2>3, Advance
  <2>6. \A t : Filled(t)' = Filled(t)
    BY DEF Filled, BlankRecord, FrameRecord
  <2>7. QED
    BY <2>1, <2>4, <2>5, <2>6 DEF RingInv, LockPC
<1>2. ASSUME PutStep PROVE RingInv'
  <2>0. /\ save_offset' = save_offset /\ save_timecode' = save_timecode
        /\ save_offset \in Slot /\ ring \in [Slot -> Record] /\ ring[save_offset] \in Record
        /\ \A s : FrameOf(s)' = FrameOf(s)
        /\ \A t : Filled(t)' = Filled(t)
    <3>1. ~PutBegin
      BY <1>2, ProcAssumption DEF PutStep, PutBegin, PutLength, PutValid, PutTimecode, PutCopyBegin,
         PutCopyEnd, PutLocked, PutOffset, PutCurrent, PutUnlock, Step, LockReturn, Unlock
    <3>2. /\ save_offset' = save_offset /\ save_timecode' = save_timecode
          /\ save_offset \in Slot /\ ring \in [Slot -> Record]
      BY <1>2, <3>1, WriterFrame DEF RingTypeOK
    <3>3. QED
      BY <3>2 DEF FrameOf, Filled, BlankRecord, FrameRecord
  <2>1. CASE PutLength
    <3>1. /\ pc[Writer] = "length" /\ pc'[Writer] = "valid"
          /\ ring' = [ring EXCEPT ![save_offset].length = save_timecode]
          /\ current_timecode' = current_timecode
      BY <2>1, ProcAssumption DEF PutLength, Step, Goto, RingTypeOK, ipc
    <3>2. current_timecode # save_timecode
      BY <3>1, Numbers DEF PutInv, LockPC, PutPC
    <3>3. QED
      BY <2>0, <3>1, <3>2, RingFields, RecordFields DEF RingInv, LockPC
  <2>2. CASE PutValid
    <3>1. /\ pc[Writer] = "valid" /\ pc'[Writer] = "timecode"
          /\ ring' = [ring EXCEPT ![save_offset].valid = TRUE]
          /\ current_timecode' = current_timecode
      BY <2>2, ProcAssumption DEF PutValid, Step, Goto, RingTypeOK, ipc
    <3>2. current_timecode # save_timecode
      BY <3>1, Numbers DEF PutInv, LockPC, PutPC
    <3>3. QED
      BY <2>0, <3>1, <3>2, RingFields, RecordFields DEF RingInv, LockPC
  <2>3. CASE PutTimecode
    <3>1. /\ pc[Writer] = "timecode" /\ pc'[Writer] = "memcpy"
          /\ ring' = [ring EXCEPT ![save_offset].timecode = save_timecode]
          /\ current_timecode' = current_timecode
      BY <2>3, ProcAssumption DEF PutTimecode, Step, Goto, RingTypeOK, ipc
    <3>2. current_timecode # save_timecode
      BY <3>1, Numbers DEF PutInv, LockPC, PutPC
    <3>3. QED
      BY <2>0, <3>1, <3>2, RingFields, RecordFields DEF RingInv, LockPC
  <2>4. CASE PutCopyBegin
    <3>1. /\ pc[Writer] = "memcpy" /\ pc'[Writer] = "memcpying"
          /\ ring' = [ring EXCEPT ![save_offset].data = Mixed]
          /\ current_timecode' = current_timecode
      BY <2>4, ProcAssumption DEF PutCopyBegin, Step, Goto, RingTypeOK, ipc
    <3>2. current_timecode # save_timecode
      BY <3>1, Numbers DEF PutInv, LockPC, PutPC
    <3>3. QED
      BY <2>0, <3>1, <3>2, RingFields, RecordFields DEF RingInv, LockPC
  <2>5. CASE PutCopyEnd
    <3>1. /\ pc[Writer] = "memcpying" /\ pc'[Writer] = "lock"
          /\ ring' = [ring EXCEPT ![save_offset].data = save_timecode]
          /\ save_timecode # -1
      BY <2>5, ProcAssumption DEF PutCopyEnd, Step, Goto, RingTypeOK
    <3>2. Filled(save_timecode) = FrameRecord(save_timecode)
      BY <3>1, Numbers DEF Filled
    <3>3. ring'[save_offset] = FrameRecord(save_timecode)
      BY <2>0, <3>1, RingFields, RecordFields DEF RingInv
    <3>4. ring'[save_offset].timecode = save_timecode
      BY <3>3 DEF FrameRecord
    <3>5. QED
      BY <2>0, <3>1, <3>2, <3>3, <3>4, RingFields DEF RingInv, LockPC
  <2>6. CASE PutLocked \/ PutOffset \/ PutCurrent \/ PutUnlock
    <3>1. /\ ring' = ring
          /\ pc[Writer] \in {"lock", "offset", "current", "unlock"}
          /\ pc'[Writer] \in {"offset", "current", "unlock", "idle"}
      BY <2>6, ProcAssumption DEF PutLocked, PutOffset, PutCurrent, PutUnlock, LockReturn, Unlock, Step,
         Goto, RingTypeOK
    <3>2. QED
      BY <2>0, <3>1 DEF RingInv, LockPC
  <2>7. QED
    BY <1>2, <2>1, <2>2, <2>3, <2>4, <2>5, <2>6 DEF PutStep
<1>3. ASSUME UNCHANGED <<current_timecode, current_offset, ring, save_timecode, save_offset>>,
             \/ pc'[Writer] = pc[Writer]
             \/ pc'[Writer] = "dead"
             \/ pc[Writer] \in LockPC /\ pc'[Writer] \in LockPC
      PROVE  RingInv'
  BY <1>3 DEF RingInv, FrameOf, Filled, BlankRecord, FrameRecord, LockPC
<1>4. ASSUME NEW r \in Readers, GetBegin(r) \/ GetStep(r) PROVE RingInv'
  BY <1>3, <1>4, ReaderFrame
<1>5. ASSUME NEW p \in Proc, LockStep(p) \/ Kill(p) PROVE RingInv'
  BY <1>3, <1>5, LockFrame, ProcAssumption DEF ipc, putVars
<1>6. CASE UNCHANGED vars
  BY <1>3, <1>6 DEF vars, lockVars, ipc, putVars
<1>7. QED
  BY <1>1, <1>2, <1>4, <1>5, <1>6 DEF Next

-----------------------------------------------------------------------------
(* What get( ) finds.                                                       *)

\* A frame the store holds is complete, in its place.
LEMMA HeldRecord ==
    ASSUME RingTypeOK, PutInv, RingInv, NEW t \in Int, Held(t)
    PROVE  Place(t) \in Slot /\ ring[Place(t)] = FrameRecord(t)
<1>1. save_timecode - N < t /\ t <= save_timecode
  BY Numbers DEF Held, Overrun, PutInv
<1>2. Filled(t) = FrameRecord(t)
  BY DEF Held, Filled
<1>3. CASE t = save_timecode
  <2>1. current_timecode = save_timecode
    BY <1>3, Numbers DEF Held, PutInv
  <2>2. QED
    BY <1>1, <1>2, <1>3, <2>1, FrameOfPlace DEF RingInv
<1>4. CASE t # save_timecode
  BY <1>1, <1>2, <1>4, FrameOfPlace DEF RingInv
<1>5. QED
  BY <1>3, <1>4

\* A record that carries the timecode of a frame not yet recycled is in that
\* frame's place, whatever pair of readings led there.
LEMMA MatchPlace ==
    ASSUME RingTypeOK, PutInv, RingInv, NEW s \in Slot, NEW t \in Int,
           1 <= t, t <= current_timecode, ~Overrun(t), ring[s].timecode = t
    PROVE  s = Place(t)
<1>1. save_timecode - N < t /\ t <= save_timecode
  BY Numbers DEF Overrun, PutInv
<1>2. \A k \in Int : Filled(k).timecode = IF k < 0 THEN 0 ELSE k
  BY DEF Filled, BlankRecord, FrameRecord
<1>3. CASE s # save_offset
  <2>1. FrameOf(s) \in Int
    BY Numbers DEF FrameOf, Slot
  <2>2. FrameOf(s) = t
    BY <1>2, <1>3, <2>1 DEF RingInv
  <2>3. QED
    BY <2>2, PlaceOfFrame
<1>4. CASE s = save_offset
  <2>1. t \in {Filled(save_timecode - N).timecode, save_timecode}
    BY <1>4 DEF RingInv
  <2>2. t = save_timecode
    BY <1>1, <1>2, <2>1, Numbers
  <2>3. QED
    BY <1>1, <1>4, <2>2, FrameOfPlace
<1>5. QED
  BY <1>3, <1>4

\* The address computed from one reading of each half stays in the ring unless
\* the frame has been recycled meanwhile.
LEMMA LocateInRing ==
    ASSUME RingTypeOK, PutInv, NEW offset \in Slot, NEW current \in Int, NEW t \in Int,
           t <= current, current <= current_timecode, ~Overrun(t)
    PROVE  Locate(offset, current, t) \in Slot
<1>1. current - t < N
  BY Numbers DEF Overrun, PutInv
<1>2. QED
  BY <1>1, Numbers DEF Locate, Slot

\* The readers' view after a step of the writer.
LEMMA WriterGetInv ==
    ASSUME RingTypeOK, PutInv, GetInv, PutBegin \/ PutStep, NEW r \in Readers
    PROVE  GetInvOf(r)'
<1>0. /\ UNCHANGED getVars /\ pc'[r] = pc[r] /\ GetInvOf(r)
      /\ timecode[r] \in Int /\ seen[r] \in Int
  BY WriterFrame DEF GetInv, RingTypeOK
<1> USE DEF getVars
<1>1. CASE PutBegin
  <2>1. /\ save_timecode' = save_timecode + 1 /\ current_timecode' = current_timecode
        /\ disturbed'[r] = (pc[r] # "idle")
    BY <1>1, Advance DEF PutBegin, ipc
  <2>2. ~Overrun(timecode[r])' => ~Overrun(timecode[r])
    BY <1>0, <2>1, Numbers DEF Overrun
  <2>3. pc[r] # "idle" /\ Sound(r)' => Sound(r)
    BY <1>0, <2>1, <2>2 DEF Sound
  <2>4. pc[r] \in Checked /\ ~Overrun(timecode[r])'
          => Place(timecode[r])' = Place(timecode[r])
    <3>1. SUFFICES ASSUME pc[r] \in Checked, ~Overrun(timecode[r])'
                   PROVE  Place(timecode[r])' = Place(timecode[r])
      OBVIOUS
    <3>2. timecode[r] <= current_timecode
      BY <1>0, <3>1 DEF GetInvOf
    <3>3. timecode[r] <= save_timecode /\ save_timecode' - N < timecode[r]
      BY <1>0, <2>1, <3>1, <3>2, Numbers DEF Overrun, PutInv
    <3>4. timecode'[r] = timecode[r]
      BY <1>0
    <3>5. Locate(save_offset', save_timecode', timecode[r])
            = Locate(save_offset, save_timecode, timecode[r])
      BY <1>0, <1>1, <3>3, Advance DEF Place
    <3>6. QED
      BY <3>4, <3>5 DEF Place
  <2>5. Sound(r)' => ~Overrun(timecode[r])'
    BY DEF Sound
  <2>6. QED
    BY <1>0, <2>1, <2>2, <2>3, <2>4, <2>5 DEF GetInvOf, Checked, Located, Matched, Slot
<1>2. CASE PutStep /\ ~PutBegin
  <2>1. UNCHANGED <<save_timecode, save_offset, disturbed>>
    BY <1>2, WriterFrame
  <2>2. current_timecode' \in Int /\ current_timecode <= current_timecode'
    BY <1>2, Numbers DEF PutStep, PutLength, PutValid, PutTimecode, PutCopyBegin,
       PutCopyEnd, PutLocked, PutOffset, PutCurrent, PutUnlock, ipc, PutInv
  <2>3. QED
    BY <1>0, <2>1, <2>2, Numbers
       DEF GetInvOf, Checked, Located, Matched, Slot, Sound, Overrun, Place, Locate
<1>3. QED
  BY <1>1, <1>2

\* The reader's own steps.
LEMMA ReaderGetInv ==
    ASSUME RingTypeOK, PutInv, RingInv, GetInv, QuietInv,
           NEW r \in Readers, GetBegin(r) \/ GetStep(r)
    PROVE  GetInvOf(r)'
<1>0. /\ UNCHANGED <<current_timecode, current_offset, ring, save_timecode, save_offset>>
      /\ GetInvOf(r) /\ QuietInvOf(r)
      /\ timecode[r] \in Int /\ seen[r] \in Int /\ slot[r] \in Int
  BY ReaderFrame DEF GetInv, QuietInv, RingTypeOK
<1>1. CASE GetBegin(r) \/ GetLocked(r) \/ GetReject(r) \/ GetReturn(r)
  <2>1. pc'[r] \in {"lock", "new", "miss", "idle"}
    BY <1>1, ProcAssumption DEF GetBegin, GetLocked, GetReject, GetReturn, Step, LockReturn,
       Unlock, Goto, RingTypeOK
  <2>2. QED
    BY <2>1 DEF GetInvOf, Checked, Located, Matched
<1>2. CASE GetCheckNew(r)
  <2>1. /\ pc'[r] \in {"reject", "old"} /\ timecode' = timecode
        /\ pc'[r] = "old" => timecode[r] <= current_timecode
    BY <1>0, <1>2, Numbers, ProcAssumption DEF GetCheckNew, Step, Goto, RingTypeOK, getVars
  <2>2. QED
    BY <1>0, <2>1 DEF GetInvOf, Checked, Located, Matched
<1>3. CASE GetCheckOld(r)
  <2>1. /\ pc[r] = "old" /\ pc'[r] \in {"reject", "addr"} /\ timecode' = timecode
        /\ pc'[r] = "addr" => 0 <= timecode[r]
    BY <1>0, <1>3, Numbers, ProcAssumption DEF GetCheckOld, Step, Goto, RingTypeOK, getVars
  <2>2. QED
    BY <1>0, <2>1 DEF GetInvOf, Checked, Located, Matched
<1>4. CASE GetReadOffset(r)
  <2>1. /\ pc[r] = "addr" /\ pc'[r] = "offset_read" /\ timecode' = timecode
        /\ seen'[r] \in Slot
    BY <1>4, ProcAssumption DEF GetReadOffset, Step, Goto, RingTypeOK
  <2>2. QED
    BY <1>0, <2>1 DEF GetInvOf, Checked, Located, Matched, Slot
<1>5. CASE GetReadTimecode(r)
  <2>1. /\ pc[r] = "addr" /\ pc'[r] = "timecode_read" /\ timecode' = timecode
        /\ seen'[r] = current_timecode
    BY <1>5, ProcAssumption DEF GetReadTimecode, Step, Goto, RingTypeOK
  <2>2. QED
    BY <1>0, <2>1, Numbers DEF GetInvOf, Checked, Located, Matched
<1>6. CASE GetLocate(r)
  <2>1. /\ pc'[r] = "length" /\ timecode' = timecode
        /\ pc[r] \in {"offset_read", "timecode_read"}
    BY <1>6, ProcAssumption DEF GetLocate, Step, Goto, RingTypeOK
  <2>2. ~Overrun(timecode[r]) => slot'[r] \in Slot
    <3>1. CASE pc[r] = "offset_read"
      <4>1. slot'[r] = Locate(seen[r], current_timecode, timecode[r])
        BY <1>6, <3>1 DEF GetLocate, Step, RingTypeOK
      <4>2. QED
        BY <1>0, <3>1, <4>1, LocateInRing, Numbers DEF GetInvOf, Checked
    <3>2. CASE pc[r] = "timecode_read"
      <4>1. slot'[r] = Locate(current_offset, seen[r], timecode[r])
        BY <1>6, <3>2 DEF GetLocate, Step, RingTypeOK
      <4>2. current_offset \in Slot
        BY DEF RingTypeOK
      <4>3. QED
        BY <1>0, <3>2, <4>1, <4>2, LocateInRing DEF GetInvOf
    <3>3. QED
      BY <2>1, <3>1, <3>2
  <2>3. QED
    BY <1>0, <2>1, <2>2 DEF GetInvOf, Checked, Located, Matched, Overrun, Slot
<1>7. CASE GetLength(r)
  <2>1. /\ pc[r] = "length" /\ pc'[r] = "match"
        /\ timecode' = timecode /\ slot' = slot /\ disturbed' = disturbed
        /\ size'[r] = ring[slot[r]].length
    BY <1>7, ProcAssumption DEF GetLength, Step, Goto, RingTypeOK
  <2>2. Sound(r) /\ slot[r] = Place(timecode[r]) => ring[slot[r]] = FrameRecord(timecode[r])
    BY <1>0, <2>1, HeldRecord DEF GetInvOf, Checked, Sound, Held
  <2>3. QED
    BY <1>0, <2>1, <2>2
       DEF GetInvOf, Checked, Located, Matched, Sound, Overrun, Place, Locate, FrameRecord
<1>8. CASE GetMatch(r)
  <2>1. /\ pc[r] = "match" /\ slot[r] \in Slot
        /\ pc'[r] = "reject" \/ (pc'[r] = "valid" /\ ring[slot[r]].timecode = timecode[r])
        /\ timecode' = timecode /\ slot' = slot /\ size' = size /\ disturbed' = disturbed
    BY <1>8, ProcAssumption DEF GetMatch, Step, Goto, RingTypeOK, getVars, Located
  <2>2. Sound(r) /\ ring[slot[r]].timecode = timecode[r] => slot[r] = Place(timecode[r])
    <3>1. CASE timecode[r] = 0
      BY <2>1, <3>1, <1>0 DEF QuietInvOf, Sound, Located
    <3>2. CASE timecode[r] # 0
      BY <2>1, <3>2, <1>0, MatchPlace DEF GetInvOf, Checked, Sound
    <3>3. QED
      BY <3>1, <3>2
  <2>3. QED
    BY <1>0, <2>1, <2>2 DEF GetInvOf, Checked, Located, Matched, Sound, Overrun, Place, Locate
<1>9. CASE GetValid(r) \/ GetAccept(r)
  <2>1. /\ pc[r] \in {"valid", "accept"} /\ pc'[r] \in {"reject", "accept", "memcpy"}
        /\ UNCHANGED getVars /\ disturbed' = disturbed
    BY <1>9, ProcAssumption DEF GetValid, GetAccept, Step, Unlock, Goto, RingTypeOK
  <2>2. QED
    BY <1>0, <2>1
       DEF GetInvOf, Checked, Located, Matched, Sound, Overrun, Place, Locate, getVars
<1>10. CASE GetCopyBegin(r)
  <2>1. /\ pc[r] = "memcpy" /\ pc'[r] = "memcpying"
        /\ timecode' = timecode /\ slot' = slot /\ size' = size /\ disturbed' = disturbed
        /\ data'[r] = ring[slot[r]].data
    BY <1>10, ProcAssumption DEF GetCopyBegin, Step, Goto, RingTypeOK
  <2>2. Sound(r) => slot[r] = Place(timecode[r]) /\ ring[slot[r]] = FrameRecord(timecode[r])
    BY <1>0, <2>1, HeldRecord DEF GetInvOf, Checked, Located, Matched, Sound, Held
  <2>3. QED
    BY <1>0, <2>1, <2>2
       DEF GetInvOf, Checked, Located, Matched, Sound, Overrun, Place, Locate, FrameRecord
<1>11. CASE GetCopyEnd(r)
  <2>1. /\ pc[r] = "memcpying" /\ pc'[r] = "hit"
        /\ timecode' = timecode /\ slot' = slot /\ size' = size /\ disturbed' = disturbed
        /\ data[r] = ring[slot[r]].data => data'[r] = data[r]
    BY <1>11, ProcAssumption DEF GetCopyEnd, Step, Goto, RingTypeOK
  <2>2. Sound(r) => slot[r] = Place(timecode[r]) /\ ring[slot[r]] = FrameRecord(timecode[r])
    BY <1>0, <2>1, HeldRecord DEF GetInvOf, Checked, Located, Matched, Sound, Held
  <2>3. QED
    BY <1>0, <2>1, <2>2
       DEF GetInvOf, Checked, Located, Matched, Sound, Overrun, Place, Locate, FrameRecord
<1>12. CASE GetStray(r)
  <2>1. /\ pc[r] = "length" /\ pc'[r] \in {"reject", "hit", "dead"} /\ slot[r] \notin Slot
        /\ timecode' = timecode
    BY <1>12, ProcAssumption DEF GetStray, Step, Goto, RingTypeOK
  <2>2. QED
    BY <1>0, <2>1 DEF GetInvOf, Checked, Located, Matched, Sound, Overrun
<1>13. QED
  BY <1>1, <1>2, <1>3, <1>4, <1>5, <1>6, <1>7, <1>8, <1>9, <1>10, <1>11, <1>12 DEF GetStep

\* What a get( ) knows at each point stays true, whoever moves.
LEMMA GetInvStep == IInv /\ [Next]_vars => GetInv'
<1> SUFFICES ASSUME IInv, [Next]_vars, NEW r \in Readers PROVE GetInvOf(r)'
  BY DEF GetInv
<1>0. RingTypeOK /\ PutInv /\ RingInv /\ GetInv /\ QuietInv /\ GetInvOf(r)
  BY DEF IInv, TypeOK, GetInv
<1>1. CASE PutBegin \/ PutStep
  BY <1>0, <1>1, WriterGetInv
<1>2. ASSUME NEW q \in Readers, GetBegin(q) \/ GetStep(q) PROVE GetInvOf(r)'
  <2>1. CASE q = r
    BY <1>0, <1>2, <2>1, ReaderGetInv
  <2>2. CASE q # r
    BY <1>0, <1>2, <2>2, ReaderFrame
       DEF GetInvOf, Checked, Located, Matched, Sound, Overrun, Place, Locate, Slot
  <2>3. QED
    BY <2>1, <2>2
<1>3. ASSUME NEW p \in Proc, LockStep(p) \/ Kill(p) PROVE GetInvOf(r)'
  <2>1. pc'[r] = pc[r] \/ pc'[r] \in LockPC \cup {"dead"}
    BY <1>0, <1>3, LockFrame, ProcAssumption
  <2>2. UNCHANGED <<ipc, ring, putVars, getVars, disturbed>>
    BY <1>0, <1>3, LockFrame
  <2>3. QED
    BY <1>0, <2>1, <2>2 DEF ipc, putVars, getVars, LockPC,
       GetInvOf, Checked, Located, Matched, Sound, Overrun, Place, Locate, Slot
<1>4. CASE UNCHANGED vars
  BY <1>0, <1>4 DEF vars, lockVars, ipc, putVars, getVars,
     GetInvOf, Checked, Located, Matched, Sound, Overrun, Place, Locate, Slot
<1>5. QED
  BY <1>1, <1>2, <1>3, <1>4 DEF Next

\* The reader's own steps, as long as no put( ) has overlapped the call.
LEMMA ReaderQuietInv ==
    ASSUME RingTypeOK, PutInv, RingInv, GetInv, QuietInv,
           NEW r \in Readers, GetBegin(r) \/ GetStep(r)
    PROVE  QuietInvOf(r)'
<1>0. /\ UNCHANGED <<current_timecode, current_offset, ring, save_timecode, save_offset>>
      /\ GetInvOf(r) /\ QuietInvOf(r)
      /\ timecode[r] \in Int /\ disturbed[r] \in BOOLEAN
  BY ReaderFrame DEF GetInv, QuietInv, RingTypeOK
<1>h. Held(timecode[r]) => Place(timecode[r]) \in Slot
                           /\ ring[Place(timecode[r])] = FrameRecord(timecode[r])
  BY <1>0, HeldRecord
<1> USE DEF Held, Overrun, Place, Locate
<1>1. CASE GetBegin(r)
  <2>1. pc'[r] = "lock" /\ disturbed'[r] = (save_timecode # current_timecode)
    BY <1>1, ProcAssumption DEF GetBegin, Step, Goto, RingTypeOK
  <2>2. QED
    BY <1>0, <2>1 DEF QuietInvOf, Located
<1>2. CASE GetReturn(r)
  <2>1. pc'[r] = "idle"
    BY <1>2, ProcAssumption DEF GetReturn, Step, Goto, RingTypeOK
  <2>2. QED
    BY <1>0, <2>1 DEF QuietInvOf, Located, Calling
<1>3. CASE GetLocked(r) \/ GetAccept(r) \/ GetReject(r)
  <2>1. /\ pc[r] \in {"lock", "accept", "reject"}
        /\ pc[r] = "lock" => pc'[r] = "new"
        /\ pc[r] = "accept" => pc'[r] = "memcpy"
        /\ pc[r] = "reject" => pc'[r] = "miss"
        /\ UNCHANGED <<getVars, disturbed>>
    BY <1>3, ProcAssumption DEF GetLocked, GetAccept, GetReject, LockReturn, Unlock, Goto, RingTypeOK
  <2>2. QED
    BY <1>0, <2>1 DEF QuietInvOf, Located, Calling, getVars
<1>4. CASE GetCheckNew(r)
  <2>1. /\ pc[r] = "new" /\ pc'[r] \in {"reject", "old"} /\ UNCHANGED <<getVars, disturbed>>
        /\ pc'[r] = "reject" => current_timecode < timecode[r]
    BY <1>0, <1>4, Numbers, ProcAssumption DEF GetCheckNew, Step, Goto, RingTypeOK
  <2>2. QED
    BY <1>0, <2>1, Numbers DEF QuietInvOf, Located, Calling, getVars
<1>5. CASE GetCheckOld(r)
  <2>1. /\ pc[r] = "old" /\ pc'[r] \in {"reject", "addr"} /\ UNCHANGED <<getVars, disturbed>>
        /\ pc'[r] = "reject" => current_timecode - N > timecode[r] \/ timecode[r] < 0
    BY <1>0, <1>5, Numbers, ProcAssumption DEF GetCheckOld, Step, Goto, RingTypeOK
  <2>2. QED
    BY <1>0, <2>1, Numbers DEF QuietInvOf, Located, Calling, getVars, PutInv
<1>6. CASE GetReadOffset(r) \/ GetReadTimecode(r)
  <2>1. /\ pc[r] = "addr" /\ timecode' = timecode /\ disturbed' = disturbed
        /\ \/ pc'[r] = "offset_read" /\ seen'[r] = current_offset
           \/ pc'[r] = "timecode_read" /\ seen'[r] = current_timecode
    BY <1>6, ProcAssumption DEF GetReadOffset, GetReadTimecode, Step, Goto, RingTypeOK
  <2>2. QED
    BY <1>0, <2>1 DEF QuietInvOf, Located, Calling
<1>7. CASE GetLocate(r)
  <2>1. /\ pc'[r] = "length" /\ timecode' = timecode /\ disturbed' = disturbed
        /\ \/ pc[r] = "offset_read"
              /\ slot'[r] = Locate(seen[r], current_timecode, timecode[r])
           \/ pc[r] = "timecode_read"
              /\ slot'[r] = Locate(current_offset, seen[r], timecode[r])
    BY <1>7, ProcAssumption DEF GetLocate, Step, Goto, RingTypeOK
  <2>2. ~disturbed[r] => /\ current_timecode = save_timecode
                         /\ current_offset = save_offset
                         /\ slot'[r] = Place(timecode[r])
    BY <1>0, <2>1 DEF QuietInvOf, Calling, PutInv
  <2>3. QED
    BY <1>0, <2>1, <2>2 DEF QuietInvOf, Located, Calling
<1>8. CASE GetLength(r) \/ GetCopyBegin(r) \/ GetCopyEnd(r)
  <2>1. /\ pc[r] \in {"length", "memcpy", "memcpying"}
        /\ pc'[r] \in {"match", "memcpying", "hit"}
        /\ timecode' = timecode /\ slot' = slot /\ disturbed' = disturbed
    BY <1>8, ProcAssumption DEF GetLength, GetCopyBegin, GetCopyEnd, Step, Goto, RingTypeOK
  <2>2. QED
    BY <1>0, <2>1 DEF QuietInvOf, Located, Calling
<1>9. CASE GetMatch(r) \/ GetValid(r)
  <2>1. /\ pc[r] \in {"match", "valid"} /\ pc'[r] \in {"reject", "valid", "accept"}
        /\ UNCHANGED <<getVars, disturbed>>
        /\ pc'[r] = "reject" => ring[slot[r]] # FrameRecord(timecode[r])
    BY <1>9, ProcAssumption DEF GetMatch, GetValid, Step, Goto, RingTypeOK, FrameRecord
  <2>2. ~disturbed[r] /\ Held(timecode[r]) => slot[r] = Place(timecode[r])
    BY <1>0, <2>1 DEF QuietInvOf, Located
  <2>3. ~disturbed[r] /\ pc'[r] = "reject" => ~Held(timecode[r])
    BY <1>h, <2>1, <2>2
  <2>4. QED
    BY <1>0, <2>1, <2>3 DEF QuietInvOf, Located, Calling, getVars
<1>10. CASE GetStray(r)
  <2>1. /\ pc[r] = "length" /\ pc'[r] \in {"reject", "hit", "dead"} /\ slot[r] \notin Slot
        /\ timecode' = timecode /\ disturbed' = disturbed
    BY <1>10, ProcAssumption DEF GetStray, Step, Goto, RingTypeOK
  <2>2. Overrun(timecode[r])
    BY <1>0, <2>1 DEF GetInvOf
  <2>3. QED
    BY <1>0, <2>1, <2>2 DEF QuietInvOf, Located, Calling
<1>11. QED
  BY <1>1, <1>2, <1>3, <1>4, <1>5, <1>6, <1>7, <1>8, <1>9, <1>10 DEF GetStep

\* What an undisturbed get( ) knows stays true until a put( ) begins.
LEMMA QuietInvStep == IInv /\ [Next]_vars => QuietInv'
<1> SUFFICES ASSUME IInv, [Next]_vars, NEW r \in Readers PROVE QuietInvOf(r)'
  BY DEF QuietInv
<1>0. RingTypeOK /\ PutInv /\ RingInv /\ GetInv /\ QuietInv /\ QuietInvOf(r)
      /\ disturbed[r] \in BOOLEAN
  BY DEF IInv, TypeOK, QuietInv, RingTypeOK
<1>1. CASE PutBegin
  <2>1. disturbed'[r] = (pc[r] # "idle") /\ pc'[r] = pc[r]
    BY <1>0, <1>1, WriterFrame DEF PutBegin
  <2>2. QED
    BY <2>1 DEF QuietInvOf, Located, Calling
<1>2. CASE PutStep /\ ~PutBegin
  <2>1. /\ UNCHANGED <<getVars, save_timecode, save_offset, disturbed>>
        /\ pc'[r] = pc[r]
    BY <1>0, <1>2, WriterFrame
  <2>2. Calling(r) /\ ~disturbed[r] => UNCHANGED ipc
    <3>1. SUFFICES ASSUME Calling(r), ~disturbed[r] PROVE UNCHANGED ipc
      OBVIOUS
    <3>2. current_timecode = save_timecode
      BY <1>0, <3>1 DEF QuietInvOf
    <3>3. pc[Writer] \notin {"offset", "current"}
      BY <1>0, <3>2, Numbers DEF PutInv, PutPC, LockPC
    <3>4. QED
      BY <1>2, <3>3 DEF PutStep, PutLength, PutValid, PutTimecode, PutCopyBegin, PutCopyEnd,
         PutLocked, PutOffset, PutCurrent, PutUnlock, Step
  <2>3. CASE Calling(r) /\ ~disturbed[r]
    BY <1>0, <2>1, <2>2, <2>3
       DEF QuietInvOf, Located, Calling, getVars, ipc, Held, Overrun, Place, Locate
  <2>4. CASE ~Calling(r) \/ disturbed[r]
    BY <2>1, <2>4 DEF QuietInvOf, Located, Calling
  <2>5. QED
    BY <2>3, <2>4
<1>3. ASSUME NEW q \in Readers, GetBegin(q) \/ GetStep(q) PROVE QuietInvOf(r)'
  <2>1. CASE q = r
    BY <1>0, <1>3, <2>1, ReaderQuietInv
  <2>2. CASE q # r
    BY <1>0, <1>3, <2>2, ReaderFrame
       DEF QuietInvOf, Located, Calling, Held, Overrun, Place, Locate
  <2>3. QED
    BY <2>1, <2>2
<1>4. ASSUME NEW p \in Proc, LockStep(p) \/ Kill(p) PROVE QuietInvOf(r)'
  <2>1. pc'[r] = pc[r] \/ pc'[r] = "dead" \/ (pc[r] \in LockPC /\ pc'[r] \in LockPC)
    BY <1>0, <1>4, LockFrame, ProcAssumption
  <2>2. UNCHANGED <<ipc, ring, putVars, getVars, disturbed>>
    BY <1>0, <1>4, LockFrame
  <2>3. QED
    BY <1>0, <2>1, <2>2 DEF ipc, putVars, getVars, LockPC,
       QuietInvOf, Located, Calling, Held, Overrun, Place, Locate
<1>5. CASE UNCHANGED vars
  BY <1>0, <1>5 DEF vars, lockVars, ipc, putVars, getVars,
     QuietInvOf, Located, Calling, Held, Overrun, Place, Locate
<1>6. QED
  BY <1>1, <1>2, <1>3, <1>4, <1>5 DEF Next

-----------------------------------------------------------------------------
(* The theorems.                                                            *)

\* The file as the constructor leaves it satisfies the invariant.
LEMMA InitIInv == Init => IInv
<1> SUFFICES ASSUME Init PROVE IInv
  OBVIOUS
<1>1. TypeOK
  <2>1. BlankRecord \in Record
    BY MaxTimecodeAssumption DEF BlankRecord, Record, None, Contents, Timecode
  <2>2. 0 \in Slot
    BY NAssumption DEF Slot
  <2>3. QED
    BY <2>1, <2>2, Defaults, ProcAssumption, ThresholdAssumption
       DEF Init, LockInit, TypeOK, RingTypeOK, LockTypeOK, Located, LockPC, PutPC, GetPC
<1>2. PutInv
  BY ProcAssumption DEF Init, PutInv, LockPC, PutPC
<1>3. RingInv
  <2>1. \A s \in Slot : FrameOf(s) < 0
    BY NAssumption DEF Init, FrameOf, Slot
  <2>2. Filled(save_timecode - N) = BlankRecord /\ Filled(save_timecode) = BlankRecord
    BY NAssumption DEF Init, Filled
  <2>3. QED
    BY <1>1, <2>1, <2>2, ProcAssumption DEF Init, RingInv, Filled, TypeOK, RingTypeOK
<1>4. GetInv /\ QuietInv
  BY ProcAssumption
     DEF Init, GetInv, GetInvOf, QuietInv, QuietInvOf, Checked, Located, Matched, Calling
<1>5. QED
  BY <1>1, <1>2, <1>3, <1>4 DEF IInv

\* The inductive invariant holds in every reachable state.
THEOREM Inductive == Spec => []IInv
<1>1. IInv /\ [Next]_vars => IInv'
  BY TypeStep, PutInvStep, RingInvStep, GetInvStep, QuietInvStep DEF IInv, TypeOK
<1>2. QED
  BY InitIInv, <1>1, PTL DEF Spec

\* Every variable keeps its type; in particular get( ) never works on a record
\* outside the ring once it has checked one (mmap_buffer.cpp 219-235).
THEOREM TypeCorrect == Spec => []TypeOK
<1>1. IInv => TypeOK
  BY DEF IInv
<1>2. QED
  BY Inductive, <1>1, PTL

\* A get( ) that returns true delivers the frame asked for, whole and with its
\* own length, unless the writer has started on that record again, with no help
\* from the lock (mmap_buffer.cpp 194-236).
THEOREM Integrity == Spec => []ReadIntegrity
<1>1. IInv => ReadIntegrity
  BY DEF IInv, GetInv, GetInvOf, ReadIntegrity, Sound
<1>2. QED
  BY Inductive, <1>1, PTL

\* A get( ) that no put( ) overlaps finds every frame the store holds.
THEOREM QuietGets == Spec => []QuietGetHits
<1>1. IInv => QuietGetHits
  BY DEF IInv, TypeOK, RingTypeOK, QuietInv, QuietInvOf, QuietGetHits
<1>2. QED
  BY Inductive, <1>1, PTL

\* The records of the last N frames are complete and in place at every instant
\* but the one between the two stores that publish a frame.
THEOREM Intact == Spec => []StoreIntact
<1>1. ASSUME IInv PROVE StoreIntact
  <2>1. SUFFICES ASSUME current_offset = save_offset => current_timecode = save_timecode,
                        NEW t \in Timecode, Held(t)
                 PROVE  ring[Locate(current_offset, current_timecode, t)] = FrameRecord(t)
    BY DEF StoreIntact
  <2>2. t \in Int /\ RingTypeOK /\ PutInv /\ RingInv
    BY <1>1 DEF IInv, TypeOK, Timecode
  <2>3. Locate(current_offset, current_timecode, t) = Place(t)
    <3>1. CASE current_timecode = save_timecode
      BY <2>2, <3>1 DEF PutInv, Place
    <3>2. CASE current_timecode # save_timecode
      <4>1. /\ current_timecode = save_timecode - 1
            /\ save_offset = NextOffset(current_offset)
        BY <2>1, <2>2, <3>2 DEF PutInv
      <4>2. save_timecode - N < t /\ t <= current_timecode
        BY <2>1, <2>2, Numbers DEF Held, Overrun
      <4>3. QED
        BY <2>2, <4>1, <4>2, Numbers DEF Place, Locate, NextOffset
    <3>3. QED
      BY <3>1, <3>2
  <2>4. QED
    BY <2>1, <2>2, <2>3, HeldRecord
<1>2. QED
  BY Inductive, <1>1, PTL

\* put( ) publishes frames one by one, each after the last byte of its record
\* (mmap_buffer.cpp 179-190).
THEOREM Publication == Spec => PublishComplete
<1>1. ASSUME IInv, [Next]_vars, current_timecode' # current_timecode
      PROVE  /\ current_timecode' = current_timecode + 1
             /\ ring[current_offset] = FrameRecord(current_timecode')
  <2>0. RingTypeOK /\ PutInv /\ RingInv
    BY <1>1 DEF IInv, TypeOK
  <2>1. PutCurrent
    <3>1. PutBegin \/ PutStep
      BY <1>1, <2>0, ReaderFrame, LockFrame DEF Next, vars, ipc
    <3>2. QED
      BY <1>1, <3>1 DEF PutStep, PutBegin, PutLength, PutValid, PutTimecode, PutCopyBegin,
         PutCopyEnd, PutLocked, PutOffset, PutUnlock, ipc
  <2>2. pc[Writer] = "current" /\ current_timecode' = save_timecode
    BY <2>1 DEF PutCurrent, Step
  <2>3. current_timecode = save_timecode - 1 /\ current_offset = save_offset
    BY <2>0, <2>2 DEF PutInv, PutPC
  <2>4. ring[save_offset] = Filled(save_timecode)
    BY <2>0, <2>2 DEF RingInv
  <2>5. save_timecode >= 0
    BY <2>0, <2>3, Numbers
  <2>6. QED
    BY <2>0, <2>2, <2>3, <2>4, <2>5, Numbers DEF Filled
<1>2. IInv /\ [Next]_vars =>
        [current_timecode' # current_timecode =>
           /\ current_timecode' = current_timecode + 1
           /\ ring[current_offset] = FrameRecord(current_timecode')]_vars
  BY <1>1
<1>3. QED
  BY Inductive, <1>2, PTL DEF PublishComplete, Spec

-----------------------------------------------------------------------------
(* The ring implements FrameStore.                                          *)

Status(r) == IF pc[r] \in {"idle", "hit", "miss", "dead"} THEN pc[r] ELSE "busy"
Answer(r) == IF pc[r] = "hit" THEN <<size[r], data[r]>> ELSE <<-1, -1>>

\* A step that changes neither the published pair nor what a caller sees.
Silent ==
    /\ UNCHANGED <<current_timecode, save_timecode, timecode, disturbed>>
    /\ \A q \in Readers : Status(q)' = Status(q) /\ Answer(q)' = Answer(q)

\* A step that changes nothing the mapping shows is a stutter of the store.
LEMMA SilentStutters == Silent => UNCHANGED Store!vars
  BY DEF Silent, Status, Answer, Store!vars

\* What the others see while r moves.
LEMMA OthersSilent ==
    ASSUME RingTypeOK, NEW r \in Readers, GetBegin(r) \/ GetStep(r)
    PROVE  \A q \in Readers \ {r} : Status(q)' = Status(q) /\ Answer(q)' = Answer(q)
  BY ReaderFrame DEF Status, Answer

\* put( ) is Begin, then Publish, and stutters in between.
LEMMA WriterRefines ==
    ASSUME IInv, PutBegin \/ PutStep
    PROVE  [Store!Next]_(Store!vars)
<1>0. RingTypeOK /\ PutInv
  BY DEF IInv, TypeOK
<1>1. /\ UNCHANGED timecode
      /\ \A q \in Readers : Status(q)' = Status(q) /\ Answer(q)' = Answer(q)
  BY <1>0, WriterFrame DEF Status, Answer, getVars
<1>2. CASE PutBegin
  <2>1. /\ save_timecode = current_timecode /\ save_timecode' = current_timecode + 1
        /\ current_timecode' = current_timecode
        /\ disturbed' = [q \in Readers |-> pc[q] # "idle"]
    BY <1>0, <1>2 DEF PutBegin, PutInv, Step, ipc
  <2>2. \A q \in Readers : (Status(q) # "idle") = (pc[q] # "idle")
    BY DEF Status
  <2>3. Store!Begin
    BY <1>1, <2>1, <2>2 DEF Store!Begin, Status, Answer
  <2>4. QED
    BY <2>3 DEF Store!Next
<1>3. CASE PutCurrent
  <2>1. /\ save_timecode = current_timecode + 1 /\ current_timecode' = save_timecode
        /\ save_timecode' = save_timecode /\ disturbed' = disturbed
    BY <1>0, <1>3, Numbers DEF PutCurrent, PutInv, PutPC, Step, putVars
  <2>2. Store!Publish
    BY <1>1, <2>1 DEF Store!Publish, Status, Answer
  <2>3. QED
    BY <2>2 DEF Store!Next
<1>4. CASE PutStep /\ ~PutBegin /\ ~PutCurrent
  <2>1. UNCHANGED <<current_timecode, save_timecode, disturbed>>
    BY <1>4 DEF PutStep, PutLength, PutValid, PutTimecode, PutCopyBegin, PutCopyEnd,
       PutLocked, PutOffset, PutUnlock, ipc, putVars
  <2>2. Silent
    BY <1>1, <2>1 DEF Silent
  <2>3. QED
    BY <2>2, SilentStutters
<1>5. QED
  BY <1>2, <1>3, <1>4

\* The steps of get( ) as its caller sees them: it asks, ...
Asks(r) ==
    /\ Status(r) = "idle" /\ Status(r)' = "busy" /\ Answer(r)' = Answer(r)
    /\ \E t \in Requests \cup {current_timecode - 1} :
         timecode' = [timecode EXCEPT ![r] = t]
    /\ disturbed' = [disturbed EXCEPT ![r] = save_timecode # current_timecode]

\* ... the answer is true, ...
Finds(r) ==
    /\ pc[r] \in {"memcpying", "length"} /\ pc'[r] = "hit"
    /\ Status(r) = "busy" /\ Status(r)' = "hit" /\ Answer(r)' = <<size[r], data'[r]>>
    /\ UNCHANGED <<timecode, size, disturbed>>
    /\ size[r] \in Contents /\ data'[r] \in Contents

\* ... or false, ...
Misses(r) ==
    /\ pc[r] = "reject"
    /\ Status(r) = "busy" /\ Status(r)' = "miss" /\ Answer(r)' = Answer(r)
    /\ UNCHANGED <<timecode, disturbed>>

\* ... which the caller is done with, ...
Returns(r) ==
    /\ Status(r) \in {"hit", "miss"} /\ Status(r)' = "idle" /\ Answer(r)' = <<-1, -1>>
    /\ timecode' = [timecode EXCEPT ![r] = -1]
    /\ disturbed' = [disturbed EXCEPT ![r] = FALSE]

\* ... the process is gone, ...
Dies(r) ==
    /\ Status(r) # "dead" /\ Status(r)' = "dead" /\ Answer(r)' = <<-1, -1>>
    /\ UNCHANGED <<timecode, disturbed>>

\* ... or nothing is to be seen.
Works(r) ==
    /\ Status(r)' = Status(r) /\ Answer(r)' = Answer(r)
    /\ UNCHANGED <<timecode, disturbed>>

\* There are no other steps.
LEMMA ReaderSeen ==
    ASSUME RingTypeOK, NEW r \in Readers, GetBegin(r) \/ GetStep(r)
    PROVE  Asks(r) \/ Finds(r) \/ Misses(r) \/ Returns(r) \/ Dies(r) \/ Works(r)
<1>0. /\ pc \in [Proc -> {"idle", "dead"} \cup LockPC \cup PutPC \cup GetPC] /\ r \in Proc
      /\ size[r] \in Contents
  BY ProcAssumption DEF RingTypeOK, Contents
<1> USE <1>0 DEF Step, Goto, LockReturn, Unlock
<1>1. CASE GetBegin(r)
  <2>1. pc[r] = "idle" /\ pc'[r] = "lock"
    BY <1>1 DEF GetBegin
  <2> QED
    BY <1>1, <2>1 DEF GetBegin, RingTypeOK, get_timecode, Asks, Status, Answer
<1>2. CASE GetReject(r)
  <2>1. pc[r] = "reject" /\ pc'[r] = "miss" /\ UNCHANGED <<timecode, disturbed>>
    BY <1>2 DEF GetReject, getVars
  <2> QED
    BY <2>1 DEF Misses, Status, Answer
<1>3. CASE GetReturn(r)
  <2>1. /\ pc[r] \in {"hit", "miss"} /\ pc'[r] = "idle"
        /\ timecode' = [timecode EXCEPT ![r] = -1]
        /\ disturbed' = [disturbed EXCEPT ![r] = FALSE]
    BY <1>3 DEF GetReturn, None
  <2> QED
    BY <2>1 DEF Returns, Status, Answer
<1>4. CASE GetCopyEnd(r) \/ GetStray(r)
  <2>1. /\ pc[r] \in {"memcpying", "length"} /\ pc'[r] \in {"hit", "dead", "reject"}
        /\ UNCHANGED <<timecode, size, disturbed>>
        /\ data'[r] \in Contents
    BY <1>4, Defaults DEF GetCopyEnd, GetStray, RingTypeOK
  <2>2. CASE pc'[r] = "hit"
    BY <2>1, <2>2 DEF Finds, Status, Answer
  <2>3. CASE pc'[r] = "dead"
    BY <2>1, <2>3 DEF Dies, Status, Answer
  <2>4. CASE pc'[r] = "reject"
    BY <2>1, <2>4 DEF Works, Status, Answer
  <2> QED
    BY <2>1, <2>2, <2>3, <2>4
<1>5. CASE GetLocked(r) \/ GetCheckNew(r) \/ GetCheckOld(r) \/ GetReadOffset(r)
           \/ GetReadTimecode(r) \/ GetLocate(r)
  <2>1. UNCHANGED <<timecode, disturbed>>
    BY <1>5 DEF GetLocked, GetCheckNew, GetCheckOld, GetReadOffset, GetReadTimecode,
       GetLocate, getVars
  <2>2. Status(r) = "busy" /\ Status(r)' = "busy"
    BY <1>5 DEF Status, GetLocked, GetCheckNew, GetCheckOld, GetReadOffset,
       GetReadTimecode, GetLocate
  <2> QED
    BY <2>1, <2>2 DEF Works, Status, Answer
<1>6. CASE GetLength(r) \/ GetMatch(r) \/ GetValid(r) \/ GetAccept(r) \/ GetCopyBegin(r)
  <2>1. UNCHANGED <<timecode, disturbed>>
    BY <1>6 DEF GetLength, GetMatch, GetValid, GetAccept, GetCopyBegin, getVars
  <2>2. Status(r) = "busy" /\ Status(r)' = "busy"
    BY <1>6 DEF Status, GetLength, GetMatch, GetValid, GetAccept, GetCopyBegin
  <2> QED
    BY <2>1, <2>2 DEF Works, Status, Answer
<1> QED
  BY <1>1, <1>2, <1>3, <1>4, <1>5, <1>6 DEF GetStep

\* A step in lock( ) is not to be seen, nor is the end of a process that is
\* not a reader.
LEMMA LockSeen ==
    ASSUME RingTypeOK, NEW p \in Proc, LockStep(p) \/ Kill(p)
    PROVE  /\ UNCHANGED <<current_timecode, save_timecode>>
           /\ \/ Silent
              \/ /\ p \in Readers /\ Dies(p)
                 /\ \A q \in Readers \ {p} : Status(q)' = Status(q) /\ Answer(q)' = Answer(q)
<1>1. /\ UNCHANGED <<current_timecode, save_timecode, timecode, size, data, disturbed>>
      /\ \A q \in Proc \ {p} : pc'[q] = pc[q]
      /\ pc'[p] = "dead" \/ (pc[p] \in LockPC /\ pc'[p] \in LockPC)
  BY LockFrame DEF ipc, putVars, getVars
<1>2. \A q \in Readers \ {p} : Status(q)' = Status(q) /\ Answer(q)' = Answer(q)
  BY <1>1, ProcAssumption DEF Status, Answer
<1>3. CASE p \in Readers /\ pc'[p] = "dead" /\ pc[p] # "dead"
  BY <1>1, <1>2, <1>3 DEF Dies, Status, Answer
<1>4. CASE ~(p \in Readers /\ pc'[p] = "dead" /\ pc[p] # "dead")
  <2>1. p \in Readers => Status(p)' = Status(p) /\ Answer(p)' = Answer(p)
    BY <1>1, <1>4 DEF Status, Answer, LockPC
  <2> QED
    BY <1>1, <1>2, <2>1 DEF Silent
<1> QED
  BY <1>1, <1>3, <1>4

\* One entry of the tables the mapping shows.
LEMMA SeenEntry ==
    ASSUME NEW r \in Readers,
           \A q \in Readers \ {r} : Status(q)' = Status(q) /\ Answer(q)' = Answer(q)
    PROVE  /\ [q \in Readers |-> Status(q)]'
                = [[q \in Readers |-> Status(q)] EXCEPT ![r] = Status(r)']
           /\ [q \in Readers |-> Answer(q)]'
                = [[q \in Readers |-> Answer(q)] EXCEPT ![r] = Answer(r)']
  OBVIOUS

\* get( ) is Ask, then Hit or Miss, then Done, and stutters in between.
LEMMA ReaderRefines ==
    ASSUME IInv, NEW r \in Readers, GetBegin(r) \/ GetStep(r)
    PROVE  [Store!Next]_(Store!vars)
<1>0. /\ RingTypeOK /\ PutInv /\ GetInvOf(r) /\ QuietInvOf(r)
      /\ UNCHANGED <<current_timecode, save_timecode>>
      /\ \A q \in Readers \ {r} : Status(q)' = Status(q) /\ Answer(q)' = Answer(q)
  BY ReaderFrame, OthersSilent DEF IInv, TypeOK, GetInv, QuietInv
<1>1. CASE Asks(r)
  <2>1. Store!Ask(r)
    BY <1>0, <1>1 DEF Asks, Store!Ask, Status, Answer
  <2> QED
    BY <2>1 DEF Store!Next
<1>2. CASE Finds(r)
  <2>1. 0 <= timecode[r] /\ timecode[r] <= current_timecode
    BY <1>0, <1>2 DEF Finds, GetInvOf, Checked
  <2>2. \/ Overrun(timecode[r])
        \/ timecode[r] = 0 /\ disturbed[r]
        \/ size[r] = timecode[r] /\ data'[r] = timecode[r]
    <3>1. GetInvOf(r)'
      BY GetInvStep DEF GetInv, Next, IInv
    <3>2. Overrun(timecode[r])' = Overrun(timecode[r])
      BY <1>0, <1>2 DEF Overrun, Finds
    <3>3. disturbed[r] \in BOOLEAN
      BY <1>0 DEF RingTypeOK
    <3>4. ~Overrun(timecode[r]) /\ (timecode[r] = 0 => ~disturbed[r]) => Sound(r)'
      BY <1>2, <3>2 DEF Sound, Finds
    <3> QED
      BY <1>2, <3>1, <3>3, <3>4 DEF GetInvOf, Finds
  <2>3. /\ [q \in Readers |-> Status(q)]' = [[q \in Readers |-> Status(q)] EXCEPT ![r] = "hit"]
        /\ [q \in Readers |-> Answer(q)]'
             = [[q \in Readers |-> Answer(q)] EXCEPT ![r] = <<size[r], data'[r]>>]
        /\ [q \in Readers |-> Status(q)][r] = "busy"
    BY <1>0, <1>2, SeenEntry DEF Finds
  <2>4. \E length, contents \in Contents :
          /\ \/ Overrun(timecode[r])
             \/ timecode[r] = 0 /\ disturbed[r]
             \/ length = timecode[r] /\ contents = timecode[r]
          /\ [q \in Readers |-> Answer(q)]'
               = [[q \in Readers |-> Answer(q)] EXCEPT ![r] = <<length, contents>>]
    BY <1>2, <2>2, <2>3 DEF Finds
  <2>5. Store!Hit(r)
    BY <1>0, <1>2, <2>1, <2>3, <2>4
       DEF Store!Hit, Store!Recycled, Overrun, Finds, Status, Answer
  <2> QED
    BY <2>5 DEF Store!Next
<1>3. CASE Misses(r)
  <2>1. Held(timecode[r]) => disturbed[r]
    BY <1>0, <1>3 DEF QuietInvOf, Misses
  <2>2. Store!Miss(r)
    BY <1>0, <1>3, <2>1
       DEF Misses, Store!Miss, Store!Held, Store!Recycled, Held, Overrun, Status, Answer
  <2> QED
    BY <2>2 DEF Store!Next
<1>4. CASE Returns(r)
  <2>1. Store!Done(r)
    BY <1>0, <1>4 DEF Returns, Store!Done, Store!NoAnswer, Status, Answer
  <2> QED
    BY <2>1 DEF Store!Next
<1>5. CASE Dies(r)
  <2>1. Store!Crash(r)
    BY <1>0, <1>5 DEF Dies, Store!Crash, Store!NoAnswer, Status, Answer
  <2> QED
    BY <2>1 DEF Store!Next
<1>6. CASE Works(r)
  <2>1. Silent
    BY <1>0, <1>6 DEF Silent, Works
  <2> QED
    BY <2>1, SilentStutters
<1> QED
  BY <1>0, <1>1, <1>2, <1>3, <1>4, <1>5, <1>6, ReaderSeen

\* The shared-memory ring keeps the promise of FrameStore: every behaviour of
\* the code, seen through the refinement mapping, is one of the store's.
THEOREM Refinement == Spec => StoreSpec
<1>1. Init => Store!Init
  BY ProcAssumption DEF Init, Store!Init, Store!NoAnswer, None
<1>2. IInv /\ [Next]_vars => [Store!Next]_(Store!vars)
  <2> SUFFICES ASSUME IInv, [Next]_vars PROVE [Store!Next]_(Store!vars)
    OBVIOUS
  <2>0. RingTypeOK
    BY DEF IInv, TypeOK
  <2>1. CASE PutBegin \/ PutStep
    BY <2>1, WriterRefines
  <2>2. ASSUME NEW r \in Readers, GetBegin(r) \/ GetStep(r) PROVE [Store!Next]_(Store!vars)
    BY <2>2, ReaderRefines
  <2>3. ASSUME NEW p \in Proc, LockStep(p) \/ Kill(p) PROVE [Store!Next]_(Store!vars)
    <3>1. CASE Silent
      BY <3>1, SilentStutters
    <3>2. CASE /\ p \in Readers /\ Dies(p)
               /\ \A q \in Readers \ {p} : Status(q)' = Status(q) /\ Answer(q)' = Answer(q)
      <4>1. Store!Crash(p)
        BY <2>0, <2>3, <3>2, LockSeen DEF Dies, Store!Crash, Store!NoAnswer, Status, Answer
      <4> QED
        BY <3>2, <4>1 DEF Store!Next
    <3> QED
      BY <2>0, <2>3, <3>1, <3>2, LockSeen
  <2>4. CASE UNCHANGED vars
    BY <2>4 DEF vars, lockVars, ipc, putVars, getVars, Store!vars
  <2>5. QED
    BY <2>1, <2>2, <2>3, <2>4 DEF Next
<1>3. QED
  BY Inductive, <1>1, <1>2, PTL DEF Spec, StoreSpec, Store!Spec
=============================================================================
