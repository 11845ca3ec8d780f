----------------------------- MODULE MmapBuffer -----------------------------
(***************************************************************************)
(* The shared-memory ring of video frames: src/core/mmap_buffer.cpp.       *)
(*                                                                         *)
(* One ingest process puts frames, several processes (GUI, playout         *)
(* daemon, encoders) get them by timecode.  Every access to shared memory  *)
(* that another process can observe is a step of its own, because the      *)
(* lock does not exclude anybody (see SpinLock).  Stores become visible in *)
(* program order and loads are done in program order: the fields are       *)
(* volatile, the build has no optimisation and the target is x86.          *)
(*                                                                         *)
(* Data: the frame that put( ) publishes with timecode k has length k and  *)
(* contents k, so that any mix of two frames can be told apart.  Offsets   *)
(* are counted in records.                                                 *)
(***************************************************************************)
EXTENDS SpinLock

CONSTANTS Writer,     \* the ingest process
          Readers,    \* the processes that call get( )
          N,          \* n_records
          Requests,   \* timecodes a caller may ask for
          MaxTimecode \* bound on the frames put (an int in the code)

ASSUME ProcAssumption == Proc = Readers \cup {Writer} /\ Writer \notin Readers
ASSUME NAssumption == N \in Nat \ {0}
ASSUME RequestsAssumption == Requests \subseteq Int
ASSUME MaxTimecodeAssumption == MaxTimecode \in Nat

VARIABLES current_timecode, current_offset,  \* mmapped_ipc, N.B. not the lock
          ring,                              \* mmapped_data, by slot
          save_timecode, save_offset,        \* locals of put( )
          timecode, seen, slot, size, data,  \* arguments and locals of get( )
          disturbed                          \* history: a put( ) overlaps the get( )

ipc    == <<current_timecode, current_offset>>
putVars == <<save_timecode, save_offset>>
getVars == <<timecode, seen, slot, size, data>>
vars == <<lockVars, ipc, ring, putVars, getVars, disturbed>>

-----------------------------------------------------------------------------
Slot == 0 .. N - 1
Timecode == 0 .. MaxTimecode

None  == -1   \* contents of a record nobody has filled; a local not yet set
Mixed == -2   \* contents caught halfway between two frames

Contents == Timecode \cup {None, Mixed}

Record == [length : Timecode \cup {None}, timecode : Timecode,
           valid : BOOLEAN, data : Contents]

\* A sparse file reads as zero: not valid, and timecode 0.
BlankRecord == [length |-> None, timecode |-> 0, valid |-> FALSE, data |-> None]

FrameRecord(t) == [length |-> t, timecode |-> t, valid |-> TRUE, data |-> t]

\* Variant: the ring wraps one record early.
NextOffsetEarly(offset) == IF offset + 1 >= N - 1 THEN 0 ELSE offset + 1

\* put( ): the record after the last one written.
NextOffset(offset) == IF offset + 1 > N - 1 THEN 0 ELSE offset + 1

\* Variant: no wrap below the first record.
LocateUnwrapped(offset, current, t) == offset - (current - t)

\* get( ): where frame t is, as computed from one reading of the offset and
\* one of the timecode.
Locate(offset, current, t) ==
    LET d == offset - (current - t) IN IF d < 0 THEN d + N ELSE d

\* get_timecode( ): the frame before the latest one.
get_timecode == current_timecode - 1

PutPC == {"length", "valid", "timecode", "memcpy", "memcpying",
          "offset", "current", "unlock"}
GetPC == {"new", "old", "addr", "offset_read", "timecode_read", "length",
          "match", "valid", "reject", "accept", "memcpy", "memcpying",
          "hit", "miss"}

\* get( ) has found a record and works on it.
Located == {"match", "valid", "accept", "memcpy", "memcpying"}

\* All but the lock word.
RingTypeOK ==
    /\ pc \in [Proc -> {"idle", "dead"} \cup LockPC \cup PutPC \cup GetPC]
    /\ pc[Writer] \in {"idle", "dead"} \cup LockPC \cup PutPC
    /\ \A r \in Readers : pc[r] \in {"idle", "dead"} \cup LockPC \cup GetPC
    /\ current_timecode \in Timecode \cup {-1}
    /\ save_timecode \in Timecode \cup {-1}
    /\ pc[Writer] \notin {"idle", "dead"} => save_timecode # -1
    /\ current_offset \in Slot
    /\ save_offset \in Slot
    /\ ring \in [Slot -> Record]
    /\ timecode \in [Readers -> Int]
    /\ seen \in [Readers -> Int]
    /\ slot \in [Readers -> Int]
    /\ \A r \in Readers : pc[r] \in Located => slot[r] \in Slot
    /\ size \in [Readers -> Timecode \cup {None}]
    /\ data \in [Readers -> Contents]
    /\ disturbed \in [Readers -> BOOLEAN]

TypeOK == LockTypeOK /\ RingTypeOK

\* The constructor has set the file up: a fresh (sparse) file, or reset.
Init ==
    /\ LockInit
    /\ pc = [p \in Proc |-> "idle"]
    /\ current_timecode = -1 /\ current_offset = 0
    /\ save_timecode = -1 /\ save_offset = 0
    /\ ring = [s \in Slot |-> BlankRecord]
    /\ timecode = [r \in Readers |-> None]
    /\ seen = [r \in Readers |-> None]
    /\ slot = [r \in Readers |-> None]
    /\ size = [r \in Readers |-> None]
    /\ data = [r \in Readers |-> None]
    /\ disturbed = [r \in Readers |-> FALSE]

-----------------------------------------------------------------------------
(* put( ).  Only this process writes the timecode and the offset, so that   *)
(* its own unlocked reading of both is one step.                            *)

PutBegin ==
    /\ current_timecode < MaxTimecode
    /\ Step(Writer, "idle", "length")
    /\ save_timecode' = current_timecode + 1
    /\ save_offset' = NextOffset(current_offset)
    /\ disturbed' = [r \in Readers |-> pc[r] # "idle"]
    /\ UNCHANGED <<ipc, ring, getVars>>

PutLength ==
    /\ Step(Writer, "length", "valid")
    /\ ring' = [ring EXCEPT ![save_offset].length = save_timecode]
    /\ UNCHANGED <<ipc, putVars, getVars, disturbed>>

PutValid ==
    /\ Step(Writer, "valid", "timecode")
    /\ ring' = [ring EXCEPT ![save_offset].valid = TRUE]
    /\ UNCHANGED <<ipc, putVars, getVars, disturbed>>

\* Variant: the frame is published without having been copied.
PutTimecodeOnly ==
    /\ Step(Writer, "timecode", "lock")
    /\ ring' = [ring EXCEPT ![save_offset].timecode = save_timecode]
    /\ UNCHANGED <<ipc, putVars, getVars, disturbed>>

PutTimecode ==
    /\ Step(Writer, "timecode", "memcpy")
    /\ ring' = [ring EXCEPT ![save_offset].timecode = save_timecode]
    /\ UNCHANGED <<ipc, putVars, getVars, disturbed>>

PutCopyBegin ==
    /\ Step(Writer, "memcpy", "memcpying")
    /\ ring' = [ring EXCEPT ![save_offset].data = Mixed]
    /\ UNCHANGED <<ipc, putVars, getVars, disturbed>>

PutCopyEnd ==
    /\ Step(Writer, "memcpying", "lock")
    /\ ring' = [ring EXCEPT ![save_offset].data = save_timecode]
    /\ UNCHANGED <<ipc, putVars, getVars, disturbed>>

PutLocked ==
    /\ LockReturn(Writer, "offset")
    /\ UNCHANGED <<ipc, ring, putVars, getVars, disturbed>>

PutOffset ==
    /\ Step(Writer, "offset", "current")
    /\ current_offset' = save_offset
    /\ UNCHANGED <<current_timecode, ring, putVars, getVars, disturbed>>

PutCurrent ==
    /\ Step(Writer, "current", "unlock")
    /\ current_timecode' = save_timecode
    /\ UNCHANGED <<current_offset, ring, putVars, getVars, disturbed>>

PutUnlock ==
    /\ Unlock(Writer, "unlock", "idle")
    /\ UNCHANGED <<ipc, ring, putVars, getVars, disturbed>>

-----------------------------------------------------------------------------
(* get( ).                                                                  *)

\* The caller asks for a timecode of its own or for get_timecode( ).
GetBegin(r) ==
    /\ Step(r, "idle", "lock")
    /\ \E t \in Requests \cup {get_timecode} : timecode' = [timecode EXCEPT ![r] = t]
    /\ disturbed' = [disturbed EXCEPT ![r] = save_timecode # current_timecode]
    /\ UNCHANGED <<ipc, ring, putVars, seen, slot, size, data>>

GetLocked(r) ==
    /\ LockReturn(r, "new")
    /\ UNCHANGED <<ipc, ring, putVars, getVars, disturbed>>

\* Variant: a frame that is still to come is looked for.
GetCheckNewDropped(r) ==
    /\ Step(r, "new", "old")
    /\ UNCHANGED <<ipc, ring, putVars, getVars, disturbed>>

\* current_timecode < timecode
GetCheckNew(r) ==
    /\ Step(r, "new", IF current_timecode < timecode[r] THEN "reject" ELSE "old")
    /\ UNCHANGED <<ipc, ring, putVars, getVars, disturbed>>

\* Variant: a negative timecode gets through.
GetCheckOldOnly(r) ==
    /\ Step(r, "old", IF current_timecode - N > timecode[r] THEN "reject" ELSE "addr")
    /\ UNCHANGED <<ipc, ring, putVars, getVars, disturbed>>

\* The other three conditions; what passed the first one and is not negative
\* cannot meet a current_timecode of -1.
GetCheckOld(r) ==
    /\ Step(r, "old", IF \/ current_timecode - N > timecode[r]
                         \/ timecode[r] < 0
                      THEN "reject" ELSE "addr")
    /\ UNCHANGED <<ipc, ring, putVars, getVars, disturbed>>

\* The address takes a second reading of the offset and of the timecode, in
\* an order the language leaves open.
GetReadOffset(r) ==
    /\ Step(r, "addr", "offset_read")
    /\ seen' = [seen EXCEPT ![r] = current_offset]
    /\ UNCHANGED <<ipc, ring, putVars, timecode, slot, size, data, disturbed>>

GetReadTimecode(r) ==
    /\ Step(r, "addr", "timecode_read")
    /\ seen' = [seen EXCEPT ![r] = current_timecode]
    /\ UNCHANGED <<ipc, ring, putVars, timecode, slot, size, data, disturbed>>

GetLocate(r) ==
    /\ \/ /\ Step(r, "offset_read", "length")
          /\ slot' = [slot EXCEPT ![r] = Locate(seen[r], current_timecode, timecode[r])]
       \/ /\ Step(r, "timecode_read", "length")
          /\ slot' = [slot EXCEPT ![r] = Locate(current_offset, seen[r], timecode[r])]
    /\ seen' = [seen EXCEPT ![r] = None]
    /\ UNCHANGED <<ipc, ring, putVars, timecode, size, data, disturbed>>

\* The caller's buffer is larger than any frame: *size becomes rec->length.
GetLength(r) ==
    /\ slot[r] \in Slot
    /\ Step(r, "length", "match")
    /\ size' = [size EXCEPT ![r] = ring[slot[r]].length]
    /\ UNCHANGED <<ipc, ring, putVars, timecode, seen, slot, data, disturbed>>

\* Variant: the record found is taken for the one asked for.
GetMatchAny(r) ==
    /\ Step(r, "match", "valid")
    /\ UNCHANGED <<ipc, ring, putVars, getVars, disturbed>>

GetMatch(r) ==
    /\ Step(r, "match", IF ring[slot[r]].timecode # timecode[r] THEN "reject" ELSE "valid")
    /\ UNCHANGED <<ipc, ring, putVars, getVars, disturbed>>

GetValid(r) ==
    /\ Step(r, "valid", IF ~ring[slot[r]].valid THEN "reject" ELSE "accept")
    /\ UNCHANGED <<ipc, ring, putVars, getVars, disturbed>>

GetReject(r) ==
    /\ Unlock(r, "reject", "miss")
    /\ UNCHANGED <<ipc, ring, putVars, getVars, disturbed>>

GetAccept(r) ==
    /\ Unlock(r, "accept", "memcpy")
    /\ UNCHANGED <<ipc, ring, putVars, getVars, disturbed>>

\* The record is copied after unlock( ), with no second look at it.  Two
\* samples of its contents are enough: equal at both ends, nothing was
\* stored in between.
GetCopyBegin(r) ==
    /\ Step(r, "memcpy", "memcpying")
    /\ data' = [data EXCEPT ![r] = ring[slot[r]].data]
    /\ UNCHANGED <<ipc, ring, putVars, timecode, seen, slot, size, disturbed>>

GetCopyEnd(r) ==
    /\ Step(r, "memcpying", "hit")
    /\ data' = [data EXCEPT ![r] = IF @ = ring[slot[r]].data THEN @ ELSE Mixed]
    /\ UNCHANGED <<ipc, ring, putVars, timecode, seen, slot, size, disturbed>>

\* An address outside the records: whatever is mapped there is taken for a
\* record, or the process gets a segmentation fault.
GetStray(r) ==
    /\ slot[r] \notin Slot
    /\ \/ /\ Step(r, "length", "reject")
          /\ UNCHANGED data
       \/ /\ Step(r, "length", "hit")
          /\ data' = [data EXCEPT ![r] = Mixed]
       \/ /\ Step(r, "length", "dead")
          /\ UNCHANGED data
    /\ UNCHANGED <<ipc, ring, putVars, timecode, seen, slot, size, disturbed>>

\* get( ) returns pc[r] = "hit"; the caller is done with the answer.
GetReturn(r) ==
    /\ \/ Step(r, "hit", "idle")
       \/ Step(r, "miss", "idle")
    /\ timecode' = [timecode EXCEPT ![r] = None]
    /\ slot' = [slot EXCEPT ![r] = None]
    /\ size' = [size EXCEPT ![r] = None]
    /\ data' = [data EXCEPT ![r] = None]
    /\ disturbed' = [disturbed EXCEPT ![r] = FALSE]
    /\ UNCHANGED <<ipc, ring, putVars, seen>>

-----------------------------------------------------------------------------
LockStep(p) ==
    /\ LockSpin(p) \/ CheckRead(p) \/ CheckStat(p)
    /\ UNCHANGED <<ipc, ring, putVars, getVars, disturbed>>

Kill(p) ==
    /\ Die(p)
    /\ UNCHANGED <<ipc, ring, putVars, getVars, disturbed>>

PutStep ==
    \/ PutLength \/ PutValid \/ PutTimecode \/ PutCopyBegin \/ PutCopyEnd
    \/ PutLocked \/ PutOffset \/ PutCurrent \/ PutUnlock

GetStep(r) ==
    \/ GetLocked(r) \/ GetCheckNew(r) \/ GetCheckOld(r)
    \/ GetReadOffset(r) \/ GetReadTimecode(r) \/ GetLocate(r)
    \/ GetLength(r) \/ GetMatch(r) \/ GetValid(r) \/ GetReject(r) \/ GetAccept(r)
    \/ GetCopyBegin(r) \/ GetCopyEnd(r) \/ GetStray(r) \/ GetReturn(r)

Next ==
    \/ PutBegin
    \/ PutStep
    \/ \E r \in Readers : GetBegin(r) \/ GetStep(r)
    \/ \E p \in Proc : LockStep(p) \/ Kill(p)

Spec == Init /\ [][Next]_vars

\* A process inside a call keeps running until it is killed; nobody has to
\* call anything.
Fairness ==
    /\ WF_vars(PutStep \/ LockStep(Writer))
    /\ \A r \in Readers : WF_vars(GetStep(r) \/ LockStep(r))

FairSpec == Spec /\ Fairness

-----------------------------------------------------------------------------
(* Correctness.                                                             *)

\* Frame t has been overwritten, or is being overwritten.
Overrun(t) == save_timecode >= t + N

\* The store holds frame t.
Held(t) == 0 <= t /\ t <= current_timecode /\ ~Overrun(t)

\* put( ) fills the record with no lock, the lock of get( ) excludes nobody,
\* and the copy is made after unlock( ): still, a get( ) that returns true for
\* a frame the writer has not come round to has delivered that frame, whole
\* and with its own length.  Frame 0 needs a quiet store: a record nobody has
\* filled reads as timecode 0 (see UnfilledNeverHit).
ReadIntegrity ==
    \A r \in Readers :
        (/\ pc[r] = "hit"
         /\ ~Overrun(timecode[r])
         /\ timecode[r] = 0 => ~disturbed[r])
           => data[r] = timecode[r] /\ size[r] = timecode[r]

\* get( ) misses a frame the store holds only if a put( ) overlapped the call.
QuietGetHits ==
    \A r \in Readers : pc[r] = "miss" /\ Held(timecode[r]) => disturbed[r]

\* The last N frames published, less the one being overwritten, are complete
\* and where get( ) looks for them, at every instant but the one between the
\* two stores that publish a frame (put( ) 188-189).
StoreIntact ==
    (current_offset = save_offset => current_timecode = save_timecode)
      => \A t \in Timecode :
           Held(t) => ring[Locate(current_offset, current_timecode, t)] = FrameRecord(t)

\* put( ) publishes frames one by one, each after the last byte of its record.
PublishComplete ==
    [][current_timecode' # current_timecode =>
         /\ current_timecode' = current_timecode + 1
         /\ ring[current_offset] = FrameRecord(current_timecode')]_vars

\* A put( ) or get( ) comes to an end once the other processes are between
\* calls or dead, whatever pid they left in the lock word.
ObstructionFree ==
    \A p \in Proc :
        <>[](\A q \in Proc \ {p} : pc[q] \in {"idle", "dead"})
          => []<>(pc[p] \in {"idle", "dead"})

\* The ring implements the store that FrameStore promises.
Store == INSTANCE FrameStore WITH
    latest <- current_timecode,
    begun  <- save_timecode,
    status <- [r \in Readers |->
                 IF pc[r] \in {"idle", "hit", "miss", "dead"} THEN pc[r] ELSE "busy"],
    asked  <- timecode,
    answer <- [r \in Readers |->
                 IF pc[r] = "hit" THEN <<size[r], data[r]>> ELSE <<-1, -1>>],
    disturbed <- disturbed

StoreSpec == Store!Spec

-----------------------------------------------------------------------------
(* Why the properties hold: the inductive invariant.                        *)

\* The frame whose record the writer's position puts in slot s, and what that
\* record is when it is complete.
FrameOf(s) ==
    IF s <= save_offset THEN save_timecode - (save_offset - s)
                        ELSE save_timecode - (save_offset - s) - N

Filled(t) == IF t < 0 THEN BlankRecord ELSE FrameRecord(t)

\* Where the writer's position puts frame t.
Place(t) == Locate(save_offset, save_timecode, t)

\* The shared pair is the writer's own or one frame behind it, and the two
\* halves differ only between the two stores of put( ).
PutInv ==
    /\ current_timecode = save_timecode \/ current_timecode = save_timecode - 1
    /\ current_offset = save_offset \/ save_offset = NextOffset(current_offset)
    /\ current_timecode = save_timecode => current_offset = save_offset
    /\ pc[Writer] \in {"idle", "unlock"} => current_timecode = save_timecode
    /\ pc[Writer] \in LockPC \cup (PutPC \ {"unlock"})
         => current_timecode = save_timecode - 1
    /\ pc[Writer] = "current" => current_offset = save_offset

\* Every record but the one the writer is at is complete; that one is filled
\* field by field, and its timecode is the old or the new one throughout.
RingInv ==
    /\ \A s \in Slot \ {save_offset} : ring[s] = Filled(FrameOf(s))
    /\ ring[save_offset].timecode \in {Filled(save_timecode - N).timecode, save_timecode}
    /\ pc[Writer] \in {"valid", "timecode", "memcpy", "memcpying"}
         => ring[save_offset].length = save_timecode
    /\ pc[Writer] \in {"timecode", "memcpy", "memcpying"} => ring[save_offset].valid
    /\ pc[Writer] \in {"memcpy", "memcpying"}
         => ring[save_offset].timecode = save_timecode
    /\ (\/ pc[Writer] \in {"idle"} \cup LockPC \cup {"offset", "current", "unlock"}
        \/ current_timecode = save_timecode)
         => ring[save_offset] = Filled(save_timecode)

\* The answer to r's call is under the promise of ReadIntegrity.
Sound(r) == ~Overrun(timecode[r]) /\ (timecode[r] = 0 => ~disturbed[r])

Calling(r) == pc[r] \notin {"idle", "dead"}

\* Past the checks the frame asked for has been published.
Checked == {"addr", "offset_read", "timecode_read", "length", "match", "valid",
            "accept", "memcpy", "memcpying", "hit"}
Matched == Located \ {"match"}

GetInvOf(r) ==
    /\ pc[r] = "old" => timecode[r] <= current_timecode
    /\ pc[r] \in Checked => 0 <= timecode[r] /\ timecode[r] <= current_timecode
    /\ pc[r] = "offset_read" => seen[r] \in Slot
    /\ pc[r] = "timecode_read" => timecode[r] <= seen[r] /\ seen[r] <= current_timecode
    /\ pc[r] = "length" /\ ~Overrun(timecode[r]) => slot[r] \in Slot
    /\ pc[r] \in Located /\ Sound(r) /\ slot[r] = Place(timecode[r])
         => size[r] = timecode[r]
    /\ pc[r] \in Matched /\ Sound(r) => slot[r] = Place(timecode[r])
    /\ pc[r] = "memcpying" /\ Sound(r) => data[r] = timecode[r]
    /\ pc[r] = "hit" /\ Sound(r) => size[r] = timecode[r] /\ data[r] = timecode[r]

GetInv == \A r \in Readers : GetInvOf(r)

\* A call no put( ) has overlapped sees one consistent pair and misses nothing
\* the store holds.
QuietInvOf(r) ==
    ~disturbed[r] =>
      /\ Calling(r) => current_timecode = save_timecode
      /\ pc[r] = "offset_read" => seen[r] = current_offset
      /\ pc[r] = "timecode_read" => seen[r] = current_timecode
      /\ pc[r] \in Located \cup {"length"} /\ ~Overrun(timecode[r])
           => slot[r] = Place(timecode[r])
      /\ pc[r] \in {"reject", "miss"} => ~Held(timecode[r])

QuietInv == \A r \in Readers : QuietInvOf(r)

IInv == TypeOK /\ PutInv /\ RingInv /\ GetInv /\ QuietInv

-----------------------------------------------------------------------------
(* What the comments say and the code does not do.                          *)

\* "valid: should read as zero if the sparse file hasn't been filled yet"
\* (mmap_buffer.h 30): the flag keeps get( ) from returning a record whose
\* frame is not there.  put( ) sets the flag before the timecode, and the
\* timecode of an unfilled record is that of frame 0.
UnfilledNeverHit ==
    \A r \in Readers :
        pc[r] = "hit" /\ timecode[r] = 0 /\ ~Overrun(0) => data[r] = 0
=============================================================================
