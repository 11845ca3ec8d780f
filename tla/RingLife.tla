------------------------------ MODULE RingLife ------------------------------
(***************************************************************************)
(* The life of a ring (MmapBuffer) across restarts of its writer.          *)
(*                                                                         *)
(* mjpeg_ingest opens the file without reset (mjpeg_ingest.cpp 142): when  *)
(* it is killed and started again, it goes on from the timecode and the    *)
(* offset it finds in the file, whatever its predecessor was doing, while  *)
(* the readers' calls are under way.  The lock word may name a process     *)
(* that is gone.                                                           *)
(***************************************************************************)
EXTENDS MmapBuffer

CONSTANTS Ghost,      \* the pid of a writer that was killed
          MaxLives    \* bound on the restarts

ASSUME GhostAssumption == Ghost \notin Proc \cup {Free}
ASSUME LivesAssumption == MaxLives \in Nat /\ N > 1

VARIABLES lives,   \* restarts so far
          begun,   \* history: the highest timecode a put( ) ever began with
          slips,   \* history: writers killed between the stores of put( ) 188-189
          since    \* history: the first frame written after the last of these

lifeVars == <<lives, begun, slips, since>>

LifeInit ==
    /\ Init
    /\ lives = 0 /\ begun = -1 /\ slips = 0 /\ since = 0

\* The instant between the two stores that publish a frame (put( ) 188-189).
Slipping == current_timecode # save_timecode /\ current_offset = save_offset

\* Variant: the constructor starts over at the first record.
ReopenRewound ==
    /\ pc[Writer] = "dead" /\ lives < MaxLives
    /\ lives' = lives + 1
    /\ Goto(Writer, "idle")
    /\ lock_pid' = IF lock_pid = Writer THEN Ghost ELSE lock_pid
    /\ holding' = [p \in Proc |-> IF holding[p] = Writer THEN Ghost ELSE holding[p]]
    /\ current_offset' = 0
    /\ save_timecode' = current_timecode /\ save_offset' = 0
    /\ IF Slipping
       THEN slips' = slips + 1 /\ since' = current_timecode + 1
       ELSE UNCHANGED <<slips, since>>
    /\ UNCHANGED <<spin, current_timecode, ring, getVars, disturbed, begun>>

\* The constructor finds the file stamped and sets nothing in it.  The pid is
\* another one now.
Reopen ==
    /\ pc[Writer] = "dead" /\ lives < MaxLives
    /\ lives' = lives + 1
    /\ Goto(Writer, "idle")
    /\ lock_pid' = IF lock_pid = Writer THEN Ghost ELSE lock_pid
    /\ holding' = [p \in Proc |-> IF holding[p] = Writer THEN Ghost ELSE holding[p]]
    /\ save_timecode' = current_timecode /\ save_offset' = current_offset
    /\ IF Slipping
       THEN slips' = slips + 1 /\ since' = current_timecode + 1
       ELSE UNCHANGED <<slips, since>>
    /\ UNCHANGED <<spin, ipc, ring, getVars, disturbed, begun>>

LifeNext ==
    \/ Reopen
    \/ /\ Next
       /\ begun' = IF save_timecode' > begun THEN save_timecode' ELSE begun
       /\ UNCHANGED <<lives, slips, since>>

LifeSpec == LifeInit /\ [][LifeNext]_<<vars, lifeVars>>

-----------------------------------------------------------------------------
\* Frame t has been overwritten, or is being overwritten, by some writer.  One
\* killed between the two stores leaves its frame in the ring unannounced, and
\* its successor writes the same frame again into the record after it: every
\* slip brings the writer one record closer to what is being read.
LifeOverrun(t) == begun + slips >= t + N

LifeHeld(t) == since <= t /\ t <= current_timecode /\ ~LifeOverrun(t)

\* What a get( ) returns is the frame asked for, whole, whether it was written
\* before or after the writer was killed in the middle of some other one.
LifeIntegrity ==
    \A r \in Readers :
        (/\ pc[r] = "hit"
         /\ ~LifeOverrun(timecode[r])
         /\ timecode[r] = 0 => ~disturbed[r])
           => data[r] = timecode[r] /\ size[r] = timecode[r]

\* A get( ) that overlaps no put( ), finished or not, finds every frame the ring
\* holds; after a slip those are the ones written since.
LifeGetHits ==
    \A r \in Readers : pc[r] = "miss" /\ LifeHeld(timecode[r]) => disturbed[r]

\* The frames held are where get( ) looks for them, and complete, although a
\* killed writer leaves a record half filled.
LifeIntact ==
    ~Slipping => \A t \in Timecode :
           LifeHeld(t) => ring[Locate(current_offset, current_timecode, t)] = FrameRecord(t)

\* The ring implements the store that RestartedStore promises: the frames, and
\* what a killed writer costs the readers.
Restarted == INSTANCE RestartedStore WITH
    latest  <- current_timecode,
    writing <- save_timecode # current_timecode,
    lost    <- slips,
    status  <- [r \in Readers |->
                  IF pc[r] \in {"idle", "hit", "miss", "dead"} THEN pc[r] ELSE "busy"],
    asked   <- timecode,
    answer  <- [r \in Readers |->
                  IF pc[r] = "hit" THEN <<size[r], data[r]>> ELSE <<-1, -1>>]

RestartedSpec == Restarted!RestartSpec

-----------------------------------------------------------------------------
(* Why they hold: the inductive invariant.  Everything is counted from the  *)
(* record that current_offset names.                                       *)

\* How many records slot s is behind that one.
Behind(s) == IF s <= current_offset THEN current_offset - s ELSE current_offset - s + N

\* The frame that belongs in that record by the count of the frames published.
Newest == IF Slipping THEN current_timecode + 1 ELSE current_timecode

\* Some put( ) has begun to fill the record after it.
Begun == begun = current_timecode + 1 /\ ~Slipping
Cell(s) == s = NextOffset(current_offset) /\ Begun

\* Only the latest frame may have been begun and not published.
HistoryInv ==
    /\ begun \in Int /\ (begun = current_timecode \/ begun = current_timecode + 1)
    /\ save_timecode <= begun
    /\ slips \in Nat
    /\ since \in Nat /\ since <= current_timecode + 1

\* Every record is blank or whole, but for the one being filled, which its
\* writer may have left so.
WholeInv ==
    \A s \in Slot :
        \/ Cell(s)
        \/ ring[s] = BlankRecord /\ Behind(s) > Newest + slips
        \/ ring[s] = FrameRecord(ring[s].timecode)

\* No record is younger than its position says, but for the slips.
AgeInv ==
    \A s \in Slot :
        \/ ring[s].timecode = 0
        \/ ring[s].timecode + Behind(s) <= Newest + slips
        \/ Cell(s) /\ ring[s].timecode = current_timecode + 1

\* What was written since the last slip is where its position says.
HeldInv ==
    \A s \in Slot :
        LET t == Newest - Behind(s) IN
          since <= t /\ ~LifeOverrun(t) => ring[s] = FrameRecord(t)

\* The record being filled, field by field.
FillInv ==
    /\ pc[Writer] \in LockPC \cup (PutPC \ {"current", "unlock"})
         => save_offset = NextOffset(current_offset)
    /\ pc[Writer] \in {"valid", "timecode", "memcpy", "memcpying"}
         => ring[save_offset].length = save_timecode
    /\ pc[Writer] \in {"timecode", "memcpy", "memcpying"} => ring[save_offset].valid
    /\ pc[Writer] \in {"memcpy", "memcpying"}
         => ring[save_offset].timecode = save_timecode
    /\ pc[Writer] \in LockPC \cup {"offset", "current"}
         => ring[save_offset] = FrameRecord(save_timecode)

\* The answer to r's call is under the promise of LifeIntegrity.
LifeSound(r) == ~LifeOverrun(timecode[r]) /\ (timecode[r] = 0 => ~disturbed[r])

LifeGetInvOf(r) ==
    /\ pc[r] = "old" => timecode[r] <= current_timecode
    /\ pc[r] \in Checked => 0 <= timecode[r] /\ timecode[r] <= current_timecode
    /\ pc[r] = "offset_read" => seen[r] \in Slot
    /\ pc[r] = "timecode_read" => timecode[r] <= seen[r] /\ seen[r] <= current_timecode
    /\ pc[r] = "length" /\ ~LifeOverrun(timecode[r]) => slot[r] \in Slot
    /\ pc[r] = "match" /\ LifeSound(r) /\ ring[slot[r]].timecode = timecode[r]
         => size[r] = timecode[r]
    /\ pc[r] \in Matched /\ LifeSound(r)
         => ring[slot[r]] = FrameRecord(timecode[r]) /\ size[r] = timecode[r]
    /\ pc[r] = "memcpying" /\ LifeSound(r) => data[r] = timecode[r]
    /\ pc[r] = "hit" /\ LifeSound(r) => size[r] = timecode[r] /\ data[r] = timecode[r]

LifeGetInv == \A r \in Readers : LifeGetInvOf(r)

\* A call no put( ) has overlapped sees one consistent pair.
LifeQuietInvOf(r) ==
    ~disturbed[r] =>
      /\ Calling(r) => current_timecode = save_timecode
      /\ pc[r] = "offset_read" => seen[r] = current_offset
      /\ pc[r] = "timecode_read" => seen[r] = current_timecode
      /\ pc[r] \in Located \cup {"length"} /\ ~LifeOverrun(timecode[r])
           => slot[r] = Locate(current_offset, current_timecode, timecode[r])
      /\ pc[r] \in {"reject", "miss"} => ~LifeHeld(timecode[r])

LifeQuietInv == \A r \in Readers : LifeQuietInvOf(r)

LifeInv ==
    /\ RingTypeOK /\ PutInv
    /\ HistoryInv /\ WholeInv /\ AgeInv /\ HeldInv /\ FillInv
    /\ LifeGetInv /\ LifeQuietInv
=============================================================================
