------------------------------ MODULE SpinLock ------------------------------
(***************************************************************************)
(* The lock word of a shared-memory file, as MmapBuffer and MmapState use  *)
(* it: src/core/mmap_buffer.cpp 126-165, src/core/mmap_state.cpp 89-128    *)
(* (the two texts are the same).                                           *)
(*                                                                         *)
(* lock( ) is                                                              *)
(*     while (compare_and_swap(&lock_pid, 0, my_pid)) { ++counter; ... }   *)
(* so the loop goes round while the swap SUCCEEDS and ends at the first    *)
(* swap that fails: a free word is taken on the first turn and ends the    *)
(* loop on the second; a word another process has set ends it at once.     *)
(* This module is the translation of that text, not of its intention.      *)
(*                                                                         *)
(* The module has no Init and no Next: a component EXTENDS it, declares    *)
(* its own variables and gives the control points before and after the     *)
(* call.  pc[p] is "lock" inside the loop, "check" and "stat" inside       *)
(* check_lock( ).                                                          *)
(***************************************************************************)
EXTENDS Integers

CONSTANTS Proc,       \* the processes that map the file (their pids)
          Free,       \* pid 0: nobody holds the lock
          Threshold   \* DEADLOCK_THRESHOLD

ASSUME FreeAssumption == Free \notin Proc
ASSUME ThresholdAssumption == Threshold \in Nat

VARIABLES lock_pid,   \* mmapped_ipc->lock_pid
          pc,         \* the control point of each process
          spin,       \* lock( ): counter
          holding     \* check_lock( ): holding_pid

lockVars == <<lock_pid, pc, spin, holding>>

LockPC == {"lock", "check", "stat"}

LockTypeOK ==
    /\ lock_pid \in Proc \cup {Free}
    /\ spin \in [Proc -> 0 .. Threshold + 1]
    /\ holding \in [Proc -> Proc \cup {Free}]

LockInit ==
    /\ lock_pid = Free
    /\ spin = [p \in Proc |-> 0]
    /\ holding = [p \in Proc |-> Free]

\* /proc/<pid> exists.  /proc/0 never does.
Alive(p) == p \in Proc /\ pc[p] # "dead"

Goto(p, to) == pc' = [pc EXCEPT ![p] = to]

\* The swap succeeds: the word becomes p's, and the loop goes round.  The
\* counter only matters up to the threshold, where it saturates.
LockSpin(p) ==
    /\ pc[p] = "lock"
    /\ lock_pid = Free
    /\ lock_pid' = p
    /\ LET counter == spin[p] + 1 IN
         IF counter > Threshold
         THEN /\ spin' = [spin EXCEPT ![p] = Threshold + 1]
              /\ Goto(p, "check")
         ELSE /\ spin' = [spin EXCEPT ![p] = counter]
              /\ UNCHANGED pc
    /\ UNCHANGED holding

\* Variant: the loop ends when the word is the caller's own.
LockReturnOwn(p, to) ==
    /\ pc[p] = "lock"
    /\ lock_pid = p
    /\ spin' = [spin EXCEPT ![p] = 0]
    /\ Goto(p, to)
    /\ UNCHANGED <<lock_pid, holding>>

\* The swap fails, whoever the word belongs to: lock( ) returns.
LockReturn(p, to) ==
    /\ pc[p] = "lock"
    /\ lock_pid # Free
    /\ spin' = [spin EXCEPT ![p] = 0]
    /\ Goto(p, to)
    /\ UNCHANGED <<lock_pid, holding>>

\* check_lock( ): remember who holds the word.
CheckRead(p) ==
    /\ pc[p] = "check"
    /\ holding' = [holding EXCEPT ![p] = lock_pid]
    /\ Goto(p, "stat")
    /\ UNCHANGED <<lock_pid, spin>>

\* check_lock( ): if that process is gone, free the word unless it changed
\* meanwhile.  (A process found dead stays dead, so stat( ) and the swap are
\* one step.)
CheckStat(p) ==
    /\ pc[p] = "stat"
    /\ lock_pid' = IF ~Alive(holding[p]) /\ lock_pid = holding[p]
                   THEN Free ELSE lock_pid
    /\ holding' = [holding EXCEPT ![p] = Free]
    /\ Goto(p, "lock")
    /\ UNCHANGED spin

\* unlock( ) writes 0 without looking at the word.
Unlock(p, from, to) ==
    /\ pc[p] = from
    /\ lock_pid' = Free
    /\ Goto(p, to)
    /\ UNCHANGED <<spin, holding>>

\* The process is killed, wherever it is; the word keeps its pid.
Die(p) ==
    /\ pc[p] # "dead"
    /\ Goto(p, "dead")
    /\ spin' = [spin EXCEPT ![p] = 0]
    /\ holding' = [holding EXCEPT ![p] = Free]
    /\ UNCHANGED lock_pid

\* A step of p that does not touch the lock.
Step(p, from, to) ==
    /\ pc[p] = from
    /\ Goto(p, to)
    /\ UNCHANGED <<lock_pid, spin, holding>>
=============================================================================
