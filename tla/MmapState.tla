------------------------------ MODULE MmapState ------------------------------
(***************************************************************************)
(* The shared scoreboard clock: src/core/mmap_state.cpp, as clockd         *)
(* (clockd.cpp 50-63) and the ingest programs (uyvy_ingest.cpp 58) use it. *)
(*                                                                         *)
(* clockd puts every clock value it receives, the ingest programs get the  *)
(* value of the moment and stamp a frame with it.  Each of these programs  *)
(* is started and killed at any time, and comes back under another pid.    *)
(* The value is one aligned 32-bit word, copied with one load or store.    *)
(*                                                                         *)
(* Clock values are numbered in the order the scoreboard sends them;       *)
(* datagrams get lost, so numbers may be skipped.                          *)
(***************************************************************************)
EXTENDS SpinLock

CONSTANTS Clockds,   \* the pids clockd runs under, one after the other
          Ingests,   \* the pids of the ingest programs
          MaxClock   \* bound on the values received

ASSUME StateProcAssumption == Proc = Clockds \cup Ingests /\ Clockds \cap Ingests = {}
ASSUME MaxClockAssumption == MaxClock \in Nat

VARIABLES magic,     \* mmapped_ipc->magic == MAGIC
          clock,     \* mmapped_ipc->data
          sent,      \* the last value the scoreboard sent
          local,     \* put( ): the value to store; get( ): the value loaded
          atLeast    \* history: what get( ) must not be older than

stateVars == <<magic, clock, sent, local, atLeast>>
vars == <<lockVars, stateVars>>

StatePC == {"unborn", "open", "own", "stamp", "bind", "idle", "memcpy", "unlock", "done"}

TypeOK ==
    /\ LockTypeOK
    /\ pc \in [Proc -> {"dead"} \cup StatePC \cup LockPC]
    /\ magic \in BOOLEAN
    /\ {clock, sent} \subseteq 0 .. MaxClock
    /\ local \in [Proc -> 0 .. MaxClock]
    /\ atLeast \in [Proc -> 0 .. MaxClock]

\* The file exists and reads as zero; no program runs.
Init ==
    /\ LockInit
    /\ pc = [p \in Proc |-> "unborn"]
    /\ magic = FALSE /\ clock = 0 /\ sent = 0
    /\ local = [p \in Proc |-> 0]
    /\ atLeast = [p \in Proc |-> 0]

Running(p) == pc[p] \notin {"unborn", "dead"}

\* p has gone through its start; if it is clockd, the port is its own.
Bound(p) == pc[p] \in {"idle", "memcpy", "unlock", "done"} \cup LockPC

-----------------------------------------------------------------------------
(* The constructor, and the start of clockd.                                *)

Start(p) ==
    /\ Step(p, "unborn", "open")
    /\ UNCHANGED stateVars

\* Once the file is open, clockd still has to bind its port.
Opened(p) == IF p \in Clockds THEN "bind" ELSE "idle"

\* The first to open the file takes the lock and does not give it back.
Open(p) ==
    /\ Step(p, "open", IF magic THEN Opened(p) ELSE "own")
    /\ UNCHANGED stateVars

OpenOwn(p) ==
    /\ pc[p] = "own"
    /\ lock_pid' = p
    /\ Goto(p, "stamp")
    /\ UNCHANGED <<spin, holding, stateVars>>

OpenStamp(p) ==
    /\ Step(p, "stamp", Opened(p))
    /\ magic' = TRUE
    /\ UNCHANGED <<clock, sent, local, atLeast>>

\* Variant: clockd goes on without the port.
BindAnyway(p) ==
    /\ Step(p, "bind", "idle")
    /\ UNCHANGED stateVars

\* A second clockd ends here, when it has been through the constructor.
Bind(p) ==
    /\ pc[p] = "bind"
    /\ IF \E q \in Clockds : Bound(q) THEN Die(p) ELSE Step(p, "bind", "idle")
    /\ UNCHANGED stateVars

-----------------------------------------------------------------------------
(* put( ) and get( ).                                                       *)

PutBegin(p) ==
    /\ p \in Clockds
    /\ Step(p, "idle", "lock")
    /\ \E c \in sent + 1 .. MaxClock :
         sent' = c /\ local' = [local EXCEPT ![p] = c]
    /\ UNCHANGED <<magic, clock, atLeast>>

GetBegin(p) ==
    /\ p \in Ingests
    /\ Step(p, "idle", "lock")
    /\ atLeast' = [atLeast EXCEPT ![p] = clock]
    /\ UNCHANGED <<magic, clock, sent, local>>

Locked(p) ==
    /\ LockReturn(p, "memcpy")
    /\ UNCHANGED stateVars

PutCopy(p) ==
    /\ p \in Clockds
    /\ Step(p, "memcpy", "unlock")
    /\ clock' = local[p]
    /\ UNCHANGED <<magic, sent, local, atLeast>>

\* Variant: nothing is copied, and the caller keeps what it had.
GetCopyNothing(p) ==
    /\ p \in Ingests
    /\ Step(p, "memcpy", "unlock")
    /\ UNCHANGED <<magic, clock, sent, local, atLeast>>

GetCopy(p) ==
    /\ p \in Ingests
    /\ Step(p, "memcpy", "unlock")
    /\ local' = [local EXCEPT ![p] = clock]
    /\ UNCHANGED <<magic, clock, sent, atLeast>>

Unlocked(p) ==
    /\ Unlock(p, "unlock", "done")
    /\ UNCHANGED stateVars

\* The caller goes on; the next get( ) may not be older than this one.
Return(p) ==
    /\ Step(p, "done", "idle")
    /\ UNCHANGED stateVars

-----------------------------------------------------------------------------
LockStep(p) ==
    /\ LockSpin(p) \/ CheckRead(p) \/ CheckStat(p)
    /\ UNCHANGED stateVars

Kill(p) ==
    /\ Running(p)
    /\ Die(p)
    /\ UNCHANGED stateVars

Call(p) ==
    \/ Open(p) \/ OpenOwn(p) \/ OpenStamp(p) \/ Bind(p)
    \/ Locked(p) \/ PutCopy(p) \/ GetCopy(p) \/ Unlocked(p) \/ Return(p)
    \/ LockStep(p)

Next == \E p \in Proc : Start(p) \/ PutBegin(p) \/ GetBegin(p) \/ Call(p) \/ Kill(p)

Spec == Init /\ [][Next]_vars

\* A program inside the constructor, put( ) or get( ) runs on until killed.
FairSpec == Spec /\ \A p \in Proc : WF_vars(Call(p))

-----------------------------------------------------------------------------
\* Whatever was killed, restarted or opened at the same time, a get( ) returns
\* a value that was sent, no older than what the file held when it was called,
\* and no older than what the same program saw before.
ClockFresh ==
    \A p \in Ingests :
        pc[p] = "done" => atLeast[p] <= local[p] /\ local[p] <= sent

ClockNeverBack ==
    [][/\ clock' >= clock
       /\ \A p \in Ingests : pc'[p] # "dead" => local'[p] >= local[p]]_vars
-----------------------------------------------------------------------------
(* Why they hold: the inductive invariant.                                  *)

\* A put( ) that has not copied yet.
Putting(p) == pc[p] \in LockPC \cup {"memcpy"}

\* One clockd at a time has the port, so the value it is about to store is the
\* last one sent; and nothing loaded is newer than what the file holds.
ClockInv ==
    /\ \A p, q \in Clockds : Bound(p) /\ Bound(q) => p = q
    /\ clock <= sent
    /\ \A p \in Clockds : Putting(p) => local[p] = sent
    /\ \A p \in Ingests :
          /\ local[p] <= clock /\ atLeast[p] <= clock
          /\ pc[p] \in {"unlock", "done"} => atLeast[p] <= local[p]

StateInv == TypeOK /\ ClockInv
=============================================================================
