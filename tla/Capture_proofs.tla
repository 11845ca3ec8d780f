---------------------------- MODULE Capture_proofs ----------------------------
(***************************************************************************)
(* Proofs about MmapState: what a get( ) of the clock file returns, for    *)
(* any number of clockd and ingest programs started and killed one after   *)
(* the other, any clock values and any threshold of the lock; then about   *)
(* Capture, which stamps its frames from that file: the clock the frames   *)
(* are stamped with, the buffers of v4l2_ingest, and the instants the      *)
(* fields in the ring show, for any number of buffers, scanlines, pictures *)
(* and clock values.                                                       *)
(***************************************************************************)
EXTENDS Capture, SequenceTheorems, TLAPS

-----------------------------------------------------------------------------
(* The clock file (MmapState).                                              *)

LEMMA ClockdOrIngest ==
    /\ \A p \in Proc : p \in Clockds \/ p \in Ingests
    /\ \A p \in Clockds : p \in Proc /\ p \notin Ingests
    /\ \A p \in Ingests : p \in Proc /\ p \notin Clockds
  BY StateProcAssumption

\* The lock's part of a step.
LEMMA LockTyped ==
    ASSUME TypeOK, NEW p \in Proc,
           \/ UNCHANGED <<lock_pid, spin, holding>>
           \/ \E from, to : Step(p, from, to) \/ Unlock(p, from, to)
           \/ \E to : LockReturn(p, to)
           \/ LockSpin(p) \/ CheckRead(p) \/ CheckStat(p) \/ Die(p)
           \/ lock_pid' = p /\ UNCHANGED <<spin, holding>>
    PROVE  LockTypeOK'
<1>0. lock_pid \in Proc \cup {Free} /\ Threshold \in Nat
  BY ThresholdAssumption DEF TypeOK, LockTypeOK
<1>1. spin \in [Proc -> 0 .. Threshold + 1] /\ holding \in [Proc -> Proc \cup {Free}]
  BY DEF TypeOK, LockTypeOK
<1>2. CASE \/ UNCHANGED <<lock_pid, spin, holding>>
           \/ \E from, to : Step(p, from, to)
  BY <1>0, <1>1, <1>2 DEF Step, LockTypeOK
<1>3. CASE \E from, to : Unlock(p, from, to)
  BY <1>0, <1>1, <1>3 DEF Unlock, LockTypeOK
<1>4. CASE \E to : LockReturn(p, to)
  BY <1>0, <1>1, <1>4 DEF LockReturn, LockTypeOK
<1>5. CASE LockSpin(p)
  BY <1>0, <1>1, <1>5 DEF LockSpin, LockTypeOK
<1>6. CASE CheckRead(p)
  BY <1>0, <1>1, <1>6 DEF CheckRead, LockTypeOK
<1>7. CASE CheckStat(p)
  BY <1>0, <1>1, <1>7 DEF CheckStat, LockTypeOK
<1>8. CASE Die(p)
  BY <1>0, <1>1, <1>8 DEF Die, LockTypeOK
<1>9. CASE lock_pid' = p /\ UNCHANGED <<spin, holding>>
  BY <1>0, <1>1, <1>9 DEF LockTypeOK
<1> QED
  BY <1>2, <1>3, <1>4, <1>5, <1>6, <1>7, <1>8, <1>9

\* A step that leaves the values alone only has to leave the control points in
\* order: no second clockd at work, no put( ) or get( ) entered halfway.
Quiet(p) ==
    /\ UNCHANGED <<clock, sent, local, atLeast>>
    /\ \/ UNCHANGED pc
       \/ \E t \in {"dead"} \cup StatePC \cup LockPC :
            /\ pc' = [pc EXCEPT ![p] = t]
            /\ t \in LockPC \cup {"memcpy"} => Putting(p)
            /\ t \in {"unlock", "done"} => pc[p] \in {"unlock", "done"}
            /\ t \in {"idle", "memcpy", "unlock", "done"} \cup LockPC /\ p \in Clockds =>
                  \A q \in Clockds : Bound(q) => q = p

LEMMA QuietKeeps ==
    ASSUME StateInv, NEW p \in Proc, Quiet(p) PROVE ClockInv'
<1>0. pc \in [Proc -> {"dead"} \cup StatePC \cup LockPC]
  BY DEF StateInv, TypeOK
<1>1. CASE UNCHANGED pc
  BY <1>1 DEF StateInv, ClockInv, Quiet, Bound, Putting
<1>2. CASE ~UNCHANGED pc
  <2>1. PICK t \in {"dead"} \cup StatePC \cup LockPC :
            /\ pc' = [pc EXCEPT ![p] = t]
            /\ t \in LockPC \cup {"memcpy"} => Putting(p)
            /\ t \in {"unlock", "done"} => pc[p] \in {"unlock", "done"}
            /\ t \in {"idle", "memcpy", "unlock", "done"} \cup LockPC /\ p \in Clockds =>
                  \A q \in Clockds : Bound(q) => q = p
    BY <1>2 DEF Quiet
  <2>2. pc'[p] = t /\ \A q \in Proc : q # p => pc'[q] = pc[q]
    BY <1>0, <2>1
  <2>3. \A q, r \in Clockds : Bound(q)' /\ Bound(r)' => q = r
    BY <2>1, <2>2, ClockdOrIngest DEF StateInv, ClockInv, Bound
  <2>4. \A q \in Proc : Putting(q)' => Putting(q)
    BY <2>1, <2>2 DEF Putting
  <2>5. \A q \in Proc : pc'[q] \in {"unlock", "done"} => pc[q] \in {"unlock", "done"}
    BY <2>1, <2>2
  <2> QED
    BY <2>3, <2>4, <2>5, ClockdOrIngest DEF StateInv, ClockInv, Quiet
<1> QED
  BY <1>1, <1>2

-----------------------------------------------------------------------------
LEMMA StateStep == ASSUME StateInv, [Next]_vars PROVE StateInv'
<1> USE DEF StateInv
<1>0. /\ pc \in [Proc -> {"dead"} \cup StatePC \cup LockPC] /\ magic \in BOOLEAN
      /\ clock \in 0 .. MaxClock /\ sent \in 0 .. MaxClock
      /\ local \in [Proc -> 0 .. MaxClock] /\ atLeast \in [Proc -> 0 .. MaxClock]
  BY DEF TypeOK
<1>1. CASE UNCHANGED vars
  BY <1>1 DEF vars, lockVars, stateVars, TypeOK, LockTypeOK, ClockInv, Bound, Putting
<1>2. ASSUME NEW p \in Proc, Start(p) \/ Open(p) \/ OpenStamp(p) \/ Locked(p) \/ Unlocked(p)
                             \/ Return(p) \/ LockStep(p) \/ Kill(p) \/ OpenOwn(p) \/ Bind(p)
      PROVE  StateInv'
  <2>1. Quiet(p)
    <3>1. CASE Start(p)
      BY <1>0, <3>1 DEF Start, Step, Goto, stateVars, Quiet, StatePC, LockPC
    <3>2. CASE Open(p) \/ OpenStamp(p) \/ OpenOwn(p)
      <4>1. UNCHANGED <<clock, sent, local, atLeast>>
        BY <3>2 DEF Open, OpenStamp, OpenOwn, Step, stateVars
      <4>2. PICK t \in {"own", "stamp", Opened(p)} : pc' = [pc EXCEPT ![p] = t]
        BY <3>2 DEF Open, OpenStamp, OpenOwn, Step, Goto
      <4>3. t \in {"own", "stamp", "bind", "idle"} /\ (p \in Clockds => t # "idle")
        BY DEF Opened
      <4> QED
        BY <4>1, <4>2, <4>3 DEF Quiet, StatePC, LockPC
    <3>3. CASE Locked(p) \/ LockStep(p)
      <4>1. Bound(p) /\ Putting(p) /\ UNCHANGED <<clock, sent, local, atLeast>>
        BY <3>3 DEF Locked, LockStep, LockReturn, LockSpin, CheckRead, CheckStat, Bound, Putting,
                    LockPC, stateVars
      <4>2. UNCHANGED pc \/ \E t \in LockPC \cup {"memcpy"} : pc' = [pc EXCEPT ![p] = t]
        BY <3>3 DEF Locked, LockStep, LockReturn, LockSpin, CheckRead, CheckStat, Goto, LockPC
      <4> QED
        BY <4>1, <4>2 DEF Quiet, ClockInv, StatePC, LockPC
    <3>4. CASE Unlocked(p) \/ Return(p)
      <4>1. pc[p] \in {"unlock", "done"} /\ UNCHANGED <<clock, sent, local, atLeast>>
        BY <3>4 DEF Unlocked, Return, Unlock, Step, stateVars
      <4>2. PICK t \in {"done", "idle"} : pc' = [pc EXCEPT ![p] = t]
        BY <3>4 DEF Unlocked, Return, Unlock, Step, Goto
      <4> QED
        BY <4>1, <4>2 DEF Quiet, ClockInv, StatePC, LockPC, Bound
    <3>5. CASE Kill(p)
      BY <3>5 DEF Kill, Die, Goto, stateVars, Quiet, StatePC, LockPC
    <3>6. CASE Bind(p)
      <4>1. UNCHANGED <<clock, sent, local, atLeast>>
        BY <3>6 DEF Bind, stateVars
      <4>2. CASE \E q \in Clockds : Bound(q)
        BY <3>6, <4>1, <4>2 DEF Bind, Die, Goto, Quiet, StatePC, LockPC
      <4>3. CASE ~\E q \in Clockds : Bound(q)
        BY <3>6, <4>1, <4>3 DEF Bind, Step, Goto, Quiet, StatePC, LockPC
      <4> QED
        BY <4>2, <4>3
    <3> QED
      BY <1>2, <3>1, <3>2, <3>3, <3>4, <3>5, <3>6
  <2>2. LockTypeOK'
    <3>1. \/ UNCHANGED <<lock_pid, spin, holding>>
          \/ \E from, to : Unlock(p, from, to)
          \/ \E to : LockReturn(p, to)
          \/ LockSpin(p) \/ CheckRead(p) \/ CheckStat(p) \/ Die(p)
          \/ lock_pid' = p /\ UNCHANGED <<spin, holding>>
      BY <1>2 DEF Start, Open, OpenStamp, OpenOwn, Bind, Locked, Unlocked, Return, LockStep, Kill,
                  Step
    <3> QED
      BY <3>1, LockTyped
  <2>3. /\ pc' \in [Proc -> {"dead"} \cup StatePC \cup LockPC]
        /\ UNCHANGED <<clock, sent, local, atLeast>>
    BY <1>0, <2>1 DEF Quiet
  <2>4. magic' \in BOOLEAN
    BY <1>0, <1>2 DEF Start, Open, OpenStamp, OpenOwn, Bind, Locked, Unlocked, Return, LockStep,
                      Kill, stateVars
  <2>5. TypeOK'
    BY <1>0, <2>2, <2>3, <2>4 DEF TypeOK
  <2> QED
    BY <2>1, <2>5, QuietKeeps
<1>3. ASSUME NEW p \in Proc, PutBegin(p) PROVE StateInv'
  <2>1. PICK c \in sent + 1 .. MaxClock : sent' = c /\ local' = [local EXCEPT ![p] = c]
    BY <1>3 DEF PutBegin
  <2>2. /\ p \in Clockds /\ pc[p] = "idle" /\ pc' = [pc EXCEPT ![p] = "lock"]
        /\ UNCHANGED <<lock_pid, spin, holding, magic, clock, atLeast>>
    BY <1>3 DEF PutBegin, Step, Goto
  <2>3. c \in 0 .. MaxClock /\ sent < c
    BY <1>0, <2>1
  <2>4. TypeOK'
    BY <1>0, <2>1, <2>2, <2>3 DEF TypeOK, LockTypeOK, LockPC
  <2>5. pc'[p] = "lock" /\ \A q \in Proc : q # p => pc'[q] = pc[q] /\ local'[q] = local[q]
    BY <1>0, <2>1, <2>2
  <2>6. \A q \in Clockds : q # p => ~Bound(q)
    BY <2>2 DEF ClockInv, Bound
  <2>7. local'[p] = sent' /\ clock' <= sent'
    BY <1>0, <2>1, <2>2, <2>3 DEF ClockInv
  <2>8. \A q, r \in Clockds : Bound(q)' /\ Bound(r)' => q = r
    BY <2>5, <2>6, ClockdOrIngest DEF Bound
  <2>9. \A q \in Clockds : Putting(q)' => local'[q] = sent'
    BY <2>5, <2>6, <2>7, ClockdOrIngest DEF Bound, Putting, LockPC
  <2>10. \A q \in Ingests : pc'[q] = pc[q] /\ local'[q] = local[q]
    BY <2>2, <2>5, ClockdOrIngest
  <2> QED
    BY <2>2, <2>4, <2>7, <2>8, <2>9, <2>10 DEF ClockInv
<1>4. ASSUME NEW p \in Proc, GetBegin(p) PROVE StateInv'
  <2>1. /\ p \in Ingests /\ pc[p] = "idle" /\ pc' = [pc EXCEPT ![p] = "lock"]
        /\ atLeast' = [atLeast EXCEPT ![p] = clock]
        /\ UNCHANGED <<lock_pid, spin, holding, magic, clock, sent, local>>
    BY <1>4 DEF GetBegin, Step, Goto
  <2>2. TypeOK'
    BY <1>0, <2>1 DEF TypeOK, LockTypeOK, LockPC
  <2>3. /\ pc'[p] = "lock" /\ atLeast'[p] = clock
        /\ \A q \in Proc : q # p => pc'[q] = pc[q] /\ atLeast'[q] = atLeast[q]
    BY <1>0, <2>1
  <2>4. \A q \in Clockds : pc'[q] = pc[q]
    BY <2>1, <2>3, ClockdOrIngest
  <2>5. \A q \in Ingests : /\ local'[q] <= clock' /\ atLeast'[q] <= clock'
                           /\ pc'[q] \in {"unlock", "done"} => atLeast'[q] <= local'[q]
    BY <1>0, <2>1, <2>3, ClockdOrIngest DEF ClockInv
  <2> QED
    BY <2>1, <2>2, <2>4, <2>5 DEF ClockInv, Bound, Putting
<1>5. ASSUME NEW p \in Proc, PutCopy(p) PROVE StateInv'
  <2>1. /\ p \in Clockds /\ pc[p] = "memcpy" /\ pc' = [pc EXCEPT ![p] = "unlock"]
        /\ clock' = local[p]
        /\ UNCHANGED <<lock_pid, spin, holding, magic, sent, local, atLeast>>
    BY <1>5 DEF PutCopy, Step, Goto
  <2>2. TypeOK'
    BY <1>0, <2>1 DEF TypeOK, LockTypeOK, StatePC
  <2>3. clock' = sent /\ clock <= clock'
    BY <2>1 DEF ClockInv, Putting
  <2>4. pc'[p] = "unlock" /\ \A q \in Proc : q # p => pc'[q] = pc[q]
    BY <1>0, <2>1
  <2>5. \A q, r \in Clockds : Bound(q)' /\ Bound(r)' => q = r
    BY <2>1, <2>4, ClockdOrIngest DEF ClockInv, Bound
  <2>6. \A q \in Clockds : Putting(q)' => Putting(q)
    BY <2>1, <2>4, ClockdOrIngest DEF Putting, LockPC
  <2>7. \A q \in Ingests : pc'[q] = pc[q] /\ local'[q] <= clock' /\ atLeast'[q] <= clock'
    BY <1>0, <2>1, <2>3, <2>4, ClockdOrIngest DEF ClockInv
  <2> QED
    BY <1>0, <2>1, <2>2, <2>3, <2>5, <2>6, <2>7 DEF ClockInv
<1>6. ASSUME NEW p \in Proc, GetCopy(p) PROVE StateInv'
  <2>1. /\ p \in Ingests /\ pc[p] = "memcpy" /\ pc' = [pc EXCEPT ![p] = "unlock"]
        /\ local' = [local EXCEPT ![p] = clock]
        /\ UNCHANGED <<lock_pid, spin, holding, magic, clock, sent, atLeast>>
    BY <1>6 DEF GetCopy, Step, Goto
  <2>2. TypeOK'
    BY <1>0, <2>1 DEF TypeOK, LockTypeOK, StatePC
  <2>3. /\ pc'[p] = "unlock" /\ local'[p] = clock
        /\ \A q \in Proc : q # p => pc'[q] = pc[q] /\ local'[q] = local[q]
    BY <1>0, <2>1
  <2>4. \A q \in Clockds : pc'[q] = pc[q] /\ local'[q] = local[q]
    BY <2>1, <2>3, ClockdOrIngest
  <2>5. \A q \in Ingests : /\ local'[q] <= clock' /\ atLeast'[q] <= clock'
                           /\ pc'[q] \in {"unlock", "done"} => atLeast'[q] <= local'[q]
    BY <1>0, <2>1, <2>3, ClockdOrIngest DEF ClockInv
  <2> QED
    BY <2>1, <2>2, <2>4, <2>5 DEF ClockInv, Bound, Putting
<1> QED
  BY <1>1, <1>2, <1>3, <1>4, <1>5, <1>6 DEF Next, Call

LEMMA StateInit == Init => StateInv
<1> SUFFICES ASSUME Init PROVE StateInv
  OBVIOUS
<1>1. 0 \in 0 .. MaxClock /\ 0 \in 0 .. Threshold + 1
  BY MaxClockAssumption, ThresholdAssumption
<1>2. TypeOK
  BY <1>1 DEF Init, LockInit, TypeOK, LockTypeOK, StatePC
<1>3. ClockInv
  BY ClockdOrIngest DEF Init, ClockInv, Bound, Putting, LockPC
<1> QED
  BY <1>2, <1>3 DEF StateInv

\* No step takes the clock, or what a program saw of it, back.
LEMMA NeverBackStep ==
    ASSUME StateInv, [Next]_vars
    PROVE  /\ clock' >= clock
           /\ \A p \in Ingests : pc'[p] # "dead" => local'[p] >= local[p]
<1>0. /\ clock \in 0 .. MaxClock /\ sent \in 0 .. MaxClock
      /\ local \in [Proc -> 0 .. MaxClock]
  BY DEF StateInv, TypeOK
<1>1. CASE UNCHANGED <<clock, local>>
  BY <1>0, <1>1, ClockdOrIngest
<1>2. ASSUME NEW p \in Proc, PutBegin(p) PROVE UNCHANGED clock /\ \A q \in Ingests : local'[q] = local[q]
  BY <1>0, <1>2, ClockdOrIngest DEF PutBegin
<1>3. ASSUME NEW p \in Proc, PutCopy(p) PROVE UNCHANGED local /\ clock' >= clock
  <2>1. clock' = sent
    BY <1>3 DEF PutCopy, Step, StateInv, ClockInv, Putting
  <2> QED
    BY <1>0, <1>3, <2>1 DEF PutCopy, StateInv, ClockInv
<1>4. ASSUME NEW p \in Proc, GetCopy(p) PROVE UNCHANGED clock /\ \A q \in Ingests : local'[q] >= local[q]
  BY <1>0, <1>4, ClockdOrIngest DEF GetCopy, StateInv, ClockInv
<1>5. ASSUME NEW p \in Proc, Bind(p) PROVE UNCHANGED <<clock, local>>
  BY <1>5 DEF Bind, stateVars
<1>6. \/ UNCHANGED <<clock, local>>
      \/ \E p \in Proc : PutBegin(p) \/ PutCopy(p) \/ GetCopy(p) \/ Bind(p)
  BY DEF Next, Call, Start, Open, OpenOwn, OpenStamp, Locked, Unlocked, Return, LockStep, Kill,
         GetBegin, stateVars, vars
<1> QED
  BY <1>0, <1>1, <1>2, <1>3, <1>4, <1>5, <1>6, ClockdOrIngest

\* The inductive invariant.
THEOREM StateInductive == Spec => []StateInv
<1> QED
  BY StateInit, StateStep, PTL DEF Spec

\* Every variable of the clock file and its lock keeps its type.
THEOREM StateTyped == Spec => []TypeOK
<1>1. StateInv => TypeOK
  BY DEF StateInv
<1> QED
  BY <1>1, StateInductive, PTL

\* A get( ) returns a value that was sent, as new as the file was when it began.
THEOREM Fresh == Spec => []ClockFresh
<1>1. StateInv => ClockFresh
  <2> SUFFICES ASSUME StateInv, NEW p \in Ingests, pc[p] = "done"
               PROVE  atLeast[p] <= local[p] /\ local[p] <= sent
    BY DEF ClockFresh
  <2>1. atLeast[p] <= local[p] /\ local[p] <= clock /\ clock <= sent
    BY DEF StateInv, ClockInv
  <2> QED
    BY <2>1, ClockdOrIngest DEF StateInv, TypeOK
<1> QED
  BY <1>1, StateInductive, PTL

\* The clock never goes back, nor does what a program saw of it.
THEOREM NeverBack == Spec => ClockNeverBack
<1>1. StateInv /\ [Next]_vars =>
        [/\ clock' >= clock
         /\ \A p \in Ingests : pc'[p] # "dead" => local'[p] >= local[p]]_vars
  BY NeverBackStep
<1> QED
  BY <1>1, StateInductive, PTL DEF Spec, ClockNeverBack

-----------------------------------------------------------------------------
(* The clock file is used as MmapState says.                                *)

LEMMA TheIngest == Ingest \in Proc /\ Ingest \in Ingests
  BY IngestAssumption, StateProcAssumption

LEMMA ClockPart == ASSUME [CaptureNext]_captureVars PROVE [Next]_vars
<1>1. CASE ClockStep
  BY <1>1 DEF ClockStep, ClockCall, Next
<1>2. CASE StampBegin \/ StampEnd
  BY <1>2, TheIngest DEF StampBegin, StampEnd, Next, Call
<1>3. CASE Exit
  BY <1>3, TheIngest DEF Exit, Kill, Running, Next
<1>4. CASE DriverShoots \/ Read \/ VideoInputFrameArrived \/ Dequeue \/ Merge \/ GiveBack
           \/ EncodeInput \/ Put \/ UNCHANGED captureVars
  BY <1>4 DEF DriverShoots, Read, VideoInputFrameArrived, Dequeue, Merge, GiveBack, EncodeInput,
              Put, captureVars
<1> QED
  BY <1>1, <1>2, <1>3, <1>4 DEF CaptureNext, IngestStep

-----------------------------------------------------------------------------
(* Sequences of buffers.                                                    *)

\* The first of q goes to the end of f.
LEMMA Rotates ==
    ASSUME NEW S, NEW q \in Seq(S), NEW f \in Seq(S), q # <<>>
    PROVE  LET a == q \o f
               b == Tail(q) \o Append(f, Head(q)) IN
           /\ a \in Seq(S) /\ b \in Seq(S) /\ Len(b) = Len(a) /\ Len(a) > 0
           /\ Head(q) = a[1]
           /\ \A i \in 1 .. Len(b) : b[i] = IF i < Len(a) THEN a[i + 1] ELSE a[1]
<1> DEFINE a == q \o f
           x == Head(q)
           r == Tail(q)
           g == Append(f, Head(q))
           b == r \o g
<1>1. /\ x \in S /\ x = q[1] /\ r \in Seq(S) /\ Len(r) = Len(q) - 1 /\ Len(q) \in Nat /\ Len(q) > 0
      /\ \A i \in 1 .. Len(r) : r[i] = q[i + 1]
  BY HeadTailProperties, EmptySeq
<1>2. g \in Seq(S) /\ Len(g) = Len(f) + 1 /\ Len(f) \in Nat
      /\ \A i \in 1 .. Len(g) : g[i] = IF i <= Len(f) THEN f[i] ELSE x
  BY <1>1
<1>3. a \in Seq(S) /\ Len(a) = Len(q) + Len(f)
      /\ \A i \in 1 .. Len(q) + Len(f) : a[i] = IF i <= Len(q) THEN q[i] ELSE f[i - Len(q)]
  BY ConcatProperties
<1> HIDE DEF r, g
<1>4. b \in Seq(S) /\ Len(b) = Len(r) + Len(g)
      /\ \A i \in 1 .. Len(r) + Len(g) : b[i] = IF i <= Len(r) THEN r[i] ELSE g[i - Len(r)]
  BY <1>1, <1>2, ConcatProperties
<1> HIDE DEF a, b, x
<1>5. a[1] = x
  BY <1>1, <1>2, <1>3
<1>6. ASSUME NEW i \in 1 .. Len(b) PROVE b[i] = IF i < Len(a) THEN a[i + 1] ELSE a[1]
  <2>1. CASE i <= Len(r)
    BY <1>1, <1>2, <1>3, <1>4, <2>1
  <2>2. CASE i > Len(r) /\ i < Len(a)
    <3>1. b[i] = f[i - Len(r)]
      <4>1. i \in 1 .. Len(r) + Len(g) /\ i - Len(r) \in 1 .. Len(f)
        BY <1>1, <1>2, <1>3, <1>4, <2>2
      <4>2. b[i] = g[i - Len(r)]
        BY <1>1, <1>4, <2>2, <4>1
      <4> QED
        BY <1>2, <4>1, <4>2
    <3>2. a[i + 1] = f[i + 1 - Len(q)]
      BY <1>1, <1>2, <1>3, <1>4, <2>2
    <3>3. i - Len(r) = i + 1 - Len(q)
      BY <1>1
    <3> QED
      BY <2>2, <3>1, <3>2, <3>3
  <2>3. CASE i = Len(a)
    <3>1. ~(i <= Len(r)) /\ i - Len(r) = Len(f) + 1 /\ i \in 1 .. Len(r) + Len(g)
      BY <1>1, <1>2, <1>3, <1>4, <2>3
    <3>2. b[i] = g[Len(f) + 1]
      BY <1>4, <3>1
    <3>3. g[Len(f) + 1] = x
      BY <1>2
    <3> QED
      BY <1>5, <2>3, <3>2, <3>3
  <2> QED
    BY <1>1, <1>2, <1>3, <1>4, <2>1, <2>2, <2>3
<1> QED
  <2>1. Len(b) = Len(a) /\ Len(a) > 0
    BY <1>1, <1>2, <1>3, <1>4
  <2>2. a = q \o f /\ b = Tail(q) \o Append(f, Head(q)) /\ x = Head(q)
    BY DEF a, b, x, r, g
  <2> QED
    BY <1>3, <1>4, <1>5, <1>6, <2>1, <2>2

\* The first of f is taken out.
LEMMA TakesOut ==
    ASSUME NEW S, NEW q \in Seq(S), NEW f \in Seq(S), f # <<>>
    PROVE  LET a == q \o f
               b == q \o Tail(f) IN
           /\ a \in Seq(S) /\ b \in Seq(S) /\ Len(b) = Len(a) - 1
           /\ Len(q) + 1 \in 1 .. Len(a) /\ Head(f) = a[Len(q) + 1]
           /\ \A i \in 1 .. Len(b) : b[i] = IF i < Len(q) + 1 THEN a[i] ELSE a[i + 1]
<1> DEFINE a == q \o f
           r == Tail(f)
           b == q \o r
<1>1. /\ Head(f) = f[1] /\ r \in Seq(S) /\ Len(r) = Len(f) - 1 /\ Len(f) \in Nat /\ Len(f) > 0
      /\ Len(q) \in Nat
      /\ \A i \in 1 .. Len(r) : r[i] = f[i + 1]
  BY HeadTailProperties, EmptySeq
<1>2. a \in Seq(S) /\ Len(a) = Len(q) + Len(f)
      /\ \A i \in 1 .. Len(q) + Len(f) : a[i] = IF i <= Len(q) THEN q[i] ELSE f[i - Len(q)]
  BY ConcatProperties
<1> HIDE DEF r
<1>3. b \in Seq(S) /\ Len(b) = Len(q) + Len(r)
      /\ \A i \in 1 .. Len(q) + Len(r) : b[i] = IF i <= Len(q) THEN q[i] ELSE r[i - Len(q)]
  BY <1>1, ConcatProperties
<1> HIDE DEF a, b
<1>4. ASSUME NEW i \in 1 .. Len(b) PROVE b[i] = IF i < Len(q) + 1 THEN a[i] ELSE a[i + 1]
  <2>1. CASE i < Len(q) + 1
    <3>1. i <= Len(q) /\ i \in 1 .. Len(q) + Len(r) /\ i \in 1 .. Len(q) + Len(f)
      BY <1>1, <1>3, <2>1
    <3> QED
      BY <1>2, <1>3, <2>1, <3>1
  <2>2. CASE i >= Len(q) + 1
    <3>1. b[i] = f[i - Len(q) + 1]
      <4>1. i \in 1 .. Len(q) + Len(r) /\ ~(i <= Len(q)) /\ i - Len(q) \in 1 .. Len(r)
        BY <1>1, <1>3, <2>2
      <4>2. b[i] = r[i - Len(q)]
        BY <1>3, <4>1
      <4> QED
        BY <1>1, <4>1, <4>2
    <3>2. a[i + 1] = f[i + 1 - Len(q)]
      BY <1>1, <1>2, <1>3, <2>2
    <3>3. i - Len(q) + 1 = i + 1 - Len(q)
      BY <1>1
    <3> QED
      BY <1>1, <2>2, <3>1, <3>2, <3>3
  <2> QED
    BY <1>1, <2>1, <2>2
<1>5. Len(q) + 1 \in 1 .. Len(a) /\ Head(f) = a[Len(q) + 1]
  <2>1. Len(q) + 1 \in 1 .. Len(q) + Len(f) /\ ~(Len(q) + 1 <= Len(q)) /\ Len(q) + 1 - Len(q) = 1
    BY <1>1
  <2>2. a[Len(q) + 1] = f[Len(q) + 1 - Len(q)]
    BY <1>2, <2>1
  <2> QED
    BY <1>1, <1>2, <2>1, <2>2
<1> QED
  BY <1>1, <1>2, <1>3, <1>4, <1>5 DEF a, b, r

\* One is put in between.
LEMMA PutsIn ==
    ASSUME NEW S, NEW q \in Seq(S), NEW f \in Seq(S), NEW x \in S
    PROVE  LET a == q \o f
               b == Append(q, x) \o f IN
           /\ a \in Seq(S) /\ b \in Seq(S) /\ Len(b) = Len(a) + 1 /\ Len(q) \in 0 .. Len(a)
           /\ \A i \in 1 .. Len(b) :
                 b[i] = IF i <= Len(q) THEN a[i] ELSE IF i = Len(q) + 1 THEN x ELSE a[i - 1]
<1> DEFINE a == q \o f
           g == Append(q, x)
           b == g \o f
<1>1. g \in Seq(S) /\ Len(g) = Len(q) + 1 /\ Len(f) \in Nat /\ Len(q) \in Nat
      /\ \A i \in 1 .. Len(g) : g[i] = IF i <= Len(q) THEN q[i] ELSE x
  OBVIOUS
<1>2. a \in Seq(S) /\ Len(a) = Len(q) + Len(f)
      /\ \A i \in 1 .. Len(q) + Len(f) : a[i] = IF i <= Len(q) THEN q[i] ELSE f[i - Len(q)]
  BY ConcatProperties
<1> HIDE DEF g
<1>3. b \in Seq(S) /\ Len(b) = Len(g) + Len(f)
      /\ \A i \in 1 .. Len(g) + Len(f) : b[i] = IF i <= Len(g) THEN g[i] ELSE f[i - Len(g)]
  BY <1>1, ConcatProperties
<1> HIDE DEF a, b
<1>4. ASSUME NEW i \in 1 .. Len(b)
      PROVE  b[i] = IF i <= Len(q) THEN a[i] ELSE IF i = Len(q) + 1 THEN x ELSE a[i - 1]
  <2>1. CASE i <= Len(q) + 1
    BY <1>1, <1>2, <1>3, <2>1
  <2>2. CASE i > Len(q) + 1
    <3>1. b[i] = f[i - Len(g)]
      BY <1>1, <1>3, <2>2
    <3>2. a[i - 1] = f[i - 1 - Len(q)]
      <4>1. i - 1 \in 1 .. Len(q) + Len(f) /\ ~(i - 1 <= Len(q))
        BY <1>1, <1>3, <2>2
      <4> QED
        BY <1>2, <4>1
    <3>3. i - Len(g) = i - 1 - Len(q)
      BY <1>1
    <3> QED
      BY <1>1, <2>2, <3>1, <3>2, <3>3
  <2> QED
    BY <1>1, <2>1, <2>2
<1> QED
  BY <1>1, <1>2, <1>3, <1>4 DEF a, b, g

-----------------------------------------------------------------------------
(* Who has the buffers.                                                     *)

\* The sequence a and the set h have each buffer, once.
Own(h, a) ==
    /\ h \cup {a[i] : i \in 1 .. Len(a)} = Buffer
    /\ \A i, j \in 1 .. Len(a) : i # j => a[i] # a[j]
    /\ \A i \in 1 .. Len(a) : a[i] \notin h

LEMMA Elements ==
    ASSUME NEW a, NEW b, \A i \in 1 .. Len(a) : \E j \in 1 .. Len(b) : b[j] = a[i]
    PROVE  {a[i] : i \in 1 .. Len(a)} \subseteq {b[i] : i \in 1 .. Len(b)}
<1> SUFFICES ASSUME NEW i \in 1 .. Len(a) PROVE a[i] \in {b[j] : j \in 1 .. Len(b)}
  OBVIOUS
<1>1. PICK j \in 1 .. Len(b) : b[j] = a[i]
  OBVIOUS
<1> QED
  BY <1>1

LEMMA OwnRotated ==
    ASSUME NEW h, NEW a, NEW b, Own(h, a), Len(a) \in Nat, Len(a) > 0, Len(b) = Len(a),
           \A i \in 1 .. Len(b) : b[i] = IF i < Len(a) THEN a[i + 1] ELSE a[1]
    PROVE  Own(h, b)
<1>1. \A i \in 1 .. Len(a) : \E j \in 1 .. Len(b) : b[j] = a[i]
  <2> SUFFICES ASSUME NEW i \in 1 .. Len(a) PROVE \E j \in 1 .. Len(b) : b[j] = a[i]
    OBVIOUS
  <2>1. CASE i = 1
    <3>1. b[Len(a)] = a[1] /\ Len(a) \in 1 .. Len(b)
      OBVIOUS
    <3> QED
      BY <2>1, <3>1
  <2>2. CASE i > 1
    <3>1. i - 1 \in 1 .. Len(b) /\ i - 1 < Len(a) /\ i - 1 + 1 = i
      BY <2>2
    <3>2. b[i - 1] = a[i]
      BY <3>1
    <3> QED
      BY <3>1, <3>2
  <2> QED
    BY <2>1, <2>2
<1>2. \A i \in 1 .. Len(b) : \E j \in 1 .. Len(a) : b[i] = a[j]
  OBVIOUS
<1>3. {b[i] : i \in 1 .. Len(b)} = {a[i] : i \in 1 .. Len(a)}
  <2>1. ASSUME NEW x \in {b[i] : i \in 1 .. Len(b)} PROVE x \in {a[i] : i \in 1 .. Len(a)}
    <3>1. PICK i \in 1 .. Len(b) : x = b[i]
      OBVIOUS
    <3>2. PICK j \in 1 .. Len(a) : b[i] = a[j]
      BY <1>2
    <3> QED
      BY <3>1, <3>2
  <2>2. ASSUME NEW x \in {a[i] : i \in 1 .. Len(a)} PROVE x \in {b[i] : i \in 1 .. Len(b)}
    <3>1. PICK i \in 1 .. Len(a) : x = a[i]
      OBVIOUS
    <3>2. PICK j \in 1 .. Len(b) : b[j] = a[i]
      BY <1>1
    <3> QED
      BY <3>1, <3>2
  <2> QED
    BY <2>1, <2>2
<1>4. \A i, j \in 1 .. Len(b) : i # j => b[i] # b[j]
  <2> SUFFICES ASSUME NEW i \in 1 .. Len(b), NEW j \in 1 .. Len(b), i # j PROVE b[i] # b[j]
    OBVIOUS
  <2>1. PICK m \in 1 .. Len(a) : b[i] = a[m] /\ m = IF i < Len(a) THEN i + 1 ELSE 1
    OBVIOUS
  <2>2. PICK n \in 1 .. Len(a) : b[j] = a[n] /\ n = IF j < Len(a) THEN j + 1 ELSE 1
    OBVIOUS
  <2>3. m # n
    BY <2>1, <2>2
  <2> QED
    BY <2>1, <2>2, <2>3 DEF Own
<1> QED
  BY <1>2, <1>3, <1>4 DEF Own

LEMMA OwnTaken ==
    ASSUME NEW h, NEW a, NEW b, NEW m \in 1 .. Len(a), Own(h, a), Len(a) \in Nat,
           Len(b) = Len(a) - 1,
           \A i \in 1 .. Len(b) : b[i] = IF i < m THEN a[i] ELSE a[i + 1]
    PROVE  Own(h \cup {a[m]}, b)
<1>1. \A i \in 1 .. Len(a) : i # m => \E j \in 1 .. Len(b) : b[j] = a[i]
  <2> SUFFICES ASSUME NEW i \in 1 .. Len(a), i # m PROVE \E j \in 1 .. Len(b) : b[j] = a[i]
    OBVIOUS
  <2>1. CASE i < m
    BY <2>1
  <2>2. CASE i > m
    <3>1. i - 1 \in 1 .. Len(b) /\ ~(i - 1 < m) /\ i - 1 + 1 = i
      BY <2>2
    <3>2. b[i - 1] = a[i]
      BY <3>1
    <3> QED
      BY <3>1, <3>2
  <2> QED
    BY <2>1, <2>2
<1>2. \A i \in 1 .. Len(b) : \E j \in 1 .. Len(a) : b[i] = a[j] /\ j # m /\ j = IF i < m THEN i ELSE i + 1
  OBVIOUS
<1>3. \A i, j \in 1 .. Len(b) : i # j => b[i] # b[j]
  <2> SUFFICES ASSUME NEW i \in 1 .. Len(b), NEW j \in 1 .. Len(b), i # j PROVE b[i] # b[j]
    OBVIOUS
  <2>1. PICK k \in 1 .. Len(a) : b[i] = a[k] /\ k = IF i < m THEN i ELSE i + 1
    BY <1>2
  <2>2. PICK n \in 1 .. Len(a) : b[j] = a[n] /\ n = IF j < m THEN j ELSE j + 1
    BY <1>2
  <2>3. k # n
    BY <2>1, <2>2
  <2> QED
    BY <2>1, <2>2, <2>3 DEF Own
<1>4. {a[i] : i \in 1 .. Len(a)} = {b[i] : i \in 1 .. Len(b)} \cup {a[m]}
  <2>1. ASSUME NEW x \in {b[i] : i \in 1 .. Len(b)} PROVE x \in {a[i] : i \in 1 .. Len(a)}
    <3>1. PICK i \in 1 .. Len(b) : x = b[i]
      OBVIOUS
    <3>2. PICK j \in 1 .. Len(a) : b[i] = a[j]
      BY <1>2
    <3> QED
      BY <3>1, <3>2
  <2>2. ASSUME NEW i \in 1 .. Len(a) PROVE a[i] \in {b[j] : j \in 1 .. Len(b)} \cup {a[m]}
    <3>1. CASE i = m
      BY <3>1
    <3>2. CASE i # m
      <4>1. PICK j \in 1 .. Len(b) : b[j] = a[i]
        BY <1>1, <3>2
      <4> QED
        BY <4>1
    <3> QED
      BY <3>1, <3>2
  <2> QED
    BY <2>1, <2>2
<1>5. \A i \in 1 .. Len(b) : b[i] \notin h \cup {a[m]}
  BY <1>2 DEF Own
<1> QED
  BY <1>3, <1>4, <1>5 DEF Own

LEMMA OwnGiven ==
    ASSUME NEW h, NEW a, NEW b, NEW m \in 0 .. Len(a), NEW x \in h, Own(h, a), Len(a) \in Nat,
           Len(b) = Len(a) + 1,
           \A i \in 1 .. Len(b) : b[i] = IF i <= m THEN a[i] ELSE IF i = m + 1 THEN x ELSE a[i - 1]
    PROVE  Own(h \ {x}, b)
<1>1. \A i \in 1 .. Len(a) : \E j \in 1 .. Len(b) : b[j] = a[i]
  <2> SUFFICES ASSUME NEW i \in 1 .. Len(a) PROVE \E j \in 1 .. Len(b) : b[j] = a[i]
    OBVIOUS
  <2>1. CASE i <= m
    BY <2>1
  <2>2. CASE i > m
    <3>1. i + 1 \in 1 .. Len(b) /\ ~(i + 1 <= m) /\ i + 1 # m + 1 /\ i + 1 - 1 = i
      BY <2>2
    <3>2. b[i + 1] = a[i]
      BY <3>1
    <3> QED
      BY <3>1, <3>2
  <2> QED
    BY <2>1, <2>2
<1>2. m + 1 \in 1 .. Len(b) /\ b[m + 1] = x
  OBVIOUS
<1>3. \A i \in 1 .. Len(b) : i # m + 1 =>
         \E j \in 1 .. Len(a) : b[i] = a[j] /\ j = IF i <= m THEN i ELSE i - 1
  OBVIOUS
<1>4. \A i, j \in 1 .. Len(b) : i # j => b[i] # b[j]
  <2> SUFFICES ASSUME NEW i \in 1 .. Len(b), NEW j \in 1 .. Len(b), i # j PROVE b[i] # b[j]
    OBVIOUS
  <2>1. CASE i = m + 1 \/ j = m + 1
    BY <1>2, <1>3, <2>1 DEF Own
  <2>2. CASE i # m + 1 /\ j # m + 1
    <3>1. PICK k \in 1 .. Len(a) : b[i] = a[k] /\ k = IF i <= m THEN i ELSE i - 1
      BY <1>3, <2>2
    <3>2. PICK n \in 1 .. Len(a) : b[j] = a[n] /\ n = IF j <= m THEN j ELSE j - 1
      BY <1>3, <2>2
    <3>3. k # n
      BY <2>2, <3>1, <3>2
    <3> QED
      BY <3>1, <3>2, <3>3 DEF Own
  <2> QED
    BY <2>1, <2>2
<1>5. {b[i] : i \in 1 .. Len(b)} = {a[i] : i \in 1 .. Len(a)} \cup {x}
  <2>1. ASSUME NEW i \in 1 .. Len(b) PROVE b[i] \in {a[j] : j \in 1 .. Len(a)} \cup {x}
    <3>1. CASE i = m + 1
      BY <1>2, <3>1
    <3>2. CASE i # m + 1
      <4>1. PICK j \in 1 .. Len(a) : b[i] = a[j]
        BY <1>3, <3>2
      <4> QED
        BY <4>1
    <3> QED
      BY <3>1, <3>2
  <2>2. {a[i] : i \in 1 .. Len(a)} \subseteq {b[i] : i \in 1 .. Len(b)}
    BY <1>1, Elements
  <2>3. x \in {b[i] : i \in 1 .. Len(b)}
    BY <1>2
  <2> QED
    BY <2>1, <2>2, <2>3
<1>6. \A i \in 1 .. Len(b) : b[i] \notin h \ {x}
  BY <1>2, <1>3 DEF Own
<1> QED
  BY <1>4, <1>5, <1>6 DEF Own

-----------------------------------------------------------------------------
(* Pictures.                                                                *)

SourceType ==
    /\ program \in {"v4l2", "uyvy", "decklink"}
    /\ at \in {"wait", "encode", "clock", "stamping", "put", "give back"}
    /\ shot \in 0 .. MaxPicture
    /\ queued \in Seq(Buffer) /\ filled \in Seq(Buffer)
    /\ content \in [Buffer -> Image]
    /\ {p_current, p_last} \subseteq Buffer \cup {NULL}
    /\ input \in Image /\ read_so_far \in 0 .. 2 * FieldHeight
    /\ frm \in Frame /\ frames \in Seq(Frame)

LEMMA Sizes ==
    /\ FieldHeight \in Nat /\ FieldHeight > 0 /\ Margin \in Nat /\ Margin % 2 = 0
    /\ MaxPicture \in Nat /\ NBuffers \in Nat /\ NBuffers > 0
  BY FieldHeightAssumption, MarginAssumption, MaxPictureAssumption, BuffersAssumption

LEMMA NullNoBuffer == NULL \notin Buffer
  BY Sizes DEF NULL, Buffer

\* The instant and the place a scanline is shot at.
LEMMA ShotAt ==
    ASSUME NEW n \in 0 .. MaxPicture, NEW i \in 0 .. 2 * FieldHeight + Margin
    PROVE  /\ Shoot(n, i, FALSE) \in SUBSET Scan /\ Shoot(n, i, TRUE) \in SUBSET Scan
           /\ \A s \in Shoot(n, i, FALSE) : s[1] = IF Odd(i) THEN 2 * n + 1 ELSE 2 * n
           /\ \A s \in Shoot(n, i, TRUE) : s[1] = IF Odd(i) THEN 2 * n ELSE 2 * n + 1
<1>1. 2 * n \in Moment /\ 2 * n + 1 \in Moment
  BY Sizes DEF Moment
<1>2. Shoot(n, i, FALSE) = {<<IF Odd(i) THEN 2 * n + 1 ELSE 2 * n, i>>}
  BY DEF Shoot, Odd
<1>3. Shoot(n, i, TRUE) = {<<IF Odd(i) THEN 2 * n ELSE 2 * n + 1, i>>}
  BY DEF Shoot, Odd
<1> QED
  <2>1. {<<2 * n, i>>, <<2 * n + 1, i>>} \subseteq Scan
    BY <1>1 DEF Scan
  <2>2. <<2 * n, i>>[1] = 2 * n /\ <<2 * n + 1, i>>[1] = 2 * n + 1
    OBVIOUS
  <2> QED
    BY <1>2, <1>3, <2>1, <2>2

LEMMA LineShot ==
    ASSUME NEW i \in Line
    PROVE  /\ i \in Nat /\ i < 2 * FieldHeight
           /\ i \in 0 .. 2 * FieldHeight + Margin /\ i + Margin \in 0 .. 2 * FieldHeight + Margin
           /\ Odd(i + Margin) <=> Odd(i)
  BY Sizes DEF Line, Odd

LEMMA PictureImage ==
    ASSUME NEW n \in 0 .. MaxPicture
    PROVE  /\ Picture(n) \in Image
           /\ \A i \in Line : \A s \in Picture(n)[i] : s[1] = IF Odd(i) THEN 2 * n + 1 ELSE 2 * n
<1>1. ASSUME NEW i \in Line
      PROVE  /\ Shoot(n, i, FALSE) \in SUBSET Scan
             /\ \A s \in Shoot(n, i, FALSE) : s[1] = IF Odd(i) THEN 2 * n + 1 ELSE 2 * n
  BY ShotAt, LineShot
<1> QED
  BY <1>1 DEF Picture, Image

\* A picture has one number.
LEMMA NumberIs ==
    ASSUME NEW n \in 0 .. MaxPicture
    PROVE  NumberOf(Picture(n)) = n
<1>1. ASSUME NEW m \in 0 .. MaxPicture, Picture(n) = Picture(m) PROVE m = n
  <2>1. 0 \in Line /\ ~Odd(0)
    BY Sizes DEF Line, Odd
  <2>2. Shoot(n, 0, FALSE) = {<<2 * n, 0>>} /\ Shoot(m, 0, FALSE) = {<<2 * m, 0>>}
    BY <2>1 DEF Shoot
  <2>3. Picture(n)[0] = Shoot(n, 0, FALSE) /\ Picture(m)[0] = Shoot(m, 0, FALSE)
    BY <2>1 DEF Picture
  <2>4. <<2 * n, 0>> = <<2 * m, 0>>
    BY <1>1, <2>2, <2>3
  <2>5. 2 * n = 2 * m
    BY <2>4
  <2> QED
    BY <2>5
<1>2. NumberOf(Picture(n)) \in 0 .. MaxPicture /\ Picture(n) = Picture(NumberOf(Picture(n)))
  BY DEF NumberOf
<1> QED
  BY <1>1, <1>2

LEMMA BlankImage == Blank \in Image
  BY DEF Blank, Image

-----------------------------------------------------------------------------
(* Where the buffers are, as Own says.                                      *)

Held == {p_last, IF at = "wait" THEN p_last ELSE p_current} \ {NULL}

OwnedInv ==
    program = "v4l2" =>
        /\ Own(Held, queued \o filled)
        /\ at # "wait" => p_last # NULL /\ p_current # p_last

LEMMA OwnedParts == ASSUME SourceType PROVE BuffersOwned <=> OwnedInv
<1>1. queued \o filled \in Seq(Buffer)
  BY ConcatProperties DEF SourceType
<1>2. DOMAIN (queued \o filled) = 1 .. Len(queued \o filled)
  BY <1>1
<1> QED
  BY <1>2 DEF BuffersOwned, OwnedInv, Own, Held

\* The invariant but for what MmapState's proofs say.
RestInv == SourceType /\ LoopInv /\ OwnedInv /\ PicturesInv /\ FramesInv

LEMMA RestParts == CaptureInv <=> StateInv /\ RestInv
<1>1. CaptureTypeOK <=> TypeOK /\ SourceType
  BY DEF CaptureTypeOK, SourceType
<1> QED
  BY <1>1, OwnedParts DEF CaptureInv, RestInv, StateInv

\* Buffers in different places are different.
LEMMA OwnApart ==
    ASSUME SourceType, OwnedInv, program = "v4l2"
    PROVE  /\ \A i \in 1 .. Len(queued) : queued[i] \notin Held
           /\ \A j \in 1 .. Len(filled) : filled[j] \notin Held
           /\ \A i \in 1 .. Len(queued), j \in 1 .. Len(filled) : queued[i] # filled[j]
<1> DEFINE a == queued \o filled
<1>1. Len(queued) \in Nat /\ Len(filled) \in Nat /\ queued \in Seq(Buffer) /\ filled \in Seq(Buffer)
  <2>1. queued \in Seq(Buffer) /\ filled \in Seq(Buffer)
    BY DEF SourceType
  <2> QED
    BY <2>1, LenProperties
<1>2. /\ Len(a) = Len(queued) + Len(filled)
      /\ \A i \in 1 .. Len(queued) + Len(filled) :
            a[i] = IF i <= Len(queued) THEN queued[i] ELSE filled[i - Len(queued)]
  BY <1>1, ConcatProperties
<1>3. Own(Held, a)
  BY DEF OwnedInv
<1> HIDE DEF a
<1>4. \A i \in 1 .. Len(queued) : i \in 1 .. Len(a) /\ queued[i] = a[i]
  BY <1>1, <1>2
<1>5. ASSUME NEW j \in 1 .. Len(filled)
      PROVE  Len(queued) + j \in 1 .. Len(a) /\ filled[j] = a[Len(queued) + j]
  <2>1. Len(queued) + j \in 1 .. Len(a) /\ ~(Len(queued) + j <= Len(queued)) /\ Len(queued) + j - Len(queued) = j
    BY <1>1, <1>2
  <2> QED
    BY <1>2, <2>1
<1>6. ASSUME NEW i \in 1 .. Len(queued), NEW j \in 1 .. Len(filled) PROVE queued[i] # filled[j]
  <2>1. i # Len(queued) + j
    BY <1>1
  <2> QED
    BY <1>3, <1>4, <1>5, <2>1 DEF Own
<1> QED
  BY <1>3, <1>4, <1>5, <1>6 DEF Own

-----------------------------------------------------------------------------
(* The order of the pictures in the buffers.                                *)

\* PicturesInv of contents c, n pictures shot, the buffers f filled and the
\* newest one dequeued.
NumberedIn(c, n, b) == NumberOf(c[b]) \in 0 .. n /\ c[b] = Picture(NumberOf(c[b]))

Ordered(c, n, f, new) ==
    /\ \A i \in 1 .. Len(f) : NumberedIn(c, n, f[i])
    /\ \A i, j \in 1 .. Len(f) : i < j => NumberOf(c[f[i]]) < NumberOf(c[f[j]])
    /\ new # NULL => /\ NumberedIn(c, n, new)
                    /\ \A i \in 1 .. Len(f) : NumberOf(c[new]) < NumberOf(c[f[i]])

OrderedInv ==
    program = "v4l2" =>
        /\ Ordered(content, shot, filled, Newest)
        /\ at = "encode" => /\ NumberedIn(content, shot, p_last)
                           /\ NumberOf(content[p_last]) < NumberOf(content[p_current])

LEMMA OrderedParts == filled \in Seq(Buffer) => (PicturesInv <=> OrderedInv)
<1> SUFFICES ASSUME filled \in Seq(Buffer) PROVE PicturesInv <=> OrderedInv
  OBVIOUS
<1>1. DOMAIN filled = 1 .. Len(filled)
  OBVIOUS
<1> QED
  BY <1>1 DEF PicturesInv, OrderedInv, Ordered, NumberedIn, Numbered, Number

LEMMA OrderStays ==
    ASSUME NEW c, NEW d, NEW f, NEW new, NEW n \in Nat, NEW m \in Nat, n <= m,
           Ordered(c, n, f, new), \A i \in 1 .. Len(f) : d[f[i]] = c[f[i]],
           new # NULL => d[new] = c[new]
    PROVE  Ordered(d, m, f, new)
<1>1. ASSUME NEW b, d[b] = c[b], NumberedIn(c, n, b) PROVE NumberedIn(d, m, b)
  <2>1. NumberOf(c[b]) \in 0 .. m
    BY <1>1 DEF NumberedIn
  <2> QED
    BY <1>1, <2>1 DEF NumberedIn
<1>2. \A i \in 1 .. Len(f) : NumberedIn(d, m, f[i])
  BY <1>1 DEF Ordered
<1>3. \A i, j \in 1 .. Len(f) : i < j => NumberOf(d[f[i]]) < NumberOf(d[f[j]])
  BY DEF Ordered
<1>4. new # NULL => /\ NumberedIn(d, m, new)
                   /\ \A i \in 1 .. Len(f) : NumberOf(d[new]) < NumberOf(d[f[i]])
  BY <1>1 DEF Ordered
<1> QED
  BY <1>2, <1>3, <1>4 DEF Ordered

LEMMA OrderAppended ==
    ASSUME NEW c \in [Buffer -> Image], NEW n \in Nat, n + 1 <= MaxPicture,
           NEW f \in Seq(Buffer), NEW new \in Buffer \cup {NULL}, NEW b \in Buffer,
           Ordered(c, n, f, new), \A i \in 1 .. Len(f) : f[i] # b, new # b
    PROVE  Ordered([c EXCEPT ![b] = Picture(n + 1)], n + 1, Append(f, b), new)
<1> DEFINE d == [c EXCEPT ![b] = Picture(n + 1)]
           g == Append(f, b)
<1>1. /\ Len(f) \in Nat /\ Len(g) = Len(f) + 1 /\ g[Len(f) + 1] = b
      /\ \A i \in 1 .. Len(f) : g[i] = f[i] /\ f[i] \in Buffer
  OBVIOUS
<1>2. d[b] = Picture(n + 1) /\ \A x \in Buffer : x # b => d[x] = c[x]
  OBVIOUS
<1>3. NumberOf(d[b]) = n + 1 /\ NumberedIn(d, n + 1, b)
  BY <1>2, NumberIs, Sizes DEF NumberedIn
<1> HIDE DEF d, g
<1>4. \A i \in 1 .. Len(f) : d[f[i]] = c[f[i]]
  BY <1>1, <1>2
<1>5. Ordered(d, n + 1, f, new)
  <2>1. new # NULL => d[new] = c[new]
    BY <1>2
  <2> QED
    BY <1>4, <2>1, OrderStays
<1>6. \A i \in 1 .. Len(f) : NumberOf(d[f[i]]) \in Nat /\ NumberOf(d[f[i]]) < n + 1
  BY <1>4 DEF Ordered, NumberedIn
<1>7. \A i \in 1 .. Len(g) : i \in 1 .. Len(f) \/ i = Len(f) + 1
  BY <1>1
<1>8. \A i \in 1 .. Len(g) : NumberedIn(d, n + 1, g[i])
  BY <1>1, <1>3, <1>5, <1>7 DEF Ordered
<1>9. ASSUME NEW i \in 1 .. Len(g), NEW j \in 1 .. Len(g), i < j
      PROVE  NumberOf(d[g[i]]) < NumberOf(d[g[j]])
  <2>1. i \in 1 .. Len(f) /\ g[i] = f[i]
    BY <1>1, <1>7, <1>9
  <2>2. CASE j \in 1 .. Len(f)
    BY <1>1, <1>5, <1>9, <2>1, <2>2 DEF Ordered
  <2>3. CASE j = Len(f) + 1
    BY <1>1, <1>3, <1>6, <2>1, <2>3
  <2> QED
    BY <1>7, <2>2, <2>3
<1>10. ASSUME new # NULL, NEW i \in 1 .. Len(g)
       PROVE  NumberOf(d[new]) < NumberOf(d[g[i]])
  <2>1. CASE i \in 1 .. Len(f)
    BY <1>1, <1>5, <1>10, <2>1 DEF Ordered
  <2>2. CASE i = Len(f) + 1
    <3>1. d[new] = c[new]
      BY <1>2, <1>10
    <3>2. NumberOf(d[new]) < n + 1
      BY <1>10, <3>1 DEF Ordered, NumberedIn
    <3> QED
      BY <1>1, <1>3, <2>2, <3>2
  <2> QED
    BY <1>7, <2>1, <2>2
<1> QED
  BY <1>5, <1>8, <1>9, <1>10 DEF Ordered, d, g

LEMMA OrderTaken ==
    ASSUME NEW c, NEW n, NEW f \in Seq(Buffer), NEW new, f # <<>>, Ordered(c, n, f, new)
    PROVE  Ordered(c, n, Tail(f), Head(f))
<1>1. /\ Head(f) = f[1] /\ Len(Tail(f)) = Len(f) - 1 /\ Len(f) \in Nat /\ Len(f) > 0
      /\ \A i \in 1 .. Len(Tail(f)) : Tail(f)[i] = f[i + 1]
  BY HeadTailProperties, EmptySeq
<1> DEFINE g == Tail(f)
<1> HIDE DEF g
<1>2. \A i \in 1 .. Len(g) : g[i] = f[i + 1] /\ i + 1 \in 1 .. Len(f) /\ 1 < i + 1
  BY <1>1 DEF g
<1>3. 1 \in 1 .. Len(f)
  BY <1>1
<1>4. ASSUME NEW i \in 1 .. Len(g), NEW j \in 1 .. Len(g), i < j
      PROVE  NumberOf(c[g[i]]) < NumberOf(c[g[j]])
  BY <1>2, <1>4 DEF Ordered
<1> QED
  BY <1>1, <1>2, <1>3, <1>4 DEF Ordered, g

-----------------------------------------------------------------------------
(* The frames.                                                              *)

LEMMA ImageTimes ==
    ASSUME NEW p \in Image, NEW i \in Line, NEW s \in p[i]
    PROVE  s[1] \in Moment /\ s[1] \in Int
  BY DEF Image, Scan, Moment

LEMMA FrameTimes ==
    ASSUME SourceType
    PROVE  /\ \A k \in DOMAIN frames : frames[k] \in Frame
           /\ \A k \in DOMAIN frames : \A i \in Line : \A s \in frames[k].f1[i] : s[1] \in Int
           /\ \A i \in Line : \A s \in frm.f1[i] : s[1] \in Int
<1>1. \A k \in DOMAIN frames : frames[k] \in Frame
  <2>1. frames \in Seq(Frame)
    BY DEF SourceType
  <2> QED
    BY <2>1
<1>2. \A f \in Frame : f.f1 \in Image
  BY DEF Frame
<1>3. frm.f1 \in Image
  BY <1>2 DEF SourceType
<1> QED
  BY <1>1, <1>2, <1>3, ImageTimes

LEMMA UntilLater ==
    ASSUME SourceType, NEW t \in Int, NEW u \in Int, t <= u, Until(t)
    PROVE  Until(u)
  BY FrameTimes DEF Until

Stamped == {"clock", "stamping", "put"}

\* The frames stay as they are when nothing but the source or the clock moves.
LEMMA FramesStay ==
    ASSUME SourceType, FramesInv, UNCHANGED <<frames, frm, program>>,
           at \in Stamped <=> at' \in Stamped,
           at \in Stamped => IF program = "v4l2" THEN Now' = Now ELSE shot' = shot,
           at \notin Stamped => Now \in Int /\ Now' \in Int /\ Now <= Now'
    PROVE  FramesInv'
<1>1. /\ ~frm'.interlaced
      /\ \A k \in DOMAIN frames' : \E t, u \in Moment : t < u /\ Timed(frames[k], t, u)'
      /\ \A k, l \in DOMAIN frames' : k < l => \A i, j \in Line :
            \A s \in frames'[k].f1[i], r \in frames'[l].f1[j] : s[1] < r[1]
  BY DEF FramesInv, Timed
<1>2. ASSUME NEW t PROVE Until(t)' <=> Until(t)
  BY DEF Until
<1>3. CASE at \in Stamped
  <2>1. PICK t \in Moment, u \in Moment :
              /\ t < u /\ Timed(frm, t, u) /\ Until(t - 1)
              /\ u <= IF program = "v4l2" THEN Now ELSE 2 * shot + 1
    BY <1>3 DEF FramesInv, Stamped
  <2>2. Timed(frm, t, u)' /\ Until(t - 1)'
    BY <2>1, <1>2 DEF Timed
  <2>3. u <= IF program' = "v4l2" THEN Now' ELSE 2 * shot' + 1
    BY <1>3, <2>1
  <2> QED
    BY <1>1, <1>3, <2>1, <2>2, <2>3 DEF FramesInv, Stamped
<1>4. CASE at \notin Stamped
  <2>1. Until(Now)
    BY <1>4 DEF FramesInv, Stamped
  <2>2. Until(Now')
    BY <1>4, <2>1, UntilLater
  <2>3. Until(Now)'
    BY <2>2 DEF Until
  <2> QED
    BY <1>1, <1>4, <2>3 DEF FramesInv, Stamped
<1> QED
  BY <1>3, <1>4

\* Steps of the clock file, and of what has nothing to do with the pictures.
LEMMA RestSame ==
    ASSUME RestInv, UNCHANGED <<sourceVars, programVars>>
    PROVE  RestInv'
<1>1. UNCHANGED <<shot, queued, filled, content, input, read_so_far, program, at, p_current,
                  p_last, frm, frames>>
  BY DEF sourceVars, programVars
<1>2. SourceType'
  BY <1>1 DEF RestInv, SourceType
<1>3. LoopInv'
  BY <1>1 DEF RestInv, LoopInv, Shoot
<1>4. PicturesInv' /\ OwnedInv'
  <2>1. Held' = Held
    BY <1>1 DEF Held
  <2>2. OwnedInv
    BY DEF RestInv
  <2>3. Own(Held, queued \o filled)' <=> Own(Held, queued \o filled)
    BY <1>1, <2>1 DEF Own
  <2>4. OwnedInv'
    BY <1>1, <2>2, <2>3 DEF OwnedInv
  <2> QED
    BY <1>1, <2>4 DEF RestInv, PicturesInv, Numbered, Number, Newest
<1>5. FramesInv'
  BY <1>1 DEF RestInv, FramesInv, Timed, Until, Now, Number
<1> QED
  BY <1>2, <1>3, <1>4, <1>5 DEF RestInv

-----------------------------------------------------------------------------
(* v4l2_ingest                                                              *)

LEMMA DriverKeeps == ASSUME RestInv, DriverShoots PROVE RestInv'
<1> USE DEF RestInv
<1>0. /\ program = "v4l2" /\ shot' = shot + 1 /\ shot < MaxPicture
      /\ UNCHANGED <<program, at, p_current, p_last, frm, frames, input, read_so_far>>
  BY DEF DriverShoots, programVars
<1>1. /\ shot \in Nat /\ shot' \in 0 .. MaxPicture /\ shot' \in Nat /\ shot <= shot' /\ shot' <= MaxPicture
      /\ queued \in Seq(Buffer) /\ filled \in Seq(Buffer) /\ content \in [Buffer -> Image]
  <2>1. /\ shot \in 0 .. MaxPicture
        /\ queued \in Seq(Buffer) /\ filled \in Seq(Buffer) /\ content \in [Buffer -> Image]
    BY DEF SourceType
  <2>2. shot' = shot + 1 /\ shot < MaxPicture /\ MaxPicture \in Nat
    BY <1>0, Sizes
  <2> QED
    BY <2>1, <2>2
<1>2. LoopInv'
  BY <1>0 DEF LoopInv
<1>3. /\ Held' = Held /\ Newest' = Newest
      /\ p_last \in Held \cup {NULL} /\ (at # "wait" => p_current \in Held \cup {NULL})
  BY <1>0 DEF Held, Newest
<1>o. OrderedInv
  BY <1>1, OrderedParts
<1>4. CASE queued = <<>>
  <2>1. UNCHANGED <<queued, filled, content>>
    BY <1>4 DEF DriverShoots
  <2>2. SourceType'
    BY <1>0, <1>1, <2>1 DEF SourceType
  <2>3. OwnedInv'
    BY <1>0, <1>3, <2>1 DEF OwnedInv, Own
  <2>4. OrderedInv'
    <3>1. Ordered(content, shot', filled, Newest)
      BY <1>0, <1>1, <1>o, OrderStays DEF OrderedInv
    <3>2. at = "encode" => NumberedIn(content, shot', p_last)
      BY <1>0, <1>1, <1>o DEF OrderedInv, NumberedIn
    <3> QED
      BY <1>0, <1>3, <1>o, <2>1, <3>1, <3>2 DEF OrderedInv, Ordered, NumberedIn
  <2>5. FramesInv'
    BY <1>0, <2>1 DEF FramesInv, Timed, Until, Now, Number
  <2>6. (filled \in Seq(Buffer))'
    BY <1>1, <2>1
  <2>7. PicturesInv'
    BY <2>4, <2>6, OrderedParts, PTL
  <2> QED
    BY <1>2, <2>2, <2>3, <2>5, <2>7
<1>5. CASE queued # <<>>
  <2>1. PICK b \in Buffer : b = Head(queued)
    BY <1>1, <1>5, HeadTailProperties
  <2>2. /\ queued' = Tail(queued) /\ filled' = Append(filled, b)
        /\ content' = [content EXCEPT ![b] = Picture(shot')]
    BY <1>5, <2>1 DEF DriverShoots, Picture
  <2>3. Tail(queued) \in Seq(Buffer) /\ b = queued[1] /\ 1 \in 1 .. Len(queued)
    BY <1>1, <1>5, <2>1, HeadTailProperties, EmptySeq, LenProperties
  <2>4. (filled \in Seq(Buffer))'
    BY <1>1, <2>2
  <2>5. content' \in [Buffer -> Image]
    BY <1>1, <2>2, PictureImage
  <2>6. SourceType'
    BY <1>0, <1>1, <2>2, <2>3, <2>4, <2>5 DEF SourceType
  <2>7. OwnedInv'
    <3> DEFINE a == queued \o filled
               c == Tail(queued) \o Append(filled, b)
    <3>1. /\ a \in Seq(Buffer) /\ Len(c) = Len(a) /\ Len(a) > 0
          /\ \A i \in 1 .. Len(c) : c[i] = IF i < Len(a) THEN a[i + 1] ELSE a[1]
      BY <1>1, <1>5, <2>1, Rotates
    <3>2. Own(Held, a) /\ Len(a) \in Nat
      BY <1>0, <3>1, LenProperties DEF OwnedInv
    <3> HIDE DEF a
    <3>3. Own(Held, c)
      BY <3>1, <3>2, OwnRotated
    <3>4. Own(Held', queued' \o filled')
      BY <1>3, <2>2, <3>3
    <3> QED
      BY <1>0, <3>4 DEF OwnedInv, Own
  <2>8. b \notin Held /\ \A j \in 1 .. Len(filled) : filled[j] # b
    BY <1>0, <2>3, OwnApart
  <2>9. Held \subseteq Buffer
    BY DEF Held, SourceType
  <2>10. \A x \in Held : content'[x] = content[x]
    BY <1>1, <2>2, <2>8, <2>9
  <2>11. OrderedInv'
    <3>1. Newest \in Held \cup {NULL}
      BY DEF Held, Newest
    <3>2. Newest \in Buffer \cup {NULL} /\ Newest # b
      BY <2>8, <2>9, <3>1, NullNoBuffer
    <3>3. Ordered([content EXCEPT ![b] = Picture(shot + 1)], shot + 1, Append(filled, b), Newest)
      BY <1>0, <1>1, <1>o, <2>8, <3>2, OrderAppended DEF OrderedInv
    <3>4. Ordered(content', shot', filled', Newest')
      BY <1>0, <1>3, <2>2, <3>3
    <3>5. at = "encode" => content'[p_last] = content[p_last] /\ content'[p_current] = content[p_current]
      BY <1>0, <1>3, <2>10 DEF OwnedInv, LoopInv
    <3>6. at = "encode" => /\ NumberedIn(content', shot', p_last)
                          /\ NumberOf(content'[p_last]) < NumberOf(content'[p_current])
      BY <1>0, <1>1, <1>o, <3>5 DEF OrderedInv, NumberedIn
    <3> QED
      BY <1>0, <3>4, <3>6 DEF OrderedInv, Ordered, NumberedIn
  <2>12. PicturesInv'
    BY <2>4, <2>11, OrderedParts, PTL
  <2>13. FramesInv'
    <3>1. Now' = Now
      BY <1>0, <1>3, <2>10 DEF Now, Number
    <3> QED
      BY <1>0, <3>1 DEF FramesInv, Timed, Until
  <2> QED
    BY <1>2, <2>6, <2>7, <2>12, <2>13
<1> QED
  BY <1>4, <1>5

\* A buffer number is never too large to compare.
LEMMA Counted ==
    ASSUME RestInv, NEW b \in Buffer, NumberedIn(content, shot, b)
    PROVE  Number(b) \in Nat /\ 2 * Number(b) \in Int /\ Number(b) <= shot /\ Number(b) \in 0 .. MaxPicture
<1>1. shot \in 0 .. MaxPicture
  BY DEF RestInv, SourceType
<1> QED
  BY <1>1, Sizes DEF NumberedIn, Number

LEMMA DequeueKeeps == ASSUME RestInv, Dequeue PROVE RestInv'
<1> USE DEF RestInv
<1>0. /\ program = "v4l2" /\ at = "wait" /\ filled # <<>>
      /\ filled' = Tail(filled) /\ p_current' = Head(filled)
      /\ UNCHANGED <<program, frm, frames, shot, queued, content, input, read_so_far>>
      /\ IF p_last = NULL THEN p_last' = Head(filled) /\ at' = at
                          ELSE at' = "encode" /\ p_last' = p_last
  BY DEF Dequeue, Waiting
<1>1. /\ queued \in Seq(Buffer) /\ filled \in Seq(Buffer) /\ p_last \in Buffer \cup {NULL}
      /\ shot \in 0 .. MaxPicture /\ shot \in Nat
  <2>1. /\ queued \in Seq(Buffer) /\ filled \in Seq(Buffer) /\ {p_current, p_last} \subseteq Buffer \cup {NULL}
        /\ shot \in 0 .. MaxPicture
    BY DEF SourceType
  <2> QED
    BY <2>1
<1>2. PICK b \in Buffer : b = Head(filled)
  BY <1>0, <1>1, HeadTailProperties
<1>3. b # NULL /\ b = filled[1] /\ 1 \in 1 .. Len(filled) /\ Tail(filled) \in Seq(Buffer)
  BY <1>0, <1>1, <1>2, NullNoBuffer, HeadTailProperties, EmptySeq, LenProperties
<1>4. SourceType'
  <2>1. /\ (filled \in Seq(Buffer))' /\ ({p_current, p_last} \subseteq Buffer \cup {NULL})'
        /\ at' \in {"wait", "encode"}
    BY <1>0, <1>1, <1>2, <1>3
  <2> QED
    BY <1>0, <2>1 DEF SourceType
<1>5. LoopInv'
  BY <1>0, <1>2, <1>3 DEF LoopInv
<1>6. Held = {p_last} \ {NULL} /\ b \notin Held
  BY <1>0, <1>3, OwnApart DEF Held
<1>7. Held' = Held \cup {b}
  BY <1>0, <1>2, <1>3, <1>6 DEF Held
<1>8. OwnedInv'
  <2> DEFINE a == queued \o filled
             c == queued \o Tail(filled)
  <2>1. /\ a \in Seq(Buffer) /\ Len(c) = Len(a) - 1 /\ Len(queued) + 1 \in 1 .. Len(a)
        /\ b = a[Len(queued) + 1]
        /\ \A i \in 1 .. Len(c) : c[i] = IF i < Len(queued) + 1 THEN a[i] ELSE a[i + 1]
    BY <1>0, <1>1, <1>2, TakesOut
  <2>2. Own(Held, a) /\ Len(a) \in Nat
    BY <1>0, <2>1, LenProperties DEF OwnedInv
  <2> HIDE DEF a, c
  <2>3. PICK m \in 1 .. Len(a) : m = Len(queued) + 1
    BY <2>1
  <2>4. \A i \in 1 .. Len(c) : c[i] = IF i < m THEN a[i] ELSE a[i + 1]
    BY <2>1, <2>3
  <2>5. Own(Held \cup {a[m]}, c)
    BY <2>1, <2>2, <2>4, OwnTaken
  <2>6. Own(Held', c)
    BY <1>7, <2>1, <2>3, <2>5
  <2>7. Own(Held', queued' \o filled')
    BY <1>0, <2>6 DEF c
  <2>8. at' # "wait" => p_last' # NULL /\ p_current' # p_last'
    BY <1>0, <1>2, <1>6
  <2> QED
    BY <2>7, <2>8 DEF OwnedInv, Own
<1>9. OrderedInv /\ Ordered(content, shot, filled, p_last)
  BY <1>0, <1>1, OrderedParts DEF OrderedInv, Newest
<1>10. PicturesInv'
  <2>1. Ordered(content, shot, filled', b)
    BY <1>0, <1>1, <1>2, <1>9, OrderTaken
  <2>2. Newest' = b
    BY <1>0, <1>2 DEF Newest
  <2>3. Ordered(content', shot', filled', Newest')
    BY <1>0, <2>1, <2>2
  <2>4. at' = "encode" => /\ NumberedIn(content, shot, p_last)
                         /\ NumberOf(content[p_last]) < NumberOf(content[b])
    BY <1>0, <1>3, <1>9 DEF Ordered
  <2>5. OrderedInv'
    BY <1>0, <1>2, <2>3, <2>4 DEF OrderedInv, Ordered, NumberedIn
  <2>6. (filled \in Seq(Buffer))'
    BY <1>0, <1>3
  <2> QED
    BY <2>5, <2>6, OrderedParts, PTL
<1>11. FramesInv'
  <2>1. NumberedIn(content, shot, b) /\ (p_last # NULL => NumberedIn(content, shot, p_last))
    BY <1>3, <1>9 DEF Ordered
  <2>2. 2 * Number(b) \in Int /\ 0 <= 2 * Number(b)
    BY <1>2, <2>1, Counted
  <2>3. p_last # NULL => 2 * Number(p_last) \in Int
    BY <1>1, <2>1, Counted
  <2>4. Now = IF p_last = NULL THEN 0 ELSE 2 * Number(p_last)
    BY <1>0 DEF Now
  <2>5. Now' = IF p_last = NULL THEN 2 * Number(b) ELSE 2 * Number(p_last)
    BY <1>0, <1>2, <1>3 DEF Now, Number
  <2>6. Now \in Int /\ Now' \in Int /\ Now <= Now'
    BY <2>2, <2>3, <2>4, <2>5
  <2>7. at \notin Stamped /\ at' \notin Stamped
    BY <1>0 DEF Stamped
  <2> QED
    BY <1>0, <2>6, <2>7, FramesStay
<1> QED
  BY <1>4, <1>5, <1>8, <1>10, <1>11

LEMMA WovenImage ==
    ASSUME NEW p \in Image, NEW q \in Image
    PROVE  make_odd_dominant(p, q) \in Image
  BY DEF make_odd_dominant, Image

LEMMA EncodedFrame ==
    ASSUME frm \in Frame, NEW p \in Image
    PROVE  /\ Encoded(p) \in Frame /\ Encoded(p).f1 = p /\ Encoded(p).odd_dominant
           /\ Encoded(p).interlaced = frm.interlaced
           /\ LET f == [Encoded(p) EXCEPT !.interlaced = FALSE] IN
              f \in Frame /\ f.f1 = p /\ f.odd_dominant /\ ~f.interlaced
  BY DEF Encoded, Frame

LEMMA MergeKeeps == ASSUME RestInv, Merge PROVE RestInv'
<1> USE DEF RestInv
<1>0. /\ program = "v4l2" /\ at = "encode" /\ at' = "clock"
      /\ content' = [content EXCEPT ![p_last] = make_odd_dominant(content[p_last], content[p_current])]
      /\ frm' = [Encoded(content'[p_last]) EXCEPT !.interlaced = FALSE]
      /\ UNCHANGED <<program, p_current, p_last, frames, shot, queued, filled, input, read_so_far>>
  BY DEF Merge
<1>1. /\ p_last \in Buffer /\ p_current \in Buffer /\ p_current # p_last
      /\ filled \in Seq(Buffer) /\ content \in [Buffer -> Image] /\ frm \in Frame
      /\ shot \in Nat /\ shot \in 0 .. MaxPicture
  <2>1. p_last # NULL /\ p_current # NULL /\ p_current # p_last
    BY <1>0 DEF OwnedInv, LoopInv
  <2>2. /\ filled \in Seq(Buffer) /\ content \in [Buffer -> Image] /\ frm \in Frame
        /\ {p_current, p_last} \subseteq Buffer \cup {NULL} /\ shot \in 0 .. MaxPicture
    BY DEF SourceType
  <2> QED
    BY <2>1, <2>2
<1>2. PICK w \in Image : w = make_odd_dominant(content[p_last], content[p_current])
  BY <1>1, WovenImage
<1>3. content' = [content EXCEPT ![p_last] = w] /\ content' \in [Buffer -> Image] /\ content'[p_last] = w
  BY <1>0, <1>1, <1>2
<1>4. frm' \in Frame /\ frm'.f1 = w /\ frm'.odd_dominant /\ ~frm'.interlaced
  BY <1>0, <1>1, <1>3, EncodedFrame
<1>5. SourceType'
  BY <1>0, <1>3, <1>4 DEF SourceType
<1>6. LoopInv'
  BY <1>0 DEF LoopInv
<1>7. Held' = Held /\ p_last \in Held /\ p_current \in Held
  BY <1>0, <1>1, NullNoBuffer DEF Held
<1>8. OwnedInv'
  BY <1>0, <1>7 DEF OwnedInv, Own
<1>9. /\ OrderedInv /\ Ordered(content, shot, filled, p_current)
      /\ NumberedIn(content, shot, p_last) /\ Number(p_last) < Number(p_current)
      /\ NumberedIn(content, shot, p_current)
  BY <1>0, <1>1, OrderedParts, NullNoBuffer DEF OrderedInv, Newest, Ordered, Number
<1>10. content'[p_current] = content[p_current]
  BY <1>1, <1>3
<1>11. PicturesInv'
  <2>1. \A i \in 1 .. Len(filled) : filled[i] \in Buffer /\ filled[i] # p_last
    BY <1>0, <1>1, <1>7, OwnApart
  <2>2. \A i \in 1 .. Len(filled) : content'[filled[i]] = content[filled[i]]
    BY <1>1, <1>3, <2>1
  <2>3. Ordered(content', shot, filled, p_current)
    BY <1>1, <1>9, <1>10, <2>2, OrderStays
  <2>4. Newest' = p_current
    BY <1>0 DEF Newest
  <2>5. OrderedInv'
    BY <1>0, <2>3, <2>4 DEF OrderedInv, Ordered, NumberedIn
  <2>6. (filled \in Seq(Buffer))'
    BY <1>0, <1>1
  <2> QED
    BY <2>5, <2>6, OrderedParts, PTL
<1>12. FramesInv'
  <2>1. /\ Number(p_last) \in Nat /\ Number(p_current) \in Nat
        /\ Number(p_last) \in 0 .. MaxPicture /\ Number(p_current) \in 0 .. MaxPicture
    BY <1>1, <1>9, Counted
  <2>2. PICK t \in Moment, u \in Moment : t = 2 * Number(p_last) + 1 /\ u = 2 * Number(p_current)
    BY <2>1, Sizes DEF Moment
  <2>3. t < u /\ t - 1 = 2 * Number(p_last)
    BY <1>9, <2>1, <2>2
  <2>4. \A i \in Line : \A s \in w[i] : s[1] = IF Odd(i) THEN t ELSE u
    <3>1. content[p_last] = Picture(Number(p_last)) /\ content[p_current] = Picture(Number(p_current))
      BY <1>9 DEF NumberedIn, Number
    <3>2. \A i \in Line : w[i] = IF Odd(i) THEN content[p_last][i] ELSE content[p_current][i]
      BY <1>2 DEF make_odd_dominant
    <3> QED
      BY <2>1, <2>2, <3>1, <3>2, PictureImage
  <2>5. Until(t - 1)'
    <3>1. p_last # NULL /\ at \notin Stamped
      BY <1>0, <1>1, NullNoBuffer DEF Stamped
    <3>2. Until(Now) /\ Now = 2 * Number(p_last)
      BY <1>0, <3>1 DEF FramesInv, Now, Stamped
    <3> QED
      BY <1>0, <2>3, <3>2 DEF Until
  <2>6. Now' = u
    BY <1>0, <1>1, <1>10, <2>2, NullNoBuffer DEF Now, Number
  <2>7. Timed(frm, t, u)'
    BY <1>4, <2>4 DEF Timed
  <2>8. \E x, y \in Moment : /\ x < y /\ Timed(frm, x, y)' /\ Until(x - 1)'
                             /\ y <= IF program' = "v4l2" THEN Now' ELSE 2 * shot' + 1
    <3>1. u <= u
      BY DEF Moment
    <3> QED
      BY <1>0, <2>3, <2>5, <2>6, <2>7, <3>1
  <2>9. /\ ~frm'.interlaced
        /\ \A k \in DOMAIN frames' : \E x, y \in Moment : x < y /\ Timed(frames[k], x, y)'
        /\ \A k, l \in DOMAIN frames' : k < l => \A i, j \in Line :
              \A s \in frames'[k].f1[i], r \in frames'[l].f1[j] : s[1] < r[1]
    BY <1>0, <1>4 DEF FramesInv, Timed
  <2> QED
    BY <1>0, <2>8, <2>9 DEF FramesInv
<1> QED
  BY <1>5, <1>6, <1>8, <1>11, <1>12

LEMMA GiveBackKeeps == ASSUME RestInv, GiveBack PROVE RestInv'
<1> USE DEF RestInv
<1>0. /\ program = "v4l2" /\ at = "give back" /\ at' = "wait" /\ p_last' = p_current
      /\ queued' = Append(queued, p_last)
      /\ UNCHANGED <<program, p_current, frm, frames, shot, filled, content, input, read_so_far>>
  BY DEF GiveBack, LoopInv
<1>1. /\ p_last \in Buffer /\ p_current \in Buffer /\ p_current # p_last
      /\ queued \in Seq(Buffer) /\ filled \in Seq(Buffer)
  <2>1. p_last # NULL /\ p_current # NULL /\ p_current # p_last
    BY <1>0 DEF OwnedInv, LoopInv
  <2>2. /\ queued \in Seq(Buffer) /\ filled \in Seq(Buffer)
        /\ {p_current, p_last} \subseteq Buffer \cup {NULL}
    BY DEF SourceType
  <2> QED
    BY <2>1, <2>2
<1>2. SourceType'
  <2>1. (queued \in Seq(Buffer))'
    BY <1>0, <1>1, AppendProperties
  <2>2. ({p_current, p_last} \subseteq Buffer \cup {NULL})'
    BY <1>0, <1>1
  <2> QED
    BY <1>0, <2>1, <2>2 DEF SourceType
<1>3. LoopInv'
  BY <1>0 DEF LoopInv
<1>4. Held = {p_last, p_current} /\ Held' = Held \ {p_last}
  BY <1>0, <1>1, NullNoBuffer DEF Held
<1>5. OwnedInv'
  <2> DEFINE a == queued \o filled
             c == Append(queued, p_last) \o filled
  <2>1. /\ a \in Seq(Buffer) /\ Len(c) = Len(a) + 1 /\ Len(queued) \in 0 .. Len(a)
        /\ \A i \in 1 .. Len(c) : c[i] = IF i <= Len(queued) THEN a[i]
                                         ELSE IF i = Len(queued) + 1 THEN p_last ELSE a[i - 1]
    BY <1>1, PutsIn
  <2>2. Own(Held, a) /\ Len(a) \in Nat
    BY <1>0, <2>1, LenProperties DEF OwnedInv
  <2> HIDE DEF a, c
  <2>3. PICK m \in 0 .. Len(a) : m = Len(queued)
    BY <2>1
  <2>4. PICK x \in Held : x = p_last
    BY <1>4
  <2>5. \A i \in 1 .. Len(c) : c[i] = IF i <= m THEN a[i] ELSE IF i = m + 1 THEN x ELSE a[i - 1]
    BY <2>1, <2>3, <2>4
  <2>6. Own(Held \ {x}, c)
    BY <2>1, <2>2, <2>5, OwnGiven
  <2>7. Own(Held', queued' \o filled')
    BY <1>0, <1>4, <2>4, <2>6 DEF c
  <2> QED
    BY <1>0, <2>7 DEF OwnedInv, Own
<1>6. PicturesInv'
  BY <1>0 DEF PicturesInv, Newest, Numbered, Number
<1>7. FramesInv'
  <2>1. NumberedIn(content, shot, p_current)
    BY <1>0, <1>1, NullNoBuffer DEF PicturesInv, Newest, Numbered, Number, NumberedIn
  <2>2. 2 * Number(p_current) \in Int /\ 2 * Number(p_current) <= 2 * Number(p_current)
    BY <1>1, <2>1, Counted
  <2>3. Now = 2 * Number(p_current) /\ Now' = 2 * Number(p_current)
    BY <1>0, <1>1, NullNoBuffer DEF Now, Number
  <2>4. at \notin Stamped /\ at' \notin Stamped
    BY <1>0 DEF Stamped
  <2>5. Now \in Int /\ Now' \in Int /\ Now <= Now'
    BY <2>2, <2>3
  <2> QED
    BY <1>0, <2>4, <2>5, FramesStay
<1> QED
  BY <1>2, <1>3, <1>5, <1>6, <1>7

-----------------------------------------------------------------------------
(* uyvy_ingest and decklink_ingest                                          *)

\* Neither has buffers of a driver.
LEMMA NoBuffers ==
    ASSUME program \in {"uyvy", "decklink"}, UNCHANGED program
    PROVE  OwnedInv' /\ PicturesInv'
  BY DEF OwnedInv, PicturesInv

LEMMA ReadKeeps == ASSUME RestInv, Read PROVE RestInv'
<1> USE DEF RestInv
<1>0. PICK k \in 1 .. 2 * FieldHeight - read_so_far :
        LET n == IF read_so_far = 0 THEN shot + 1 ELSE shot IN
        /\ shot' = n
        /\ input' = [i \in Line |-> IF i \in read_so_far .. read_so_far + k - 1
                                    THEN Shoot(n, i, TRUE) ELSE input[i]]
        /\ read_so_far' = read_so_far + k
  BY DEF Read
<1>1. /\ program = "uyvy" /\ at = "wait" /\ (shot < MaxPicture \/ read_so_far > 0)
      /\ UNCHANGED <<program, at, p_current, p_last, frm, frames, queued, filled, content>>
  BY DEF Read, Waiting, programVars
<1>2. /\ shot \in 0 .. MaxPicture /\ read_so_far \in 0 .. 2 * FieldHeight /\ input \in Image
  BY DEF SourceType
<1>3. /\ shot' = IF read_so_far = 0 THEN shot + 1 ELSE shot
      /\ shot' \in 0 .. MaxPicture /\ read_so_far' \in 0 .. 2 * FieldHeight
      /\ read_so_far' = read_so_far + k /\ read_so_far' # 0
  BY <1>0, <1>1, <1>2, Sizes
<1>4. \A i \in Line : input'[i] = IF i \in read_so_far .. read_so_far + k - 1
                                  THEN Shoot(shot', i, TRUE) ELSE input[i]
  BY <1>0
<1>5. input' \in Image
  <2>1. \A i \in Line : Shoot(shot', i, TRUE) \in SUBSET Scan
    BY <1>3, LineShot, ShotAt
  <2> QED
    BY <1>0, <1>2, <2>1 DEF Image
<1>6. SourceType'
  BY <1>1, <1>3, <1>5 DEF SourceType
<1>7. LoopInv'
  <2>1. ASSUME NEW i \in Line, i < read_so_far' PROVE input'[i] = Shoot(shot', i, TRUE)
    <3>1. i \in Nat /\ read_so_far \in Nat
      BY <1>2, LineShot
    <3>2. CASE i >= read_so_far
      <4>1. i \in read_so_far .. read_so_far + k - 1
        BY <1>3, <2>1, <3>1, <3>2
      <4> QED
        BY <1>4, <4>1
    <3>3. CASE i < read_so_far
      <4>1. shot' = shot /\ i \notin read_so_far .. read_so_far + k - 1
        BY <1>2, <1>3, <3>1, <3>3
      <4>2. input[i] = Shoot(shot, i, TRUE)
        BY <1>1, <3>3 DEF LoopInv
      <4> QED
        BY <1>4, <4>1, <4>2
    <3>4. i >= read_so_far \/ i < read_so_far
      BY <3>1
    <3> QED
      BY <3>2, <3>3, <3>4
  <2>2. \A i \in Line : i < read_so_far' => input'[i] = Shoot(shot', i, TRUE)
    BY <2>1
  <2> QED
    BY <1>1, <2>2 DEF LoopInv, Shoot
<1>8. FramesInv'
  <2>1. Now \in Int /\ Now' \in Int /\ Now <= Now'
    BY <1>1, <1>2, <1>3 DEF Now
  <2>2. at \notin Stamped /\ at' \notin Stamped
    BY <1>1 DEF Stamped
  <2> QED
    BY <1>1, <2>1, <2>2, FramesStay
<1> QED
  BY <1>1, <1>6, <1>7, <1>8, NoBuffers

\* A picture of odd dominance is encoded: its second field is the last shot.
LEMMA FrameEncoded ==
    ASSUME SourceType, FramesInv, NEW n \in 0 .. MaxPicture,
           at \notin Stamped, at' = "clock", program' # "v4l2", UNCHANGED frames,
           frm'.odd_dominant, ~frm'.interlaced, shot' = n, Until(2 * n - 1),
           \A i \in Line : \A s \in frm'.f1[i] : s[1] = IF Odd(i) THEN 2 * n ELSE 2 * n + 1
    PROVE  FramesInv'
<1>1. PICK t \in Moment, u \in Moment : t = 2 * n /\ u = 2 * n + 1
  BY Sizes DEF Moment
<1>2. t < u /\ t - 1 = 2 * n - 1 /\ u <= 2 * shot' + 1
  BY <1>1
<1>3. Timed(frm, t, u)' /\ Until(t - 1)'
  BY <1>1, <1>2 DEF Timed, Until
<1>4. /\ \A k \in DOMAIN frames' : \E x, y \in Moment : x < y /\ Timed(frames[k], x, y)'
      /\ \A k, l \in DOMAIN frames' : k < l => \A i, j \in Line :
            \A s \in frames'[k].f1[i], r \in frames'[l].f1[j] : s[1] < r[1]
  BY DEF FramesInv, Timed
<1> QED
  BY <1>2, <1>3, <1>4 DEF FramesInv

LEMMA EncodeKeeps == ASSUME RestInv, EncodeInput PROVE RestInv'
<1> USE DEF RestInv
<1>0. /\ program = "uyvy" /\ at = "wait" /\ at' = "clock" /\ frm' = Encoded(input)
      /\ read_so_far = 2 * FieldHeight
      /\ UNCHANGED <<program, p_current, p_last, frames, shot, queued, filled, content, input, read_so_far>>
  BY DEF EncodeInput, Waiting, sourceVars
<1>1. shot \in 0 .. MaxPicture /\ input \in Image /\ frm \in Frame
  BY DEF SourceType
<1>2. frm' \in Frame /\ frm'.f1 = input /\ frm'.odd_dominant /\ ~frm'.interlaced
  BY <1>0, <1>1, EncodedFrame DEF FramesInv
<1>3. SourceType'
  BY <1>0, <1>2 DEF SourceType
<1>4. LoopInv'
  BY <1>0 DEF LoopInv, Shoot
<1>5. \A i \in Line : \A s \in input[i] : s[1] = IF Odd(i) THEN 2 * shot ELSE 2 * shot + 1
  <2> SUFFICES ASSUME NEW i \in Line
               PROVE  \A s \in input[i] : s[1] = IF Odd(i) THEN 2 * shot ELSE 2 * shot + 1
    OBVIOUS
  <2>1. input[i] = Shoot(shot, i, TRUE)
    BY <1>0, LineShot DEF LoopInv
  <2>2. i \in 0 .. 2 * FieldHeight + Margin
    BY LineShot
  <2>3. \A s \in Shoot(shot, i, TRUE) : s[1] = IF Odd(i) THEN 2 * shot ELSE 2 * shot + 1
    BY <1>1, <2>2, ShotAt
  <2> QED
    BY <2>1, <2>3
<1>6. Until(2 * shot - 1) /\ at \notin Stamped
  <2>1. read_so_far # 0
    BY <1>0, Sizes
  <2> QED
    BY <1>0, <2>1 DEF FramesInv, Now, Stamped
<1>7. FramesInv'
  BY <1>0, <1>1, <1>2, <1>5, <1>6, FrameEncoded
<1> QED
  BY <1>0, <1>3, <1>4, <1>7, NoBuffers

LEMMA ArriveKeeps == ASSUME RestInv, VideoInputFrameArrived PROVE RestInv'
<1> USE DEF RestInv
<1>0. PICK n \in shot + 1 .. MaxPicture :
         /\ shot' = n
         /\ frm' = [Encoded([i \in Line |-> Shoot(n, i + Margin, TRUE)]) EXCEPT !.interlaced = FALSE]
  BY DEF VideoInputFrameArrived
<1>1. /\ program = "decklink" /\ at = "wait" /\ at' = "clock"
      /\ UNCHANGED <<program, p_current, p_last, frames, queued, filled, content, input, read_so_far>>
  BY DEF VideoInputFrameArrived, Waiting
<1>2. shot \in 0 .. MaxPicture /\ frm \in Frame
  BY DEF SourceType
<1>3. n \in 0 .. MaxPicture /\ shot < n
  BY <1>0, <1>2, Sizes
<1>4. PICK p : p = [i \in Line |-> Shoot(n, i + Margin, TRUE)]
  OBVIOUS
<1>5. ASSUME NEW i \in Line
      PROVE  /\ Shoot(n, i + Margin, TRUE) \in SUBSET Scan
             /\ \A s \in Shoot(n, i + Margin, TRUE) : s[1] = IF Odd(i) THEN 2 * n ELSE 2 * n + 1
  BY <1>3, LineShot, ShotAt
<1>6. p \in Image /\ \A i \in Line : \A s \in p[i] : s[1] = IF Odd(i) THEN 2 * n ELSE 2 * n + 1
  BY <1>4, <1>5 DEF Image
<1>7. frm' \in Frame /\ frm'.f1 = p /\ frm'.odd_dominant /\ ~frm'.interlaced
  BY <1>0, <1>2, <1>4, <1>6, EncodedFrame
<1>8. SourceType'
  <2>1. shot' \in 0 .. MaxPicture
    BY <1>0, <1>3
  <2> QED
    BY <1>1, <1>7, <2>1 DEF SourceType
<1>9. LoopInv'
  BY <1>1 DEF LoopInv
<1>10. Until(2 * n - 1) /\ at \notin Stamped
  <2>1. read_so_far = 0
    BY <1>1 DEF LoopInv
  <2>2. Until(2 * shot + 1) /\ at \notin Stamped
    BY <1>1, <2>1 DEF FramesInv, Now, Stamped
  <2>3. 2 * shot + 1 \in Int /\ 2 * n - 1 \in Int /\ 2 * shot + 1 <= 2 * n - 1
    BY <1>2, <1>3
  <2> QED
    BY <2>2, <2>3, UntilLater
<1>11. FramesInv'
  BY <1>0, <1>1, <1>3, <1>6, <1>7, <1>10, FrameEncoded
<1> QED
  BY <1>1, <1>8, <1>9, <1>11, NoBuffers

-----------------------------------------------------------------------------
(* The clock and the ring.                                                  *)

\* While a frame is on its way to the ring the buffers stay where they are.
LEMMA BuffersStay ==
    ASSUME OwnedInv, PicturesInv, at \notin {"wait", "encode"}, at' \notin {"wait", "encode"},
           UNCHANGED <<program, p_current, p_last, shot, queued, filled, content>>
    PROVE  OwnedInv' /\ PicturesInv'
<1>1. Held' = Held /\ Newest' = Newest
  BY DEF Held, Newest
<1>2. OwnedInv'
  BY <1>1 DEF OwnedInv, Own
<1>3. PicturesInv'
  BY <1>1 DEF PicturesInv, Numbered, Number
<1> QED
  BY <1>2, <1>3

LEMMA StampBeginKeeps == ASSUME RestInv, StampBegin PROVE RestInv'
<1> USE DEF RestInv
<1>0. /\ at = "clock" /\ at' = "stamping"
      /\ UNCHANGED <<program, p_current, p_last, frm, frames, shot, queued, filled, content, input, read_so_far>>
  BY DEF StampBegin, sourceVars
<1>1. SourceType'
  BY <1>0 DEF SourceType
<1>2. LoopInv'
  BY <1>0 DEF LoopInv, Shoot
<1>3. OwnedInv' /\ PicturesInv'
  BY <1>0, BuffersStay
<1>4. FramesInv'
  <2>1. at \in Stamped /\ at' \in Stamped
    BY <1>0 DEF Stamped
  <2>2. program = "v4l2" => Now' = Now
    BY <1>0 DEF Now, Number
  <2> QED
    BY <1>0, <2>1, <2>2, FramesStay
<1> QED
  BY <1>1, <1>2, <1>3, <1>4

LEMMA StampEndKeeps == ASSUME TypeOK, RestInv, StampEnd PROVE RestInv'
<1> USE DEF RestInv
<1>0. /\ at = "stamping" /\ at' = "put" /\ frm' = [frm EXCEPT !.clock = local[Ingest]]
      /\ UNCHANGED <<program, p_current, p_last, frames, shot, queued, filled, content, input, read_so_far>>
  BY DEF StampEnd, sourceVars
<1>1. local[Ingest] \in 0 .. MaxClock /\ frm \in Frame
  BY TheIngest DEF TypeOK, SourceType
<1>2. /\ frm' \in Frame /\ frm'.f1 = frm.f1 /\ frm'.odd_dominant = frm.odd_dominant
      /\ frm'.interlaced = frm.interlaced
  BY <1>0, <1>1 DEF Frame
<1>3. SourceType'
  BY <1>0, <1>2 DEF SourceType
<1>4. LoopInv'
  BY <1>0 DEF LoopInv, Shoot
<1>5. OwnedInv' /\ PicturesInv'
  BY <1>0, BuffersStay
<1>6. FramesInv'
  <2>1. PICK t \in Moment, u \in Moment :
              /\ t < u /\ Timed(frm, t, u) /\ Until(t - 1)
              /\ u <= IF program = "v4l2" THEN Now ELSE 2 * shot + 1
    BY <1>0 DEF FramesInv
  <2>2. program = "v4l2" => Now' = Now
    BY <1>0 DEF Now, Number
  <2>3. u <= IF program' = "v4l2" THEN Now' ELSE 2 * shot' + 1
    BY <1>0, <2>1, <2>2
  <2>4. Timed(frm, t, u)' /\ Until(t - 1)'
    BY <1>0, <1>2, <2>1 DEF Timed, Until
  <2>5. /\ ~frm'.interlaced
        /\ \A k \in DOMAIN frames' : \E x, y \in Moment : x < y /\ Timed(frames[k], x, y)'
        /\ \A k, l \in DOMAIN frames' : k < l => \A i, j \in Line :
              \A s \in frames'[k].f1[i], r \in frames'[l].f1[j] : s[1] < r[1]
    BY <1>0, <1>2 DEF FramesInv, Timed
  <2> QED
    BY <1>0, <2>1, <2>3, <2>4, <2>5 DEF FramesInv
<1> QED
  BY <1>3, <1>4, <1>5, <1>6

LEMMA Appended ==
    ASSUME NEW S, NEW q \in Seq(S), NEW x \in S
    PROVE  /\ Append(q, x) \in Seq(S) /\ Len(q) \in Nat /\ DOMAIN q = 1 .. Len(q)
           /\ DOMAIN Append(q, x) = 1 .. Len(q) + 1 /\ Append(q, x)[Len(q) + 1] = x
           /\ \A k \in 1 .. Len(q) : Append(q, x)[k] = q[k]
  OBVIOUS

LEMMA PutKeeps == ASSUME RestInv, Put PROVE RestInv'
<1> USE DEF RestInv
<1>0. /\ at = "put" /\ at' = (IF program = "v4l2" THEN "give back" ELSE "wait")
      /\ frames' = Append(frames, frm) /\ read_so_far' = 0
      /\ UNCHANGED <<program, p_current, p_last, frm, shot, queued, filled, content, input>>
  BY DEF Put
<1>1. frm \in Frame /\ frames \in Seq(Frame) /\ shot \in 0 .. MaxPicture
  BY DEF SourceType
<1>2. /\ frames' \in Seq(Frame) /\ Len(frames) \in Nat /\ DOMAIN frames = 1 .. Len(frames)
      /\ DOMAIN frames' = 1 .. Len(frames) + 1 /\ frames'[Len(frames) + 1] = frm
      /\ \A k \in 1 .. Len(frames) : frames'[k] = frames[k]
  <2>1. PICK g : g = Append(frames, frm)
    OBVIOUS
  <2>2. /\ g \in Seq(Frame) /\ Len(frames) \in Nat /\ DOMAIN frames = 1 .. Len(frames)
        /\ DOMAIN g = 1 .. Len(frames) + 1 /\ g[Len(frames) + 1] = frm
        /\ \A k \in 1 .. Len(frames) : g[k] = frames[k]
    BY <1>1, <2>1, Appended
  <2>3. frames' = g
    BY <1>0, <2>1
  <2> QED
    BY <2>2, <2>3
<1>3. SourceType'
  <2>1. 0 \in 0 .. 2 * FieldHeight
    BY Sizes
  <2> QED
    BY <1>0, <1>2, <2>1 DEF SourceType
<1>4. LoopInv'
  <2>1. \A i \in Line : ~(i < 0)
    BY LineShot
  <2> QED
    BY <1>0, <2>1 DEF LoopInv
<1>5. OwnedInv' /\ PicturesInv'
  <2>1. CASE program = "v4l2"
    BY <1>0, <2>1, BuffersStay
  <2>2. CASE program # "v4l2"
    BY <1>0, <2>2 DEF OwnedInv, PicturesInv
  <2> QED
    BY <2>1, <2>2
<1>6. PICK t \in Moment, u \in Moment :
            /\ t < u /\ Timed(frm, t, u) /\ Until(t - 1)
            /\ u <= IF program = "v4l2" THEN Now ELSE 2 * shot + 1
  BY <1>0 DEF FramesInv
<1>7. t \in Int /\ u \in Int
  BY <1>6 DEF Moment
<1>8. \A i \in Line : \A s \in frm.f1[i] : s[1] \in Int /\ t <= s[1] /\ s[1] <= u
  BY <1>6, <1>7 DEF Timed
<1>9. \A k \in 1 .. Len(frames) : \A i \in Line : \A s \in frames[k].f1[i] : s[1] \in Int /\ s[1] <= t - 1
  BY <1>2, <1>6, FrameTimes DEF Until
<1>10. \A k \in 1 .. Len(frames) + 1 : k \in 1 .. Len(frames) \/ k = Len(frames) + 1
  BY <1>2
<1>11. \A k \in DOMAIN frames' : \E x, y \in Moment : x < y /\ Timed(frames[k], x, y)'
  <2> SUFFICES ASSUME NEW k \in DOMAIN frames'
               PROVE  \E x, y \in Moment : x < y /\ Timed(frames[k], x, y)'
    OBVIOUS
  <2>1. CASE k \in 1 .. Len(frames)
    <3>1. PICK x \in Moment, y \in Moment : x < y /\ Timed(frames[k], x, y)
      BY <1>2, <2>1 DEF FramesInv
    <3>2. Timed(frames[k], x, y)'
      BY <1>2, <2>1, <3>1 DEF Timed
    <3> QED
      BY <3>1, <3>2
  <2>2. CASE k = Len(frames) + 1
    <3>1. Timed(frames[k], t, u)'
      BY <1>2, <1>6, <2>2 DEF Timed
    <3> QED
      BY <1>6, <3>1
  <2> QED
    BY <1>2, <1>10, <2>1, <2>2
<1>12. ASSUME NEW k \in DOMAIN frames', NEW l \in DOMAIN frames', k < l,
              NEW i \in Line, NEW j \in Line, NEW s \in frames'[k].f1[i], NEW r \in frames'[l].f1[j]
       PROVE  s[1] < r[1]
  <2>1. k \in 1 .. Len(frames) /\ frames'[k] = frames[k]
    BY <1>2, <1>10, <1>12
  <2>2. CASE l \in 1 .. Len(frames)
    BY <1>2, <1>12, <2>1, <2>2 DEF FramesInv
  <2>3. CASE l = Len(frames) + 1
    <3>1. s[1] \in Int /\ s[1] <= t - 1
      BY <1>9, <2>1
    <3>2. r[1] \in Int /\ t <= r[1]
      BY <1>2, <1>8, <2>3
    <3> QED
      BY <1>7, <3>1, <3>2
  <2> QED
    BY <1>2, <1>10, <2>2, <2>3
<1>13. Until(Now)'
  <2>1. u <= Now' /\ Now' \in Int
    <3>1. CASE program = "v4l2"
      <4>1. Now' = Now
        BY <1>0, <3>1 DEF Now, Number
      <4>2. p_current # NULL /\ p_current \in Buffer
        BY <1>0, <3>1 DEF LoopInv, SourceType
      <4>3. NumberedIn(content, shot, p_current)
        BY <1>0, <3>1, <4>2 DEF PicturesInv, Newest, Numbered, Number, NumberedIn
      <4>4. Now = 2 * Number(p_current) /\ 2 * Number(p_current) \in Int
        BY <1>0, <3>1, <4>2, <4>3, Counted DEF Now
      <4> QED
        BY <1>6, <3>1, <4>1, <4>4
    <3>2. CASE program # "v4l2"
      <4>1. Now' = 2 * shot + 1
        BY <1>0, <3>2 DEF Now
      <4> QED
        BY <1>1, <1>6, <3>2, <4>1
    <3> QED
      BY <3>1, <3>2
  <2>2. ASSUME NEW k \in DOMAIN frames', NEW i \in Line, NEW s \in frames'[k].f1[i] PROVE s[1] <= Now'
    <3>1. CASE k \in 1 .. Len(frames)
      <4>1. s[1] \in Int /\ s[1] <= t - 1
        BY <1>2, <1>9, <3>1
      <4> QED
        BY <1>6, <1>7, <2>1, <4>1
    <3>2. CASE k = Len(frames) + 1
      <4>1. s[1] \in Int /\ s[1] <= u
        BY <1>2, <1>8, <3>2
      <4> QED
        BY <1>7, <2>1, <4>1
    <3> QED
      BY <1>2, <1>10, <3>1, <3>2
  <2> QED
    BY <2>2 DEF Until
<1>14. FramesInv'
  <2>1. at' \notin {"clock", "stamping", "put"} /\ ~frm'.interlaced
    BY <1>0 DEF FramesInv
  <2> QED
    BY <1>11, <1>12, <1>13, <2>1 DEF FramesInv
<1> QED
  BY <1>3, <1>4, <1>5, <1>14

-----------------------------------------------------------------------------
(* The whole.                                                               *)

LEMMA RestStep == ASSUME StateInv, RestInv, [CaptureNext]_captureVars PROVE RestInv'
<1>1. CASE ClockStep \/ Exit \/ UNCHANGED captureVars
  BY <1>1, RestSame DEF ClockStep, ClockCall, Exit, captureVars
<1>2. CASE IngestStep
  BY <1>2, DequeueKeeps, MergeKeeps, GiveBackKeeps, EncodeKeeps, StampBeginKeeps, StampEndKeeps,
     PutKeeps DEF IngestStep, StateInv
<1> QED
  BY <1>1, <1>2, DriverKeeps, ReadKeeps, ArriveKeeps DEF CaptureNext

LEMMA RestInit == CaptureInit => RestInv
<1> SUFFICES ASSUME CaptureInit PROVE RestInv
  OBVIOUS
<1>0. /\ program \in {"v4l2", "uyvy", "decklink"} /\ at = "wait" /\ shot = 0
      /\ queued = [i \in 1 .. NBuffers |-> i - 1] /\ filled = <<>>
      /\ content = [b \in Buffer |-> Blank] /\ p_current = NULL /\ p_last = NULL
      /\ input = Blank /\ read_so_far = 0 /\ frames = <<>>
      /\ frm = [clock |-> 0, interlaced |-> FALSE, odd_dominant |-> FALSE, f1 |-> Blank, f2 |-> Blank]
  BY DEF CaptureInit
<1>1. /\ queued \in Seq(Buffer) /\ Len(queued) = NBuffers
      /\ \A i \in 1 .. NBuffers : queued[i] = i - 1
  <2>1. \A i \in 1 .. NBuffers : i - 1 \in Buffer
    BY Sizes DEF Buffer
  <2>2. [i \in 1 .. NBuffers |-> i - 1] \in [1 .. NBuffers -> Buffer]
    BY <2>1
  <2>3. queued \in Seq(Buffer)
    BY <1>0, <2>2, Sizes, SeqDef
  <2>4. DOMAIN queued = 1 .. NBuffers /\ DOMAIN queued = 1 .. Len(queued) /\ Len(queued) \in Nat
    BY <1>0, <2>3, LenProperties
  <2> QED
    BY <1>0, <2>3, <2>4, Sizes
<1>2. SourceType
  <2>1. frm \in Frame
    <3>1. 0 \in 0 .. MaxClock
      BY MaxClockAssumption
    <3> QED
      BY <1>0, <3>1, BlankImage DEF Frame
  <2>2. 0 \in 0 .. MaxPicture /\ 0 \in 0 .. 2 * FieldHeight
    BY Sizes
  <2>3. filled \in Seq(Buffer) /\ frames \in Seq(Frame)
    BY <1>0
  <2> QED
    BY <1>0, <1>1, <2>1, <2>2, <2>3, BlankImage DEF SourceType
<1>3. LoopInv
  <2>1. \A i \in Line : ~(i < 0)
    BY LineShot
  <2> QED
    BY <1>0, <2>1 DEF LoopInv
<1>4. OwnedInv
  <2>1. Held = {}
    BY <1>0 DEF Held
  <2>2. queued \o filled = queued
    BY <1>0, <1>1
  <2>3. {queued[i] : i \in 1 .. NBuffers} = Buffer
    <3>1. \A b \in Buffer : b + 1 \in 1 .. NBuffers /\ queued[b + 1] = b
      BY <1>1, Sizes DEF Buffer
    <3>2. \A i \in 1 .. NBuffers : queued[i] \in Buffer
      BY <1>1, Sizes DEF Buffer
    <3> QED
      BY <3>1, <3>2
  <2>4. \A i, j \in 1 .. NBuffers : i # j => queued[i] # queued[j]
    BY <1>1, Sizes
  <2>5. Own({}, queued)
    BY <1>1, <2>3, <2>4 DEF Own
  <2> QED
    BY <1>0, <2>1, <2>2, <2>5 DEF OwnedInv
<1>5. PicturesInv
  BY <1>0 DEF PicturesInv, Newest
<1>6. FramesInv
  <2>1. DOMAIN frames = {}
    BY <1>0
  <2> QED
    BY <1>0, <2>1 DEF FramesInv, Until
<1> QED
  BY <1>2, <1>3, <1>4, <1>5, <1>6 DEF RestInv

\* The capture program and clockd use the clock file as MmapState says, so
\* that what is proved there holds of them.
THEOREM ClockUsed == CaptureSpec => Spec
<1>1. CaptureInit => Init
  BY DEF CaptureInit
<1>2. [CaptureNext]_captureVars => [Next]_vars
  BY ClockPart
<1> QED
  BY <1>1, <1>2, PTL DEF CaptureSpec, Spec

\* The inductive invariant.
THEOREM CaptureInductive == CaptureSpec => []CaptureInv
<1>1. StateInv /\ RestInv /\ [CaptureNext]_captureVars => RestInv'
  BY RestStep
<1>2. CaptureSpec => []StateInv
  BY ClockUsed, StateInductive, PTL
<1>3. CaptureSpec => []RestInv
  BY <1>1, <1>2, RestInit, PTL DEF CaptureSpec
<1> QED
  BY <1>2, <1>3, RestParts, PTL

\* Every variable of the capture programs keeps its type.
THEOREM CaptureTyped == CaptureSpec => []CaptureTypeOK
<1>1. CaptureInv => CaptureTypeOK
  BY DEF CaptureInv
<1> QED
  BY <1>1, CaptureInductive, PTL

\* No buffer of the driver is lost, in two places, or merged from or into
\* while the driver has it.
THEOREM Owned == CaptureSpec => []BuffersOwned
<1>1. CaptureInv => BuffersOwned
  BY DEF CaptureInv
<1> QED
  BY <1>1, CaptureInductive, PTL

\* A frame is stamped with a value that was sent, as new as the clock file was
\* when get( ) began.
THEOREM StampFresh == CaptureSpec => []ClockFresh
<1> QED
  BY ClockUsed, Fresh, PTL

\* The clock never goes back while frames are captured.
THEOREM StampNeverBack == CaptureSpec => ClockNeverBack
<1> QED
  BY ClockUsed, NeverBack, PTL

-----------------------------------------------------------------------------
(* What is shown of the frames.                                             *)

LEMMA LineHalves ==
    ASSUME NEW i \in Line
    PROVE  /\ i \in 0 .. 2 * FieldHeight - 1 /\ i \div 2 \in FieldLine
           /\ Odd(i) => i = 2 * (i \div 2) + 1
           /\ ~Odd(i) => i = 2 * (i \div 2)
<1>1. i \in 0 .. 2 * FieldHeight - 1
  BY DEF Line
<1> QED
  BY <1>1, Sizes DEF FieldLine, Odd

\* A line's neighbours.
LEMMA LineBeside ==
    ASSUME NEW i \in Line
    PROVE  /\ 0 \in Line /\ ~Odd(0) /\ 1 \in Line /\ Odd(1)
           /\ Odd(i) => i - 1 \in Line /\ ~Odd(i - 1)
           /\ ~Odd(i) => i + 1 \in Line /\ Odd(i + 1)
           /\ i - 1 \in Line => (Odd(i - 1) <=> ~Odd(i))
           /\ i + 1 \in Line => (Odd(i + 1) <=> ~Odd(i))
<1>1. i \in 0 .. 2 * FieldHeight - 1
  BY DEF Line
<1> QED
  BY <1>1, Sizes DEF Line, Odd

\* Each field of a frame, scan doubled, is of one instant.
LEMMA ShownTimes ==
    ASSUME NEW f \in Frame, NEW t, NEW u, Timed(f, t, u), NEW i \in Line
    PROVE  /\ \A s \in Shown(f)[1][i] : s[1] = t
           /\ \A s \in Shown(f)[2][i] : s[1] = u
<1>1. /\ ~f.interlaced /\ f.odd_dominant
      /\ \A j \in Line : \A s \in f.f1[j] : s[1] = IF Odd(j) THEN t ELSE u
  BY DEF Timed
<1>2. /\ Shown(f)[1] = scan_double_full_frame_odd(f.f1)
      /\ Shown(f)[2] = scan_double_full_frame_even(f.f1)
  BY <1>1 DEF Shown, decode_first_doubled, decode_second_doubled, decode_full
<1>3. \A s \in Shown(f)[1][i] : s[1] = t
  <2>1. CASE Odd(i)
    BY <1>1, <1>2, <2>1 DEF scan_double_full_frame_odd
  <2>2. CASE ~Odd(i)
    <3>1. Shown(f)[1][i] = IF i - 1 \in Line THEN f.f1[i - 1] \cup f.f1[i + 1] ELSE f.f1[i + 1]
      BY <1>2, <2>2 DEF scan_double_full_frame_odd, Interpolate
    <3> QED
      BY <1>1, <2>2, <3>1, LineBeside
  <2> QED
    BY <2>1, <2>2
<1>4. \A s \in Shown(f)[2][i] : s[1] = u
  <2>1. CASE ~Odd(i)
    BY <1>1, <1>2, <2>1 DEF scan_double_full_frame_even
  <2>2. CASE Odd(i)
    <3>1. Shown(f)[2][i] = IF i + 1 \in Line THEN f.f1[i - 1] \cup f.f1[i + 1] ELSE f.f1[i - 1]
      BY <1>2, <2>2 DEF scan_double_full_frame_even, Interpolate
    <3> QED
      BY <1>1, <2>2, <3>1, LineBeside
  <2> QED
    BY <2>1, <2>2
<1> QED
  BY <1>3, <1>4

\* And it has something to show, at the top, of the picture itself.
LEMMA ShownTop ==
    ASSUME NEW f \in Frame, NEW t, NEW u, Timed(f, t, u)
    PROVE  Shown(f)[1][0] = f.f1[1] /\ Shown(f)[2][0] = f.f1[0]
<1>1. ~f.interlaced /\ f.odd_dominant
  BY DEF Timed
<1>2. /\ Shown(f)[1] = scan_double_full_frame_odd(f.f1)
      /\ Shown(f)[2] = scan_double_full_frame_even(f.f1)
  BY <1>1 DEF Shown, decode_first_doubled, decode_second_doubled, decode_full
<1>3. 0 \in Line /\ ~Odd(0) /\ 0 - 1 \notin Line /\ 0 + 1 = 1
  BY Sizes DEF Line, Odd
<1> QED
  BY <1>2, <1>3 DEF scan_double_full_frame_odd, scan_double_full_frame_even

\* However the pictures arrive, and whichever are lost, slow motion never mixes
\* two instants in a field nor steps back from one field to the next.
THEOREM InstantsInOrder == CaptureSpec => []FieldsInOrder
<1>1. CaptureInv => FieldsInOrder
  <2> SUFFICES ASSUME CaptureInv PROVE FieldsInOrder
    OBVIOUS
  <2>1. SourceType /\ FramesInv
    BY RestParts DEF RestInv, CaptureInv
  <2>2. \A k \in DOMAIN frames : frames[k] \in Frame
    BY <2>1, FrameTimes
  <2>3. \A k \in DOMAIN frames : \E t, u \in Moment : t < u /\ Timed(frames[k], t, u)
    BY <2>1 DEF FramesInv
  <2>4. ASSUME NEW k \in DOMAIN frames, NEW f \in 1 .. 2
        PROVE  \E t \in Moment : \A i \in Line : \A s \in Shown(frames[k])[f][i] : s[1] = t
    <3>1. PICK t \in Moment, u \in Moment : Timed(frames[k], t, u)
      BY <2>3
    <3>2. \A i \in Line : /\ \A s \in Shown(frames[k])[1][i] : s[1] = t
                          /\ \A s \in Shown(frames[k])[2][i] : s[1] = u
      BY <2>2, <3>1, ShownTimes
    <3>3. CASE f = 1
      BY <3>2, <3>3
    <3>4. CASE f = 2
      BY <3>2, <3>4
    <3>5. f = 1 \/ f = 2
      OBVIOUS
    <3> QED
      BY <3>3, <3>4, <3>5
  <2>5. ASSUME NEW k \in DOMAIN frames, NEW l \in DOMAIN frames, NEW f \in 1 .. 2, NEW g \in 1 .. 2,
               k < l \/ (k = l /\ f < g),
               NEW s \in Shown(frames[k])[f][0], NEW r \in Shown(frames[l])[g][0]
        PROVE  s[1] < r[1]
    <3>0. (f = 1 \/ f = 2) /\ (g = 1 \/ g = 2) /\ 0 \in Line /\ 1 \in Line
      BY Sizes DEF Line
    <3>1. CASE k < l
      <4>1. /\ Shown(frames[k])[1][0] = frames[k].f1[1] /\ Shown(frames[k])[2][0] = frames[k].f1[0]
            /\ Shown(frames[l])[1][0] = frames[l].f1[1] /\ Shown(frames[l])[2][0] = frames[l].f1[0]
        BY <2>2, <2>3, ShownTop
      <4>2. PICK i \in Line, j \in Line : s \in frames[k].f1[i] /\ r \in frames[l].f1[j]
        BY <2>5, <3>0, <4>1
      <4> QED
        BY <2>1, <3>1, <4>2 DEF FramesInv
    <3>2. CASE k = l /\ f < g
      <4>1. PICK t \in Moment, u \in Moment : t < u /\ Timed(frames[k], t, u)
        BY <2>3
      <4>2. f = 1 /\ g = 2
        BY <3>0, <3>2
      <4>3. s[1] = t /\ r[1] = u
        BY <2>2, <2>5, <3>0, <3>2, <4>1, <4>2, ShownTimes
      <4> QED
        BY <4>1, <4>3
    <3> QED
      BY <2>5, <3>1, <3>2
  <2> QED
    BY <2>4, <2>5 DEF FieldsInOrder
<1> QED
  BY <1>1, CaptureInductive, PTL

\* A picture of odd dominance and its two fields look the same.
LEMMA SplitShown ==
    ASSUME NEW f \in Frame, ~f.interlaced, f.odd_dominant
    PROVE  Shown(Split(f)) = Shown(f) /\ decode_full(Split(f)) = decode_full(f)
<1>1. PICK p \in Image : p = f.f1
  BY DEF Frame
<1>2. PICK o : o = FieldOf(p, TRUE)
  OBVIOUS
<1>3. PICK e : e = FieldOf(p, FALSE)
  OBVIOUS
<1>4. (\A j \in FieldLine : o[j] = p[2 * j + 1] /\ e[j] = p[2 * j])
      /\ p = [i \in Line |-> p[i]]
  BY <1>2, <1>3 DEF FieldOf, Image
<1>5. PICK s : s = Split(f)
  OBVIOUS
<1>6. s.interlaced /\ s.odd_dominant /\ s.f1 = o /\ s.f2 = e
  BY <1>1, <1>2, <1>3, <1>5 DEF Split, Frame
<1>7. /\ decode_full(s) = weave(e, o) /\ decode_full(f) = p
      /\ Shown(s) = <<scan_double_up(o), scan_double_down(e)>>
      /\ Shown(f) = <<scan_double_full_frame_odd(p), scan_double_full_frame_even(p)>>
  BY <1>1, <1>6 DEF Shown, decode_full, decode_first, decode_second, decode_first_doubled,
     decode_second_doubled
<1>8. weave(e, o) = p
  <2>1. \A i \in Line : (IF Odd(i) THEN o[i \div 2] ELSE e[i \div 2]) = p[i]
    BY <1>4, LineHalves
  <2> QED
    BY <1>4, <2>1 DEF weave
<1>9. scan_double_up(o) = scan_double_full_frame_odd(p)
  <2>1. ASSUME NEW i \in Line
        PROVE  (IF Odd(i) \/ i \div 2 = 0 THEN o[i \div 2] ELSE Interpolate(o[i \div 2 - 1], o[i \div 2]))
               = IF Odd(i) THEN p[i]
                 ELSE IF i - 1 \in Line THEN Interpolate(p[i - 1], p[i + 1]) ELSE p[i + 1]
    <3>1. PICK j \in FieldLine : j = i \div 2
      BY LineHalves
    <3>2. CASE Odd(i)
      BY <1>4, <3>1, <3>2, LineHalves
    <3>3. CASE ~Odd(i)
      <4>1. i = 2 * j /\ j \in Int /\ j >= 0
        BY <3>1, <3>3, LineHalves DEF FieldLine
      <4>2. o[j] = p[i + 1]
        BY <1>4, <4>1
      <4>3. CASE j = 0
        <5>1. i - 1 \notin Line
          BY <4>1, <4>3 DEF Line
        <5> QED
          BY <3>1, <3>3, <4>2, <4>3, <5>1
      <4>4. CASE j # 0
        <5>1. i - 1 \in Line /\ j - 1 \in FieldLine /\ 2 * (j - 1) + 1 = i - 1
          BY <4>1, <4>4, Sizes DEF Line, FieldLine
        <5>2. o[j - 1] = p[i - 1]
          BY <1>4, <5>1
        <5> QED
          BY <3>1, <3>3, <4>2, <4>4, <5>1, <5>2
      <4> QED
        BY <4>3, <4>4
    <3> QED
      BY <3>2, <3>3
  <2> QED
    BY <2>1 DEF scan_double_up, scan_double_full_frame_odd
<1>10. scan_double_down(e) = scan_double_full_frame_even(p)
  <2>1. ASSUME NEW i \in Line
        PROVE  (IF ~Odd(i) \/ i \div 2 + 1 = FieldHeight THEN e[i \div 2]
                ELSE Interpolate(e[i \div 2], e[i \div 2 + 1]))
               = IF ~Odd(i) THEN p[i]
                 ELSE IF i + 1 \in Line THEN Interpolate(p[i - 1], p[i + 1]) ELSE p[i - 1]
    <3>1. PICK j \in FieldLine : j = i \div 2
      BY LineHalves
    <3>2. CASE ~Odd(i)
      BY <1>4, <3>1, <3>2, LineHalves
    <3>3. CASE Odd(i)
      <4>1. i = 2 * j + 1 /\ j \in Int /\ j >= 0 /\ j < FieldHeight
        BY <3>1, <3>3, LineHalves, Sizes DEF FieldLine
      <4>2. e[j] = p[i - 1]
        <5>1. 2 * j = i - 1
          BY <4>1
        <5> QED
          BY <1>4, <5>1
      <4>3. CASE j + 1 = FieldHeight
        <5>1. i + 1 \notin Line
          BY <4>1, <4>3, Sizes DEF Line
        <5> QED
          BY <3>1, <3>3, <4>2, <4>3, <5>1
      <4>4. CASE j + 1 # FieldHeight
        <5>1. i + 1 \in Line /\ j + 1 \in FieldLine /\ 2 * (j + 1) = i + 1
          BY <4>1, <4>4, Sizes DEF Line, FieldLine
        <5>2. e[j + 1] = p[i + 1]
          BY <1>4, <5>1
        <5> QED
          BY <3>1, <3>3, <4>2, <4>4, <5>1, <5>2
      <4> QED
        BY <4>3, <4>4
    <3> QED
      BY <3>2, <3>3
  <2> QED
    BY <2>1 DEF scan_double_down, scan_double_full_frame_even
<1> QED
  BY <1>5, <1>7, <1>8, <1>9, <1>10

\* What the ring holds looks the same, full or doubled, stored as one image or
\* as two.
THEOREM LooksTheSame == CaptureSpec => []SplitAgrees
<1>1. CaptureInv => SplitAgrees
  <2> SUFFICES ASSUME CaptureInv, NEW k \in DOMAIN frames
               PROVE  LET s == Split(frames[k]) IN
                      /\ Shown(s) = Shown(frames[k])
                      /\ decode_full(s) = decode_full(frames[k])
    BY DEF SplitAgrees
  <2>1. SourceType /\ FramesInv
    BY RestParts DEF RestInv, CaptureInv
  <2>2. frames[k] \in Frame
    BY <2>1, FrameTimes
  <2>3. ~frames[k].interlaced /\ frames[k].odd_dominant
    BY <2>1 DEF FramesInv, Timed
  <2> QED
    BY <2>2, <2>3, SplitShown
<1> QED
  BY <1>1, CaptureInductive, PTL
=============================================================================
