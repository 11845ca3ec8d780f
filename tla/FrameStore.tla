----------------------------- MODULE FrameStore -----------------------------
(***************************************************************************)
(* What the users of the ring (ingest, GUI, playout daemon) may count on,  *)
(* with no record, no offset and no lock: one process puts numbered        *)
(* frames, the others get them by number.                                  *)
(*                                                                         *)
(* A get that overlaps no put is exact: it finds each of the last N frames *)
(* and nothing else.  A get that overlaps a put may miss, and what it      *)
(* finds is the frame asked for unless the writer has started on the       *)
(* record again (or the frame is the very first one).                      *)
(***************************************************************************)
EXTENDS Integers

CONSTANTS Readers, N, Requests,
          Contents   \* the frames and what is left of them: lengths, contents

VARIABLES latest,    \* the last frame published, -1 if none
          begun,     \* the last frame begun: latest or latest + 1
          status,    \* of each reader: idle, busy, hit, miss, dead
          asked,     \* the frame each reader is after
          answer,    \* <<length, contents>> of a hit
          disturbed  \* a put overlaps the get

vars == <<latest, begun, status, asked, answer, disturbed>>

NoAnswer == <<-1, -1>>

Recycled(t) == begun >= t + N
Held(t) == 0 <= t /\ t <= latest /\ ~Recycled(t)

Init ==
    /\ latest = -1 /\ begun = -1
    /\ status = [r \in Readers |-> "idle"]
    /\ asked = [r \in Readers |-> -1]
    /\ answer = [r \in Readers |-> NoAnswer]
    /\ disturbed = [r \in Readers |-> FALSE]

\* The writer starts on the record of the oldest frame.
Begin ==
    /\ begun = latest
    /\ begun' = latest + 1
    /\ disturbed' = [r \in Readers |-> status[r] # "idle"]
    /\ UNCHANGED <<latest, status, asked, answer>>

Publish ==
    /\ begun = latest + 1
    /\ latest' = begun
    /\ UNCHANGED <<begun, status, asked, answer, disturbed>>

Ask(r) ==
    /\ status[r] = "idle"
    /\ status' = [status EXCEPT ![r] = "busy"]
    /\ \E t \in Requests \cup {latest - 1} : asked' = [asked EXCEPT ![r] = t]
    /\ disturbed' = [disturbed EXCEPT ![r] = begun # latest]
    /\ UNCHANGED <<latest, begun, answer>>

\* Any contents when the record is being recycled, and for frame 0 when a put
\* overlaps; otherwise the frame itself, length and contents.
Hit(r) ==
    /\ status[r] = "busy"
    /\ 0 <= asked[r] /\ asked[r] <= latest
    /\ status' = [status EXCEPT ![r] = "hit"]
    /\ \E length, contents \in Contents :
         /\ \/ Recycled(asked[r])
            \/ asked[r] = 0 /\ disturbed[r]
            \/ length = asked[r] /\ contents = asked[r]
         /\ answer' = [answer EXCEPT ![r] = <<length, contents>>]
    /\ UNCHANGED <<latest, begun, asked, disturbed>>

Miss(r) ==
    /\ status[r] = "busy"
    /\ Held(asked[r]) => disturbed[r]
    /\ status' = [status EXCEPT ![r] = "miss"]
    /\ UNCHANGED <<latest, begun, asked, answer, disturbed>>

Done(r) ==
    /\ status[r] \in {"hit", "miss"}
    /\ status' = [status EXCEPT ![r] = "idle"]
    /\ asked' = [asked EXCEPT ![r] = -1]
    /\ answer' = [answer EXCEPT ![r] = NoAnswer]
    /\ disturbed' = [disturbed EXCEPT ![r] = FALSE]
    /\ UNCHANGED <<latest, begun>>

Crash(r) ==
    /\ status[r] # "dead"
    /\ status' = [status EXCEPT ![r] = "dead"]
    /\ answer' = [answer EXCEPT ![r] = NoAnswer]
    /\ UNCHANGED <<latest, begun, asked, disturbed>>

Next ==
    \/ Begin \/ Publish
    \/ \E r \in Readers : Ask(r) \/ Hit(r) \/ Miss(r) \/ Done(r) \/ Crash(r)

Spec == Init /\ [][Next]_vars
=============================================================================
