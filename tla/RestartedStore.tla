--------------------------- MODULE RestartedStore ---------------------------
(***************************************************************************)
(* What the readers of the ring may still count on when its writer is      *)
(* killed at any instant and started again (mjpeg_ingest opens the file    *)
(* without reset): the promise of FrameStore, with no record, no offset    *)
(* and no lock, and with what a restart costs.                             *)
(*                                                                         *)
(* A put that was killed is begun again with the same number.  A restart   *)
(* may cost one record of the store (never more), and with it the frames   *)
(* before: they can be missed from then on, but what is found is still     *)
(* the frame asked for.                                                    *)
(***************************************************************************)
EXTENDS FrameStore

VARIABLES writing,  \* a put is under way
          lost,     \* records spent on frames that were never announced
          since     \* the first frame put after the last of these

restartVars == <<vars, writing, lost, since>>

\* The writer has started on the record of frame t again.
Reused(t) == begun + lost >= t + N

\* The frames a get that overlaps no put is sure to find.
Kept(t) == since <= t /\ t <= latest /\ ~Reused(t)

RestartInit == Init /\ writing = FALSE /\ lost = 0 /\ since = 0

\* The frame after the last one published, which a killed writer may have
\* begun before.
BeginNext ==
    /\ ~writing /\ writing' = TRUE
    /\ begun' = latest + 1
    /\ disturbed' = [r \in Readers |-> status[r] # "idle"]
    /\ UNCHANGED <<latest, status, asked, answer, lost, since>>

PublishNext ==
    /\ writing /\ writing' = FALSE
    /\ Publish
    /\ UNCHANGED <<lost, since>>

\* The put of the killed writer is given up, with its record or without.
Restart ==
    /\ writing /\ writing' = FALSE
    /\ \/ UNCHANGED <<lost, since>>
       \/ lost' = lost + 1 /\ since' = latest + 1
    /\ UNCHANGED vars

AskWhile(r) ==
    /\ status[r] = "idle"
    /\ status' = [status EXCEPT ![r] = "busy"]
    /\ \E t \in Requests \cup {latest - 1} : asked' = [asked EXCEPT ![r] = t]
    /\ disturbed' = [disturbed EXCEPT ![r] = writing]
    /\ UNCHANGED <<latest, begun, answer>>

\* A frame no put ever finished is not found, however often it was begun.
HitWhole(r) ==
    /\ status[r] = "busy"
    /\ 0 <= asked[r] /\ asked[r] <= latest
    /\ status' = [status EXCEPT ![r] = "hit"]
    /\ \E length, contents \in Contents :
         /\ \/ Reused(asked[r])
            \/ asked[r] = 0 /\ disturbed[r]
            \/ length = asked[r] /\ contents = asked[r]
         /\ answer' = [answer EXCEPT ![r] = <<length, contents>>]
    /\ UNCHANGED <<latest, begun, asked, disturbed>>

MissGone(r) ==
    /\ status[r] = "busy"
    /\ Kept(asked[r]) => disturbed[r]
    /\ status' = [status EXCEPT ![r] = "miss"]
    /\ UNCHANGED <<latest, begun, asked, answer, disturbed>>

ReaderMove(r) == AskWhile(r) \/ HitWhole(r) \/ MissGone(r) \/ Done(r) \/ Crash(r)

RestartNext ==
    \/ BeginNext \/ PublishNext \/ Restart
    \/ \E r \in Readers : ReaderMove(r) /\ UNCHANGED <<writing, lost, since>>

RestartSpec == RestartInit /\ [][RestartNext]_restartVars
=============================================================================
