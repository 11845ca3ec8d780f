-------------------------- MODULE Console_proofs --------------------------
(* The console's bookkeeping of its pipelines, proved for any panels, any   *)
(* objects and any pids.                                                    *)
EXTENDS Console, TLAPS

-----------------------------------------------------------------------------
(* What the window offers.                                                  *)

LEMMA ObjectType ==
    ASSUME TypeOK, PanelInv, main # "idle"
    PROVE  panel \in Panels /\ process[panel] \in Objects /\ Object \in Objects
BY DEF TypeOK, PanelInv, Object

\* A panel without an object has nothing but its chooser to click.
LEMMA ClickType ==
    ASSUME TypeOK, PanelInv, NEW p \in Panels,
           {"start", "stop", "configure"} \cap enabled[p] # {}
    PROVE  process[p] \in Objects
BY DEF TypeOK, PanelInv

\* The panel that the main thread works for offers nothing.
LEMMA BusyPanel ==
    ASSUME TypeOK, PanelInv, main # "idle", Offered(Object)
    PROVE  FALSE
BY DEF TypeOK, PanelInv, Object, Offered

LEMMA LiveNone ==
    ASSUME NEW p \in Panels, process'[p] = None
    PROVE  Live(p)' = {"chooser"}
BY DEF Live

\* Nothing that is shown as running is offered.
LEMMA LiveOffers ==
    ASSUME NEW p \in Panels, PanelInv', process'[p] # None,
           "start" \in Live(p)' \/ ("chooser" \in Live(p)' /\ process'[p] \in configured')
    PROVE  status'[process'[p]] \notin Running
<1>1. CASE ~Complete(p)'
  <2>1. p \in Captures
    BY <1>1 DEF Live, PanelInv, Panels
  <2> QED
    BY <1>1, <2>1 DEF Live, Complete
<1>2. CASE Complete(p)'
  BY <1>2 DEF Live
<1> QED
  BY <1>1, <1>2

LEMMA PollOffers ==
    ASSUME NEW ps, poll(ps), PanelInv', NEW o \in Objects, Offered(o)',
           status'[o] \in Running
    PROVE  \E p \in Panels \ ps :
             /\ process'[p] = o /\ ~(main' # "idle" /\ panel' = p)
             /\ "start" \in enabled[p] \/ ("chooser" \in enabled[p] /\ o \in configured')
<1>1. PICK p \in Panels :
        /\ process'[p] = o /\ ~(main' # "idle" /\ panel' = p)
        /\ "start" \in enabled'[p] \/ ("chooser" \in enabled'[p] /\ o \in configured')
  BY DEF Offered
<1>2. o # None
  BY NoneAssumption
<1>3. p \notin ps
  <2> SUFFICES ASSUME p \in ps PROVE FALSE
    OBVIOUS
  <2>1. enabled'[p] = Live(p)'
    BY DEF poll
  <2> QED
    BY <1>1, <1>2, <2>1, LiveOffers
<1>4. enabled'[p] = enabled[p]
  BY <1>3 DEF poll
<1> QED
  BY <1>1, <1>3, <1>4

\* After poll( ) of every panel whose object changed, panels without one offer
\* nothing again.
LEMMA PollNone ==
    ASSUME TypeOK, PanelInv, NEW ps, poll(ps),
           \A p \in Panels \ ps : process'[p] = process[p],
           NEW p \in Panels, process'[p] = None
    PROVE  enabled'[p] \subseteq {"chooser"}
<1>1. CASE p \in ps
  BY <1>1, LiveNone DEF poll
<1>2. CASE p \notin ps
  BY <1>2 DEF poll, PanelInv
<1> QED
  BY <1>1, <1>2

LEMMA PollType ==
    ASSUME NEW ps, poll(ps), TypeOK,
           process' \in [Panels -> Objects \cup {None}], status' \in [Objects -> Statuses]
    PROVE  /\ label' \in [Panels -> Statuses \cup {""}]
           /\ enabled' \in [Panels -> SUBSET Controls]
<1>1. ASSUME NEW p \in Panels PROVE Live(p)' \in SUBSET Controls
  BY DEF Live, Controls
<1>2. ASSUME NEW p \in Panels PROVE Shown(p)' \in Statuses \cup {""}
  <2>1. CASE process'[p] = None
    BY <2>1 DEF Shown
  <2>2. CASE process'[p] # None
    <3>1. process'[p] \in Objects
      BY <2>2
    <3>2. status'[process'[p]] \in Statuses
      BY <3>1
    <3> QED
      BY <2>2, <3>2 DEF Shown
  <2> QED
    BY <2>1, <2>2
<1>3. label' = [p \in Panels |-> IF p \in ps THEN Shown(p)' ELSE label[p]]
  BY DEF poll
<1>4. enabled' = [p \in Panels |-> IF p \in ps THEN Live(p)' ELSE enabled[p]]
  BY DEF poll
<1>5. label \in [Panels -> Statuses \cup {""}] /\ enabled \in [Panels -> SUBSET Controls]
  BY DEF TypeOK
<1> HIDE DEF Statuses, Controls
<1>6. \A p \in Panels : (IF p \in ps THEN Shown(p)' ELSE label[p]) \in Statuses \cup {""}
  BY <1>2, <1>5
<1>7. \A p \in Panels : (IF p \in ps THEN Live(p)' ELSE enabled[p]) \in SUBSET Controls
  BY <1>1, <1>5
<1> QED
  BY <1>3, <1>4, <1>6, <1>7, Zenon

-----------------------------------------------------------------------------
(* What an action that leaves the bookkeeping alone keeps.                  *)

LEMMA CleanIsNotAborted ==
    ASSUME NEW o \in Objects, Clean(o)
    PROVE  "aborted" \notin mishaps[o]
BY DEF Clean

LEMMA Untouched ==
    ASSUME IInv, UNCHANGED <<process, status, pid, configured, all_processes, owner>>,
           \A q \in Pids : leader'[q] = "none" <=> leader[q] = "none",
           \A o \in Objects : mishaps[o] \subseteq mishaps'[o],
           \A o \in Objects : "aborted" \notin mishaps'[o] =>
               /\ Offered(o)' => Gone(o)
               /\ Starting(o)' => Starting(o)
               /\ Forking(o)' <=> Forking(o)
    PROVE  OwnerInv' /\ PipelineInv' /\ CleanInv'
<1>1. OwnerInv'
  BY DEF IInv, OwnerInv
<1>2. ASSUME NEW o \in Objects PROVE Gone(o)' <=> Gone(o)
  BY DEF Gone
<1>3. ASSUME NEW o \in Objects, "aborted" \notin mishaps'[o]
      PROVE  OnlyPid(o)' /\ EndedGone(o)' /\ StartsFresh(o)' /\ StaysShown(o)'
  <2>1. OnlyPid(o) /\ EndedGone(o) /\ StartsFresh(o) /\ StaysShown(o)
    BY <1>3 DEF IInv, PipelineInv
  <2>2. OnlyPid(o)'
    BY <2>1 DEF OnlyPid
  <2>3. EndedGone(o)'
    BY <1>2, <1>3, <2>1 DEF EndedGone
  <2>4. StartsFresh(o)'
    BY <1>3, <2>1 DEF StartsFresh
  <2>5. StaysShown(o)'
    BY <1>2, <2>1 DEF StaysShown
  <2> QED
    BY <2>2, <2>3, <2>4, <2>5
<1>4. ASSUME NEW o \in Objects, Clean(o)' PROVE HasLeader(o)' /\ EntryTrue(o)'
  <2>1. Clean(o) /\ "aborted" \notin mishaps'[o]
    BY <1>4 DEF Clean
  <2>2. HasLeader(o) /\ EntryTrue(o)
    BY <2>1 DEF IInv, CleanInv
  <2>3. Forking(o)' <=> Forking(o)
    BY <2>1
  <2>4. HasLeader(o)'
    BY <2>2, <2>3 DEF HasLeader
  <2>5. EntryTrue(o)'
    BY <2>2 DEF EntryTrue
  <2> QED
    BY <2>4, <2>5
<1> QED
  BY <1>1, <1>3, <1>4 DEF PipelineInv, CleanInv

LEMMA OfferedGone ==
    ASSUME IInv, NEW o \in Objects, "aborted" \notin mishaps[o], Offered(o)
    PROVE  Gone(o)
BY DEF IInv, PipelineInv, EndedGone

\* Dies( ) keeps a pid with a leader, and its history only grows.
LEMMA DiesKeeps ==
    ASSUME TypeOK, NEW q \in Alive, Dies(q)
    PROVE  /\ leader' \in [Pids -> {"none", "born", "running", "zombie"}]
           /\ tripped' \in BOOLEAN
           /\ mishaps' \in [Objects -> SUBSET Mishaps]
           /\ \A r \in Pids : leader'[r] = "none" <=> leader[r] = "none"
           /\ \A o \in Objects : mishaps[o] \subseteq mishaps'[o]
<1>1. mishaps' \in [Objects -> SUBSET Mishaps] /\ \A o \in Objects : mishaps[o] \subseteq mishaps'[o]
  BY DEF Dies, TypeOK, Mishaps
<1> QED
  BY <1>1 DEF Dies, TypeOK, Alive

-----------------------------------------------------------------------------
(* The window's steps.                                                      *)

LEMMA TimerKeeps ==
    ASSUME IInv, Timer
    PROVE  IInv'
<1> USE DEF IInv, objectVars, systemVars, threadVars
<1>1. TypeOK'
  <2>1. process' \in [Panels -> Objects \cup {None}] /\ status' \in [Objects -> Statuses]
    BY DEF Timer, TypeOK
  <2>2. label' \in [Panels -> Statuses \cup {""}] /\ enabled' \in [Panels -> SUBSET Controls]
    BY <2>1, PollType DEF Timer
  <2> QED
    BY <2>1, <2>2 DEF Timer, TypeOK
<1>2. PanelInv'
  <2>1. \A p \in Panels : process'[p] = None => enabled'[p] \subseteq {"chooser"}
    BY PollNone DEF Timer
  <2> QED
    BY <2>1 DEF Timer, PanelInv, Object
<1>3. ASSUME NEW o \in Objects, "aborted" \notin mishaps'[o], Offered(o)' PROVE Gone(o)
  <2>1. status'[o] \notin Running
    BY <1>2, <1>3, PollOffers DEF Timer
  <2> QED
    BY <1>3, <2>1 DEF Timer, PipelineInv, EndedGone
<1>4. \A o \in Objects : (Starting(o)' => Starting(o)) /\ (Forking(o)' <=> Forking(o))
  BY DEF Timer, Starting, Forking, Object
<1> QED
  BY <1>1, <1>2, <1>3, <1>4, Untouched DEF Timer

LEMMA ConfigureKeeps ==
    ASSUME IInv, NEW p \in Panels, Configure(p)
    PROVE  IInv'
<1> USE DEF IInv, systemVars, threadVars
<1>0. process[p] \in Objects
  BY ClickType DEF Configure
<1>1. TypeOK'
  <2>1. process' \in [Panels -> Objects \cup {None}] /\ status' \in [Objects -> Statuses]
    BY DEF Configure, TypeOK
  <2>2. label' \in [Panels -> Statuses \cup {""}] /\ enabled' \in [Panels -> SUBSET Controls]
    BY <2>1, PollType DEF Configure
  <2> QED
    BY <1>0, <2>1, <2>2 DEF Configure, TypeOK
<1>2. PanelInv'
  <2>1. \A r \in Panels : process'[r] = None => enabled'[r] \subseteq {"chooser"}
    BY PollNone DEF Configure
  <2>2. configured' \subseteq used'
    BY <1>0, NoneAssumption DEF Configure, PanelInv
  <2>3. \A c \in Consumers : process'[c] \notin configured'
    BY <1>0, NoneAssumption, PanelsAssumption DEF Configure, PanelInv, Panels
  <2> QED
    BY <2>1, <2>2, <2>3 DEF Configure, PanelInv, Object
<1>3. ASSUME NEW o \in Objects, "aborted" \notin mishaps'[o]
      PROVE  OnlyPid(o)' /\ EndedGone(o)' /\ StartsFresh(o)' /\ StaysShown(o)'
  <2>1. OnlyPid(o) /\ EndedGone(o) /\ StartsFresh(o) /\ StaysShown(o)
    BY <1>3 DEF Configure, PipelineInv
  <2>2. Gone(o)' <=> Gone(o)
    BY DEF Configure, Gone
  <2>3. EndedGone(o)'
    <3>1. SUFFICES ASSUME Offered(o)', status'[o] \in Running PROVE Offered(o)
      BY <2>1, <2>2 DEF Configure, EndedGone, Forking
    <3>2. PICK r \in Panels \ {p} :
            /\ process'[r] = o /\ ~(main' # "idle" /\ panel' = r)
            /\ "start" \in enabled[r] \/ ("chooser" \in enabled[r] /\ o \in configured')
      BY <1>2, <3>1, PollOffers DEF Configure
    <3>3. process[r] = o /\ process[r] # process[p]
      BY <1>0, <3>2, NoneAssumption DEF Configure, PanelInv
    <3> QED
      BY <3>2, <3>3 DEF Configure, Offered
  <2>4. StaysShown(o)'
    BY <1>0, <2>1, <2>2 DEF Configure, StaysShown
  <2> QED
    BY <2>1, <2>3, <2>4 DEF Configure, OnlyPid, StartsFresh, Starting, Object
<1>4. CleanInv' /\ OwnerInv'
  BY DEF Configure, CleanInv, OwnerInv, Clean, HasLeader, EntryTrue, Forking, Object
<1> QED
  BY <1>1, <1>2, <1>3, <1>4 DEF PipelineInv

LEMMA ChangeClassKeeps ==
    ASSUME IInv, NEW p \in Panels, ChangeClass(p)
    PROVE  IInv'
<1> USE DEF IInv, systemVars, threadVars
<1> DEFINE polled == {p} \cup (IF p \in Captures THEN Consumers ELSE {})
<1>0. PICK n \in NewObject \cup (IF p \in Captures THEN {None} ELSE {}) :
        /\ process' = [process EXCEPT ![p] = n]
        /\ used' = used \cup ({n} \ {None})
  BY DEF ChangeClass
<1>a. n \in (Objects \ used) \cup {None} /\ (n = None => p \in Captures)
  BY <1>0, NoneAssumption DEF NewObject, TypeOK
<1>b. UNCHANGED <<status, pid, configured, all_processes, systemVars, tripped,
                  threadVars, owner, mishaps, forks>> /\ main = "idle" /\ poll(polled)
  BY DEF ChangeClass
<1>1. TypeOK'
  <2>1. process' \in [Panels -> Objects \cup {None}] /\ status' \in [Objects -> Statuses]
    BY <1>0, <1>a, <1>b DEF TypeOK
  <2>2. label' \in [Panels -> Statuses \cup {""}] /\ enabled' \in [Panels -> SUBSET Controls]
    BY <1>b, <2>1, PollType
  <2>3. inputs' \in [Objects -> SUBSET Objects]
    <3>1. {process'[c] : c \in Captures} \ {None} \in SUBSET Objects
      BY <2>1 DEF Panels
    <3>2. inputs \in [Objects -> SUBSET Objects]
      BY DEF TypeOK
    <3> QED
      BY <3>1, <3>2 DEF ChangeClass
  <2>4. used' \subseteq Objects
    BY <1>0, <1>a DEF TypeOK
  <2> QED
    BY <1>b, <2>1, <2>2, <2>3, <2>4 DEF TypeOK
<1>c. process'[p] = n /\ \A r \in Panels \ {p} : process'[r] = process[r]
  BY <1>0 DEF TypeOK
<1>2. PanelInv'
  <2>1. \A r \in Panels : process'[r] = None => enabled'[r] \subseteq {"chooser"}
    BY <1>b, <1>c, PollNone
  <2>2. \A r \in Panels : process'[r] \in used' \cup {None}
    BY <1>0, <1>c DEF PanelInv
  <2>3. \A r, s \in Panels : process'[r] = process'[s] /\ process'[r] # None => r = s
    BY <1>a, <1>c DEF PanelInv
  <2>4. configured' \subseteq used'
    BY <1>0, <1>b DEF PanelInv
  <2>5. \A c \in Consumers : process'[c] \notin configured'
    <3> SUFFICES ASSUME NEW c \in Consumers PROVE process'[c] \notin configured
      BY <1>b
    <3>1. CASE c = p
      BY <1>a, <1>c, <3>1, PanelsAssumption DEF PanelInv
    <3>2. CASE c # p
      BY <1>c, <3>2 DEF PanelInv, Panels
    <3> QED
      BY <3>1, <3>2
  <2> QED
    BY <1>b, <2>1, <2>2, <2>3, <2>4, <2>5 DEF PanelInv
<1>3. ASSUME NEW o \in Objects, "aborted" \notin mishaps'[o]
      PROVE  OnlyPid(o)' /\ EndedGone(o)' /\ StartsFresh(o)' /\ StaysShown(o)'
  <2>1. OnlyPid(o) /\ EndedGone(o) /\ StartsFresh(o) /\ StaysShown(o)
    BY <1>b, <1>3 DEF PipelineInv
  <2>2. Gone(o)' <=> Gone(o)
    BY <1>b DEF Gone
  <2>3. EndedGone(o)'
    <3>1. SUFFICES ASSUME Offered(o)', status'[o] \in Running PROVE Offered(o)
      BY <1>b, <2>1, <2>2 DEF EndedGone, Forking
    <3>2. PICK r \in Panels \ polled :
            /\ process'[r] = o /\ ~(main' # "idle" /\ panel' = r)
            /\ "start" \in enabled[r] \/ ("chooser" \in enabled[r] /\ o \in configured')
      BY <1>2, <1>b, <3>1, PollOffers
    <3> QED
      BY <1>b, <1>c, <3>2 DEF Offered
  <2>4. StaysShown(o)'
    <3> SUFFICES ASSUME o \in configured, ~Gone(o) PROVE \E c \in Captures : process'[c] = o
      BY <1>b, <2>2 DEF StaysShown
    <3>1. PICK c \in Captures : process[c] = o
      BY <2>1 DEF StaysShown
    <3>2. c # p
      <4> SUFFICES ASSUME c = p PROVE Offered(o)
        BY <2>1 DEF EndedGone
      <4> QED
        BY <1>b, <3>1 DEF ChangeClass, Offered
    <3> QED
      BY <1>c, <3>1, <3>2 DEF Panels
  <2>5. OnlyPid(o)' /\ StartsFresh(o)'
    BY <1>b, <2>1 DEF OnlyPid, StartsFresh, Starting
  <2> QED
    BY <2>3, <2>4, <2>5
<1>4. CleanInv' /\ OwnerInv'
  BY <1>b DEF CleanInv, OwnerInv, Clean, HasLeader, EntryTrue, Forking
<1> QED
  BY <1>1, <1>2, <1>3, <1>4 DEF PipelineInv

-----------------------------------------------------------------------------
(* The steps of start( ) and of what follows it.                            *)

LEMMA StartBeginKeeps ==
    ASSUME IInv, NEW p \in Panels, StartBegin(p)
    PROVE  IInv'
<1> USE DEF IInv, windowVars, systemVars
<1>0. process[p] \in Objects
  BY ClickType DEF StartBegin
<1>1. TypeOK'
  <2>1. forks' \in 0 .. MaxForks
    <3>1. forks \in 0 .. MaxForks /\ forks < MaxForks /\ forks' = forks + 1
      BY DEF StartBegin, TypeOK
    <3> QED
      BY ONLY ForksAssumption, <3>1
  <2>2. status' \in [Objects -> Statuses]
    BY DEF StartBegin, TypeOK, Statuses, Running
  <2> QED
    BY <1>0, <2>1, <2>2 DEF StartBegin, TypeOK
<1>2. PanelInv'
  BY <1>0, NoneAssumption DEF StartBegin, PanelInv
<1>3. ASSUME NEW o \in Objects, "aborted" \notin mishaps'[o]
      PROVE  OnlyPid(o)' /\ EndedGone(o)' /\ StartsFresh(o)' /\ StaysShown(o)'
  <2>1. OnlyPid(o) /\ EndedGone(o) /\ StartsFresh(o) /\ StaysShown(o)
    BY <1>3 DEF StartBegin, PipelineInv
  <2>2. Gone(o)' <=> Gone(o)
    BY DEF StartBegin, Gone
  <2>3. Starting(o)' => o = process[p]
    BY DEF StartBegin, Starting, Object
  <2>4. Offered(process[p])
    BY DEF StartBegin, Offered
  <2>5. EndedGone(o)'
    <3>1. Offered(o)' => Offered(o)
      BY DEF StartBegin, Offered
    <3>2. Forking(o)' => Offered(o)
      BY <2>4 DEF StartBegin, Forking, Object
    <3>3. status'[o] \notin Running => status[o] \notin Running
      BY DEF StartBegin, TypeOK, Running
    <3> QED
      BY <2>1, <2>2, <3>1, <3>2, <3>3 DEF EndedGone
  <2>6. StartsFresh(o)'
    <3> SUFFICES ASSUME o = process[p]
                 PROVE  status'[o] = "running" /\ \A q \in Pids : all_processes'[q] # o
      BY <2>3 DEF StartsFresh
    <3>1. Gone(o)
      BY <2>1, <2>4 DEF EndedGone
    <3> QED
      BY <1>0, <3>1 DEF StartBegin, TypeOK, Gone
  <2>7. OnlyPid(o)' /\ StaysShown(o)'
    BY <2>1, <2>2 DEF StartBegin, OnlyPid, StaysShown
  <2> QED
    BY <2>5, <2>6, <2>7
<1>4. ASSUME NEW o \in Objects, Clean(o)' PROVE HasLeader(o)' /\ EntryTrue(o)'
  <2>1. HasLeader(o) /\ EntryTrue(o)
    BY <1>4 DEF StartBegin, CleanInv, Clean
  <2>2. HasLeader(o)'
    BY <2>1 DEF StartBegin, HasLeader, Forking, Object, TypeOK
  <2> QED
    BY <2>1, <2>2 DEF StartBegin, EntryTrue
<1>5. OwnerInv'
  BY DEF StartBegin, OwnerInv
<1> QED
  BY <1>1, <1>2, <1>3, <1>4, <1>5 DEF PipelineInv, CleanInv

\* While the main thread goes on with its panel, nothing more is offered.
LEMMA OffersStay ==
    ASSUME UNCHANGED <<process, enabled, configured, panel>>, main # "idle", main' # "idle",
           NEW o, Offered(o)'
    PROVE  Offered(o)
BY DEF Offered

LEMMA ForkKeeps ==
    ASSUME IInv, Fork
    PROVE  IInv'
<1> USE DEF IInv, windowVars
<1>0. panel \in Panels /\ Object \in Objects /\ process[panel] = Object /\ main = "fork"
  BY ObjectType DEF Fork, Object
<1>q. PICK q \in Pids :
        /\ leader[q] = "none" /\ q \notin grouped
        /\ leader' = [leader EXCEPT ![q] = "born"]
        /\ pid' = [pid EXCEPT ![Object] = q]
        /\ owner' = [owner EXCEPT ![q] = Object]
  BY DEF Fork
<1>u. /\ UNCHANGED <<process, status, configured, inputs, used, label, enabled, all_processes,
                     grouped, programs, tripped, panel, mishaps, forks>>
      /\ main' = "setpgid" /\ Object' = Object
  BY DEF Fork, Object
<1> HIDE DEF Fork
<1>1. TypeOK'
  BY <1>0, <1>q, <1>u DEF TypeOK
<1>2. PanelInv'
  <2>1. pid'[Object] = q
    BY <1>0, <1>q DEF TypeOK
  <2> QED
    BY <1>0, <1>q, <1>u, <2>1 DEF PanelInv
<1>a. /\ \A r \in Pids \ {q} : leader'[r] = leader[r] /\ owner'[r] = owner[r]
      /\ \A o \in Objects \ {Object} : pid'[o] = pid[o]
      /\ leader'[q] = "born" /\ owner'[q] = Object /\ pid'[Object] = q
  BY <1>0, <1>q DEF TypeOK
<1>3. ASSUME NEW o \in Objects, "aborted" \notin mishaps'[o]
      PROVE  OnlyPid(o)' /\ EndedGone(o)' /\ StartsFresh(o)' /\ StaysShown(o)'
  <2>1. OnlyPid(o) /\ EndedGone(o) /\ StartsFresh(o) /\ StaysShown(o)
    BY <1>3, <1>u DEF PipelineInv
  <2>2. CASE o = Object
    <3>1. Forking(o) /\ Starting(o)
      BY <1>0, <2>2 DEF Forking, Starting
    <3>2. Gone(o)
      BY <2>1, <3>1 DEF EndedGone
    <3>3. OnlyPid(o)'
      BY <1>a, <1>u, <2>2, <3>2 DEF OnlyPid, Gone
    <3>4. status'[o] = "running" /\ \A r \in Pids : all_processes'[r] # o
      BY <1>u, <2>1, <3>1 DEF StartsFresh
    <3>5. ~Offered(o)
      BY <1>0, <2>2, BusyPanel
    <3>6. EndedGone(o)'
      BY <1>0, <1>u, <3>4, <3>5, OffersStay DEF EndedGone, Forking, Running
    <3>7. StaysShown(o)'
      BY <1>0, <1>u, <2>2 DEF StaysShown, PanelInv, Panels
    <3> QED
      BY <3>3, <3>4, <3>6, <3>7 DEF StartsFresh
  <2>3. CASE o # Object
    <3>1. Gone(o)' <=> Gone(o)
      BY <1>a, <1>u, <1>q, <2>3 DEF Gone
    <3>2. OnlyPid(o)'
      BY <1>a, <1>u, <2>1, <2>3 DEF OnlyPid
    <3>3. EndedGone(o)'
      BY <1>0, <1>u, <2>1, <3>1, OffersStay DEF EndedGone, Forking
    <3>4. StartsFresh(o)' /\ StaysShown(o)'
      BY <1>u, <2>1, <2>3, <3>1 DEF StartsFresh, Starting, StaysShown
    <3> QED
      BY <3>2, <3>3, <3>4
  <2> QED
    BY <2>2, <2>3
<1>4. ASSUME NEW o \in Objects, Clean(o)' PROVE HasLeader(o)' /\ EntryTrue(o)'
  <2>1. HasLeader(o) /\ EntryTrue(o)
    BY <1>4, <1>u DEF CleanInv, Clean
  <2>2. HasLeader(o)'
    <3>1. CASE o = Object
      BY <1>a, <1>q, <3>1 DEF HasLeader
    <3>2. CASE o # Object
      BY <1>a, <1>q, <1>u, <2>1, <3>2 DEF HasLeader, Forking
    <3> QED
      BY <3>1, <3>2
  <2>3. EntryTrue(o)'
    BY <1>a, <1>q, <1>u, <2>1 DEF EntryTrue
  <2> QED
    BY <2>2, <2>3
<1>5. OwnerInv'
  BY <1>0, <1>a DEF OwnerInv
<1> QED
  BY <1>1, <1>2, <1>3, <1>4, <1>5 DEF PipelineInv, CleanInv

LEMMA ForkFailsKeeps ==
    ASSUME IInv, ForkFails
    PROVE  IInv'
<1> USE DEF IInv, windowVars, systemVars
<1>0. panel \in Panels /\ Object \in Objects /\ process[panel] = Object /\ main = "fork"
  BY ObjectType DEF ForkFails, Object
<1>u. /\ UNCHANGED <<process, pid, configured, inputs, used, label, enabled, all_processes, leader,
                     grouped, programs, tripped, panel, owner, mishaps, forks>>
      /\ main' = "poll" /\ Object' = Object
      /\ status' = [status EXCEPT ![Object] = "fork failed"]
  BY DEF ForkFails, Object
<1>1. TypeOK'
  BY <1>u DEF TypeOK, Statuses
<1>2. PanelInv'
  BY <1>0, <1>u DEF PanelInv
<1>3. ASSUME NEW o \in Objects, "aborted" \notin mishaps'[o]
      PROVE  OnlyPid(o)' /\ EndedGone(o)' /\ StartsFresh(o)' /\ StaysShown(o)'
  <2>1. OnlyPid(o) /\ EndedGone(o) /\ StartsFresh(o) /\ StaysShown(o)
    BY <1>3, <1>u DEF PipelineInv
  <2>2. Gone(o)' <=> Gone(o)
    BY <1>u DEF Gone
  <2>3. EndedGone(o)'
    BY <1>0, <1>u, <2>1, <2>2, OffersStay DEF EndedGone, Forking, TypeOK
  <2> QED
    BY <1>u, <2>1, <2>2, <2>3 DEF OnlyPid, StartsFresh, Starting, StaysShown
<1>4. ASSUME NEW o \in Objects, Clean(o)' PROVE HasLeader(o)' /\ EntryTrue(o)'
  <2>1. HasLeader(o) /\ EntryTrue(o)
    BY <1>4, <1>u DEF CleanInv, Clean
  <2> QED
    BY <1>0, <1>u, <2>1 DEF HasLeader, EntryTrue, Forking, TypeOK, Running
<1>5. OwnerInv'
  BY <1>u DEF OwnerInv
<1> QED
  BY <1>1, <1>2, <1>3, <1>4, <1>5 DEF PipelineInv, CleanInv

LEMMA SetGroupKeeps ==
    ASSUME IInv, SetGroup
    PROVE  IInv'
<1> USE DEF IInv, objectVars, windowVars
<1>1. pid[Object] \in Pids
  BY DEF SetGroup, PanelInv
<1>2. TypeOK'
  BY <1>1 DEF SetGroup, TypeOK
<1>3. PanelInv'
  BY DEF SetGroup, PanelInv, Object
<1>4. ASSUME NEW o \in Objects, "aborted" \notin mishaps'[o], Offered(o)' PROVE Gone(o)
  BY <1>4, OffersStay, OfferedGone DEF SetGroup
<1>5. \A o \in Objects : (Starting(o)' => Starting(o)) /\ (Forking(o)' <=> Forking(o))
  BY DEF SetGroup, Starting, Forking, Object
<1> QED
  BY <1>2, <1>3, <1>4, <1>5, Untouched DEF SetGroup, TypeOK

\* The child is gone without an entry, so that nothing of the object is left.
LEMMA SetGroupFailsKeeps ==
    ASSUME IInv, SetGroupFails
    PROVE  IInv'
<1> USE DEF IInv, objectVars, windowVars, systemVars
<1>1. TypeOK'
  BY DEF SetGroupFails, TypeOK
<1>2. PanelInv'
  BY DEF SetGroupFails, PanelInv
<1>3. ASSUME NEW o \in Objects, "aborted" \notin mishaps'[o], Offered(o)' PROVE Gone(o)
  <2>1. CASE o = Object
    BY <1>3, <2>1 DEF SetGroupFails, PipelineInv, OnlyPid, StartsFresh, Starting, Gone
  <2>2. CASE o # Object
    <3>1. Offered(o)
      BY <1>3, <2>2 DEF SetGroupFails, Offered, Object
    <3> QED
      BY <1>3, <3>1, OfferedGone DEF SetGroupFails
  <2> QED
    BY <2>1, <2>2
<1>4. \A o \in Objects : (Starting(o)' => Starting(o)) /\ (Forking(o)' <=> Forking(o))
  BY DEF SetGroupFails, Starting, Forking
<1> QED
  BY <1>1, <1>2, <1>3, <1>4, Untouched DEF SetGroupFails, TypeOK

LEMMA RegisterKeeps ==
    ASSUME IInv, Register
    PROVE  IInv'
<1> USE DEF IInv, objectVars, windowVars, systemVars
<1>0. /\ panel \in Panels /\ Object \in Objects /\ process[panel] = Object /\ main = "register"
      /\ pid[Object] \in Pids
  BY ObjectType DEF Register, Object, PanelInv
<1>u. /\ UNCHANGED <<process, status, pid, configured, inputs, used, label, enabled, leader, grouped,
                     programs, tripped, panel, owner, mishaps, forks>>
      /\ main' = "poll" /\ Object' = Object
      /\ all_processes' = [all_processes EXCEPT ![pid[Object]] = Object]
  BY DEF Register, Object
<1>1. TypeOK'
  BY <1>0, <1>u DEF TypeOK
<1>2. PanelInv'
  BY <1>0, <1>u DEF PanelInv
<1>a. /\ all_processes'[pid[Object]] = Object
      /\ \A r \in Pids \ {pid[Object]} : all_processes'[r] = all_processes[r]
  BY <1>0, <1>u DEF TypeOK
<1>3. ASSUME NEW o \in Objects, "aborted" \notin mishaps'[o]
      PROVE  OnlyPid(o)' /\ EndedGone(o)' /\ StartsFresh(o)' /\ StaysShown(o)'
  <2>1. OnlyPid(o) /\ EndedGone(o) /\ StartsFresh(o) /\ StaysShown(o)
    BY <1>3, <1>u DEF PipelineInv
  <2>2. OnlyPid(o)'
    BY <1>0, <1>a, <1>u, <2>1 DEF OnlyPid
  <2>3. o # Object => (Gone(o) => Gone(o)')
    BY <1>a, <1>u DEF Gone
  <2>4. o = Object => status[o] = "running" /\ ~Offered(o)
    BY <1>0, <2>1, BusyPanel DEF StartsFresh, Starting
  <2>5. EndedGone(o)'
    BY <1>0, <1>u, <2>1, <2>3, <2>4, OffersStay DEF EndedGone, Forking, Running
  <2>6. StaysShown(o)'
    <3>1. CASE o = Object
      BY <1>0, <1>u, <3>1 DEF StaysShown, PanelInv, Panels
    <3>2. CASE o # Object
      BY <1>u, <2>1, <2>3, <3>2 DEF StaysShown
    <3> QED
      BY <3>1, <3>2
  <2>7. StartsFresh(o)'
    BY <1>u DEF StartsFresh, Starting
  <2> QED
    BY <2>2, <2>5, <2>6, <2>7
<1>4. ASSUME NEW o \in Objects, Clean(o)' PROVE HasLeader(o)' /\ EntryTrue(o)'
  <2>1. Clean(o) /\ "aborted" \notin mishaps[o]
    BY <1>4, <1>u DEF Clean
  <2>2. HasLeader(o) /\ EntryTrue(o)
    BY <2>1 DEF CleanInv
  <2>3. HasLeader(o)'
    BY <1>0, <1>u, <2>2 DEF HasLeader, Forking
  <2>4. ASSUME o = Object PROVE owner[pid[o]] = o /\ leader[pid[o]] # "none"
    <3>1. status[o] = "running"
      BY <1>0, <2>1, <2>4 DEF PipelineInv, StartsFresh, Starting
    <3> QED
      BY <1>0, <2>2, <3>1 DEF HasLeader, Forking, Running
  <2>5. EntryTrue(o)'
    BY <1>0, <1>a, <1>u, <2>2, <2>4 DEF EntryTrue
  <2> QED
    BY <2>3, <2>5
<1>5. OwnerInv'
  BY <1>u DEF OwnerInv
<1> QED
  BY <1>1, <1>2, <1>3, <1>4, <1>5 DEF PipelineInv, CleanInv

LEMMA PollPanelKeeps ==
    ASSUME IInv, PollPanel
    PROVE  IInv'
<1> USE DEF IInv, objectVars, systemVars
<1>1. TypeOK'
  <2>1. process' \in [Panels -> Objects \cup {None}] /\ status' \in [Objects -> Statuses]
    BY DEF PollPanel, TypeOK
  <2>2. label' \in [Panels -> Statuses \cup {""}] /\ enabled' \in [Panels -> SUBSET Controls]
    BY <2>1, PollType DEF PollPanel
  <2> QED
    BY <2>1, <2>2 DEF PollPanel, TypeOK
<1>2. PanelInv'
  <2>1. \A p \in Panels : process'[p] = None => enabled'[p] \subseteq {"chooser"}
    BY PollNone DEF PollPanel
  <2> QED
    BY <2>1 DEF PollPanel, PanelInv
<1>3. ASSUME NEW o \in Objects, "aborted" \notin mishaps'[o], Offered(o)' PROVE Gone(o)
  <2>1. CASE status'[o] \in Running
    <3>1. Offered(o)
      BY <1>2, <1>3, <2>1, PollOffers DEF PollPanel, Offered
    <3> QED
      BY <1>3, <3>1, OfferedGone DEF PollPanel
  <2>2. CASE status'[o] \notin Running
    BY <1>3, <2>2 DEF PollPanel, PipelineInv, EndedGone
  <2> QED
    BY <2>1, <2>2
<1>4. \A o \in Objects : (Starting(o)' => Starting(o)) /\ (Forking(o)' <=> Forking(o))
  BY DEF PollPanel, Starting, Forking
<1> QED
  BY <1>1, <1>2, <1>3, <1>4, Untouched DEF PollPanel, TypeOK

-----------------------------------------------------------------------------
(* The steps of stop( ).                                                    *)

\* A click makes the main thread busy with a panel that has an object.
LEMMA ClickFacts ==
    ASSUME TypeOK, PanelInv, NEW p \in Panels, Click(p)
    PROVE  /\ process[p] \in Objects
           /\ UNCHANGED <<process, status, pid, configured, inputs, used, label, enabled,
                          all_processes, owner, forks>>
           /\ main = "idle" /\ panel' = p /\ Object' = process[p]
           /\ \A o \in Objects : Offered(o)' => Offered(o)
<1>1. process[p] \in Objects
  BY ClickType DEF Click
<1>2. /\ UNCHANGED <<process, status, pid, configured, inputs, used, label, enabled,
                     all_processes, owner, forks>>
      /\ main = "idle" /\ panel' = p
  BY DEF Click, objectVars, windowVars
<1>3. Object' = process[p]
  BY <1>2 DEF Object
<1>4. \A o \in Objects : Offered(o)' => Offered(o)
  BY <1>2 DEF Offered
<1> QED
  BY <1>1, <1>2, <1>3, <1>4

LEMMA InterruptKeeps ==
    ASSUME IInv, NEW p \in Panels, Interrupt(p)
    PROVE  IInv'
<1> USE DEF IInv
<1>0. /\ UNCHANGED <<leader, grouped, programs, tripped, mishaps>>
      /\ main' = "stopping" /\ status[process[p]] = "running" /\ Click(p)
  BY DEF Interrupt, systemVars
<1>c. /\ process[p] \in Objects
      /\ UNCHANGED <<process, status, pid, configured, inputs, used, label, enabled,
                     all_processes, owner, forks>>
      /\ main = "idle" /\ panel' = p /\ Object' = process[p]
      /\ \A o \in Objects : Offered(o)' => Offered(o)
  BY <1>0, ClickFacts
<1>1. TypeOK'
  BY <1>0, <1>c DEF TypeOK
<1>2. PanelInv'
  BY <1>0, <1>c, NoneAssumption DEF PanelInv
<1>3. ASSUME NEW o \in Objects, "aborted" \notin mishaps'[o], Offered(o)' PROVE Gone(o)
  BY <1>0, <1>3, <1>c, OfferedGone
<1>4. \A o \in Objects : (Starting(o)' => Starting(o)) /\ (Forking(o)' <=> Forking(o))
  BY <1>0, <1>c DEF Starting, Forking
<1> QED
  BY <1>0, <1>1, <1>2, <1>3, <1>4, <1>c, Untouched

\* History makes up for the end that is overwritten.
LEMMA InterruptedKeeps ==
    ASSUME IInv, Interrupted
    PROVE  IInv'
<1> USE DEF IInv
<1>0. panel \in Panels /\ Object \in Objects /\ process[panel] = Object /\ main = "stopping"
  BY ObjectType DEF Interrupted, Object
<1>u. /\ UNCHANGED <<process, pid, configured, inputs, used, label, enabled, all_processes, leader,
                     grouped, programs, tripped, panel, owner, forks>>
      /\ main' = "poll" /\ Object' = Object
      /\ status' = [status EXCEPT ![Object] = "interrupted"]
      /\ mishaps' = IF status[Object] = "exited"
                    THEN [mishaps EXCEPT ![Object] = @ \cup {"overtaken"}] ELSE mishaps
  BY DEF Interrupted, Object, windowVars, systemVars
<1>m. mishaps' \in [Objects -> SUBSET Mishaps] /\ \A o \in Objects : mishaps[o] \subseteq mishaps'[o]
  BY <1>u DEF TypeOK, Mishaps
<1>1. TypeOK'
  <2>1. status' \in [Objects -> Statuses]
    BY <1>u DEF TypeOK, Statuses, Running
  <2> QED
    BY <1>m, <1>u, <2>1 DEF TypeOK
<1>2. PanelInv'
  BY <1>0, <1>u DEF PanelInv
<1>s. status'[Object] = "interrupted" /\ \A o \in Objects \ {Object} : status'[o] = status[o]
  BY <1>0, <1>u DEF TypeOK
<1>3. ASSUME NEW o \in Objects, "aborted" \notin mishaps'[o]
      PROVE  OnlyPid(o)' /\ EndedGone(o)' /\ StartsFresh(o)' /\ StaysShown(o)'
  <2>1. OnlyPid(o) /\ EndedGone(o) /\ StartsFresh(o) /\ StaysShown(o)
    BY <1>3, <1>m DEF PipelineInv
  <2>2. Gone(o)' <=> Gone(o)
    BY <1>u DEF Gone
  <2>3. Offered(o)' => Offered(o) /\ o # Object
    BY <1>0, <1>u, BusyPanel, OffersStay
  <2>4. EndedGone(o)'
    BY <1>0, <1>s, <1>u, <2>1, <2>2, <2>3 DEF EndedGone, Forking, Running
  <2> QED
    BY <1>u, <2>1, <2>2, <2>4 DEF OnlyPid, StartsFresh, Starting, StaysShown
<1>4. ASSUME NEW o \in Objects, Clean(o)' PROVE HasLeader(o)' /\ EntryTrue(o)'
  <2>1. Clean(o)
    BY <1>4, <1>m DEF Clean
  <2>2. HasLeader(o) /\ EntryTrue(o)
    BY <2>1 DEF CleanInv
  <2>3. HasLeader(o)'
    <3>1. CASE o = Object
      <4>1. status[o] # "exited"
        BY <1>4, <1>u, <3>1 DEF Clean, TypeOK
      <4>2. status[o] = "running"
        BY <1>0, <3>1, <4>1 DEF PanelInv
      <4> QED
        BY <1>0, <1>u, <2>2, <4>2 DEF HasLeader, Forking, Running
    <3>2. CASE o # Object
      BY <1>0, <1>s, <1>u, <2>2, <3>2 DEF HasLeader, Forking
    <3> QED
      BY <3>1, <3>2
  <2> QED
    BY <1>u, <2>2, <2>3 DEF EntryTrue
<1>5. OwnerInv'
  BY <1>u DEF OwnerInv
<1> QED
  BY <1>1, <1>2, <1>3, <1>4, <1>5 DEF PipelineInv, CleanInv

LEMMA KillDashNineKeeps ==
    ASSUME IInv, NEW p \in Panels, KillDashNine(p)
    PROVE  IInv'
<1> USE DEF IInv
<1>0. Click(p) /\ main' = "poll"
  BY DEF KillDashNine
<1>c. /\ process[p] \in Objects
      /\ UNCHANGED <<process, status, pid, configured, inputs, used, label, enabled,
                     all_processes, owner, forks>>
      /\ main = "idle" /\ panel' = p /\ Object' = process[p]
      /\ \A o \in Objects : Offered(o)' => Offered(o)
  BY <1>0, ClickFacts
<1> DEFINE q == pid[process[p]]
<1>q. q \in grouped /\ q \in Pids
  BY DEF KillDashNine, TypeOK
<1>d. /\ leader' \in [Pids -> {"none", "born", "running", "zombie"}]
      /\ tripped' \in BOOLEAN
      /\ mishaps' \in [Objects -> SUBSET Mishaps]
      /\ \A r \in Pids : leader'[r] = "none" <=> leader[r] = "none"
      /\ \A o \in Objects : mishaps[o] \subseteq mishaps'[o]
  <2>1. CASE q \in Alive
    BY <2>1, DiesKeeps DEF KillDashNine
  <2>2. CASE q \notin Alive
    BY <2>2 DEF KillDashNine, TypeOK
  <2> QED
    BY <2>1, <2>2
<1>g. grouped' \subseteq Pids /\ programs' \subseteq grouped'
  <2>1. programs' = programs \ {q} /\ (grouped' = grouped \/ grouped' = grouped \ {q})
    BY DEF KillDashNine
  <2> QED
    BY <2>1 DEF TypeOK
<1>1. TypeOK'
  BY <1>0, <1>c, <1>d, <1>g DEF TypeOK
<1>2. PanelInv'
  BY <1>0, <1>c, NoneAssumption DEF PanelInv
<1>3. ASSUME NEW o \in Objects, "aborted" \notin mishaps'[o], Offered(o)' PROVE Gone(o)
  BY <1>3, <1>c, <1>d, OfferedGone
<1>4. \A o \in Objects : (Starting(o)' => Starting(o)) /\ (Forking(o)' <=> Forking(o))
  BY <1>0, <1>c DEF Starting, Forking
<1> QED
  BY <1>1, <1>2, <1>3, <1>4, <1>c, <1>d, Untouched

LEMMA NothingToStopKeeps ==
    ASSUME IInv, NEW p \in Panels, NothingToStop(p)
    PROVE  IInv'
<1> USE DEF IInv
<1>0. UNCHANGED <<leader, grouped, programs, tripped, mishaps>> /\ main' = "poll" /\ Click(p)
  BY DEF NothingToStop, systemVars
<1>c. /\ process[p] \in Objects
      /\ UNCHANGED <<process, status, pid, configured, inputs, used, label, enabled,
                     all_processes, owner, forks>>
      /\ main = "idle" /\ panel' = p /\ Object' = process[p]
      /\ \A o \in Objects : Offered(o)' => Offered(o)
  BY <1>0, ClickFacts
<1>1. TypeOK'
  BY <1>0, <1>c DEF TypeOK
<1>2. PanelInv'
  BY <1>0, <1>c, NoneAssumption DEF PanelInv
<1>3. ASSUME NEW o \in Objects, "aborted" \notin mishaps'[o], Offered(o)' PROVE Gone(o)
  BY <1>0, <1>3, <1>c, OfferedGone
<1>4. \A o \in Objects : (Starting(o)' => Starting(o)) /\ (Forking(o)' <=> Forking(o))
  BY <1>0, <1>c DEF Starting, Forking
<1> QED
  BY <1>0, <1>1, <1>2, <1>3, <1>4, <1>c, Untouched

-----------------------------------------------------------------------------
(* The handlers.                                                            *)

LEMMA NotedGrows ==
    ASSUME TypeOK, NEW q \in Pids
    PROVE  /\ Noted(q) \in [Objects -> SUBSET Mishaps]
           /\ \A o \in Objects : mishaps[o] \subseteq Noted(q)[o]
<1>1. mishaps \in [Objects -> SUBSET Mishaps]
  BY DEF TypeOK
<1> QED
  BY <1>1 DEF Noted, Mishaps

LEMMA ReapKeeps ==
    ASSUME IInv, Reap
    PROVE  IInv'
<1> USE DEF IInv
<1>q. PICK q \in Pids :
        /\ Wait(q)
        /\ IF all_processes[q] # None THEN on_dead(all_processes[q])
           ELSE UNCHANGED <<all_processes, status>>
        /\ mishaps' = Noted(q)
        /\ UNCHANGED threadVars
  BY DEF Reap
<1>u. UNCHANGED <<process, pid, configured, inputs, used, label, enabled, programs, main, panel,
                  owner, forks>> /\ tripped' = FALSE /\ Object' = Object
  BY <1>q DEF Wait, threadVars, windowVars, Object
<1> HIDE DEF IInv
<1>z. q \in Pids /\ leader[q] = "zombie"
  BY <1>q DEF Wait, Zombies
<1>m. /\ mishaps' \in [Objects -> SUBSET Mishaps]
      /\ \A o \in Objects : mishaps[o] \subseteq mishaps'[o]
  BY <1>q, NotedGrows DEF IInv
<1>l. leader'[q] = "none" /\ \A r \in Pids \ {q} : leader'[r] = leader[r]
  BY <1>q, <1>z DEF Wait, IInv, TypeOK
<1> DEFINE x == all_processes[q]
<1>x. x \in Objects \cup {None}
  BY <1>z DEF IInv, TypeOK
<1>a. /\ all_processes' \in [Pids -> Objects \cup {None}]
      /\ \A r \in Pids : all_processes'[r] \in {None, all_processes[r]}
      /\ x # None => \A r \in Pids : r = pid[x] => all_processes'[r] = None
  <2>1. all_processes \in [Pids -> Objects \cup {None}]
    BY DEF IInv, TypeOK
  <2>2. CASE x = None
    BY <1>q, <2>1, <2>2
  <2>3. CASE x # None
    BY <1>q, <2>1, <2>3 DEF on_dead
  <2> QED
    BY <2>2, <2>3
<1>s. /\ status' \in [Objects -> Statuses]
      /\ \A o \in Objects : status'[o] = IF o = x THEN "exited" ELSE status[o]
  <2>1. status \in [Objects -> Statuses]
    BY DEF IInv, TypeOK
  <2>2. CASE x = None
    BY <1>q, <2>1, <2>2, NoneAssumption
  <2>3. CASE x # None
    BY <1>q, <2>1, <2>3 DEF on_dead, Statuses
  <2> QED
    BY <2>2, <2>3
<1>1. TypeOK'
  <2>1. leader' \in [Pids -> {"none", "born", "running", "zombie"}]
    BY <1>q DEF Wait, IInv, TypeOK
  <2>2. grouped' \subseteq Pids /\ programs' \subseteq grouped'
    BY <1>q, <1>u DEF Wait, IInv, TypeOK
  <2> QED
    BY <1>a, <1>m, <1>s, <1>u, <2>1, <2>2 DEF IInv, TypeOK
<1>2. PanelInv'
  <2>1. main = "stopping" => Object \in Objects
    BY ObjectType DEF IInv
  <2>2. main' = "stopping" => status'[Object] \in {"running", "exited"}
    BY <1>s, <1>u, <2>1 DEF IInv, PanelInv
  <2> QED
    BY <1>u, <2>2 DEF IInv, PanelInv
<1>3. ASSUME NEW o \in Objects, "aborted" \notin mishaps'[o]
      PROVE  OnlyPid(o)' /\ EndedGone(o)' /\ StartsFresh(o)' /\ StaysShown(o)'
  <2>1. OnlyPid(o) /\ EndedGone(o) /\ StartsFresh(o) /\ StaysShown(o)
    BY <1>3, <1>m DEF IInv, PipelineInv
  <2>0. o # None
    BY NoneAssumption
  <2>2. Gone(o) => Gone(o)'
    BY <1>a, <1>l, <1>u, <2>0 DEF Gone
  <2>3. OnlyPid(o)'
    BY <1>a, <1>l, <1>u, <2>0, <2>1 DEF OnlyPid
  <2>4. o = x => Gone(o)'
    <3> SUFFICES ASSUME o = x PROVE Gone(o)'
      OBVIOUS
    <3>1. q = pid[o]
      BY <1>z, <2>1 DEF OnlyPid
    <3>2. \A r \in Pids : all_processes'[r] = o \/ (owner'[r] = o /\ leader'[r] # "none")
                            => r = q
      BY <1>u, <2>3, <3>1 DEF OnlyPid
    <3>3. all_processes'[q] = None /\ leader'[q] = "none"
      BY <1>a, <1>l, <1>z, <2>0, <3>1
    <3> QED
      BY <2>0, <3>2, <3>3 DEF Gone
  <2>5. Offered(o)' => Offered(o)
    BY <1>u DEF Offered
  <2>6. EndedGone(o)'
    BY <1>s, <1>u, <2>1, <2>2, <2>4, <2>5 DEF EndedGone, Forking
  <2>7. StartsFresh(o)'
    BY <1>a, <1>s, <1>u, <1>z, <2>0, <2>1 DEF StartsFresh, Starting
  <2> QED
    BY <1>u, <2>1, <2>2, <2>3, <2>6, <2>7 DEF StaysShown
<1>4. ASSUME NEW o \in Objects, Clean(o)' PROVE HasLeader(o)' /\ EntryTrue(o)'
  <2>0. o # None
    BY NoneAssumption
  <2>1. Clean(o) /\ "aborted" \notin mishaps[o]
    BY <1>4, <1>m DEF Clean
  <2>2. HasLeader(o) /\ EntryTrue(o) /\ OnlyPid(o)
    BY <2>1 DEF IInv, CleanInv, PipelineInv
  <2>3. HasLeader(o)'
    <3> SUFFICES ASSUME status'[o] \in Running, ~Forking(o)'
                 PROVE  pid[o] \in Pids /\ leader'[pid[o]] # "none" /\ owner[pid[o]] = o
      BY <1>u DEF HasLeader
    <3>1. o # x
      BY <1>s DEF Running
    <3>2. pid[o] \in Pids /\ leader[pid[o]] # "none" /\ owner[pid[o]] = o
      BY <1>s, <1>u, <2>2, <3>1 DEF HasLeader, Forking
    <3>3. pid[o] # q
      <4> SUFFICES ASSUME owner[q] = o PROVE FALSE
        BY <3>2
      <4>1. "early" \in mishaps'[o] \/ "mistaken" \in mishaps'[o]
        BY <1>q, <3>1 DEF Noted
      <4> QED
        BY <1>4, <4>1 DEF Clean
    <3> QED
      BY <1>l, <3>2, <3>3
  <2>4. EntryTrue(o)'
    <3> SUFFICES ASSUME NEW r \in Pids, all_processes'[r] = o
                 PROVE  owner[r] = o /\ leader'[r] # "none"
      BY <1>u DEF EntryTrue
    <3>1. all_processes[r] = o
      BY <1>a, <2>0
    <3>2. owner[r] = o /\ leader[r] # "none" /\ r = pid[o]
      BY <2>2, <3>1 DEF EntryTrue, OnlyPid
    <3>3. r # q
      BY <1>a, <2>0, <3>1, <3>2
    <3> QED
      BY <1>l, <3>2, <3>3
  <2> QED
    BY <2>3, <2>4
<1>5. OwnerInv'
  BY <1>l, <1>u DEF IInv, OwnerInv
<1> QED
  BY <1>1, <1>2, <1>3, <1>4, <1>5 DEF IInv, PipelineInv, CleanInv

\* The object looked up was aborted before, or its entry would be its own pid's.
LEMMA ReapFailsKeeps ==
    ASSUME IInv, ReapFails
    PROVE  IInv'
<1>q. PICK q \in Pids :
        /\ Wait(q) /\ KeyError(q)
        /\ main' = "idle" /\ panel' = None
        /\ mishaps' = IF main = "idle" THEN Noted(q)
                      ELSE [Noted(q) EXCEPT ![Object] = @ \cup {"aborted"}]
        /\ UNCHANGED <<all_processes, status>>
  BY DEF ReapFails
<1>u. UNCHANGED <<process, pid, configured, inputs, used, label, enabled, programs,
                  owner, forks, all_processes, status>> /\ tripped' = FALSE
  BY <1>q DEF Wait, windowVars
<1>0. main # "idle" => panel \in Panels /\ Object \in Objects /\ process[panel] = Object
  BY ObjectType DEF IInv, Object
<1>m. /\ mishaps' \in [Objects -> SUBSET Mishaps]
      /\ \A o \in Objects : Noted(q)[o] \subseteq mishaps'[o] /\ mishaps[o] \subseteq mishaps'[o]
      /\ main # "idle" => "aborted" \in mishaps'[Object]
  <2>1. Noted(q) \in [Objects -> SUBSET Mishaps] /\ \A o \in Objects : mishaps[o] \subseteq Noted(q)[o]
    BY NotedGrows DEF IInv
  <2> QED
    BY <1>0, <1>q, <2>1 DEF Mishaps
<1>l. leader'[q] = "none" /\ \A r \in Pids \ {q} : leader'[r] = leader[r]
  BY <1>q DEF Wait, IInv, TypeOK
<1>1. TypeOK'
  <2>1. leader' \in [Pids -> {"none", "born", "running", "zombie"}]
    BY <1>q DEF Wait, IInv, TypeOK
  <2>2. grouped' \subseteq Pids /\ programs' \subseteq grouped'
    BY <1>q, <1>u DEF Wait, IInv, TypeOK
  <2> QED
    BY <1>m, <1>q, <1>u, <2>1, <2>2 DEF IInv, TypeOK
<1>2. PanelInv'
  BY <1>q, <1>u DEF IInv, PanelInv
<1>3. ASSUME NEW o \in Objects, "aborted" \notin mishaps'[o]
      PROVE  OnlyPid(o)' /\ EndedGone(o)' /\ StartsFresh(o)' /\ StaysShown(o)'
  <2>1. OnlyPid(o) /\ EndedGone(o) /\ StartsFresh(o) /\ StaysShown(o)
    BY <1>3, <1>m DEF IInv, PipelineInv
  <2>2. Gone(o) => Gone(o)'
    BY <1>l, <1>u DEF Gone
  <2>3. OnlyPid(o)'
    BY <1>l, <1>u, <2>1 DEF OnlyPid
  <2>4. Offered(o)' => Offered(o)
    <3>1. main # "idle" => o # process[panel]
      BY <1>0, <1>3, <1>m
    <3> QED
      BY <1>u, <3>1 DEF Offered
  <2>5. EndedGone(o)'
    BY <1>q, <1>u, <2>1, <2>2, <2>4 DEF EndedGone, Forking
  <2> QED
    BY <1>q, <1>u, <2>1, <2>2, <2>3, <2>5 DEF StartsFresh, Starting, StaysShown
<1>4. ASSUME NEW o \in Objects, Clean(o)' PROVE HasLeader(o)' /\ EntryTrue(o)'
  <2>1. Clean(o) /\ "aborted" \notin mishaps[o] /\ ~(main # "idle" /\ Object = o)
    BY <1>4, <1>m DEF Clean
  <2>2. HasLeader(o) /\ EntryTrue(o) /\ OnlyPid(o)
    BY <2>1 DEF IInv, CleanInv, PipelineInv
  <2>3. all_processes[q] # o
    <3> SUFFICES ASSUME all_processes[q] = o PROVE FALSE
      OBVIOUS
    <3>1. q = pid[o]
      BY <2>2 DEF OnlyPid
    <3> QED
      BY <1>q, <3>1 DEF KeyError
  <2>4. owner[q] # o
    <3> SUFFICES ASSUME owner[q] = o PROVE FALSE
      OBVIOUS
    <3>1. "mistaken" \in Noted(q)[o]
      BY <1>q, <2>3 DEF KeyError, Noted
    <3> QED
      BY <1>4, <1>m, <3>1 DEF Clean
  <2>5. HasLeader(o)'
    BY <1>l, <1>q, <1>u, <2>1, <2>2, <2>4 DEF HasLeader, Forking
  <2>6. EntryTrue(o)'
    BY <1>l, <1>u, <2>2, <2>3 DEF EntryTrue
  <2> QED
    BY <2>5, <2>6
<1>5. OwnerInv'
  BY <1>l, <1>u DEF IInv, OwnerInv
<1> QED
  BY <1>1, <1>2, <1>3, <1>4, <1>5 DEF IInv, PipelineInv, CleanInv

\* Whatever Ctrl+C leaves behind is booked to the object.
LEMMA SigIntKeeps ==
    ASSUME IInv, SigInt
    PROVE  IInv'
<1> USE DEF IInv
<1>0. panel \in Panels /\ Object \in Objects /\ process[panel] = Object /\ main # "idle"
  BY ObjectType DEF SigInt, Object
<1>u. /\ UNCHANGED <<process, status, pid, configured, inputs, used, label, enabled, all_processes,
                     leader, grouped, programs, tripped, owner, forks>>
      /\ main' = "idle" /\ panel' = None
      /\ mishaps' = [mishaps EXCEPT ![Object] = @ \cup {"aborted"}]
  BY DEF SigInt, objectVars, windowVars, systemVars
<1>m. /\ mishaps' \in [Objects -> SUBSET Mishaps]
      /\ \A o \in Objects : mishaps[o] \subseteq mishaps'[o]
      /\ "aborted" \in mishaps'[Object]
  BY <1>0, <1>u DEF TypeOK, Mishaps
<1>1. TypeOK'
  BY <1>m, <1>u DEF TypeOK
<1>2. PanelInv'
  BY <1>u DEF PanelInv
<1>3. ASSUME NEW o \in Objects, "aborted" \notin mishaps'[o]
      PROVE  OnlyPid(o)' /\ EndedGone(o)' /\ StartsFresh(o)' /\ StaysShown(o)'
  <2>1. OnlyPid(o) /\ EndedGone(o) /\ StartsFresh(o) /\ StaysShown(o)
    BY <1>3, <1>m DEF PipelineInv
  <2>2. Gone(o)' <=> Gone(o)
    BY <1>u DEF Gone
  <2>3. Offered(o)' => Offered(o)
    <3>1. o # process[panel]
      BY <1>0, <1>3, <1>m
    <3> QED
      BY <1>u, <3>1 DEF Offered
  <2>4. EndedGone(o)'
    BY <1>u, <2>1, <2>2, <2>3 DEF EndedGone, Forking
  <2> QED
    BY <1>u, <2>1, <2>2, <2>4 DEF OnlyPid, StartsFresh, Starting, StaysShown
<1>4. ASSUME NEW o \in Objects, Clean(o)' PROVE HasLeader(o)' /\ EntryTrue(o)'
  <2>1. Clean(o) /\ o # Object
    BY <1>4, <1>m DEF Clean
  <2>2. HasLeader(o) /\ EntryTrue(o)
    BY <2>1 DEF CleanInv
  <2> QED
    BY <1>u, <2>1, <2>2 DEF HasLeader, EntryTrue, Forking
<1>5. OwnerInv'
  BY <1>u DEF OwnerInv
<1> QED
  BY <1>1, <1>2, <1>3, <1>4, <1>5 DEF PipelineInv, CleanInv

-----------------------------------------------------------------------------
(* The children, of which the console's process sees nothing yet.           *)

LEMMA ChildKeeps ==
    ASSUME IInv, UNCHANGED childVars,
           leader' \in [Pids -> {"none", "born", "running", "zombie"}],
           grouped' \subseteq Pids /\ programs' \subseteq grouped',
           tripped' \in BOOLEAN, mishaps' \in [Objects -> SUBSET Mishaps],
           \A r \in Pids : leader'[r] = "none" <=> leader[r] = "none",
           \A o \in Objects : mishaps[o] \subseteq mishaps'[o]
    PROVE  IInv'
<1> USE DEF IInv, childVars, objectVars, windowVars, threadVars
<1>1. TypeOK'
  BY DEF TypeOK
<1>2. PanelInv'
  BY DEF PanelInv, Object
<1>3. ASSUME NEW o \in Objects, "aborted" \notin mishaps'[o], Offered(o)' PROVE Gone(o)
  <2>1. Offered(o)
    BY <1>3 DEF Offered
  <2> QED
    BY <1>3, <2>1, OfferedGone
<1>4. \A o \in Objects : (Starting(o)' => Starting(o)) /\ (Forking(o)' <=> Forking(o))
  BY DEF Starting, Forking, Object
<1> QED
  BY <1>1, <1>2, <1>3, <1>4, Untouched

LEMMA SpawnsKeeps ==
    ASSUME IInv, NEW q \in Pids, Spawns(q)
    PROVE  IInv'
<1>1. /\ leader' \in [Pids -> {"none", "born", "running", "zombie"}]
      /\ \A r \in Pids : leader'[r] = "none" <=> leader[r] = "none"
  BY DEF Spawns, IInv, TypeOK
<1>2. grouped' \subseteq Pids /\ programs' \subseteq grouped'
  BY DEF Spawns, IInv, TypeOK
<1>3. tripped' \in BOOLEAN /\ mishaps' \in [Objects -> SUBSET Mishaps] /\ mishaps' = mishaps
  BY DEF Spawns, IInv, TypeOK
<1> QED
  BY <1>1, <1>2, <1>3, ChildKeeps DEF Spawns

LEMMA ProgramsEndKeeps ==
    ASSUME IInv, NEW q \in Pids, ProgramsEnd(q)
    PROVE  IInv'
<1>1. grouped' \subseteq Pids /\ programs' \subseteq grouped'
  BY DEF ProgramsEnd, IInv, TypeOK
<1>2. tripped' \in BOOLEAN /\ mishaps' \in [Objects -> SUBSET Mishaps] /\ mishaps' = mishaps
  BY DEF ProgramsEnd, IInv, TypeOK
<1>3. leader' = leader /\ leader' \in [Pids -> {"none", "born", "running", "zombie"}]
  BY DEF ProgramsEnd, IInv, TypeOK
<1> QED
  BY <1>1, <1>2, <1>3, ChildKeeps DEF ProgramsEnd

LEMMA LeaderEndsKeeps ==
    ASSUME IInv, NEW q \in Pids, LeaderEnds(q)
    PROVE  IInv'
<1>1. grouped' \subseteq Pids /\ programs' \subseteq grouped'
  BY DEF LeaderEnds, IInv, TypeOK
<1>2. /\ leader' \in [Pids -> {"none", "born", "running", "zombie"}]
      /\ tripped' \in BOOLEAN
      /\ mishaps' \in [Objects -> SUBSET Mishaps]
      /\ \A r \in Pids : leader'[r] = "none" <=> leader[r] = "none"
      /\ \A o \in Objects : mishaps[o] \subseteq mishaps'[o]
  BY DiesKeeps DEF LeaderEnds, IInv
<1> QED
  BY <1>1, <1>2, ChildKeeps DEF LeaderEnds

-----------------------------------------------------------------------------
LEMMA InitIInv == Init => IInv
<1> SUFFICES ASSUME Init PROVE IInv
  OBVIOUS
<1> USE NoneAssumption, PanelsAssumption, FirstAssumption, ForksAssumption
<1>1. /\ process \in [Panels -> Objects \cup {None}]
      /\ \A p \in Captures : process[p] = None
      /\ \A p \in Consumers : process[p] = First[p] /\ process[p] \in Objects
  BY DEF Init, Panels
<1>2. \A p \in Captures : Shown(p) = "" /\ Live(p) = {"chooser"}
  BY <1>1 DEF Shown, Live
<1>3. \A p \in Consumers : Shown(p) = "not started" /\ Live(p) = {"chooser", "configure"}
  BY <1>1 DEF Init, Shown, Live, Complete
<1>4. TypeOK
  <2>1. label \in [Panels -> Statuses \cup {""}] /\ enabled \in [Panels -> SUBSET Controls]
    BY <1>2, <1>3 DEF Init, Panels, Statuses, Controls
  <2>2. status \in [Objects -> Statuses] /\ mishaps \in [Objects -> SUBSET Mishaps]
    BY DEF Init, Statuses
  <2>3. forks \in 0 .. MaxForks
    <3>1. forks = 0
      BY DEF Init
    <3> QED
      BY ONLY ForksAssumption, <3>1
  <2>4. used \subseteq Objects
    <3>1. used = {process[p] : p \in Consumers}
      BY DEF Init
    <3> QED
      BY ONLY <1>1, <3>1
  <2> QED
    BY <1>1, <2>1, <2>2, <2>3, <2>4 DEF Init, TypeOK
<1>5. PanelInv
  <2>1. \A p \in Panels : process[p] = None => enabled[p] \subseteq {"chooser"}
    BY <1>1, <1>2 DEF Init, Panels
  <2>2. \A p \in Panels : process[p] \in used \cup {None}
    BY <1>1 DEF Init, Panels
  <2>3. \A p, q \in Panels : process[p] = process[q] /\ process[p] # None => p = q
    BY <1>1 DEF Panels
  <2>4. main = "idle" /\ configured = {}
    BY DEF Init
  <2> QED
    BY ONLY <2>1, <2>2, <2>3, <2>4 DEF PanelInv
<1>6. \A o \in Objects : Gone(o) /\ ~Starting(o) /\ ~Forking(o) /\ status[o] \notin Running
  BY DEF Init, Gone, Starting, Forking, Running
<1>7. PipelineInv
  BY <1>6 DEF PipelineInv, OnlyPid, EndedGone, StartsFresh, StaysShown, Gone
<1>8. CleanInv /\ OwnerInv
  BY <1>6 DEF Init, CleanInv, HasLeader, EntryTrue, OwnerInv, Gone
<1> QED
  BY <1>4, <1>5, <1>7, <1>8 DEF IInv

LEMMA StutterKeeps ==
    ASSUME IInv, UNCHANGED vars
    PROVE  IInv'
<1>1. UNCHANGED childVars /\ UNCHANGED <<leader, grouped, programs, tripped, mishaps>>
  BY DEF vars, childVars, systemVars
<1>2. /\ leader' \in [Pids -> {"none", "born", "running", "zombie"}]
      /\ grouped' \subseteq Pids /\ programs' \subseteq grouped'
      /\ tripped' \in BOOLEAN /\ mishaps' \in [Objects -> SUBSET Mishaps]
  BY <1>1 DEF IInv, TypeOK
<1> QED
  BY <1>1, <1>2, ChildKeeps

LEMMA StepIInv == IInv /\ [Next]_vars => IInv'
<1> SUFFICES ASSUME IInv, [Next]_vars PROVE IInv'
  OBVIOUS
<1>1. CASE Timer
  BY <1>1, TimerKeeps
<1>2. ASSUME NEW p \in Panels, ChangeClass(p) PROVE IInv'
  BY <1>2, ChangeClassKeeps
<1>3. ASSUME NEW p \in Panels, Configure(p) PROVE IInv'
  BY <1>3, ConfigureKeeps
<1>4. ASSUME NEW p \in Panels, StartBegin(p) PROVE IInv'
  BY <1>4, StartBeginKeeps
<1>5. CASE MainSteps
  BY <1>5, ForkKeeps, ForkFailsKeeps, SetGroupKeeps, SetGroupFailsKeeps, RegisterKeeps,
     InterruptedKeeps, PollPanelKeeps DEF MainSteps
<1>6. ASSUME NEW p \in Panels, Interrupt(p) PROVE IInv'
  BY <1>6, InterruptKeeps
<1>7. ASSUME NEW p \in Panels, KillDashNine(p) PROVE IInv'
  BY <1>7, KillDashNineKeeps
<1>8. ASSUME NEW p \in Panels, NothingToStop(p) PROVE IInv'
  BY <1>8, NothingToStopKeeps
<1>9. CASE Reap \/ ReapFails \/ SigInt
  BY <1>9, ReapKeeps, ReapFailsKeeps, SigIntKeeps
<1>10. ASSUME NEW q \in Pids, Spawns(q) \/ ProgramsEnd(q) \/ LeaderEnds(q) PROVE IInv'
  BY <1>10, SpawnsKeeps, ProgramsEndKeeps, LeaderEndsKeeps
<1>11. CASE UNCHANGED vars
  BY <1>11, StutterKeeps
<1> QED
  BY <1>1, <1>2, <1>3, <1>4, <1>5, <1>6, <1>7, <1>8, <1>9, <1>10, <1>11 DEF Next

\* The inductive invariant: of each object, what may be entered, alive or
\* offered, as long as no exception has cut off its start( ) or stop( ).
THEOREM Inductive == Spec => []IInv
<1> QED
  BY InitIInv, StepIInv, PTL DEF Spec

\* Every variable of the console keeps its type.
THEOREM TypeCorrect == Spec => []TypeOK
<1>1. IInv => TypeOK
  BY DEF IInv
<1> QED
  BY <1>1, Inductive, PTL

\* A status that says "running" has a leader of its own to signal and to wait
\* for, and one that says "exited" has none left, but for the four mishaps.
THEOREM Truthful == Spec => []StatusTrue
<1>1. IInv => StatusTrue
  <2> SUFFICES ASSUME IInv, NEW o \in Objects, Clean(o)
               PROVE  /\ (status[o] \in Running /\ ~Forking(o)) =>
                            /\ pid[o] # None
                            /\ leader[pid[o]] # "none" /\ owner[pid[o]] = o
                      /\ status[o] = "exited" =>
                            \A q \in Pids : owner[q] = o => leader[q] = "none"
    BY DEF StatusTrue, Clean, Forking
  <2>1. HasLeader(o) /\ EndedGone(o)
    BY CleanIsNotAborted DEF IInv, CleanInv, PipelineInv
  <2> QED
    BY <2>1, NoneAssumption DEF HasLeader, EndedGone, Gone, Running
<1> QED
  BY <1>1, Inductive, PTL

\* One pipeline for each object, and no running capture without a panel, but
\* for the exceptions that cut off start( ) or stop( ).
THEOREM SinglePipeline == Spec => []OnePipeline
<1>1. IInv => OnePipeline
  <2> SUFFICES ASSUME IInv, NEW q \in Alive, "aborted" \notin mishaps[owner[q]]
               PROVE  /\ \A r \in Alive : owner[r] = owner[q] => r = q
                      /\ owner[q] \in configured => \E p \in Captures : process[p] = owner[q]
    BY DEF OnePipeline
  <2>1. owner[q] \in Objects /\ q \in Pids /\ leader[q] # "none"
    BY DEF IInv, OwnerInv, Alive
  <2>2. OnlyPid(owner[q]) /\ StaysShown(owner[q])
    BY <2>1 DEF IInv, PipelineInv
  <2>3. ~Gone(owner[q])
    BY <2>1 DEF Gone
  <2>4. \A r \in Alive : owner[r] = owner[q] => r = pid[owner[q]]
    BY <2>2 DEF OnlyPid, Alive
  <2> QED
    BY <2>2, <2>3, <2>4 DEF StaysShown
<1> QED
  BY <1>1, Inductive, PTL
=============================================================================
