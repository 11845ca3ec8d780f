------------------------------- MODULE Console -------------------------------
(***************************************************************************)
(* The process console: src/console/openreplay_console.py.                 *)
(*                                                                         *)
(* A panel starts its pipeline of programs under a leader, a child that    *)
(* forks them, waits for them and gives its pid to the process group they  *)
(* are all in.  When a leader dies, the handler of SIGCHLD runs between    *)
(* any two steps of the main thread, reaps a child with os.wait( ) and     *)
(* looks up whose it was in all_processes.                                 *)
(*                                                                         *)
(* Pids come back once nothing of the leader and its group is left.        *)
(***************************************************************************)
EXTENDS Integers, FiniteSets

CONSTANTS Captures,      \* the panels under "Video Capture"
          Consumers,     \* those of the interface and the playout daemon
          Objects,       \* OpenreplayProcess objects, one for each class chosen
          First,         \* the objects the consumers' panels are made with
          Pids,
          None,
          MaxForks       \* bound on the pipelines started

Panels == Captures \cup Consumers

ASSUME PanelsAssumption == Captures \cap Consumers = {}
ASSUME NoneAssumption == None \notin Panels \cup Objects \cup Pids
ASSUME FirstAssumption ==
    /\ First \in [Consumers -> Objects]
    /\ \A p, q \in Consumers : First[p] = First[q] => p = q
ASSUME ForksAssumption == MaxForks \in Nat

VARIABLES process,        \* the object of each panel, or None
          status, pid,    \* of each object
          configured,     \* capture objects whose files have been chosen
          inputs,         \* _capture_processes of a consumer's object
          used,           \* objects created so far
          label, enabled, \* of each panel: the status shown, the live controls
          all_processes,  \* pid -> object, or None
          leader,         \* pid -> "none", "born", "running" or "zombie"
          grouped,        \* pids that are process groups
          programs,       \* pids whose group has programs running
          tripped,        \* a SIGCHLD has not been handled yet
          main, panel,    \* what the main thread is doing, and for which panel
          owner,          \* history: the object a pid was forked for
          mishaps,        \* history: what went wrong with each object
          forks

objectVars == <<process, status, pid, configured, inputs, used>>
windowVars == <<label, enabled>>
systemVars == <<leader, grouped, programs>>
threadVars == <<main, panel>>
vars == <<objectVars, windowVars, all_processes, systemVars, tripped, threadVars,
          owner, mishaps, forks>>

\* EXITED_NORMALLY, EXITED_WITH_SIGNAL and EXITED_WITH_ERROR are one status here.
Running == {"running", "interrupted"}
Statuses == {"not started", "fork failed", "exited"} \cup Running
Controls == {"start", "stop", "chooser", "configure"}
Mishaps == {"early", "overtaken", "aborted", "mistaken", "merged"}

TypeOK ==
    /\ process \in [Panels -> Objects \cup {None}]
    /\ status \in [Objects -> Statuses] /\ pid \in [Objects -> Pids \cup {None}]
    /\ configured \subseteq Objects /\ used \subseteq Objects
    /\ inputs \in [Objects -> SUBSET Objects]
    /\ label \in [Panels -> Statuses \cup {""}] /\ enabled \in [Panels -> SUBSET Controls]
    /\ all_processes \in [Pids -> Objects \cup {None}]
    /\ leader \in [Pids -> {"none", "born", "running", "zombie"}]
    /\ grouped \subseteq Pids /\ programs \subseteq grouped
    /\ tripped \in BOOLEAN
    /\ main \in {"idle", "fork", "setpgid", "register", "stopping", "poll"}
    /\ panel \in Panels \cup {None}
    /\ owner \in [Pids -> Objects \cup {None}]
    /\ mishaps \in [Objects -> SUBSET Mishaps]
    /\ forks \in 0 .. MaxForks

-----------------------------------------------------------------------------
(* The window.                                                              *)

\* config_complete( ): a consumer needs captures, all of them configured.
Complete(p) ==
    LET o == process[p] IN
    IF p \in Captures THEN o \in configured
    ELSE inputs[o] # {} /\ inputs[o] \subseteq configured

\* What poll( ) makes of panel p, with the objects as they are now.
Shown(p) == IF process[p] = None THEN "" ELSE status[process[p]]

\* Variant: a pipeline that is to end counts as ended.
LiveEarly(p) ==
    IF process[p] = None THEN {"chooser"}
    ELSE IF ~Complete(p) THEN {"chooser", "configure"}
    ELSE IF status[process[p]] = "running" THEN {"stop"}
    ELSE {"start", "configure", "chooser"}

\* The controls poll( ) enables; the others it disables.
Live(p) ==
    IF process[p] = None THEN {"chooser"}
    ELSE IF ~Complete(p) THEN {"chooser", "configure"}
    ELSE IF status[process[p]] \in Running THEN {"stop"}
    ELSE {"start", "configure", "chooser"}

poll(ps) ==
    /\ label' = [p \in Panels |-> IF p \in ps THEN Shown(p)' ELSE label[p]]
    /\ enabled' = [p \in Panels |-> IF p \in ps THEN Live(p)' ELSE enabled[p]]

\* The consumers start with an object each, the captures with none.
Init ==
    /\ process = [p \in Panels |-> IF p \in Captures THEN None ELSE First[p]]
    /\ used = {process[p] : p \in Consumers}
    /\ status = [o \in Objects |-> "not started"] /\ pid = [o \in Objects |-> None]
    /\ configured = {} /\ inputs = [o \in Objects |-> {}]
    /\ label = [p \in Panels |-> Shown(p)] /\ enabled = [p \in Panels |-> Live(p)]
    /\ all_processes = [q \in Pids |-> None]
    /\ leader = [q \in Pids |-> "none"] /\ grouped = {} /\ programs = {}
    /\ tripped = FALSE
    /\ main = "idle" /\ panel = None
    /\ owner = [q \in Pids |-> None] /\ mishaps = [o \in Objects |-> {}]
    /\ forks = 0

\* poll_children( ), every second.
Timer ==
    /\ main = "idle"
    /\ UNCHANGED <<objectVars, all_processes, systemVars, tripped, threadVars, owner, mishaps, forks>>
    /\ poll(Panels)

\* A new object, while the bound on them lasts.
NewObject == IF used = Objects THEN {} ELSE {CHOOSE o \in Objects : o \notin used}

\* OnChangeClass: the panel forgets its object and has a new one, or none.  A
\* new set of captures goes to the consumers; a new consumer has none yet.
ChangeClass(p) ==
    /\ main = "idle" /\ "chooser" \in enabled[p]
    /\ \E o \in NewObject \cup (IF p \in Captures THEN {None} ELSE {}) :
         /\ process' = [process EXCEPT ![p] = o]
         /\ used' = used \cup ({o} \ {None})
    /\ inputs' = [o \in Objects |->
          IF p \in Captures /\ o \in {process[c] : c \in Consumers}
          THEN {process'[c] : c \in Captures} \ {None} ELSE inputs[o]]
    /\ UNCHANGED <<status, pid, configured, all_processes, systemVars, tripped,
                   threadVars, owner, mishaps, forks>>
    /\ poll({p} \cup (IF p \in Captures THEN Consumers ELSE {}))

\* OnConfigure.  A consumer has nothing to configure, and its button only
\* raises an exception.
Configure(p) ==
    /\ main = "idle" /\ "configure" \in enabled[p] /\ p \in Captures
    /\ configured' = configured \cup {process[p]}
    /\ UNCHANGED <<process, status, pid, inputs, used, all_processes, systemVars, tripped,
                   threadVars, owner, mishaps, forks>>
    /\ poll({p})

-----------------------------------------------------------------------------
(* OnStart: start( ), then poll( ).                                         *)

Object == process[panel]

StartBegin(p) ==
    /\ main = "idle" /\ "start" \in enabled[p]
    /\ forks < MaxForks
    /\ forks' = forks + 1
    /\ status' = [status EXCEPT ![process[p]] = "running"]
    /\ main' = "fork" /\ panel' = p
    /\ UNCHANGED <<process, pid, configured, inputs, used, windowVars, all_processes,
                   systemVars, tripped, owner, mishaps>>

\* fork( ) gives a pid nobody has.
Fork ==
    /\ main = "fork"
    /\ \E q \in Pids :
         /\ leader[q] = "none" /\ q \notin grouped
         /\ leader' = [leader EXCEPT ![q] = "born"]
         /\ pid' = [pid EXCEPT ![Object] = q]
         /\ owner' = [owner EXCEPT ![q] = Object]
    /\ main' = "setpgid"
    /\ UNCHANGED <<process, status, configured, inputs, used, windowVars, all_processes, grouped,
                   programs, tripped, panel, mishaps, forks>>

ForkFails ==
    /\ main = "fork"
    /\ status' = [status EXCEPT ![Object] = "fork failed"]
    /\ main' = "poll"
    /\ UNCHANGED <<process, pid, configured, inputs, used, windowVars, all_processes, systemVars,
                   tripped, panel, owner, mishaps, forks>>

\* "make the child process a group leader"
SetGroup ==
    /\ main = "setpgid"
    /\ leader[pid[Object]] # "none"
    /\ grouped' = grouped \cup {pid[Object]}
    /\ main' = "register"
    /\ UNCHANGED <<objectVars, windowVars, all_processes, leader, programs, tripped, panel,
                   owner, mishaps, forks>>

\* The child is gone: an OSError leaves OnStart, and nothing is polled.
SetGroupFails ==
    /\ main = "setpgid"
    /\ leader[pid[Object]] = "none"
    /\ main' = "idle" /\ panel' = None
    /\ UNCHANGED <<objectVars, windowVars, all_processes, systemVars, tripped, owner, mishaps, forks>>

Register ==
    /\ main = "register"
    /\ all_processes' = [all_processes EXCEPT ![pid[Object]] = Object]
    /\ main' = "poll"
    /\ UNCHANGED <<objectVars, windowVars, systemVars, tripped, panel, owner, mishaps, forks>>

PollPanel ==
    /\ main = "poll"
    /\ main' = "idle" /\ panel' = None
    /\ UNCHANGED <<objectVars, all_processes, systemVars, tripped, owner, mishaps, forks>>
    /\ poll({panel})

-----------------------------------------------------------------------------
(* OnStop: stop( ), then poll( ).                                           *)

Alive == {q \in Pids : leader[q] \in {"born", "running"}}
Zombies == {q \in Pids : leader[q] = "zombie"}

\* A leader dies.  History: with another one that nobody has waited for, there
\* is a signal less than there are children to reap.
Dies(q) ==
    /\ leader' = [leader EXCEPT ![q] = "zombie"]
    /\ tripped' = TRUE
    /\ mishaps' = [o \in Objects |->
          IF Zombies \ {q} # {} /\ \E z \in Zombies \cup {q} : owner[z] = o
          THEN mishaps[o] \cup {"merged"} ELSE mishaps[o]]

Click(p) ==
    /\ main = "idle" /\ "stop" \in enabled[p]
    /\ panel' = p
    /\ UNCHANGED <<objectVars, windowVars, all_processes, owner, forks>>

\* SIGINT to the group, whose programs may end of it; without a group an OSError
\* leaves OnStop and nothing has changed.
Interrupt(p) ==
    /\ Click(p)
    /\ status[process[p]] = "running"
    /\ pid[process[p]] \in grouped
    /\ main' = "stopping"
    /\ UNCHANGED <<systemVars, tripped, mishaps>>

\* Variant: the signal is taken for the end.
InterruptedAtOnce ==
    /\ main = "stopping"
    /\ status' = [status EXCEPT ![Object] = "exited"]
    /\ UNCHANGED mishaps
    /\ main' = "poll"
    /\ UNCHANGED <<process, pid, configured, inputs, used, windowVars, all_processes, systemVars,
                   tripped, panel, owner, forks>>

\* History: the handler was faster.
Interrupted ==
    /\ main = "stopping"
    /\ status' = [status EXCEPT ![Object] = "interrupted"]
    /\ mishaps' = IF status[Object] = "exited"
                  THEN [mishaps EXCEPT ![Object] = @ \cup {"overtaken"}] ELSE mishaps
    /\ main' = "poll"
    /\ UNCHANGED <<process, pid, configured, inputs, used, windowVars, all_processes, systemVars,
                   tripped, panel, owner, forks>>

\* "KILL DASH NINE!": SIGKILL to the group.
KillDashNine(p) ==
    /\ Click(p)
    /\ status[process[p]] = "interrupted"
    /\ LET q == pid[process[p]] IN
         /\ q \in grouped
         /\ IF q \in Alive THEN Dies(q) ELSE UNCHANGED <<leader, tripped, mishaps>>
         /\ programs' = programs \ {q}
         /\ grouped' = IF leader[q] = "none" THEN grouped \ {q} ELSE grouped
    /\ main' = "poll"

\* "tried to stop something that wasn't running?"
NothingToStop(p) ==
    /\ Click(p)
    /\ status[process[p]] \notin Running
    /\ main' = "poll"
    /\ UNCHANGED <<systemVars, tripped, mishaps>>

-----------------------------------------------------------------------------
(* The handlers, which interrupt the main thread anywhere.                  *)

\* Variant: the object is only taken off the list.
on_dead_silent(o) ==
    /\ all_processes' = [all_processes EXCEPT ![pid[o]] = None]
    /\ UNCHANGED status

\* on_dead( ) of object o.
on_dead(o) ==
    /\ all_processes' = [all_processes EXCEPT ![pid[o]] = None]
    /\ status' = [status EXCEPT ![o] = "exited"]

\* History: the child was not entered yet, or has the pid of an old entry.
Noted(q) ==
    [o \in Objects |->
        IF all_processes[q] = None /\ o = owner[q] THEN mishaps[o] \cup {"early"}
        ELSE IF all_processes[q] # None /\ all_processes[q] # owner[q]
                /\ o \in {owner[q], all_processes[q]}
        THEN mishaps[o] \cup {"mistaken"}
        ELSE mishaps[o]]

\* os.wait( )
Wait(q) ==
    /\ tripped /\ tripped' = FALSE
    /\ q \in Zombies
    /\ leader' = [leader EXCEPT ![q] = "none"]
    /\ grouped' = IF q \in programs THEN grouped ELSE grouped \ {q}
    /\ UNCHANGED <<process, pid, configured, inputs, used, windowVars, programs, owner, forks>>

\* The object entered under q is not entered under the pid it has now.
KeyError(q) == all_processes[q] # None /\ all_processes[pid[all_processes[q]]] = None

\* sigchld_handler( )
Reap ==
    \E q \in Pids :
       /\ Wait(q) /\ ~KeyError(q)
       /\ IF all_processes[q] # None THEN on_dead(all_processes[q])
          ELSE UNCHANGED <<all_processes, status>>
       /\ mishaps' = Noted(q)
       /\ UNCHANGED threadVars

\* The exception leaves on_dead( ), the handler and what the main thread was in.
ReapFails ==
    \E q \in Pids :
       /\ Wait(q) /\ KeyError(q)
       /\ main' = "idle" /\ panel' = None
       /\ mishaps' = IF main = "idle" THEN Noted(q)
                     ELSE [Noted(q) EXCEPT ![Object] = @ \cup {"aborted"}]
       /\ UNCHANGED <<all_processes, status>>

\* sigint_handler( ) raises an exception, since "values" is a method and not
\* called, and the main thread's call ends where it is.
SigInt ==
    /\ main # "idle"
    /\ main' = "idle" /\ panel' = None
    /\ mishaps' = [mishaps EXCEPT ![Object] = @ \cup {"aborted"}]
    /\ UNCHANGED <<objectVars, windowVars, all_processes, systemVars, tripped, owner, forks>>

-----------------------------------------------------------------------------
(* The children: pipeline_child( ).                                         *)

childVars == <<objectVars, windowVars, all_processes, threadVars, owner, forks>>

\* The leader makes itself a group, if its parent has not, and forks the programs.
Spawns(q) ==
    /\ leader[q] = "born"
    /\ leader' = [leader EXCEPT ![q] = "running"]
    /\ grouped' = grouped \cup {q} /\ programs' = programs \cup {q}
    /\ UNCHANGED <<childVars, tripped, mishaps>>

ProgramsEnd(q) ==
    /\ q \in programs
    /\ programs' = programs \ {q}
    /\ grouped' = IF leader[q] = "none" THEN grouped \ {q} ELSE grouped
    /\ UNCHANGED <<childVars, leader, tripped, mishaps>>

\* Its programs are gone, or something dire happened.
LeaderEnds(q) ==
    /\ q \in Alive
    /\ Dies(q)
    /\ UNCHANGED <<childVars, grouped, programs>>

-----------------------------------------------------------------------------
MainSteps ==
    Fork \/ ForkFails \/ SetGroup \/ SetGroupFails \/ Register \/ Interrupted \/ PollPanel

Next ==
    \/ Timer
    \/ \E p \in Panels :
         \/ ChangeClass(p) \/ Configure(p)
         \/ StartBegin(p) \/ Interrupt(p) \/ KillDashNine(p) \/ NothingToStop(p)
    \/ MainSteps
    \/ Reap \/ ReapFails \/ SigInt
    \/ \E q \in Pids : Spawns(q) \/ ProgramsEnd(q) \/ LeaderEnds(q)

Spec == Init /\ [][Next]_vars

\* The console's thread runs on, the timer has its turn among the operator's
\* clicks, and Python gets to the handler.
FairSpec == Spec /\ WF_vars(MainSteps) /\ SF_vars(Timer) /\ WF_vars(Reap \/ ReapFails)

-----------------------------------------------------------------------------
\* The status of an object is true of its pipeline: while it says that it runs
\* there is a leader, its own, to signal and to wait for; and when it says that
\* it ended there is none.  The exceptions are four: a child that dies before
\* it is entered, an end that stop( ) overwrites, Ctrl+C or an exception of the
\* handler during start( ) or stop( ), and a pid of an old entry that comes back.
StatusTrue ==
    \A o \in Objects : mishaps[o] \subseteq {"merged"} =>
        /\ (status[o] \in Running /\ ~(main = "fork" /\ Object = o)) =>
              /\ pid[o] # None
              /\ leader[pid[o]] # "none" /\ owner[pid[o]] = o
        /\ status[o] = "exited" => \A q \in Pids : owner[q] = o => leader[q] = "none"

\* Whatever else goes wrong, only Ctrl+C or an exception of the handler that cuts
\* off start( ) or stop( ) can make an object run two pipelines at once, or let
\* the operator drop a capture from its panel while it runs.
OnePipeline ==
    \A q \in Alive : "aborted" \notin mishaps[owner[q]] =>
        /\ \A r \in Alive : owner[r] = owner[q] => r = q
        /\ owner[q] \in configured => \E p \in Captures : process[p] = owner[q]

\* No panel shows a pipeline as running for ever after its leader has died, with
\* the same exceptions and a fifth: deaths that share a signal.
EndShown ==
    \A p \in Panels :
        []<>~(/\ process[p] # None
              /\ mishaps[process[p]] = {}
              /\ label[p] \in Running
              /\ \A q \in Alive : owner[q] # process[p])
-----------------------------------------------------------------------------
(* Why they hold: the inductive invariant.                                  *)

Clean(o) == mishaps[o] \subseteq {"merged"}

\* start( ) is under way for object o; it has not forked yet.
Starting(o) == main \in {"fork", "setpgid", "register"} /\ Object = o
Forking(o) == main = "fork" /\ Object = o

\* The operator may start object o, or drop it.
Offered(o) ==
    \E p \in Panels :
        /\ process[p] = o /\ ~(main # "idle" /\ panel = p)
        /\ "start" \in enabled[p] \/ ("chooser" \in enabled[p] /\ o \in configured)

PanelInv ==
    /\ main # "idle" => panel \in Panels /\ process[panel] # None
    /\ main \in {"setpgid", "register"} => pid[Object] \in Pids
    /\ main = "stopping" => status[Object] \in {"running", "exited"}
    /\ \A p \in Panels : process[p] \in used \cup {None}
    /\ \A p, q \in Panels : process[p] = process[q] /\ process[p] # None => p = q
    /\ \A p \in Panels : process[p] = None => enabled[p] \subseteq {"chooser"}
    /\ configured \subseteq used
    /\ \A p \in Consumers : process[p] \notin configured

\* Nothing is left of object o that could end or be reaped.
Gone(o) == \A q \in Pids : all_processes[q] # o /\ (owner[q] = o => leader[q] = "none")

\* Only the pid that object o has may be entered for it or have a leader of its.
OnlyPid(o) ==
    \A q \in Pids :
        all_processes[q] = o \/ (owner[q] = o /\ leader[q] # "none") => q = pid[o]

EndedGone(o) == status[o] \notin Running \/ Forking(o) \/ Offered(o) => Gone(o)

StartsFresh(o) ==
    Starting(o) => status[o] = "running" /\ \A q \in Pids : all_processes[q] # o

StaysShown(o) == o \in configured /\ ~Gone(o) => \E p \in Captures : process[p] = o

PipelineInv ==
    \A o \in Objects : "aborted" \notin mishaps[o] =>
        OnlyPid(o) /\ EndedGone(o) /\ StartsFresh(o) /\ StaysShown(o)

HasLeader(o) ==
    status[o] \in Running /\ ~Forking(o) =>
        pid[o] \in Pids /\ leader[pid[o]] # "none" /\ owner[pid[o]] = o

EntryTrue(o) ==
    \A q \in Pids : all_processes[q] = o => owner[q] = o /\ leader[q] # "none"

CleanInv == \A o \in Objects : Clean(o) => HasLeader(o) /\ EntryTrue(o)

OwnerInv == \A q \in Pids : leader[q] # "none" => owner[q] \in Objects

IInv == TypeOK /\ PanelInv /\ OwnerInv /\ PipelineInv /\ CleanInv
=============================================================================
