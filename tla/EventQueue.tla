----------------------------- MODULE EventQueue -----------------------------
(***************************************************************************)
(* EventHandler: the queue of events any thread posts to and one thread    *)
(* waits on (src/core/event_handler.cpp, with mutex.cpp and condition.cpp).*)
(*                                                                         *)
(* Each critical section of the queue's mutex is one step: nothing inside  *)
(* one can block but the wait itself, which gives the mutex back.          *)
(* A program EXTENDS this module and says what its threads post.           *)
(***************************************************************************)
EXTENDS Naturals, Sequences

VARIABLES queue,      \* queued_events
          waiting,    \* where the consumer is in wait_event( )
          event       \* the event wait_event( ) has returned

queueVars == <<queue, waiting, event>>

NoEvent == "none"      \* nothing is being handled

QueueInit ==
    /\ queue = << >>
    /\ waiting = "no"
    /\ event = NoEvent

\* Variant: push_back with no signal.
PostSilently(e) ==
    /\ queue' = Append(queue, e)
    /\ UNCHANGED <<waiting, event>>

\* push_back and signal, under the mutex.
Post(e) ==
    /\ queue' = Append(queue, e)
    /\ waiting' = IF waiting = "asleep" THEN "awake" ELSE waiting
    /\ UNCHANGED event

\* front and pop_front.  On an empty list they are undefined (pop_front frees
\* the list's own head, which is no heap block: the process aborts); here the
\* step cannot be taken, and NoEmptyPop tells whether that can come up.
Pop ==
    /\ queue # << >>
    /\ event' = Head(queue)
    /\ queue' = Tail(queue)

\* wait_event( ) looks at the list once: there is an event to take, ...
TakeAtOnce == waiting = "no" /\ Pop /\ UNCHANGED waiting

\* ... or there is none, and the consumer gives up the mutex and waits.
FallAsleep ==
    /\ waiting = "no" /\ queue = << >>
    /\ waiting' = "asleep"
    /\ UNCHANGED <<queue, event>>

\* After the wait it takes an event without looking again.
TakeAfterWait == waiting = "awake" /\ Pop /\ waiting' = "no"

\* pthread_cond_wait( ) may return without a signal.
SpuriousWakeup ==
    /\ waiting = "asleep"
    /\ waiting' = "awake"
    /\ UNCHANGED <<queue, event>>

\* No wakeup is lost: the consumer does not sleep on a queue that has something
\* in it.
NoLostWakeup == waiting = "asleep" => queue = << >>

\* "wait until something is ready" (event_handler.cpp 27): when the wait is
\* over there is an event to take.
NoEmptyPop == waiting = "awake" => queue # << >>
=============================================================================
