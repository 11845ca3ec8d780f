----------------------------- MODULE PipeBuffer -----------------------------
(***************************************************************************)
(* Blocks of a fixed size out of pipes: src/core/pipe_buffer.h.            *)
(*                                                                         *)
(* The units a program writes into pipe s are numbered 1, 2, 3, ...; read  *)
(* in whatever portions they come, BlockSize[s] of them make a block.  The *)
(* module has no Init and no Next: ffoutput EXTENDS it.                    *)
(***************************************************************************)
EXTENDS Integers, Sequences

CONSTANTS Pipes,       \* the pipes one update( ) polls
          BlockSize    \* block_size of each

ASSUME BlockSizeAssumption == BlockSize \in [Pipes -> Nat \ {0}]

VARIABLES written,            \* the units written into each pipe
          hungup,             \* its writer is gone
          consumed,           \* the units read from it
          current_read_buf,   \* what the block being read holds
          ready_blocks,
          eof

bufferVars == <<consumed, current_read_buf, ready_blocks, eof>>
pipeVars == <<written, hungup, bufferVars>>

PipeTypeOK ==
    /\ written \in [Pipes -> Nat] /\ consumed \in [Pipes -> Nat]
    /\ hungup \in [Pipes -> BOOLEAN] /\ eof \in [Pipes -> BOOLEAN]
    /\ current_read_buf \in [Pipes -> Seq(Nat)]
    /\ ready_blocks \in [Pipes -> Seq(Seq(Nat))]

PipeInit ==
    /\ written = [s \in Pipes |-> 0] /\ consumed = [s \in Pipes |-> 0]
    /\ hungup = [s \in Pipes |-> FALSE] /\ eof = [s \in Pipes |-> FALSE]
    /\ current_read_buf = [s \in Pipes |-> <<>>]
    /\ ready_blocks = [s \in Pipes |-> <<>>]

stream_finished(s) == eof[s] /\ ready_blocks[s] = <<>>

Buffered(s) == written[s] - consumed[s]

\* What poll( ) reports of pipe s.  At the end of the stream it is POLLHUP; with
\* POLLIN or without is left to the system.
Revents(s) ==
    IF Buffered(s) > 0 THEN {{"POLLIN"} \cup (IF hungup[s] THEN {"POLLHUP"} ELSE {})}
    ELSE IF hungup[s] THEN {{"POLLHUP"}, {"POLLIN", "POLLHUP"}}
    ELSE {{}}

\* The buffer of one pipe: the block being read, the blocks finished, the end.
Buffer(s) == [read |-> consumed[s], cur |-> current_read_buf[s],
              ready |-> ready_blocks[s], eof |-> eof[s]]

set_eof(b) == [b EXCEPT !.eof = TRUE]

\* Variant: the next block starts with what the last read brought.
ReadKeeps(s, b, k) ==
    LET cur == b.cur \o [i \in 1 .. k |-> b.read + i] IN
    IF Len(cur) = BlockSize[s]
    THEN [b EXCEPT !.read = @ + k, !.ready = Append(@, cur), !.cur = [i \in 1 .. k |-> b.read + i]]
    ELSE [b EXCEPT !.read = @ + k, !.cur = cur]

\* read( ) brings k more units; a full block goes to the end of the list.
ReadUnits(s, b, k) ==
    LET cur == b.cur \o [i \in 1 .. k |-> b.read + i] IN
    IF Len(cur) = BlockSize[s]
    THEN [b EXCEPT !.read = @ + k, !.ready = Append(@, cur), !.cur = <<>>]
    ELSE [b EXCEPT !.read = @ + k, !.cur = cur]

\* read_more( ): the possible outcomes.
read_more(s) ==
    LET b == Buffer(s)
        most == BlockSize[s] - Len(b.cur) IN
    IF b.eof THEN {b}
    ELSE IF Buffered(s) = 0 THEN {[b EXCEPT !.cur = <<>>, !.eof = TRUE]}
    ELSE {ReadUnits(s, b, k) : k \in 1 .. (IF Buffered(s) < most THEN Buffered(s) ELSE most)}

\* Variant: the end is taken note of before the rest has been read.
HandleHupFirst(s, revents) ==
    IF "POLLHUP" \in revents THEN {set_eof(Buffer(s))}
    ELSE IF "POLLIN" \in revents THEN read_more(s)
    ELSE {Buffer(s)}

\* want_poll( ) is always true.
Handle(s, revents) ==
    IF "POLLIN" \in revents THEN read_more(s)
    ELSE IF "POLLHUP" \in revents THEN {set_eof(Buffer(s))}
    ELSE {Buffer(s)}

\* What update( ) does for one pipe of its list.  It polls them all before it
\* reads the first: what comes meanwhile could as well have come before.
update(s) ==
    \E revents \in Revents(s) : \E b \in Handle(s, revents) :
       /\ consumed' = [consumed EXCEPT ![s] = b.read]
       /\ current_read_buf' = [current_read_buf EXCEPT ![s] = b.cur]
       /\ ready_blocks' = [ready_blocks EXCEPT ![s] = b.ready]
       /\ eof' = [eof EXCEPT ![s] = b.eof]
       /\ UNCHANGED <<written, hungup>>

\* get_next_block( ), when there is one; done_with_block( ) frees it.
TakeBlock(s) ==
    /\ ready_blocks[s] # <<>>
    /\ ready_blocks' = [ready_blocks EXCEPT ![s] = Tail(@)]
    /\ UNCHANGED <<written, hungup, consumed, current_read_buf, eof>>

-----------------------------------------------------------------------------
\* Block n of pipe s.
Block(s, n) == [i \in 1 .. BlockSize[s] |-> (n - 1) * BlockSize[s] + i]

\* With `taken` blocks taken so far, the blocks ready are the next ones and the
\* one being read comes after them: nothing lost, repeated or shifted.
BlocksWhole(s, taken) ==
    LET n == Len(ready_blocks[s]) IN
    /\ \A i \in 1 .. n : ready_blocks[s][i] = Block(s, taken + i)
    /\ ~eof[s] => consumed[s] = (taken + n) * BlockSize[s] + Len(current_read_buf[s])
    /\ \A i \in 1 .. Len(current_read_buf[s]) :
          current_read_buf[s][i] = (taken + n) * BlockSize[s] + i
=============================================================================
