# openreplay in TLA+

openreplay is a sports-replay system: programs that capture video into ring
buffers in shared memory, an operator interface that marks and cues replays, a
daemon that plays them out through a DeckLink card, a console that starts all of
these, and helpers around them. It is C++ for Linux on x86, the console Python; the
programs talk through memory-mapped files, pipes, datagrams, signals and, inside one
program, threads and an event queue. This directory holds TLA+
modules that model its core, TLC runs over small instances, and proofs for all
instances. Paths are relative to the repository.

## 1. Inventory

| component | code | state | operations | who interacts |
|---|---|---|---|---|
| shared frame ring | `core/mmap_buffer.*` | file of a control block (magic, sizes, offset and timecode of the latest frame, lock word) and N records (valid, timecode, length, data) | constructor, `put`, `get`, `get_timecode`, `reset`, `on_fork` | one ingest program puts; playout daemon and GUI get |
| lock word | same, and `core/mmap_state.cpp` | a pid in shared memory | `lock`, `check_lock`, `unlock` | every program that maps the file |
| clock file and `clockd` | `core/mmap_state.*`, `core/clockd.cpp` | magic, lock word, one value | constructor, `put`, `get` | clockd stores the scoreboard's clock, ingest programs stamp frames with it |
| event queue, mutex, condition, thread | `core/event_handler.*`, `mutex.*`, `condition.*`, `thread.*` | list of events | `post_event`, `wait_event` | any thread posts, one waits |
| DeckLink output | `core/output_adapter.h` 58-300 | current frame, whether it is stale, the card's queue of 8 scheduled frames | `SetNextFrame`, `ScheduledFrameCompleted` | a program's main thread, the card's callback thread |
| stdout output | `core/output_adapter.h` 303-381 | the same, with a thread of its own | the same | instantiated by no program |
| pictures | `core/picture.*` | a reference count, pixels | alloc, addref, free, convert, draw, text | shared by the threads of a program |
| playout daemon | `core/playoutd.cpp`, `playout_ctl.h` | marks, position, speed, source, pause and step flags, DSKs, last decoded picture | commands, rendering, status | ring, output, GUI by datagrams |
| ffmpeg output program | `core/ffoutput.cpp`, `pipe_buffer.h` | byte buffers, one picture refilled over and over | read, refill, show | pipes from ffmpeg, DeckLink output |
| JPEG codec wrapper | `core/mjpeg_frame.*` | libjpeg objects, scan-line tables | encode, decode full, decode one field doubled | ingest programs, playout daemon, GUI |
| MJPEG ingest | `core/mjpeg_ingest.cpp` | read buffer and marker scan | scan, put | a camera stream on stdin, ring |
| capture ingest | `core/uyvy_ingest.cpp`, `v4l2_ingest.cpp`, `decklink_ingest.cpp` | capture buffers | capture, encode, put | driver or card, ring, clock file |
| statistics | `core/stats.*` | counters | one per frame, print, reset | ingest programs |
| operator interface | `core/sdl_gui.cpp` | marks, saved marks, mode, status of the daemon | keys, mouse, datagrams | ring (reads), daemon |
| process console | `console/openreplay_console.py` | list of child processes | start, stop, SIGCHLD | all programs |
| field splitter | `core/field_split.cpp` | none beyond a line | filter | stdin, stdout |
| the rest | `decklink_capture.cpp`, `ffwrapper.*`, `libjpeg_test.cpp`, `time_libjpeg.cpp`, Makefile | none | I/O and benchmarks | none |

### What is hard, and what makes each part correct

* **Ring.** Programs die at any instruction; the lock excludes nobody (below);
  `put` fills a record outside the lock, `get` copies outside the lock; the
  latest frame is published with two stores. Correct means: a hit delivers the frame
  asked for, whole; a miss has a reason; the last N frames stay in place; frames
  are published in order, complete; no call hangs.
* **Clock file.** No exclusion, restarts under new pids, two programs
  initialising one file. Correct: the value is never older than one seen before.
* **Event queue and output.** Three threads. Correct: the one request that keeps
  video moving is neither lost nor doubled; no picture is freed under a reader, and
  none leaks but by a decoder that fails; what is scheduled on the card is one picture, never
  an older one than before, and never far behind what is decoded.
* **Commands and marks.** Lossy datagrams between GUI and daemon, step requests
  that are flags, positions that are floating-point. Correct: marks mean one
  moment on all cameras, a cut shows the same play; slow motion shows the
  half frame its position lies in, as closely as a float can tell; a cue shows its first frame;
  the operator sees what is played.
* **ffmpeg output.** One picture is refilled while the card may still copy it; two
  pipes, unbounded buffers. Correct: whole frames, no deadlock between the pipes.
* **MJPEG ingest.** A scanner over a buffer that fills in arbitrary portions.
  Correct: the images put are those of the stream, whatever the portions.
* **Capture programs.** Two of the driver's buffers are out at once, one of them kept a
  picture longer; fields of two pictures are merged. Correct: no buffer is given back before
  it is encoded, none is lost; slow motion goes through the fields in the order they were shot.
* **Codec wrapper.** Two ways to store a frame (one image or two) and four ways to double the
  lines of a field. Correct: the way a frame is stored does not show.
* **Console.** A signal handler edits the process list between any two steps of the main
  thread, signals merge, pids come back. Correct: what is shown as running runs, what has ended
  is shown as ended, and no program is started twice.

`PROJECT.json` lists these dangers line by line (`hazards`), with the properties
that would show each of them, or why none does.

## 2. What is modelled

    SpinLock ──┬── MmapBuffer ──┬── MCMmapBuffer         FrameStore (what the ring promises)
               │                ├── MmapBuffer_proofs
               │                └── RingLife ──┬── MCRingLife        └── RestartedStore (over restarts)
               │                               └── RingLife_proofs (with MmapBuffer_proofs)
               └── MmapState ─┐
                  MjpegCodec ─┴── Capture ──┬── MCCapture
                                            └── Capture_proofs
    MjpegIngest ──┬── MCMjpegIngest
                  └── MjpegIngest_proofs
    EventQueue ───────┬── Playoutd ──┬── MCPlayoutd
    DecklinkOutput ─┬─┘              └── Playoutd_proofs
    PipeBuffer ─────┴── FFOutput ──┬── MCFFOutput
                                   └── FFOutput_proofs
    PlayoutControl ── SdlGui ── Replay ──┬── MCReplay
                                         └── Replay_proofs
    Console ──┬── MCConsole
              └── Console_proofs

### Shared memory

**`SpinLock`** is the lock word. `lock()` is
`while (compare_and_swap(&lock_pid, 0, my_pid)) {...}`: the loop turns while the
swap *succeeds* and ends at the first that fails. A caller that finds the word free
takes it, goes round, fails against its own pid and returns; a caller that finds
another's pid there returns at once. So `lock()` never waits for anybody, and
excludes nobody. The module says that, in `LockSpin` and `LockReturn`. The counter
that leads to `check_lock()` is modelled too (`CheckRead`, `CheckStat`):
another process that unlocks between two turns can make the swap succeed again.

**`MmapBuffer`** is the ring: one writer, any number of readers. Each access to
shared memory is a step: `put` stores length, valid flag, timecode and data, then
offset, then timecode, with `lock`/`unlock` around the last two; the two-part
steps `memcpy`/`memcpying` stand for a copy others can observe halfway. `get` reads
timecode (twice), offset, timecode again, computes a slot, looks at the record,
unlocks and only then copies. `Kill` ends any process anywhere. The frame with number
k has length k and contents k, so that every mixture is visible (`Mixed`, or
a length that differs). A slot computed outside the ring sends `get` to memory that
is no record (`GetStray`): it returns anything it could read there.

**`FrameStore`** is the promise, with no offset and no lock: `Begin` and
`Publish` for the writer, `Ask`, `Hit`, `Miss`, `Done` for readers. A get that
overlaps no put is exact; one that does may miss, and a hit is right unless the record is
being recycled, or the frame is number 0 (see finding 1). `StoreSpec` states that the ring
implements it.

**`RingLife`** restarts the writer of a `MmapBuffer` on the file its predecessor left, as
`mjpeg_ingest` does (it opens the ring without `reset`). `Reopen` is the constructor on a stamped
file: it sets nothing. The lock word may then name a process that is gone (`Ghost`). A writer
killed between the two stores of `put` (a *slip*) leaves an offset one record ahead of the
timecode: the next one writes the same frame once more, into the record after. So every slip
brings the writer one record closer to what is being read (`LifeOverrun`), and frames written
before the last slip are no longer where `get` looks (`LifeHeld`). That is all that goes wrong.

**`RestartedStore`** is what is left of the promise of `FrameStore` then, again with no offset, no
record and no lock. A put that was killed is begun again with the same number (`BeginNext`); a
`Restart` costs nothing or one record (`lost`), and in the second case the frames before may be
missed from then on (`since`, `Kept`). What is found is still the frame asked for, unless its record is
being used again (`Reused`), and a frame whose put never finished is not found at all (`HitWhole`).
`RestartedSpec` states that the ring implements it: a slip is a restart that costs a record, every
other death one that costs nothing.

**`MmapState`** is the clock file with the life of the programs: start,
constructor (the first to find no magic sets the lock word to its own pid and never clears
it), `put`, `get`, kill, restart under another pid. A second clockd may be started while one
runs: it goes through the constructor and ends when it cannot bind the port (`Bind`). It is
checked inside `Capture`, with a capture program as the reader.

### Capture

**`MjpegCodec`** says which scanlines of which field each line of a decoded picture is made of:
`weave`, the four scan doublings, `field_split`'s order. Pixels and JPEG are left out; a scanline
is the set of samples it shows.

**`Capture`** is the loop of each capture program (`program` says which one a behaviour is about),
from the source to the ring. For `v4l2_ingest` the buffers of the driver are explicit: `queued`,
`filled`, dequeued (`p_current`), kept (`p_last`). `Merge` is `make_odd_dominant` and the encoder,
`GiveBack` returns the *other* buffer and keeps the one just merged from. `uyvy_ingest` reads a
picture in any portions; `decklink_ingest`'s callback gets any later picture. All stamp the
frame with `MmapState`'s `get`, step by step, against clockd and its restarts. The frame header
keeps whatever the code does not write in it (`interlaced` in `uyvy_ingest`). A scanline carries
the instant it was shot at, so that `FieldsInOrder` can be stated of what slow motion shows.

**`MjpegIngest`** is `mjpeg_ingest.cpp`: reads of any size, the byte-by-byte scan, two fields
to a frame, what is moved to the front afterwards. The buffer has one byte more on both sides than the
program allocates, for the code looks there. `upset` notes four events after which the code's
bookkeeping is off: a marker half read and half left over (`cut`), a read that ends between two
fields (`split`), a buffer consumed to its last byte (`full`), an image larger than the buffer
(`large`). Without them the stream arrives as it is (`PutsPictures`, `NothingLost`); `CutOnlyShortens` bounds
the harm of the first, `DominantFirst` is violated by the second. A stream is its bytes and
where its images end; `StreamsAssumption` says what the scan relies on, that the two markers are nowhere but
where an image starts and ends. JPEG stuffs its data so, but an image with a thumbnail in it would
be taken apart.

### Playing out

**`EventQueue`** is `post_event`/`wait_event`: a critical section of the mutex
is one step, and the condition wait is split in falling asleep and waking up.
`wait_event` tests the list once, with an `if`. Popping an empty list is
undefined in C++; the model has no such step, and `NoEmptyPop` says
whether it can come up. `NoLostWakeup`: the consumer does not sleep on an event.

**`DecklinkOutput`** is the hand-over: `TakeReference`/`Convert`, `Swap` and
`DropOld` for `SetNextFrame`; `FrameCompleted`, `TakeFrame`, `CopyBegin`,
`CopyEnd`, `Schedule` for the card's callback. A picture is a place in memory with a
reference count; a new one may be any place whose count is 0, so that a picture freed too
early is drawn over. The two samples of a copy reveal a picture that changes under it
(`Torn`). `scheduled` is what was given to the card last. The card holds 8 scheduled frames
(`DECKLINK_N_FIFO`) and plays them in order, so what is on air is behind that by as many frames; the queue
is not modelled, and the properties speak of what is scheduled.

**`Playoutd`** puts these together: main thread, command receiver, card. It says
who posts which event, when the last decoded picture is given up, and that the
blank picture is never. Whether a frame can be decoded (`RenderNew`) or not
is open, as it depends on the ring and on the commands. There may be nothing to decode, or the decoder
fails before it allocates anything (`RenderNone`). Or it fails later, and libjpeg's error
exit throws past the picture it was decoding into (`core/mjpeg_frame.cpp:404`) and past the first field of
a frame of two (198): `RenderFails` allocates one or two pictures that nobody points to any more
(`leaked`). An image whose data end early leaves the decompressor in the middle of it, and as nobody calls
`jpeg_abort()`, every later call throws before it allocates (`stuck`): the daemon
shows the last picture until it is restarted. After an image that is empty or has no start marker it goes on.
`RefsExact` counts the leaked pictures and says that no other is leaked.
`NeverFarBehind` bounds how old the picture scheduled is, whatever the speed of the two threads.

**`PipeBuffer`** is the template class that cuts pipes into blocks: `poll`'s flags, a `read`
of any size, the end of the stream as a read of nothing or as a hang-up without data.

**`FFOutput`** is `ffoutput.cpp` as the second client of `DecklinkOutput`: its one picture is
refilled (`DrawBegin`, `DrawEnd`) as soon as it is stale, while the card's thread may be copying
from it, and staleness is read without the lock. `ffmpeg` writes and ends anywhere; `aplay` reads
and dies. `PipeAudioOutput` does not set `buf_avail` and `buf_ptr`: `clean` is whether they happen
to be zero.

**`PlayoutControl`** is what Playoutd leaves open: every command of `parse_command`
and what `render_next_frame` does to position, field and step flags. Positions and
speeds are single-precision floats in the code and here: integers that count 2^-27 of a frame, the last place
of 0.1 (`Frame` of them to a frame). No sum or speed has a smaller part, since speeds are tenths from -2 to 1.5,
divided as floats. `Float` rounds an exact sum to the nearest float, of two to the even one, with the last
place its size calls for (`Ulp`, by `Precision` = 2^24 and the powers of two, `Ulps`); `SpeedOf` is the division
by ten. Sums are assumed to be rounded to single precision each, as x86-64 does it.
`frame_no` is the rounded sum of mark and offset, truncated as the conversion does (the comment
says "round"); `Field` is the choice between both fields, the first and the second, by the
fraction of the offset alone. `FieldInTime` says what the two make together: the half frame the position
lies in, or the second half of the frame after it when the position is within half a last place of that frame.
The latter does happen, and early: 0.7 added ten times is 6.9999990, which 128 added to makes 135, so that the field
shown is the second of frame 135 where the position is just before its beginning. At speeds below 0.5 the field
after that is the first of the same frame, a step back of half a frame. (For other speeds, the mark from which
on it happens and the frame of the replay: 0.1: 16, 30; 0.2: 4, 25; 0.3: 2, 10; 0.4: 8, 25; 0.6: 4, 10;
0.8: 16, 25. It is a single field each time; 0.5 and whole speeds are exact.)
Nothing keeps the number of a DSK from being negative (`Overlay`): a keypad key with no character makes the
interface read -48. What the daemon writes then lies in front of `dsk_titles`; for the numbers that can be
typed that is either settings of cameras from the 20th on, which are not opened, or nothing of the daemon's state,
or it ends the daemon, which is a `Restart`.
`onair` is what was rendered last, `since` a history variable for what the README promises of a cue:
`CueShowsFirst` fails (finding 3); `CueStartsThere` (the first frame rendered is the one cued) and
`CueShowsNear` (it moves away from it by one frame at most) say what holds.

**`SdlGui`** is the interface: one action per key that does something, with the datagrams
it sends. `Send` lets any part of them get lost: Space sends a cue and a resume, and only
one of them may arrive. Numbers typed are any of `Numbers`, negative ones included.

**`Replay`** composes the two with cameras and status. Cameras run at one rate and were
started at different times (`Skew`); one may have stored the frame of the moment already
and another not (`Tick`). `NeedFrame` renders if the ring holds the frame, and may fail even
then. The daemon may be restarted at any time (`Restart`), with everything in its socket
lost; a status that finds no room is lost as well (`SendStatus`).

### The console

**`Console`** is `openreplay_console.py`. A panel has an object for the class of program chosen;
`start` forks a leader, makes it a group, and enters it in `all_processes`: `StartBegin`,
`Fork`, `SetGroup`, `Register`, one step each, because the handlers of SIGCHLD (`Reap`) and SIGINT
(`SigInt`) may run in between. The handler takes the dead object off under the pid it has now:
when it was started again with an old pid of it still entered, that raises `KeyError`, and the
exception ends the main thread's call as Ctrl+C does (`ReapFails`). `stop` signals the group and then writes INTERRUPTED (`Interrupt`,
`Interrupted`), or kills it the second time. The timer and `poll` copy statuses and what may be
clicked to the window (`label`, `enabled`), where they stay until the next poll. Leaders and
programs end at any time; a pid comes back when nothing uses it. A second death before the first
signal is handled makes no second signal. `mishaps` is history: it names, for each object, which
of the five things the code does not guard against has happened to it: a child that dies before
it is entered (`early`), an end that `stop` overwrites (`overtaken`), Ctrl+C or the
handler's `KeyError` during a `start` or `stop` (`aborted`), an old entry under a pid that came back (`mistaken`), deaths that share a
signal (`merged`). The properties say what holds otherwise.

## 3. Runs

| run | instance | what it shows |
|---|---|---|
| `ring_one_reader` | 1 writer, 1 reader, 3 records, frames to 6 | inductive invariant, refinement of `FrameStore`, publication in order and complete, no call hangs |
| `ring_life` | the same to frame 5, the writer restarted twice | what is read and held stays right; refinement of `RestartedStore`: one record less for every slip |
| `ring_unfilled` | frames to 3 | finding 1 |
| `capture` | each of the 3 programs, 3 pictures, 2 buffers, 2 clockds, 2 clock values | buffers in one place each, fields in the order shot, fresh stamps, capture goes on |
| `mjpeg_ingest` | 2 streams of 4 images, 1 of 5, buffer of 17 bytes, 4 command lines | inductive invariant; images whole, once and in order; what a cut image costs |
| `mjpeg_fields` | the same, separate fields | finding 4 |
| `playout` | 5 places for pictures, 3 decoded, 1 leaked (2 while the screen is blank), 1 command waiting | one request in flight, exact counts but for the leaked, what is scheduled whole, in order and two behind at most, playing goes on |
| `playout_spurious` | the same, waits may end unasked | finding 2 |
| `ffoutput` | 2 frames and 2 audio blocks of 2 units | nothing lost or shifted, no step back, every frame drawn, the program ends |
| `replay` | 2 cameras 2 frames apart, 3 keys or restarts | inductive invariant, marks mean one moment everywhere, the field rendered is the one of the position, as closely as the sum can tell, the tally comes right |
| `replay_cue` | the same, 2 keys | finding 3 |
| `console` | a capture and a consumer panel, 3 objects, 2 pids, 2 pipelines | statuses true, ends shown, one pipeline each |

**Bounds.** *Ring:* three records and seven frames take the ring round twice: every slot is
filled, wrapped and overwritten while the reader is anywhere in its call; slot arithmetic depends
on differences modulo N only. `Threshold` (1000000 in the code) is 1: it only decides how often
the loop turns before looking at `/proc`. Requests are some frames and -1, plus what
`get_timecode` returns. *Ring life:* two restarts let a slip fall on a slip and a restart on
the record its predecessor left half filled. *Capture:* with two buffers the driver has none left
while the program holds two, and loses pictures; three pictures are two merges, or one across a picture
lost, and one buffer that has gone round. Field height 2 has a first, a last and an inner line of each parity. *MJPEG:* the
first stream fills the buffer to its last byte, has FF as data and as the last byte of a read; the second
has a pair of fields that fits the buffer only if it is a true pair; in the third an image is cut that has
another one behind it, and its rest is put, empty and not. Every portioning is tried.
*Playout:* at most four pictures are in use at once, so that a pool of five has room for one that is leaked,
and for both of a frame of two fields while the screen is still blank; `MaxLeaks` keeps failures from
using up the pool, which in the code is memory.
*ffoutput:* two units a block let a read end within a block, two blocks let one be played while
one waits. *Replay:* three keys mark or seek, cue and then change speed, cut or step, or save,
move and recall; numbers -48, 0 and 2 give a speed backward, clamped, a stopped and a slow one, a saved mark that is there or
not, a camera that exists or not, a DSK in front of the first. Floats have 4 binary digits and a frame 128 parts:
small enough that marks up to 6 and offsets of a few steps are rounded, and frames rounded up. A room for one status makes any second one get lost. *Console:*
two pipelines and two pids make a pid come back, two deaths share a signal, and a capture be
dropped and chosen anew. The theorems of section 5 do not depend on these bounds.

**Deadlock** is checked in the `playout` and `replay` runs: the daemon never stops. It is off
where everything may have stopped: all programs of a shared file dead or at the bound of frames, the
stream at its end, the console idle with no forks left.

**Memory.** Stores are seen in program order and loads are done in program order:
the fields are `volatile`, the Makefile builds without optimisation, the target is
x86, and each control field is an aligned word. A build that reorders would need
another model. Locks of a pthread mutex are taken to be correct.

**Fairness.** *Ring, clock, capture:* weak fairness of the steps of a process *inside* a call or
a loop, since the kernel schedules every runnable process (in `Capture`, of the capture program only); nobody has to
begin a call, and nothing is promised of the source or of clockd. `ObstructionFree` and `CaptureGoesOn` ask for termination only when the
others are between calls or dead, since a caller whose word is cleared again and again may
turn for ever. *Playout:* weak fairness of the main thread and of the card, which completes a
frame every 1/30 s as long as frames are scheduled; none for commands. `send_status`, a
blocking call to the loopback interface, is assumed to return. *ffoutput:* the same for its loop
and its card, and for `aplay`'s reads while it lives; nothing is promised of ffmpeg. *Replay:* weak
fairness of the daemon's two events, which `KeepsPlaying` justifies, of a rendering whose status finds room
(`NeedFrameReported`: the interface empties the socket thirty times a second, so that it does not find it full
for ever), and of the interface's loop; none for keys, cameras and restarts. *Console:* weak fairness of the main thread's steps
and of the handler (Python runs it between two bytecodes); strong fairness of the timer, whose
event waits in the window's queue among the operator's clicks and is not overtaken for ever.
Whether any program ends, and when, is open.

**Mutants.** Next to the definitions stand variants, marked as such, each a plausible slip in the
code: a wrap one record early, a reference not counted, a range check dropped, a buffer given back too
early. With the variant in place of the definition, the property named in `PROJECT.json` fails.

## 4. Where the code and its comments disagree

1. `core/mmap_buffer.h:30` says `valid` "should read as zero if the sparse file
   hasn't been filled yet". A `get` of frame 0 that overlaps a `put` can hit a record
   nobody has filled: the flag is set (182) before the timecode (183) and the data, and
   an unfilled record reads as timecode 0. In the run, `get` reads the offset of frame 0 and the timecode of
   frame 1, and looks in the slot before frame 0's, where the put of frame 2 has set the flag only. (`UnfilledNeverHit`, run `ring_unfilled`.)
   Every other frame is safe, which is proved.
2. `core/event_handler.cpp:27` "wait until something is ready": after a spurious
   wakeup, which POSIX allows, nothing is. (`NoEmptyPop`, run `playout_spurious`.) Where waits end
   only when signalled the pop is safe, and nothing but the pop goes wrong otherwise
   (`QueueWaits`, `SpuriousHarmless`, both proved).
3. `README:72` says that a cue shows the first frame. A step that is still pending when the
   cue is handled is carried out on the cued replay, which then stands one frame off.
   (`CueShowsFirst`, run `replay_cue`.) A step stays pending until a frame is rendered, so
   for as long as the daemon is off the end of the video. One frame is as far as it gets, and the
   first frame has been rendered before (`CueShowsNear`, `CueStartsThere`, both proved).
4. `core/mjpeg_ingest.cpp:55` says that the dominant field is stored first. The scan starts over
   after every read and takes a first field whose second has not come yet for its own second: from then on
   pairs are off by one. (`DominantFirst`, run `mjpeg_fields`.)

Seen while reading, with no run:

* `core/mmap_state.cpp:134` casts `volatile` away as "OK since we're locked here", and the lock
  excludes nobody. The value is one aligned word, so nothing goes wrong (`ClockFresh`).
* `README:73` calls F10 and F11 "frame advance/reverse"; `core/sdl_gui.cpp:1255-1261` sends a step
  backward for F10 and forward for F11.
* "round to nearest whole frame" (`core/playoutd.cpp:281`) stands on a conversion that truncates;
  rounding would break `FieldInTime` (it is the mutant of that property). The sum before it is rounded all the
  same, to the nearest float, and the field is chosen from a number that is not: hence the single wrong
  fields of section 2.
* The picture being decoded, and the first field of a frame of two, are leaked when the decoder throws
  (`core/mjpeg_frame.cpp:198,404`), and an image cut short stops the decoder for good (`RenderFails`).
* `mjpeg_ingest` that has ended an image early, at a marker made up from an old byte (`cut`), may put
  a frame that is no image: empty, or the last bytes of that image. The rest of the image has no start,
  but the start of the next one is in mind when the scan comes round to its end
  (`core/mjpeg_ingest.cpp:168`). `CutOnlyShortens` says that no other image suffers, which is proved.
* The statistics are printed after 61 frames, not 60 (`core/stats.cpp`).
* The console: `sigint_handler` iterates over `all_processes.values`, which is a method and is not
  called, so Ctrl+C raises an exception; `on_dead` deletes the entry of the present pid, which may not
  be the one reaped, and then raises `KeyError` in whatever the main thread was doing (82); the first `stop` writes INTERRUPTED over an end the handler
  may have written already (203-204); a consumer's stop button is disabled while it runs when the captures
  change, since `config_complete` turns false; a consumer's configure button raises an exception.

## 5. Proofs

The assumptions are those on the constants (`...Assumption`), which TLC evaluates in each run.

**`MmapBuffer_proofs`**, for every set of readers, N > 0 and number of frames.
The properties are not inductive: a reader's answer is right because of what it read several
steps ago, of a ring that has moved on since. `IInv` adds what is needed:

* `PutInv`: the published offset and timecode are the writer's own or one frame
  behind, and differ from each other only between the two stores;
* `RingInv`: every record but the one being filled is complete, and the timecode in the one
  being filled is always the old or the new one;
* `GetInv`: past its checks a reader asks for a frame that has been published;
  the timecode it reads next is at least that; once the record's timecode has matched,
  the slot is the frame's own, unless the writer has come round;
* `QuietInv`: a reader that no put has overlapped holds one consistent pair.

The heart is the arithmetic of slots: among the last N frames slot and frame
determine each other (`PlaceOfFrame`, `FrameOfPlace`), and starting a frame moves no
other one (`Advance`). A reader may combine the new offset with the old timecode and
compute a wrong slot; the record it finds there carries another frame's timecode, and `get`
misses. From `IInv` follow `TypeCorrect`, `Integrity`, `QuietGets`, `Intact`,
`Publication`, and, with `WriterRefines` and `ReaderRefines`, `Refinement`: every
step of the code is a step of `FrameStore` or a stutter.

**`Playoutd_proofs`**, for every pool of pictures and all bounds. `PlayInv` is inductive:

* `OneRequest` is, once the local pointers are known to be where the code says they are
  (`PointerInv`);
* `RefsExact` holds step by step (a picture leaked keeps the one reference it was allocated with, and
  as it was free before, no pointer is at it), and yields the key: a picture somebody points to is not
  free, so that drawing a new one leaves it alone (`PointedLive`, `ContentKept`);
* `InTimeOrder`: scheduled, being copied, current, about to be current and last decoded form one
  line in time; `CopyInv`: what is copied is what the picture still shows;
* `HandoverInv` counts along that line. A fresh frame is one ahead of what the card is about to
  schedule, a stale one is the same, and main decodes the next only in answer to a request, which by
  `OneRequest` means that the card has taken the last. So the line is at most two pictures long.

From it follow `TypeCorrect`, `RequestKept`, `RefsCounted`, `Whole`, `InOrder` and `NearlyLive`
(`NeverFarBehind`). `QueueWaits` is the queue by itself: with `NoLostWakeup`, part of
`PlayInv`, a wait that has ended finds an event. `SpuriousHarmless` is `PlayInv` of the specification in
which waits may end unasked.

**`Replay_proofs`**, for any number of cameras, skews, settings and keys. `ReplayInv` adds to
the types that cameras stay within a frame of each other (`CamerasTogether`) and
that marks are good *wherever they are kept*: current, saved, on the way to the daemon, and
used by it (`MarksInv`). The last two are needed because a mark is used long
after it was made, and may go round through `mark_playout`. `MarkedGood` says that a fresh
mark is good, `MovedGood` that moving all marks by one amount keeps them so; the rest is one
lemma per group of keys and per event. From it follow `TypeCorrect` and
`MarksAgree`; `FieldsInTime` is about rounding besides, for any powers of two as last places and any precision. A float
is next to what it stands for (`NearestClose`, `FloatClose`), and rounding never crosses a whole frame
(`FloatKeepsFrames`), since the last place divides a frame (`UlpDividesFrame`) or the number is too large
for the mark to be `Accurate`; a whole number of frames of that size is exact (`FloatExact`). So the truncated sum is
the frame of the position or, where it was rounded up to a whole frame, the next; in the latter case
the position, and with it the offset, is in the second half of its frame. `CueInv` is about
the time from a cue to the next command, in which only a pending step moves the position: it
is at the mark with no step pending, or a frame to one side of it, in the order the code looks at the two
flags. `CuedFrameFirst` (`CueStartsThere`) and `CuedFrameNear` (`CueShowsNear`) follow; the position is
a mark and a whole number of frames then, so that rounding and truncating it lose nothing (`TruncatedWhole`).

**`MjpegIngest_proofs`**, for every buffer size, every well-formed stream and every way to cut it into
reads. The first part of `IInv`
says that a frame ends at most one byte behind what was read, or else the whole buffer is dropped,
and that the scan does not pass `buf_ptr`. So the code never looks farther than one byte
outside the buffer, at either end, and the move never copies from outside. The rest, `Undisturbed`, is
conditional on `upset = {}`. The code forgets what it has found with every read and scans again from the
beginning, so the invariant ties the buffer to the input (`BufferInv`: the buffer is the input from
the end of the last frame put), says which images the scan has found by the place it is at (`FoundInv`), and
that past the beginning of the next image it has that beginning in mind (`StartInv`); before, it may
have anything in mind, such as a start marker made up from an old byte. An end marker the code
acts on then ends the next image, unless it is made up, which `upset` notes (`ActsOnEnd`). `ImagesPut`
(`PutsPictures`) and `ImagesAllPut` (`NothingLost`) follow.

The last part, `CutAtMost`, is what is left of that once an image has been cut, as long as nothing worse
happens. The frames put are counted then, those that begin with an image (`Images`), not compared
one by one: the rest of a cut image may be a frame of its own. What is kept of
the input begins behind the last image put or within it (`KeptInv`); no image not yet
put has been passed (`ImagesInv`). The crux is `CutStartInv`: the rest of the cut image ends in an end marker,
but the scan acts on that only with a start in mind, which within the rest can only be a byte FF the last
read has left (`TailStart`); and past the rest, the start in mind is that of the next image. `CutImagesPut`
(`CutOnlyShortens`) follows.

**`RingLife_proofs`**, for any number of records, readers, frames and restarts, on top of
`MmapBuffer_proofs`. A writer that was killed leaves two kinds of traces, and `LifeInv` is about what they
can add up to. A record may be half filled: at most one, the one after the latest frame (`Cell`),
for the next writer starts with it again (`WholeInv`). And the pair of offset and timecode may have slipped:
killed between its two stores, `put` has moved on by a record and not by a timecode, so that from then on
every older frame lies one record further back than `get` looks for it. `get` compares the timecode in the
record, so it misses these frames and never delivers another one, as long as the record it has found is
not filled again: `AgeInv` bounds how soon that is, since no record is younger than its position says by
more than the number of slips. `HeldInv` says that what was written since the last slip is in its place. `LifeGetInv` and `LifeQuietInv` follow a
reader's call through writers that come and go, from what it has read of the pair to the copy.
Theorems: `LifeInductive`, `LifeGetsWhole` (`LifeIntegrity`), `LifeQuietGets` (`LifeGetHits`),
`LifeStoreIntact` (`LifeIntact`), `LifePublication` (`PublishComplete`, which is stated of the writer alone
and survives its deaths) and `LifeRefinement` (`RestartedSpec`). The mapping of the last is that of
`StoreSpec`, with a put under way while the writer's timecode is ahead of the file's: `Begin` is where
`put` counts up, `Publish` the second store, and `Reopen` gives up whatever was begun. A miss
is allowed by `LifeQuietInv`, a hit by `LifeGetInv`, both taken at the step where `get` decides.

**`Console_proofs`**, for any panels, objects, pids and number of pipelines. `IInv` is per object, and
has two levels, since the mishaps do:

* `PipelineInv`, of every object no exception has hit (`aborted`): only the object's present pid may be
  entered for it or lead a pipeline of its (`OnlyPid`); when it has ended, is about to fork, or is
  *offered* (a panel lets it be started or dropped), nothing of it is left (`EndedGone`). The
  window shows the status of a while ago, so "offered" speaks of the buttons as drawn: `PollOffers` says
  that a poll offers only what has ended, and the actions in between keep that, because a
  `start` takes the panel away from the operator until its own poll;
* `CleanInv`, of every object with no mishap but `merged`: a running one has its own leader
  (`HasLeader`), and every entry is the living leader's (`EntryTrue`).

`Reap` is the crux: the entry found under the pid reaped is the object's own, or history says
`early` or `mistaken`. From it follow `TypeCorrect`, `Truthful` (`StatusTrue`) and `SinglePipeline`
(`OnePipeline`).

**`FFOutput_proofs`**, for any block sizes, stream lengths and bounds. `StreamsWhole` and
`RefsExact` need only where the locals point in each step of `SetNextFrame` (`LocalsInv`) and that a
block being read is short of a block (`BlockInv`). `ScheduledInOrder` needs the argument why
one picture suffices although it is refilled under the card's eyes: from when the card takes a frame
until it takes the next, *one* more can be drawn (`NotNext`, `DrawnInv`), so what the card
copies is whole and the last or last but one, or torn between those two, and never behind what
it scheduled (`CopyInv`). Theorems: `TypeCorrect`, `StreamsKept`, `RefsCounted`, `InOrder`.

**`Capture_proofs`** proves of the clock file first, for any pids and clock values: `StateInv` says
that only one clockd has the port, so that what it is
about to store is the last value sent; that what a reader has loaded is not newer than the file, and once
it has copied under the lock, not older than the file was when the call began. `Fresh` and
`NeverBack` follow, and hold of any program that uses the file this way.

Then of the capture programs, for any number of driver buffers, pictures, scanlines and clock
values. First, a step of a capture program is, in the variables of the clock file, a step
of `MmapState` or a stutter (`ClockPart`, `ClockUsed`), so that `StampFresh` and `StampNeverBack` cost nothing more.
Then `CaptureInv`, of which `StateInv` is the first part:

* `BuffersOwned` is inductive; it says why `Merge` may write into a buffer of the driver's;
* `PicturesInv`: what is filled, kept and dequeued forms one line of picture numbers, increasing.
  The driver shoots the next number into a buffer nobody holds (`OrderAppended`);
* `FramesInv`: each frame shows an earlier instant in its odd lines and a later one in its even
  ones, and everything in the ring is earlier than both. The instant up to which the ring may
  go, `Now`, is for `v4l2_ingest` that of the *even* lines of the picture it keeps: they were used
  already, and its odd ones come next.

From it follow `CaptureTyped`, `Owned`, `InstantsInOrder` (`FieldsInOrder`) and, with a lemma about the
codec for any picture and any height (`SplitShown`: doubling a field and doubling it in place are
the same), `LooksTheSame` (`SplitAgrees`).

**Only model-checked:** liveness (`ObstructionFree`, `CaptureGoesOn`, `KeepsPlaying`, `TallyFollows`,
`FramesDrawn`, `Finishes`, `EndShown`), which is out of the prover's reach. Every safety property of the passing runs is proved. The types of
the capture programs and of `ffoutput` are proved only, in `CaptureTyped` and `FFOutput_proofs`'
`TypeCorrect`.

## 6. Not modelled

* **Fresh files.** Two programs that open a fresh ring at once both initialise it, or one of them divides
  by a record size of 0; the console's operator starts the capture programs first, which the
  models take for granted. `reset` under a reader's call, and `on_fork`, which no program calls.
* **Steady cameras.** `SameMomentEverywhere` takes the cameras to run in step, at a constant distance in frames
  (`Skew`). A picture lost by one ingest program, or its restart on a ring that slipped, shifts that camera's
  timecodes for good, and marks made after it mean moments as far apart; nothing in the code measures that. A
  daemon that was restarted and has not been cued plays every camera from its frame 0, which is no mark of
  anybody's: the property begins with the first cue.
* **Marks beyond 2^24** frames (155 hours), which a float does not hold; `FieldInTime` is about smaller ones.
* **Frames larger than a record.** `put` does not compare the size with the record's (`core/mmap_buffer.cpp:184`);
  frames are assumed to fit.
* **Pixel formats.** A picture made by `weave` or a doubling has no format set (`core/mjpeg_frame.cpp:222,319,341`);
  `MjpegCodec` compares scanlines, not labels.
* **Drawing** the clock and the DSKs after the frame is decoded and the position moved: it fails only for want of memory.
* **The card's queue** of scheduled frames (section 2).
* **The five mishaps of the console** are exempt from `StatusTrue` and `EndShown`, and `aborted` from `OnePipeline`:
  what these say is that nothing else goes wrong.
* **Interface.** Display modes, preview pointers, the joystick and `write_file_from_mark` read
  the ring and the marks and change neither; drawing.
* **`StdoutOutput`** is instantiated by no program; **`stats.cpp`** counts for a line on the terminal.
* **Codec errors.** Why libjpeg fails is left out: in `Playoutd` any decode may fail, with and without
  pictures allocated, once or for good.
* Pixel arithmetic, text rendering, libjpeg, SDL, the DeckLink driver, opening devices, ffmpeg's
  wrapper, benchmarks and the build are data or I/O and keep no state other parts depend on.
