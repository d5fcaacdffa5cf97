# A TLA+ model of Shamon

Shamon monitors programs through events that travel in shared memory. This
directory models the part of it in which threads and processes meet: the queues,
the threads around them, the protocol by which the monitored program learns which
memory it may use again, the names by which source and monitor find each other's
buffers, and, on three experiments, what an arbiter and a monitor make of events that
may be lost. Paths below are relative to `src/`.

## The system

```
 source process             monitor process
 +-----------+   shm    +----------------+  arbiter   +---------+  monitor  +---------+
 | pushes    | -------> | buffer manager | ---------> | arbiter | --------> | monitor |
 | events    |  buffer  | (one thread    |  buffer    | thread  |  buffer   | (main   |
 |           |          |  per stream)   |            |         |           | thread) |
 +-----------+          +----------------+            +---------+           +---------+
      ^  ^                      |                          |
      |  +--- dropped_ranges ---+                          |
      +------ last_processed_id ---------------------------+
```

All three queues are the same single-producer single-consumer ring buffer. A
source must never wait for the monitor for long: if the arbiter buffer is full,
the buffer manager drops events and later puts one *hole* event in their place.
Strings of events do not travel in the queues but lie in auxiliary buffers of the
source, which reuses them when it learns that their events were processed or
dropped. A monitor without a generated arbiter (`monitors/monitor-generic.c`)
takes events from the arbiter buffers itself, through `shamon_get_next_ev`.

A source with threads makes one *top buffer* and a *sub-buffer* per thread, each with
a *control buffer* beside it that describes its events; the monitor finds them by name.
A generated program has one stream or several, an arbiter whose rules match the first
events of the streams, drop them and *yield* events to the monitor.

### Parts

| Part | Source | State | Operations | Where it is modelled |
|---|---|---|---|---|
| ring buffer | `core/spsc_ringbuf.c` | head, tail, the two cached indices, the slots | write_off, write_off_nowrap, acquire, acquire_nowrap, write_finish, free_num, read_off_nowrap, read_acquire, peek, consume, consume_upto | `SpscRingbuf` |
| parallel queue | `core/par_queue.c` | a ring buffer and its data | push, pop, top, peek, peek_at, drop | `SpscRingbuf` |
| stream | `core/stream.c`, `streams/` | shared buffer, last id | is_ready, read_events, consume, notifications | `StreamFetch` |
| | | | creation, sub-streams, detaching, release | `SubStreams` |
| arbiter buffer | `core/arbiter.c` | queue, number and begin of the current drop, hole event | stream_fetch, stream_filter_fetch, drop, is_done | `StreamFetch` |
| | | | drop_older_than | `DropOlderThan` |
| shared memory buffer | `shmbuf/buffer.c` | ring buffer, destroyed, last_processed_id, dropped_ranges | push, destroy, strings, notify_dropped | `StreamFetch`, `AuxBuffers` |
| | | | create, get, attach, register, release | `SubStreams` |
| auxiliary buffers | `shmbuf/buffer-aux.c` | buffers with their first and last event, list by age, lock | writer_get_aux_buffer, ab_was_dropped | `AuxBuffers` |
| sub-buffers, control buffers | `shmbuf/buffer-sub.c`, `shmbuf/buffer-control.c`, `shmbuf/shm.c` | names in shared memory, numbers | create, get, release, destroy | `SubStreams` |
| client side | `shmbuf/client.c`, `sources/tsan/tsan_impl.c` | threads of the program, their buffers, event kinds | wait for the monitor, thread creation, events, join, exit, end, crash | `SubStreams` |
| monitor buffer | `core/monitor.c` | queue, finished | write_ptr, write_finish, fetch, consume, set_finished | `MonitorBuffer` |
| shamon | `core/shamon.c`, `monitors/monitor-generic.c` | streams, buffers, threads, the next event | is_ready, get_next_ev, destroy | `ShamonLoop` (one stream, dropping) |
| | | | add_stream, several streams that come and go | `SubStreams` (no dropping) |
| generated program | `compiler/cfile_utils.py` | running threads | thread per stream, exit of the arbiter, yield | `StreamFetch`, `MonitorBuffer` |
| bank monitors | `experiments/tessla_compare/bank.c`, `.../gen_tessla_input/bank.c`, `experiments/bank-tessla/legacy/bankmontessla.c` | rule set, buffers, balances and bounds | rules, yields, reports | `ArbiterRules`, `BankRules`, `BankRulesGen`, `BankRulesLegacy`, `BankArbiter`, `BankMonitor` |
| bank program | `experiments/bank/`, `experiments/bank-tessla/regexbank.sh` | balances | commands, lines and their events | `BankClient` |
| primes monitor | `experiments/tessla_compare/primes.c` | positions, intmap, count | rules for primes, holes and the end | `Primes` |
| buffer groups | `compiler/cfiles/compiler_utils.c` | sorted list | insert, update (two streams) | `Primes` |
| intmap | `compiler/cfiles/intmap.cpp` | a finite map | insert, get, remove, remove_upto, clear | `Primes`, `BankMonitor` |
| data race monitor | `experiments/dataraces/monitor.cpp`, `monitor.txt`, `sources/llvm/RaceInstrumentation.cpp` | list of synchronisation events, reference counts, last accesses and their locksets | read, write, lock, unlock, fork, join, alloc, free, done, begin and end of a hole | `RaceMonitor` |
| counting queue, containers, other sources, compiler front end, event tables, other experiments | | | | not modelled |

## Modules

`BoundedFifo` is what a queue promises: the producer appends batches, the consumer
looks at queued elements and removes the oldest ones, and nothing else happens.

`SpscRingbuf` is the ring buffer. `head`, `tail`, `seen_head`, `seen_tail` are the
fields of the struct; `wpc` ... `wfree` and `rpc` ... `rval` are the locals of a
writer and a reader that use the functions in every order the callers do. An action
has at most one access to an index of the other thread, so a window can be computed
from an index that is out of date when the window is used. Copying an element takes
two actions, between which its slot holds `Garbage`. `RefinesFifo` maps the slots
from tail to head to the queue of `BoundedFifo`.

`StreamFetch` is one stream from the source to the arbiter. The buffer manager's
program counter `bpc` names the places in `stream_fetch`, `stream_filter_fetch` and
their callers; `fetch` is the one of the two that the thread uses: the generated
program uses `stream_filter_fetch`, `default_buffer_manager_thrd` uses
`stream_fetch`. `shm` and `buf` are sequences, justified by
the refinement above. `written`, `filtered`, `dropped`, `notified` and `counted`
record history for the properties. A filter is a free choice per event.

`ShamonLoop` extends it with the main thread of a monitor that uses
`shamon_get_next_ev` in the arbiter's place, with the interrupt and the join in
`shamon_destroy`.

`DropOlderThan` is `shm_arbiter_buffer_drop_older_than`: the snapshot of the queue in
the two parts the ring buffer shows, the binary search one iteration at a time, and
the report to the source, while the buffer manager pushes. `off` is 0 if the first
part is searched and its length if it is the second.

`MonitorBuffer` is the last queue with the arbiter's yields and the monitor's loop.

`AuxBuffers` is the memory for strings. It has its own short version of the buffer
manager and the arbiter: what matters of them is which ids are told to the source,
and when. The lock is modelled as it is written: the loop in `drop_ranges_lock`
ends when the flag is found set. Each read and write of a range is a step.

`SubStreams` is an instrumented program with threads (`sources/tsan/tsan_impl.c`) and a
monitor (`monitors/monitor-generic.c`) that meet in shared memory. `tpc` is where each
thread of the program is, `mpc` where the main thread of the monitor is; between the
two there are only names (`bufs`, `ctrls`), the contents of the buffers (`shm`) and the
count `subbuffers_no`. Making a sub-buffer takes the steps of the code (take a number,
control buffer, buffer, count), and so does the monitor's round (is_ready, new
sub-streams, size of the arbiter buffer, next stream). SIGINT during the wait, a crash
at any time and threads that nobody joins are actions. `process_events` is one step, with
the round robin of `default_process_events` (`turn`), and the arbiter buffers have room:
dropping is the subject of `StreamFetch`. The last sleep of `buffer_wait_for_monitor`
(`shmbuf/client.c`) ends whatever the monitor does. If it ends before the monitor, which
attaches first, has registered the kinds of its events, or if SIGINT ended the wait, the
source goes on too early (`hasty`), caches kinds that are not there yet, and the assertion
"Got invalid kind" (`core/stream.c:201`) fails. The model lets the monitor go on then, which
covers more behaviours than the abort. A thread goes by the number of its sub-buffer:
`__vrd_create_thrd` takes the id of the thread and then that number, and the id is only
reported in events. The list `data_list` of the source is taken to be
complete, and no thread is created after `__vrd_fini` has destroyed the top buffer.

`ArbiterRules` has rules of a generated arbiter as data: conditions on what was peeked
of two streams, and bodies that yield, drop and switch the rule set. `BankRules` is the
rules of `bank.c`, one definition per rule in the order of the code. `BankRulesGen` and
`BankRulesLegacy` are those of two more programs that were generated from nearly the same
specification: the rule bodies differ in counters that are only printed, logging, and
the struct that is yielded. Their modules therefore name the rules they share, and
spell out only the ones they do not. About three fifths of the source lines that the
project accounts for are in these three long generated files.

`BankClient` is the monitored program: the lines it reads and prints for each command,
the events that the expressions of `regexbank.sh` make of them, and their times.
`BankArbiter` puts it together with two performance layers, the arbiter and the
monitor. The layers move one element per step or drop it; all events wait in the shared
memory from the start, because a slow layer is the same as a late event. Each function
of a rule set peeks at both streams first and looks at the end of a stream later
(`got` is what it peeked at), and the yield waits for room in the monitor buffer.

`BankMonitor` is the monitor's loop and, as its environment, a bank that reports true
transactions and Clears in any order. It is the abstract specification of what the
arbiter owes to the monitor: `BankArbiter` refines it (`RefinesMonitor`).

`Primes` is the arbiter that pairs two streams of primes by index, with the intmap for
the stream that is ahead, the buffer group, the layers with their holes, and the
monitor buffer. Which stream's prime is at an index is all that is kept of a prime.

`RaceMonitor` is the monitor for data races. `cells`, `refcount` and `head` are its list,
`Writes` and `Reads` what it keeps of accesses; `Rule` is what one event of the list does
to a lockset. Its environment is a program: `todo` is what each thread still has to do,
and `creating` a thread that runs before its creation is reported, since the instrumentation
reports it after `thrd_create`. `hole` is the thread whose reports are being lost. `clock`,
`released` and `epoch` are vector clocks that say which accesses really are ordered, and
`gap` is what was lost since a write. The arbiter of `monitor.txt`, which merges the
streams by timestamp, is taken to deliver the reports in the order of the steps, and to
come to a hole at the place of the events that were lost.

Operators whose comment begins with *Variant* are plausible mistakes in the
definition that follows them. Each was put in the place of that definition to see
that the property it is meant for notices; none is used by a specification.

## Runs

| Run | Module, configuration | Shows |
|---|---|---|
| `ringbuf` | `MCSpscRingbuf` | no race on a slot, no NULL after seeing space, refinement of `BoundedFifo` |
| `stream_fetch` | `MCStreamFetch` | with either fetch function: types and assertions (`StateConsistent`): ids read in order, room for the hole and the event behind it, every event forwarded, filtered or dropped, buffer sorted by id, holes that cover what was dropped, no memory given back that is in use, the arbiter exits after everything was taken; a waiting source gets room even if the arbiter stops; with `stream_fetch`, the assertion on the ids of holes |
| `drop_older_than` | `MCDropOlderThan` | the search ends within its bounds, drops no event above the id and leaves none up to it but the second of two with that id, and no event that stays is reported |
| `shamon_loop` | `MCShamonLoop` | no event left behind, ids in order, the program ends |
| `monitor_buffer` | `MCMonitorBuffer` | in order and once, a yield returns, the monitor ends |
| `aux_buffers` | `MCAuxBuffers` | through drops that end and drops that are notified while they last: strings of live events intact and ranges read whole while no slot is used twice, list by age |
| `sub_streams` | `MCSubStreams` | the monitor finds every announced sub-buffer and no unwritten control buffer, events have the monitor's kinds unless the source went on too early, nothing is left unseen, no name stays, threads get room, the monitor ends |
| `bank_arbiter` | `MCBankArbiter` | every report is true though events of either stream are lost; the assertions in the rules; a rule for everything but a withdrawal of less than 1; the reports are those `BankMonitor` expects; the arbiter ends |
| `race_monitor` | `MCRaceMonitor` | no cell is freed that an access refers to; the first check against a write is exact if nothing was lost; lost events raise no false alarm |
| `primes` | `MCPrimes` | the inductive invariant: positions are exact from the first prime on and over holes, what was seen of the stream ahead is in the intmap, whose size is `count`, no comparison is skipped, some rule always applies; pairs in order; the arbiter ends |

Types, inductive invariants and assertions that are proved below for every value of the
constants are not repeated in the runs.

Bounds. A ring of four slots has every relation of head, tail and the cached
indices, windows that wrap and windows that do not, and batches of one to three.
The arbiter buffer has three elements, the least `shm_arbiter_buffer_init` accepts,
the shared memory two. Seven events fill the arbiter buffer, are dropped, make a
hole, and drop again; four events at every place of a ring of five, with twice as
many ids, have every split of the queue and every path of the search; six events suffice for `ShamonLoop`. `NotifyPeriod` is 2 for the
10000 of `continue_dropping`, in `stream_fetch` and in `aux_buffers`, so that a drop is
notified while it lasts and its range extended later. An auxiliary buffer holds two
strings. `aux_buffers` has two ranges and enough events to use the first one again.

`sub_streams` lets the program do three things (threads it creates, and accesses, lock
operations and joins) with buffers of one event, which is enough for two creators at
once, a thread of a thread, and a full sub-buffer that the monitor has not found. Two
creators at once are where `create_shared_sub_buffer` counts a buffer before the one
with the lower number is made; `SubBufferThere` says that only this (`overlap`) can make
the monitor's assertion at `core/stream.c:159` fail. It includes the types.

`bank_arbiter` has fourteen sessions: twelve for `bank.c` and one for each of the other two
programs. They pair every command with one before it whose loss would matter (transfers
and withdrawals that succeed and that fail, a deposit of nothing, another account, another
user), after the first commands were handled, so that the monitor knows a balance; one
session starts from the beginning. Two have what the client refuses: a transfer and a
withdrawal of 0, a transfer to an account that there is not, a command that there is not.
Buffers have four elements, the least the model allows (`BufAssumption`), and lose events
at every place. Left out are amounts that begin with a plus sign (dropped without a Clear),
logins that fail and the selection of an account that there is not.

Three behaviours are named in the properties, and nothing else is excused:

- a withdrawal of less than 1 gets a message for which there is no event. No rule matches
  the prompt, and the program aborts, or tries its rules for ever if too few events follow
  (`AtRefusedWithdrawal`, in `NeverStuck` and `ArbiterEnds`);
- a transfer of 0 is reported as one that failed, and the monitor of `bank.c` raises an
  alarm (`ToldAsFailed`, in `RefinesMonitor`);
- a stream that delivers its last events between the peek and the look at its end is taken
  for done (`experiments/tessla_compare/bank.c:894`, variable `early`); after it the program
  does reach "Should not happen".

`race_monitor` has eleven programs of three threads, in all their interleavings, with one
hole at any place of any thread. Two threads share an address with and without a mutex,
and main uses it afterwards, with or without a join; a thread creates another; an order
would have to go through two mutexes; many threads read at many places. `ManyCells` is 2
for the 10000 of `cell_rc_dec`, so that cells are freed often. A program ends, so that
deadlock is not checked, and nothing is said about liveness.

`primes` has four primes per
stream, buffers of two, an intmap of two for the ten of the code: every order in which a
stream gets ahead, is lost and catches up. The programs number their primes from 1
(`experiments/primes/primes.c:144`, `primes-bad.c:113`) while the positions of the arbiter
start at 0 (`experiments/tessla_compare/primes.c:834`): a position is exact from the first
prime on, and it does no harm that it is one too low before.

Fairness. The buffer manager, the monitor and the main thread are threads that are
never blocked but by their own loops, so each is weakly fair. Nothing is assumed of
the source. In `stream_fetch` nothing is assumed of the arbiter either, and in
`MonitorBuffer` the arbiter finishes what it began but need not begin anything.
In `sub_streams` the monitor's main thread and the thread of each stream are weakly
fair and the program is not. In `bank_arbiter` and `primes` the layers and the monitor
are weakly fair; a step of the arbiter may be taken for ever without a change of its
buffers, so its fairness (`ArbiterRuns`) says that it goes on taking steps unless it has
ended or the monitor buffer is full. `ArbiterEnds` of `primes` is for streams of the same
length: when the shorter one has ended and the intmap is full, the arbiter waits for
ever.

### Runs that refute

Each of these checks one statement of the code about itself and finds a behaviour
in which it is false.

| Run | Statement | Behaviour |
|---|---|---|
| `monitor_end` | `core/monitor.c:117` "return NULL if the stream ended" | the buffer is seen empty, the last event is published, `finished` is set and then read |
| `dropped_ranges_lock` | `shmbuf/buffer-private.h:42` "spin lock" | source and buffer manager are inside at once |

Five more statements of the code about itself are not true in every run; the properties
next to them say what does hold.

- `core/arbiter.c:494` "Drop IDs are wrong": with `stream_filter_fetch` an event that is
  filtered while others are dropped is not in `dropped_num`, and the assertion fails
  (`DropIdsRightInFetch` is for `stream_fetch`).
- `core/arbiter.c:468` "we need just the upper bound": when the last events are dropped
  and the stream ends, the hole has the id before that of the last dropped event
  (`HoleCoversDrops` allows for it).
- `core/arbiter.c:155`, `163` `assert(top == 1)`, `assert(top == bot + 1)`: in a part with
  one event both bounds are 0 at once (`PartAsserts` is for two events or more; the result
  is right without the assertions).
- `compiler/cfiles/intmap.h:12` "removes all keys less than or equal to n": the key itself
  stays (`intmap.cpp:21` uses `lower_bound`). `PrimesInv` allows for the one older entry
  this leaves in the intmap.
- `core/stream.c:260` "init fun set wrong kind": `default_process_events` drops half of a
  full buffer and returns an event whose kind it never set.

The id of the hole at the end has a consequence for `drop_older_than`: it can be the id
of the event before it, and of two elements with the id asked for the search may
leave the second. `DropsOlder` says that nothing else is left. `QueueNotReleased` and
`ProcessedMonotonic` are stated for ids that were pushed when they are asked for. An id
beyond that is reported as processed as it is, and events up to it which come later are
released at once; the comment of the function speaks of the id of an event.

`dropped_ranges_lock` has consequences once a slot of `dropped_ranges` is used again, after
`DROPPED_RANGES_NUM` drops: the source reads the begin of a range, the buffer manager
overwrites the slot, the source reads the end, and takes for dropped what was
forwarded. `RangeIsOfDropped` and `StringsIntact` are therefore stated while no slot was
used twice (`SlotsFresh`: the first slot, which is used last, is still empty). Then they
hold without any lock, because `end` is written last and a slot with `end = 0` is skipped.

`is_done` reads four values one after the other and can return true while the last
event moves into the buffer it has just seen empty. `ExitsDrained` says that the exit
of a generated arbiter is not misled by it: the arbiter looks at the number of running
threads first, and a thread stops being counted after its last event is in the buffer.
This needs the thread to have started
by then, which nothing in the program enforces: `count_event_streams` is incremented
by the thread itself, and an arbiter that looks before that and finds a source that
has already gone exits early.

The properties of `RaceMonitor` have conditions, and the model violates each property
without any one of them. They are limits of the monitor; no document says otherwise.

- After a check the lockset is reset to the thread in the cell of the later access, which
  is the unfilled last cell, whose thread is 0. A second check against the same write
  is therefore that of a write by main (`Fresh`).
- A thread may act before its creation is reported (`Early`, `gap.hard`), and so can what
  depends on it. A creation whose report is lost (`gap.hard`) is not excused either.
- What the accessing thread itself lost is not excused (`gap.blind`): the thread looked up
  in `skipthreads` is again that of the unfilled last cell.
- No function fills `ThreadLocks` or `LockThreads`: a write is never checked against the
  reads before it, and locks held at an access play no part.

## Proofs

`SpscRingbufProofs` proves, for every capacity and every set of elements, that the
specification of the ring buffer implies `RingInv`, `TypeOK`, `NoSlotRace`,
`HeadMoveValid`, `NullOnlyWithoutSpace` and `RefinesFifo`. The only assumption is
`RingAssumption`: the capacity is a positive number and `Garbage` is no element.

`NoSlotRace` is not inductive: a window is computed from cached indices and used when
the real ones have moved. The invariant says that the caches err on the safe side
(`CachesSafe`: the reader believes no more slots written than are, the writer believes
no more slots free than are), that a window fits in what the cache allows
(`WriterSafe`, `ReaderSafe`), and that slots which are published, or filled in the
current window, hold elements (`DataWritten`). The lemmas `Counts`, `WriteOffCounts`
and `AdvanceHead` to `Numbers` reduce the case distinctions of the index arithmetic
to the two facts that written and free slots add up to one less than the capacity,
and that moving an index by k changes the counts by k. `WriterRingInv` and
`ReaderRingInv` then go through the actions. For the refinement, `QueueSeq` shows
that the mapped queue is a sequence of elements, `WriteFinishPushes` and
`RemoveDrops` that publishing and consuming are `Push` and `Drop`, and
`QueueUnchanged` that every other step leaves the queue alone.

It also proves `MonitorTypeOK`, `InOrderOnce` and `WriteNotLate` of the monitor buffer, the
last of the queues, for every capacity and number of events (`MonitorAssumption`). Together
with the fact that an arbiter which waits for a pointer has something left to yield,
they are inductive.

`DropOlderThanProofs` proves `DropInv`, `SearchBounded`, `DropsOlder`,
`QueueNotReleased` and `ProcessedMonotonic` for every size of the ring and every bound
on the ids (`DropAssumption`: at least two slots). The loop invariant `LoopInv` says
that the events left of the interval are to be dropped and those right of it are not,
and that the steps taken and the length of the interval together stay below the length
of the queue. `ReportInv` says that an id which is about to be reported is not above
what was pushed, so that what is pushed after the snapshot is younger. One lemma per
action shows that it keeps `DropInv`.

`PartAsserts` and `TypeOK` follow from the same invariant.

The module also has the proofs about the other end of an arbiter, the bank monitor:
`BankTypeOK`, `BeliefsTrue` and `NoFalseAlarm` for all sets
of accounts, balances and amounts. `BankAssumption`, that they are natural numbers, is a
hypothesis of the theorems; `BankArbiter` assumes it of what it hands over
(`BankNumbers`), so that the run `bank_arbiter` evaluates it. The invariant `MonInv` adds
to the beliefs that after a Clear nothing is believed, so that the balances may change
unseen. With `RefinesMonitor`, which is only model-checked, this
says of `bank.c` that lost events cause no false alarm.

`AuxBuffersProofs` proves `StringsIntact`, `AgeOrder` and `RangeIsOfDropped` for all sizes
of the buffers and of `dropped_ranges` and every number of events (`AuxAssumption`: positive
sizes, and an arbiter buffer of at least three elements). `AuxInv` has one part for each
piece of the argument why a buffer that is reused holds no string of a live event:

- `IdInv`: the shared memory has the ids that follow those taken from it; what the arbiter
  has reported as processed lies before every event that it still has, and no event in its
  buffer was dropped;
- `DropInv`: the drop in progress is of all events from its begin to the last one taken, and
  lies behind the range that was noted last or, after a notification on the way, begins
  where that range begins. So `buffer_notify_dropped` extends a range only by events of the
  drop that the range is of (`ChooseSlotKeeps`);
- `SlotInv`: while no slot was used twice, a range that has an end is a range of dropped
  events and does not change any more. `ReadInv`: so the two halves which the source reads
  in different steps belong together;
- `StringInv`: the string of a live event is in the used part of its buffer, and the id of
  the event lies between the first and the last id of the buffer. A buffer whose last id
  was processed, or whose ids lie in a range, has then no live event;
- `SourceInv` and `AgeInv`: the source's place in the code, and the list by age, which is a
  permutation of the buffers.

Apart from its type `AuxInv` says nothing of `lock`: the argument needs no mutual exclusion.

`PrimesProofs` proves `PrimesInv`, `TypeOK`, `CountIsSize`, `NothingSkipped`, `NeverStuck` and
`PairsInOrder` for streams of any lengths and buffers and intmap of any size
(`PrimesAssumption`: the intmap has room for two, a drop threshold below the capacity). `PrimesInv` ties the arbiter's
positions to what the layers have fetched: place, elements in the buffer and events
dropped since the last hole add up for each stream. The place of a stream is its position,
or 1 while that is 0; the first element of a stream is a prime, which sets the position,
and not a hole, which would add to it (`PrimeFirst`). The intmap holds all that was seen of
the stream that is ahead from the position of the other one on, and at most one older
entry; the group is in order when its first stream is tried.

`StreamFetchProofs` and `StreamFetchTheorems` prove `StateConsistent`, `NothingVanishes`,
`SortedById`, `PayloadNotReleased`, `ExitsDrained` and `HoleCoversDrops` of one stream, for
every number of events, every size of the shared memory and of the arbiter buffer, every
threshold and period, and both fetch functions (`StreamAssumption`: positive sizes, and a
drop threshold below the capacity of the arbiter buffer). None of the six is inductive.
`StreamInv` has four parts:

- `ControlInv` is about the buffer manager's place in the code. `ShmInv` says that the
  shared memory holds the ids that follow the consumed ones, `PlaceInv` that an event
  being handled is the first of them, `DropInv` which ids the drop in progress covers.
  `RoomInv` is the point of the design: the free space that was read may be out of date,
  but only the arbiter changes it meanwhile, and it makes more of it. `ExitInv` says the
  same of the four questions the arbiter asks before it exits.
- `WrittenInv` orders what was ever written, and puts it before the drop in progress.
- `BufInv` says that the arbiter buffer is the end of what was written and that the ids
  told to the source lie before it.
- `AccountInv` is the count: forwarded, filtered and dropped events are all the events
  taken, and their numbers add up, so none is counted twice; the counters of the holes
  written and of the drop in progress add up to the dropped ones.

`HoleSum` is the cardinality of a set of pairs instead of a recursive sum: the lemma
`HoleSumAppend` then follows from the theorems on finite sets, with no induction.

`LoopImplementsStream` shows that the main loop of `ShamonLoop`, which takes events with
`shamon_get_next_ev`, implements `StreamFetch` with its arbitrary arbiter, step by step.
All theorems above hold of it, and `LoopInv` builds on them: once the source is gone and
the shared memory is empty only a hole can come to the arbiter buffer (`LeaveInv`), and
the id of the event at hand lies between those handed out and those in the buffer
(`OrderInv`). `NoEventLeftBehind` and `MonitorSeesOrder` follow.

`SubStreamsProofs` and `SubStreamsTheorems` prove `SubBufferThere`, `ControlWritten`,
`KindsKnown`, `NothingUnseen` and `NoNameLeft` of a program with any number of threads and
its monitor, for every `Budget` and every capacity (`SizesAssumption`). `SubStreamsInv`
ties the two sides to the names between them:

- `ThreadInv` says which threads are where, and that the numbers taken but not counted yet
  are as many as the threads that are making sub-buffers (`AsMany`, a bijection: the counter
  is incremented by whoever is first, so no thread can be said to own its value). It holds
  while the program is alive; of a program that is gone `SourceInv` needs only that the top
  buffer is closed.
- `NameInv` says which names exist, and that without an overlap of two makers every counted
  sub-buffer has its name.
- `StreamsInv` and `ReadyInv` are the monitor's: streams are opened in the order of their
  numbers, and streams found closed and empty in this round are still so, which is why a
  round over all of them, with no new sub-buffer at its end, means that nothing is left.
- `KindInv` is the handshake of the start: attached, registered, slept, cached, as long as
  the source is not `hasty`.

SIGINT and crashes are steps like others in these proofs.

The `Proofs` and `Theorems` modules of `StreamFetch` and of `SubStreams` belong together:
the first has the lemmas about single steps, the second the rest and the theorems.

Only model-checked, and why:

- all liveness (`SourceNotBlocked`, `ProgramEnds`, `NoThreadStarves`, `MonitorLeaves`, ...):
  the prover does not reason about fairness;
- `BankArbiter` with its rules and the refinement of `BankMonitor`: the rules are data that
  the specification interprets, and `NeverStuck` quantifies over which of them match; a
  proof would go through all the rules of three programs one by one;
- the properties of `RaceMonitor`: a write gives up all reads of its address in a fold, and a
  lockset is the fold of the events of the list; what they compute for every length would
  be an induction over data, which the prover does not do.

## Not modelled

Memory ordering: the ring buffer uses acquire and release, which the model takes as
sequential consistency; the plain reads of `dropped_num` and `finished` by another
thread are taken as reads of the current value.

`shm_spsc_ringbuf_acquire_nowrap` and `write_off_nowrap` are modelled as they are: in an
empty ring `get_write_off` counts no slot as wrapped, so the window they give may still
go round the end of the array, and the writer of the model goes round with it.

The rest, with reasons:

- the counting queue (`core/queue_spsc.c`): the library no longer uses it;
- lists and vectors: sequential containers;
- the round robin of `default_process_events` over several full buffers, and the memory
  of the event it returns;
- buffer groups of more than two streams, their removal and choosing several streams,
  and the `creates` clause of generated programs: no generated C program in the
  repository has them, and the generator itself is text that produces text;
- the set-up in `main` of generated programs, signal handlers that print statistics,
  logging and counters that are only printed;
- the other sources (`sources/drregex`, `drfun`, `drsyscalls`, `racetest`, `regex.c`): they decide
  which events exist and push through the buffer that is modelled;
- of the monitor for data races, the handlers for accesses to several bytes, whose
  events the arbiter of `monitor.txt` never yields, atomic accesses, which the monitor
  ignores, and the merging of the streams by timestamp; holes that the
  arbiter comes to late, after events of other threads that followed them;
- the other experiment programs: test drivers and measurements;
- the front end of the compiler and the tables of event kinds: sequential, with no state
  that the running system shares.
