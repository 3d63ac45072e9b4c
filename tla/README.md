# libbaalue: a TLA+ model

libbaalue is a C library for small Linux boards ("baalue nodes"). Its own logic
is a time-triggered scheduler made of threads ("fibers"), a protocol by which an
unprivileged process has its threads configured by a privileged server, the
management of a device over UDP, and what servers need around it: daemon, pid
file, socket files, address loops; beside these it wraps CAN sockets and shared
memory. This directory models these, checks them with TLC and
proves the invariants of the checked modules, and that the schedule protocol
implements its abstract service, with TLAPS. Paths below are relative to the repository (`src/` is the library,
`examples/` the programs that use it).

## Inventory

| part | state | operations | hard behaviour | correct means |
|---|---|---|---|---|
| scheduler start-up, `src/fiber.c`, `examples/time_triggert_simple.c` | `fiber_array` (with `kernel_tid`), a static mutex and condition, the kernel's affinity and policy of each thread | build, validate, set properties, start; every fiber: store tid, wait, cycle | main and fibers share the array without a lock; only `sleep(1)` orders them; one wait without predicate; failures are logged and forgotten | all fibers start, together, each with its own properties; main does not configure itself |
| release cycle, `src/fiber.c` | `fiber->t`, the monotonic clock | start, absolute sleep, function call, `t += dt`, `baa_ts_norm` | overruns, late wakeups, EINTR, overflow of a 32-bit `tv_nsec` | releases neither drift nor are skipped nor come early; fibers stay in phase |
| schedule server, `src/fiber.c`, `examples/time_triggert_uds*.c` | datagram queues of the sockets, position in the table on both sides, the server's `fiber_element`, the properties of threads | request, PTYPE_RCV_ACK, set, PTYPE_CMD_ACK, timeouts, exit, crash, restart | answers carry no identity; full queues; crash between two answers; a client that leaves, and whose thread ids are given to others | 0 is returned only when every element was set, each for its own thread; nobody blocks the server |
| device management, `src/device_mgmt.c`, `examples/udp_mgmt_*.c` | datagrams, state of the device | ping, reboot, halt | loss, duplication, reordering; the answer precedes the command, which may fail unnoticed; a device that is going down still answers | an answer means "received"; one reboot per command; when a reported reboot has been one; every command returns |
| server process, `src/helper.c`, `src/network.c`, `examples/time_triggert_uds_server.c` | names of the pid file and the socket file, the two pointers `cleanup` uses | daemon, pid file, bind, chmod, chown, serve; SIGTERM, `exit()`, `cleanup` | several processes share the names; `exit()` in one thread while the other still starts; kills leave files | stale files do no harm; an orderly end leaves nothing; one server at a time |
| inet sockets and daytime, `src/network.c`, `src/helper.c`, `examples/inet_daytime_*.c` | descriptors, alarm and handler, backlog, position in the address list, line buffer | resolve, socket, connect, bind, accept, write, read a line | descriptors on error paths; clients that leave; descriptor limit; both address loops use the first address only; end of file and limit of the buffer | no descriptor or alarm is lost; calls return; waiting connections are answered; the line sent is the line shown |
| serialization, `src/serialize.c` | none | `baa_pack`, `baa_unpack` | signs, and stores of a `long` to an `int` | what is packed is unpacked again, and the message leaves the right values in `fiber_element` |
| CAN, `src/can_lin.c`, `examples/can_*.c` | filters and receive queue of each socket, counter of the telegram | bind, set filters, error mask, read, write | frames between bind and filter; failed writes and lost frames; a list that outgrows its allocation | the filters let pass what the list names and nothing else; no telegram is missed or repeated |
| shared memory, `src/sh_mem.c` | the name of the segment, `errno` | create, open, unlink | a stale `errno` | a call that fails has not opened the segment |
| unix stream sockets, strings, capability, semaphores, process, user and group information, errors and logging, LCD | - | single system calls, look-ups, formatting | - | not modelled (`PROJECT.json` has the reason for each) |

The parts interact by calls (main to the library), by shared memory
(`fiber_array`, between main and the fibers), by datagrams (client and server)
and through the kernel (scheduling attributes addressed by thread id).

## Modules

| module | models | runs |
|---|---|---|
| `FiberScheduler` | start-up of the scheduler | `fiber_start`, `fiber_lost_wakeup`, `fiber_cpu_refused` |
| `FiberSchedulerProofs` | its theorems | |
| `FiberCycle` | the cycle of a fiber in time | `cycle` |
| `FiberCycleProofs` | its theorems | |
| `ScheduleService` | abstract: what the schedule server promises a caller | (a property of `sched_single`) |
| `Serialize` | `baa_pack` and `baa_unpack`: bytes, signs, memory | (extended by `SchedProps`) |
| `SerializeProofs` | its theorem | |
| `SchedProps` | the PTYPE_SCHED_PROPS protocol | `sched_single`, `sched_retry` |
| `SchedPropsProofs` | its theorems | |
| `DeviceMgmt` | device management over UDP | `mgmt_all` |
| `DeviceMgmtProofs` | its theorems | |
| `UdsServer` | process, pid file and socket file of the schedule server | `server_files`, `server_two` |
| `UdsServerProofs` | its theorems | |
| `Daytime` | inet stream sockets, daytime server and client, `baa_read_line` | `daytime` |
| `DaytimeProofs` | its theorems | |
| `Can` | CAN receiver, cyclic sender and error thread on a bus | `can` |
| `CanProofs` | its theorems | |
| `SharedMemory` | `shmem_handle` and its callers | `shmem` |
| `MC...` | the values of the constants for TLC | |

Operators named `Mut_...` are deliberately wrong variants of the definition
that follows them; `PROJECT.json` says which property each one breaks. They are
used by no specification.

### FiberScheduler

`mpc` and `i` are the position of the main thread, `fpc` that of each fiber,
`kernel_tid` the field of `fiber_array`, `mutex` the owner of the static mutex,
`aff` and `pol` what the kernel holds for each thread. A thread waits on the
condition while its `fpc` is `"waiting"`; the broadcast turns exactly these to
`"woken"`, and each has to get the mutex again. Each of the two kernel calls per
element is a step, since the fibers run between them. `tid = 0` in a kernel call
means the calling thread, and 0 is what `kernel_tid` holds before the fiber has
stored its own.

Two things about the platform are decided once per behaviour: `timely` (every
fiber waits when `sleep(1)` returns: the assumption the code makes) and
`spurious` (POSIX lets a condition wait return for no reason). Properties say
which of the two they need, and the ones that need neither say so.

SIGTERM ends the process from any state: the handler thread calls `exit()`.
`pthread_create` may fail for any fiber.

### FiberCycle

Time is counted in ticks, a second has `NsecPerSec` of them, and a `long` ends
at `LongMax`, so that the ratio of the two (2.147 on the 32-bit boards the
library is for) can be chosen. The clock may advance before any step: wakeups
may be late and functions may overrun. An invalid timespec makes
`clock_nanosleep` return at once, and its result is looked at for EINTR only,
after which the function is called in any case. Each test of the loop of
`baa_ts_norm` is a step. `dt` is an `int` that nobody validates; `Tables` holds
negative and too large values as well. A sum that overflows is undefined in C, so
`AddLong` allows every `long` for it. What is left to hold then is in `TypeOK`, that
`baa_ts_norm` hands on nothing of a second or more, and `EveryReleaseServed`. `start`, `k` and `early` (a signal ended
the last sleep) are history variables.

`Fits(f)`, the periods of which no sum overflows, is the condition the code
should check: `0 <= dt <= LONG_MAX - NSEC_PER_SEC + 1`. On LP64 every
non-negative `int` fits.

### SchedProps and ScheduleService

Both receive queues are bounded sequences, as the kernel's are. `sendto` blocks
on a full queue until its timeout; the model lets it fail exactly when the
queue is full or the peer is gone. A receive timeout may expire whenever the
queue is empty. Datagrams over unix sockets are neither lost nor reordered, but
a server that dies loses its queue and the request it works on. A client may
exit at any point; its socket file is removed and the server's `sendto` fails.
A request is the bytes `baa_pack` makes of the element; the index it also carries
is for the properties only. `Server_Recv` unpacks it into `fiber_element`, on
either width of `long`: on LP64 each `'L'` stores eight bytes, the upper four into
the field behind its target (`Layout` gives the words of the struct). Of the words
beyond the last field used none matters to the server.

The kernel is addressed by thread id only. `told` is what it was told to give to
each thread; id 0 is the server's own. `TidsRead` stands for the fibers of the
client process: where one second was enough (`timely`) main reads the id of the
fiber, otherwise that or 0. (`FiberScheduler` models the same race in detail.) The
ids of a client that has ended may be given to threads of other processes, also
while a request for them waits.

`baa_set_schedule_props` makes two kernel calls, and each is a step: the server may
die between them, having bound a thread to its cpu but not given it its priority.
`told` is a set of such calls (`KernelCalls`). An element counts as applied after
the second.

Only whole datagrams of PTYPE_SCHED_PROPS reach the server. It would log one of
another type and go on, and unpack a shorter one from its cleared buffer;
`baa_set_schedule_props_via_server` is the only sender to this socket in the
repository, and it sends neither. `Client_Call` may be taken again after a failure
(`MaxCalls`): the library allows it, the program of the example leaves instead.

The error answers of the server are unreachable and therefore absent:
`baa_unpack` returns 17 for "cLLLL", never more than `BAA_MAX_LEN_MSG`, and
`baa_set_schedule_props` always returns 0.

`ScheduleService` has one variable for what the kernel was given and one for the
result of each call. `SchedProps` implements it under the mapping
`result <- "ok" / "failed" / "none"` by the client's control point.

### DeviceMgmt

The network is a set of datagrams; taking one may leave it there (a duplicate,
at most `MaxDup` times), and any may be lost. Since it is a set, every order of
delivery is possible. Each socket has its own identity, so that what is
addressed to a closed socket is never received. `system("init 6")` only tells
`init`: the server goes on answering until the device goes down. A halted device
does not come back. `system()` may fail, and nobody looks at its result
(`Server_RunFails`, remembered in `refused`). The reboot client sleeps 20 s, opens
ten sockets of which it uses the last one, and leaves if that failed. Its sleep may
be over at any time: the clients for which it was before the reboot ("will sleep
some time -> until node back again") are remembered in `hasty`. The signal handlers of
the clients are left out: ending a client is covered by the failure of its
command, which ends it at the same places.

### UdsServer

A pid file or socket file is named after the process that created it, and
`pidname` and `sockname` say to which of them the name in the file system leads.
Every system call that changes a name is a step: `unlink` and `open` of the pid
file, `unlink` and `bind` of the socket, the two `unlink` calls of `cleanup`; and so
are `chmod` and `chown`, which go by name and may reach the socket file of another
process (`perm`, `group`: the processes whose file has got them).
`pid_file` and `kdo_file` are the pointers `cleanup` uses; they are set only when
the library call has returned, while the file exists before. `pc` is the main
thread; `xpc` is `exit()`, which SIGTERM runs in the signal thread while main may
still be starting. A failed call makes main leave by `exit()`; a process may be
killed at any point. `overlap` and `orderly` are history variables: processes
that did not run alone all the time, and processes told to end while serving.

The lock on the pid file is not represented: it is taken on a file that was just
created and given up by `close` in the same call, so it is never refused.
An interrupted `open` ends in the endless loop of the code (`spin`).

### Daytime

`usable` is the set of addresses that can be reached; it is chosen once. Both
address loops advance `rp` but open and connect (or bind) `result`, the first
address, each time: only address 1 can lead to a connection. `fds` and `sfds`
count open sockets, `alarm` is the connect timer with its handler. A connection
waits in a bounded `backlog` until it is accepted; the server never closes one,
so `sfds` only grows, up to `MaxFds`, after which `accept` fails for ever. A
failing `accept` changes nothing and is therefore not a step. All signals are
blocked in both programs, so that a write to a closed connection is only an
error.

`baa_read_line` is an operator on the characters the peer sends before it closes:
one character per `read`, up to the newline or the end of file; `Filled` is the
buffer it leaves. `Streams` holds more than this server sends, since the client is
made for any daytime server. An end of file before the first character makes it
return `BAA_FILE_EMPTY`, -2, which main takes for a count: it clears
`recvline[-3]`, a byte of another local variable, and goes on or crashes (the same
step as a failed read). `num_read` is kept to say so: by `StoresInside` this is the
only stream for which the store leaves the array.

main's comment is "eliminate NEWLINE", but it clears the last character whatever it
is. After an end of file that is the one `baa_read_line` has stored twice; of a text
that fills the buffer to its last place, or is longer, it is a character of the
text. `LineShown` says exactly this much: nothing but the text is shown, all of it
if its newline would fit too, and otherwise all but at most one character of what
was in the buffer.

### Serialize

Integers and bytes are related as in the code, with `Radix` values of a byte
instead of 256, so that TLC can try every value of every type. `Signed` is the
conversion by `(-1) - (max - tmp)`. Arguments that are wider or narrower than the
letter says need no case of their own: only the low bytes are transmitted.

### Can

A socket receives from `bind` on, first everything, then what its filters let
pass. The mask of every filter is `CAN_SFF_MASK`, so only the low bits of an
identifier count (`Low`). `baa_set_flist` may end in three ways: filters for any
part of the tokens (a failed `realloc` skips one; `dropped` remembers which), none
at all, or, when there are more tokens than the one filter that `realloc` is asked
for, an abort by the damaged heap. There is no fourth way: the size asked for never
changes, so the block is not moved, and nothing is allocated between the write of a
filter and `setsockopt`, which therefore reads what was written. The delimiter of
`strtok_r` is one character without a terminating zero; `terminated` decides once
whether a zero happens to follow. Frames carry tags for the properties: whether they
came before the filter (`early` for the receiver, `unfiltered` for the error
thread), and whether a telegram was lost before them. A failed `read` changes
nothing and is not a step.

`write` only queues the frame. One that goes out later cannot be told from one that
is written later, since the queue keeps the order and nobody else sees the counter;
one that never goes out is `Send_Lost`.

`print_error_frames` reports a data frame with "should never see that!"
(`examples/can_recv.c:142`, `examples/can_send.c:141`). It does see some. The last
part of `FiltersRespected` says which: those from before its filter is set or
without it, and those whose low bits are 0, which the filter it sets lets pass.

### SharedMemory

`shmem_handle` looks at `errno` also when `shm_open` has succeeded. Every path
from there returns, so `ftruncate` and `mmap` are never reached and are not part
of the model.

## Runs

Passing runs, with the distinct states TLC finds:

- `fiber_start` (155 000): three fibers, two cpus, three tables: all valid with
  different policies; one cpu the validator accepts and the machine has not;
  one with refused priorities. Three fibers are the smallest number for which
  one can be early, one in time and one late; two cpus tell the right one from
  a wrong one.
- `cycle` (1 037 000): two fibers in seconds of 4 ticks and a long that ends at 9,
  starts in two different seconds, signals at any time. One table has the periods
  3 and 6, which meet within the bounds, 6 being the largest that fits; the other
  has 7, the smallest that overflows (after which `tv_nsec` is any `long`), and -3.
  `MaxNow` is large enough for the sleep after the worst of these.
- `sched_single` (148 000): two clients, tables of two elements with a negative
  value, a server queue of one datagram (so that it is full when both send), one
  crash, one reused thread id; an int of four one-bit bytes. Before the run TLC
  evaluates `RoundTrip` of `Serialize`, which says nothing about states, for every
  value of each type (an assumption of `MCSchedProps`).
- `mgmt_all` (558 000): ping, reboot and halting client, one duplicate, a `system()`
  that may fail, and a sleep that may be too short.
- `server_files` (47 000): two processes, each started once, at the same time or
  one after the other. The theorems say the same for any number.
- `daytime` (107 000): two clients with two connections each, two addresses with
  any of them usable, a backlog of one, and three descriptors, so that both the
  backlog and the descriptors are used up; a buffer of four and lines that are
  empty, that are shorter, that fill it and that are longer, with and without newline.
- `can` (4 059 000): identifiers with one low bit, standard and extended ones on
  the bus, filter lists that are absent, empty, and of two identifiers where one
  fits, a counter that wraps after three telegrams, a receive queue of
  two.

Runs that refute what the repository says of the program:

- `fiber_lost_wakeup`: without the assumption that one second is enough, a fiber
  may miss the broadcast and never run ("make sure everthing is ready").
- `fiber_cpu_refused`: a cpu number equal to the number of cpus passes the
  validator, and the fiber is started although the kernel refused it.
- `sched_retry`: a call repeated on the same socket after a timeout returns 0 by
  the late answers to the first call, before its own elements are set. This is
  why the guarantees of `sched_single` are stated for one call per socket, which
  is how `time_triggert_uds.c` uses it.
- `server_two`: two servers serve at the same time, although
  `baa_create_file_with_pid` has a message for a pid file that is in use.
- `shmem`: a segment that was created is reported as one that could not be opened.

Bounds: `MaxCalls`, `MaxCrashes`, `MaxReuse`, `MaxDup`, `MaxStart`, `MaxNow`,
`MaxActivations` and `MaxRounds` are in the guards of the actions and named in the
modules. `Can` is finite without such bounds.

Fairness: weak fairness of the main thread and of each fiber (the kernel runs
runnable threads, and the functions of the table return), of the clock, of the
schedule and daytime server threads while their processes live, of a client inside a
call, timeouts included, and of the threads and the `cleanup` of a server process. Nothing is
assumed of spurious wakeups, signals, exits, crashes, kills, interrupted calls,
the start or restart of a server, delivery by the network, or the managed device. The fibers of one cpu with
SCHED_FIFO priorities could starve lower ones if a function never returned; that
is excluded by the assumption on the functions. `CommandReturns` and
`CallReturns` rest on the receive timeouts that `src/network.c` sets on every
socket.

## Theorems

`FiberSchedulerProofs`, for any number of fibers, any set of tables and any
number of cpus: `TypeCorrect`, `Configured`, `MainSafe`, `NeverCross`,
`NoWakeupLost`, `NotEarly`, `Together`. None of these is inductive as it stands.
The inductive invariant adds

- `TidInv`: `kernel_tid[f]` is 0 or f, and f once the fiber is past its prologue;
- `CreatedInv`: threads from the loop index on do not exist yet;
- `ReadyInv`: in a timely run every fiber is at or past the wait once main has
  slept. It links time to the fibers' positions, and everything about tids and
  wakeups follows from it;
- `ValidInv`: past the validation the table is valid;
- `PropsInv`: in a timely run the elements before the loop index are configured,
  the others are not, and main is as it was.

`FiberCycleProofs`, for any set of fibers, any periods, any `NSEC_PER_SEC` and any
`LONG_MAX` that holds a second: `TypeCorrect` (with
the bound on `tv_nsec`, for overflowing periods too), `ReleasesExact`,
`AlwaysNormalised`, `NotBeforeRelease` (a call before its release only after a
signal that ended the very sleep before it) and `StaysInPhase` (for fibers started
in any seconds). The inductive invariant `CycleInv` gives the exact value of `fiber->t`
and the range of `tv_nsec` at each point of the cycle; the range depends on
`Fits(f)`. The bounds `MaxNow`, `MaxStart` and `MaxActivations` play no part in
the proofs, which hold for all their values.

`UdsServerProofs`, for any set of processes: `TypeCorrect`, `StaleFilesHarmless`
(`OwnFilesAlone`) and `LeavesNothing` (`CleanupRemovesOwn`). The inductive
invariant adds

- `AloneInv`: a living process that has run alone is the only living one, so that
  nobody else takes the names away;
- `NamesInv`: from which step of its start on the names and the contents are those
  of such a process, unless it was told to end;
- `PointerInv`: `pid_file` and `kdo_file` are set once main is past the calls;
- `CleanupInv`: which names no longer lead to an orderly ended process at each
  step of its cleanup. A main thread that serves creates no file, so what is
  removed stays removed.

`SerializeProofs`, for bytes of any even radix: `PackThenUnpack`, which is
`RoundTrip`. The bytes of a number are the digits of its low part (`DividedTwice`,
`Pack16`, `Pack32`), and the low part determines the signed number (`SignedLow`).

`SchedPropsProofs`, for any number of clients and elements, any table, any queue
lengths and any number of crashes and of reused thread ids: `TypeCorrect`,
`RightThreadsHolds`, `InStepHolds`, `ServerNeverHeldUpHolds`,
`OkMeansAppliedHolds` and the refinement `ImplementsService`. All have the
hypothesis `MaxCalls <= 1`: a client makes one call on its socket, as
`time_triggert_uds.c` does. Without it the statements about answers are false;
`sched_retry` is the counterexample to `OkMeansApplied`. (`OkMeansApplied` itself
is checked by no passing run: `sched_single` checks `ServiceSpec`, which says more.)
The inductive invariant adds

- `QueueOf`, `WorkOf`, `ClientOf`: of each client there is one request at a time;
  it waits in the server's queue, is in the server's hands, or is answered, and at
  each of these stages the answers in the client's queue and the elements applied
  are determined. A client that has given up or is gone may leave a request behind,
  but never a second one;
- `ToldInv`: what the kernel was told for the id of a thread is what its element
  says, all of it once the element is applied, the first of the two calls while the
  server is between them, until the id is given to another thread.

`RightThreads` depends on what `baa_unpack` leaves in `fiber_element`. The lemmas
on messages follow the two loops through the five letters of "cLLLL" and show that
the stores, of which each may overwrite the word behind its target, leave the
four values that were packed, on both widths of `long`. `ImplementsService` maps
every step: the second kernel call is the abstract `Apply`, the last answer or a
failure the abstract return, every other step a stutter.

`DeviceMgmtProofs`, for any finite set of clients, any scripts and any number of
duplicates: `TypeCorrect`, `AckedUnlessDuplicatedHolds`, `AtMostOnceHolds` and
`RebootConfirmedHolds`. Each rests on its own inductive invariant:

- `AckInv`: what is answered was received, and without duplicates a client has
  one datagram under way, which belongs to its latest command;
- `RebootInv`: the reboots not yet sent, on the wire, in the server's hands, with
  `init`, and done are together no more than the scripts and the duplicates allow;
- `SocketInv`: a reboot client uses a first socket for the reboot and a second one
  afterwards; an answer to the first was sent by a device that is about to run the
  command; the second exists only after the reboot, or on a device halted for good,
  or for a client that was refused or hasty; an answer to it was sent after a reboot
  or to such a client.

`RebootConfirmedHolds` has one hypothesis, `RebootFirst`: a script with a reboot
begins with it and goes on with another command, which is what
`udp_mgmt_reboot_client.c` does. Without a following command nothing would be
confirmed. The instance of `mgmt_all` satisfies it.

`DaytimeProofs`, for any number of clients, addresses and rounds, any streams and
any size of the buffer: `TypeCorrect`, `NothingLostHolds`, `LineShownHolds`,
`StoresInsideHolds`. The
inductive invariant says which sockets and alarms belong to each control point of a
client (`SocketOf`), what the server holds (`ServerInv`) and that no connection is
made twice (`ConnInv`), without which its descriptors could not be counted.
`Filled` is a recursive function. What it computes (`Buffer`: the characters
read, cut where the buffer ends) is proved without an induction rule: if it were
wrong for some number of reads there would be a least such number (`Least`), and
the turn of the loop before it gives the contradiction.

`CanProofs`, for identifiers, counters, filter lists and queues of any size:
`TypeCorrect`, `FiltersRespectedHolds` (about the list where its delimiter is
terminated in memory), `NoGapHolds`. `GapInv` adds to `NoGap` that
the telegram to be written next follows the last one in the queue or, when there
is none, the last one read, unless one was lost since (`Latest`).

The assumptions are the ones named `...Assumption` in the modules; TLC evaluates
them in each run.

Only model-checked: liveness, which TLAPS cannot prove here
(`EveryTimelyFiberRuns`, `MainSettles`, `EveryReleaseServed`, `CallReturns`,
`RequestServed`, `CommandReturns`, `ProcessSettles`, `ConnectReturns`, `Answered`),
and the counterexamples of the refuting runs; of `SharedMemory` there is nothing
else to say.

## Plan

1. "take the first valid one" (`src/network.c:312`), which the address loops do
   not do: a run that refutes it.
2. Theorems for clients that call more than once: `TypeOK` of `SchedProps`, and
   what is left of `RightThreads`.
3. What is true of two servers at a time (`UdsServer`): whose files remain when
   both have ended.

## Not modelled

- The connect branch of `uds_socket` and the unix stream sockets: no program uses
  them, and `baa_uds_stream_client` connects to a name it has itself removed.
- `baa_can_bcm_socket`: used by no program; it differs by `connect` for `bind`.
- Semaphores, `wrapper.c`, close-on-exec, capability and clock resolution: single
  system calls. Process, user and group information: look-ups and output.
- `error.c`: formatting. That `baa_*_exit` ends the process is part of the
  actions that call it.
- The functions of the schedule table, and the effect of priorities on which
  thread runs: every interleaving is allowed.
- `lcd160x.c`, `datatypes.c`, `sh_mq.c`: empty.
