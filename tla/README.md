# A TLA+ model of racccoon

racccoon is a preemptive microkernel for 64-bit RISC-V with user-space drivers
and file servers, and with a C library of its own for POSIX programs. This
directory models the part of the kernel on which everything else rests (message
passing, the scheduler on several harts, the supervision of the boot servers,
the ownership of memory) and the C library down to its conversations with the
kernel and the servers. TLC checks the modules on small instances; TLAPS proves
the main safety properties of the kernel modules, and of the C library's files,
streams, processes, threads and environment, for every number of processes, harts,
services, messages, files and threads, and every size of buffer.

Kernel paths below are relative to the kernel (`syscalls.c3` is
`src/src/syscalls.c3` in `PROJECT.json`), those of the C library to
`lib/racccoon-libc/src/`.

## 1. Inventory of the system

The kernel (about 9 600 lines of C3) is one program under one lock,
`kernel_lock`. Kernel code gives the lock up in `yield()` and, briefly, in
`kernel_lock_breathe`; between two such points it is atomic. The process table
is an array of slots; a pid is a slot number, slots are reused, and only the
pair (pid, `generation`) names a process. Most of what is hard in this kernel
is a consequence of these two facts: something is read before a `yield()` and
used after it, or a pid is remembered across the death of the process it meant.

The C library (about 8 700 lines with its headers) runs in each program. What is
hard in it is of another kind: one POSIX call becomes several requests to
servers, between which other programs run and servers die; a library table
stands for kernel state that fork copies, exec drops and the kernel reuses; and
loops over bytes meet limits (buffers, messages, tables) in the middle.

| Component | State it keeps | Operations | What makes it hard | What makes it correct |
| --- | --- | --- | --- | --- |
| IPC (`syscalls.c3`, `process.c3`, `entry.c3`) | per process: a one-message inbox, a FIFO of queued senders, the wait fields, the acknowledge / bounce / timeout / peer-died flags, the inbox reservation of a call, `call_seq`, `reply_owed_*` | `ipc_send`, `ipc_reply`, `ipc_call`, `ipc_recv(_gen)`, `ipc_poll`, the timeout sweep, `ipc_notify_peer_died` | four wait loops, each ended by several parties; a wake and the action it permits are separate steps; timeouts race answers; the peer may die and its slot be reused | no lost wake-up, only the called process can answer a call, a reply answers the right call, rendezvous is real, every call ends |
| Scheduler and SMP (`process.c3`, `smp.c3`, `entry.c3`) | `harts[]` (current, previous), `on_hart`, `kill_pending`, the holder of `kernel_lock` | `yield`, `switch_context`, `sched_after_switch`, `sched_check_kill`, `proc_destroy`, `create_process`, idle | the switch itself runs without the lock | a process is on one hart, is offered to others only with its registers saved, kills are not lost, round robin is fair |
| Supervisor and namespaces (`supervisor.c3`, `kernel.c3`, `syscalls.c3`) | the service table; the mount table of every process | `supervisor_tick`, `seed_default_namespace`, `reseat_namespace_mounts`; mount, bind, post | service pids go stale, slots are reused between ticks, a respawn may fail half-way | one instance per service, no dangling mounts, no hasty kill, a dead server comes back |
| Address spaces (`page.c3`, `process.c3`, `syscalls.c3`, `entry.c3`) | a page table per address space, `heap_top` per process | `rfork` (copy or `RFMEM` share), `exec`, `SYS_MAP`, page faults, exit | threads share a table and end in any order | no page used after it is freed, one owner per private page, nothing leaks |
| Shared segments (`segment.c3`) | named segments with reference counts, a global table of attachments | `segattach`, `segdetach`, duplication by `rfork`, clean-up by exit and exec | the counts are touched by five different paths | the count is the number of attachments; freed with the last |
| Page allocator (`allocation.c3`) | bitmap, rover | `alloc_pages`, `free_pages` | runs of several pages, wrap-around of the rover | no page handed out twice, a free run is found |
| Pipes (`pipe.c3`, `syscalls.c3`) | ring, reader and writer counts, owners | alloc, read, write, set-in/out, dup by `rfork`, close at exit | a pipe number is kept over `yield()` and has no generation | bytes in order, end-of-file when the last writer goes |
| Notes (`note.c3`) | a queue of notes and a handler per process | post, deliver, `noted`; interrupts waits | a full queue; a note racing a wake | a note to a waiting process ends the wait; a handler runs once per note |
| Locks and interrupt nesting (`spinlock.c3`) | lock word, nesting depth | lock, unlock, `irq_push_off`, `irq_pop_off` | a holder that is interrupted; migration between harts while nested | interrupts come back on with the last pop |
| Traps, boot, devices (`entry.c3`, `kernel.c3`, `device.c3`, `plic.c3`, `virtio.c3`, `kbd.c3`) | device ownership, keyboard ring | trap dispatch, interrupt hand-out | interrupts of a dead driver | a device has one owner |
| System library (`user/user.c3`) | none of its own | system-call wrappers, the 9p client | - | - |
| File systems (`user/fs/`) | fid tables, on-disk structures | attach, walk, open, read, write, clunk | clients that die with open fids | fids are released, metadata stays consistent |
| Network stack (`user/net/`) | conversations, parked reads, TCP control blocks, packet rings, leases | clone, control, listen, data; segments, timers | a conversation's number is reused; reads are answered later; loss and retransmission | a connection is handed out once; a reader sees data and the end |
| Drivers (`user/block`, `usb`, `wifi`, `cif`, `gpio`, `i2c`) | device registers | request and completion | hardware sequences | - |
| Small servers (`user/sys/`) | names, environment | request and reply | - | - |
| Shell and commands | - | sequential programs on top of the system calls | - | - |
| C library: files (`rc_posix.c`, `rc_fs.c`) | descriptor table: kind, offset, path | open, read, write, seek, truncate, dup, temporary files, directories, rename, poll | every call is a loop of requests; truncation deletes the file and makes it again | an undisturbed call acts as one step; no file is lost outside a truncation's window; loops end |
| C library: streams (`stdio.c`) | one buffer per stream, used for reading ahead or for pending writes | fopen, fgetc, fputc, fread, fwrite, getdelim, ungetc, fseek, ftell, setvbuf, freopen, fclose, exit | every change between reading and writing; failures in the middle of a flush | the stream is a sequence of bytes with a position |
| C library: processes and signals (`rc_proc.c`, `rc_signal.c`, `exit.c`) | the table of children, signal actions, `__rc_notify_on`, exit handlers | fork, exec, waitpid, system, exit, atexit, sigaction, kill | pids are reused, kernel records are overwritten, notes cut waits short, handlers change the tables that run them | a status is that of the child waited for; a handler runs once |
| C library: sockets (`rc_socket.c`) | descriptors naming ipd's conversations, a cached header flag | socket, bind, listen, accept, connect, send, recv, sendto, recvfrom, shutdown, close, look-up | peers act at any time; the tables of both sides run full; late answers | no conversation mislaid or handed out twice; results are what happened |
| C library: text and values (`string.c`, `wchar.c`, `printf.c`, `scanf.c`, `stdlib.c`, `time.c`) | none | pure functions | overlaps, limits, wrap-around | agreement with what the result means |
| C library: environment and start (`rc_env.c`, `libc_start.c`) | `environ`, its capacity | getenv, setenv, unsetenv, putenv, the argument block of exec | failing allocations half-way; limits of the start code | the environment is a map and survives exec |
| C library: threads (`rc_pthread.c`) | the current thread, where it exits to, mutex counts, keys | create, exit, join, detach, mutexes, conditions, keys | a thread runs inside `pthread_create` of its creator; a mutex keeps a count and not its holder | threads nest; a mutex that only its holders unlock has one; a new key has no old value |
| C library: memory, floating point, locale; language ports | - | taken over from elsewhere, or stubs | - | - |

How the parts meet:

* IPC uses the scheduler only through `state` (runnable or blocked) and
  `yield()`; the scheduler promises that a runnable process runs again
  (`RunnableRuns`), and that is the fairness the IPC runs assume.
* The timer drives both the IPC sweep (`entry.c3`, also from `yield()`) and
  `supervisor_tick`.
* `proc_destroy` is the meeting point of everything: it ends IPC waits of peers,
  detaches segments, frees the address space, and is called by exit, by kills,
  by page faults and by the supervisor.
* The supervisor judges a server by two fields that IPC keeps: `has_message` and
  `ipc_progress`.
* A namespace mount stores (pid, generation); name resolution compares both,
  IPC then re-checks the generation at the send.
* A POSIX call is one or more `ipc_call`s to a file server or to ipd. That such a
  call returns, with an answer or an error (`CallReturns`), is what lets the C
  library's modules treat one request as one step; that a dead server comes back
  (`DeadComesBack`) is their `ServerReturns`.
* Streams use `read`, `write` and `lseek` of the descriptor layer; processes,
  signals and `system` use rfork, join, exit records and notes; exec hands the
  environment to the start code of the next program.

## 2. Modules

| Module | Extends | Contents |
| --- | --- | --- |
| `Ipc`, `IpcProofs` | - | message passing, with its inductive invariant `IInv`; theorems |
| `Sched`, `SchedProofs` | - | scheduler on several harts; invariant and theorems |
| `Supervisor`, `SupervisorProofs` | - | service table, watchdog, mounts; invariant and theorems |
| `Memory`, `MemoryProofs` | - | pages, address spaces, segments; invariant and theorems |
| `Posix`, `PosixProofs` | - | descriptors, and the requests that each file call is made of; invariant and theorems |
| `Stdio`, `StdioProofs` | - | buffered streams; invariant, theorems and the proof of the refinement |
| `ByteStream` | - | what a stream promises; `Stdio` implements it |
| `Process`, `ProcessProofs` | - | fork, exec, wait, exit, signals, with the kernel's records and notes; invariant and theorems |
| `Socket` | - | sockets, with ipd's conversations and the network |
| `Text`, `Strings`, `Format`, `Address`, `Sort`, `Clock`, `Poll` | each other as needed | pure functions as operators |
| `Conversions` | those seven | one call of a pure function per behaviour, and what its result means |
| `Env`, `Threads` | - | environment and exec block; threads |
| `LibraryProofs` | `Env`, `Threads`, `Socket` | invariants and theorems of these three |
| `Library` | `Conversions`, `Env`, `Threads` | the parts that live in a program's own memory, composed |
| `MCIpc`, `MCSched`, `MCSupervisor`, `MCMemory`, `MCPosix`, `MCStdio`, `MCProcess`, `MCSocket`, `MCLibrary` | the module they instantiate | values of the constants for the runs |

Definitions whose comment begins "Mutant of" are altered forms of the definition
that follows them. They are used by no specification; `PROJECT.json` pairs each
with the property that notices the alteration.

### Ipc

One action is the code a process runs from its trap, or from the return of a
`yield()`, up to the next `yield()` or the return to user mode. `at[p]` says at
which `yield()` a process is parked: `"queue"` (waiting for its turn at the
inbox), `"ack"` (its message lies in the inbox), `"answer"` (phase 3 of
`ipc_call`), `"recv"`, or `"user"`. `Resume(p)` is the loop body that runs when a
woken process is scheduled again; `Send`, `Reply`, `Call`, `Poll`, `Recv` are the
system calls; `Sweep(D)` is the roughly once-a-second pass that times out the
calls in `D` and nudges queued senders; `PostNote` / `DeliverNote` are what notes
do to a waiter; `Destroy` / `Create` are the parts of `proc_destroy` and
`create_process` that touch IPC state.

The sender queues are the lists that the code threads through the process table:
`links` has `ipc_q_head`, `ipc_q_next` and `ipc_q_target` of every slot, and `Enqueue`,
`Remove` and `Walk` follow them with the code's guard of `PROCS_MAX` steps. A sender
that queues up on an empty slot therefore does in the model what it does in the
code, also when this links two queues; `links.crossed` is history and marks where that
happens (section 7).

Message bytes are abstracted away. A message carries who sent it, `msg_call_seq`,
and three history fields (`kind`, `to`, `ans`) that no guard of the code reads
and that the properties use. Calls that are refused by argument validation
(an invalid pid or buffer, a target that is not there, a self-send) are left out.
Which deadlines have passed is left open: a sweep may time out any set of calls
that wait.

A program is free to do anything within its constants: `Sends` and `Calls` say
who may address whom, `Mortal` who may die, `Notable` who gets notes, `Wildcard`
whose replies carry no expected generation.

### Sched

A hart is in one of ten modes (the header of the module lists them). The
interesting ones are `"saving"` (the lock is dropped, `switch_context` has not
stored the registers), `"after"` (on the new stack, `on_hart` of the old process
still set), `"spin"` (`proc_destroy` waits with the lock held for another hart to
finish its switch) and `"exit"` (the current process was just destroyed).
`run[h]` is the (pid, generation) whose registers the hart really holds and
`saved[p]` the context stored in a slot; `cur[h]`, `onHart` and `killed` are what
the code believes. Register contents, floating-point state and the timer's
rate are left out; a holder of the lock has interrupts off by construction.

### Supervisor

`supervisor_tick` runs under the lock from start to end; in the model it takes
one step per service, `turn` says which is next, and programs move only while
`turn = 0`. `Attend(s)` is the body of its loop: leave a given-up service alone,
look at the watchdog's fields, kill, give up, respawn, or fail to respawn.
`Deposit`, `Receive`, `TakeBack`, `Work`, `Exit`, `Fork`, `StartShell` are what
servers, clients and user programs do in between; `TakeBack` is a message that
leaves an inbox without the server having made progress (handed back, or
withdrawn by a timed-out call). A slot is the first free one, as in
`create_process`. `Mounted` are the services with a `mount_prefix`: `seed_default_namespace`
mounts no others, and its limit of `NS_MOUNTS_MAX` mounts is never met, as it is the
number of services there can be (`SVC_MAX`, 16 both). `quiet[p]` is a history variable: ticks since process `p` made
progress, counted independently of the watchdog's own fields.

### Memory

An address space is named by the page of its root table, as in the code, where
attachments and threads are matched by `page_table`. A segment and an image are
one page each and addresses count pages. A call that is refused (no memory, no
attachment slot, bad address) changes nothing and is no step; which pages are
picked is left open, because nothing depends on it. `lost` is a history variable:
private pages whose leaf was overwritten or cleared while they were still owned
(see section 7, threads and `heap_top`).

### Posix

`fdtab[p]` is the descriptor table; `call[p]` the call that `p` is in, with the
local variables that live across requests; `file`, `dir` and `up` are the file
server as the library meets it (external): it serves one request at a time,
accepts as many bytes as a message and the disk hold, lists entries page by page,
dies and comes back. One action is one request with the code around it. A path
may belong to a union, whose lookups and creations go to different members
(`Lookup`, `Create`), as `resolve_stripped` and `resolve_stripped_c` find them.

`opendir` asks whether there is such a directory (`DirStat`) and then for one page
after another, until a page is not full or `DirListMax` entries are there.

`CallIsAtomic` compares the whole loop with a one-step definition of each call
(`IsOpen`, `IsRead`, `IsWrite`, `IsTruncate`, `IsMktemp`, `IsMkdir`, `IsListing`)
whenever nobody else changed a file and no request failed while it ran.
`CallsProgress` gives each call a measure, `WorkLeft`, that every request
decreases whatever the others do: the loops end without any fairness.

### Stdio and ByteStream

A stream record holds the fields of `struct __FILE` and the bytes behind it: the
file and the descriptor's offset, or the memory of `open_memstream`. The functions
that loop over `fgetc` and `fputc` take a step per byte. Faults are a failing file
server and a failing heap; `fopen` with mode `w` that finds no memory has already cut the
file short, as `open` comes before `calloc`. `setvbuf` may come at any time, with bytes
pending too, which it writes first. It is left out after reading (what was read ahead is
lost) and where that flush fails (the count of pending bytes outlives the buffer).

`ByteStream` is the promise: bytes, one position, a pushed-back byte, no buffer.
`StreamsAreBytes` instantiates it three times (file, console, memory stream) and
every step of `Stdio` is a step of it or a stutter, which TLC checks on the run's
sizes and `StdioProofs` proves for all. The mapping is
`Content` and `Position`: the file with the pending bytes laid over it, and the
place computed from the descriptor's offset and the buffer's indices. `ByteStream`
says where the library promises less than a C program might expect (section 7);
the promise ends when the error indicator is set.

### Process

`proc[i]` is the process in slot `i`: its parent, notes, handler and, as `lib`,
the C library's state in its memory, which `Fork` copies and `Exec` replaces.
`ring` and `next` are the kernel's exit records. `Join`, `JoinInterrupted`
and `Deliver` are the kernel's side. `ended`, `born` and `forgot` are
history: who ended how, who is whose child, and the children that the library
lost by its own rules.

### Socket

`conv[c]` is a conversation of ipd with what the library can see of its TCP state;
`proc[p]` has the descriptors, the call in progress and the last result. A request
to ipd is one step. A read that finds nothing is parked and answered by
`PendService` with data, the end or a retry; the library's loops ask again. The
network (`Network`) delivers connections, bytes, FINs, resets and DNS answers at
any time, stray and late ones too; it models the wire and the peer, and is not
part of the source. ipd's `TCB_MAX` control blocks are not counted, as a connection that was hung up keeps
its block for as long as the peer pleases: `connect` and `announce` may find none at any
time (`block`), and then `connect` fails with port and peer already set and `announce`
leaves a listener that no connection reaches. Likewise the window decides whether all
bytes are on their way, so that the FIN can leave before they are acknowledged (`gone`).
Bytes are counted, not told apart; `gen`, `up`, `handed` and
`strayed` are history.

`gen` tells the uses of a conversation's number apart, which neither ipd nor the library
does. A descriptor that `dup` or `fork` copied keeps the number when the holder of the
other copy hangs up; `Reaches` sets `strayed` when a call that such a descriptor, or a
call in progress, names with an earlier use is let through to a later one (`Valid` is all
that ipd checks). From then on programs share a conversation that they do not know they share, and
`TablesAgree` and `ResultsAreTrue` claim less (section 7).

### The pure functions

`Text` (memory moves, searching, tokens, wide conversions, paths), `Strings`
(copying, comparing, filling), `Format` (strtoull, printf, scanf), `Address`
(quads, host and port, DNS messages, getaddrinfo), `Sort` (qsort, bsearch),
`Clock` (ticks and units), `Poll`. They are written as operators with the code's
own loops, indices and limits: `memcpy` goes by words of `Word` bytes, numbers
have `Width` bits, products wrap at `2^Bits`, path buffers hold `PathMax`. Two
numbers that differ only in their C type are one here, and the word size, widths
and limits are constants so that small inputs cross them.

`Conversions` performs one call per behaviour: `job` is the function with its
arguments, taken from `Jobs`, and `out` the result. Its properties say what a
result means without following the loop (a sorted permutation; what was printed is
read back; a canonical path; the first occurrence).

### Env, Threads, Library

`Env` is `environ` with its capacity, the calls that may fail for want of memory,
and `Exec`, which builds the argument block and lets the start code take it apart;
`means` remembers what each name was last set to. `Threads` keeps the stack of
threads that have begun and not ended, of which the top one runs; `holds` and
`fate` are history. A mutex is a count, so any thread may unlock one that is locked
(`rc_pthread.c:112`); `holds` has the threads that locked it and the mutexes that somebody else
unlocked. A key has one value, which all threads see (`rc_pthread.c:158`, `186`). `Library` composes them with `Conversions`: they share no
state, so a behaviour uses one of the three.

## 3. Runs

Runs that must pass:

| Run | Instance | What it shows |
| --- | --- | --- |
| `ipc` | 3 processes; two send to the third, all call in a ring; `p1` may die and gets notes; `p3` replies without a generation; with fairness | `NoLostWakeup`, `ReplyFromCallee`, `QueueOK` (until queues are linked through an empty slot), `SenderAwaitsAck` hold through hand-backs, timeouts, notes and a sender's death; `CallReturns`: every call ends, also calls in a cycle; `MissedWakeIsRescued`: the sweep finds the sender whose wake went to a dead one |
| `ipc_pairing` | two clients (one of them mortal) and a mortal server that answers each request before it takes the next; two calls each, two incarnations | `ReplyMatchesCall`: a late reply to a timed-out call is not taken for the reply to the next |
| `sched` | 2 harts, 3 slots of which 2 are in use at first; with fairness | `OneHart`, `FreeIsSaved`, `NotFreedInUse`; `KillTakesEffect`, `RunnableRuns` |
| `supervisor_respawn` | 2 services (one watched), 3 slots, 1 restart, 2 stall ticks | `TracksInstance`, `NoMountLeftBehind`, `WatchdogIsPatient`, `DeadComesBack` |
| `memory_ownership` | 6 pages, 3 processes, 2 segment names, 3 addresses, 3 attachments, symmetric in pages, processes and names | `NoUseAfterFree`, `SoleOwner`, `Accounted` (counts are exact and nothing but overwritten private pages leaks) |
| `posix_files` | 2 processes, a plain and a union path, 1 free descriptor, messages of 2 bytes, a disk of 5, listings of 2 entries, a server that dies once | `FilesKept`, `CallIsAtomic`, `CallsProgress` |
| `stdio_streams` | a file, the console and a memory stream; a buffer of 2 bytes; 5 calls; one failure | `StreamsAreBytes` (refinement of `ByteStream`), `BuffersHold`, `PromptLines` (through `setvbuf` with bytes pending), `ReadsWhatIsThere` (with room for the final zero) |
| `process` | 3 slots used twice, a table of 2 children, 1 exit record, 2 exit handlers, 2 notes, 5 calls | `StatusIsTheChilds`, `ChildrenKnown`, `HandlersRunOnce`, `TablesAgree` |
| `socket` | 2 processes, 2 conversations, 3 descriptors, 1 parked read, an accept queue of 1, 6 calls; a forking server, a client, a program with datagrams and names, one that copies datagram sockets | `NoConversationLost`, `TablesAgree` (until a call strays each connection is handed out once and header flags agree), `ResultsAreTrue` (send and connect always, DNS until a call strays), `EndIsSeen` |
| `library` | all small arguments of the pure functions; 5 calls on the environment; 8 calls of 3 created threads with a mutex of each type | `TextAgrees`, `FormatAgrees`, `ValuesAgree`, `EnvAgrees`, `ThreadsAgree`, `ExecHandsOver` |

Runs that must find a violation, each a disagreement between the code and a
comment in it (section 6): `sched_exit_reuse`, `posix_truncate`.

### Bounds and why they are enough

* `Ipc`: a race over one inbox needs its owner and two senders; a hand-back needs
  a sender, a receiver and the process the receiver calls. Three processes give
  both. `MaxOps` is the number of sends and calls of one incarnation (an answer
  to the previous call can only confuse the second, so two is the interesting
  value for pairing), `MaxGen` the number of incarnations of a slot (a stale
  reference needs two), `MaxPend` the number of unanswered requests a program
  holds (one is the discipline that the pairing of replies relies on; section 7).
  Replies and receives are not bounded.
* `Sched`: two harts are enough for every two-party race over a slot; three slots
  let each hart run a process with one more to pick. In `sched` the third slot is
  created while others exit; in `sched_exit_reuse` a slot is used twice, under a
  hart that is still leaving it. The theorems hold for any number of incarnations.
* `Supervisor`: two services and one more slot, so that a respawn can land in a
  free slot, in another service's old slot or nowhere. `StallLimit` 2 makes the
  counter visible. `MaxGen` bounds only the incarnations that user programs use
  up; respawns are bounded by `RestartLimit`.
* `Memory`: six pages give two address spaces with an image and two more pages,
  or three small ones; three attachments with two segments make the table run
  full in the middle of a fork.
* `Posix`: counts of 0, 1, 3 and 6 bytes against messages of 2 and a disk of 5 give
  an empty call, a short last message, and a disk that is full in the first or a
  later message. One page of a listing holds one entry, so a listing of two takes
  three requests, the first of them the question whether the directory is there, and ends at
  `DirListMax` = 2. The second process truncates or removes at any point of the
  first one's call. Two calls leave an offset for the second to start from.
* `Stdio`: three bytes in a file with a buffer of two put the buffer's end inside
  the file; five calls suffice for open, write, seek, read, push back. `setvbuf` gives
  the program's own buffer of `Sizes` = 1 byte, and `Largest` is the largest buffer of
  all. `Counts` are 2 and 3: fewer bytes than a buffer and one more, of which `fgets`
  takes one less (a count of 0, and of 1 for `fgets`, returns before the loop and
  changes nothing). `Offsets` reach one byte to either side. The theorems
  hold for all values of these constants.
* `Process`: three slots used twice give a parent two children under one pid; with
  one exit record the second failure overwrites the first; a code of 257 is not
  its low byte.
* `Socket`: with two conversations the table is full as soon as a listener has a
  connection and something else wants one. The kind of program is chosen at the
  start, so that six calls reach deep into each kind: socket, dup, close, socket
  and a call through the copy already make a call stray. The theorems hold for all
  values of these constants.
* `Library`: alphabets hold one member of every class that a loop tells apart,
  lengths cross every limit by at least one, `Word` is 2 and numbers have 8 bits.
  An array of eight reaches both halves of the quicksort above `Short` = 3.

`CHECK_DEADLOCK FALSE` stands where programs may use up their operations and rest:
in the `Ipc` runs (all may wait in `ipc_recv`), in those of the C library (a
program has made its calls, a thread waits for a mutex whose holder cannot run),
and in `SchedExitReuse.cfg`, where the state after the overwritten context is not
worth continuing. `sched`, `supervisor_respawn` and `memory_ownership` check for
deadlock.

### Fairness

* `Ipc!FairSpec`: a process that is runnable in a kernel wait is resumed
  (`RunnableRuns` of `Sched` is the justification), and a sweep that finds all
  overdue calls happens (it is driven from `yield()` and from the timer interrupt,
  so it runs whether the machine is busy or idle). Programs owe nothing: a server
  may never receive and never answer.
* `Sched!FairSpec`: weak fairness for the steps inside a switch and for leaving
  the kernel, because a hart executes its instructions; strong fairness for
  taking `kernel_lock`, because the others release it again and again, and for
  `Yield`, because the timer interrupts every hart again and again.
* `Supervisor!FairSpec`: ticks start and come to their end; a respawn that is
  possible again and again succeeds at last (running out of memory is not a
  permanent state). `DeadComesBack` in addition presumes that from some point on
  a slot is free; with the table full for good the supervisor cannot help.
* `Socket!FairSpec`: a process inside a library call goes on (it is runnable; see
  `Sched`), and ipd's loop comes round to its parked reads. Programs and the
  network owe nothing.
* `Posix` needs none: `CallsProgress` is a measure that decreases with every
  request, and that the requests themselves return is `CallReturns` of `Ipc`.

## 4. What is proved

Eight modules hold theorems. Each follows the same plan: an inductive invariant, a
lemma per action (or per kind of step) that it is preserved, and the named property
as a consequence.

**`IpcProofs`** - for every finite set of processes, every program behaviour, and all
bounds. Assumptions: `None` is no process, programs do not address their own
slot, the bounds are naturals. Theorems `TypeCorrect` (`TypeOK`), `WakeupsKept`
(`NoLostWakeup`), `InboxReserved` (`ReplyFromCallee`), `Inductive` (`IInv`).
`NoLostWakeup` is not inductive by itself: that a store wakes the right process
follows only if the wait fields of a process in a loop are those of its own
message. `IInv` adds this (`OpInv`): parked in a wait loop exactly with the
`wait`, `out` and reservation that the system call set up, and outside with none;
and `SendersOK`, that messages come from other slots, so that a process does not
wake or acknowledge itself.
`QueuesAgree` is `Spec => []QueueOK`, which speaks of the code's own lists: until two senders
have been linked through an empty slot (`links.crossed`), the walk along a queue ends, meets
each sender once and only those that wait for the slot's present process, and every
such sender is met. What happens without that condition is in section 7. The proof shows that
the links hold some queues as sequences (`QInv`), what `ipc_q_enqueue` and `ipc_q_remove` do to those
(lemmas about `Walk`, appending and unlinking), and that nobody waits for an
incarnation yet to come (`WaitPast`): a queued sender's target is then the present
occupant or gone.
`Rendezvous` is `Spec => [](NoReuse => SenderAwaitsAck)`: as long as every slot has
its first occupant, a message in an inbox is the outstanding message of a live sender
in its acknowledge loop. The hypothesis is what section 7 shows to be necessary. The
strengthening says that a queued send has not been handed back (`HeldBack`) and that
whoever was told of a peer's death waits on an empty slot.
`RepliesMatch` is `Spec => [](OneInHand => ReplyMatchesCall)`. `OneInHand` is a
condition on the environment, as `reply_owed` has room for one request (section 7):
servers hold at most one request, answer who asked (not any incarnation of its slot),
and neither call nor send; clients only call, and others only send. The run `ipc_pairing` is
such an environment; deaths, reuse of slots, timeouts and notes are not restricted. The
strengthening (`PairInv`) follows a request: while its caller waits it is in one place, the
server's inbox or the server's hand, and the reply comes in its stead (`Once`); what the
server holds is what `reply_owed` says (`InHand`), so a reply that is no longer waited for is
dropped; a reply that is waited for passes the reservation at once and never queues (`Prompt`); and
no message or request is younger than its sender's last call (`Came`), so a new call's number
occurs nowhere.

**`SchedProofs`** - for every set of harts, every number of slots, of processes at
boot and of incarnations. Assumptions: the boot hart is a hart, `None` is neither
hart nor slot, there is a slot. Theorems `TypeCorrect`, `OneHartEach` (`OneHart`),
`SavedBeforeFree` (`FreeIsSaved`), `NoFreeInUse` (`NotFreedInUse`), `KillsKept`
(`KillIsNear`: a process marked for a kill is current on a hart that has yet to
pass `sched_check_kill`), `Inductive`. `TypeOK` and `KillIsNear` have no run of
their own: the theorems cover them, and `KillTakesEffect` is the stronger claim.
The invariant says what each mode of a hart means for what the others see: the holder of the lock is the one hart in a locked mode
(`Mutex`); a hart's current process bears its mark `on_hart` (`Mark`) and exists
unless the hart has just destroyed it (`LiveCur`); the registers are those of the
current process, or of the one being left until they are saved (`RunCur`); the
process being left keeps the mark until then, as long as its slot has not been
reused (`Leaving`); no context is younger than its slot (`Gens`); a spinning
destroyer waits for a process (`Victim`). `OneHart` follows from the mark being a
function of the slot. It is not inductive, because `SwitchContext` and
`AfterSwitch` run without the lock and touch slots that may have been reused;
`Mark`, `Leaving` and `Gens` together tell that those stores do no harm to it.

**`SupervisorProofs`** - for every number of services, slots, limits. Assumptions:
there is a service and there are more slots than services, the stall limit is
positive, watched and mounted services are services.
Theorems `TypeCorrect`, `NoDuplicates` (`TracksInstance`), `Patient`
(`WatchdogIsPatient`), `Inductive`. The invariant adds that instances named by the
table are no younger than their slot and run the service if they are up
(`Instances`), without which a later occupant of the slot could match a stale
entry, and the relation between the
watchdog's counter and the real silence of the server (`Patience`): as long as
the progress counter has not moved since the last sample, the ticks counted in
`stall` are ticks that the server was quiet. `WatchdogIsPatient` is an action
property and follows from `Patience` in the step that kills. `MountsFollow`
(`NoMountLeftBehind`) rests on `MountsAnswered`: every mount of a live process names the slot
of some service's entry and, if that service is up, its very instance (`Answered`).
This is kept although `seed_default_namespace` and `reseat_namespace_mounts` compare
pids alone: a service that comes up re-points every mount with its old pid, also one
that meant another service.

**`MemoryProofs`** - for every finite set of pages and of segment names, any set of
processes, any number of addresses and of attachment slots. Theorems `Ownership` (`IInv`),
`UseAfterFreeImpossible` (`NoUseAfterFree`), `PrivatePages` (`SoleOwner`),
`PagesAccounted` (`Accounted`). None of the three properties is inductive. A page that
`rfork` picks must have no leaves left over (`DeadEmpty`); an attachment must not
outlive its table (`AttLive`), or the next owner of that page would inherit it;
segments are pages of their own (`SegApart`); a leaf that exit will not free is backed
by an attachment of that table (`SharedAttached`), so that a segment freed with its
last attachment is mapped nowhere; counts are the cardinality of the attachments
(`Counted`); and every page is in one of the five classes (`EachPage`). The steps that
give back pages distinguish whether the table has another user, as the code does.

**`PosixProofs`** - for any number of processes, paths and calls, all sizes of messages,
pages, tables and the disk. Assumptions: finitely many files, of which those at the start
fit the disk; limits are positive. Theorems `FilesHold` (`PosixInv`), `NoFileLost`
(`FilesKept`), `LoopsEnd` (`CallsProgress`). `StateOK` gives each request of each call
the set of records that its local variables can form (`ReadRec`, `CutRec` ...) and how
far its loop has come (`Within`); `DirOK` says that the directory lists each file once,
without which the measure of `opendir` could run out before its loop ends. The argument for `NoFileLost` is
`Guarded`: the only request that takes a file away without being asked to opens the
window of a truncation of that file, and the window ends with the file made again, or
with an error or a kill, which `cut` records. It holds for each process separately,
hence for any number of truncations at once. `LoopsEnd` is the measure `WorkLeft`: a
request that transfers nothing ends its loop, and every other lowers the measure. It
turns termination into an action property, which needs no fairness.

**`StdioProofs`** - for all sizes of buffers, of the file and of the disk, all texts and
any number of calls and failures. Assumptions (`ConstantsOK`): buffers have at least one
byte, texts are not empty, and `NL` is one of the bytes that are written. Theorems `StreamsHold`
(`StdioInv`), `BuffersAlwaysHold` (`BuffersHold`), `LinesArePrompt` (`PromptLines`),
`LoopsReadWhatIsThere` (`ReadsWhatIsThere`) and `StreamsImplementBytes`
(`StreamsAreBytes`, the refinement of `ByteStream`).
None of the four is inductive: `BuffersHold` does not say where the bytes of the
buffer belong, and the properties about bytes do not say where the descriptor is.
`StdioInv` has three layers. `Held` is what every open stream keeps to, failures or not:
indices inside the buffer, nothing pending in an unbuffered stream, the offset at the
end of the memory or of the console, room for the final zero. `Sound` is what holds as
long as the promise lasts: bytes are pending only when nothing is read ahead and the
descriptor is inside the file; the bytes read ahead are those just before the descriptor's
offset (`ReadAhead`), so that `drop_read` can go back over them; the stream's `pos` and
the descriptor's offset differ by what is read ahead, wherever `ftell` is exact; no
newline is pending when lines are buffered. `CallOK` follows a call that loops over
`fgetc`: what it has read so far, followed by what is left to read, is what there was
when it began (`HalfRead`), and its buffer has room for one byte more than that.
The operators are done first, each as a lemma about any stream that satisfies `StreamOK`
(`flush_write`, `drop_read`, `refill`, `fgetc`, `fputc`); then one lemma per call gives
`StdioInv'` and a step of the abstract stream at once (`Sees`), from one argument
that a call changes one stream only (`Focus`). `ms_append` doubles the memory until the
bytes fit: that the doubling function `Turns` exists is proved by taking the least
number for which it would not (`TurnsDef`), and so is that the loop ends (`DoubledFits`).

**`ProcessProofs`** - for any number of slots, incarnations, children, handlers, notes and
calls. Assumptions: slots are numbered from 1, there is at least one exit record and
one incarnation. Theorems `ProcessesHold` (`ProcInv`), `TablesKeepAgreeing` (`TablesAgree`),
`HandlersAllRun` (`HandlersRunOnce`), `ChildrenStayKnown` (`ChildrenKnown`). Two arguments meet.
For each process alone (`ProcOK`): every exit handler ever registered is in the table
or has run, and none ran before a later one that was there at the time (`HooksOK`), which
holds through handlers that register handlers or call `exit`; a one-shot handler that is
installed has not run, unless it is the one running (`OneShotOK`). Between processes: no process has a child of a generation that
its slot has not reached (`BornBefore`), so a new child differs from all that were
before it under the same pid, and the table of children stays free of duplicates and
complete (`Known`).
`StatusIsRight` (`StatusIsTheChilds`) rests on a second invariant, `RecordsHold`
(`RecordInv`): every incarnation of a slot lives or ended exactly once; a child has one parent, and
the kernel knows it while the child has its slot, so a child's failure is always recorded; a record in
the ring carries its process's code, and at least as many failed after that process as
records were written after it (`Age`). So when a record is overwritten, as many failed
since as there are records, and what `waitpid` finds for a child that a parent can still
ask for is its code, or nothing for this reason or because it ended with 0 (`RecordsKept`). Records that
are taken, the ring's turn, and slots used again all preserve this; most steps only
shrink tables of children and are done by one lemma (`CalmKeeps`).

**`LibraryProofs`** - `Threads` and `Env` share no state, so each has a specification
of its own there (`ThreadSpec`, `EnvSpec`), with the initial condition and the steps
that `Library` uses. Theorems `ThreadsHold`
(`ThreadInv`), `ThreadsKeepApart` (`ThreadsAgree`), `EnvHolds` (`EnvInv`), `EnvIsAMap`
(`EnvAgrees`), `ExecKeepsOrder` (`ExecHandsOver`).
For threads: the saved frames of `pthread_create` are exactly what the stack of running
threads says of the current thread and of where it exits to (`Nested`), records hold what
their threads ended with (`Results`), and a mutex counts its locks (`Counts`), which are those
of the threads that hold it until somebody else unlocks it; for any
number of threads, mutexes and keys. That a mutex which is not recursive is locked once at
most holds always, that its one lock is the present holder's only until then: any thread may
unlock it.
For the environment: every name is there once (`Once`), and what the names mean is a
function of the array (`means = Meaning(environ)`), in an array with room for its
terminator. Assumption: names have no `=`, as `setenv` and `putenv` arrange
(`rc_env.c:123`, `155`, `175`), and no name is twice in the environment a program starts
with, which `unsetenv` would otherwise only half remove (section 7).
For exec: the lemmas about the block say what the start code finds at each place
of it, for any limits of either side.

For sockets: any sets of processes, ports, names and kinds of programs, any number of
conversations and descriptors, all sizes of buffers, queues and of the table of parked
reads. Assumptions (`ConstantsOK`): 0 is neither a process nor a port, a process has at
least one descriptor, the bounds are naturals. Theorems `SocketsHold` (`SocketInv`),
`TablesHold` (`TablesAgree`), `ConversationsAreKept` (`NoConversationLost`) and
`SocketCallsReport` (`ResultsAreTrue`).
None of the three properties is inductive. `SocketInv` has a part that holds always and one that
holds until a call strays. Always: a descriptor or a call in progress names a use
that its conversation's number had or has, and if it has it, the protocol is the descriptor's
(`Named`); a call works on what a descriptor of its process names (`HasFd`); and the
*owner* of a conversation that was handed out has the descriptor for it or is about
to hang it up (`Kept`), which is more than `NoConversationLost` asks, and what a
close through somebody else's copy and the reaping of dead owners preserve. Until a call strays: a connection
in an accept queue has been handed out to nobody, belongs to the listener's owner and is in one place of one
queue (`Queued`), so that `accept` never gives out what a descriptor names already
(`Single`); and a lookup's conversation is its own, at a port that no earlier query
came from (`Lookups`), so that an answer with the same id is one to the question.
Most steps change one conversation and one process in a way that none of this can
tell: `QuietConv` and `QuietProc` say what such a change is and `QuietAt` does the
preservation once. What is left is the five ways to gain or lose a conversation or a
descriptor: a fresh one, `accept`, hanging up (`HangStep`, with the parked reads that it
answers), copies (`ShareStep`), and a connection that the network queues.

## 5. What is only model-checked

* Liveness (`CallReturns`, `MissedWakeIsRescued`, `KillTakesEffect`,
  `RunnableRuns`, `DeadComesBack`, `EndIsSeen`): the prover does not handle
  fairness and `ENABLED`.
* `SenderAwaitsAck` is proved until a slot is reused and is false after that;
  `ReplyMatchesCall` is proved under `OneInHand` and is false for servers that hold two
  requests or processes that call each other (section 7).
* `CallIsAtomic`: relates the end of a loop to the state in which the call began, so an
  invariant would have to say for every request what the loop has done so far.
* The pure functions. `Text`, `Strings`, `Format`, `Address`, `Sort` and what extends
  them use `RECURSIVE` operators, which the prover does not handle, and what a
  recursive definition computes for every input is out of its reach anyway.

## 6. Findings

Two places where the code does something other than a comment in it says. The
run shows the shortest such behaviour.

* `sched_exit_reuse`: `yield()` of a process that has just exited drops the lock
  while its slot is unused and before its registers are saved
  (`process.c3:1578`); `create_process` (`process.c3:1243`) does not look at
  `on_hart`, so the new process's stack pointer may be overwritten with the dead
  one's. `OwnContext` is the property; `FreeIsSaved` and `OneHart` hold even so.
* `posix_truncate`: `ftruncate` reads the bytes that are to stay in a loop, deletes
  the file and puts them back with one write, which stores at most one message
  (`rc_posix.c:486`, `rc_fs.c:147`). A file shrunk to more than that is cut to one
  message, and the call fails with `EIO`. The comment at `rc_posix.c:454` says that
  shrinking keeps the first `length` bytes. `TruncateKeeps` is the property;
  `CallIsAtomic` claims the rest of what a truncation does.

## 7. Further observations

Met while modelling; not runs of their own.

Kernel:

* One `reply_owed` slot per server pairs replies with calls only if a server
  answers each request before it receives the next (`syscalls.c3:1307`; the comment
  at 1472 is about one request). With `MaxPend = 2`, `ReplyMatchesCall` fails.
* `sys_ipc_recv` acknowledges whoever occupies the slot `msg_from` names
  (`syscalls.c3:1775`). If the sender has died and its slot has been reused, the
  successor's own `ipc_send` returns with its message unread; the comment at
  `syscalls.c3:1403` promises a true rendezvous. `SenderAwaitsAck` is checked
  without reuse of slots and proved for all states up to the first reuse.
* `sys_ipc_call` empties its inbox and marks the sender bounced; the acknowledge
  loop of `sys_ipc_reply` (`syscalls.c3:1525`) does not look at the mark, so a reply
  that lay there is gone. The comment at `syscalls.c3:1588` says it is delivered
  again.
* When the head of a sender queue is killed, the next sender is not woken
  (`syscalls.c3:261`); the sweep does it (`entry.c3:597`). `NoLostWakeup` leaves
  this wait out and `MissedWakeIsRescued` covers it.
* The redelivery loop queues a sender on its target's slot again without asking
  whether the process there has died meanwhile (`syscalls.c3:1366`, `1623`).
  `ipc_q_enqueue` then notes `ipc_q_target = 0`, the pid of an empty slot, so
  `ipc_q_remove` does not look for the sender (`syscalls.c3:1240`): it leaves its call,
  and the empty slot's `ipc_q_head` keeps naming it. Let `t` hand back the messages of `h`
  and of `q` and die. `h` is queued on the empty slot, leaves with -1, and queues on a live
  process `u`. When `q` is queued on the empty slot, it is linked behind `h`, which is in
  the queue of `u`, and is never unlinked there: when `h` has been served, `q` heads the
  queue of `u` without waiting there, so that those behind it wait until `u` dies or their
  call times out. The comment at `syscalls.c3:1235` calls the unlinking harmless when the
  target has died. `QueueOK` holds until a sender is so linked behind another
  (`links.crossed`), and `NoLostWakeup` leaves out those that wait for their turn in a queue.
* A reply that is queued when its requester dies can be taken by the slot's next
  occupant if that one calls the replier: the queue loop tests `ipc_can_deposit`
  before `ipc_peer_gone` (`syscalls.c3:1495`).
* Two processes that call each other take each other's request for the reply
  (`syscalls.c3:1709`). `ReplyFromCallee` holds; `ReplyMatchesCall` is checked for
  programs without mutual calls.
* The scheduler's scan restarts at slot 1 after an exit (`process.c3:1519`), so
  processes that keep exiting and being recreated in low slots could starve a high
  one. `RunnableRuns` is checked with finitely many incarnations and does not cover
  this.
* The watchdog takes an empty inbox for readiness (`ever_ready`) also before the
  server's first `ipc_recv`.
* `seed_default_namespace` (`supervisor.c3:178`) combines the pid of a dead service
  with the generation of whoever has the slot now, so a mount may lead to a
  stranger; the comment at `syscalls.c3:1338` excludes it. `reseat_namespace_mounts`
  compares the old pid alone (`supervisor.c3:200`).
* The tick may kill the current process and respawn a later service into its slot;
  the caller's `yield()` then saves the trap context there (`supervisor.c3:326`).
* `RFMEM` threads share a page table and have a `heap_top` each: `SYS_MAP` and
  `segattach` of one may overlap what the other has in use, and private pages are
  then lost (`syscalls.c3:569`). `Accounted` sets these pages apart.
* `sys_segdetach` flushes only its own hart's translations (`segment.c3:240`).
* An exiting process frees the root table its hart still translates through before
  it gives the lock up (`syscalls.c3:297`).
* A full queue of notes drops what is posted, a kill among it (`note.c3:51`).
* A blocked pipe read or write keeps a pipe's number without a generation
  (`syscalls.c3:3453`); `SYS_PIPE_SETOUT` with the pipe a process already holds alone
  frees it first (`syscalls.c3:3427`).
* A free run of pages that lies across the allocator's rover is in neither of its
  two scans (`allocation.c3:164`).

C library, files and streams:

* `O_EXCL` asks and creates with two requests, so two creators may both succeed;
  `CallIsAtomic` claims exclusivity only while nobody else changes files.
  `O_TRUNC` deletes and makes the file anew; in between it is not there. The offset
  of an appending descriptor is set once, when it is opened, and copies made by
  `dup` have offsets of their own. In a union, deletion goes to the first member
  and creation to another.
* `rc_at_path` accepts 255 characters, of which `__rc_abspath` keeps 127.
* `poll` waits for descriptor 0 alone and calls every other one ready, so with any
  other descriptor in the set stdin is never reported. Its ticks round down when the
  rate is no multiple of 1000.
* A flush that fails half-way keeps all bytes pending and writes them again; put
  after that, bytes may run past the buffer. `refill` and `freopen` ignore a failed
  flush. `fseek` with `SEEK_CUR` counts from the descriptor's offset, which reading
  ahead has moved. `exit` flushes the standard streams only. `ByteStream` names
  these as the limits of its promise. `setvbuf` drops what was read ahead, and when
  its flush fails it keeps the count of pending bytes for a buffer that has none of them.

C library, processes and the rest:

* A `waitpid` that a note interrupts reports status 255 and forgets the child.
  `system` may return the status of an older child whose slot its child has. A full
  table of children forgets the new one.
* `connect` takes `Close_wait` for a refusal. Closing a copied or inherited socket
  hangs up for all (`manual.md:1515` and `1676` say as much). `dup2` over a socket and
  closing a listener leave conversations behind until the owner exits.
* A descriptor keeps its conversation's number without a generation, so a copy that
  outlives a hang-up reaches whatever ipd gave the number to next (`net_parse` asks only
  for the protocol). The proof of `TablesAgree` met what follows from it: an `accept`
  through such a copy takes a connection out of another program's queue, and that
  connection may then have two descriptors; a `recvfrom` switches a conversation to headers whose
  owner's flag does not know; a `bind` or `connect` moves a lookup in progress to another
  port, where an answer to an earlier question may be taken for its own. Some of these
  take ten calls. `strayed` marks where they begin.
* `unsetenv` removes the first entry of a name only, and a string given to `putenv`
  may be freed by a later `setenv`. With more than 64 arguments, or none, the
  environment is not handed on.
* `sleep` multiplies in 32 bits (`rc_posix.c:511`). `gettimeofday` and
  `clock_gettime(CLOCK_REALTIME)` differ by `RC_FIXED_TIME`, and `time` is constant.
  `strtol` wraps instead of clamping, so a service of `2^64 + 80` is port 80. `%.0d`
  of 0 prints `0`. `execvp` skips empty components of `PATH`.
* A mutex does not know who locked it: a recursive one is granted to a thread that its holder
  creates, and any thread may unlock any mutex, after which two believe to hold it
  (`OneHolder` ends its promise there). A key has one value for all threads. `pthread_detach` of the running thread frees the record that its
  end still writes.
* The comments on `rc_malloc.c`, at `rc_socket.c:83`, and at `pthread.h:7` (that
  `pthread_create` aborts: it runs the thread at once) describe earlier versions.

## 8. Not modelled

* Boot, traps in assembly, device registers and the drivers: hardware sequences.
* Page-table encoding, permissions and translation caches.
* On-disk formats and the file servers' fid tables; `Posix` has the servers'
  answers only. TCP on the wire, packet rings and DHCP; `Socket` has the peer's
  visible acts only.
* Pipes, the allocator's bitmap, the lock's interrupt nesting, the namespace system
  calls and the device hand-over. They are within TLC's reach; the kernel modules
  assume what these parts promise (a free page, a lock that excludes).
* The allocator `dlmalloc`, the floating-point conversions and `math.h`: taken over
  from elsewhere, and sequential code over bit patterns that TLC cannot enumerate.
* Functions that answer with a constant (locale, wide character classes, chmod and
  the like, alarm, popen, glob); queries that change no state (stat, access,
  fcntl); the signal mask, which is kept and never consulted.
* The shell, commands, language ports: sequential programs. Cryptographic
  primitives.

`PROJECT.json` lists every component with its status, and under `hazards` the
places that are hardest to test, with the property that covers each or the reason
why none does. Five of them are known to go wrong, or do so by design, and are told in
section 7 instead: mounts re-pointed by pid alone (`supervisor.c3:200`), `O_EXCL` in two
requests (`rc_posix.c:118`), an interrupted `waitpid` (`rc_proc.c:250`), two children under
one pid (`rc_proc.c:242`), and the root table of an exiting process (`syscalls.c3:297`). Hazards of the same kinds that are not in that list are those of
section 7 and the limits named with the runs in section 3.

## 9. Plan

Done, all with proofs: the kernel's concurrency (`Ipc`, `Sched`, `Supervisor`) and
`Memory`, and of the C library `Posix`, `Stdio` with its refinement of `ByteStream`,
`Process`, `Socket`, `Env` and `Threads`. `Conversions` is model-checked. Next: pipes
with reuse of their numbers, the allocator's rover, and a module over `Sched` and
`Memory` for the root table of an exiting process.
