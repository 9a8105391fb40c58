# IVOS in TLA+

Models, model-checking configurations and proofs for the programs of this
repository. The reference is the source: every definition names, in
`PROJECT.json` under `map`, the lines it translates.

## 1. The system

The repository holds three programs that share nothing.

| Component | Source | State | Operations |
|---|---|---|---|
| Green threads | `scheduler/gthr.c`, `gthr.h` | `gt_table` (state, priority, skip_count, tickets, saved context, statistics of each thread), `gt_current`, `get_next_thread`, `total_tickets` | `gt_init`, `gt_create`, `gt_return`/`gt_stop`, `gt_schedule` with `round_robin`, `round_robin_prio`, `lottery`; `SIGALRM` and `SIGINT` handlers |
| Context switch | `scheduler/gthr_switch.S` | registers, `struct gt_context` | `gt_switch` |
| Semaphore | `scheduler/g_semaphore.c` | `value`, `queue` | `sem_init`, `sem_wait`, `sem_post`, `sem_destroy`, `sem_try_wait` |
| Queue | `scheduler/g_queue.c` | singly linked list, `head`, `tail` | `queue_init`, `queue_push`, `queue_pop`, `queue_is_empty` |
| Statistics | `gthr.c` 36-99, 102-314, 347-387 | `timeval` totals, minima, maxima, running averages | `update_thread_state`, `update_running_stats`, `gt_print_stats` |
| Demo program | `scheduler/main.c` | one semaphore, four threads running `f` | `main`, `f` |
| HTTP server, processes | `http_server/core/Server.cpp` | listening socket, `/available` and `/logger` message queues, a socket pair per worker, `_should_stop` in each process | accept loop, `send_fd`/`recv_fd`, worker loop, logger loop, shutdown |
| HTTP server, connection | `http_server/http/*` | TLS session, buffers, `_is_open`, the request's fields | `receive_headers`, `handle_post`, `execute_script`, `send`, `close`, `parse` |
| HTTP server, logging | `http_server/logging/*` | list of loggers, a stream each | `log`, `add_logger` |
| FAT16 reader | `fat/fat.c`, `fat_helpers.c` | `current_directory_entry`, `current_directory_offset`, `root_directory_offset`, the prompt's path; a read-only image | `ls`, `cd`, `read`, `tree`, `info` |

How they interact:

- `SIGALRM` arrives every 500 us and its handler calls `gt_schedule`, so every
  thread can be interrupted wherever it does not mask the signal. `gt_schedule`
  calls the algorithm through a pointer, updates two table entries, moves
  `gt_current` and switches stacks; the interrupted thread continues inside its
  own handler when it is chosen again.
- The semaphore works on the scheduler's table: `sem_wait` marks `gt_current`
  Blocked, `sem_post` marks the first of the queue Ready. Both mask `SIGALRM`.
- `main` creates its threads before the timer is armed (by the first
  `gt_schedule`), and then yields in `gt_return` for ever.
- The HTTP parent takes the pid of a free worker from `/available`, passes the
  accepted descriptor over that worker's socket pair and goes on accepting. A
  worker serves the connection until it closes and announces itself again. All
  processes log through `/logger`. On `SIGINT` the parent closes the pairs,
  sends `SIGQUIT` to the workers one after the other and waits for each.
- The FAT reader is sequential: the hazards are in long command sequences and in
  the arithmetic on clusters and offsets.

What is hard here: preemption between any two instructions, a "blocked" thread
that still executes, loops that end only because some thread is Ready,
starvation under priorities; in the server lost signals, blocking on full or
empty message queues, descriptors shared across `fork`, leftovers of a crashed
run. `PROJECT.json` lists each hazard at its line.

What makes each part correct:

- *table and scheduling*: one Running thread, the executing one; an ended thread
  never runs again; a search always finds somebody; no Ready thread starves;
  lottery tickets are disjoint;
- *semaphore*: no permit lost or invented, the queue and the Blocked threads
  agree, first come first served, nobody waits for ever, no more threads in the
  section than permits;
- *queue*: one chain from `head` to `tail`, nothing leaked; it is a FIFO sequence;
- *statistics*: running plus waiting time is the time since creation, all threads
  together run no longer than the program; minimum and maximum fit the totals;
- *connection*: sessions are freed once, answers fit requests, uploads are stored
  whole, a keep-alive connection stays in step, nobody waits for one who waits (but
  after an answer that SIGQUIT has cut off, see section 3);
- *logging*: no sender waits for a logger that has ended;
- *server*: a worker serves one connection at a time and is announced exactly
  when it is free; every accepted connection is answered; shutdown ends;
- *FAT reader*: commands see the directory `cd` has selected; walks end.

## 2. Modules

| Module | Models |
|---|---|
| `Gthr` | the table, `gt_init`, `gt_create`, the three algorithms, `gt_schedule` |
| `GSemaphore` | `sem_init`, `sem_wait`, `sem_post` over a FIFO sequence; extends `Gthr` because the operations write the table |
| `GthrDemo` | `main.c`: the initial thread, the threads running `f`, the alarm; the properties of scheduler and semaphore |
| `GQueue` | `g_queue.c`: cells, pointers, allocation |
| `GthrList` | `GthrDemo` with the semaphore's linked list; implements `GthrDemo` |
| `GthrStats` | `GthrDemo` with the statistics of `update_thread_state`, over a clock |
| `GthrNested` | `gt_schedule` and `gt_switch` in their steps, with alarms inside |
| `MCGthrDemo`, `MCGthrList`, `MCGthrStats`, `MCGthrNested` | values for TLC |
| `GthrDemoProofs` | proofs: the inductive invariant of the program; aging, tickets, first come first served |
| `GthrListProofs` | proofs: the list is a chain and implements the sequence |
| `GthrStatsProofs` | proofs: the statistics are consistent, one by one and in sum |
| `WorkerPool` | what the HTTP server promises: connections handed over in order, each to one free worker, or turned away |
| `HttpServer` | `Server.cpp`: the parent, its workers, `/available`, the socket pairs, SIGINT and SIGQUIT; all properties |
| `MCHttpServer` | the symmetry of connections for TLC |
| `HttpLogger` | the queue `/logger` and the logger process |
| `HttpConnection` | `Client`, `handle_communication` and the shutdown of one worker, with the log lines of both processes |
| `MCHttpConnection` | short dialogues for TLC |
| `HttpServerProofs` | proofs: types, shutdown, room in `/available` |
| `HttpHandOverProofs` | proofs: the invariant of the hand-over and what follows from it; `HttpServer` implements `WorkerPool`; no connection is lost or doubled |
| `HttpConnectionProofs` | proofs: the invariant of a connection and what follows from it |
| `FatImage` | an image: the tree of directories and files, its layout in entries, clusters and table, and what the commands should print of it |
| `FatShell` | `fat.c`: the prompt, `ls`, `info`, `cd`, `read`, `tree`; all properties |
| `MCFatShell` | the clusters of each item for TLC |
| `FatShellProofs` | proofs: every command prints what the image holds |
| `CommonLemmas` | facts about sequences as queues and about sums, for the other proofs |

The three groups are independent, as the programs are. Operators whose names end
in `_Something` are mutants: wrong variants of the definition after them, used
only to see that the properties notice.

### State and actions

Thread `t` is `gt_table[t]`; `gt_current` is an index instead of a pointer. The
fields of `struct gt` are functions on the threads. `main` makes all its creations
before the first `gt_schedule`, so a slot is never used a second time. `total_tickets`, `skip_count`
and `value` are numbers; `skip_count` stops at `IntMax`, which only slots that
are Unused reach (`AgingBound`).

| Action or operator | Code |
|---|---|
| `CreateThread` | one `gt_create` of `main` (the table full and `malloc` failing are the disjunct that changes nothing) |
| `MainReturns` | one round of `while (gt_schedule())` in `gt_return` |
| `Alarm` | `gt_alarm_handle` in the executing thread |
| `Wait`, `Post` | `sem_wait`, `sem_post` called by `f` |
| `Begin`, `End` | the two `printf` of `f` and the sleeps around them |
| `Return` | the function of a thread returns into `gt_stop` |
| `round_robin(st, p)` and the others | relations: with the table's states `st`, the loop ends on slot `p`. `n` counts the slots looked at, so one step stands for the whole loop. A loop that never ends is a step that is not enabled |
| `SwitchTo` | the two `update_thread_state` and the move of `gt_current` |

Only `gt_current` acts, whatever its state in the table. That is how the model
shows that `sem_wait` returns to a caller it has marked Blocked.

`Abort` is the other outcome of `Return`: `gt_return` frees `ctx.rsp + 16` as it
was saved at the thread's last switch, which is not what `malloc` returned
(`gthr.c:338`). The allocator may notice and end the process; if it does not, the
thread ends as intended.

In `GthrList` the list is a set of allocated cells with `thread_idx` and `next`;
`chain` is an auxiliary variable, the cells in their order, which no guard reads.
`WaitInList` and `PostFromList` are `sem_wait` and `sem_post` with `queue_push`
and `queue_pop` inside, all other steps those of `GthrDemo` with threads that
run `f` of `main.c` and so never return.

In `GthrStats` every step of `GthrDemo` carries the calls of
`update_thread_state` it makes: `Created` (`gt_create`), `Scheduled`
(`gt_schedule`, the old thread before the new one), `Updated` (`sem_wait`,
`sem_post`). `gt_return` writes `Unused` without it, so the last slice of an
ended thread is counted nowhere. `Tick` moves the clock. `total_waiting` holds the time in
Blocked too, although `gthr.h:33` says Ready; a minimum of zero is taken for none.

In `GthrNested` a thread's context is the stack it was saved on and the number of
calls of `gt_schedule` open on that stack then. `frames` holds these calls with
their variables, `cpu` the stack that executes.

| Action of `GthrNested` | Code |
|---|---|
| `Yield`, `Alarm` | a call of `gt_schedule` by `gt_return` or by the handler; `Call` is its `gt_reset_sig` |
| `Choose` | `get_next_thread(&p)` |
| `UpdateOld`, `UpdateNew` | the two `update_thread_state`, of what `gt_current` and `p` are by then |
| `SwitchIndicator` | `old`, `new` and `gt_current = p` |
| `gt_switch` | saves and restores, and the call that was saved returns |

### The HTTP server

Worker `i` is the child of the `i`-th `fork` and stands for its pid; `Stale` is a
pid of an earlier run, for which `std::find` returns the end of the vector.
`parent` and `worker[w]` say where a process is. A call that may block has two
labels, such as `recv` (about to call) and `recving` (asleep in it), because a
signal interrupts only the second: that difference is what the shutdown turns on.

| Action or operator | Code |
|---|---|
| `Fork`, `AnnounceChild`, `Started` | the loop of `start_client_processes`; SIGINT still kills the parent there |
| `Check`, `Accept`, `Receive` | one round of `run`: the test of `_should_stop`, `accept`, `mq_receive` |
| `Send`, `SendFails`, `SendToTheDead`, `SendAstray` | `send_fd` with its outcomes: delivered; an error, after which the worker is announced again; SIGPIPE; `_socket_pairs` read past its end, undefined, so the parent dies, or the message goes to some descriptor |
| `Refuse` | the 503 branch: the parent does the handshake itself |
| `Quit`, `WaitEnds` | the shutdown's loop before and after `waitpid`; a slot whose fork failed makes it `kill(0, SIGQUIT)` |
| `Sigint`, `SigintWorker` | SIGINT to the process group; a call asleep returns EINTR |
| `Sigquit` | the handler in a worker, what EINTR does there, or its death if it has no handler yet |
| `Install`, `CheckStop`, `RecvFd`, `Read`, `Answer`, `Announce` | `handle_communication` |
| `EndOfFile(w)` | no copy of the parent's end of `w`'s pair is open: workers forked after `w` inherited one |
| `Abort` | SIGPIPE in an answer or in `close`, or an exception, ends a worker |
| `Connect`, `Ask`, `Leave` | the clients |

`HttpConnection` has one worker in detail and the parent's side of it. What a
client sends is a sequence of parts: `head` and `end` of a request's headers, the
header of an upload's `part`, its numbered `data` and the closing `boundary`. A
read takes any number of parts that have arrived, so that headers, uploads and
the buffers' limits are split in every way. A request for "unknown" is one whose
method `Request` does not know. `AfterLog` and `AfterParentLog` list
the calls of `mq_send` to `/logger` with what follows each. A client that leaves may
leave in the middle of what it sends: `Leave` cuts the wire anywhere. The answer to
an upload is 201 in any case; the model calls it "cut upload" when less has been
read than was announced, which is so only for an upload that SIGQUIT or the client
itself cut off (one that has left gets none). An answer that SIGQUIT interrupts in
`SSL_write` is a "cut answer": the client has a part of it and asks nothing more.

| Action or operator | Code |
|---|---|
| `Accept`, `Refused`, `close` | the constructor of `Client` and `Client::close` |
| `ReceiveHeaders`, `parse`, `PeerCloses` | one read and `Request::parse`; without a blank line in it the request keeps no fields and an undefined `_type`; without a method at its beginning `map::at` throws and the worker dies (`Throws`) |
| `DiesUnparsed` | `map::at` throws for that `_type`, or `handle_post` follows a null pointer |
| `Respond`, `ExecuteScript`, `KeepAlive` | one round of `handle_communication` |
| `HandlePost`, `FirstLength`, `Upload`, `Written`, `Created` | `handle_post`: what came with the headers, the loop, what a read with the boundary leaves to be written, the answer |
| `BrokenPipe` | SIGPIPE, when the client has left: in an answer (`Writing`), or in the `SSL_shutdown` of `close` (`Closing`) |
| `PassConnection`, `Sigint`, `Kill`, `Waitpid`, `StopLogger`, `WaitLogger` | the parent |
| `Interrupted` | what EINTR does to the call in which SIGQUIT finds the worker: `mq_send`, `recvmsg`, `SSL_accept`, `SSL_read`, the script's `read`, and `SSL_write` on a full socket, after which the answer is cut off |
| `CheckLogger`, `ReceiveLine`, `WriteLine`, `SigquitLogger` | the logger, which may miss SIGQUIT between its test and `mq_receive` |

`WorkerPool` sees a connection in the parent's hand or in the backlog as
waiting, and one in a socket pair or served as owned by that worker.

### The FAT16 reader

A tree, any that fits the constants, is chosen in `Init` and never changes.
Directories and files are called by their first cluster; `Slot` says which entry
the image holds at a place and `Fat` what the allocation table holds. A command
sets `cmd` and runs to the prompt in steps, one turn of its innermost loop each;
`frames` is the call stack of `print_tree` (one frame for the other commands),
`pos` the one position in the file that all of them share.

| Action or operator | Code |
|---|---|
| `Init` | `main`: the tree is printed before the first prompt |
| `Command` | the dispatch of `run`, and the `fseek` at the beginning of a command; the test whether the current directory is the root compares offsets (`AtRoot`) |
| `ListEntry`, `CdEntry`, `ReadEntry`, `TreeEntry` | one entry in the loops of `list_files` and `print_info`, `change_directory`, `read`, `print_tree` |
| `Enter` | what `cd` sets when the name is found; a cluster of 0 stands for the root |
| `NextCluster` | `get_next_cluster`; of a number that is no cluster it may return anything |
| `EndOfDirectory` | the loop is over: back to the prompt, or to the caller, which sets the position again |
| `CopyCluster`, `EndOfFile` | the loop over the clusters of a file |

### Assumptions

- In `HttpServer` the logger keeps up: `mq_send` to `/logger` does not block for
  ever, and its interruption by a signal loses a log line only. `HttpConnection`
  has the bounded queue instead. The parent does not run out of descriptors,
  although it closes none it has handed over, and the backlog of `listen` is not
  full. `accept` fails only when interrupted.
- In `HttpServer` what a worker does with one request ends; `HttpConnection` shows
  when it does. No pid is used again while an old entry with it is in `/available`.
- An upload has one part, its boundary is not used again, and the file is opened.
  A part arrives whole. An upload that fits the read of the headers is stored with
  its closing boundary, since that is taken off only in the loop; the properties
  look at the data. A client sends its next request when it has the last answer.
- What `receive_headers` copies for `parse` has no terminating zero
  (`Client.cpp:58`-60): what comes after it in memory is taken not to look like one
  more field. The data of an upload do not begin like a request.
- A client reads its answers or leaves: without SIGQUIT an `SSL_write` ends.
- One `gt_schedule` ends within the 500 us after it arms the timer: outside
  `GthrNested` it is one step, and no second alarm falls into it.
- In `GthrNested` threads only compute, and `gt_switch` into a call that has
  returned since is not followed: what is on the stack there is undefined.
- A sleep of 50 ms takes a hundred periods of the timer of the sleeper's own
  time, since the rest of the sleep is resumed when the thread is. The model keeps
  "at least one alarm has interrupted the sleep" (`ticked`).
- `gettimeofday` never goes back, and gives one time to the calls within a step.
  Averages, variances and the printing are left out.
- Deleted entries, the volume label, the entries of long names and names that differ
  only in the extension are left out of FAT16 images; sectors have 512 bytes, as `512 * start_sector` in the
  code supposes. Commands have their arguments.

## 3. Runs

| Run | Instance | Shows |
|---|---|---|
| `stats` | 3 slots, 3 creations (one priority clamped, one without a slot), functions may return, a clock with slices of 0, 0.6 and 1.2 s | the inductive invariant: table, executing thread and semaphore agree at every interleaving; aging is bounded by the priority; tickets are disjoint; no ended thread runs; no time is lost or counted twice; extremes fit totals |
| `list` | 4 slots, 4 creations (one too many), 2 cells, fairness | the list is a chain and implements the sequence; of two waiters neither overtakes the other, and no third thread overtakes both; no waiter and no Ready thread starves under any of the three algorithms |
| `mutex` | 3 slots, 2 contending threads, one permit | violated: two threads past `BEGINNING` with a semaphore of 1 (`g_semaphore.c:40` does not switch) |
| `exit` | as `mutex`, functions return | violated: the initial thread never leaves `gt_return` (`gthr.c:343`) |
| `nested` | 3 slots, 2 threads, at most 2 open calls of `gt_schedule` on a stack | violated: a thread's saved context is another thread's stack (`gthr.c:475`) |
| `server_order` | 2 workers, 3 connections, one SIGINT, failing forks, dying processes | `WorkerPool` is implemented, each connection is in one place, workers are announced exactly while free, the inductive invariants of the proofs hold, no worker outlives the parent |
| `server_faults` | the same with 2 connections, an entry left in `/available`, two SIGINTs | no announcement blocks after the start |
| `server_live` | 1 worker, 3 connections that leave some day, one SIGINT | every connection is dealt with unless the server shuts down; the shutdown ends |
| `server_quit` | 2 workers, 2 connections, one SIGINT | violated: the parent waits for a worker that missed SIGQUIT, for ever (`Server.cpp:497`) |
| `connection` | 1 worker, 2 connections of up to 3 requests, a log of 2 lines, buffers of 4 and 5 parts, one SIGINT | sessions end once, answers and stored uploads fit the requests however reads split them and wherever SIGQUIT interrupts the worker, a keep-alive connection stays in step, a request ends (but for the wait after a cut answer), the shutdown gets past the worker, the logger outlives all who log |
| `fat_prompt` | all images of up to 3 directories and files, directories in the root only; every command in any order | commands print what the tree holds, `cd` goes where the name leads, the prompt names the directory, every command ends |
| `fat_nested` | a directory in a directory | violated: the tree at the start prints a directory inside itself without end (`fat.c:366`) |

Where the code and its comments or messages disagree and no run says so:

- `main.c:99` and 100 say "set g()" and pass `f`. `gthr.h:33` says `total_waiting` is
  the time in Ready; it is the time in Ready or Blocked.
- SIGQUIT in the read of an upload is taken for its end: the client is told 201.
- A worker that dies leaves its client waiting, because the parent has kept its
  copy of the descriptor (`Server.cpp:480`).
- In `GthrNested` the outer `gt_schedule`, resumed after an inner one, makes the
  thread it had chosen Running, whatever has become of it since.
- The server does not answer 503 while all workers are busy. `Server.cpp:165` asks
  for `O_NONBLOCK` in attributes whose flags `mq_open` ignores, so `Receive` sleeps.
- In `fat.c` the offset of a subdirectory is its cluster times the sector size, in
  another unit than the root's: a directory whose cluster is the number of the
  root's first sector is taken for the root. `fat_prompt` keeps `RootSector` apart.
- 0xFFF8 ends a chain by the comments (`fat.c:239`, 261), 0xFFFF by
  `is_end_of_chain`. `fat_prompt` ends chains with 0xFFFF (`LastMark`).
- `fat.c:451` says "read file from root directory"; `read` looks in the current
  directory (228). `ReadsFile` is stated for the current directory and no run asks
  for what the help says.
- `read` finds a file only if its attributes are a blank, 0x20, or zero, where the
  comparison ends (`Matches`, `fat.c:234`); any other file is reported missing.
  `ReadsFile` claims nothing of those.
- SIGQUIT in `SSL_write` cuts an answer off (`Client.cpp:32` looks at no result,
  `Server.cpp:203` sets no `SA_RESTART`). On a keep-alive connection the inner loop
  (`Server.cpp:97`) does not test `_should_stop`: the worker waits in `SSL_read` for
  the next request and the client for the rest, until the client gives up. No
  comment says otherwise; `RequestsEnd` names the case (`WaitsForTheRest`).

Every scheduler run chooses the algorithm in its initial states, so it covers all three.

Bounds. In `stats` the priorities are 0 and 1: a thread that is taken at sight
and one that has to be skipped once. Two created threads contend for one permit,
so that one waits while the other holds it, and either may end; the third creation
finds no slot. The clock stops at `MaxTime`, twice a `Durations`, so that a
slice may be shorter than, as long as or longer than a second and the borrow of
`timeval_subtract` and the carry of `timeval_add` happen; a thread with `MaxCount`
runs is preempted no more. In `list` there is a third thread, so that two wait at
the same time, whose order `NoBarging` is about; with two cells each is freed and
handed out again. `IntMax` is above the largest priority. One alarm inside
`gt_schedule` is enough for `nested`.

In `connection` a dialogue of three requests follows an upload that fits neither
buffer with one that fits the first read and a page; the others hold a script, an
unknown page, an unknown method and a close. A log of two lines is full again and again. The second
connection finds what the first left in the worker.

For the server two workers and one connection more are the smallest instance in
which the parent has to wait for a worker, a worker forked later holds the pair
of an earlier one, and a connection is passed while another is served. With one
SIGINT each place of the parent can be interrupted once; the second one of
`server_faults` interrupts `waitpid` and the 503 branch. `/available` holds as
many entries as there are workers, as in the code. Connections are symmetric;
symmetry is used in the runs without liveness. Deadlock is not
checked where the system or the model may stop: `exit` (`Abort` ends the process),
`stats` (the bounds of its clock), the FAT reader (the command `exit`) and the
server, which stops after the shutdown and is idle when all clients have left.

For the FAT reader three items, one of two clusters that do not follow each other
and the others of one, give a directory that is full, one that ends in the middle
of a cluster, an empty one, files whose last cluster is not full, and equal names
in different directories. Directories in directories are in `fat_nested` only:
since the tree at the start never ends with them, no command is ever given.
`StackFrames` bounds the depth of the recursion, and the process stops at it; the
violated property does not depend on it. The only fairness is that the process
runs (`FairSpec`).

Fairness of the server: weak fairness of `ParentStep` and of each `WorkerStep`
says that the operating system runs a process that can run. `ClientsLeave` is an
assumption about the clients, and `EveryConnectionEnds` is false without it:
with all workers busy the parent sleeps in `mq_receive`; the shutdown runs assume it too, so that no client is to
blame for the counterexample.

Fairness in `connection`: the processes that can run do; strong fairness of the
calls of `mq_send` says that a process asleep in one gets in some day, as the
queue wakes its senders in turn. That the client leaves some day is a premise of
`WorkerIsReaped` alone: a worker asleep in `SSL_accept` or `SSL_read` when SIGQUIT
arrives goes on at once, but one that has just passed its test waits for its client.

Fairness of the scheduler. Weak fairness of `CreateThread` and `MainReturns` says that the
initial thread, while it executes, goes on; of `Alarm`, that the periodic timer
goes on firing. A thread gets on only in its slices, which alarms interrupt:
strong fairness of `Step(t)` says that a thread that is current again and again
gets its few instructions done. For the lottery, strong fairness of the draw of
each thread stands for `rand()` not avoiding a ticket range for ever. Nothing
is assumed about `Return`. `GthrList` states the same of its own steps.

## 4. Proofs

`GthrDemoProofs` proves, for every table size, number of priorities, list of
creations and number of permits, and for all three algorithms:
`TypeOK`, `RunningIsCurrent`, `WaitersAreBlocked`, `PermitsConserved`,
`InitialThreadReady` and `NoResurrection`, all from the inductive invariant
`IInv`. Assumptions: `GthrAssumption` and `DemoAssumption`.

The argument. None of these is inductive alone.

1. The initial thread never calls `sem_wait` (`pc[0] = "none"`), so it is never
   Blocked, and it is Ready whenever another thread executes. Its priority is 0,
   so `round_robin_prio` takes it at first sight (`InitialThreadMet`); hence a
   search that starts in an ended thread stops before it comes back there.
2. From this, `ScheduleTable` says what one `gt_schedule` does: exactly one
   thread is Running, no thread is blocked, woken, created or ended, and neither
   a Blocked nor an ended thread is switched to.
3. A thread that `sem_wait` has queued runs on until the next alarm. It reaches
   `sem_post` only after a sleep, which an alarm interrupts, and that alarm
   switches away from it; so it returns only after having been woken
   (`WaitersInFirstSleep`). That is why a thread in `sem_post` holds a permit and
   the count in `PermitsConserved` comes out.
4. `value > 0 => queue = <<>>`: a permit is in the semaphore only when nobody
   waits.

On it build, in the same module:

1. `NoBarging`: with a queue, `sem_wait` only lengthens it and `sem_post` leaves the
   value at 0, so the one new holder is the head that `sem_post` removes.
   The run `list` checks it of `GthrList`, where it follows from this theorem and
   `ListImplementsQueue`.
2. `TicketsDisjoint` with all ranges below `total_tickets`, which `gt_create` moves
   on past the range it hands out.
3. `AgingBound`: a search of `round_robin_prio` meets the initial thread, or
   `gt_current` in its place, within one pass (`FirstPass`); so it looks at each
   slot at most once (`LooksOnce`), and a Ready thread whose `skip_count` has
   reached its priority is chosen when it is looked at, not skipped (`SearchAges`).

`GthrListProofs`: `ListIsChain` is inductive as it stands, for any set of cells. A
push takes a cell that is not in the chain, so no pointer but the last one
changes; a pop frees the head, to which, the chain having no repetition, nobody
points. With it `Items` after a push is `Append` and after a pop `Tail`, and
`queue_is_empty` says whether `Items` is empty; every step is a step of `GthrDemo`.

`GthrStatsProofs`, for any clock and any bounds, one thread at a time: `timeval_subtract` of a time from
a later one and `timeval_add` give normalised times and exact values
(`SubtractIsExact`, `AddIsExact`). The invariant is `Consistent` for each thread:
the accounts balance, the extremes fit, and the last change is not after `now`,
which is what `timeval_subtract` needs. The one change of state that would break
the balance is one out of Unused, whose time is counted nowhere; `UpdateKeeps` is
for all others, and `gt_create`, which makes it, resets the fields first.
`gt_schedule` never chooses an Unused thread: that comes from `IInv`.

`OneProcessor` is about all threads together: what their `total_running` and the
slice of the running one add up to is no more than `now`. `Ran(t)` is that for one
thread. A change of state moves time from a slice into an account and leaves its
`Ran` as it is, a creation or the end of a thread takes away, and only the thread that is
Running has an open slice. So no step lets any `Ran` grow but that of `gt_current`,
and that by no more than the clock moves on (`RunsAlone`). The sum is a fold of the
community modules, whose recursion has no theorem to cite that the provers could use.
In `CommonLemmas`, `Sums` says of a function that it obeys the equations of the fold
on all subsets; that one exists, that two agree and that the fold is one of them are
each proved with a least counterexample (`LeastSubset`, from the well-foundedness of
the strict subsets of a finite set). Then `SumGrows` follows by the same means.

`HttpServerProofs` proves, for any number of workers, connections, signals and
leftovers, with failing forks and dying processes, the types of `HttpServer`
together with `IndexInRange` and `HandsFull` (`ServerTypes`): a connection goes
through `new_socket` and `serving`, and the places where they are used have to
be shown to come after the places where they are set. With at most one SIGINT it
proves `NoOrphans`. The argument is `ShutdownProgress`: the shutdown begins only
after a SIGINT, so none is left to interrupt `waitpid`, and every worker before
`index` has ended; a worker that was never forked cannot be passed, because
`kill(0)` ends the parent there. A second SIGINT does cut the waiting short.

`AvailableHasRoom` holds for any leftovers and any number of SIGINTs. A stale entry
may be spent on any worker or on none (`SendAstray`), so nothing can be said of who is
in `/available`, only of how many: `Owed` counts for each worker the announcements it
will still make, one for each descriptor in its pair and one for the connection it
serves. With the entries in the queue and the one in the parent's hand they are at
most `MaxConnections` (`Room`), because a descriptor is only sent for an entry that
was taken out. While workers are forked none has a connection; that is why only the
parent's own announcements at the start can block on leftovers.

`HttpHandOverProofs` assumes that `/available` is empty at the start
(`Leftover = 0`) and nothing else beyond `ServerAssumption`. It proves, for any
number of workers, connections and signals, whatever fails, `AnnouncedWhenFree`,
`HandsOverInOrder` and `OnePlace`. The argument:

1. *Offers.* Whom the parent may still choose (in `/available`, the `pid` in its
   hand, the child it is about to announce) is free, and every live worker that is
   free is offered. To keep this over a step one has to know that a worker has one
   of three things at most, an offer, a descriptor in its pair, a connection it
   serves (`OneAtATime`); that a descriptor waits only where `recvmsg` is still to
   come; and that a slot that has not been forked is offered nowhere (`YetToFork`).
   The steps that could break it are the error paths: an interrupted `mq_receive`
   takes no pid, a failed `sendmsg` puts it back, SIGQUIT frees a worker from
   `SSL_read` only on its way to its announcement.
2. *No astray send.* Every pid taken from the queue is a worker (`NeverAstray`).
   With a leftover entry this fails, and the model goes on with `SendAstray`.
3. *Refinement.* A connection waits while it is in the backlog or in `new_socket`,
   which is empty outside the hand-over (`HandsEmpty`); it is owned by the worker
   whose pair or `serving` holds it. `Send` is `Assign`, closing by the parent is
   `TurnAway`, `Close`, the end of a process and SIGQUIT are `Release`, `Connect`
   is `Arrive` because a connection is nowhere before it arrives (`NotYetHere`);
   `accept`, `recvmsg` and all others are stuttering steps.
4. *One place.* `OnePlace` counts the places of a connection. That there is at most
   one is kept by every step of `WorkerPool` (`PoolMoves`), so it has to be shown
   for four abstract steps and not for thirty: the refinement carries it over.
   That there is at least one, until the connection has ended, is the same for
   `Connect`, the only step that lets one arrive (`ArrivedAreHeld`).

`HttpConnectionProofs` proves, for any dialogues, any buffers (down to none), any
number of lines in `/logger` and any number of connections: `SessionsEndOnce`, `InStep`,
`UploadsAreStored`, `AnswersFit` and `SendersAreHeard`. Their invariant `IInv` has
these parts:

1. *The session.* `_is_open` says whether there is a live session, and at each
   place of the worker which of the two it has to be (`Session`). That is what makes
   the second and third `close` of a round harmless.
2. *The hand-over.* A descriptor in the pair, or one in `SSL_accept`, finds nothing
   of the last connection (`Passing`, `Fresh`); the model resets what the
   constructors of `Client` and `Request` reset.
3. *In turn.* What is on the wire is always a last piece of the request in work
   (`Follows`), however many parts of it the headers, `_remainder` and `curlength` have
   taken. `handle_post` counts what it read with the headers and what it reads
   itself against the announced length, so the wire is empty when it ends
   (`InTurn`), and `InStep` follows.
4. *In the file.* The data read so far are the end of the file, from some place on,
   in their order; all before it is of earlier uploads (`Uploaded`, `Storing`).
5. *Not parsed.* A request without a blank line in its first read is answered with
   the index, and it is the connection's last (`NotParsed`).
6. *The end.* The parent stops the logger after `waitpid` (`Ending`).

3 and 4 hold until an upload has been cut off (`UploadCut`): `handle_post` takes
SIGQUIT, or the end of the stream, for the end of the upload. What happens after it
is `Astray`: either the client has left and nothing more comes, or SIGQUIT was the
cause, and with keep-alive the rest of the data is read as if it were a request. A
part of data is no method, so at most one such read is answered, with the index,
before the worker dies or the connection ends; that is the one answer too many that
`AnswersFit` allows (`CutOff`). `InStep` asks nothing after it. A "cut answer" changes
nothing on the wire: the client has asked for nothing else and will not, so that 3
holds on and the cut answer stays the last (`AnswerCut` in `InTurn`).

`FatShellProofs` is about images of any size, with any number of directories and
files, any lengths of chains, entries and names, and any sequence of commands. Its
hypotheses (`PlainImage`) are those that the findings force: directories in
the root only, because `tree` never ends otherwise; chains that end with 0xFFFF,
which is where `is_end_of_chain` ends them; and no directory whose first cluster is
the number of the root's sector. `ImageAssumption` says what an image is: clusters in
one chain only and once, none with the number of a mark; a cluster has more than
one byte. The order of the entries is any (`SetToSeq`). It proves `ListsDirectory`,
`ReadsFile`, `PromptNamesDirectory`, `CdFollowsTree` and `TreeShowsAll`. The argument:

1. *Place and number.* `Passed` translates the place of a scan, a cluster and an entry
   in it, into the number of entries passed. An entry and `get_next_cluster` move it
   by one and by none (`ScanAdvances`, `ScanFollowsChain`), and `fread` finds the entry
   of that number (`EntryRead`); this takes that the clusters of chains are disjoint.
2. *Searching.* What `ls` has printed is the listing up to `Passed`, and what `cd` and
   `read` have rejected are the entries up to `Passed`; at the end these are all
   (`ScanEnds`, `NothingFound`).
3. *Nesting.* The position is that of the innermost call, the caller's is restored
   by its `fseek`. A call is made from the root only, as `.` and `..` of a directory in
   the root are not shown (`TreeCalls`).
4. *Copying.* After k clusters `left` is the length less k clusters (`BytesLeft`), so the
   mark and the count of bytes end the loop at the same cluster.
5. *Drawing.* With one call open, the output is the rows of the root's entries passed
   so far, each directory's with what it holds (`Drawn`); with two, those of the entries
   before, then the name of the directory and the rows of what the inner call has
   passed (`DrawnWithin`). `Outline`, what `tree` should print, is a recursive function
   over all directories and uses `FlattenSeq`, a recursion as well. Without nesting
   two rounds of its equation give the function itself (`LevelsExist`,
   `OutlineIsBranches`), and one sequence more adds its elements at the end
   (`FlattenGrows`, with a least counterexample among the numbers).

Every invariant and every action property of a run is now a theorem, for every value
of the constants that the named hypotheses admit. Only model-checked are:

- the liveness properties `WaitersAreServed`, `ReadyThreadsRun`, `EveryConnectionEnds`,
  `ShutdownEnds`, `RequestsEnd`, `WorkerIsReaped` and `CommandsEnd` (TLAPS has no
  rules for fairness and ENABLED here);
- what the runs with a violation show.

Where the proofs need induction over data they use a least counterexample: the set
of numbers, or of subsets, for which the claim fails has a minimal element
(`WFMin`), and the step below it gives the contradiction. The theorems of the library
that take the induction hypothesis as an operator cannot be used.

## 5. Plan

In this order:

1. The safety half of the liveness: a measure that every step of a command of
   `FatShell` makes smaller, and one for the worker's round in `HttpConnection`, so
   that only the fairness is left to TLC.
2. What still holds in `HttpServer` with a leftover entry: which workers the stale
   pid can keep waiting.
3. Deleted directories in `FatShell`, whose clusters `tree` still follows.
4. Several parts in one upload; running out of descriptors in the server.

## 6. Not modelled

`gt_print_stats` and all other printing, `print_usage`, command-line parsing,
the static pages and the Makefiles: they only
format or have no state. `g` in `main.c` and `write`/`delete` in `fat.c` are
unused or empty. `sem_destroy` and `sem_try_wait` have no caller: the first takes
-1 from an empty queue for an index at its first step, the second tells its
caller nothing. `gt_create` is called by the initial thread only, so two creations
at the same time are not modelled. Signals other than those named above, a failing
`malloc` in `queue_push`, and the floating-point averages are left out.
