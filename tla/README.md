# TLA+ models of guacamole-server and its encoding server

The repository is guacamole-server 1.1.0 with one addition: `guacenc`, which in
the original converts one recording of a session into a video, has become a
server. Clients connect to port 10002, name a recording that is still being
written, and the server follows it and produces a video ("多线程模式处理recording
文件生成录像", `src/README.md`). This directory holds TLA+ modules for that server,
for libguac, for the proxy daemon guacd and for the two parts of the plug-ins
that carry most of their logic, the drawing surfaces and the terminal; the TLC
configurations that check them; and proofs that TLAPS checks.

All sources are under `src/guacamole-server-1.1.0/src/`; paths below are
relative to that directory.

## The system

| Component | State | Operations | What is hard about it |
|---|---|---|---|
| Reactor (`guacenc/epollreactor.c`, callbacks in `guacenc/jobs.c`) | epoll interest list; `events[fd]` with status and job pointer | accept, read the configuration, start a job, notice that a client is gone | the worker closes the same descriptors; numbers are reused |
| Jobs and workers (`guacenc/jobs.c`, `guacenc.c`) | one `struct Job` and thread per connection; a semaphore with the window (5) | open, time slices of 5 s, read, parse, wait for more, end | permits on every way out of the loop; fairness; a job freed while the reactor points to it |
| Transcoding (`guacenc/jobs.c:301-371`, `encode.c:36-70`) | temporary and output files, child processes | create, fork, exec, wait, unlink, free | `wait(NULL)` is shared by all threads; same names; order of unlink, wait and flush |
| Video (`guacenc/video.c`, `display-sync.c`, `ffmpeg-compat.c`) | `last_timestamp`, `next_pts`, the next frame | sync, flush, free | rounding without drift; failures in the middle of a flush |
| Display (`guacenc/display*.c`, `layer.c`, `buffer.c`, `image-stream.c`, `instruction-*.c`) | tables of layers, buffers and image streams, the cursor | one handler per drawing instruction; flattening | limits, parents that form cycles, a global used by `qsort` in all threads |
| Parser (`libguac/parser.c`, `guacenc/encode.c:121-208`) | parser state, buffer offsets | append, shift, read | buffer limits and instructions split anywhere |
| Integer pools (`libguac/pool.c`) | freed integers, counters | next, free | an integer in use must never be handed out again |
| Layers, streams, objects of a client and its users (`libguac/client.c`, `user.c`) | pools and tables | allocate, free | limits tested outside the lock; what is returned to which pool |
| Client users and broadcast socket (`libguac/client.c:280-359`, `socket-broadcast.c`) | list of users under a read-write lock | join, leave, write to all | a user that joins in the middle of an instruction |
| Sockets (`libguac/socket*.c`) | buffers, keep-alive thread | write, flush, free | end of the keep-alive thread |
| guacd (`guacd/*.c`) | map of processes, one process per connection, its users | route, create, join, hand a descriptor over, end | joining a process that is ending; numbers reused; a lost wake-up |
| Surfaces (`common/surface.c`, `rect.c`, `display.c`) | pixel buffer, dirty rectangle, queue of rectangles, properties still to be sent | draw, fill, mask, copy, transfer, resize, clip, move, shade, flush, send to a joining user | some updates are sent at once and others later; the queue is bounded |
| Terminal (`terminal/*.c`) | ring of rows, cursor and visible cursor, pending operation per cell, scroll position | print, control sequences, scroll back, resize, render a frame | operations on operations that are not carried out yet; three coordinate systems |

Clients talk to the reactor over TCP. The reactor starts a worker per
connection and from then on shares three things with it: the `struct Job`
(the reactor writes `terminate`, the worker frees it), the connection's
descriptor (both close it) and the kernel's epoll registration. Workers share
the semaphore, the name space of files, the children of the process,
`__qsort_display` and, by accident, the descriptor numbers of one another. A
worker feeds what it reads to the parser, the parser calls the handlers of the
display, and a sync makes the display flatten itself and hand the frame to the
video.

guacd starts a thread per connection, which creates a process or finds one in
the map and sends it one end of a pair of sockets; the bytes the daemon's parser
has read too much go with it. In the process each user has a thread that joins
the list of users of the `guac_client`; the threads of the plug-in write to all
of them through the broadcast socket, mostly by way of surfaces, and in SSH,
telnet and Kubernetes sessions of a terminal.

What makes each component correct:

* reactor and jobs: an end of file reaches exactly the job of that connection;
  a told worker ends; the semaphore neither gains nor loses permits; no more
  than the window encodes;
* transcoding: children are all waited for, files all removed, ffmpeg sees a
  complete file;
* video: frame *k* shows the display at time *k*/25 s;
* pools and tables: an index belongs to one user at a time and every freed one
  can be used again;
* parser: the handler gets the elements that were written, however they were
  cut and moved;
* display: a frame is the composite of the tree of layers, with the cursor;
* broadcast: every user sees whole instructions, all of them from joining on, in
  one order, and nobody writes to a user that is gone;
* guacd: a user reaches the process it asked for, the creator owns it, and
  processes and sockets do not outlive their users;
* surfaces: what users see, plus what is still to be sent, is what was drawn;
* terminal: what is shown, plus the operations pending, is what the buffer holds.

## Modules

| Module | Models | EXTENDS / INSTANCE |
|---|---|---|
| `Jobs` | reactor, jobs, workers, semaphore, descriptors | |
| `JobsProofs` | proofs about permits, registrations and freed jobs | `Jobs` |
| `Transcode` | temporary files, child processes | |
| `TranscodeProofs` | proofs about children and files | `Transcode` |
| `Video` | the timeline of a video | |
| `VideoProofs` | proofs about the timeline and its frames | `Video` |
| `Parser` | the parser of the protocol and its two readers | |
| `ParserProofs` | proofs that pointers stay within the buffer and instructions are read as written | `Parser` |
| `IntPool` | the operations of `guac_pool` as functions of its record | |
| `Pool` | callers that share one pool; the abstract specification of the tables | `IntPool` |
| `StreamTable` | layers, buffers, streams and objects with their indices | `Pool` |
| `PoolProofs` | proofs about the pool and the tables that use it | `StreamTable` |
| `Display` | the display of the encoder, flattened by several workers | |
| `Guacd` | daemon, processes, users, descriptors | |
| `GuacdProofs` | proofs about routing and ownership | `Guacd` |
| `Broadcast` | users of a client, the broadcast socket | |
| `BroadcastProofs` | proofs about streams and passes | `Broadcast` |
| `Canvas` | what a drawing surface promises, abstractly | |
| `Surface` | the drawing surfaces and their users' screens | `Canvas` |
| `SurfaceProofs` | proof that the queue of rectangles does not overflow | `Surface` |
| `Terminal` | the terminal emulator and its screen | |
| `MC*` | instances for TLC | the module of that name |

### Jobs

One step is a piece of code between two accesses to state another thread can
change. The reactor's position is `rpc`: waiting in `epoll_wait`, dispatching a
batch of events, reading a configuration, between `pthread_create` and the
registration of the event, blocked in the `read` of a number that has changed
hands, between `read() == 0` and `job->terminate = 1`, and before `rwEvent_del`
and `close`. A worker's position is `wpc`: opening its recording, in `sem_wait`,
reading, at the end of a slice, between `read() == 0` and the test of
`terminate`, past the loop, waiting for its ffmpeg, and in the two halves of
`job_destroy`.

Descriptors are modelled as the kernel keeps them: `file[n]` is what number *n*
is open on, and the lowest free number is given out. The epoll interest list
holds open connections, not numbers: a registration ends with `EPOLL_CTL_DEL` or
when nobody has the connection open any more. As `accept` sets no close-on-exec
flag, an ffmpeg keeps all connections open that were open when it was forked
(`Fork`, `held`), so that `close` may leave a registration behind (`CloseWith`)
until that ffmpeg ends; its events are still reported, to the number it was made
under. `left` remembers such numbers. `EPOLL_CTL_MOD` of an unregistered
connection fails. `events[n].status`, which the program keeps beside the
interest list, is a variable of its own; the two may disagree. A read of a
number that has changed hands reads what is there now: the reactor may take data
from a recording or block on a connection whose client is still there, and a
worker may find the end of another's recording. A worker that reads an open
connection in this way waits, in the model, for as long as the number is open on
it. The array `events` starts zeroed, as a fresh mapping of its size does.

A recording is a number of instructions, of which the worker has read `pos`.
`asks` is what the clients of a behaviour ask for: a good recording, a malformed
one, one that cannot be opened, a directory in which the encoder cannot create
its file, or nothing that can be parsed. With such a directory `job->ins` is NULL
and the first use of it kills the process (`NullIns`).

### Transcode

The name a client chooses stands for its temporary and its output file. A file
is identified with the job that created it, so that a name can be removed or
taken over while a process still has the file open. Each job has at most one
child; a child that could not exec goes on in the worker's code.

### Video

A sync instruction is one step: `guacenc_display_sync` with all it calls. The
history variables `first`, `syncs` and `failed` record what arrived.

### Parser

The buffer is a function from positions to bytes, and elements are positions in
it, as the pointers of `__elementv` are. A byte is a symbol; one symbol begins a
character of two bytes. Two readers run the same `guac_parser_append`:
`guac_parser_read`, which takes from a socket what has arrived, in pieces of any
size, and whose user may hand the rest to another process
(`guacd/connection.c:105-130`, `HandOver`); and `ins_parser_read`, which is
called for every `;` in a recording, also for one within an element.
`guac_parser_append` is one step per byte of a length and per character of an
element; the loops around it are one step per branch. After an error, a timeout
or the end of the connection all callers give the connection or the job up, so
the model stops. It also stops where a byte is read past `ins->data` (`Overrun`),
of which nothing further can be said.

What the handler is given, `got`, are the C strings the pointers lead to at the
time of the call, which may be wrong ones or lie outside the buffer; `last` is
what was written.

### Pools and tables

`IntPool` has the functions; `Pool` and `StreamTable` use them. Each call of the
pool is one step, as it holds the lock throughout. `StreamTable` has the five
kinds of index that libguac draws from pools and how each is made from the
pool's integer (`Index`) and turned back (`PoolInt`). Streams and objects are
entries of a table with a limit; layers and buffers are allocated one by one. A
call of alloc is two steps, since the limit is tested before the lock is taken,
and so is a call of free. Threads meet there: two that are past the test with one
entry left, or one that is given an entry that another has returned and has still
to mark closed. The model goes on with what the code then does, an entry beyond
the table or a mark on the stream of the next owner, and `raced` remembers that
it happened, because nothing but the count of the pool is right from then on.
`StreamTable` extends `Pool`, which is its abstract
specification: `ImplementsPool` says that until then every call is one step of it, so that
what is proved of the pool holds for its users.

### Display

`display[w]` is the `guacenc_display` of worker *w*: tables of layers, buffers and
image streams and the cursor. Each instruction handler is an operator of its own
that gives the display after the instruction, including the layers it allocates
by looking them up. A sync sets `__qsort_display` and goes on in a second step,
so that another worker may set it in between: depths are then looked up in the
other's display, and a layer missing there is allocated in two steps, the test
(`FindMissing`) and the store (`StoreFound`), between which its owner goes on;
after that the layers are painted in any order (`FlattenOther`). The owner's
own lookups are one step: what another worker stores meanwhile is a layer
nothing was drawn on. Images have
one row; the path that `rect` leaves for `cfill` and the clip that rendering
leaves for the cursor are kept. Cycles of parents, a freed display and a cursor
on a layer without pixels end the process (`FlattenCrashes`). `Composite` defines
the frame without sorting, by the tree.

### Guacd

A connection's thread is at `pc`, a process at `child`, a user's thread at `user`.
`file` is the descriptor table of the daemon, whose lowest free numbers are given
out; `fd_socket` is the number in a `guacd_proc`, which may come to mean something
else. A process inherits what the daemon has open when it forks (`heldClient`,
`heldFar`). Every system call that can fail does, up to `MaxFaults` times. The
daemon's second `close` of a process's number, and joins that use a freed
`guacd_proc`, are followed only as long as they do no harm: otherwise the model
sets `undefined` and stops.

### Broadcast

A call of `guac_client_foreach_user` is a pass: it takes the read lock and
visits one user per step. An instruction is a pass that locks the users' sockets,
one pass per write, and one that unlocks them; in between users join and leave
under the write lock and answer on their own sockets. `stream[u]` is what was
written to user *u*.

### Surface and Canvas

A surface has its fields, among them the dirty rectangle and the queue; every
call of the plug-in is an action that holds the locks of its surfaces. Messages
are applied to `picture`, what each user sees, by the rules of the client's
canvas (external). The costs that decide whether rectangles are combined, the
sort and the re-queueing of combined rectangles are as in the code, for one row
of pixels; the encoder is any. `Canvas` is the promise, in four variables that a
refinement mapping takes from `Surface`: outside the cells still to be sent users
see the image, and a cell on a screen only ever changes to what the image has
there. Where the protocol cannot say that a pixel is clear (a lossy image, a copy
with OVER, a resize) `murky` is set, and the constraint `Unblurred` does not look
further: these cases are listed below.

### Terminal

`term` is the `guac_terminal` with its buffer (a ring of rows, each stored as far
as it was written), its display (an operation per cell: nothing, set, or copy from
elsewhere on the screen) and the screen itself. Each control sequence is one action; what it calls is composed from
operators named after the functions. `Flush` is the render thread. Eight ways in
which the code goes wrong are marked in `spoilt` where they happen, with the name
under which they are listed below; the constraint `Unspoilt` does not look
further, and the properties say that nothing else goes wrong. Scroll regions have
rows of the terminal, amounts that would reach outside the arrays are left out,
and tab stops are not set.

## What TLC checks

| Run | Instance | Result |
|---|---|---|
| `jobs` | 3 clients, 5 descriptors, window 1, 5 workloads, fair workers | permits and window are kept; registrations and freed jobs are as said under known defects and no worse; a told worker ends |
| `jobs_closed` | 2 of 3 clients, window 2, fair | **violated**: a closed client whose number was used before is never noticed |
| `transcode` | 2 jobs, 2 names, all failures, fair | children and waiters balance, no file left, waits end |
| `transcode_complete` | 2 jobs | **violated**: ffmpeg reads a file whose last frames are not written |
| `video` | 4 syncs at 7 timestamps, encoder failing anywhere | no drift, right images, no time lost |
| `stream_table` | 2 threads, 4 places, table of 3, pools of minimum size 0 and 2 | counted, grows only when exhausted and, until the threads meet outside the lock, unique, own index, inside the table, implements `Pool` |
| `parser` | 3 instructions of 8 kinds, 3 malformed ones, a buffer and an `ins->data` of 10 bytes, 3 elements, fair | delivered as written, refused or overrun only beyond the limits, no recorded instruction waits |
| `display` | 2 workers, 4 layers, 1 buffer, 1 stream; 4 of 17 instructions and 2 of 3 | a frame is the composite of the tree, the cursor is in it, the other worker's picture is kept but for layers lost in the race |
| `guacd` | 3 connections, one joining, one after the first ended, 12 descriptors, 1 failure | routed right, owned by the creator, processes end, sockets are closed |
| `broadcast` | 2 users, 2 writers, instructions of 2 writes | whole instructions, one order, all of it, no visit to a removed user, no deadlock |
| `surface` | a layer and a buffer, 2 users, queue of 3, 4 of 22 calls | the queue does not overflow, a flush shows everything, implements `Canvas` |
| `terminal` | 2x3 cells, 3 sizes, ring of 5 rows, any 4 calls | pending operations are exact, no cursor is left behind |

Why the bounds are enough. The workloads of `jobs` pair a good recording with
each other way a recording can end, and a window of one makes the two workers
compete; a number can be closed, reused and closed again. That a registration
outlives its connection takes two clients, one whose ffmpeg inherits the other's
connection, and a third to be given the number: the last workload has three, with
recordings that end at once. A fourth would be needed to see a job told twice,
which `FreedOnlyUntold` excepts by `left`; the proofs are for any number. Five
descriptors are never all in use. The video's timestamps are one before, on and after each
boundary of the first frames, and 0, which the code takes for "no sync yet".
Four callers of a pool with minimum size two exhaust it, make it grow and make
it reuse integers in any order, and fill a table of three. A buffer of ten bytes
is shifted within the second or third instruction at every possible place, one
of the instructions fills it exactly and one exceeds it and `ins->data`. Four layers make a tree
of depth three, in which a layer can be moved below another, into a cycle, or
lose its parent; one layer index is beyond the table. The second worker begins
without its default layer, so that it can allocate it while the first one does.
Three connections are a
process, a user who joins it and a process that may get its descriptor numbers.
A pass of two writers over two users shows every order of their steps, and an
instruction of two writes has a middle. A queue of three fills up in four calls,
and a row of five pixels has rectangles that are combined and some that are not.
On three rows of two columns a terminal wraps, scrolls, scrolls a region, keeps
two rows of scrollback and loses them again; five calls instead of four find
nothing else.

Deadlock is not checked where the system may stop: when all clients have come
and gone (`jobs`, `guacd`), all was read (`parser`), or the bound on calls or
instructions is reached (`display`, `terminal`). In `broadcast` it is checked:
the only state without a step is the one in which everybody is done.

`guacd` says "eventually" as an invariant of the states in which no thread can
take a step: no thread of the module can run in circles, so every behaviour in
which all are scheduled gets there. `Settled` describes these states by what each
thread waits for, without ENABLED, so that the invariants can be proved; that it
describes exactly these, `SettledIsStuck` of `MCGuacd` says. It is not part of the
run only because ENABLED takes long to evaluate; add it to the configuration's
invariants and TLC finds it true of the run's 1.2 million states. There are four
descriptors for each connection, as many as it can have open: with fewer, a
connection may wait for ever for two.

Fairness. `WorkersSpec` of `Jobs` assumes that each worker is scheduled (weak
fairness of its steps), that a client does not keep its connection for ever, that
an ffmpeg ends, and that a thread in `sem_wait` gets the semaphore if it is posted
again and again (strong fairness of `sem_wait`): every `sem_post` of the loop is
followed by `sched_yield`, and a worker that finds nothing to read posts at once.
Of the reactor it assumes nothing, as one blocked in a read need not go on.
`FairSpec`, for `jobs_closed`, adds that the reactor is scheduled too. `FairSpec` of `Transcode` assumes that threads and processes
are scheduled and that ffmpeg ends. `FairSpec` of `Parser` assumes that the
reader's thread is scheduled.

## Known defects

Two are runs of their own, above. The models or their construction also show
the following, which no text of the repository contradicts or for which a
weaker property is checked.

Encoding server:

* a parse error returns with the permit (`jobs.c:198`); `PermitKeptOnlyOnParseError`
  shows it is the only way to lose one;
* the reactor may write `terminate` to a freed job (`jobs.c:508`);
  `FreedOnlyUntold` shows that such a job ended on its own or its number was left
  registered;
* `accept` sets no close-on-exec flag (`jobs.c:568`) and `job_destroy` closes
  without `EPOLL_CTL_DEL` (247), so while an ffmpeg forked by another worker runs
  (314) the registration of a closed connection stays, and its end of file is
  reported to the number it had: to nobody, when the number is free, and then
  again and again (the reactor spins); to the reactor blocked in `read`, when the
  number is a connection whose client is still there; to that connection's job,
  when its client has gone too, and once more after that job was told and freed,
  if the number is used a third time. `RegisteredIsOwn` shows that nothing but a
  running ffmpeg keeps a registration;
* what is recorded between a worker's last read and the close of its client is
  not read (`jobs.c:204-207`);
* after a failure in the middle of a flush frames are written twice
  (`video.c:235`); `NeverShort` shows that at least none is missing;
* `guacenc_video_free` returns 0 also when writes failed (`video.c:462`, against
  `video.h:177-179`);
* a second job of the same name removes the first one's temporary file
  (`encode.c:46`, against `video.h:99-101`);
* `wait(NULL)` takes any child of the process, so a worker may remove its file
  while its own ffmpeg still runs (`jobs.c:331`); `WaitEnds` and
  `ChildrenAccounted` show that at least none is lost;
* `ins_parser_read` saves its position even within an instruction, and its next
  call takes it for the start of one (`encode.c:130`, against `parser.h:71-74`);
  if the buffer is shifted then, elements parsed before come to lie before the
  buffer. `ClippedOnlyInside` shows that this needs a `;` within an element;
* an instruction of exactly `GUAC_INSTRUCTION_MAX_ELEMENTS` elements is refused
  if its last terminator arrives by itself and accepted otherwise
  (`parser.c:64`); `RefusedOnlyBroken` shows that nothing below that is refused;
* an instruction that fills the buffer exactly is handled and then reported as
  too long (`encode.c:174-178`), which ends the job;
* `job_loop_read_recodingfile` reads each byte to `ins->data + ins->offsetLen`
  without looking at the size of the array (`jobs.c:191`, `encode_video.h:24`): a
  stretch of more than 32768 bytes without a `;` is written over what follows,
  first `offsetLen` itself. As the parser's buffer is of the same size, this
  happens to a longer instruction before it could be refused as too long.
  `TooLongOnly` shows that shorter ones are safe from both.

Display:

* the cursor is clipped to the last child of the default layer
  (`display-flatten.c:92-123`, against the comment at 201); layers of higher z are
  painted first; `cursor` moves its source by `+sx`;
* parents that form a cycle exhaust the stack (`display-layers.c:62-79`), and a
  cursor on a default layer without pixels dereferences NULL;
* while two workers flatten, layers are sorted by the other display
  (`display-flatten.c:134`) and allocated in it without a lock: one that its owner
  allocates and draws on between the test and the store is lost
  (`display-layers.c:39-54`). `OthersFrameKept` shows that nothing else of the
  picture changes. That the owner may free the layer another worker is looking
  at is not followed;
* there are 64 image streams (`display.h:50`), and client streams have the odd
  indices up to 127, so the upper half of them is dropped.

libguac:

* `guac_client_free_layer` returns `layer->index` to the pool, but the layer was
  made from `index - 1` (`client.c:57-95`), so a layer in use may be given out
  again; the kind "layer" of `StreamTable` shows it, and `ImplementsPool` holds
  for the other kinds only;
* with two threads the limit of a stream table can be passed, and since it is
  tested for equality it is then gone (`client.c:103`); a stream may be marked
  closed by its previous owner (`client.c:124-127`), and is then returned to the
  pool as integer -1 or 0. Both are states of the run of `StreamTable`, after which
  its properties say nothing but what holds of the pool's count;
* a user added in the middle of a broadcast instruction receives the rest of it
  and has its mutex unlocked without being locked (`midway`); one removed there
  keeps a locked mutex; what is broadcast between `join_handler` and the
  insertion is lost to the new user; a user that cannot be written to delays all;
* `guac_client_free` removes the users still in the list and frees the client
  (`client.c:186-223`) while their own threads have yet to do so
  (`user-handshake.c:358`): a user is then removed a second time, from a list that
  is gone, with `connected_users` counted down twice. A process that ends
  while it still has users does this (`proc.c:351`). `Broadcast` does not go that
  far: there a user is removed by its own thread only;
* `guac_socket_free` runs the free handler before the keep-alive thread has ended
  (`socket.c:200`); an error in the handshake frees the parser twice.

guacd:

* the daemon closes `proc->fd_socket` twice (`connection.c:351` after
  `guacd_proc_stop`), and by the second time the number may be another
  connection's;
* a join that has found its process in the map uses the `guacd_proc` after it
  was freed, or sends its user to the process that got the number, and may even
  become its owner (`late`);
* a process to which no user could be added is never stopped, as shutting down
  one end of a pair of datagram sockets does not wake the other
  (`connection.c:344`, against "Force process to stop");
* a failed hand-over leaks both ends of the pair; processes inherit the sockets of
  other clients; the wake-up of `guacd_timed_client_free` can be lost, which costs
  its timeout; a join that fails in its handshake while the owner is still in its
  own stops the process.

Surfaces:

* `guac_common_surface_transfer` between two surfaces with a function that reads
  the destination is applied twice to what was pending: the flush already shows
  the result when the users apply it again (`surface.c:1498-1517`);
* copies are sent with OVER, and lossy images do not clear, so clear pixels are
  not made clear on the screen; images expanded to the encoder's grid blacken
  clear pixels; a resize loses alpha in the buffer only (`murky`);
* two threads that copy between two surfaces in opposite directions lock them in
  opposite orders (`surface.c:1397-1463`); `guac_common_surface_blend_component`
  does not divide by 0xFF (881-891).

Terminal, by the marks in `spoilt`:

* overlap: copies are carried out in row order, so one that is not part of the
  same rectangle may read cells an earlier one has overwritten
  (`display.c:507-630`);
* margin: a column right of the last is taken for the last (`display.c:425-426`),
  as when the cursor waits to wrap and a line is erased from there;
* behind: while the user has scrolled back, what is printed scrolls the rows
  shown (`terminal.c:833-878`);
* nothing: `guac_terminal_display_copy_rows` of an empty range copies a row, as
  when the last line of the scroll region is deleted;
* astray: a cursor shown above the screen no longer follows its row and is left
  behind in the scrollback (`terminal.c:856-859`);
* undrawn: rows new on the screen after a reset or resize are not drawn though the
  ring still holds text; halfway: a resize while scrolled back by less than the
  rows it reveals draws the wrong ones (`terminal.c:1290-1296`);
* short: CSI P moves the cells of a row only as far as the row is stored
  (`buffer.c:124-130`), which is less than the width after the terminal was made
  wider: it copies the wrong cells, leaves cells that should have been overwritten,
  or reads cells past the end of the row, while the display moves the right ones.
  A character is lost from the buffer that the screen keeps, or a second cursor
  stays in it.

Also: amounts of CSI L, M and P beyond the screen reach outside the arrays; the
parsers of `guac_terminal_echo` and `guac_terminal_csi` keep their state in static
variables of the process; DECALN leaves the width of its character unset.

## What is proved

Every proof has the same shape: an inductive invariant, defined at the end of the
component's module and checked by TLC first, one lemma per action that it is
preserved, and theorems that follow from it.

`PoolProofs` proves for every set of callers and every minimum size that a pool
hands out no integer in use (`PoolUnique`) and grows only when exhausted
(`PoolGrowth`). The invariant `IInv` joins three facts no one of which is
inductive alone: integers kept are distinct, integers kept and integers listed
are disjoint and below `next_value`, and `active` plus the length of the list is
`next_value`. The last is needed for growth: an empty list means that all are in
use.

The same module proves that the calls of `client.c` and `user.c` implement the
pool's callers (`TableImplementsPool`), so that integers are unique and counted
for them too (`TableAccounted`), that what is in use has an index of its own
(`IndexOwned`), and that no table is left (`TableRespected`). `SInv` adds to `IInv`
which caller a thread in a call works for (`CallInv`), that what the pool gave out
is the caller's entry until it is about to be closed (`EntryInv`), and, for tables,
that there is an entry for everybody past the test of the limit and nobody has the
entry being closed (`RoomInv`). There may be any number of threads, and what is
shown is that all this holds until calls have met where they hold no lock
(`SInvUntilRace`): every step that breaks `RoomInv` is one of the two races of
`client.c:103` and `client.c:124`. The theorems have one hypothesis, `Sound`: no
layers. Without it they are false, as the known defects show.

`JobsProofs` proves the safety invariants of `Jobs` for every number of clients
and descriptors, every window and every workload. `JInv` adds to them what makes
them inductive: which positions of a worker hold a permit (`HoldInv`), that a
client not yet served has left no trace (`NewInv`), what the reactor has in hand
between two of its steps (`SetupInv`), how a worker's position, its job, its
descriptors and its child agree (`LifeInv`), that a connection is open under no
number but its own and that a registered one which is not open there has its
number in `left` (`LeftInv`), and to which job `events[n].data` may point when
the number *n* was closed and given out again (`DataInv`). For `RegistrationsOwn`
every step that closes a number is followed to what the kernel does then
(`CloseFacts`): a connection that stays registered is one a child has open, and
it does not stay when its last child ends. `ToldIsSafe` needs that registration
ends, with the `EPOLL_CTL_DEL` of the reactor, right after the flag was set; it
does unless the connection was no longer open there, and then the number is in
`left`.

`VideoProofs` proves that the timeline does not drift, that frames show the right
image and that failures cut nothing out, for all sets of timestamps. `VInv` says
that `last_timestamp` lies on the grid of frames counted from the first sync,
less than a frame before the last one (`GridInv`), where that count began
(`StartInv`), and that the syncs so far are in order and the last of them is the
one the display remembers (`SyncsInv`). A
frame is 40 ms exactly, which is why rounding to whole frames loses nothing.

`TranscodeProofs` proves for every number of jobs and names, and with every
failure, that children and waiting workers are equally many and that no
temporary file is left. `TInv` adds that a job forks at most once and waits only
if it did (`ForkedInv`), and that a file has only the name of its own job
(`OwnNameInv`).

`GuacdProofs` proves that users reach the process they asked for (`UsersRouted`)
and that the creator of a process is its owner (`CreatorOwns`), for every number
of connections, any finite set of descriptor numbers and any number of failures.
`GInv` says what the number in a `guacd_proc` is open on while its thread needs it
(`ProcInv`), that a process in the map is waited for and a join that found it there
still finds it (`MapInv`), and that what is under way to a process is meant for it
(`QueueInv`), the creator first (`FirstInv`). Joins that come after their process
has left the map are excepted (`late`), as they really go astray.

It also proves what holds in the end: every process that took a user has ended
(`ProcessesEnd`), for any number of descriptors, and every client's socket is
closed (`ClientsReleased`), when there are four descriptors for each connection.
`EInv` adds to `GInv` that nothing is open under two numbers (`FileInv`), who has
still to close a client's socket that the daemon has open (`ClientInv`), that a
process that is over holds nothing (`ChildInv`), and that a user is sent once and
received once (`OnceInv`). The heart of `ProcessesEnd` is `ServedInv`: until a
process has been told to stop, one of its users has still to make the test for the
last user. For `ClientsReleased` descriptors are counted: a connection can have four
open (its client's socket, the two ends of its pair, the socket of its process)
and none is open twice, so the two of a pair are free for one that has none yet.

`BroadcastProofs` proves for every number of users, writers and writes that
streams consist of whole instructions (`StreamsWhole`), that all users see one
order (`OneOrder`), that nobody unlocked has missed a write (`EveryoneReached`) and
that no pass visits a user who was removed (`MembersOnly`). `BInv` relates the
position of each thread to the locks it holds and the users it has still to visit
(`WriterInv`, `ListInv`), the end of each stream to the instruction under way and
to who has that socket's lock (`SocketInv`), and for the order says that an
instruction is complete in a stream at most once (`OnceInv`), that none of the
future is there (`PastInv`) and that the one under way is the last (`CurrentInv`).

`SurfaceProofs` proves that the queue of rectangles is never written past its end
(`QueueBounded`), for every size of at least two and every sequence of calls.
`QueueWithin` is not inductive: the invariant `PlaceReserved` says that between
calls one place is free, which `__guac_common_surface_flush_deferred` keeps and
the next flush uses without a test. The loops of a flush are recursive functions;
that these are defined, and that each round keeps the bound, is shown by a least
counterexample.

`ParserProofs` proves that both readers stay within the buffer and the table of
elements (`ParserTypeOK`), for every size, limit and input, and that the elements
`guac_parser_read` returns are strings inside the buffer (`ElementsInside`,
`SocketNeverClipped`). `ParserInv` says that the elements read so far lie between
the start of the instruction and the end of what is parsed, each but the last with
the end of its string (`SocketInv`): a shift takes away no more than what is before
the instruction. For the reader of recordings this is false (known defects), so
only the bounds are proved of it for every input.

When what is written are instructions of the protocol, both readers are proved to
hand on just what was written (`DeliveryExact`), to refuse none below the limits
(`RefusedBroken`), to give up only on what is as long as the buffer and to write past `ins->data`
only in what is longer than that (`TooLongReal`), and at the end of a recording to leave none behind
(`RecordingCaughtUp`); an element is lost only to a `;` within an instruction
(`ClippedInside`). None of this is inductive alone. `WellInv` describes the whole
way of a byte: what lies ahead of the parser, in the buffer, in `ins->data` and in
the input, is what was written, from some place in the first instruction on
(`StreamInv`); the parser's state says which place, before or after the digit of a
length, before a character or at the end, and the elements hold what lies before
it (`HeadInv`); `guac_parser_append` stands still only at the end of the buffer or
within its last character (`StalledInv`); a call of `ins_parser_read` ends at the
last `;` read, so it begins within an instruction only if that one has a `;` inside
(`RecordingInv`); and no more than one instruction lies between the start of the
call and the place (`ExtentInv`), which is why a full buffer means a long
instruction. The lemmas before the steps state what a concatenation of sequences
is, part by part: `FlattenSeq` is a recursive function, and where one would use
induction a least counterexample is taken.

These five theorems have two hypotheses. `Legal` says that instructions have an
opcode, strings without NUL and lengths of one digit (as everywhere in `Parser`),
and that nothing malformed is written: after something malformed the first
instruction written need not be the one being read, and what holds then is only
model-checked. And the buffer has more than one byte: with a single one
`TooLongOnly` is false, as the first byte of a character of two fills it. The code
has 32768.

The proofs use no assumptions but the named ones of the modules
(`PoolAssumption`, `StreamTableAssumption`, `JobsAssumption`, `VideoAssumption`,
`TranscodeAssumption`, `GuacdAssumption`, `BroadcastAssumption`,
`SurfaceAssumption`, `ParserAssumption`, `BytesAssumption`): sets of clients,
workers, callers and descriptors are finite, bounds are natural numbers, `None` is
nothing else, calls name surfaces that exist, a queue has at least two places (the
code has 256), instructions are sequences of bytes, and the gap between two syncs
is small enough for `int`.

## Only model-checked

Liveness (`ToldWorkerEnds`, `WaitEnds`, `CallEnds`) is outside the prover's
reach, as is what depends on fairness and that `Settled` is the negation of an
ENABLED. The parser's properties are checked, but not proved, for streams with
malformed instructions in them. `FlushShowsAll` and `ImplementsCanvas` compare
what the model holds with the pixels a fold of messages leaves, and the properties
of `Display` and `Terminal` with sorted trees and folds over rows: these need
induction over data, which the prover has not.

## Not modelled

* codecs and image formats, colours and alpha other than 0 and 1; the vendored
  cJSON; `encodemp4.c` and `redis_query.c`, which nothing calls;
* the protocol plug-ins, `common-ssh` and `pulse`: glue around FreeRDP,
  libvncclient, libssh2, libtelnet and PulseAudio, whose callbacks determine the
  order of what happens and are not part of the repository. They are the largest
  part of it; their drawing and their terminals are modelled;
* guaclog and guacd's configuration files: sequential text processing;
* the end of a client (`guac_client_free`) while users are in its list: see known
  defects;
* libguac's sockets below the instruction lock (partial writes, base64), the end
  of the keep-alive thread, the arguments of the handshake; `protocol.c`, which
  formats instructions;
* common's lists and clipboard; the terminal's selection, scroll bar, pipes,
  typescripts, wide characters, keys and mouse;
* memory that is not released, and the use of `job->ins` after `free(job)` within
  one thread (`jobs.c:250-252`).

## Plan

What could follow: more of `Terminal` as bounds (the ring, the cursor and the
scroll offset stay in range), stated for its operators one by one; the steps of
`Surface` that refine `Canvas` without sending anything; the parser after something
malformed, with `Legal` widened to bytes that are refused where they stand.
