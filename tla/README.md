# liblinuxpp: TLA+ models, checks and proofs

liblinuxpp is a C++ library over Linux system calls. Most of it wraps one call
each; the parts that keep state and run user code are the event loop
(`linuxpp::ioloop`), the subprocess launcher, the message framing over TCP, the
sockets and the descriptor owners. This directory holds TLA+ models of them, written from
the source, the TLC runs that check them on small instances, and TLAPS proofs.

## Inventory

| Component | State | Operations | What is hard |
|---|---|---|---|
| `ioloop` callbacks and stop (`src/src/ioloop.cpp`) | `new_callbacks_`, `mutex_`, two eventfds, `keep_running_` | `add_callback`, `stop` (any thread); `start`, `process_callbacks`, `process_stop` (loop thread) | threads interleave at every lock, vector access and system call; callbacks re-enter the loop and throw |
| `ioloop` one-shot timeouts | `timeouts_`, `pending_timeout_additions_`, `processing_timeouts_`, a timerfd | `add_timeout`, `remove_timeout`, `process_timeouts` | callbacks change the vector that is being walked; the clock moves between sampling it and arming; other handlers of a batch re-arm the timer |
| `ioloop` periodic timeouts | the same four, with a period and a `processed` flag per entry | `add_periodic_timeout`, `remove_timeout`, `process_periodic_timeouts` | as above, and two undefined behaviours |
| `ioloop` handlers, `start` | `handlers_`, `removed_handlers_`, `processing_handlers_`, `epoll_events_` | `add_handler`, `remove_handler`, `start` | handlers remove each other and close descriptors while events are dispatched; descriptor numbers are reused; exceptions leave `start` half way |
| `epoll` | interest list (kernel), `size_events` | `add`, `del`, `mod`, `wait` | the count and the kernel's list drift apart when descriptors are closed |
| `eventfd`, `monotonic_timerfd` | counter; expiry | `write`, `read`; `set_oneshot`, `read` | limits, blocking reads, a zero duration disarms |
| `unique_fd`, `int_descriptor`, `file_descriptor` | an owned descriptor | construct, move, reset, release, swap | leaks and double closes |
| `subprocess::popen` and streams, `signal_mutex` | stream descriptors, child status, a shared child stack | construct, `poll`, `wait`, `signal`, move, swap | clone with shared descriptors, failures half way, signals |
| `tcp_datagram_socket`, `length_prefixed_message`, `iovec` | message under construction | `send`, `recv` | partial reads and writes, 16-bit lengths, end of stream |
| `udp_socket`, `tcp_socket`, `tcp_datagram_socket` and the functions of `net/` | a `unique_fd`; what the kernel keeps for the socket | construct (with bind or connect), move, assign, swap, `close`, `bind`, `connect`, `listen`, `accept`, `send`, `recv`, `join_group` | constructors and assignments throw half way; a name is refused after the kernel has handed over the connection or the datagram; byte orders |
| `pipe`, `open`, `read`, `write`, `fcntl` | none beyond a descriptor | one system call each | error reporting |

The components meet in the loop thread. Every descriptor of the loop (two
eventfds, two timerfds) is a handler like any other; `start` waits on `epoll`
and calls handlers one after the other; a handler is user code or one of the
`process_*` functions, which call user code in turn. All user code may call
back into the loop. Only `add_callback` and `stop` are meant for other threads.

## Modules

| Module | Models |
|---|---|
| `CallbackQueue` | abstract specification: a FIFO queue with submit, run and abandon |
| `IoLoopCallbacks` | the multi-threaded part of `ioloop` |
| `MonotonicTimerfd` | operators: what `set_oneshot` does to a timerfd |
| `TimeoutVector` | operators: lower bound and insertion in a vector of timeouts |
| `IoLoopTimeouts` | one-shot timeouts |
| `IoLoopPeriodic` | periodic timeouts |
| `IoLoopHandlers` | handlers, `start`, `epoll` and the kernel's interest list |
| `UniqueFd` | ownership of descriptors |
| `Sockets` | the socket classes and the functions they call, over `UniqueFd` |
| `TcpDatagram` | datagrams over a byte stream |
| `Popen` | `subprocess::popen` with its streams and `signal_mutex` |
| `MC*` | instances for TLC |
| `*Proofs` | theorems and their proofs |

Definitions whose name contains an underscore after an action's name
(`EpollWait_NotResized`) are mutants: plausible bugs of that action, each used
to see that a property notices it. They are not part of any specification.

### IoLoopCallbacks

A thread inside `add_callback` or `stop` is at a program point `at[t]`; the
loop thread inside `start` is at `pc`. One action per shared access: lock,
push, eventfd write (with its EAGAIN and its throwing outcome), unlock; flag
assignment and eventfd write of `stop`; flag test, `epoll_wait`, the eventfd
reads, lock, move, unlock, and each callback's call, return and exception. The
loop thread may itself call `add_callback` and `stop`, from a callback or
outside `start`. `batch` is `epoll_events_`. An exception leaves `start`
(`pc = "idle"`), and `Start` may happen again.

The eventfd limit `EfdMax` is 2^64 - 2 in the kernel; the code's treatment of
the limit does not depend on its value, so 1 or 2 reaches the EAGAIN path at
once. Each callback object is handed in once, which names every submission and
bounds the model. Fewer `stop` calls are outstanding than the counter can hold:
`stop_eventfd_` is blocking, and 2^64 - 1 unread stops do not happen.

### MonotonicTimerfd and IoLoopTimeouts

Time is counted in ticks of the steady clock; the last tick `MaxTime` stands
for the far future. `set_oneshot` reads the clock and then arms a relative
timer, so the expiry may be late by the time between the two (`MaxLatency`),
and a timeout in the past is armed one tick ahead. A timerfd is readable from
its expiry until it is read or set again.

Everything runs on the loop thread; the clock ticks at any moment, also within
a pass. `due` says that the batch at hand holds the timer's event: between
`EpollWait` and `CallProcessTimeouts` other handlers of the batch run and may
add timeouts (which re-arms the timer), remove them or throw. A pass is
`ReadTimer` (blocking), then one action per entry of the vector, then
`EndPass` (the erasure and the flag's reset), the removal of marked entries,
the merge of pending ones and the re-arming. `firing` is the callback being
executed; user code adds and removes timeouts in it.

`remove_if` erases marked entries one at a time in the model, in any order;
the result is the same and nothing else runs meanwhile except the clock.

### IoLoopHandlers

A handler is the `handlers_` node it is stored in: its address is what `epoll`
keeps and what `start` dereferences. Nodes and open files get fresh numbers, so
a stale pointer or a reused descriptor number can be told from a current one.
`epoll[fd]` is the kernel's interest list, from which a file goes when it is
closed; `DelError` is what `EPOLL_CTL_DEL` answers. `EpollWait` reports any
non-empty set of registered nodes and of the loop's own descriptors (the one
permanent node `Own`, whose handlers run user code). Dispatch order within a
batch is arbitrary. Interest flags (read, write, error) are left out: they
only decide which events epoll reports.

A descriptor is taken to be the only one of its open file; with duplicates the
kernel keeps a registration beyond the close, which is the caller's affair.

### IoLoopPeriodic

The structure is that of `IoLoopTimeouts`; entries carry a period and the
`processed` flag, and a pass ends with a second sample of the clock, the reset
of the processed entries and a sort. `std::sort` is not stable, so entries
with the same timeout come out in any order (`SortedOrders`).

Two calls have undefined behaviour. The model follows what they do to the
vectors of libstdc++, built without assertions:

* `add_periodic_timeout` on an empty vector returns `front().handle` of the
  pending vector, which is empty. If that vector never held an element the
  read goes through a null pointer, and the program crashes unless the result
  is unused and the read optimised away; otherwise the caller gets what the
  first place of its storage last held (`slot`). `handed` records what each
  caller got; `RemoveTimeout` takes only such handles.
* `remove_timeout` of a pending timeout passes an iterator of the pending
  vector to `periodic_timeouts_.erase`. Nothing is moved and the last entry of
  `periodic_timeouts_` is destroyed, or, with the two buffers the other way
  round in memory, unrelated memory is overwritten (`Crash`). The pending
  timeout stays in any case. A pass under way still runs up to the end it
  read at its start (`last`) and may come to the destroyed entry.

`pc = "crashed"` is a state the model does not go on from, whether the program
ended or went on with destroyed data; that is why the runs of this module do
not check for deadlock.

### UniqueFd

`fd[o]` is the member of the `unique_fd` at place `o`, `open` the kernel's
table, `raw` the numbers that callers hold as an `int`: just opened, or
released. Callers hand only such numbers to a `unique_fd`; a number becomes
free for reuse the moment it is closed. Each member function is one action:
they run on one thread, and `reset` stores the new value before it closes the
old one, which no one can observe in between. The closer is `default_close`.
`ConstructOpened` is a `unique_fd` around the call that opens the descriptor,
as in `net::socket`. The module has no run of its own: it is the abstract
specification that `Sockets` implements, and every operation of it is taken in
the run of `Sockets`, which has plain `unique_fd` objects too.

### Sockets

The module extends `UniqueFd` and composes it with the kernel's sockets. A
place holds a `unique_fd`, `udp_socket`, `tcp_socket` or `tcp_datagram_socket`
(`kind`); the member function of a socket is the action of its `unique_fd`
together with what the kernel does. `sock[d]` is what the kernel keeps for a
descriptor: type, domain, state, options and the peers that wait to be accepted
or received. `todo[o]` holds the calls that a constructor or assignment has yet
to make, so everything else may happen between opening the socket, setting
TCP_NODELAY, and bind or connect, and each may throw: `ConstructorThrows`
destroys the members, `AssignmentThrows` leaves the object with what was
assigned to it. A call that throws and changes nothing is a stuttering step and
has no action. `lost` holds connections that `accept4` returned to an accept
that threw. `Shutdown` is the call on a listening socket; on a connected one it
ends a direction of the stream, which is in `TcpDatagram`.

A name is four bytes of address and two of port. `htons` and its kin reverse
bytes on a little-endian host, and the kernel reads a `sockaddr_in` as bytes in
memory, so `make_sockaddr` and `parse_sockaddr` are modelled by what they do;
an answer to a datagram comes from whoever the bytes name. `Written` is what
the kernel leaves in the caller's `sockaddr_in`, for an IPv6 socket the first
16 of the 28 bytes of a `sockaddr_in6`, and `NameFits` is the comparison of
lengths by which accept and recv decide to report it or to throw.
`NamesLeadBack` says that this decision and the conversions are right together:
a name that is reported is one that leads back to the peer.

Of the kernel the model assumes: setting TCP_NODELAY fails exactly on what is
no TCP socket; `bind` and `connect` with an IPv4 name fail on IPv6 sockets and
may fail on any; an IPv6 socket reports peers, IPv4 ones too, with a name that
is longer than a `sockaddr_in`; sending binds a socket that has no name. An
accepted socket starts without options; that Linux lets it inherit some makes
`NodelayIsSet` easier, not harder. An object is used by one thread at a time
and not while its constructor or assignment is under way.

### TcpDatagram

The connection is the sequence `bytes` of everything ever sent in one
direction; `pos` is how far the receiver has taken it. A `::recv` may find any
part of the rest arrived (`Returned`), so the model has every way to cut the
stream into calls. A byte has `Base` values (256 in the code), a length is two
bytes in network order, and adding up buffers ends in `Truncate`. The bits that
`recv_size_part` ORs into the length do not overlap, so they are added.

The receiver is a caller of `recv_part` that hands in the state and the buffer
of its last call, and may call `recv` between datagrams. `recv` is two actions,
one per system call. Partial transfers are actions of their own (`SendShort`,
`RecvLengthTruncated`, `RecvMessageTruncated`); they, an oversized datagram and
the overload for arrays are noted in `damage`, because after any of them sender
and receiver are out of step for good. The overload for arrays
(`SendArray`) sends the buffers without a length and then what an
uninitialized iovec describes, here nothing or one byte.

### Popen

Each thread constructs one `popen`; its name also names the place of the object
and the child. `pc[t]` is where in `popen::clone` it is: one action per lock,
per stream opened, for clone, for what follows the child's exec or death, per
stream handed over, and per unlock; every call that can fail has an action for
its failure (`OpenFails`, `CloneFails`, `SetUpFailed`), which unwinds through
the same unlocks. `fds` is the process's table; the kernel gives out the lowest
free numbers. An open file is known by who opened it, for which stream and
which end it is, so that a child's table can be compared with what was asked.

The child works on its copy of the table: one action per stream
(`HandleChildStream`, or `ChildStreamFails` when `dup2` finds the number
closed), one for closing everything else, one for exec. Closing goes by
`/proc/self/fd` or, without it, up to a soft limit out of `Limits`. A child may
be killed before exec; its parent then sees `child_status` 0.

Descriptors of a caller (`fd_stream`) are open and belong to one request when
the constructor is called; with others the child fails or, once the number is
in use again, gets something else, which is the caller's affair. Objects are
used by one thread at a time and not before the constructor ends. Allocating
the stack, and a failing `waitid` (its exception is swallowed), are left out.

## Runs

| Run | Checks | Bounds |
|---|---|---|
| `callbacks` | exclusion on `new_callbacks_`, no lost wakeup, reads find what epoll reported; refinement of `CallbackQueue`; queued callbacks are taken, `stop` ends `start`, calls return | 2 threads and the loop thread, 3 callbacks, limit 2 |
| `timeouts` | types, order, arming, at most one firing, no firing after removal, firing order; no timeout stays for ever | 3 timeouts, clock 0..3, latency 1 |
| `timeouts_lost` (violated) | only expired or removed timeouts leave the vector | 2 timeouts |
| `handlers` | types, no dangling event, interest list and `handlers_` agree, event count, removals hit what was removed; removals put off are carried out | 2 descriptors, 3 files, 3 handlers, 2 removals put off |
| `handlers_stale_removal` (violated) | handlers stay until removed | 2 descriptors |
| `handlers_closed_fd` (violated) | removing the handler of a closed descriptor is accepted | 2 descriptors |
| `periodic` | types, order, processed entries first, arming, no firing after removal; calls keep their period; timeouts are called again and again | 3 timeouts, periods 2 and, for the second one, 0 or 2, clock 0..5, latency 1 |
| `periodic_removed` (violated) | removed timeouts are gone after a pass | 2 timeouts |
| `sockets` | types, one owner, nothing closed twice; refinement of `UniqueFd`; leaks only by move assignment and by accept, every name that is reported is whole and leads back to its peer, datagram sockets have TCP_NODELAY | 2 objects, 2 descriptors, 2 peers, 1 message waiting; symmetric in objects and descriptors |
| `popen` | the shared stack and signal mask, streams and nothing else reach the program, members of an object belong together, pids are current, what is lost only by failures and moves; calls end | 2 threads, 9 descriptors, 5 requests (pipe, path, own descriptors, twice the same one), stdin open or closed at the start, limit reached or not |
| `tcp_datagram` | datagrams arrive unchanged and in order, partial ones are prefixes; all arrive | bytes of 2 values, 2 datagrams of 0 to 4 bytes |
| `tcp_datagram_array` (violated) | datagrams sent with the overload for arrays arrive | the same |

Why the bounds suffice: two threads besides the loop give every pairwise race,
with a third contender for the mutex; three callbacks let one be in execution,
one in the moved vector and one in the shared vector. Three timeouts give an
expired one, an unexpired one and one added by a callback; four instants order
them in every way around the clock. Two descriptors with three files give
closing, reuse of the number and a bystander. A periodic timeout needs six
instants for a call, a pass that takes time, and a second call that could come
too early, and three timeouts so that one is pending while two are stored;
beyond `MaxTime` instants are not told apart. Two socket objects are
the two of a move or swap, and with two descriptors one can be overwritten by
the other, lost, or reused while the other is held; accept needs one for the
listener and one for the connection. The ports of the two peers have the
same bytes in opposite order, so that a missing conversion leads to the other
peer, and their address is none that reads the same both ways. The
ownership properties are about pairs of objects, and the proofs cover any
number of them. With two values of a byte a length
has four, so datagrams of up to three bytes need both bytes of the length in
every combination and one of four bytes does not fit; the second datagram finds
a used state and a buffer that is too long or too short. Two threads give
both of what one call can do to another: run beside it, and leave something
behind for it; nine descriptors are the standard ones, two of the callers and
two pipes.

### What the violated runs show

* `timeouts_lost`: `process_timeouts` moves its iterator past an entry before
  looking at it, so `erase(begin, i)` after "remove the exipired timeouts" also
  erases the first timeout that has not expired. It never fires. (With the
  iterator left at that entry the property holds in the same instance.)
* `handlers_stale_removal`: an exception leaves `start` with requests in
  `removed_handlers_`; the next `start` applies them to a handler added since.
* `handlers_closed_fd`: the comment in `remove_handler` and `start` says that a
  descriptor closed before its handler is removed is acceptable, but the kernel
  answers EBADF for it and only ENOENT is accepted, so both throw. Removing a
  handler and closing its descriptor within one handler is enough.
* `periodic_removed`: a callback adds a periodic timeout and removes it again;
  the removal erases from the wrong vector, and after the pass that should
  "Erase all "removed" timeouts" the timeout is stored and armed.
* `tcp_datagram_array`: `length_prefixed_message_array` copies the buffers over
  the iovec that holds the length, and leaves the last one uninitialized, so
  `send<N>` sends a datagram without its length and the receiver takes the
  first two bytes of it for one.

### Known limits that passing runs state

* `LeaksOnlyByMoveAssignOrAccept`: move assignment to a `unique_fd` that owns a
  descriptor overwrites the number without closing it, and so does assignment
  to itself; all socket classes inherit this. `accept(addr, port)` on an IPv6
  listener throws after `accept4` has returned, and the new descriptor is gone.
  No other operation leaks (`OnlyMoveAssignLeaks` and `SocketsLeak` prove it).
* On an IPv6 socket `recv` with a name takes the datagram and throws
  (`RecvThrows`); no property says that the datagram survives.
* `NodelayIsSet` speaks of TCP sockets: after an assignment from a `tcp_socket`
  that holds no TCP socket the exception leaves that in the object. The reuse
  options of `udp_socket::bind` stay set when bind fails (`BindFails`).
* `LostOnlyByFailureOrMove`: a `popen` constructor that throws
  leaves the descriptors of its streams open, and move assignment to a `popen`
  loses its streams and its child; nothing else does.
* What `ProgramsGetTheirStreams` says of 0, 1 and 2 is about streams whose
  descriptors in the parent are above 2.
  `handle_child_stream` closes a descriptor that already has the number it
  should get, and duplicating one stream may overwrite the descriptor of the
  next: with stdin closed in the parent a child whose stdin is a path starts
  without stdin. The run goes through such starts; without `NoneIsStandard` the
  property is violated.

## Fairness

* `IoLoopCallbacks`: weak fairness of each thread's steps within a call, of the
  loop's own steps and of callbacks returning: threads are scheduled, and the
  mutex is held for a bounded time. No fairness for calling `add_callback`,
  `stop` or `start`, nor for signals, exceptions or failing writes.
* `IoLoopTimeouts`: weak fairness of the clock, of the loop's steps and of
  callbacks returning, and strong fairness of `CallProcessTimeouts`: the loop
  calls the timer's handler unless another handler throws first, and `start` is
  called again after an exception; handlers are assumed not to throw in every
  single batch that holds the timer's event.
* `IoLoopPeriodic`: the same.
* `UniqueFd`, `Sockets`: none; they have no liveness property.
* `Popen`: weak fairness of each thread's steps within the constructor and of
  the child's steps up to exec: threads and processes are scheduled. Each
  thread calls once, so the mutex needs no fairness of its own. None for
  calling the constructor, for children ending or for owners.
* `TcpDatagram`: weak fairness of receiving: the receiver calls again while
  there is something to receive. None for sending or closing.
* `IoLoopHandlers`: weak fairness of dispatching, pruning and of handlers
  returning. Events need not occur.

## Theorems

All hold for every value of the constants that satisfies the named ASSUMEs.

* `IoLoopCallbacksProofs`: `TypeCorrect`, `MutualExclusion`, `WakeupsAreKept`,
  `ReadsSucceed`, `ImplementsQueue`. The inductive invariant ties the mutex's
  owner to the program points (whoever is between lock and unlock owns it), an
  argument to the caller that still holds it, and a callback pushed and not yet
  announced to the thread that is about to write. Exclusion follows from the
  first part; a lost wakeup would need a callback in the vector whose write has
  happened and whose counter was reset, and the reset is only followed by the
  move. The refinement maps the queue to the moved vector followed by the
  shared one: moving changes nothing, running takes the head.
* `TimeoutVectorProofs` holds lemmas only, shared by the two kinds of timeouts:
  a lower bound exists (from the least element of a non-empty set of naturals);
  insertion at it, removal at any place and cutting a prefix keep a sequence
  sorted and its handles apart, and say which entries there are afterwards; a
  timer set for an instant expires no later than the latency allows, and stays
  early enough when the clock moves on.
* `IoLoopTimeoutsProofs`: `TypeCorrect` (with the scan's iterator within the
  vector), `StaysSorted`, `ReadsTerminate`, `StaysArmed`, `CalledOnce`,
  `CalledWhenDue`. `Inv` adds to types and order that a pass is under way
  exactly while the flag is set, that callbacks run only in a pass, and that
  the timer is armed whenever its event is in the batch. With it
  `EarliestIsArmed` is inductive: only `add_timeout` outside a pass brings the
  first timeout forward, and it arms the timer; a removal leaves a timer that
  is early, and the end of a pass arms anew. What callbacks may be called needs
  more: `Contents` (entries have the timeouts asked for, each handle is in at
  most one place of one vector, and what was removed is marked), `ScanInv` (a
  pass has called or skipped everything before its iterator) and `FiredInv`
  (until an exception, a timeout that was called and is still in the vector is
  one that the pass at hand has gone past, and will erase).
* `IoLoopPeriodicProofs`: `TypeCorrect`, `StaysOrdered`, `StaysArmed`,
  `RemovedStaysSilent`, `PeriodIsKept`. Nothing but types and order is claimed
  once undefined behaviour has ended the program; when it only does what
  libstdc++ does on an empty or shifted vector, everything else holds too.
  The order of the vector survives a pass because resetting sorts what it has
  given new timeouts. `ProcessedInv` says where processed entries can be: behind
  the iterator in a scan, in front of all others but removed ones before the
  sweep, and left over only by an exception, after which the timer is disarmed;
  it is what makes "the remaining timeouts have not been processed" true.
  `Contents` is as for one-shot timeouts, with the timeout of an entry that
  waits at least a period after its last call, from which the distance of two
  calls follows. That sorting keeps the handles apart is proved by counting:
  a permutation of n entries that reaches all n of them repeats none.
* `IoLoopHandlersProofs`: `TypeCorrect`, `NoDanglingEvent`, `InterestAgrees`,
  `SizeSuffices`, `WishesAreCarriedOut`. The invariant adds that handlers have
  distinct nodes, that `processing_handlers_` is set whenever an event is still
  to be dispatched (so that no removal erases), and that a registration is of
  the file the handler was added for. The count argument is on cardinalities: a
  deletion that succeeds takes one descriptor off the list. `WishInv` says that
  until an exception leaves `start()` what user code wants and `handlers_`
  differ by the removals put off and nothing else, and that pruning has dealt
  with those before its position.
* `SocketsProofs`, about `UniqueFd`: `OwnersTypeCorrect`, `OneOwner`,
  `OnlyMoveAssignLeaks`. The invariant is what the first two state: a close is
  harmless only because what is closed has one owner, and ownership stays
  unique under reuse only because what is owned is open, so that the kernel
  does not hand it out again. About `Sockets`: `SocketsImplementUniqueFd`, `SocketsOwnUniquely`,
  `SocketsLeak`, `SocketsTypeCorrect`, `NamesAreRight`,
  `DatagramSocketsHaveNodelay`. `StepKinds` sorts the steps into those that
  leave the objects alone and those that are one `unique_fd` operation; with it
  the refinement, which maps `raw` to `raw \cup lost`, needs one case per kind,
  and unique ownership carries over from the lemmas about `UniqueFd`
  together with the fact that a lost connection is held by nobody (`Holders`).
  `Types` adds that an object has a class exactly while it is alive and the
  kernel a socket exactly for open descriptors. For the option the invariant
  (`SettledHaveNodelay`) also covers objects that are past setting it and have
  yet to bind or connect; it rests on ownership, since an option stays with the
  object only because no other object can close its descriptor and let the
  number be reused. The names rest on reversal being its own inverse on sequences,
  and on a name of 16 bytes being an IPv4 one.

* `TcpDatagramProofs`: `TypeCorrect`, `Intact`, `PartialCorrect`, for any number
  of values of a byte, any datagrams and any number of them. The invariant says
  that the stream is the frames of the datagrams sent, one after another
  (`Layout`), and that `pos` is in the frame of the datagram at hand at the
  place that the receive state tells (`Position`), both as long as nothing has
  gone wrong; and, whatever went wrong, that the parts of a length in the state
  come from one byte and that a buffer with a part of a message has its size,
  so that resizing it again loses nothing (`ReceiverOK`). It rests on lemmas
  about quotient and remainder by `Base` (network order keeps a length) and
  about what resizing and writing do to a buffer. A call of `recv_size_part`
  falls into four cases: no byte, the first, both, or the second.

* `PopenProofs`: `TypeCorrect`, `StackIsExclusive`, `MasksComeBack`,
  `PidsAreCurrent`. `Locking` ties the mutex to the program points between the
  locks, `prev_sigset_` to the one call that has replaced its mask, and a child
  on the stack to a parent that waits for it; since the mutex has one owner,
  exclusion and the masks follow. `PidInv` says that a pid gets into an object
  only when its call is over, that its child is not reaped on the way there,
  and that no other object has it: so the one `wait` that reaps a child also
  removes the last copy of its pid.
  `ObjectsBelongTogether`, `ProgramsAreSetUp` and `LostOtherwiseNever` are
  about descriptors, whose numbers are reused while several calls are under
  way. `Desc` says who is responsible for every number: a stream in hand is
  open on the numbers its call knows (`CallsOK`); every open file that popen
  opened is where its call knows it, and one without close-on-exec is in hand
  or was left behind by a call that failed (`TableOK`); what callers name
  stays theirs and open up to the hand-over (`NamesOK`); and a stream in an
  object is a parent's end that was handed over, in one object only
  (`ObjectsOK`). The parts need each other: closing the child's end hits no
  other stream only because every number has one owner. `ChildrenOK` follows a
  child's copy of the table: a file of another call in it is marked
  close-on-exec or its call failed, as no other call is between the locks; a
  file of its own is in its place or belongs to a stream that is still to be
  put there. The assumption about requests (`RequestsAssumption`) is the
  caller's part: an end that the object is going to own is named for one
  stream only. Two streams may share a child's end, which the hand-over then
  closes twice, before the mutex is released and so before another call can be
  given the number.

Only model-checked: everything under fairness (`AddedCallbackIsTaken`,
`StopEndsStart`, `CallsReturn`, `NoTimeoutStuck`, `RemovalCompletes`,
`KeepsFiring`, `AllDelivered`, `CallsEnd`), which is out of the prover's reach.
Proved and not checked by a run: `SizeSuffices`, `PartialCorrect`,
`ReadsTerminate`, `OnlyMoveAssignLeaks`, and the type invariants of
`IoLoopCallbacks`, `UniqueFd`, `TcpDatagram` and `Popen`.

## Not modelled, and plan

1. The rest of `epoll` (mod, swap, timed waits, moves), which the loop does not
   use, and the class `pipe`, two `unique_fd` that one `pipe2` call fills.

What was read and shows in no run, because nothing in the repository says what
it should be:

* `net::accept(sd, addr, port, flags)` does not pass its flags on
  (`src/src/net/accept.cpp:56`).
* `udp_socket::send(iovec, n, sockaddr)` resolves to the overload for a plain
  buffer and sends the `iovec` structures (`src/src/net/udp_socket.cpp:158`);
  this overload is not in `Sockets`.
* The non-throwing `pipe::read` and `pipe::write` report `errno` whether or not
  the call failed (`src/src/pipe.cpp`).

Left out for good: logging and error texts, address formatting, option tables,
build files, the tests and the examples; they keep no state.
