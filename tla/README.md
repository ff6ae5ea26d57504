# Verification of lm-transport

`lm-transport` is the transport layer of a small XMPP library (GObject C): a
host is looked up, its addresses are tried one after the other with
non-blocking `connect()`, and the connection is offered as a chain of
*channels* that turn main-loop events into signals.  This directory holds TLA+
models of it, the configurations that check them with TLC, and proofs that
TLAPS checks.

Contents: [the system](#the-system) · [modules](#the-modules-and-the-code) ·
[runs](#the-runs) · [fairness](#fairness) · [proofs](#the-proofs) ·
[findings](#findings) · [not modelled](#what-is-not-modelled) · [plan](#plan)

## The system

| component | code | state | operations | talks to |
|---|---|---|---|---|
| LmSocket | `lm-socket.c` | handle, io_channel, four watch pointers, connected, sa_iter | connect, close, read, write, finalize; callbacks for OUT, ERR, IN, HUP; the resolver's `finished` | kernel, main loop, LmResolver, LmSocketAddress, its user (signals) |
| LmSocketAddress | `lm-socket-address.c` | host, port, result list, one iterator, reference count | set_results, get_result_iter, iter_get_next, ref/unref | shared by sockets and resolvers |
| LmResolver, LmAsyncnsResolver | `lm-resolver.c`, `lm-asyncns-resolver.c` | session, query, watch on the session's descriptor, address | lookup_host, lookup_srv, cancel, the watch's callback | libasyncns, main loop, its user (`finished`) |
| LmBlockingResolver | `lm-blocking-resolver.c` | an idle source, the query's parameters | the same | main loop |
| SRV parser | `lm-resolver.c` `_lm_resolver_parse_srv_response` | none | bytes of a DNS answer to server and port | LmAsyncnsResolver |
| libasyncns | `asyncns.c` (vendored, built with the library) | table of 256 queries, a linked list of completed ones, id and index counters, dead; two datagram socket pairs; worker processes | getaddrinfo, getnameinfo, res_query, res_search, cancel, the `_done` functions, wait, free | its workers, by messages |
| LmChannel | `lm-channel.c` | the inner channel, signal connections | read, write, flush, close go inwards; opened, readable, writeable, closed go outwards | the next channel of the chain |
| LmSecureChannel, LmGnuTLSChannel | `lm-secure-channel.c`, `lm-gnutls-channel.c` | is_encrypted, the GnuTLS session | start_handshake, read, write, close | inner LmChannel, GnuTLS |
| wrappers | `lm-sock.c`, `lm-misc.c`, `lm-error.c` | none of their own | system calls and GSource helpers | |

The library runs in **one thread**.  What is concurrent all the same:

* the *kernel and the peer*, which settle and break connections between any two
  steps;
* the *main loop*, which polls once and dispatches every source that was ready,
  although the first callback may have changed what the next one acts on;
* the *client*, whose signal handlers run in the middle of the library's
  functions and call back in (close, connect, drop the last reference);
* the *worker processes* of a libasyncns session.

What makes each part hard, and what makes it correct:

* **LmSocket** – stale callbacks after a close or a reconnect in the same
  dispatch, re-entrance, a descriptor number that is reused, a connect attempt
  that fails late.  Correct when a connect has one true answer, when every
  result is tried before TRIED_ALL, when no callback runs for a connection that
  is gone, and when no descriptor is lost or closed under somebody else.
* **LmSocketAddress** – one iterator shared by all users.  Correct when each
  user sees every result once.
* **libasyncns** – reuse of slots and ids while messages are under way, workers
  that die, two bounded queues between processes that block.  Correct when each
  query gets its own answer once or the session is found dead, when the table
  and the list of completed queries stay consistent, and when nothing blocks for
  ever but a caller and workers whose full sockets wait for each other.  The reply format is correct when a reply is the whole list or says that
  it is not.
* **Resolvers** – an object that owns itself until it has answered, handlers that
  look up, cancel and unref in the middle of its functions, a session that may
  fail at every step.  Correct when each lookup is answered once and truly, or
  lost and then answered when it is cancelled; when no function runs on an object
  that is gone; and when all it took is given back once.
* **SRV parser** – positions in a packet that depend on names that may not
  expand.  Correct when it keeps the first of the best records, and gives up no
  packet that it can read.
* **Channels** – nested emissions, at several levels, of which any handler may
  close the bottom.  Correct when every level is told the same, in order, by its
  current inner channel, and an inner channel outlives those stacked on it.
* **TLS** – a handshake over a socket that would block, a session made for each
  connection and freed by close.  Correct when nothing passes in the clear once a
  handshake was asked for, when data comes only from a session whose handshake
  finished, and when each session is freed once, after its last use.

`PROJECT.json` lists under `hazards` where each of these bites, line by line.

## The modules and the code

| module | models | role |
|---|---|---|
| `LmSocket` | `lm-socket.c`, the iterator of `lm-socket-address.c`, and from outside the repository the kernel's connections and the main loop | state, actions, properties, mutants |
| `ChannelProtocol` | what a user of a bottom channel relies on | abstract specification |
| `LmSocketAddress` | `lm-socket-address.c` with those who share one address | state, actions, properties, mutants |
| `Asyncns` | the session of `asyncns.c` with its workers | state, actions, properties, mutants |
| `QueryService` | what `asyncns.h` promises | abstract specification |
| `AddrinfoReply` | how a result list travels in one datagram (`asyncns.c`) | state, actions, properties, mutants |
| `SrvResponse` | `_lm_resolver_parse_srv_response` of `lm-resolver.c` | state, actions, properties, mutants |
| `LmResolver` | `lm-resolver.c`: what both classes of resolvers share | state, operators, properties |
| `LmAsyncnsResolver` | `lm-asyncns-resolver.c`; extends `LmResolver` | actions, properties, mutants |
| `LmBlockingResolver` | `lm-blocking-resolver.c`; extends `LmResolver` | actions, properties, mutants |
| `LookupService` | what the users of a resolver rely on | abstract specification |
| `LmChannel` | `lm-channel.c`, over the bottom channel of `ChannelProtocol` | state, actions, properties, mutants |
| `LmGnuTLSChannel` | `lm-gnutls-channel.c`, `lm-secure-channel.c` | state, actions, properties, mutants |
| `MCLmSocket`, `MCAsyncns`, `MCFormats`, `MCResolvers`, `MCChannels` | | instances for TLC |
| `LmSocket_proofs`, `Asyncns_proofs`, `MCFormats_proofs`, `LmResolver_proofs`, `LmAsyncnsResolver_proofs`, `LmBlockingResolver_proofs`, `MCResolvers_proofs`, `MCChannels_proofs` | | theorems |

A definition with the comment "Mutant" is a deliberately wrong variant of the
definition below it; no specification uses it.  Each property has one that it
catches.

`MCFormats`, `MCResolvers` and `MCChannels` each hold several components that do
not touch each other's state: the variable `part` says which of them a behaviour
is one of, and the others rest.  A property such as `BothImplementLookup` or
`LoopsEnd` is the conjunction of those of the parts.

### LmSocket

`handle`, `channel`, `watches`, `connected` and `sa_iter` are the fields of
`LmSocketPriv`.  `conn` is what the kernel holds behind each descriptor, with
the error that `SO_ERROR` reports once.  `sources` and `pending` are the main
loop: the attached watches, and those that the last poll found ready.  A watch
is named by its socket, its condition and the connection attempt it was attached
in; a watch pointer remembers the attempt, so a pointer to a freed watch can be
told from a good one.

A signal emission is a call, so the model has a call `stack`.  A frame is what is
left to do of a C function that waits for a handler: the second emission of
`socket_emit_connect_result`, the reset of
`socket_emit_disconnected_and_cleanup`, the loop of
`socket_attempt_connect_next`, and the removal of a source whose callback
returned FALSE.  While a handler's frame is on top the client may call
`lm_socket_connect`, `lm_channel_close`, read or write, or drop its reference;
which of these it does is given by the constants `Habits`, `CloseIn` and
`ConnectIn`.  Every function between two emissions is one action.

`HangupIsWritable` says whether `poll()` reports OUT for a connection that was
refused or lost.  Linux does, POSIX allows either.  `SyncErrors` lets `socket()`
and `connect()` fail at once.

### LmSocketAddress

One address, the `Sockets` that keep a reference for all their life, the client's
own reference, and one for each lookup until it has finished.  Lists are numbered
in the order `set_results` was called with them, `freed` are those that
`freeaddrinfo` was called for, and an iterator that stands in a list is a pair of
the list and a position.  What `lm-socket.c` does with the results is reduced to
where each socket is in its walk (`walk`): `socket_attempt_connect_next` tries
entries until one can be connected to or none is left.  With `turns` the client
lets one socket walk at a time and closes one before it connects it again; both
kinds of clients are initial states of the run.

### Asyncns

As the build files have it, `HAVE_PTHREAD` is not defined: the workers are forked
processes, and once the caller has closed its copies of the far ends, `send()`
fails when they are gone.  The caller's functions are atomic except where they
can block: `call` is the function the caller is in (`send()` of a request, the
loop of `asyncns_wait`, the loop of `asyncns_free`).  `requests` and `responses`
are the datagrams in the two socket pairs, bounded by `QueueLen`; a sender with
no room waits.  A worker is idle, busy with a request, leaving (it sends
`RESPONSE_DIED`) or gone; one whose `recv()` or `send()` fails leaves, with what
it was at lost.  A query and a message also carry a serial number that
the code does not have; it says which question they belong to and lets the
properties tell a query from the one that took over its id.

Both sides send with a blocking `send()`, and only the caller drains the responses.
`BlockedByEachOther` is the state in which the caller waits for room among the
requests and no worker takes one, as those that are left wait for room among the
responses.  The code does get there, in the issuing calls and in `asyncns_free`.
`CallsReturn` says that a call returns unless that happens, and when it can;
`QueryService`, of which it is the state `stuck`, promises answers but for that.

Left out: user data pointers, the contents of questions and answers, the set-up
of a worker process (signals, descriptors, user id).

### AddrinfoReply

`send_addrinfo_reply` packs entries behind the header, `serialize_addrinfo`
decides what fits, `handle_response` unpacks.  An entry is its packed size.

### SrvResponse

A packet is a sequence of questions (its name expands or not) and of answers (it
is a SRV record or not, priority, port, and the name its target expands to).  One
action is one turn of a loop.  `aligned` says that the position is where the next
record begins; once it is not, what is read is any record at all, or no name.

### The resolvers

`LmResolver` holds what both classes share: the GObject (`life`, `ref_count`), the
client's reference (`held`), the main loop (`sources`, `pending`), the call stack
and `told`, the results that `finished` was emitted with.  A lookup that returns
to its caller has made an object that owns itself and gives that reference up
after the emission; each emission keeps one too.  What ends the process, a use
after free, an assertion that fails, a free of an unset pointer, is a value of
`fate`, so that the properties can say when it happens.

`LmAsyncnsResolver` gives each resolver a session of its own (`asyncns_ctx`,
`resolv_query`), with one worker and the datagrams it has sent (`inbox`): the
contract that `Asyncns` is shown to keep.  Session and request may fail
(`SessionFails`), a worker may leave (`WorkersLeave`) or end without a word
(`WorkersCrash`), a SRV answer may not parse (`BadAnswers`).  `LmBlockingResolver`
has an idle source in place of all that.  All host lookups share one address, of
which both modules count the references, but for the one that an emission of
`finished` holds on its boxed argument and gives back as it ends.

`habits` are what a client does that it should not: cancel a lookup that has been
answered, also in the handler (`cancel_when_told`), and drop a reference that it
does not have (`unref_borrowed`).

### LmChannel

`inner` is the pointer, `connected` the handlers on the signals of a channel in
the order they were connected: the outer channels', and the client's.  A frame
`emit` is an emission with the handlers still to be called; the handler of an
outer channel is an emission of its own, nested in it.  `phase` is the bottom
channel, which announces `connect_result` and `opened` in a row, then data, and
emits `closed` before its reset, as `ChannelProtocol` has it.  `seen` is what the
client has been told at each level.  A user has habits (`replace_inner`,
`stack_late`, `drop_outer`), and bounds of its own.

### LmGnuTLSChannel

`session` is the GnuTLS session, `incoming` and `unsent` what the kernel has
received for the socket and not yet delivered for it.  GnuTLS is modelled by what
its calls return, given what the socket holds: a message of a handshake, a
record, a goodbye, or something else.  `start_handshake`, `read` and `write` take
several turns, one for each call of `gnutls_handshake` and `gnutls_record_recv` or
`_send`, between which the peer goes on, but not the main loop.

## The runs

| run | instance | checks | states |
|---|---|---|---|
| `socket_posix` | one socket, 3 results, 2 connects, POSIX poll, careful client | `TypeOK`, `OnlyTrackedDispatched`, `LeaksOnlyDead`, `NoUseAfterFinalize`, `OkMeansEstablished`, `TriedAllMeansAll` | 10 374 |
| `socket_linux` | one socket, 2 results, 3 connects, Linux poll, careful client | `LeaksNothing`, `DataSignalsOnlyWhenOpen`, `ImplementsProtocol` | 1 687 |
| `socket_faults` | two sockets on one address, immediate failures, every bad habit | `HandlesOwned`, `WatchesNeedChannel` | 452 368 |
| `asyncns_one` | 1 worker that may leave, 4 slots, 5 queries of two kinds, 1 datagram a socket | `TypeOK`, `FirstInFirstOut`, `AnswersOwn`, `AssertionsHold`, `CallsReturn`, `ImplementsService` | 101 060 |
| `asyncns_table` | 2 workers that may crash, 3 slots, 6 ids, 6 queries, cancel at any time | `TableConsistent`, `DoneListExact` | 1 674 196 |
| `reply_pack` | all lists of up to 5 entries of 4 sizes, a buffer of 24; all SRV answers of up to 1 question and 3 records of 3 priorities and 2 ports | `TypesOK`, `ListArrives`, `BufferRespected`, `ResultExact`, `OwnerOnlyIfBad` | 2 524 795 |
| `resolvers` | two lookups of either class, with every failure; two sockets and up to three lookups on one address | `TypesOK`, `ReferencesKept`, `ReleasesOnce`, `FreedAtLast`, `WholeWalk`, `ResultTrue`, `BothImplementLookup` | 457 100 |
| `channels` | three channels and four users; a TLS channel, two connections, a careful client and any client | `TypesOK`, `InStep`, `RefsCounted`, `SessionFreedOnce`, `PlainOnlyBefore`, `InOrder`, `SignalsOfCurrentInner`, `DataOnlyFromSecure`, `LoopsEnd` | 316 854 |
| `socket_refused`, `socket_zero`, `asyncns_reuse`, `reply_assert` | | one property each, which is violated: see [findings](#findings) | |

Some properties are conjunctions of parts that a single mistake breaks together:
`ReleasesOnce` is `NothingLeftBehind` (no watch, session, worker or address of a
resolver that is gone) and `AddressCounted`; `SessionFreedOnce` is `SessionValid`
(not before its last use) and `SessionNotLeaked` (not never); `ListArrives` is
`WholeListOrError` and `HalfFits`; `ReferencesKept` holds the references of both
classes of resolvers; `LoopsEnd` is `HandshakeReturns` and `SpinsOnlyOnPeer`.

### What is asked of the client

**Of a socket's client** (`Habits = {}`): it does not close while a lookup is under
way, does not connect again after a failure without closing, closes once, does not
drop the socket inside a handler and does not read or write before `opened`.  It
does close in handlers, except in that of `closed` (it would recurse without end)
and in that of an OK `connect_result` (`opened` is emitted after it whatever it
did), and connects in handlers except in that of `closed` (the reset that
follows would undo it).  These are real limits of the code, found by checking
the same properties without them: each habit breaks at least one property of
`socket_posix`.  `HandlesOwned` and `WatchesNeedChannel` need no such client.

**Of a resolver's client** (`habits = {}`): it cancels only what is not answered
yet and drops only references it has.  It looks up, cancels and unrefs in any
handler.  `ReleasesOnce`, `FreedAtLast` and `ResultTrue` need no such client.

**Of a channel's client** (`Orderly`): it builds its stack before the socket opens,
and either has handlers at one level or does not close in them; with handlers at
two levels, of which the inner closes, the outer is told `opened` after `closed`.
`RefsCounted` needs none of this, and `SignalsOfCurrentInner` only that no inner
channel is replaced.

**Of the client of a TLS channel** (`careful`): on a second connection it starts the
handshake before it reads or writes, and once a connection; it calls nothing after
`closed` was emitted, but calls close once, also when the peer did so first.
`PlainOnlyBefore` and `DataOnlyFromSecure` need no such client.  `LoopsEnd` grants
any other client one more loop without an end, a write after the socket closed.

**Immediate failures** (`SyncErrors`) leave watches attached whose pointers the
next try overwrites; with them `OnlyTrackedDispatched`, `LeaksOnlyDead`,
`NoUseAfterFinalize`, `OkMeansEstablished`, `TriedAllMeansAll` and
`ImplementsProtocol` do not hold.  `socket_faults` checks what is left.

### Why the bounds are enough

* *Sockets.*  Three results give a first, a middle and a last try.  Two connects
  show what the first leaves behind for the second; three (in `socket_linux`) what
  is left after two.  `MaxTries` is results times connects, so no try is cut off;
  `MaxFd` leaves a free descriptor for each try that leaks one.  `MaxDepth` (3 or 4
  frames) allows a connect in a handler of a signal that was emitted by a
  callback.  Two sockets are the least that can take each other's descriptors or
  disturb each other's iterator.
* *Address.*  Three lookups replace a list twice, once under a socket that walks;
  two results make a walk that can be in the middle.
* *libasyncns.*  In `asyncns_table` three slots let a completed query be at the
  head, in the middle and at the tail of the list, and six ids over three slots let
  `current_id` wrap around once while `current_index` wraps twice.  In `asyncns_one`
  four queries may be outstanding on sockets that hold one datagram each: one more
  than both sockets and the worker hold, so that the caller and the worker do block
  each other, with the worker busy and with the worker leaving, in a request's
  `send()` and in that of `asyncns_free`.  The least number of unanswered queries
  with which they do, twice `QueueLen`, is reached.  Its fifth query takes over a
  slot and an id.
* *Formats.*  The sizes are such that lists end below, at and above half of the
  buffer, and that one entry alone can exceed what is left.  Priorities are below
  and at the start value (`StartPrio` = 2 for 9999), three records are the least
  in which the best is followed and preceded by another.
* *Resolvers.*  Two lookups: one in the handler of the other.  `MaxDepth` (4 frames)
  is a handler within a handler, each with what follows it; `MaxTold` (2) lets a
  lookup be told a second time.  `Bounded` keeps crashes and refused requests for
  the client without bad habits; `unref_borrowed` is left to the blocking class
  and, for the class with sessions, to the proofs.
* *Channels.*  Three levels are the least with a channel that is both inner and
  outer.  Two connects show what the first leaves behind.  `depth` allows an
  emission through all levels and another, of a close, on top of it.
* *TLS.*  Two messages complete a handshake (`Flights`), so that it can fail, or
  stop, in the middle.  Two unread messages and one unsent are enough for a
  message to be waiting behind another and for the socket to be full.

Every run sets `CHECK_DEADLOCK FALSE`: a client may stop connecting, a caller may
free its session and stop, a reply is packed and unpacked once.

## Fairness

* `LmSocket`: weak fairness of `Poll`, `Dispatch` and the return of C functions:
  one thread that runs the main loop.  Weak fairness of `Settle`: TCP gives up on
  a connection attempt (there is no timeout in the code).  Nothing is assumed of
  the client, the peer or the resolver: a lookup may never be answered, as
  `LookupService` has it.  So `ImplementsProtocol` promises an answer to a connect
  that has addresses to try, and none to one that is still looking them up.
* `Asyncns`: weak fairness of the caller's functions once entered (a call is
  scheduled again when `send()` or `select()` can go on) and of each worker;
  strong fairness of `asyncns_wait` while a response is waiting: the caller's main
  loop watches `asyncns_fd` and calls it in every poll until the socket is
  drained.  It does so only while it is in none of the session's functions, so that
  fairness ends no block.  Nothing is assumed of failures: `WorkerFails` and
  `WorkerCrashes` are not fair.
* `LmAsyncnsResolver`: weak fairness of the one thread (the return of C functions,
  the poll and the watches together: no source is starved, as a poll dispatches
  all it found), and of each worker's answer: the system's resolver answers or
  gives up.  A worker may always leave or crash instead.
* `LmBlockingResolver`: weak fairness of the one thread.
* `LmGnuTLSChannel`: weak fairness of the turns of the loops.  Nothing is assumed
  of the peer, so a loop may go round for ever while it is silent; that is what
  `SpinsOnlyOnPeer` allows, and a write on a closed socket by a client that is not
  careful; it allows no other.

## The proofs

Each module of proofs extends the module it is about; those of the components that
share a run extend its MC module, so that what the run checks of them together is
proved too.  Everything is proved for all values of the constants that satisfy the
assumptions named in the modules, and what a theorem assumes beyond them is in its
statement.  `PROJECT.json` lists the theorems.

| module | theorems | inductive invariant |
|---|---|---|
| `LmSocket_proofs` | any sockets and client: `TypeCorrect`, `HandlesOwnedAlways`, `WatchesNeedChannelAlways`; one socket, careful client: `OnlyTrackedDispatchedAlways`, `NoUseAfterFinalizeAlways`, `LeaksOnlyDeadAlways`, `LeaksNothingAlways`, `DataSignalsOnlyWhenOpenAlways`, `OkMeansEstablishedAlways`, `TriedAllMeansAllAlways`, `FollowsProtocol` | `TypeInv`; `AllSound` |
| `Asyncns_proofs` | any caller: `TypeCorrect`, `TableConsistentAlways`, `DoneListExactAlways`; one that cancels only what is done: `AnswersOwnAlways`, `AssertionsHoldAlways`, `FirstInFirstOutAlways`, `ServesQueries` | `Inv`; `ListOf`; `AnswersInv`; `Order`; `Sound` |
| `MCFormats_proofs` | `BufferRespectedAlways`, `ListArrivesAlways`, `BestRecordAlways`, `ResultExactAlways`, `OwnerOnlyIfBadAlways`, `TypesOKAlways` | `ReplyInv`; `OwnerInv` |
| `LmResolver_proofs` | lemmas for the two classes | `RefInv` |
| `LmAsyncnsResolver_proofs` | `NothingLeftBehindAlways`, `AddressCountedAlways`, `ReleasesOnceAlways`, `RefsBalancedAlways`, `NoUseAfterFinalizeAlways`, `AssertOnlyUnissuedAlways`, `ResultTrueAlways`, `ServesLookups` | `Tidy`, `Counted`, `Held`, `Sound` |
| `LmBlockingResolver_proofs` | `RefsBalancedAlways`, `NoUseAfterFinalizeAlways`, `SourceNeedsObjectAlways`, `AddressCountedAlways`, `ServesLookups` | `Sound`, `Counted` |
| `MCResolvers_proofs` | `FreedAtLastAlways`, `WholeWalkAlways`, `ReferencesKeptAlways`, `TypesOKAlways` | `WalkInv`; `PartsInv` |
| `MCChannels_proofs` | `RefsCountedAlways`, `SignalsOfCurrentInnerAlways`; an orderly client: `InStepAlways`, `InOrderAlways`; the TLS channel: `PlainOnlyBeforeAlways`, `DataOnlyFromSecureAlways`, `SessionFreedOnceAlways`, `TypesOKAlways` | `Inv`, `OneInner`, `Tidy`; `Guarded`, `Lifetimes` |

### LmSocket

Any number of sockets and any client.  `TypeOK` is not inductive: the count of
lookups is bounded only by the count of connects, and a watch attached in
`socket_out_cb` is typed only because a socket with a channel has had a try.
`TypeInv` adds `LookupsCounted` and `ChannelsCounted`.  `HandlesOwned` is inductive
relative to it: a descriptor enters a handle only from `socket()`, which returns one
that is free, hence nobody's; and it becomes free only when its one owner's reset
closes it and stores 0.  `WatchesNeedChannel` is inductive too: the pointers are set
in the two places that have a channel, and the channel becomes NULL only in
`socket_reset` after the pointers are cleared.

One socket and a careful client (`OneSocket`, `CarefulClient`), for any number of
results, connects and frames.  The client is the one of `socket_posix` and
`socket_linux`; why it must be, is [above](#what-is-asked-of-the-client).  One
socket, because a reset of another closes descriptor 0 whoever has it (finding 2):
with two sockets the properties are false.  The hard part is a state in the middle
of a C function with a client's calls stacked on it.  `StackShape` says what the
stack can be: handlers of calm signals and removals at the bottom, in which the
client may call in, and on top at most one function that is half done
(`Trying`, `Resetting`, `Opening`).  `Sound` adds, against that,

* `Flow`, `Lookup`, `Attempts`: what the signals have said (`phase`), whether a
  lookup is under way, and which results were tried;
* `Fields`, `GaveUp`: the fields of `LmSocketPriv` against each other, and what is
  left of a connection that failed;
* `SourcesKnown`, `Leaks`: a watch that no pointer names is the OUT watch of a dead
  connection, or about to be removed; and a descriptor that no handle names is such
  a connection's.  Neither exists where a hangup is writable, as on Linux;
* `PendingKnown`: what a poll found ready is still true when it is dispatched, and
  ERR comes without OUT exactly where a hangup is not writable.

The state properties follow from `Sound`, the action properties from what a step
says from a sound state (`Said`, `Announced`).  `FollowsProtocol` is the safety half
of `ImplementsProtocol`: initial states and steps are those of `ChannelProtocol`,
for the phase as its user sees it (`UserPhase`: a connect whose lookup is under way is
`looking_up`).  `LookupsStart` says that only a connect starts a lookup.

### Asyncns

`TypeCorrect` and `TableConsistentAlways` are one induction: that `n_queries` never
sinks below 0 follows from its being the number of queries, which needs a failing
`send()` to destroy a query that is in the table (`SendingUsed`).  That ids and slots
stay in step across the wrap of `current_id` rests on the lemmas about remainders at
the head of the module (`WalkInStep`), and on the number of ids being a multiple of
the number of slots (2^32 and 256).

`DoneListExactAlways`: that a sequence of distinct slots exists of which each is
linked to the next, its ends are head and tail, and which has every completed query
(`ListOf`).  A completion appends to it; taking or cancelling a query removes one
from anywhere.  That following the links walks it is `Followed`.

`AnswersOwnAlways` and `AssertionsHoldAlways` assume `~ CancelsPending`; without it
both are false (run `asyncns_reuse`).  What makes them inductive is `Flight`: every
message about a query, in a queue, with a worker or with the caller that is sending
it, finds in its slot the query it is about, not completed, and no two messages are
about one.  A step moves a message from one place to another (lemma `Moved`), adds
one for a slot that was free, or uses one up as its query is completed.
`MessageKinds` adds that questions go one way and answers the other.

`FirstInFirstOutAlways`: with one worker the session is a pipe.  `Order` has the
serials of the answered, the responses, what the worker is at, the requests and what
the caller is sending, each stage below the next and each queue sorted; so a
completion appends a serial above all those on the list.

`ServesQueries`: every behaviour of the session is one of `QueryService`, of which
`Service` gives the state: `Status` of the query of each serial, and whether the
session is up, dead or freed.  `Sound` adds to `AnswersInv` that a serial is in one
slot only.

### The formats

`BufferRespected` and `ListArrives`: while packing the length is that of what is
packed, and within the buffer; while unpacking it is that of the entries that are
packed and not taken (`Left`).  The sum `Packed` is defined by recursion, and that it
grows with the list is proved by the least number for which it would not, as are the
lemmas on the links of `Asyncns`: the library's induction theorems cannot be used.

`BestRecord` is the loop invariant of the parser: what is kept is the first of the
best records read so far.  `Progress` adds how far the loops have come and that a
well-formed packet keeps the position right, so that at the end the choice among the
records read is the choice among all.  `OwnerInv` adds that a lost position has a
reason in the packet.

### The resolvers

`RefsBalanced` counts frames: each emission on the call stack is a reference, and so
is a lookup until it gives up the one to itself.  `RefInv`, shared by both classes,
is that count for a client without habits; `LmResolver_proofs` has what pushing and
popping a frame does to it.  From it `NoUseAfterFinalize`, and, with what is true of
a watch that is attached (`Watched`), that `asyncns_isdone` asserts for none but
refused requests.  `NothingLeftBehind` and `AddressCounted` hold of any client: a
cleanup, which may run several times for one resolver, finds `sa` cleared after the
first.  `ResultTrue` and `ServesLookups` add that a lookup that cannot be answered
had a reason (`Explained`).  In the blocking class the pointer and the source part
company during an emission; `Attached` says which frame stands for the source.

`FreedAtLast` needs that the count is the number of those who keep a reference.
`WholeWalk` needs `Walked`: a socket that walks has tried the entries of one list
before the iterator, for sockets that take turns (`InTurns`).  In `MCResolvers_proofs` each
step of a run is one of a part while the others rest, so what was proved of the
parts holds of the whole (`ReferencesKept`, `TypesOK`).

### The channels

`RefsCounted`: `Counted` follows the references through the call stack; an emission
that is pushed or popped is counted by the lemmas `Push` and `Pop`, a handler that is
connected by `Joined`.  `FreedAtZero` and `InnerConnected` then give that an inner
channel, to which a reference is never given back, is there for whoever points to it.
`SignalsOfCurrentInner` needs `OneInner`: who replaces no inner channel has handlers
on the current one only, also in the emissions under way.

`InStep` and `InOrder` rest on `Tidy`, for a client that is `Orderly`.  An emission
still reaches the channels that stand on a handler it has yet to call, and its own if
that is the client's (`Waits`).  `ChannelOK`, of a channel with handlers of the client
that stands on the socket: at most one emission under way still reaches it, that one
says what is so, and what the client was told before is so but for that.  An outer
channel that is called splits the wait of an emission in two (`OverSplit`, from
`OuterNext`: the stack is a tree, so a channel stands on one of the handlers only).
A close starts an emission below others; that nobody waits for those holds since the
client's handler was the last thing its channel waited for (`HadTurn`) and, in
handlers, it closes only if there is no other channel it listens on.  Who is stacked
or connected later waits for nothing, as nothing is emitted while the stack is built
(`Later`).  `Within`, the least set closed under the inner pointers, stands for the
recursive `Inwards` (`InwardsIs`, by the least height at which they would differ);
that calls inwards come to an end is `StackingAssumption`.

`PlainOnlyBefore` needs that a channel whose handshake was asked for is encrypted,
or still in it (`Guarded`).  `SessionFreedOnce` needs `Lifetimes`, which relates the
session to what a careful client has done on this connection.

### Only model-checked

Liveness, which is out of the prover's reach: `CallsReturn`, `LoopsEnd`, and what
`ImplementsProtocol`, `ImplementsService` and `BothImplementLookup` say beyond the
steps.

## Findings

1. `socket_refused` – `socket_out_cb` (`lm-socket.c:460`) takes the first OUT event
   for success.  On Linux a refused connection polls OUT, ERR and HUP together,
   and OUT is dispatched first: the connection is reported as OK and opened, and
   the other results are not tried.
2. `socket_zero` – `socket_reset` (`lm-socket.c:321`) closes the handle and stores 0,
   a valid descriptor, which the next reset closes again.
3. `asyncns_reuse` – `alloc_query` (`asyncns.c:1113`) gives the id of a query that
   was just cancelled to the next one, whose answer is then the late response to
   the first, or a failed assertion.
4. `reply_assert` – `send_addrinfo_reply` (`asyncns.c:443`) passes what is left of
   the buffer where `serialize_addrinfo` compares with what is used: half of the
   buffer is lost, and 86 IPv6 results fail the assertion.

What follows was met while modelling and is part of the modules, as what the code
does; no run of its own shows it.

* `lm-asyncns-resolver.c:146`: for a request that was refused there is no query,
  and when the worker leaves, the watch asks `asyncns_isdone` about it, which
  asserts (`NoQuery`).  `AssertOnlyUnissued` says that it asserts for no other.
* `lm-asyncns-resolver.c:281`: without a session the lookup returns as if it had
  been started (`NoSession`); and `:144`: that `asyncns_wait` found a dead session
  is not looked at.  Both lose the lookup, until it is cancelled.
* `lm-asyncns-resolver.c:263`: `new_server` is freed although a parse that failed
  has not set it (`UnsetServerFreed`).
* `lm-resolver.c:298`: the second `dn_expand` is not checked (`Expanded`,
  `Aligned`); `:268`: records of priority 9999 and above are never preferred.
* `lm-socket-address.c:130`: the list that is replaced is never freed (`Replaced`).
* `lm-channel.c:380`: `set_inner` leaves the handlers on the inner channel there
  was, where a comment says "disconnect"; and `:175`: `finalize` leaves them too,
  so that a dropped channel is called by its inner one (`misused`).
* `lm-gnutls-channel.c:427`: `is_encrypted` is set whatever the handshake came to,
  also when it has only begun because the peer has not answered yet
  (`HandshakeEnds`, `HandshakeAgain`); what the check of the certificate says is
  not looked at.
* `lm-gnutls-channel.c:207`: a failed write is reported as `G_IO_STATUS_NORMAL`, as
  an unsigned number is compared with 0 (`StatusOf`).
* `lm-gnutls-channel.c:160`: the loop of `read` spins while the peer is silent.
* `lm-gnutls-channel.c:200`: a write on a socket that has closed never returns.
  `socket_write` says EOF (`lm-socket.c:257`), `push_func` makes 0 of it (`:477`),
  GnuTLS has sent nothing and met no error, and the loop asks again (`SendFails`).
* `asyncns.c:842`, `:1185`: the caller and the workers can block each other for ever
  on two full sockets (`BlockedByEachOther`).  A resolver's session has one query,
  and so never does.
* `lm-secure-channel.c:187`: no class sets `is_encrypted`, and the call ends in
  `g_assert_not_reached`.

## What is not modelled

* The main context that a resolver may be given (`lm-resolver.c:142-164`): all
  sources are of one loop.
* The comparison of fingerprints and the credentials of the TLS channel: they
  decide nothing, as no problem of a certificate is ever refused.  The record
  protocol of GnuTLS: a library.
* The port that `set_results` writes into the entries; `iter_reset`, which has no
  caller.
* `lm-sock.c` and `lm-misc.c`, but for `_lm_sock_close`, `_lm_sock_get_error`,
  `lm_misc_add_io_watch` and the idle sources, which are in the modules of their
  callers: the rest keeps no state.  `lm-error.c`: a quark.
* `lm-old-socket.c`, `lm-dummy.c`, `lm-idummy.c`, `lm-gnutls-socket.c`,
  `first_iteration/`: not compiled, or templates nobody calls.  `test*.c` are the
  reference for what a client does.
* A worker of `Asyncns` that dies without a word is modelled (`WorkersCrash`) but
  nothing in the code notices it, so no liveness property of the session is
  checked with it; the resolver's is.

## Plan

Done: `LmSocket`, `Asyncns`, `AddrinfoReply`, `SrvResponse`, the resolvers,
`LmSocketAddress`, `LmChannel`, `LmGnuTLSChannel`; theorems for every safety property
that a run checks, and for the steps of the three refinements.  Left, in order of
importance:

1. **Transport**: `LmSocket`, a resolver and a secure channel composed, with the
   client of `test-secure.c`, in place of the contracts by which each module knows
   the next.
