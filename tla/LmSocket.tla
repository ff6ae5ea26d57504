------------------------------ MODULE LmSocket ------------------------------
(***************************************************************************)
(* LmSocket (src/lm-socket.c): the bottom channel of the library.  It      *)
(* looks a host up, tries the results one after the other with             *)
(* non-blocking connect(), and turns the main loop's I/O events into the   *)
(* signals connect_result, opened, readable, writeable and closed.         *)
(*                                                                         *)
(* Everything runs in one thread.  What interleaves is                     *)
(*   - the kernel, which settles connections between any two steps;        *)
(*   - the main loop, which polls once and then dispatches every source    *)
(*     that was ready, although the first callbacks may have changed what  *)
(*     the later ones act on;                                              *)
(*   - the client, which is called in the middle of the library's          *)
(*     functions (a signal emission is a call) and may call back in.       *)
(* The last one is why the model has a call stack: a frame is the rest of  *)
(* a C function that is waiting for a signal emission to return.           *)
(***************************************************************************)
EXTENDS Integers, Sequences

CONSTANTS
  Sockets,          \* LmSocket objects
  Addresses,        \* LmSocketAddress objects
  AddressOf,        \* the "address" property of each socket
  NumResults,       \* getaddrinfo results of an address
  MaxFd,            \* the last descriptor of the process (RLIMIT_NOFILE)
  MaxConnects,      \* bound: calls of lm_socket_connect on each socket
  MaxTries,         \* bound: descriptors each socket obtains from socket()
  MaxDepth,         \* bound: nesting of calls from signal handlers
  HangupIsWritable, \* a dead connection also polls OUT (Linux: yes, POSIX: no)
  SyncErrors,       \* socket() and connect() may fail at once
  Habits,           \* what the client does, a subset of AllHabits
  CloseIn,          \* the signals in whose handlers it calls lm_channel_close
  ConnectIn         \* the signals in whose handlers it calls lm_socket_connect

Conds   == {"OUT", "ERR", "IN", "HUP"}
Results == {"ok", "dns", "tried_all"}                    \* of connect_result
Signals == Results \cup {"opened", "readable", "writeable", "closed"}
AllHabits == {"close_while_resolving", "connect_after_failure", "close_twice",
              "unref_in_handler", "use_before_opened"}

ASSUME BoundsAssumption ==
  /\ NumResults \in Nat \ {0} /\ MaxFd \in Nat \ {0} /\ MaxConnects \in Nat
  /\ MaxTries \in Nat /\ MaxDepth \in Nat
ASSUME AddressAssumption == AddressOf \in [Sockets -> Addresses]
ASSUME RegimeAssumption ==
  /\ HangupIsWritable \in BOOLEAN /\ SyncErrors \in BOOLEAN
  /\ Habits \subseteq AllHabits /\ CloseIn \subseteq Signals /\ ConnectIn \subseteq Signals

Fds  == 0 .. MaxFd
NULL == -1         \* no GIOChannel; as a handle, socket() failed

(* What the kernel holds behind a descriptor.  "stdin" is what descriptor 0 *)
(* is at the start; "failed" and "lost" hold a pending SO_ERROR, which      *)
(* getsockopt, read or write consumes ("spent", "hung"); "failed" and       *)
(* "spent" were never connected.                                            *)
EverUp == {"up", "upin", "eof", "lost", "hung"}
Conns  == {"free", "stdin", "syn", "failed", "spent"} \cup EverUp

VARIABLES
  conn,        \* kernel: the state behind each descriptor
  sources,     \* main loop: the attached I/O watches
  pending,     \* main loop: those found ready by the last poll, not yet dispatched
  handle,      \* priv->handle (0 is also what the code stores for "none")
  channel,     \* priv->io_channel, as the descriptor it wraps
  watches,     \* priv->watches: the try whose watch each pointer is, 0 for NULL
  connected,   \* priv->connected
  sa_iter,     \* priv->sa_iter is set
  resolved,    \* of an address: sa->results is set
  current,     \* of an address: position of the one iterator all its users share
  lookups,     \* resolver lookups whose "finished" goes to the socket
  stack,       \* the C call stack, innermost call first
  crashed,     \* the process used the memory of a finalized socket
  alive,       \* the client still holds its reference
  tries,       \* descriptors obtained so far; names a socket's watches
  connects,    \* calls of lm_socket_connect so far
  phase,       \* history: what the signals have told the client
  attempted    \* history: the results tried since lm_socket_connect

kernelVars  == <<conn>>
loopVars    == <<sources, pending>>
privVars    == <<handle, channel, watches, connected, sa_iter>>
addressVars == <<resolved, current, lookups>>
clientVars  == <<phase, connects, attempted, alive>>
vars == <<kernelVars, loopVars, privVars, addressVars, clientVars, stack, crashed, tries>>

-----------------------------------------------------------------------------
(* Watches and frames *)

Watches == [sock : Sockets, cond : Conds, try : 1 .. MaxTries, fd : Fds]
Watch(s, c, t, f) == [sock |-> s, cond |-> c, try |-> t, fd |-> f]

(* Which conditions poll() reports.  A closed descriptor only gives NVAL,  *)
(* which none of the four watches asks for.                                *)
Ready(k) ==
  LET dead == IF HangupIsWritable THEN {"HUP", "IN", "OUT"} ELSE {"HUP", "IN"}
  IN  CASE k = "up"                -> {"OUT"}
        [] k \in {"upin", "eof"}   -> {"OUT", "IN"}
        [] k \in {"failed", "lost"} -> dead \cup {"ERR"}
        [] k \in {"spent", "hung"} -> dead
        [] OTHER                   -> {}

(* SO_ERROR is reported once. *)
Consumed(k) == CASE k = "failed" -> "spent" [] k = "lost" -> "hung" [] OTHER -> k

(* The main loop dispatches in the order of attachment: OUT and ERR are    *)
(* attached by socket_attempt_connect, IN and HUP by socket_out_cb.        *)
Rank == [c \in Conds |-> CASE c = "OUT" -> 1 [] c = "ERR" -> 2 [] c = "IN" -> 3
                           [] c = "HUP" -> 4]
Older(x, y) == /\ x.sock = y.sock
               /\ x.try < y.try \/ (x.try = y.try /\ Rank[x.cond] < Rank[y.cond])

Handler(s, sig) == [op |-> "handler", sock |-> s, sig |-> sig]  \* client code
Opened(s)       == [op |-> "opened", sock |-> s]  \* rest of socket_emit_connect_result
Reset(s)        == [op |-> "reset", sock |-> s]   \* rest of ..._disconnected_and_cleanup
TryNext(s)      == [op |-> "next", sock |-> s]    \* the loop of socket_attempt_connect_next
Remove(x)       == [op |-> "remove", sock |-> x.sock, src |-> x]  \* "return FALSE"

Frames == [op : {"handler"}, sock : Sockets, sig : Signals]
            \cup [op : {"opened", "reset", "next"}, sock : Sockets]
            \cup [op : {"remove"}, sock : Sockets, src : Watches]

Top(op) == stack # <<>> /\ Head(stack).op = op

(* g_signal_emit: the handler runs first, then what is left of the caller. *)
Phase(p, sig) == CASE sig = "ok"                 -> "connected"
                   [] sig \in {"dns", "tried_all"} -> "failed"
                   [] sig = "opened"             -> "open"
                   [] sig = "closed"             -> "idle"
                   [] OTHER                      -> p
Emit(s, sig, rest) ==
  /\ stack' = <<Handler(s, sig)>> \o rest
  /\ phase' = [phase EXCEPT ![s] = Phase(@, sig)]

Phases == {"idle", "connecting", "failed", "connected", "open"}

-----------------------------------------------------------------------------
TypeOK ==
  /\ conn \in [Fds -> Conns]
  /\ sources \in SUBSET Watches
  /\ pending \in SUBSET Watches
  /\ handle \in [Sockets -> Fds \cup {NULL}]
  /\ channel \in [Sockets -> Fds \cup {NULL}]
  /\ watches \in [Sockets -> [Conds -> 0 .. MaxTries]]
  /\ connected \in [Sockets -> BOOLEAN]
  /\ sa_iter \in [Sockets -> BOOLEAN]
  /\ resolved \in [Addresses -> BOOLEAN]
  /\ current \in [Addresses -> 1 .. NumResults + 1]
  /\ lookups \in [Sockets -> 0 .. MaxConnects]
  /\ stack \in Seq(Frames)
  /\ crashed \in BOOLEAN
  /\ alive \in [Sockets -> BOOLEAN]
  /\ tries \in [Sockets -> 0 .. MaxTries]
  /\ connects \in [Sockets -> 0 .. MaxConnects]
  /\ phase \in [Sockets -> Phases]
  /\ attempted \in [Sockets -> SUBSET (1 .. NumResults)]

lm_socket_init ==
  /\ handle = [s \in Sockets |-> 0]
  /\ channel = [s \in Sockets |-> NULL]
  /\ watches = [s \in Sockets |-> [c \in Conds |-> 0]]
  /\ connected = [s \in Sockets |-> FALSE]
  /\ sa_iter = [s \in Sockets |-> FALSE]

Init ==
  /\ conn = [f \in Fds |-> IF f = 0 THEN "stdin" ELSE "free"]
  /\ sources = {}
  /\ pending = {}
  /\ lm_socket_init
  /\ resolved = [a \in Addresses |-> FALSE]
  /\ current = [a \in Addresses |-> 1]
  /\ lookups = [s \in Sockets |-> 0]
  /\ stack = <<>>
  /\ crashed = FALSE
  /\ alive = [s \in Sockets |-> TRUE]
  /\ tries = [s \in Sockets |-> 0]
  /\ connects = [s \in Sockets |-> 0]
  /\ phase = [s \in Sockets |-> "idle"]
  /\ attempted = [s \in Sockets |-> {}]

-----------------------------------------------------------------------------
(* The client's calls.  It is in control between two dispatches and in the *)
(* handlers it has connected.                                              *)

ClientIn(sigs) ==
  /\ \/ stack = <<>>
     \/ Top("handler") /\ Head(stack).sig \in sigs
  /\ Len(stack) < MaxDepth

lm_socket_connect(s) ==
  /\ alive[s] /\ ClientIn(ConnectIn)
  /\ \/ phase[s] = "idle"
     \/ phase[s] = "failed" /\ "connect_after_failure" \in Habits
  /\ connects[s] < MaxConnects
  /\ connects' = [connects EXCEPT ![s] = @ + 1]
  /\ phase' = [phase EXCEPT ![s] = "connecting"]
  /\ attempted' = [attempted EXCEPT ![s] = {}]
  /\ \/ /\ ~ resolved[AddressOf[s]]
        /\ lookups' = [lookups EXCEPT ![s] = @ + 1]
        /\ UNCHANGED stack
     \/ /\ resolved[AddressOf[s]]
        /\ stack' = <<TryNext(s)>> \o stack
        /\ UNCHANGED lookups
  /\ UNCHANGED <<kernelVars, loopVars, privVars, resolved, current, alive, crashed, tries>>

(* lm_channel_close: emits closed (REQUESTED), then resets. *)
socket_close(s) ==
  /\ alive[s] /\ ClientIn(CloseIn)
  /\ phase[s] # "idle" \/ "close_twice" \in Habits
  /\ lookups[s] = 0 \/ "close_while_resolving" \in Habits
  /\ Emit(s, "closed", <<Reset(s)>> \o stack)
  /\ UNCHANGED <<kernelVars, loopVars, privVars, addressVars, connects, attempted, alive,
                 crashed, tries>>

(* recv() on the channel's descriptor takes the data or the pending error. *)
socket_read(s) ==
  /\ alive[s] /\ ClientIn({"readable"}) /\ channel[s] # NULL
  /\ phase[s] = "open" \/ "use_before_opened" \in Habits
  /\ conn' = [conn EXCEPT ![channel[s]] = IF @ = "upin" THEN "up" ELSE Consumed(@)]
  /\ UNCHANGED <<loopVars, privVars, addressVars, clientVars, stack, crashed, tries>>

socket_write(s) ==
  /\ alive[s] /\ ClientIn({"opened", "readable", "writeable"}) /\ channel[s] # NULL
  /\ phase[s] = "open" \/ "use_before_opened" \in Habits
  /\ conn' = [conn EXCEPT ![channel[s]] = Consumed(@)]
  /\ UNCHANGED <<loopVars, privVars, addressVars, clientVars, stack, crashed, tries>>

-----------------------------------------------------------------------------
(* socket_reset *)

Tracked(s) == {x \in sources : x.sock = s /\ watches[s][x.cond] = x.try}

(* A pointer whose watch the main loop has already freed. *)
Dangling(s, c) ==
  watches[s][c] # 0 /\ \A x \in sources : ~ (x.sock = s /\ x.cond = c /\ x.try = watches[s][c])

(* g_source_destroy on a dangling pointer acts on freed memory: nothing    *)
(* happens, or the block has become the watch of another socket since.     *)
Destroyed(s) ==
  {{}} \cup IF \E c \in Conds : Dangling(s, c)
              THEN {{x} : x \in {y \in sources : y.sock # s}} ELSE {}

(* Mutant: the watches are destroyed but the pointers not set to NULL. *)
DisconnectKeepsPointers(s) ==
  /\ sources' = IF channel[s] = NULL THEN sources ELSE sources \ Tracked(s)
  /\ pending' = IF channel[s] = NULL THEN pending ELSE pending \ Tracked(s)
  /\ UNCHANGED watches

(* Mutant: the watches are not destroyed. *)
DisconnectNothing(s) == UNCHANGED <<sources, pending, watches>>

(* Without an io_channel the watch pointers are left as they are. *)
socket_disconnect_io_watches(s) ==
  \/ /\ channel[s] # NULL
     /\ \E hit \in Destroyed(s) :
          LET gone == Tracked(s) \cup hit
          IN  /\ sources' = sources \ gone
              /\ pending' = pending \ gone
     /\ watches' = [watches EXCEPT ![s] = [c \in Conds |-> 0]]
  \/ /\ channel[s] = NULL
     /\ UNCHANGED <<sources, pending, watches>>

(* Mutant: the descriptor is never closed. *)
CloseNothing(f) == conn

_lm_sock_close(f) == [g \in Fds |-> IF g = f THEN "free" ELSE conn[g]]

(* Mutant: the handle keeps the number of the closed descriptor. *)
ResetKeepsHandle(s) ==
  /\ connected' = [connected EXCEPT ![s] = FALSE]
  /\ sa_iter' = [sa_iter EXCEPT ![s] = FALSE]
  /\ socket_disconnect_io_watches(s)
  /\ channel' = [channel EXCEPT ![s] = NULL]
  /\ conn' = _lm_sock_close(handle[s])
  /\ UNCHANGED handle

(* Mutant: connected is not cleared. *)
ResetKeepsConnected(s) ==
  /\ sa_iter' = [sa_iter EXCEPT ![s] = FALSE]
  /\ socket_disconnect_io_watches(s)
  /\ channel' = [channel EXCEPT ![s] = NULL]
  /\ conn' = _lm_sock_close(handle[s])
  /\ handle' = [handle EXCEPT ![s] = 0]
  /\ UNCHANGED connected

(* Mutant: the handle is cleared first, so 0 is what is closed. *)
ResetClearsFirst(s) ==
  /\ connected' = [connected EXCEPT ![s] = FALSE]
  /\ sa_iter' = [sa_iter EXCEPT ![s] = FALSE]
  /\ socket_disconnect_io_watches(s)
  /\ channel' = [channel EXCEPT ![s] = NULL]
  /\ handle' = [handle EXCEPT ![s] = 0]
  /\ conn' = _lm_sock_close(0)

socket_reset(s) ==
  /\ connected' = [connected EXCEPT ![s] = FALSE]
  /\ sa_iter' = [sa_iter EXCEPT ![s] = FALSE]
  /\ socket_disconnect_io_watches(s)
  /\ channel' = [channel EXCEPT ![s] = NULL]
  /\ conn' = _lm_sock_close(handle[s])
  /\ handle' = [handle EXCEPT ![s] = 0]

socket_emit_disconnected_and_cleanup ==
  /\ Top("reset") /\ alive[Head(stack).sock]
  /\ socket_reset(Head(stack).sock)
  /\ stack' = Tail(stack)
  /\ UNCHANGED <<addressVars, clientVars, crashed, tries>>

(* The last g_object_unref outside a handler. *)
socket_finalize(s) ==
  /\ alive[s] /\ stack = <<>>
  /\ phase[s] = "idle" \/ "unref_in_handler" \in Habits
  /\ lookups[s] = 0 \/ "close_while_resolving" \in Habits
  /\ alive' = [alive EXCEPT ![s] = FALSE]
  /\ socket_reset(s)
  /\ UNCHANGED <<addressVars, phase, connects, attempted, stack, crashed, tries>>

-----------------------------------------------------------------------------
(* Connecting *)

LowestFree(f) == conn[f] = "free" /\ \A g \in Fds : g < f => conn[g] # "free"

(* The OUT and ERR watches of a new io_channel.  Those of the channel it   *)
(* replaces stay attached, and so does its descriptor stay open.           *)
AttachConnectWatches(s, f) ==
  LET t == tries[s] + 1
  IN  /\ tries' = [tries EXCEPT ![s] = t]
      /\ channel' = [channel EXCEPT ![s] = f]
      /\ watches' = [watches EXCEPT ![s] = [@ EXCEPT !["OUT"] = t, !["ERR"] = t]]
      /\ sources' = sources \cup {Watch(s, "OUT", t, f), Watch(s, "ERR", t, f)}

(* Phase 1: no descriptor.  The loop goes on with the next result. *)
NoDescriptor(s) ==
  /\ SyncErrors \/ \A f \in Fds : conn[f] # "free"
  /\ handle' = [handle EXCEPT ![s] = NULL]
  /\ UNCHANGED <<conn, channel, watches, sources, tries, stack>>

(* Phase 2: connect() fails at once.  The descriptor is closed, its        *)
(* watches stay.                                                           *)
ConnectFails(s) ==
  /\ SyncErrors /\ tries[s] < MaxTries
  /\ \E f \in Fds : LowestFree(f) /\ AttachConnectWatches(s, f)
  /\ handle' = [handle EXCEPT ![s] = 0]
  /\ UNCHANGED <<conn, stack>>

(* connect() succeeds or is in progress: the loop ends. *)
ConnectStarts(s) ==
  /\ tries[s] < MaxTries
  /\ \E f \in Fds, k \in {"syn", "up"} :
       /\ LowestFree(f)
       /\ AttachConnectWatches(s, f)
       /\ handle' = [handle EXCEPT ![s] = f]
       /\ conn' = [conn EXCEPT ![f] = k]
  /\ stack' = Tail(stack)

socket_attempt_connect(s) == NoDescriptor(s) \/ ConnectFails(s) \/ ConnectStarts(s)

(* Mutant: the results counted from 0. *)
PositionFromZero(s) == IF sa_iter[s] THEN current[AddressOf[s]] ELSE 0

(* Mutant: the iterator is not rewound for a new connect. *)
PositionNotRewound(s) == current[AddressOf[s]]

(* One turn of the loop.  lm_socket_address_get_result_iter rewinds the    *)
(* iterator the address shares among its sockets.                          *)
Position(s) == IF sa_iter[s] THEN current[AddressOf[s]] ELSE 1

socket_attempt_connect_next ==
  /\ Top("next") /\ alive[Head(stack).sock]
  /\ LET s == Head(stack).sock
         i == Position(s)
     IN  /\ sa_iter' = [sa_iter EXCEPT ![s] = TRUE]
         /\ \/ /\ i > NumResults
               /\ current' = [current EXCEPT ![AddressOf[s]] = i]
               /\ Emit(s, "tried_all", Tail(stack))
               /\ UNCHANGED <<conn, sources, handle, channel, watches, tries, attempted>>
            \/ /\ i <= NumResults
               /\ current' = [current EXCEPT ![AddressOf[s]] = i + 1]
               /\ attempted' = [attempted EXCEPT ![s] = @ \cup {i}]
               /\ socket_attempt_connect(s)
               /\ UNCHANGED phase
  /\ UNCHANGED <<pending, connected, resolved, lookups, connects, alive, crashed>>

(* The resolver stores the results and emits finished.  A closed socket    *)
(* has not cancelled its lookup; a finalized one is still its user data.   *)
socket_resolver_finished_cb(s) ==
  /\ stack = <<>> /\ lookups[s] > 0
  /\ lookups' = [lookups EXCEPT ![s] = @ - 1]
  /\ \/ /\ ~ alive[s]
        /\ crashed' = TRUE
        /\ UNCHANGED <<resolved, stack, phase>>
     \/ /\ alive[s]
        /\ Emit(s, "dns", <<>>)
        /\ UNCHANGED <<resolved, crashed>>
     \/ /\ alive[s]
        /\ resolved' = [resolved EXCEPT ![AddressOf[s]] = TRUE]
        /\ stack' = <<TryNext(s)>>
        /\ UNCHANGED <<phase, crashed>>
  /\ UNCHANGED <<kernelVars, loopVars, privVars, current, connects, attempted, alive, tries>>

-----------------------------------------------------------------------------
(* The callbacks of the four watches *)

socket_in_cb(x) ==
  /\ x.cond = "IN"
  /\ Emit(x.sock, "readable", <<>>)
  /\ UNCHANGED <<conn, sources, privVars>>

(* lm_misc_add_io_watch returns NULL when there is no channel. *)
socket_out_cb(x) ==
  LET s == x.sock
      t == IF channel[s] = NULL THEN 0 ELSE tries[s]
  IN  /\ x.cond = "OUT"
      /\ \/ /\ connected[s]
            /\ Emit(s, "writeable", <<>>)
            /\ UNCHANGED <<sources, watches, connected>>
         \/ /\ ~ connected[s]
            /\ watches' = [watches EXCEPT ![s] = [@ EXCEPT !["IN"] = t, !["HUP"] = t]]
            /\ sources' = sources \cup
                 IF channel[s] = NULL THEN {}
                 ELSE {Watch(s, "IN", t, channel[s]), Watch(s, "HUP", t, channel[s])}
            /\ connected' = [connected EXCEPT ![s] = TRUE]
            /\ Emit(s, "ok", <<Opened(s)>>)
      /\ UNCHANGED <<conn, handle, channel, sa_iter>>

(* Mutant: SO_ERROR is not looked at. *)
ErrIgnoresError(x) ==
  /\ x.cond = "ERR"
  /\ connected' = [connected EXCEPT ![x.sock] = TRUE]
  /\ Emit(x.sock, "ok", <<Opened(x.sock)>>)
  /\ UNCHANGED <<conn, sources, handle, channel, watches, sa_iter>>

(* getsockopt fails on a handle that is no socket and leaves err unset. *)
IsSocket(f) == f \in Fds /\ conn[f] \notin {"free", "stdin"}

socket_err_cb(x) ==
  LET s == x.sock
  IN  /\ x.cond = "ERR"
      /\ \/ /\ connected[s]
            /\ Emit(s, "closed", <<Reset(s), Remove(x)>>)
            /\ UNCHANGED conn
         \/ /\ ~ connected[s]
            /\ IF IsSocket(handle[s])
                 THEN conn' = [conn EXCEPT ![handle[s]] = Consumed(@)]
                 ELSE UNCHANGED conn
            /\ stack' = <<TryNext(s), Remove(x)>>
            /\ UNCHANGED phase
         \/ /\ ~ connected[s] /\ ~ IsSocket(handle[s])
            /\ UNCHANGED <<conn, stack, phase>>
      /\ UNCHANGED <<sources, privVars>>

socket_hup_cb(x) ==
  /\ x.cond = "HUP"
  /\ Emit(x.sock, "closed", <<Reset(x.sock), Remove(x)>>)
  /\ UNCHANGED <<conn, sources, privVars>>

-----------------------------------------------------------------------------
(* The main loop *)

Poll ==
  /\ stack = <<>> /\ pending = {}
  /\ pending' = {x \in sources : x.cond \in Ready(conn[x.fd])}
  /\ pending' # {}
  /\ UNCHANGED <<kernelVars, sources, privVars, addressVars, clientVars, stack, crashed, tries>>

Dispatch ==
  /\ stack = <<>>
  /\ \E x \in pending :
       /\ \A y \in pending : ~ Older(y, x)
       /\ pending' = pending \ {x}
       /\ \/ /\ alive[x.sock]
             /\ socket_in_cb(x) \/ socket_out_cb(x) \/ socket_err_cb(x) \/ socket_hup_cb(x)
             /\ UNCHANGED crashed
          \/ /\ ~ alive[x.sock]
             /\ crashed' = TRUE
             /\ UNCHANGED <<conn, sources, privVars, stack, phase>>
  /\ UNCHANGED <<addressVars, connects, attempted, alive, tries>>

(* A callback that returned FALSE has its watch destroyed. *)
RemoveSource ==
  /\ Top("remove")
  /\ sources' = sources \ {Head(stack).src}
  /\ pending' = pending \ {Head(stack).src}
  /\ stack' = Tail(stack)
  /\ UNCHANGED <<kernelVars, privVars, addressVars, clientVars, crashed, tries>>

HandlerReturns ==
  /\ Top("handler")
  /\ stack' = Tail(stack)
  /\ UNCHANGED <<kernelVars, loopVars, privVars, addressVars, clientVars, crashed, tries>>

(* The handler has dropped the last reference: the emission, which holds   *)
(* one of its own, finalizes the socket as it ends.                        *)
HandlerDropsSocket ==
  /\ Top("handler") /\ "unref_in_handler" \in Habits
  /\ LET s == Head(stack).sock
     IN  /\ alive[s]
         /\ \A i \in 2 .. Len(stack) : ~ (stack[i].op = "handler" /\ stack[i].sock = s)
         /\ alive' = [alive EXCEPT ![s] = FALSE]
         /\ socket_reset(s)
  /\ stack' = Tail(stack)
  /\ UNCHANGED <<addressVars, phase, connects, attempted, crashed, tries>>

socket_emit_connect_result ==
  /\ Top("opened") /\ alive[Head(stack).sock]
  /\ Emit(Head(stack).sock, "opened", Tail(stack))
  /\ UNCHANGED <<kernelVars, loopVars, privVars, addressVars, connects, attempted, alive,
                 crashed, tries>>

(* The rest of a function whose socket was finalized under it. *)
UseAfterFinalize ==
  /\ Top("opened") \/ Top("reset") \/ Top("next")
  /\ ~ alive[Head(stack).sock]
  /\ crashed' = TRUE
  /\ UNCHANGED <<kernelVars, loopVars, privVars, addressVars, clientVars, stack, tries>>

Return ==
  \/ socket_attempt_connect_next \/ socket_emit_connect_result
  \/ socket_emit_disconnected_and_cleanup \/ RemoveSource
  \/ HandlerReturns \/ HandlerDropsSocket \/ UseAfterFinalize

-----------------------------------------------------------------------------
(* The kernel and the peer *)

Moves(f, from, to) ==
  /\ conn[f] \in from
  /\ conn' = [conn EXCEPT ![f] = to]
  /\ UNCHANGED <<loopVars, privVars, addressVars, clientVars, stack, crashed, tries>>

Settle(f)  == Moves(f, {"syn"}, "up") \/ Moves(f, {"syn"}, "failed")
Traffic(f) == \/ Moves(f, {"up"}, "upin")
              \/ Moves(f, {"up", "upin"}, "eof")
              \/ Moves(f, {"up", "upin", "eof"}, "lost")

-----------------------------------------------------------------------------
Next ==
  /\ ~ crashed
  /\ \/ \E s \in Sockets :
          \/ lm_socket_connect(s) \/ socket_close(s)
          \/ socket_read(s) \/ socket_write(s)
          \/ socket_finalize(s) \/ socket_resolver_finished_cb(s)
     \/ Poll \/ Dispatch \/ Return
     \/ \E f \in Fds : Settle(f) \/ Traffic(f)

Spec == Init /\ [][Next]_vars

(* The main loop polls and dispatches every ready source, C functions      *)
(* return, and TCP gives up on a connection attempt in the end.  Nothing   *)
(* is assumed of the resolver: a lookup whose session could not be created *)
(* or has died is never answered (src/lm-asyncns-resolver.c:281 and 144).  *)
Fairness ==
  /\ WF_vars(~ crashed /\ Poll)
  /\ WF_vars(~ crashed /\ Dispatch)
  /\ WF_vars(~ crashed /\ Return)
  /\ \A f \in Fds : WF_vars(~ crashed /\ Settle(f))

FairSpec == Spec /\ Fairness

-----------------------------------------------------------------------------
(* Properties *)

(* A handle other than 0 is a descriptor this socket obtained from         *)
(* socket() and has not closed, and no other socket has it: whatever       *)
(* fails, whatever is closed twice and whoever reuses a descriptor number, *)
(* socket_reset closes nobody else's connection.  (0, which stands for "no *)
(* handle" and is closed all the same, has no owner.)                      *)
HandlesOwned ==
  \A s \in Sockets :
    handle[s] > 0 => /\ conn[handle[s]] \notin {"free", "stdin"}
                     /\ \A t \in Sockets : t # s => handle[t] # handle[s]

(* Every valid handle, 0 included, is an open descriptor as long as the    *)
(* socket has its channel: nobody else's socket_reset closes it.           *)
ValidHandleIsOpen ==
  \A s \in Sockets : channel[s] # NULL /\ handle[s] >= 0 => conn[handle[s]] # "free"

(* A socket without a channel holds no watch: socket_disconnect_io_watches *)
(* is never skipped over a live pointer.                                   *)
WatchesNeedChannel ==
  \A s \in Sockets : channel[s] = NULL => \A c \in Conds : watches[s][c] = 0

(* connect_result says OK only for a channel whose connection the peer     *)
(* accepted.                                                               *)
OkMeansEstablished ==
  [][\A s \in Sockets : phase[s] # "connected" /\ phase'[s] = "connected" =>
       channel[s] # NULL /\ conn[channel[s]] \in EverUp]_vars

(* connect_result says TRIED_ALL only when every result of the lookup has  *)
(* been tried since lm_socket_connect.                                     *)
TriedAllMeansAll ==
  [][\A s \in Sockets : phase[s] # "failed" /\ phase'[s] = "failed" =>
       \/ Head(stack').sig = "dns"
       \/ attempted[s] = 1 .. NumResults]_vars

(* The main loop never dispatches a watch the socket has lost track of, so *)
(* socket_reset is enough to silence it.                                   *)
OnlyTrackedDispatched ==
  \A x \in pending : alive[x.sock] /\ x \in Tracked(x.sock)

(* What a socket leaves behind is dead: every open descriptor that is      *)
(* nobody's handle is one whose failure socket_err_cb has seen.  No live   *)
(* connection is ever lost track of.                                       *)
LeaksOnlyDead ==
  \A f \in Fds \ {0} :
    (\A s \in Sockets : handle[s] # f) => conn[f] \in {"free", "spent", "hung"}

(* Where a refused connection polls OUT, nothing is left behind at all.    *)
LeaksNothing ==
  \A f \in Fds \ {0} : conn[f] # "free" => \E s \in Sockets : handle[s] = f

(* readable and writeable are emitted only between opened and closed.      *)
DataSignalsOnlyWhenOpen ==
  [][stack = <<>> /\ stack' # <<>> =>
       LET new == Head(stack')
       IN  new.op = "handler" /\ new.sig \in {"readable", "writeable"} =>
             phase[new.sock] = "open"]_vars

(* No callback and no rest of a function runs on a finalized socket.       *)
NoUseAfterFinalize == ~ crashed

(* The sockets follow the protocol a user of LmChannel relies on; once the *)
(* resolver has answered, if it was needed, the connect is answered too.   *)
UserPhase == [s \in Sockets |-> IF lookups[s] > 0 THEN "looking_up" ELSE phase[s]]
Protocol == INSTANCE ChannelProtocol WITH phase <- UserPhase
ImplementsProtocol == Protocol!FairSpec
=============================================================================
