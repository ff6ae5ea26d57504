-------------------------- MODULE LmSocket_proofs --------------------------
(***************************************************************************)
(* Theorems about LmSocket, for any number of addresses, results, connects *)
(* and descriptors and any kernel.  TypeCorrect, HandlesOwnedAlways and    *)
(* WatchesNeedChannelAlways are for any number of sockets and any client;  *)
(* what follows them is for one socket and a careful client, and says why. *)
(***************************************************************************)
EXTENDS LmSocket, TLAPS

-----------------------------------------------------------------------------
(* Lemmas about the helpers *)

LEMMA ConsumedType ==
  ASSUME NEW k \in Conns
  PROVE  /\ Consumed(k) \in Conns
         /\ k \notin {"free", "stdin"} => Consumed(k) \notin {"free", "stdin"}
BY DEF Consumed, Conns, EverUp

LEMMA PhaseType ==
  ASSUME NEW p \in Phases, NEW sig \in Signals
  PROVE  Phase(p, sig) \in Phases
BY DEF Phase, Phases, Signals, Results

LEMMA FrameTypes ==
  ASSUME NEW s \in Sockets
  PROVE  /\ \A sig \in Signals : Handler(s, sig) \in Frames
         /\ Opened(s) \in Frames /\ Reset(s) \in Frames /\ TryNext(s) \in Frames
BY DEF Frames, Handler, Opened, Reset, TryNext

LEMMA RemoveType ==
  ASSUME NEW x \in Watches
  PROVE  Remove(x) \in Frames
BY DEF Frames, Remove, Watches

LEMMA PushType ==
  ASSUME NEW f \in Frames, NEW r \in Seq(Frames)
  PROVE  <<f>> \o r \in Seq(Frames)
OBVIOUS

LEMMA PopType ==
  ASSUME NEW st \in Seq(Frames), st # <<>>
  PROVE  /\ Head(st) \in Frames
         /\ Tail(st) \in Seq(Frames)
OBVIOUS

LEMMA FrameFields ==
  ASSUME NEW f \in Frames
  PROVE  /\ f.sock \in Sockets
         /\ f.op = "remove" => f.src \in Watches
BY DEF Frames

LEMMA WatchType ==
  ASSUME NEW s \in Sockets, NEW c \in Conds, NEW t \in 1 .. MaxTries, NEW f \in Fds
  PROVE  Watch(s, c, t, f) \in Watches
BY DEF Watch, Watches

-----------------------------------------------------------------------------
(* The type invariant.  It needs two facts more to be inductive: a lookup  *)
(* belongs to a call of lm_socket_connect, and a channel to a descriptor.  *)

LookupsCounted == \A s \in Sockets : lookups[s] <= connects[s]
ChannelsCounted == \A s \in Sockets : channel[s] # NULL => tries[s] > 0

TypeInv == TypeOK /\ LookupsCounted /\ ChannelsCounted

(* The part of the state that only the main loop and LmSocket write. *)
SocketTypes ==
  /\ conn \in [Fds -> Conns]
  /\ sources \in SUBSET Watches
  /\ pending \in SUBSET Watches
  /\ handle \in [Sockets -> Fds \cup {NULL}]
  /\ channel \in [Sockets -> Fds \cup {NULL}]
  /\ watches \in [Sockets -> [Conds -> 0 .. MaxTries]]
  /\ connected \in [Sockets -> BOOLEAN]
  /\ sa_iter \in [Sockets -> BOOLEAN]
  /\ tries \in [Sockets -> 0 .. MaxTries]

(* The rest of it. *)
OtherTypes ==
  /\ resolved \in [Addresses -> BOOLEAN]
  /\ current \in [Addresses -> 1 .. NumResults + 1]
  /\ lookups \in [Sockets -> 0 .. MaxConnects]
  /\ crashed \in BOOLEAN
  /\ alive \in [Sockets -> BOOLEAN]
  /\ connects \in [Sockets -> 0 .. MaxConnects]
  /\ phase \in [Sockets -> Phases]
  /\ attempted \in [Sockets -> SUBSET (1 .. NumResults)]

LEMMA TypeOKSplit == TypeOK <=> SocketTypes /\ stack \in Seq(Frames) /\ OtherTypes
BY DEF TypeOK, SocketTypes, OtherTypes

LEMMA TypeOKSplitPrime ==
  TypeOK' <=> SocketTypes' /\ (stack \in Seq(Frames))' /\ OtherTypes'
BY DEF TypeOK, SocketTypes, OtherTypes

LEMMA CloseType ==
  ASSUME conn \in [Fds -> Conns], NEW f
  PROVE  _lm_sock_close(f) \in [Fds -> Conns]
BY DEF _lm_sock_close, Conns

LEMMA ResetTypes ==
  ASSUME SocketTypes, ChannelsCounted, NEW s \in Sockets, socket_reset(s), UNCHANGED tries
  PROVE  SocketTypes' /\ ChannelsCounted'
<1>1. conn' \in [Fds -> Conns]
  BY CloseType DEF socket_reset, SocketTypes
<1>2. /\ sources' \in SUBSET Watches /\ pending' \in SUBSET Watches
      /\ watches' \in [Sockets -> [Conds -> 0 .. MaxTries]]
  <2>1. CASE channel[s] = NULL
    BY <2>1 DEF socket_reset, socket_disconnect_io_watches, SocketTypes
  <2>2. CASE channel[s] # NULL
    <3>1. sources' \subseteq sources /\ pending' \subseteq pending
      BY <2>2 DEF socket_reset, socket_disconnect_io_watches
    <3>2. watches' = [watches EXCEPT ![s] = [c \in Conds |-> 0]]
      BY <2>2 DEF socket_reset, socket_disconnect_io_watches
    <3>3. [c \in Conds |-> 0] \in [Conds -> 0 .. MaxTries]
      BY BoundsAssumption
    <3> QED BY <3>1, <3>2, <3>3 DEF SocketTypes
  <2> QED BY <2>1, <2>2
<1>3. /\ handle' \in [Sockets -> Fds \cup {NULL}]
      /\ channel' \in [Sockets -> Fds \cup {NULL}]
      /\ connected' \in [Sockets -> BOOLEAN] /\ sa_iter' \in [Sockets -> BOOLEAN]
      /\ ChannelsCounted'
  BY BoundsAssumption DEF socket_reset, SocketTypes, ChannelsCounted, Fds, NULL
<1> QED BY <1>1, <1>2, <1>3 DEF SocketTypes

LEMMA AttachTypes ==
  ASSUME SocketTypes, ChannelsCounted, NEW s \in Sockets, NEW f \in Fds,
         tries[s] < MaxTries, AttachConnectWatches(s, f)
  PROVE  /\ sources' \in SUBSET Watches
         /\ channel' \in [Sockets -> Fds \cup {NULL}]
         /\ watches' \in [Sockets -> [Conds -> 0 .. MaxTries]]
         /\ tries' \in [Sockets -> 0 .. MaxTries]
         /\ ChannelsCounted'
<1> DEFINE t == tries[s] + 1
<1>1. t \in 1 .. MaxTries
  BY BoundsAssumption DEF SocketTypes
<1>2. Watch(s, "OUT", t, f) \in Watches /\ Watch(s, "ERR", t, f) \in Watches
  BY <1>1, WatchType DEF Conds
<1>3. /\ tries' = [tries EXCEPT ![s] = t] /\ channel' = [channel EXCEPT ![s] = f]
      /\ watches' = [watches EXCEPT ![s] = [@ EXCEPT !["OUT"] = t, !["ERR"] = t]]
      /\ sources' = sources \cup {Watch(s, "OUT", t, f), Watch(s, "ERR", t, f)}
  BY DEF AttachConnectWatches
<1> HIDE DEF t
<1>4. t \in 0 .. MaxTries /\ t > 0
  BY <1>1, BoundsAssumption
<1>5. sources' \in SUBSET Watches
  BY <1>2, <1>3 DEF SocketTypes
<1>6. channel' \in [Sockets -> Fds \cup {NULL}] /\ tries' \in [Sockets -> 0 .. MaxTries]
  BY <1>3, <1>4 DEF SocketTypes
<1>7. watches' \in [Sockets -> [Conds -> 0 .. MaxTries]]
  BY <1>3, <1>4 DEF SocketTypes
<1>8. ChannelsCounted'
  BY <1>3, <1>4 DEF SocketTypes, ChannelsCounted
<1> QED BY <1>5, <1>6, <1>7, <1>8

-----------------------------------------------------------------------------
(* Each action preserves the type invariant. *)

LEMMA EmitType ==
  ASSUME OtherTypes, NEW s \in Sockets, NEW sig \in Signals, NEW r \in Seq(Frames),
         Emit(s, sig, r)
  PROVE  /\ stack' \in Seq(Frames)
         /\ phase' \in [Sockets -> Phases]
<1>1. stack' \in Seq(Frames)
  <2>1. Handler(s, sig) \in Frames
    BY FrameTypes
  <2> QED BY <2>1, PushType DEF Emit
<1>2. phase' \in [Sockets -> Phases]
  <2>1. Phase(phase[s], sig) \in Phases
    BY PhaseType DEF OtherTypes
  <2> QED BY <2>1 DEF Emit, OtherTypes
<1> QED BY <1>1, <1>2

LEMMA TopType ==
  ASSUME stack \in Seq(Frames), stack # <<>>
  PROVE  /\ Head(stack).sock \in Sockets
         /\ Head(stack).op = "remove" => Head(stack).src \in Watches
         /\ Tail(stack) \in Seq(Frames)
BY PopType, FrameFields

LEMMA EmptyStackType == <<>> \in Seq(Frames)
OBVIOUS

LEMMA ConnectTypes ==
  ASSUME TypeInv, NEW s \in Sockets, lm_socket_connect(s)
  PROVE  TypeInv'
<1> USE TypeOKSplit, TypeOKSplitPrime DEF TypeInv
<1>1. SocketTypes' /\ ChannelsCounted'
  BY DEF lm_socket_connect, kernelVars, loopVars, privVars, SocketTypes, ChannelsCounted
<1>2. stack' \in Seq(Frames)
  <2>1. TryNext(s) \in Frames
    BY FrameTypes
  <2>2. <<TryNext(s)>> \o stack \in Seq(Frames)
    BY <2>1, PushType
  <2> QED BY <2>2 DEF lm_socket_connect
<1>3. connects' = [connects EXCEPT ![s] = @ + 1] /\ connects[s] < MaxConnects
  BY DEF lm_socket_connect
<1>4. connects' \in [Sockets -> 0 .. MaxConnects]
  BY <1>3, BoundsAssumption DEF OtherTypes
<1>5. /\ lookups' \in [Sockets -> 0 .. MaxConnects]
      /\ LookupsCounted'
  <2>1. lookups[s] + 1 \in 0 .. MaxConnects
    BY <1>3, BoundsAssumption DEF OtherTypes, LookupsCounted
  <2>2. lookups' = lookups \/ lookups' = [lookups EXCEPT ![s] = @ + 1]
    BY DEF lm_socket_connect
  <2> QED BY <1>3, <2>1, <2>2, BoundsAssumption DEF OtherTypes, LookupsCounted
<1>6. OtherTypes'
  BY <1>4, <1>5 DEF lm_socket_connect, OtherTypes, Phases
<1> QED BY <1>1, <1>2, <1>5, <1>6

LEMMA CloseTypes ==
  ASSUME TypeInv, NEW s \in Sockets, socket_close(s)
  PROVE  TypeInv'
<1> USE TypeOKSplit, TypeOKSplitPrime DEF TypeInv
<1>1. stack' \in Seq(Frames) /\ phase' \in [Sockets -> Phases]
  <2>1. <<Reset(s)>> \o stack \in Seq(Frames)
    BY FrameTypes, PushType
  <2>2. Emit(s, "closed", <<Reset(s)>> \o stack)
    BY DEF socket_close
  <2>3. "closed" \in Signals
    BY DEF Signals
  <2> QED BY <2>1, <2>2, <2>3, EmitType
<1> QED
  BY <1>1 DEF socket_close, kernelVars, loopVars, privVars, addressVars, SocketTypes,
     OtherTypes, LookupsCounted, ChannelsCounted

LEMMA ReadTypes ==
  ASSUME TypeInv, NEW s \in Sockets, socket_read(s) \/ socket_write(s)
  PROVE  TypeInv'
<1> USE TypeOKSplit, TypeOKSplitPrime DEF TypeInv
<1>1. channel[s] \in Fds
  BY DEF socket_read, socket_write, SocketTypes
<1>2. Consumed(conn[channel[s]]) \in Conns /\ "up" \in Conns
  BY <1>1, ConsumedType DEF SocketTypes, Conns, EverUp
<1>3. conn' \in [Fds -> Conns]
  BY <1>1, <1>2 DEF socket_read, socket_write, SocketTypes
<1> QED
  BY <1>3 DEF socket_read, socket_write, loopVars, privVars, addressVars, clientVars,
     SocketTypes, OtherTypes, LookupsCounted, ChannelsCounted

LEMMA ResetFrameTypes ==
  ASSUME TypeInv, socket_emit_disconnected_and_cleanup
  PROVE  TypeInv'
<1> USE TypeOKSplit, TypeOKSplitPrime DEF TypeInv
<1> DEFINE s == Head(stack).sock
<1>1. s \in Sockets /\ stack' \in Seq(Frames)
  BY TopType DEF socket_emit_disconnected_and_cleanup, Top
<1>2. SocketTypes' /\ ChannelsCounted'
  <2>1. socket_reset(s) /\ UNCHANGED tries
    BY DEF socket_emit_disconnected_and_cleanup
  <2> HIDE DEF s
  <2> QED BY <1>1, <2>1, ResetTypes
<1> QED
  BY <1>1, <1>2 DEF socket_emit_disconnected_and_cleanup, addressVars, clientVars,
     OtherTypes, LookupsCounted

LEMMA FinalizeTypes ==
  ASSUME TypeInv, NEW s \in Sockets, socket_finalize(s)
  PROVE  TypeInv'
<1> USE TypeOKSplit, TypeOKSplitPrime DEF TypeInv
<1>1. SocketTypes' /\ ChannelsCounted'
  <2>1. socket_reset(s) /\ UNCHANGED tries
    BY DEF socket_finalize
  <2> QED BY <2>1, ResetTypes
<1> QED
  BY <1>1 DEF socket_finalize, addressVars, OtherTypes, LookupsCounted

LEMMA DropTypes ==
  ASSUME TypeInv, HandlerDropsSocket
  PROVE  TypeInv'
<1> USE TypeOKSplit, TypeOKSplitPrime DEF TypeInv
<1> DEFINE s == Head(stack).sock
<1>1. s \in Sockets /\ stack' \in Seq(Frames)
  BY TopType DEF HandlerDropsSocket, Top
<1>2. SocketTypes' /\ ChannelsCounted'
  <2>1. socket_reset(s) /\ UNCHANGED tries
    BY DEF HandlerDropsSocket
  <2> HIDE DEF s
  <2> QED BY <1>1, <2>1, ResetTypes
<1> QED
  BY <1>1, <1>2 DEF HandlerDropsSocket, addressVars, OtherTypes, LookupsCounted

LEMMA AttemptTypes ==
  ASSUME SocketTypes, ChannelsCounted, stack \in Seq(Frames), stack # <<>>,
         NEW s \in Sockets, socket_attempt_connect(s)
  PROVE  /\ conn' \in [Fds -> Conns]
         /\ sources' \in SUBSET Watches
         /\ handle' \in [Sockets -> Fds \cup {NULL}]
         /\ channel' \in [Sockets -> Fds \cup {NULL}]
         /\ watches' \in [Sockets -> [Conds -> 0 .. MaxTries]]
         /\ tries' \in [Sockets -> 0 .. MaxTries]
         /\ ChannelsCounted'
         /\ stack' \in Seq(Frames)
<1>1. CASE NoDescriptor(s)
  BY <1>1 DEF NoDescriptor, SocketTypes, ChannelsCounted
<1>2. CASE ConnectFails(s)
  <2>1. PICK f \in Fds : AttachConnectWatches(s, f)
    BY <1>2 DEF ConnectFails
  <2>2. 0 \in Fds
    BY BoundsAssumption DEF Fds
  <2>3. handle' = [handle EXCEPT ![s] = 0] /\ UNCHANGED <<conn, stack>> /\ tries[s] < MaxTries
    BY <1>2 DEF ConnectFails
  <2>4. handle' \in [Sockets -> Fds \cup {NULL}]
    BY <2>2, <2>3 DEF SocketTypes
  <2> QED BY <2>1, <2>3, <2>4, AttachTypes DEF SocketTypes
<1>3. CASE ConnectStarts(s)
  <2>1. PICK f \in Fds, k \in {"syn", "up"} :
          /\ AttachConnectWatches(s, f)
          /\ handle' = [handle EXCEPT ![s] = f]
          /\ conn' = [conn EXCEPT ![f] = k]
    BY <1>3 DEF ConnectStarts
  <2>2. tries[s] < MaxTries /\ stack' = Tail(stack)
    BY <1>3 DEF ConnectStarts
  <2>3. conn' \in [Fds -> Conns] /\ handle' \in [Sockets -> Fds \cup {NULL}]
    BY <2>1 DEF SocketTypes, Conns, EverUp
  <2> QED BY <2>1, <2>2, <2>3, AttachTypes, PopType
<1> QED BY <1>1, <1>2, <1>3 DEF socket_attempt_connect

LEMMA AttemptNextTypes ==
  ASSUME TypeInv, socket_attempt_connect_next
  PROVE  TypeInv'
<1> USE TypeOKSplit, TypeOKSplitPrime DEF TypeInv
<1>1. PICK s \in Sockets : s = Head(stack).sock
  BY TopType DEF socket_attempt_connect_next, Top
<1>2. stack # <<>> /\ Tail(stack) \in Seq(Frames)
  BY TopType DEF socket_attempt_connect_next, Top
<1> DEFINE i == Position(s)
<1>3. i \in 1 .. NumResults + 1 /\ AddressOf[s] \in Addresses
  BY BoundsAssumption, AddressAssumption DEF Position, OtherTypes
<1> HIDE DEF i
<1>4. sa_iter' \in [Sockets -> BOOLEAN]
  BY <1>1 DEF socket_attempt_connect_next, SocketTypes
<1>5. UNCHANGED <<pending, connected, resolved, lookups, connects, alive, crashed>>
  BY DEF socket_attempt_connect_next
<1>6. CASE /\ i > NumResults
           /\ current' = [current EXCEPT ![AddressOf[s]] = i]
           /\ Emit(s, "tried_all", Tail(stack))
           /\ UNCHANGED <<conn, sources, handle, channel, watches, tries, attempted>>
  <2>1. stack' \in Seq(Frames) /\ phase' \in [Sockets -> Phases]
    <3>1. "tried_all" \in Signals
      BY DEF Signals, Results
    <3> QED BY <1>2, <1>6, <3>1, EmitType
  <2>2. current' \in [Addresses -> 1 .. NumResults + 1]
    BY <1>3, <1>6 DEF OtherTypes
  <2>3. SocketTypes' /\ ChannelsCounted'
    BY <1>4, <1>5, <1>6 DEF SocketTypes, ChannelsCounted
  <2>4. OtherTypes' /\ LookupsCounted'
    BY <1>5, <1>6, <2>1, <2>2 DEF OtherTypes, LookupsCounted
  <2> QED BY <2>1, <2>3, <2>4
<1>7. CASE /\ i <= NumResults
           /\ current' = [current EXCEPT ![AddressOf[s]] = i + 1]
           /\ attempted' = [attempted EXCEPT ![s] = @ \cup {i}]
           /\ socket_attempt_connect(s)
           /\ UNCHANGED phase
  <2>1. i \in 1 .. NumResults /\ i + 1 \in 1 .. NumResults + 1
    BY <1>3, <1>7, BoundsAssumption
  <2>2. current' \in [Addresses -> 1 .. NumResults + 1]
    BY <1>3, <1>7, <2>1 DEF OtherTypes
  <2>3. attempted' \in [Sockets -> SUBSET (1 .. NumResults)]
    BY <1>7, <2>1 DEF OtherTypes
  <2>4. SocketTypes' /\ ChannelsCounted' /\ stack' \in Seq(Frames)
    BY <1>2, <1>4, <1>5, <1>7, AttemptTypes DEF SocketTypes
  <2>5. OtherTypes' /\ LookupsCounted'
    BY <1>5, <1>7, <2>2, <2>3 DEF OtherTypes, LookupsCounted
  <2> QED BY <2>4, <2>5
<1> QED
  BY <1>1, <1>6, <1>7 DEF socket_attempt_connect_next, i

LEMMA ResolvedTypes ==
  ASSUME TypeInv, NEW s \in Sockets, socket_resolver_finished_cb(s)
  PROVE  TypeInv'
<1> USE TypeOKSplit, TypeOKSplitPrime DEF TypeInv
<1>1. SocketTypes' /\ ChannelsCounted'
  BY DEF socket_resolver_finished_cb, kernelVars, loopVars, privVars, SocketTypes,
     ChannelsCounted
<1>2. lookups' \in [Sockets -> 0 .. MaxConnects] /\ LookupsCounted'
  BY BoundsAssumption DEF socket_resolver_finished_cb, OtherTypes, LookupsCounted
<1>3. /\ stack' \in Seq(Frames) /\ phase' \in [Sockets -> Phases]
      /\ resolved' \in [Addresses -> BOOLEAN] /\ crashed' \in BOOLEAN
  <2>1. CASE crashed' = TRUE /\ UNCHANGED <<resolved, stack, phase>>
    BY <2>1 DEF OtherTypes
  <2>2. CASE Emit(s, "dns", <<>>) /\ UNCHANGED <<resolved, crashed>>
    <3>1. "dns" \in Signals
      BY DEF Signals, Results
    <3> QED BY <2>2, <3>1, EmitType, EmptyStackType DEF OtherTypes
  <2>3. CASE /\ resolved' = [resolved EXCEPT ![AddressOf[s]] = TRUE]
             /\ stack' = <<TryNext(s)>>
             /\ UNCHANGED <<phase, crashed>>
    <3>1. TryNext(s) \in Frames
      BY FrameTypes
    <3>2. <<TryNext(s)>> \in Seq(Frames)
      BY <3>1
    <3> QED BY <2>3, <3>2 DEF OtherTypes
  <2> QED BY <2>1, <2>2, <2>3 DEF socket_resolver_finished_cb
<1> QED
  BY <1>1, <1>2, <1>3 DEF socket_resolver_finished_cb, OtherTypes

LEMMA PollTypes ==
  ASSUME TypeInv, Poll
  PROVE  TypeInv'
<1> USE TypeOKSplit, TypeOKSplitPrime DEF TypeInv
<1>1. pending' \in SUBSET Watches
  BY DEF Poll, SocketTypes
<1> QED
  BY <1>1 DEF Poll, kernelVars, privVars, addressVars, clientVars, SocketTypes, OtherTypes,
     LookupsCounted, ChannelsCounted

(* A callback, as Dispatch calls it. *)
LEMMA CallbackTypes ==
  ASSUME SocketTypes, OtherTypes, ChannelsCounted, NEW x \in Watches,
         socket_in_cb(x) \/ socket_out_cb(x) \/ socket_err_cb(x) \/ socket_hup_cb(x),
         stack = <<>>
  PROVE  /\ conn' \in [Fds -> Conns]
         /\ sources' \in SUBSET Watches
         /\ watches' \in [Sockets -> [Conds -> 0 .. MaxTries]]
         /\ connected' \in [Sockets -> BOOLEAN]
         /\ UNCHANGED <<handle, channel, sa_iter>>
         /\ stack' \in Seq(Frames)
         /\ phase' \in [Sockets -> Phases]
<1> DEFINE s == x.sock
<1>1. s \in Sockets
  BY DEF Watches
<1>2. {"ok", "readable", "writeable", "closed"} \subseteq Signals
  BY DEF Signals, Results
<1>3. /\ <<>> \in Seq(Frames) /\ <<Opened(s)>> \in Seq(Frames)
      /\ <<Reset(s), Remove(x)>> \in Seq(Frames)
      /\ <<TryNext(s), Remove(x)>> \in Seq(Frames)
  BY <1>1, FrameTypes, RemoveType
<1> HIDE DEF s
<1>4. CASE socket_in_cb(x)
  <2>1. Emit(s, "readable", <<>>)
    BY <1>4 DEF socket_in_cb, s
  <2> QED BY <1>1, <1>2, <1>3, <1>4, <2>1, EmitType DEF socket_in_cb, privVars, SocketTypes
<1>5. CASE socket_hup_cb(x)
  <2>1. Emit(s, "closed", <<Reset(s), Remove(x)>>)
    BY <1>5 DEF socket_hup_cb, s
  <2> QED BY <1>1, <1>2, <1>3, <1>5, <2>1, EmitType DEF socket_hup_cb, privVars, SocketTypes
<1>6. CASE socket_err_cb(x)
  <2>1. UNCHANGED <<sources, privVars>>
    BY <1>6 DEF socket_err_cb
  <2>2. conn' \in [Fds -> Conns]
    <3>1. CASE UNCHANGED conn
      BY <3>1 DEF SocketTypes
    <3>2. CASE IsSocket(handle[s]) /\ conn' = [conn EXCEPT ![handle[s]] = Consumed(@)]
      <4>1. handle[s] \in Fds
        BY <3>2 DEF IsSocket
      <4>2. Consumed(conn[handle[s]]) \in Conns
        BY <4>1, ConsumedType DEF SocketTypes
      <4> QED BY <3>2, <4>1, <4>2 DEF SocketTypes
    <3> QED BY <1>6, <3>1, <3>2 DEF socket_err_cb, s
  <2>3. stack' \in Seq(Frames) /\ phase' \in [Sockets -> Phases]
    <3>1. CASE Emit(s, "closed", <<Reset(s), Remove(x)>>)
      BY <1>1, <1>2, <1>3, <3>1, EmitType
    <3>2. CASE stack' \in {stack, <<TryNext(s), Remove(x)>>} /\ UNCHANGED phase
      BY <1>3, <3>2 DEF OtherTypes
    <3> QED BY <1>6, <3>1, <3>2 DEF socket_err_cb, s
  <2> QED BY <2>1, <2>2, <2>3 DEF privVars, SocketTypes
<1>7. CASE socket_out_cb(x)
  <2>1. UNCHANGED <<conn, handle, channel, sa_iter>>
    BY <1>7 DEF socket_out_cb
  <2>2. CASE /\ Emit(s, "writeable", <<>>)
             /\ UNCHANGED <<sources, watches, connected>>
    BY <1>1, <1>2, <1>3, <2>1, <2>2, EmitType DEF SocketTypes
  <2>3. CASE ~ connected[s]
    <3> DEFINE t == IF channel[s] = NULL THEN 0 ELSE tries[s]
    <3>1. t \in 0 .. MaxTries /\ (channel[s] # NULL => channel[s] \in Fds /\ t \in 1 .. MaxTries)
      BY <1>1, BoundsAssumption DEF SocketTypes, ChannelsCounted
    <3>2. /\ watches' = [watches EXCEPT ![s] = [@ EXCEPT !["IN"] = t, !["HUP"] = t]]
          /\ sources' = sources \cup
                 IF channel[s] = NULL THEN {}
                 ELSE {Watch(s, "IN", t, channel[s]), Watch(s, "HUP", t, channel[s])}
          /\ connected' = [connected EXCEPT ![s] = TRUE]
          /\ Emit(s, "ok", <<Opened(s)>>)
      BY <1>7, <2>3 DEF socket_out_cb, s
    <3> HIDE DEF t
    <3>3. watches' \in [Sockets -> [Conds -> 0 .. MaxTries]]
      BY <1>1, <3>1, <3>2 DEF SocketTypes
    <3>4. sources' \in SUBSET Watches
      <4>1. channel[s] # NULL => {Watch(s, "IN", t, channel[s]), Watch(s, "HUP", t, channel[s])}
                                   \subseteq Watches
        BY <1>1, <3>1, WatchType DEF Conds
      <4> QED BY <3>2, <4>1 DEF SocketTypes
    <3>5. connected' \in [Sockets -> BOOLEAN]
      BY <3>2 DEF SocketTypes
    <3> QED BY <1>1, <1>2, <1>3, <2>1, <3>2, <3>3, <3>4, <3>5, EmitType DEF SocketTypes
  <2> QED BY <1>7, <2>2, <2>3 DEF socket_out_cb, s
<1> QED BY <1>4, <1>5, <1>6, <1>7

LEMMA DispatchTypes ==
  ASSUME TypeInv, Dispatch
  PROVE  TypeInv'
<1> USE TypeOKSplit, TypeOKSplitPrime DEF TypeInv
<1>1. PICK x \in pending :
        /\ pending' = pending \ {x}
        /\ \/ /\ socket_in_cb(x) \/ socket_out_cb(x) \/ socket_err_cb(x) \/ socket_hup_cb(x)
              /\ UNCHANGED crashed
           \/ /\ crashed' = TRUE
              /\ UNCHANGED <<conn, sources, privVars, stack, phase>>
  BY DEF Dispatch
<1>2. x \in Watches
  BY DEF SocketTypes
<1>3. UNCHANGED <<addressVars, connects, attempted, alive, tries>> /\ stack = <<>>
  BY DEF Dispatch
<1>4. /\ conn' \in [Fds -> Conns]
      /\ sources' \in SUBSET Watches
      /\ watches' \in [Sockets -> [Conds -> 0 .. MaxTries]]
      /\ connected' \in [Sockets -> BOOLEAN]
      /\ UNCHANGED <<handle, channel, sa_iter>>
      /\ stack' \in Seq(Frames)
      /\ phase' \in [Sockets -> Phases]
  <2>1. CASE socket_in_cb(x) \/ socket_out_cb(x) \/ socket_err_cb(x) \/ socket_hup_cb(x)
    BY <1>2, <1>3, <2>1, CallbackTypes
  <2>2. CASE UNCHANGED <<conn, sources, privVars, stack, phase>>
    BY <2>2 DEF privVars, SocketTypes, OtherTypes
  <2> QED BY <1>1, <2>1, <2>2
<1>5. SocketTypes' /\ ChannelsCounted'
  BY <1>1, <1>3, <1>4 DEF SocketTypes, ChannelsCounted
<1>6. OtherTypes' /\ LookupsCounted'
  BY <1>1, <1>3, <1>4 DEF addressVars, OtherTypes, LookupsCounted
<1> QED BY <1>4, <1>5, <1>6

LEMMA SimpleReturnTypes ==
  ASSUME TypeInv,
         RemoveSource \/ HandlerReturns \/ socket_emit_connect_result \/ UseAfterFinalize
  PROVE  TypeInv'
<1> USE TypeOKSplit, TypeOKSplitPrime DEF TypeInv
<1>1. stack # <<>>
  BY DEF RemoveSource, HandlerReturns, socket_emit_connect_result, UseAfterFinalize, Top
<1>2. Head(stack).sock \in Sockets /\ Tail(stack) \in Seq(Frames)
  BY <1>1, TopType
<1>3. CASE RemoveSource
  BY <1>2, <1>3 DEF RemoveSource, kernelVars, privVars, addressVars, clientVars, SocketTypes,
     OtherTypes, LookupsCounted, ChannelsCounted
<1>4. CASE HandlerReturns
  BY <1>2, <1>4 DEF HandlerReturns, kernelVars, loopVars, privVars, addressVars, clientVars,
     SocketTypes, OtherTypes, LookupsCounted, ChannelsCounted
<1>5. CASE UseAfterFinalize
  BY <1>5 DEF UseAfterFinalize, kernelVars, loopVars, privVars, addressVars, clientVars,
     SocketTypes, OtherTypes, LookupsCounted, ChannelsCounted
<1>6. CASE socket_emit_connect_result
  <2>1. Emit(Head(stack).sock, "opened", Tail(stack)) /\ "opened" \in Signals
    BY <1>6 DEF socket_emit_connect_result, Signals
  <2>2. stack' \in Seq(Frames) /\ phase' \in [Sockets -> Phases]
    BY <1>2, <2>1, EmitType
  <2> QED
    BY <1>6, <2>2 DEF socket_emit_connect_result, kernelVars, loopVars, privVars, addressVars,
       SocketTypes, OtherTypes, LookupsCounted, ChannelsCounted
<1> QED BY <1>3, <1>4, <1>5, <1>6

LEMMA KernelTypes ==
  ASSUME TypeInv, NEW f \in Fds, Settle(f) \/ Traffic(f)
  PROVE  TypeInv'
<1> USE TypeOKSplit, TypeOKSplitPrime DEF TypeInv
<1>1. PICK k \in Conns : conn' = [conn EXCEPT ![f] = k]
  BY DEF Settle, Traffic, Moves, Conns, EverUp
<1>2. UNCHANGED <<loopVars, privVars, addressVars, clientVars, stack, crashed, tries>>
  BY DEF Settle, Traffic, Moves
<1> QED
  BY <1>1, <1>2 DEF loopVars, privVars, addressVars, clientVars, SocketTypes, OtherTypes,
     LookupsCounted, ChannelsCounted

-----------------------------------------------------------------------------
LEMMA InitTypes == Init => TypeInv
<1> SUFFICES ASSUME Init PROVE TypeInv
  OBVIOUS
<1>1. SocketTypes
  BY BoundsAssumption DEF Init, lm_socket_init, SocketTypes, Fds, Conns, NULL
<1>2. OtherTypes
  <2>1. 1 \in 1 .. NumResults + 1 /\ 0 \in 0 .. MaxConnects /\ "idle" \in Phases
    BY BoundsAssumption DEF Phases
  <2>2. /\ resolved \in [Addresses -> BOOLEAN] /\ alive \in [Sockets -> BOOLEAN]
        /\ attempted \in [Sockets -> SUBSET (1 .. NumResults)] /\ crashed \in BOOLEAN
    BY DEF Init
  <2>3. current \in [Addresses -> 1 .. NumResults + 1]
    BY <2>1 DEF Init
  <2>4. lookups \in [Sockets -> 0 .. MaxConnects] /\ connects \in [Sockets -> 0 .. MaxConnects]
    BY <2>1 DEF Init
  <2>5. phase \in [Sockets -> Phases]
    BY <2>1 DEF Init
  <2> QED BY <2>2, <2>3, <2>4, <2>5 DEF OtherTypes
<1>3. stack \in Seq(Frames)
  BY EmptyStackType DEF Init
<1>4. LookupsCounted /\ ChannelsCounted
  BY BoundsAssumption DEF Init, lm_socket_init, LookupsCounted, ChannelsCounted
<1> QED BY <1>1, <1>2, <1>3, <1>4, TypeOKSplit DEF TypeInv

LEMMA NextTypes == TypeInv /\ [Next]_vars => TypeInv'
<1> SUFFICES ASSUME TypeInv, [Next]_vars PROVE TypeInv'
  OBVIOUS
<1>1. CASE UNCHANGED vars
  BY <1>1 DEF vars, kernelVars, loopVars, privVars, addressVars, clientVars, TypeInv, TypeOK,
     LookupsCounted, ChannelsCounted
<1>2. ASSUME NEW s \in Sockets,
             \/ lm_socket_connect(s) \/ socket_close(s)
             \/ socket_read(s) \/ socket_write(s)
             \/ socket_finalize(s) \/ socket_resolver_finished_cb(s)
      PROVE  TypeInv'
  BY <1>2, ConnectTypes, CloseTypes, ReadTypes, FinalizeTypes, ResolvedTypes
<1>3. CASE Poll \/ Dispatch
  BY <1>3, PollTypes, DispatchTypes
<1>4. CASE Return
  BY <1>4, AttemptNextTypes, SimpleReturnTypes, ResetFrameTypes, DropTypes DEF Return
<1>5. ASSUME NEW f \in Fds, Settle(f) \/ Traffic(f)
      PROVE  TypeInv'
  BY <1>5, KernelTypes
<1> QED BY <1>1, <1>2, <1>3, <1>4, <1>5 DEF Next

(* Every variable keeps its type: in particular the result iterator never  *)
(* runs past its end, a watch always belongs to a descriptor the socket    *)
(* obtained, and the call stack holds only the calls the code makes.       *)
THEOREM TypeCorrect == Spec => []TypeOK
<1>1. Spec => []TypeInv
  BY InitTypes, NextTypes, PTL DEF Spec
<1>2. TypeInv => TypeOK
  BY DEF TypeInv
<1> QED BY <1>1, <1>2, PTL

-----------------------------------------------------------------------------
(* Ownership of descriptors *)

(* No step but close() gives a descriptor up: a step that leaves the       *)
(* handles alone keeps them open.                                          *)
LEMMA OwnedFrame ==
  ASSUME HandlesOwned, UNCHANGED handle, handle \in [Sockets -> Fds \cup {NULL}],
         \A f \in Fds : conn[f] \notin {"free", "stdin"} => conn'[f] \notin {"free", "stdin"}
  PROVE  HandlesOwned'
BY DEF HandlesOwned, Fds, NULL

LEMMA OwnedConn ==
  ASSUME conn \in [Fds -> Conns], NEW f \in Fds, NEW k \in Conns,
         conn[f] \notin {"free", "stdin"} => k \notin {"free", "stdin"},
         conn' = [conn EXCEPT ![f] = k]
  PROVE  \A g \in Fds : conn[g] \notin {"free", "stdin"} => conn'[g] \notin {"free", "stdin"}
OBVIOUS

LEMMA OwnedReset ==
  ASSUME TypeInv, HandlesOwned, NEW s \in Sockets, socket_reset(s)
  PROVE  HandlesOwned'
<1>1. conn' = [g \in Fds |-> IF g = handle[s] THEN "free" ELSE conn[g]]
  BY DEF socket_reset, _lm_sock_close
<1>2. handle' = [handle EXCEPT ![s] = 0]
  BY DEF socket_reset
<1>3. handle \in [Sockets -> Fds \cup {NULL}]
  BY DEF TypeInv, TypeOK
<1> SUFFICES ASSUME NEW u \in Sockets, handle'[u] > 0
             PROVE  /\ conn'[handle'[u]] \notin {"free", "stdin"}
                    /\ \A t \in Sockets : t # u => handle'[t] # handle'[u]
  BY DEF HandlesOwned
<1>4. u # s /\ handle'[u] = handle[u] /\ handle[u] > 0
  BY <1>2, <1>3
<1>5. handle[u] \in Fds
  BY <1>3, <1>4 DEF NULL
<1>6. conn[handle[u]] \notin {"free", "stdin"} /\ handle[s] # handle[u]
  BY <1>4 DEF HandlesOwned
<1>7. conn'[handle'[u]] \notin {"free", "stdin"}
  BY <1>1, <1>4, <1>5, <1>6
<1>8. ASSUME NEW t \in Sockets, t # u
      PROVE  handle'[t] # handle'[u]
  BY <1>2, <1>3, <1>4, <1>8 DEF HandlesOwned
<1> QED BY <1>7, <1>8

LEMMA OwnedAttempt ==
  ASSUME TypeInv, HandlesOwned, NEW s \in Sockets, socket_attempt_connect(s)
  PROVE  HandlesOwned'
<1>1. handle \in [Sockets -> Fds \cup {NULL}] /\ conn \in [Fds -> Conns]
  BY DEF TypeInv, TypeOK
<1>2. CASE NoDescriptor(s)
  <2>1. handle' = [handle EXCEPT ![s] = NULL] /\ conn' = conn
    BY <1>2 DEF NoDescriptor
  <2> QED BY <1>1, <2>1 DEF HandlesOwned, NULL, Fds
<1>3. CASE ConnectFails(s)
  <2>1. handle' = [handle EXCEPT ![s] = 0] /\ conn' = conn
    BY <1>3 DEF ConnectFails
  <2> QED BY <1>1, <2>1 DEF HandlesOwned, NULL, Fds
<1>4. CASE ConnectStarts(s)
  <2>1. PICK f \in Fds, k \in {"syn", "up"} :
          /\ conn[f] = "free"
          /\ handle' = [handle EXCEPT ![s] = f]
          /\ conn' = [conn EXCEPT ![f] = k]
    BY <1>4 DEF ConnectStarts, LowestFree
  <2>2. ASSUME NEW t \in Sockets, t # s, handle[t] > 0
        PROVE  handle[t] # f
    BY <2>1, <2>2 DEF HandlesOwned
  <2>3. ASSUME NEW u \in Sockets, handle'[u] > 0
        PROVE  conn'[handle'[u]] \notin {"free", "stdin"}
    <3>1. CASE u = s
      BY <1>1, <2>1, <3>1
    <3>2. CASE u # s
      <4>1. handle'[u] = handle[u] /\ handle[u] > 0 /\ handle[u] \in Fds
        BY <1>1, <2>1, <2>3, <3>2 DEF NULL
      <4>2. conn[handle[u]] \notin {"free", "stdin"}
        BY <4>1 DEF HandlesOwned
      <4> QED BY <1>1, <2>1, <4>1, <4>2
    <3> QED BY <3>1, <3>2
  <2>4. ASSUME NEW u \in Sockets, handle'[u] > 0, NEW t \in Sockets, t # u
        PROVE  handle'[t] # handle'[u]
    <3>1. CASE u = s
      BY <1>1, <2>1, <2>2, <2>4, <3>1
    <3>2. CASE t = s
      BY <1>1, <2>1, <2>2, <2>4, <3>2
    <3>3. CASE u # s /\ t # s
      BY <1>1, <2>1, <2>4, <3>3 DEF HandlesOwned
    <3> QED BY <3>1, <3>2, <3>3
  <2> QED BY <2>3, <2>4 DEF HandlesOwned
<1> QED BY <1>2, <1>3, <1>4 DEF socket_attempt_connect

LEMMA OwnedNext == TypeInv /\ HandlesOwned /\ [Next]_vars => HandlesOwned'
<1> SUFFICES ASSUME TypeInv, HandlesOwned, [Next]_vars PROVE HandlesOwned'
  OBVIOUS
<1>1. /\ handle \in [Sockets -> Fds \cup {NULL}] /\ conn \in [Fds -> Conns]
      /\ stack \in Seq(Frames) /\ pending \subseteq Watches
      /\ channel \in [Sockets -> Fds \cup {NULL}]
  BY DEF TypeInv, TypeOK
<1>2. CASE UNCHANGED <<conn, handle>>
  BY <1>2 DEF HandlesOwned
<1>3. CASE UNCHANGED vars
  BY <1>2, <1>3 DEF vars, kernelVars, privVars
<1>4. ASSUME NEW s \in Sockets, socket_read(s) \/ socket_write(s)
      PROVE  HandlesOwned'
  <2>1. PICK f \in Fds : /\ UNCHANGED handle
                         /\ conn' = [conn EXCEPT ![f] = IF @ = "upin" THEN "up" ELSE Consumed(@)]
                            \/ conn' = [conn EXCEPT ![f] = Consumed(@)]
    BY <1>1, <1>4 DEF socket_read, socket_write, privVars
  <2> DEFINE k == conn'[f]
  <2>2. /\ k \in Conns /\ conn' = [conn EXCEPT ![f] = k]
        /\ conn[f] \notin {"free", "stdin"} => k \notin {"free", "stdin"}
    <3>1. /\ Consumed(conn[f]) \in Conns /\ "up" \in Conns
          /\ conn[f] \notin {"free", "stdin"} => Consumed(conn[f]) \notin {"free", "stdin"}
      BY <1>1, ConsumedType DEF Conns, EverUp
    <3>2. k \in {"up", Consumed(conn[f])} /\ conn' = [conn EXCEPT ![f] = k]
      BY <1>1, <2>1
    <3> QED BY <3>1, <3>2
  <2> HIDE DEF k
  <2> QED BY <1>1, <2>1, <2>2, OwnedConn, OwnedFrame
<1>5. ASSUME NEW s \in Sockets,
             lm_socket_connect(s) \/ socket_close(s) \/ socket_resolver_finished_cb(s)
      PROVE  HandlesOwned'
  BY <1>2, <1>5 DEF lm_socket_connect, socket_close, socket_resolver_finished_cb, kernelVars,
     privVars
<1>6. ASSUME NEW s \in Sockets, socket_finalize(s)
      PROVE  HandlesOwned'
  BY <1>6, OwnedReset DEF socket_finalize
<1>7. CASE Poll
  BY <1>2, <1>7 DEF Poll, kernelVars, privVars
<1>8. CASE Dispatch
  <2>1. PICK x \in Watches :
          \/ socket_in_cb(x) \/ socket_out_cb(x) \/ socket_err_cb(x) \/ socket_hup_cb(x)
          \/ UNCHANGED <<conn, privVars>>
    BY <1>1, <1>8 DEF Dispatch
  <2>2. CASE socket_err_cb(x)
    <3>1. UNCHANGED handle
      BY <2>2 DEF socket_err_cb, privVars
    <3>2. CASE UNCHANGED conn
      BY <1>2, <3>1, <3>2
    <3>3. CASE /\ IsSocket(handle[x.sock])
               /\ conn' = [conn EXCEPT ![handle[x.sock]] = Consumed(@)]
      <4>1. handle[x.sock] \in Fds
        BY <3>3 DEF IsSocket
      <4>2. /\ Consumed(conn[handle[x.sock]]) \in Conns
            /\ conn[handle[x.sock]] \notin {"free", "stdin"}
                 => Consumed(conn[handle[x.sock]]) \notin {"free", "stdin"}
        BY <1>1, <4>1, ConsumedType
      <4>3. conn' = [conn EXCEPT ![handle[x.sock]] = Consumed(conn[handle[x.sock]])]
        BY <3>3
      <4> QED BY <1>1, <3>1, <4>1, <4>2, <4>3, OwnedConn, OwnedFrame
    <3> QED BY <2>2, <3>2, <3>3 DEF socket_err_cb
  <2>3. CASE socket_in_cb(x) \/ socket_out_cb(x) \/ socket_hup_cb(x)
    BY <1>2, <2>3 DEF socket_in_cb, socket_out_cb, socket_hup_cb, privVars
  <2>4. CASE UNCHANGED <<conn, privVars>>
    BY <1>2, <2>4 DEF privVars
  <2> QED BY <2>1, <2>2, <2>3, <2>4
<1>9. CASE socket_attempt_connect_next
  <2>1. PICK s \in Sockets : s = Head(stack).sock
    BY <1>1, <1>9, TopType DEF socket_attempt_connect_next, Top
  <2>2. CASE UNCHANGED <<conn, handle>>
    BY <1>2, <2>2
  <2>3. CASE socket_attempt_connect(s)
    BY <2>3, OwnedAttempt
  <2> QED BY <1>9, <2>1, <2>2, <2>3 DEF socket_attempt_connect_next
<1>10. CASE socket_emit_disconnected_and_cleanup \/ HandlerDropsSocket
  <2>1. PICK s \in Sockets : s = Head(stack).sock
    BY <1>1, <1>10, TopType DEF socket_emit_disconnected_and_cleanup, HandlerDropsSocket, Top
  <2>2. socket_reset(s)
    BY <1>10, <2>1 DEF socket_emit_disconnected_and_cleanup, HandlerDropsSocket
  <2> QED BY <2>2, OwnedReset
<1>11. CASE RemoveSource \/ HandlerReturns \/ socket_emit_connect_result \/ UseAfterFinalize
  BY <1>2, <1>11 DEF RemoveSource, HandlerReturns, socket_emit_connect_result,
     UseAfterFinalize, kernelVars, privVars
<1>12. ASSUME NEW f \in Fds, Settle(f) \/ Traffic(f)
       PROVE  HandlesOwned'
  <2>1. PICK k \in Conns \ {"free", "stdin"} : conn' = [conn EXCEPT ![f] = k]
    BY <1>12 DEF Settle, Traffic, Moves, Conns, EverUp
  <2>2. UNCHANGED handle
    BY <1>12 DEF Settle, Traffic, Moves, privVars
  <2> QED BY <1>1, <2>1, <2>2, OwnedConn, OwnedFrame
<1> QED
  BY <1>3, <1>4, <1>5, <1>6, <1>7, <1>8, <1>9, <1>10, <1>11, <1>12 DEF Next, Return

(* A socket's handle, unless it is 0, is an open descriptor that no other  *)
(* socket has, so that closing one channel never touches the connection    *)
(* of another: whatever fails, whatever the client does.                   *)
THEOREM HandlesOwnedAlways == Spec => []HandlesOwned
<1>1. Init => TypeInv /\ HandlesOwned
  BY InitTypes DEF Init, lm_socket_init, HandlesOwned
<1>2. TypeInv /\ HandlesOwned /\ [Next]_vars => (TypeInv /\ HandlesOwned)'
  BY NextTypes, OwnedNext
<1>3. Spec => [](TypeInv /\ HandlesOwned)
  BY <1>1, <1>2, PTL DEF Spec
<1> QED BY <1>3, PTL

-----------------------------------------------------------------------------
(* Watches and channels *)

LEMMA WatchesFrame ==
  ASSUME WatchesNeedChannel, UNCHANGED <<channel, watches>>
  PROVE  WatchesNeedChannel'
BY DEF WatchesNeedChannel

LEMMA WatchesReset ==
  ASSUME TypeInv, WatchesNeedChannel, NEW s \in Sockets, socket_reset(s)
  PROVE  WatchesNeedChannel'
<1>1. channel' = [channel EXCEPT ![s] = NULL]
  BY DEF socket_reset
<1>2. /\ channel \in [Sockets -> Fds \cup {NULL}]
      /\ watches \in [Sockets -> [Conds -> 0 .. MaxTries]]
  BY DEF TypeInv, TypeOK
<1>3. CASE channel[s] = NULL
  <2>1. watches' = watches
    BY <1>3 DEF socket_reset, socket_disconnect_io_watches
  <2> QED BY <1>1, <1>2, <1>3, <2>1 DEF WatchesNeedChannel
<1>4. CASE channel[s] # NULL
  <2>1. watches' = [watches EXCEPT ![s] = [c \in Conds |-> 0]]
    BY <1>4 DEF socket_reset, socket_disconnect_io_watches
  <2> QED BY <1>1, <1>2, <2>1 DEF WatchesNeedChannel
<1> QED BY <1>3, <1>4

LEMMA WatchesAttach ==
  ASSUME TypeInv, WatchesNeedChannel, NEW s \in Sockets, NEW f \in Fds,
         AttachConnectWatches(s, f)
  PROVE  WatchesNeedChannel'
<1>1. channel' = [channel EXCEPT ![s] = f] /\ f # NULL
  BY DEF AttachConnectWatches, Fds, NULL
<1>2. \A u \in Sockets \ {s} : watches'[u] = watches[u]
  BY DEF AttachConnectWatches, TypeInv, TypeOK
<1>3. channel \in [Sockets -> Fds \cup {NULL}]
  BY DEF TypeInv, TypeOK
<1> QED BY <1>1, <1>2, <1>3 DEF WatchesNeedChannel

LEMMA WatchesOut ==
  ASSUME TypeInv, WatchesNeedChannel, NEW x \in Watches, socket_out_cb(x)
  PROVE  WatchesNeedChannel'
<1> DEFINE s == x.sock
           t == IF channel[s] = NULL THEN 0 ELSE tries[s]
<1>1. s \in Sockets /\ UNCHANGED channel
  BY DEF socket_out_cb, Watches
<1>2. \/ UNCHANGED watches
      \/ watches' = [watches EXCEPT ![s] = [@ EXCEPT !["IN"] = t, !["HUP"] = t]]
  BY DEF socket_out_cb
<1>3. watches \in [Sockets -> [Conds -> 0 .. MaxTries]]
  BY DEF TypeInv, TypeOK
<1>4. channel[s] = NULL => t = 0
  OBVIOUS
<1> HIDE DEF s, t
<1> QED BY <1>1, <1>2, <1>3, <1>4 DEF WatchesNeedChannel, Conds

LEMMA WatchesNext == TypeInv /\ WatchesNeedChannel /\ [Next]_vars => WatchesNeedChannel'
<1> SUFFICES ASSUME TypeInv, WatchesNeedChannel, [Next]_vars PROVE WatchesNeedChannel'
  OBVIOUS
<1>1. stack \in Seq(Frames) /\ pending \subseteq Watches
  BY DEF TypeInv, TypeOK
<1>2. CASE UNCHANGED privVars
  BY <1>2, WatchesFrame DEF privVars
<1>3. CASE UNCHANGED vars
  BY <1>2, <1>3 DEF vars
<1>4. ASSUME NEW s \in Sockets,
             \/ lm_socket_connect(s) \/ socket_close(s)
             \/ socket_read(s) \/ socket_write(s) \/ socket_resolver_finished_cb(s)
      PROVE  WatchesNeedChannel'
  BY <1>2, <1>4 DEF lm_socket_connect, socket_close, socket_read, socket_write,
     socket_resolver_finished_cb
<1>5. ASSUME NEW s \in Sockets, socket_reset(s)
      PROVE  WatchesNeedChannel'
  BY <1>5, WatchesReset
<1>6. ASSUME NEW s \in Sockets, socket_finalize(s)
      PROVE  WatchesNeedChannel'
  BY <1>5, <1>6 DEF socket_finalize
<1>7. CASE Poll
  BY <1>2, <1>7 DEF Poll
<1>8. CASE Dispatch
  <2>1. PICK x \in Watches :
          \/ socket_in_cb(x) \/ socket_out_cb(x) \/ socket_err_cb(x) \/ socket_hup_cb(x)
          \/ UNCHANGED privVars
    BY <1>1, <1>8 DEF Dispatch
  <2>2. CASE socket_out_cb(x)
    BY <2>2, WatchesOut
  <2> QED BY <1>2, <2>1, <2>2 DEF socket_in_cb, socket_err_cb, socket_hup_cb
<1>9. CASE socket_attempt_connect_next
  <2>1. PICK s \in Sockets : s = Head(stack).sock
    BY <1>1, <1>9, TopType DEF socket_attempt_connect_next, Top
  <2>2. CASE UNCHANGED <<channel, watches>>
    BY <2>2, WatchesFrame
  <2>3. CASE socket_attempt_connect(s)
    BY <2>2, <2>3, WatchesAttach
       DEF socket_attempt_connect, NoDescriptor, ConnectFails, ConnectStarts
  <2> QED BY <1>9, <2>1, <2>2, <2>3 DEF socket_attempt_connect_next
<1>10. CASE socket_emit_disconnected_and_cleanup \/ HandlerDropsSocket
  <2>1. PICK s \in Sockets : s = Head(stack).sock
    BY <1>1, <1>10, TopType DEF socket_emit_disconnected_and_cleanup, HandlerDropsSocket, Top
  <2> QED
    BY <1>5, <1>10, <2>1 DEF socket_emit_disconnected_and_cleanup, HandlerDropsSocket
<1>11. CASE RemoveSource \/ HandlerReturns \/ socket_emit_connect_result \/ UseAfterFinalize
  BY <1>2, <1>11 DEF RemoveSource, HandlerReturns, socket_emit_connect_result, UseAfterFinalize
<1>12. ASSUME NEW f \in Fds, Settle(f) \/ Traffic(f)
       PROVE  WatchesNeedChannel'
  BY <1>2, <1>12 DEF Settle, Traffic, Moves
<1> QED
  BY <1>3, <1>4, <1>6, <1>7, <1>8, <1>9, <1>10, <1>11, <1>12 DEF Next, Return

(* A socket without a channel holds no watch.  socket_reset looks at the   *)
(* watches only when there is a channel, so this is what makes the test    *)
(* harmless, orphaned OUT watches on a reset socket included.              *)
THEOREM WatchesNeedChannelAlways == Spec => []WatchesNeedChannel
<1>1. Init => TypeInv /\ WatchesNeedChannel
  BY InitTypes DEF Init, lm_socket_init, WatchesNeedChannel
<1>2. TypeInv /\ WatchesNeedChannel /\ [Next]_vars => (TypeInv /\ WatchesNeedChannel)'
  BY NextTypes, WatchesNext
<1>3. Spec => [](TypeInv /\ WatchesNeedChannel)
  BY <1>1, <1>2, PTL DEF Spec
<1> QED BY <1>3, PTL

-----------------------------------------------------------------------------
(* One socket and a careful client.  The properties that follow do not     *)
(* hold of two sockets (each socket_reset closes descriptor 0 when it has  *)
(* no handle, whoever owns it) nor of a client that closes or connects in  *)
(* the handlers in the middle of a reset or of socket_emit_connect_result. *)

CarefulClient ==
  /\ Habits = {} /\ ~SyncErrors
  /\ CloseIn \cap {"closed", "ok"} = {} /\ "closed" \notin ConnectIn

(* The C call stack: what a careful client and the main loop let be on it. *)
Has(q, f) == \E k \in 1 .. Len(q) : q[k] = f

Says(f, sig) == f.op = "handler" /\ f.sig = sig
CalmFrame(f) == \/ f.op = "handler" /\ f.sig \notin {"closed", "ok"}
                \/ f.op = "remove" /\ f.src.cond \in {"ERR", "HUP"}
Calm(q) == \A k \in 1 .. Len(q) : CalmFrame(q[k])

Above(q, op) == q # <<>> /\ Head(q).op = op /\ Calm(Tail(q))
Under(q, sig, op) == q # <<>> /\ Says(Head(q), sig) /\ Above(Tail(q), op)

Trying(q)    == Above(q, "next")
Resetting(q) == Above(q, "reset") \/ Under(q, "closed", "reset")
Opening(q)   == Above(q, "opened") \/ Under(q, "ok", "opened")

StackShape(s) ==
  /\ Calm(stack) \/ Trying(stack) \/ Resetting(stack) \/ Opening(stack)
  /\ stack # <<>> => alive[s]

(* What the signals have said, against the calls in progress. *)
Flow(s) ==
  /\ Trying(stack) => phase[s] = "connecting"
  /\ Resetting(stack) => phase[s] = "idle"
  /\ Opening(stack) <=> phase[s] = "connected"
  /\ phase[s] = "idle" /\ sa_iter[s] => Resetting(stack)
  /\ ~alive[s] => phase[s] = "idle"
  /\ phase[s] \in {"connected", "open"} => connected[s]
  /\ connected[s] /\ phase[s] \notin {"connected", "open"} => Resetting(stack)
  /\ phase[s] = "connecting" /\ sa_iter[s] /\ ~Trying(stack) =>
       channel[s] # NULL /\ handle[s] = channel[s]

(* A lookup is only ever the first thing a socket does: so that descriptor *)
(* 0, which socket_reset closes after it, is not yet one of its own.       *)
Lookup(s) ==
  /\ lookups[s] <= 1
  /\ lookups[s] > 0 => /\ phase[s] = "connecting" /\ ~Trying(stack)
                       /\ ~sa_iter[s] /\ tries[s] = 0 /\ ~resolved[AddressOf[s]]
  /\ sa_iter[s] \/ tries[s] > 0 \/ Trying(stack) => resolved[AddressOf[s]]
  /\ ~sa_iter[s] /\ tries[s] > 0 => Trying(stack) \/ (phase[s] = "idle" /\ ~Resetting(stack))

(* The fields of LmSocketPriv, against each other. *)
Fields(s) ==
  /\ ~sa_iter[s] => handle[s] = 0 /\ channel[s] = NULL
  /\ sa_iter[s] => handle[s] = NULL \/ (channel[s] # NULL /\ handle[s] = channel[s])
  /\ connected[s] => /\ channel[s] # NULL /\ handle[s] = channel[s]
                     /\ watches[s]["IN"] = tries[s] /\ watches[s]["HUP"] = tries[s]
  /\ ~connected[s] => watches[s]["IN"] = 0 /\ watches[s]["HUP"] = 0
  /\ channel[s] # NULL =>
       /\ watches[s]["OUT"] = tries[s] /\ watches[s]["ERR"] = tries[s]
       /\ Watch(s, "OUT", tries[s], channel[s]) \in sources
       /\ conn[channel[s]] \notin {"free", "stdin"}

Spent == {"spent", "hung"}

(* Between two results, and after the last one, the connection that failed *)
(* is dead, and only its OUT watch is left.                                *)
GaveUp(s) ==
  Trying(stack) \/ phase[s] = "failed" =>
    /\ ~connected[s] /\ pending = {}
    /\ channel[s] # NULL => ~HangupIsWritable /\ conn[channel[s]] \in Spent
    /\ \A x \in Tracked(s) : x.cond = "OUT" \/ Has(stack, Remove(x))

(* A watch the socket has lost track of: the OUT watch of a dead           *)
(* connection, which is never ready where a hangup is not writable.        *)
LeftBehind(s, x) ==
  /\ ~HangupIsWritable
  /\ x.cond = "OUT" \/ Has(stack, Remove(x))
  /\ x.fd # channel[s]
  /\ conn[x.fd] \in Spent \/ (~alive[s] /\ conn[x.fd] = "free")

SourcesKnown(s) ==
  \A x \in sources :
    /\ x.try <= tries[s]
    /\ channel[s] # NULL /\ x.try = tries[s] => x.fd = channel[s]
    /\ x \in Tracked(s) \/ LeftBehind(s, x)

(* What a poll found ready is still true when it is dispatched.  Before a  *)
(* connection is established ERR comes with OUT, which is dispatched first,*)
(* where a hangup is writable, and without it elsewhere.                   *)
PendingKnown(s) ==
  /\ \A x \in pending : alive[s] /\ x \in Tracked(s)
  /\ ~connected[s] =>
       \A x \in pending :
         /\ x.cond = "OUT" /\ ~HangupIsWritable => conn[channel[s]] \in EverUp
         /\ x.cond = "ERR" =>
              /\ ~HangupIsWritable => conn[channel[s]] \in {"failed", "lost"}
              /\ HangupIsWritable <=> Watch(s, "OUT", tries[s], channel[s]) \in pending

Leaks(s) == \A f \in Fds \ {0} :
  conn[f] # "free" => handle[s] = f \/ (~HangupIsWritable /\ conn[f] \in Spent)

Attempts(s) == phase[s] # "idle" =>
  attempted[s] = IF sa_iter[s] THEN 1 .. current[AddressOf[s]] - 1 ELSE {}

Sound(s) == /\ StackShape(s) /\ Flow(s) /\ Lookup(s) /\ Fields(s) /\ GaveUp(s)
            /\ SourcesKnown(s) /\ PendingKnown(s) /\ Leaks(s) /\ Attempts(s)

-----------------------------------------------------------------------------
(* Lemmas about the stack *)

LEMMA PushedAt ==
  ASSUME NEW f \in Frames, NEW r \in Seq(Frames)
  PROVE  /\ <<f>> \o r \in Seq(Frames) /\ <<f>> \o r # <<>>
         /\ Head(<<f>> \o r) = f /\ Tail(<<f>> \o r) = r
         /\ Len(<<f>> \o r) = Len(r) + 1
         /\ \A k \in 1 .. Len(r) + 1 : k = 1 \/ (k - 1 \in 1 .. Len(r) /\ (<<f>> \o r)[k] = r[k - 1])
         /\ (<<f>> \o r)[1] = f
         /\ \A k \in 1 .. Len(r) : k + 1 \in 1 .. Len(r) + 1 /\ (<<f>> \o r)[k + 1] = r[k]
OBVIOUS

LEMMA PoppedAt ==
  ASSUME NEW q \in Seq(Frames), q # <<>>
  PROVE  /\ Tail(q) \in Seq(Frames) /\ Head(q) = q[1] /\ 1 \in 1 .. Len(q) /\ Head(q) \in Frames
         /\ \A k \in 1 .. Len(Tail(q)) : k + 1 \in 1 .. Len(q) /\ Tail(q)[k] = q[k + 1]
         /\ \A k \in 1 .. Len(q) : k = 1 \/ (k - 1 \in 1 .. Len(Tail(q)) /\ Tail(q)[k - 1] = q[k])
OBVIOUS

LEMMA CalmTail ==
  ASSUME NEW q \in Seq(Frames), q # <<>>, Calm(q)
  PROVE  CalmFrame(Head(q)) /\ Calm(Tail(q))
BY PoppedAt DEF Calm

LEMMA CalmPush ==
  ASSUME NEW r \in Seq(Frames), NEW f \in Frames, Calm(r), CalmFrame(f)
  PROVE  Calm(<<f>> \o r)
<1> DEFINE q == <<f>> \o r
<1>1. \A k \in 1 .. Len(q) : q[k] = f \/ \E j \in 1 .. Len(r) : q[k] = r[j]
  BY PushedAt
<1> HIDE DEF q
<1>2. Calm(q)
  BY <1>1 DEF Calm
<1> QED  BY <1>2 DEF q

LEMMA HasTail ==
  ASSUME NEW q \in Seq(Frames), q # <<>>, NEW f, Has(q, f), f # Head(q)
  PROVE  Has(Tail(q), f)
<1>1. PICK k \in 1 .. Len(q) : q[k] = f
  BY DEF Has
<1>2. k # 1 /\ k - 1 \in 1 .. Len(Tail(q)) /\ Tail(q)[k - 1] = q[k]
  BY <1>1, PoppedAt
<1> QED  BY <1>1, <1>2 DEF Has

LEMMA HasPush ==
  ASSUME NEW r \in Seq(Frames), NEW g \in Frames, NEW f
  PROVE  /\ Has(r, f) => Has(<<g>> \o r, f)
         /\ Has(<<g>> \o r, g)
<1> DEFINE q == <<g>> \o r
<1>1. /\ \A k \in 1 .. Len(r) : k + 1 \in 1 .. Len(q) /\ q[k + 1] = r[k]
      /\ 1 \in 1 .. Len(q) /\ q[1] = g
  BY PushedAt
<1> HIDE DEF q
<1>2. (Has(r, f) => Has(q, f)) /\ Has(q, g)
  BY <1>1 DEF Has
<1> QED  BY <1>2 DEF q

LEMMA Modes ==
  ASSUME NEW q \in Seq(Frames)
  PROVE  /\ Calm(q) => ~Trying(q) /\ ~Resetting(q) /\ ~Opening(q)
         /\ Trying(q) => ~Resetting(q) /\ ~Opening(q)
         /\ Resetting(q) => ~Opening(q)
         /\ q = <<>> => Calm(q)
<1>1. Calm(q) /\ q # <<>> => CalmFrame(Head(q))
  BY CalmTail
<1>2. Calm(q) => ~Trying(q) /\ ~Resetting(q) /\ ~Opening(q)
  BY <1>1 DEF CalmFrame, Trying, Resetting, Opening, Above, Under, Says
<1>3. Trying(q) => ~Resetting(q) /\ ~Opening(q)
  BY DEF Trying, Resetting, Opening, Above, Under, Says
<1>4. Resetting(q) => ~Opening(q)
  BY DEF Resetting, Opening, Above, Under, Says
<1>5. q = <<>> => Calm(q)
  BY DEF Calm
<1> QED  BY <1>2, <1>3, <1>4, <1>5

LEMMA AbovePush ==
  ASSUME NEW r \in Seq(Frames), NEW f \in Frames
  PROVE  /\ Calm(r) => Above(<<f>> \o r, f.op)
         /\ \A sig, op : Says(f, sig) /\ Above(r, op) => Under(<<f>> \o r, sig, op)
<1> DEFINE q == <<f>> \o r
<1>1. q # <<>> /\ Head(q) = f /\ Tail(q) = r
  BY PushedAt
<1> HIDE DEF q
<1>2. /\ Calm(r) => Above(q, f.op)
      /\ \A sig, op : Says(f, sig) /\ Above(r, op) => Under(q, sig, op)
  BY <1>1 DEF Above, Under
<1> QED  BY <1>2 DEF q

LEMMA PushModes ==
  ASSUME NEW s \in Sockets, NEW r \in Seq(Frames), Calm(r)
  PROVE  /\ Trying(<<TryNext(s)>> \o r)
         /\ <<Reset(s)>> \o r \in Seq(Frames)
         /\ Resetting(<<Handler(s, "closed")>> \o (<<Reset(s)>> \o r))
         /\ <<Opened(s)>> \o r \in Seq(Frames)
         /\ Opening(<<Handler(s, "ok")>> \o (<<Opened(s)>> \o r))
         /\ \A sig \in Signals \ {"closed", "ok"} : Calm(<<Handler(s, sig)>> \o r)
<1>1. /\ TryNext(s) \in Frames /\ Reset(s) \in Frames /\ Opened(s) \in Frames
      /\ \A sig \in Signals : Handler(s, sig) \in Frames
  BY FrameTypes
<1>2. Trying(<<TryNext(s)>> \o r)
  <2>1. TryNext(s).op = "next"
    BY DEF TryNext
  <2> QED  BY <1>1, <2>1, AbovePush DEF Trying
<1>3. Above(<<Reset(s)>> \o r, "reset") /\ <<Reset(s)>> \o r \in Seq(Frames)
  <2>1. Reset(s).op = "reset"
    BY DEF Reset
  <2> QED  BY <1>1, <2>1, AbovePush, PushType
<1>4. Above(<<Opened(s)>> \o r, "opened") /\ <<Opened(s)>> \o r \in Seq(Frames)
  <2>1. Opened(s).op = "opened"
    BY DEF Opened
  <2> QED  BY <1>1, <2>1, AbovePush, PushType
<1>5. ASSUME NEW sig \in Signals, NEW q \in Seq(Frames), NEW op, Above(q, op)
      PROVE  Under(<<Handler(s, sig)>> \o q, sig, op)
  <2>1. Says(Handler(s, sig), sig)
    BY DEF Says, Handler
  <2> QED  BY <1>1, <1>5, <2>1, AbovePush
<1>6. "closed" \in Signals /\ "ok" \in Signals
  BY DEF Signals, Results
<1>7. Resetting(<<Handler(s, "closed")>> \o (<<Reset(s)>> \o r))
  BY <1>3, <1>5, <1>6 DEF Resetting
<1>8. Opening(<<Handler(s, "ok")>> \o (<<Opened(s)>> \o r))
  BY <1>4, <1>5, <1>6 DEF Opening
<1>9. ASSUME NEW sig \in Signals \ {"closed", "ok"} PROVE Calm(<<Handler(s, sig)>> \o r)
  <2>1. CalmFrame(Handler(s, sig))
    BY DEF CalmFrame, Handler
  <2> QED  BY <1>1, <2>1, CalmPush
<1> QED  BY <1>2, <1>3, <1>4, <1>7, <1>8, <1>9

(* What is under the calls that wait for nothing but their turn. *)
LEMMA TopModes ==
  ASSUME NEW s, StackShape(s), stack \in Seq(Frames)
  PROVE  /\ Top("next") => Trying(stack) /\ Calm(Tail(stack))
         /\ Top("opened") => Opening(stack) /\ Calm(Tail(stack))
         /\ Top("reset") => Resetting(stack) /\ Calm(Tail(stack))
         /\ Top("remove") => Calm(stack) /\ Calm(Tail(stack))
         /\ Top("handler") =>
              \/ Calm(stack) /\ Calm(Tail(stack))
              \/ /\ Head(stack).sig = "closed" /\ Resetting(stack) /\ Resetting(Tail(stack))
              \/ /\ Head(stack).sig = "ok" /\ Opening(stack) /\ Opening(Tail(stack))
<1>1. Calm(stack) /\ stack # <<>> => CalmFrame(Head(stack)) /\ Calm(Tail(stack))
  BY CalmTail
<1> QED
  BY <1>1 DEF StackShape, Top, CalmFrame, Trying, Resetting, Opening, Above, Under, Says

(* Where the client may call in, nothing is half done. *)
LEMMA ClientModes ==
  ASSUME NEW s, StackShape(s), stack \in Seq(Frames), NEW sigs, ClientIn(sigs),
         "closed" \notin sigs, "ok" \notin sigs
  PROVE  Calm(stack)
<1>1. CASE stack = <<>>
  BY <1>1, Modes
<1>2. CASE Top("handler") /\ Head(stack).sig \in sigs
  BY <1>2, TopModes
<1> QED  BY <1>1, <1>2 DEF ClientIn

-----------------------------------------------------------------------------
(* Steps that leave parts of the state alone *)

One(s) == /\ Sockets = {s} /\ CarefulClient
          /\ TypeInv /\ WatchesNeedChannel /\ HandlesOwned /\ Sound(s)

LEMMA Values ==
  ASSUME NEW s, One(s)
  PROVE  /\ s \in Sockets /\ AddressOf[s] \in Addresses /\ NULL \notin Fds /\ 0 \in Fds
         /\ conn \in [Fds -> Conns] /\ sources \subseteq Watches /\ pending \subseteq Watches
         /\ handle \in [Sockets -> Fds \cup {NULL}] /\ channel \in [Sockets -> Fds \cup {NULL}]
         /\ watches \in [Sockets -> [Conds -> 0 .. MaxTries]]
         /\ connected \in [Sockets -> BOOLEAN] /\ sa_iter \in [Sockets -> BOOLEAN]
         /\ resolved \in [Addresses -> BOOLEAN] /\ current \in [Addresses -> 1 .. NumResults + 1]
         /\ lookups \in [Sockets -> 0 .. MaxConnects] /\ stack \in Seq(Frames)
         /\ alive \in [Sockets -> BOOLEAN] /\ tries \in [Sockets -> 0 .. MaxTries]
         /\ phase \in [Sockets -> Phases] /\ attempted \in [Sockets -> SUBSET (1 .. NumResults)]
         /\ lookups[s] \in Nat /\ tries[s] \in Nat
<1>1. NULL \notin Fds /\ 0 \in Fds
  BY BoundsAssumption DEF NULL, Fds
<1>2. s \in Sockets /\ AddressOf[s] \in Addresses
  BY AddressAssumption DEF One
<1>3. TypeOK
  BY DEF One, TypeInv
<1>4. lookups[s] \in Nat /\ tries[s] \in Nat
  BY <1>2, <1>3 DEF TypeOK
<1> QED  BY <1>1, <1>2, <1>3, <1>4 DEF TypeOK

LEMMA OneWatch ==
  ASSUME NEW s, Sockets = {s}, NEW x \in Watches
  PROVE  x.sock = s /\ x.cond \in Conds /\ x.try \in Nat \ {0} /\ x.fd \in Fds
         /\ x = Watch(s, x.cond, x.try, x.fd)
<1>1. x.try \in 1 .. MaxTries /\ MaxTries \in Nat
  BY BoundsAssumption DEF Watches
<1> QED  BY <1>1 DEF Watches, Watch

LEMMA OneFrame ==
  ASSUME NEW s, Sockets = {s}, NEW f \in Frames
  PROVE  f.sock = s
BY FrameFields

LEMMA FieldsSame ==
  ASSUME NEW s, Fields(s), UNCHANGED <<handle, channel, watches, connected, sa_iter, sources, tries>>,
         channel[s] # NULL => conn'[channel[s]] \notin {"free", "stdin"}
  PROVE  Fields(s)'
BY DEF Fields

LEMMA SourcesSame ==
  ASSUME NEW s, SourcesKnown(s), UNCHANGED <<watches, channel, tries, alive>>, sources' \subseteq sources,
         \A x \in sources' : Has(stack, Remove(x)) => Has(stack', Remove(x)),
         \A x \in sources' : x.fd # channel[s] /\ conn[x.fd] \in Spent \cup {"free"}
                               => conn'[x.fd] = conn[x.fd]
  PROVE  SourcesKnown(s)'
<1> SUFFICES ASSUME NEW x \in sources'
             PROVE  /\ x.try <= tries'[s]
                    /\ channel'[s] # NULL /\ x.try = tries'[s] => x.fd = channel'[s]
                    /\ x \in Tracked(s)' \/ LeftBehind(s, x)'
  BY DEF SourcesKnown
<1>1. /\ x.try <= tries[s]
      /\ channel[s] # NULL /\ x.try = tries[s] => x.fd = channel[s]
      /\ x \in Tracked(s) \/ LeftBehind(s, x)
  BY DEF SourcesKnown
<1>2. x \in Tracked(s) => x \in Tracked(s)'
  BY DEF Tracked
<1>3. LeftBehind(s, x) => LeftBehind(s, x)'
  BY DEF LeftBehind
<1> QED  BY <1>1, <1>2, <1>3

LEMMA PendingSame ==
  ASSUME NEW s, PendingKnown(s), UNCHANGED <<watches, channel, tries, alive, connected, sources, pending>>,
         conn[channel[s]] \in EverUp => conn'[channel[s]] \in EverUp,
         conn[channel[s]] \in {"failed", "lost"} => conn'[channel[s]] \in {"failed", "lost"}
  PROVE  PendingKnown(s)'
BY DEF PendingKnown, Tracked

LEMMA PendingConnected ==
  ASSUME NEW s, PendingKnown(s), UNCHANGED <<watches, alive>>, connected'[s],
         pending' \subseteq pending, pending' \subseteq sources'
  PROVE  PendingKnown(s)'
BY DEF PendingKnown, Tracked

LEMMA PendingNone ==
  ASSUME NEW s, pending' = {}
  PROVE  PendingKnown(s)'
BY DEF PendingKnown

LEMMA LeaksSame ==
  ASSUME NEW s, Leaks(s), UNCHANGED handle,
         \A f \in Fds : conn'[f] = conn[f]
           \/ (conn[f] # "free" /\ (conn[f] \in Spent => conn'[f] \in Spent))
  PROVE  Leaks(s)'
BY DEF Leaks

LEMMA TrackedSame ==
  ASSUME NEW s, UNCHANGED <<sources, watches>>
  PROVE  Tracked(s)' = Tracked(s)
BY DEF Tracked

-----------------------------------------------------------------------------
(* Each step of a careful client *)

LEMMA ConnectSound ==
  ASSUME NEW s, One(s), lm_socket_connect(s)
  PROVE  Sound(s)'
<1> USE Values
<1>1. /\ Sound(s) /\ ClientIn(ConnectIn) /\ "closed" \notin ConnectIn /\ phase[s] = "idle" /\ alive[s]
      /\ phase' = [phase EXCEPT ![s] = "connecting"] /\ attempted' = [attempted EXCEPT ![s] = {}]
      /\ UNCHANGED <<kernelVars, loopVars, privVars, resolved, current, alive, crashed, tries>>
  BY DEF One, CarefulClient, lm_socket_connect
<1>2. StackShape(s) /\ Flow(s) /\ Lookup(s) /\ Fields(s) /\ SourcesKnown(s) /\ PendingKnown(s) /\ Leaks(s)
  BY <1>1 DEF Sound
<1>3. \/ stack = <<>>
      \/ Top("handler") /\ Head(stack).sig # "closed"
  <2>1. stack = <<>> \/ (Top("handler") /\ Head(stack).sig \in ConnectIn)
    BY <1>1 DEF ClientIn
  <2> QED  BY <1>1, <2>1
<1>4. Calm(stack)
  <2>1. ~Opening(stack)
    BY <1>1, <1>2 DEF Flow
  <2> QED  BY <1>2, <1>3, <2>1, TopModes, Modes
<1>5. ~sa_iter[s] /\ channel[s] = NULL /\ handle[s] = 0 /\ ~connected[s] /\ lookups[s] = 0
  BY <1>1, <1>2, <1>4, Modes DEF Flow, Fields, Lookup
<1>6. pending = {}
  <2>1. Tracked(s) = {}
    <3>1. \A x \in sources : watches[s][x.cond] # x.try
      BY <1>5, OneWatch DEF One, WatchesNeedChannel
    <3> QED  BY <3>1 DEF Tracked
  <2> QED  BY <1>2, <2>1 DEF PendingKnown
<1>7. phase'[s] = "connecting" /\ attempted'[s] = {} /\ alive'[s] /\ ~sa_iter'[s] /\ ~connected'[s]
      /\ channel'[s] = NULL /\ pending' = {}
  BY <1>1, <1>5, <1>6 DEF privVars, loopVars
<1>8. /\ UNCHANGED <<conn, sources, handle, channel, watches, connected, sa_iter, resolved, tries>>
  BY <1>1 DEF kernelVars, loopVars, privVars
<1>9. CASE ~resolved[AddressOf[s]] /\ UNCHANGED stack /\ lookups' = [lookups EXCEPT ![s] = @ + 1]
  <2>1. Calm(stack') /\ ~Trying(stack') /\ ~Resetting(stack') /\ ~Opening(stack')
    BY <1>4, <1>9, Modes
  <2>2. StackShape(s)' /\ Flow(s)'
    BY <1>7, <2>1 DEF StackShape, Flow
  <2>3. Lookup(s)'
    <3>1. lookups'[s] = 1
      BY <1>5, <1>9
    <3>2. tries[s] = 0
      BY <1>2, <1>9 DEF Lookup
    <3> QED  BY <1>7, <1>8, <1>9, <2>1, <3>1, <3>2 DEF Lookup
  <2>4. Fields(s)'
    BY <1>2, <1>7, <1>8, FieldsSame
  <2>5. GaveUp(s)'
    BY <1>7, <2>1 DEF GaveUp
  <2>6. SourcesKnown(s)'
    BY <1>1, <1>2, <1>8, <1>9, SourcesSame
  <2>7. Leaks(s)' /\ PendingKnown(s)' /\ Attempts(s)'
    BY <1>2, <1>7, <1>8, LeaksSame, PendingNone DEF Attempts
  <2> QED  BY <2>2, <2>3, <2>4, <2>5, <2>6, <2>7 DEF Sound
<1>10. CASE resolved[AddressOf[s]] /\ stack' = <<TryNext(s)>> \o stack /\ UNCHANGED lookups
  <2>1. Trying(stack') /\ ~Resetting(stack') /\ ~Opening(stack') /\ stack' \in Seq(Frames)
    <3>1. Trying(stack') /\ stack' \in Seq(Frames)
      BY <1>4, <1>10, PushModes, FrameTypes, PushType
    <3> QED  BY <3>1, Modes
  <2>2. StackShape(s)' /\ Flow(s)'
    BY <1>7, <2>1 DEF StackShape, Flow
  <2>3. Lookup(s)'
    BY <1>2, <1>5, <1>7, <1>8, <1>10, <2>1 DEF Lookup
  <2>4. Fields(s)'
    BY <1>2, <1>7, <1>8, FieldsSame
  <2>5. GaveUp(s)'
    <3>1. Tracked(s)' = {}
      <4>1. \A x \in sources : watches[s][x.cond] # x.try
        BY <1>5, OneWatch DEF One, WatchesNeedChannel
      <4> QED  BY <1>8, <4>1 DEF Tracked
    <3> QED  BY <1>7, <3>1 DEF GaveUp
  <2>6. SourcesKnown(s)'
    <3>1. \A x : Has(stack, Remove(x)) => Has(stack', Remove(x))
      BY <1>10, HasPush, FrameTypes
    <3> QED  BY <1>1, <1>2, <1>8, <3>1, SourcesSame
  <2>7. Leaks(s)' /\ PendingKnown(s)' /\ Attempts(s)'
    BY <1>2, <1>7, <1>8, LeaksSame, PendingNone DEF Attempts
  <2> QED  BY <2>2, <2>3, <2>4, <2>5, <2>6, <2>7 DEF Sound
<1> QED  BY <1>9, <1>10 DEF lm_socket_connect

(* Emitting closed, whoever does, with the reset to follow. *)
LEMMA ClosedSound ==
  ASSUME NEW s, One(s), NEW r \in Seq(Frames), Calm(r), Emit(s, "closed", <<Reset(s)>> \o r),
         alive[s], lookups[s] = 0, ~Trying(stack),
         phase[s] # "idle",
         \A x \in sources : Has(stack, Remove(x)) => Has(r, Remove(x)),
         UNCHANGED <<conn, sources, privVars, addressVars, connects, attempted, alive, tries>>,
         pending' = pending \/ (connected[s] /\ pending' \subseteq pending)
  PROVE  Sound(s)'
<1> USE Values
<1>1. StackShape(s) /\ Flow(s) /\ Lookup(s) /\ Fields(s) /\ SourcesKnown(s) /\ PendingKnown(s) /\ Leaks(s)
  BY DEF One, Sound
<1>2. /\ stack' = <<Handler(s, "closed")>> \o (<<Reset(s)>> \o r) /\ phase'[s] = "idle"
  BY DEF Emit, Phase
<1>3. UNCHANGED <<handle, channel, watches, connected, sa_iter, resolved, lookups, current>>
  BY DEF privVars, addressVars
<1>4. Resetting(stack') /\ stack' \in Seq(Frames) /\ stack' # <<>>
  <2>1. <<Reset(s)>> \o r \in Seq(Frames) /\ Handler(s, "closed") \in Frames
    <3>1. "closed" \in Signals
      BY DEF Signals
    <3> QED  BY <3>1, PushModes, FrameTypes
  <2>2. Resetting(stack')
    BY <1>2, PushModes
  <2>3. stack' \in Seq(Frames)
    BY <1>2, <2>1, PushType
  <2> QED  BY <2>2, <2>3 DEF Resetting, Above, Under
<1>5. ~Trying(stack') /\ ~Opening(stack')
  BY <1>4, Modes
<1>6. StackShape(s)' /\ Flow(s)'
  BY <1>2, <1>4, <1>5 DEF StackShape, Flow
<1>7. Lookup(s)'
  BY <1>1, <1>2, <1>3, <1>4, <1>5 DEF Lookup
<1>8. Fields(s)'
  BY <1>1, <1>3, FieldsSame DEF Fields
<1>9. GaveUp(s)' /\ Attempts(s)'
  BY <1>2, <1>5 DEF GaveUp, Attempts
<1>10. SourcesKnown(s)'
  <2>1. \A x \in sources : Has(stack, Remove(x)) => Has(stack', Remove(x))
    <3>1. <<Reset(s)>> \o r \in Seq(Frames) /\ Handler(s, "closed") \in Frames /\ Reset(s) \in Frames
      <4>1. "closed" \in Signals
        BY DEF Signals
      <4> QED  BY <4>1, PushModes, FrameTypes
    <3> QED  BY <1>2, <3>1, HasPush
  <2> QED  BY <1>1, <1>3, <2>1, SourcesSame
<1>11. PendingKnown(s)'
  <2>1. CASE pending' = pending
    BY <1>1, <1>3, <2>1, PendingSame
  <2>2. CASE connected[s] /\ pending' \subseteq pending
    <3>1. pending \subseteq sources
      BY <1>1 DEF PendingKnown, Tracked
    <3> QED  BY <1>1, <1>3, <2>2, <3>1, PendingConnected
  <2> QED  BY <2>1, <2>2
<1>12. Leaks(s)'
  BY <1>1, <1>3, LeaksSame
<1> QED  BY <1>6, <1>7, <1>8, <1>9, <1>10, <1>11, <1>12 DEF Sound

LEMMA CloseSound ==
  ASSUME NEW s, One(s), socket_close(s)
  PROVE  Sound(s)'
<1> USE Values
<1>1. StackShape(s) /\ ClientIn(CloseIn) /\ "closed" \notin CloseIn /\ "ok" \notin CloseIn
  BY DEF One, Sound, CarefulClient, socket_close
<1>2. Calm(stack) /\ ~Trying(stack)
  BY <1>1, ClientModes, Modes
<1>3. /\ phase[s] # "idle" /\ lookups[s] = 0 /\ alive[s] /\ Emit(s, "closed", <<Reset(s)>> \o stack)
      /\ UNCHANGED <<kernelVars, loopVars, privVars, addressVars, connects, attempted, alive, tries>>
  BY DEF One, CarefulClient, socket_close
<1>4. UNCHANGED <<conn, sources, pending>>
  BY <1>3 DEF kernelVars, loopVars
<1> QED  BY <1>2, <1>3, <1>4, ClosedSound

LEMMA ReadWriteSound ==
  ASSUME NEW s, One(s), socket_read(s) \/ socket_write(s)
  PROVE  Sound(s)'
<1> USE Values
<1>1. Sound(s) /\ StackShape(s) /\ Flow(s) /\ Fields(s) /\ SourcesKnown(s) /\ PendingKnown(s) /\ Leaks(s)
  BY DEF One, Sound
<1>2. /\ phase[s] = "open" /\ channel[s] # NULL
      /\ UNCHANGED <<loopVars, privVars, addressVars, clientVars, stack, crashed, tries>>
      /\ \/ conn' = [conn EXCEPT ![channel[s]] = IF @ = "upin" THEN "up" ELSE Consumed(@)]
         \/ conn' = [conn EXCEPT ![channel[s]] = Consumed(@)]
  BY DEF One, CarefulClient, socket_read, socket_write
<1>3. connected[s] /\ channel[s] \in Fds
  BY <1>1, <1>2 DEF Flow
<1>4. UNCHANGED <<sources, pending, handle, channel, watches, connected, sa_iter, alive, stack, tries,
                  phase, resolved, current, lookups, attempted>>
  BY <1>2 DEF loopVars, privVars, addressVars, clientVars
<1>5. /\ \A f \in Fds : f # channel[s] => conn'[f] = conn[f]
      /\ conn'[channel[s]] \in {"up", Consumed(conn[channel[s]])}
  BY <1>2, <1>3
<1>6. conn[channel[s]] \in Conns /\ conn[channel[s]] \notin {"free", "stdin"}
  BY <1>1, <1>2, <1>3 DEF Fields
<1>7. conn'[channel[s]] \notin {"free", "stdin"}
  BY <1>5, <1>6, ConsumedType
<1>8. Fields(s)'
  BY <1>1, <1>4, <1>7, FieldsSame
<1>9. handle[s] = channel[s]
  BY <1>1, <1>3 DEF Fields
<1>10. Leaks(s)'
  BY <1>1, <1>4, <1>5, <1>9 DEF Leaks
<1>11. SourcesKnown(s)'
  <2>1. \A x \in sources : x.fd \in Fds
    BY OneWatch DEF One
  <2> QED  BY <1>1, <1>4, <1>5, <2>1, SourcesSame
<1>12. PendingKnown(s)'
  BY <1>1, <1>3, <1>4, PendingConnected DEF PendingKnown, Tracked
<1>13. StackShape(s)' /\ Flow(s)' /\ Lookup(s)' /\ Attempts(s)'
  BY <1>1, <1>4 DEF Sound, StackShape, Flow, Lookup, Attempts
<1>14. GaveUp(s)'
  <2>1. ~Trying(stack) /\ phase[s] # "failed"
    BY <1>1, <1>2 DEF Flow
  <2> QED  BY <1>4, <2>1 DEF GaveUp
<1> QED  BY <1>8, <1>10, <1>11, <1>12, <1>13, <1>14 DEF Sound

(* A callback's emission of readable or writeable. *)
LEMMA DataSound ==
  ASSUME NEW s, One(s), stack = <<>>, alive[s], connected[s], NEW sig \in {"readable", "writeable"},
         Emit(s, sig, <<>>), UNCHANGED <<conn, sources, privVars, addressVars, connects, attempted, alive, tries>>,
         pending' \subseteq pending
  PROVE  Sound(s)'
<1> USE Values
<1>1. StackShape(s) /\ Flow(s) /\ Lookup(s) /\ Fields(s) /\ SourcesKnown(s) /\ PendingKnown(s) /\ Leaks(s)
      /\ Attempts(s)
  BY DEF One, Sound
<1>2. stack' = <<Handler(s, sig)>> \o stack /\ UNCHANGED phase
  BY DEF Emit, Phase
<1>3. UNCHANGED <<handle, channel, watches, connected, sa_iter, resolved, lookups, current>>
  BY DEF privVars, addressVars
<1>4. Calm(stack) /\ Calm(stack')
  <2>1. sig \in Signals \ {"closed", "ok"}
    BY DEF Signals
  <2> QED  BY <1>2, <2>1, PushModes, Modes
<1>5. ~Trying(stack') /\ ~Resetting(stack') /\ ~Opening(stack') /\ stack' \in Seq(Frames)
  <2>1. sig \in Signals
    BY DEF Signals
  <2>2. stack' \in Seq(Frames)
    BY <1>2, <2>1, FrameTypes, PushType
  <2> QED  BY <1>4, <2>2, Modes
<1>6. ~Trying(stack) /\ ~Resetting(stack) /\ ~Opening(stack) /\ phase[s] \in {"connected", "open"}
  BY <1>1, <1>4, Modes DEF Flow
<1>7. StackShape(s)' /\ Flow(s)' /\ GaveUp(s)'
  BY <1>1, <1>2, <1>3, <1>4, <1>5, <1>6 DEF StackShape, Flow, GaveUp
<1>8. Lookup(s)' /\ Attempts(s)'
  BY <1>1, <1>2, <1>3, <1>5, <1>6 DEF Lookup, Attempts
<1>9. SourcesKnown(s)'
  <2>1. \A x : ~Has(stack, Remove(x))
    BY DEF Has
  <2> QED  BY <1>1, <1>3, <2>1, SourcesSame
<1>10. PendingKnown(s)'
  BY <1>1, <1>3, PendingConnected DEF PendingKnown, Tracked
<1> QED  BY <1>1, <1>3, <1>7, <1>8, <1>9, <1>10, LeaksSame, FieldsSame DEF Sound, Fields

LEMMA ResolvedSound ==
  ASSUME NEW s, One(s), socket_resolver_finished_cb(s)
  PROVE  Sound(s)' /\ UNCHANGED crashed
<1> USE Values
<1>1. StackShape(s) /\ Flow(s) /\ Lookup(s) /\ Fields(s) /\ SourcesKnown(s) /\ PendingKnown(s) /\ Leaks(s)
      /\ Attempts(s)
  BY DEF One, Sound
<1>2. /\ stack = <<>> /\ lookups[s] > 0 /\ lookups' = [lookups EXCEPT ![s] = @ - 1]
      /\ UNCHANGED <<kernelVars, loopVars, privVars, current, connects, attempted, alive, tries>>
  BY DEF socket_resolver_finished_cb
<1>3. /\ phase[s] = "connecting" /\ ~sa_iter[s] /\ tries[s] = 0 /\ lookups[s] = 1 /\ alive[s]
      /\ channel[s] = NULL /\ handle[s] = 0 /\ lookups'[s] = 0 /\ Calm(stack)
  <2>1. lookups[s] = 1 /\ lookups'[s] = 0
    BY <1>1, <1>2 DEF Lookup
  <2>2. phase[s] = "connecting" /\ ~sa_iter[s] /\ tries[s] = 0
    BY <1>1, <1>2 DEF Lookup
  <2>3. alive[s] /\ channel[s] = NULL /\ handle[s] = 0
    BY <1>1, <2>2 DEF Flow, Fields
  <2> QED  BY <1>2, <2>1, <2>2, <2>3, Modes
<1>4. ~connected[s] /\ ~Trying(stack) /\ ~Resetting(stack) /\ ~Opening(stack)
  BY <1>3, <1>1, Modes DEF Flow
<1>5. UNCHANGED <<conn, sources, pending, handle, channel, watches, connected, sa_iter, current, attempted,
                  alive, tries>>
  BY <1>2 DEF kernelVars, loopVars, privVars
<1>6. Tracked(s) = {} /\ pending = {}
  <2>1. \A x \in sources : watches[s][x.cond] # x.try
    BY <1>3, OneWatch DEF One, WatchesNeedChannel
  <2> QED  BY <1>1, <2>1 DEF Tracked, PendingKnown
<1>7. Fields(s)' /\ Leaks(s)' /\ PendingKnown(s)'
  BY <1>1, <1>3, <1>5, <1>6, FieldsSame, LeaksSame, PendingNone
<1>8. SourcesKnown(s)'
  <2>1. \A x : ~Has(stack, Remove(x))
    BY <1>2 DEF Has
  <2> QED  BY <1>1, <1>3, <1>5, <2>1, SourcesSame
<1>9. CASE Emit(s, "dns", <<>>) /\ UNCHANGED <<resolved, crashed>>
  <2>1. stack' = <<Handler(s, "dns")>> \o stack /\ phase'[s] = "failed"
    BY <1>2, <1>9 DEF Emit, Phase
  <2>2. Calm(stack') /\ stack' \in Seq(Frames)
    <3>1. "dns" \in Signals \ {"closed", "ok"}
      BY DEF Signals, Results
    <3> QED  BY <1>3, <2>1, <3>1, PushModes, FrameTypes, PushType
  <2>3. ~Trying(stack') /\ ~Resetting(stack') /\ ~Opening(stack')
    BY <2>2, Modes
  <2>4. StackShape(s)' /\ Flow(s)' /\ Lookup(s)'
    BY <1>3, <1>4, <1>5, <2>1, <2>2, <2>3 DEF StackShape, Flow, Lookup
  <2>5. GaveUp(s)'
    BY <1>3, <1>4, <1>5, <1>6, TrackedSame DEF GaveUp
  <2>6. Attempts(s)'
    BY <1>1, <1>3, <1>5 DEF Attempts
  <2> QED  BY <1>7, <1>8, <1>9, <2>4, <2>5, <2>6 DEF Sound
<1>10. CASE /\ resolved' = [resolved EXCEPT ![AddressOf[s]] = TRUE] /\ stack' = <<TryNext(s)>>
            /\ UNCHANGED <<phase, crashed>>
  <2>1. stack' = <<TryNext(s)>> \o stack
    BY <1>2, <1>10
  <2>2. Trying(stack') /\ stack' \in Seq(Frames)
    BY <1>3, <2>1, PushModes, FrameTypes, PushType
  <2>3. ~Resetting(stack') /\ ~Opening(stack')
    BY <2>2, Modes
  <2>4. StackShape(s)' /\ Flow(s)' /\ Lookup(s)'
    BY <1>3, <1>4, <1>5, <1>10, <2>2, <2>3 DEF StackShape, Flow, Lookup
  <2>5. GaveUp(s)'
    BY <1>3, <1>4, <1>5, <1>6, TrackedSame DEF GaveUp
  <2>6. Attempts(s)'
    BY <1>1, <1>3, <1>5, <1>10 DEF Attempts
  <2> QED  BY <1>7, <1>8, <1>10, <2>4, <2>5, <2>6 DEF Sound
<1> QED  BY <1>3, <1>9, <1>10 DEF socket_resolver_finished_cb

LEMMA OpenedSound ==
  ASSUME NEW s, One(s), socket_emit_connect_result
  PROVE  Sound(s)' /\ phase[s] = "connected" /\ phase' = [phase EXCEPT ![s] = "open"]
<1> USE Values
<1>1. StackShape(s) /\ Flow(s) /\ Lookup(s) /\ Fields(s) /\ SourcesKnown(s) /\ PendingKnown(s) /\ Leaks(s)
      /\ Attempts(s)
  BY DEF One, Sound
<1>2. Top("opened") /\ stack # <<>> /\ Head(stack) \in Frames /\ Tail(stack) \in Seq(Frames)
  BY PopType DEF socket_emit_connect_result, Top
<1>3. Head(stack).sock = s /\ Head(stack).op = "opened"
  BY <1>2, OneFrame DEF One, Top
<1>4. /\ alive[s] /\ Emit(s, "opened", Tail(stack))
      /\ UNCHANGED <<kernelVars, loopVars, privVars, addressVars, connects, attempted, alive, tries>>
  BY <1>3 DEF socket_emit_connect_result
<1>5. /\ stack' = <<Handler(s, "opened")>> \o Tail(stack) /\ phase'[s] = "open"
      /\ phase' = [phase EXCEPT ![s] = "open"]
  BY <1>4 DEF Emit, Phase
<1>6. Opening(stack) /\ Calm(Tail(stack)) /\ phase[s] = "connected" /\ connected[s]
  BY <1>1, <1>2, TopModes DEF Flow
<1>7. ~Trying(stack) /\ ~Resetting(stack)
  BY <1>6, Modes
<1>8. Calm(stack') /\ stack' \in Seq(Frames)
  <2>1. "opened" \in Signals \ {"closed", "ok"}
    BY DEF Signals
  <2> QED  BY <1>2, <1>5, <1>6, <2>1, PushModes, FrameTypes, PushType
<1>9. ~Trying(stack') /\ ~Resetting(stack') /\ ~Opening(stack')
  BY <1>8, Modes
<1>10. UNCHANGED <<conn, sources, pending, handle, channel, watches, connected, sa_iter, current, attempted,
                   alive, tries, resolved, lookups>>
  BY <1>4 DEF kernelVars, loopVars, privVars, addressVars
<1>11. StackShape(s)' /\ Flow(s)' /\ GaveUp(s)'
  BY <1>4, <1>5, <1>6, <1>8, <1>9, <1>10 DEF StackShape, Flow, GaveUp
<1>12. Lookup(s)' /\ Attempts(s)'
  BY <1>1, <1>5, <1>6, <1>7, <1>9, <1>10 DEF Lookup, Attempts
<1>13. SourcesKnown(s)'
  <2>1. "opened" \in Signals
    BY DEF Signals
  <2>2. ASSUME NEW x, Has(stack, Remove(x)) PROVE Has(stack', Remove(x))
    <3>1. Remove(x) # Head(stack)
      BY <1>3 DEF Remove
    <3>2. Has(Tail(stack), Remove(x))
      BY <1>2, <2>2, <3>1, HasTail
    <3> QED  BY <1>2, <1>5, <2>1, <3>2, HasPush, FrameTypes
  <2> QED  BY <1>1, <1>10, <2>2, SourcesSame
<1>14. PendingKnown(s)' /\ Leaks(s)'
  BY <1>1, <1>10, PendingSame, LeaksSame
<1>15. Fields(s)'
  BY <1>1, <1>10, FieldsSame DEF Fields
<1> QED  BY <1>5, <1>6, <1>11, <1>12, <1>13, <1>14, <1>15 DEF Sound

-----------------------------------------------------------------------------
(* socket_reset *)

LEMMA ResetFacts ==
  ASSUME NEW s, One(s), socket_reset(s)
  PROVE  /\ ~connected'[s] /\ ~sa_iter'[s] /\ channel'[s] = NULL /\ handle'[s] = 0
         /\ pending' = {} /\ sources' = sources \ Tracked(s)
         /\ \A c \in Conds : watches'[s][c] = 0
         /\ \A f \in Fds : conn'[f] = IF f = handle[s] THEN "free" ELSE conn[f]
<1> USE Values
<1>1. PendingKnown(s) /\ pending \subseteq Tracked(s)
  BY DEF One, Sound, PendingKnown
<1>2. /\ ~connected'[s] /\ ~sa_iter'[s] /\ channel'[s] = NULL /\ handle'[s] = 0
      /\ \A f \in Fds : conn'[f] = IF f = handle[s] THEN "free" ELSE conn[f]
  BY DEF socket_reset, _lm_sock_close
<1>3. socket_disconnect_io_watches(s)
  BY DEF socket_reset
<1>4. CASE channel[s] = NULL
  <2>1. UNCHANGED <<sources, pending, watches>>
    BY <1>3, <1>4 DEF socket_disconnect_io_watches
  <2>2. Tracked(s) = {} /\ \A c \in Conds : watches[s][c] = 0
    <3>1. \A c \in Conds : watches[s][c] = 0
      BY <1>4 DEF One, WatchesNeedChannel
    <3>2. \A x \in sources : watches[s][x.cond] # x.try
      BY <3>1, OneWatch DEF One
    <3> QED  BY <3>1, <3>2 DEF Tracked
  <2> QED  BY <1>1, <1>2, <2>1, <2>2
<1>5. CASE channel[s] # NULL
  <2>1. {y \in sources : y.sock # s} = {}
    BY OneWatch DEF One
  <2>2. Destroyed(s) = {{}}
    BY <2>1 DEF Destroyed
  <2>3. \E hit \in Destroyed(s) : /\ sources' = sources \ (Tracked(s) \cup hit)
                                  /\ pending' = pending \ (Tracked(s) \cup hit)
    BY <1>3, <1>5 DEF socket_disconnect_io_watches
  <2>4. sources' = sources \ Tracked(s) /\ pending' = pending \ Tracked(s)
    BY <2>2, <2>3
  <2>5. watches' = [watches EXCEPT ![s] = [c \in Conds |-> 0]]
    BY <1>3, <1>5 DEF socket_disconnect_io_watches
  <2> QED  BY <1>1, <1>2, <2>4, <2>5
<1> QED  BY <1>4, <1>5

LEMMA ResetSources ==
  ASSUME NEW s, One(s), socket_reset(s), UNCHANGED tries,
         alive'[s] => alive[s] /\ (sa_iter[s] \/ tries[s] = 0),
         \A x \in sources : Has(stack, Remove(x)) => Has(stack', Remove(x))
  PROVE  SourcesKnown(s)'
<1> USE Values
<1>1. Fields(s) /\ SourcesKnown(s)
  BY DEF One, Sound
<1> SUFFICES ASSUME NEW x \in sources'
             PROVE  /\ x.try <= tries'[s]
                    /\ channel'[s] # NULL /\ x.try = tries'[s] => x.fd = channel'[s]
                    /\ LeftBehind(s, x)'
  BY DEF SourcesKnown
<1>2. x \in sources /\ x \notin Tracked(s)
  BY ResetFacts
<1>3. x.try <= tries[s] /\ LeftBehind(s, x)
  BY <1>1, <1>2 DEF SourcesKnown
<1>4. x.fd \in Fds /\ x.try \in Nat \ {0}
  BY <1>2, OneWatch DEF One
<1>5. channel'[s] = NULL
  BY ResetFacts
<1>6. conn'[x.fd] \in Spent \/ (~alive'[s] /\ conn'[x.fd] = "free")
  <2>1. conn'[x.fd] = IF x.fd = handle[s] THEN "free" ELSE conn[x.fd]
    BY <1>4, ResetFacts
  <2>2. CASE alive'[s]
    <3>1. tries[s] # 0
      BY <1>3, <1>4
    <3>2. handle[s] = NULL \/ handle[s] = channel[s]
      BY <1>1, <2>2, <3>1 DEF Fields
    <3>3. x.fd # handle[s]
      BY <1>3, <1>4, <3>2 DEF LeftBehind
    <3> QED  BY <1>3, <2>1, <2>2, <3>3 DEF LeftBehind
  <2>3. CASE ~alive'[s]
    BY <1>3, <2>1, <2>3 DEF LeftBehind
  <2> QED  BY <2>2, <2>3
<1>7. LeftBehind(s, x)'
  BY <1>2, <1>3, <1>4, <1>5, <1>6 DEF LeftBehind
<1> QED  BY <1>3, <1>5, <1>7

LEMMA ResetRest ==
  ASSUME NEW s, One(s), socket_reset(s)
  PROVE  Fields(s)' /\ PendingKnown(s)' /\ Leaks(s)'
<1> USE Values
<1>1. /\ ~connected'[s] /\ ~sa_iter'[s] /\ channel'[s] = NULL /\ handle'[s] = 0 /\ pending' = {}
      /\ watches'[s]["IN"] = 0 /\ watches'[s]["HUP"] = 0
      /\ \A f \in Fds : conn'[f] = IF f = handle[s] THEN "free" ELSE conn[f]
  BY ResetFacts DEF Conds
<1>2. Leaks(s)
  BY DEF One, Sound
<1>3. Leaks(s)'
  BY <1>1, <1>2 DEF Leaks
<1>4. Fields(s)'
  BY <1>1 DEF Fields
<1> QED  BY <1>1, <1>3, <1>4, PendingNone

LEMMA CleanupSound ==
  ASSUME NEW s, One(s), socket_emit_disconnected_and_cleanup
  PROVE  Sound(s)' /\ UNCHANGED phase
<1> USE Values
<1>1. StackShape(s) /\ Flow(s) /\ Lookup(s) /\ Fields(s) /\ Attempts(s)
  BY DEF One, Sound
<1>2. Top("reset") /\ stack # <<>> /\ Head(stack) \in Frames /\ Tail(stack) \in Seq(Frames)
  BY PopType DEF socket_emit_disconnected_and_cleanup, Top
<1>3. Head(stack).sock = s /\ Head(stack).op = "reset"
  BY <1>2, OneFrame DEF One, Top
<1>4. /\ alive[s] /\ socket_reset(s) /\ stack' = Tail(stack)
      /\ UNCHANGED <<addressVars, clientVars, tries>>
  BY <1>3 DEF socket_emit_disconnected_and_cleanup
<1>5. UNCHANGED <<alive, phase, resolved, lookups, current, attempted>>
  BY <1>4 DEF addressVars, clientVars
<1>6. Resetting(stack) /\ Calm(stack') /\ phase[s] = "idle"
  BY <1>1, <1>2, <1>4, TopModes DEF Flow
<1>7. ~Trying(stack') /\ ~Resetting(stack') /\ ~Opening(stack') /\ ~Trying(stack)
  BY <1>2, <1>4, <1>6, Modes
<1>8. ~connected'[s] /\ ~sa_iter'[s]
  BY <1>4, ResetFacts
<1>9. StackShape(s)' /\ Flow(s)' /\ GaveUp(s)' /\ Attempts(s)'
  BY <1>4, <1>5, <1>6, <1>7, <1>8 DEF StackShape, Flow, GaveUp, Attempts
<1>10. Lookup(s)'
  BY <1>1, <1>4, <1>5, <1>6, <1>7, <1>8 DEF Lookup
<1>11. SourcesKnown(s)'
  <2>1. sa_iter[s] \/ tries[s] = 0
    BY <1>1, <1>6, <1>7 DEF Lookup
  <2>2. ASSUME NEW x, Has(stack, Remove(x)) PROVE Has(stack', Remove(x))
    <3>1. Remove(x) # Head(stack)
      BY <1>3 DEF Remove
    <3> QED  BY <1>2, <1>4, <2>2, <3>1, HasTail
  <2> QED  BY <1>4, <1>5, <2>1, <2>2, ResetSources
<1> QED  BY <1>4, <1>5, <1>9, <1>10, <1>11, ResetRest DEF Sound

LEMMA FinalizeSound ==
  ASSUME NEW s, One(s), socket_finalize(s)
  PROVE  Sound(s)' /\ UNCHANGED <<phase, crashed>>
<1> USE Values
<1>1. StackShape(s) /\ Flow(s) /\ Lookup(s) /\ Fields(s) /\ Attempts(s)
  BY DEF One, Sound
<1>2. /\ stack = <<>> /\ phase[s] = "idle" /\ lookups[s] = 0 /\ alive' = [alive EXCEPT ![s] = FALSE]
      /\ socket_reset(s) /\ UNCHANGED <<addressVars, phase, connects, attempted, stack, crashed, tries>>
  BY DEF One, CarefulClient, socket_finalize
<1>3. UNCHANGED <<resolved, lookups, current>> /\ ~alive'[s]
  BY <1>2 DEF addressVars
<1>4. Calm(stack') /\ ~Trying(stack') /\ ~Resetting(stack') /\ ~Opening(stack')
  BY <1>2, Modes
<1>5. ~connected'[s] /\ ~sa_iter'[s]
  BY <1>2, ResetFacts
<1>6. StackShape(s)' /\ Flow(s)' /\ GaveUp(s)' /\ Attempts(s)'
  BY <1>2, <1>3, <1>4, <1>5 DEF StackShape, Flow, GaveUp, Attempts
<1>7. Lookup(s)'
  BY <1>1, <1>2, <1>3, <1>4, <1>5 DEF Lookup
<1>8. SourcesKnown(s)'
  BY <1>2, <1>3, ResetSources
<1> QED  BY <1>2, <1>6, <1>7, <1>8, ResetRest DEF Sound

-----------------------------------------------------------------------------
(* Returns, and the kernel *)

LEMMA RemoveSound ==
  ASSUME NEW s, One(s), RemoveSource
  PROVE  Sound(s)' /\ UNCHANGED phase
<1> USE Values
<1>1. StackShape(s) /\ Flow(s) /\ Lookup(s) /\ Fields(s) /\ GaveUp(s) /\ SourcesKnown(s)
      /\ PendingKnown(s) /\ Leaks(s) /\ Attempts(s)
  BY DEF One, Sound
<1>2. Top("remove") /\ stack # <<>> /\ Head(stack) \in Frames /\ Tail(stack) \in Seq(Frames)
  BY PopType DEF RemoveSource, Top
<1> DEFINE z == Head(stack).src
<1>3. /\ sources' = sources \ {z} /\ pending' = pending \ {z} /\ stack' = Tail(stack)
      /\ UNCHANGED <<kernelVars, privVars, addressVars, clientVars, tries>>
  BY DEF RemoveSource
<1>4. UNCHANGED <<conn, handle, channel, watches, connected, sa_iter, alive, phase, resolved, lookups,
                  current, attempted>>
  BY <1>3 DEF kernelVars, privVars, addressVars, clientVars
<1>5. Calm(stack) /\ Calm(stack') /\ z.cond \in {"ERR", "HUP"} /\ z \in Watches
  <2>1. Calm(stack) /\ Calm(stack')
    BY <1>1, <1>2, <1>3, TopModes
  <2>2. CalmFrame(Head(stack))
    BY <1>2, <2>1, CalmTail
  <2> QED  BY <1>2, <2>1, <2>2, FrameFields DEF CalmFrame, Top
<1>6. Head(stack) = Remove(z)
  <2>1. Head(stack).op = "remove"
    BY <1>2 DEF Top
  <2>2. Head(stack) \in [op : {"remove"}, sock : Sockets, src : Watches]
    BY <1>2, <2>1 DEF Frames
  <2>3. Head(stack).sock = z.sock
    BY <1>2, <1>5, OneFrame, OneWatch DEF One
  <2> QED  BY <2>2, <2>3 DEF Remove
<1> HIDE DEF z
<1>7. /\ ~Trying(stack') /\ ~Resetting(stack') /\ ~Opening(stack') /\ ~Trying(stack) /\ ~Resetting(stack)
      /\ ~Opening(stack)
  BY <1>2, <1>3, <1>5, Modes
<1>8. StackShape(s)' /\ Flow(s)' /\ Lookup(s)' /\ Attempts(s)'
  BY <1>1, <1>2, <1>3, <1>4, <1>5, <1>7 DEF StackShape, Flow, Lookup, Attempts
<1>9. \A x : x # z /\ Has(stack, Remove(x)) => Has(stack', Remove(x))
  <2> SUFFICES ASSUME NEW x, x # z, Has(stack, Remove(x)) PROVE Has(stack', Remove(x))
    OBVIOUS
  <2>1. Remove(x) # Head(stack)
    BY <1>6 DEF Remove
  <2> QED  BY <1>2, <1>3, <2>1, HasTail
<1>10. SourcesKnown(s)'
  <2>1. \A x \in sources' : Has(stack, Remove(x)) => Has(stack', Remove(x))
    BY <1>3, <1>9
  <2> QED  BY <1>1, <1>3, <1>4, <2>1, SourcesSame
<1>11. GaveUp(s)'
  <2> SUFFICES ASSUME phase[s] = "failed" PROVE GaveUp(s)'
    BY <1>4, <1>7 DEF GaveUp
  <2>1. \A x \in Tracked(s)' : x \in Tracked(s) /\ x # z
    BY <1>3, <1>4 DEF Tracked
  <2> QED  BY <1>1, <1>3, <1>4, <1>9, <2>1 DEF GaveUp
<1>12. Fields(s)'
  <2>1. channel[s] # NULL => Watch(s, "OUT", tries[s], channel[s]) # z
    BY <1>5 DEF Watch
  <2> QED  BY <1>1, <1>3, <1>4, <2>1 DEF Fields
<1>13. PendingKnown(s)'
  <2>1. \A x \in pending' : x \in pending /\ alive'[s] /\ x \in Tracked(s)'
    BY <1>1, <1>3, <1>4 DEF PendingKnown, Tracked
  <2>2. Watch(s, "OUT", tries[s], channel[s]) # z
    BY <1>5 DEF Watch
  <2>3. Watch(s, "OUT", tries[s], channel[s]) \in pending' <=> Watch(s, "OUT", tries[s], channel[s]) \in pending
    BY <1>3, <2>2
  <2> QED  BY <1>1, <1>3, <1>4, <2>1, <2>3 DEF PendingKnown
<1> QED  BY <1>1, <1>4, <1>8, <1>10, <1>11, <1>12, <1>13, LeaksSame DEF Sound

LEMMA HandlerReturnsSound ==
  ASSUME NEW s, One(s), HandlerReturns
  PROVE  Sound(s)' /\ UNCHANGED phase
<1> USE Values
<1>1. StackShape(s) /\ Flow(s) /\ Lookup(s) /\ Fields(s) /\ GaveUp(s) /\ SourcesKnown(s)
      /\ PendingKnown(s) /\ Leaks(s) /\ Attempts(s)
  BY DEF One, Sound
<1>2. Top("handler") /\ stack # <<>> /\ Head(stack) \in Frames /\ Tail(stack) \in Seq(Frames)
  BY PopType DEF HandlerReturns, Top
<1>3. /\ stack' = Tail(stack)
      /\ UNCHANGED <<kernelVars, loopVars, privVars, addressVars, clientVars, tries>>
  BY DEF HandlerReturns
<1>4. UNCHANGED <<conn, sources, pending, handle, channel, watches, connected, sa_iter, alive, phase, resolved,
                  lookups, current, attempted>>
  BY <1>3 DEF kernelVars, loopVars, privVars, addressVars, clientVars
<1>5. /\ Trying(stack') <=> Trying(stack)
      /\ Resetting(stack') <=> Resetting(stack)
      /\ Opening(stack') <=> Opening(stack)
      /\ Calm(stack') \/ Resetting(stack') \/ Opening(stack')
  BY <1>1, <1>2, <1>3, TopModes, Modes
<1>6. StackShape(s)' /\ Flow(s)' /\ Lookup(s)' /\ Attempts(s)'
  BY <1>1, <1>2, <1>3, <1>4, <1>5 DEF StackShape, Flow, Lookup, Attempts
<1>7. \A x : Has(stack, Remove(x)) => Has(stack', Remove(x))
  <2> SUFFICES ASSUME NEW x, Has(stack, Remove(x)) PROVE Has(stack', Remove(x))
    OBVIOUS
  <2>1. Remove(x) # Head(stack)
    BY <1>2 DEF Remove, Top
  <2> QED  BY <1>2, <1>3, <2>1, HasTail
<1>8. SourcesKnown(s)'
  BY <1>1, <1>4, <1>7, <1>3, SourcesSame
<1>9. GaveUp(s)'
  BY <1>1, <1>4, <1>5, <1>7, TrackedSame DEF GaveUp
<1>10. Fields(s)' /\ PendingKnown(s)' /\ Leaks(s)'
  <2>1. Fields(s)'
    BY <1>1, <1>3, <1>4, FieldsSame DEF Fields
  <2> QED  BY <1>1, <1>3, <1>4, <2>1, PendingSame, LeaksSame
<1> QED  BY <1>4, <1>6, <1>8, <1>9, <1>10 DEF Sound

LEMMA KernelSound ==
  ASSUME NEW s, One(s), NEW f \in Fds, Settle(f) \/ Traffic(f)
  PROVE  Sound(s)' /\ UNCHANGED <<phase, crashed>>
<1> USE Values
<1>1. StackShape(s) /\ Flow(s) /\ Lookup(s) /\ Fields(s) /\ GaveUp(s) /\ SourcesKnown(s)
      /\ PendingKnown(s) /\ Leaks(s) /\ Attempts(s)
  BY DEF One, Sound
<1>2. /\ conn[f] \in {"syn", "up", "upin", "eof"}
      /\ \E k \in {"up", "failed", "upin", "eof", "lost"} : conn' = [conn EXCEPT ![f] = k]
      /\ conn[f] \in {"up", "upin", "eof"} => \E k \in {"upin", "eof", "lost"} : conn' = [conn EXCEPT ![f] = k]
      /\ UNCHANGED <<loopVars, privVars, addressVars, clientVars, stack, crashed, tries>>
  BY DEF Settle, Traffic, Moves
<1>3. UNCHANGED <<sources, pending, handle, channel, watches, connected, sa_iter, alive, phase, resolved,
                  lookups, current, attempted, stack, tries>>
  BY <1>2 DEF loopVars, privVars, addressVars, clientVars
<1>4. /\ \A g \in Fds : g # f => conn'[g] = conn[g]
      /\ conn'[f] \in {"up", "failed", "upin", "eof", "lost"}
      /\ conn[f] \in {"up", "upin", "eof"} => conn'[f] \in {"upin", "eof", "lost"}
  BY <1>2
<1>5. conn[f] \notin Spent \cup {"free", "stdin", "failed", "lost"}
  BY <1>2 DEF Spent
<1>6. StackShape(s)' /\ Flow(s)' /\ Lookup(s)' /\ Attempts(s)'
  BY <1>1, <1>3 DEF StackShape, Flow, Lookup, Attempts
<1>7. GaveUp(s)'
  <2>1. channel[s] # NULL /\ conn[channel[s]] \in Spent => conn'[channel[s]] \in Spent
    BY <1>4, <1>5
  <2> QED  BY <1>1, <1>3, <2>1, TrackedSame DEF GaveUp
<1>8. SourcesKnown(s)'
  <2>1. \A x \in sources : x.fd \in Fds
    BY OneWatch DEF One
  <2>2. \A g \in Fds : conn[g] \in Spent \cup {"free"} => conn'[g] = conn[g]
    BY <1>4, <1>5
  <2> QED  BY <1>1, <1>3, <2>1, <2>2, SourcesSame
<1>9. PendingKnown(s)'
  <2>1. CASE pending = {}
    BY <1>3, <2>1, PendingNone
  <2>2. CASE channel[s] \in Fds
    <3>1. conn[channel[s]] \in EverUp => conn'[channel[s]] \in EverUp
      BY <1>2, <1>4, <2>2 DEF EverUp
    <3>2. conn[channel[s]] \in {"failed", "lost"} => conn'[channel[s]] \in {"failed", "lost"}
      BY <1>4, <1>5, <2>2
    <3> QED  BY <1>1, <1>3, <3>1, <3>2, PendingSame
  <2>3. channel[s] = NULL => pending = {}
    <3>1. channel[s] = NULL => Tracked(s) = {}
      <4>1. channel[s] = NULL => \A x \in sources : watches[s][x.cond] # x.try
        BY OneWatch DEF One, WatchesNeedChannel
      <4> QED  BY <4>1 DEF Tracked
    <3> QED  BY <1>1, <3>1 DEF PendingKnown
  <2> QED  BY <2>1, <2>2, <2>3
<1>10. Leaks(s)'
  BY <1>1, <1>3, <1>4, <1>5, LeaksSame
<1>11. Fields(s)'
  <2>1. channel[s] # NULL => conn'[channel[s]] \notin {"free", "stdin"}
    BY <1>1, <1>4 DEF Fields
  <2> QED  BY <1>1, <1>3, <2>1, FieldsSame
<1> QED  BY <1>2, <1>3, <1>6, <1>7, <1>8, <1>9, <1>10, <1>11 DEF Sound

-----------------------------------------------------------------------------
(* Trying a result *)

LEMMA TrackedIs ==
  ASSUME NEW s, One(s), NEW x \in Tracked(s)
  PROVE  /\ x \in Watches /\ channel[s] \in Fds /\ channel[s] # NULL /\ sa_iter[s]
         /\ x.try = tries[s] /\ x.fd = channel[s]
         /\ x = Watch(s, x.cond, tries[s], channel[s])
         /\ ~connected[s] => x.cond \in {"OUT", "ERR"}
<1> USE Values
<1>1. Fields(s) /\ SourcesKnown(s)
  BY DEF One, Sound
<1>2. x \in sources /\ x \in Watches /\ watches[s][x.cond] = x.try
  BY DEF Tracked
<1>3. x.try # 0 /\ x.cond \in Conds /\ x = Watch(s, x.cond, x.try, x.fd)
  BY <1>2, OneWatch DEF One
<1>4. channel[s] # NULL
  BY <1>2, <1>3 DEF One, WatchesNeedChannel
<1>5. x.try = tries[s] /\ (~connected[s] => x.cond \in {"OUT", "ERR"})
  BY <1>1, <1>2, <1>3, <1>4 DEF Fields, Conds
<1>6. x.fd = channel[s]
  BY <1>1, <1>2, <1>4, <1>5 DEF SourcesKnown
<1>7. sa_iter[s]
  BY <1>1, <1>4 DEF Fields
<1> QED  BY <1>2, <1>3, <1>4, <1>5, <1>6, <1>7

LEMMA TriedNow ==
  ASSUME NEW i \in Nat, i > 0
  PROVE  /\ (1 .. i - 1) \cup {i} = 1 .. i + 1 - 1
         /\ {} \cup {i} = 1 .. i + 1 - 1 \/ i # 1
OBVIOUS

(* The loop of socket_attempt_connect_next, at its top. *)
LEMMA TryingFacts ==
  ASSUME NEW s, One(s), socket_attempt_connect_next
  PROVE  /\ stack # <<>> /\ Head(stack) \in Frames /\ Tail(stack) \in Seq(Frames)
         /\ Head(stack).sock = s /\ Head(stack).op = "next" /\ alive[s]
         /\ Trying(stack) /\ ~Resetting(stack) /\ ~Opening(stack) /\ Calm(Tail(stack))
         /\ phase[s] = "connecting" /\ lookups[s] = 0 /\ resolved[AddressOf[s]]
         /\ ~connected[s] /\ pending = {}
         /\ \A x : Has(stack, Remove(x)) => Has(Tail(stack), Remove(x))
         /\ attempted[s] = IF sa_iter[s] THEN 1 .. current[AddressOf[s]] - 1 ELSE {}
<1> USE Values
<1>1. StackShape(s) /\ Flow(s) /\ Lookup(s) /\ GaveUp(s) /\ Attempts(s)
  BY DEF One, Sound
<1>2. Top("next") /\ stack # <<>> /\ Head(stack) \in Frames /\ Tail(stack) \in Seq(Frames)
  BY PopType DEF socket_attempt_connect_next, Top
<1>3. Head(stack).sock = s /\ Head(stack).op = "next"
  BY <1>2, OneFrame DEF One, Top
<1>4. Trying(stack) /\ ~Resetting(stack) /\ ~Opening(stack) /\ Calm(Tail(stack))
  BY <1>1, <1>2, TopModes, Modes
<1>5. phase[s] = "connecting" /\ lookups[s] = 0 /\ resolved[AddressOf[s]]
  BY <1>1, <1>4 DEF Flow, Lookup
<1>6. ~connected[s] /\ pending = {}
  BY <1>1, <1>4 DEF GaveUp
<1>7. \A x : Has(stack, Remove(x)) => Has(Tail(stack), Remove(x))
  <2> SUFFICES ASSUME NEW x, Has(stack, Remove(x)) PROVE Has(Tail(stack), Remove(x))
    OBVIOUS
  <2>1. Remove(x) # Head(stack)
    BY <1>3 DEF Remove
  <2> QED  BY <1>2, <2>1, HasTail
<1>8. alive[s]
  BY <1>1, <1>2 DEF StackShape
<1> QED  BY <1>1, <1>2, <1>3, <1>4, <1>5, <1>6, <1>7, <1>8 DEF Attempts

LEMMA TriedAllSound ==
  ASSUME NEW s, One(s), socket_attempt_connect_next, Position(s) > NumResults,
         current' = [current EXCEPT ![AddressOf[s]] = Position(s)],
         Emit(s, "tried_all", Tail(stack)),
         UNCHANGED <<conn, sources, handle, channel, watches, tries, attempted>>
  PROVE  Sound(s)' /\ attempted[s] = 1 .. NumResults
<1> USE Values, TryingFacts
<1>1. Fields(s) /\ GaveUp(s) /\ SourcesKnown(s) /\ Leaks(s)
  BY DEF One, Sound
<1>2. sa_iter[s] /\ sa_iter'[s] /\ current[AddressOf[s]] > NumResults /\ current' = current
  <2>1. NumResults \in Nat \ {0}
    BY BoundsAssumption
  <2>2. sa_iter[s] /\ Position(s) = current[AddressOf[s]]
    BY <2>1 DEF Position
  <2>3. sa_iter' = [sa_iter EXCEPT ![s] = TRUE] /\ sa_iter \in [Sockets -> BOOLEAN]
        /\ current \in [Addresses -> 1 .. NumResults + 1]
    BY DEF One, TypeInv, TypeOK, socket_attempt_connect_next
  <2> QED  BY <2>2, <2>3
<1>3. UNCHANGED <<pending, connected, resolved, lookups, alive>>
  BY DEF socket_attempt_connect_next
<1>4. stack' = <<Handler(s, "tried_all")>> \o Tail(stack) /\ phase'[s] = "failed"
  BY DEF Emit, Phase
<1>5. Calm(stack') /\ stack' \in Seq(Frames) /\ \A x : Has(stack, Remove(x)) => Has(stack', Remove(x))
  <2>1. "tried_all" \in Signals \ {"closed", "ok"}
    BY DEF Signals, Results
  <2>2. Handler(s, "tried_all") \in Frames
    BY <2>1, FrameTypes
  <2> QED  BY <1>4, <2>1, <2>2, PushModes, PushType, HasPush
<1>6. ~Trying(stack') /\ ~Resetting(stack') /\ ~Opening(stack')
  BY <1>5, Modes
<1>7. current[AddressOf[s]] = NumResults + 1
  BY <1>2, BoundsAssumption
<1>8. attempted[s] = 1 .. NumResults
  <2>1. current[AddressOf[s]] - 1 = NumResults
    BY <1>7, BoundsAssumption
  <2>2. attempted[s] = 1 .. current[AddressOf[s]] - 1
    BY <1>2
  <2> QED  BY <2>1, <2>2
<1>9. StackShape(s)' /\ Flow(s)' /\ Lookup(s)'
  BY <1>2, <1>3, <1>4, <1>5, <1>6 DEF StackShape, Flow, Lookup
<1>10. Attempts(s)'
  BY <1>2 DEF Attempts
<1>11. GaveUp(s)'
  BY <1>1, <1>3, <1>5, TrackedSame DEF GaveUp
<1>12. SourcesKnown(s)'
  BY <1>1, <1>3, <1>5, SourcesSame
<1>13. Leaks(s)' /\ PendingKnown(s)'
  BY <1>1, <1>3, LeaksSame, PendingNone
<1>14. Fields(s)'
  BY <1>1, <1>2, <1>3 DEF Fields
<1> QED  BY <1>8, <1>9, <1>10, <1>11, <1>12, <1>13, <1>14 DEF Sound

LEMMA ThisResult ==
  ASSUME NEW s, One(s), socket_attempt_connect_next, Position(s) <= NumResults,
         current' = [current EXCEPT ![AddressOf[s]] = Position(s) + 1],
         attempted' = [attempted EXCEPT ![s] = @ \cup {Position(s)}]
  PROVE  sa_iter'[s] /\ attempted'[s] = 1 .. current'[AddressOf[s]] - 1
<1> USE Values, TryingFacts
<1>1. sa_iter' = [sa_iter EXCEPT ![s] = TRUE]
  BY DEF socket_attempt_connect_next
<1>2. PICK i \in Nat : i = Position(s) /\ i > 0
  BY BoundsAssumption DEF Position
<1>3. attempted[s] = IF i = 1 THEN {} ELSE 1 .. i - 1
  BY <1>2 DEF Position
<1>4. attempted'[s] = attempted[s] \cup {i} /\ current'[AddressOf[s]] = i + 1
  BY <1>2
<1>5. attempted[s] \cup {i} = 1 .. i + 1 - 1
  <2>1. CASE i = 1
    <3>1. attempted[s] = {}
      BY <1>3, <2>1
    <3> QED  BY <1>2, <2>1, <3>1, TriedNow
  <2>2. CASE i # 1
    <3>1. attempted[s] = 1 .. i - 1
      BY <1>3, <2>2
    <3> QED  BY <1>2, <3>1, TriedNow
  <2> QED  BY <2>1, <2>2
<1>6. sa_iter'[s]
  BY <1>1
<1>7. current'[AddressOf[s]] - 1 = i + 1 - 1
  BY <1>4
<1> QED  BY <1>4, <1>5, <1>6, <1>7

LEMMA NoDescriptorSound ==
  ASSUME NEW s, One(s), socket_attempt_connect_next, NoDescriptor(s), UNCHANGED phase,
         sa_iter'[s], attempted'[s] = 1 .. current'[AddressOf[s]] - 1
  PROVE  Sound(s)'
<1> USE Values, TryingFacts
<1>1. StackShape(s) /\ Flow(s) /\ Fields(s) /\ GaveUp(s) /\ SourcesKnown(s) /\ Leaks(s)
  BY DEF One, Sound
<1>2. /\ UNCHANGED <<pending, connected, resolved, lookups, alive>>
      /\ UNCHANGED <<conn, channel, watches, sources, tries, stack>> /\ handle'[s] = NULL
  BY DEF socket_attempt_connect_next, NoDescriptor
<1>3. StackShape(s)' /\ Flow(s)' /\ Lookup(s)' /\ Attempts(s)'
  BY <1>1, <1>2 DEF StackShape, Flow, Lookup, Attempts
<1>4. GaveUp(s)' /\ PendingKnown(s)'
  BY <1>1, <1>2, TrackedSame, PendingNone DEF GaveUp
<1>5. SourcesKnown(s)'
  BY <1>1, <1>2, SourcesSame
<1>6. Fields(s)'
  BY <1>1, <1>2 DEF Fields
<1>7. Leaks(s)'
  <2>1. ASSUME NEW f \in Fds \ {0}, handle[s] = f PROVE ~HangupIsWritable /\ conn[f] \in Spent
    BY <1>1, <2>1 DEF Fields, GaveUp
  <2> QED  BY <1>1, <1>2, <2>1 DEF Leaks
<1> QED  BY <1>3, <1>4, <1>5, <1>6, <1>7 DEF Sound

LEMMA ConnectStartsSound ==
  ASSUME NEW s, One(s), socket_attempt_connect_next, ConnectStarts(s), UNCHANGED phase,
         sa_iter'[s], attempted'[s] = 1 .. current'[AddressOf[s]] - 1
  PROVE  Sound(s)'
<1> USE Values, TryingFacts
<1>1. StackShape(s) /\ Flow(s) /\ Lookup(s) /\ Fields(s) /\ GaveUp(s) /\ SourcesKnown(s) /\ Leaks(s)
  BY DEF One, Sound
<1>2. UNCHANGED <<pending, connected, resolved, lookups, alive>>
  BY DEF socket_attempt_connect_next
<1>3. PICK f \in Fds : \E k \in {"syn", "up"} :
        /\ LowestFree(f) /\ AttachConnectWatches(s, f)
        /\ handle' = [handle EXCEPT ![s] = f] /\ conn' = [conn EXCEPT ![f] = k]
  BY DEF ConnectStarts
<1> DEFINE t == tries[s] + 1
<1>4. t \in Nat /\ t > 0 /\ t > tries[s] /\ f # NULL
  BY <1>3
<1>5. /\ conn[f] = "free" /\ handle'[s] = f /\ channel'[s] = f /\ tries'[s] = t
      /\ watches'[s]["OUT"] = t /\ watches'[s]["ERR"] = t
      /\ watches'[s]["IN"] = watches[s]["IN"] /\ watches'[s]["HUP"] = watches[s]["HUP"]
      /\ sources' = sources \cup {Watch(s, "OUT", t, f), Watch(s, "ERR", t, f)}
      /\ conn'[f] \in {"syn", "up"} /\ \A g \in Fds : g # f => conn'[g] = conn[g]
  BY <1>3 DEF LowestFree, AttachConnectWatches, Conds
<1>6. stack' = Tail(stack)
  BY DEF ConnectStarts
<1> HIDE DEF t
<1>7. Calm(stack') /\ ~Trying(stack') /\ ~Resetting(stack') /\ ~Opening(stack')
  BY <1>6, Modes
<1>8. StackShape(s)' /\ Flow(s)' /\ Lookup(s)' /\ Attempts(s)'
  BY <1>2, <1>4, <1>5, <1>7 DEF StackShape, Flow, Lookup, Attempts
<1>9. GaveUp(s)' /\ PendingKnown(s)'
  BY <1>2, <1>7, PendingNone DEF GaveUp
<1>10. Fields(s)'
  BY <1>1, <1>2, <1>4, <1>5 DEF Fields
<1>11. Leaks(s)'
  <2>1. ASSUME NEW g \in Fds \ {0}, handle[s] = g PROVE ~HangupIsWritable /\ conn[g] \in Spent
    BY <1>1, <2>1 DEF Fields, GaveUp
  <2>2. ASSUME NEW g \in Fds \ {0}, conn'[g] # "free"
        PROVE  handle'[s] = g \/ (~HangupIsWritable /\ conn'[g] \in Spent)
    <3>1. CASE g = f
      BY <1>5, <3>1
    <3>2. CASE g # f
      BY <1>1, <1>5, <2>1, <2>2, <3>2 DEF Leaks
    <3> QED  BY <3>1, <3>2
  <2> QED  BY <2>2 DEF Leaks
<1>12. SourcesKnown(s)'
  <2>1. ASSUME NEW x \in sources
        PROVE  x.try <= tries'[s] /\ x.try # tries'[s] /\ LeftBehind(s, x)'
    <3>1. x.try \in Nat \ {0} /\ x.fd \in Fds /\ x.try <= tries[s]
      BY <1>1, OneWatch DEF One, SourcesKnown
    <3>2. ~HangupIsWritable /\ (x.cond = "OUT" \/ Has(stack, Remove(x))) /\ conn[x.fd] \in Spent
      <4>1. CASE x \in Tracked(s)
        BY <1>1, <4>1, TrackedIs DEF GaveUp
      <4>2. CASE LeftBehind(s, x)
        BY <4>2 DEF LeftBehind
      <4> QED  BY <1>1, <4>1, <4>2 DEF SourcesKnown
    <3>3. x.fd # f
      BY <1>5, <3>2 DEF Spent
    <3>4. LeftBehind(s, x)'
      BY <1>5, <1>6, <3>1, <3>2, <3>3 DEF LeftBehind
    <3> QED  BY <1>4, <1>5, <3>1, <3>4
  <2>2. ASSUME NEW c \in {"OUT", "ERR"}
        PROVE  /\ Watch(s, c, t, f).try <= tries'[s] /\ Watch(s, c, t, f).fd = channel'[s]
               /\ Watch(s, c, t, f) \in Tracked(s)'
    BY <1>4, <1>5 DEF Watch, Tracked
  <2>3. \A x \in sources' : x \in sources \/ \E c \in {"OUT", "ERR"} : x = Watch(s, c, t, f)
    BY <1>5
  <2>4. ASSUME NEW x \in sources'
        PROVE  /\ x.try <= tries'[s]
               /\ channel'[s] # NULL /\ x.try = tries'[s] => x.fd = channel'[s]
               /\ x \in Tracked(s)' \/ LeftBehind(s, x)'
    <3>1. CASE x \in sources
      BY <2>1, <3>1
    <3>2. ASSUME NEW c \in {"OUT", "ERR"}, x = Watch(s, c, t, f)
          PROVE  /\ x.try <= tries'[s] /\ x.fd = channel'[s] /\ x \in Tracked(s)'
      BY <2>2, <3>2
    <3> QED  BY <2>3, <3>1, <3>2
  <2> QED  BY <2>4 DEF SourcesKnown
<1> QED  BY <1>8, <1>9, <1>10, <1>11, <1>12 DEF Sound

LEMMA AttemptSound ==
  ASSUME NEW s, One(s), socket_attempt_connect_next
  PROVE  /\ Sound(s)'
         /\ \/ UNCHANGED phase
            \/ /\ phase[s] = "connecting" /\ phase' = [phase EXCEPT ![s] = "failed"]
               /\ attempted[s] = 1 .. NumResults
<1> USE Values, TryingFacts
<1>1. CASE /\ Position(s) > NumResults
           /\ current' = [current EXCEPT ![AddressOf[s]] = Position(s)]
           /\ Emit(s, "tried_all", Tail(stack))
           /\ UNCHANGED <<conn, sources, handle, channel, watches, tries, attempted>>
  <2>1. Sound(s)' /\ attempted[s] = 1 .. NumResults
    BY <1>1, TriedAllSound
  <2> QED  BY <1>1, <2>1 DEF Emit, Phase
<1>2. CASE /\ Position(s) <= NumResults
           /\ current' = [current EXCEPT ![AddressOf[s]] = Position(s) + 1]
           /\ attempted' = [attempted EXCEPT ![s] = @ \cup {Position(s)}]
           /\ socket_attempt_connect(s)
           /\ UNCHANGED phase
  <2>1. sa_iter'[s] /\ attempted'[s] = 1 .. current'[AddressOf[s]] - 1
    BY <1>2, ThisResult
  <2>2. NoDescriptor(s) \/ ConnectStarts(s)
    BY <1>2 DEF socket_attempt_connect, ConnectFails, One, CarefulClient
  <2> QED  BY <1>2, <2>1, <2>2, NoDescriptorSound, ConnectStartsSound
<1> QED  BY <1>1, <1>2 DEF socket_attempt_connect_next

-----------------------------------------------------------------------------
(* The main loop *)

LEMMA PollSound ==
  ASSUME NEW s, One(s), Poll
  PROVE  Sound(s)' /\ UNCHANGED <<phase, crashed>>
<1> USE Values
<1>1. StackShape(s) /\ Flow(s) /\ Lookup(s) /\ Fields(s) /\ GaveUp(s) /\ SourcesKnown(s) /\ Leaks(s) /\ Attempts(s)
  BY DEF One, Sound
<1>2. /\ stack = <<>> /\ pending = {} /\ pending' = {x \in sources : x.cond \in Ready(conn[x.fd])}
      /\ UNCHANGED <<kernelVars, sources, privVars, addressVars, clientVars, stack, crashed, tries>>
  BY DEF Poll
<1>3. UNCHANGED <<conn, sources, handle, channel, watches, connected, sa_iter, alive, phase, resolved, lookups,
                  current, attempted, stack, tries>>
  BY <1>2 DEF kernelVars, privVars, addressVars, clientVars
<1>4. Calm(stack) /\ ~Trying(stack) /\ ~Resetting(stack) /\ ~Opening(stack)
  BY <1>2, Modes
<1>5. ASSUME NEW x \in pending' PROVE x \in sources /\ x.cond \in Ready(conn[x.fd]) /\ x \in Tracked(s)
  <2>1. x \in sources /\ x.cond \in Ready(conn[x.fd])
    BY <1>2
  <2>2. ~Has(stack, Remove(x))
    BY <1>2 DEF Has
  <2>3. ~LeftBehind(s, x)
    BY <2>1, <2>2 DEF LeftBehind, Ready, Spent
  <2> QED  BY <1>1, <2>1, <2>3 DEF SourcesKnown
<1>6. ASSUME NEW x \in pending' PROVE alive[s]
  <2>1. sa_iter[s]
    BY <1>5, TrackedIs
  <2> QED  BY <1>1, <1>4, <2>1 DEF Flow
<1>7. StackShape(s)' /\ Flow(s)' /\ Lookup(s)' /\ Attempts(s)'
  BY <1>1, <1>3 DEF StackShape, Flow, Lookup, Attempts
<1>8. SourcesKnown(s)' /\ Leaks(s)'
  BY <1>1, <1>3, SourcesSame, LeaksSame
<1>9. Fields(s)'
  BY <1>1, <1>3, FieldsSame DEF Fields
<1>10. GaveUp(s)'
  <2> SUFFICES ASSUME phase[s] = "failed" PROVE GaveUp(s)'
    BY <1>3, <1>4 DEF GaveUp
  <2>1. ASSUME NEW x \in pending' PROVE FALSE
    <3>1. x \in Tracked(s) /\ x.cond \in Ready(conn[x.fd]) /\ channel[s] # NULL /\ x.fd = channel[s]
      BY <1>5, TrackedIs
    <3>2. x.cond = "OUT" /\ ~HangupIsWritable /\ conn[x.fd] \in Spent
      <4>1. ~Has(stack, Remove(x))
        BY <1>2 DEF Has
      <4> QED  BY <1>1, <3>1, <4>1 DEF GaveUp
    <3> QED  BY <3>1, <3>2 DEF Ready, Spent
  <2>2. pending' = {}
    BY <2>1
  <2> QED  BY <1>1, <1>3, <2>2, TrackedSame DEF GaveUp
<1>11. PendingKnown(s)'
  <2>1. \A x \in pending' : alive'[s] /\ x \in Tracked(s)'
    BY <1>3, <1>5, <1>6, TrackedSame
  <2>2. ASSUME NEW x \in pending', ~connected[s], x.cond = "OUT", ~HangupIsWritable
        PROVE  conn[channel[s]] \in EverUp
    <3>1. x.fd = channel[s] /\ "OUT" \in Ready(conn[x.fd])
      BY <1>5, <2>2, TrackedIs
    <3> QED  BY <2>2, <3>1 DEF Ready, EverUp
  <2>3. ASSUME NEW x \in pending', ~connected[s], x.cond = "ERR"
        PROVE  /\ ~HangupIsWritable => conn[channel[s]] \in {"failed", "lost"}
               /\ HangupIsWritable <=> Watch(s, "OUT", tries[s], channel[s]) \in pending'
    <3> DEFINE w == Watch(s, "OUT", tries[s], channel[s])
    <3>1. x.fd = channel[s] /\ "ERR" \in Ready(conn[x.fd]) /\ channel[s] # NULL
      BY <1>5, <2>3, TrackedIs
    <3>2. conn[channel[s]] \in {"failed", "lost"}
      BY <3>1 DEF Ready
    <3>3. w \in sources /\ w.cond = "OUT" /\ w.fd = channel[s]
      BY <1>1, <3>1 DEF Fields, Watch
    <3>4. w \in pending' <=> "OUT" \in Ready(conn[channel[s]])
      BY <1>2, <3>3
    <3>5. "OUT" \in Ready(conn[channel[s]]) <=> HangupIsWritable
      BY <3>2 DEF Ready
    <3> QED  BY <3>2, <3>4, <3>5
  <2> QED  BY <1>3, <2>1, <2>2, <2>3 DEF PendingKnown
<1> QED  BY <1>3, <1>2, <1>7, <1>8, <1>9, <1>10, <1>11 DEF Sound

LEMMA DispatchFacts ==
  ASSUME NEW s, One(s), Dispatch
  PROVE  \E x \in pending :
           /\ x \in Tracked(s) /\ alive[s] /\ stack = <<>>
           /\ \A y \in pending : ~Older(y, x)
           /\ pending' = pending \ {x}
           /\ socket_in_cb(x) \/ socket_out_cb(x) \/ socket_err_cb(x) \/ socket_hup_cb(x)
           /\ UNCHANGED <<crashed, addressVars, connects, attempted, alive, tries>>
<1> USE Values
<1>1. PICK x \in pending :
        /\ \A y \in pending : ~Older(y, x)
        /\ pending' = pending \ {x}
        /\ \/ /\ alive[x.sock]
              /\ socket_in_cb(x) \/ socket_out_cb(x) \/ socket_err_cb(x) \/ socket_hup_cb(x)
              /\ UNCHANGED crashed
           \/ ~alive[x.sock]
  BY DEF Dispatch
<1>2. x \in Tracked(s) /\ alive[s] /\ x.sock = s
  BY OneWatch DEF One, Sound, PendingKnown
<1>3. stack = <<>> /\ UNCHANGED <<addressVars, connects, attempted, alive, tries>>
  BY DEF Dispatch
<1> QED  BY <1>1, <1>2, <1>3

(* Between two dispatches a socket with a watch is connecting or open. *)
LEMMA LoopFacts ==
  ASSUME NEW s, One(s), stack = <<>>, NEW x \in pending
  PROVE  /\ Calm(stack) /\ ~Trying(stack) /\ ~Resetting(stack) /\ ~Opening(stack)
         /\ connected[s] => phase[s] = "open"
         /\ ~connected[s] => phase[s] = "connecting"
         /\ lookups[s] = 0 /\ handle[s] = channel[s] /\ channel[s] # NULL
<1> USE Values
<1>1. Flow(s) /\ Lookup(s) /\ Fields(s) /\ GaveUp(s) /\ PendingKnown(s)
  BY DEF One, Sound
<1>2. Calm(stack) /\ ~Trying(stack) /\ ~Resetting(stack) /\ ~Opening(stack)
  BY Modes
<1>3. sa_iter[s] /\ channel[s] # NULL
  BY <1>1, TrackedIs DEF PendingKnown
<1>4. lookups[s] = 0
  BY <1>1, <1>3 DEF Lookup
<1>5. connected[s] => phase[s] = "open"
  BY <1>1, <1>2 DEF Flow
<1>6. ~connected[s] => phase[s] = "connecting"
  <2>1. phase[s] \in {"idle", "connecting", "failed", "connected", "open"}
    BY DEF Phases
  <2> QED  BY <1>1, <1>2, <1>3, <2>1 DEF Flow, GaveUp
<1>7. handle[s] = channel[s]
  BY <1>1, <1>2, <1>3, <1>6 DEF Flow, Fields
<1> QED  BY <1>2, <1>3, <1>4, <1>5, <1>6, <1>7

LEMMA OutSound ==
  ASSUME NEW s, One(s), NEW x \in Tracked(s), x \in pending, stack = <<>>, alive[s], pending' = pending \ {x},
         socket_out_cb(x), ~connected[s], UNCHANGED <<addressVars, connects, attempted, alive, tries>>
  PROVE  Sound(s)' /\ phase[s] = "connecting" /\ phase' = [phase EXCEPT ![s] = "connected"]
<1>2. x.sock = s /\ tries[s] > 0
  <2>1. x \in Watches /\ x.try = tries[s] /\ Sockets = {s}
    BY TrackedIs DEF One
  <2>2. x.sock = s /\ x.try \in Nat \ {0}
    BY <2>1, OneWatch
  <2> QED  BY <2>1, <2>2
<1> USE Values, LoopFacts, TrackedIs
<1>1. StackShape(s) /\ Flow(s) /\ Lookup(s) /\ Fields(s) /\ SourcesKnown(s) /\ PendingKnown(s) /\ Leaks(s)
      /\ Attempts(s)
  BY DEF One, Sound
<1> DEFINE t == tries[s]
           f == channel[s]
<1>3. /\ watches' = [watches EXCEPT ![s] = [@ EXCEPT !["IN"] = t, !["HUP"] = t]]
      /\ sources' = sources \cup {Watch(s, "IN", t, f), Watch(s, "HUP", t, f)}
      /\ connected' = [connected EXCEPT ![s] = TRUE]
      /\ Emit(s, "ok", <<Opened(s)>>) /\ UNCHANGED <<conn, handle, channel, sa_iter>>
  BY <1>2 DEF socket_out_cb
<1>4. /\ watches'[s]["IN"] = t /\ watches'[s]["HUP"] = t
      /\ watches'[s]["OUT"] = watches[s]["OUT"] /\ watches'[s]["ERR"] = watches[s]["ERR"]
      /\ connected'[s]
  BY <1>3 DEF Conds
<1>5. UNCHANGED <<resolved, lookups, current, attempted, alive, tries, conn, handle, channel, sa_iter>>
  BY <1>3 DEF addressVars
<1>6. phase'[s] = "connected" /\ phase' = [phase EXCEPT ![s] = "connected"]
      /\ stack' = <<Handler(s, "ok")>> \o <<Opened(s)>>
  BY <1>3 DEF Emit, Phase
<1>7. Opening(stack')
  <2>1. <<Opened(s)>> = <<Opened(s)>> \o stack
    OBVIOUS
  <2>2. stack' = <<Handler(s, "ok")>> \o (<<Opened(s)>> \o stack)
    BY <1>6, <2>1
  <2> HIDE DEF t, f
  <2> QED  BY <2>2, PushModes
<1>8. stack' \in Seq(Frames)
  <2>1. Opened(s) \in Frames /\ Handler(s, "ok") \in Frames
    <3>1. "ok" \in Signals
      BY DEF Signals, Results
    <3> QED  BY <3>1, FrameTypes
  <2> QED  BY <1>6, <2>1
<1> HIDE DEF t, f
<1>9. ~Trying(stack') /\ ~Resetting(stack')
  BY <1>7, <1>8, Modes
<1>10. StackShape(s)' /\ Flow(s)' /\ GaveUp(s)'
  BY <1>4, <1>5, <1>6, <1>7, <1>9 DEF StackShape, Flow, GaveUp
<1>11. Lookup(s)' /\ Attempts(s)'
  BY <1>1, <1>5, <1>6, <1>9 DEF Lookup, Attempts
<1>12. Leaks(s)'
  BY <1>1, <1>5, LeaksSame
<1>13. \A y \in Tracked(s) : y \in Tracked(s)'
  <2> SUFFICES ASSUME NEW y \in Tracked(s) PROVE y \in Tracked(s)'
    OBVIOUS
  <2>1. y.cond \in {"OUT", "ERR"} /\ y \in sources /\ y.sock = s /\ watches[s][y.cond] = y.try
    BY TrackedIs DEF Tracked
  <2>2. watches'[s][y.cond] = y.try /\ y \in sources'
    BY <1>3, <1>4, <2>1
  <2> QED  BY <2>1, <2>2 DEF Tracked
<1>14. PendingKnown(s)'
  BY <1>1, <1>4, <1>5, <1>13 DEF PendingKnown
<1>15. Fields(s)'
  <2>1. Watch(s, "OUT", tries'[s], channel'[s]) \in sources'
    BY <1>1, <1>3, <1>5 DEF Fields
  <2> QED  BY <1>1, <1>4, <1>5, <2>1 DEF Fields, t
<1>16. SourcesKnown(s)'
  <2>1. ASSUME NEW y \in sources
        PROVE  /\ y.try <= tries'[s]
               /\ channel'[s] # NULL /\ y.try = tries'[s] => y.fd = channel'[s]
               /\ y \in Tracked(s)' \/ LeftBehind(s, y)'
    <3>1. ~Has(stack, Remove(y))
      BY DEF Has
    <3>2. LeftBehind(s, y) => LeftBehind(s, y)'
      BY <1>5, <3>1 DEF LeftBehind
    <3> QED  BY <1>1, <1>5, <1>13, <3>2 DEF SourcesKnown
  <2>2. ASSUME NEW c \in {"IN", "HUP"}
        PROVE  /\ Watch(s, c, t, f).try <= tries'[s] /\ Watch(s, c, t, f).fd = channel'[s]
               /\ Watch(s, c, t, f) \in Tracked(s)'
    BY <1>3, <1>4, <1>5 DEF Watch, Tracked, t, f
  <2>3. \A y \in sources' : y \in sources \/ \E c \in {"IN", "HUP"} : y = Watch(s, c, t, f)
    BY <1>3
  <2>4. ASSUME NEW y \in sources'
        PROVE  /\ y.try <= tries'[s]
               /\ channel'[s] # NULL /\ y.try = tries'[s] => y.fd = channel'[s]
               /\ y \in Tracked(s)' \/ LeftBehind(s, y)'
    <3>1. CASE y \in sources
      BY <2>1, <3>1
    <3>2. ASSUME NEW c \in {"IN", "HUP"}, y = Watch(s, c, t, f)
          PROVE  /\ y.try <= tries'[s] /\ y.fd = channel'[s] /\ y \in Tracked(s)'
      BY <2>2, <3>2
    <3> QED  BY <2>3, <3>1, <3>2
  <2> QED  BY <2>4 DEF SourcesKnown
<1> QED  BY <1>6, <1>10, <1>11, <1>12, <1>14, <1>15, <1>16 DEF Sound

LEMMA ErrSound ==
  ASSUME NEW s, One(s), NEW x \in Tracked(s), x \in pending, stack = <<>>, alive[s], pending' = pending \ {x},
         \A y \in pending : ~Older(y, x),
         socket_err_cb(x), ~connected[s], UNCHANGED <<addressVars, connects, attempted, alive, tries>>
  PROVE  Sound(s)' /\ UNCHANGED phase
<1>2. x.sock = s /\ x.cond = "ERR" /\ phase[s] = "connecting"
  <2>1. x \in Watches /\ Sockets = {s} /\ phase[s] = "connecting"
    BY TrackedIs, LoopFacts DEF One
  <2>2. x.sock = s
    BY <2>1, OneWatch
  <2> QED  BY <2>1, <2>2 DEF socket_err_cb
<1> USE Values, LoopFacts, TrackedIs
<1>1. StackShape(s) /\ Flow(s) /\ Lookup(s) /\ Fields(s) /\ SourcesKnown(s) /\ PendingKnown(s) /\ Leaks(s)
      /\ Attempts(s)
  BY DEF One, Sound
<1> DEFINE w == Watch(s, "OUT", tries[s], channel[s])
<1>3. ~HangupIsWritable /\ w \notin pending
  <2>1. Older(w, x)
    BY <1>2 DEF Older, Watch, Rank, Conds
  <2>2. w \notin pending
    BY <2>1
  <2> QED  BY <1>1, <1>2, <2>2 DEF PendingKnown
<1>4. conn[channel[s]] \in {"failed", "lost"}
  BY <1>1, <1>2, <1>3 DEF PendingKnown
<1>5. IsSocket(handle[s])
  BY <1>4 DEF IsSocket
<1>6. /\ conn' = [conn EXCEPT ![channel[s]] = Consumed(@)]
      /\ stack' = <<TryNext(s), Remove(x)>> /\ UNCHANGED phase /\ UNCHANGED <<sources, privVars>>
  BY <1>2, <1>5 DEF socket_err_cb
<1>7. conn'[channel[s]] \in Spent /\ \A g \in Fds : g # channel[s] => conn'[g] = conn[g]
  BY <1>4, <1>6 DEF Consumed, Spent
<1>8. pending' = {}
  <2>1. ASSUME NEW y \in pending PROVE y = x
    <3>1. y \in Tracked(s)
      BY <1>1 DEF PendingKnown
    <3>2. y.cond \in {"OUT", "ERR"} /\ y = Watch(s, y.cond, tries[s], channel[s])
      BY <3>1
    <3>3. y.cond # "OUT"
      BY <1>3, <3>2
    <3> QED  BY <1>2, <3>2, <3>3
  <2> QED  BY <2>1
<1> HIDE DEF w
<1>9. UNCHANGED <<handle, channel, watches, connected, sa_iter, resolved, lookups, current, attempted, alive, tries>>
  BY <1>6 DEF privVars, addressVars
<1>10. Remove(x) \in Frames /\ TryNext(s) \in Frames /\ CalmFrame(Remove(x))
  BY <1>2, RemoveType, FrameTypes DEF CalmFrame, Remove
<1>11. stack' = <<TryNext(s)>> \o (<<Remove(x)>> \o stack) /\ Calm(<<Remove(x)>> \o stack)
       /\ <<Remove(x)>> \o stack \in Seq(Frames)
  <2>1. <<TryNext(s), Remove(x)>> = <<TryNext(s)>> \o (<<Remove(x)>> \o stack)
    OBVIOUS
  <2> QED  BY <1>6, <1>10, <2>1, CalmPush, PushType
<1>12. Trying(stack') /\ stack' \in Seq(Frames) /\ Has(stack', Remove(x))
  BY <1>10, <1>11, PushModes, PushType, HasPush
<1>13. ~Resetting(stack') /\ ~Opening(stack')
  BY <1>12, Modes
<1>14. StackShape(s)' /\ Flow(s)' /\ Lookup(s)' /\ Attempts(s)'
  BY <1>1, <1>2, <1>6, <1>9, <1>12, <1>13 DEF StackShape, Flow, Lookup, Attempts
<1>15. Fields(s)'
  BY <1>1, <1>6, <1>7, <1>9, FieldsSame DEF Spent
<1>16. GaveUp(s)'
  <2>1. Tracked(s)' = Tracked(s)
    BY <1>6, <1>9, TrackedSame
  <2>2. ASSUME NEW y \in Tracked(s) PROVE y.cond = "OUT" \/ y = x
    BY <1>2
  <2> QED  BY <1>3, <1>7, <1>8, <1>9, <1>12, <2>1, <2>2 DEF GaveUp
<1>17. SourcesKnown(s)'
  <2>1. \A y \in sources : ~Has(stack, Remove(y))
    BY DEF Has
  <2>2. \A y \in sources : y.fd \in Fds
    BY OneWatch DEF One
  <2> QED  BY <1>1, <1>6, <1>7, <1>9, <2>1, <2>2, SourcesSame
<1>18. Leaks(s)'
  BY <1>1, <1>7, <1>9 DEF Leaks
<1> QED  BY <1>6, <1>8, <1>14, <1>15, <1>16, <1>17, <1>18, PendingNone DEF Sound

LEMMA HangupSound ==
  ASSUME NEW s, One(s), NEW x \in Tracked(s), x \in pending, stack = <<>>, alive[s], pending' = pending \ {x},
         x.cond \in {"ERR", "HUP"}, connected[s], Emit(s, "closed", <<Reset(s), Remove(x)>>),
         UNCHANGED <<conn, sources, privVars, addressVars, connects, attempted, alive, tries>>
  PROVE  Sound(s)'
<1> USE Values, LoopFacts, TrackedIs
<1> DEFINE r == <<Remove(x)>>
<1>1. Remove(x) \in Frames /\ CalmFrame(Remove(x))
  BY RemoveType DEF CalmFrame, Remove
<1>2. r \in Seq(Frames) /\ Calm(r) /\ <<Reset(s), Remove(x)>> = <<Reset(s)>> \o r
  BY <1>1 DEF Calm
<1>3. \A y : ~Has(stack, Remove(y))
  BY DEF Has
<1>4. Emit(s, "closed", <<Reset(s)>> \o r) /\ pending' \subseteq pending
  BY <1>2
<1> HIDE DEF r
<1> QED  BY <1>2, <1>3, <1>4, ClosedSound

(* What a dispatch does to a careful client's socket. *)
LEMMA DispatchSound ==
  ASSUME NEW s, One(s), Dispatch
  PROVE  /\ Sound(s)' /\ UNCHANGED crashed
         /\ \/ UNCHANGED phase
            \/ phase[s] = "open" /\ phase' = [phase EXCEPT ![s] = "idle"]
            \/ /\ phase[s] = "connecting" /\ phase' = [phase EXCEPT ![s] = "connected"]
               /\ channel[s] # NULL /\ (~HangupIsWritable => conn[channel[s]] \in EverUp)
         /\ stack' # <<>> /\ Head(stack').op = "handler" /\ Head(stack').sig \in {"readable", "writeable"} =>
              Head(stack').sock = s /\ phase[s] = "open"
<1> USE Values
<1>1. PICK x \in pending :
           /\ x \in Tracked(s) /\ alive[s] /\ stack = <<>>
           /\ \A y \in pending : ~Older(y, x)
           /\ pending' = pending \ {x}
           /\ socket_in_cb(x) \/ socket_out_cb(x) \/ socket_err_cb(x) \/ socket_hup_cb(x)
           /\ UNCHANGED <<crashed, addressVars, connects, attempted, alive, tries>>
  BY DispatchFacts
<1>2. x.sock = s /\ Fields(s) /\ PendingKnown(s) /\ x.try # 0 /\ x \in pending
  <2>1. x \in Watches /\ Sockets = {s}
    BY <1>1, TrackedIs DEF One
  <2>2. x.sock = s /\ x.try \in Nat \ {0}
    BY <2>1, OneWatch
  <2> QED  BY <1>1, <2>2 DEF One, Sound
<1> USE LoopFacts, TrackedIs
<1>3. ASSUME NEW sig, NEW rest, Emit(s, sig, rest), rest \in Seq(Frames), sig \in Signals
      PROVE  Head(stack') = Handler(s, sig) /\ phase' = [phase EXCEPT ![s] = Phase(@, sig)]
  <2>1. Handler(s, sig) \in Frames
    BY <1>3, FrameTypes
  <2> QED  BY <1>3, <2>1, PushedAt DEF Emit
<1>4. "closed" \in Signals /\ "ok" \in Signals /\ "readable" \in Signals /\ "writeable" \in Signals
  BY DEF Signals, Results
<1>5. /\ Reset(s) \in Frames /\ Remove(x) \in Frames /\ Opened(s) \in Frames /\ TryNext(s) \in Frames
      /\ <<>> \in Seq(Frames)
  BY RemoveType, FrameTypes
<1>6. CASE socket_in_cb(x)
  <2>1. connected[s]
    BY <1>1, <1>6 DEF socket_in_cb
  <2>2. Emit(s, "readable", <<>>) /\ UNCHANGED <<conn, sources, privVars>>
    BY <1>2, <1>6 DEF socket_in_cb
  <2>3. Sound(s)'
    BY <1>1, <2>1, <2>2, DataSound
  <2>4. UNCHANGED phase /\ phase[s] = "open" /\ Head(stack') = Handler(s, "readable")
    <3>1. Head(stack') = Handler(s, "readable") /\ phase' = [phase EXCEPT ![s] = Phase(@, "readable")]
      BY <1>3, <1>4, <1>5, <2>2
    <3>2. UNCHANGED phase
      BY <3>1 DEF Phase
    <3>3. phase[s] = "open"
      BY <1>1, <2>1
    <3> QED  BY <3>1, <3>2, <3>3
  <2> QED  BY <1>1, <2>3, <2>4 DEF Handler
<1>7. CASE socket_out_cb(x) /\ connected[s]
  <2>1. Emit(s, "writeable", <<>>) /\ UNCHANGED <<conn, sources, privVars>>
    BY <1>2, <1>7 DEF socket_out_cb, privVars
  <2>2. Sound(s)'
    BY <1>1, <1>7, <2>1, DataSound
  <2>3. UNCHANGED phase /\ phase[s] = "open" /\ Head(stack') = Handler(s, "writeable")
    <3>1. Head(stack') = Handler(s, "writeable") /\ phase' = [phase EXCEPT ![s] = Phase(@, "writeable")]
      BY <1>3, <1>4, <1>5, <2>1
    <3>2. UNCHANGED phase
      BY <3>1 DEF Phase
    <3>3. phase[s] = "open"
      BY <1>1, <1>7
    <3> QED  BY <3>1, <3>2, <3>3
  <2> QED  BY <1>1, <2>2, <2>3 DEF Handler
<1>8. CASE socket_out_cb(x) /\ ~connected[s]
  <2>1. Sound(s)' /\ phase[s] = "connecting" /\ phase' = [phase EXCEPT ![s] = "connected"]
    BY <1>1, <1>2, <1>8, OutSound
  <2>2. channel[s] # NULL /\ (~HangupIsWritable => conn[channel[s]] \in EverUp)
    BY <1>1, <1>2, <1>8 DEF socket_out_cb, PendingKnown
  <2>3. Emit(s, "ok", <<Opened(s)>>)
    BY <1>2, <1>8 DEF socket_out_cb
  <2>4. Head(stack') = Handler(s, "ok")
    <3>1. <<Opened(s)>> \in Seq(Frames)
      BY <1>5
    <3> QED  BY <1>3, <1>4, <2>3, <3>1
  <2> QED  BY <1>1, <2>1, <2>2, <2>4 DEF Handler
<1>9. CASE socket_err_cb(x) /\ ~connected[s]
  <2>1. Sound(s)' /\ UNCHANGED phase
    BY <1>1, <1>2, <1>9, ErrSound
  <2>2. stack' = <<TryNext(s), Remove(x)>> \/ UNCHANGED stack
    BY <1>2, <1>9 DEF socket_err_cb
  <2>3. Head(<<TryNext(s), Remove(x)>>) = TryNext(s)
    OBVIOUS
  <2> QED  BY <1>1, <2>1, <2>2, <2>3 DEF TryNext
<1>10. CASE (socket_err_cb(x) /\ connected[s]) \/ socket_hup_cb(x)
  <2>1. x.cond \in {"ERR", "HUP"} /\ Emit(s, "closed", <<Reset(s), Remove(x)>>)
        /\ UNCHANGED <<conn, sources, privVars>>
    BY <1>2, <1>10 DEF socket_err_cb, socket_hup_cb
  <2>2. connected[s]
    BY <1>1, <1>10 DEF socket_hup_cb
  <2>3. Sound(s)'
    BY <1>1, <1>2, <2>1, <2>2, HangupSound
  <2>4. Head(stack') = Handler(s, "closed") /\ phase' = [phase EXCEPT ![s] = "idle"] /\ phase[s] = "open"
    <3>1. <<Reset(s), Remove(x)>> \in Seq(Frames)
      BY <1>5
    <3> QED  BY <1>1, <1>3, <1>4, <2>1, <2>2, <3>1 DEF Phase
  <2> QED  BY <1>1, <2>3, <2>4 DEF Handler
<1> QED  BY <1>1, <1>6, <1>7, <1>8, <1>9, <1>10


-----------------------------------------------------------------------------
(* The invariant *)

LEMMA InitSound ==
  ASSUME NEW s, Sockets = {s}, CarefulClient, Init
  PROVE  One(s) /\ ~crashed
<1>1. TypeInv /\ WatchesNeedChannel /\ HandlesOwned
  BY InitTypes, BoundsAssumption DEF Init, lm_socket_init, WatchesNeedChannel, HandlesOwned
<1>2. /\ s \in Sockets /\ stack = <<>> /\ phase[s] = "idle" /\ alive[s] /\ ~sa_iter[s] /\ ~connected[s]
      /\ handle[s] = 0 /\ channel[s] = NULL /\ lookups[s] = 0 /\ tries[s] = 0
      /\ sources = {} /\ pending = {} /\ ~crashed
      /\ \A c \in Conds : watches[s][c] = 0
      /\ \A f \in Fds \ {0} : conn[f] = "free"
  BY DEF Init, lm_socket_init
<1>3. Calm(stack) /\ ~Trying(stack) /\ ~Resetting(stack) /\ ~Opening(stack)
  <2>1. <<>> \in Seq(Frames)
    OBVIOUS
  <2> QED  BY <1>2, <2>1, Modes
<1>4. StackShape(s) /\ Flow(s) /\ Lookup(s)
  BY <1>2, <1>3 DEF StackShape, Flow, Lookup
<1>5. Fields(s)
  BY <1>2 DEF Fields, Conds
<1>6. GaveUp(s) /\ SourcesKnown(s) /\ PendingKnown(s) /\ Attempts(s)
  BY <1>2, <1>3 DEF GaveUp, SourcesKnown, PendingKnown, Attempts
<1>7. Leaks(s)
  BY <1>2 DEF Leaks
<1> QED  BY <1>1, <1>2, <1>4, <1>5, <1>6, <1>7 DEF One, Sound

(* How a step changes what the signals have told the client. *)
Answered(s) ==
  /\ phase[s] = "connecting"
  /\ \/ /\ phase' = [phase EXCEPT ![s] = "failed"]
        /\ Head(stack').sig = "dns" \/ attempted[s] = 1 .. NumResults
     \/ /\ phase' = [phase EXCEPT ![s] = "connected"]
        /\ channel[s] # NULL /\ (~HangupIsWritable => conn[channel[s]] \in EverUp)

Said(s) ==
  \/ UNCHANGED phase
  \/ phase[s] = "idle" /\ phase' = [phase EXCEPT ![s] = "connecting"]
  \/ Answered(s)
  \/ phase[s] = "connected" /\ phase' = [phase EXCEPT ![s] = "open"]
  \/ phase[s] # "idle" /\ phase' = [phase EXCEPT ![s] = "idle"]

(* Data is announced to the client only while the socket is open. *)
Announced(s) ==
  stack = <<>> /\ stack' # <<>> /\ Head(stack').op = "handler" /\ Head(stack').sig \in {"readable", "writeable"} =>
    Head(stack').sock = s /\ phase[s] = "open"

LEMMA ClientSteps ==
  ASSUME NEW s, One(s),
         \/ lm_socket_connect(s) \/ socket_close(s)
         \/ socket_read(s) \/ socket_write(s)
         \/ socket_finalize(s) \/ socket_resolver_finished_cb(s)
  PROVE  Sound(s)' /\ UNCHANGED crashed /\ Said(s) /\ Announced(s)
<1> USE Values
<1>1. CASE lm_socket_connect(s)
  <2>1. /\ phase[s] = "idle" /\ phase' = [phase EXCEPT ![s] = "connecting"] /\ UNCHANGED crashed
        /\ UNCHANGED stack \/ stack' = <<TryNext(s)>> \o stack
    BY <1>1 DEF lm_socket_connect, One, CarefulClient
  <2>2. TryNext(s) \in Frames
    BY FrameTypes
  <2>3. Head(<<TryNext(s)>> \o stack).op = "next"
    BY <2>2, PushedAt DEF TryNext
  <2> QED  BY <1>1, <2>1, <2>3, ConnectSound DEF Said, Announced
<1>2. CASE socket_close(s)
  <2>1. /\ phase[s] # "idle" /\ Emit(s, "closed", <<Reset(s)>> \o stack) /\ UNCHANGED crashed
    BY <1>2 DEF socket_close, One, CarefulClient
  <2>2. <<Reset(s)>> \o stack \in Seq(Frames) /\ Handler(s, "closed") \in Frames
    BY FrameTypes, PushType DEF Signals
  <2>3. Head(stack') = Handler(s, "closed")
    BY <2>1, <2>2, PushedAt DEF Emit
  <2>4. phase' = [phase EXCEPT ![s] = "idle"]
    BY <2>1 DEF Emit, Phase
  <2> QED  BY <1>2, <2>1, <2>3, <2>4, CloseSound DEF Said, Announced, Handler
<1>3. CASE socket_read(s) \/ socket_write(s)
  <2>1. UNCHANGED <<phase, stack, crashed>>
    BY <1>3 DEF socket_read, socket_write, clientVars
  <2> QED  BY <1>3, <2>1, ReadWriteSound DEF Said, Announced
<1>4. CASE socket_finalize(s)
  <2>1. UNCHANGED <<phase, stack, crashed>>
    BY <1>4 DEF socket_finalize
  <2> QED  BY <1>4, <2>1, FinalizeSound DEF Said, Announced
<1>5. CASE socket_resolver_finished_cb(s)
  <2>1. Sound(s)' /\ UNCHANGED crashed
    BY <1>5, ResolvedSound
  <2>2. phase[s] = "connecting" /\ alive[s]
    BY <1>5 DEF socket_resolver_finished_cb, One, Sound, Lookup, Flow
  <2>3. CASE Emit(s, "dns", <<>>)
    <3>1. Handler(s, "dns") \in Frames /\ <<>> \in Seq(Frames)
      BY FrameTypes DEF Signals, Results
    <3>2. Head(stack') = Handler(s, "dns")
      BY <2>3, <3>1, PushedAt DEF Emit
    <3>3. phase' = [phase EXCEPT ![s] = "failed"]
      BY <2>3 DEF Emit, Phase
    <3> QED  BY <2>1, <2>2, <3>2, <3>3 DEF Said, Answered, Announced, Handler
  <2>4. CASE stack' = <<TryNext(s)>> /\ UNCHANGED phase
    <3>1. Head(<<TryNext(s)>>) = TryNext(s)
      OBVIOUS
    <3> QED  BY <2>1, <2>4, <3>1 DEF Said, Announced, TryNext
  <2> QED  BY <1>5, <2>2, <2>3, <2>4 DEF socket_resolver_finished_cb
<1> QED  BY <1>1, <1>2, <1>3, <1>4, <1>5

LEMMA ReturnSteps ==
  ASSUME NEW s, One(s), Return
  PROVE  Sound(s)' /\ UNCHANGED crashed /\ Said(s) /\ Announced(s)
<1> USE Values
<1>1. Announced(s)
  <2>1. stack # <<>>
    BY DEF Return, Top, socket_attempt_connect_next, socket_emit_connect_result,
       socket_emit_disconnected_and_cleanup, RemoveSource, HandlerReturns, HandlerDropsSocket,
       UseAfterFinalize
  <2> QED  BY <2>1 DEF Announced
<1>2. CASE socket_attempt_connect_next
  <2>1. UNCHANGED crashed
    BY <1>2 DEF socket_attempt_connect_next
  <2> QED  BY <1>1, <1>2, <2>1, AttemptSound DEF Said, Answered
<1>3. CASE socket_emit_connect_result
  <2>1. UNCHANGED crashed
    BY <1>3 DEF socket_emit_connect_result
  <2> QED  BY <1>1, <1>3, <2>1, OpenedSound DEF Said
<1>4. CASE socket_emit_disconnected_and_cleanup
  <2>1. UNCHANGED crashed
    BY <1>4 DEF socket_emit_disconnected_and_cleanup
  <2> QED  BY <1>1, <1>4, <2>1, CleanupSound DEF Said
<1>5. CASE RemoveSource
  <2>1. UNCHANGED crashed
    BY <1>5 DEF RemoveSource
  <2> QED  BY <1>1, <1>5, <2>1, RemoveSound DEF Said
<1>6. CASE HandlerReturns
  <2>1. UNCHANGED crashed
    BY <1>6 DEF HandlerReturns
  <2> QED  BY <1>1, <1>6, <2>1, HandlerReturnsSound DEF Said
<1>7. ~HandlerDropsSocket
  BY DEF HandlerDropsSocket, One, CarefulClient
<1>8. ~UseAfterFinalize
  <2>1. SUFFICES ASSUME UseAfterFinalize PROVE FALSE
    OBVIOUS
  <2>2. stack # <<>> /\ ~alive[Head(stack).sock]
    BY <2>1 DEF UseAfterFinalize, Top
  <2>3. Head(stack) \in Frames /\ alive[s]
    BY <2>2, PopType DEF One, Sound, StackShape
  <2> QED  BY <2>2, <2>3, OneFrame DEF One
<1> QED  BY <1>2, <1>3, <1>4, <1>5, <1>6, <1>7, <1>8 DEF Return

LEMMA StepSound ==
  ASSUME NEW s, One(s), [Next]_vars
  PROVE  Sound(s)' /\ UNCHANGED crashed /\ Said(s) /\ Announced(s)
<1> USE Values
<1>1. CASE UNCHANGED vars
  <2>1. UNCHANGED <<conn, sources, pending, handle, channel, watches, connected, sa_iter, resolved,
                    current, lookups, stack, crashed, alive, tries, connects, phase, attempted>>
    BY <1>1 DEF vars, kernelVars, loopVars, privVars, addressVars, clientVars
  <2>2. Sound(s)
    BY DEF One
  <2>3. /\ StackShape(s)' /\ Flow(s)' /\ Lookup(s)' /\ Fields(s)' /\ GaveUp(s)'
        /\ SourcesKnown(s)' /\ PendingKnown(s)' /\ Leaks(s)' /\ Attempts(s)'
    <3>1. StackShape(s)' /\ Flow(s)' /\ Lookup(s)'
      BY <2>1, <2>2 DEF Sound, StackShape, Flow, Lookup
    <3>2. Fields(s)' /\ Leaks(s)' /\ Attempts(s)'
      BY <2>1, <2>2 DEF Sound, Fields, Leaks, Attempts
    <3>3. GaveUp(s)' /\ SourcesKnown(s)'
      BY <2>1, <2>2 DEF Sound, GaveUp, SourcesKnown, Tracked, LeftBehind
    <3>4. PendingKnown(s)'
      BY <2>1, <2>2 DEF Sound, PendingKnown, Tracked
    <3> QED  BY <3>1, <3>2, <3>3, <3>4
  <2> QED  BY <2>1, <2>3 DEF Sound, Said, Announced
<1>2. ASSUME NEW r \in Sockets,
             \/ lm_socket_connect(r) \/ socket_close(r)
             \/ socket_read(r) \/ socket_write(r)
             \/ socket_finalize(r) \/ socket_resolver_finished_cb(r)
      PROVE  Sound(s)' /\ UNCHANGED crashed /\ Said(s) /\ Announced(s)
  <2>1. r = s
    BY DEF One
  <2> QED  BY <1>2, <2>1, ClientSteps
<1>3. CASE Poll
  <2>1. UNCHANGED stack
    BY <1>3 DEF Poll
  <2> QED  BY <1>3, <2>1, PollSound DEF Said, Announced
<1>4. CASE Dispatch
  BY <1>4, DispatchSound DEF Said, Answered, Announced
<1>5. CASE Return
  BY <1>5, ReturnSteps
<1>6. ASSUME NEW f \in Fds, Settle(f) \/ Traffic(f)
      PROVE  Sound(s)' /\ UNCHANGED crashed /\ Said(s) /\ Announced(s)
  <2>1. UNCHANGED stack
    BY <1>6 DEF Settle, Traffic, Moves
  <2> QED  BY <1>6, <2>1, KernelSound DEF Said, Announced
<1> QED  BY <1>1, <1>2, <1>3, <1>4, <1>5, <1>6 DEF Next

LEMMA OneStep ==
  ASSUME NEW s, One(s), ~crashed, [Next]_vars
  PROVE  One(s)' /\ ~crashed' /\ Said(s) /\ Announced(s)
<1>1. TypeInv' /\ HandlesOwned' /\ WatchesNeedChannel'
  BY NextTypes, OwnedNext, WatchesNext DEF One
<1> QED  BY <1>1, StepSound DEF One, CarefulClient

(* The inductive invariant, of the one socket there is. *)
OneSocket == \E s : Sockets = {s}
AllSound == ~crashed /\ \A s \in Sockets : One(s)

LEMMA AllSoundStep ==
  ASSUME OneSocket, CarefulClient, AllSound, [Next]_vars
  PROVE  AllSound' /\ \A s \in Sockets : One(s) /\ Said(s) /\ Announced(s)
<1>1. PICK s : Sockets = {s}
  BY DEF OneSocket
<1>2. One(s) /\ ~crashed
  BY <1>1 DEF AllSound
<1>3. One(s)' /\ ~crashed' /\ Said(s) /\ Announced(s)
  BY <1>2, OneStep
<1> QED  BY <1>1, <1>2, <1>3 DEF AllSound

LEMMA AllSoundAlways ==
  ASSUME OneSocket, CarefulClient
  PROVE  Spec => []AllSound
<1>1. Init => AllSound
  BY InitSound DEF OneSocket, AllSound
<1>2. AllSound /\ [Next]_vars => AllSound'
  BY AllSoundStep
<1> QED  BY <1>1, <1>2, PTL DEF Spec

-----------------------------------------------------------------------------
(* What the invariant gives *)

(* The main loop never dispatches a watch the socket has lost track of,    *)
(* so socket_reset is enough to silence it.                                *)
THEOREM OnlyTrackedDispatchedAlways ==
  ASSUME OneSocket, CarefulClient
  PROVE  Spec => []OnlyTrackedDispatched
<1>1. AllSound => OnlyTrackedDispatched
  <2> SUFFICES ASSUME NEW s, One(s), NEW x \in pending
               PROVE  alive[x.sock] /\ x \in Tracked(x.sock)
    BY DEF OnlyTrackedDispatched, OneSocket, AllSound
  <2>1. x \in Watches /\ alive[s] /\ x \in Tracked(s)
    BY Values DEF One, Sound, PendingKnown
  <2> QED  BY <2>1, OneWatch DEF One
<1> QED  BY <1>1, AllSoundAlways, PTL

(* No callback and no rest of a function runs on a finalized socket. *)
THEOREM NoUseAfterFinalizeAlways ==
  ASSUME OneSocket, CarefulClient
  PROVE  Spec => []NoUseAfterFinalize
<1>1. AllSound => NoUseAfterFinalize
  BY DEF AllSound, NoUseAfterFinalize
<1> QED  BY <1>1, AllSoundAlways, PTL

(* Every open descriptor that is nobody's handle is one whose failure      *)
(* socket_err_cb has seen.                                                 *)
THEOREM LeaksOnlyDeadAlways ==
  ASSUME OneSocket, CarefulClient
  PROVE  Spec => []LeaksOnlyDead
<1>1. AllSound => LeaksOnlyDead
  <2> SUFFICES ASSUME NEW s, One(s), NEW f \in Fds \ {0}, handle[s] # f
               PROVE  conn[f] \in {"free", "spent", "hung"}
    BY DEF LeaksOnlyDead, OneSocket, AllSound
  <2> QED  BY DEF One, Sound, Leaks, Spent
<1> QED  BY <1>1, AllSoundAlways, PTL

(* Where a refused connection polls OUT, no descriptor is left behind. *)
THEOREM LeaksNothingAlways ==
  ASSUME OneSocket, CarefulClient, HangupIsWritable
  PROVE  Spec => []LeaksNothing
<1>1. AllSound => LeaksNothing
  <2> SUFFICES ASSUME NEW s \in Sockets, One(s) PROVE LeaksNothing
    BY DEF OneSocket, AllSound
  <2> QED  BY DEF One, Sound, Leaks, LeaksNothing
<1> QED  BY <1>1, AllSoundAlways, PTL

(* readable and writeable are emitted only between opened and closed. *)
THEOREM DataSignalsOnlyWhenOpenAlways ==
  ASSUME OneSocket, CarefulClient
  PROVE  Spec => DataSignalsOnlyWhenOpen
<1> DEFINE A == stack = <<>> /\ stack' # <<>> =>
                  LET new == Head(stack')
                  IN  new.op = "handler" /\ new.sig \in {"readable", "writeable"} =>
                        phase[new.sock] = "open"
<1>1. AllSound /\ [Next]_vars => [A]_vars
  <2> SUFFICES ASSUME NEW s \in Sockets, Announced(s) PROVE A
    BY AllSoundStep DEF OneSocket
  <2> QED  BY DEF Announced
<1>2. Spec => [][A]_vars
  BY <1>1, AllSoundAlways, PTL DEF Spec
<1> QED  BY <1>2 DEF DataSignalsOnlyWhenOpen

(* connect_result says OK only for a channel whose connection the peer     *)
(* accepted: where a hangup is not writable.                               *)
THEOREM OkMeansEstablishedAlways ==
  ASSUME OneSocket, CarefulClient, ~HangupIsWritable
  PROVE  Spec => OkMeansEstablished
<1> DEFINE A == \A s \in Sockets : phase[s] # "connected" /\ phase'[s] = "connected" =>
                  channel[s] # NULL /\ conn[channel[s]] \in EverUp
<1>1. AllSound /\ [Next]_vars => [A]_vars
  <2> SUFFICES ASSUME NEW s \in Sockets, One(s), Said(s),
                      phase[s] # "connected", phase'[s] = "connected"
               PROVE  channel[s] # NULL /\ conn[channel[s]] \in EverUp
    BY AllSoundStep
  <2>1. phase \in [Sockets -> Phases]
    BY Values
  <2> QED  BY <2>1 DEF Said, Answered
<1> HIDE DEF A
<1>2. Spec => [][A]_vars
  BY <1>1, AllSoundAlways, PTL DEF Spec
<1> QED  BY <1>2, PTL DEF A, OkMeansEstablished

(* connect_result says TRIED_ALL only when every result of the lookup has  *)
(* been tried since lm_socket_connect.                                     *)
THEOREM TriedAllMeansAllAlways ==
  ASSUME OneSocket, CarefulClient
  PROVE  Spec => TriedAllMeansAll
<1> DEFINE A == \A s \in Sockets : phase[s] # "failed" /\ phase'[s] = "failed" =>
                  \/ Head(stack').sig = "dns"
                  \/ attempted[s] = 1 .. NumResults
<1>1. AllSound /\ [Next]_vars => [A]_vars
  <2> SUFFICES ASSUME NEW s \in Sockets, One(s), Said(s),
                      phase[s] # "failed", phase'[s] = "failed"
               PROVE  Head(stack').sig = "dns" \/ attempted[s] = 1 .. NumResults
    BY AllSoundStep
  <2>1. phase \in [Sockets -> Phases]
    BY Values
  <2> QED  BY <2>1 DEF Said, Answered
<1> HIDE DEF A
<1>2. Spec => [][A]_vars
  BY <1>1, AllSoundAlways, PTL DEF Spec
<1> QED  BY <1>2, PTL DEF A, TriedAllMeansAll

(* A lookup starts only in a connect. *)
LEMMA LookupsStart ==
  ASSUME NEW s, One(s), [Next]_vars
  PROVE  lookups'[s] > lookups[s] => phase[s] = "idle"
<1>1. lookups[s] \in Nat /\ s \in Sockets /\ lookups \in [Sockets -> 0 .. MaxConnects]
  BY Values
<1>2. CASE UNCHANGED lookups
  BY <1>1, <1>2
<1>3. ASSUME NEW r \in Sockets, lm_socket_connect(r) PROVE phase[s] = "idle"
  BY <1>3 DEF lm_socket_connect, One, CarefulClient
<1>4. ASSUME NEW r \in Sockets, socket_resolver_finished_cb(r) PROVE ~(lookups'[s] > lookups[s])
  <2>1. r = s /\ lookups' = [lookups EXCEPT ![s] = @ - 1]
    BY <1>4 DEF socket_resolver_finished_cb, One
  <2> QED  BY <1>1, <2>1
<1>5. ASSUME NEW r \in Sockets,
             \/ socket_close(r) \/ socket_read(r) \/ socket_write(r) \/ socket_finalize(r)
      PROVE  UNCHANGED lookups
  BY <1>5 DEF socket_close, socket_read, socket_write, socket_finalize, addressVars
<1>6. CASE Poll \/ Dispatch
  BY <1>2, <1>6 DEF Poll, Dispatch, addressVars
<1>7. CASE Return
  BY <1>2, <1>7 DEF Return, socket_attempt_connect_next, socket_emit_connect_result,
     socket_emit_disconnected_and_cleanup, RemoveSource, HandlerReturns, HandlerDropsSocket,
     UseAfterFinalize, addressVars
<1>8. ASSUME NEW f \in Fds, Settle(f) \/ Traffic(f) PROVE UNCHANGED lookups
  BY <1>8 DEF Settle, Traffic, Moves, addressVars
<1>9. CASE UNCHANGED vars
  BY <1>2, <1>9 DEF vars, addressVars
<1> QED  BY <1>2, <1>3, <1>4, <1>5, <1>6, <1>7, <1>8, <1>9 DEF Next

(* The safety half of ImplementsProtocol: every step of the socket, its    *)
(* kernel, its loop and its client is a step of ChannelProtocol or leaves  *)
(* what its user sees alone.                                               *)
THEOREM FollowsProtocol ==
  ASSUME OneSocket, CarefulClient
  PROVE  Spec => Protocol!Init /\ [][Protocol!Next]_UserPhase
<1>1. Init => Protocol!Init
  BY DEF Init, Protocol!Init, UserPhase
<1>2. AllSound /\ [Next]_vars => [Protocol!Next]_UserPhase
  <2> SUFFICES ASSUME NEW s \in Sockets, Sockets = {s}, One(s), One(s)', Said(s), [Next]_vars
               PROVE  [Protocol!Next]_UserPhase
    BY AllSoundStep DEF OneSocket, AllSound
  <2>1. /\ phase \in [Sockets -> Phases] /\ phase[s] \in Phases
        /\ lookups[s] \in Nat /\ lookups'[s] \in Nat
    <3>1. lookups' \in [Sockets -> 0 .. MaxConnects]
      BY DEF One, TypeInv, TypeOK
    <3>2. lookups'[s] \in 0 .. MaxConnects
      BY <3>1
    <3>3. lookups'[s] \in Nat
      BY <3>2, BoundsAssumption
    <3> QED  BY <3>3, Values
  <2>2. /\ lookups[s] > 0 => phase[s] = "connecting" /\ channel[s] = NULL
        /\ lookups'[s] > 0 => phase'[s] = "connecting"
    BY DEF One, Sound, Lookup, Fields
  <2>3. lookups'[s] > lookups[s] => phase[s] = "idle"
    BY LookupsStart
  <2>4. PICK p : p = UserPhase[s]
    OBVIOUS
  <2>5. PICK q : q = UserPhase'[s]
    OBVIOUS
  <2>6. UserPhase' = [UserPhase EXCEPT ![s] = q] /\ (p = q => UNCHANGED UserPhase)
    BY <2>4, <2>5 DEF UserPhase
  <2>7. /\ p = IF lookups[s] > 0 THEN "looking_up" ELSE phase[s]
        /\ q = IF lookups'[s] > 0 THEN "looking_up" ELSE phase'[s]
    BY <2>4, <2>5 DEF UserPhase
  <2>8. \/ p = q
        \/ p = "idle" /\ q \in {"connecting", "looking_up"}
        \/ p = "looking_up" /\ q \in {"connecting", "failed"}
        \/ p = "connecting" /\ q \in {"connected", "failed"}
        \/ p = "connected" /\ q = "open"
        \/ p \in {"looking_up", "connecting", "failed", "connected", "open"} /\ q = "idle"
    BY <2>1, <2>2, <2>3, <2>7 DEF Said, Answered, Phases
  <2> QED
    BY <2>4, <2>6, <2>8 DEF Protocol!Next, Protocol!Connect, Protocol!LookedUp,
       Protocol!Answer, Protocol!Open, Protocol!Close, Protocol!Becomes
<1> QED  BY <1>1, <1>2, AllSoundAlways, PTL DEF Spec
=============================================================================
