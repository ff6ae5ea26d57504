------------------------------ MODULE LmChannel ------------------------------
(***************************************************************************)
(* LmChannel (src/lm-channel.c): channels are stacked on a bottom channel, *)
(* a socket.  Calls go inwards: a channel passes close, read and write to  *)
(* its inner channel.  Signals go outwards: a channel connects to those of *)
(* its inner channel and emits them again as its own.  Emissions are       *)
(* calls, nested as deep as the stack of channels, and the client's        *)
(* handlers run in the middle of them and may call back in.                *)
(*                                                                         *)
(* The bottom channel is the socket as ChannelProtocol describes it: it    *)
(* reports connect_result and opened in a row, then data, then closed,     *)
(* which it emits before it is reset.                                      *)
(***************************************************************************)
EXTENDS Integers, Sequences, FiniteSets

CONSTANTS
  Channels,
  Bottom,      \* the socket
  Users        \* the clients there may be, and the bounds of what they do

(* "replace_inner": set_inner for a channel that already has an inner one. *)
(* "stack_late": set_inner, or a handler, when the socket is already open. *)
(* "drop_outer": drops its reference to a channel that is connected to its *)
(* inner one.                                                              *)
AllHabits == {"replace_inner", "stack_late", "drop_outer"}

(* stacking: the pairs <<outer, inner>> it may join by set_inner; listens: *)
(* the channels on which it has handlers; closes_in_handlers: and not only *)
(* outside.  The bounds: nesting of calls, connects of the socket, calls   *)
(* of set_inner.                                                           *)
ASSUME ChannelAssumption == Bottom \in Channels
ASSUME UsersAssumption ==
  \A u \in Users :
    /\ u.stacking \subseteq Channels \X Channels /\ u.listens \subseteq Channels
    /\ u.closes_in_handlers \in BOOLEAN /\ u.habits \subseteq AllHabits
    /\ {u.depth, u.connects, u.stackings} \subseteq Nat

(* A call that goes inwards arrives: no client stacks a channel on itself, *)
(* directly or not, where each function would call itself for ever; and    *)
(* the socket, whose functions pass nothing on, is stacked on nothing.     *)
ASSUME StackingAssumption ==
  /\ IsFiniteSet(Channels)
  /\ \A u \in Users :
       /\ \A p \in u.stacking : p[1] # Bottom
       /\ \E level \in [Channels -> 0 .. Cardinality(Channels)] :
            \A p \in u.stacking : level[p[2]] < level[p[1]]

VARIABLES
  user,       \* the client, which stays the same
  freed,      \* the channels that were finalized
  ref_count,
  held,       \* the client has a reference
  inner,      \* the pointer
  connected,  \* the handlers on a channel's signals: channels and the client
  phase,      \* of the socket: "idle", "connected", "open"
  connects,   \* how often it has connected
  stackings,  \* how often set_inner was called
  stack,      \* the C call stack, innermost call first
  seen,       \* of each channel, what the client was told: "idle" or "open"
  misused     \* a channel was used after it was freed

objectVars == <<freed, ref_count, held>>
chainVars  == <<inner, connected, stackings>>
channelVars == <<user, objectVars, chainVars, phase, connects, stack, seen, misused>>

NULL   == "NULL"
Client == "client"
ASSUME NamesAssumption == Channels \cap {NULL, Client} = {}

Signals == {"opened", "readable", "writeable", "closed"}

Emit(c, from, sig, todo) ==
  [op |-> "emit", channel |-> c, from |-> from, sig |-> sig, todo |-> todo]
Handler(c, sig) == [op |-> "handler", channel |-> c, sig |-> sig]
Open  == [op |-> "open"]    \* the rest of socket_emit_connect_result
Reset == [op |-> "reset"]   \* of socket_emit_disconnected_and_cleanup

Frames == [op : {"emit"}, channel : Channels, from : Channels \cup {NULL}, sig : Signals,
           todo : Seq(Channels \cup {Client})]
            \cup [op : {"handler"}, channel : Channels, sig : Signals \cup {"connect_result"}]
            \cup {Open, Reset}

Top(op) == stack # <<>> /\ Head(stack).op = op

ChannelTypeOK ==
  /\ user \in Users /\ freed \subseteq Channels
  /\ ref_count \in [Channels -> Nat] /\ held \in [Channels -> BOOLEAN]
  /\ inner \in [Channels -> Channels \cup {NULL}]
  /\ connected \in [Channels -> Seq(Channels \cup {Client})]
  /\ phase \in {"idle", "connected", "open"}
  /\ connects \in Nat /\ stackings \in Nat
  /\ stack \in Seq(Frames)
  /\ seen \in [Channels -> {"idle", "open"}]
  /\ misused \in BOOLEAN

ChannelInit ==
  /\ user \in Users /\ freed = {}
  /\ ref_count = [c \in Channels |-> 1] /\ held = [c \in Channels |-> TRUE]
  /\ inner = [c \in Channels |-> NULL]
  /\ connected = [c \in Channels |-> <<>>]
  /\ phase = "idle" /\ connects = 0 /\ stackings = 0
  /\ stack = <<>>
  /\ seen = [c \in Channels |-> "idle"]
  /\ misused = FALSE

-----------------------------------------------------------------------------
(* References and emissions *)

g_object_ref(c) == ref_count' = [ref_count EXCEPT ![c] = @ + 1]

(* channel_finalize touches neither the inner channel nor its handlers. *)
g_object_unref(c) ==
  /\ ref_count' = [ref_count EXCEPT ![c] = @ - 1]
  /\ freed' = IF ref_count[c] = 1 THEN freed \cup {c} ELSE freed

(* A call of g_signal_emit: the handlers connected so far, in the order    *)
(* they were connected; the emission holds a reference.                    *)
Emits(c, from, sig, rest) ==
  /\ stack' = <<Emit(c, from, sig, connected[c])>> \o rest
  /\ g_object_ref(c)

Rest(frame) == <<[frame EXCEPT !.todo = Tail(@)]>> \o Tail(stack)

Tells(c, sig) == seen' = [seen EXCEPT ![c] = CASE sig = "opened" -> "open"
                                               [] sig = "closed" -> "idle"
                                               [] OTHER -> @]

(* The client's handler is next. *)
CallsHandler ==
  LET e == Head(stack) IN
  /\ Top("emit") /\ e.todo # <<>> /\ Head(e.todo) = Client
  /\ stack' = <<Handler(e.channel, e.sig)>> \o Rest(e)
  /\ Tells(e.channel, e.sig)
  /\ UNCHANGED <<objectVars, chainVars, phase, connects, misused>>

(* Mutant: closed is forwarded as opened. *)
ForwardsSwapped(c, from, sig, rest) ==
  Emits(c, from, IF sig = "closed" THEN "opened" ELSE sig, rest)

(* Mutant: closed is forwarded to nobody. *)
ForwardsData(c, from, sig, rest) ==
  IF sig = "closed" THEN stack' = rest /\ UNCHANGED ref_count ELSE Emits(c, from, sig, rest)

(* channel_inner_opened_cb, _readable_cb, _writeable_cb and _closed_cb *)
channel_inner_cb(c, from, sig, rest) == Emits(c, from, sig, rest)

(* The next handler is that of an outer channel. *)
Forward ==
  LET e == Head(stack) IN
  /\ Top("emit") /\ e.todo # <<>> /\ Head(e.todo) # Client
  /\ IF Head(e.todo) \in freed
       THEN misused' = TRUE /\ UNCHANGED <<stack, ref_count>>
       ELSE channel_inner_cb(Head(e.todo), e.channel, e.sig, Rest(e)) /\ UNCHANGED misused
  /\ UNCHANGED <<freed, held, chainVars, phase, connects, seen>>

EmissionEnds ==
  /\ Top("emit") /\ Head(stack).todo = <<>>
  /\ g_object_unref(Head(stack).channel)
  /\ stack' = Tail(stack)
  /\ UNCHANGED <<held, chainVars, phase, connects, seen, misused>>

HandlerReturns ==
  /\ Top("handler") /\ stack' = Tail(stack)
  /\ UNCHANGED <<objectVars, chainVars, phase, connects, seen, misused>>

-----------------------------------------------------------------------------
(* The bottom channel, a socket *)

MainLoopRuns == stack = <<>> /\ Bottom \notin freed

BottomConnects ==
  /\ MainLoopRuns /\ phase = "idle" /\ connects < user.connects
  /\ phase' = "connected" /\ connects' = connects + 1
  /\ stack' = <<Handler(Bottom, "connect_result"), Open>>
  /\ UNCHANGED <<objectVars, chainVars, seen, misused>>

(* A handler may have dropped the socket in the middle of its function. *)
BottomOpens ==
  /\ Top("open") /\ phase' = "open"
  /\ IF Bottom \in freed
       THEN misused' = TRUE /\ UNCHANGED <<stack, ref_count>>
       ELSE Emits(Bottom, NULL, "opened", Tail(stack)) /\ UNCHANGED misused
  /\ UNCHANGED <<freed, held, chainVars, connects, seen>>

BottomData ==
  /\ MainLoopRuns /\ phase = "open"
  /\ \E sig \in {"readable", "writeable"} : Emits(Bottom, NULL, sig, <<>>)
  /\ UNCHANGED <<freed, held, chainVars, phase, connects, seen, misused>>

(* socket_emit_disconnected_and_cleanup *)
BottomCloses(rest) == Emits(Bottom, NULL, "closed", <<Reset>> \o rest)

BottomHup ==
  /\ MainLoopRuns /\ phase = "open" /\ BottomCloses(<<>>)
  /\ UNCHANGED <<freed, held, chainVars, phase, connects, seen, misused>>

BottomReset ==
  /\ Top("reset") /\ phase' = "idle" /\ stack' = Tail(stack)
  /\ misused' = (Bottom \in freed)
  /\ UNCHANGED <<objectVars, chainVars, connects, seen>>

-----------------------------------------------------------------------------
(* The client *)

ClientRuns == (stack = <<>> \/ Top("handler")) /\ Len(stack) < user.depth

BuildsNow == phase # "open" \/ "stack_late" \in user.habits

ClientListens(c) ==
  /\ ClientRuns /\ BuildsNow
  /\ c \in user.listens /\ held[c]
  /\ \A k \in 1 .. Len(connected[c]) : connected[c][k] # Client
  /\ connected' = [connected EXCEPT ![c] = Append(@, Client)]
  /\ UNCHANGED <<objectVars, inner, stackings, phase, connects, stack, seen, misused>>

(* Mutant: the pointer is not stored. *)
SetInnerForgets(c, d) == UNCHANGED inner /\ g_object_ref(d)

(* Mutant: the caller's reference is taken over and then released. *)
SetInnerReleases(c, d) ==
  inner' = [inner EXCEPT ![c] = d] /\ ref_count' = [ref_count EXCEPT ![d] = @ - 1]

SetInner(c, d) == inner' = [inner EXCEPT ![c] = d] /\ g_object_ref(d)

(* The handlers on a previous inner channel stay, and so does the          *)
(* reference to it.                                                        *)
lm_channel_set_inner(c, d) ==
  /\ ClientRuns /\ BuildsNow /\ stackings < user.stackings
  /\ <<c, d>> \in user.stacking /\ held[c] /\ held[d]
  /\ inner[c] = NULL \/ "replace_inner" \in user.habits
  /\ SetInner(c, d)
  /\ connected' = [connected EXCEPT ![d] = Append(@, c)]
  /\ stackings' = stackings + 1
  /\ UNCHANGED <<freed, held, phase, connects, stack, seen, misused>>

(* The channels a call that starts at c passes through.  RefsCounted says  *)
(* that they are there, if c is.                                           *)
Inwards[c \in Channels] ==
  IF inner[c] = NULL THEN {c} ELSE {c} \cup Inwards[inner[c]]

(* The call goes down to the socket, if the channel is stacked on it. *)
Reaches(c) == Bottom \in Inwards[c]

(* channel_default_close down to socket_close *)
lm_channel_close(c) ==
  /\ ClientRuns /\ (stack = <<>> \/ user.closes_in_handlers)
  /\ held[c] /\ seen[c] = "open" /\ Reaches(c)
  /\ IF Bottom \in freed
       THEN misused' = TRUE /\ UNCHANGED <<stack, ref_count>>
       ELSE BottomCloses(stack) /\ UNCHANGED misused
  /\ UNCHANGED <<freed, held, chainVars, phase, connects, seen>>

IsLinked(c) == \E d \in Channels : \E k \in 1 .. Len(connected[d]) : connected[d][k] = c

ClientDrops(c) ==
  /\ ClientRuns /\ held[c]
  /\ IsLinked(c) => "drop_outer" \in user.habits
  /\ g_object_unref(c) /\ held' = [held EXCEPT ![c] = FALSE]
  /\ UNCHANGED <<chainVars, phase, connects, stack, seen, misused>>

-----------------------------------------------------------------------------
Emissions == CallsHandler \/ Forward \/ EmissionEnds \/ HandlerReturns
Bottoms == BottomConnects \/ BottomOpens \/ BottomData \/ BottomHup \/ BottomReset
UserActs == \E c \in Channels :
                \/ ClientListens(c) \/ lm_channel_close(c) \/ ClientDrops(c)
                \/ \E d \in Channels : lm_channel_set_inner(c, d)

(* What follows a use after free is not looked at. *)
ChannelNext == ~misused /\ UNCHANGED user /\ (Emissions \/ Bottoms \/ UserActs)

ChannelSpec == ChannelInit /\ [][ChannelNext]_channelVars

-----------------------------------------------------------------------------
(* Properties *)

(* What the properties of order need of the client: it stacks its channels *)
(* before the socket opens, and closes in handlers only if it has them at  *)
(* one level.                                                              *)
Orderly == /\ user.habits = {}
           /\ user.closes_in_handlers => Cardinality(user.listens) <= 1

(* Whenever the main loop is in control, every level of the stack has told *)
(* the client the same, which is what is so: no handler, at whatever level *)
(* and in whatever order it was connected, has missed a signal or been     *)
(* told of one too many.                                                   *)
Informed(c) == Reaches(c) /\ \E k \in 1 .. Len(connected[c]) : connected[c][k] = Client
InStep == Orderly /\ stack = <<>> => \A c \in Channels : Informed(c) => (seen[c] = "open" <=> phase = "open")

(* At every level, data is announced only between opened and closed, and   *)
(* neither opened nor closed twice in a row, whichever of the handlers of  *)
(* the same signal is called first and whatever it does.                   *)
HandlerCalled == Len(stack') > Len(stack) /\ Head(stack').op = "handler"
InOrder ==
  [][Orderly /\ HandlerCalled =>
       LET h == Head(stack') IN
       CASE h.sig = "opened" -> seen[h.channel] = "idle"
         [] h.sig = "connect_result" -> TRUE
         [] OTHER -> seen[h.channel] = "open"]_channelVars

(* Every reference is somebody's: the client's, that of an outer channel   *)
(* (one for each set_inner, and never given back), or an emission's; so    *)
(* the inner channel of one that can be used is alive, whoever else has    *)
(* dropped it.                                                             *)
Outers(c)    == {k \in 1 .. Len(connected[c]) : connected[c][k] # Client}
Emitting(c)  == {k \in 1 .. Len(stack) : stack[k].op = "emit" /\ stack[k].channel = c}
RefsCounted ==
  \A c \in Channels :
    /\ ref_count[c] = Cardinality(Outers(c)) + Cardinality(Emitting(c)) + (IF held[c] THEN 1 ELSE 0)
    /\ c \notin freed /\ inner[c] # NULL => inner[c] \notin freed

(* A channel forwards the signals of its inner channel and of no other,    *)
(* however late it was stacked and whoever was dropped, unless the client  *)
(* has replaced an inner channel: set_inner leaves the handlers on the one *)
(* before, where it says "disconnect".                                     *)
Forwards(c, from) ==
  /\ Len(stack') > Len(stack) /\ Head(stack').op = "emit"
  /\ Head(stack').channel = c /\ Head(stack').from = from
SignalsOfCurrentInner ==
  [][\A c, from \in Channels :
       "replace_inner" \notin user.habits /\ Forwards(c, from) => inner[c] = from]_channelVars
=============================================================================
