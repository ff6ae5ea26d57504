--------------------------- MODULE MCChannels_proofs ---------------------------
(***************************************************************************)
(* Proofs about LmChannel, LmGnuTLSChannel and both as MCChannels runs     *)
(* them.                                                                   *)
(*                                                                         *)
(* Of the stack of channels, for any set of them stacked in any way, any   *)
(* client and any nesting of calls: a channel is kept by its client, by    *)
(* the channels stacked on it and by its own emissions.  None of them      *)
(* takes a reference to one that is gone, and the references of outer      *)
(* channels are never given back, so that an inner channel is there for    *)
(* whoever points to it.                                                   *)
(* What each level of the stack is told, and in which order, needs what is *)
(* said at Tidy: how much of the news the calls under way still bring.     *)
(*                                                                         *)
(* Of the channel that encrypts, for every number of connections, of       *)
(* messages and of flights, and whatever the peer sends: PlainOnlyBefore   *)
(* needs one fact more, that a channel whose handshake was started is      *)
(* encrypted, or still in it.  SessionFreedOnce is proved for a careful    *)
(* client from Lifetimes, which relates the session to what the client did *)
(* on this connection.                                                     *)
(***************************************************************************)
EXTENDS MCChannels, FiniteSetTheorems, SequenceTheorems, TLAPS

Emits1(f, c) == IF f.op = "emit" /\ f.channel = c THEN 1 ELSE 0

EmittingIn(c, s) == {k \in 1 .. Len(s) : s[k].op = "emit" /\ s[k].channel = c}

OutersIn(q) == {k \in 1 .. Len(q) : q[k] # Client}

LEMMA IndicesFinite ==
  ASSUME NEW S, NEW s \in Seq(S), NEW I, I \subseteq 1 .. Len(s)
  PROVE  IsFiniteSet(I) /\ Cardinality(I) \in Nat
<1>1. IsFiniteSet(1 .. Len(s))
  BY FS_Interval
<1> QED  BY <1>1, FS_Subset, FS_CardinalityType

(* Positions move by one when a frame is pushed. *)
LEMMA Shifted ==
  ASSUME NEW S, NEW s \in Seq(S), NEW I, I \subseteq 1 .. Len(s)
  PROVE  /\ Cardinality({k + 1 : k \in I}) = Cardinality(I)
         /\ IsFiniteSet({k + 1 : k \in I})
<1>1. IsFiniteSet(I)
  BY IndicesFinite
<1> DEFINE J == {k + 1 : k \in I}
           g == [k \in I |-> k + 1]
<1>2. g \in Bijection(I, J)
  <2>1. \A i, j \in I : g[i] = g[j] => i = j
    OBVIOUS
  <2>2. g \in [I -> J] /\ \A j \in J : \E k \in I : g[k] = j
    OBVIOUS
  <2> QED  BY <2>1, <2>2 DEF Bijection, Injection, Surjection, IsInjective
<1>3. ExistsBijection(I, J)
  BY <1>2 DEF ExistsBijection
<1> HIDE DEF J, g
<1>4. Cardinality(J) = Cardinality(I) /\ IsFiniteSet(J)
  BY <1>1, <1>3, FS_Bijection
<1> QED  BY <1>4 DEF J

LEMMA Pushed ==
  ASSUME NEW S, NEW s \in Seq(S), NEW f \in S, NEW c
  PROVE  Cardinality(EmittingIn(c, <<f>> \o s)) = Cardinality(EmittingIn(c, s)) + Emits1(f, c)
<1> DEFINE J == {k + 1 : k \in EmittingIn(c, s)}
           now == <<f>> \o s
<1>1. EmittingIn(c, s) \subseteq 1 .. Len(s)
  BY DEF EmittingIn
<1>2. Cardinality(J) = Cardinality(EmittingIn(c, s)) /\ IsFiniteSet(J)
  BY <1>1, Shifted
<1>3. Len(now) = Len(s) + 1 /\ now[1] = f /\ \A k \in 1 .. Len(s) : now[k + 1] = s[k]
  OBVIOUS
<1>4. 1 \notin J
  BY <1>1
<1>5. J = {j \in 2 .. Len(now) : now[j].op = "emit" /\ now[j].channel = c}
  <2>1. ASSUME NEW j \in J
        PROVE  j \in 2 .. Len(now) /\ now[j].op = "emit" /\ now[j].channel = c
    <3>1. PICK k \in EmittingIn(c, s) : j = k + 1
      OBVIOUS
    <3>2. k \in 1 .. Len(s) /\ s[k].op = "emit" /\ s[k].channel = c /\ now[k + 1] = s[k]
      BY <1>3, <3>1 DEF EmittingIn
    <3> QED  BY <1>3, <3>1, <3>2
  <2>2. ASSUME NEW j \in 2 .. Len(now), now[j].op = "emit", now[j].channel = c
        PROVE  j \in J
    <3>1. j - 1 \in 1 .. Len(s) /\ now[j] = s[j - 1] /\ j = (j - 1) + 1
      BY <1>3
    <3>2. j - 1 \in EmittingIn(c, s)
      BY <2>2, <3>1 DEF EmittingIn
    <3> QED  BY <3>1, <3>2
  <2> QED  BY <2>1, <2>2
<1>6. CASE f.op = "emit" /\ f.channel = c
  <2>1. EmittingIn(c, now) = J \cup {1}
    <3> HIDE DEF J, now
    <3> QED  BY <1>3, <1>6, <1>5 DEF EmittingIn
  <2> QED  BY <1>2, <1>4, <1>6, <2>1, FS_AddElement DEF Emits1
<1>7. CASE ~(f.op = "emit" /\ f.channel = c)
  <2>1. EmittingIn(c, now) = J
    <3> HIDE DEF J, now
    <3> QED  BY <1>3, <1>7, <1>5 DEF EmittingIn
  <2>2. Cardinality(EmittingIn(c, s)) \in Nat
    BY <1>1, IndicesFinite
  <2>3. Emits1(f, c) = 0
    BY <1>7 DEF Emits1
  <2> HIDE DEF J
  <2>4. Cardinality(EmittingIn(c, now)) = Cardinality(EmittingIn(c, s))
    BY <1>2, <2>1
  <2> HIDE DEF now
  <2>5. Cardinality(EmittingIn(c, now)) = Cardinality(EmittingIn(c, s)) + Emits1(f, c)
    BY <2>2, <2>3, <2>4
  <2> QED  BY <2>5 DEF now
<1> QED  BY <1>6, <1>7

(* Handlers are connected at the end. *)
LEMMA Joined ==
  ASSUME NEW S, NEW q \in Seq(S), NEW x \in S
  PROVE  Cardinality(OutersIn(Append(q, x))) = Cardinality(OutersIn(q)) + (IF x # Client THEN 1 ELSE 0)
<1> DEFINE now == Append(q, x)
<1>1. OutersIn(q) \subseteq 1 .. Len(q)
  BY DEF OutersIn
<1>2. IsFiniteSet(OutersIn(q)) /\ Cardinality(OutersIn(q)) \in Nat
  BY <1>1, IndicesFinite
<1>3. Len(now) = Len(q) + 1 /\ now[Len(q) + 1] = x /\ \A k \in 1 .. Len(q) : now[k] = q[k]
  OBVIOUS
<1>4. Len(q) + 1 \notin OutersIn(q)
  BY <1>1
<1>5. CASE x # Client
  <2>1. OutersIn(now) = OutersIn(q) \cup {Len(q) + 1}
    BY <1>3, <1>5 DEF OutersIn
  <2> QED  BY <1>2, <1>4, <1>5, <2>1, FS_AddElement
<1>6. CASE x = Client
  <2>1. OutersIn(now) = OutersIn(q)
    BY <1>3, <1>6 DEF OutersIn
  <2> QED  BY <1>2, <1>6, <2>1
<1> QED  BY <1>5, <1>6

-----------------------------------------------------------------------------
(* Frames *)

Kept(c, s) == Cardinality(EmittingIn(c, s))

LEMMA Pop ==
  ASSUME NEW s \in Seq(Frames), s # <<>>, NEW c
  PROVE  /\ Tail(s) \in Seq(Frames) /\ Head(s) \in Frames
         /\ Kept(c, s) = Kept(c, Tail(s)) + Emits1(Head(s), c)
         /\ Kept(c, s) \in Nat /\ Kept(c, Tail(s)) \in Nat
<1>1. Tail(s) \in Seq(Frames) /\ Head(s) \in Frames /\ s = <<Head(s)>> \o Tail(s)
  OBVIOUS
<1>2. EmittingIn(c, s) \subseteq 1 .. Len(s) /\ EmittingIn(c, Tail(s)) \subseteq 1 .. Len(Tail(s))
  BY DEF EmittingIn
<1>3. Kept(c, s) \in Nat /\ Kept(c, Tail(s)) \in Nat
  BY <1>1, <1>2, IndicesFinite DEF Kept
<1>4. Cardinality(EmittingIn(c, <<Head(s)>> \o Tail(s)))
        = Cardinality(EmittingIn(c, Tail(s))) + Emits1(Head(s), c)
  BY <1>1, Pushed
<1> QED  BY <1>1, <1>3, <1>4 DEF Kept

LEMMA KeptNat == ASSUME NEW s \in Seq(Frames), NEW c PROVE Kept(c, s) \in Nat
<1>1. EmittingIn(c, s) \subseteq 1 .. Len(s)
  BY DEF EmittingIn
<1> QED  BY <1>1, IndicesFinite DEF Kept

LEMMA EmitFrame ==
  ASSUME NEW c \in Channels, NEW from \in Channels \cup {NULL}, NEW sig \in Signals,
         NEW todo \in Seq(Channels \cup {Client})
  PROVE  /\ Emit(c, from, sig, todo) \in Frames
         /\ \A x : Emits1(Emit(c, from, sig, todo), x) = IF x = c THEN 1 ELSE 0
  BY DEF Emit, Frames, Emits1

LEMMA OtherFrames ==
  /\ \A c \in Channels, sig \in Signals \cup {"connect_result"} :
       Handler(c, sig) \in Frames /\ \A x : Emits1(Handler(c, sig), x) = 0
  /\ Open \in Frames /\ Reset \in Frames
  /\ \A x : Emits1(Open, x) = 0 /\ Emits1(Reset, x) = 0
  BY DEF Handler, Open, Reset, Frames, Emits1

(* What is known of an emission that is under way. *)
LEMMA Underway ==
  ASSUME stack \in Seq(Frames), Top("emit")
  PROVE  /\ Head(stack).channel \in Channels /\ Head(stack).sig \in Signals
         /\ Head(stack).todo \in Seq(Channels \cup {Client})
         /\ \A x : Emits1(Head(stack), x) = IF x = Head(stack).channel THEN 1 ELSE 0
<1>1. Head(stack) \in Frames /\ Head(stack).op = "emit"
  BY DEF Top
<1> QED  BY <1>1 DEF Frames, Open, Reset, Emits1

LEMMA OneHandlerOn ==
  ASSUME stack \in Seq(Frames), Top("emit"), Head(stack).todo # <<>>
  PROVE  /\ Rest(Head(stack)) \in Seq(Frames)
         /\ \A x : Kept(x, Rest(Head(stack))) = Kept(x, stack)
<1> DEFINE e == Head(stack)
           d == [e EXCEPT !.todo = Tail(@)]
<1>1. e \in Frames /\ e.op = "emit" /\ stack # <<>> /\ Tail(stack) \in Seq(Frames)
  BY DEF Top
<1>2. Tail(e.todo) \in Seq(Channels \cup {Client})
  BY Underway
<1>3. d \in Frames /\ d.op = "emit" /\ d.channel = e.channel
  BY <1>1, <1>2 DEF Frames, Open, Reset
<1>4. \A x : Emits1(d, x) = Emits1(e, x)
  BY <1>1, <1>3 DEF Emits1
<1> HIDE DEF d
<1>5. Rest(e) = <<d>> \o Tail(stack)
  BY DEF Rest, d
<1>6. ASSUME NEW x PROVE Kept(x, <<d>> \o Tail(stack)) = Kept(x, stack)
  <2>1. Kept(x, <<d>> \o Tail(stack)) = Kept(x, Tail(stack)) + Emits1(d, x)
    BY <1>1, <1>3, Pushed DEF Kept
  <2> QED  BY <1>1, <1>4, <2>1, Pop
<1>7. <<d>> \o Tail(stack) \in Seq(Frames)
  BY <1>1, <1>3
<1>8. \A x : Kept(x, Rest(e)) = Kept(x, stack)
  BY <1>5, <1>6
<1> QED  BY <1>5, <1>7, <1>8

-----------------------------------------------------------------------------
(* The invariant *)

Shape ==
  /\ user \in Users /\ freed \subseteq Channels
  /\ ref_count \in [Channels -> Int] /\ held \in [Channels -> BOOLEAN]
  /\ inner \in [Channels -> Channels \cup {NULL}]
  /\ connected \in [Channels -> Seq(Channels \cup {Client})]
  /\ stack \in Seq(Frames)

Counted ==
  \A c \in Channels :
    ref_count[c] = Cardinality(OutersIn(connected[c])) + Kept(c, stack)
                     + (IF held[c] THEN 1 ELSE 0)

(* Those that are gone have no reference left. *)
FreedAtZero == \A c \in Channels : c \in freed <=> ref_count[c] = 0

(* Whoever points to an inner channel has connected to it. *)
InnerConnected ==
  \A c \in Channels : inner[c] # NULL =>
    \E k \in 1 .. Len(connected[inner[c]]) : connected[inner[c]][k] = c

Inv == Shape /\ Counted /\ FreedAtZero /\ InnerConnected

LEMMA OutersNat ==
  ASSUME Shape, NEW c \in Channels
  PROVE  /\ Cardinality(OutersIn(connected[c])) \in Nat
         /\ OutersIn(connected[c]) # {} => Cardinality(OutersIn(connected[c])) > 0
<1>1. connected[c] \in Seq(Channels \cup {Client}) /\ OutersIn(connected[c]) \subseteq 1 .. Len(connected[c])
  BY DEF Shape, OutersIn
<1>2. IsFiniteSet(OutersIn(connected[c])) /\ Cardinality(OutersIn(connected[c])) \in Nat
  BY <1>1, IndicesFinite
<1> QED  BY <1>2, FS_EmptySet

(* Counts are what they are by what they count, now and after a step. *)
LEMMA RefsNat ==
  ASSUME Shape, Counted, NEW c \in Channels
  PROVE  /\ ref_count[c] \in Nat
         /\ held[c] => ref_count[c] > 0
<1>1. Cardinality(OutersIn(connected[c])) \in Nat
  BY OutersNat
<1>2. Kept(c, stack) \in Nat
  BY KeptNat DEF Shape
<1> QED  BY <1>1, <1>2 DEF Counted

LEMMA InvMeans == Inv => RefsCounted
<1> SUFFICES ASSUME Inv, NEW c \in Channels
             PROVE  /\ ref_count[c] = Cardinality(Outers(c)) + Cardinality(Emitting(c))
                                         + (IF held[c] THEN 1 ELSE 0)
                    /\ inner[c] # NULL => inner[c] \notin freed
  BY DEF RefsCounted
<1>1. Outers(c) = OutersIn(connected[c]) /\ Emitting(c) = EmittingIn(c, stack)
  BY DEF Outers, OutersIn, Emitting, EmittingIn
<1>2. ASSUME inner[c] # NULL PROVE inner[c] \notin freed
  <2>1. inner[c] \in Channels
    BY <1>2 DEF Inv, Shape
  <2>2. c # Client
    BY NamesAssumption
  <2>3. OutersIn(connected[inner[c]]) # {}
    BY <1>2, <2>2 DEF Inv, InnerConnected, OutersIn
  <2>4. Cardinality(OutersIn(connected[inner[c]])) > 0 /\ Cardinality(OutersIn(connected[inner[c]])) \in Nat
    BY <2>1, <2>3, OutersNat DEF Inv
  <2>5. Kept(inner[c], stack) \in Nat
    BY KeptNat DEF Inv, Shape
  <2>6. ref_count[inner[c]] # 0
    BY <2>1, <2>4, <2>5 DEF Inv, Counted
  <2> QED  BY <2>1, <2>6 DEF Inv, FreedAtZero
<1> QED  BY <1>1, <1>2 DEF Inv, Counted, Kept

LEMMA InvInit == ChannelInit => Inv
<1> SUFFICES ASSUME ChannelInit PROVE Inv
  OBVIOUS
<1>1. /\ \A c \in Channels : OutersIn(connected[c]) = {} /\ EmittingIn(c, stack) = {}
      /\ <<>> \in Seq(Frames) /\ <<>> \in Seq(Channels \cup {Client})
  BY DEF ChannelInit, OutersIn, EmittingIn
<1>2. Shape
  BY <1>1 DEF ChannelInit, Shape
<1>3. Counted
  <2>1. ASSUME NEW c \in Channels
        PROVE  Cardinality(OutersIn(connected[c])) = 0 /\ Kept(c, stack) = 0
    BY <1>1, FS_EmptySet DEF Kept
  <2>2. \A c \in Channels : ref_count[c] = 1 /\ held[c] = TRUE
    BY DEF ChannelInit
  <2> QED  BY <2>1, <2>2 DEF Counted
<1> QED  BY <1>2, <1>3 DEF ChannelInit, Inv, FreedAtZero, InnerConnected
-----------------------------------------------------------------------------
(* Steps, by what they do to the references *)

(* Calls and returns that are no emissions. *)
LEMMA Quiet ==
  ASSUME Inv, UNCHANGED <<user, objectVars, chainVars>>, stack' \in Seq(Frames),
         \A c \in Channels : Kept(c, stack') = Kept(c, stack)
  PROVE  Inv'
<1> USE DEF objectVars, chainVars, Inv
<1>1. Shape'
  BY DEF Shape
<1>2. Counted'
  BY DEF Counted
<1>3. FreedAtZero' /\ InnerConnected'
  BY DEF FreedAtZero, InnerConnected
<1> QED  BY <1>1, <1>2, <1>3

(* An emission of a channel that is there, over what is left of the stack. *)
LEMMA Emission ==
  ASSUME Inv, NEW c \in Channels, c \notin freed, NEW from \in Channels \cup {NULL},
         NEW sig \in Signals, NEW rest \in Seq(Frames), Emits(c, from, sig, rest),
         \A x \in Channels : Kept(x, rest) = Kept(x, stack),
         UNCHANGED <<user, freed, held, chainVars>>
  PROVE  Inv'
<1> USE DEF Inv
<1> DEFINE f == Emit(c, from, sig, connected[c])
<1>1. connected[c] \in Seq(Channels \cup {Client})
  BY DEF Shape
<1>2. f \in Frames /\ \A x : Emits1(f, x) = IF x = c THEN 1 ELSE 0
  <2>1. f \in Frames
    BY <1>1, EmitFrame
  <2>2. \A x : Emits1(f, x) = IF x = c THEN 1 ELSE 0
    BY DEF Emits1, Emit
  <2> QED  BY <2>1, <2>2
<1>3. stack' = <<f>> \o rest /\ ref_count' = [ref_count EXCEPT ![c] = @ + 1]
  BY DEF Emits, g_object_ref
<1> HIDE DEF f
<1>4. Shape'
  BY <1>2, <1>3 DEF Shape, chainVars
<1>5. ASSUME NEW x \in Channels PROVE Kept(x, stack') = Kept(x, stack) + Emits1(f, x)
  BY <1>2, <1>3, Pushed DEF Kept
<1>6. ASSUME NEW x \in Channels
      PROVE  /\ Cardinality(OutersIn(connected[x])) \in Nat /\ Kept(x, stack) \in Nat
             /\ ref_count[x] \in Nat
  <2>1. Cardinality(OutersIn(connected[x])) \in Nat
    BY OutersNat
  <2>2. Kept(x, stack) \in Nat
    BY KeptNat DEF Shape
  <2> QED  BY <2>1, <2>2, RefsNat
<1>7. Counted'
  <2>1. ASSUME NEW x \in Channels PROVE ref_count'[x] = ref_count[x] + Emits1(f, x)
    BY <1>2, <1>3, <1>6 DEF Shape
  <2>2. \A x \in Channels : Emits1(f, x) \in Nat
    BY <1>2
  <2>3. ASSUME NEW x \in Channels
        PROVE  ref_count'[x] = Cardinality(OutersIn(connected'[x])) + Kept(x, stack')
                                 + (IF held'[x] THEN 1 ELSE 0)
    <3>1. ref_count[x] = Cardinality(OutersIn(connected[x])) + Kept(x, stack)
                           + (IF held[x] THEN 1 ELSE 0)
      BY DEF Counted
    <3>2. connected'[x] = connected[x] /\ held'[x] = held[x]
      BY DEF chainVars
    <3>3. Kept(x, stack') = Kept(x, stack) + Emits1(f, x)
      BY <1>5
    <3>4. Kept(x, stack) \in Nat /\ Cardinality(OutersIn(connected[x])) \in Nat /\ Emits1(f, x) \in Nat
      BY <1>6, <2>2
    <3>5. (IF held[x] THEN 1 ELSE 0) \in Nat
      OBVIOUS
    <3> DEFINE own == IF held[x] THEN 1 ELSE 0
               outers == Cardinality(OutersIn(connected[x]))
    <3>6. /\ ref_count[x] = outers + Kept(x, stack) + own /\ outers \in Nat /\ own \in Nat
          /\ ref_count'[x] = ref_count[x] + Emits1(f, x)
      BY <2>1, <3>1, <3>4, <3>5
    <3> HIDE DEF own, outers
    <3>7. ref_count'[x] = outers + Kept(x, stack') + own
      BY <3>3, <3>4, <3>6
    <3> QED  BY <3>2, <3>7 DEF own, outers
  <2> QED  BY <2>3 DEF Counted, Kept
<1>8. FreedAtZero'
  BY <1>3, <1>6 DEF Shape, FreedAtZero
<1>9. InnerConnected'
  BY DEF InnerConnected, chainVars
<1> QED  BY <1>4, <1>7, <1>8, <1>9

(* A reference is given back by somebody who has it. *)
LEMMA Unref ==
  ASSUME Inv, NEW c \in Channels, g_object_unref(c), Counted',
         UNCHANGED <<user, chainVars>>, held' \in [Channels -> BOOLEAN],
         stack' \in Seq(Frames)
  PROVE  Inv'
<1> USE DEF Inv
<1>1. ref_count' = [ref_count EXCEPT ![c] = @ - 1]
      /\ freed' = IF ref_count[c] = 1 THEN freed \cup {c} ELSE freed
  BY DEF g_object_unref
<1>2. Shape'
  BY <1>1 DEF Shape, chainVars
<1>3. ref_count'[c] \in Nat
  <2>1. connected'[c] \in Seq(Channels \cup {Client}) /\ held'[c] \in BOOLEAN
    BY <1>2 DEF Shape
  <2>2. Cardinality(OutersIn(connected'[c])) \in Nat
    <3>1. OutersIn(connected'[c]) \subseteq 1 .. Len(connected'[c])
      BY DEF OutersIn
    <3> QED  BY <2>1, <3>1, IndicesFinite
  <2>3. Kept(c, stack') \in Nat
    BY KeptNat
  <2> QED  BY <2>2, <2>3 DEF Counted, Kept
<1>4. FreedAtZero'
  BY <1>1, <1>3 DEF Shape, FreedAtZero
<1>5. InnerConnected'
  BY DEF InnerConnected, chainVars
<1> QED  BY <1>2, <1>4, <1>5
-----------------------------------------------------------------------------
(* The actions *)

LEMMA Emptied == \A c : Kept(c, <<>>) = 0
<1>1. \A c : EmittingIn(c, <<>>) = {}
  BY DEF EmittingIn
<1> QED  BY <1>1, FS_EmptySet DEF Kept

(* One frame more, or less, that is no emission. *)
LEMMA PushQuiet ==
  ASSUME NEW s \in Seq(Frames), NEW f \in Frames, \A x : Emits1(f, x) = 0
  PROVE  <<f>> \o s \in Seq(Frames) /\ \A c : Kept(c, <<f>> \o s) = Kept(c, s)
<1>1. ASSUME NEW c PROVE Kept(c, <<f>> \o s) = Kept(c, s)
  <2>1. Kept(c, <<f>> \o s) = Kept(c, s) + Emits1(f, c)
    BY Pushed DEF Kept
  <2> QED  BY <2>1, KeptNat
<1> QED  BY <1>1

LEMMA PopQuiet ==
  ASSUME stack \in Seq(Frames), stack # <<>>, Head(stack).op # "emit"
  PROVE  Tail(stack) \in Seq(Frames) /\ \A c : Kept(c, Tail(stack)) = Kept(c, stack)
<1>1. ASSUME NEW c PROVE Kept(c, Tail(stack)) = Kept(c, stack)
  <2>1. Emits1(Head(stack), c) = 0
    BY DEF Emits1
  <2> QED  BY <2>1, Pop
<1> QED  BY <1>1

LEMMA EmissionsKeep == Inv /\ UNCHANGED user /\ Emissions => Inv'
<1> SUFFICES ASSUME Inv, UNCHANGED user, Emissions PROVE Inv'
  OBVIOUS
<1>0. stack \in Seq(Frames)
  BY DEF Inv, Shape
<1>1. CASE CallsHandler
  <2> DEFINE e == Head(stack)
  <2>1. Top("emit") /\ e.todo # <<>> /\ stack' = <<Handler(e.channel, e.sig)>> \o Rest(e)
    BY <1>1 DEF CallsHandler
  <2>2. /\ Handler(e.channel, e.sig) \in Frames
        /\ \A x : Emits1(Handler(e.channel, e.sig), x) = 0
    BY <1>0, <2>1, Underway, OtherFrames
  <2>3. stack' \in Seq(Frames) /\ \A x : Kept(x, stack') = Kept(x, stack)
    BY <1>0, <2>1, <2>2, OneHandlerOn, PushQuiet
  <2>4. UNCHANGED <<objectVars, chainVars>>
    BY <1>1 DEF CallsHandler
  <2> QED  BY <2>3, <2>4, Quiet
<1>2. CASE Forward
  <2> DEFINE e == Head(stack)
             o == Head(e.todo)
  <2>1. Top("emit") /\ e.todo # <<>> /\ o # Client /\ UNCHANGED <<freed, held, chainVars>>
    BY <1>2 DEF Forward
  <2>2. CASE o \in freed
    <3>1. UNCHANGED <<objectVars, chainVars, stack>>
      BY <1>2, <2>1, <2>2 DEF Forward, objectVars
    <3> QED  BY <1>0, <3>1, Quiet
  <2>3. CASE o \notin freed
    <3>1. e.channel \in Channels /\ e.sig \in Signals /\ o \in Channels
      BY <1>0, <2>1, Underway
    <3>2. Emits(o, e.channel, e.sig, Rest(e))
      BY <1>2, <2>3 DEF Forward, channel_inner_cb
    <3>3. Rest(e) \in Seq(Frames) /\ \A x : Kept(x, Rest(e)) = Kept(x, stack)
      BY <1>0, <2>1, OneHandlerOn
    <3> HIDE DEF e, o
    <3> QED  BY <2>1, <2>3, <3>1, <3>2, <3>3, Emission
  <2> QED  BY <2>2, <2>3
<1>3. CASE EmissionEnds
  <2> DEFINE c == Head(stack).channel
  <2>1. Top("emit") /\ g_object_unref(c) /\ stack' = Tail(stack) /\ UNCHANGED <<held, chainVars>>
    BY <1>3 DEF EmissionEnds
  <2>2. c \in Channels /\ \A x : Emits1(Head(stack), x) = IF x = c THEN 1 ELSE 0
    BY <1>0, <2>1, Underway
  <2>3. stack # <<>>
    BY <2>1 DEF Top
  <2> HIDE DEF c
  <2>4. ASSUME NEW x \in Channels
        PROVE  ref_count'[x] = Cardinality(OutersIn(connected'[x])) + Kept(x, stack')
                                 + (IF held'[x] THEN 1 ELSE 0)
    <3>1. Kept(x, stack) = Kept(x, stack') + Emits1(Head(stack), x) /\ Kept(x, stack') \in Nat
      BY <1>0, <2>1, <2>3, Pop
    <3>2. ref_count[x] = Cardinality(OutersIn(connected[x])) + Kept(x, stack)
                           + (IF held[x] THEN 1 ELSE 0)
      BY DEF Inv, Counted
    <3>3. connected'[x] = connected[x] /\ held'[x] = held[x]
      BY <2>1 DEF chainVars
    <3>4. Cardinality(OutersIn(connected[x])) \in Nat
      BY OutersNat DEF Inv
    <3>5. ref_count'[x] = IF x = c THEN ref_count[x] - 1 ELSE ref_count[x]
      BY <2>1 DEF g_object_unref, Inv, Shape
    <3> QED  BY <2>2, <3>1, <3>2, <3>3, <3>4, <3>5
  <2>5. Counted'
    BY <2>4 DEF Counted, Kept
  <2>6. stack' \in Seq(Frames) /\ held' \in [Channels -> BOOLEAN]
    BY <1>0, <2>1, <2>3, Pop DEF Inv, Shape
  <2> QED  BY <2>1, <2>2, <2>5, <2>6, Unref
<1>4. CASE HandlerReturns
  <2>1. stack # <<>> /\ Head(stack).op # "emit" /\ stack' = Tail(stack)
    BY <1>4 DEF HandlerReturns, Top
  <2>2. UNCHANGED <<objectVars, chainVars>>
    BY <1>4 DEF HandlerReturns
  <2> QED  BY <1>0, <2>1, <2>2, PopQuiet, Quiet
<1> QED  BY <1>1, <1>2, <1>3, <1>4 DEF Emissions

(* An emission from the main loop, or over the frame of a close. *)
LEMMA BottomEmits ==
  ASSUME Inv, UNCHANGED <<user, freed, held, chainVars>>, Bottom \notin freed,
         NEW sig \in Signals, NEW rest \in Seq(Frames),
         Emits(Bottom, NULL, sig, rest), \A x : Kept(x, rest) = Kept(x, stack)
  PROVE  Inv'
  BY ChannelAssumption, Emission

LEMMA CloseKeeps ==
  ASSUME Inv, UNCHANGED <<user, freed, held, chainVars>>, Bottom \notin freed,
         BottomCloses(stack)
  PROVE  Inv'
<1>1. <<Reset>> \o stack \in Seq(Frames) /\ \A x : Kept(x, <<Reset>> \o stack) = Kept(x, stack)
  BY OtherFrames, PushQuiet DEF Inv, Shape
<1>2. "closed" \in Signals
  BY DEF Signals
<1> QED  BY <1>1, <1>2, BottomEmits DEF BottomCloses

LEMMA BottomsKeep == Inv /\ UNCHANGED user /\ Bottoms => Inv'
<1> SUFFICES ASSUME Inv, UNCHANGED user, Bottoms PROVE Inv'
  OBVIOUS
<1>0. stack \in Seq(Frames)
  BY DEF Inv, Shape
<1>1. CASE BottomConnects
  <2>1. stack = <<>> /\ UNCHANGED <<objectVars, chainVars>>
        /\ stack' = <<Handler(Bottom, "connect_result"), Open>>
    BY <1>1 DEF BottomConnects, MainLoopRuns
  <2>2. /\ Handler(Bottom, "connect_result") \in Frames /\ Open \in Frames
        /\ \A x : Emits1(Handler(Bottom, "connect_result"), x) = 0 /\ Emits1(Open, x) = 0
    BY ChannelAssumption, OtherFrames
  <2> DEFINE h == Handler(Bottom, "connect_result")
             rest == <<Open>> \o stack
  <2>3. rest \in Seq(Frames) /\ \A c : Kept(c, rest) = Kept(c, stack)
    BY <1>0, <2>2, PushQuiet
  <2>4. stack' = <<h>> \o rest
    BY <2>1
  <2> HIDE DEF h, rest
  <2>5. stack' \in Seq(Frames) /\ \A c : Kept(c, stack') = Kept(c, stack)
    BY <2>2, <2>3, <2>4, PushQuiet DEF h
  <2> QED  BY <2>1, <2>5, Quiet
<1>2. CASE BottomOpens
  <2>1. stack # <<>> /\ Head(stack).op # "emit" /\ UNCHANGED <<freed, held, chainVars>>
    BY <1>2 DEF BottomOpens, Top
  <2>2. CASE Bottom \in freed
    <3>1. UNCHANGED <<objectVars, chainVars, stack>>
      BY <1>2, <2>1, <2>2 DEF BottomOpens, objectVars
    <3> QED  BY <1>0, <3>1, Quiet
  <2>3. CASE Bottom \notin freed
    <3>1. Emits(Bottom, NULL, "opened", Tail(stack)) /\ "opened" \in Signals
      BY <1>2, <2>3 DEF BottomOpens, Signals
    <3> QED  BY <1>0, <2>1, <2>3, <3>1, PopQuiet, BottomEmits
  <2> QED  BY <2>2, <2>3
<1>3. CASE BottomData
  <2>1. stack = <<>> /\ Bottom \notin freed /\ UNCHANGED <<freed, held, chainVars>>
    BY <1>3 DEF BottomData, MainLoopRuns
  <2>2. PICK sig \in Signals : Emits(Bottom, NULL, sig, stack)
    BY <1>3, <2>1 DEF BottomData, Signals
  <2> QED  BY <1>0, <2>1, <2>2, BottomEmits
<1>4. CASE BottomHup
  <2>1. stack = <<>> /\ Bottom \notin freed /\ UNCHANGED <<freed, held, chainVars>>
    BY <1>4 DEF BottomHup, MainLoopRuns
  <2>2. BottomCloses(stack)
    BY <1>4, <2>1 DEF BottomHup
  <2> QED  BY <2>1, <2>2, CloseKeeps
<1>5. CASE BottomReset
  <2>1. stack # <<>> /\ Head(stack).op # "emit" /\ stack' = Tail(stack)
    BY <1>5 DEF BottomReset, Top
  <2>2. UNCHANGED <<objectVars, chainVars>>
    BY <1>5 DEF BottomReset
  <2> QED  BY <1>0, <2>1, <2>2, PopQuiet, Quiet
<1> QED  BY <1>1, <1>2, <1>3, <1>4, <1>5 DEF Bottoms
-----------------------------------------------------------------------------
(* The client *)

(* A handler that is connected takes a reference if it is a channel's. *)
LEMMA Connected ==
  ASSUME Inv, NEW d \in Channels, NEW x \in Channels \cup {Client},
         connected' = [connected EXCEPT ![d] = Append(@, x)],
         ref_count' = [ref_count EXCEPT ![d] = IF x = Client THEN @ ELSE @ + 1],
         UNCHANGED <<held, stack>>
  PROVE  connected' \in [Channels -> Seq(Channels \cup {Client})] /\ Counted'
<1>1. connected \in [Channels -> Seq(Channels \cup {Client})]
  BY DEF Inv, Shape
<1>2. ASSUME NEW c \in Channels
      PROVE  ref_count'[c] = Cardinality(OutersIn(connected'[c])) + Kept(c, stack')
                               + (IF held'[c] THEN 1 ELSE 0)
  <2>1. ref_count[c] = Cardinality(OutersIn(connected[c])) + Kept(c, stack)
                         + (IF held[c] THEN 1 ELSE 0)
    BY DEF Inv, Counted
  <2>2. Cardinality(OutersIn(connected[c])) \in Nat /\ Kept(c, stack) \in Nat
        /\ Kept(c, stack') = Kept(c, stack) /\ held'[c] = held[c]
    BY OutersNat, KeptNat DEF Inv, Shape
  <2>3. CASE c = d
    <3>1. Cardinality(OutersIn(Append(connected[d], x)))
            = Cardinality(OutersIn(connected[d])) + (IF x # Client THEN 1 ELSE 0)
      BY <1>1, Joined
    <3>2. connected'[d] = Append(connected[d], x)
      BY <1>1
    <3>3. ref_count'[d] = IF x = Client THEN ref_count[d] ELSE ref_count[d] + 1
      BY DEF Inv, Shape
    <3> QED  BY <2>1, <2>2, <2>3, <3>1, <3>2, <3>3
  <2>4. CASE c # d
    <3>1. connected'[c] = connected[c] /\ ref_count'[c] = ref_count[c]
      BY <1>1, <2>4 DEF Inv, Shape
    <3> QED  BY <2>1, <2>2, <3>1
  <2> QED  BY <2>3, <2>4
<1>3. connected' \in [Channels -> Seq(Channels \cup {Client})]
  BY <1>1
<1> QED  BY <1>2, <1>3 DEF Counted, Kept

(* Nobody who has connected is forgotten. *)
LEMMA StillConnected ==
  ASSUME Inv, NEW d \in Channels, NEW x,
         connected' = [connected EXCEPT ![d] = Append(@, x)],
         NEW a \in Channels, NEW c,
         (\E k \in 1 .. Len(connected[a]) : connected[a][k] = c) \/ (a = d /\ c = x),
         x \in Channels \cup {Client}
  PROVE  \E k \in 1 .. Len(connected'[a]) : connected'[a][k] = c
<1>1. connected[a] \in Seq(Channels \cup {Client})
  BY DEF Inv, Shape
<1>2. connected'[a] = IF a = d THEN Append(connected[a], x) ELSE connected[a]
  BY DEF Inv, Shape
<1>3. CASE a = d /\ c = x
  <2>1. connected'[a] = Append(connected[a], x)
    BY <1>2, <1>3
  <2>2. Len(connected[a]) + 1 \in 1 .. Len(connected'[a])
        /\ connected'[a][Len(connected[a]) + 1] = c
    BY <1>1, <1>3, <2>1
  <2> QED  BY <2>2
<1>4. CASE \E k \in 1 .. Len(connected[a]) : connected[a][k] = c
  <2>1. PICK k \in 1 .. Len(connected[a]) : connected[a][k] = c
    BY <1>4
  <2>2. k \in 1 .. Len(connected'[a]) /\ connected'[a][k] = c
    BY <1>1, <1>2, <2>1
  <2> QED  BY <2>2
<1> QED  BY <1>3, <1>4

LEMMA ListensKeeps ==
  ASSUME Inv, UNCHANGED user, NEW c \in Channels, ClientListens(c)
  PROVE  Inv'
<1>1. /\ connected' = [connected EXCEPT ![c] = Append(@, Client)]
      /\ UNCHANGED <<freed, ref_count, held, inner, stack>>
  BY DEF ClientListens, objectVars
<1>2. ref_count' = [ref_count EXCEPT ![c] = IF Client = Client THEN @ ELSE @ + 1]
  BY <1>1 DEF Inv, Shape
<1>3. connected' \in [Channels -> Seq(Channels \cup {Client})] /\ Counted'
  BY <1>1, <1>2, Connected
<1>4. Shape' /\ FreedAtZero'
  BY <1>1, <1>3 DEF Inv, Shape, FreedAtZero
<1>5. InnerConnected'
  <2>1. ASSUME NEW o \in Channels, inner[o] # NULL
        PROVE  \E k \in 1 .. Len(connected'[inner[o]]) : connected'[inner[o]][k] = o
    <3>1. inner[o] \in Channels /\ \E k \in 1 .. Len(connected[inner[o]]) : connected[inner[o]][k] = o
      BY <2>1 DEF Inv, Shape, InnerConnected
    <3> QED  BY <1>1, <3>1, StillConnected
  <2> QED  BY <1>1, <2>1 DEF InnerConnected
<1> QED  BY <1>3, <1>4, <1>5 DEF Inv

LEMMA SetInnerKeeps ==
  ASSUME Inv, UNCHANGED user, NEW c \in Channels, NEW d \in Channels, lm_channel_set_inner(c, d)
  PROVE  Inv'
<1>1. /\ connected' = [connected EXCEPT ![d] = Append(@, c)]
      /\ inner' = [inner EXCEPT ![c] = d] /\ ref_count' = [ref_count EXCEPT ![d] = @ + 1]
      /\ held[d] /\ UNCHANGED <<freed, held, stack>>
  BY DEF lm_channel_set_inner, SetInner, g_object_ref
<1>2. c # Client
  BY NamesAssumption
<1>3. connected' \in [Channels -> Seq(Channels \cup {Client})] /\ Counted'
  BY <1>1, <1>2, Connected
<1>4. Shape'
  BY <1>1, <1>3 DEF Inv, Shape
<1>5. FreedAtZero'
  <2>1. ref_count[d] > 0 /\ ref_count[d] \in Nat
    BY <1>1, RefsNat DEF Inv
  <2> QED  BY <1>1, <2>1 DEF Inv, Shape, FreedAtZero
<1>6. InnerConnected'
  <2>1. ASSUME NEW o \in Channels, inner'[o] # NULL
        PROVE  \E k \in 1 .. Len(connected'[inner'[o]]) : connected'[inner'[o]][k] = o
    <3>1. CASE o = c
      <4>1. inner'[o] = d
        BY <1>1, <3>1 DEF Inv, Shape
      <4>2. c \in Channels \cup {Client} /\ connected \in [Channels -> Seq(Channels \cup {Client})]
        BY DEF Inv, Shape
      <4>3. \E k \in 1 .. Len(connected'[d]) : connected'[d][k] = c
        <5>1. connected'[d] = Append(connected[d], c)
          BY <1>1, <4>2
        <5>2. connected[d] \in Seq(Channels \cup {Client})
          BY <4>2
        <5>3. /\ Len(connected[d]) + 1 \in 1 .. Len(connected'[d])
              /\ connected'[d][Len(connected[d]) + 1] = c
          BY <4>2, <5>1, <5>2
        <5> QED  BY <5>3
      <4> QED  BY <3>1, <4>1, <4>3
    <3>2. CASE o # c
      <4>1. inner'[o] = inner[o] /\ inner[o] \in Channels
        BY <1>1, <2>1, <3>2 DEF Inv, Shape
      <4>2. \E k \in 1 .. Len(connected[inner[o]]) : connected[inner[o]][k] = o
        BY <2>1, <4>1 DEF Inv, InnerConnected
      <4> QED  BY <1>1, <4>1, <4>2, StillConnected
    <3> QED  BY <3>1, <3>2
  <2> QED  BY <2>1 DEF InnerConnected
<1> QED  BY <1>3, <1>4, <1>5, <1>6 DEF Inv

LEMMA DropsKeeps ==
  ASSUME Inv, UNCHANGED user, NEW c \in Channels, ClientDrops(c)
  PROVE  Inv'
<1>1. /\ held[c] /\ g_object_unref(c) /\ held' = [held EXCEPT ![c] = FALSE]
      /\ UNCHANGED <<chainVars, stack>>
  BY DEF ClientDrops
<1>2. ASSUME NEW x \in Channels
      PROVE  ref_count'[x] = Cardinality(OutersIn(connected'[x])) + Kept(x, stack')
                               + (IF held'[x] THEN 1 ELSE 0)
  <2>1. ref_count[x] = Cardinality(OutersIn(connected[x])) + Kept(x, stack)
                         + (IF held[x] THEN 1 ELSE 0)
    BY DEF Inv, Counted
  <2>2. Cardinality(OutersIn(connected[x])) \in Nat /\ Kept(x, stack) \in Nat
        /\ Kept(x, stack') = Kept(x, stack) /\ connected'[x] = connected[x]
    BY <1>1, OutersNat, KeptNat DEF Inv, Shape, chainVars
  <2>3. ref_count'[x] = IF x = c THEN ref_count[x] - 1 ELSE ref_count[x]
    BY <1>1 DEF g_object_unref, Inv, Shape
  <2>4. CASE x = c
    <3>1. held[x] /\ ~held'[x]
      BY <1>1, <2>4 DEF Inv, Shape
    <3>2. ref_count[x] = Cardinality(OutersIn(connected[x])) + Kept(x, stack) + 1
      BY <2>1, <3>1
    <3>3. ref_count'[x] = ref_count[x] - 1
      BY <2>3, <2>4
    <3>4. ref_count'[x] = Cardinality(OutersIn(connected'[x])) + Kept(x, stack') + 0
      BY <2>2, <3>2, <3>3
    <3> QED  BY <3>1, <3>4
  <2>5. CASE x # c
    <3>1. held'[x] = held[x] /\ ref_count'[x] = ref_count[x]
      BY <1>1, <2>3, <2>5 DEF Inv, Shape
    <3> QED  BY <2>1, <2>2, <3>1
  <2> QED  BY <2>4, <2>5
<1>3. Counted'
  BY <1>2 DEF Counted, Kept
<1>4. held' \in [Channels -> BOOLEAN] /\ stack' \in Seq(Frames)
  BY <1>1 DEF Inv, Shape
<1> QED  BY <1>1, <1>3, <1>4, Unref

LEMMA UserActsKeep == Inv /\ UNCHANGED user /\ UserActs => Inv'
<1> SUFFICES ASSUME Inv, UNCHANGED user, NEW c \in Channels,
                    \/ ClientListens(c) \/ lm_channel_close(c) \/ ClientDrops(c)
                    \/ \E d \in Channels : lm_channel_set_inner(c, d)
             PROVE  Inv'
  BY DEF UserActs
<1>1. CASE lm_channel_close(c)
  <2>1. UNCHANGED <<freed, held, chainVars>>
    BY <1>1 DEF lm_channel_close
  <2>2. CASE Bottom \in freed
    <3>1. UNCHANGED <<objectVars, chainVars, stack>>
      BY <1>1, <2>1, <2>2 DEF lm_channel_close, objectVars
    <3>2. stack \in Seq(Frames)
      BY DEF Inv, Shape
    <3> QED  BY <3>1, <3>2, Quiet
  <2>3. CASE Bottom \notin freed
    BY <1>1, <2>1, <2>3, CloseKeeps DEF lm_channel_close
  <2> QED  BY <2>2, <2>3
<1> QED  BY <1>1, ListensKeeps, SetInnerKeeps, DropsKeeps

LEMMA InvKept == Inv /\ [ChannelNext]_channelVars => Inv'
<1>1. Inv /\ ChannelNext => Inv'
  BY EmissionsKeep, BottomsKeep, UserActsKeep DEF ChannelNext
<1>2. Inv /\ UNCHANGED channelVars => Inv'
  <2>1. Inv /\ UNCHANGED channelVars => stack' \in Seq(Frames)
    BY DEF Inv, Shape, channelVars
  <2> QED  BY <2>1, Quiet DEF channelVars
<1> QED  BY <1>1, <1>2

-----------------------------------------------------------------------------
(* Every reference is somebody's, however the channels are stacked,        *)
(* replaced and dropped and however deep the emissions nest; and so a      *)
(* channel that has an inner one can use it: channel_finalize, which gives *)
(* nothing back, takes nothing away.                                       *)
THEOREM RefsCountedAlways == ChannelSpec => []RefsCounted
<1> QED  BY InvInit, InvKept, InvMeans, PTL DEF ChannelSpec

-----------------------------------------------------------------------------
(* Types *)

ChannelTyped ==
  /\ Inv
  /\ phase \in {"idle", "connected", "open"}
  /\ connects \in Nat /\ stackings \in Nat
  /\ seen \in [Channels -> {"idle", "open"}]
  /\ misused \in BOOLEAN

LEMMA ChannelTypedInit == ChannelInit => ChannelTyped
<1> SUFFICES ASSUME ChannelInit PROVE ChannelTyped
  OBVIOUS
<1>1. Inv
  BY InvInit
<1>2. connects \in Nat /\ stackings \in Nat /\ phase \in {"idle", "connected", "open"}
  BY DEF ChannelInit
<1>3. seen \in [Channels -> {"idle", "open"}] /\ misused \in BOOLEAN
  BY DEF ChannelInit
<1> QED  BY <1>1, <1>2, <1>3 DEF ChannelTyped

LEMMA ChannelTypedKept == ChannelTyped /\ [ChannelNext]_channelVars => ChannelTyped'
<1> SUFFICES ASSUME ChannelTyped, [ChannelNext]_channelVars PROVE ChannelTyped'
  OBVIOUS
<1>1. Inv'
  BY InvKept DEF ChannelTyped
<1> USE DEF ChannelTyped, chainVars
<1>2. CASE Emissions
  <2>1. CASE CallsHandler
    <3>1. seen' \in [Channels -> {"idle", "open"}]
      BY <2>1 DEF CallsHandler, Tells
    <3> QED  BY <1>1, <2>1, <3>1 DEF CallsHandler
  <2>2. CASE Forward
    BY <1>1, <2>2 DEF Forward
  <2>3. CASE EmissionEnds \/ HandlerReturns
    BY <1>1, <2>3 DEF EmissionEnds, HandlerReturns
  <2> QED  BY <1>2, <2>1, <2>2, <2>3 DEF Emissions
<1>3. CASE Bottoms
  <2>1. connects' \in Nat /\ UNCHANGED <<stackings, seen>>
    BY <1>3 DEF Bottoms, BottomConnects, BottomOpens, BottomData, BottomHup, BottomReset
  <2>2. phase' \in {"idle", "connected", "open"}
    BY <1>3 DEF Bottoms, BottomConnects, BottomOpens, BottomData, BottomHup, BottomReset
  <2>3. misused' \in BOOLEAN
    <3>1. BottomReset => misused' \in BOOLEAN
      BY DEF BottomReset
    <3>2. BottomOpens => misused' \in BOOLEAN
      BY DEF BottomOpens
    <3>3. BottomConnects \/ BottomData \/ BottomHup => UNCHANGED misused
      BY DEF BottomConnects, BottomData, BottomHup
    <3> QED  BY <1>3, <3>1, <3>2, <3>3 DEF Bottoms
  <2> QED  BY <1>1, <2>1, <2>2, <2>3
<1>4. CASE UserActs
  <2>1. stackings' \in {stackings, stackings + 1} /\ UNCHANGED <<phase, connects, seen>>
        /\ misused' \in BOOLEAN
    BY <1>4 DEF UserActs, ClientListens, lm_channel_close, ClientDrops, lm_channel_set_inner
  <2> QED  BY <1>1, <2>1
<1>5. CASE UNCHANGED channelVars
  BY <1>1, <1>5 DEF channelVars
<1> QED  BY <1>2, <1>3, <1>4, <1>5 DEF ChannelNext

LEMMA ChannelTypedMeans == ChannelTyped => ChannelTypeOK
<1> SUFFICES ASSUME ChannelTyped PROVE ChannelTypeOK
  OBVIOUS
<1>1. Shape /\ Counted
  BY DEF ChannelTyped, Inv
<1>2. \A c \in Channels : ref_count[c] \in Nat
  BY <1>1, RefsNat
<1> QED  BY <1>1, <1>2 DEF ChannelTyped, ChannelTypeOK, Shape

(* Every variable keeps to its type; no count of references goes below     *)
(* zero, whatever the client drops.                                        *)
THEOREM ChannelTypeOKAlways == ChannelSpec => []ChannelTypeOK
  BY ChannelTypedInit, ChannelTypedKept, ChannelTypedMeans, PTL DEF ChannelSpec

-----------------------------------------------------------------------------
(* Whose signals a channel forwards *)

(* Of the channels among some handlers of channel d, each points to d.     *)
Wired(pointer, d, q) == \A k \in 1 .. Len(q) : q[k] \in Channels => pointer[q[k]] = d

FrameWired(pointer, f) == f.op = "emit" => Wired(pointer, f.channel, f.todo)

StackWired(pointer, s) == \A k \in 1 .. Len(s) : FrameWired(pointer, s[k])

AllWired == /\ \A d \in Channels : Wired(inner, d, connected[d])
            /\ StackWired(inner, stack)

(* Without replaced channels, also where an emission under way still has   *)
(* handlers to call.                                                       *)
OneInner == Shape /\ ("replace_inner" \notin user.habits => AllWired)

LEMMA OneInnerInit == ChannelInit => OneInner
<1> SUFFICES ASSUME ChannelInit PROVE OneInner
  OBVIOUS
<1>1. Shape
  BY InvInit DEF Inv
<1> QED  BY <1>1 DEF OneInner, AllWired, ChannelInit, Wired, StackWired

LEMMA WiredPush ==
  ASSUME NEW pointer, NEW s \in Seq(Frames), NEW f \in Frames,
         StackWired(pointer, s), FrameWired(pointer, f)
  PROVE  StackWired(pointer, <<f>> \o s)
<1> DEFINE now == <<f>> \o s
<1>1. /\ Len(now) = Len(s) + 1 /\ now[1] = f
      /\ \A k \in 1 .. Len(now) : k = 1 \/ (k - 1 \in 1 .. Len(s) /\ now[k] = s[k - 1])
  OBVIOUS
<1> HIDE DEF now
<1>2. StackWired(pointer, now)
  BY <1>1 DEF StackWired
<1> QED  BY <1>2 DEF now

LEMMA WiredPop ==
  ASSUME NEW pointer, NEW s \in Seq(Frames), s # <<>>, StackWired(pointer, s)
  PROVE  FrameWired(pointer, Head(s)) /\ StackWired(pointer, Tail(s))
<1>1. Head(s) = s[1] /\ 1 \in 1 .. Len(s)
  OBVIOUS
<1>2. \A k \in 1 .. Len(Tail(s)) : k + 1 \in 1 .. Len(s) /\ Tail(s)[k] = s[k + 1]
  OBVIOUS
<1> QED  BY <1>1, <1>2 DEF StackWired

LEMMA WiredRest ==
  ASSUME NEW pointer, stack \in Seq(Frames), Top("emit"), Head(stack).todo # <<>>,
         StackWired(pointer, stack)
  PROVE  StackWired(pointer, Rest(Head(stack))) /\ FrameWired(pointer, Head(stack))
<1> DEFINE e == Head(stack)
           d == [e EXCEPT !.todo = Tail(@)]
<1>1. e \in Frames /\ e.op = "emit" /\ stack # <<>> /\ Tail(stack) \in Seq(Frames)
  BY DEF Top
<1>2. e.todo \in Seq(Channels \cup {Client}) /\ Tail(e.todo) \in Seq(Channels \cup {Client})
  BY Underway
<1>3. /\ d \in Frames /\ d.op = "emit" /\ d.channel = e.channel
      /\ d.todo = Tail(e.todo)
  <2>1. /\ DOMAIN e = {"op", "channel", "from", "sig", "todo"}
        /\ e \in [op : {"emit"}, channel : Channels, from : Channels \cup {NULL}, sig : Signals,
                  todo : Seq(Channels \cup {Client})]
    BY <1>1 DEF Frames, Open, Reset
  <2>2. d \in Frames /\ d.op = "emit" /\ d.channel = e.channel
    BY <1>1, <1>2 DEF Frames, Open, Reset
  <2>3. d.todo = Tail(e.todo)
    BY <2>1
  <2> QED  BY <2>2, <2>3
<1>4. FrameWired(pointer, e) /\ StackWired(pointer, Tail(stack))
  BY <1>1, WiredPop
<1>5. \A k \in 1 .. Len(Tail(e.todo)) : k + 1 \in 1 .. Len(e.todo) /\ Tail(e.todo)[k] = e.todo[k + 1]
  BY <1>2
<1>6. FrameWired(pointer, d)
  <2> HIDE DEF d, e
  <2> QED  BY <1>1, <1>3, <1>4, <1>5 DEF FrameWired, Wired
<1>7. Rest(e) = <<d>> \o Tail(stack)
  BY DEF Rest
<1> HIDE DEF d
<1>8. StackWired(pointer, <<d>> \o Tail(stack))
  BY <1>1, <1>3, <1>4, <1>6, WiredPush
<1> QED  BY <1>4, <1>7, <1>8

LEMMA EmitWired ==
  ASSUME NEW pointer, NEW c \in Channels, NEW from \in Channels \cup {NULL}, NEW sig \in Signals,
         connected[c] \in Seq(Channels \cup {Client}), NEW rest \in Seq(Frames),
         StackWired(pointer, rest), Wired(pointer, c, connected[c]), Emits(c, from, sig, rest)
  PROVE  StackWired(pointer, stack')
<1> DEFINE f == Emit(c, from, sig, connected[c])
<1>1. f \in Frames
  BY EmitFrame
<1>2. FrameWired(pointer, f)
  BY DEF FrameWired, Emit
<1>3. stack' = <<f>> \o rest
  BY DEF Emits
<1> HIDE DEF f
<1> QED  BY <1>1, <1>2, <1>3, WiredPush

LEMMA QuietWired ==
  ASSUME NEW pointer, NEW s \in Seq(Frames), NEW f \in Frames, f.op # "emit", StackWired(pointer, s)
  PROVE  <<f>> \o s \in Seq(Frames) /\ StackWired(pointer, <<f>> \o s)
<1>1. FrameWired(pointer, f)
  BY DEF FrameWired
<1> QED  BY <1>1, WiredPush

(* What a step does to the stack, while no channel is stacked. *)
LEMMA StackStaysWired ==
  ASSUME Shape, AllWired, UNCHANGED <<inner, connected>>,
         Emissions \/ Bottoms \/ (\E c \in Channels : lm_channel_close(c) \/ ClientDrops(c))
  PROVE  StackWired(inner, stack')
<1>0. /\ stack \in Seq(Frames) /\ StackWired(inner, stack) /\ Bottom \in Channels
      /\ \A c \in Channels : connected[c] \in Seq(Channels \cup {Client})
      /\ \A c \in Channels : Wired(inner, c, connected[c])
  BY ChannelAssumption DEF Shape, AllWired
<1>1. CASE UNCHANGED stack
  BY <1>0, <1>1
<1>2. CASE CallsHandler
  <2> DEFINE e == Head(stack)
  <2>1. Top("emit") /\ e.todo # <<>> /\ stack' = <<Handler(e.channel, e.sig)>> \o Rest(e)
    BY <1>2 DEF CallsHandler
  <2>2. Handler(e.channel, e.sig) \in Frames /\ Handler(e.channel, e.sig).op # "emit"
    BY <1>0, <2>1, Underway, OtherFrames DEF Handler
  <2>3. Rest(e) \in Seq(Frames) /\ StackWired(inner, Rest(e))
    BY <1>0, <2>1, WiredRest, OneHandlerOn
  <2> HIDE DEF e
  <2> QED  BY <2>1, <2>2, <2>3, QuietWired
<1>3. CASE Forward /\ ~UNCHANGED stack
  <2> DEFINE e == Head(stack)
             o == Head(e.todo)
  <2>1. Top("emit") /\ e.todo # <<>> /\ o # Client /\ Emits(o, e.channel, e.sig, Rest(e))
    BY <1>3 DEF Forward, channel_inner_cb
  <2>2. e.channel \in Channels /\ e.sig \in Signals /\ o \in Channels
    BY <1>0, <2>1, Underway
  <2>3. Rest(e) \in Seq(Frames) /\ StackWired(inner, Rest(e))
    BY <1>0, <2>1, WiredRest, OneHandlerOn
  <2> HIDE DEF e, o
  <2> QED  BY <1>0, <2>1, <2>2, <2>3, EmitWired
<1>4. CASE stack # <<>> /\ stack' = Tail(stack)
  BY <1>0, <1>4, WiredPop
<1>5. ASSUME NEW sig \in Signals, NEW rest \in Seq(Frames), StackWired(inner, rest),
             Emits(Bottom, NULL, sig, rest)
      PROVE  StackWired(inner, stack')
  BY <1>0, <1>5, EmitWired
<1>6. CASE BottomConnects
  <2>1. stack' = <<Handler(Bottom, "connect_result"), Open>>
    BY <1>6 DEF BottomConnects
  <2>2. \A k \in 1 .. Len(stack') : stack'[k].op # "emit"
    BY <2>1 DEF Handler, Open
  <2> QED  BY <2>2 DEF StackWired, FrameWired
<1>7. CASE BottomOpens /\ ~UNCHANGED stack
  <2>1. stack # <<>> /\ Emits(Bottom, NULL, "opened", Tail(stack)) /\ "opened" \in Signals
    BY <1>7 DEF BottomOpens, Top, Signals
  <2>2. Tail(stack) \in Seq(Frames) /\ StackWired(inner, Tail(stack))
    BY <1>0, <2>1, WiredPop
  <2> QED  BY <1>5, <2>1, <2>2
<1>8. CASE BottomData
  <2>1. PICK sig \in Signals : Emits(Bottom, NULL, sig, stack)
    BY <1>8 DEF BottomData, MainLoopRuns, Signals
  <2> QED  BY <1>0, <1>5, <2>1
<1>9. ASSUME NEW rest \in Seq(Frames), StackWired(inner, rest), BottomCloses(rest)
      PROVE  StackWired(inner, stack')
  <2>1. Reset \in Frames /\ Reset.op # "emit" /\ "closed" \in Signals
    BY OtherFrames DEF Reset, Signals
  <2>2. <<Reset>> \o rest \in Seq(Frames) /\ StackWired(inner, <<Reset>> \o rest)
    BY <1>9, <2>1, QuietWired
  <2> QED  BY <1>5, <1>9, <2>1, <2>2 DEF BottomCloses
<1>10. CASE BottomHup
  <2>1. BottomCloses(stack)
    BY <1>10 DEF BottomHup, MainLoopRuns
  <2> QED  BY <1>0, <1>9, <2>1
<1>11. ASSUME NEW c \in Channels, lm_channel_close(c), ~UNCHANGED stack
       PROVE  StackWired(inner, stack')
  <2>1. BottomCloses(stack)
    BY <1>11 DEF lm_channel_close
  <2> QED  BY <1>0, <1>9, <2>1
<1>12. EmissionEnds \/ HandlerReturns \/ BottomReset => stack # <<>> /\ stack' = Tail(stack)
  BY DEF EmissionEnds, HandlerReturns, BottomReset, Top
<1>13. \A c \in Channels : ClientDrops(c) => UNCHANGED stack
  BY DEF ClientDrops
<1> QED  BY <1>1, <1>2, <1>3, <1>4, <1>6, <1>7, <1>8, <1>10, <1>11, <1>12, <1>13
         DEF Emissions, Bottoms

(* A channel without an inner one is nobody's handler yet. *)
LEMMA WiredByInner ==
  ASSUME Shape, NEW c \in Channels, NEW d \in Channels, inner[c] = NULL,
         NEW x \in Channels, NEW q, Wired(inner, x, q)
  PROVE  Wired([inner EXCEPT ![c] = d], x, q)
<1>1. NULL \notin Channels
  BY NamesAssumption
<1> QED  BY <1>1 DEF Shape, Wired

LEMMA SetInnerWired ==
  ASSUME Shape, AllWired, NEW c \in Channels, NEW d \in Channels, inner[c] = NULL,
         inner' = [inner EXCEPT ![c] = d], connected' = [connected EXCEPT ![d] = Append(@, c)],
         UNCHANGED stack
  PROVE  AllWired'
<1>1. ASSUME NEW x \in Channels PROVE Wired(inner', x, connected'[x])
  <2>1. Wired(inner', x, connected[x])
    BY WiredByInner DEF AllWired
  <2>2. connected[x] \in Seq(Channels \cup {Client})
    BY DEF Shape
  <2>3. CASE x = d
    <3>1. connected'[x] = Append(connected[x], c)
      BY <2>3 DEF Shape
    <3>2. \A k \in 1 .. Len(connected'[x]) :
            \/ k \in 1 .. Len(connected[x]) /\ connected'[x][k] = connected[x][k]
            \/ connected'[x][k] = c
      BY <2>2, <3>1
    <3>3. inner'[c] = d
      BY DEF Shape
    <3> QED  BY <2>1, <2>3, <3>2, <3>3 DEF Wired
  <2>4. CASE x # d
    <3>1. connected'[x] = connected[x]
      BY <2>4 DEF Shape
    <3> QED  BY <2>1, <3>1
  <2> QED  BY <2>3, <2>4
<1>2. ASSUME NEW k \in 1 .. Len(stack) PROVE FrameWired(inner', stack[k])
  <2> SUFFICES ASSUME stack[k].op = "emit" PROVE Wired(inner', stack[k].channel, stack[k].todo)
    BY DEF FrameWired
  <2>1. stack[k] \in Frames
    BY DEF Shape
  <2>2. stack[k].channel \in Channels
    BY <2>1 DEF Frames, Open, Reset
  <2>3. Wired(inner, stack[k].channel, stack[k].todo)
    BY DEF AllWired, StackWired, FrameWired
  <2> QED  BY <2>2, <2>3, WiredByInner
<1> QED  BY <1>1, <1>2 DEF AllWired, StackWired

LEMMA ListensWired ==
  ASSUME Shape, AllWired, NEW c \in Channels, ClientListens(c)
  PROVE  AllWired'
<1>1. connected' = [connected EXCEPT ![c] = Append(@, Client)] /\ UNCHANGED <<inner, stack>>
  BY DEF ClientListens
<1>2. Client \notin Channels
  BY NamesAssumption
<1>3. ASSUME NEW x \in Channels PROVE Wired(inner, x, connected'[x])
  <2>1. connected[x] \in Seq(Channels \cup {Client}) /\ Wired(inner, x, connected[x])
    BY DEF Shape, AllWired
  <2>2. connected'[x] = connected[x] \/ connected'[x] = Append(connected[x], Client)
    BY <1>1 DEF Shape
  <2>3. \A k \in 1 .. Len(connected'[x]) :
          \/ k \in 1 .. Len(connected[x]) /\ connected'[x][k] = connected[x][k]
          \/ connected'[x][k] = Client
    BY <2>1, <2>2
  <2> QED  BY <1>2, <2>1, <2>3 DEF Wired
<1> QED  BY <1>1, <1>3 DEF AllWired

LEMMA OneInnerKept ==
  ASSUME Inv, OneInner, [ChannelNext]_channelVars
  PROVE  OneInner'
<1>1. Shape' /\ Shape
  BY InvKept DEF Inv
<1>2. user' = user
  BY DEF ChannelNext, channelVars
<1>3. ASSUME "replace_inner" \notin user.habits, AllWired PROVE AllWired'
  <2>1. CASE UNCHANGED channelVars
    BY <1>3, <2>1 DEF channelVars, chainVars, AllWired
  <2>2. CASE UNCHANGED <<inner, connected>> /\ StackWired(inner, stack')
    BY <1>3, <2>2 DEF AllWired
  <2>3. ASSUME Emissions \/ Bottoms \/ (\E c \in Channels : lm_channel_close(c) \/ ClientDrops(c))
        PROVE  UNCHANGED <<inner, connected>>
    BY <2>3 DEF Emissions, CallsHandler, Forward, EmissionEnds, HandlerReturns, Bottoms,
       BottomConnects, BottomOpens, BottomData, BottomHup, BottomReset, lm_channel_close,
       ClientDrops, chainVars
  <2>4. ASSUME NEW c \in Channels, NEW d \in Channels, lm_channel_set_inner(c, d) PROVE AllWired'
    <3>1. /\ inner[c] = NULL /\ inner' = [inner EXCEPT ![c] = d] /\ UNCHANGED stack
          /\ connected' = [connected EXCEPT ![d] = Append(@, c)]
      BY <1>3, <2>4 DEF lm_channel_set_inner, SetInner
    <3> QED  BY <1>1, <1>3, <3>1, SetInnerWired
  <2>5. ASSUME NEW c \in Channels, ClientListens(c) PROVE AllWired'
    BY <1>1, <1>3, <2>5, ListensWired
  <2> QED  BY <1>1, <1>3, <2>1, <2>2, <2>3, <2>4, <2>5, StackStaysWired DEF ChannelNext, UserActs
<1> QED  BY <1>1, <1>2, <1>3 DEF OneInner

LEMMA ForwardsCurrent ==
  ASSUME OneInner, [ChannelNext]_channelVars, "replace_inner" \notin user.habits,
         NEW c \in Channels, NEW from \in Channels, Forwards(c, from)
  PROVE  inner[c] = from
<1>1. stack \in Seq(Frames) /\ StackWired(inner, stack)
  BY DEF OneInner, Shape, AllWired
<1>2. Len(stack') > Len(stack) /\ Head(stack').op = "emit" /\ Head(stack').from # NULL
      /\ Head(stack').channel = c /\ Head(stack').from = from
  BY NamesAssumption DEF Forwards
<1>3. ~UNCHANGED stack
  BY <1>1, <1>2
<1>4. ASSUME NEW x, NEW f, NEW sig, NEW rest, Emits(x, f, sig, rest), rest \in Seq(Frames)
      PROVE  Head(stack').channel = x /\ Head(stack').from = f
  BY <1>4 DEF Emits, Emit
<1>5. ~ \E sig \in Signals, rest \in Seq(Frames) : Emits(Bottom, NULL, sig, rest)
  BY <1>2, <1>4
<1>6. ~BottomCloses(stack)
  <2>1. "closed" \in Signals /\ <<Reset>> \o stack \in Seq(Frames)
    BY <1>1, OtherFrames DEF Signals
  <2> QED  BY <1>5, <2>1 DEF BottomCloses
<1>7. ~UserActs
  BY <1>3, <1>6
  DEF UserActs, ClientListens, lm_channel_close, ClientDrops, lm_channel_set_inner
<1>8. ~Bottoms
  <2>1. ~BottomConnects
    BY <1>2 DEF BottomConnects, Handler
  <2>2. ~BottomOpens
    <3>1. stack # <<>> => Tail(stack) \in Seq(Frames)
      BY <1>1
    <3> QED  BY <1>3, <1>5, <3>1 DEF BottomOpens, Top, Signals
  <2>3. ~BottomData
    BY <1>1, <1>5 DEF BottomData, MainLoopRuns, Signals
  <2>4. ~BottomHup
    BY <1>6 DEF BottomHup, MainLoopRuns
  <2>5. ~BottomReset
    <3>1. stack # <<>> /\ stack' = Tail(stack) => Len(stack') < Len(stack)
      BY <1>1
    <3>2. Len(stack) \in Nat /\ Len(stack') \in Nat
      BY <1>1, <3>1 DEF BottomReset
    <3> QED  BY <1>1, <1>2, <3>1 DEF BottomReset, Top
  <2> QED  BY <2>1, <2>2, <2>3, <2>4, <2>5 DEF Bottoms
<1>9. Emissions
  BY <1>3, <1>7, <1>8 DEF ChannelNext, channelVars
<1>10. ~HandlerReturns /\ ~EmissionEnds
  <2>1. stack # <<>> /\ stack' = Tail(stack) => Len(stack') = Len(stack) - 1 /\ Len(stack) \in Nat
    BY <1>1
  <2> QED  BY <1>2, <2>1 DEF HandlerReturns, EmissionEnds, Top
<1>11. ~CallsHandler
  <2>1. CallsHandler => Rest(Head(stack)) \in Seq(Frames)
    BY <1>1, OneHandlerOn DEF CallsHandler
  <2>2. CallsHandler => Head(stack') = Handler(Head(stack).channel, Head(stack).sig)
    BY <2>1 DEF CallsHandler
  <2> QED  BY <1>2, <2>2 DEF Handler
<1>12. Forward
  BY <1>9, <1>10, <1>11 DEF Emissions
<1> DEFINE e == Head(stack)
           o == Head(e.todo)
<1>13. Top("emit") /\ e.todo # <<>> /\ o # Client /\ Emits(o, e.channel, e.sig, Rest(e))
  BY <1>3, <1>12 DEF Forward, channel_inner_cb
<1>14. Rest(e) \in Seq(Frames) /\ FrameWired(inner, e)
  BY <1>1, <1>13, OneHandlerOn, WiredRest
<1>15. c = o /\ from = e.channel
  BY <1>2, <1>4, <1>13, <1>14
<1>16. e.todo \in Seq(Channels \cup {Client})
  BY <1>1, <1>13, Underway
<1>17. o = e.todo[1] /\ 1 \in 1 .. Len(e.todo)
  BY <1>13, <1>16
<1>18. e.op = "emit"
  BY <1>13 DEF Top
<1> HIDE DEF e, o
<1> QED  BY <1>14, <1>15, <1>17, <1>18 DEF FrameWired, Wired

(* However late a channel was stacked, whatever was dropped and however    *)
(* deep the calls nest: a channel forwards the signals of its inner        *)
(* channel and of no other, unless the client has replaced an inner one.   *)
THEOREM SignalsOfCurrentInnerAlways == ChannelSpec => SignalsOfCurrentInner
<1>1. OneInner /\ [ChannelNext]_channelVars =>
        [\A c, from \in Channels :
           "replace_inner" \notin user.habits /\ Forwards(c, from) => inner[c] = from]_channelVars
  BY ForwardsCurrent
<1>2. Inv /\ OneInner /\ [ChannelNext]_channelVars => OneInner'
  BY OneInnerKept
<1> QED  BY <1>1, <1>2, OneInnerInit, InvInit, InvKept, PTL DEF ChannelSpec, SignalsOfCurrentInner

-----------------------------------------------------------------------------
(* Order.  For a client that stacks its channels before the socket opens:  *)
(* each call of g_signal_emit that is under way still reaches certain      *)
(* channels (Waits), by handlers that it has yet to call.  A channel with  *)
(* handlers of the client that stands on the socket is waited for by at    *)
(* most one of them, whose news is what is so; and what its client was     *)
(* told before is so but for that news (ChannelOK).  The emission that a   *)
(* close starts below others would break that, were it not that a client   *)
(* which closes in handlers has them at one level: its handler runs only   *)
(* after its channel had its turn in every emission further down           *)
(* (HadTurn).                                                              *)

(* What a call that starts at a channel passes through: the channels that  *)
(* are in every set with that one and with whatever its members are        *)
(* stacked on.                                                             *)
Closed(p, S) == \A y \in S : p[y] # NULL => p[y] \in S

Within(p, c) == {x \in Channels : \A S \in SUBSET Channels : c \in S /\ Closed(p, S) => x \in S}

(* The inner pointers there may be. *)
Pointers == [Channels -> Channels \cup {NULL}]

(* Calls that go inwards come to an end. *)
Leveled(p, v) == v \in [Channels -> Nat] /\ \A c \in Channels : p[c] # NULL => v[p[c]] < v[c]

LEMMA WithinIs ==
  ASSUME NEW p \in Pointers, NEW c \in Channels
  PROVE  /\ c \in Within(p, c) /\ Within(p, c) \subseteq Channels /\ Closed(p, Within(p, c))
         /\ \A S \in SUBSET Channels : c \in S /\ Closed(p, S) => Within(p, c) \subseteq S
<1>1. c \in Within(p, c) /\ Within(p, c) \subseteq Channels
  BY DEF Within
<1>2. \A S \in SUBSET Channels : c \in S /\ Closed(p, S) => Within(p, c) \subseteq S
  BY DEF Within
<1>3. ASSUME NEW y \in Within(p, c), p[y] # NULL PROVE p[y] \in Within(p, c)
  <2>1. y \in Channels /\ p[y] \in Channels
    BY <1>1, <1>3 DEF Pointers
  <2>2. ASSUME NEW S \in SUBSET Channels, c \in S, Closed(p, S) PROVE p[y] \in S
    <3>1. y \in S
      BY <1>2, <2>2
    <3> QED  BY <1>3, <2>2, <3>1 DEF Closed
  <2> QED  BY <2>1, <2>2 DEF Within
<1>4. Closed(p, Within(p, c))
  BY <1>3 DEF Closed
<1> QED  BY <1>1, <1>2, <1>4

LEMMA WithinOf ==
  ASSUME NEW p \in Pointers, NEW c \in Channels, NEW x \in Within(p, c)
  PROVE  x \in Channels /\ Within(p, x) \subseteq Within(p, c)
<1>1. x \in Channels /\ Within(p, c) \in SUBSET Channels /\ Closed(p, Within(p, c))
  BY WithinIs
<1> QED  BY <1>1, WithinIs

LEMMA WithinStep ==
  ASSUME NEW p \in Pointers, NEW c \in Channels
  PROVE  Within(p, c) = IF p[c] = NULL THEN {c} ELSE {c} \cup Within(p, p[c])
<1>0. NULL \notin Channels
  BY NamesAssumption
<1>1. CASE p[c] = NULL
  <2>1. Closed(p, {c})
    BY <1>1 DEF Closed
  <2>2. Within(p, c) \subseteq {c} /\ c \in Within(p, c)
    BY <2>1, WithinIs
  <2> QED  BY <1>1, <2>2
<1>2. CASE p[c] # NULL
  <2> DEFINE d == p[c]
             S == {c} \cup Within(p, d)
  <2>1. d \in Channels
    BY <1>2 DEF Pointers
  <2> HIDE DEF d
  <2>2. d \in Within(p, d) /\ Within(p, d) \subseteq Channels /\ Closed(p, Within(p, d))
    BY <2>1, WithinIs
  <2>3. S \in SUBSET Channels /\ c \in S /\ Closed(p, S)
    BY <2>2 DEF Closed, d
  <2>4. Within(p, c) \subseteq S
    <3> HIDE DEF S
    <3> QED  BY <2>3, WithinIs
  <2>5. c \in Within(p, c) /\ d \in Within(p, c)
    <3>1. c \in Within(p, c) /\ Closed(p, Within(p, c))
      BY WithinIs
    <3> QED  BY <1>2, <3>1 DEF Closed, d
  <2>6. Within(p, d) \subseteq Within(p, c)
    BY <2>5, WithinOf
  <2> QED  BY <1>2, <2>4, <2>5, <2>6 DEF d
<1> QED  BY <1>1, <1>2

LEMMA WithinLower ==
  ASSUME NEW p \in Pointers, NEW v, Leveled(p, v), NEW c \in Channels, NEW x \in Within(p, c)
  PROVE  x = c \/ v[x] < v[c]
<1> DEFINE S == {y \in Channels : y = c \/ v[y] < v[c]}
<1>1. ASSUME NEW y \in S, p[y] # NULL PROVE p[y] \in S
  <2>1. p[y] \in Channels /\ v[p[y]] < v[y]
    BY <1>1 DEF Pointers, Leveled
  <2>2. v[p[y]] \in Nat /\ v[y] \in Nat /\ v[c] \in Nat
    BY <2>1 DEF Leveled
  <2>3. v[y] <= v[c]
    BY <2>2
  <2>4. v[p[y]] < v[c]
    BY <2>1, <2>2, <2>3
  <2> QED  BY <2>1, <2>4
<1>2. S \in SUBSET Channels /\ c \in S /\ Closed(p, S)
  BY <1>1 DEF Closed
<1>3. x \in S
  <2> HIDE DEF S
  <2> QED  BY <1>2, WithinIs
<1> QED  BY <1>3

(* One is passed on the way to another. *)
LEMMA WithinBefore ==
  ASSUME NEW p \in Pointers, NEW c \in Channels, NEW x \in Within(p, c), x # c
  PROVE  \E y \in Within(p, c) : p[y] = x
<1> SUFFICES ASSUME \A y \in Within(p, c) : p[y] # x PROVE FALSE
  OBVIOUS
<1> DEFINE S == Within(p, c) \ {x}
<1>1. c \in Within(p, c) /\ Within(p, c) \subseteq Channels /\ Closed(p, Within(p, c))
  BY WithinIs
<1>2. S \in SUBSET Channels /\ c \in S /\ Closed(p, S)
  BY <1>1 DEF Closed
<1>3. x \in S
  <2> HIDE DEF S
  <2> QED  BY <1>2, WithinIs
<1> QED  BY <1>3

(* Of two that are passed, one comes after the other. *)
LEMMA WithinLine ==
  ASSUME NEW p \in Pointers, NEW c \in Channels, NEW y \in Within(p, c), NEW z \in Within(p, c)
  PROVE  y \in Within(p, z) \/ z \in Within(p, y)
<1> DEFINE S == {x \in Channels : x \in Within(p, z) \/ z \in Within(p, x)}
<1>0. z \in Channels
  BY WithinIs
<1>1. ASSUME NEW x \in S, p[x] # NULL PROVE p[x] \in S
  <2>1. p[x] \in Channels /\ x \in Channels
    BY <1>1 DEF Pointers
  <2>2. CASE x \in Within(p, z)
    <3>1. p[x] \in Within(p, z)
      BY <1>0, <1>1, <2>2, WithinIs DEF Closed
    <3> QED  BY <2>1, <3>1
  <2>3. CASE z \in Within(p, x) /\ z # x
    <3>1. Within(p, x) = {x} \cup Within(p, p[x])
      BY <1>1, <2>1, WithinStep
    <3> QED  BY <2>1, <2>3, <3>1
  <2>4. CASE z = x
    BY <1>0, <2>2, <2>4, WithinIs
  <2> QED  BY <2>2, <2>3, <2>4
<1>2. S \in SUBSET Channels /\ c \in S /\ Closed(p, S)
  BY <1>1 DEF Closed
<1>3. y \in S
  <2> HIDE DEF S
  <2> QED  BY <1>2, WithinIs
<1> QED  BY <1>3

LEMMA WithinOne ==
  ASSUME NEW p \in Pointers, NEW v, Leveled(p, v), NEW c \in Channels,
         NEW y \in Within(p, c), NEW z \in Within(p, c), p[y] = p[z]
  PROVE  y = z
<1>1. y \in Channels /\ z \in Channels
  BY WithinIs
<1>2. ASSUME NEW i \in Channels, NEW j \in Channels, i \in Within(p, j), i # j, p[i] = p[j]
      PROVE  FALSE
  <2>1. p[j] # NULL /\ i \in Within(p, p[j])
    BY <1>2, WithinStep
  <2>2. p[j] \in Channels /\ (i = p[j] \/ v[i] < v[p[j]])
    BY <2>1, WithinLower DEF Pointers
  <2>3. v[p[i]] < v[i]
    BY <1>2, <2>1 DEF Leveled
  <2>4. v[i] \in Nat /\ v[p[j]] \in Nat
    BY <2>2 DEF Leveled
  <2> QED  BY <1>2, <2>2, <2>3, <2>4
<1> QED  BY <1>1, <1>2, WithinLine

(* A channel that gets an inner one changes nothing for those that do not  *)
(* pass through it.                                                        *)
LEMMA WithinKept ==
  ASSUME NEW p \in Pointers, NEW r \in Pointers, NEW c \in Channels,
         \A y \in Channels : y # c => r[y] = p[y],
         NEW x \in Channels, c \notin Within(p, x)
  PROVE  Within(r, x) = Within(p, x)
<1> DEFINE W == Within(p, x)
<1>1. x \in W /\ W \in SUBSET Channels /\ Closed(p, W)
  BY WithinIs
<1>2. Closed(r, W)
  BY <1>1 DEF Closed
<1>3. Within(r, x) \subseteq W
  <2> HIDE DEF W
  <2> QED  BY <1>1, <1>2, WithinIs
<1> DEFINE S == W \cap Within(r, x)
<1>4. x \in Within(r, x) /\ Closed(r, Within(r, x))
  BY WithinIs
<1>5. S \in SUBSET Channels /\ x \in S /\ Closed(p, S)
  BY <1>1, <1>4 DEF Closed
<1>6. W \subseteq S
  <2> HIDE DEF S
  <2> QED  BY <1>5, WithinIs
<1> QED  BY <1>3, <1>6

LEMMA LeastNat ==
  ASSUME NEW H \in SUBSET Nat, H # {}
  PROVE  \E n \in H : \A k \in H : n <= k
<1>1. PICK n \in H : \A k \in H : ~ (<<k, n>> \in OpToRel(<, Nat))
  BY NatLessThanWellFounded, WFMin
<1>2. ASSUME NEW k \in H PROVE n <= k
  <2>1. ~(k < n)
    BY <1>1 DEF OpToRel
  <2> QED  BY <2>1
<1> QED  BY <1>2

LEMMA InwardsIs ==
  ASSUME inner \in Pointers, NEW v, Leveled(inner, v)
  PROVE  \A c \in Channels : Inwards[c] = Within(inner, c)
<1> DEFINE Unfolds(g) == g = [c \in Channels |-> IF inner[c] = NULL THEN {c} ELSE {c} \cup g[inner[c]]]
           G == [c \in Channels |-> Within(inner, c)]
<1>1. Unfolds(G)
  <2>1. ASSUME NEW c \in Channels
        PROVE  G[c] = IF inner[c] = NULL THEN {c} ELSE {c} \cup G[inner[c]]
    BY WithinStep DEF Pointers
  <2>2. G = [c \in Channels |-> G[c]]
    OBVIOUS
  <2> HIDE DEF G
  <2> QED  BY <2>1, <2>2
<1>2. Inwards = CHOOSE g : Unfolds(g)
  BY DEF Inwards
<1> HIDE DEF Unfolds, G
<1>3. Unfolds(Inwards)
  BY <1>1, <1>2
<1>4. \A c \in Channels : Inwards[c] = IF inner[c] = NULL THEN {c} ELSE {c} \cup Inwards[inner[c]]
  BY <1>3 DEF Unfolds
<1> DEFINE Bad == {c \in Channels : Inwards[c] # Within(inner, c)}
           Heights == {v[c] : c \in Bad}
<1> SUFFICES ASSUME Bad # {} PROVE FALSE
  OBVIOUS
<1>5. Heights \in SUBSET Nat /\ Heights # {}
  BY DEF Leveled
<1>6. PICK least \in Heights : \A k \in Heights : least <= k
  <2> HIDE DEF Heights
  <2> QED  BY <1>5, LeastNat
<1>7. PICK c \in Bad : v[c] = least
  OBVIOUS
<1>8. Inwards[c] # Within(inner, c)
  OBVIOUS
<1>9. inner[c] # NULL
  BY <1>4, <1>8, WithinStep
<1>10. inner[c] \in Channels /\ v[inner[c]] < v[c] /\ v[inner[c]] \in Nat /\ v[c] \in Nat
  BY <1>9 DEF Pointers, Leveled
<1>11. inner[c] \notin Bad
  BY <1>6, <1>7, <1>10
<1>12. Inwards[inner[c]] = Within(inner, inner[c])
  BY <1>10, <1>11
<1>13. c \in Channels /\ Within(inner, c) = {c} \cup Within(inner, inner[c])
  BY <1>9, WithinStep
<1>14. Inwards[c] = {c} \cup Inwards[inner[c]]
  BY <1>4, <1>9, <1>13
<1> QED  BY <1>8, <1>12, <1>13, <1>14

(* Sequences of handlers, in which each is connected once. *)
Members(q) == {q[k] : k \in 1 .. Len(q)}

NoTwice(q) == \A j, k \in 1 .. Len(q) : q[j] = q[k] => j = k

(* Whom an emission of channel c still reaches, by its own handlers or by  *)
(* those of channels stacked on it.                                        *)
WaitsFor(p, x, c, todo) ==
  \/ c = x /\ Client \in Members(todo)
  \/ \E y \in Members(todo) : y \in Within(p, x)

Waits(p, x, f) == f.op = "emit" /\ WaitsFor(p, x, f.channel, f.todo)

(* Channels whose client is told of the socket. *)
Hears(p, q, x) == Bottom \in Within(p, x) /\ Client \in Members(q[x])

LEMMA MembersOf ==
  ASSUME NEW S, NEW q \in Seq(S), q # <<>>
  PROVE  /\ Members(q) = {Head(q)} \cup Members(Tail(q)) /\ Tail(q) \in Seq(S) /\ Head(q) \in S
         /\ NoTwice(q) => NoTwice(Tail(q)) /\ Head(q) \notin Members(Tail(q))
<1>1. /\ Len(q) \in Nat \ {0} /\ Tail(q) \in Seq(S) /\ Head(q) = q[1] /\ Head(q) \in S
      /\ Len(Tail(q)) = Len(q) - 1 /\ 1 \in 1 .. Len(q)
  OBVIOUS
<1>2. \A k \in 1 .. Len(Tail(q)) : k + 1 \in 1 .. Len(q) /\ Tail(q)[k] = q[k + 1] /\ k + 1 # 1
  BY <1>1
<1>3. \A k \in 1 .. Len(q) : k = 1 \/ (k - 1 \in 1 .. Len(Tail(q)) /\ Tail(q)[k - 1] = q[k])
  <2> TAKE k \in 1 .. Len(q)
  <2>1. CASE k # 1
    <3>1. k - 1 \in 1 .. Len(Tail(q)) /\ (k - 1) + 1 = k
      BY <1>1, <2>1
    <3> QED  BY <1>2, <3>1
  <2> QED  BY <2>1
<1>4. Members(q) = {Head(q)} \cup Members(Tail(q))
  <2>1. \A x \in Members(q) : x \in {Head(q)} \cup Members(Tail(q))
    BY <1>1, <1>3 DEF Members
  <2>2. \A x \in Members(Tail(q)) : x \in Members(q)
    BY <1>2 DEF Members
  <2>3. Head(q) \in Members(q)
    BY <1>1 DEF Members
  <2> QED  BY <2>1, <2>2, <2>3
<1>5. ASSUME NoTwice(q) PROVE NoTwice(Tail(q)) /\ Head(q) \notin Members(Tail(q))
  <2>1. Head(q) \notin Members(Tail(q))
    BY <1>1, <1>2, <1>5 DEF NoTwice, Members
  <2>2. ASSUME NEW j \in 1 .. Len(Tail(q)), NEW k \in 1 .. Len(Tail(q)), Tail(q)[j] = Tail(q)[k]
        PROVE  j = k
    <3>1. q[j + 1] = q[k + 1] /\ j + 1 \in 1 .. Len(q) /\ k + 1 \in 1 .. Len(q)
      BY <1>2, <2>2
    <3>2. j + 1 = k + 1
      BY <1>5, <3>1 DEF NoTwice
    <3> QED  BY <3>2
  <2> QED  BY <2>1, <2>2 DEF NoTwice
<1> QED  BY <1>1, <1>4, <1>5

LEMMA MembersJoined ==
  ASSUME NEW S, NEW q \in Seq(S), NEW x \in S
  PROVE  /\ Members(Append(q, x)) = Members(q) \cup {x}
         /\ NoTwice(q) /\ x \notin Members(q) => NoTwice(Append(q, x))
<1> DEFINE now == Append(q, x)
<1>1. /\ Len(now) = Len(q) + 1 /\ Len(q) \in Nat /\ now[Len(q) + 1] = x
      /\ \A k \in 1 .. Len(q) : now[k] = q[k]
  OBVIOUS
<1> HIDE DEF now
<1>2. /\ \A k \in 1 .. Len(now) : k = Len(q) + 1 \/ k \in 1 .. Len(q)
      /\ Len(q) + 1 \in 1 .. Len(now) /\ \A k \in 1 .. Len(q) : k \in 1 .. Len(now)
  BY <1>1
<1>3. Members(now) = Members(q) \cup {x}
  <2>1. \A y \in Members(now) : y \in Members(q) \cup {x}
    BY <1>1, <1>2 DEF Members
  <2>2. \A y \in Members(q) : y \in Members(now)
    BY <1>1, <1>2 DEF Members
  <2>3. x \in Members(now)
    BY <1>1, <1>2 DEF Members
  <2> QED  BY <2>1, <2>2, <2>3
<1>4. ASSUME NoTwice(q), x \notin Members(q) PROVE NoTwice(now)
  <2>1. \A k \in 1 .. Len(q) : q[k] # x
    BY <1>4 DEF Members
  <2> QED  BY <1>1, <1>2, <1>4, <2>1 DEF NoTwice
<1> QED  BY <1>3, <1>4 DEF now

(* How handlers and pointers belong together, when no inner channel is     *)
(* replaced.                                                               *)
Wiring(p, q) ==
  /\ p \in Pointers /\ q \in [Channels -> Seq(Channels \cup {Client})]
  /\ \E v : Leveled(p, v)
  /\ \A c \in Channels : p[c] # NULL => c \in Members(q[p[c]])
  /\ \A c \in Channels : Wired(p, c, q[c])

(* A channel that emits to all its handlers reaches who stands on it.      *)
LEMMA WaitsForAll ==
  ASSUME NEW p, NEW q, Wiring(p, q), NEW x \in Channels, Hears(p, q, x), NEW c \in Channels
  PROVE  WaitsFor(p, x, c, q[c]) <=> c \in Within(p, x)
<1>0. p \in Pointers /\ NULL \notin Channels
  BY NamesAssumption DEF Wiring
<1>1. ASSUME c \in Within(p, x), c # x PROVE \E y \in Members(q[c]) : y \in Within(p, x)
  <2>1. PICK y \in Within(p, x) : p[y] = c
    BY <1>0, <1>1, WithinBefore
  <2>2. y \in Channels
    BY <1>0, WithinIs
  <2>3. y \in Members(q[p[y]])
    BY <1>0, <2>1, <2>2 DEF Wiring
  <2> QED  BY <2>1, <2>3
<1>2. ASSUME NEW y \in Members(q[c]), y \in Within(p, x) PROVE c \in Within(p, x)
  <2>1. y \in Channels /\ Closed(p, Within(p, x))
    BY <1>0, <1>2, WithinIs
  <2>2. p[y] = c
    BY <1>2, <2>1 DEF Wiring, Wired, Members
  <2>3. p[y] # NULL
    BY <1>0, <2>2
  <2> QED  BY <1>2, <2>1, <2>2, <2>3 DEF Closed
<1>3. x \in Within(p, x)
  BY <1>0, WithinIs
<1> QED  BY <1>1, <1>2, <1>3 DEF WaitsFor, Hears

(* The client's handlers come next: it is the channel's own turn, and only *)
(* its.                                                                    *)
LEMMA ClientNext ==
  ASSUME NEW p, NEW q, Wiring(p, q), NEW c \in Channels,
         NEW todo \in Seq(Channels \cup {Client}), todo # <<>>, NoTwice(todo), Wired(p, c, todo),
         Head(todo) = Client, NEW x \in Channels
  PROVE  /\ WaitsFor(p, x, c, todo) <=> x = c \/ WaitsFor(p, x, c, Tail(todo))
         /\ ~WaitsFor(p, c, c, Tail(todo))
<1>0. p \in Pointers /\ NULL \notin Channels /\ Client \notin Channels
  BY NamesAssumption DEF Wiring
<1>1. /\ Members(todo) = {Client} \cup Members(Tail(todo))
      /\ Client \notin Members(Tail(todo))
  BY MembersOf
<1>2. Client \notin Within(p, x)
  BY <1>0, WithinIs
<1>3. ASSUME NEW y \in Members(todo), y \in Within(p, c) PROVE FALSE
  <2>1. y \in Channels
    BY <1>0, <1>3, WithinIs
  <2>2. p[y] = c
    BY <2>1 DEF Wired, Members
  <2>3. PICK v : Leveled(p, v)
    BY DEF Wiring
  <2>4. v[c] < v[y] /\ v[y] \in Nat /\ v[c] \in Nat
    BY <1>0, <2>1, <2>2, <2>3 DEF Leveled
  <2>5. y = c \/ v[y] < v[c]
    BY <1>0, <1>3, <2>3, WithinLower
  <2> QED  BY <2>4, <2>5
<1>4. ~WaitsFor(p, c, c, Tail(todo))
  BY <1>1, <1>3 DEF WaitsFor
<1>5. WaitsFor(p, x, c, todo) <=> x = c \/ WaitsFor(p, x, c, Tail(todo))
  BY <1>1, <1>2 DEF WaitsFor
<1> QED  BY <1>4, <1>5

(* An outer channel comes next: who stands on it is reached by it, and by  *)
(* none of those that come after it.                                       *)
LEMMA OuterNext ==
  ASSUME NEW p, NEW q, Wiring(p, q), NEW c \in Channels,
         NEW todo \in Seq(Channels \cup {Client}), todo # <<>>, NoTwice(todo), Wired(p, c, todo),
         Head(todo) \in Channels, NEW x \in Channels, Hears(p, q, x)
  PROVE  /\ WaitsFor(p, x, c, todo)
              <=> WaitsFor(p, x, Head(todo), q[Head(todo)]) \/ WaitsFor(p, x, c, Tail(todo))
         /\ ~(WaitsFor(p, x, Head(todo), q[Head(todo)]) /\ WaitsFor(p, x, c, Tail(todo)))
<1> DEFINE o == Head(todo)
<1>0. p \in Pointers /\ NULL \notin Channels /\ Client \notin Channels
  BY NamesAssumption DEF Wiring
<1>1. /\ Members(todo) = {o} \cup Members(Tail(todo)) /\ o \notin Members(Tail(todo))
      /\ o \in Channels
  BY MembersOf
<1> HIDE DEF o
<1>2. WaitsFor(p, x, o, q[o]) <=> o \in Within(p, x)
  BY <1>1, WaitsForAll
<1>3. WaitsFor(p, x, c, todo) <=> o \in Within(p, x) \/ WaitsFor(p, x, c, Tail(todo))
  <2>1. o # Client
    BY <1>0, <1>1
  <2> QED  BY <1>1, <2>1 DEF WaitsFor
<1>4. \A y \in Members(todo) : y \in Channels => p[y] = c
  BY DEF Wired, Members
<1>5. ASSUME o \in Within(p, x), NEW y \in Members(Tail(todo)), y \in Within(p, x)
      PROVE  FALSE
  <2>1. y \in Channels
    BY <1>0, <1>5, WithinIs
  <2>2. p[y] = p[o]
    BY <1>1, <1>4, <1>5, <2>1
  <2>3. y = o
    <3>1. PICK v : Leveled(p, v)
      BY DEF Wiring
    <3> QED  BY <1>0, <1>5, <2>2, <3>1, WithinOne
  <2> QED  BY <1>1, <1>5, <2>3
<1>6. ASSUME o \in Within(p, x), c = x PROVE FALSE
  <2>1. PICK v : Leveled(p, v)
    BY DEF Wiring
  <2>2. p[o] = c
    BY <1>1, <1>4
  <2>3. v[c] < v[o] /\ v[o] \in Nat /\ v[c] \in Nat
    BY <1>0, <1>1, <2>1, <2>2 DEF Leveled
  <2>4. o = x \/ v[o] < v[x]
    BY <1>0, <1>6, <2>1, WithinLower
  <2> QED  BY <1>6, <2>3, <2>4
<1>7. ~(o \in Within(p, x) /\ WaitsFor(p, x, c, Tail(todo)))
  BY <1>5, <1>6 DEF WaitsFor
<1> QED  BY <1>2, <1>3, <1>7 DEF o

(* Among the calls under way, who waits; and that at most one does. *)
SomeWait(p, x, s) == \E k \in 1 .. Len(s) : Waits(p, x, s[k])

Once(p, x, s) == \A j, k \in 1 .. Len(s) : Waits(p, x, s[j]) /\ Waits(p, x, s[k]) => j = k

(* Among those is the news that it is open, or closed. *)
Due(p, x, s) == \E k \in 1 .. Len(s) : Waits(p, x, s[k]) /\ s[k].sig \in {"opened", "closed"}

(* The news is what is so. *)
SaysSo(p, x, s, up) == \A k \in 1 .. Len(s) : Waits(p, x, s[k]) => (s[k].sig = "closed" <=> ~up)

(* A handler that runs was the last of its channel to be called. *)
HadTurn(p, x, s) ==
  \A j, k \in 1 .. Len(s) :
    j < k /\ s[j].op = "handler" /\ s[j].channel = x => ~Waits(p, x, s[k])

(* Of a stack: frames that it has not. *)
NoReset(s) == \A k \in 1 .. Len(s) : s[k] # Reset

Connecting == {<<Open>>, <<Handler(Bottom, "connect_result"), Open>>}

Opens(f) == f.op = "open" \/ (f.op = "handler" /\ f.sig = "connect_result")

NoneOpens(s) == \A k \in 1 .. Len(s) : ~Opens(s[k])

(* An emission goes to handlers of its channel, which stands on the        *)
(* socket; a handler that runs is one of a channel that does.              *)
FrameOK(p, q, f) ==
  /\ f.op = "emit" => /\ Bottom \in Within(p, f.channel) /\ NoTwice(f.todo)
                      /\ Members(f.todo) \subseteq Members(q[f.channel])
  /\ f.op = "handler" /\ f.sig # "connect_result" => Hears(p, q, f.channel)

FramesOK(p, q, s) == \A k \in 1 .. Len(s) : FrameOK(p, q, s[k])

LEMMA Over ==
  ASSUME NEW s \in Seq(Frames), NEW f \in Frames
  PROVE  LET now == <<f>> \o s IN
         /\ now \in Seq(Frames) /\ Len(now) = Len(s) + 1 /\ Len(s) \in Nat /\ now[1] = f
         /\ \A k \in 1 .. Len(now) : k = 1 \/ (k - 1 \in 1 .. Len(s) /\ now[k] = s[k - 1])
         /\ \A k \in 1 .. Len(s) : k + 1 \in 1 .. Len(now) /\ now[k + 1] = s[k] /\ k + 1 # 1
         /\ 1 \in 1 .. Len(now)
  OBVIOUS

LEMMA OverWaits ==
  ASSUME NEW s \in Seq(Frames), NEW f \in Frames, NEW p, NEW x
  PROVE  /\ SomeWait(p, x, <<f>> \o s) <=> Waits(p, x, f) \/ SomeWait(p, x, s)
         /\ Due(p, x, <<f>> \o s)
              <=> (Waits(p, x, f) /\ f.sig \in {"opened", "closed"}) \/ Due(p, x, s)
         /\ \A up : SaysSo(p, x, <<f>> \o s, up)
              <=> (Waits(p, x, f) => (f.sig = "closed" <=> ~up)) /\ SaysSo(p, x, s, up)
<1> DEFINE now == <<f>> \o s
<1>1. /\ now[1] = f /\ 1 \in 1 .. Len(now)
      /\ \A k \in 1 .. Len(now) : k = 1 \/ (k - 1 \in 1 .. Len(s) /\ now[k] = s[k - 1])
      /\ \A k \in 1 .. Len(s) : k + 1 \in 1 .. Len(now) /\ now[k + 1] = s[k]
  BY Over
<1> HIDE DEF now
<1>2. SomeWait(p, x, now) <=> Waits(p, x, f) \/ SomeWait(p, x, s)
  BY <1>1 DEF SomeWait
<1>3. Due(p, x, now) <=> (Waits(p, x, f) /\ f.sig \in {"opened", "closed"}) \/ Due(p, x, s)
  BY <1>1 DEF Due
<1>4. ASSUME NEW up
      PROVE  SaysSo(p, x, now, up)
               <=> (Waits(p, x, f) => (f.sig = "closed" <=> ~up)) /\ SaysSo(p, x, s, up)
  <2> DEFINE Says(g) == Waits(p, x, g) => (g.sig = "closed" <=> ~up)
  <2>1. /\ SaysSo(p, x, now, up) <=> \A k \in 1 .. Len(now) : Says(now[k])
        /\ SaysSo(p, x, s, up) <=> \A k \in 1 .. Len(s) : Says(s[k])
    BY DEF SaysSo
  <2> HIDE DEF Says
  <2>2. (\A k \in 1 .. Len(now) : Says(now[k])) <=> Says(f) /\ \A k \in 1 .. Len(s) : Says(s[k])
    BY <1>1
  <2>3. SaysSo(p, x, now, up) <=> Says(f) /\ SaysSo(p, x, s, up)
    BY <2>1, <2>2
  <2> QED  BY <2>3 DEF Says
<1> QED  BY <1>2, <1>3, <1>4 DEF now

LEMMA OverOnce ==
  ASSUME NEW s \in Seq(Frames), NEW f \in Frames, NEW p, NEW x
  PROVE  Once(p, x, <<f>> \o s) <=> Once(p, x, s) /\ ~(Waits(p, x, f) /\ SomeWait(p, x, s))
<1> DEFINE now == <<f>> \o s
<1>1. /\ now[1] = f /\ 1 \in 1 .. Len(now)
      /\ \A k \in 1 .. Len(now) : k = 1 \/ (k - 1 \in 1 .. Len(s) /\ now[k] = s[k - 1])
      /\ \A k \in 1 .. Len(s) : k + 1 \in 1 .. Len(now) /\ now[k + 1] = s[k] /\ k + 1 # 1
  BY Over
<1> HIDE DEF now
<1>2. ASSUME Once(p, x, now) PROVE Once(p, x, s) /\ ~(Waits(p, x, f) /\ SomeWait(p, x, s))
  <2>1. ASSUME NEW j \in 1 .. Len(s), NEW k \in 1 .. Len(s), Waits(p, x, s[j]), Waits(p, x, s[k])
        PROVE  j = k
    <3>1. /\ j + 1 \in 1 .. Len(now) /\ k + 1 \in 1 .. Len(now)
          /\ Waits(p, x, now[j + 1]) /\ Waits(p, x, now[k + 1])
      BY <1>1, <2>1
    <3>2. j + 1 = k + 1
      BY <1>2, <3>1 DEF Once
    <3> QED  BY <3>2
  <2>2. ASSUME Waits(p, x, f), NEW k \in 1 .. Len(s), Waits(p, x, s[k]) PROVE FALSE
    <3>1. k + 1 \in 1 .. Len(now) /\ Waits(p, x, now[k + 1]) /\ k + 1 # 1
      BY <1>1, <2>2
    <3> QED  BY <1>1, <1>2, <2>2, <3>1 DEF Once
  <2> QED  BY <2>1, <2>2 DEF Once, SomeWait
<1>3. ASSUME Once(p, x, s), ~(Waits(p, x, f) /\ SomeWait(p, x, s)) PROVE Once(p, x, now)
  <2> SUFFICES ASSUME NEW j \in 1 .. Len(now), NEW k \in 1 .. Len(now),
                      Waits(p, x, now[j]), Waits(p, x, now[k])
               PROVE  j = k
    BY DEF Once
  <2>1. CASE j = 1 \/ k = 1
    <3>1. Waits(p, x, f)
      BY <1>1, <2>1
    <3>2. \A i \in 1 .. Len(s) : ~Waits(p, x, s[i])
      BY <1>3, <3>1 DEF SomeWait
    <3> QED  BY <1>1, <2>1, <3>2
  <2>2. CASE j # 1 /\ k # 1
    <3>1. /\ j - 1 \in 1 .. Len(s) /\ k - 1 \in 1 .. Len(s)
          /\ Waits(p, x, s[j - 1]) /\ Waits(p, x, s[k - 1])
      BY <1>1, <2>2
    <3>2. j - 1 = k - 1
      BY <1>3, <3>1 DEF Once
    <3> QED  BY <3>2
  <2> QED  BY <2>1, <2>2
<1> QED  BY <1>2, <1>3 DEF now

LEMMA OverTurn ==
  ASSUME NEW s \in Seq(Frames), NEW f \in Frames, NEW p, NEW x
  PROVE  HadTurn(p, x, <<f>> \o s)
           <=> HadTurn(p, x, s) /\ (f.op = "handler" /\ f.channel = x => ~SomeWait(p, x, s))
<1> DEFINE now == <<f>> \o s
<1>1. /\ now[1] = f /\ 1 \in 1 .. Len(now)
      /\ \A k \in 1 .. Len(now) : k = 1 \/ (k - 1 \in 1 .. Len(s) /\ now[k] = s[k - 1])
      /\ \A k \in 1 .. Len(s) : k + 1 \in 1 .. Len(now) /\ now[k + 1] = s[k] /\ k + 1 # 1
  BY Over
<1> HIDE DEF now
<1>2. ASSUME HadTurn(p, x, now)
      PROVE  HadTurn(p, x, s) /\ (f.op = "handler" /\ f.channel = x => ~SomeWait(p, x, s))
  <2>1. ASSUME NEW j \in 1 .. Len(s), NEW k \in 1 .. Len(s), j < k,
               s[j].op = "handler", s[j].channel = x
        PROVE  ~Waits(p, x, s[k])
    <3>1. /\ j + 1 \in 1 .. Len(now) /\ k + 1 \in 1 .. Len(now) /\ j + 1 < k + 1
          /\ now[j + 1] = s[j] /\ now[k + 1] = s[k]
      BY <1>1, <2>1
    <3> QED  BY <1>2, <2>1, <3>1 DEF HadTurn
  <2>2. ASSUME f.op = "handler", f.channel = x, NEW k \in 1 .. Len(s) PROVE ~Waits(p, x, s[k])
    <3>1. k + 1 \in 1 .. Len(now) /\ now[k + 1] = s[k] /\ 1 < k + 1
      BY <1>1
    <3> QED  BY <1>1, <1>2, <2>2, <3>1 DEF HadTurn
  <2> QED  BY <2>1, <2>2 DEF HadTurn, SomeWait
<1>3. ASSUME HadTurn(p, x, s), f.op = "handler" /\ f.channel = x => ~SomeWait(p, x, s)
      PROVE  HadTurn(p, x, now)
  <2> SUFFICES ASSUME NEW j \in 1 .. Len(now), NEW k \in 1 .. Len(now), j < k,
                      now[j].op = "handler", now[j].channel = x
               PROVE  ~Waits(p, x, now[k])
    BY DEF HadTurn
  <2>1. k # 1 /\ k - 1 \in 1 .. Len(s) /\ now[k] = s[k - 1]
    BY <1>1
  <2>2. CASE j = 1
    BY <1>1, <1>3, <2>1, <2>2 DEF SomeWait
  <2>3. CASE j # 1
    <3>1. j - 1 \in 1 .. Len(s) /\ now[j] = s[j - 1] /\ j - 1 < k - 1
      BY <1>1, <2>3
    <3> QED  BY <1>3, <2>1, <3>1 DEF HadTurn
  <2> QED  BY <2>2, <2>3
<1> QED  BY <1>2, <1>3 DEF now

LEMMA OverFrames ==
  ASSUME NEW s \in Seq(Frames), NEW f \in Frames
  PROVE  /\ \A p, q : FramesOK(p, q, <<f>> \o s) <=> FrameOK(p, q, f) /\ FramesOK(p, q, s)
         /\ NoReset(<<f>> \o s) <=> f # Reset /\ NoReset(s)
         /\ NoneOpens(<<f>> \o s) <=> ~Opens(f) /\ NoneOpens(s)
<1> DEFINE now == <<f>> \o s
<1>1. /\ now[1] = f /\ 1 \in 1 .. Len(now)
      /\ \A k \in 1 .. Len(now) : k = 1 \/ (k - 1 \in 1 .. Len(s) /\ now[k] = s[k - 1])
      /\ \A k \in 1 .. Len(s) : k + 1 \in 1 .. Len(now) /\ now[k + 1] = s[k]
  BY Over
<1> HIDE DEF now
<1>2. ASSUME NEW p, NEW q PROVE FramesOK(p, q, now) <=> FrameOK(p, q, f) /\ FramesOK(p, q, s)
  BY <1>1 DEF FramesOK
<1>3. NoReset(now) <=> f # Reset /\ NoReset(s)
  <2>1. ASSUME NoReset(now) PROVE f # Reset /\ NoReset(s)
    BY <1>1, <2>1 DEF NoReset
  <2>2. ASSUME f # Reset, NoReset(s) PROVE NoReset(now)
    BY <1>1, <2>2 DEF NoReset
  <2> QED  BY <2>1, <2>2
<1>4. NoneOpens(now) <=> ~Opens(f) /\ NoneOpens(s)
  BY <1>1 DEF NoneOpens
<1> QED  BY <1>2, <1>3, <1>4 DEF now

(* What holds of each channel that hears of the socket: it is told at most *)
(* once more by the calls that are under way, what is so, and it was told  *)
(* before what is so but for that.                                         *)
ChannelOK(p, x, s, up, told) ==
  /\ Once(p, x, s) /\ SaysSo(p, x, s, up) /\ HadTurn(p, x, s)
  /\ Due(p, x, s) <=> (told = "open" <=> ~up)

(* A frame more that keeps nobody waiting. *)
LEMMA OverQuiet ==
  ASSUME NEW s \in Seq(Frames), NEW f \in Frames, NEW p, NEW x, ~Waits(p, x, f),
         NEW up, NEW told
  PROVE  /\ SomeWait(p, x, <<f>> \o s) <=> SomeWait(p, x, s)
         /\ Due(p, x, <<f>> \o s) <=> Due(p, x, s)
         /\ ChannelOK(p, x, <<f>> \o s, up, told)
              <=> /\ ChannelOK(p, x, s, up, told)
                  /\ f.op = "handler" /\ f.channel = x => ~SomeWait(p, x, s)
<1>1. /\ SomeWait(p, x, <<f>> \o s) <=> SomeWait(p, x, s)
      /\ Due(p, x, <<f>> \o s) <=> Due(p, x, s)
      /\ SaysSo(p, x, <<f>> \o s, up) <=> SaysSo(p, x, s, up)
  BY OverWaits
<1>2. Once(p, x, <<f>> \o s) <=> Once(p, x, s)
  BY OverOnce
<1>3. HadTurn(p, x, <<f>> \o s)
        <=> HadTurn(p, x, s) /\ (f.op = "handler" /\ f.channel = x => ~SomeWait(p, x, s))
  BY OverTurn
<1> QED  BY <1>1, <1>2, <1>3 DEF ChannelOK

(* Nobody waits: what was told is so. *)
LEMMA Silent ==
  ASSUME NEW p, NEW x, NEW s, ~SomeWait(p, x, s), NEW up, NEW told
  PROVE  ChannelOK(p, x, s, up, told) <=> (told = "open" <=> up)
<1>1. \A k \in 1 .. Len(s) : ~Waits(p, x, s[k])
  BY DEF SomeWait
<1>2. Once(p, x, s) /\ SaysSo(p, x, s, up) /\ HadTurn(p, x, s) /\ ~Due(p, x, s)
  BY <1>1 DEF Once, SaysSo, HadTurn, Due
<1> QED  BY <1>2 DEF ChannelOK

(* The same wait, in a frame with other handlers to call. *)
LEMMA OverSame ==
  ASSUME NEW s \in Seq(Frames), NEW f \in Frames, NEW g \in Frames, NEW p, NEW x,
         Waits(p, x, f) <=> Waits(p, x, g), f.sig = g.sig, f.op = "emit", g.op = "emit",
         NEW up, NEW told
  PROVE  ChannelOK(p, x, <<f>> \o s, up, told) => ChannelOK(p, x, <<g>> \o s, up, told)
<1>1. /\ Due(p, x, <<f>> \o s) <=> Due(p, x, <<g>> \o s)
      /\ SaysSo(p, x, <<f>> \o s, up) <=> SaysSo(p, x, <<g>> \o s, up)
  <2>1. /\ Due(p, x, <<f>> \o s)
              <=> (Waits(p, x, f) /\ f.sig \in {"opened", "closed"}) \/ Due(p, x, s)
        /\ SaysSo(p, x, <<f>> \o s, up)
              <=> (Waits(p, x, f) => (f.sig = "closed" <=> ~up)) /\ SaysSo(p, x, s, up)
    BY OverWaits
  <2>2. /\ Due(p, x, <<g>> \o s)
              <=> (Waits(p, x, g) /\ g.sig \in {"opened", "closed"}) \/ Due(p, x, s)
        /\ SaysSo(p, x, <<g>> \o s, up)
              <=> (Waits(p, x, g) => (g.sig = "closed" <=> ~up)) /\ SaysSo(p, x, s, up)
    BY OverWaits
  <2> QED  BY <2>1, <2>2
<1>2. Once(p, x, <<f>> \o s) <=> Once(p, x, <<g>> \o s)
  <2>1. Once(p, x, <<f>> \o s) <=> Once(p, x, s) /\ ~(Waits(p, x, f) /\ SomeWait(p, x, s))
    BY OverOnce
  <2>2. Once(p, x, <<g>> \o s) <=> Once(p, x, s) /\ ~(Waits(p, x, g) /\ SomeWait(p, x, s))
    BY OverOnce
  <2> QED  BY <2>1, <2>2
<1>3. HadTurn(p, x, <<f>> \o s) <=> HadTurn(p, x, <<g>> \o s)
  <2>1. HadTurn(p, x, <<f>> \o s) <=> HadTurn(p, x, s)
    BY OverTurn
  <2>2. HadTurn(p, x, <<g>> \o s) <=> HadTurn(p, x, s)
    BY OverTurn
  <2> QED  BY <2>1, <2>2
<1> QED  BY <1>1, <1>2, <1>3 DEF ChannelOK

(* The wait goes over to one of two frames. *)
LEMMA OverSplit ==
  ASSUME NEW s \in Seq(Frames), NEW e \in Frames, NEW f \in Frames, NEW g \in Frames, NEW p, NEW x,
         Waits(p, x, e) <=> Waits(p, x, f) \/ Waits(p, x, g), ~(Waits(p, x, f) /\ Waits(p, x, g)),
         f.sig = e.sig, g.sig = e.sig, e.op = "emit", f.op = "emit", g.op = "emit",
         NEW up, NEW told
  PROVE  ChannelOK(p, x, <<e>> \o s, up, told) => ChannelOK(p, x, <<f>> \o (<<g>> \o s), up, told)
<1> DEFINE mid == <<g>> \o s
<1>0. mid \in Seq(Frames)
  OBVIOUS
<1>1. CASE Waits(p, x, e) <=> Waits(p, x, g)
  <2>1. ChannelOK(p, x, <<e>> \o s, up, told) => ChannelOK(p, x, mid, up, told)
    BY <1>1, OverSame
  <2>2. ~Waits(p, x, f)
    BY <1>1
  <2> HIDE DEF mid
  <2>3. ChannelOK(p, x, <<f>> \o mid, up, told) <=> ChannelOK(p, x, mid, up, told)
    BY <1>0, <2>2, OverQuiet
  <2> QED  BY <2>1, <2>3 DEF mid
<1>2. CASE Waits(p, x, e) /\ Waits(p, x, f) /\ ~Waits(p, x, g)
  <2>1. /\ SomeWait(p, x, mid) <=> SomeWait(p, x, s)
        /\ Due(p, x, mid) <=> Due(p, x, s)
        /\ SaysSo(p, x, mid, up) <=> SaysSo(p, x, s, up)
    BY <1>2, OverWaits
  <2>2. Once(p, x, mid) <=> Once(p, x, s)
    BY <1>2, OverOnce
  <2>3. HadTurn(p, x, mid) <=> HadTurn(p, x, s)
    BY OverTurn
  <2> HIDE DEF mid
  <2>4. /\ Due(p, x, <<f>> \o mid)
              <=> (Waits(p, x, f) /\ f.sig \in {"opened", "closed"}) \/ Due(p, x, mid)
        /\ SaysSo(p, x, <<f>> \o mid, up)
              <=> (Waits(p, x, f) => (f.sig = "closed" <=> ~up)) /\ SaysSo(p, x, mid, up)
    BY <1>0, OverWaits
  <2>5. Once(p, x, <<f>> \o mid) <=> Once(p, x, mid) /\ ~(Waits(p, x, f) /\ SomeWait(p, x, mid))
    BY <1>0, OverOnce
  <2>6. HadTurn(p, x, <<f>> \o mid) <=> HadTurn(p, x, mid)
    BY <1>0, OverTurn
  <2>7. /\ Due(p, x, <<e>> \o s)
              <=> (Waits(p, x, e) /\ e.sig \in {"opened", "closed"}) \/ Due(p, x, s)
        /\ SaysSo(p, x, <<e>> \o s, up)
              <=> (Waits(p, x, e) => (e.sig = "closed" <=> ~up)) /\ SaysSo(p, x, s, up)
    BY OverWaits
  <2>8. Once(p, x, <<e>> \o s) <=> Once(p, x, s) /\ ~(Waits(p, x, e) /\ SomeWait(p, x, s))
    BY OverOnce
  <2>9. HadTurn(p, x, <<e>> \o s) <=> HadTurn(p, x, s)
    BY OverTurn
  <2>10. ChannelOK(p, x, <<e>> \o s, up, told) => ChannelOK(p, x, <<f>> \o mid, up, told)
    BY <1>2, <2>1, <2>2, <2>3, <2>4, <2>5, <2>6, <2>7, <2>8, <2>9 DEF ChannelOK
  <2> QED  BY <2>10 DEF mid
<1> QED  BY <1>1, <1>2

(* An emission that everybody who hears waits in, and in no other. *)
LEMMA OverFirst ==
  ASSUME NEW s \in Seq(Frames), NEW f \in Frames, NEW p, NEW x, Waits(p, x, f), ~SomeWait(p, x, s),
         f.op = "emit", NEW up, NEW told, f.sig = "closed" <=> ~up,
         f.sig \in {"opened", "closed"} <=> (told = "open" <=> ~up)
  PROVE  ChannelOK(p, x, <<f>> \o s, up, told)
<1>1. \A k \in 1 .. Len(s) : ~Waits(p, x, s[k])
  BY DEF SomeWait
<1>2. Once(p, x, s) /\ SaysSo(p, x, s, up) /\ HadTurn(p, x, s) /\ ~Due(p, x, s)
  BY <1>1 DEF Once, SaysSo, HadTurn, Due
<1>3. SaysSo(p, x, <<f>> \o s, up) /\ (Due(p, x, <<f>> \o s) <=> f.sig \in {"opened", "closed"})
  BY <1>2, OverWaits
<1>4. Once(p, x, <<f>> \o s)
  BY <1>2, OverOnce
<1>5. HadTurn(p, x, <<f>> \o s)
  BY <1>2, OverTurn
<1> QED  BY <1>3, <1>4, <1>5 DEF ChannelOK

(* Its turn comes: what it was told so far, and that it waits for no more. *)
LEMMA TurnComes ==
  ASSUME NEW s \in Seq(Frames), NEW e \in Frames, NEW p, NEW x, Waits(p, x, e),
         NEW up, NEW told, ChannelOK(p, x, <<e>> \o s, up, told)
  PROVE  /\ ~SomeWait(p, x, s) /\ (e.sig = "closed" <=> ~up)
         /\ e.sig \in {"opened", "closed"} <=> (told = "open" <=> ~up)
<1>1. Once(p, x, s) /\ ~SomeWait(p, x, s)
  BY OverOnce DEF ChannelOK
<1>2. e.sig = "closed" <=> ~up
  BY OverWaits DEF ChannelOK
<1>3. ~Due(p, x, s)
  BY <1>1 DEF SomeWait, Due
<1>4. Due(p, x, <<e>> \o s) <=> e.sig \in {"opened", "closed"}
  BY <1>3, OverWaits
<1> QED  BY <1>1, <1>2, <1>4 DEF ChannelOK

(* Who passes the same channels on the way in waits for the same. *)
LEMMA SameWait ==
  ASSUME NEW p, NEW r, NEW x, Within(p, x) = Within(r, x)
  PROVE  \A s, up, told : ChannelOK(p, x, s, up, told) <=> ChannelOK(r, x, s, up, told)
<1>1. \A f : Waits(p, x, f) <=> Waits(r, x, f)
  BY DEF Waits, WaitsFor
<1> SUFFICES ASSUME NEW s, NEW up, NEW told
             PROVE  ChannelOK(p, x, s, up, told) <=> ChannelOK(r, x, s, up, told)
  OBVIOUS
<1>2. Once(p, x, s) <=> Once(r, x, s)
  BY <1>1 DEF Once
<1>3. SaysSo(p, x, s, up) <=> SaysSo(r, x, s, up)
  BY <1>1 DEF SaysSo
<1>4. HadTurn(p, x, s) <=> HadTurn(r, x, s)
  BY <1>1 DEF HadTurn
<1>5. Due(p, x, s) <=> Due(r, x, s)
  BY <1>1 DEF Due
<1> QED  BY <1>2, <1>3, <1>4, <1>5 DEF ChannelOK

(* The socket is open, and is not about to be reset. *)
Up == phase = "open" /\ NoReset(stack)

(* A reset that no emission may run below is the last of the calls. *)
LastReset(s) == \A k \in 1 .. Len(s) : k < Len(s) => s[k] # Reset

(* The calls under way by phase: while it connects the client may be in    *)
(* its handler, and nothing is emitted; without closes in handlers there   *)
(* is no other frame but while it is open.                                 *)
Structure ==
  /\ phase = "connected" <=> stack \in Connecting
  /\ phase # "connected" => NoneOpens(stack)
  /\ ~user.closes_in_handlers =>
       (phase # "connected" /\ stack # <<>> => phase = "open") /\ LastReset(stack)

(* What is connected, heard and under way has to do with the socket. *)
Linked ==
  /\ \A c \in Channels : NoTwice(connected[c])
  /\ \A c \in Channels : inner[c] # NULL => <<c, inner[c]>> \in user.stacking
  /\ \A c \in Channels : Client \in Members(connected[c]) => c \in user.listens
  /\ \A c \in Channels : seen[c] = "open" => Hears(inner, connected, c)
  /\ FramesOK(inner, connected, stack)

AllTold ==
  \A c \in Channels : Hears(inner, connected, c) => ChannelOK(inner, c, stack, Up, seen[c])

Tidy == Structure /\ Linked /\ AllTold

(* All that the steps are proved from. *)
Base == ChannelTyped /\ OneInner /\ Orderly

LEMMA BaseWiring ==
  ASSUME Base, Linked
  PROVE  /\ Wiring(inner, connected) /\ AllWired /\ Shape /\ inner[Bottom] = NULL
         /\ user \in Users /\ user.habits = {} /\ Bottom \in Channels
<1>1. Shape /\ AllWired /\ InnerConnected /\ user \in Users /\ user.habits = {}
  BY DEF Base, ChannelTyped, Inv, OneInner, Orderly, Shape
<1>2. inner \in Pointers /\ connected \in [Channels -> Seq(Channels \cup {Client})]
  BY <1>1 DEF Shape, Pointers
<1>3. PICK level \in [Channels -> 0 .. Cardinality(Channels)] :
           \A p \in user.stacking : level[p[2]] < level[p[1]]
  BY <1>1, StackingAssumption DEF StackingAssumption
<1>4. Leveled(inner, level)
  <2>1. Cardinality(Channels) \in Nat
    BY StackingAssumption, FS_CardinalityType DEF StackingAssumption
  <2>2. level \in [Channels -> Nat]
    BY <2>1
  <2>3. ASSUME NEW c \in Channels, inner[c] # NULL PROVE level[inner[c]] < level[c]
    <3>1. <<c, inner[c]>> \in user.stacking
      BY <2>3 DEF Linked
    <3> QED  BY <1>3, <3>1
  <2> QED  BY <2>2, <2>3 DEF Leveled
<1>5. \A c \in Channels : inner[c] # NULL => c \in Members(connected[inner[c]])
  BY <1>1 DEF InnerConnected, Members
<1>6. \A c \in Channels : Wired(inner, c, connected[c])
  BY <1>1 DEF AllWired
<1>7. Bottom \in Channels /\ inner[Bottom] = NULL
  <2>1. Bottom \in Channels
    BY ChannelAssumption
  <2>2. \A p \in user.stacking : p[1] # Bottom
    BY <1>1, StackingAssumption DEF StackingAssumption
  <2>3. ASSUME inner[Bottom] # NULL PROVE FALSE
    <3>1. <<Bottom, inner[Bottom]>> \in user.stacking
      BY <2>1, <2>3 DEF Linked
    <3> QED  BY <2>2, <3>1
  <2> QED  BY <2>1, <2>3
<1> QED  BY <1>1, <1>2, <1>4, <1>5, <1>6, <1>7 DEF Wiring

LEMMA Popped ==
  ASSUME NEW s \in Seq(Frames), s # <<>>
  PROVE  s = <<Head(s)>> \o Tail(s) /\ Head(s) \in Frames /\ Tail(s) \in Seq(Frames)
  OBVIOUS

LEMMA OverLast ==
  ASSUME NEW s \in Seq(Frames), NEW f \in Frames
  PROVE  LastReset(<<f>> \o s) <=> (s = <<>> \/ f # Reset) /\ LastReset(s)
<1> DEFINE now == <<f>> \o s
<1>1. /\ now[1] = f /\ 1 \in 1 .. Len(now) /\ Len(now) = Len(s) + 1 /\ Len(s) \in Nat
      /\ \A k \in 1 .. Len(now) : k = 1 \/ (k - 1 \in 1 .. Len(s) /\ now[k] = s[k - 1])
      /\ \A k \in 1 .. Len(s) : k + 1 \in 1 .. Len(now) /\ now[k + 1] = s[k]
  BY Over
<1>2. s = <<>> <=> ~(1 < Len(now))
  BY <1>1
<1> HIDE DEF now
<1>3. ASSUME LastReset(now) PROVE (s = <<>> \/ f # Reset) /\ LastReset(s)
  <2>1. ASSUME NEW k \in 1 .. Len(s), k < Len(s) PROVE s[k] # Reset
    <3>1. k + 1 \in 1 .. Len(now) /\ now[k + 1] = s[k] /\ k + 1 < Len(now)
      BY <1>1, <2>1
    <3> QED  BY <1>3, <3>1 DEF LastReset
  <2>2. s = <<>> \/ f # Reset
    BY <1>1, <1>2, <1>3 DEF LastReset
  <2> QED  BY <2>1, <2>2 DEF LastReset
<1>4. ASSUME s = <<>> \/ f # Reset, LastReset(s) PROVE LastReset(now)
  <2> SUFFICES ASSUME NEW k \in 1 .. Len(now), k < Len(now) PROVE now[k] # Reset
    BY DEF LastReset
  <2>1. CASE k = 1
    BY <1>1, <1>2, <1>4, <2>1
  <2>2. CASE k # 1
    <3>1. k - 1 \in 1 .. Len(s) /\ now[k] = s[k - 1] /\ k - 1 < Len(s)
      BY <1>1, <2>2
    <3> QED  BY <1>4, <3>1 DEF LastReset
  <2> QED  BY <2>1, <2>2
<1> QED  BY <1>3, <1>4 DEF now

LEMMA NobodyOnEmpty ==
  ASSUME NEW p, NEW q, NEW x
  PROVE  /\ ~SomeWait(p, x, <<>>) /\ FramesOK(p, q, <<>>) /\ NoReset(<<>>) /\ NoneOpens(<<>>)
         /\ LastReset(<<>>)
  BY DEF SomeWait, FramesOK, NoReset, NoneOpens, LastReset

LEMMA ConnectingOpens ==
  /\ \A s \in Connecting : ~NoneOpens(s)
  /\ <<>> \notin Connecting
<1>1. ~NoneOpens(<<Open>>)
  <2>1. <<Open>>[1].op = "open" /\ 1 \in 1 .. Len(<<Open>>)
    BY DEF Open
  <2> QED  BY <2>1 DEF NoneOpens, Opens
<1>2. ~NoneOpens(<<Handler(Bottom, "connect_result"), Open>>)
  <2> DEFINE s == <<Handler(Bottom, "connect_result"), Open>>
  <2>1. s[1].op = "handler" /\ s[1].sig = "connect_result" /\ 1 \in 1 .. Len(s)
    BY DEF Handler
  <2> QED  BY <2>1 DEF NoneOpens, Opens
<1> QED  BY <1>1, <1>2 DEF Connecting

(* Out of connect_result, whatever frames there are. *)
LEMMA StructureFrom ==
  ASSUME NoneOpens(stack'), phase' # "connected", UNCHANGED user,
         ~user.closes_in_handlers =>
           (stack' # <<>> => phase' = "open") /\ LastReset(stack')
  PROVE  Structure'
<1>1. stack' \notin Connecting
  BY ConnectingOpens
<1> QED  BY <1>1 DEF Structure

(* Steps that stack no channel and connect no handler. *)
LEMMA TidyFrom ==
  ASSUME Linked, UNCHANGED <<user, inner, connected>>, Structure',
         FramesOK(inner, connected, stack'),
         \A c \in Channels : seen'[c] = "open" => seen[c] = "open" \/ Hears(inner, connected, c),
         \A c \in Channels : Hears(inner, connected, c) => ChannelOK(inner, c, stack', Up', seen'[c])
  PROVE  Tidy'
<1>1. Linked'
  BY DEF Linked
<1>2. AllTold'
  BY DEF AllTold
<1> QED  BY <1>1, <1>2 DEF Tidy

(* An emission under way. *)
LEMMA EmissionFacts ==
  ASSUME Base, Tidy, Top("emit")
  PROVE  LET e == Head(stack) IN
         /\ stack = <<e>> \o Tail(stack) /\ e \in Frames /\ Tail(stack) \in Seq(Frames)
         /\ e.op = "emit" /\ e.channel \in Channels /\ e.sig \in Signals
         /\ e.todo \in Seq(Channels \cup {Client})
         /\ NoTwice(e.todo) /\ Wired(inner, e.channel, e.todo)
         /\ Bottom \in Within(inner, e.channel)
         /\ Members(e.todo) \subseteq Members(connected[e.channel])
         /\ FramesOK(inner, connected, Tail(stack))
         /\ phase # "connected" /\ NoneOpens(Tail(stack))
         /\ Up <=> phase = "open" /\ NoReset(Tail(stack))
         /\ ~user.closes_in_handlers => phase = "open" /\ LastReset(Tail(stack))
<1> DEFINE e == Head(stack)
           s == Tail(stack)
<1>1. stack \in Seq(Frames) /\ stack # <<>> /\ e.op = "emit" /\ AllWired
  BY BaseWiring DEF Top, Shape, Tidy
<1>2. stack = <<e>> \o s /\ e \in Frames /\ s \in Seq(Frames)
  BY <1>1, Popped
<1>3. e.channel \in Channels /\ e.sig \in Signals /\ e.todo \in Seq(Channels \cup {Client})
  BY <1>1, Underway
<1>4. Wired(inner, e.channel, e.todo)
  <2>1. FrameWired(inner, e)
    BY <1>1, WiredPop DEF AllWired
  <2> QED  BY <1>1, <2>1 DEF FrameWired
<1>5. phase # "connected"
  <2>1. Head(<<Open>>).op # "emit" /\ Head(<<Handler(Bottom, "connect_result"), Open>>).op # "emit"
    BY DEF Open, Handler
  <2>2. stack \notin Connecting
    BY <1>1, <2>1 DEF Connecting
  <2> QED  BY <2>2 DEF Tidy, Structure
<1> HIDE DEF e, s
<1>6. FrameOK(inner, connected, e) /\ FramesOK(inner, connected, s)
  BY <1>2, OverFrames DEF Tidy, Linked
<1>7. NoneOpens(s)
  BY <1>2, <1>5, OverFrames DEF Tidy, Structure
<1>8. e # Reset
  BY <1>1 DEF Reset
<1>9. Up <=> phase = "open" /\ NoReset(s)
  BY <1>2, <1>8, OverFrames DEF Up
<1>10. ~user.closes_in_handlers => phase = "open" /\ LastReset(s)
  BY <1>1, <1>2, <1>5, OverLast DEF Tidy, Structure
<1> QED  BY <1>1, <1>2, <1>3, <1>4, <1>5, <1>6, <1>7, <1>9, <1>10 DEF FrameOK, e, s

LEMMA OneOff ==
  ASSUME NEW e \in Frames, e.op = "emit", e.todo # <<>>
  PROVE  LET d == [e EXCEPT !.todo = Tail(@)] IN
         /\ d \in Frames /\ d.op = "emit" /\ d.channel = e.channel /\ d.sig = e.sig
         /\ d.todo = Tail(e.todo)
<1>1. e \in [op : {"emit"}, channel : Channels, from : Channels \cup {NULL}, sig : Signals,
             todo : Seq(Channels \cup {Client})]
  BY DEF Frames, Open, Reset
<1>2. Tail(e.todo) \in Seq(Channels \cup {Client})
  BY <1>1
<1> QED  BY <1>1, <1>2 DEF Frames

LEMMA SameUp ==
  ASSUME NEW up, NEW now, up <=> now
  PROVE  \A p, x, s, told : ChannelOK(p, x, s, up, told) <=> ChannelOK(p, x, s, now, told)
  BY DEF ChannelOK, SaysSo

(* What the client is told when its handler is called: InOrder. *)
LEMMA ClientsTurn ==
  ASSUME Base, Tidy, Top("emit"), Head(stack).todo # <<>>, Head(Head(stack).todo) = Client
  PROVE  LET e == Head(stack)
             c == e.channel IN
         /\ Hears(inner, connected, c) /\ Waits(inner, c, e)
         /\ ~SomeWait(inner, c, Tail(stack)) /\ (e.sig = "closed" <=> ~Up)
         /\ e.sig \in {"opened", "closed"} <=> (seen[c] = "open" <=> ~Up)
         /\ e.sig = "opened" => seen[c] = "idle"
         /\ e.sig # "opened" => seen[c] = "open"
<1> DEFINE e == Head(stack)
           c == e.channel
<1>1. /\ stack = <<e>> \o Tail(stack) /\ e \in Frames /\ Tail(stack) \in Seq(Frames)
      /\ e.op = "emit" /\ c \in Channels /\ e.sig \in Signals
      /\ e.todo \in Seq(Channels \cup {Client})
      /\ Bottom \in Within(inner, c) /\ Members(e.todo) \subseteq Members(connected[c])
  BY EmissionFacts
<1>2. Client \in Members(e.todo)
  BY <1>1, MembersOf
<1>3. Hears(inner, connected, c)
  BY <1>1, <1>2 DEF Hears
<1>4. Waits(inner, c, e)
  BY <1>1, <1>2 DEF Waits, WaitsFor
<1>5. ChannelOK(inner, c, <<e>> \o Tail(stack), Up, seen[c])
  BY <1>1, <1>3 DEF Tidy, AllTold
<1> HIDE DEF e, c
<1>6. /\ ~SomeWait(inner, c, Tail(stack)) /\ (e.sig = "closed" <=> ~Up)
      /\ e.sig \in {"opened", "closed"} <=> (seen[c] = "open" <=> ~Up)
  BY <1>1, <1>4, <1>5, TurnComes
<1>7. seen[c] \in {"idle", "open"}
  BY <1>1 DEF Base, ChannelTyped
<1>8. /\ e.sig = "opened" => seen[c] = "idle"
      /\ e.sig # "opened" => seen[c] = "open"
  BY <1>6, <1>7
<1> QED  BY <1>3, <1>4, <1>6, <1>8 DEF e, c

LEMMA CallsHandlerTidy ==
  ASSUME Base, Tidy, UNCHANGED user, CallsHandler
  PROVE  Tidy'
<1> DEFINE e == Head(stack)
           c == e.channel
           s == Tail(stack)
           h == Handler(c, e.sig)
           d == [e EXCEPT !.todo = Tail(@)]
<1>1. /\ Top("emit") /\ e.todo # <<>> /\ Head(e.todo) = Client /\ stack' = <<h>> \o (<<d>> \o s)
      /\ Tells(c, e.sig) /\ UNCHANGED <<inner, connected, phase>>
  BY DEF CallsHandler, Rest, chainVars
<1>2. /\ stack = <<e>> \o s /\ e \in Frames /\ s \in Seq(Frames)
      /\ e.op = "emit" /\ c \in Channels /\ e.sig \in Signals
      /\ e.todo \in Seq(Channels \cup {Client})
      /\ NoTwice(e.todo) /\ Wired(inner, c, e.todo) /\ Bottom \in Within(inner, c)
      /\ Members(e.todo) \subseteq Members(connected[c]) /\ FramesOK(inner, connected, s)
  BY <1>1, EmissionFacts
<1>3. /\ phase # "connected" /\ NoneOpens(s) /\ (Up <=> phase = "open" /\ NoReset(s))
      /\ ~user.closes_in_handlers => phase = "open" /\ LastReset(s)
  BY <1>1, EmissionFacts
<1>4. /\ Hears(inner, connected, c) /\ ~SomeWait(inner, c, s) /\ (e.sig = "closed" <=> ~Up)
      /\ e.sig \in {"opened", "closed"} <=> (seen[c] = "open" <=> ~Up)
  BY <1>1, ClientsTurn
<1>5. d \in Frames /\ d.op = "emit" /\ d.channel = c /\ d.sig = e.sig /\ d.todo = Tail(e.todo)
  BY <1>1, <1>2, OneOff
<1>6. h \in Frames /\ h.op = "handler" /\ h.channel = c /\ h.sig = e.sig
  BY <1>2, OtherFrames DEF Handler
<1>7. e.sig # "connect_result"
  BY <1>2 DEF Signals
<1>8. Wiring(inner, connected)
  BY BaseWiring DEF Tidy
<1>9. \A x \in Channels : /\ Waits(inner, x, e) <=> x = c \/ Waits(inner, x, d)
                          /\ ~Waits(inner, c, d)
  <2> HIDE DEF e, c, d
  <2>1. ASSUME NEW x \in Channels
        PROVE  /\ WaitsFor(inner, x, c, e.todo) <=> x = c \/ WaitsFor(inner, x, c, Tail(e.todo))
               /\ ~WaitsFor(inner, c, c, Tail(e.todo))
    BY <1>1, <1>2, <1>8, ClientNext
  <2> QED  BY <1>2, <1>5, <2>1 DEF Waits, c
<1> DEFINE mid == <<d>> \o s
<1>10. mid \in Seq(Frames)
  BY <1>2, <1>5
<1>11. seen' = [seen EXCEPT ![c] = CASE e.sig = "opened" -> "open" [] e.sig = "closed" -> "idle"
                                     [] OTHER -> @]
       /\ seen \in [Channels -> {"idle", "open"}]
  BY <1>1 DEF Tells, Base, ChannelTyped
<1> HIDE DEF e, c, s, d, h, mid
<1>12. FramesOK(inner, connected, stack')
  <2>1. FrameOK(inner, connected, d)
    <3>1. NoTwice(d.todo) /\ Members(d.todo) \subseteq Members(connected[c])
      BY <1>1, <1>2, <1>5, MembersOf
    <3> QED  BY <1>2, <1>5, <3>1 DEF FrameOK
  <2>2. FramesOK(inner, connected, mid)
    BY <1>2, <1>5, <2>1, OverFrames DEF mid
  <2>3. FrameOK(inner, connected, h)
    BY <1>4, <1>6 DEF FrameOK
  <2> QED  BY <1>1, <1>6, <1>10, <2>2, <2>3, OverFrames DEF mid
<1>13. /\ NoneOpens(stack') /\ (NoReset(stack') <=> NoReset(s))
       /\ LastReset(s) => LastReset(stack')
  <2>1. d # Reset /\ h # Reset /\ ~Opens(d) /\ ~Opens(h)
    BY <1>5, <1>6, <1>7 DEF Reset, Opens
  <2>2. NoneOpens(mid) /\ (NoReset(mid) <=> NoReset(s)) /\ (LastReset(s) => LastReset(mid))
    BY <1>2, <1>3, <1>5, <2>1, OverFrames, OverLast DEF mid
  <2> QED  BY <1>1, <1>6, <1>10, <2>1, <2>2, OverFrames, OverLast DEF mid
<1>14. Structure'
  BY <1>1, <1>3, <1>13, StructureFrom
<1>15. Up' <=> Up
  BY <1>1, <1>3, <1>13 DEF Up
<1>16. ASSUME NEW x \in Channels, Hears(inner, connected, x)
       PROVE  ChannelOK(inner, x, stack', Up', seen'[x])
  <2>0. ~Waits(inner, x, h)
    BY <1>6 DEF Waits
  <2>1. CASE x = c
    <3>1. ~SomeWait(inner, c, mid)
      BY <1>2, <1>4, <1>5, <1>9, OverWaits DEF mid
    <3>2. ~SomeWait(inner, c, stack')
      BY <1>1, <1>6, <1>10, <2>0, <2>1, <3>1, OverWaits DEF mid
    <3>3. seen'[c] = "open" <=> Up
      BY <1>2, <1>4, <1>11
    <3> QED  BY <1>15, <2>1, <3>2, <3>3, Silent
  <2>2. CASE x # c
    <3>1. seen'[x] = seen[x]
      BY <1>11, <2>2
    <3>2. ChannelOK(inner, x, <<e>> \o s, Up, seen[x])
      BY <1>2, <1>16 DEF Tidy, AllTold
    <3>3. Waits(inner, x, e) <=> Waits(inner, x, d)
      BY <1>9, <2>2
    <3>4. ChannelOK(inner, x, mid, Up, seen[x])
      BY <1>2, <1>5, <3>2, <3>3, OverSame DEF mid
    <3>5. ChannelOK(inner, x, <<h>> \o mid, Up, seen[x])
      BY <1>6, <1>10, <2>0, <2>2, <3>4, OverQuiet
    <3> QED  BY <1>1, <1>15, <3>1, <3>5, SameUp DEF mid
  <2> QED  BY <2>1, <2>2
<1>17. \A x \in Channels : seen'[x] = "open" => seen[x] = "open" \/ Hears(inner, connected, x)
  BY <1>4, <1>11
<1> QED  BY <1>1, <1>12, <1>14, <1>16, <1>17, TidyFrom DEF Tidy

LEMMA ForwardTidy ==
  ASSUME Base, Tidy, UNCHANGED user, Forward, ~misused'
  PROVE  Tidy'
<1> DEFINE e == Head(stack)
           c == e.channel
           s == Tail(stack)
           o == Head(e.todo)
           f == Emit(o, c, e.sig, connected[o])
           d == [e EXCEPT !.todo = Tail(@)]
<1>1. /\ Top("emit") /\ e.todo # <<>> /\ o # Client /\ UNCHANGED <<inner, connected, phase, seen>>
      /\ stack' = <<f>> \o (<<d>> \o s)
  BY DEF Forward, Rest, chainVars, channel_inner_cb, Emits
<1>2. /\ stack = <<e>> \o s /\ e \in Frames /\ s \in Seq(Frames)
      /\ e.op = "emit" /\ c \in Channels /\ e.sig \in Signals
      /\ e.todo \in Seq(Channels \cup {Client})
      /\ NoTwice(e.todo) /\ Wired(inner, c, e.todo) /\ Bottom \in Within(inner, c)
      /\ Members(e.todo) \subseteq Members(connected[c]) /\ FramesOK(inner, connected, s)
  BY <1>1, EmissionFacts
<1>3. /\ phase # "connected" /\ NoneOpens(s) /\ (Up <=> phase = "open" /\ NoReset(s))
      /\ ~user.closes_in_handlers => phase = "open" /\ LastReset(s)
  BY <1>1, EmissionFacts
<1>4. o \in Channels /\ o \in Members(e.todo)
  BY <1>1, <1>2, MembersOf
<1>5. d \in Frames /\ d.op = "emit" /\ d.channel = c /\ d.sig = e.sig /\ d.todo = Tail(e.todo)
  BY <1>1, <1>2, OneOff
<1>8. Wiring(inner, connected)
  BY BaseWiring DEF Tidy
<1>6. /\ f \in Frames /\ f.op = "emit" /\ f.channel = o /\ f.sig = e.sig /\ f.todo = connected[o]
  <2>1. connected[o] \in Seq(Channels \cup {Client})
    BY <1>4, <1>8 DEF Wiring
  <2>2. f \in Frames
    BY <1>2, <1>4, <2>1, EmitFrame
  <2> QED  BY <2>2 DEF Emit
<1>9. ASSUME NEW x \in Channels, Hears(inner, connected, x)
      PROVE  /\ Waits(inner, x, e) <=> Waits(inner, x, f) \/ Waits(inner, x, d)
             /\ ~(Waits(inner, x, f) /\ Waits(inner, x, d))
  <2> HIDE DEF e, c, d, f
  <2>1. /\ WaitsFor(inner, x, c, e.todo)
             <=> WaitsFor(inner, x, o, connected[o]) \/ WaitsFor(inner, x, c, Tail(e.todo))
        /\ ~(WaitsFor(inner, x, o, connected[o]) /\ WaitsFor(inner, x, c, Tail(e.todo)))
    BY <1>1, <1>2, <1>4, <1>8, <1>9, OuterNext
  <2> QED  BY <1>2, <1>5, <1>6, <2>1 DEF Waits, c
<1> DEFINE mid == <<d>> \o s
<1>10. mid \in Seq(Frames)
  BY <1>2, <1>5
<1> HIDE DEF e, c, s, d, f, o, mid
<1>12. FramesOK(inner, connected, stack')
  <2>1. FrameOK(inner, connected, d)
    <3>1. NoTwice(d.todo) /\ Members(d.todo) \subseteq Members(connected[c])
      BY <1>1, <1>2, <1>5, MembersOf
    <3> QED  BY <1>2, <1>5, <3>1 DEF FrameOK
  <2>2. FramesOK(inner, connected, mid)
    BY <1>2, <1>5, <2>1, OverFrames DEF mid
  <2>3. Bottom \in Within(inner, o)
    <3>1. inner[o] = c /\ inner[o] # NULL
      BY <1>2, <1>4, NamesAssumption DEF Wired, Members
    <3>2. Within(inner, o) = {o} \cup Within(inner, c)
      BY <1>4, <1>8, <3>1, WithinStep DEF Wiring
    <3> QED  BY <1>2, <3>2
  <2>4. FrameOK(inner, connected, f)
    <3>1. NoTwice(connected[o])
      BY <1>4 DEF Tidy, Linked
    <3> QED  BY <1>6, <2>3, <3>1 DEF FrameOK
  <2> QED  BY <1>1, <1>6, <1>10, <2>2, <2>4, OverFrames DEF mid
<1>13. /\ NoneOpens(stack') /\ (NoReset(stack') <=> NoReset(s))
       /\ LastReset(s) => LastReset(stack')
  <2>1. d # Reset /\ f # Reset /\ ~Opens(d) /\ ~Opens(f)
    BY <1>5, <1>6 DEF Reset, Opens
  <2>2. NoneOpens(mid) /\ (NoReset(mid) <=> NoReset(s)) /\ (LastReset(s) => LastReset(mid))
    BY <1>2, <1>3, <1>5, <2>1, OverFrames, OverLast DEF mid
  <2> QED  BY <1>1, <1>6, <1>10, <2>1, <2>2, OverFrames, OverLast DEF mid
<1>14. Structure'
  BY <1>1, <1>3, <1>13, StructureFrom
<1>15. Up' <=> Up
  BY <1>1, <1>3, <1>13 DEF Up
<1>16. ASSUME NEW x \in Channels, Hears(inner, connected, x)
       PROVE  ChannelOK(inner, x, stack', Up', seen'[x])
  <2>1. ChannelOK(inner, x, <<e>> \o s, Up, seen[x])
    BY <1>2, <1>16 DEF Tidy, AllTold
  <2>2. ChannelOK(inner, x, <<f>> \o (<<d>> \o s), Up, seen[x])
    BY <1>2, <1>5, <1>6, <1>9, <1>16, <2>1, OverSplit
  <2>3. ChannelOK(inner, x, stack', Up, seen'[x])
    BY <1>1, <2>2
  <2> QED  BY <1>15, <2>3, SameUp
<1> QED  BY <1>1, <1>12, <1>14, <1>16, TidyFrom DEF Tidy

(* A call returns that keeps nobody waiting. *)
LEMMA PopTidy ==
  ASSUME Base, Tidy, UNCHANGED <<user, inner, connected, seen>>, stack # <<>>,
         stack' = Tail(stack), \A x : ~Waits(inner, x, Head(stack)), Structure', Up' <=> Up
  PROVE  Tidy'
<1> DEFINE e == Head(stack)
           s == Tail(stack)
<1>1. stack \in Seq(Frames)
  BY BaseWiring DEF Tidy, Shape
<1>2. stack = <<e>> \o s /\ e \in Frames /\ s \in Seq(Frames)
  BY <1>1, Popped
<1> HIDE DEF e
<1>3. FramesOK(inner, connected, s)
  BY <1>2, OverFrames DEF Tidy, Linked
<1>4. ASSUME NEW x \in Channels, Hears(inner, connected, x)
      PROVE  ChannelOK(inner, x, stack', Up', seen'[x])
  <2>1. ChannelOK(inner, x, <<e>> \o s, Up, seen[x])
    BY <1>2, <1>4 DEF Tidy, AllTold
  <2>2. ~Waits(inner, x, e)
    BY DEF e
  <2>3. ChannelOK(inner, x, s, Up, seen[x])
    BY <1>2, <2>1, <2>2, OverQuiet
  <2> QED  BY <2>3, SameUp
<1> QED  BY <1>3, <1>4, TidyFrom DEF Tidy

LEMMA EmissionEndsTidy ==
  ASSUME Base, Tidy, UNCHANGED user, EmissionEnds
  PROVE  Tidy'
<1> DEFINE e == Head(stack)
           s == Tail(stack)
<1>1. /\ Top("emit") /\ stack # <<>> /\ stack' = s /\ UNCHANGED <<inner, connected, phase, seen>>
      /\ e.todo = <<>>
  BY DEF EmissionEnds, chainVars, Top
<1>2. /\ phase # "connected" /\ NoneOpens(s) /\ (Up <=> phase = "open" /\ NoReset(s))
      /\ ~user.closes_in_handlers => phase = "open" /\ LastReset(s)
  BY <1>1, EmissionFacts
<1>3. Structure'
  BY <1>1, <1>2, StructureFrom
<1>4. Up' <=> Up
  BY <1>1, <1>2 DEF Up
<1>5. \A x : ~Waits(inner, x, e)
  BY <1>1 DEF Waits, WaitsFor, Members
<1> QED  BY <1>1, <1>3, <1>4, <1>5, PopTidy

(* What is known of a stack with another frame on top. *)
LEMMA TopFacts ==
  ASSUME Base, Tidy, stack # <<>>
  PROVE  LET e == Head(stack)
             s == Tail(stack) IN
         /\ stack = <<e>> \o s /\ e \in Frames /\ s \in Seq(Frames)
         /\ FrameOK(inner, connected, e)
         /\ NoReset(stack) <=> e # Reset /\ NoReset(s)
         /\ LastReset(stack) <=> (s = <<>> \/ e # Reset) /\ LastReset(s)
         /\ NoneOpens(stack) <=> ~Opens(e) /\ NoneOpens(s)
<1>1. stack \in Seq(Frames)
  BY BaseWiring DEF Tidy, Shape
<1> DEFINE e == Head(stack)
           s == Tail(stack)
<1>2. stack = <<e>> \o s /\ e \in Frames /\ s \in Seq(Frames)
  BY <1>1, Popped
<1> HIDE DEF e, s
<1>3. /\ FrameOK(inner, connected, e)
      /\ NoReset(stack) <=> e # Reset /\ NoReset(s)
      /\ NoneOpens(stack) <=> ~Opens(e) /\ NoneOpens(s)
  BY <1>2, OverFrames DEF Tidy, Linked
<1>4. LastReset(stack) <=> (s = <<>> \/ e # Reset) /\ LastReset(s)
  BY <1>2, OverLast
<1> QED  BY <1>2, <1>3, <1>4 DEF e, s

LEMMA HandlerReturnsTidy ==
  ASSUME Base, Tidy, UNCHANGED user, HandlerReturns
  PROVE  Tidy'
<1> DEFINE e == Head(stack)
           s == Tail(stack)
<1>1. /\ e.op = "handler" /\ stack # <<>> /\ stack' = s
      /\ UNCHANGED <<inner, connected, phase, seen>>
  BY DEF HandlerReturns, chainVars, Top
<1>2. \A x : ~Waits(inner, x, e)
  BY <1>1 DEF Waits
<1>3. /\ NoReset(stack) <=> NoReset(s)
      /\ LastReset(stack) <=> LastReset(s)
      /\ NoneOpens(stack) => NoneOpens(s)
  <2>1. e # Reset
    BY <1>1 DEF Reset
  <2> QED  BY <1>1, <2>1, TopFacts
<1>4. Up' <=> Up
  BY <1>1, <1>3 DEF Up
<1>5. Structure'
  <2>1. CASE phase # "connected"
    <3>1. NoneOpens(stack') /\ phase' # "connected"
      BY <1>1, <1>3, <2>1 DEF Tidy, Structure
    <3>2. ~user.closes_in_handlers =>
            (stack' # <<>> => phase' = "open") /\ LastReset(stack')
      BY <1>1, <1>3, <2>1 DEF Tidy, Structure
    <3> QED  BY <3>1, <3>2, StructureFrom
  <2>2. CASE phase = "connected"
    <3>1. stack \in Connecting
      BY <2>2 DEF Tidy, Structure
    <3>2. Open.op # "handler" /\ Head(<<Open>>) = Open
          /\ Tail(<<Handler(Bottom, "connect_result"), Open>>) = <<Open>>
      BY DEF Open
    <3>3. stack' = <<Open>>
      BY <1>1, <3>1, <3>2 DEF Connecting
    <3>4. LastReset(stack') /\ stack' \in Connecting
      BY <3>3 DEF LastReset, Connecting
    <3> QED  BY <1>1, <2>2, <3>4 DEF Structure
  <2> QED  BY <2>1, <2>2
<1> QED  BY <1>1, <1>2, <1>4, <1>5, PopTidy

LEMMA ResetTidy ==
  ASSUME Base, Tidy, UNCHANGED user, BottomReset
  PROVE  Tidy'
<1> DEFINE e == Head(stack)
           s == Tail(stack)
<1>1. /\ e.op = "reset" /\ stack # <<>> /\ stack' = s /\ phase' = "idle"
      /\ UNCHANGED <<inner, connected, seen>>
  BY DEF BottomReset, chainVars, Top
<1>2. \A x : ~Waits(inner, x, e)
  BY <1>1 DEF Waits
<1>3. e = Reset
  <2>1. e \in Frames
    BY <1>1, TopFacts
  <2> QED  BY <1>1, <2>1 DEF Frames, Open, Reset
<1>4. /\ ~NoReset(stack) /\ (LastReset(stack) => s = <<>> /\ LastReset(s))
      /\ NoneOpens(stack) => NoneOpens(s)
  BY <1>1, <1>3, TopFacts
<1>5. Up' <=> Up
  BY <1>1, <1>4 DEF Up
<1>6. NoneOpens(stack)
  <2>1. Head(<<Open>>).op # "reset" /\ Head(<<Handler(Bottom, "connect_result"), Open>>).op # "reset"
    BY DEF Open, Handler
  <2>2. stack \notin Connecting
    BY <1>1, <2>1 DEF Connecting
  <2> QED  BY <2>2 DEF Tidy, Structure
<1>7. Structure'
  <2>1. ~user.closes_in_handlers => LastReset(stack)
    BY DEF Tidy, Structure
  <2> QED  BY <1>1, <1>4, <1>6, <2>1, StructureFrom
<1> QED  BY <1>1, <1>2, <1>5, <1>7, PopTidy

LEMMA ConnectsTidy ==
  ASSUME Base, Tidy, UNCHANGED user, BottomConnects
  PROVE  Tidy'
<1> DEFINE h == Handler(Bottom, "connect_result")
<1>1. /\ stack = <<>> /\ phase = "idle" /\ phase' = "connected" /\ stack' = <<h, Open>>
      /\ UNCHANGED <<inner, connected, seen>>
  BY DEF BottomConnects, MainLoopRuns, chainVars
<1>2. Len(stack') = 2 /\ stack'[1] = h /\ stack'[2] = Open
      /\ h.op = "handler" /\ h.sig = "connect_result" /\ Open.op = "open" /\ Reset.op = "reset"
  BY <1>1 DEF Handler, Open, Reset
<1> HIDE DEF h
<1>3. \A k \in 1 .. Len(stack') : stack'[k] = h \/ stack'[k] = Open
  BY <1>2
<1>4. Structure'
  <2>1. stack' \in Connecting
    BY <1>1 DEF Connecting, h
  <2>2. LastReset(stack')
    BY <1>2, <1>3 DEF LastReset
  <2> QED  BY <1>1, <2>1, <2>2 DEF Structure
<1>5. FramesOK(inner, connected, stack')
  BY <1>2, <1>3 DEF FramesOK, FrameOK
<1>6. ~Up /\ ~Up'
  BY <1>1 DEF Up
<1>7. ASSUME NEW x \in Channels, Hears(inner, connected, x)
      PROVE  ChannelOK(inner, x, stack', Up', seen'[x])
  <2>1. ChannelOK(inner, x, <<>>, Up, seen[x])
    BY <1>1, <1>7 DEF Tidy, AllTold
  <2>2. ~SomeWait(inner, x, <<>>) /\ ~SomeWait(inner, x, stack')
    BY <1>2, <1>3, NobodyOnEmpty DEF SomeWait, Waits
  <2>3. seen[x] # "open"
    BY <1>6, <2>1, <2>2, Silent
  <2> QED  BY <1>1, <1>6, <2>2, <2>3, Silent
<1> QED  BY <1>1, <1>4, <1>5, <1>7, TidyFrom DEF Tidy

-----------------------------------------------------------------------------
(* The socket emits, over calls in which nobody waits. *)
LEMMA BottomTells ==
  ASSUME Base, Tidy, UNCHANGED <<user, inner, connected, seen>>,
         NEW sig \in Signals, NEW rest \in Seq(Frames), Emits(Bottom, NULL, sig, rest),
         FramesOK(inner, connected, rest), Structure', sig = "closed" <=> ~Up',
         \A x \in Channels : Hears(inner, connected, x) =>
            /\ ~SomeWait(inner, x, rest)
            /\ sig \in {"opened", "closed"} <=> (seen[x] = "open" <=> ~Up')
  PROVE  Tidy'
<1> DEFINE f == Emit(Bottom, NULL, sig, connected[Bottom])
<1>1. stack' = <<f>> \o rest
  BY DEF Emits
<1>2. /\ Wiring(inner, connected) /\ Bottom \in Channels /\ inner \in Pointers
      /\ connected[Bottom] \in Seq(Channels \cup {Client})
  BY BaseWiring DEF Tidy, Wiring
<1>3. /\ f \in Frames /\ f.op = "emit" /\ f.channel = Bottom /\ f.sig = sig
      /\ f.todo = connected[Bottom]
  <2>1. f \in Frames
    BY <1>2, EmitFrame
  <2> QED  BY <2>1 DEF Emit
<1> HIDE DEF f
<1>4. FramesOK(inner, connected, stack')
  <2>1. Bottom \in Within(inner, Bottom) /\ NoTwice(connected[Bottom])
    BY <1>2, WithinIs DEF Tidy, Linked
  <2>2. FrameOK(inner, connected, f)
    BY <1>3, <2>1 DEF FrameOK
  <2> QED  BY <1>1, <1>3, <2>2, OverFrames
<1>5. ASSUME NEW x \in Channels, Hears(inner, connected, x)
      PROVE  ChannelOK(inner, x, stack', Up', seen'[x])
  <2>1. WaitsFor(inner, x, Bottom, connected[Bottom])
    <3>1. Bottom \in Within(inner, x)
      BY <1>5 DEF Hears
    <3> QED  BY <1>2, <1>5, <3>1, WaitsForAll
  <2>2. Waits(inner, x, f)
    BY <1>3, <2>1 DEF Waits
  <2>3. /\ ~SomeWait(inner, x, rest) /\ (f.sig = "closed" <=> ~Up')
        /\ f.sig \in {"opened", "closed"} <=> (seen[x] = "open" <=> ~Up')
    BY <1>3, <1>5
  <2>4. ChannelOK(inner, x, <<f>> \o rest, Up', seen[x])
    BY <1>3, <2>2, <2>3, OverFirst
  <2> QED  BY <1>1, <2>4
<1> QED  BY <1>4, <1>5, TidyFrom DEF Tidy

LEMMA OpensTidy ==
  ASSUME Base, Tidy, UNCHANGED user, BottomOpens, ~misused'
  PROVE  Tidy'
<1>1. /\ Top("open") /\ stack # <<>> /\ phase' = "open" /\ UNCHANGED <<inner, connected, seen>>
      /\ Emits(Bottom, NULL, "opened", Tail(stack))
  BY DEF BottomOpens, chainVars, Top
<1>2. phase = "connected" /\ stack = <<Open>>
  <2>1. Opens(Head(stack))
    BY <1>1 DEF Top, Opens
  <2>2. phase = "connected"
    BY <1>1, <2>1, TopFacts DEF Tidy, Structure
  <2>3. Head(<<Handler(Bottom, "connect_result"), Open>>).op # "open"
    BY DEF Handler
  <2> QED  BY <1>1, <2>2, <2>3 DEF Tidy, Structure, Connecting, Top
<1>3. Tail(stack) = <<>>
  BY <1>2
<1> DEFINE f == Emit(Bottom, NULL, "opened", connected[Bottom])
<1>4. stack' = <<f>> /\ Emits(Bottom, NULL, "opened", <<>>)
  <2>1. /\ stack' = <<f>> \o Tail(stack)
        /\ g_object_ref(Bottom)
    BY <1>1 DEF Emits
  <2>2. stack' = <<f>> \o <<>>
    BY <2>1, <1>3
  <2>3. <<f>> \o <<>> = <<f>>
    OBVIOUS
  <2> QED  BY <2>1, <2>2, <2>3 DEF Emits
<1>5. Len(stack') = 1 /\ stack'[1] = f /\ f.op = "emit"
  BY <1>4 DEF Emit
<1> HIDE DEF f
<1>6. NoneOpens(stack') /\ NoReset(stack') /\ LastReset(stack')
  BY <1>5 DEF NoneOpens, NoReset, LastReset, Opens, Reset
<1>7. Structure'
  BY <1>1, <1>6, StructureFrom
<1>8. Up' /\ ~Up
  BY <1>1, <1>2, <1>6 DEF Up
<1>9. ASSUME NEW x \in Channels, Hears(inner, connected, x) PROVE seen[x] # "open"
  <2>1. ChannelOK(inner, x, stack, Up, seen[x])
    BY <1>9 DEF Tidy, AllTold
  <2>2. ~SomeWait(inner, x, stack)
    BY <1>2 DEF SomeWait, Waits, Open
  <2> QED  BY <1>8, <2>1, <2>2, Silent
<1>10. "opened" \in Signals /\ <<>> \in Seq(Frames) /\ Emits(Bottom, NULL, "opened", <<>>)
  BY <1>4 DEF Signals
<1>11. \A x \in Channels : Hears(inner, connected, x) =>
            /\ ~SomeWait(inner, x, <<>>)
            /\ "opened" \in {"opened", "closed"} <=> (seen[x] = "open" <=> ~Up')
  BY <1>8, <1>9, NobodyOnEmpty
<1>12. FramesOK(inner, connected, <<>>)
  BY NobodyOnEmpty
<1> QED  BY <1>1, <1>7, <1>8, <1>10, <1>11, <1>12, BottomTells

LEMMA DataTidy ==
  ASSUME Base, Tidy, UNCHANGED user, BottomData
  PROVE  Tidy'
<1>1. stack = <<>> /\ phase = "open" /\ UNCHANGED <<inner, connected, seen, phase>>
  BY DEF BottomData, MainLoopRuns, chainVars
<1>2. PICK sig \in {"readable", "writeable"} : Emits(Bottom, NULL, sig, <<>>)
  BY DEF BottomData
<1> DEFINE f == Emit(Bottom, NULL, sig, connected[Bottom])
<1>4. stack' = <<f>>
  BY <1>2 DEF Emits
<1>5. Len(stack') = 1 /\ stack'[1] = f /\ f.op = "emit"
  BY <1>4 DEF Emit
<1> HIDE DEF f
<1>6. NoneOpens(stack') /\ NoReset(stack') /\ LastReset(stack')
  BY <1>5 DEF NoneOpens, NoReset, LastReset, Opens, Reset
<1>7. Structure'
  BY <1>1, <1>6, StructureFrom
<1>8. Up' /\ Up
  BY <1>1, <1>6, NobodyOnEmpty DEF Up
<1>9. ASSUME NEW x \in Channels, Hears(inner, connected, x) PROVE seen[x] = "open"
  <2>1. ChannelOK(inner, x, <<>>, Up, seen[x])
    BY <1>1, <1>9 DEF Tidy, AllTold
  <2> QED  BY <1>8, <2>1, NobodyOnEmpty, Silent
<1>10. sig \in Signals /\ <<>> \in Seq(Frames) /\ sig \notin {"opened", "closed"}
  BY DEF Signals
<1>11. \A x \in Channels : Hears(inner, connected, x) =>
            /\ ~SomeWait(inner, x, <<>>)
            /\ sig \in {"opened", "closed"} <=> (seen[x] = "open" <=> ~Up')
  BY <1>8, <1>9, <1>10, NobodyOnEmpty
<1>12. FramesOK(inner, connected, <<>>)
  BY NobodyOnEmpty
<1> QED  BY <1>1, <1>2, <1>7, <1>8, <1>10, <1>11, <1>12, BottomTells

(* The socket closes, from the main loop or in a handler. *)
LEMMA ClosesTidy ==
  ASSUME Base, Tidy, UNCHANGED <<user, inner, connected, phase, seen>>, BottomCloses(stack),
         Up, ~user.closes_in_handlers => stack = <<>>,
         \A x \in Channels : Hears(inner, connected, x) => ~SomeWait(inner, x, stack)
  PROVE  Tidy'
<1> DEFINE f == Emit(Bottom, NULL, "closed", connected[Bottom])
           rest == <<Reset>> \o stack
<1>1. stack \in Seq(Frames) /\ phase = "open" /\ NoneOpens(stack) /\ connected[Bottom] \in Seq(Channels \cup {Client})
      /\ Bottom \in Channels
  BY BaseWiring DEF Tidy, Shape, Up, Structure
<1>2. Reset \in Frames /\ rest \in Seq(Frames) /\ Reset.op = "reset"
  BY <1>1, OtherFrames DEF Reset
<1>3. f \in Frames /\ f.op = "emit"
  <2>1. "closed" \in Signals
    BY DEF Signals
  <2> QED  BY <1>1, <2>1, EmitFrame DEF Emit
<1>4. Emits(Bottom, NULL, "closed", rest) /\ stack' = <<f>> \o rest
  BY DEF BottomCloses, Emits
<1> HIDE DEF f
<1>5. /\ NoneOpens(rest) /\ FramesOK(inner, connected, rest) /\ ~NoReset(rest)
      /\ \A x \in Channels : SomeWait(inner, x, rest) <=> SomeWait(inner, x, stack)
      /\ LastReset(rest) <=> stack = <<>> /\ LastReset(stack)
  <2>1. FrameOK(inner, connected, Reset) /\ ~Opens(Reset) /\ \A x : ~Waits(inner, x, Reset)
    BY <1>2 DEF FrameOK, Opens, Waits
  <2>2. NoneOpens(rest) /\ ~NoReset(rest)
    BY <1>1, <1>2, <2>1, OverFrames
  <2>3. FramesOK(inner, connected, rest)
    BY <1>1, <1>2, <2>1, OverFrames DEF Tidy, Linked
  <2>4. ASSUME NEW x \in Channels PROVE SomeWait(inner, x, rest) <=> SomeWait(inner, x, stack)
    BY <1>1, <1>2, <2>1, OverWaits
  <2>5. LastReset(rest) <=> stack = <<>> /\ LastReset(stack)
    BY <1>1, <1>2, OverLast
  <2> QED  BY <2>2, <2>3, <2>4, <2>5
<1> HIDE DEF rest
<1>6. NoneOpens(stack') /\ ~NoReset(stack') /\ (LastReset(stack') <=> LastReset(rest))
  <2>1. ~Opens(f) /\ f # Reset
    BY <1>2, <1>3 DEF Opens
  <2> QED  BY <1>2, <1>3, <1>4, <1>5, <2>1, OverFrames, OverLast
<1>7. Structure'
  <2>1. stack = <<>> => LastReset(stack)
    BY NobodyOnEmpty
  <2> QED  BY <1>1, <1>5, <1>6, <2>1, StructureFrom
<1>8. ~Up'
  BY <1>6 DEF Up
<1>9. ASSUME NEW x \in Channels, Hears(inner, connected, x) PROVE seen[x] = "open"
  <2>1. ChannelOK(inner, x, stack, Up, seen[x])
    BY <1>9 DEF Tidy, AllTold
  <2> QED  BY <1>9, <2>1, Silent
<1>10. "closed" \in Signals
  BY DEF Signals
<1>11. \A x \in Channels : Hears(inner, connected, x) =>
            /\ ~SomeWait(inner, x, rest)
            /\ "closed" \in {"opened", "closed"} <=> (seen[x] = "open" <=> ~Up')
  BY <1>5, <1>8, <1>9
<1> QED  BY <1>2, <1>4, <1>5, <1>7, <1>8, <1>10, <1>11, BottomTells

(* A client that closes in handlers has them on one channel. *)
LEMMA OneLevel ==
  ASSUME Base, Linked, user.closes_in_handlers,
         NEW x \in user.listens, NEW y \in Channels, Client \in Members(connected[y])
  PROVE  x = y
<1>1. y \in user.listens
  BY DEF Linked
<1>2. user.listens \subseteq Channels /\ IsFiniteSet(Channels)
  BY StackingAssumption, UsersAssumption
  DEF Base, OneInner, Shape, StackingAssumption, UsersAssumption
<1>3. IsFiniteSet(user.listens) /\ Cardinality(user.listens) \in Nat
  BY <1>2, FS_Subset, FS_CardinalityType
<1>4. Cardinality(user.listens) <= 1
  BY DEF Base, Orderly
<1> SUFFICES ASSUME x # y PROVE FALSE
  OBVIOUS
<1>5. IsFiniteSet({x}) /\ Cardinality({x}) = 1
  BY FS_Singleton
<1>6. Cardinality({x} \cup {y}) = 2
  <2>1. y \notin {x}
    OBVIOUS
  <2>2. Cardinality({x} \cup {y}) = Cardinality({x}) + 1
    BY <1>5, <2>1, FS_AddElement
  <2> QED  BY <1>5, <2>2
<1>7. {x} \cup {y} \subseteq user.listens
  BY <1>1
<1>8. Cardinality({x} \cup {y}) <= Cardinality(user.listens)
  BY <1>3, <1>7, FS_Subset
<1> QED  BY <1>3, <1>4, <1>6, <1>8

(* In the middle of connect_result nothing is emitted. *)
LEMMA QuietConnecting ==
  ASSUME NEW s \in Connecting, NEW p, NEW x
  PROVE  ~SomeWait(p, x, s)
<1>1. Open.op # "emit" /\ Handler(Bottom, "connect_result").op # "emit"
  BY DEF Open, Handler
<1>2. \A k \in 1 .. Len(<<Open>>) : <<Open>>[k].op # "emit"
  BY <1>1
<1>3. \A k \in 1 .. Len(<<Handler(Bottom, "connect_result"), Open>>) :
         <<Handler(Bottom, "connect_result"), Open>>[k].op # "emit"
  BY <1>1
<1> QED  BY <1>2, <1>3 DEF Connecting, SomeWait, Waits

(* The client runs in a handler: of connect_result, or of a channel that   *)
(* hears the socket.                                                       *)
LEMMA InHandler ==
  ASSUME Base, Tidy, Top("handler")
  PROVE  LET h == Head(stack) IN
         \/ phase = "connected" /\ stack \in Connecting
         \/ /\ phase # "connected" /\ h.channel \in Channels /\ Hears(inner, connected, h.channel)
            /\ ~user.closes_in_handlers => phase = "open"
<1> DEFINE h == Head(stack)
<1>1. stack # <<>> /\ h.op = "handler"
  BY DEF Top
<1>2. h \in Frames /\ FrameOK(inner, connected, h) /\ (NoneOpens(stack) => ~Opens(h))
  BY <1>1, TopFacts
<1>3. h.channel \in Channels
  BY <1>1, <1>2 DEF Frames, Open, Reset
<1> HIDE DEF h
<1>4. CASE phase = "connected"
  BY <1>4 DEF Tidy, Structure
<1>5. CASE phase # "connected"
  <2>1. ~Opens(h)
    BY <1>2, <1>5 DEF Tidy, Structure
  <2>2. Hears(inner, connected, h.channel)
    BY <1>1, <1>2, <2>1 DEF FrameOK, Opens
  <2>3. ~user.closes_in_handlers => phase = "open"
    BY <1>1, <1>5 DEF Tidy, Structure
  <2> QED  BY <1>3, <1>5, <2>2, <2>3 DEF h
<1> QED  BY <1>4, <1>5

(* Who comes to hear the socket now, waits for nothing. *)
LEMMA Later ==
  ASSUME Base, Tidy, ClientRuns, phase # "open",
         NEW x \in Channels, x \in user.listens, ~Hears(inner, connected, x), NEW p
  PROVE  ChannelOK(p, x, stack, Up, seen[x])
<1>1. seen[x] # "open" /\ ~Up
  BY DEF Tidy, Linked, Up
<1>2. ~SomeWait(p, x, stack)
  <2>1. CASE stack = <<>>
    BY <2>1, NobodyOnEmpty
  <2>2. CASE Top("handler")
    <3>1. ~(/\ user.closes_in_handlers /\ Head(stack).channel \in Channels
            /\ Hears(inner, connected, Head(stack).channel))
      BY OneLevel DEF Tidy, Hears
    <3>2. stack \in Connecting
      BY <2>2, <3>1, InHandler
    <3> QED  BY <3>2, QuietConnecting
  <2> QED  BY <2>1, <2>2 DEF ClientRuns
<1> QED  BY <1>1, <1>2, Silent

LEMMA ListensTidy ==
  ASSUME Base, Tidy, UNCHANGED user, NEW c \in Channels, ClientListens(c)
  PROVE  Tidy'
<1>1. /\ ClientRuns /\ phase # "open" /\ c \in user.listens
      /\ \A k \in 1 .. Len(connected[c]) : connected[c][k] # Client
      /\ connected' = [connected EXCEPT ![c] = Append(@, Client)]
      /\ UNCHANGED <<inner, phase, stack, seen>>
  BY BaseWiring DEF ClientListens, BuildsNow, Tidy
<1>2. connected \in [Channels -> Seq(Channels \cup {Client})]
  BY DEF Base, OneInner, Shape
<1>3. Client \notin Members(connected[c])
  BY <1>1 DEF Members
<1>4. /\ Members(connected'[c]) = Members(connected[c]) \cup {Client}
      /\ NoTwice(connected[c]) => NoTwice(connected'[c])
  <2>1. connected'[c] = Append(connected[c], Client) /\ connected[c] \in Seq(Channels \cup {Client})
    BY <1>1, <1>2
  <2> QED  BY <1>3, <2>1, MembersJoined
<1>5. \A x \in Channels : x # c => connected'[x] = connected[x]
  BY <1>1, <1>2
<1>6. \A x \in Channels : Members(connected[x]) \subseteq Members(connected'[x])
  BY <1>4, <1>5
<1>7. \A x \in Channels : Hears(inner, connected, x) => Hears(inner, connected', x)
  BY <1>6 DEF Hears
<1>8. \A x \in Channels : Hears(inner, connected', x) => Hears(inner, connected, x) \/ x = c
  BY <1>5 DEF Hears
<1>9. Structure'
  BY <1>1 DEF Tidy, Structure
<1>10. FramesOK(inner, connected', stack)
  <2> SUFFICES ASSUME NEW k \in 1 .. Len(stack) PROVE FrameOK(inner, connected', stack[k])
    BY DEF FramesOK
  <2>1. stack[k] \in Frames /\ FrameOK(inner, connected, stack[k])
    BY DEF Tidy, Linked, FramesOK, Base, OneInner, Shape
  <2>2. stack[k].op \in {"emit", "handler"} => stack[k].channel \in Channels
    BY <2>1 DEF Frames, Open, Reset
  <2> QED  BY <1>6, <1>7, <2>1, <2>2 DEF FrameOK
<1>11. Linked'
  <2>1. \A x \in Channels : NoTwice(connected'[x])
    BY <1>4, <1>5 DEF Tidy, Linked
  <2>2. \A x \in Channels : Client \in Members(connected'[x]) => x \in user.listens
    BY <1>1, <1>5 DEF Tidy, Linked
  <2>3. \A x \in Channels : seen[x] = "open" => Hears(inner, connected', x)
    BY <1>7 DEF Tidy, Linked
  <2>4. \A x \in Channels : inner[x] # NULL => <<x, inner[x]>> \in user.stacking
    BY DEF Tidy, Linked
  <2> QED  BY <1>1, <1>10, <2>1, <2>2, <2>3, <2>4 DEF Linked
<1>12. \A x \in Channels : Hears(inner, connected', x) => ChannelOK(inner, x, stack, Up, seen[x])
  <2> SUFFICES ASSUME NEW x \in Channels, Hears(inner, connected', x)
               PROVE  ChannelOK(inner, x, stack, Up, seen[x])
    OBVIOUS
  <2>1. CASE Hears(inner, connected, x)
    BY <2>1 DEF Tidy, AllTold
  <2>2. CASE ~Hears(inner, connected, x)
    <3>1. x \in user.listens
      BY <1>1, <1>8, <2>2
    <3> QED  BY <1>1, <2>2, <3>1, Later
  <2> QED  BY <2>1, <2>2
<1>13. AllTold'
  <2>1. Up' <=> Up
    BY <1>1 DEF Up
  <2> QED  BY <1>1, <1>12, <2>1, SameUp DEF AllTold
<1> QED  BY <1>9, <1>11, <1>13 DEF Tidy

(* A channel that is stacked was not on the way to the socket. *)
LEMMA WayKept ==
  ASSUME Base, Linked, NEW c \in Channels, c # Bottom, inner[c] = NULL, NEW r \in Pointers,
         \A y \in Channels : y # c => r[y] = inner[y],
         NEW x \in Channels, Bottom \in Within(inner, x)
  PROVE  Within(r, x) = Within(inner, x)
<1>1. inner \in Pointers /\ Bottom \in Channels /\ inner[Bottom] = NULL
  BY BaseWiring DEF Wiring
<1>2. Within(inner, c) = {c} /\ Within(inner, Bottom) = {Bottom}
  BY <1>1, WithinStep
<1>3. c \notin Within(inner, x)
  <2> SUFFICES ASSUME c \in Within(inner, x) PROVE FALSE
    OBVIOUS
  <2>1. c \in Within(inner, Bottom) \/ Bottom \in Within(inner, c)
    BY <1>1, WithinLine
  <2> QED  BY <1>2, <2>1
<1> QED  BY <1>1, <1>3, WithinKept

LEMMA SetInnerTidy ==
  ASSUME Base, Tidy, UNCHANGED user, NEW c \in Channels, NEW d \in Channels,
         lm_channel_set_inner(c, d)
  PROVE  Tidy'
<1>1. /\ ClientRuns /\ phase # "open" /\ <<c, d>> \in user.stacking /\ inner[c] = NULL
      /\ inner' = [inner EXCEPT ![c] = d] /\ connected' = [connected EXCEPT ![d] = Append(@, c)]
      /\ UNCHANGED <<phase, stack, seen>>
  BY BaseWiring DEF lm_channel_set_inner, SetInner, BuildsNow, Tidy
<1>2. /\ connected \in [Channels -> Seq(Channels \cup {Client})] /\ inner \in Pointers
      /\ NULL \notin Channels /\ Client \notin Channels
  BY NamesAssumption DEF Base, OneInner, Shape, Pointers
<1>3. c # Bottom
  <2>1. \A p \in user.stacking : p[1] # Bottom
    BY StackingAssumption DEF StackingAssumption, Base, OneInner, Shape
  <2>2. <<c, d>>[1] # Bottom
    BY <1>1, <2>1
  <2> QED  BY <2>2
<1>4. inner' \in Pointers /\ inner'[c] = d /\ \A y \in Channels : y # c => inner'[y] = inner[y]
  BY <1>1, <1>2 DEF Pointers
<1>5. \A x \in Channels : Bottom \in Within(inner, x) => Within(inner', x) = Within(inner, x)
  BY <1>1, <1>3, <1>4, WayKept DEF Tidy
<1>6. c \notin Members(connected[d])
  <2>1. Wired(inner, d, connected[d])
    BY BaseWiring DEF Wiring, Tidy
  <2> QED  BY <1>1, <1>2, <2>1 DEF Wired, Members
<1>7. /\ Members(connected'[d]) = Members(connected[d]) \cup {c}
      /\ NoTwice(connected[d]) => NoTwice(connected'[d])
  <2>1. connected'[d] = Append(connected[d], c) /\ connected[d] \in Seq(Channels \cup {Client})
    BY <1>1, <1>2
  <2> QED  BY <1>6, <2>1, MembersJoined
<1>8. \A x \in Channels : x # d => connected'[x] = connected[x]
  BY <1>1, <1>2
<1>9. \A x \in Channels : /\ Members(connected[x]) \subseteq Members(connected'[x])
                          /\ Client \in Members(connected'[x]) => Client \in Members(connected[x])
  BY <1>2, <1>7, <1>8
<1>10. \A x \in Channels : Hears(inner, connected, x) => Hears(inner', connected', x)
  BY <1>5, <1>9 DEF Hears
<1>11. Structure'
  BY <1>1 DEF Tidy, Structure
<1>12. FramesOK(inner', connected', stack)
  <2> SUFFICES ASSUME NEW k \in 1 .. Len(stack) PROVE FrameOK(inner', connected', stack[k])
    BY DEF FramesOK
  <2>1. stack[k] \in Frames /\ FrameOK(inner, connected, stack[k])
    BY DEF Tidy, Linked, FramesOK, Base, OneInner, Shape
  <2>2. stack[k].op \in {"emit", "handler"} => stack[k].channel \in Channels
    BY <2>1 DEF Frames, Open, Reset
  <2> QED  BY <1>5, <1>9, <1>10, <2>1, <2>2 DEF FrameOK
<1>13. Linked'
  <2>1. \A x \in Channels : NoTwice(connected'[x])
    BY <1>7, <1>8 DEF Tidy, Linked
  <2>2. \A x \in Channels : Client \in Members(connected'[x]) => x \in user.listens
    BY <1>9 DEF Tidy, Linked
  <2>3. \A x \in Channels : seen[x] = "open" => Hears(inner', connected', x)
    BY <1>10 DEF Tidy, Linked
  <2>4. \A x \in Channels : inner'[x] # NULL => <<x, inner'[x]>> \in user.stacking
    BY <1>1, <1>4 DEF Tidy, Linked
  <2> QED  BY <1>1, <1>12, <2>1, <2>2, <2>3, <2>4 DEF Linked
<1>14. \A x \in Channels : Hears(inner', connected', x) => ChannelOK(inner', x, stack, Up, seen[x])
  <2> SUFFICES ASSUME NEW x \in Channels, Hears(inner', connected', x)
               PROVE  ChannelOK(inner', x, stack, Up, seen[x])
    OBVIOUS
  <2>1. CASE Hears(inner, connected, x)
    <3>1. ChannelOK(inner, x, stack, Up, seen[x]) /\ Within(inner', x) = Within(inner, x)
      BY <1>5, <2>1 DEF Tidy, AllTold, Hears
    <3> QED  BY <3>1, SameWait
  <2>2. CASE ~Hears(inner, connected, x)
    <3>1. x \in user.listens
      BY <1>9 DEF Tidy, Linked, Hears
    <3> QED  BY <1>1, <2>2, <3>1, Later
  <2> QED  BY <2>1, <2>2
<1>15. AllTold'
  <2>1. Up' <=> Up
    BY <1>1 DEF Up
  <2> QED  BY <1>1, <1>14, <2>1, SameUp DEF AllTold
<1> QED  BY <1>11, <1>13, <1>15 DEF Tidy

(* Nobody waits when the client closes, so all know that it is open. *)
LEMMA CloseTidy ==
  ASSUME Base, Tidy, UNCHANGED user, NEW c \in Channels, lm_channel_close(c)
  PROVE  Tidy'
<1>1. /\ ClientRuns /\ (stack = <<>> \/ user.closes_in_handlers)
      /\ seen[c] = "open" /\ Hears(inner, connected, c) /\ UNCHANGED <<inner, connected, phase, seen>>
  BY DEF lm_channel_close, Tidy, Linked, chainVars
<1>2. CASE ~BottomCloses(stack)
  <2>1. UNCHANGED stack
    BY <1>2 DEF lm_channel_close
  <2> QED  BY <1>1, <2>1 DEF Tidy, Structure, Linked, AllTold, Up
<1>3. CASE BottomCloses(stack)
  <2>1. \A x \in Channels : Hears(inner, connected, x) => ~SomeWait(inner, x, stack)
    <3>1. CASE stack = <<>>
      BY <3>1, NobodyOnEmpty
    <3>2. CASE stack # <<>>
      <4> DEFINE h == Head(stack)
                 s == Tail(stack)
      <4>1. Top("handler") /\ user.closes_in_handlers
        BY <1>1, <3>2 DEF ClientRuns
      <4>2. CASE stack \in Connecting
        BY <4>2, QuietConnecting
      <4>3. CASE h.channel \in Channels /\ Hears(inner, connected, h.channel)
        <5> SUFFICES ASSUME NEW x \in Channels, Hears(inner, connected, x)
                     PROVE  ~SomeWait(inner, x, stack)
          OBVIOUS
        <5>1. x \in user.listens
          BY DEF Tidy, Linked, Hears
        <5>2. x = h.channel
          BY <4>1, <4>3, <5>1, OneLevel DEF Tidy, Hears
        <5>3. stack = <<h>> \o s /\ h \in Frames /\ s \in Seq(Frames) /\ h.op = "handler"
          BY <3>2, <4>1, TopFacts DEF Top
        <5> HIDE DEF h, s
        <5>4. HadTurn(inner, x, <<h>> \o s)
          BY <5>3 DEF Tidy, AllTold, ChannelOK
        <5>5. ~SomeWait(inner, x, s)
          BY <5>2, <5>3, <5>4, OverTurn
        <5>6. ~Waits(inner, x, h)
          BY <5>3 DEF Waits
        <5>7. ~SomeWait(inner, x, <<h>> \o s)
          BY <5>3, <5>5, <5>6, OverWaits
        <5> QED  BY <5>3, <5>7
      <4> QED  BY <4>1, <4>2, <4>3, InHandler
    <3> QED  BY <3>1, <3>2
  <2>2. Up
    <3>1. ChannelOK(inner, c, stack, Up, seen[c])
      BY <1>1 DEF Tidy, AllTold
    <3> QED  BY <1>1, <2>1, <3>1, Silent
  <2> QED  BY <1>1, <1>3, <2>1, <2>2, ClosesTidy
<1> QED  BY <1>2, <1>3

LEMMA HupTidy ==
  ASSUME Base, Tidy, UNCHANGED user, BottomHup
  PROVE  Tidy'
<1>1. stack = <<>> /\ phase = "open" /\ BottomCloses(stack) /\ UNCHANGED <<inner, connected, phase, seen>>
  BY DEF BottomHup, MainLoopRuns, chainVars
<1>2. Up
  BY <1>1, NobodyOnEmpty DEF Up
<1>3. \A x \in Channels : ~SomeWait(inner, x, stack)
  BY <1>1, NobodyOnEmpty
<1> QED  BY <1>1, <1>2, <1>3, ClosesTidy

LEMMA DropsTidy ==
  ASSUME Base, Tidy, UNCHANGED user, NEW c \in Channels, ClientDrops(c)
  PROVE  Tidy'
<1>1. UNCHANGED <<inner, connected, phase, stack, seen>>
  BY DEF ClientDrops, chainVars
<1> QED  BY <1>1 DEF Tidy, Structure, Linked, AllTold, Up

(* After a use after free in the middle of an emission nothing is said. *)
Tidied == Orderly /\ (~misused \/ stack = <<>>) => Tidy

LEMMA TidyInit == ChannelInit => Tidy
<1> SUFFICES ASSUME ChannelInit PROVE Tidy
  OBVIOUS
<1>1. /\ inner = [c \in Channels |-> NULL] /\ connected = [c \in Channels |-> <<>>]
      /\ stack = <<>> /\ phase = "idle" /\ seen = [c \in Channels |-> "idle"]
  BY DEF ChannelInit
<1>2. Structure
  BY <1>1, NobodyOnEmpty, ConnectingOpens DEF Structure
<1>3. \A c \in Channels : Members(connected[c]) = {} /\ NoTwice(connected[c]) /\ inner[c] = NULL
                          /\ seen[c] # "open"
  BY <1>1 DEF Members, NoTwice
<1>4. Linked
  BY <1>1, <1>3, NobodyOnEmpty DEF Linked
<1>5. \A c \in Channels : ~Hears(inner, connected, c)
  BY <1>3 DEF Hears
<1> QED  BY <1>2, <1>4, <1>5 DEF Tidy, AllTold

LEMMA TidyKept ==
  ASSUME Base, Tidy, ChannelNext, ~misused' \/ stack' = <<>>
  PROVE  Tidy'
<1>1. UNCHANGED user /\ (Emissions \/ Bottoms \/ UserActs)
  BY DEF ChannelNext
<1>2. CASE Emissions
  <2>1. Forward => ~misused'
    BY DEF Forward, Top, ChannelNext
  <2> QED  BY <1>1, <1>2, <2>1, CallsHandlerTidy, ForwardTidy, EmissionEndsTidy, HandlerReturnsTidy
           DEF Emissions
<1>3. CASE Bottoms
  <2>1. BottomOpens => ~misused'
    BY DEF BottomOpens, Top, ChannelNext
  <2> QED  BY <1>1, <1>3, <2>1, ConnectsTidy, OpensTidy, DataTidy, HupTidy, ResetTidy DEF Bottoms
<1>4. CASE UserActs
  BY <1>1, <1>4, ListensTidy, CloseTidy, DropsTidy, SetInnerTidy DEF UserActs
<1> QED  BY <1>1, <1>2, <1>3, <1>4

LEMMA TidiedKept ==
  ASSUME ChannelTyped, OneInner, Tidied, [ChannelNext]_channelVars
  PROVE  Tidied'
<1>1. CASE UNCHANGED channelVars
  BY <1>1 DEF channelVars, chainVars, Tidied, Tidy, Structure, Linked, AllTold, Up, Orderly
<1>2. CASE ChannelNext
  <2> SUFFICES ASSUME Orderly', ~misused' \/ stack' = <<>> PROVE Tidy'
    BY DEF Tidied
  <2>1. Orderly /\ ~misused
    BY <1>2 DEF ChannelNext, Orderly
  <2>2. Base /\ Tidy
    BY <2>1 DEF Base, Tidied
  <2> QED  BY <1>2, <2>2, TidyKept
<1> QED  BY <1>1, <1>2

LEMMA TidyMeans == ChannelTyped /\ OneInner /\ Tidied => InStep
<1> SUFFICES ASSUME ChannelTyped, OneInner, Tidied, Orderly, stack = <<>>,
                    NEW c \in Channels, Informed(c)
             PROVE  seen[c] = "open" <=> phase = "open"
  BY DEF InStep
<1>1. Base /\ Tidy
  BY DEF Base, Tidied
<1>2. inner \in Pointers /\ \E v : Leveled(inner, v)
  BY <1>1, BaseWiring DEF Tidy, Wiring
<1>3. Hears(inner, connected, c)
  <2>1. Inwards[c] = Within(inner, c)
    BY <1>2, InwardsIs
  <2> QED  BY <2>1 DEF Informed, Reaches, Hears, Members
<1>4. ChannelOK(inner, c, stack, Up, seen[c])
  BY <1>1, <1>3 DEF Tidy, AllTold
<1>5. Up <=> phase = "open"
  BY NobodyOnEmpty DEF Up
<1>6. ~SomeWait(inner, c, stack)
  BY NobodyOnEmpty
<1> QED  BY <1>4, <1>5, <1>6, Silent

(* Which steps call a handler of the client. *)
LEMMA HandlersOnly ==
  ASSUME Shape, [ChannelNext]_channelVars, HandlerCalled
  PROVE  CallsHandler \/ BottomConnects
<1>1. stack \in Seq(Frames) /\ Len(stack') > Len(stack) /\ Head(stack').op = "handler"
  BY DEF Shape, HandlerCalled
<1>2. ~UNCHANGED stack
  BY <1>1
<1>3. ASSUME NEW x, NEW f, NEW sig, NEW rest, Emits(x, f, sig, rest), rest \in Seq(Frames)
      PROVE  FALSE
  <2>1. Head(stack') = Emit(x, f, sig, connected[x])
    BY <1>3 DEF Emits
  <2> QED  BY <1>1, <2>1 DEF Emit
<1>4. ~BottomCloses(stack)
  <2>1. <<Reset>> \o stack \in Seq(Frames)
    BY <1>1, OtherFrames
  <2> QED  BY <1>3, <2>1 DEF BottomCloses
<1>5. stack # <<>> => Tail(stack) \in Seq(Frames) /\ Len(Tail(stack)) = Len(stack) - 1 /\ Len(stack) \in Nat
  BY <1>1
<1>6. ~(stack # <<>> /\ stack' = Tail(stack))
  BY <1>1, <1>5
<1>7. ~UserActs
  BY <1>2, <1>4 DEF UserActs, ClientListens, lm_channel_close, ClientDrops, lm_channel_set_inner
<1>8. Bottoms => BottomConnects
  <2>1. ~BottomOpens
    BY <1>2, <1>3, <1>5 DEF BottomOpens, Top
  <2>2. ~BottomData
    <3>1. <<>> \in Seq(Frames)
      OBVIOUS
    <3> QED  BY <1>3, <3>1 DEF BottomData
  <2>3. ~BottomHup
    BY <1>4 DEF BottomHup, MainLoopRuns
  <2>4. ~BottomReset
    BY <1>6 DEF BottomReset, Top
  <2> QED  BY <2>1, <2>2, <2>3, <2>4 DEF Bottoms
<1>9. Emissions => CallsHandler
  <2>1. ~EmissionEnds /\ ~HandlerReturns
    BY <1>6 DEF EmissionEnds, HandlerReturns, Top
  <2>2. ~Forward
    <3> SUFFICES ASSUME Forward PROVE FALSE
      OBVIOUS
    <3> DEFINE e == Head(stack)
    <3>1. Top("emit") /\ e.todo # <<>> /\ Emits(Head(e.todo), e.channel, e.sig, Rest(e))
      BY <1>2 DEF Forward, channel_inner_cb
    <3>2. Rest(e) \in Seq(Frames)
      BY <1>1, <3>1, OneHandlerOn
    <3> QED  BY <1>3, <3>1, <3>2
  <2> QED  BY <2>1, <2>2 DEF Emissions
<1> QED  BY <1>2, <1>7, <1>8, <1>9 DEF ChannelNext, channelVars

LEMMA HandlersInOrder ==
  ASSUME ChannelTyped, OneInner, Tidied, [ChannelNext]_channelVars, Orderly, HandlerCalled
  PROVE  LET h == Head(stack') IN
         CASE h.sig = "opened" -> seen[h.channel] = "idle"
           [] h.sig = "connect_result" -> TRUE
           [] OTHER -> seen[h.channel] = "open"
<1> DEFINE h == Head(stack')
<1>1. CallsHandler \/ BottomConnects
  BY HandlersOnly DEF OneInner
<1>2. CASE BottomConnects
  <2>1. h = Handler(Bottom, "connect_result")
    BY <1>2 DEF BottomConnects
  <2>2. h.sig = "connect_result"
    BY <2>1 DEF Handler
  <2> HIDE DEF h
  <2> QED  BY <2>2 DEF h
<1>3. CASE CallsHandler
  <2> DEFINE e == Head(stack)
  <2>1. Top("emit") /\ e.todo # <<>> /\ Head(e.todo) = Client /\ stack' = <<Handler(e.channel, e.sig)>> \o Rest(e)
    BY <1>3 DEF CallsHandler
  <2>2. Rest(e) \in Seq(Frames)
    BY <2>1, OneHandlerOn DEF OneInner, Shape
  <2>3. h = Handler(e.channel, e.sig)
    BY <2>1, <2>2
  <2>4. h.channel = e.channel /\ h.sig = e.sig
    BY <2>3 DEF Handler
  <2>5. ~UNCHANGED channelVars
    BY DEF OneInner, Shape, HandlerCalled, channelVars
  <2>6. Base /\ Tidy
    BY <2>5 DEF Base, Tidied, ChannelNext
  <2>7. (e.sig = "opened" => seen[e.channel] = "idle") /\ (e.sig # "opened" => seen[e.channel] = "open")
    BY <2>1, <2>6, ClientsTurn
  <2> HIDE DEF h, e
  <2>8. CASE h.sig = "opened"
    BY <2>4, <2>7, <2>8 DEF h
  <2>9. CASE h.sig # "opened"
    BY <2>4, <2>7, <2>9 DEF h
  <2> QED  BY <2>8, <2>9
<1> QED  BY <1>1, <1>2, <1>3

(* However high the stack is, in whatever order its handlers were          *)
(* connected and however the calls nest: between two turns of the main     *)
(* loop every level has told the client what is so of the socket.          *)
THEOREM InStepAlways == ChannelSpec => []InStep
<1>1. Inv /\ OneInner /\ [ChannelNext]_channelVars => OneInner'
  BY OneInnerKept
<1>2. ChannelTyped => Inv
  BY DEF ChannelTyped
<1>3. ChannelTyped /\ OneInner /\ Tidied /\ [ChannelNext]_channelVars => Tidied'
  BY TidiedKept
<1>4. ChannelInit => Tidied
  BY TidyInit DEF Tidied
<1> QED  BY <1>1, <1>2, <1>3, <1>4, ChannelTypedInit, ChannelTypedKept, OneInnerInit, TidyMeans, PTL
         DEF ChannelSpec

(* And no handler of the client is called out of order: opened only at a   *)
(* level that was told closed last, data and closed only at one that was   *)
(* told opened.                                                            *)
THEOREM InOrderAlways == ChannelSpec => InOrder
<1>1. Inv /\ OneInner /\ [ChannelNext]_channelVars => OneInner'
  BY OneInnerKept
<1>2. ChannelTyped => Inv
  BY DEF ChannelTyped
<1>3. ChannelTyped /\ OneInner /\ Tidied /\ [ChannelNext]_channelVars => Tidied'
  BY TidiedKept
<1>4. ChannelInit => Tidied
  BY TidyInit DEF Tidied
<1>5. ChannelTyped /\ OneInner /\ Tidied /\ [ChannelNext]_channelVars =>
        [Orderly /\ HandlerCalled =>
           LET h == Head(stack') IN
           CASE h.sig = "opened" -> seen[h.channel] = "idle"
             [] h.sig = "connect_result" -> TRUE
             [] OTHER -> seen[h.channel] = "open"]_channelVars
  BY HandlersInOrder
<1> QED  BY <1>1, <1>2, <1>3, <1>4, <1>5, ChannelTypedInit, ChannelTypedKept, OneInnerInit, PTL
         DEF ChannelSpec, InOrder

-----------------------------------------------------------------------------
(* The channel that encrypts *)

-----------------------------------------------------------------------------
(* Types.  A handshake still waits for a message of the peer; this is what *)
(* keeps the count of them in its bounds.                                  *)

FlightsLeft == call = "handshake" => flights < Flights

Typed == TypeOK /\ FlightsLeft

LEMMA InitTypes == Init => Typed
<1> SUFFICES ASSUME Init PROVE Typed
  OBVIOUS
<1>1. 0 \in 0 .. Flights /\ 0 \in 0 .. Room /\ 0 \in 0 .. MaxOpens
  BY BoundAssumption DEF BoundAssumption
<1>2. last \in [op : {"none", "read", "write"}, status : Statuses, failed : BOOLEAN]
  BY DEF Init, Nothing, Statuses
<1>3. incoming \in Seq(Messages)
  BY DEF Init
<1>4. careful \in BOOLEAN
  BY RegimeAssumption DEF RegimeAssumption, Init
<1> QED  BY <1>1, <1>2, <1>3, <1>4 DEF Init, Typed, TypeOK, FlightsLeft

LEMMA WireTypes ==
  ASSUME TypeOK, (Readable /\ Pull) \/ Sends \/ UNCHANGED wireVars
  PROVE  incoming' \in Seq(Messages) /\ unsent' \in 0 .. Room /\ peer' \in {"up", "gone"}
<1>1. CASE Readable /\ Pull
  <2>1. incoming \in Seq(Messages) /\ incoming # <<>>  BY <1>1 DEF TypeOK, Readable
  <2>2. Tail(incoming) \in Seq(Messages)  BY <2>1, HeadTailProperties
  <2> QED  BY <1>1, <2>2 DEF Pull, TypeOK
<1>2. CASE Sends
  BY <1>2, BoundAssumption
  DEF BoundAssumption, Sends, Push, Writeable, wireVars, TypeOK
<1>3. CASE UNCHANGED wireVars
  BY <1>3 DEF wireVars, TypeOK
<1> QED  BY <1>1, <1>2, <1>3

LEMMA ReturnTypes ==
  ASSUME NEW op \in {"read", "write"}, NEW status \in Statuses, NEW failed \in BOOLEAN,
         Return(op, status, failed)
  PROVE  /\ call' = "none"
         /\ last' \in [op : {"none", "read", "write"}, status : Statuses, failed : BOOLEAN]
  BY DEF Return

LEMMA HandshakeTypes == Typed /\ UNCHANGED careful /\ gnutls_handshake => Typed'
<1> SUFFICES ASSUME Typed, UNCHANGED careful, gnutls_handshake PROVE Typed'
  OBVIOUS
<1> USE DEF gnutls_handshake, historyVars, Typed
<1>1. (Readable /\ Pull) \/ UNCHANGED wireVars
  BY DEF FlightComes, HandshakeFails, HandshakeAgain
<1>2. /\ incoming' \in Seq(Messages) /\ unsent' \in 0 .. Room /\ peer' \in {"up", "gone"}
  BY <1>1, WireTypes
<1>3. flights' \in 0 .. Flights /\ FlightsLeft'
  BY BoundAssumption
  DEF BoundAssumption, FlightsLeft, TypeOK, FlightComes, HandshakeFails, HandshakeAgain,
      HandshakeResult
<1>4. auth_ok' \in BOOLEAN
  <2>1. CASE FlightComes
    BY <2>1 DEF FlightComes, TypeOK, gnutls_channel_verify_certificate
  <2> QED  BY <2>1 DEF HandshakeFails, HandshakeAgain, TypeOK
<1>5. Nothing \in [op : {"none", "read", "write"}, status : Statuses, failed : BOOLEAN]
  BY DEF Nothing, Statuses
<1>6. call' \in {"none", "handshake"} /\ is_encrypted' \in BOOLEAN /\ leaked' \in BOOLEAN
  BY DEF TypeOK, FlightComes, HandshakeFails, HandshakeAgain, HandshakeResult, HandshakeEnds
<1>7. last' \in [op : {"none", "read", "write"}, status : Statuses, failed : BOOLEAN]
  BY <1>5 DEF TypeOK, FlightComes, HandshakeFails, HandshakeAgain, HandshakeResult
<1>8. session' \in {session, "fresh", "failed", "secure"}
  BY DEF FlightComes, HandshakeFails, HandshakeAgain, HandshakeResult
<1> QED  BY <1>2, <1>3, <1>4, <1>6, <1>7, <1>8 DEF TypeOK

LEMMA EntersTypes ==
  ASSUME Typed, NEW function \in {"read", "write"}, Enters(function),
         call = "none", UNCHANGED flights
  PROVE  /\ call' = function /\ last' = last /\ plain' = plain
         /\ UNCHANGED wireVars
  BY DEF Enters

LEMMA CallTypes ==
  Typed /\ UNCHANGED careful /\ (gnutls_channel_read \/ gnutls_channel_write) => Typed'
<1> SUFFICES ASSUME Typed, UNCHANGED careful, gnutls_channel_read \/ gnutls_channel_write PROVE Typed'
  OBVIOUS
<1> USE DEF Typed, tlsVars
<1>1. (Readable /\ Pull) \/ Sends \/ UNCHANGED wireVars
  BY DEF gnutls_channel_read, gnutls_channel_write, Enters, PlainRead, PlainWrite
<1>2. /\ incoming' \in Seq(Messages) /\ unsent' \in 0 .. Room /\ peer' \in {"up", "gone"}
  BY <1>1, WireTypes
<1>3. /\ call' \in {"none", "read", "write"} /\ plain' \in BOOLEAN
      /\ last' \in [op : {"none", "read", "write"}, status : Statuses, failed : BOOLEAN]
      /\ fate' \in {"running", "use_after_free", "assert"}
  <2>1. CASE gnutls_channel_read
    <3>1. CASE Enters("read") /\ (UsesFreed \/ (session # "freed" /\ UNCHANGED fate))
      BY <3>1 DEF Enters, UsesFreed, TypeOK
    <3>2. CASE PlainRead
      <4>1. PICK status \in Statuses : Return("read", status, FALSE)
        BY <3>2 DEF PlainRead, Statuses
      <4> QED  BY <3>2, <4>1, ReturnTypes DEF PlainRead, TypeOK
    <3> QED  BY <2>1, <3>1, <3>2 DEF gnutls_channel_read
  <2>2. CASE gnutls_channel_write
    <3>1. CASE Enters("write") /\ (UsesFreed \/ (session # "freed" /\ UNCHANGED fate))
      BY <3>1 DEF Enters, UsesFreed, TypeOK
    <3>2. CASE PlainWrite
      <4>1. PICK status \in Statuses, failed \in BOOLEAN : Return("write", status, failed)
        BY <3>2 DEF PlainWrite, Statuses
      <4> QED  BY <3>2, <4>1, ReturnTypes DEF PlainWrite, TypeOK
    <3> QED  BY <2>2, <3>1, <3>2 DEF gnutls_channel_write
  <2> QED  BY <2>1, <2>2
<1> QED  BY <1>2, <1>3
  DEF gnutls_channel_read, gnutls_channel_write, TypeOK, FlightsLeft

LEMMA TurnTypes == Typed /\ UNCHANGED careful /\ (RecvTurn \/ SendTurn) => Typed'
<1> SUFFICES ASSUME Typed, UNCHANGED careful, RecvTurn \/ SendTurn PROVE Typed'
  OBVIOUS
<1> USE DEF Typed, tlsVars, historyVars
<1>1. (Readable /\ Pull) \/ Sends \/ UNCHANGED wireVars
  BY DEF RecvTurn, SendTurn, RecordComes, ReadFails, RecvError, RecordSent, SendFails
<1>2. /\ incoming' \in Seq(Messages) /\ unsent' \in 0 .. Room /\ peer' \in {"up", "gone"}
  BY <1>1, WireTypes
<1>3. PICK op \in {"read", "write"}, status \in Statuses, failed \in BOOLEAN :
           Return(op, status, failed)
  BY DEF RecvTurn, SendTurn, RecordComes, ReadFails, RecvError, RecordSent, SendFails, StatusOf,
         Statuses
<1>4. /\ call' = "none"
      /\ last' \in [op : {"none", "read", "write"}, status : Statuses, failed : BOOLEAN]
  BY <1>3, ReturnTypes
<1>5. session' \in {session, "failed"} /\ UNCHANGED flights
  BY DEF RecvTurn, SendTurn, RecordComes, ReadFails, RecvError
<1> QED  BY <1>2, <1>4, <1>5 DEF RecvTurn, SendTurn, TypeOK, FlightsLeft

LEMMA RestTypes ==
  ASSUME Typed, UNCHANGED careful,
         \/ gnutls_channel_start_handshake \/ gnutls_channel_close
         \/ gnutls_channel_finalize \/ lm_secure_channel_is_encrypted
         \/ SocketOpens \/ SocketHup \/ Peer
  PROVE  Typed'
<1> USE BoundAssumption DEF BoundAssumption, Typed, TypeOK, FlightsLeft, tlsVars, wireVars,
        historyVars
<1>1. CASE gnutls_channel_start_handshake
  BY <1>1 DEF gnutls_channel_start_handshake, gnutls_init, Writeable
<1>2. CASE gnutls_channel_close
  <2>1. Nothing \in [op : {"none", "read", "write"}, status : Statuses, failed : BOOLEAN]
    BY DEF Nothing, Statuses
  <2>2. <<>> \in Seq(Messages)
    OBVIOUS
  <2> QED  BY <1>2, <2>1, <2>2
    DEF gnutls_channel_close, ByeAndDeinit, UsesFreed, SocketClosed, MayClose, ClientCalls
<1>3. CASE gnutls_channel_finalize
  BY <1>3 DEF gnutls_channel_finalize
<1>4. CASE lm_secure_channel_is_encrypted
  BY <1>4 DEF lm_secure_channel_is_encrypted
<1>5. CASE SocketOpens
  <2>1. opens' \in 0 .. MaxOpens /\ unsent' \in 0 .. Room
    BY <1>5 DEF SocketOpens
  <2>2. incoming' \in Seq(Messages)
    BY <1>5 DEF SocketOpens
  <2>3. /\ UNCHANGED <<is_encrypted, session, flights, auth_ok, leaked, life, call, last,
                      fate>>
        /\ socket' = "open" /\ peer' = "up" /\ asked' = FALSE /\ closings' = 0
        /\ plain' = FALSE
    BY <1>5 DEF SocketOpens
  <2>4. FlightsLeft'
    BY <2>3
  <2>5. opens' \in 0 .. MaxOpens /\ unsent' \in 0 .. Room /\ incoming' \in Seq(Messages)
    BY <2>1, <2>2
  <2>6. is_encrypted' \in BOOLEAN /\ auth_ok' \in BOOLEAN /\ leaked' \in BOOLEAN
    BY <2>3
  <2>7. asked' \in BOOLEAN /\ plain' \in BOOLEAN
    BY <2>3
  <2> QED  BY <2>3, <2>4, <2>5, <2>6, <2>7
<1>6. CASE SocketHup
  BY <1>6 DEF SocketHup, Hup, SocketClosed
<1>7. CASE PeerSends
  BY <1>7 DEF PeerSends, PeerStep
<1>8. CASE PeerTakes
  BY <1>8 DEF PeerTakes, PeerStep
<1>9. CASE PeerCloses
  BY <1>9 DEF PeerCloses, PeerStep
<1> QED  BY <1>1, <1>2, <1>3, <1>4, <1>5, <1>6, <1>7, <1>8, <1>9 DEF Peer

LEMMA TypesKept == Typed /\ [Next]_vars => Typed'
<1> SUFFICES ASSUME Typed, [Next]_vars PROVE Typed'
  OBVIOUS
<1>1. CASE UNCHANGED vars
  BY <1>1 DEF vars, tlsVars, wireVars, historyVars, Typed, TypeOK, FlightsLeft
<1> QED  BY <1>1, HandshakeTypes, CallTypes, TurnTypes, RestTypes
  DEF Next, Turns, ClientActs

(* Every state is of the types declared, and a handshake never counts more *)
(* messages than it has (gnutls_channel_start_handshake starts afresh).    *)
THEOREM TypeOKAlways == Spec => []TypeOK
<1>1. Typed => TypeOK
  BY DEF Typed
<1> QED  BY <1>1, InitTypes, TypesKept, PTL DEF Spec

-----------------------------------------------------------------------------
(* From start_handshake on, nothing passes in the clear *)

Guarded == ~plain /\ (asked => is_encrypted \/ call = "handshake")

LEMMA GuardedKept == Guarded /\ [Next]_vars => Guarded'
<1> SUFFICES ASSUME Guarded, [Next]_vars PROVE Guarded'
  OBVIOUS
<1> USE DEF Guarded, tlsVars, wireVars, historyVars
<1>1. CASE gnutls_handshake
  BY <1>1 DEF gnutls_handshake, FlightComes, HandshakeFails, HandshakeAgain,
              HandshakeResult, HandshakeEnds
<1>2. CASE gnutls_channel_read
  BY <1>2 DEF gnutls_channel_read, MayUse, ClientCalls, PlainRead, Enters
<1>3. CASE gnutls_channel_write
  BY <1>3 DEF gnutls_channel_write, MayUse, ClientCalls, PlainWrite, Enters
<1>4. CASE RecvTurn \/ SendTurn
  BY <1>4 DEF RecvTurn, SendTurn
<1>5. CASE gnutls_channel_start_handshake \/ gnutls_channel_close
  BY <1>5 DEF gnutls_channel_start_handshake, gnutls_channel_close
<1>6. CASE gnutls_channel_finalize \/ lm_secure_channel_is_encrypted \/ SocketOpens
  BY <1>6 DEF gnutls_channel_finalize, lm_secure_channel_is_encrypted, SocketOpens
<1>7. CASE SocketHup \/ Peer
  BY <1>7 DEF SocketHup, Peer, PeerSends, PeerTakes, PeerCloses, PeerStep
<1>8. CASE UNCHANGED vars
  BY <1>8 DEF vars
<1> QED  BY <1>1, <1>2, <1>3, <1>4, <1>5, <1>6, <1>7, <1>8 DEF Next, Turns, ClientActs

(* No read or write after start_handshake goes to the inner channel as it  *)
(* is, whatever became of the handshake, and whatever the client calls.    *)
THEOREM PlainOnlyBeforeAlways == Spec => []PlainOnlyBefore
<1>1. Init => Guarded
  BY DEF Init, Guarded
<1>2. Guarded => PlainOnlyBefore
  BY DEF Guarded, PlainOnlyBefore
<1> QED  BY <1>1, <1>2, GuardedKept, PTL DEF Spec

-----------------------------------------------------------------------------
(* The lifetime of a session, with a careful client: there is a session    *)
(* exactly from the handshake of a connection to the close of the channel. *)

Lifetimes ==
  /\ fate # "use_after_free" /\ ~leaked /\ closings \in Nat
  /\ session \in {"none", "fresh", "failed", "secure", "freed"}
  /\ AliveSession <=> asked /\ closings = 0
  /\ socket = "open" => closings = 0 /\ opens > 0
  /\ opens \in Nat /\ (asked => opens > 0)
  /\ opens <= 1 /\ ~asked => ~is_encrypted
  /\ asked => is_encrypted \/ call = "handshake"
  /\ call = "handshake" => asked /\ closings = 0

LEMMA LifetimesKept ==
  ASSUME careful, Lifetimes, [Next]_vars
  PROVE  Lifetimes'
<1> USE DEF Lifetimes, AliveSession, tlsVars, wireVars,
        historyVars
<1>1. CASE gnutls_handshake
  BY <1>1 DEF gnutls_handshake, FlightComes, HandshakeFails, HandshakeAgain,
              HandshakeResult, HandshakeEnds
<1>2. CASE gnutls_channel_read
  BY <1>2 DEF gnutls_channel_read, MayUse, ClientCalls, PlainRead, Enters, UsesFreed, Return
<1>3. CASE gnutls_channel_write
  BY <1>3 DEF gnutls_channel_write, MayUse, ClientCalls, PlainWrite, Enters, UsesFreed,
              Return
<1>4. CASE RecvTurn \/ SendTurn
  <2>1. session' = session \/ (session = "secure" /\ session' = "failed")
    BY <1>4 DEF RecvTurn, SendTurn, RecordComes, ReadFails, RecvError
  <2>2. call' = "none" /\ call \in {"read", "write"}
    BY <1>4 DEF RecvTurn, SendTurn, RecordComes, ReadFails, RecvError, RecordSent, SendFails, Return
  <2>3. UNCHANGED <<is_encrypted, leaked, socket, opens, asked, closings, fate>>
    BY <1>4 DEF RecvTurn, SendTurn
  <2> QED  BY <2>1, <2>2, <2>3
<1>5. CASE gnutls_channel_start_handshake
  BY <1>5 DEF gnutls_channel_start_handshake, gnutls_init, ClientCalls
<1>6. CASE gnutls_channel_close
  BY <1>6 DEF gnutls_channel_close, MayClose, ClientCalls, ByeAndDeinit, UsesFreed,
              SocketClosed
<1>7. CASE gnutls_channel_finalize
  <2>1. ~AliveSession
    BY <1>7 DEF gnutls_channel_finalize, MayLeave
  <2>2. ~leaked'
    BY <1>7, <2>1 DEF gnutls_channel_finalize
  <2>3. UNCHANGED <<is_encrypted, session, socket, call, opens, asked, closings, fate>>
    BY <1>7 DEF gnutls_channel_finalize
  <2> QED  BY <2>2, <2>3
<1>8. CASE lm_secure_channel_is_encrypted
  BY <1>8 DEF lm_secure_channel_is_encrypted
<1>9. CASE SocketOpens
  BY <1>9 DEF SocketOpens, MayLeave, ClientCalls
<1>10. CASE SocketHup
  BY <1>10 DEF SocketHup, Hup, SocketClosed
<1>11. CASE Peer
  BY <1>11 DEF Peer, PeerSends, PeerTakes, PeerCloses, PeerStep
<1>12. CASE UNCHANGED vars
  BY <1>12 DEF vars
<1> QED  BY <1>1, <1>2, <1>3, <1>4, <1>5, <1>6, <1>7, <1>8, <1>9, <1>10, <1>11, <1>12
  DEF Next, Turns, ClientActs

Careful == careful => Lifetimes

LEMMA CarefulInit == Init => Careful
  BY DEF Init, Careful, Lifetimes, AliveSession

LEMMA CarefulKept == Careful /\ [Next]_vars => Careful'
<1> SUFFICES ASSUME Careful, [Next]_vars, careful' PROVE Lifetimes'
  BY DEF Careful
<1>1. careful
  BY DEF Next, vars
<1> QED  BY <1>1, LifetimesKept DEF Careful

(* A careful client never reaches a session after gnutls_deinit, over any  *)
(* number of connections, although close leaves is_encrypted set.          *)
THEOREM SessionValidAlways == Spec => []SessionValid
<1>1. Careful => SessionValid
  BY DEF Careful, Lifetimes, SessionValid
<1> QED  BY <1>1, CarefulInit, CarefulKept, PTL DEF Spec

(* Nor does it lose one: each session is freed before the next is made, or *)
(* before the channel is.                                                  *)
THEOREM SessionNotLeakedAlways == Spec => []SessionNotLeaked
<1>1. Careful => SessionNotLeaked
  BY DEF Careful, Lifetimes, SessionNotLeaked
<1> QED  BY <1>1, CarefulInit, CarefulKept, PTL DEF Spec

(* Each session is freed once, after its last use.                         *)
THEOREM SessionFreedOnceAlways == Spec => []SessionFreedOnce
<1>1. Careful => SessionFreedOnce
  BY DEF Careful, Lifetimes, SessionFreedOnce, SessionValid, SessionNotLeaked
<1> QED  BY <1>1, CarefulInit, CarefulKept, PTL DEF Spec

-----------------------------------------------------------------------------
(* The check of the certificate never says no *)

Accepted == auth_ok = TRUE

LEMMA AcceptedKept == Accepted /\ [Next]_vars => Accepted'
<1> SUFFICES ASSUME Accepted, [Next]_vars PROVE Accepted'
  OBVIOUS
<1> USE DEF Accepted
<1>1. CASE gnutls_handshake
  BY <1>1 DEF gnutls_handshake, FlightComes, HandshakeFails, HandshakeAgain,
              gnutls_channel_verify_certificate, gnutls_channel_request_user_cert_feedback
<1>2. CASE RecvTurn \/ SendTurn
  BY <1>2 DEF RecvTurn, SendTurn, RecordComes, ReadFails, tlsVars
<1>3. CASE ClientActs
  BY <1>3 DEF ClientActs, gnutls_channel_start_handshake, gnutls_channel_read,
     gnutls_channel_write, gnutls_channel_close, gnutls_channel_finalize,
     lm_secure_channel_is_encrypted, SocketOpens, tlsVars
<1>4. CASE SocketHup \/ Peer
  BY <1>4 DEF SocketHup, Peer, PeerSends, PeerTakes, PeerCloses, PeerStep, tlsVars
<1>5. CASE UNCHANGED vars
  BY <1>5 DEF vars, tlsVars
<1> QED  BY <1>1, <1>2, <1>3, <1>4, <1>5 DEF Next, Turns

-----------------------------------------------------------------------------
(* What a single step of a read returns *)

LEMMA ReadReturns ==
  ASSUME [Next]_vars, call = "read", call' = "none", last'.status = "NORMAL"
  PROVE  session = "secure" /\ Head(incoming) = "record"
<1>1. ~UNCHANGED call
  OBVIOUS
<1>2. RecvTurn
  <2>1. ~ClientActs
    BY <1>1 DEF ClientActs, gnutls_channel_start_handshake, gnutls_channel_read,
       gnutls_channel_write, gnutls_channel_close, gnutls_channel_finalize,
       lm_secure_channel_is_encrypted, SocketOpens, MayUse, MayClose, ClientCalls
  <2>2. ~gnutls_handshake /\ ~SendTurn
    BY DEF gnutls_handshake, SendTurn
  <2>3. ~SocketHup /\ ~Peer
    BY <1>1 DEF SocketHup, Peer, PeerSends, PeerTakes, PeerCloses, PeerStep
  <2> QED  BY <1>1, <2>1, <2>2, <2>3 DEF Next, Turns, vars
<1>3. RecordComes
  BY <1>2 DEF RecvTurn, ReadFails, Return
<1> QED  BY <1>3 DEF RecordComes, Return

(* What the client reads as data is a record of a session whose handshake  *)
(* finished, although is_encrypted says nothing about that, and whose      *)
(* certificate the check did not refuse.                                   *)
THEOREM DataOnlyFromSecureAlways == Spec => DataOnlyFromSecure
<1>1. Accepted /\ [Next]_vars =>
        [call = "read" /\ call' = "none" /\ last'.status = "NORMAL"
           => session = "secure" /\ auth_ok /\ Head(incoming) = "record"]_vars
  BY ReadReturns DEF Accepted
<1>2. Init => Accepted
  BY DEF Init, Accepted
<1> QED  BY <1>1, <1>2, AcceptedKept, PTL DEF Spec, DataOnlyFromSecure

-----------------------------------------------------------------------------
(* Both together: each step is one of a part, and the other rests. *)

LEMMA EachChannel == [MCNext]_mcVars => [ChannelNext]_channelVars /\ [Next]_vars
  BY DEF MCNext, mcVars

(* Every variable of both parts keeps to its type.                         *)
THEOREM TypesOKAlways == MCSpec => []TypesOK
<1>1. MCInit => ChannelTyped /\ Typed
  BY ChannelTypedInit, InitTypes DEF MCInit
<1>2. ChannelTyped /\ Typed /\ [MCNext]_mcVars => ChannelTyped' /\ Typed'
  BY EachChannel, ChannelTypedKept, TypesKept
<1>3. ChannelTyped /\ Typed => TypesOK
  BY ChannelTypedMeans DEF Typed, TypesOK
<1> QED  BY <1>1, <1>2, <1>3, PTL DEF MCSpec
=============================================================================
