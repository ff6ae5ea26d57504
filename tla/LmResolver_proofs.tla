-------------------------- MODULE LmResolver_proofs --------------------------
(***************************************************************************)
(* What the two classes of resolvers have in common: each reference that a *)
(* resolver counts is its own, its client's, or that of an emission that   *)
(* is under way.  First come counts over a call stack, then what each of   *)
(* the steps of LmResolver does to the references, whichever class's       *)
(* function takes it.                                                      *)
(***************************************************************************)
EXTENDS LmResolver, FiniteSetTheorems, SequenceTheorems, TLAPS

(* How often a sequence has an element of some kind. *)
PlacesOf(T, s) == {k \in 1 .. Len(s) : s[k] \in T}

Count(T, s) == Cardinality(PlacesOf(T, s))

(* A count is a number, and it is not zero if there is something to count. *)
LEMMA CountNat ==
  ASSUME NEW S, NEW s \in Seq(S), NEW T
  PROVE  /\ IsFiniteSet(PlacesOf(T, s)) /\ Count(T, s) \in Nat
         /\ Count(T, s) = 0 <=> \A k \in 1 .. Len(s) : s[k] \notin T
<1>1. IsFiniteSet(1 .. Len(s)) /\ PlacesOf(T, s) \subseteq 1 .. Len(s)
  BY FS_Interval DEF PlacesOf
<1>2. IsFiniteSet(PlacesOf(T, s)) /\ Count(T, s) \in Nat
  BY <1>1, FS_Subset, FS_CardinalityType DEF Count
<1>3. Count(T, s) = 0 <=> PlacesOf(T, s) = {}
  BY <1>2, FS_EmptySet DEF Count
<1> QED  BY <1>2, <1>3 DEF PlacesOf

LEMMA CountNone == ASSUME NEW T PROVE Count(T, <<>>) = 0
<1>1. PlacesOf(T, <<>>) = {}
  BY DEF PlacesOf
<1> QED  BY <1>1, FS_EmptySet DEF Count

(* Places move by one when something is put before them. *)
LEMMA Shifted ==
  ASSUME NEW I, I \subseteq Nat, IsFiniteSet(I)
  PROVE  /\ IsFiniteSet({k + 1 : k \in I})
         /\ Cardinality({k + 1 : k \in I}) = Cardinality(I)
<1> DEFINE J == {k + 1 : k \in I}
           g == [k \in I |-> k + 1]
<1>1. g \in Bijection(I, J)
  <2>1. \A a, b \in I : g[a] = g[b] => a = b
    OBVIOUS
  <2>2. g \in [I -> J] /\ \A j \in J : \E k \in I : g[k] = j
    OBVIOUS
  <2> QED  BY <2>1, <2>2 DEF Bijection, Injection, Surjection, IsInjective
<1>2. ExistsBijection(I, J)
  BY <1>1 DEF ExistsBijection
<1> HIDE DEF J, g
<1>3. Cardinality(J) = Cardinality(I) /\ IsFiniteSet(J)
  BY <1>2, FS_Bijection
<1> QED  BY <1>3 DEF J

LEMMA CountPush ==
  ASSUME NEW S, NEW s \in Seq(S), NEW f \in S, NEW T
  PROVE  Count(T, <<f>> \o s) = Count(T, s) + (IF f \in T THEN 1 ELSE 0)
<1> DEFINE J == {k + 1 : k \in PlacesOf(T, s)}
           t == <<f>> \o s
<1>1. IsFiniteSet(PlacesOf(T, s)) /\ Count(T, s) \in Nat /\ PlacesOf(T, s) \subseteq Nat
  BY CountNat DEF PlacesOf
<1>2. Cardinality(J) = Count(T, s) /\ IsFiniteSet(J)
  BY <1>1, Shifted DEF Count
<1>3. Len(t) = Len(s) + 1 /\ t[1] = f /\ \A k \in 1 .. Len(s) : t[k + 1] = s[k]
  OBVIOUS
<1>4. J = {j \in 2 .. Len(t) : t[j] \in T}
  <2>1. ASSUME NEW j \in J PROVE j \in 2 .. Len(t) /\ t[j] \in T
    BY <1>3 DEF PlacesOf
  <2>2. ASSUME NEW j \in 2 .. Len(t), t[j] \in T PROVE j \in J
    <3>1. j - 1 \in 1 .. Len(s) /\ j = (j - 1) + 1
      BY <1>3
    <3>2. j - 1 \in PlacesOf(T, s)
      BY <1>3, <2>2, <3>1 DEF PlacesOf
    <3> QED  BY <3>1, <3>2
  <2> QED  BY <2>1, <2>2
<1> HIDE DEF J, t
<1>5. 1 \notin J
  BY <1>4
<1>6. PlacesOf(T, t) = IF f \in T THEN J \cup {1} ELSE J
  BY <1>3, <1>4 DEF PlacesOf
<1>7. CASE f \in T
  <2>1. Cardinality(J \cup {1}) = Cardinality(J) + 1
    BY <1>2, <1>5, FS_AddElement
  <2> QED  BY <1>2, <1>6, <1>7, <2>1 DEF Count, t
<1>8. CASE f \notin T
  BY <1>1, <1>2, <1>6, <1>8 DEF Count, t
<1> QED  BY <1>7, <1>8

LEMMA CountPop ==
  ASSUME NEW S, NEW s \in Seq(S), s # <<>>, NEW T
  PROVE  /\ Head(s) \in S /\ Tail(s) \in Seq(S)
         /\ Count(T, s) = Count(T, Tail(s)) + (IF Head(s) \in T THEN 1 ELSE 0)
<1>1. Head(s) \in S /\ Tail(s) \in Seq(S) /\ s = <<Head(s)>> \o Tail(s)
  OBVIOUS
<1>2. Count(T, <<Head(s)>> \o Tail(s)) = Count(T, Tail(s)) + (IF Head(s) \in T THEN 1 ELSE 0)
  BY <1>1, CountPush
<1> QED  BY <1>1, <1>2

LEMMA CountAppend ==
  ASSUME NEW S, NEW s \in Seq(S), NEW f \in S, NEW T
  PROVE  Count(T, Append(s, f)) = Count(T, s) + (IF f \in T THEN 1 ELSE 0)
<1> DEFINE t == Append(s, f)
<1>1. IsFiniteSet(PlacesOf(T, s)) /\ Count(T, s) \in Nat
  BY CountNat
<1>2. Len(t) = Len(s) + 1 /\ t[Len(s) + 1] = f /\ \A k \in 1 .. Len(s) : t[k] = s[k]
  OBVIOUS
<1> HIDE DEF t
<1>3. Len(s) + 1 \notin PlacesOf(T, s)
  BY DEF PlacesOf
<1>4. PlacesOf(T, t) = IF f \in T THEN PlacesOf(T, s) \cup {Len(s) + 1} ELSE PlacesOf(T, s)
  BY <1>2 DEF PlacesOf
<1>5. CASE f \in T
  <2>1. Cardinality(PlacesOf(T, s) \cup {Len(s) + 1}) = Cardinality(PlacesOf(T, s)) + 1
    BY <1>1, <1>3, FS_AddElement
  <2> QED  BY <1>4, <1>5, <2>1 DEF Count, t
<1>6. CASE f \notin T
  BY <1>1, <1>4, <1>6 DEF Count, t
<1> QED  BY <1>5, <1>6
-----------------------------------------------------------------------------
(* The invariant *)

FramesOf(op, r) == {f \in Frames : f.op = op /\ f.resolver = r}
Emissions(r) == Count(FramesOf("handler", r), stack)
Finishing(r) == Count(FramesOf("finish", r), stack)
OneIf(b) == IF b THEN 1 ELSE 0

RefShape ==
  /\ life \in [Resolvers -> {"none", "live", "freed"}]
  /\ ref_count \in [Resolvers -> Int]
  /\ held \in [Resolvers -> BOOLEAN]
  /\ told \in [Resolvers -> Seq(ResolverResults)]
  /\ stack \in Seq(Frames)

(* Before a lookup there is nothing, and before finished nobody runs on    *)
(* its behalf.                                                             *)
NotStarted(r) == life[r] = "none" => told[r] = <<>> /\ ~held[r] /\ ref_count[r] = 0
Silent(r) == told[r] = <<>> => Emissions(r) = 0 /\ Finishing(r) = 0

(* An object is there as long as it counts a reference.                    *)
Alive(r) == ref_count[r] \in Nat /\ (life[r] = "live" <=> ref_count[r] # 0)

(* A resolver that has not finished owns itself; one that is finishing     *)
(* still does, and finishes once.                                          *)
Balanced(r) ==
  /\ ref_count[r] = Emissions(r) + Finishing(r) + OneIf(held[r])
                      + OneIf(told[r] = <<>> /\ life[r] # "none")
  /\ Finishing(r) <= 1 /\ Len(told[r]) <= 1

RefInv ==
  /\ RefShape
  /\ \A r \in Resolvers : NotStarted(r) /\ Silent(r) /\ Alive(r)
  /\ habits = {} => fate # "use_after_free" /\ \A r \in Resolvers : Balanced(r)

LEMMA CountsNat ==
  ASSUME RefShape, NEW r
  PROVE  /\ Emissions(r) \in Nat /\ Finishing(r) \in Nat
         /\ \A k \in 1 .. Len(stack) : stack[k].op = "handler" /\ stack[k].resolver = r => Emissions(r) # 0
         /\ \A k \in 1 .. Len(stack) : stack[k].op = "finish" /\ stack[k].resolver = r => Finishing(r) # 0
<1>1. stack \in Seq(Frames)
  BY DEF RefShape
<1>2. \A k \in 1 .. Len(stack) : stack[k] \in Frames
  BY <1>1
<1>3. /\ Emissions(r) \in Nat
      /\ Emissions(r) = 0 <=> \A k \in 1 .. Len(stack) : stack[k] \notin FramesOf("handler", r)
  BY <1>1, CountNat DEF Emissions
<1>4. /\ Finishing(r) \in Nat
      /\ Finishing(r) = 0 <=> \A k \in 1 .. Len(stack) : stack[k] \notin FramesOf("finish", r)
  BY <1>1, CountNat DEF Finishing
<1> QED  BY <1>2, <1>3, <1>4 DEF FramesOf

LEMMA RefInvMeans == RefInv => RefsBalanced /\ NoUseAfterFinalize
<1> SUFFICES ASSUME RefInv PROVE RefsBalanced /\ NoUseAfterFinalize
  OBVIOUS
<1>1. ASSUME NEW r \in Resolvers, habits = {}, life[r] # "none"
      PROVE  ref_count[r] = Cardinality(EmissionsOf(r)) + (IF held[r] THEN 1 ELSE 0)
                              + (IF OwnsItself(r) THEN 1 ELSE 0)
  <2>0. RefShape /\ Balanced(r) /\ Silent(r)
    BY <1>1 DEF RefInv
  <2>1. stack \in Seq(Frames) /\ \A k \in 1 .. Len(stack) : stack[k] \in Frames
    BY <2>0 DEF RefShape
  <2>2. EmissionsOf(r) = PlacesOf(FramesOf("handler", r), stack)
    BY <2>1 DEF EmissionsOf, PlacesOf, FramesOf
  <2>3. FinishingOf(r) = PlacesOf(FramesOf("finish", r), stack)
    BY <2>1 DEF FinishingOf, PlacesOf, FramesOf
  <2>4. Emissions(r) = Cardinality(EmissionsOf(r)) /\ Emissions(r) \in Nat /\ Finishing(r) \in Nat
    BY <2>0, <2>2, CountsNat DEF Emissions, Count
  <2>5. Finishing(r) = 0 <=> FinishingOf(r) = {}
    BY <2>1, <2>3, CountNat DEF Finishing, PlacesOf
  <2>6. told[r] = <<>> => Finishing(r) = 0
    BY <2>0 DEF Silent
  <2>7. CASE told[r] = <<>>
    BY <1>1, <2>0, <2>4, <2>6, <2>7 DEF Balanced, OneIf, OwnsItself
  <2>8. CASE told[r] # <<>> /\ Finishing(r) = 0
    BY <1>1, <2>0, <2>4, <2>5, <2>8 DEF Balanced, OneIf, OwnsItself
  <2>9. CASE told[r] # <<>> /\ Finishing(r) # 0
    <3>1. Finishing(r) = 1
      BY <2>0, <2>4, <2>9 DEF Balanced
    <3> QED  BY <1>1, <2>0, <2>4, <2>5, <2>9, <3>1 DEF Balanced, OneIf, OwnsItself
  <2> QED  BY <2>7, <2>8, <2>9
<1> QED  BY <1>1 DEF RefInv, RefsBalanced, NoUseAfterFinalize

LEMMA RefInvInit == ResolverInit => RefInv
<1> SUFFICES ASSUME ResolverInit PROVE RefInv
  OBVIOUS
<1>1. RefShape
  BY DEF ResolverInit, RefShape
<1>2. \A r \in Resolvers : Emissions(r) = 0 /\ Finishing(r) = 0
  BY CountNone DEF ResolverInit, Emissions, Finishing
<1>3. ASSUME NEW r \in Resolvers PROVE Balanced(r)
  BY <1>2 DEF ResolverInit, Balanced, OneIf
<1> QED  BY <1>1, <1>2, <1>3 DEF ResolverInit, RefInv, NotStarted, Silent, Alive

-----------------------------------------------------------------------------
(* Steps that do nothing to references *)

CountsSame(s) ==
  \A r \in Resolvers : /\ Count(FramesOf("handler", r), s) = Emissions(r)
                       /\ Count(FramesOf("finish", r), s) = Finishing(r)

LEMMA RefSame ==
  ASSUME RefInv, UNCHANGED <<objectVars, told, habits>>,
         stack' \in Seq(Frames), CountsSame(stack'),
         fate' = "use_after_free" => fate = "use_after_free" \/ habits # {}
  PROVE  RefInv'
<1>1. RefShape'
  BY DEF RefInv, RefShape, objectVars
<1>2. \A r \in Resolvers : Emissions(r)' = Emissions(r) /\ Finishing(r)' = Finishing(r)
  BY DEF CountsSame, Emissions, Finishing
<1> QED  BY <1>1, <1>2 DEF RefInv, NotStarted, Silent, Alive, Balanced, objectVars

LEMMA PushedOther ==
  ASSUME NEW s \in Seq(Frames), NEW r \in Resolvers, CountsSame(s)
  PROVE  <<Remove(r)>> \o s \in Seq(Frames) /\ CountsSame(<<Remove(r)>> \o s)
<1>1. Remove(r) \in Frames /\ \A q : Remove(r) \notin FramesOf("handler", q) /\ Remove(r) \notin FramesOf("finish", q)
  BY DEF Remove, Frames, FramesOf
<1>2. ASSUME NEW T, Remove(r) \notin T PROVE Count(T, <<Remove(r)>> \o s) = Count(T, s)
  <2>1. Count(T, <<Remove(r)>> \o s) = Count(T, s) + (IF Remove(r) \in T THEN 1 ELSE 0)
    BY <1>1, CountPush
  <2>2. Count(T, s) \in Nat
    BY CountNat
  <2> QED  BY <1>2, <2>1, <2>2
<1>3. CountsSame(<<Remove(r)>> \o s)
  BY <1>1, <1>2 DEF CountsSame
<1> QED  BY <1>1, <1>3

(* What is on top, and what is left. *)
LEMMA Popped ==
  ASSUME RefShape, stack # <<>>
  PROVE  /\ Tail(stack) \in Seq(Frames) /\ Head(stack) \in Frames /\ Head(stack).resolver \in Resolvers
         /\ \A r : /\ Emissions(r) = Count(FramesOf("handler", r), Tail(stack))
                                       + OneIf(Head(stack).op = "handler" /\ Head(stack).resolver = r)
                   /\ Finishing(r) = Count(FramesOf("finish", r), Tail(stack))
                                       + OneIf(Head(stack).op = "finish" /\ Head(stack).resolver = r)
                   /\ Count(FramesOf("handler", r), Tail(stack)) \in Nat
                   /\ Count(FramesOf("finish", r), Tail(stack)) \in Nat
<1>1. stack \in Seq(Frames)
  BY DEF RefShape
<1>2. Tail(stack) \in Seq(Frames) /\ Head(stack) \in Frames
  BY <1>1
<1>3. Head(stack).resolver \in Resolvers
  BY <1>2 DEF Frames
<1>4. ASSUME NEW op, NEW r
      PROVE  /\ Count(FramesOf(op, r), stack) = Count(FramesOf(op, r), Tail(stack))
                                                  + OneIf(Head(stack).op = op /\ Head(stack).resolver = r)
             /\ Count(FramesOf(op, r), Tail(stack)) \in Nat
  <2>1. Count(FramesOf(op, r), stack) = Count(FramesOf(op, r), Tail(stack))
                                          + (IF Head(stack) \in FramesOf(op, r) THEN 1 ELSE 0)
    BY <1>1, CountPop
  <2>2. Count(FramesOf(op, r), Tail(stack)) \in Nat
    BY <1>2, CountNat
  <2>3. Head(stack) \in FramesOf(op, r) <=> Head(stack).op = op /\ Head(stack).resolver = r
    BY <1>2 DEF FramesOf
  <2> QED  BY <2>1, <2>2, <2>3 DEF OneIf
<1> QED  BY <1>2, <1>3, <1>4 DEF Emissions, Finishing

LEMMA PoppedOther ==
  ASSUME RefShape, Top("remove")
  PROVE  Tail(stack) \in Seq(Frames) /\ CountsSame(Tail(stack))
<1>1. stack # <<>> /\ Head(stack).op = "remove"
  BY DEF Top
<1> QED  BY <1>1, Popped DEF CountsSame, OneIf

LEMMA ReturnCounts ==
  ASSUME RefShape, stack # <<>>, stack' = Tail(stack)
  PROVE  /\ \A q : q # Head(stack).resolver \/ Head(stack).op # "finish" => Finishing(q)' = Finishing(q)
         /\ stack' \in Seq(Frames)
<1>1. ASSUME NEW q, q # Head(stack).resolver \/ Head(stack).op # "finish"
      PROVE  Finishing(q)' = Finishing(q)
  <2>1. /\ Finishing(q) = Count(FramesOf("finish", q), Tail(stack))
                            + OneIf(Head(stack).op = "finish" /\ Head(stack).resolver = q)
        /\ Count(FramesOf("finish", q), Tail(stack)) \in Nat
    BY Popped
  <2>2. OneIf(Head(stack).op = "finish" /\ Head(stack).resolver = q) = 0
    BY <1>1 DEF OneIf
  <2>3. Finishing(q)' = Count(FramesOf("finish", q), Tail(stack))
    BY DEF Finishing
  <2> QED  BY <2>1, <2>2, <2>3
<1> QED  BY <1>1, Popped

-----------------------------------------------------------------------------
(* Steps that take or give back a reference *)

LEMMA RefCreate ==
  ASSUME RefInv, NEW r \in Resolvers, resolver_create(r), UNCHANGED <<told, stack, fate, habits>>
  PROVE  RefInv'
<1>1. PICK own \in BOOLEAN :
        /\ held' = [held EXCEPT ![r] = own]
        /\ ref_count' = [ref_count EXCEPT ![r] = IF own THEN 2 ELSE 1]
  BY DEF resolver_create
<1>2. life[r] = "none" /\ life' = [life EXCEPT ![r] = "live"]
  BY DEF resolver_create
<1>3. RefShape'
  BY <1>1, <1>2 DEF RefInv, RefShape
<1>4. \A q \in Resolvers : Emissions(q)' = Emissions(q) /\ Finishing(q)' = Finishing(q)
  BY DEF Emissions, Finishing
<1>5. told[r] = <<>> /\ Emissions(r) = 0 /\ Finishing(r) = 0
  BY <1>2 DEF RefInv, NotStarted, Silent
<1>6. \A q \in Resolvers : NotStarted(q)' /\ Silent(q)' /\ Alive(q)'
  <2>1. ASSUME NEW q \in Resolvers PROVE NotStarted(q)' /\ Silent(q)'
    BY <1>1, <1>2, <1>4, <1>5 DEF RefInv, RefShape, NotStarted, Silent
  <2>2. ASSUME NEW q \in Resolvers PROVE Alive(q)'
    BY <1>1, <1>2 DEF RefInv, RefShape, Alive
  <2> QED  BY <2>1, <2>2
<1>7. ASSUME habits = {}, NEW q \in Resolvers PROVE Balanced(q)'
  <2>1. CASE q = r
    <3>1. life'[r] = "live" /\ held'[r] = own /\ ref_count'[r] = IF own THEN 2 ELSE 1
      BY <1>1, <1>2 DEF RefInv, RefShape
    <3> QED  BY <1>4, <1>5, <2>1, <3>1 DEF Balanced, OneIf
  <2>2. CASE q # r
    <3>1. life'[q] = life[q] /\ held'[q] = held[q] /\ ref_count'[q] = ref_count[q]
      BY <1>1, <1>2, <2>2 DEF RefInv, RefShape
    <3> QED  BY <1>4, <1>7, <3>1 DEF Balanced, RefInv
  <2> QED  BY <2>1, <2>2
<1> QED  BY <1>3, <1>6, <1>7 DEF RefInv

LEMMA TwoPushed ==
  ASSUME NEW S, NEW a \in S, NEW b \in S, NEW s \in Seq(S)
  PROVE  <<b>> \o s \in Seq(S) /\ <<a, b>> \o s = <<a>> \o (<<b>> \o s)
<1> DEFINE t == <<b>> \o s
           u == <<a, b>> \o s
           v == <<a>> \o t
<1>1. t \in Seq(S) /\ Len(t) = Len(s) + 1 /\ t[1] = b /\ \A k \in 1 .. Len(s) : t[k + 1] = s[k]
  OBVIOUS
<1>2. /\ u \in Seq(S) /\ Len(u) = Len(s) + 2 /\ u[1] = a /\ u[2] = b
      /\ \A k \in 1 .. Len(s) : u[k + 2] = s[k]
  OBVIOUS
<1> HIDE DEF t
<1>3. /\ v \in Seq(S) /\ Len(v) = Len(t) + 1 /\ v[1] = a
      /\ \A k \in 1 .. Len(t) : v[k + 1] = t[k]
  BY <1>1
<1> HIDE DEF u, v
<1>4. ASSUME NEW k \in 1 .. Len(u) PROVE u[k] = v[k]
  <2>1. CASE k <= 2
    BY <1>1, <1>2, <1>3, <2>1
  <2>2. CASE k > 2
    <3>1. k - 2 \in 1 .. Len(s) /\ (k - 2) + 2 = k /\ (k - 2) + 1 = k - 1
          /\ k - 1 \in 1 .. Len(t) /\ (k - 1) + 1 = k
      BY <1>1, <1>2, <2>2
    <3>2. u[k] = s[k - 2] /\ t[k - 1] = s[k - 2] /\ v[k] = t[k - 1]
      BY <1>1, <1>2, <1>3, <3>1
    <3> QED  BY <3>2
  <2> QED  BY <2>1, <2>2
<1>5. Len(u) = Len(v)
  BY <1>1, <1>2, <1>3
<1>6. u = v
  BY <1>2, <1>3, <1>4, <1>5, SeqEqual
<1> QED  BY <1>1, <1>6 DEF t, u, v

LEMMA CountTwo ==
  ASSUME NEW S, NEW a \in S, NEW b \in S, NEW s \in Seq(S), NEW T
  PROVE  Count(T, <<a, b>> \o s) = Count(T, s) + (IF b \in T THEN 1 ELSE 0) + (IF a \in T THEN 1 ELSE 0)
<1> DEFINE t == <<b>> \o s
<1>1. t \in Seq(S) /\ <<a, b>> \o s = <<a>> \o t
  BY TwoPushed
<1>2. Count(T, t) = Count(T, s) + (IF b \in T THEN 1 ELSE 0)
  BY CountPush
<1> HIDE DEF t
<1>3. Count(T, <<a>> \o t) = Count(T, t) + (IF a \in T THEN 1 ELSE 0)
  BY <1>1, CountPush
<1> QED  BY <1>1, <1>2, <1>3

LEMMA EmitCounts ==
  ASSUME RefShape, NEW r \in Resolvers, NEW result \in ResolverResults, NEW rest \in Seq(Frames),
         EmitFinished(r, result, rest), CountsSame(rest)
  PROVE  /\ stack' \in Seq(Frames)
         /\ \A q \in Resolvers : /\ Emissions(q)' = Emissions(q) + OneIf(q = r)
                                /\ Finishing(q)' = Finishing(q) + OneIf(q = r)
                                /\ Emissions(q) \in Nat /\ Finishing(q) \in Nat
         /\ told[r] \in Seq(ResolverResults) /\ told'[r] = Append(told[r], result)
         /\ ref_count'[r] = ref_count[r] + 1
         /\ \A q \in Resolvers \ {r} : told'[q] = told[q] /\ ref_count'[q] = ref_count[q]
<1> DEFINE h == Handler(r, result)
           f == Finish(r)
<1>1. /\ stack' = <<h, f>> \o rest
      /\ ref_count' = [ref_count EXCEPT ![r] = @ + 1]
      /\ told' = [told EXCEPT ![r] = Append(@, result)]
  BY DEF EmitFinished
<1>2. /\ h \in Frames /\ f \in Frames
      /\ \A q : /\ h \in FramesOf("handler", q) <=> q = r
                /\ h \notin FramesOf("finish", q)
                /\ f \in FramesOf("finish", q) <=> q = r
                /\ f \notin FramesOf("handler", q)
  BY DEF Handler, Finish, Frames, FramesOf
<1> HIDE DEF h, f
<1>4. stack' \in Seq(Frames)
  BY <1>1, <1>2
<1>5. ASSUME NEW q \in Resolvers
      PROVE  /\ Emissions(q)' = Emissions(q) + OneIf(q = r)
             /\ Finishing(q)' = Finishing(q) + OneIf(q = r)
             /\ Emissions(q) \in Nat /\ Finishing(q) \in Nat
  <2>1. Emissions(q) \in Nat /\ Finishing(q) \in Nat
    BY CountsNat
  <2>2. ASSUME NEW T
        PROVE  Count(T, stack') = Count(T, rest) + (IF f \in T THEN 1 ELSE 0) + (IF h \in T THEN 1 ELSE 0)
    <3>1. h \in Frames /\ f \in Frames
      BY <1>2
    <3>2. Count(T, <<h, f>> \o rest) = Count(T, rest) + (IF f \in T THEN 1 ELSE 0) + (IF h \in T THEN 1 ELSE 0)
      BY <3>1, CountTwo
    <3> QED  BY <1>1, <3>2
  <2>3. Emissions(q)' = Count(FramesOf("handler", q), stack') /\ Finishing(q)' = Count(FramesOf("finish", q), stack')
    BY DEF Emissions, Finishing
  <2>4. Count(FramesOf("handler", q), rest) = Emissions(q) /\ Count(FramesOf("finish", q), rest) = Finishing(q)
    BY DEF CountsSame
  <2>5. Emissions(q)' = Emissions(q) + OneIf(q = r)
    BY <1>2, <2>1, <2>2, <2>3, <2>4 DEF OneIf
  <2>6. Finishing(q)' = Finishing(q) + OneIf(q = r)
    BY <1>2, <2>1, <2>2, <2>3, <2>4 DEF OneIf
  <2> QED  BY <2>1, <2>5, <2>6
<1>6. told[r] \in Seq(ResolverResults) /\ told'[r] = Append(told[r], result) /\ ref_count'[r] = ref_count[r] + 1
      /\ \A q \in Resolvers \ {r} : told'[q] = told[q] /\ ref_count'[q] = ref_count[q]
  BY <1>1 DEF RefShape
<1> QED  BY <1>4, <1>5, <1>6

(* A resolver that has not finished, or anybody's with a hasty client. *)
LEMMA RefEmit ==
  ASSUME RefInv, NEW r \in Resolvers, NEW result \in ResolverResults, NEW rest \in Seq(Frames),
         EmitFinished(r, result, rest), CountsSame(rest), life[r] = "live",
         habits = {} => told[r] = <<>>, UNCHANGED <<life, held, habits, fate>>
  PROVE  RefInv'
<1>1. /\ ref_count' = [ref_count EXCEPT ![r] = @ + 1]
      /\ told' = [told EXCEPT ![r] = Append(@, result)]
  BY DEF EmitFinished
<1>2. RefShape
  BY DEF RefInv
<1>4. stack' \in Seq(Frames)
  BY <1>2, EmitCounts
<1>5. ASSUME NEW q \in Resolvers
      PROVE  /\ Emissions(q)' = Emissions(q) + OneIf(q = r)
             /\ Finishing(q)' = Finishing(q) + OneIf(q = r)
             /\ Emissions(q) \in Nat /\ Finishing(q) \in Nat
  BY <1>2, EmitCounts
<1>6. told[r] \in Seq(ResolverResults) /\ told'[r] = Append(told[r], result) /\ ref_count'[r] = ref_count[r] + 1
      /\ \A q \in Resolvers \ {r} : told'[q] = told[q] /\ ref_count'[q] = ref_count[q]
  BY <1>2, EmitCounts
<1>7. told'[r] # <<>> /\ Len(told'[r]) = Len(told[r]) + 1
  BY <1>6
<1>8. RefShape'
  BY <1>1, <1>4, <1>6 DEF RefInv, RefShape
<1>9. \A q \in Resolvers : NotStarted(q)' /\ Silent(q)' /\ Alive(q)'
  <2>1. ASSUME NEW q \in Resolvers PROVE NotStarted(q)' /\ Silent(q)'
    <3>1. CASE q = r
      BY <1>7, <3>1 DEF NotStarted, Silent
    <3>2. CASE q # r
      <4>1. /\ Emissions(q)' = Emissions(q) /\ Finishing(q)' = Finishing(q)
            /\ told'[q] = told[q] /\ ref_count'[q] = ref_count[q]
        BY <1>5, <1>6, <3>2 DEF OneIf
      <4> QED  BY <4>1 DEF RefInv, NotStarted, Silent
    <3> QED  BY <3>1, <3>2
  <2>2. ASSUME NEW q \in Resolvers PROVE Alive(q)'
    BY <1>6 DEF RefInv, Alive
  <2> QED  BY <2>1, <2>2
<1>10. ASSUME habits = {}, NEW q \in Resolvers PROVE Balanced(q)'
  <2>1. CASE q = r
    <3>1. told[r] = <<>> /\ Emissions(r) = 0 /\ Finishing(r) = 0 /\ Balanced(r)
      BY <1>10 DEF RefInv, Silent
    <3>2. Emissions(r)' = 1 /\ Finishing(r)' = 1 /\ Len(told'[r]) = 1
      BY <1>5, <1>7, <3>1 DEF OneIf
    <3>3. ref_count[r] = 1 + OneIf(held[r]) /\ ref_count'[r] = 2 + OneIf(held[r])
      BY <1>6, <3>1 DEF Balanced, OneIf
    <3>4. OneIf(told'[r] = <<>> /\ life'[r] # "none") = 0 /\ OneIf(held[r]) \in {0, 1}
      BY <1>7 DEF OneIf
    <3>5. held'[r] = held[r]
      OBVIOUS
    <3> QED  BY <2>1, <3>2, <3>3, <3>4, <3>5 DEF Balanced
  <2>2. CASE q # r
    <3>1. Balanced(q)
      BY <1>10 DEF RefInv
    <3>2. Emissions(q)' = Emissions(q) /\ Finishing(q)' = Finishing(q)
      BY <1>5, <2>2 DEF OneIf
    <3> QED  BY <1>6, <2>2, <3>1, <3>2 DEF Balanced
  <2> QED  BY <2>1, <2>2
<1> QED  BY <1>8, <1>9, <1>10 DEF RefInv

(* An emission or a finish that returns gives its reference back. *)
LEMMA RefReturn ==
  ASSUME RefInv, Top("handler") \/ Top("finish"), UNCHANGED <<held, told, fate, habits>>,
         g_object_unref(Head(stack).resolver), life[Head(stack).resolver] # "freed",
         stack' = Tail(stack)
  PROVE  RefInv'
<1> DEFINE r == Head(stack).resolver
<1>1. stack # <<>> /\ Head(stack).op \in {"handler", "finish"}
  BY DEF Top
<1>2. /\ stack' \in Seq(Frames) /\ r \in Resolvers
      /\ \A q : /\ Emissions(q) = Emissions(q)' + OneIf(Head(stack).op = "handler" /\ r = q)
                /\ Finishing(q) = Finishing(q)' + OneIf(Head(stack).op = "finish" /\ r = q)
                /\ Emissions(q)' \in Nat /\ Finishing(q)' \in Nat
  BY <1>1, Popped DEF RefInv, Emissions, Finishing
<1>3. /\ ref_count' = [ref_count EXCEPT ![r] = @ - 1]
      /\ life' = [life EXCEPT ![r] = IF LastRef(r) THEN "freed" ELSE @]
  BY DEF g_object_unref
<1>4. told[r] # <<>> /\ life[r] = "live"
  BY <1>1, <1>2 DEF RefInv, RefShape, Silent, NotStarted, OneIf
<1>5. RefShape'
  BY <1>2, <1>3 DEF RefInv, RefShape
<1>6. ASSUME NEW q \in Resolvers
      PROVE  /\ ref_count'[q] = IF q = r THEN ref_count[q] - 1 ELSE ref_count[q]
             /\ life'[q] = IF q = r /\ ref_count[q] = 1 THEN "freed" ELSE life[q]
             /\ ref_count[q] \in Int
  BY <1>3 DEF RefInv, RefShape, LastRef
<1> HIDE DEF r
<1>7. \A q \in Resolvers : NotStarted(q)' /\ Silent(q)' /\ Alive(q)'
  <2>1. ASSUME NEW q \in Resolvers PROVE NotStarted(q)'
    BY <1>2, <1>4, <1>6 DEF RefInv, NotStarted
  <2>2. ASSUME NEW q \in Resolvers PROVE Silent(q)'
    BY <1>2 DEF RefInv, Silent, OneIf
  <2>3. ASSUME NEW q \in Resolvers PROVE Alive(q)'
    BY <1>4, <1>6 DEF RefInv, Alive
  <2> QED  BY <2>1, <2>2, <2>3
<1>8. ASSUME habits = {}, NEW q \in Resolvers PROVE Balanced(q)'
  <2>1. Balanced(q)
    BY <1>8 DEF RefInv
  <2>2. CASE q = r
    <3>1. /\ Emissions(q) + Finishing(q) = Emissions(q)' + Finishing(q)' + 1
          /\ Finishing(q)' <= Finishing(q)
      <4>1. CASE Head(stack).op = "handler"
        <5>1. Emissions(q) = Emissions(q)' + 1 /\ Finishing(q) = Finishing(q)' + 0
          BY <1>2, <2>2, <4>1 DEF OneIf
        <5> QED  BY <1>2, <5>1
      <4>2. CASE Head(stack).op = "finish"
        <5>1. Emissions(q) = Emissions(q)' + 0 /\ Finishing(q) = Finishing(q)' + 1
          BY <1>2, <2>2, <4>2 DEF OneIf
        <5> QED  BY <1>2, <5>1
      <4> QED  BY <1>1, <4>1, <4>2
    <3>2. ref_count[q] = Emissions(q) + Finishing(q) + OneIf(held[q]) /\ OneIf(held[q]) \in {0, 1}
          /\ OneIf(told'[q] = <<>> /\ life'[q] # "none") = 0
      BY <1>2, <1>4, <2>1, <2>2 DEF Balanced, OneIf
    <3>3. ref_count'[q] = Emissions(q)' + Finishing(q)' + OneIf(held'[q])
          /\ ref_count'[q] = ref_count[q] - 1
      BY <1>2, <1>6, <2>2, <3>1, <3>2
    <3>5. Finishing(q)' <= 1 /\ Len(told'[q]) <= 1
      <4>1. Finishing(q) <= 1 /\ Len(told[q]) <= 1
        BY <2>1 DEF Balanced
      <4>2. Finishing(q) \in Nat /\ Finishing(q)' \in Nat
        BY <1>2, CountsNat DEF RefInv
      <4> QED  BY <3>1, <4>1, <4>2
    <3>6. ref_count'[q] = Emissions(q)' + Finishing(q)' + OneIf(held'[q]) + 0
          /\ OneIf(held'[q]) \in {0, 1}
      BY <1>2, <3>2, <3>3
    <3> QED  BY <3>2, <3>5, <3>6 DEF Balanced
  <2>3. CASE q # r
    <3>1. Emissions(q)' = Emissions(q) /\ Finishing(q)' = Finishing(q)
      BY <1>2, <2>3 DEF OneIf
    <3> QED  BY <1>6, <2>1, <2>3, <3>1 DEF Balanced
  <2> QED  BY <2>2, <2>3
<1> QED  BY <1>5, <1>7, <1>8 DEF RefInv

(* One that returns to an object that is gone: not with a careful client.  *)
LEMMA RefGone ==
  ASSUME RefInv, Top("handler") \/ Top("finish"),
         life[Head(stack).resolver] = "freed",
         UNCHANGED <<objectVars, told, habits>>, stack' = Tail(stack)
  PROVE  RefInv' /\ habits # {}
<1> DEFINE r == Head(stack).resolver
<1>1. stack # <<>> /\ Head(stack).op \in {"handler", "finish"}
  BY DEF Top
<1>2. /\ stack' \in Seq(Frames) /\ r \in Resolvers
      /\ \A q : /\ Emissions(q) = Emissions(q)' + OneIf(Head(stack).op = "handler" /\ r = q)
                /\ Finishing(q) = Finishing(q)' + OneIf(Head(stack).op = "finish" /\ r = q)
                /\ Emissions(q)' \in Nat /\ Finishing(q)' \in Nat
  BY <1>1, Popped DEF RefInv, Emissions, Finishing
<1>3. habits # {}
  <2> SUFFICES ASSUME habits = {} PROVE FALSE
    OBVIOUS
  <2>1. Balanced(r)
    BY <1>2 DEF RefInv
  <2>2. Emissions(r) + Finishing(r) # 0 /\ Emissions(r) \in Nat /\ Finishing(r) \in Nat
    <3>1. Emissions(r) \in Nat /\ Finishing(r) \in Nat
      BY CountsNat DEF RefInv
    <3>2. Emissions(r) # 0 \/ Finishing(r) # 0
      BY <1>1, <1>2 DEF OneIf
    <3> QED  BY <3>1, <3>2
  <2>3. ref_count[r] # 0
    BY <2>1, <2>2 DEF Balanced, OneIf
  <2> QED  BY <1>2, <2>3 DEF RefInv, Alive
<1>4. RefShape'
  BY <1>2 DEF RefInv, RefShape, objectVars
<1>5. \A q \in Resolvers : NotStarted(q)' /\ Silent(q)' /\ Alive(q)'
  BY <1>2 DEF RefInv, NotStarted, Silent, Alive, OneIf, objectVars
<1> QED  BY <1>3, <1>4, <1>5 DEF RefInv

(* The client's unref. *)
LEMMA RefDrop ==
  ASSUME RefInv, NEW r \in Resolvers, MayUnref(r), g_object_unref(r), life[r] # "freed",
         held' = [held EXCEPT ![r] = FALSE], UNCHANGED <<told, stack, fate, habits>>
  PROVE  RefInv'
<1>1. /\ ref_count' = [ref_count EXCEPT ![r] = @ - 1]
      /\ life' = [life EXCEPT ![r] = IF LastRef(r) THEN "freed" ELSE @]
  BY DEF g_object_unref
<1>2. life[r] = "live" /\ (held[r] \/ habits # {})
  BY DEF MayUnref, RefInv, RefShape, NotStarted
<1>3. RefShape'
  BY <1>1 DEF RefInv, RefShape
<1>4. \A q \in Resolvers : Emissions(q)' = Emissions(q) /\ Finishing(q)' = Finishing(q)
  BY DEF Emissions, Finishing
<1>5. ASSUME NEW q \in Resolvers
      PROVE  /\ ref_count'[q] = IF q = r THEN ref_count[q] - 1 ELSE ref_count[q]
             /\ life'[q] = IF q = r /\ ref_count[q] = 1 THEN "freed" ELSE life[q]
             /\ held'[q] = (q # r /\ held[q])
             /\ ref_count[q] \in Int
  BY <1>1 DEF RefInv, RefShape, LastRef
<1>6. \A q \in Resolvers : NotStarted(q)' /\ Silent(q)' /\ Alive(q)'
  <2>1. ASSUME NEW q \in Resolvers PROVE NotStarted(q)' /\ Silent(q)'
    BY <1>2, <1>4, <1>5 DEF RefInv, NotStarted, Silent
  <2>2. ASSUME NEW q \in Resolvers PROVE Alive(q)'
    <3>1. Alive(q)
      BY DEF RefInv
    <3>2. CASE q = r
      <4>1. life[q] = "live" /\ ref_count[q] \in Nat \ {0}
        BY <1>2, <3>1, <3>2 DEF Alive
      <4>2. ref_count'[q] = ref_count[q] - 1
            /\ life'[q] = IF ref_count[q] = 1 THEN "freed" ELSE life[q]
        BY <1>5, <3>2
      <4> QED  BY <4>1, <4>2 DEF Alive
    <3>3. CASE q # r
      BY <1>5, <3>1, <3>3 DEF Alive
    <3> QED  BY <3>2, <3>3
  <2> QED  BY <2>1, <2>2
<1>7. ASSUME habits = {}, NEW q \in Resolvers PROVE Balanced(q)'
  <2>1. Balanced(q)
    BY <1>7 DEF RefInv
  <2>2. CASE q = r
    <3>1. held[r] /\ ~held'[r]
      BY <1>2, <1>5, <1>7
    <3>2. Emissions(r) \in Nat /\ Finishing(r) \in Nat
      BY CountsNat DEF RefInv
    <3>3. PICK own \in {0, 1} : own = OneIf(told[r] = <<>> /\ life[r] # "none")
      BY DEF OneIf
    <3>4. ref_count[r] = Emissions(r) + Finishing(r) + 1 + own
      BY <2>1, <2>2, <3>1, <3>3 DEF Balanced, OneIf
    <3>5. OneIf(told'[r] = <<>> /\ life'[r] # "none") = own
      BY <1>2, <1>5, <3>3 DEF OneIf
    <3>6. ref_count'[r] = Emissions(r)' + Finishing(r)' + 0 + own
      <4>1. Emissions(r)' = Emissions(r) /\ Finishing(r)' = Finishing(r)
        BY <1>4
      <4>2. ref_count'[r] = ref_count[r] - 1
        BY <1>5
      <4> QED  BY <3>2, <3>4, <4>1, <4>2
    <3>7. OneIf(held'[r]) = 0
      BY <3>1 DEF OneIf
    <3>8. Finishing(r)' <= 1 /\ Len(told'[r]) <= 1
      BY <1>4, <2>1, <2>2 DEF Balanced
    <3> QED  BY <2>2, <3>5, <3>6, <3>7, <3>8 DEF Balanced
  <2>3. CASE q # r
    <3>1. /\ ref_count'[q] = ref_count[q] /\ life'[q] = life[q] /\ told'[q] = told[q]
          /\ Emissions(q)' = Emissions(q) /\ Finishing(q)' = Finishing(q) /\ held'[q] = held[q]
      <4>1. held'[q] = held[q]
        BY <2>3 DEF RefInv, RefShape
      <4> QED  BY <1>4, <1>5, <2>3, <4>1
    <3> QED  BY <2>1, <3>1 DEF Balanced
  <2> QED  BY <2>2, <2>3
<1> QED  BY <1>3, <1>6, <1>7 DEF RefInv

(* A careful client has only live resolvers to use: one whose reference it *)
(* holds, or one that has not finished.                                    *)
LEMMA UsedIsLive ==
  ASSUME RefInv, NEW r \in Resolvers, MayUnref(r) \/ MayCancel(r)
  PROVE  /\ life[r] # "none"
         /\ habits = {} => life[r] = "live"
<1>1. life[r] # "none"
  BY DEF MayUnref, MayCancel, RefInv, NotStarted
<1>2. ASSUME habits = {} PROVE life[r] = "live"
  <2>1. held[r] \/ told[r] = <<>>
    BY <1>2 DEF MayUnref, MayCancel
  <2>2. Balanced(r) /\ Emissions(r) \in Nat /\ Finishing(r) \in Nat
    BY <1>2, CountsNat DEF RefInv
  <2>3. ref_count[r] # 0
    BY <1>1, <2>1, <2>2 DEF Balanced, OneIf
  <2> QED  BY <2>3 DEF RefInv, Alive
<1> QED  BY <1>1, <1>2

(* The last reference is given back after finished was emitted. *)
LEMMA LastIsFinished ==
  ASSUME RefInv, habits = {}, NEW r \in Resolvers, held[r], LastRef(r)
  PROVE  told[r] # <<>>
<1>1. Balanced(r) /\ Emissions(r) \in Nat /\ Finishing(r) \in Nat /\ life[r] # "none"
  BY CountsNat DEF RefInv, NotStarted
<1> QED  BY <1>1 DEF Balanced, OneIf, LastRef
=============================================================================
