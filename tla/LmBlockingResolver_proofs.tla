---------------------- MODULE LmBlockingResolver_proofs ----------------------
(***************************************************************************)
(* Proofs about LmBlockingResolver, for every number of lookups, every     *)
(* nesting of handlers and every client.                                   *)
(*                                                                         *)
(* The pointer idle_source and the source it names part company while      *)
(* finished is emitted, so the invariant says which frame of the call      *)
(* stack still stands for a source that no pointer names.                  *)
(***************************************************************************)
EXTENDS LmBlockingResolver, LmResolver_proofs

Shape ==
  /\ pending \subseteq sources /\ sources \subseteq Resolvers
  /\ idle_source \in [Resolvers -> BOOLEAN]
  /\ sa \in [Resolvers -> {"NULL", "shared", "own"}]
  /\ resolve_type \in [Resolvers -> {"host", "srv"}]
  /\ fate \in Fates /\ habits \in Clients

(* A source is named by its resolver, or about to be removed; it has run   *)
(* only if it is about to be removed.                                      *)
Attached(r) ==
  /\ r \in sources => idle_source[r] \/ Removing(r)
  /\ r \in sources /\ Finishing(r) # 0 => Removing(r)
  /\ habits = {} /\ r \in sources => told[r] = <<>> \/ Removing(r)

Clean(r) == /\ life[r] # "live" => ~idle_source[r] /\ sa[r] = "NULL"
            /\ life[r] = "none" => r \notin sources

Sound == /\ RefInv /\ Shape
         /\ \A r \in Resolvers : Attached(r) /\ Clean(r)

LEMMA SoundInit == Init => Sound
<1>1. Init => RefInv
  BY RefInvInit DEF Init
<1> QED  BY <1>1 DEF Init, ResolverInit, Sound, Shape, Attached, Clean, Fates

LEMMA SoundMeans == Sound => RefsBalanced /\ NoUseAfterFinalize /\ SourceNeedsObject
  BY RefInvMeans DEF Sound, Shape, Attached, SourceNeedsObject

-----------------------------------------------------------------------------
(* The call stack *)

LEMMA SameStack ==
  ASSUME RefShape, stack' = stack
  PROVE  /\ stack' \in Seq(Frames) /\ CountsSame(stack')
         /\ \A r : Finishing(r)' = Finishing(r) /\ (Removing(r) => Removing(r)')
  BY DEF RefShape, CountsSame, Emissions, Finishing, Removing

LEMMA RemovingPopped ==
  ASSUME RefShape, stack # <<>>, stack' = Tail(stack), NEW r, Head(stack) # Remove(r), Removing(r)
  PROVE  Removing(r)'
<1>1. PICK i \in 1 .. Len(stack) : stack[i] = Remove(r)
  BY DEF Removing
<1>2. stack \in Seq(Frames)
  BY DEF RefShape
<1>3. i # 1
  BY <1>1, <1>2
<1>4. i - 1 \in 1 .. Len(Tail(stack)) /\ Tail(stack)[i - 1] = stack[i]
  BY <1>2, <1>3
<1> QED  BY <1>1, <1>4 DEF Removing

LEMMA FinishingPopped ==
  ASSUME RefShape, stack # <<>>, stack' = Tail(stack), NEW r, Finishing(r)' # 0
  PROVE  Finishing(r) # 0
<1>1. /\ Finishing(r) = Finishing(r)' + OneIf(Head(stack).op = "finish" /\ Head(stack).resolver = r)
      /\ Finishing(r)' \in Nat
  BY Popped DEF Finishing
<1>2. PICK n \in {0, 1} : n = OneIf(Head(stack).op = "finish" /\ Head(stack).resolver = r)
  BY DEF OneIf
<1> QED  BY <1>1, <1>2

LEMMA RemovingPushed ==
  ASSUME NEW r \in Resolvers, NEW result \in ResolverResults, NEW rest \in Seq(Frames),
         EmitFinished(r, result, rest), NEW q, \E i \in 1 .. Len(rest) : rest[i] = Remove(q)
  PROVE  Removing(q)'
<1> DEFINE h == Handler(r, result)
           f == Finish(r)
           s == <<h, f>> \o rest
<1>1. stack' = s
  BY DEF EmitFinished
<1>2. h \in Frames /\ f \in Frames
  BY DEF Handler, Finish, Frames
<1> HIDE DEF h, f
<1>3. PICK i \in 1 .. Len(rest) : rest[i] = Remove(q)
  OBVIOUS
<1>4. i + 2 \in 1 .. Len(s) /\ s[i + 2] = rest[i]
  BY <1>2
<1> QED  BY <1>1, <1>3, <1>4 DEF Removing

-----------------------------------------------------------------------------
(* Steps *)

(* Nothing happens to a resolver that matters. *)
LEMMA SoundSame ==
  ASSUME NEW r, Attached(r), Clean(r), habits' = habits, told'[r] = told[r],
         idle_source'[r] = idle_source[r], sa'[r] = sa[r], life'[r] = life[r],
         r \in sources' => r \in sources, Finishing(r)' # 0 => Finishing(r) # 0,
         r \in sources' /\ Removing(r) => Removing(r)'
  PROVE  Attached(r)' /\ Clean(r)'
  BY DEF Attached, Clean

(* The end of a reference, if it is not the one of finished. *)
LEMMA SoundUnref ==
  ASSUME Sound, RefInv', Shape', NEW r \in Resolvers, UnrefAndFinalize(r), UNCHANGED <<told, habits>>,
         \A q \in Resolvers : /\ Finishing(q)' # 0 => Finishing(q) # 0
                              /\ Removing(q) => Removing(q)'
  PROVE  Sound'
<1>1. RefShape /\ Shape
  BY DEF Sound, RefInv
<1>2. \A q \in Resolvers \ {r} : life'[q] = life[q]
  BY <1>1 DEF UnrefAndFinalize, g_object_unref, RefShape
<1>3. CASE LastRef(r)
  <2>1. /\ idle_source' = [idle_source EXCEPT ![r] = FALSE] /\ sa' = [sa EXCEPT ![r] = "NULL"]
        /\ sources' \subseteq sources /\ (idle_source[r] => r \notin sources')
        /\ life' = [life EXCEPT ![r] = "freed"]
    BY <1>3 DEF UnrefAndFinalize, blocking_resolver_finalize, g_source_destroy, g_object_unref, loopVars
  <2>2. ~idle_source'[r] /\ sa'[r] = "NULL" /\ life'[r] = "freed"
    BY <1>1, <2>1 DEF Shape, RefShape
  <2>3. Attached(r)' /\ Clean(r)'
    BY <2>1, <2>2 DEF Sound, Attached, Clean
  <2>4. ASSUME NEW q \in Resolvers \ {r} PROVE Attached(q)' /\ Clean(q)'
    <3>1. idle_source'[q] = idle_source[q] /\ sa'[q] = sa[q]
      BY <1>1, <2>1 DEF Shape
    <3> QED  BY <1>2, <2>1, <3>1, SoundSame DEF Sound
  <2> QED  BY <2>3, <2>4 DEF Sound
<1>4. CASE ~LastRef(r)
  <2>1. UNCHANGED <<life, sources, sa, idle_source>>
    BY <1>1, <1>4 DEF UnrefAndFinalize, g_object_unref, loopVars, RefShape
  <2>2. \A q \in Resolvers : Attached(q)' /\ Clean(q)'
    BY <2>1, SoundSame DEF Sound
  <2> QED  BY <2>2 DEF Sound
<1> QED  BY <1>3, <1>4

LEMMA ShapeUnref ==
  ASSUME Shape, NEW r, UnrefAndFinalize(r) \/ ClearAndUnref(r), UNCHANGED <<resolve_type, fate, habits>>
  PROVE  Shape'
<1>1. /\ sa' = sa \/ sa' = [sa EXCEPT ![r] = "NULL"]
      /\ idle_source' = idle_source \/ idle_source' = [idle_source EXCEPT ![r] = FALSE]
      /\ UNCHANGED loopVars \/ g_source_destroy(r)
  BY DEF UnrefAndFinalize, ClearAndUnref, blocking_resolver_finalize
<1> QED  BY <1>1 DEF Shape, g_source_destroy, loopVars

LEMMA SoundReturns ==
  ASSUME Sound, UNCHANGED habits, fate = "running", FinishReturns \/ HandlerReturns
  PROVE  Sound'
<1>1. /\ RefInv /\ RefShape /\ Shape /\ stack # <<>> /\ stack' = Tail(stack)
      /\ UNCHANGED <<told, resolve_type>> /\ (Top("handler") \/ Top("finish"))
  BY DEF Sound, RefInv, FinishReturns, HandlerReturns, Top
<1>2. PICK r \in Resolvers : r = Head(stack).resolver /\ \A q : Head(stack) # Remove(q)
  BY <1>1, Popped DEF Top, Remove
<1>3. \A q \in Resolvers : /\ Finishing(q)' # 0 => Finishing(q) # 0
                           /\ Removing(q) => Removing(q)'
  BY <1>1, <1>2, FinishingPopped, RemovingPopped
<1>4. CASE life[r] = "freed"
  <2>1. UNCHANGED <<objectVars, loopVars, idle_source, sa>> /\ fate' = "use_after_free"
    BY <1>2, <1>4 DEF FinishReturns, HandlerReturns
  <2>2. RefInv'
    BY <1>1, <1>2, <1>4, <2>1, RefGone
  <2>3. Shape'
    BY <1>1, <2>1 DEF Shape, loopVars, Fates
  <2>4. \A q \in Resolvers : Attached(q)' /\ Clean(q)'
    BY <1>1, <1>3, <2>1, SoundSame DEF Sound, objectVars, loopVars
  <2> QED  BY <2>2, <2>3, <2>4 DEF Sound
<1>5. CASE life[r] # "freed"
  <2>1. /\ UNCHANGED <<held, fate>> /\ g_object_unref(r)
        /\ \/ HandlerReturns /\ UnrefAndFinalize(r)
           \/ FinishReturns /\ ClearAndUnref(r)
    BY <1>2, <1>5 DEF FinishReturns, HandlerReturns, UnrefAndFinalize, ClearAndUnref
  <2>2. RefInv'
    BY <1>1, <1>2, <1>5, <2>1, RefReturn
  <2>3. Shape'
    BY <1>1, <2>1, ShapeUnref
  <2>4. CASE UnrefAndFinalize(r)
    BY <1>1, <1>2, <1>3, <2>2, <2>3, <2>4, SoundUnref
  <2>5. CASE FinishReturns /\ ClearAndUnref(r)
    <3>1. Finishing(r) # 0
      <4>1. stack[1] = Head(stack) /\ 1 \in 1 .. Len(stack)
        BY <1>1 DEF RefShape
      <4> QED  BY <1>1, <1>2, <2>5, <4>1, CountsNat DEF FinishReturns, Top
    <3>2. /\ idle_source' = [idle_source EXCEPT ![r] = FALSE] /\ UNCHANGED sources
          /\ IF LastRef(r) THEN sa' = [sa EXCEPT ![r] = "NULL"] ELSE UNCHANGED sa
          /\ life' = [life EXCEPT ![r] = IF LastRef(r) THEN "freed" ELSE @]
      BY <2>5 DEF ClearAndUnref, g_object_unref, loopVars
    <3>3. /\ ~idle_source'[r] /\ (life'[r] = "freed" => sa'[r] = "NULL")
          /\ life'[r] \in {life[r], "freed"} /\ (life'[r] # "freed" => sa'[r] = sa[r])
      <4>1. CASE LastRef(r)
        BY <1>1, <1>2, <3>2, <4>1 DEF Shape, RefShape
      <4>2. CASE ~LastRef(r)
        BY <1>1, <1>2, <1>5, <3>2, <4>2 DEF Shape, RefShape
      <4> QED  BY <4>1, <4>2
    <3>4. Attached(r)' /\ Clean(r)'
      <4>1. Attached(r) /\ Clean(r)
        BY <1>2 DEF Sound
      <4>2. r \in sources => Removing(r)'
        BY <1>2, <1>3, <3>1, <4>1 DEF Attached
      <4> QED  BY <1>5, <3>2, <3>3, <4>1, <4>2 DEF Attached, Clean
    <3>5. ASSUME NEW q \in Resolvers \ {r} PROVE Attached(q)' /\ Clean(q)'
      <4>1. idle_source'[q] = idle_source[q] /\ sa'[q] = sa[q] /\ life'[q] = life[q]
        BY <1>1, <3>2 DEF Shape, RefShape
      <4> QED  BY <1>1, <1>3, <3>2, <4>1, SoundSame DEF Sound
    <3> QED  BY <2>2, <2>3, <3>4, <3>5 DEF Sound
  <2> QED  BY <2>1, <2>4, <2>5
<1> QED  BY <1>4, <1>5

LEMMA SoundLibrary ==
  ASSUME Sound, UNCHANGED habits, fate = "running", Library
  PROVE  Sound'
<1>1. RefInv /\ RefShape /\ Shape
  BY DEF Sound, RefInv
<1>2. CASE Poll
  <2>1. /\ UNCHANGED <<objectVars, told, stack, fate, sources, sa, idle_source, resolve_type>>
        /\ pending' = sources
    BY <1>2 DEF Poll, PollFinds, privVars
  <2>2. RefInv'
    BY <1>1, <2>1, SameStack, RefSame
  <2>3. Shape'
    BY <1>1, <2>1 DEF Shape
  <2>4. \A q \in Resolvers : Attached(q)' /\ Clean(q)'
    BY <1>1, <2>1, SameStack, SoundSame DEF Sound, objectVars
  <2> QED  BY <2>2, <2>3, <2>4 DEF Sound
<1>3. CASE SourceRemoved
  <2> DEFINE r == Head(stack).resolver
  <2>1. /\ Top("remove") /\ stack # <<>> /\ stack' = Tail(stack) /\ g_source_destroy(r)
        /\ UNCHANGED <<objectVars, told, fate, sa, idle_source, resolve_type>>
    BY <1>3 DEF SourceRemoved, Top, privVars
  <2>2. r \in Resolvers /\ \A q \in Resolvers \ {r} : Head(stack) # Remove(q)
    BY <1>1, <2>1, Popped DEF Remove
  <2>3. RefInv'
    BY <1>1, <2>1, PoppedOther, RefSame
  <2>4. Shape'
    BY <1>1, <2>1 DEF Shape, g_source_destroy
  <2>5. ASSUME NEW q \in Resolvers PROVE Attached(q)' /\ Clean(q)'
    <3>1. Finishing(q)' # 0 => Finishing(q) # 0
      BY <1>1, <2>1, FinishingPopped
    <3>2. q \in sources' => q \in sources /\ q # r
      BY <2>1 DEF g_source_destroy
    <3>3. q # r /\ Removing(q) => Removing(q)'
      BY <1>1, <2>1, <2>2, RemovingPopped
    <3> QED  BY <2>1, <3>1, <3>2, <3>3, SoundSame DEF Sound, objectVars
  <2> QED  BY <2>3, <2>4, <2>5 DEF Sound
<1> QED  BY <1>2, <1>3, SoundReturns DEF Library

(* The idle source runs: its object is there, and has not finished.        *)
LEMMA SoundIdles ==
  ASSUME Sound, UNCHANGED habits, fate = "running", NEW r \in Resolvers, Idles(r)
  PROVE  /\ Sound' /\ life[r] = "live" /\ (habits = {} => told[r] = <<>>)
         /\ \E result \in ResolverResults : Lookup(r, result)
<1>1. RefInv /\ RefShape /\ Shape
  BY DEF Sound, RefInv
<1>2. PICK result \in ResolverResults : Lookup(r, result)
  BY DEF Idles, blocking_resolver_idle_lookup_host, blocking_resolver_idle_lookup_srv, ResolverResults
<1>3. /\ stack = <<>> /\ r \in sources /\ pending' = pending \ {r}
      /\ EmitFinished(r, result, <<Remove(r)>>)
      /\ UNCHANGED <<life, held, sources, fate, idle_source, resolve_type>>
  BY <1>1, <1>2 DEF Lookup, Shape
<1>4. ~Removing(r)
  BY <1>3 DEF Removing
<1>5. life[r] = "live" /\ (habits = {} => told[r] = <<>>)
  BY <1>3, <1>4 DEF Sound, Attached, Clean
<1> DEFINE rest == <<Remove(r)>> \o stack
<1>6. rest \in Seq(Frames) /\ CountsSame(rest) /\ rest = <<Remove(r)>>
  <2>1. CountsSame(stack) /\ stack \in Seq(Frames)
    BY <1>1 DEF CountsSame, Emissions, Finishing, RefShape
  <2>2. rest \in Seq(Frames) /\ CountsSame(rest)
    BY <2>1, PushedOther
  <2> QED  BY <1>3, <2>2
<1>7. \E i \in 1 .. Len(rest) : rest[i] = Remove(r)
  <2>1. 1 \in 1 .. Len(rest) /\ rest[1] = Remove(r)
    BY <1>6
  <2> QED  BY <2>1
<1>8. EmitFinished(r, result, rest)
  BY <1>3, <1>6
<1> HIDE DEF rest
<1>9. RefInv'
  BY <1>1, <1>3, <1>5, <1>6, <1>8, RefEmit
<1>10. /\ Removing(r)'
       /\ \A q \in Resolvers \ {r} : told'[q] = told[q] /\ Finishing(q)' = Finishing(q)
  <2>1. Removing(r)'
    BY <1>6, <1>7, <1>8, RemovingPushed
  <2>3. \A q \in Resolvers :
          /\ Finishing(q)' = Finishing(q) + OneIf(q = r) /\ Finishing(q) \in Nat
          /\ q # r => told'[q] = told[q]
    <3>1. /\ RefShape /\ EmitFinished(r, result, rest) /\ CountsSame(rest) /\ rest \in Seq(Frames)
          /\ r \in Resolvers /\ result \in ResolverResults
      BY <1>1, <1>6, <1>8
    <3>2. /\ \A q \in Resolvers : Finishing(q)' = Finishing(q) + OneIf(q = r) /\ Finishing(q) \in Nat
          /\ \A q \in Resolvers \ {r} : told'[q] = told[q]
      BY <3>1, EmitCounts
    <3> QED  BY <3>2
  <2>2. ASSUME NEW q \in Resolvers \ {r} PROVE told'[q] = told[q] /\ Finishing(q)' = Finishing(q)
    <3>1. /\ told'[q] = told[q] /\ Finishing(q)' = Finishing(q) + OneIf(q = r)
          /\ Finishing(q) \in Nat
      BY <2>3
    <3>2. OneIf(q = r) = 0
      BY DEF OneIf
    <3> QED  BY <3>1, <3>2
  <2> QED  BY <2>1, <2>2
<1>11. sa' = sa \/ sa' = [sa EXCEPT ![r] = "own"]
  BY DEF Idles, blocking_resolver_idle_lookup_host, blocking_resolver_idle_lookup_srv
<1>12. Shape'
  BY <1>1, <1>3, <1>11 DEF Shape
<1>13. ASSUME NEW q \in Resolvers PROVE Attached(q)' /\ Clean(q)'
  <2>1. CASE q = r
    BY <1>3, <1>5, <1>10, <2>1 DEF Sound, Attached, Clean
  <2>2. CASE q # r
    <3>1. sa'[q] = sa[q] /\ ~Removing(q)
      BY <1>1, <1>3, <1>11, <2>2 DEF Shape, Removing
    <3> QED  BY <1>3, <1>10, <2>2, <3>1, SoundSame DEF Sound
  <2> QED  BY <2>1, <2>2
<1> QED  BY <1>2, <1>5, <1>9, <1>12, <1>13 DEF Sound

LEMMA SoundLookup ==
  ASSUME Sound, UNCHANGED habits, fate = "running", NEW r \in Resolvers,
         blocking_resolver_lookup_host(r) \/ blocking_resolver_lookup_srv(r)
  PROVE  Sound'
<1>1. RefInv /\ RefShape /\ Shape
  BY DEF Sound, RefInv
<1>2. /\ resolver_create(r) /\ sources' = sources \cup {r}
      /\ idle_source' = [idle_source EXCEPT ![r] = TRUE]
      /\ resolve_type' \in [Resolvers -> {"host", "srv"}]
      /\ UNCHANGED <<told, pending, stack, fate>>
  BY <1>1 DEF blocking_resolver_lookup_host, blocking_resolver_lookup_srv, AddIdle, Shape
<1>3. RefInv'
  BY <1>1, <1>2, RefCreate
<1>4. sa' = sa \/ sa' = [sa EXCEPT ![r] = "shared"]
  BY DEF blocking_resolver_lookup_host, blocking_resolver_lookup_srv
<1>5. Shape'
  BY <1>1, <1>2, <1>4 DEF Shape
<1>6. told[r] = <<>> /\ Finishing(r) = 0 /\ life' = [life EXCEPT ![r] = "live"]
  BY <1>1, <1>2 DEF resolver_create, RefInv, NotStarted, Silent
<1>7. \A q \in Resolvers : Finishing(q)' = Finishing(q) /\ (Removing(q) => Removing(q)')
  BY <1>1, <1>2, SameStack
<1>8. ASSUME NEW q \in Resolvers PROVE Attached(q)' /\ Clean(q)'
  <2>1. CASE q = r
    <3>1. idle_source'[r] /\ life'[r] = "live"
      BY <1>1, <1>2, <1>6 DEF Shape, RefShape
    <3> QED  BY <1>2, <1>6, <1>7, <2>1, <3>1 DEF Attached, Clean
  <2>2. CASE q # r
    <3>1. sa'[q] = sa[q] /\ idle_source'[q] = idle_source[q] /\ life'[q] = life[q]
      BY <1>1, <1>2, <1>4, <1>6, <2>2 DEF Shape, RefShape
    <3> QED  BY <1>2, <1>7, <2>2, <3>1, SoundSame DEF Sound
  <2> QED  BY <2>1, <2>2
<1> QED  BY <1>3, <1>5, <1>8 DEF Sound

LEMMA SoundCancel ==
  ASSUME Sound, UNCHANGED habits, fate = "running", NEW r \in Resolvers, blocking_resolver_cancel(r)
  PROVE  Sound'
<1>1. RefInv /\ RefShape /\ Shape /\ MayCancel(r) /\ UNCHANGED <<resolve_type, sa>>
  BY DEF Sound, RefInv, blocking_resolver_cancel
<1>2. life[r] # "none" /\ (habits = {} => life[r] = "live" /\ told[r] = <<>>)
  BY <1>1, UsedIsLive DEF MayCancel
<1>3. CASE life[r] = "freed"
  <2>1. UNCHANGED <<stack, told, objectVars, sources, pending, idle_source>> /\ fate' = "use_after_free"
    BY <1>3 DEF blocking_resolver_cancel, loopVars
  <2>2. RefInv'
    BY <1>1, <1>2, <1>3, <2>1, SameStack, RefSame
  <2>3. Shape'
    BY <1>1, <2>1 DEF Shape, Fates
  <2>4. \A q \in Resolvers : Attached(q)' /\ Clean(q)'
    BY <1>1, <2>1, SameStack, SoundSame DEF Sound, objectVars
  <2> QED  BY <2>2, <2>3, <2>4 DEF Sound
<1>4. CASE life[r] # "freed"
  <2>1. /\ idle_source' = [idle_source EXCEPT ![r] = FALSE] /\ EmitFinished(r, "CANCELLED", stack)
        /\ UNCHANGED <<life, held, fate>> /\ sources' \subseteq sources /\ pending' \subseteq sources'
        /\ idle_source[r] => r \notin sources'
    BY <1>1, <1>4 DEF blocking_resolver_cancel, CancelDestroysSource, g_source_destroy, loopVars, Shape
  <2>2. /\ "CANCELLED" \in ResolverResults /\ stack \in Seq(Frames) /\ CountsSame(stack)
        /\ life[r] = "live"
    BY <1>1, <1>2, <1>4 DEF ResolverResults, RefShape, CountsSame, Emissions, Finishing
  <2>3. RefInv'
    BY <1>1, <1>2, <2>1, <2>2, RefEmit
  <2>4. Shape'
    BY <1>1, <2>1 DEF Shape
  <2>5. \A q \in Resolvers : Removing(q) => Removing(q)'
    BY <2>1, <2>2, RemovingPushed DEF Removing
  <2>6. \A q \in Resolvers \ {r} : told'[q] = told[q] /\ Finishing(q)' = Finishing(q)
    <3>1. \A q \in Resolvers \ {r} : /\ told'[q] = told[q] /\ Finishing(q)' = Finishing(q) + OneIf(q = r)
                                    /\ Finishing(q) \in Nat
      BY <1>1, <2>1, <2>2, EmitCounts
    <3> QED  BY <3>1 DEF OneIf
  <2>7. ASSUME NEW q \in Resolvers PROVE Attached(q)' /\ Clean(q)'
    <3>1. CASE q = r
      BY <1>1, <2>1, <2>2, <2>5, <3>1 DEF Sound, Attached, Clean, Shape
    <3>2. CASE q # r
      <4>1. idle_source'[q] = idle_source[q]
        BY <1>1, <2>1, <3>2 DEF Shape
      <4> QED  BY <1>1, <2>1, <2>5, <2>6, <3>2, <4>1, SoundSame DEF Sound
    <3> QED  BY <3>1, <3>2
  <2> QED  BY <2>3, <2>4, <2>7 DEF Sound
<1> QED  BY <1>3, <1>4

LEMMA SoundClient ==
  ASSUME Sound, UNCHANGED habits, fate = "running", Client
  PROVE  Sound'
<1>1. RefInv /\ RefShape /\ Shape
  BY DEF Sound, RefInv
<1>2. ASSUME UNCHANGED <<stack, told, objectVars, loopVars, idle_source, sa, resolve_type>>,
             fate' = fate \/ (fate' = "use_after_free" /\ habits # {})
      PROVE  Sound'
  <2>1. RefInv'
    BY <1>1, <1>2, SameStack, RefSame
  <2>2. Shape'
    BY <1>1, <1>2 DEF Shape, loopVars, Fates
  <2>3. \A q \in Resolvers : Attached(q)' /\ Clean(q)'
    BY <1>1, <1>2, SameStack, SoundSame DEF Sound, objectVars, loopVars
  <2> QED  BY <2>1, <2>2, <2>3 DEF Sound
<1>3. CASE ClientDropsAddress
  BY <1>2, <1>3 DEF ClientDropsAddress
<1>4. ASSUME NEW r \in Resolvers, ClientUnref(r) PROVE Sound'
  <2>1. MayUnref(r) /\ UNCHANGED <<told, stack, resolve_type>>
    BY <1>4 DEF ClientUnref
  <2>2. life[r] # "none" /\ (habits = {} => life[r] = "live")
    BY <1>1, <2>1, UsedIsLive
  <2>3. CASE life[r] = "freed"
    BY <1>2, <1>4, <2>1, <2>2, <2>3 DEF ClientUnref
  <2>4. CASE life[r] # "freed"
    <3>1. UnrefAndFinalize(r) /\ held' = [held EXCEPT ![r] = FALSE] /\ UNCHANGED fate
      BY <1>4, <2>4 DEF ClientUnref
    <3>2. RefInv'
      BY <1>1, <2>1, <2>4, <3>1, RefDrop DEF UnrefAndFinalize
    <3>3. Shape'
      BY <1>1, <2>1, <3>1, ShapeUnref
    <3> QED  BY <1>1, <2>1, <3>1, <3>2, <3>3, SameStack, SoundUnref
  <2> QED  BY <2>3, <2>4
<1> QED  BY <1>3, <1>4, SoundLookup, SoundCancel DEF Client

LEMMA SoundKept == Sound /\ [Next]_vars => Sound'
<1> SUFFICES ASSUME Sound, [Next]_vars PROVE Sound'
  OBVIOUS
<1>1. CASE UNCHANGED vars
  <2>1. RefShape /\ UNCHANGED <<objectVars, told, habits, stack, fate, sources, pending,
                               idle_source, sa, resolve_type>>
    BY <1>1 DEF vars, objectVars, privVars, Sound, RefInv
  <2>2. RefInv'
    BY <2>1, SameStack, RefSame DEF Sound
  <2>3. \A q \in Resolvers : Attached(q)' /\ Clean(q)'
    BY <2>1, SameStack, SoundSame DEF Sound, objectVars
  <2> QED  BY <2>1, <2>2, <2>3 DEF Sound, Shape
<1> QED  BY <1>1, SoundLibrary, SoundIdles, SoundClient DEF Next, Running

LEMMA SoundAlways == Spec => []Sound
  BY SoundInit, SoundKept, PTL DEF Spec

(* Every reference to a resolver is its own, its client's, or that of an   *)
(* emission under way, if the client keeps to its own.                     *)
THEOREM RefsBalancedAlways == Spec => []RefsBalanced
  BY SoundAlways, SoundMeans, PTL

(* So with such a client no function runs on a resolver that is gone.      *)
THEOREM NoUseAfterFinalizeAlways == Spec => []NoUseAfterFinalize
  BY SoundAlways, SoundMeans, PTL

(* With any client: a source is never left behind by its resolver.         *)
THEOREM SourceNeedsObjectAlways == Spec => []SourceNeedsObject
  BY SoundAlways, SoundMeans, PTL
-----------------------------------------------------------------------------
(* The references of the shared address *)

Addresses == [refs : Int, client : BOOLEAN, results : Resolvers \cup {Nobody}]

Counted ==
  /\ \A r \in Resolvers : sa[r] = "shared" => resolve_type[r] = "host"
  /\ address \in Addresses
  /\ AddressCounted

LEMMA HoldersFinite == ASSUME IsFiniteSet(Resolvers) PROVE IsFiniteSet(Holders)
  BY FS_Subset DEF Holders

LEMMA CountInit == ASSUME IsFiniteSet(Resolvers), Init PROVE Counted
<1>1. Holders = {}
  BY DEF Init, Holders
<1>2. AddressCounted
  BY <1>1, FS_EmptySet DEF Init, AddressCounted
<1>3. address \in Addresses
  BY DEF Init, Addresses, Nobody
<1> QED  BY <1>2, <1>3 DEF Counted, Init

LEMMA UnrefShape ==
  ASSUME NEW a \in Addresses
  PROVE  /\ AddressAfterUnref(a).refs = a.refs - 1 /\ AddressAfterUnref(a).client = a.client
         /\ a.refs \in Int /\ AddressAfterUnref(a) \in Addresses
<1> DEFINE result == IF a.refs = 1 THEN Nobody ELSE a.results
           b == [a EXCEPT !.refs = a.refs - 1]
           c == [b EXCEPT !.results = result]
<1>1. result \in Resolvers \cup {Nobody} /\ a.refs \in Int
  BY DEF Addresses
<1>2. AddressAfterUnref(a) = c
  BY Zenon DEF AddressAfterUnref
<1> HIDE DEF result
<1>3. b \in Addresses /\ b.refs = a.refs - 1 /\ b.client = a.client
  BY <1>1 DEF Addresses
<1> HIDE DEF b
<1>4. c \in Addresses /\ c.refs = b.refs /\ c.client = b.client
  BY <1>1, <1>3 DEF Addresses
<1> HIDE DEF c
<1> QED  BY <1>1, <1>2, <1>3, <1>4

(* One holder more, or one less, or the same. *)
LEMMA CountMore ==
  ASSUME IsFiniteSet(Resolvers), Counted, Shape, NEW r \in Resolvers, sa[r] # "shared",
         sa' = [sa EXCEPT ![r] = "shared"], address' = [address EXCEPT !.refs = @ + 1],
         resolve_type' = [resolve_type EXCEPT ![r] = "host"]
  PROVE  Counted'
<1>1. Holders' = Holders \cup {r} /\ r \notin Holders
  BY DEF Holders, Shape
<1>2. Cardinality(Holders') = Cardinality(Holders) + 1 /\ Cardinality(Holders) \in Nat
  BY <1>1, HoldersFinite, FS_AddElement, FS_CardinalityType
<1>3. address'.refs = address.refs + 1 /\ address'.client = address.client
      /\ address.refs \in Int /\ address' \in Addresses
  BY DEF Counted, Addresses
<1>4. AddressCounted'
  BY <1>2, <1>3 DEF Counted, AddressCounted
<1> QED  BY <1>3, <1>4 DEF Counted, Shape

LEMMA CountLess ==
  ASSUME IsFiniteSet(Resolvers), Counted, Shape, NEW r \in Resolvers,
         UnrefAddress(r), sa' = [sa EXCEPT ![r] = "NULL"], UNCHANGED resolve_type
  PROVE  Counted'
<1>1. sa \in [Resolvers -> {"NULL", "shared", "own"}] /\ address \in Addresses
  BY DEF Counted, Shape
<1>2. CASE sa[r] = "shared"
  <2>1. Holders' = Holders \ {r} /\ r \in Holders
    BY <1>1, <1>2 DEF Holders
  <2>2. Cardinality(Holders') = Cardinality(Holders) - 1 /\ Cardinality(Holders) \in Nat
    BY <2>1, HoldersFinite, FS_RemoveElement, FS_CardinalityType
  <2>3. address'.refs = address.refs - 1 /\ address'.client = address.client
        /\ address.refs \in Int /\ address' \in Addresses
    BY <1>1, <1>2, UnrefShape DEF UnrefAddress
  <2>4. AddressCounted'
    BY <2>2, <2>3 DEF Counted, AddressCounted
  <2> QED  BY <1>1, <2>3, <2>4 DEF Counted
<1>3. CASE sa[r] # "shared"
  <2>1. Holders' = Holders /\ address' = address
    BY <1>1, <1>3 DEF Holders, UnrefAddress
  <2> QED  BY <1>1, <2>1 DEF Counted, AddressCounted
<1> QED  BY <1>2, <1>3

LEMMA CountSame ==
  ASSUME Counted, UNCHANGED <<sa, address, resolve_type>>
  PROVE  Counted'
  BY DEF Counted, AddressCounted, Holders

LEMMA CountLibrary ==
  ASSUME IsFiniteSet(Resolvers), Counted, Sound, Library
  PROVE  Counted'
<1>1. CASE Poll \/ SourceRemoved
  BY <1>1, CountSame DEF Poll, SourceRemoved, privVars
<1>2. CASE FinishReturns \/ HandlerReturns
  <2>1. PICK r \in Resolvers : r = Head(stack).resolver
    BY <1>2, Popped DEF FinishReturns, HandlerReturns, Top, Sound, RefInv
  <2>2. /\ UNCHANGED resolve_type
        /\ \/ UNCHANGED <<sa, address>>
           \/ UnrefAddress(r) /\ sa' = [sa EXCEPT ![r] = "NULL"]
    BY <1>2, <2>1
    DEF FinishReturns, HandlerReturns, ClearAndUnref, UnrefAndFinalize, blocking_resolver_finalize
  <2> QED  BY <2>2, CountSame, CountLess DEF Sound
<1> QED  BY <1>1, <1>2 DEF Library

LEMMA CountIdles ==
  ASSUME Counted, Sound, NEW r \in Resolvers, Idles(r)
  PROVE  Counted'
<1>1. UNCHANGED resolve_type /\ sa \in [Resolvers -> {"NULL", "shared", "own"}]
  BY DEF Idles, blocking_resolver_idle_lookup_host, blocking_resolver_idle_lookup_srv, Lookup, Sound, Shape
<1>2. CASE UNCHANGED <<sa, address>>
  BY <1>1, <1>2, CountSame
<1>3. CASE UNCHANGED sa /\ address' = [address EXCEPT !.results = r]
  <2>1. address' \in Addresses /\ address'.refs = address.refs /\ address'.client = address.client
    BY <1>3 DEF Counted, Addresses
  <2> QED  BY <1>1, <1>3, <2>1 DEF Counted, AddressCounted, Holders
<1>4. CASE resolve_type[r] = "srv" /\ sa' = [sa EXCEPT ![r] = "own"] /\ UNCHANGED address
  <2>1. sa[r] # "shared"
    BY <1>4 DEF Counted
  <2>2. Holders' = Holders /\ \A q \in Resolvers : sa'[q] = "shared" => sa[q] = "shared"
    BY <1>1, <1>4, <2>1 DEF Holders
  <2> QED  BY <1>1, <1>4, <2>2 DEF Counted, AddressCounted
<1> QED  BY <1>2, <1>3, <1>4 DEF Idles, blocking_resolver_idle_lookup_host, blocking_resolver_idle_lookup_srv

LEMMA CountClient ==
  ASSUME IsFiniteSet(Resolvers), Counted, Sound, Client
  PROVE  Counted'
<1>1. CASE ClientDropsAddress
  <2> DEFINE a == AddressAfterUnref(address)
  <2>1. /\ address.client /\ address' = [a EXCEPT !.client = FALSE]
        /\ UNCHANGED <<sa, resolve_type>> /\ address \in Addresses
    BY <1>1 DEF ClientDropsAddress, Counted
  <2>2. a.refs = address.refs - 1 /\ address.refs \in Int /\ a \in Addresses
    BY <2>1, UnrefShape
  <2> HIDE DEF a
  <2>3. address' \in Addresses /\ address'.refs = address.refs - 1 /\ ~address'.client
    BY <2>1, <2>2 DEF Addresses
  <2>4. Cardinality(Holders) \in Nat /\ Holders' = Holders
    BY <2>1, HoldersFinite, FS_CardinalityType DEF Holders
  <2>5. AddressCounted'
    BY <2>1, <2>2, <2>3, <2>4 DEF Counted, AddressCounted
  <2> QED  BY <2>1, <2>3, <2>5 DEF Counted
<1>2. ASSUME NEW r \in Resolvers, blocking_resolver_lookup_host(r) PROVE Counted'
  <2>1. sa[r] # "shared"
    BY <1>2 DEF blocking_resolver_lookup_host, AddIdle, resolver_create, Sound, Clean
  <2>2. /\ sa' = [sa EXCEPT ![r] = "shared"] /\ address' = [address EXCEPT !.refs = @ + 1]
        /\ resolve_type' = [resolve_type EXCEPT ![r] = "host"]
    BY <1>2 DEF blocking_resolver_lookup_host, AddIdle
  <2> QED  BY <2>1, <2>2, CountMore DEF Sound
<1>3. ASSUME NEW r \in Resolvers, blocking_resolver_lookup_srv(r) PROVE Counted'
  <2>1. UNCHANGED <<sa, address>> /\ resolve_type' = [resolve_type EXCEPT ![r] = "srv"] /\ sa[r] # "shared"
    BY <1>3 DEF blocking_resolver_lookup_srv, AddIdle, resolver_create, Sound, Clean
  <2> QED  BY <2>1 DEF Counted, AddressCounted, Holders, Sound, Shape
<1>4. ASSUME NEW r \in Resolvers, blocking_resolver_cancel(r) PROVE Counted'
  BY <1>4, CountSame DEF blocking_resolver_cancel
<1>5. ASSUME NEW r \in Resolvers, ClientUnref(r) PROVE Counted'
  <2>1. /\ UNCHANGED resolve_type
        /\ \/ UNCHANGED <<sa, address>>
           \/ UnrefAddress(r) /\ sa' = [sa EXCEPT ![r] = "NULL"]
    BY <1>5 DEF ClientUnref, UnrefAndFinalize, blocking_resolver_finalize
  <2> QED  BY <2>1, CountSame, CountLess DEF Sound
<1> QED  BY <1>1, <1>2, <1>3, <1>4, <1>5 DEF Client

LEMMA CountKept ==
  ASSUME IsFiniteSet(Resolvers), Counted, Sound, [Next]_vars
  PROVE  Counted'
<1>1. CASE UNCHANGED vars
  BY <1>1, CountSame DEF vars, privVars
<1> QED  BY <1>1, CountLibrary, CountIdles, CountClient DEF Next

(* lm_socket_address counts the client and the resolvers that point to the *)
(* address; these keep it until they are finalized.                        *)
THEOREM AddressCountedAlways ==
  ASSUME IsFiniteSet(Resolvers)
  PROVE  Spec => []AddressCounted
<1>1. Init => Counted
  BY CountInit
<1>2. Counted /\ Sound /\ [Next]_vars => Counted'
  BY CountKept
<1>3. Counted => AddressCounted
  BY DEF Counted
<1> QED  BY <1>1, <1>2, <1>3, SoundInit, SoundKept, PTL DEF Spec

LEMMA WellTyped == ASSUME IsFiniteSet(Resolvers), Sound, Counted PROVE TypeOK
<1>1. RefInv /\ RefShape /\ Shape
  BY DEF Sound, RefInv
<1>2. ref_count \in [Resolvers -> Nat]
  BY <1>1 DEF RefInv, RefShape, Alive
<1>3. ResolverTypeOK
  BY <1>1, <1>2 DEF RefShape, Shape, ResolverTypeOK
<1>4. address \in [refs : Nat, client : BOOLEAN, results : Resolvers \cup {Nobody}]
  <2>1. Cardinality(Holders) \in Nat /\ address \in Addresses
    BY HoldersFinite, FS_CardinalityType DEF Counted
  <2>2. address.refs \in Nat
    BY <2>1 DEF Counted, AddressCounted
  <2> QED  BY <2>1, <2>2 DEF Addresses
<1> QED  BY <1>1, <1>3, <1>4 DEF TypeOK, Shape

(* Every variable keeps to its type, and no count goes below zero.         *)
THEOREM TypeOKAlways == ASSUME IsFiniteSet(Resolvers) PROVE Spec => []TypeOK
<1>1. Init => Counted
  BY CountInit
<1>2. Counted /\ Sound /\ [Next]_vars => Counted'
  BY CountKept
<1>3. Sound /\ Counted => TypeOK
  BY WellTyped
<1> QED  BY <1>1, <1>2, <1>3, SoundInit, SoundKept, PTL DEF Spec

-----------------------------------------------------------------------------
(* What a careful client is served *)

LEMMA ServedSame ==
  ASSUME habits = {}, habits' = {}, UNCHANGED told,
         \A r \in Resolvers : told[r] = <<>> => (life'[r] = "none" <=> life[r] = "none")
  PROVE  [Service!Next]_Served
<1>1. Served' = Served
  BY DEF Served, Status
<1> QED  BY <1>1

LEMMA ServedTold ==
  ASSUME Sound, habits = {}, habits' = {}, NEW r \in Resolvers, NEW result \in ResolverResults,
         told[r] = <<>>, life[r] = "live", UNCHANGED life,
         told' = [told EXCEPT ![r] = Append(@, result)]
  PROVE  [Service!Next]_Served
<1>1. told \in [Resolvers -> Seq(ResolverResults)]
  BY DEF Sound, RefInv, RefShape
<1>2. told'[r] = Append(<<>>, result) /\ \A q \in Resolvers \ {r} : told'[q] = told[q]
  BY <1>1
<1>3. told'[r] # <<>> /\ Len(told'[r]) = 1
  BY <1>2
<1>4. Status(r)' = "told" /\ Status(r) = "asked"
  BY <1>3 DEF Status
<1>5. \A q \in Resolvers \ {r} : Status(q)' = Status(q)
  BY <1>2 DEF Status
<1>6. Served' = [Served EXCEPT ![r] = "told"] /\ Served[r] = "asked"
  BY <1>4, <1>5 DEF Served
<1>7. Service!Answer(r)
  BY <1>6 DEF Service!Answer, Service!Becomes
<1> QED  BY <1>7 DEF Service!Next

LEMMA ServedLookup ==
  ASSUME Sound, habits = {}, habits' = {}, NEW r \in Resolvers,
         blocking_resolver_lookup_host(r) \/ blocking_resolver_lookup_srv(r)
  PROVE  [Service!Next]_Served
<1>1. life[r] = "none" /\ life' = [life EXCEPT ![r] = "live"] /\ UNCHANGED told
  BY DEF blocking_resolver_lookup_host, blocking_resolver_lookup_srv, AddIdle, resolver_create
<1>2. told[r] = <<>> /\ life \in [Resolvers -> {"none", "live", "freed"}]
  BY <1>1 DEF Sound, RefInv, RefShape, NotStarted
<1>3. Status(r) = "none" /\ Status(r)' = "asked"
  BY <1>1, <1>2 DEF Status
<1>4. \A q \in Resolvers \ {r} : Status(q)' = Status(q)
  BY <1>1, <1>2 DEF Status
<1>5. Served' = [Served EXCEPT ![r] = "asked"] /\ Served[r] = "none"
  BY <1>3, <1>4 DEF Served
<1>6. Service!Ask(r)
  BY <1>5 DEF Service!Ask, Service!Becomes
<1> QED  BY <1>6 DEF Service!Next

LEMMA ServedStep == ASSUME Sound, [Next]_vars PROVE [Service!Next]_Served
<1>1. CASE UNCHANGED vars
  <2>1. Served' = Served
    BY <1>1 DEF vars, Served, Status
  <2> QED  BY <2>1
<1>2. CASE Next /\ habits # {}
  <2>1. Served' = Served
    BY <1>2 DEF Next, Running, Served
  <2> QED  BY <2>1
<1>3. CASE Next /\ habits = {}
  <2>1. RefInv /\ RefShape /\ habits' = {} /\ fate = "running"
    BY <1>3 DEF Sound, RefInv, Next, Running
  <2>2. CASE Library
    <3>1. CASE Poll \/ SourceRemoved
      <4>1. UNCHANGED <<life, told>>
        BY <3>1 DEF Poll, PollFinds, SourceRemoved, objectVars
      <4> QED  BY <1>3, <2>1, <4>1, ServedSame
    <3>2. CASE FinishReturns \/ HandlerReturns
      <4>1. UNCHANGED told /\ stack # <<>> /\ (Top("handler") \/ Top("finish"))
        BY <3>2 DEF FinishReturns, HandlerReturns, Top
      <4>2. PICK r \in Resolvers : r = Head(stack).resolver /\ Head(stack).op \in {"handler", "finish"}
        BY <2>1, <4>1, Popped DEF Top
      <4>3. told[r] # <<>>
        BY <2>1, <4>1, <4>2, Popped DEF RefInv, Silent, OneIf
      <4>4. UNCHANGED life \/ g_object_unref(r)
        BY <3>2, <4>2
        DEF FinishReturns, HandlerReturns, ClearAndUnref, UnrefAndFinalize, objectVars
      <4>5. \A q \in Resolvers \ {r} : life'[q] = life[q]
        BY <2>1, <4>4 DEF g_object_unref, RefShape
      <4> QED  BY <1>3, <2>1, <4>1, <4>3, <4>5, ServedSame
    <3> QED  BY <2>2, <3>1, <3>2 DEF Library
  <2>3. ASSUME NEW r \in Resolvers, Idles(r) PROVE [Service!Next]_Served
    <3>1. PICK result \in ResolverResults : Lookup(r, result)
      BY <1>3, <2>1, <2>3, SoundIdles
    <3>2. told[r] = <<>> /\ life[r] = "live"
      BY <1>3, <2>1, <2>3, SoundIdles
    <3>3. UNCHANGED life /\ told' = [told EXCEPT ![r] = Append(@, result)]
      BY <3>1 DEF Lookup, EmitFinished
    <3> QED  BY <1>3, <2>1, <3>2, <3>3, ServedTold
  <2>4. ASSUME NEW r \in Resolvers, blocking_resolver_cancel(r) PROVE [Service!Next]_Served
    <3>1. life[r] = "live" /\ told[r] = <<>>
      BY <1>3, <2>1, <2>4, UsedIsLive DEF blocking_resolver_cancel, MayCancel
    <3>2. UNCHANGED life /\ told' = [told EXCEPT ![r] = Append(@, "CANCELLED")] /\ "CANCELLED" \in ResolverResults
      BY <2>4, <3>1 DEF blocking_resolver_cancel, EmitFinished, ResolverResults
    <3> QED  BY <1>3, <2>1, <3>1, <3>2, ServedTold
  <2>5. ASSUME NEW r \in Resolvers, ClientUnref(r) PROVE [Service!Next]_Served
    <3>1. life[r] = "live" /\ held[r] /\ UNCHANGED told
      BY <1>3, <2>1, <2>5, UsedIsLive DEF ClientUnref, MayUnref
    <3>2. life' = [life EXCEPT ![r] = IF LastRef(r) THEN "freed" ELSE @]
      BY <2>5, <3>1 DEF ClientUnref, UnrefAndFinalize, g_object_unref
    <3>3. \A q \in Resolvers : life'[q] = "none" <=> life[q] = "none"
      BY <2>1, <3>1, <3>2 DEF RefShape
    <3> QED  BY <1>3, <2>1, <3>1, <3>3, ServedSame
  <2>6. CASE ClientDropsAddress
    <3>1. UNCHANGED <<life, told>>
      BY <2>6 DEF ClientDropsAddress, objectVars
    <3> QED  BY <1>3, <2>1, <3>1, ServedSame
  <2> QED  BY <1>3, <2>1, <2>2, <2>3, <2>4, <2>5, <2>6, ServedLookup DEF Next, Client
<1> QED  BY <1>1, <1>2, <1>3

(* Every step of the class is one of a service that loses no lookup and    *)
(* answers each once (the safety half of ImplementsLookup).                *)
THEOREM ServesLookups == Spec => Service!Spec
<1>1. Init => Service!Init
  <2> SUFFICES ASSUME Init PROVE Service!Init
    OBVIOUS
  <2>1. \A r \in Resolvers : Status(r) = "none"
    BY DEF Init, ResolverInit, Status
  <2> QED  BY <2>1 DEF Service!Init, Served
<1>2. Sound /\ [Next]_vars => [Service!Next]_Served
  BY ServedStep
<1> QED  BY <1>1, <1>2, SoundAlways, PTL DEF Spec, Service!Spec
=============================================================================
