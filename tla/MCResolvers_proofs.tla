--------------------------- MODULE MCResolvers_proofs ---------------------------
(***************************************************************************)
(* Proofs about LmSocketAddress, and then about the three parts together   *)
(* as MCResolvers runs them, for every value of the constants: any finite  *)
(* set of sockets and of lookups, results of any length, sockets that walk *)
(* in any order, and every client of the resolvers.                        *)
(*                                                                         *)
(* Of the address: what is freed, and when, follows from the count of      *)
(* references being the number of those that keep one: nobody is left who  *)
(* could take a new reference, or use the list, when the last is given     *)
(* back.  What a socket has tried follows from where the iterator stands.  *)
(***************************************************************************)
EXTENDS MCResolvers, LmAsyncnsResolver_proofs

Keepers == {s \in Sockets : walk[s] # "gone"}

KeepersCounted == refs = Cardinality(Keepers) + Cardinality(lookups) + (IF client THEN 1 ELSE 0)

AddressShape ==
  /\ client \in BOOLEAN /\ results \in Nat
  /\ length \in Seq(1 .. MaxResults)
  /\ walk \in [Sockets -> States]
  /\ lookups \subseteq Sockets \cup {Oneself}
  /\ \A s \in lookups \cap Sockets : walk[s] = "looking"

AddressInv == AddressShape /\ KeepersCounted /\ FreedAtLast

-----------------------------------------------------------------------------
(* Counting *)

LEMMA KeepersFinite ==
  ASSUME AddressShape
  PROVE  /\ IsFiniteSet(Keepers) /\ IsFiniteSet(lookups)
         /\ Cardinality(Keepers) \in Nat /\ Cardinality(lookups) \in Nat
<1>1. IsFiniteSet(Keepers)
  BY SocketsAssumption, FS_Subset DEF Keepers
<1>2. IsFiniteSet(Sockets \cup {Oneself})
  BY SocketsAssumption, FS_AddElement
<1>3. IsFiniteSet(lookups)
  BY <1>2, FS_Subset DEF AddressShape
<1> QED  BY <1>1, <1>3, FS_CardinalityType

LEMMA RefsAreNat == ASSUME AddressShape, KeepersCounted PROVE refs \in Nat
  BY KeepersFinite DEF KeepersCounted

(* Where nobody comes or goes, the count stays. *)
LEMMA SameKeepers ==
  ASSUME KeepersCounted, UNCHANGED <<refs, client, lookups>>, Keepers' = Keepers
  PROVE  KeepersCounted'
  BY DEF KeepersCounted

(* Whoever gives a reference back has one. *)
LEMMA OneLess ==
  ASSUME AddressInv, AddressShape', refs' = refs - 1,
         \/ \E s \in Keepers : Keepers' = Keepers \ {s} /\ UNCHANGED <<lookups, client>>
         \/ \E who \in lookups : lookups' = lookups \ {who} /\ Keepers' = Keepers
                                  /\ UNCHANGED client
         \/ client /\ ~client' /\ Keepers' = Keepers /\ UNCHANGED lookups
  PROVE  KeepersCounted' /\ refs > 0 /\ refs \in Nat
<1> USE DEF AddressInv, KeepersCounted
<1>0. /\ IsFiniteSet(Keepers) /\ IsFiniteSet(lookups)
      /\ Cardinality(Keepers) \in Nat /\ Cardinality(lookups) \in Nat
  BY KeepersFinite
<1>1. CASE \E s \in Keepers : Keepers' = Keepers \ {s} /\ UNCHANGED <<lookups, client>>
  <2>1. PICK s \in Keepers : Keepers' = Keepers \ {s} /\ UNCHANGED <<lookups, client>>
    BY <1>1
  <2>2. Cardinality(Keepers') = Cardinality(Keepers) - 1 /\ Cardinality(Keepers') \in Nat
    BY <1>0, <2>1, FS_RemoveElement, FS_CardinalityType
  <2> QED  BY <1>0, <2>1, <2>2
<1>2. CASE \E who \in lookups : lookups' = lookups \ {who} /\ Keepers' = Keepers
                                  /\ UNCHANGED client
  <2>1. PICK who \in lookups : lookups' = lookups \ {who} /\ Keepers' = Keepers
                                  /\ UNCHANGED client
    BY <1>2
  <2>2. Cardinality(lookups') = Cardinality(lookups) - 1 /\ Cardinality(lookups') \in Nat
    BY <1>0, <2>1, FS_RemoveElement, FS_CardinalityType
  <2> QED  BY <1>0, <2>1, <2>2
<1>3. CASE client /\ ~client' /\ Keepers' = Keepers /\ UNCHANGED lookups
  BY <1>0, <1>3
<1> QED  BY <1>1, <1>2, <1>3

(* The last reference takes the list along. *)
LEMMA LastUnref ==
  ASSUME AddressInv, KeepersCounted', refs > 0, refs \in Nat, NEW list, list \in Nat, list = results',
         lm_socket_address_unref(list, {})
  PROVE  FreedAtLast'
<1>1. freed = {}
  BY DEF AddressInv, FreedAtLast
<1>2. CASE refs = 1
  BY <1>1, <1>2 DEF lm_socket_address_unref, GoesWithLast, FreedAtLast
<1>3. CASE refs # 1
  BY <1>1, <1>3 DEF lm_socket_address_unref, GoesWithLast, FreedAtLast
<1> QED  BY <1>2, <1>3

(* A reference is taken only by somebody who is there. *)
LEMMA OneMore ==
  ASSUME AddressInv, NEW who, Starts(who), Keepers' = Keepers, UNCHANGED <<client, results, freed>>,
         client \/ Keepers # {}
  PROVE  KeepersCounted' /\ FreedAtLast'
<1>0. /\ IsFiniteSet(Keepers) /\ IsFiniteSet(lookups)
      /\ Cardinality(Keepers) \in Nat /\ Cardinality(lookups) \in Nat
  BY KeepersFinite DEF AddressInv
<1>1. Cardinality(lookups') = Cardinality(lookups) + 1
  BY <1>0, FS_AddElement DEF Starts
<1>2. KeepersCounted'
  BY <1>0, <1>1 DEF AddressInv, KeepersCounted, Starts, lm_socket_address_ref
<1>3. refs > 0 /\ refs \in Nat
  <2>1. Keepers # {} => Cardinality(Keepers) > 0
    BY <1>0, FS_EmptySet
  <2> QED  BY <1>0, <2>1 DEF AddressInv, KeepersCounted
<1>4. FreedAtLast'
  BY <1>3 DEF AddressInv, FreedAtLast, Starts, lm_socket_address_ref
<1> QED  BY <1>2, <1>4

-----------------------------------------------------------------------------
(* What a turn of a socket does to it *)

LEMMA Turn ==
  ASSUME AddressShape, NEW s \in Sockets, NEW list, NEW len,
         socket_attempt_connect_next(s, list, len), walk[s] # "gone"
  PROVE  /\ walk' \in [Sockets -> States]
         /\ Keepers' = Keepers
         /\ \A q \in Sockets \ {s} : walk'[q] = walk[q]
<1>1. \E state \in {"walking", "at_end"} : walk' = [walk EXCEPT ![s] = state]
  BY DEF socket_attempt_connect_next
<1> QED  BY <1>1 DEF AddressShape, States, Keepers

-----------------------------------------------------------------------------
(* The invariant *)

LEMMA AddressInvInit == AddressInit => AddressInv
<1> SUFFICES ASSUME AddressInit PROVE AddressInv
  OBVIOUS
<1>1. Keepers = Sockets
  BY DEF AddressInit, Keepers
<1>2. Cardinality(Sockets) \in Nat /\ Cardinality(lookups) = 0
  BY SocketsAssumption, FS_CardinalityType, FS_EmptySet DEF AddressInit
<1>3. AddressShape
  BY DEF AddressInit, AddressShape, States
<1> QED  BY <1>1, <1>2, <1>3 DEF AddressInit, AddressInv, KeepersCounted, FreedAtLast

LEMMA LookupKeeps ==
  ASSUME AddressInv, NEW who \in lookups, LookupFails(who) \/ LookupSucceeds(who)
  PROVE  AddressInv'
<1>1. AddressShape' /\ Keepers' = Keepers
  <2>1. lookups' = lookups \ {who} /\ client' = client
    BY DEF LookupFails, LookupSucceeds, Ends
  <2>2. results' \in Nat /\ length' \in Seq(1 .. MaxResults)
    <3>1. CASE LookupFails(who)
      BY <3>1 DEF LookupFails, AddressInv, AddressShape
    <3>2. CASE LookupSucceeds(who)
      <4>1. PICK n \in 1 .. MaxResults : length' = Append(length, n) /\ results' = Len(length) + 1
        BY <3>2 DEF LookupSucceeds, lm_socket_address_set_results
      <4> QED  BY <4>1 DEF AddressInv, AddressShape
    <3> QED  BY <3>1, <3>2
  <2>3. /\ walk' \in [Sockets -> States] /\ Keepers' = Keepers
        /\ \A q \in Sockets \ {who} : walk'[q] = walk[q]
    <3>1. CASE who = Oneself
      <4>1. walk' = walk
        BY <3>1 DEF LookupFails, LookupSucceeds
      <4> QED  BY <4>1 DEF AddressInv, AddressShape, Keepers
    <3>2. CASE who # Oneself
      <4>1. who \in Sockets /\ walk[who] = "looking"
        BY <3>2 DEF AddressInv, AddressShape
      <4>2. CASE LookupFails(who)
        BY <3>2, <4>1, <4>2 DEF LookupFails, AddressInv, AddressShape, States, Keepers
      <4>3. CASE LookupSucceeds(who)
        BY <3>2, <4>1, <4>3, Turn DEF LookupSucceeds, AddressInv
      <4> QED  BY <4>2, <4>3
    <3> QED  BY <3>1, <3>2
  <2> QED  BY <2>1, <2>2, <2>3 DEF AddressInv, AddressShape
<1>2. lm_socket_address_unref(results', {})
  BY DEF LookupFails, LookupSucceeds, Replaced
<1>3. KeepersCounted' /\ refs > 0 /\ refs \in Nat
  BY <1>1, <1>2, OneLess DEF LookupFails, LookupSucceeds, Ends, lm_socket_address_unref
<1>4. FreedAtLast'
  BY <1>1, <1>2, <1>3, LastUnref DEF AddressShape
<1> QED  BY <1>1, <1>3, <1>4 DEF AddressInv

LEMMA SocketKeeps ==
  ASSUME AddressInv, NEW s \in Sockets,
         lm_socket_connect(s) \/ Connects(s) \/ NextResult(s) \/ socket_reset(s)
  PROVE  AddressInv'
<1>1. /\ walk[s] # "gone" /\ walk' \in [Sockets -> States] /\ Keepers' = Keepers
      /\ \A q \in Sockets \ {s} : walk'[q] = walk[q]
  <2>1. CASE lm_socket_connect(s) /\ results # 0
    BY <2>1, Turn DEF lm_socket_connect, AddressInv
  <2>2. CASE lm_socket_connect(s) /\ results = 0
    BY <2>2 DEF lm_socket_connect, AddressInv, AddressShape, States, Keepers
  <2>3. CASE NextResult(s)
    BY <2>3, Turn DEF NextResult, AddressInv
  <2>4. CASE Connects(s) \/ socket_reset(s)
    BY <2>4 DEF Connects, socket_reset, AddressInv, AddressShape, States, Keepers
  <2> QED  BY <2>1, <2>2, <2>3, <2>4
<1>2. UNCHANGED <<client, results, length, freed>>
  BY DEF lm_socket_connect, Connects, NextResult, socket_reset
<1>3. s \in Keepers
  BY <1>1 DEF Keepers
<1>4. CASE lm_socket_connect(s) /\ results = 0
  <2>1. lookups' = lookups \cup {s} /\ walk'[s] = "looking"
    BY <1>4 DEF lm_socket_connect, Starts, AddressInv, AddressShape
  <2>2. AddressShape'
    BY <1>1, <1>2, <2>1 DEF AddressInv, AddressShape
  <2>3. KeepersCounted' /\ FreedAtLast'
    BY <1>1, <1>2, <1>3, <1>4, OneMore DEF lm_socket_connect
  <2> QED  BY <2>2, <2>3 DEF AddressInv
<1>5. CASE ~(lm_socket_connect(s) /\ results = 0)
  <2>1. UNCHANGED <<refs, lookups>> /\ walk[s] # "looking"
    BY <1>5 DEF lm_socket_connect, Connects, NextResult, socket_reset
  <2>2. AddressShape'
    BY <1>1, <1>2, <2>1 DEF AddressInv, AddressShape
  <2>3. KeepersCounted' /\ FreedAtLast'
    BY <1>1, <1>2, <2>1, SameKeepers DEF AddressInv, FreedAtLast
  <2> QED  BY <2>2, <2>3 DEF AddressInv
<1> QED  BY <1>4, <1>5

LEMMA LeaverKeeps ==
  ASSUME AddressInv, DropsAddress \/ \E s \in Sockets : socket_finalize(s)
  PROVE  AddressInv'
<1>1. lm_socket_address_unref(results, {}) /\ UNCHANGED <<results, length, lookups>>
  BY DEF DropsAddress, socket_finalize
<1>2. /\ AddressShape'
      /\ \/ client /\ ~client' /\ Keepers' = Keepers
         \/ \E s \in Keepers : Keepers' = Keepers \ {s} /\ UNCHANGED client
  <2>1. CASE DropsAddress
    BY <2>1 DEF DropsAddress, AddressInv, AddressShape, Keepers
  <2>2. ASSUME NEW s \in Sockets, socket_finalize(s) PROVE <1>2!1 /\ <1>2!2
    <3>1. walk[s] # "gone" /\ walk[s] # "looking" /\ walk' = [walk EXCEPT ![s] = "gone"]
      BY <2>2 DEF socket_finalize
    <3>2. Keepers' = Keepers \ {s} /\ s \in Keepers
      BY <3>1 DEF Keepers, AddressInv, AddressShape
    <3>3. AddressShape'
      BY <1>1, <2>2, <3>1 DEF socket_finalize, AddressInv, AddressShape, States
    <3> QED  BY <2>2, <3>2, <3>3 DEF socket_finalize
  <2> QED  BY <2>1, <2>2
<1>3. KeepersCounted' /\ refs > 0 /\ refs \in Nat
  BY <1>1, <1>2, OneLess DEF lm_socket_address_unref
<1>4. FreedAtLast'
  BY <1>1, <1>3, LastUnref DEF AddressInv, AddressShape
<1> QED  BY <1>2, <1>3, <1>4 DEF AddressInv

LEMMA AddressInvKept == AddressInv /\ [AddressNext]_addressVars => AddressInv'
<1> SUFFICES ASSUME AddressInv, [AddressNext]_addressVars PROVE AddressInv'
  OBVIOUS
<1>1. CASE ClientLooksUp
  <2>1. Keepers' = Keepers /\ AddressShape'
    BY <1>1, SocketsAssumption DEF ClientLooksUp, Starts, Keepers, AddressInv, AddressShape
  <2> QED  BY <1>1, <2>1, OneMore DEF ClientLooksUp, AddressInv
<1>2. CASE \E who \in lookups : LookupFails(who) \/ LookupSucceeds(who)
  BY <1>2, LookupKeeps
<1>3. CASE \E s \in Sockets : lm_socket_connect(s) \/ Connects(s) \/ NextResult(s)
                                 \/ socket_reset(s)
  BY <1>3, SocketKeeps
<1>4. CASE DropsAddress \/ \E s \in Sockets : socket_finalize(s)
  BY <1>4, LeaverKeeps
<1>5. CASE UNCHANGED addressVars
  BY <1>5 DEF addressVars, AddressInv, AddressShape, KeepersCounted, FreedAtLast, Keepers
<1> QED  BY <1>1, <1>2, <1>3, <1>4, <1>5 DEF AddressNext

-----------------------------------------------------------------------------
(* The last lm_socket_address_unref frees the list set last, and nothing   *)
(* else is ever freed: the iterator, while anybody can advance it, stands  *)
(* in a list that is there, although lm_socket_address_set_results may     *)
(* have replaced it.                                                       *)
THEOREM FreedAtLastAlways == AddressSpec => []FreedAtLast
<1>1. AddressInv => FreedAtLast
  BY DEF AddressInv
<1> QED  BY <1>1, AddressInvInit, AddressInvKept, PTL DEF AddressSpec
-----------------------------------------------------------------------------
(* Where the iterator stands, and what was tried *)

Prefix(l, n) == [k \in 1 .. n |-> <<l, k>>]
After(l, n, len) == IF n < len[l] THEN <<l, n + 1>> ELSE End

EntriesOf(len) == (1 .. Len(len)) \X (1 .. MaxResults)
StandsIn(e, len) == e = End \/ (e \in EntriesOf(len) /\ e[2] <= len[e[1]])

Rewinds(s) == walk[s] \in {"rewind", "looking"}
Busy(s) == walk[s] \in {"looking", "walking"}

(* A socket that walks has tried the entries before the iterator.          *)
Walked(s) == \E l \in Lists : \E n \in 1 .. length[l] : given[s] = Prefix(l, n) /\ iter = After(l, n, length)

InTurns ==
  /\ \A s \in Sockets : walk[s] = "walking" => Walked(s)
  /\ \A s \in Sockets : walk[s] = "at_end" => \E l \in Lists : given[s] = WholeList(l)
  /\ \A s, q \in Sockets : s # q /\ Busy(s) => ~Busy(q)

Walks ==
  /\ turns \in BOOLEAN /\ results \in {0} \cup Lists
  /\ StandsIn(iter, length)
  /\ given \in [Sockets -> Seq(EntriesOf(length))]
  /\ turns => InTurns

LEMMA FromEntry ==
  ASSUME NEW len \in Seq(1 .. MaxResults), NEW l \in 1 .. Len(len), NEW n \in Nat, n < len[l]
  PROVE  /\ <<l, n + 1>> # End
         /\ From(<<l, n + 1>>, len) \in Seq(EntriesOf(len))
         /\ Len(From(<<l, n + 1>>, len)) = len[l] - n
         /\ \A m \in 1 .. len[l] - n :
              /\ From(<<l, n + 1>>, len)[m] = <<l, n + m>>
              /\ Following(<<l, n + m>>, len) = After(l, n + m, len)
              /\ <<l, n + m>> \in EntriesOf(len)
<1> DEFINE t == [j \in 1 .. len[l] - n |-> <<l, n + j>>]
<1>1. len[l] \in 1 .. MaxResults /\ MaxResults \in Nat
  BY AddressAssumption
<1>2. <<l, n + 1>> # End
  BY DEF End
<1>3. From(<<l, n + 1>>, len) = t
  <2>1. From(<<l, n + 1>>, len) = [j \in 1 .. len[l] - (n + 1) + 1 |-> <<l, (n + 1) + j - 1>>]
    BY <1>2 DEF From
  <2>2. len[l] - (n + 1) + 1 = len[l] - n /\ \A j \in 1 .. len[l] - n : (n + 1) + j - 1 = n + j
    BY <1>1
  <2> QED  BY <2>1, <2>2
<1>4. ASSUME NEW m \in 1 .. len[l] - n PROVE <<l, n + m>> \in EntriesOf(len) /\ n + m \in Nat
  <2>1. n + m \in 1 .. MaxResults /\ n + m \in Nat
    BY <1>1
  <2> QED  BY <2>1 DEF EntriesOf
<1>5. t \in Seq(EntriesOf(len)) /\ Len(t) = len[l] - n
  <2>1. len[l] - n \in Nat
    BY <1>1
  <2> QED  BY <1>4, <2>1
<1>6. \A m \in 1 .. len[l] - n : Following(<<l, n + m>>, len) = After(l, n + m, len)
  BY <1>4 DEF Following, After
<1> QED  BY <1>2, <1>3, <1>4, <1>5, <1>6

LEMMA Extended ==
  ASSUME NEW S, NEW left \in Seq(S), NEW l, NEW n \in Nat, NEW m \in 0 .. Len(left),
         \A k \in 1 .. Len(left) : left[k] = <<l, n + k>>
  PROVE  Prefix(l, n) \o SubSeq(left, 1, m) = Prefix(l, n + m)
<1> DEFINE a == Prefix(l, n)
           b == SubSeq(left, 1, m)
           T == {<<l, k>> : k \in Nat}
<1>1. b \in Seq(T) /\ Len(b) = m /\ \A k \in 1 .. m : b[k] = <<l, n + k>>
  <2>1. Len(b) = m /\ \A k \in 1 .. m : b[k] = left[k]
    BY SubSeqProperties
  <2>2. \A k \in 1 .. m : b[k] = <<l, n + k>> /\ n + k \in Nat
    BY <2>1
  <2>3. b \in Seq(S)
    BY SubSeqProperties
  <2>4. b = [k \in 1 .. m |-> b[k]]
    BY <2>1, <2>3
  <2>5. \A k \in 1 .. m : b[k] \in T
    BY <2>2
  <2>6. [k \in 1 .. m |-> b[k]] \in Seq(T)
    BY <2>5
  <2> QED  BY <2>1, <2>2, <2>4, <2>6
<1>2. a \in Seq(T) /\ Len(a) = n /\ \A k \in 1 .. n : a[k] = <<l, k>>
  <2>1. \A k \in 1 .. n : <<l, k>> \in T
    OBVIOUS
  <2> QED  BY <2>1 DEF Prefix
<1> HIDE DEF a, b, T
<1> DEFINE c == a \o b
           p == Prefix(l, n + m)
<1>3. /\ c \in Seq(T) /\ Len(c) = Len(a) + Len(b)
      /\ \A k \in 1 .. Len(a) + Len(b) : c[k] = IF k <= Len(a) THEN a[k] ELSE b[k - Len(a)]
  BY <1>1, <1>2, ConcatProperties
<1>4. p \in Seq(T) /\ Len(p) = n + m /\ \A k \in 1 .. n + m : p[k] = <<l, k>>
  <2>1. \A k \in 1 .. n + m : <<l, k>> \in T
    BY DEF T
  <2> QED  BY <2>1 DEF Prefix
<1> HIDE DEF c, p
<1>5. ASSUME NEW k \in 1 .. Len(c) PROVE c[k] = p[k]
  <2>1. k \in 1 .. n + m
    BY <1>1, <1>2, <1>3
  <2>2. CASE k <= n
    <3>1. k \in 1 .. n /\ k \in 1 .. Len(a) + Len(b) /\ k <= Len(a)
      BY <1>1, <1>2, <2>1, <2>2
    <3>2. c[k] = a[k] /\ a[k] = <<l, k>>
      BY <1>2, <1>3, <3>1
    <3> QED  BY <1>4, <2>1, <3>2
  <2>3. CASE k > n
    <3>1. k - n \in 1 .. m /\ n + (k - n) = k
      BY <2>1, <2>3
    <3>2. c[k] = b[k - n]
      BY <1>1, <1>2, <1>3, <2>1, <2>3
    <3> QED  BY <1>1, <1>4, <2>1, <3>1, <3>2
  <2> QED  BY <2>1, <2>2, <2>3
<1>6. Len(c) = Len(p)
  BY <1>1, <1>2, <1>3, <1>4
<1>7. c = p
  BY <1>3, <1>4, <1>5, <1>6, SeqEqual
<1> QED  BY <1>7 DEF a, b, c, p

LEMMA TurnWalks ==
  ASSUME NEW s \in Sockets, NEW len \in Seq(1 .. MaxResults), NEW list,
         walk \in [Sockets -> States], turns \in BOOLEAN, StandsIn(iter, len),
         given \in [Sockets -> Seq(EntriesOf(len))],
         Rewinds(s) => list \in 1 .. Len(len),
         turns /\ ~Rewinds(s) =>
           \E l \in 1 .. Len(len) : \E n \in 1 .. len[l] : given[s] = Prefix(l, n) /\ iter = After(l, n, len),
         socket_attempt_connect_next(s, list, len)
  PROVE  /\ StandsIn(iter', len) /\ given' \in [Sockets -> Seq(EntriesOf(len))]
         /\ \A q \in Sockets \ {s} : given'[q] = given[q] /\ walk'[q] = walk[q]
         /\ walk'[s] \in {"walking", "at_end"}
         /\ turns => \E l \in 1 .. Len(len) :
              /\ walk'[s] = "walking" =>
                   \E n \in 1 .. len[l] : given'[s] = Prefix(l, n) /\ iter' = After(l, n, len)
              /\ walk'[s] = "at_end" => given'[s] = Prefix(l, len[l])
<1> DEFINE e == IF Rewinds(s) THEN <<list, 1>> ELSE iter
           left == From(e, len)
           before == IF Rewinds(s) THEN <<>> ELSE given[s]
<1>1. \A l \in 1 .. Len(len) : len[l] \in 1 .. MaxResults
  BY ElementOfSeq
<1>2. StandsIn(e, len)
  <2>1. CASE Rewinds(s)
    <3>1. e = <<list, 1>> /\ list \in 1 .. Len(len) /\ len[list] \in 1 .. MaxResults /\ MaxResults \in Nat
      BY <1>1, <2>1, AddressAssumption
    <3>2. 1 \in 1 .. MaxResults /\ 1 <= len[list]
      BY <3>1
    <3> QED  BY <3>1, <3>2 DEF StandsIn, EntriesOf
  <2>2. CASE ~Rewinds(s)
    BY <2>2
  <2> QED  BY <2>1, <2>2
<1> HIDE DEF e, left
<1>3. /\ left \in Seq(EntriesOf(len))
      /\ \A m \in 1 .. Len(left) : StandsIn(Following(left[m], len), len)
  <2>1. CASE e = End
    <3>1. left = <<>>
      BY <2>1 DEF From, left
    <3>2. left \in Seq(EntriesOf(len)) /\ Len(left) = 0
      BY <3>1
    <3> QED  BY <3>2
  <2>2. CASE e # End
    <3>1. PICK l \in 1 .. Len(len), n \in Nat : e = <<l, n + 1>> /\ n < len[l]
      <4>1. e \in EntriesOf(len) /\ e[2] <= len[e[1]]
        BY <1>2, <2>2 DEF StandsIn
      <4>2. e[1] \in 1 .. Len(len) /\ e[2] - 1 \in Nat /\ e = <<e[1], (e[2] - 1) + 1>> /\ e[2] - 1 < len[e[1]]
        BY <1>1, <4>1 DEF EntriesOf
      <4> QED  BY <4>2
    <3>2. /\ left \in Seq(EntriesOf(len)) /\ Len(left) = len[l] - n
          /\ \A m \in 1 .. len[l] - n : left[m] = <<l, n + m>> /\ Following(<<l, n + m>>, len) = After(l, n + m, len)
      BY <3>1, FromEntry DEF left
    <3>3. ASSUME NEW m \in 1 .. Len(left) PROVE StandsIn(Following(left[m], len), len)
      <4>1. m \in 1 .. len[l] - n
        BY <3>2
      <4>2. n + m \in Nat /\ len[l] \in 1 .. MaxResults /\ MaxResults \in Nat
        BY <1>1, <4>1, AddressAssumption
      <4>3. Following(left[m], len) = IF n + m < len[l] THEN <<l, n + m + 1>> ELSE End
        BY <3>2, <4>1 DEF After
      <4>4. CASE n + m < len[l]
        <5>1. n + m + 1 \in 1 .. MaxResults /\ n + m + 1 <= len[l]
          BY <4>2, <4>4
        <5> QED  BY <4>3, <4>4, <5>1 DEF StandsIn, EntriesOf
      <4>5. CASE ~(n + m < len[l])
        BY <4>3, <4>5 DEF StandsIn
      <4> QED  BY <4>4, <4>5
    <3> QED  BY <3>2, <3>3
  <2> QED  BY <2>1, <2>2
<1>4. PICK m \in 0 .. Len(left), state \in {"walking", "at_end"} :
        /\ walk' = [walk EXCEPT ![s] = state]
        /\ given' = [given EXCEPT ![s] = IF turns THEN before \o SubSeq(left, 1, m) ELSE <<>>]
        /\ state = "walking" => m >= 1 /\ iter' = Following(left[m], len)
        /\ state = "at_end" => m = Len(left) /\ iter' = End
  <2>1. Len(left) \in Nat
    BY <1>3
  <2> HIDE DEF before
  <2>2. CASE \E m \in 1 .. Len(left) :
               /\ walk' = [walk EXCEPT ![s] = "walking"]
               /\ given' = [given EXCEPT ![s] = IF turns THEN before \o SubSeq(left, 1, m) ELSE <<>>]
               /\ iter' = Following(left[m], len)
    <3>1. PICK m \in 1 .. Len(left) :
               /\ walk' = [walk EXCEPT ![s] = "walking"]
               /\ given' = [given EXCEPT ![s] = IF turns THEN before \o SubSeq(left, 1, m) ELSE <<>>]
               /\ iter' = Following(left[m], len)
      BY <2>2
    <3>2. m \in 0 .. Len(left) /\ m >= 1
      BY <2>1
    <3> QED  BY <3>1, <3>2
  <2>3. CASE /\ walk' = [walk EXCEPT ![s] = "at_end"]
             /\ given' = [given EXCEPT ![s] = IF turns THEN before \o SubSeq(left, 1, Len(left)) ELSE <<>>]
             /\ iter' = End
    <3>1. Len(left) \in 0 .. Len(left)
      BY <2>1
    <3> QED  BY <2>3, <3>1
  <2> QED  BY <2>2, <2>3
           DEF socket_attempt_connect_next, Rewinds, lm_socket_address_get_result_iter, e, left, before
<1> HIDE DEF e, left, before
<1>5. walk'[s] = state /\ \A q \in Sockets \ {s} : given'[q] = given[q] /\ walk'[q] = walk[q]
  BY <1>4
<1>6. given'[s] = IF turns THEN before \o SubSeq(left, 1, m) ELSE <<>>
  BY <1>4
<1>7. StandsIn(iter', len)
  BY <1>3, <1>4 DEF StandsIn
<1>8. given' \in [Sockets -> Seq(EntriesOf(len))]
  <2>1. before \in Seq(EntriesOf(len)) /\ <<>> \in Seq(EntriesOf(len))
    BY DEF before
  <2>2. SubSeq(left, 1, m) \in Seq(EntriesOf(len))
    BY <1>3, <1>4
  <2>3. before \o SubSeq(left, 1, m) \in Seq(EntriesOf(len))
    BY <2>1, <2>2, ConcatProperties
  <2> DEFINE now == IF turns THEN before \o SubSeq(left, 1, m) ELSE <<>>
  <2>4. now \in Seq(EntriesOf(len)) /\ given' = [given EXCEPT ![s] = now]
    BY <1>4, <2>1, <2>3
  <2> HIDE DEF now
  <2> QED  BY <2>4
<1>9. ASSUME turns
      PROVE  \E l \in 1 .. Len(len) :
               /\ walk'[s] = "walking" =>
                    \E n \in 1 .. len[l] : given'[s] = Prefix(l, n) /\ iter' = After(l, n, len)
               /\ walk'[s] = "at_end" => given'[s] = Prefix(l, len[l])
  <2>1. PICK l \in 1 .. Len(len), n \in Nat : n <= len[l] /\ before = Prefix(l, n) /\ e = After(l, n, len)
    <3>1. CASE Rewinds(s)
      <4>1. list \in 1 .. Len(len) /\ 0 < len[list] /\ e = <<list, 0 + 1>> /\ before = <<>>
        BY <1>1, <3>1 DEF e, before
      <4>2. Prefix(list, 0) = <<>> /\ After(list, 0, len) = <<list, 0 + 1>>
        BY <4>1 DEF Prefix, After
      <4>3. 0 <= len[list]
        BY <1>1, <4>1
      <4> QED  BY <4>1, <4>2, <4>3
    <3>2. CASE ~Rewinds(s)
      BY <1>1, <1>9, <3>2 DEF e, before
    <3> QED  BY <3>1, <3>2
  <2>2. len[l] \in Nat
    BY <1>1, AddressAssumption
  <2>3. /\ Len(left) = len[l] - n
        /\ \A k \in 1 .. Len(left) : left[k] = <<l, n + k>> /\ Following(left[k], len) = After(l, n + k, len)
    <3>1. CASE n < len[l]
      <4>1. e = <<l, n + 1>>
        BY <2>1, <3>1 DEF After
      <4>2. Len(left) = len[l] - n /\ \A k \in 1 .. len[l] - n :
              left[k] = <<l, n + k>> /\ Following(<<l, n + k>>, len) = After(l, n + k, len)
        BY <3>1, <4>1, FromEntry DEF left
      <4> QED  BY <4>2
    <3>2. CASE n = len[l]
      <4>1. left = <<>>
        BY <2>1, <2>2, <3>2 DEF After, left, From
      <4> QED  BY <3>2, <4>1, <2>2
    <3> QED  BY <2>1, <2>2, <3>1, <3>2
  <2>4. given'[s] = Prefix(l, n + m)
    <3>1. Prefix(l, n) \o SubSeq(left, 1, m) = Prefix(l, n + m)
      BY <1>3, <2>3, Extended
    <3> QED  BY <1>6, <1>9, <2>1, <3>1
  <2>5. CASE state = "walking"
    <3>1. m \in 1 .. Len(left) /\ iter' = Following(left[m], len)
      BY <1>4, <2>5
    <3>2. iter' = After(l, n + m, len)
      BY <2>3, <3>1
    <3>3. n + m \in 1 .. len[l]
      <4>1. Len(left) = len[l] - n
        BY <2>3
      <4> QED  BY <2>2, <3>1, <4>1
    <3> QED  BY <1>5, <2>4, <2>5, <3>2, <3>3
  <2>6. CASE state = "at_end"
    <3>1. n + m = len[l]
      <4>1. m = Len(left) /\ Len(left) = len[l] - n
        BY <1>4, <2>3, <2>6
      <4> QED  BY <2>2, <4>1
    <3> QED  BY <1>5, <2>4, <2>6, <3>1
  <2> QED  BY <2>5, <2>6
<1> QED  BY <1>5, <1>7, <1>8, <1>9
(* A new list leaves the others what they are. *)
LEMMA Grown ==
  ASSUME length \in Seq(1 .. MaxResults), NEW n \in 1 .. MaxResults, length' = Append(length, n)
  PROVE  /\ length' \in Seq(1 .. MaxResults) /\ Lists' = Lists \cup {Len(length) + 1}
         /\ Len(length) + 1 \in Lists'
         /\ \A l \in Lists : l \in Lists' /\ length'[l] = length[l] /\ length[l] \in 1 .. MaxResults
         /\ EntriesOf(length) \subseteq EntriesOf(length')
         /\ \A e : StandsIn(e, length) => StandsIn(e, length')
<1>1. /\ length' \in Seq(1 .. MaxResults) /\ Len(length') = Len(length) + 1 /\ Len(length) \in Nat
      /\ \A l \in 1 .. Len(length) : length'[l] = length[l]
  OBVIOUS
<1>2. \A l \in Lists : length[l] \in 1 .. MaxResults
  BY ElementOfSeq DEF Lists
<1>3. EntriesOf(length) \subseteq EntriesOf(length')
  BY <1>1 DEF EntriesOf
<1>4. ASSUME NEW e, StandsIn(e, length) PROVE StandsIn(e, length')
  <2>1. CASE e \in EntriesOf(length) /\ e[2] <= length[e[1]]
    <3>1. e[1] \in 1 .. Len(length)
      BY <2>1 DEF EntriesOf
    <3> QED  BY <1>1, <1>3, <2>1, <3>1 DEF StandsIn
  <2> QED  BY <1>4, <2>1 DEF StandsIn
<1>5. Lists' = Lists \cup {Len(length) + 1} /\ Len(length) + 1 \in Lists'
  BY <1>1 DEF Lists
<1> QED  BY <1>1, <1>2, <1>3, <1>4, <1>5 DEF Lists

LEMMA SeqGrows ==
  ASSUME NEW S, NEW T, S \subseteq T, NEW f \in [Sockets -> Seq(S)]
  PROVE  f \in [Sockets -> Seq(T)]
<1>1. \A q \in Sockets : f[q] \in Seq(T)
  BY SeqMonotonic
<1> QED  BY <1>1

(* One socket takes its turn; all others are idle. *)
LEMMA TurnInTurns ==
  ASSUME InTurns, NEW s \in Sockets,
         \A l \in Lists : l \in Lists' /\ length'[l] = length[l],
         \A q \in Sockets \ {s} : given'[q] = given[q] /\ walk'[q] = walk[q] /\ ~Busy(q),
         walk'[s] \in {"walking", "at_end"},
         \E l \in Lists' :
              /\ walk'[s] = "walking" =>
                   \E n \in 1 .. length'[l] : given'[s] = Prefix(l, n) /\ iter' = After(l, n, length')
              /\ walk'[s] = "at_end" => given'[s] = Prefix(l, length'[l])
  PROVE  InTurns'
<1>1. ASSUME NEW q \in Sockets, walk'[q] = "walking" PROVE Walked(q)'
  <2>1. q = s
    BY <1>1 DEF Busy
  <2> QED  BY <1>1, <2>1 DEF Walked
<1>2. ASSUME NEW q \in Sockets, walk'[q] = "at_end"
      PROVE  \E l \in Lists' : given'[q] = [k \in 1 .. length'[l] |-> <<l, k>>]
  <2>1. CASE q = s
    BY <1>2, <2>1 DEF Prefix
  <2>2. CASE q # s
    <3>1. PICK l \in Lists : given[q] = [k \in 1 .. length[l] |-> <<l, k>>]
      BY <1>2, <2>2 DEF InTurns, WholeList
    <3> QED  BY <2>2, <3>1
  <2> QED  BY <2>1, <2>2
<1>3. \A q, t \in Sockets : q # t /\ Busy(q)' => ~Busy(t)'
  BY DEF Busy
<1> QED  BY <1>1, <1>2, <1>3 DEF InTurns, WholeList

(* Nobody walks who did not. *)
LEMMA StillInTurns ==
  ASSUME InTurns, iter' = iter,
         \A l \in Lists : l \in Lists' /\ length'[l] = length[l],
         \A q \in Sockets : \/ walk'[q] = walk[q] /\ given'[q] = given[q]
                            \/ walk'[q] \notin {"looking", "walking", "at_end"}
  PROVE  InTurns'
<1>1. ASSUME NEW q \in Sockets, walk'[q] = "walking" PROVE Walked(q)'
  <2>1. Walked(q) /\ given'[q] = given[q]
    BY <1>1 DEF InTurns
  <2> QED  BY <2>1 DEF Walked, After
<1>2. ASSUME NEW q \in Sockets, walk'[q] = "at_end"
      PROVE  \E l \in Lists' : given'[q] = [k \in 1 .. length'[l] |-> <<l, k>>]
  <2>1. PICK l \in Lists : given[q] = [k \in 1 .. length[l] |-> <<l, k>>]
    BY <1>2 DEF InTurns, WholeList
  <2> QED  BY <1>2, <2>1
<1>3. \A q, t \in Sockets : q # t /\ Busy(q)' => ~Busy(t)'
  BY DEF InTurns, Busy
<1> QED  BY <1>1, <1>2, <1>3 DEF InTurns, WholeList

WalkInv == AddressInv /\ Walks

LEMMA WalkInit == AddressInit => WalkInv
<1> SUFFICES ASSUME AddressInit PROVE WalkInv
  OBVIOUS
<1>1. AddressInv
  BY AddressInvInit
<1>2. \A s \in Sockets : <<>> \in Seq(EntriesOf(length))
  OBVIOUS
<1>3. Walks
  BY <1>2 DEF AddressInit, Walks, StandsIn, InTurns, Busy
<1> QED  BY <1>1, <1>3 DEF WalkInv

LEMMA TurnKeepsWalks ==
  ASSUME WalkInv, UNCHANGED turns, NEW s \in Sockets, length' \in Seq(1 .. MaxResults),
         \A l \in Lists : l \in Lists' /\ length'[l] = length[l],
         EntriesOf(length) \subseteq EntriesOf(length'), StandsIn(iter, length'),
         results' \in {0} \cup Lists', Rewinds(s) => results' # 0,
         turns => Rewinds(s) \/ walk[s] = "walking",
         turns => \A q \in Sockets \ {s} : ~Busy(q),
         socket_attempt_connect_next(s, results', length')
  PROVE  Walks'
<1>1. given \in [Sockets -> Seq(EntriesOf(length'))]
  BY SeqGrows DEF WalkInv, Walks
<1>2. walk \in [Sockets -> States] /\ turns \in BOOLEAN
  BY DEF WalkInv, Walks, AddressInv, AddressShape
<1>3. ASSUME turns, ~Rewinds(s)
      PROVE  \E l \in 1 .. Len(length') : \E n \in 1 .. length'[l] :
               given[s] = Prefix(l, n) /\ iter = After(l, n, length')
  <2>0. walk[s] = "walking"
    BY <1>3
  <2>a. InTurns
    BY <1>3 DEF WalkInv, Walks
  <2>1. Walked(s)
    BY <2>0, <2>a DEF InTurns, Busy
  <2>2. PICK l \in Lists :
          \E n \in 1 .. length[l] : given[s] = Prefix(l, n) /\ iter = After(l, n, length)
    BY <2>1 DEF Walked
  <2>3. l \in 1 .. Len(length') /\ length'[l] = length[l]
    BY DEF Lists
  <2> QED  BY <2>2, <2>3 DEF After
<1>4. Rewinds(s) => results' \in 1 .. Len(length')
  BY DEF Lists
<1>5. /\ StandsIn(iter', length') /\ given' \in [Sockets -> Seq(EntriesOf(length'))]
      /\ \A q \in Sockets \ {s} : given'[q] = given[q] /\ walk'[q] = walk[q]
      /\ walk'[s] \in {"walking", "at_end"}
      /\ turns => \E l \in 1 .. Len(length') :
           /\ walk'[s] = "walking" =>
                \E n \in 1 .. length'[l] : given'[s] = Prefix(l, n) /\ iter' = After(l, n, length')
           /\ walk'[s] = "at_end" => given'[s] = Prefix(l, length'[l])
  BY <1>1, <1>2, <1>3, <1>4, TurnWalks
<1>6. ASSUME turns PROVE InTurns'
  <2>1. InTurns
    BY <1>6 DEF WalkInv, Walks
  <2> QED  BY <1>5, <1>6, <2>1, TurnInTurns DEF Lists
<1> QED  BY <1>2, <1>5, <1>6 DEF Walks

LEMMA StillWalks ==
  ASSUME WalkInv, UNCHANGED <<turns, iter>>, results' \in {0} \cup Lists',
         \A l \in Lists : l \in Lists' /\ length'[l] = length[l],
         EntriesOf(length) \subseteq EntriesOf(length'), StandsIn(iter, length'),
         given' \in [Sockets -> Seq(EntriesOf(length'))],
         \A q \in Sockets : \/ walk'[q] = walk[q] /\ given'[q] = given[q]
                            \/ walk'[q] \notin {"looking", "walking", "at_end"}
  PROVE  Walks'
<1>1. turns => InTurns'
  BY StillInTurns DEF WalkInv, Walks
<1> QED  BY <1>1 DEF WalkInv, Walks

LEMMA WalksKept ==
  ASSUME WalkInv, [AddressNext]_addressVars
  PROVE  Walks'
<1>1. /\ walk \in [Sockets -> States] /\ length \in Seq(1 .. MaxResults)
      /\ given \in [Sockets -> Seq(EntriesOf(length))] /\ StandsIn(iter, length)
      /\ results \in {0} \cup Lists /\ turns \in BOOLEAN
  BY DEF WalkInv, Walks, AddressInv, AddressShape
<1>2. ASSUME UNCHANGED length PROVE Lists' = Lists
  BY <1>2 DEF Lists
<1>3. ASSUME UNCHANGED <<turns, iter, walk, given, results, length>> PROVE Walks'
  BY <1>1, <1>2, <1>3, StillWalks
<1>4. CASE ClientLooksUp \/ DropsAddress \/ UNCHANGED addressVars
  BY <1>3, <1>4 DEF ClientLooksUp, DropsAddress, addressVars, AddressNext
<1>5. ASSUME NEW who \in lookups, LookupFails(who), UNCHANGED turns PROVE Walks'
  <2>1. /\ UNCHANGED <<iter, given, results, length>>
        /\ walk' = walk \/ walk' = [walk EXCEPT ![who] = "rewind"]
    BY <1>5 DEF LookupFails
  <2>2. \A q \in Sockets : walk'[q] = walk[q] \/ walk'[q] = "rewind"
    BY <1>1, <2>1
  <2>3. /\ results' \in {0} \cup Lists' /\ \A l \in Lists : l \in Lists' /\ length'[l] = length[l]
        /\ EntriesOf(length) \subseteq EntriesOf(length') /\ StandsIn(iter, length')
        /\ given' \in [Sockets -> Seq(EntriesOf(length'))] /\ UNCHANGED <<turns, iter>>
    BY <1>1, <1>2, <1>5, <2>1
  <2>4. \A q \in Sockets : \/ walk'[q] = walk[q] /\ given'[q] = given[q]
                           \/ walk'[q] \notin {"looking", "walking", "at_end"}
    BY <2>1, <2>2
  <2> QED  BY <2>3, <2>4, StillWalks
<1>6. ASSUME NEW who \in lookups, LookupSucceeds(who), UNCHANGED turns PROVE Walks'
  <2>1. PICK n \in 1 .. MaxResults : length' = Append(length, n) /\ results' = Len(length) + 1
    BY <1>6 DEF LookupSucceeds, lm_socket_address_set_results
  <2>2. /\ length' \in Seq(1 .. MaxResults) /\ results' \in Lists' /\ results' # 0
        /\ \A l \in Lists : l \in Lists' /\ length'[l] = length[l]
        /\ EntriesOf(length) \subseteq EntriesOf(length') /\ StandsIn(iter, length')
    <3>1. Len(length) + 1 # 0
      BY <1>1
    <3> QED  BY <1>1, <2>1, <3>1, Grown
  <2>3. CASE who = Oneself
    <3>1. UNCHANGED <<iter, walk, given>>
      BY <1>6, <2>3 DEF LookupSucceeds
    <3>2. given' \in [Sockets -> Seq(EntriesOf(length'))]
      BY <1>1, <2>2, <3>1, SeqGrows
    <3> QED  BY <1>6, <2>2, <3>1, <3>2, StillWalks
  <2>4. CASE who # Oneself
    <3>1. who \in Sockets /\ walk[who] = "looking" /\ socket_attempt_connect_next(who, results', length')
      BY <1>6, <2>4 DEF LookupSucceeds, WalkInv, AddressInv, AddressShape
    <3>2. Rewinds(who) /\ (turns => \A q \in Sockets \ {who} : ~Busy(q))
      BY <3>1 DEF Rewinds, Busy, WalkInv, Walks, InTurns
    <3> QED  BY <1>6, <2>2, <3>1, <3>2, TurnKeepsWalks
  <2> QED  BY <2>3, <2>4
<1>7. ASSUME NEW s \in Sockets, lm_socket_connect(s), UNCHANGED turns PROVE Walks'
  <2>1. UNCHANGED <<results, length>> /\ MyTurn(s)
    BY <1>7 DEF lm_socket_connect
  <2>2. turns => walk[s] = "rewind" /\ \A q \in Sockets \ {s} : ~Busy(q)
    BY <2>1 DEF MyTurn, Busy
  <2>3. CASE results = 0
    <3>1. walk' = [walk EXCEPT ![s] = "looking"] /\ UNCHANGED <<iter, given>>
      BY <1>7, <2>3 DEF lm_socket_connect
    <3>2. ASSUME turns PROVE InTurns'
      <4>1. walk'[s] = "looking" /\ \A q \in Sockets \ {s} : walk'[q] = walk[q] /\ ~Busy(q)
        BY <1>1, <2>2, <3>1, <3>2
      <4>2. \A q \in Sockets : walk'[q] # "walking"
        BY <4>1 DEF Busy
      <4>3. \A q, t \in Sockets : q # t /\ Busy(q)' => ~Busy(t)'
        BY <4>1 DEF Busy
      <4>4. \A q \in Sockets : walk'[q] = "at_end" => \E l \in Lists : given[q] = WholeList(l)
        BY <3>2, <4>1 DEF WalkInv, Walks, InTurns
      <4> QED  BY <1>2, <2>1, <3>1, <4>2, <4>3, <4>4 DEF InTurns, WholeList
    <3> QED  BY <1>1, <1>2, <1>7, <2>1, <3>1, <3>2 DEF Walks
  <2>4. CASE results # 0
    <3>1. socket_attempt_connect_next(s, results, length)
      BY <1>7, <2>4 DEF lm_socket_connect
    <3> QED  BY <1>1, <1>2, <1>7, <2>1, <2>2, <2>4, <3>1, TurnKeepsWalks DEF Rewinds
  <2> QED  BY <2>3, <2>4
<1>8. ASSUME NEW s \in Sockets, NextResult(s), UNCHANGED turns PROVE Walks'
  <2>1. walk[s] = "walking" /\ socket_attempt_connect_next(s, results, length) /\ UNCHANGED <<results, length>>
    BY <1>8 DEF NextResult
  <2>2. ~Rewinds(s) /\ (turns => \A q \in Sockets \ {s} : ~Busy(q))
    BY <2>1 DEF Rewinds, Busy, WalkInv, Walks, InTurns
  <2> QED  BY <1>1, <1>2, <1>8, <2>1, <2>2, TurnKeepsWalks
<1>9. ASSUME NEW s \in Sockets, Connects(s) \/ socket_reset(s) \/ socket_finalize(s), UNCHANGED turns
      PROVE  Walks'
  <2>1. UNCHANGED <<iter, results, length>>
    BY <1>9 DEF Connects, socket_reset, socket_finalize
  <2>2. /\ \E state \in {"connected", "rewind", "gone"} : walk' = [walk EXCEPT ![s] = state]
        /\ given' = given \/ given' = [given EXCEPT ![s] = <<>>]
    BY <1>9 DEF Connects, socket_reset, socket_finalize
  <2>3. \A q \in Sockets : \/ walk'[q] = walk[q] /\ given'[q] = given[q]
                           \/ walk'[q] \notin {"looking", "walking", "at_end"}
    BY <1>1, <2>2
  <2>4. given' \in [Sockets -> Seq(EntriesOf(length'))]
    <3>1. <<>> \in Seq(EntriesOf(length))
      OBVIOUS
    <3> QED  BY <1>1, <2>1, <2>2, <3>1
  <2> QED  BY <1>1, <1>2, <1>9, <2>1, <2>3, <2>4, StillWalks
<1> QED  BY <1>4, <1>5, <1>6, <1>7, <1>8, <1>9 DEF AddressNext

LEMMA WalkKept == WalkInv /\ [AddressNext]_addressVars => WalkInv'
  BY AddressInvKept, WalksKept DEF WalkInv

LEMMA WalkMeans == WalkInv => WholeWalk /\ AddressTypeOK
<1> SUFFICES ASSUME WalkInv PROVE WholeWalk /\ AddressTypeOK
  OBVIOUS
<1>1. AddressShape /\ KeepersCounted /\ FreedAtLast /\ Walks
  BY DEF WalkInv, AddressInv
<1>2. WholeWalk
  BY <1>1 DEF WholeWalk, Walks, InTurns
<1>3. EntriesOf(length) = Entries
  BY DEF EntriesOf, Entries, Lists
<1>4. refs \in Nat
  BY <1>1, RefsAreNat
<1>5. freed \subseteq Lists
  BY <1>1 DEF FreedAtLast, Walks
<1>6. AddressTypeOK
  BY <1>1, <1>3, <1>4, <1>5 DEF AddressTypeOK, AddressShape, Walks, StandsIn
<1> QED  BY <1>2, <1>6

(* A socket that has tried all results has tried all of one list, each     *)
(* entry once and in order, if others do not walk at the same time: a list *)
(* that is set meanwhile does not mix with the one it walks over.          *)
THEOREM WholeWalkAlways == AddressSpec => []WholeWalk
  BY WalkInit, WalkKept, WalkMeans, PTL DEF AddressSpec

(* Every variable keeps to its type: the iterator always stands in a list  *)
(* that was set, at an entry that it has.                                  *)
THEOREM AddressTypeOKAlways == AddressSpec => []AddressTypeOK
  BY WalkInit, WalkKept, WalkMeans, PTL DEF AddressSpec

-----------------------------------------------------------------------------
(* The three parts together *)

(* What is proved of the other class of resolvers. *)
B == INSTANCE LmBlockingResolver_proofs
  WITH life <- bLife, ref_count <- bRefCount, held <- bHeld, told <- bTold,
       sources <- bSources, pending <- bPending, stack <- bStack, habits <- bHabits,
       fate <- bFate, idle_source <- bIdleSource, sa <- bSa,
       resolve_type <- bResolveType, address <- bAddress,
       Clients <- {{}, AllHabits}

LEMMA BlockingAssumption ==
  MaxDepth \in Nat /\ MaxTold \in Nat \ {0} /\ {{}, AllHabits} \subseteq SUBSET B!AllHabits
  BY ResolverAssumption DEF AllHabits, B!AllHabits

(* Both instances of the class say the same. *)
LEMMA SameInit == Blocking!Init => B!Init
  BY DEF Blocking!Init, B!Init, Blocking!ResolverInit, B!ResolverInit,
         Blocking!AllHabits, B!AllHabits, Blocking!Nobody, B!Nobody

LEMMA SameNext == [Blocking!Next]_Blocking!vars => [B!Next]_B!vars
  BY DEF Blocking!Next, B!Next, Blocking!Running, B!Running, Blocking!Library, B!Library,
         Blocking!Poll, B!Poll, Blocking!PollFinds, B!PollFinds,
         Blocking!FinishReturns, B!FinishReturns, Blocking!HandlerReturns, B!HandlerReturns,
         Blocking!SourceRemoved, B!SourceRemoved, Blocking!ClearAndUnref, B!ClearAndUnref,
         Blocking!UnrefAndFinalize, B!UnrefAndFinalize, Blocking!g_object_unref, B!g_object_unref,
         Blocking!LastRef, B!LastRef, Blocking!UnrefAddress, B!UnrefAddress,
         Blocking!AddressAfterUnref, B!AddressAfterUnref,
         Blocking!blocking_resolver_finalize, B!blocking_resolver_finalize,
         Blocking!g_source_destroy, B!g_source_destroy, Blocking!Idles, B!Idles,
         Blocking!blocking_resolver_idle_lookup_host, B!blocking_resolver_idle_lookup_host,
         Blocking!blocking_resolver_idle_lookup_srv, B!blocking_resolver_idle_lookup_srv,
         Blocking!Lookup, B!Lookup, Blocking!EmitFinished, B!EmitFinished,
         Blocking!Handler, B!Handler, Blocking!Finish, B!Finish, Blocking!Remove, B!Remove,
         Blocking!Client, B!Client, Blocking!ClientDropsAddress, B!ClientDropsAddress,
         Blocking!ClientRuns, B!ClientRuns, Blocking!Top, B!Top,
         Blocking!blocking_resolver_lookup_host, B!blocking_resolver_lookup_host,
         Blocking!blocking_resolver_lookup_srv, B!blocking_resolver_lookup_srv,
         Blocking!AddIdle, B!AddIdle, Blocking!resolver_create, B!resolver_create,
         Blocking!blocking_resolver_cancel, B!blocking_resolver_cancel,
         Blocking!MayCancel, B!MayCancel, Blocking!CancelDestroysSource, B!CancelDestroysSource,
         Blocking!ClientUnref, B!ClientUnref, Blocking!MayUnref, B!MayUnref,
         Blocking!Nobody, B!Nobody, Blocking!vars, B!vars, Blocking!objectVars, B!objectVars,
         Blocking!loopVars, B!loopVars, Blocking!privVars, B!privVars

(* The library's definitions come twice, too. *)
LEMMA SameSets ==
  /\ \A S : B!Cardinality(S) = Blocking!Cardinality(S)
  /\ \A S : B!IsFiniteSet(S) <=> IsFiniteSet(S)
<1>1. \A S : B!Cardinality(S) = Blocking!Cardinality(S)
  BY DEF B!Cardinality, Blocking!Cardinality
<1>2. \A S : B!IsFiniteSet(S) <=> IsFiniteSet(S)
  BY DEF B!IsFiniteSet, IsFiniteSet
<1> QED  BY <1>1, <1>2

LEMMA SameMeaning ==
  /\ B!RefsBalanced => Blocking!RefsBalanced
  /\ B!NoUseAfterFinalize => Blocking!NoUseAfterFinalize
  /\ B!SourceNeedsObject => Blocking!SourceNeedsObject
  /\ B!AddressCounted => Blocking!AddressCounted
<1>1. /\ \A r : Blocking!EmissionsOf(r) = B!EmissionsOf(r)
      /\ \A r : Blocking!OwnsItself(r) <=> B!OwnsItself(r)
  BY DEF Blocking!EmissionsOf, B!EmissionsOf, Blocking!FinishingOf, B!FinishingOf,
         Blocking!OwnsItself, B!OwnsItself
<1>2. B!RefsBalanced => Blocking!RefsBalanced
  BY <1>1, SameSets DEF Blocking!RefsBalanced, B!RefsBalanced
<1>3. B!NoUseAfterFinalize => Blocking!NoUseAfterFinalize
  BY DEF Blocking!NoUseAfterFinalize, B!NoUseAfterFinalize
<1>4. B!SourceNeedsObject => Blocking!SourceNeedsObject
  BY DEF Blocking!SourceNeedsObject, B!SourceNeedsObject, Blocking!Removing, B!Removing,
         Blocking!Remove, B!Remove
<1>5. B!AddressCounted => Blocking!AddressCounted
  BY SameSets DEF Blocking!AddressCounted, B!AddressCounted, Blocking!Holders, B!Holders
<1> QED  BY <1>2, <1>3, <1>4, <1>5

LEMMA SameTypes == B!TypeOK => Blocking!TypeOK
  BY DEF Blocking!TypeOK, B!TypeOK, Blocking!ResolverTypeOK, B!ResolverTypeOK,
         Blocking!Frames, B!Frames, Blocking!ResolverResults, B!ResolverResults,
         Blocking!Fates, B!Fates, Blocking!AllHabits, B!AllHabits, Blocking!Nobody, B!Nobody

(* Each step is one of a part, and the other parts rest. *)
LEMMA EachPart ==
  ASSUME [MCNext]_mcVars
  PROVE  [Next]_vars /\ [AddressNext]_addressVars /\ [B!Next]_B!vars
<1>1. [Next]_vars /\ [AddressNext]_addressVars
  BY DEF MCNext, mcVars, Others
<1>2. [Blocking!Next]_Blocking!vars
  <2>1. [Blocking!Next]_blockingVars
    BY DEF MCNext, mcVars, Others
  <2>2. UNCHANGED blockingVars => UNCHANGED Blocking!vars
    BY DEF Blocking!vars, Blocking!privVars, blockingVars
  <2> QED  BY <2>1, <2>2
<1>3. [B!Next]_B!vars
  BY <1>2, SameNext
<1> QED  BY <1>1, <1>3

(* The two classes of resolvers and the address each keep what was proved  *)
(* of them alone.                                                          *)
PartsInv == Counted /\ Sound /\ WalkInv /\ B!Counted /\ B!Sound

LEMMA PartsInit == ASSUME IsFiniteSet(Resolvers), MCInit PROVE PartsInv
<1>1. Init /\ AddressInit /\ B!Init
  BY SameInit DEF MCInit
<1>2. Counted /\ Sound /\ WalkInv
  BY <1>1, CountInit, SoundInit, WalkInit
<1>3. B!Sound /\ B!Counted
  BY <1>1, BlockingAssumption, SameSets, B!SoundInit, B!CountInit
<1> QED  BY <1>2, <1>3 DEF PartsInv

LEMMA PartsKept == ASSUME IsFiniteSet(Resolvers), PartsInv, [MCNext]_mcVars PROVE PartsInv'
<1>1. [Next]_vars /\ [AddressNext]_addressVars /\ [B!Next]_B!vars
  BY EachPart
<1>2. Counted' /\ Sound' /\ WalkInv'
  BY <1>1, CountKept, SoundKept, WalkKept DEF PartsInv
<1>3. B!Sound' /\ B!Counted'
  BY <1>1, BlockingAssumption, SameSets, B!SoundKept, B!CountKept DEF PartsInv
<1> QED  BY <1>2, <1>3 DEF PartsInv

LEMMA PartsMean == ASSUME IsFiniteSet(Resolvers), PartsInv PROVE ReferencesKept /\ TypesOK
<1>1. RefsBalanced /\ NoUseAfterFinalize /\ AssertOnlyUnissued
  BY HeldMeans DEF PartsInv, Sound
<1>2. TypeOK /\ AddressTypeOK
  BY WellTyped, WalkMeans DEF PartsInv
<1>3. B!RefsBalanced /\ B!NoUseAfterFinalize /\ B!SourceNeedsObject
  BY BlockingAssumption, B!SoundMeans DEF PartsInv
<1>4. B!AddressCounted
  BY DEF PartsInv, B!Counted
<1>5. B!TypeOK
  BY BlockingAssumption, SameSets, B!WellTyped DEF PartsInv
<1>6. /\ Blocking!RefsBalanced /\ Blocking!NoUseAfterFinalize
      /\ Blocking!SourceNeedsObject /\ Blocking!AddressCounted
  BY <1>3, <1>4, SameMeaning
<1>7. Blocking!TypeOK
  BY <1>5, SameTypes
<1> QED  BY <1>1, <1>2, <1>6, <1>7 DEF ReferencesKept, TypesOK

(* Whatever the order of answers, cancels, unrefs and nested handlers, and *)
(* for any number of lookups: no class of resolver gives back a reference  *)
(* that is not its own, none of its functions runs on a resolver that was  *)
(* finalized, an assertion fails only for a request that was refused, the  *)
(* shared address is counted right, and no idle source is left behind.     *)
THEOREM ReferencesKeptAlways == ASSUME IsFiniteSet(Resolvers) PROVE MCSpec => []ReferencesKept
<1>1. MCInit => PartsInv
  BY PartsInit
<1>2. PartsInv /\ [MCNext]_mcVars => PartsInv'
  BY PartsKept
<1>3. PartsInv => ReferencesKept
  BY PartsMean
<1> QED  BY <1>1, <1>2, <1>3, PTL DEF MCSpec

(* Every variable of every part keeps to its type.                         *)
THEOREM TypesOKAlways == ASSUME IsFiniteSet(Resolvers) PROVE MCSpec => []TypesOK
<1>1. MCInit => PartsInv
  BY PartsInit
<1>2. PartsInv /\ [MCNext]_mcVars => PartsInv'
  BY PartsKept
<1>3. PartsInv => TypesOK
  BY PartsMean
<1> QED  BY <1>1, <1>2, <1>3, PTL DEF MCSpec
=============================================================================
