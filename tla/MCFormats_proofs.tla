---------------------------- MODULE MCFormats_proofs ----------------------------
(***************************************************************************)
(* Proofs about the two formats, AddrinfoReply and SrvResponse, and about  *)
(* both as MCFormats runs them: for any size of the buffer, any entries    *)
(* and any number of them, and for packets of any length.                  *)
(*                                                                         *)
(* The bytes of a list are a sum over it, and that a sum exists and grows  *)
(* with the list is proved by the least number for which it would not.     *)
(* The parser's loop invariant is BestRecord, strengthened by how far the  *)
(* loops have come.                                                        *)
(***************************************************************************)
EXTENDS MCFormats, SequenceTheorems, WellFoundedInduction, TLAPS

(* Induction over the naturals by the least counterexample: the library's  *)
(* theorem takes a predicate as a parameter, this one a set.               *)
LEMMA LeastOf ==
  ASSUME NEW T, T \subseteq Nat, T # {}
  PROVE  \E n \in T : \A m \in T : n <= m
<1>1. \E x \in T : \A y \in T : ~ (<<y, x>> \in OpToRel(<, Nat))
  BY NatLessThanWellFounded, WFMin
<1>2. PICK x \in T : \A y \in T : ~ (<<y, x>> \in OpToRel(<, Nat))
  BY <1>1
<1>3. ASSUME NEW y \in T PROVE x <= y
  <2>1. ~ (<<y, x>> \in OpToRel(<, Nat))
    BY <1>2
  <2>2. ~(y < x)
    BY <2>1 DEF OpToRel
  <2> QED  BY <2>2
<1> QED  BY <1>3

-----------------------------------------------------------------------------
(* The bytes of a list *)

Sums(n) == \E g \in [0 .. n -> Nat] : g[0] = 0 /\ \A k \in 1 .. n : g[k] = g[k - 1] + entries[k]

LEMMA EntrySize ==
  ASSUME entries \in Seq(Sizes), NEW k \in 1 .. Len(entries)
  PROVE  entries[k] \in Nat /\ entries[k] >= 1
<1>1. entries[k] \in Sizes
  OBVIOUS
<1>2. entries[k] \in Nat \ {0}
  BY <1>1, SizeAssumption
<1> QED  BY <1>2

LEMMA SumsExist == ASSUME entries \in Seq(Sizes), NEW n \in 0 .. Len(entries) PROVE Sums(n)
<1> DEFINE T == {m \in 0 .. Len(entries) : ~Sums(m)}
<1> SUFFICES ASSUME T # {} PROVE FALSE
  OBVIOUS
<1>1. PICK least \in T : \A m \in T : least <= m
  <2>1. T \subseteq Nat
    OBVIOUS
  <2> QED  BY <2>1, LeastOf
<1>2. Sums(0)
  <2> DEFINE z == [k \in 0 .. 0 |-> 0]
  <2>1. z \in [0 .. 0 -> Nat] /\ z[0] = 0
    OBVIOUS
  <2>2. \A k \in 1 .. 0 : z[k] = z[k - 1] + entries[k]
    OBVIOUS
  <2> HIDE DEF z
  <2> QED  BY <2>1, <2>2 DEF Sums
<1>3. least \in 1 .. Len(entries) /\ least - 1 \in 0 .. Len(entries) /\ ~Sums(least)
  BY <1>1, <1>2
<1>4. least - 1 \notin T
  BY <1>1, <1>3
<1>5. PICK g \in [0 .. least - 1 -> Nat] :
        g[0] = 0 /\ \A k \in 1 .. least - 1 : g[k] = g[k - 1] + entries[k]
  BY <1>3, <1>4 DEF Sums
<1>6. entries[least] \in Nat
  BY <1>3, EntrySize
<1> DEFINE h == [k \in 0 .. least |-> IF k = least THEN g[least - 1] + entries[least] ELSE g[k]]
<1>7. h \in [0 .. least -> Nat]
  BY <1>3, <1>5, <1>6
<1>8. h[0] = 0
  BY <1>3, <1>5
<1>9. ASSUME NEW k \in 1 .. least PROVE h[k] = h[k - 1] + entries[k]
  <2>1. k - 1 \in 0 .. least /\ k - 1 # least /\ k \in 0 .. least
    BY <1>3
  <2>2. h[k - 1] = g[k - 1]
    BY <2>1
  <2>3. CASE k = least
    BY <2>1, <2>2, <2>3
  <2>4. CASE k # least
    <3>1. k \in 1 .. least - 1
      BY <1>3, <2>4
    <3> QED  BY <1>5, <2>1, <2>2, <2>4, <3>1
  <2> QED  BY <2>3, <2>4
<1> HIDE DEF h
<1> QED  BY <1>3, <1>7, <1>8, <1>9 DEF Sums

LEMMA PackedIs ==
  ASSUME entries \in Seq(Sizes)
  PROVE  /\ Packed \in [0 .. Len(entries) -> Nat] /\ Packed[0] = 0
         /\ \A k \in 1 .. Len(entries) : Packed[k] = Packed[k - 1] + entries[k]
<1> DEFINE IsSum(g) == g = [n \in 0 .. Len(entries) |-> IF n = 0 THEN 0 ELSE g[n - 1] + entries[n]]
<1>0. Len(entries) \in Nat /\ Len(entries) \in 0 .. Len(entries)
  OBVIOUS
<1>1. PICK g \in [0 .. Len(entries) -> Nat] :
        g[0] = 0 /\ \A k \in 1 .. Len(entries) : g[k] = g[k - 1] + entries[k]
  BY <1>0, SumsExist DEF Sums
<1>2. IsSum(g)
  <2>1. \A n \in 0 .. Len(entries) : g[n] = IF n = 0 THEN 0 ELSE g[n - 1] + entries[n]
    BY <1>1
  <2> QED  BY <2>1
<1>3. Packed = CHOOSE f : IsSum(f)
  BY DEF Packed
<1> HIDE DEF IsSum
<1>4. IsSum(Packed)
  BY <1>2, <1>3
<1>5. \A n \in 0 .. Len(entries) : Packed[n] = g[n]
  <2> DEFINE T == {n \in 0 .. Len(entries) : Packed[n] # g[n]}
  <2> SUFFICES ASSUME T # {} PROVE FALSE
    OBVIOUS
  <2>1. PICK least \in T : \A m \in T : least <= m
    <3>1. T \subseteq Nat
      OBVIOUS
    <3> QED  BY <3>1, LeastOf
  <2>2. Packed[0] = 0
    BY <1>0, <1>4 DEF IsSum
  <2>3. least \in 1 .. Len(entries) /\ least - 1 \in 0 .. Len(entries) /\ Packed[least] # g[least]
    BY <1>1, <2>1, <2>2
  <2>4. Packed[least - 1] = g[least - 1]
    BY <2>1, <2>3
  <2>5. Packed[least] = Packed[least - 1] + entries[least]
    <3>1. least \in 0 .. Len(entries) /\ least # 0
      BY <2>3
    <3> QED  BY <1>4, <3>1 DEF IsSum
  <2> QED  BY <1>1, <2>3, <2>4, <2>5
<1>6. Packed = g
  <2>1. Packed = [n \in 0 .. Len(entries) |-> Packed[n]]
    BY <1>4 DEF IsSum
  <2> QED  BY <1>1, <1>5, <2>1
<1> QED  BY <1>1, <1>6

LEMMA PackedGrows ==
  ASSUME entries \in Seq(Sizes), NEW m \in 0 .. Len(entries), NEW n \in 0 .. Len(entries), m < n
  PROVE  Packed[m] < Packed[n]
<1> DEFINE T == {k \in 0 .. Len(entries) : m < k /\ ~(Packed[m] < Packed[k])}
<1> SUFFICES ASSUME T # {} PROVE FALSE
  OBVIOUS
<1>1. PICK least \in T : \A k \in T : least <= k
  <2>1. T \subseteq Nat
    OBVIOUS
  <2> QED  BY <2>1, LeastOf
<1>2. least \in 1 .. Len(entries) /\ least - 1 \in 0 .. Len(entries) /\ m < least /\ ~(Packed[m] < Packed[least])
  BY <1>1
<1>3. least - 1 \notin T
  BY <1>1, <1>2
<1>4. least - 1 = m \/ Packed[m] < Packed[least - 1]
  BY <1>2, <1>3
<1>5. Packed[least] = Packed[least - 1] + entries[least]
  BY <1>2, PackedIs
<1>6. Packed[m] \in Nat /\ Packed[least - 1] \in Nat
  BY <1>2, PackedIs
<1>7. entries[least] \in Nat /\ entries[least] >= 1
  BY <1>2, EntrySize
<1> HIDE DEF T
<1> QED  BY <1>2, <1>4, <1>5, <1>6, <1>7

-----------------------------------------------------------------------------
(* The reply *)

(* While a reply is packed, its length is that of the header and of the    *)
(* entries so far, and they have fitted; while it is unpacked, what is     *)
(* left is the bytes of the entries that were packed and not yet taken,    *)
(* and unless the list was cut short these are all.                        *)
Packing ==
  phase = "pack" => /\ length = HeaderLen + Packed[pos] /\ length <= BufSize
                    /\ ret = "OK" /\ received = <<>>

Left(n) == pos <= n /\ length = Packed[n] - Packed[pos] /\ (ret = "OK" => n = Len(entries))

Unpacking ==
  phase = "unpack" => /\ received = SubSeq(entries, 1, pos)
                      /\ \E n \in 0 .. Len(entries) : Left(n)

Short == 2 * (HeaderLen + Packed[Len(entries)]) <= BufSize

ReplyInv ==
  /\ entries \in Seq(Sizes) /\ received \in Seq(Sizes)
  /\ pos \in 0 .. Len(entries) /\ length \in Nat
  /\ ret \in Rets /\ phase \in Phases
  /\ Packing /\ Unpacking
  /\ phase = "done" => /\ received = SubSeq(entries, 1, pos)
                       /\ ret = "OK" => pos = Len(entries)
  /\ Short => phase # "abort" /\ (phase = "unpack" => ret = "OK")

LEMMA InitInv == Init => ReplyInv
<1> SUFFICES ASSUME Init PROVE ReplyInv
  OBVIOUS
<1>1. entries \in Seq(Sizes)
  <2>1. PICK n \in 1 .. MaxEntries : entries \in [1 .. n -> Sizes]
    BY DEF Init
  <2> QED BY <2>1, SizeAssumption
<1>2. Packed[0] = 0
  BY <1>1, PackedIs
<1> QED BY <1>1, <1>2, SizeAssumption
        DEF Init, ReplyInv, Packing, Unpacking, StartLength, Phases, Rets

LEMMA SamePacked == UNCHANGED entries => Packed' = Packed /\ (Short' <=> Short)
  BY DEF Packed, Short

LEMMA HalfIsEnough ==
  ASSUME NEW header \in Nat, NEW size \in Nat, NEW sum \in Nat, NEW entry \in Nat, NEW all \in Nat,
         sum + entry <= all, 2 * (header + all) <= size
  PROVE  /\ header + sum <= size - (header + sum)
         /\ (header + sum) + entry <= size - (header + sum)
  OBVIOUS

LEMMA Taken ==
  ASSUME entries \in Seq(Sizes), NEW n \in 0 .. Len(entries)
  PROVE  /\ SubSeq(entries, 1, n) \in Seq(Sizes) /\ Len(SubSeq(entries, 1, n)) = n
         /\ n < Len(entries) =>
              Append(SubSeq(entries, 1, n), entries[n + 1]) = SubSeq(entries, 1, n + 1)
  OBVIOUS

LEMMA PackKeeps ==
  ASSUME ReplyInv, serialize_addrinfo
  PROVE  ReplyInv'
<1>1. /\ pos < Len(entries) /\ phase = "pack" /\ UNCHANGED <<entries, received>>
      /\ entries \in Seq(Sizes) /\ pos \in 0 .. Len(entries) /\ length \in Nat
      /\ length = HeaderLen + Packed[pos] /\ length <= BufSize /\ ret = "OK" /\ received = <<>>
  BY DEF ReplyInv, Packing, serialize_addrinfo
<1>2. entries[pos + 1] \in Nat \ {0}
  <2>1. pos + 1 \in 1 .. Len(entries)
    BY <1>1
  <2> QED BY <1>1, <2>1, EntrySize
<1>3. pos + 1 \in 0 .. Len(entries) /\ Packed[pos + 1] = Packed[pos] + entries[pos + 1]
  <2>1. pos + 1 \in 1 .. Len(entries) /\ (pos + 1) - 1 = pos
    BY <1>1
  <2>2. Packed[pos + 1] = Packed[(pos + 1) - 1] + entries[pos + 1]
    BY <1>1, <2>1, PackedIs
  <2> QED  BY <2>1, <2>2
<1>4. Packed[pos] \in Nat /\ Packed[0] = 0 /\ Packed[Len(entries)] \in Nat
  BY <1>1, PackedIs
<1>5. Packed' = Packed /\ (Short' <=> Short)
  BY <1>1, SamePacked
<1>6. Packed[pos + 1] <= Packed[Len(entries)]
  <2>1. pos + 1 = Len(entries) \/ pos + 1 < Len(entries)
    BY <1>1
  <2>2. Len(entries) \in 0 .. Len(entries) /\ Packed[pos + 1] \in Nat
    BY <1>1, <1>3, PackedIs
  <2> QED  BY <1>1, <1>3, <2>1, <2>2, PackedGrows, <1>4
<1>7. Short => length <= MaxLength /\ Fits(entries[pos + 1])
  <2>1. /\ HeaderLen \in Nat /\ BufSize \in Nat /\ length = HeaderLen + Packed[pos]
        /\ Packed[pos] + entries[pos + 1] <= Packed[Len(entries)]
        /\ Packed[pos] \in Nat /\ entries[pos + 1] \in Nat /\ Packed[Len(entries)] \in Nat
    BY <1>1, <1>2, <1>3, <1>4, <1>6, SizeAssumption
  <2>2. Short => /\ length <= BufSize - length
                 /\ length + entries[pos + 1] <= BufSize - length
    BY <2>1, HalfIsEnough DEF Short
  <2> QED  BY <2>2 DEF MaxLength, Fits
<1>8. CASE length > MaxLength /\ phase' = "abort" /\ UNCHANGED <<pos, length, ret>>
  <2>1. ~Short
    BY <1>1, <1>7, <1>8, SizeAssumption DEF MaxLength
  <2> QED  BY <1>1, <1>5, <1>8, <2>1 DEF ReplyInv, Packing, Unpacking, Phases
<1>9. CASE /\ Fits(entries[pos + 1]) /\ length' = length + entries[pos + 1] /\ pos' = pos + 1
           /\ UNCHANGED <<ret, phase>>
  <2> DEFINE size == entries[pos + 1]
             sum  == Packed[pos]
  <2>3. /\ length' = length + size /\ pos' = pos + 1
        /\ length + size <= BufSize - length
    BY <1>9 DEF Fits, MaxLength
  <2>4. /\ length \in Nat /\ size \in Nat /\ BufSize \in Nat /\ HeaderLen \in Nat
        /\ length = HeaderLen + sum
    BY <1>1, <1>2, SizeAssumption
  <2>5. Packed[pos + 1] = sum + size /\ sum \in Nat
    BY <1>3, <1>4
  <2> HIDE DEF size, sum
  <2>1. length' <= BufSize /\ length' \in Nat
    BY <2>3, <2>4
  <2>6. length' = HeaderLen + (sum + size)
    BY <2>3, <2>4, <2>5
  <2>2. length' = HeaderLen + Packed'[pos']
    BY <1>5, <2>3, <2>5, <2>6
  <2> QED  BY <1>1, <1>3, <1>5, <1>9, <2>1, <2>2 DEF ReplyInv, Packing, Unpacking
<1>10. CASE /\ ~Fits(entries[pos + 1]) /\ TooLong
            /\ length' = length - HeaderLen /\ pos' = 0 /\ phase' = "unpack"
  <2>1. ~Short
    BY <1>7, <1>10
  <2>2. length' = Packed[pos] - Packed[0] /\ length' \in Nat /\ ret' = "EAI_MEMORY" /\ 0 <= pos
    BY <1>1, <1>4, <1>10, SizeAssumption DEF TooLong
  <2>3. PICK n \in 0 .. Len(entries) : n = pos
    BY <1>1
  <2>4. Left(n)' /\ n \in 0 .. Len(entries')
    BY <1>1, <1>5, <1>10, <2>2, <2>3 DEF Left
  <2>5. SubSeq(entries, 1, 0) = <<>> /\ 0 \in 0 .. Len(entries)
    BY <1>1
  <2>6. Unpacking'
    BY <1>1, <1>10, <2>4, <2>5 DEF Unpacking
  <2> QED  BY <1>1, <1>5, <1>10, <2>1, <2>2, <2>5, <2>6 DEF ReplyInv, Packing, Phases, Rets
<1> QED  BY <1>8, <1>9, <1>10 DEF serialize_addrinfo

LEMMA SendKeeps ==
  ASSUME ReplyInv, send_addrinfo_reply
  PROVE  ReplyInv'
<1>1. /\ pos = Len(entries) /\ UNCHANGED <<entries, ret, received>> /\ entries \in Seq(Sizes)
      /\ length = HeaderLen + Packed[pos] /\ ret = "OK" /\ received = <<>>
      /\ length' = length - HeaderLen /\ pos' = 0 /\ phase' = "unpack"
  BY DEF ReplyInv, Packing, send_addrinfo_reply
<1>2. Packed[pos] \in Nat /\ Packed[0] = 0 /\ Len(entries) \in 0 .. Len(entries)
  BY <1>1, PackedIs
<1>3. Packed' = Packed /\ (Short' <=> Short)
  BY <1>1, SamePacked
<1>4. length' = Packed[Len(entries)] - Packed[0] /\ length' \in Nat
  BY <1>1, <1>2, SizeAssumption
<1>5. SubSeq(entries, 1, 0) = <<>> /\ 0 \in 0 .. Len(entries)
  BY <1>1
<1>6. Unpacking'
  BY <1>1, <1>2, <1>3, <1>4, <1>5 DEF Unpacking, Left
<1> QED  BY <1>1, <1>3, <1>4, <1>5, <1>6 DEF ReplyInv, Packing, Phases

LEMMA UnpackKeeps ==
  ASSUME ReplyInv, unserialize_addrinfo
  PROVE  ReplyInv'
<1>1. /\ phase = "unpack" /\ length > 0 /\ UNCHANGED entries /\ entries \in Seq(Sizes)
      /\ pos \in 0 .. Len(entries) /\ length \in Nat /\ ret \in Rets
      /\ received = SubSeq(entries, 1, pos) /\ received \in Seq(Sizes)
  BY DEF ReplyInv, Unpacking, unserialize_addrinfo
<1>2. PICK n \in 0 .. Len(entries) : Left(n)
  BY <1>1 DEF ReplyInv, Unpacking
<1>3. Packed' = Packed /\ (Short' <=> Short)
  BY <1>1, SamePacked
<1>4. pos < n
  <2>1. pos # n
    <3>1. Packed[n] \in Nat
      BY <1>1, PackedIs
    <3> QED  BY <1>1, <1>2, <3>1 DEF Left
  <2> QED  BY <1>1, <1>2, <2>1 DEF Left
<1>5. CASE /\ received' = Append(received, entries[pos + 1])
           /\ length' = length - entries[pos + 1] /\ pos' = pos + 1 /\ UNCHANGED <<ret, phase>>
  <2>1. pos + 1 \in 1 .. Len(entries) /\ (pos + 1) - 1 = pos /\ pos < Len(entries) /\ pos + 1 <= n
    BY <1>1, <1>4
  <2>2. Packed[pos + 1] = Packed[(pos + 1) - 1] + entries[pos + 1]
    BY <1>1, <2>1, PackedIs
  <2>3. entries[pos + 1] \in Nat /\ Packed[pos] \in Nat /\ Packed[n] \in Nat /\ Packed[pos + 1] \in Nat
    <3>1. entries[pos + 1] \in Nat
      BY <1>1, <2>1, EntrySize
    <3>2. pos + 1 \in 0 .. Len(entries) /\ n \in 0 .. Len(entries)
      BY <2>1
    <3> QED  BY <1>1, <3>1, <3>2, PackedIs
  <2>4. Packed[pos + 1] <= Packed[n]
    <3>1. CASE pos + 1 = n
      BY <2>3, <3>1
    <3>2. CASE pos + 1 < n
      BY <1>1, <2>1, <2>3, <3>2, PackedGrows
    <3> QED  BY <2>1, <3>1, <3>2
  <2>5. length' = Packed[n] - Packed[pos + 1] /\ length' \in Nat
    <3>1. length = Packed[n] - Packed[pos] /\ Packed[pos + 1] = Packed[pos] + entries[pos + 1]
      BY <1>2, <2>1, <2>2 DEF Left
    <3>2. length' = length - entries[pos + 1]
      BY <1>5
    <3>3. length' = Packed[n] - (Packed[pos] + entries[pos + 1])
      BY <2>3, <3>1, <3>2
    <3> QED  BY <2>3, <2>4, <3>1, <3>3
  <2>6. Left(n)'
    BY <1>1, <1>2, <1>3, <1>5, <2>1, <2>5 DEF Left
  <2>7. received' = SubSeq(entries, 1, pos') /\ received' \in Seq(Sizes)
    BY <1>1, <1>5, <2>1, Taken
  <2>8. Unpacking'
    BY <1>1, <1>2, <2>6, <2>7 DEF Unpacking
  <2> QED  BY <1>1, <1>3, <1>5, <2>1, <2>5, <2>7, <2>8 DEF ReplyInv, Packing
<1>6. CASE ret' = "EAI_MEMORY" /\ phase' = "done" /\ UNCHANGED <<pos, length, received>>
  BY <1>1, <1>3, <1>6 DEF ReplyInv, Packing, Unpacking, Rets, Phases
<1> QED  BY <1>5, <1>6 DEF unserialize_addrinfo

LEMMA CompleteKeeps ==
  ASSUME ReplyInv, complete_query
  PROVE  ReplyInv'
<1>1. /\ phase = "unpack" /\ length = 0 /\ UNCHANGED <<entries, pos, length, ret, received>>
      /\ phase' = "done" /\ entries \in Seq(Sizes) /\ pos \in 0 .. Len(entries)
      /\ received = SubSeq(entries, 1, pos)
  BY DEF ReplyInv, Unpacking, complete_query
<1>2. PICK n \in 0 .. Len(entries) : Left(n)
  BY <1>1 DEF ReplyInv, Unpacking
<1>3. Packed' = Packed /\ (Short' <=> Short)
  BY <1>1, SamePacked
<1>4. pos = n
  <2>1. Packed[n] \in Nat /\ Packed[pos] \in Nat /\ Packed[n] = Packed[pos]
    <3>1. Packed[n] \in Nat /\ Packed[pos] \in Nat
      BY <1>1, PackedIs
    <3>2. Packed[n] - Packed[pos] = 0
      BY <1>1, <1>2 DEF Left
    <3> QED  BY <3>1, <3>2
  <2>2. ~(pos < n)
    BY <1>1, <2>1, PackedGrows
  <2> QED  BY <1>1, <1>2, <2>2 DEF Left
<1>5. ret = "OK" => pos = Len(entries)
  BY <1>2, <1>4 DEF Left
<1> QED  BY <1>1, <1>3, <1>5 DEF ReplyInv, Packing, Unpacking, Phases

LEMMA ReplyKept == ReplyInv /\ [Next]_vars => ReplyInv'
<1> SUFFICES ASSUME ReplyInv, [Next]_vars PROVE ReplyInv'
  OBVIOUS
<1>1. CASE UNCHANGED vars
  <2>1. Packed' = Packed /\ (Short' <=> Short)
    BY <1>1, SamePacked DEF vars
  <2> QED  BY <1>1, <2>1 DEF vars, ReplyInv, Packing, Unpacking, Left
<1> QED  BY <1>1, PackKeeps, SendKeeps, UnpackKeeps, CompleteKeeps DEF Next

LEMMA ReplyMeans == ReplyInv => TypeOK /\ BufferRespected /\ ListArrives
<1> SUFFICES ASSUME ReplyInv PROVE TypeOK /\ BufferRespected /\ ListArrives
  OBVIOUS
<1>1. TypeOK /\ BufferRespected
  BY DEF ReplyInv, Packing, TypeOK, BufferRespected
<1>2. WholeListOrError
  <2> SUFFICES ASSUME phase = "done"
               PROVE  /\ received = SubSeq(entries, 1, Len(received))
                      /\ ret = "OK" => Len(received) = Len(entries)
    BY DEF WholeListOrError
  <2>1. entries \in Seq(Sizes) /\ pos \in 0 .. Len(entries) /\ received = SubSeq(entries, 1, pos)
    BY DEF ReplyInv
  <2>2. Len(received) = pos
    BY <2>1, Taken
  <2> QED  BY <2>1, <2>2 DEF ReplyInv
<1>3. HalfFits
  BY DEF ReplyInv, HalfFits, Short
<1> QED  BY <1>1, <1>2, <1>3 DEF ListArrives

(* The reply never grows over the buffer it is built in: what is left of   *)
(* the buffer is at most the buffer, and the comparison with it is made    *)
(* before anything is written.                                             *)
THEOREM BufferRespectedAlways == Spec => []BufferRespected
  BY InitInv, ReplyKept, ReplyMeans, PTL DEF Spec

(* Of a list of any length the caller gets all, in order, or the first of  *)
(* it and an error; a list that needs no more than half of the buffer is   *)
(* not cut short by the comparison in serialize_addrinfo.                  *)
THEOREM ListArrivesAlways == Spec => []ListArrives
  BY InitInv, ReplyKept, ReplyMeans, PTL DEF Spec

-----------------------------------------------------------------------------
(* The answer *)

(* Both loops advance by one, and a packet without surprises keeps the     *)
(* position right; when it has been read to the end, the choice among the  *)
(* records read is the choice among all.                                   *)
Progress ==
  /\ pc = "questions" => /\ aligned /\ pref_name = Root /\ pref_prio = StartPrio
                         /\ i <= Len(questions) + 1
  /\ pc = "answers" => i <= Len(answers) + 1
  /\ WellFormed => aligned
  /\ pc \in {"TRUE", "FALSE"} /\ WellFormed =>
       /\ i = Len(answers) + 1 /\ Chosen
       /\ pc = "TRUE" <=> pref_name # Root

IInv == SrvTypeOK /\ BestRecord /\ Progress

-----------------------------------------------------------------------------
LEMMA SeqsAreSeqs == ASSUME NEW S, NEW n \in Nat PROVE SeqsUpTo(S, n) \subseteq Seq(S)
<1> SUFFICES ASSUME NEW m \in 0 .. n, NEW f \in [1 .. m -> S] PROVE f \in Seq(S)
  BY DEF SeqsUpTo
<1> QED BY SeqDef

LEMMA InitIInv == SrvInit => IInv
<1> SUFFICES ASSUME SrvInit PROVE IInv
  OBVIOUS
<1>1. questions \in Seq(BOOLEAN) /\ answers \in Seq(Records)
  BY SeqsAreSeqs, BoundAssumption DEF SrvInit
<1>2. SrvTypeOK
  BY <1>1 DEF SrvInit, SrvTypeOK
<1>3. BestRecord /\ Progress
  BY <1>1 DEF SrvInit, BestRecord, Progress
<1> QED BY <1>2, <1>3 DEF IInv

LEMMA TypeStep == SrvTypeOK /\ [SrvNext]_srvVars => SrvTypeOK'
<1> SUFFICES ASSUME SrvTypeOK, [SrvNext]_srvVars PROVE SrvTypeOK'
  OBVIOUS
<1> USE DEF SrvTypeOK
<1>1. CASE SkipQuestion
  BY <1>1 DEF SkipQuestion, packet, pref
<1>2. CASE LastQuestion
  BY <1>2 DEF LastQuestion, packet, pref
<1>3. CASE BadQuestion
  BY <1>3 DEF BadQuestion, packet, pref
<1>4. CASE ParseAnswer
  <2>1. PICK r \in Read : Take(r) /\ aligned' = Aligned(r)
    BY <1>4 DEF ParseAnswer
  <2>2. r \in Records
    BY <1>4 DEF ParseAnswer, Read
  <2>3. Expanded(r) \in Names \cup {Root, Owner}
    BY <2>2 DEF Expanded, Records
  <2>4. pref_name' \in Names \cup {Root, Owner} /\ pref_port' \in Ports \cup {NoPort}
          /\ pref_prio' \in Prios \cup {StartPrio}
    BY <2>1, <2>2, <2>3 DEF Take, Records, pref
  <2>5. aligned' \in BOOLEAN
    BY <2>1 DEF Aligned
  <2> QED BY <1>4, <2>4, <2>5 DEF ParseAnswer, packet
<1>5. CASE Return
  BY <1>5 DEF Return, packet, pref
<1>6. CASE UNCHANGED srvVars
  BY <1>6 DEF srvVars, packet, pref
<1> QED BY <1>1, <1>2, <1>3, <1>4, <1>5, <1>6 DEF SrvNext

-----------------------------------------------------------------------------
(* One turn of the second loop: the record just read is either the new     *)
(* choice, better than all before it, or no better than the old one.       *)
LEMMA ChoiceStep ==
  ASSUME SrvTypeOK, BestRecord, aligned, pc = "answers", i <= Len(answers),
         NEW n, n = i, NEW r, r = answers[n], Take(r), i' = n + 1, UNCHANGED packet
  PROVE  Chosen'
<1> USE DEF packet
<1>1. /\ r \in Records /\ i \in Nat \ {0} /\ answers' = answers
      /\ \A k \in 1 .. i : answers[k] \in Records
  BY DEF SrvTypeOK
<1>2. /\ r.prio \in Int /\ pref_prio \in Int /\ StartPrio \in Int
      /\ \A k \in 1 .. i : answers[k].prio \in Int
  BY <1>1, NumbersAssumption DEF SrvTypeOK, Records
<1>3. Candidates' = Candidates \cup (IF r.prio < StartPrio THEN {n} ELSE {})
  BY <1>1, <1>2 DEF Candidates
<1>4. Chosen
  BY DEF BestRecord
<1>5. pref_prio <= StartPrio /\ \A k \in Candidates : pref_prio <= answers[k].prio
  <2>1. \A k \in Candidates : k \in 1 .. i /\ answers[k].prio < StartPrio
    BY <1>1 DEF Candidates
  <2>2. CASE Candidates = {}
    BY <1>2, <1>4, <2>2 DEF Chosen
  <2>3. CASE Candidates # {}
    <3>1. PICK b \in Candidates : Best(b) /\ Holds(b)
      BY <1>4, <2>3 DEF Chosen
    <3>2. pref_prio = answers[b].prio /\ \A k \in Candidates : answers[b].prio <= answers[k].prio
      BY <3>1 DEF Best, Holds
    <3> QED  BY <1>2, <2>1, <3>1, <3>2
  <2> QED  BY <2>2, <2>3
<1>6. CASE Preferred(r)
  <2>1. n \in Candidates'
    BY <1>2, <1>3, <1>5, <1>6 DEF Preferred
  <2>2. Holds(n)'
    BY <1>1, <1>6 DEF Take, Holds, Expanded
  <2>3. \A j \in Candidates : r.prio < answers[j].prio
    BY <1>1, <1>2, <1>5, <1>6 DEF Preferred, Candidates
  <2>4. Best(n)'
    BY <1>1, <1>2, <1>3, <2>3 DEF Best, Candidates
  <2> QED BY <2>1, <2>2, <2>4 DEF Chosen
<1>7. CASE ~Preferred(r)
  <2>1. UNCHANGED pref
    BY <1>7 DEF Take
  <2>2. CASE Candidates = {}
    BY <1>2, <1>3, <1>4, <1>7, <2>1, <2>2 DEF Chosen, Preferred, pref
  <2>3. CASE Candidates # {}
    <3>1. PICK k \in Candidates : Best(k) /\ Holds(k)
      BY <1>4, <2>3 DEF Chosen
    <3>2. k \in Candidates' /\ Holds(k)'
      BY <1>1, <1>3, <2>1, <3>1 DEF Holds, Expanded, pref
    <3>3. k < n /\ k \in Nat /\ (r.prio < StartPrio => answers[k].prio <= r.prio)
      BY <1>1, <1>2, <1>7, <3>1 DEF Holds, Preferred, Candidates
    <3>4. Best(k)'
      <4> SUFFICES ASSUME NEW j \in Candidates'
                   PROVE /\ answers[k].prio <= answers[j].prio
                         /\ j < k => answers[k].prio < answers[j].prio
        BY <1>1 DEF Best
      <4>1. CASE j \in Candidates
        BY <3>1, <4>1 DEF Best
      <4>2. CASE j = n /\ r.prio < StartPrio
        BY <1>1, <3>3, <4>2
      <4> QED BY <1>3, <4>1, <4>2
    <3> QED BY <3>2, <3>4 DEF Chosen
  <2> QED BY <2>2, <2>3
<1> QED BY <1>6, <1>7

LEMMA NoChange == ASSUME UNCHANGED <<packet, i, pref>> PROVE Chosen' <=> Chosen
BY DEF Chosen, Candidates, Best, Holds, Expanded, packet, pref

LEMMA PacketStep == SrvNext => packet' = packet
BY DEF SrvNext, SkipQuestion, LastQuestion, BadQuestion, ParseAnswer, Return

LEMMA SamePacket == ASSUME packet' = packet PROVE WellFormed' <=> WellFormed
BY DEF WellFormed, packet

(* A well-formed packet never makes the position wrong. *)
LEMMA WellFormedAligned ==
  ASSUME SrvTypeOK, WellFormed, aligned, i <= Len(answers), NEW r \in Read
  PROVE  r = answers[i] /\ Aligned(r)
<1>1. i \in 1 .. Len(answers)
  BY DEF SrvTypeOK
<1> QED BY <1>1 DEF Read, Aligned, WellFormed

LEMMA InvStep == IInv /\ [SrvNext]_srvVars => (BestRecord /\ Progress)'
<1> SUFFICES ASSUME SrvTypeOK, BestRecord, Progress, [SrvNext]_srvVars PROVE (BestRecord /\ Progress)'
  BY DEF IInv
<1>0. Len(answers) \in Nat /\ Len(questions) \in Nat /\ i \in Nat \ {0}
  BY DEF SrvTypeOK
<1>1. CASE SkipQuestion
  <2>1. WellFormed' <=> WellFormed
    BY <1>1, SamePacket DEF SkipQuestion
  <2> QED BY <1>0, <1>1, <2>1 DEF SkipQuestion, BestRecord, Progress, packet, pref
<1>2. CASE LastQuestion
  <2>1. WellFormed' <=> WellFormed
    BY <1>2, SamePacket DEF LastQuestion
  <2>2. Candidates' = {} /\ pref_prio' = StartPrio /\ pref_name' = Root
    BY <1>2 DEF LastQuestion, Progress, Candidates, pref
  <2>3. Chosen'
    BY <2>2 DEF Chosen
  <2> QED BY <1>0, <1>2, <2>1, <2>3 DEF LastQuestion, BestRecord, Progress, packet, pref
<1>3. CASE BadQuestion
  <2>1. ~WellFormed'
    BY <1>0, <1>3 DEF BadQuestion, WellFormed, packet
  <2> QED BY <1>3, <2>1 DEF BadQuestion, BestRecord, Progress
<1>4. CASE ParseAnswer
  <2>1. PICK r \in Read : Take(r) /\ aligned' = Aligned(r)
    BY <1>4 DEF ParseAnswer
  <2>2. WellFormed' <=> WellFormed
    BY <1>4, SamePacket DEF ParseAnswer
  <2>3. i <= Len(answers) /\ pc = "answers" /\ pc' = "answers" /\ i' = i + 1 /\ UNCHANGED packet
    BY <1>4 DEF ParseAnswer
  <2>4. BestRecord'
    <3> SUFFICES ASSUME aligned' PROVE Chosen'
      BY DEF BestRecord
    <3>1. aligned /\ r = answers[i]
      BY <2>1 DEF Aligned, Read
    <3> QED BY <2>1, <2>3, <3>1, ChoiceStep
  <2>5. WellFormed' => aligned'
    BY <2>1, <2>2, <2>3, WellFormedAligned DEF Progress
  <2> QED BY <1>0, <2>3, <2>4, <2>5 DEF Progress, packet
<1>5. CASE Return
  <2>1. WellFormed' <=> WellFormed
    BY <1>5, SamePacket DEF Return
  <2>2. Chosen' <=> Chosen
    BY <1>5, NoChange DEF Return
  <2>3. WellFormed => aligned /\ i = Len(answers) + 1 /\ Chosen
    BY <1>0, <1>5 DEF Return, NoMore, BestRecord, Progress
  <2> QED BY <1>5, <2>1, <2>2, <2>3 DEF Return, BestRecord, Progress, packet, pref
<1>6. CASE UNCHANGED srvVars
  <2>1. (WellFormed' <=> WellFormed) /\ (Chosen' <=> Chosen)
    BY <1>6, SamePacket, NoChange DEF srvVars
  <2> QED BY <1>6, <2>1 DEF srvVars, packet, pref, BestRecord, Progress
<1> QED BY <1>1, <1>2, <1>3, <1>4, <1>5, <1>6 DEF SrvNext

LEMMA Invariant == SrvSpec => []IInv
<1>1. IInv /\ [SrvNext]_srvVars => IInv'
  BY TypeStep, InvStep DEF IInv
<1> QED BY InitIInv, <1>1, PTL DEF SrvSpec

-----------------------------------------------------------------------------
(* The best of the records is only one, so that the parser's choice is it. *)
LEMMA ResultFollows == IInv => ResultExact
<1> SUFFICES ASSUME IInv, WellFormed, pc \in {"TRUE", "FALSE"}
             PROVE /\ pc = "TRUE" => \E k \in AllCandidates : Serves(k) /\ Holds(k)
                   /\ pc = "FALSE" => \A k \in AllCandidates : ~Serves(k)
  BY DEF ResultExact
<1>1. Chosen /\ i = Len(answers) + 1 /\ (pc = "TRUE" <=> pref_name # Root)
  BY DEF IInv, Progress
<1>2. Len(answers) \in Nat /\ \A k \in 1 .. Len(answers) : answers[k].prio \in Int
  <2>1. answers \in Seq(Records)
    BY DEF IInv, SrvTypeOK
  <2>2. \A k \in 1 .. Len(answers) : answers[k] \in Records
    BY <2>1
  <2>3. \A r \in Records : r.prio \in Int
    BY NumbersAssumption DEF Records
  <2> QED BY <2>1, <2>2, <2>3
<1>3. Candidates = AllCandidates
  BY <1>1, <1>2 DEF Candidates, AllCandidates
<1>4. \A k \in AllCandidates : Serves(k) <=> Best(k) /\ answers[k].target # Root
  BY <1>3 DEF Serves, Best
<1>5. \A k \in AllCandidates : Expanded(answers[k]) = answers[k].target
  BY DEF WellFormed, Expanded, AllCandidates
<1>6. \A j, k \in AllCandidates : Best(j) /\ Best(k) => j = k
  BY <1>2, <1>3 DEF Best, AllCandidates
<1>7. CASE AllCandidates = {}
  BY <1>1, <1>3, <1>7 DEF Chosen
<1>8. CASE AllCandidates # {}
  <2>1. PICK k \in AllCandidates : Best(k) /\ Holds(k)
    BY <1>1, <1>3, <1>8 DEF Chosen
  <2>2. pref_name = answers[k].target
    BY <1>5, <2>1 DEF Holds
  <2>3. Serves(k) <=> pref_name # Root
    BY <1>4, <2>1, <2>2
  <2>4. \A j \in AllCandidates : Serves(j) => j = k
    BY <1>4, <1>6, <2>1
  <2> QED BY <1>1, <2>1, <2>3, <2>4
<1> QED BY <1>7, <1>8

(* The parser's variables keep to their types: in particular the name it   *)
(* returns is never one that did not expand.                               *)
THEOREM SrvTypeOKAlways == SrvSpec => []SrvTypeOK
<1> QED BY Invariant, PTL DEF IInv

(* Whatever the number and the order of the records, what the parser keeps *)
(* is the first of the best it has read, name and port together.           *)
THEOREM BestRecordAlways == SrvSpec => []BestRecord
<1> QED BY Invariant, PTL DEF IInv

(* A well-formed answer of any length gives the server of the best record, *)
(* and fails only if that names none or no priority is below the start.    *)
THEOREM ResultExactAlways == SrvSpec => []ResultExact
<1> QED BY Invariant, ResultFollows, PTL

-----------------------------------------------------------------------------
(* A name is taken from the owner only after a target that does not        *)
(* expand, or when the position was lost before, and that is because of    *)
(* such a target, or of a record of another kind.                          *)
Surprise(k) == answers[k].target = Bad \/ ~answers[k].srv

OwnerInv ==
  /\ IInv
  /\ ~aligned => \E k \in 1 .. Len(answers) : Surprise(k)
  /\ OwnerOnlyIfBad

LEMMA OwnerInit == SrvInit => OwnerInv
<1> SUFFICES ASSUME SrvInit PROVE OwnerInv
  OBVIOUS
<1>1. pref_name # Owner /\ aligned
  BY DEF SrvInit, Root, Owner
<1> QED  BY <1>1, InitIInv DEF OwnerInv, OwnerOnlyIfBad

LEMMA OwnerKept == OwnerInv /\ [SrvNext]_srvVars => OwnerInv'
<1> SUFFICES ASSUME OwnerInv, [SrvNext]_srvVars PROVE OwnerInv'
  OBVIOUS
<1>1. IInv'
  BY TypeStep, InvStep DEF OwnerInv, IInv
<1>2. CASE UNCHANGED <<packet, aligned, pref_name>>
  BY <1>1, <1>2 DEF OwnerInv, OwnerOnlyIfBad, Surprise, packet
<1>3. CASE ParseAnswer
  <2>1. PICK r \in Read : Take(r) /\ aligned' = Aligned(r)
    BY <1>3 DEF ParseAnswer
  <2>2. i \in 1 .. Len(answers) /\ UNCHANGED packet
    BY <1>3 DEF ParseAnswer, OwnerInv, IInv, SrvTypeOK
  <2>3. CASE ~aligned \/ Surprise(i)
    <3>1. \E k \in 1 .. Len(answers) : Surprise(k)
      BY <2>2, <2>3 DEF OwnerInv
    <3> QED  BY <1>1, <2>2, <3>1 DEF OwnerInv, OwnerOnlyIfBad, Surprise, packet
  <2>4. CASE aligned /\ ~Surprise(i)
    <3>1. r = answers[i] /\ answers[i] \in Records
      BY <2>1, <2>2, <2>4 DEF Read, OwnerInv, IInv, SrvTypeOK
    <3>2. aligned' /\ Expanded(r) # Owner
      <4>1. r.target \in Names \cup {Root, Bad} /\ r.target # Bad /\ r.srv
        BY <2>4, <3>1 DEF Surprise, Records
      <4>2. Owner \notin Names \cup {Root}
        BY NamesAssumption DEF Owner, Root
      <4>3. Expanded(r) = r.target
        BY <4>1 DEF Expanded
      <4>4. aligned'
        BY <2>1, <2>4, <4>1 DEF Aligned
      <4> QED  BY <4>1, <4>2, <4>3, <4>4
    <3>3. pref_name' = pref_name \/ pref_name' = Expanded(r)
      BY <2>1 DEF Take, pref
    <3>4. pref_name' = Owner => pref_name = Owner
      BY <3>2, <3>3
    <3> QED  BY <1>1, <2>2, <3>2, <3>4 DEF OwnerInv, OwnerOnlyIfBad, packet
  <2> QED  BY <2>3, <2>4
<1> QED  BY <1>2, <1>3
         DEF SrvNext, SkipQuestion, LastQuestion, BadQuestion, Return, srvVars, pref

(* The caller is given the service's own name as the server only if some   *)
(* target does not expand, or some record is not a SRV record.             *)
THEOREM OwnerOnlyIfBadAlways == SrvSpec => []OwnerOnlyIfBad
<1>1. OwnerInv => OwnerOnlyIfBad
  BY DEF OwnerInv
<1> QED  BY <1>1, OwnerInit, OwnerKept, PTL DEF SrvSpec

-----------------------------------------------------------------------------
(* Both formats together: each step is one of a part, and the other rests. *)

LEMMA EachFormat == [MCNext]_mcVars => [Next]_vars /\ [SrvNext]_srvVars
  BY DEF MCNext, mcVars

(* Every variable of both formats keeps to its type.                       *)
THEOREM TypesOKAlways == MCSpec => []TypesOK
<1>1. MCInit => ReplyInv /\ OwnerInv
  BY InitInv, OwnerInit DEF MCInit
<1>2. ReplyInv /\ OwnerInv /\ [MCNext]_mcVars => ReplyInv' /\ OwnerInv'
  BY EachFormat, ReplyKept, OwnerKept
<1>3. ReplyInv /\ OwnerInv => TypesOK
  BY ReplyMeans DEF OwnerInv, IInv, TypesOK
<1> QED  BY <1>1, <1>2, <1>3, PTL DEF MCSpec
=============================================================================
