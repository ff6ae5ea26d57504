--------------------------- MODULE Asyncns_proofs ---------------------------
(* Theorems about Asyncns, for any number of workers, slots and ids, any   *)
(* length of the queues and any caller.                                    *)
EXTENDS Asyncns, FiniteSetTheorems, TLAPS

-----------------------------------------------------------------------------
(* Remainders *)

LEMMA Division ==
  ASSUME NEW a \in Nat, NEW m \in Nat \ {0}
  PROVE  \E q \in Nat, r \in 0 .. m - 1 : a = (m * q) + r /\ a % m = r
<1>1. /\ a \div m \in Nat /\ a % m \in 0 .. m - 1
      /\ a = (m * (a \div m)) + (a % m)
  BY Z3
<1> QED BY <1>1, Zenon

LEMMA RemainderOfMultiple ==
  ASSUME NEW q \in Int, NEW m \in Nat \ {0}, NEW r \in Int, 0 <= r, r < m
  PROVE  ((m * q) + r) % m = r
BY Z3

LEMMA RemainderShift ==
  ASSUME NEW a \in Nat, NEW q \in Int, NEW m \in Nat \ {0}
  PROVE  (a + (m * q)) % m = a % m
<1>1. PICK p \in Nat, r \in 0 .. m - 1 : a = (m * p) + r /\ a % m = r
  BY Division
<1>2. a + (m * q) = (m * (p + q)) + r
  BY <1>1, Z3
<1>3. p + q \in Int /\ r \in Int /\ 0 <= r /\ r < m
  OBVIOUS
<1>4. ((m * (p + q)) + r) % m = r
  BY <1>3, RemainderOfMultiple
<1> QED BY <1>1, <1>2, <1>4

LEMMA RemainderOfRemainder ==
  ASSUME NEW m \in Nat \ {0}, NEW n \in Nat \ {0}, n % m = 0, NEW a \in Nat
  PROVE  (a % n) % m = a % m
<1>1. PICK k \in Nat : n = m * k
  <2>1. PICK k \in Nat, r \in 0 .. m - 1 : n = (m * k) + r /\ n % m = r
    BY Division
  <2>2. n = m * k
    BY <2>1
  <2> QED BY <2>2
<1>2. PICK q \in Nat, r \in 0 .. n - 1 : a = (n * q) + r /\ a % n = r
  BY Division
<1>3. (m * k) * q = m * (k * q)
  BY Z3
<1>4. k * q \in Int /\ r \in Nat
  OBVIOUS
<1>5. a = r + (m * (k * q))
  BY <1>1, <1>2, <1>3, <1>4
<1>6. (r + (m * (k * q))) % m = r % m
  BY <1>4, RemainderShift
<1> QED BY <1>2, <1>5, <1>6

LEMMA RemainderOfSum ==
  ASSUME NEW m \in Nat \ {0}, NEW a \in Nat, NEW d \in Nat
  PROVE  ((a % m) + d) % m = (a + d) % m
<1>1. PICK q \in Nat, r \in 0 .. m - 1 : a = (m * q) + r /\ a % m = r
  BY Division
<1>2. a + d = (r + d) + (m * q)
  BY <1>1, Z3
<1>3. r + d \in Nat /\ q \in Int
  OBVIOUS
<1>4. ((r + d) + (m * q)) % m = (r + d) % m
  BY <1>3, RemainderShift
<1> QED BY <1>1, <1>2, <1>4

(* The ids and the slots of alloc_query's walk stay in step, also where    *)
(* current_id wraps around.                                                *)
LEMMA WalkInStep ==
  ASSUME NEW id \in Ids, NEW d \in Nat
  PROVE  /\ (id + d) % IdSpan \in Ids
         /\ ((id % MaxQueries) + d) % MaxQueries \in Slots
         /\ ((id + d) % IdSpan) % MaxQueries = ((id % MaxQueries) + d) % MaxQueries
<1>1. /\ MaxQueries \in Nat \ {0} /\ IdSpan \in Nat \ {0} /\ IdSpan % MaxQueries = 0
      /\ id \in Nat /\ id + d \in Nat
  BY TableAssumption DEF Ids
<1>2. id % MaxQueries \in 0 .. MaxQueries - 1 /\ (id + d) % IdSpan \in 0 .. IdSpan - 1
  BY <1>1, Division
<1>3. (id % MaxQueries) + d \in Nat
  BY <1>1, <1>2
<1>4. ((id % MaxQueries) + d) % MaxQueries \in 0 .. MaxQueries - 1
  BY <1>1, <1>3, Division
<1>5. ((id + d) % IdSpan) % MaxQueries = (id + d) % MaxQueries
  BY <1>1, RemainderOfRemainder
<1>6. ((id % MaxQueries) + d) % MaxQueries = (id + d) % MaxQueries
  BY <1>1, RemainderOfSum
<1> QED BY <1>2, <1>4, <1>5, <1>6 DEF Ids, Slots

-----------------------------------------------------------------------------
(* The type invariant and the table.  They need each other: that n_queries *)
(* does not sink below 0 follows from its being the number of queries, and *)
(* a send() that fails destroys a query that is in the table.              *)

UsedSlots == {i \in Slots : Used(i)}

SendingUsed == call.op = "send" => Used(call.slot)

Inv == TypeOK /\ TableConsistent /\ SendingUsed

TableTypes ==
  /\ queries \in [Slots -> Query]
  /\ done_head \in Slots \cup {NIL} /\ done_tail \in Slots \cup {NIL}

OtherTypes ==
  /\ current_id \in Ids /\ dead \in BOOLEAN
  /\ requests \in Seq(Message) /\ responses \in Seq(Message)
  /\ worker \in [Workers -> WorkerStates]
  /\ issued \in 0 .. MaxIssues /\ aborted \in BOOLEAN

SlotsFollowIds == \A i \in UsedSlots : queries[i].id % MaxQueries = i
Counted == n_queries = Cardinality(UsedSlots)
InStep == current_index = current_id % MaxQueries

LEMMA UsedFinite ==
  /\ IsFiniteSet(UsedSlots) /\ Cardinality(UsedSlots) \in 0 .. MaxQueries
  /\ IsFiniteSet(UsedSlots') /\ Cardinality(UsedSlots') \in 0 .. MaxQueries
<1>1. 0 \in Int /\ MaxQueries - 1 \in Int /\ MaxQueries \in Nat \ {0}
  BY TableAssumption
<1>2. IsFiniteSet(Slots) /\ Cardinality(Slots) = MaxQueries
  BY <1>1, FS_Interval DEF Slots
<1>3. UsedSlots \in SUBSET Slots /\ UsedSlots' \in SUBSET Slots
  BY DEF UsedSlots
<1> QED BY <1>1, <1>2, <1>3, FS_Subset, FS_CardinalityType

LEMMA InStepType ==
  ASSUME NEW id \in Ids
  PROVE  id % MaxQueries \in Slots
<1>1. id \in Nat /\ MaxQueries \in Nat \ {0}
  BY TableAssumption DEF Ids
<1> QED BY <1>1, Division DEF Slots

(* The parts make up the whole, also after a step. *)
LEMMA InvSplit ==
  Inv <=> /\ TableTypes /\ OtherTypes /\ call \in Calls
          /\ SlotsFollowIds /\ Counted /\ InStep /\ SendingUsed
BY UsedFinite, InStepType DEF Inv, TypeOK, TableConsistent, TableTypes, OtherTypes,
   SlotsFollowIds, Counted, InStep, UsedSlots

LEMMA InvSplitPrime ==
  Inv' <=> /\ TableTypes' /\ OtherTypes' /\ (call \in Calls)'
           /\ SlotsFollowIds' /\ Counted' /\ InStep' /\ SendingUsed'
BY UsedFinite, InStepType DEF Inv, TypeOK, TableConsistent, TableTypes, OtherTypes,
   SlotsFollowIds, Counted, InStep, UsedSlots

LEMMA CallFields ==
  ASSUME call \in Calls
  PROVE  /\ call.op = "send" => call.msg \in Message /\ call.slot \in Slots
         /\ call.op = "wait" => call.block \in BOOLEAN
         /\ call.op = "free" => call.left \in 0 .. Cardinality(Workers)
BY DEF Calls, NoCall, Freed

LEMMA CallTypes ==
  /\ NoCall \in Calls /\ Freed \in Calls
  /\ \A m \in Message, i \in Slots : Sending(m, i) \in Calls
  /\ \A b, h \in BOOLEAN : Waiting(b, h) \in Calls
  /\ \A n \in 0 .. Cardinality(Workers) : Freeing(n) \in Calls
  /\ NoCall.op = "none" /\ Freed.op = "freed"
  /\ \A m, i : Sending(m, i).op = "send" /\ Sending(m, i).slot = i
  /\ \A b, h : Waiting(b, h).op = "wait"
  /\ \A n : Freeing(n).op = "free"
BY DEF Calls, NoCall, Freed, Sending, Waiting, Freeing

LEMMA WorkerStateTypes ==
  /\ Idle \in WorkerStates /\ Leaving \in WorkerStates /\ Gone \in WorkerStates
  /\ \A m \in Message : Busy(m) \in WorkerStates
  /\ \A x \in WorkerStates : x.op = "busy" => x.job \in Message
BY DEF WorkerStates, Idle, Leaving, Gone, Busy

LEMMA MessageTypes ==
  /\ TERMINATE \in Message /\ DIED \in Message
  /\ \A m \in Message : Reply(m) \in Message
<1>1. TERMINATE \in Message /\ DIED \in Message
  BY TableAssumption, QueueAssumption DEF TERMINATE, DIED, Message, Ids
<1>2. ASSUME NEW m \in Message PROVE Reply(m) \in Message
  <2>1. ReplyType(m.type) \in Requests \cup Replies \cup {"TERMINATE", "DIED"}
    BY DEF Message, ReplyType, Requests, Replies
  <2> QED BY <2>1 DEF Reply, Message
<1> QED BY <1>1, <1>2

LEMMA NoQueryType == NoQuery \in Query /\ NoQuery.type = "NONE"
BY TableAssumption, QueueAssumption DEF NoQuery, Query, Ids

LEMMA InitInv == Init => Inv
<1> SUFFICES ASSUME Init PROVE Inv
  OBVIOUS
<1>1. 0 \in Ids /\ 0 \in Slots /\ 0 % MaxQueries = 0 /\ 0 \in 0 .. MaxIssues
  <2>1. 0 % MaxQueries = 0
    BY TableAssumption, RemainderOfMultiple, Z3
  <2> QED BY <2>1, TableAssumption, QueueAssumption DEF Ids, Slots
<1>2. NoQuery \in Query /\ NoQuery.type = "NONE"
  BY NoQueryType
<1>3. UsedSlots = {}
  BY <1>2 DEF UsedSlots, Used, Init, asyncns_new
<1>4. TableTypes
  BY <1>2 DEF TableTypes, Init, asyncns_new
<1>5. OtherTypes
  BY <1>1, WorkerStateTypes DEF OtherTypes, Init, asyncns_new
<1>6. call \in Calls /\ SendingUsed
  BY CallTypes DEF Init, SendingUsed
<1>7. Counted /\ SlotsFollowIds /\ InStep
  BY <1>1, <1>3, FS_EmptySet DEF Counted, SlotsFollowIds, InStep, Init, asyncns_new
<1> QED BY <1>4, <1>5, <1>6, <1>7, InvSplit

(* Destroying a query takes it, and nothing else, out of the table. *)
LEMMA DestroyTable ==
  ASSUME Inv, NEW i \in UsedSlots, Destroy(i)
  PROVE  /\ TableTypes' /\ SlotsFollowIds' /\ Counted'
         /\ UsedSlots' = UsedSlots \ {i}
<1> USE DEF Destroy
<1>1. TableTypes /\ SlotsFollowIds /\ Counted /\ i \in Slots
  BY InvSplit DEF UsedSlots
<1>2. NoQuery \in Query /\ NoQuery.type = "NONE"
  BY NoQueryType
<1>3. /\ queries[i].done_next \in Slots \cup {NIL} /\ queries[i].done_prev \in Slots \cup {NIL}
      /\ queries[i].done \in BOOLEAN
  BY <1>1 DEF TableTypes, Query
<1>4. ASSUME NEW j \in Slots
      PROVE  /\ queries'[j] \in Query
             /\ queries'[j].id = queries[j].id \/ j = i
             /\ queries'[j].type = IF j = i THEN "NONE" ELSE queries[j].type
  <2>1. queries'[j] = Unlinked(i, j) /\ queries[j] \in Query
    BY <1>1 DEF TableTypes
  <2>2. CASE j = i
    BY <2>1, <2>2, <1>2 DEF Unlinked
  <2>3. CASE j # i
    BY <2>1, <2>3, <1>3 DEF Unlinked, Query
  <2> QED BY <2>2, <2>3
<1>5. TableTypes'
  <2>1. queries' \in [Slots -> Query]
    BY <1>1, <1>4 DEF TableTypes
  <2> QED BY <2>1, <1>1, <1>3 DEF TableTypes
<1>6. UsedSlots' = UsedSlots \ {i}
  BY <1>4 DEF UsedSlots, Used
<1>7. SlotsFollowIds'
  BY <1>1, <1>4, <1>6 DEF SlotsFollowIds, UsedSlots
<1>8. Counted'
  BY <1>1, <1>6, UsedFinite, FS_RemoveElement DEF Counted
<1> QED BY <1>5, <1>6, <1>7, <1>8

(* Completing a query keeps it in its place. *)
LEMMA CompleteTable ==
  ASSUME Inv, NEW i \in UsedSlots, NEW answer \in 0 .. MaxIssues, complete_query(i, answer)
  PROVE  /\ TableTypes' /\ SlotsFollowIds'
         /\ UsedSlots' = UsedSlots
<1>1. TableTypes /\ SlotsFollowIds /\ i \in Slots
  BY InvSplit DEF UsedSlots
<1>2. ASSUME NEW j \in Slots
      PROVE  /\ queries'[j] \in Query
             /\ queries'[j].id = queries[j].id
             /\ queries'[j].type = queries[j].type
  <2>1. queries[j] \in Query /\ done_tail \in Slots \cup {NIL}
    BY <1>1 DEF TableTypes
  <2>2. CASE j = i
    <3>1. queries'[j] = [queries[j] EXCEPT !.done = TRUE, !.answer = answer,
                                           !.done_prev = done_tail, !.done_next = NIL]
      BY <1>1, <2>2 DEF complete_query
    <3> QED  BY <2>1, <3>1 DEF Query
  <2>3. CASE j # i /\ j = done_tail
    <3>1. queries'[j] = [queries[j] EXCEPT !.done_next = i]
      BY <1>1, <2>3 DEF complete_query
    <3> QED  BY <1>1, <2>1, <3>1 DEF Query
  <2>4. CASE j # i /\ j # done_tail
    <3>1. queries'[j] = queries[j]
      BY <1>1, <2>4 DEF complete_query
    <3> QED  BY <2>1, <3>1
  <2> QED  BY <2>2, <2>3, <2>4
<1>3. TableTypes'
  <2>1. queries' \in [Slots -> Query]
    BY <1>1, <1>2 DEF complete_query, TableTypes
  <2> QED BY <2>1, <1>1 DEF complete_query, TableTypes
<1>4. UsedSlots' = UsedSlots
  BY <1>2 DEF UsedSlots, Used
<1>5. SlotsFollowIds'
  BY <1>1, <1>2, <1>4 DEF SlotsFollowIds, UsedSlots
<1> QED BY <1>3, <1>4, <1>5

LEMMA IssueInv ==
  ASSUME Inv, NEW type \in Requests, asyncns_query(type)
  PROVE  Inv'
<1>1. /\ TableTypes /\ OtherTypes /\ SlotsFollowIds /\ Counted /\ InStep
      /\ call = NoCall /\ issued < MaxIssues
  BY InvSplit DEF asyncns_query
<1>2. PICK d \in 0 .. MaxQueries - 1 :
        /\ NextFree(d)
        /\ current_index' = SlotAfter(d)
        /\ current_id' = IdAfter(d)
        /\ \/ UNCHANGED <<queries, n_queries, issued, call>>
           \/ /\ queries' = [queries EXCEPT ![SlotAfter(d)] = NewQuery(type, IdAfter(d))]
              /\ n_queries' = n_queries + 1
              /\ issued' = issued + 1
              /\ call' = Sending([type |-> type, id |-> IdAfter(d), serial |-> issued + 1],
                                 SlotAfter(d))
  BY DEF asyncns_query
<1> DEFINE i == SlotAfter(d)
           id == IdAfter(d)
<1>3. id \in Ids /\ i \in Slots /\ id % MaxQueries = i /\ i \notin UsedSlots
  <2>1. d \in Nat /\ current_id \in Ids /\ current_index = current_id % MaxQueries
    BY <1>1, TableAssumption DEF OtherTypes, InStep
  <2>2. id \in Ids /\ i \in Slots /\ id % MaxQueries = i
    BY <2>1, WalkInStep DEF IdAfter, SlotAfter
  <2> QED BY <2>2, <1>2 DEF NextFree, UsedSlots
<1>4. InStep' /\ current_id' \in Ids
  BY <1>2, <1>3 DEF InStep
<1>5. UNCHANGED <<done_head, done_tail, dead, requests, responses, worker, aborted>>
  BY DEF asyncns_query
<1>6. CASE UNCHANGED <<queries, n_queries, issued, call>>
  <2>1. UsedSlots' = UsedSlots
    BY <1>6 DEF UsedSlots, Used
  <2>2. SlotsFollowIds' /\ Counted' /\ TableTypes' /\ OtherTypes'
    BY <2>1, <1>1, <1>4, <1>5, <1>6 DEF SlotsFollowIds, Counted, TableTypes, OtherTypes
  <2>3. call' \in Calls /\ SendingUsed'
    BY <1>1, <1>6, CallTypes DEF SendingUsed
  <2> QED BY <2>2, <2>3, <1>4, InvSplitPrime
<1>7. CASE /\ queries' = [queries EXCEPT ![i] = NewQuery(type, id)]
           /\ n_queries' = n_queries + 1
           /\ issued' = issued + 1
           /\ call' = Sending([type |-> type, id |-> id, serial |-> issued + 1], i)
  <2> HIDE DEF i, id
  <2>1. issued + 1 \in 0 .. MaxIssues
    BY <1>1, QueueAssumption DEF OtherTypes
  <2>2. /\ NewQuery(type, id) \in Query
        /\ NewQuery(type, id).type = type /\ NewQuery(type, id).id = id /\ type # "NONE"
    BY <2>1, <1>3, NoQueryType DEF NewQuery, Query, Requests
  <2>3. TableTypes'
    BY <1>1, <1>3, <1>5, <1>7, <2>2 DEF TableTypes
  <2>4. queries'[i] = NewQuery(type, id) /\ \A j \in Slots \ {i} : queries'[j] = queries[j]
    BY <1>1, <1>3, <1>7 DEF TableTypes
  <2>5. UsedSlots' = UsedSlots \cup {i}
    BY <1>3, <2>2, <2>4 DEF UsedSlots, Used
  <2>6. SlotsFollowIds'
    BY <1>1, <1>3, <2>2, <2>4, <2>5 DEF SlotsFollowIds, UsedSlots
  <2>7. Counted'
    BY <1>1, <1>3, <1>7, <2>5, UsedFinite, FS_AddElement DEF Counted
  <2>8. OtherTypes'
    BY <1>1, <1>4, <1>5, <1>7, <2>1 DEF OtherTypes
  <2>9. call' \in Calls /\ SendingUsed'
    <3>1. [type |-> type, id |-> id, serial |-> issued + 1] \in Message
      BY <1>3, <2>1 DEF Message
    <3>2. call' \in Calls /\ call'.slot = i
      BY <3>1, <1>3, <1>7, CallTypes
    <3> QED BY <3>2, <2>5 DEF SendingUsed, UsedSlots
  <2> QED BY <2>3, <2>6, <2>7, <2>8, <2>9, <1>4, InvSplitPrime
<1> QED BY <1>2, <1>6, <1>7

(* A step that leaves the table alone. *)
LEMMA TableKept ==
  ASSUME Inv, UNCHANGED <<tableVars, current_id, current_index>>
  PROVE  /\ TableTypes' /\ SlotsFollowIds' /\ Counted' /\ InStep'
         /\ UsedSlots' = UsedSlots
BY InvSplit DEF TableTypes, SlotsFollowIds, Counted, InStep, UsedSlots, Used, tableVars

LEMMA DestroyInv ==
  ASSUME Inv, NEW i \in Slots, Take(i) \/ asyncns_cancel(i)
  PROVE  Inv'
<1>1. /\ Destroy(i) /\ i \in UsedSlots /\ call = NoCall
      /\ UNCHANGED <<allocVars, dead, requests, responses, worker, call, aborted>>
  BY DEF Take, asyncns_cancel, UsedSlots
<1>2. OtherTypes' /\ InStep' /\ (call \in Calls)'
  BY <1>1, InvSplit DEF OtherTypes, InStep, allocVars
<1>3. SendingUsed'
  BY <1>1, CallTypes DEF SendingUsed
<1> QED BY <1>1, <1>2, <1>3, DestroyTable, InvSplitPrime

LEMMA SentInv == Inv /\ RequestSent => Inv'
<1> SUFFICES ASSUME Inv, RequestSent PROVE Inv'
  OBVIOUS
<1>1. /\ OtherTypes /\ InStep /\ call \in Calls /\ SendingUsed
      /\ call.op = "send" /\ call' = NoCall
      /\ UNCHANGED <<allocVars, dead, responses, worker, aborted>>
  BY InvSplit DEF RequestSent
<1>2. call.msg \in Message /\ call.slot \in UsedSlots
  BY <1>1, CallFields DEF SendingUsed, UsedSlots
<1>3. SendingUsed' /\ call' \in Calls /\ InStep'
  BY <1>1, CallTypes DEF SendingUsed, InStep, allocVars
<1>4. CASE requests' = Append(requests, call.msg) /\ UNCHANGED tableVars
  <2>1. OtherTypes'
    BY <1>1, <1>2, <1>4 DEF OtherTypes, allocVars
  <2>2. TableTypes' /\ SlotsFollowIds' /\ Counted'
    BY <1>1, <1>4, TableKept DEF allocVars
  <2> QED BY <2>1, <2>2, <1>3, InvSplitPrime
<1>5. CASE Destroy(call.slot) /\ UNCHANGED requests
  <2>1. OtherTypes'
    BY <1>1, <1>5 DEF OtherTypes, allocVars
  <2>2. TableTypes' /\ SlotsFollowIds' /\ Counted'
    BY <1>2, <1>5, DestroyTable
  <2> QED BY <2>1, <2>2, <1>3, InvSplitPrime
<1> QED BY <1>4, <1>5 DEF RequestSent

LEMMA ResponseSlot ==
  ASSUME TypeOK, NEW m \in Message, NEW i \in lookup_query(m.id)
  PROVE  i \in UsedSlots /\ queries[i].id = m.id
<1>1. m.id \in Ids
  BY DEF Message
<1> QED BY <1>1, InStepType DEF lookup_query, UsedSlots

LEMMA ResponseTable ==
  ASSUME Inv, NEW m \in Message, handle_response(m)
  PROVE  /\ TableTypes' /\ SlotsFollowIds' /\ Counted'
         /\ dead' \in BOOLEAN /\ aborted' \in BOOLEAN
<1>1. /\ TypeOK /\ TableTypes /\ OtherTypes /\ SlotsFollowIds /\ Counted
      /\ m.serial \in 0 .. MaxIssues
  BY InvSplit DEF Inv, Message
<1>2. CASE UNCHANGED tableVars
  <2>1. dead' \in BOOLEAN /\ aborted' \in BOOLEAN
    BY <1>1 DEF handle_response, OtherTypes
  <2>2. TableTypes' /\ SlotsFollowIds' /\ Counted'
    BY <1>1, <1>2 DEF TableTypes, SlotsFollowIds, Counted, UsedSlots, Used, tableVars
  <2> QED BY <2>1, <2>2
<1>3. ASSUME NEW i \in lookup_query(m.id), complete_query(i, m.serial),
             UNCHANGED <<aborted, n_queries, dead>>
      PROVE  /\ TableTypes' /\ SlotsFollowIds' /\ Counted'
             /\ dead' \in BOOLEAN /\ aborted' \in BOOLEAN
  <2>1. TableTypes' /\ SlotsFollowIds' /\ UsedSlots' = UsedSlots
    BY <1>1, <1>3, ResponseSlot, CompleteTable
  <2>2. Counted'
    BY <1>1, <1>3, <2>1 DEF Counted
  <2> QED BY <1>1, <1>3, <2>1, <2>2 DEF OtherTypes
<1>4. ASSUME aborted' = TRUE, UNCHANGED <<queries, done_head, done_tail, n_queries, dead>>
      PROVE  /\ TableTypes' /\ SlotsFollowIds' /\ Counted'
             /\ dead' \in BOOLEAN /\ aborted' \in BOOLEAN
  <2>1. UNCHANGED tableVars
    BY <1>4 DEF tableVars
  <2> QED BY <1>1, <1>2, <1>4, <2>1 DEF OtherTypes
<1> QED BY <1>2, <1>3, <1>4 DEF handle_response

LEMMA WaitInv ==
  ASSUME Inv, WaitTurn \/ \E block \in BOOLEAN : asyncns_wait(block)
  PROVE  Inv'
<1>1. OtherTypes /\ InStep /\ call \in Calls
  BY InvSplit
<1>2. ASSUME NEW block \in BOOLEAN, asyncns_wait(block)
      PROVE  Inv'
  <2>1. /\ UNCHANGED <<tableVars, allocVars, dead, requests, responses, worker, aborted>>
        /\ call' = Waiting(block, FALSE)
    BY <1>2 DEF asyncns_wait
  <2>2. OtherTypes'
    BY <1>1, <2>1 DEF OtherTypes, allocVars
  <2>3. call' \in Calls /\ SendingUsed'
    BY <2>1, CallTypes DEF SendingUsed
  <2>4. TableTypes' /\ SlotsFollowIds' /\ Counted' /\ InStep'
    BY <2>1, TableKept DEF allocVars
  <2> QED BY <2>2, <2>3, <2>4, InvSplitPrime
<1>3. CASE WaitTurn
  <2>1. UNCHANGED <<allocVars, requests, worker>> /\ call.op = "wait" /\ call.block \in BOOLEAN
    BY <1>1, <1>3, CallFields DEF WaitTurn
  <2>2. CASE call' = NoCall /\ UNCHANGED <<tableVars, dead, responses, aborted>>
    <3>1. OtherTypes'
      BY <1>1, <2>1, <2>2 DEF OtherTypes, allocVars
    <3>2. call' \in Calls /\ SendingUsed'
      BY <2>2, CallTypes DEF SendingUsed
    <3>3. TableTypes' /\ SlotsFollowIds' /\ Counted' /\ InStep'
      BY <2>1, <2>2, TableKept DEF allocVars
    <3> QED BY <3>1, <3>2, <3>3, InvSplitPrime
  <2>3. CASE /\ responses # <<>> /\ responses' = Tail(responses)
             /\ call' = Waiting(call.block, TRUE)
             /\ handle_response(Head(responses))
    <3>1. Head(responses) \in Message /\ responses' \in Seq(Message)
      BY <1>1, <2>3 DEF OtherTypes
    <3>2. /\ TableTypes' /\ SlotsFollowIds' /\ Counted'
          /\ dead' \in BOOLEAN /\ aborted' \in BOOLEAN
      BY <3>1, <2>3, ResponseTable
    <3>3. OtherTypes' /\ InStep'
      BY <1>1, <2>1, <3>1, <3>2 DEF OtherTypes, InStep, allocVars
    <3>4. call' \in Calls /\ SendingUsed'
      BY <2>1, <2>3, CallTypes DEF SendingUsed
    <3> QED BY <3>2, <3>3, <3>4, InvSplitPrime
  <2> QED BY <1>3, <2>2, <2>3 DEF WaitTurn
<1> QED BY <1>2, <1>3

LEMMA WorkerInv ==
  ASSUME Inv, NEW w \in Workers, Worker(w) \/ WorkerFails(w) \/ WorkerCrashes(w)
  PROVE  Inv'
<1>1. OtherTypes /\ call \in Calls /\ SendingUsed
  BY InvSplit
<1>2. UNCHANGED <<tableVars, allocVars, dead, call, aborted>>
  BY DEF Worker, WorkerReceives, handle_request, send_died, WorkerFails, WorkerCrashes
<1>3. /\ requests' \in Seq(Message) /\ responses' \in Seq(Message)
      /\ worker' \in [Workers -> WorkerStates]
  <2>1. CASE WorkerReceives(w)
    <3>1. requests \in Seq(Message) /\ requests # <<>> /\ worker \in [Workers -> WorkerStates]
      BY <1>1, <2>1 DEF WorkerReceives, OtherTypes
    <3>2. Head(requests) \in Message /\ Tail(requests) \in Seq(Message)
      BY <3>1
    <3>3. \E x \in WorkerStates : worker' = [worker EXCEPT ![w] = x]
      BY <2>1, <3>2, WorkerStateTypes DEF WorkerReceives
    <3> QED BY <1>1, <2>1, <3>1, <3>2, <3>3 DEF WorkerReceives, OtherTypes
  <2>2. CASE handle_request(w)
    <3>1. worker[w].job \in Message
      BY <1>1, <2>2, WorkerStateTypes DEF handle_request, OtherTypes
    <3>2. Reply(worker[w].job) \in Message
      BY <3>1, MessageTypes
    <3> QED BY <1>1, <2>2, <3>2, WorkerStateTypes DEF handle_request, OtherTypes
  <2>3. CASE send_died(w)
    BY <1>1, <2>3, WorkerStateTypes, MessageTypes DEF send_died, OtherTypes
  <2>4. CASE WorkerFails(w) \/ WorkerCrashes(w)
    BY <1>1, <2>4, WorkerStateTypes DEF WorkerFails, WorkerCrashes, OtherTypes
  <2> QED BY <2>1, <2>2, <2>3, <2>4 DEF Worker
<1>4. OtherTypes'
  BY <1>1, <1>2, <1>3 DEF OtherTypes, allocVars
<1>5. TableTypes' /\ SlotsFollowIds' /\ Counted' /\ InStep' /\ UsedSlots' = UsedSlots
  BY <1>2, TableKept DEF allocVars
<1>6. SendingUsed'
  BY <1>1, <1>2 DEF SendingUsed, Used, tableVars
<1> QED BY <1>1, <1>2, <1>4, <1>5, <1>6, InvSplitPrime

LEMMA FreeInv ==
  ASSUME Inv, asyncns_free \/ TerminateSent \/ SessionFreed
  PROVE  Inv'
<1>1. OtherTypes /\ InStep /\ call \in Calls
  BY InvSplit
<1>2. CASE asyncns_free \/ TerminateSent
  <2>1. UNCHANGED <<tableVars, allocVars, dead, responses, worker, aborted>>
    BY <1>2 DEF asyncns_free, TerminateSent
  <2>2. requests' \in Seq(Message)
    <3>1. requests' = Append(requests, TERMINATE) \/ requests' = requests
      BY <1>2 DEF asyncns_free, TerminateSent
    <3>2. requests \in Seq(Message) /\ TERMINATE \in Message
      BY <1>1, MessageTypes DEF OtherTypes
    <3>3. Append(requests, TERMINATE) \in Seq(Message)
      BY <3>2
    <3> QED BY <3>1, <3>2, <3>3
  <2>3. OtherTypes'
    BY <1>1, <2>1, <2>2 DEF OtherTypes, allocVars
  <2>4. \E n \in 0 .. Cardinality(Workers) : call' = Freeing(n)
    <3>1. Cardinality(Workers) \in Nat
      BY WorkersAssumption, FS_CardinalityType
    <3>2. CASE asyncns_free
      BY <3>1, <3>2 DEF asyncns_free
    <3>3. CASE TerminateSent
      <4>1. call.left \in 0 .. Cardinality(Workers) /\ call.left > 0
        BY <1>1, <3>3, CallFields DEF TerminateSent
      <4>2. call.left - 1 \in 0 .. Cardinality(Workers)
        BY <3>1, <4>1
      <4> QED BY <4>2, <3>3 DEF TerminateSent
    <3> QED BY <1>2, <3>2, <3>3
  <2>5. call' \in Calls /\ SendingUsed'
    BY <2>4, CallTypes DEF SendingUsed
  <2>6. TableTypes' /\ SlotsFollowIds' /\ Counted' /\ InStep'
    BY <2>1, TableKept DEF allocVars
  <2> QED BY <2>3, <2>5, <2>6, InvSplitPrime
<1>3. CASE SessionFreed
  <2>1. TableTypes'
    BY <1>3, NoQueryType DEF SessionFreed, TableTypes
  <2>2. UsedSlots' = {}
    BY <1>3, NoQueryType DEF SessionFreed, UsedSlots, Used
  <2>3. SlotsFollowIds' /\ Counted'
    BY <1>3, <2>2, FS_EmptySet DEF SessionFreed, SlotsFollowIds, Counted
  <2>4. OtherTypes' /\ InStep'
    BY <1>1, <1>3, WorkerStateTypes DEF SessionFreed, OtherTypes, InStep, allocVars
  <2>5. call' \in Calls /\ SendingUsed'
    BY <1>3, CallTypes DEF SessionFreed, SendingUsed
  <2> QED BY <2>1, <2>3, <2>4, <2>5, InvSplitPrime
<1> QED BY <1>2, <1>3

LEMMA NextInv == Inv /\ [Next]_vars => Inv'
<1> SUFFICES ASSUME Inv, [Next]_vars PROVE Inv'
  OBVIOUS
<1>1. CASE UNCHANGED vars
  BY <1>1 DEF vars, tableVars, allocVars, Inv, TypeOK, TableConsistent, SendingUsed, Used
<1>2. CASE asyncns_getaddrinfo \/ asyncns_getnameinfo \/ asyncns_res
  <2>1. \E type \in Requests : asyncns_query(type)
    BY <1>2 DEF asyncns_getaddrinfo, asyncns_getnameinfo, asyncns_res, Requests
  <2> QED BY <2>1, IssueInv
<1>3. ASSUME NEW i \in Slots,
             \/ asyncns_getaddrinfo_done(i) \/ asyncns_getnameinfo_done(i)
             \/ asyncns_res_done(i) \/ asyncns_cancel(i)
      PROVE  Inv'
  BY <1>3, DestroyInv DEF asyncns_getaddrinfo_done, asyncns_getnameinfo_done, asyncns_res_done
<1>4. CASE WaitTurn \/ \E block \in BOOLEAN : asyncns_wait(block)
  BY <1>4, WaitInv
<1>5. CASE RequestSent
  BY <1>5, SentInv
<1>6. CASE asyncns_free \/ TerminateSent \/ SessionFreed
  BY <1>6, FreeInv
<1>7. ASSUME NEW w \in Workers, Worker(w) \/ WorkerFails(w) \/ WorkerCrashes(w)
      PROVE  Inv'
  BY <1>7, WorkerInv
<1> QED BY <1>1, <1>2, <1>3, <1>4, <1>5, <1>6, <1>7 DEF Next, Caller, Returns

(* Every variable keeps its type: in particular n_queries never leaves     *)
(* 0 .. MAX_QUERIES, and a send() that fails finds its query in the table. *)
THEOREM TypeCorrect == Spec => []TypeOK
<1>1. Spec => []Inv
  BY InitInv, NextInv, PTL DEF Spec
<1>2. Inv => TypeOK
  BY DEF Inv
<1> QED BY <1>1, <1>2, PTL

(* The table agrees with the counters and the ids for ever, after any      *)
(* number of queries and of turns of current_id: lookup_query looks in the *)
(* one slot where a query with that id can be.                             *)
THEOREM TableConsistentAlways == Spec => []TableConsistent
<1>1. Spec => []Inv
  BY InitInv, NextInv, PTL DEF Spec
<1>2. Inv => TableConsistent
  BY DEF Inv
<1> QED BY <1>1, <1>2, PTL

-----------------------------------------------------------------------------
(* Answers.  A caller that cancels no query before it is done keeps a      *)
(* query in the table for as long as a message about it is under way.  So  *)
(* every message finds its own query, not completed yet, and no two        *)
(* messages are about the same one.                                        *)

Asked(m) == m.type \notin {"TERMINATE", "DIED"}

(* Where a message about a query can be: in a queue, with a worker, or     *)
(* with the caller that is sending it.                                     *)
Places ==
  {<<"request", k>> : k \in {n \in 1 .. Len(requests) : Asked(requests[n])}}
    \cup {<<"response", k>> : k \in {n \in 1 .. Len(responses) : Asked(responses[n])}}
    \cup {<<"worker", w>> : w \in {x \in Workers : worker[x].op = "busy"}}
    \cup {p \in {<<"call", 0>>} : call.op = "send"}

At(p) == CASE p[1] = "request"  -> requests[p[2]]
           [] p[1] = "response" -> responses[p[2]]
           [] p[1] = "worker"   -> worker[p[2]].job
           [] p[1] = "call"     -> call.msg

Matched(m) ==
  LET q == queries[m.id % MaxQueries]
  IN  /\ q.type # "NONE" /\ q.id = m.id /\ q.serial = m.serial
      /\ ~ q.done
      /\ ReplyType(q.type) = ReplyType(m.type)

Flight ==
  /\ \A p \in Places : Matched(At(p))
  /\ \A p, q \in Places : At(p).id = At(q).id => p = q

MessageKinds ==
  /\ \A k \in 1 .. Len(requests) : requests[k].type \in Requests \cup {"TERMINATE"}
  /\ \A k \in 1 .. Len(responses) : responses[k].type \in Replies \cup {"DIED"}
  /\ \A w \in Workers : worker[w].op = "busy" => worker[w].job.type \in Requests
  /\ call.op = "send" => /\ call.msg.type \in Requests
                         /\ call.slot = call.msg.id % MaxQueries

AnswersInv == Inv /\ Flight /\ MessageKinds /\ AnswersOwn /\ AssertionsHold

LEMMA ReplyTypes ==
  /\ \A t : ReplyType(ReplyType(t)) = ReplyType(t)
  /\ \A t \in Requests : ReplyType(t) \in Replies
  /\ \A t \in Replies : ReplyType(t) = t
BY DEF ReplyType, Requests, Replies

LEMMA PlaceCases ==
  /\ \A p \in Places' : \/ \E k : p = <<"request", k>>
                        \/ \E k : p = <<"response", k>>
                        \/ \E w : p = <<"worker", w>>
                        \/ p = <<"call", 0>>
  /\ \A k : <<"request", k>> \in Places <=> k \in 1 .. Len(requests) /\ Asked(requests[k])
  /\ \A k : <<"request", k>> \in Places' <=> k \in 1 .. Len(requests') /\ Asked(requests'[k])
  /\ \A k : <<"response", k>> \in Places <=> k \in 1 .. Len(responses) /\ Asked(responses[k])
  /\ \A k : <<"response", k>> \in Places' <=> k \in 1 .. Len(responses') /\ Asked(responses'[k])
  /\ \A w : <<"worker", w>> \in Places <=> w \in Workers /\ worker[w].op = "busy"
  /\ \A w : <<"worker", w>> \in Places' <=> w \in Workers /\ worker'[w].op = "busy"
  /\ <<"call", 0>> \in Places <=> call.op = "send"
  /\ <<"call", 0>> \in Places' <=> call'.op = "send"
BY DEF Places

LEMMA AtCases ==
  /\ \A k : At(<<"request", k>>) = requests[k] /\ At(<<"request", k>>)' = requests'[k]
  /\ \A k : At(<<"response", k>>) = responses[k] /\ At(<<"response", k>>)' = responses'[k]
  /\ \A w : At(<<"worker", w>>) = worker[w].job /\ At(<<"worker", w>>)' = worker'[w].job
  /\ At(<<"call", 0>>) = call.msg /\ At(<<"call", 0>>)' = call'.msg
BY DEF At

LEMMA PlaceStays ==
  ASSUME NEW p \in Places',
         p[1] = "request"  => UNCHANGED requests,
         p[1] = "response" => UNCHANGED responses,
         p[1] = "worker"   => worker'[p[2]] = worker[p[2]],
         p[1] = "call"     => UNCHANGED call
  PROVE  p \in Places /\ At(p)' = At(p)
<1>1. ASSUME NEW k, p = <<"request", k>>
      PROVE  p \in Places /\ At(p)' = At(p)
  BY <1>1, PlaceCases, AtCases
<1>2. ASSUME NEW k, p = <<"response", k>>
      PROVE  p \in Places /\ At(p)' = At(p)
  BY <1>2, PlaceCases, AtCases
<1>3. ASSUME NEW w, p = <<"worker", w>>
      PROVE  p \in Places /\ At(p)' = At(p)
  BY <1>3, PlaceCases, AtCases
<1>4. CASE p = <<"call", 0>>
  BY <1>4, PlaceCases, AtCases
<1> QED BY <1>1, <1>2, <1>3, <1>4, PlaceCases

Kept(i) ==
  /\ queries'[i].type = queries[i].type /\ queries'[i].id = queries[i].id
  /\ queries'[i].serial = queries[i].serial /\ queries'[i].done = queries[i].done

Same(m, n) == m.id = n.id /\ m.serial = n.serial /\ ReplyType(m.type) = ReplyType(n.type)

(* Messages move from place to place, two of them never to one (f says     *)
(* where a message was, g where it goes), and nothing happens to the       *)
(* queries they are about.                                                 *)
LEMMA Moved ==
  ASSUME Flight, NEW f, NEW g,
         \A p \in Places' : /\ f[p] \in Places /\ g[f[p]] = p
                            /\ Same(At(p)', At(f[p]))
                            /\ Kept(At(p)'.id % MaxQueries)
  PROVE  Flight'
<1>1. ASSUME NEW p \in Places' PROVE Matched(At(p))'
  <2>1. /\ Matched(At(f[p])) /\ Same(At(p)', At(f[p]))
        /\ Kept(At(p)'.id % MaxQueries)
    BY DEF Flight
  <2>2. At(p)'.id = At(f[p]).id /\ At(p)'.serial = At(f[p]).serial
        /\ ReplyType(At(p)'.type) = ReplyType(At(f[p]).type)
    BY <2>1 DEF Same
  <2> QED BY <2>1, <2>2 DEF Matched, Kept
<1>2. ASSUME NEW p \in Places', NEW q \in Places', At(p)'.id = At(q)'.id
      PROVE  p = q
  <2>1. /\ f[p] \in Places /\ Same(At(p)', At(f[p]))
        /\ f[q] \in Places /\ Same(At(q)', At(f[q]))
    OBVIOUS
  <2>2. At(f[p]).id = At(f[q]).id
    BY <1>2, <2>1 DEF Same
  <2>3. f[p] = f[q]
    BY <2>1, <2>2 DEF Flight
  <2>4. g[f[p]] = p /\ g[f[q]] = q
    OBVIOUS
  <2> QED BY <2>3, <2>4
<1> QED BY <1>1, <1>2 DEF Flight

(* The same where messages only go.                                        *)
LEMMA Dropped ==
  ASSUME Flight,
         \A p \in Places' : /\ p \in Places
                            /\ Same(At(p)', At(p))
                            /\ Kept(At(p)'.id % MaxQueries)
  PROVE  Flight'
<1> DEFINE f == [p \in Places' |-> p]
<1>1. \A p \in Places' : /\ f[p] \in Places /\ f[f[p]] = p
                         /\ Same(At(p)', At(f[p]))
                         /\ Kept(At(p)'.id % MaxQueries)
  OBVIOUS
<1> HIDE DEF f
<1> QED BY <1>1, Moved

LEMMA WorkerReceivesFlight ==
  ASSUME Inv, Flight, MessageKinds, NEW w \in Workers, WorkerReceives(w)
  PROVE  Flight'
<1> DEFINE f == [p \in Places' |-> IF p = <<"worker", w>> THEN <<"request", 1>>
                                  ELSE IF p[1] = "request" THEN <<"request", p[2] + 1>> ELSE p]
           g == [p \in Places |-> IF p = <<"request", 1>> THEN <<"worker", w>>
                              ELSE IF p[1] = "request" THEN <<"request", p[2] - 1>> ELSE p]
           Goes(p) == f[p] \in Places /\ g[f[p]] = p /\ Same(At(p)', At(f[p]))
<1>1. /\ requests \in Seq(Message) /\ requests # <<>> /\ worker \in [Workers -> WorkerStates]
      /\ worker[w] = Idle /\ requests' = Tail(requests)
      /\ worker' = [worker EXCEPT ![w] = IF Head(requests).type = "TERMINATE" THEN Leaving
                                                               ELSE Busy(Head(requests))]
      /\ UNCHANGED <<queries, responses, call>>
  BY InvSplit DEF OtherTypes, WorkerReceives, tableVars
<1>2. /\ Len(requests') = Len(requests) - 1 /\ Len(requests) \in Nat
      /\ \A k \in 1 .. Len(requests') : requests'[k] = requests[k + 1]
      /\ Head(requests) = requests[1] /\ Len(requests) > 0
  BY <1>1
<1>3. \A i : Kept(i)
  BY <1>1 DEF Kept
<1>4. worker'[w].op = "busy" => worker'[w].job = requests[1] /\ Asked(requests[1])
  <2>1. requests[1].type \in Requests \cup {"TERMINATE"}
    BY <1>2 DEF MessageKinds
  <2>2. CASE Head(requests).type = "TERMINATE"
    BY <1>1, <2>2 DEF Leaving
  <2>3. CASE Head(requests).type # "TERMINATE"
    BY <1>1, <1>2, <2>1, <2>3 DEF Busy, Asked, Requests
  <2> QED BY <2>2, <2>3
<1>5. \A x \in Workers \ {w} : worker'[x] = worker[x]
  BY <1>1
<1>6. ASSUME NEW p \in Places'
      PROVE  Goes(p)
  <2>1. CASE p = <<"worker", w>>
    <3>1. worker'[w].op = "busy"
      BY <2>1, PlaceCases
    <3>2. f[p] = <<"request", 1>> /\ 1 \in 1 .. Len(requests)
      BY <1>2, <2>1
    <3>3. At(p)' = requests[1] /\ At(f[p]) = requests[1] /\ f[p] \in Places
      BY <1>4, <2>1, <3>1, <3>2, PlaceCases, AtCases
    <3>4. g[f[p]] = <<"worker", w>>
      BY <3>2, <3>3
    <3> QED BY <2>1, <3>3, <3>4 DEF Same
  <2>2. ASSUME NEW k, p = <<"request", k>>
        PROVE  Goes(p)
    <3>1. k \in 1 .. Len(requests') /\ Asked(requests'[k])
      BY <2>2, PlaceCases
    <3>2. f[p] = <<"request", k + 1>>
      BY <2>2
    <3>3. k + 1 \in 1 .. Len(requests) /\ requests'[k] = requests[k + 1]
      BY <1>2, <3>1
    <3>4. f[p] \in Places /\ At(p)' = requests'[k] /\ At(f[p]) = requests[k + 1]
      BY <2>2, <3>1, <3>2, <3>3, PlaceCases, AtCases
    <3>5. g[f[p]] = <<"request", (k + 1) - 1>>
      BY <3>1, <3>2, <3>4
    <3>6. (k + 1) - 1 = k
      BY <3>1
    <3> QED BY <2>2, <3>3, <3>4, <3>5, <3>6 DEF Same
  <2>3. ASSUME p # <<"worker", w>>, p[1] # "request"
        PROVE  Goes(p)
    <3>1. f[p] = p
      BY <2>3
    <3>2. p \in Places /\ At(p)' = At(p)
      <4>1. p[1] = "worker" => worker'[p[2]] = worker[p[2]]
        BY <1>5, <2>3, PlaceCases
      <4> QED BY <1>1, <2>3, <4>1, PlaceStays
    <3>3. g[p] = p
      BY <2>3, <3>2
    <3> QED BY <3>1, <3>2, <3>3 DEF Same
  <2>4. p[1] = "request" => \E k : p = <<"request", k>>
    BY PlaceCases
  <2> QED BY <2>1, <2>2, <2>3, <2>4
<1> HIDE DEF f, g
<1> QED BY <1>3, <1>6, Moved

(* One message moves, from a to b.                                         *)
LEMMA MovedOne ==
  ASSUME Flight, UNCHANGED queries,
         NEW a \in Places, NEW b, a \notin Places', b \notin Places,
         Same(At(b)', At(a)),
         \A p \in Places' : p # b => p \in Places /\ At(p)' = At(p)
  PROVE  Flight'
<1> DEFINE f == [p \in Places' |-> IF p = b THEN a ELSE p]
           g == [p \in Places |-> IF p = a THEN b ELSE p]
<1>1. \A i : Kept(i)
  BY DEF Kept
<1>2. ASSUME NEW p \in Places'
      PROVE  f[p] \in Places /\ g[f[p]] = p /\ Same(At(p)', At(f[p]))
  <2>1. CASE p = b
    BY <2>1
  <2>2. CASE p # b
    <3>1. p \in Places /\ p # a /\ At(p)' = At(p) /\ f[p] = p
      BY <2>2
    <3>2. g[p] = p
      BY <3>1
    <3> QED BY <3>1, <3>2 DEF Same
  <2> QED BY <2>1, <2>2
<1> HIDE DEF f, g
<1> QED BY <1>1, <1>2, Moved

LEMMA AnswerFlight ==
  ASSUME Inv, Flight, NEW w \in Workers, handle_request(w)
  PROVE  Flight'
<1>0. PICK n : n = Len(responses) + 1
  OBVIOUS
<1>1. /\ responses \in Seq(Message) /\ worker \in [Workers -> WorkerStates]
      /\ worker[w].op = "busy" /\ responses' = Append(responses, Reply(worker[w].job))
      /\ worker' = [worker EXCEPT ![w] = Idle]
      /\ UNCHANGED <<queries, requests, call>>
  BY InvSplit DEF OtherTypes, handle_request, tableVars
<1>2. Reply(worker[w].job) \in Message /\ Same(Reply(worker[w].job), worker[w].job)
  <2>1. worker[w].job \in Message
    BY <1>1, WorkerStateTypes
  <2>2. Same(Reply(worker[w].job), worker[w].job)
    BY <2>1, ReplyTypes DEF Same, Reply, Message
  <2> QED BY <2>1, <2>2, MessageTypes
<1>3. /\ Len(responses') = n /\ Len(responses) \in Nat
      /\ responses'[n] = Reply(worker[w].job)
      /\ \A k \in 1 .. Len(responses) : responses'[k] = responses[k]
  BY <1>0, <1>1, <1>2
<1>4. worker'[w].op # "busy" /\ \A x \in Workers \ {w} : worker'[x] = worker[x]
  BY <1>1 DEF Idle
<1>5. <<"worker", w>> \in Places /\ <<"worker", w>> \notin Places'
  BY <1>1, <1>4, PlaceCases
<1>6. <<"response", n>> \notin Places
  BY <1>0, <1>3, PlaceCases
<1>7. Same(At(<<"response", n>>)', At(<<"worker", w>>))
  BY <1>2, <1>3, AtCases
<1>8. ASSUME NEW p \in Places', p # <<"response", n>>
      PROVE  p \in Places /\ At(p)' = At(p)
  <2>1. ASSUME NEW k, p = <<"response", k>>
        PROVE  p \in Places /\ At(p)' = At(p)
    <3>1. k \in 1 .. n /\ k # n /\ Asked(responses'[k])
      BY <1>3, <1>8, <2>1, PlaceCases
    <3>2. k \in 1 .. Len(responses) /\ responses'[k] = responses[k]
      BY <1>0, <1>3, <3>1
    <3> QED BY <2>1, <3>1, <3>2, PlaceCases, AtCases
  <2>2. CASE p[1] # "response"
    <3>1. p[1] = "worker" => worker'[p[2]] = worker[p[2]]
      BY <1>4, <1>5, PlaceCases
    <3> QED BY <1>1, <2>2, <3>1, PlaceStays
  <2>3. p[1] = "response" => \E k : p = <<"response", k>>
    BY PlaceCases
  <2> QED BY <2>1, <2>2, <2>3
<1> QED BY <1>1, <1>5, <1>6, <1>7, <1>8, MovedOne

LEMMA RequestFlight ==
  ASSUME Inv, Flight, call.op = "send", call' = NoCall, call.msg \in Message,
         requests' = Append(requests, call.msg),
         UNCHANGED <<queries, responses, worker>>
  PROVE  Flight'
<1>0. PICK n : n = Len(requests) + 1
  OBVIOUS
<1>1. requests \in Seq(Message)
  BY InvSplit DEF OtherTypes
<1>2. /\ Len(requests') = n /\ Len(requests) \in Nat
      /\ requests'[n] = call.msg
      /\ \A k \in 1 .. Len(requests) : requests'[k] = requests[k]
  BY <1>0, <1>1
<1>3. <<"call", 0>> \in Places /\ <<"call", 0>> \notin Places'
  BY PlaceCases, CallTypes
<1>4. <<"request", n>> \notin Places
  BY <1>0, <1>2, PlaceCases
<1>5. Same(At(<<"request", n>>)', At(<<"call", 0>>))
  BY <1>2, AtCases DEF Same
<1>6. ASSUME NEW p \in Places', p # <<"request", n>>
      PROVE  p \in Places /\ At(p)' = At(p)
  <2>1. ASSUME NEW k, p = <<"request", k>>
        PROVE  p \in Places /\ At(p)' = At(p)
    <3>1. k \in 1 .. n /\ k # n /\ Asked(requests'[k])
      BY <1>2, <1>6, <2>1, PlaceCases
    <3>2. k \in 1 .. Len(requests) /\ requests'[k] = requests[k]
      BY <1>0, <1>2, <3>1
    <3> QED BY <2>1, <3>1, <3>2, PlaceCases, AtCases
  <2>2. CASE p[1] # "request"
    <3>1. p[1] # "call"
      BY <1>3, PlaceCases
    <3> QED BY <2>2, <3>1, PlaceStays
  <2>3. p[1] = "request" => \E k : p = <<"request", k>>
    BY PlaceCases
  <2> QED BY <2>1, <2>2, <2>3
<1> QED BY <1>3, <1>4, <1>5, <1>6, MovedOne

-----------------------------------------------------------------------------
(* What completing and destroying a query does to the others               *)

LEMMA CompleteKeeps ==
  ASSUME Inv, NEW i \in UsedSlots, NEW answer \in 0 .. MaxIssues, complete_query(i, answer)
  PROVE  /\ \A j \in Slots : j # i => Kept(j) /\ queries'[j].answer = queries[j].answer
         /\ queries'[i].done /\ queries'[i].answer = answer
         /\ queries'[i].serial = queries[i].serial
<1>1. TableTypes /\ i \in Slots
  BY InvSplit DEF UsedSlots
<1>2. ASSUME NEW j \in Slots, j # i
      PROVE  Kept(j) /\ queries'[j].answer = queries[j].answer
  BY <1>1, <1>2 DEF complete_query, TableTypes, Query, Kept
<1>3. /\ queries'[i].done /\ queries'[i].answer = answer
      /\ queries'[i].serial = queries[i].serial
  BY <1>1 DEF complete_query, TableTypes, Query
<1> QED BY <1>2, <1>3

LEMMA DestroyKeeps ==
  ASSUME Inv, NEW i \in UsedSlots, Destroy(i)
  PROVE  /\ \A j \in Slots : j # i => Kept(j) /\ queries'[j].answer = queries[j].answer
         /\ ~ queries'[i].done
<1>1. TableTypes /\ i \in Slots
  BY InvSplit DEF UsedSlots
<1>2. ASSUME NEW j \in Slots, j # i
      PROVE  Kept(j) /\ queries'[j].answer = queries[j].answer
  <2>1. queries'[j] = Unlinked(i, j) /\ queries[j] \in Query
    BY <1>1 DEF Destroy, TableTypes
  <2> QED BY <1>2, <2>1 DEF Unlinked, Query, Kept
<1>3. ~ queries'[i].done
  BY <1>1 DEF Destroy, Unlinked, NoQuery
<1> QED BY <1>2, <1>3

(* A message at a place is about a slot of the table, and every slot but   *)
(* its own holds no query with its id.                                     *)
LEMMA PlaceTypes ==
  ASSUME Inv, MessageKinds, NEW p \in Places
  PROVE  At(p) \in Message /\ At(p).id % MaxQueries \in Slots
<1>1. OtherTypes /\ call \in Calls
  BY InvSplit
<1>2. At(p) \in Message
  <2>1. ASSUME NEW k \in 1 .. Len(requests), p = <<"request", k>>
        PROVE  At(p) \in Message
    BY <1>1, <2>1, AtCases DEF OtherTypes
  <2>2. ASSUME NEW k \in 1 .. Len(responses), p = <<"response", k>>
        PROVE  At(p) \in Message
    BY <1>1, <2>2, AtCases DEF OtherTypes
  <2>3. ASSUME NEW w \in Workers, p = <<"worker", w>>, worker[w].op = "busy"
        PROVE  At(p) \in Message
    BY <1>1, <2>3, AtCases, WorkerStateTypes DEF OtherTypes
  <2>4. ASSUME p = <<"call", 0>>, call.op = "send"
        PROVE  At(p) \in Message
    BY <1>1, <2>4, AtCases, CallFields
  <2> QED BY <2>1, <2>2, <2>3, <2>4 DEF Places
<1> QED BY <1>2, InStepType DEF Message

(* Two messages under way are about different slots.                       *)
LEMMA PlacesApart ==
  ASSUME Inv, Flight, NEW p \in Places, NEW q \in Places, p # q
  PROVE  At(p).id % MaxQueries # At(q).id % MaxQueries
BY DEF Flight, Matched

LEMMA ResponseFlight ==
  ASSUME Inv, Flight, MessageKinds, responses # <<>>, responses' = Tail(responses),
         UNCHANGED <<requests, worker>>, call.op # "send", call'.op # "send",
         \A j \in Slots : \/ Kept(j)
                          \/ Asked(Head(responses)) /\ j = Head(responses).id % MaxQueries
  PROVE  Flight'
<1> DEFINE f == [p \in Places' |->
                   IF p[1] = "response" THEN <<"response", p[2] + 1>> ELSE p]
           g == [p \in Places |->
                   IF p[1] = "response" THEN <<"response", p[2] - 1>> ELSE p]
           Goes(p) == f[p] \in Places /\ g[f[p]] = p /\ At(p)' = At(f[p])
                        /\ f[p] # <<"response", 1>>
<1>1. /\ Len(responses') = Len(responses) - 1 /\ Len(responses) \in Nat
      /\ \A k \in 1 .. Len(responses') : responses'[k] = responses[k + 1]
      /\ Head(responses) = responses[1] /\ Len(responses) > 0
  BY InvSplit DEF OtherTypes
<1>2. ASSUME NEW p \in Places'
      PROVE  Goes(p)
  <2>1. ASSUME NEW k, p = <<"response", k>>
        PROVE  Goes(p)
    <3>1. k \in 1 .. Len(responses') /\ Asked(responses'[k])
      BY <2>1, PlaceCases
    <3>2. f[p] = <<"response", k + 1>>
      BY <2>1
    <3>3. k + 1 \in 1 .. Len(responses) /\ responses'[k] = responses[k + 1]
      BY <1>1, <3>1
    <3>4. f[p] \in Places /\ At(p)' = responses'[k] /\ At(f[p]) = responses[k + 1]
      BY <2>1, <3>1, <3>2, <3>3, PlaceCases, AtCases
    <3>5. g[f[p]] = <<"response", (k + 1) - 1>>
      <4> HIDE DEF f
      <4>1. g[<<"response", k + 1>>] = <<"response", (k + 1) - 1>>
        BY <3>2, <3>4
      <4> QED BY <3>2, <4>1
    <3>6. (k + 1) - 1 = k /\ k + 1 # 1
      BY <3>1
    <3> QED BY <2>1, <3>2, <3>3, <3>4, <3>5, <3>6
  <2>2. CASE p[1] # "response"
    <3>1. f[p] = p /\ p[1] # "call"
      <4>1. f[p] = p
        BY <2>2
      <4>2. p[1] # "call"
        BY PlaceCases
      <4> QED  BY <4>1, <4>2
    <3>2. p \in Places /\ At(p)' = At(p)
      BY <2>2, <3>1, PlaceStays
    <3>3. g[p] = p
      BY <2>2, <3>2
    <3> QED BY <2>2, <3>1, <3>2, <3>3
  <2>3. p[1] = "response" => \E k : p = <<"response", k>>
    BY PlaceCases
  <2> QED BY <2>1, <2>2, <2>3
<1> HIDE DEF f, g
<1>3. ASSUME NEW p \in Places'
      PROVE  Kept(At(p)'.id % MaxQueries)
  <2>1. /\ f[p] \in Places /\ f[p] # <<"response", 1>> /\ At(p)' = At(f[p])
    BY <1>2
  <2>2. At(f[p]).id % MaxQueries \in Slots
    BY <2>1, PlaceTypes
  <2>3. CASE Asked(Head(responses))
    <3>1. <<"response", 1>> \in Places /\ At(<<"response", 1>>) = Head(responses)
      BY <1>1, <2>3, PlaceCases, AtCases
    <3>2. At(f[p]).id % MaxQueries # Head(responses).id % MaxQueries
      BY <2>1, <3>1, PlacesApart
    <3> QED BY <2>1, <2>2, <3>2
  <2> QED BY <2>1, <2>2, <2>3
<1>4. ASSUME NEW p \in Places'
      PROVE  /\ f[p] \in Places /\ g[f[p]] = p
             /\ Same(At(p)', At(f[p]))
             /\ Kept(At(p)'.id % MaxQueries)
  BY <1>2, <1>3 DEF Same
<1> QED BY <1>4, Moved

-----------------------------------------------------------------------------
(* The steps *)

LEMMA IssueAnswers ==
  ASSUME AnswersInv, NEW type \in Requests, asyncns_query(type)
  PROVE  Flight' /\ MessageKinds' /\ AnswersOwn' /\ AssertionsHold'
<1>1. /\ Inv /\ Flight /\ MessageKinds /\ AnswersOwn /\ AssertionsHold
      /\ TableTypes /\ OtherTypes /\ InStep /\ call = NoCall
      /\ UNCHANGED <<requests, responses, worker, aborted>>
  BY InvSplit DEF AnswersInv, asyncns_query
<1>2. AssertionsHold'
  BY <1>1 DEF AssertionsHold
<1>3. PICK d \in 0 .. MaxQueries - 1 :
        /\ NextFree(d)
        /\ \/ UNCHANGED <<queries, n_queries, issued, call>>
           \/ /\ queries' = [queries EXCEPT ![SlotAfter(d)] = NewQuery(type, IdAfter(d))]
              /\ call' = Sending([type |-> type, id |-> IdAfter(d), serial |-> issued + 1],
                                 SlotAfter(d))
  BY DEF asyncns_query
<1>4. /\ IdAfter(d) \in Ids /\ SlotAfter(d) \in Slots
      /\ IdAfter(d) % MaxQueries = SlotAfter(d) /\ ~ Used(SlotAfter(d))
  <2>1. d \in Nat /\ current_id \in Ids /\ current_index = current_id % MaxQueries
    BY <1>1, TableAssumption DEF OtherTypes, InStep
  <2> QED BY <1>3, <2>1, WalkInStep DEF IdAfter, SlotAfter, NextFree
<1>5. CASE UNCHANGED <<queries, n_queries, issued, call>>
  <2>1. Flight'
    <3>1. ASSUME NEW p \in Places'
          PROVE  p \in Places /\ Same(At(p)', At(p)) /\ Kept(At(p)'.id % MaxQueries)
      BY <1>1, <1>5, PlaceStays DEF Same, Kept
    <3> QED BY <1>1, <3>1, Dropped
  <2>2. MessageKinds' /\ AnswersOwn'
    BY <1>1, <1>5 DEF MessageKinds, AnswersOwn
  <2> QED BY <1>2, <2>1, <2>2
<1>6. ASSUME NEW i, NEW m, NEW q,
             i = SlotAfter(d), m = [type |-> type, id |-> IdAfter(d), serial |-> issued + 1],
             q = NewQuery(type, IdAfter(d)),
             queries' = [queries EXCEPT ![i] = q], call' = Sending(m, i)
      PROVE  Flight' /\ MessageKinds' /\ AnswersOwn'
  <2>1. /\ i \in Slots /\ m.id % MaxQueries = i /\ ~ Used(i)
        /\ m.type = type /\ type # "NONE"
    BY <1>4, <1>6 DEF Requests
  <2>2. /\ q.type = type /\ q.id = m.id /\ q.serial = m.serial /\ q.done = FALSE
    BY <1>6 DEF NewQuery, NoQuery
  <2>3. queries'[i] = q /\ \A j \in Slots : j # i => queries'[j] = queries[j]
    BY <1>1, <1>6, <2>1 DEF TableTypes
  <2>4. /\ call'.op = "send" /\ call'.msg = m /\ call'.slot = i /\ call.op # "send"
    BY <1>1, <1>6, CallTypes DEF Sending
  <2>5. Matched(m)'
    BY <2>1, <2>2, <2>3 DEF Matched
  <2>6. ASSUME NEW p \in Places', p # <<"call", 0>>
        PROVE  /\ p \in Places /\ At(p)' = At(p) /\ Matched(At(p))'
               /\ At(p).id # m.id
    <3>1. p \in Places /\ At(p)' = At(p)
      <4>1. p[1] # "call"
        BY <2>6, PlaceCases
      <4> QED BY <1>1, <4>1, PlaceStays
    <3>2. Matched(At(p)) /\ At(p).id % MaxQueries \in Slots
      BY <1>1, <3>1, PlaceTypes DEF Flight
    <3>3. At(p).id % MaxQueries # i
      BY <2>1, <3>2 DEF Matched, Used
    <3>4. queries'[At(p).id % MaxQueries] = queries[At(p).id % MaxQueries]
      BY <2>3, <3>2, <3>3
    <3>5. Matched(At(p))'
      BY <3>1, <3>2, <3>4 DEF Matched
    <3> QED BY <2>1, <3>1, <3>3, <3>5
  <2>7. At(<<"call", 0>>)' = m
    BY <2>4, AtCases
  <2>8. Flight'
    <3>1. ASSUME NEW p \in Places' PROVE Matched(At(p))'
      BY <2>5, <2>6, <2>7
    <3>2. ASSUME NEW p \in Places', NEW r \in Places', At(p)'.id = At(r)'.id
          PROVE  p = r
      <4>1. CASE p # <<"call", 0>> /\ r # <<"call", 0>>
        BY <1>1, <2>6, <3>2, <4>1 DEF Flight
      <4>2. CASE p = <<"call", 0>> \/ r = <<"call", 0>>
        BY <2>6, <2>7, <3>2, <4>2
      <4> QED BY <4>1, <4>2
    <3> QED BY <3>1, <3>2 DEF Flight
  <2>9. MessageKinds'
    BY <1>1, <2>1, <2>4 DEF MessageKinds
  <2>10. AnswersOwn'
    BY <1>1, <2>2, <2>3 DEF AnswersOwn
  <2> QED BY <2>8, <2>9, <2>10
<1> QED BY <1>2, <1>3, <1>5, <1>6

(* A query that no message is about is destroyed.                          *)
LEMMA DestroyAnswers ==
  ASSUME AnswersInv, NEW i \in UsedSlots, Destroy(i),
         UNCHANGED <<requests, responses, worker, aborted>>,
         call' = NoCall \/ UNCHANGED call,
         \A p \in Places' : At(p).id % MaxQueries # i
  PROVE  Flight' /\ MessageKinds' /\ AnswersOwn' /\ AssertionsHold'
<1>1. Inv /\ Flight /\ MessageKinds /\ AnswersOwn /\ AssertionsHold /\ i \in Slots
  BY DEF AnswersInv, UsedSlots
<1>2. /\ \A j \in Slots : j # i => Kept(j) /\ queries'[j].answer = queries[j].answer
      /\ ~ queries'[i].done
  BY <1>1, DestroyKeeps
<1>3. ASSUME NEW p \in Places'
      PROVE  p \in Places /\ Same(At(p)', At(p)) /\ Kept(At(p)'.id % MaxQueries)
  <2>1. p[1] = "call" => UNCHANGED call
    <3>1. p[1] = "call" => p = <<"call", 0>>
      BY PlaceCases
    <3>2. p = <<"call", 0>> => call' # NoCall
      BY PlaceCases, CallTypes
    <3> QED BY <3>1, <3>2
  <2>2. p \in Places /\ At(p)' = At(p)
    BY <2>1, PlaceStays
  <2>3. At(p).id % MaxQueries \in Slots
    BY <1>1, <2>2, PlaceTypes
  <2> QED BY <1>2, <2>2, <2>3 DEF Same
<1>4. Flight'
  BY <1>1, <1>3, Dropped
<1>5. MessageKinds'
  BY <1>1, CallTypes DEF MessageKinds
<1>6. AnswersOwn'
  BY <1>1, <1>2 DEF AnswersOwn, Kept
<1> QED BY <1>1, <1>4, <1>5, <1>6 DEF AssertionsHold

LEMMA TakeAnswers ==
  ASSUME AnswersInv, NEW i \in Slots, Used(i), queries[i].done, call = NoCall, Destroy(i),
         UNCHANGED <<requests, responses, worker, call, aborted>>
  PROVE  Flight' /\ MessageKinds' /\ AnswersOwn' /\ AssertionsHold'
<1>1. ASSUME NEW p \in Places' PROVE At(p).id % MaxQueries # i
  <2>1. p \in Places
    BY PlaceStays
  <2>2. Matched(At(p))
    BY <2>1 DEF AnswersInv, Flight
  <2> QED BY <2>2 DEF Matched
<1> QED BY <1>1, DestroyAnswers DEF UsedSlots

LEMMA SentAnswers ==
  ASSUME AnswersInv, RequestSent
  PROVE  Flight' /\ MessageKinds' /\ AnswersOwn' /\ AssertionsHold'
<1>1. /\ Inv /\ Flight /\ MessageKinds /\ AnswersOwn /\ AssertionsHold
      /\ call \in Calls /\ SendingUsed /\ OtherTypes
      /\ call.op = "send" /\ call' = NoCall
      /\ UNCHANGED <<responses, worker, aborted>>
  BY InvSplit DEF AnswersInv, RequestSent
<1>2. call.msg \in Message /\ call.slot \in UsedSlots
  BY <1>1, CallFields DEF SendingUsed, UsedSlots
<1>3. CASE requests' = Append(requests, call.msg) /\ UNCHANGED tableVars
  <2>1. UNCHANGED queries
    BY <1>3 DEF tableVars
  <2>2. Flight'
    BY <1>1, <1>2, <1>3, <2>1, RequestFlight
  <2>3. MessageKinds'
    <3>1. \A k \in 1 .. Len(requests') : requests'[k] = call.msg \/
            (k \in 1 .. Len(requests) /\ requests'[k] = requests[k])
      BY <1>1, <1>2, <1>3 DEF OtherTypes
    <3>2. \A k \in 1 .. Len(requests') : requests'[k].type \in Requests \cup {"TERMINATE"}
      BY <1>1, <3>1 DEF MessageKinds
    <3> QED BY <1>1, <3>2, CallTypes DEF MessageKinds
  <2>4. AnswersOwn' /\ AssertionsHold'
    BY <1>1, <2>1 DEF AnswersOwn, AssertionsHold
  <2> QED BY <2>2, <2>3, <2>4
<1>4. CASE Destroy(call.slot) /\ UNCHANGED requests
  <2>1. ASSUME NEW p \in Places' PROVE At(p).id % MaxQueries # call.slot
    <3>1. p # <<"call", 0>>
      BY <1>1, PlaceCases, CallTypes
    <3>2. p[1] # "call"
      BY <3>1, PlaceCases
    <3>3. p \in Places
      BY <1>1, <1>4, <3>2, PlaceStays
    <3>4. <<"call", 0>> \in Places /\ At(<<"call", 0>>) = call.msg
      BY <1>1, PlaceCases, AtCases
    <3>5. At(p).id % MaxQueries # call.msg.id % MaxQueries
      BY <1>1, <3>1, <3>3, <3>4, PlacesApart
    <3> QED BY <1>1, <3>5 DEF MessageKinds
  <2> QED BY <1>1, <1>2, <1>4, <2>1, DestroyAnswers
<1> QED BY <1>3, <1>4 DEF RequestSent

(* A message that is about a query finds it, and finds it as expected.     *)
LEMMA ResponseFound ==
  ASSUME AnswersInv, responses # <<>>, Head(responses).type # "DIED"
  PROVE  LET m == Head(responses)
             i == m.id % MaxQueries
         IN  /\ Asked(m) /\ m \in Message /\ i \in UsedSlots
             /\ lookup_query(m.id) = {i} /\ Expected(i, m)
             /\ queries[i].serial = m.serial
<1> DEFINE m == Head(responses)
           i == m.id % MaxQueries
<1>1. Inv /\ Flight /\ MessageKinds /\ TypeOK
  BY DEF AnswersInv, Inv
<1>2. m = responses[1] /\ 1 \in 1 .. Len(responses)
  BY <1>1 DEF TypeOK
<1>3. m.type \in Replies /\ Asked(m)
  BY <1>1, <1>2 DEF MessageKinds, Asked, Replies
<1>4. <<"response", 1>> \in Places /\ At(<<"response", 1>>) = m
  BY <1>2, <1>3, PlaceCases, AtCases
<1>5. Matched(m) /\ m \in Message /\ i \in Slots
  BY <1>1, <1>4, PlaceTypes DEF Flight
<1>6. i \in UsedSlots /\ lookup_query(m.id) = {i}
  BY <1>5 DEF Matched, UsedSlots, Used, lookup_query
<1>7. Expected(i, m)
  BY <1>3, <1>5, ReplyTypes DEF Expected, Matched
<1> QED BY <1>3, <1>5, <1>6, <1>7 DEF Matched

LEMMA WaitAnswers ==
  ASSUME AnswersInv, WaitTurn \/ \E block \in BOOLEAN : asyncns_wait(block)
  PROVE  Flight' /\ MessageKinds' /\ AnswersOwn' /\ AssertionsHold'
<1>1. /\ Inv /\ Flight /\ MessageKinds /\ AnswersOwn /\ AssertionsHold
      /\ UNCHANGED <<requests, worker>> /\ call.op # "send" /\ call'.op # "send"
  <2>1. Inv /\ Flight /\ MessageKinds /\ AnswersOwn /\ AssertionsHold
    BY DEF AnswersInv
  <2>2. NoCall.op # "send" /\ \A b, h : Waiting(b, h).op # "send"
    BY DEF NoCall, Waiting
  <2>3. UNCHANGED <<requests, worker>>
    BY DEF WaitTurn, asyncns_wait
  <2>4. call.op # "send"
    BY <2>2 DEF WaitTurn, asyncns_wait
  <2>5. call'.op # "send"
    BY <2>2 DEF WaitTurn, asyncns_wait
  <2> QED  BY <2>1, <2>3, <2>4, <2>5
<1>2. CASE UNCHANGED <<queries, responses, aborted>>
  <2>1. ASSUME NEW p \in Places'
        PROVE  p \in Places /\ Same(At(p)', At(p)) /\ Kept(At(p)'.id % MaxQueries)
    <3>1. p[1] # "call"
      BY <1>1, PlaceCases
    <3> QED BY <1>1, <1>2, <3>1, PlaceStays DEF Same, Kept
  <2>2. Flight'
    BY <1>1, <2>1, Dropped
  <2> QED BY <1>1, <1>2, <2>2 DEF MessageKinds, AnswersOwn, AssertionsHold
<1>3. ASSUME responses # <<>>, responses' = Tail(responses), handle_response(Head(responses))
      PROVE  Flight' /\ MessageKinds' /\ AnswersOwn' /\ AssertionsHold'
  <2> DEFINE m == Head(responses)
             i == m.id % MaxQueries
  <2>1. MessageKinds'
    <3>1. /\ Len(responses') = Len(responses) - 1 /\ Len(responses) \in Nat
          /\ \A k \in 1 .. Len(responses') : responses'[k] = responses[k + 1]
      BY <1>1, <1>3, InvSplit DEF OtherTypes
    <3>2. \A k \in 1 .. Len(responses') : responses'[k].type \in Replies \cup {"DIED"}
      BY <1>1, <3>1 DEF MessageKinds
    <3> QED BY <1>1, <3>2 DEF MessageKinds
  <2>2. CASE m.type = "DIED"
    <3>1. UNCHANGED <<queries, aborted>>
      BY <1>3, <2>2 DEF handle_response, tableVars
    <3>2. Flight'
      BY <1>1, <1>3, <3>1, ResponseFlight DEF Kept
    <3> QED BY <1>1, <2>1, <3>1, <3>2 DEF AnswersOwn, AssertionsHold
  <2>3. CASE m.type # "DIED"
    <3>1. /\ Asked(m) /\ m \in Message /\ i \in UsedSlots
          /\ lookup_query(m.id) = {i} /\ Expected(i, m)
          /\ queries[i].serial = m.serial
      BY <1>3, <2>3, ResponseFound
    <3>2. complete_query(i, m.serial) /\ UNCHANGED aborted
      BY <1>3, <2>3, <3>1 DEF handle_response
    <3>3. /\ \A j \in Slots : j # i => Kept(j) /\ queries'[j].answer = queries[j].answer
          /\ queries'[i].done /\ queries'[i].answer = m.serial
          /\ queries'[i].serial = queries[i].serial
      <4>1. m.serial \in 0 .. MaxIssues
        BY <3>1 DEF Message
      <4> QED BY <1>1, <3>1, <3>2, <4>1, CompleteKeeps
    <3>4. Flight'
      BY <1>1, <1>3, <3>1, <3>3, ResponseFlight
    <3>5. AnswersOwn'
      BY <1>1, <3>1, <3>3 DEF AnswersOwn, Kept
    <3> QED BY <1>1, <2>1, <3>2, <3>4, <3>5 DEF AssertionsHold
  <2> QED BY <2>2, <2>3
<1> QED BY <1>2, <1>3 DEF WaitTurn, asyncns_wait, tableVars

LEMMA WorkerAnswers ==
  ASSUME AnswersInv, NEW w \in Workers, Worker(w) \/ WorkerFails(w) \/ WorkerCrashes(w)
  PROVE  Flight' /\ MessageKinds' /\ AnswersOwn' /\ AssertionsHold'
<1>1. /\ Inv /\ Flight /\ MessageKinds /\ AnswersOwn /\ AssertionsHold /\ OtherTypes
  BY InvSplit DEF AnswersInv
<1>2. UNCHANGED <<queries, call, aborted>>
  BY DEF Worker, WorkerReceives, handle_request, send_died, WorkerFails, WorkerCrashes, tableVars
<1>3. AnswersOwn' /\ AssertionsHold'
  BY <1>1, <1>2 DEF AnswersOwn, AssertionsHold
<1>4. CASE WorkerReceives(w)
  <2>1. Flight'
    BY <1>1, <1>4, WorkerReceivesFlight
  <2>2. /\ requests \in Seq(Message) /\ requests # <<>> /\ worker \in [Workers -> WorkerStates]
        /\ requests' = Tail(requests) /\ UNCHANGED responses
        /\ worker' = [worker EXCEPT ![w] = IF Head(requests).type = "TERMINATE" THEN Leaving
                                                                 ELSE Busy(Head(requests))]
    BY <1>1, <1>4 DEF OtherTypes, WorkerReceives
  <2>3. /\ Len(requests') = Len(requests) - 1 /\ Len(requests) \in Nat
        /\ \A k \in 1 .. Len(requests') : requests'[k] = requests[k + 1]
        /\ Head(requests) = requests[1] /\ 1 \in 1 .. Len(requests)
    BY <2>2
  <2>4. Head(requests).type \in Requests \cup {"TERMINATE"}
    BY <1>1, <2>3 DEF MessageKinds
  <2>5. worker'[w].op = "busy" => worker'[w].job.type \in Requests
    <3>1. CASE Head(requests).type = "TERMINATE"
      BY <2>2, <3>1 DEF Leaving
    <3>2. CASE Head(requests).type # "TERMINATE"
      BY <2>2, <2>4, <3>2 DEF Busy
    <3> QED BY <3>1, <3>2
  <2>6. \A k \in 1 .. Len(requests') : requests'[k].type \in Requests \cup {"TERMINATE"}
    BY <1>1, <2>3 DEF MessageKinds
  <2>7. MessageKinds'
    BY <1>1, <1>2, <2>2, <2>5, <2>6 DEF MessageKinds
  <2> QED BY <1>3, <2>1, <2>7
<1>5. CASE handle_request(w)
  <2>1. Flight'
    BY <1>1, <1>5, AnswerFlight
  <2>2. /\ responses \in Seq(Message) /\ worker \in [Workers -> WorkerStates]
        /\ worker[w].op = "busy" /\ responses' = Append(responses, Reply(worker[w].job))
        /\ worker' = [worker EXCEPT ![w] = Idle] /\ UNCHANGED requests
    BY <1>1, <1>5 DEF OtherTypes, handle_request
  <2>3. /\ worker[w].job \in Message /\ Reply(worker[w].job) \in Message
        /\ Reply(worker[w].job).type \in Replies
    <3>1. worker[w].job \in Message /\ worker[w].job.type \in Requests
      BY <1>1, <2>2, WorkerStateTypes DEF MessageKinds
    <3> QED BY <3>1, MessageTypes, ReplyTypes DEF Reply, Message
  <2>4. \A k \in 1 .. Len(responses') : \/ responses'[k] = Reply(worker[w].job)
                                        \/ /\ k \in 1 .. Len(responses)
                                           /\ responses'[k] = responses[k]
    BY <2>2, <2>3
  <2>5. \A k \in 1 .. Len(responses') : responses'[k].type \in Replies \cup {"DIED"}
    BY <1>1, <2>3, <2>4 DEF MessageKinds
  <2>6. MessageKinds'
    BY <1>1, <1>2, <2>2, <2>5 DEF MessageKinds, Idle
  <2> QED BY <1>3, <2>1, <2>6
<1>6. CASE send_died(w) \/ WorkerFails(w) \/ WorkerCrashes(w)
  <2>1. /\ \A x \in Workers : worker'[x].op = "busy" => worker'[x] = worker[x]
        /\ responses' = responses \/ responses' = Append(responses, DIED)
        /\ UNCHANGED requests
    BY <1>1, <1>6 DEF OtherTypes, send_died, WorkerFails, WorkerCrashes, Leaving, Gone
  <2>2. ASSUME NEW k \in 1 .. Len(responses')
        PROVE  responses'[k] = DIED \/ (k \in 1 .. Len(responses) /\ responses'[k] = responses[k])
    BY <1>1, <2>1, MessageTypes DEF OtherTypes
  <2>3. ASSUME NEW p \in Places'
        PROVE  p \in Places /\ Same(At(p)', At(p)) /\ Kept(At(p)'.id % MaxQueries)
    <3>1. ASSUME NEW k, p = <<"response", k>>
          PROVE  p \in Places /\ At(p)' = At(p)
      <4>1. k \in 1 .. Len(responses') /\ Asked(responses'[k])
        BY <3>1, PlaceCases
      <4>2. responses'[k] # DIED
        BY <4>1 DEF Asked, DIED
      <4>3. k \in 1 .. Len(responses) /\ responses'[k] = responses[k]
        BY <2>2, <4>1, <4>2
      <4> QED BY <3>1, <4>1, <4>3, PlaceCases, AtCases
    <3>2. ASSUME p[1] # "response"
          PROVE  p \in Places /\ At(p)' = At(p)
      <4>1. p[1] = "worker" => worker'[p[2]] = worker[p[2]]
        BY <2>1, PlaceCases
      <4> QED BY <1>2, <2>1, <3>2, <4>1, PlaceStays
    <3>3. p \in Places /\ At(p)' = At(p)
      <4>1. p[1] = "response" => \E k : p = <<"response", k>>
        BY PlaceCases
      <4> QED BY <3>1, <3>2, <4>1
    <3> QED BY <1>2, <3>3 DEF Same, Kept
  <2>4. Flight'
    BY <1>1, <2>3, Dropped
  <2>5. MessageKinds'
    BY <1>1, <1>2, <2>1, <2>2 DEF MessageKinds, DIED
  <2> QED BY <1>3, <2>4, <2>5
<1> QED BY <1>4, <1>5, <1>6 DEF Worker

LEMMA FreeAnswers ==
  ASSUME AnswersInv, asyncns_free \/ TerminateSent \/ SessionFreed
  PROVE  Flight' /\ MessageKinds' /\ AnswersOwn' /\ AssertionsHold'
<1>1. /\ Inv /\ Flight /\ MessageKinds /\ AnswersOwn /\ AssertionsHold /\ OtherTypes
      /\ call'.op # "send" /\ UNCHANGED aborted
  BY InvSplit, CallTypes DEF AnswersInv, asyncns_free, TerminateSent, SessionFreed
<1>2. CASE asyncns_free \/ TerminateSent
  <2>1. /\ UNCHANGED <<queries, responses, worker>>
        /\ requests' = requests \/ requests' = Append(requests, TERMINATE)
    BY <1>2 DEF asyncns_free, TerminateSent, tableVars
  <2>2. ASSUME NEW k \in 1 .. Len(requests')
        PROVE  requests'[k] = TERMINATE \/ (k \in 1 .. Len(requests) /\ requests'[k] = requests[k])
    BY <1>1, <2>1, MessageTypes DEF OtherTypes
  <2>3. ASSUME NEW p \in Places'
        PROVE  p \in Places /\ Same(At(p)', At(p)) /\ Kept(At(p)'.id % MaxQueries)
    <3>1. ASSUME NEW k, p = <<"request", k>>
          PROVE  p \in Places /\ At(p)' = At(p)
      <4>1. k \in 1 .. Len(requests') /\ Asked(requests'[k])
        BY <3>1, PlaceCases
      <4>2. requests'[k] # TERMINATE
        BY <4>1 DEF Asked, TERMINATE
      <4>3. k \in 1 .. Len(requests) /\ requests'[k] = requests[k]
        BY <2>2, <4>1, <4>2
      <4> QED BY <3>1, <4>1, <4>3, PlaceCases, AtCases
    <3>2. ASSUME p[1] # "request"
          PROVE  p \in Places /\ At(p)' = At(p)
      <4>1. p[1] # "call"
        BY <1>1, PlaceCases
      <4> QED BY <2>1, <3>2, <4>1, PlaceStays
    <3>3. p \in Places /\ At(p)' = At(p)
      <4>1. p[1] = "request" => \E k : p = <<"request", k>>
        BY PlaceCases
      <4> QED BY <3>1, <3>2, <4>1
    <3> QED BY <2>1, <3>3 DEF Same, Kept
  <2>4. Flight'
    BY <1>1, <2>3, Dropped
  <2>5. MessageKinds'
    BY <1>1, <2>1, <2>2 DEF MessageKinds, TERMINATE
  <2> QED BY <1>1, <2>1, <2>4, <2>5 DEF AnswersOwn, AssertionsHold
<1>3. CASE SessionFreed
  <2>1. Places' = {}
    <3>1. /\ requests' = <<>> /\ responses' = <<>>
          /\ \A w \in Workers : worker'[w].op # "busy"
      BY <1>3 DEF SessionFreed, Gone
    <3> QED BY <1>1, <3>1 DEF Places
  <2>2. Flight'
    BY <2>1 DEF Flight
  <2>3. MessageKinds'
    BY <1>1, <1>3 DEF SessionFreed, MessageKinds, Gone
  <2>4. AnswersOwn' /\ AssertionsHold'
    BY <1>1, <1>3 DEF SessionFreed, AnswersOwn, NoQuery, AssertionsHold
  <2> QED BY <2>2, <2>3, <2>4
<1> QED BY <1>2, <1>3

LEMMA InitAnswers == Init => AnswersInv
<1> SUFFICES ASSUME Init PROVE AnswersInv
  OBVIOUS
<1>1. Places = {}
  BY CallTypes DEF Init, Places, Idle
<1>2. MessageKinds
  BY CallTypes DEF Init, MessageKinds, Idle
<1>3. AnswersOwn /\ AssertionsHold
  BY DEF Init, asyncns_new, NoQuery, AnswersOwn, AssertionsHold
<1> QED BY <1>1, <1>2, <1>3, InitInv DEF AnswersInv, Flight

LEMMA NextAnswers ==
  ASSUME ~ CancelsPending
  PROVE  AnswersInv /\ [Next]_vars => AnswersInv'
<1> SUFFICES ASSUME AnswersInv, [Next]_vars PROVE AnswersInv'
  OBVIOUS
<1>1. Inv'
  BY NextInv DEF AnswersInv
<1>2. CASE UNCHANGED vars
  <2>1. UNCHANGED <<queries, requests, responses, worker, call, aborted>>
    BY <1>2 DEF vars, tableVars
  <2>2. ASSUME NEW p \in Places'
        PROVE  p \in Places /\ Same(At(p)', At(p)) /\ Kept(At(p)'.id % MaxQueries)
    BY <2>1, PlaceStays DEF Same, Kept
  <2>3. Flight'
    BY <2>2, Dropped DEF AnswersInv
  <2> QED BY <1>1, <2>1, <2>3 DEF AnswersInv, MessageKinds, AnswersOwn, AssertionsHold
<1>3. CASE asyncns_getaddrinfo \/ asyncns_getnameinfo \/ asyncns_res
  <2>1. \E type \in Requests : asyncns_query(type)
    BY <1>3 DEF asyncns_getaddrinfo, asyncns_getnameinfo, asyncns_res, Requests
  <2> QED BY <1>1, <2>1, IssueAnswers DEF AnswersInv
<1>4. ASSUME NEW i \in Slots,
             \/ asyncns_getaddrinfo_done(i) \/ asyncns_getnameinfo_done(i)
             \/ asyncns_res_done(i) \/ asyncns_cancel(i)
      PROVE  AnswersInv'
  <2>1. /\ Used(i) /\ queries[i].done /\ call = NoCall /\ Destroy(i)
        /\ UNCHANGED <<requests, responses, worker, call, aborted>>
    BY <1>4 DEF asyncns_getaddrinfo_done, asyncns_getnameinfo_done, asyncns_res_done,
       asyncns_cancel, Take
  <2> QED BY <1>1, <2>1, TakeAnswers DEF AnswersInv
<1>5. CASE WaitTurn \/ \E block \in BOOLEAN : asyncns_wait(block)
  BY <1>1, <1>5, WaitAnswers DEF AnswersInv
<1>6. CASE RequestSent
  BY <1>1, <1>6, SentAnswers DEF AnswersInv
<1>7. CASE asyncns_free \/ TerminateSent \/ SessionFreed
  BY <1>1, <1>7, FreeAnswers DEF AnswersInv
<1>8. ASSUME NEW w \in Workers, Worker(w) \/ WorkerFails(w) \/ WorkerCrashes(w)
      PROVE  AnswersInv'
  BY <1>1, <1>8, WorkerAnswers DEF AnswersInv
<1> QED BY <1>2, <1>3, <1>4, <1>5, <1>6, <1>7, <1>8 DEF Next, Caller, Returns

(* A caller that cancels no query before it is done gets from every        *)
(* completed query the answer to the question it was issued with, however  *)
(* many workers answer in whatever order, leave or crash, and however      *)
(* often slots and ids are used again.                                     *)
THEOREM AnswersOwnAlways ==
  ASSUME ~ CancelsPending
  PROVE  Spec => []AnswersOwn
<1>1. AnswersInv /\ [Next]_vars => AnswersInv'
  BY NextAnswers
<1>2. AnswersInv => AnswersOwn
  BY DEF AnswersInv
<1> QED BY <1>1, <1>2, InitAnswers, PTL DEF Spec

(* With such a caller no assertion of handle_response or complete_query    *)
(* ever fails: a response finds its query, of its type and not completed.  *)
THEOREM AssertionsHoldAlways ==
  ASSUME ~ CancelsPending
  PROVE  Spec => []AssertionsHold
<1>1. AnswersInv /\ [Next]_vars => AnswersInv'
  BY NextAnswers
<1>2. AnswersInv => AssertionsHold
  BY DEF AnswersInv
<1> QED BY <1>1, <1>2, InitAnswers, PTL DEF Spec

-----------------------------------------------------------------------------
(* The list of completed queries.  L names the slots in the order of their *)
(* links, n is how many there are.                                         *)

IsList(n, L) ==
  /\ \A k \in 0 .. n - 1 :
       LET q == queries[L[k]]
       IN  /\ q.done
           /\ q.done_next = IF k = n - 1 THEN NIL ELSE L[k + 1]
           /\ q.done_prev = IF k = 0 THEN NIL ELSE L[k - 1]
  /\ \A i \in Slots : queries[i].done => \E k \in 0 .. n - 1 : L[k] = i
  /\ done_head = IF n = 0 THEN NIL ELSE L[0]
  /\ done_tail = IF n = 0 THEN NIL ELSE L[n - 1]

Chains(n) == {L \in [0 .. n - 1 -> Slots] : \A j, k \in 0 .. n - 1 : L[j] = L[k] => j = k}

Increasing(n, L) ==
  \A j, k \in 0 .. n - 1 : j < k => queries[L[j]].serial < queries[L[k]].serial

(* A free slot is not on the list. *)
DoneUsed == \A i \in Slots : queries[i].done => Used(i)

LEMMA CompleteList ==
  ASSUME TableTypes, NEW n \in Nat, NEW L \in Chains(n), IsList(n, L),
         NEW i \in Slots, ~queries[i].done, NEW answer, complete_query(i, answer),
         NEW M, M = [k \in 0 .. n |-> IF k < n THEN L[k] ELSE i]
  PROVE  /\ M \in Chains(n + 1) /\ IsList(n + 1, M)'
         /\ \A k \in 0 .. n - 1 : M[k] = L[k]
<1>1. /\ queries \in [Slots -> Query] /\ L \in [0 .. n - 1 -> Slots] /\ NIL \notin Slots
      /\ \A j, k \in 0 .. n - 1 : L[j] = L[k] => j = k
  BY TableAssumption DEF TableTypes, Chains, Slots, NIL
<1>2. \A k \in 0 .. n - 1 : L[k] # i /\ M[k] = L[k] /\ k \in 0 .. n /\ k + 1 - 1 = k /\ L[k] \in Slots
  BY <1>1 DEF IsList
<1>3. M[n] = i /\ n \in 0 .. n /\ \A k \in 0 .. n : k = n \/ k \in 0 .. n - 1
  OBVIOUS
<1>4. (n + 1) - 1 = n
  OBVIOUS
<1>5. M \in Chains(n + 1)
  <2>1. M \in [0 .. n -> Slots]
    BY <1>1, <1>2, <1>3
  <2>2. \A j, k \in 0 .. n : M[j] = M[k] => j = k
    BY <1>1, <1>2, <1>3
  <2> QED  BY <1>4, <2>1, <2>2 DEF Chains
<1>6. queries'[i].done /\ queries'[i].done_prev = done_tail /\ queries'[i].done_next = NIL
  <2>1. queries'[i] = [queries[i] EXCEPT !.done = TRUE, !.answer = answer,
                                         !.done_prev = done_tail, !.done_next = NIL]
    BY DEF complete_query
  <2>2. queries[i] \in Query
    BY <1>1
  <2> QED  BY <2>1, <2>2 DEF Query
<1>7. ASSUME NEW j \in Slots, j # i
      PROVE  /\ queries'[j].done = queries[j].done /\ queries'[j].done_prev = queries[j].done_prev
             /\ queries'[j].done_next = IF j = done_tail THEN i ELSE queries[j].done_next
  BY <1>1, <1>7 DEF complete_query, Query
<1>8. ASSUME NEW k \in 0 .. n - 1
      PROVE  /\ queries'[L[k]].done
             /\ queries'[L[k]].done_next = M[k + 1]
             /\ queries'[L[k]].done_prev = IF k = 0 THEN NIL ELSE L[k - 1]
  <2>1. queries[L[k]].done /\ queries[L[k]].done_prev = IF k = 0 THEN NIL ELSE L[k - 1]
    BY DEF IsList
  <2>2. CASE k = n - 1
    BY <1>2, <1>3, <1>7, <2>1, <2>2 DEF IsList
  <2>3. CASE k # n - 1
    <3>1. k + 1 \in 0 .. n - 1 /\ n - 1 \in 0 .. n - 1 /\ n # 0
      BY <2>3
    <3>2. L[k] # done_tail /\ queries[L[k]].done_next = L[k + 1]
      BY <1>1, <2>3, <3>1 DEF IsList
    <3> QED  BY <1>2, <1>7, <2>1, <3>1, <3>2
  <2> QED  BY <2>2, <2>3
<1>9. IsList(n + 1, M)'
  <2>1. ASSUME NEW k \in 0 .. n
        PROVE  /\ queries'[M[k]].done
               /\ queries'[M[k]].done_next = IF k = n THEN NIL ELSE M[k + 1]
               /\ queries'[M[k]].done_prev = IF k = 0 THEN NIL ELSE M[k - 1]
    <3>1. CASE k = n
      <4>1. done_tail = IF n = 0 THEN NIL ELSE M[n - 1]
        <5>1. n # 0 => n - 1 \in 0 .. n - 1
          OBVIOUS
        <5> QED  BY <1>2, <5>1 DEF IsList
      <4> QED  BY <1>3, <1>6, <3>1, <4>1
    <3>2. CASE k \in 0 .. n - 1
      <4>1. k # n /\ (k # 0 => k - 1 \in 0 .. n - 1)
        BY <3>2
      <4> QED  BY <1>2, <1>8, <3>2, <4>1
    <3> QED  BY <1>3, <3>1, <3>2
  <2>2. ASSUME NEW j \in Slots, queries'[j].done PROVE \E k \in 0 .. n : M[k] = j
    <3>1. CASE j = i
      BY <1>3, <3>1
    <3>2. CASE j # i
      <4>1. PICK k \in 0 .. n - 1 : L[k] = j
        BY <1>7, <2>2, <3>2 DEF IsList
      <4> QED  BY <1>2, <4>1
    <3> QED  BY <3>1, <3>2
  <2>3. done_head' = M[0] /\ done_tail' = M[n] /\ n + 1 # 0
    <3>1. n = 0 => M[0] = i
      BY <1>3
    <3>2. n # 0 => 0 \in 0 .. n - 1 /\ n - 1 \in 0 .. n - 1 /\ done_head = L[0] /\ done_tail # NIL
      BY <1>1 DEF IsList
    <3>3. n = 0 => done_tail = NIL
      BY DEF IsList
    <3> QED  BY <1>2, <1>3, <3>1, <3>2, <3>3 DEF complete_query
  <2> QED  BY <1>4, <2>1, <2>2, <2>3 DEF IsList
<1> QED  BY <1>2, <1>5, <1>9

(* The list without its p-th query. *)
Without(n, L, p) == [k \in 0 .. n - 2 |-> IF k < p THEN L[k] ELSE L[k + 1]]

LEMMA WithoutChain ==
  ASSUME NEW n \in Nat, NEW L \in Chains(n), NEW p \in 0 .. n - 1
  PROVE  /\ Without(n, L, p) \in Chains(n - 1)
         /\ \A k \in 0 .. n - 2 : \E j \in 0 .. n - 1 : j # p /\ Without(n, L, p)[k] = L[j]
<1> DEFINE M == Without(n, L, p)
<1>1. L \in [0 .. n - 1 -> Slots] /\ \A j, k \in 0 .. n - 1 : L[j] = L[k] => j = k
  BY DEF Chains
<1>2. ASSUME NEW k \in 0 .. n - 2
      PROVE  /\ k \in 0 .. n - 1 /\ k + 1 \in 0 .. n - 1
             /\ M[k] = IF k < p THEN L[k] ELSE L[k + 1]
  BY DEF Without
<1>3. M \in [0 .. n - 2 -> Slots]
  BY <1>1, <1>2 DEF Without
<1> HIDE DEF M
<1>4. \A j, k \in 0 .. n - 2 : M[j] = M[k] => j = k
  BY <1>1, <1>2
<1>5. \A k \in 0 .. n - 2 : \E j \in 0 .. n - 1 : j # p /\ M[k] = L[j]
  BY <1>2
<1>6. (n - 1) - 1 = n - 2
  OBVIOUS
<1> QED  BY <1>3, <1>4, <1>5, <1>6 DEF M, Chains

LEMMA DestroyList ==
  ASSUME TableTypes, NEW n \in Nat, NEW L \in Chains(n), IsList(n, L),
         NEW p \in 0 .. n - 1, Destroy(L[p])
  PROVE  IsList(n - 1, Without(n, L, p))'
<1> DEFINE M == Without(n, L, p)
           i == L[p]
           q == queries[i]
<1>1. /\ queries \in [Slots -> Query] /\ L \in [0 .. n - 1 -> Slots] /\ NIL \notin Slots
      /\ \A j, k \in 0 .. n - 1 : L[j] = L[k] => j = k
  BY TableAssumption DEF TableTypes, Chains, Slots, NIL
<1>2. /\ i \in Slots /\ q.done
      /\ q.done_next = IF p = n - 1 THEN NIL ELSE L[p + 1]
      /\ q.done_prev = IF p = 0 THEN NIL ELSE L[p - 1]
  BY <1>1 DEF IsList
<1>3. \A k \in 0 .. n - 2 :
        /\ k \in 0 .. n - 1 /\ k + 1 \in 0 .. n - 1
        /\ M[k] = IF k < p THEN L[k] ELSE L[k + 1]
  BY DEF Without
<1>4. ~queries'[i].done
  BY <1>1 DEF Destroy, Unlinked, NoQuery
<1>5. ASSUME NEW j \in Slots, j # i
      PROVE  /\ queries'[j].done = queries[j].done
             /\ queries'[j].done_next = IF j = q.done_prev THEN q.done_next ELSE queries[j].done_next
             /\ queries'[j].done_prev = IF j = q.done_next THEN q.done_prev ELSE queries[j].done_prev
  <2>1. queries[j] \in Query
    BY <1>1
  <2>2. queries'[j] = [queries[j] EXCEPT !.done_next = IF j = q.done_prev THEN q.done_next ELSE @,
                                         !.done_prev = IF j = q.done_next THEN q.done_prev ELSE @]
    BY <1>2, <1>5 DEF Destroy, Unlinked
  <2> HIDE DEF q
  <2> QED  BY <2>1, <2>2 DEF Query
<1>6. ASSUME NEW k \in 0 .. n - 1, k # p
      PROVE  /\ queries'[L[k]].done
             /\ queries'[L[k]].done_next = IF k + 1 = p THEN q.done_next
                                           ELSE IF k = n - 1 THEN NIL ELSE L[k + 1]
             /\ queries'[L[k]].done_prev = IF k = p + 1 THEN q.done_prev
                                           ELSE IF k = 0 THEN NIL ELSE L[k - 1]
  <2>1. L[k] \in Slots /\ L[k] # i
    BY <1>1, <1>6
  <2>2. /\ queries[L[k]].done
        /\ queries[L[k]].done_next = IF k = n - 1 THEN NIL ELSE L[k + 1]
        /\ queries[L[k]].done_prev = IF k = 0 THEN NIL ELSE L[k - 1]
    BY DEF IsList
  <2>3. L[k] = q.done_prev <=> k + 1 = p
    <3>1. p # 0 => p - 1 \in 0 .. n - 1
      OBVIOUS
    <3> HIDE DEF q
    <3> QED  BY <1>1, <1>2, <2>1, <3>1
  <2>4. L[k] = q.done_next <=> k = p + 1
    <3>1. p # n - 1 => p + 1 \in 0 .. n - 1
      OBVIOUS
    <3> HIDE DEF q
    <3> QED  BY <1>1, <1>2, <2>1, <3>1
  <2> HIDE DEF q, i
  <2> QED  BY <1>5, <2>1, <2>2, <2>3, <2>4
<1> HIDE DEF q, M
<1>7. ASSUME NEW k \in 0 .. n - 2
      PROVE  /\ queries'[M[k]].done
             /\ queries'[M[k]].done_next = IF k = n - 2 THEN NIL ELSE M[k + 1]
             /\ queries'[M[k]].done_prev = IF k = 0 THEN NIL ELSE M[k - 1]
  <2>1. k # n - 2 => k + 1 \in 0 .. n - 2
    OBVIOUS
  <2>2. k # 0 => k - 1 \in 0 .. n - 2
    OBVIOUS
  <2>3. CASE k < p
    <3>1. M[k] = L[k] /\ k # p /\ k \in 0 .. n - 1 /\ k # n - 1 /\ k # p + 1
      BY <1>3, <2>3
    <3>2. k # 0 => M[k - 1] = L[k - 1]
      BY <1>3, <2>2, <2>3
    <3>3. CASE k + 1 = p
      <4>1. k # n - 2 => M[k + 1] = L[p + 1]
        BY <1>3, <2>1, <3>3
      <4>2. k = n - 2 <=> p = n - 1
        BY <3>3
      <4> QED  BY <1>2, <1>6, <3>1, <3>2, <3>3, <4>1, <4>2
    <3>4. CASE k + 1 # p
      <4>1. k + 1 < p
        BY <2>3, <3>4
      <4>2. k # n - 2 /\ M[k + 1] = L[k + 1]
        BY <1>3, <2>1, <4>1
      <4> QED  BY <1>6, <3>1, <3>2, <3>4, <4>2
    <3> QED  BY <3>3, <3>4
  <2>4. CASE ~(k < p)
    <3>1. M[k] = L[k + 1] /\ k + 1 # p /\ k + 1 \in 0 .. n - 1 /\ (k + 1) + 1 # p /\ k + 1 # 0
      BY <1>3, <2>4
    <3>2. k # n - 2 => M[k + 1] = L[(k + 1) + 1]
      BY <1>3, <2>1, <2>4
    <3>3. k = n - 2 <=> k + 1 = n - 1
      OBVIOUS
    <3>4. k + 1 = p + 1 => k = p /\ (k # 0 => M[k - 1] = L[p - 1])
      <4>1. CASE k = p /\ k # 0
        <5>1. k - 1 < p /\ k - 1 \in 0 .. n - 2
          BY <2>2, <4>1
        <5>2. M[k - 1] = L[k - 1]
          BY <1>3, <5>1
        <5> QED  BY <4>1, <5>2
      <4> QED  BY <4>1
    <3>5. k + 1 # p + 1 => k # 0 /\ M[k - 1] = L[(k + 1) - 1]
      <4>1. CASE k # p
        <5>1. k # 0 /\ k - 1 \in 0 .. n - 2 /\ ~(k - 1 < p) /\ (k - 1) + 1 = (k + 1) - 1
          BY <2>2, <2>4, <4>1
        <5> QED  BY <1>3, <5>1
      <4> QED  BY <4>1
    <3> QED  BY <1>2, <1>6, <3>1, <3>2, <3>3, <3>4, <3>5
  <2> QED  BY <2>3, <2>4
<1>8. ASSUME NEW j \in Slots, queries'[j].done
      PROVE  \E k \in 0 .. n - 2 : M[k] = j
  <2>1. j # i /\ queries[j].done
    BY <1>4, <1>5, <1>8
  <2>2. PICK k \in 0 .. n - 1 : L[k] = j
    BY <2>1 DEF IsList
  <2>3. k # p
    BY <2>1, <2>2
  <2>4. CASE k < p
    <3>1. k \in 0 .. n - 2
      BY <2>4
    <3> QED  BY <1>3, <2>2, <2>4, <3>1
  <2>5. CASE k > p
    <3>1. k - 1 \in 0 .. n - 2 /\ ~(k - 1 < p) /\ (k - 1) + 1 = k
      BY <2>5
    <3> QED  BY <1>3, <2>2, <3>1
  <2> QED  BY <2>3, <2>4, <2>5
<1>9. /\ done_head' = IF n - 1 = 0 THEN NIL ELSE M[0]
      /\ done_tail' = IF n - 1 = 0 THEN NIL ELSE M[n - 2]
  <2>1. /\ done_head' = IF q.done_prev = NIL THEN q.done_next ELSE done_head
        /\ done_tail' = IF q.done_next = NIL THEN q.done_prev ELSE done_tail
    BY <1>2 DEF Destroy, q
  <2>2. n # 0 /\ done_head = L[0] /\ done_tail = L[n - 1]
    BY DEF IsList
  <2>3. (q.done_prev = NIL <=> p = 0) /\ (q.done_next = NIL <=> p = n - 1)
    <3>1. p # 0 => p - 1 \in 0 .. n - 1
      OBVIOUS
    <3>2. p # n - 1 => p + 1 \in 0 .. n - 1
      OBVIOUS
    <3> QED  BY <1>1, <1>2, <3>1, <3>2
  <2>4. n - 1 # 0 => 0 \in 0 .. n - 2 /\ n - 2 \in 0 .. n - 2 /\ (n - 2) + 1 = n - 1
    BY <2>2
  <2>5. done_head' = IF n - 1 = 0 THEN NIL ELSE M[0]
    <3>1. CASE p = 0
      BY <1>2, <1>3, <2>1, <2>3, <2>4, <3>1
    <3>2. CASE p # 0
      <4>1. n - 1 # 0 /\ 0 < p
        BY <3>2
      <4> QED  BY <1>3, <2>1, <2>2, <2>3, <2>4, <3>2, <4>1
    <3> QED  BY <3>1, <3>2
  <2>6. done_tail' = IF n - 1 = 0 THEN NIL ELSE M[n - 2]
    <3>1. CASE p = n - 1
      <4>1. n - 1 # 0 => n - 2 < p /\ p - 1 = n - 2 /\ p # 0
        BY <3>1
      <4>2. n - 1 # 0 => M[n - 2] = L[n - 2]
        BY <1>3, <2>4, <4>1
      <4> QED  BY <1>2, <2>1, <2>3, <3>1, <4>1, <4>2
    <3>2. CASE p # n - 1
      <4>1. n - 1 # 0 /\ ~(n - 2 < p)
        BY <3>2
      <4>2. M[n - 2] = L[n - 1]
        BY <1>3, <2>4, <4>1
      <4> QED  BY <2>1, <2>2, <2>3, <3>2, <4>1, <4>2
    <3> QED  BY <3>1, <3>2
  <2> QED  BY <2>5, <2>6
<1>10. (n - 1) - 1 = n - 2
  OBVIOUS
<1> QED  BY <1>7, <1>8, <1>9, <1>10 DEF IsList, M

(* The list, and where it is asked for its order too. *)
ListOf(ordered) ==
  \E n \in Nat : \E L \in Chains(n) : IsList(n, L) /\ (ordered => Increasing(n, L))

LEMMA ListSame ==
  ASSUME NEW ordered, ListOf(ordered), DoneUsed, UNCHANGED <<queries, done_head, done_tail>>
  PROVE  ListOf(ordered)' /\ DoneUsed'
<1>1. PICK n \in Nat : \E L \in Chains(n) : IsList(n, L) /\ (ordered => Increasing(n, L))
  BY DEF ListOf
<1>2. PICK L \in Chains(n) : IsList(n, L) /\ (ordered => Increasing(n, L))
  BY <1>1
<1>3. IsList(n, L)' /\ (ordered => Increasing(n, L)')
  BY <1>2 DEF IsList, Increasing
<1>4. DoneUsed'
  BY DEF DoneUsed, Used
<1> QED  BY <1>3, <1>4 DEF ListOf

LEMMA ListIssued ==
  ASSUME TableTypes, NEW ordered, ListOf(ordered), DoneUsed,
         NEW i \in Slots, ~Used(i), NEW q, q.done = FALSE,
         queries' = [queries EXCEPT ![i] = q], UNCHANGED <<done_head, done_tail>>
  PROVE  ListOf(ordered)' /\ DoneUsed'
<1>1. PICK n \in Nat : \E L \in Chains(n) : IsList(n, L) /\ (ordered => Increasing(n, L))
  BY DEF ListOf
<1>2. PICK L \in Chains(n) : IsList(n, L) /\ (ordered => Increasing(n, L))
  BY <1>1
<1>3. queries'[i].done = FALSE /\ \A j \in Slots : j # i => queries'[j] = queries[j]
  BY DEF TableTypes
<1>4. \A k \in 0 .. n - 1 : queries'[L[k]] = queries[L[k]] /\ queries[L[k]].done
  <2> SUFFICES ASSUME NEW k \in 0 .. n - 1
               PROVE  queries'[L[k]] = queries[L[k]] /\ queries[L[k]].done
    OBVIOUS
  <2>1. L[k] \in Slots /\ queries[L[k]].done
    BY <1>2 DEF Chains, IsList
  <2>2. L[k] # i
    BY <2>1 DEF DoneUsed
  <2> QED  BY <1>3, <2>1, <2>2
<1>5. \A j \in Slots : queries'[j].done => queries[j].done /\ j # i
  BY <1>3
<1>6. IsList(n, L)'
  BY <1>2, <1>4, <1>5 DEF IsList
<1>7. ordered => Increasing(n, L)'
  BY <1>2, <1>4 DEF Increasing
<1>8. DoneUsed'
  BY <1>3, <1>5 DEF DoneUsed, Used
<1> QED  BY <1>6, <1>7, <1>8 DEF ListOf

LEMMA ListDestroyed ==
  ASSUME Inv, NEW ordered, ListOf(ordered), DoneUsed, NEW i \in UsedSlots, Destroy(i)
  PROVE  ListOf(ordered)' /\ DoneUsed'
<1>1. PICK n \in Nat : \E L \in Chains(n) : IsList(n, L) /\ (ordered => Increasing(n, L))
  BY DEF ListOf
<1>2. PICK L \in Chains(n) : IsList(n, L) /\ (ordered => Increasing(n, L))
  BY <1>1
<1>3. TableTypes /\ i \in Slots /\ L \in [0 .. n - 1 -> Slots] /\ queries \in [Slots -> Query]
  BY <1>2, InvSplit DEF Chains, TableTypes, UsedSlots
<1>4. \A j \in Slots : j # i => Kept(j)
  BY DestroyKeeps
<1>5. ~queries'[i].done
  BY DestroyKeeps
<1>6. DoneUsed'
  BY <1>4, <1>5 DEF DoneUsed, Used, Kept
<1>7. CASE queries[i].done
  <2>1. PICK p \in 0 .. n - 1 : L[p] = i
    BY <1>2, <1>3, <1>7 DEF IsList
  <2> DEFINE M == Without(n, L, p)
  <2>2. IsList(n - 1, M)'
    BY <1>2, <1>3, <2>1, DestroyList
  <2>3. M \in Chains(n - 1)
    BY <1>2, <2>1, WithoutChain
  <2>4. n - 1 \in Nat /\ (n - 1) - 1 = n - 2
    BY <2>1
  <2>5. ASSUME Increasing(n, L) PROVE Increasing(n - 1, M)'
    <3>1. \A j, k \in 0 .. n - 1 : L[j] = L[k] => j = k
      BY <1>2 DEF Chains
    <3>2. ASSUME NEW k \in 0 .. n - 1, k # p PROVE queries'[L[k]].serial = queries[L[k]].serial
      <4>1. L[k] \in Slots /\ L[k] # i
        BY <1>3, <2>1, <3>1, <3>2
      <4> QED  BY <1>4, <4>1 DEF Kept
    <3>3. ASSUME NEW j \in 0 .. n - 2, NEW k \in 0 .. n - 2, j < k
          PROVE  queries'[M[j]].serial < queries'[M[k]].serial
      <4>1. PICK a \in 0 .. n - 1 : a = IF j < p THEN j ELSE j + 1
        OBVIOUS
      <4>2. PICK b \in 0 .. n - 1 : b = IF k < p THEN k ELSE k + 1
        OBVIOUS
      <4>3. a < b /\ a # p /\ b # p /\ M[j] = L[a] /\ M[k] = L[b]
        BY <3>3, <4>1, <4>2 DEF Without
      <4>4. queries[L[a]].serial < queries[L[b]].serial
        BY <2>5, <4>3 DEF Increasing
      <4> HIDE DEF M
      <4> QED  BY <3>2, <4>3, <4>4
    <3> HIDE DEF M
    <3> QED  BY <2>4, <3>3 DEF Increasing
  <2> HIDE DEF M
  <2> QED  BY <1>2, <1>6, <2>2, <2>3, <2>4, <2>5 DEF ListOf
<1>8. CASE ~queries[i].done
  <2>1. UNCHANGED <<done_head, done_tail>> /\ \A j \in Slots : j # i => queries'[j] = queries[j]
    BY <1>8 DEF Destroy, Unlinked
  <2>2. \A k \in 0 .. n - 1 : queries'[L[k]] = queries[L[k]]
    BY <1>2, <1>3, <1>8, <2>1 DEF IsList
  <2>3. IsList(n, L)'
    BY <1>2, <1>5, <2>1, <2>2 DEF IsList
  <2>4. ordered => Increasing(n, L)'
    BY <1>2, <2>2 DEF Increasing
  <2> QED  BY <1>6, <2>3, <2>4 DEF ListOf
<1> QED  BY <1>7, <1>8

LEMMA ListCompleted ==
  ASSUME Inv, NEW ordered, ListOf(ordered), DoneUsed, NEW i \in UsedSlots, ~queries[i].done,
         NEW answer \in 0 .. MaxIssues, complete_query(i, answer),
         ordered => \A j \in Slots : queries[j].done => queries[j].serial < queries[i].serial
  PROVE  ListOf(ordered)' /\ DoneUsed'
<1>1. PICK n \in Nat : \E L \in Chains(n) : IsList(n, L) /\ (ordered => Increasing(n, L))
  BY DEF ListOf
<1>2. PICK L \in Chains(n) : IsList(n, L) /\ (ordered => Increasing(n, L))
  BY <1>1
<1>3. TableTypes /\ i \in Slots /\ L \in [0 .. n - 1 -> Slots]
  BY <1>2, InvSplit DEF Chains, UsedSlots
<1>0. PICK M : M = [k \in 0 .. n |-> IF k < n THEN L[k] ELSE i]
  OBVIOUS
<1>4. M \in Chains(n + 1) /\ IsList(n + 1, M)' /\ \A k \in 0 .. n - 1 : M[k] = L[k]
  BY <1>0, <1>2, <1>3, CompleteList
<1>5. M[n] = i /\ n + 1 \in Nat /\ (n + 1) - 1 = n
  BY <1>0
<1>6. \A j \in Slots : queries'[j].serial = queries[j].serial
  BY CompleteKeeps DEF Kept
<1>7. DoneUsed'
  <2>1. \A j \in Slots : j # i => queries'[j].done = queries[j].done
    BY CompleteKeeps DEF Kept
  <2>2. UsedSlots' = UsedSlots
    BY CompleteTable
  <2> QED  BY <2>1, <2>2 DEF DoneUsed, UsedSlots
<1>8. ordered => Increasing(n + 1, M)'
  <2> SUFFICES ASSUME ordered, NEW j \in 0 .. n, NEW k \in 0 .. n, j < k
               PROVE  queries'[M[j]].serial < queries'[M[k]].serial
    BY <1>5 DEF Increasing
  <2>1. j \in 0 .. n - 1 /\ M[j] = L[j] /\ L[j] \in Slots /\ queries[L[j]].done
    BY <1>2, <1>3, <1>4 DEF IsList
  <2>2. CASE k = n
    BY <1>3, <1>5, <1>6, <2>1, <2>2
  <2>3. CASE k # n
    <3>1. k \in 0 .. n - 1 /\ M[k] = L[k] /\ L[k] \in Slots
      BY <1>3, <1>4, <2>3
    <3> QED  BY <1>2, <1>6, <2>1, <3>1 DEF Increasing
  <2> QED  BY <2>2, <2>3
<1> QED  BY <1>4, <1>5, <1>7, <1>8 DEF ListOf

LEMMA ListInit == ASSUME NEW ordered, Init PROVE ListOf(ordered) /\ DoneUsed
<1>1. /\ \A i \in Slots : queries[i].done = FALSE
      /\ done_head = NIL /\ done_tail = NIL
  BY DEF Init, asyncns_new, NoQuery
<1>2. 0 .. 0 - 1 = {}
  OBVIOUS
<1> DEFINE L == [k \in 0 .. 0 - 1 |-> 0]
<1>3. L \in Chains(0) /\ IsList(0, L) /\ Increasing(0, L)
  BY <1>1, <1>2 DEF Chains, IsList, Increasing
<1>4. 0 \in Nat
  OBVIOUS
<1> HIDE DEF L
<1> QED  BY <1>1, <1>3, <1>4 DEF ListOf, DoneUsed

(* A response completes a query that was issued after every query that is  *)
(* on the list.                                                            *)
NextInOrder ==
  call.op = "wait" /\ responses # <<>> =>
    \A i \in lookup_query(Head(responses).id) :
      Expected(i, Head(responses)) =>
        \A j \in Slots : queries[j].done => queries[j].serial < queries[i].serial

LEMMA ListNext ==
  ASSUME Inv, NEW ordered, ListOf(ordered), DoneUsed, [Next]_vars, ordered => NextInOrder
  PROVE  ListOf(ordered)' /\ DoneUsed'
<1>1. TableTypes /\ TypeOK /\ call \in Calls
  BY InvSplit DEF Inv
<1>2. CASE UNCHANGED <<queries, done_head, done_tail>>
  BY <1>2, ListSame
<1>3. ASSUME NEW type \in Requests, asyncns_query(type)
      PROVE  ListOf(ordered)' /\ DoneUsed'
  <2>1. PICK d \in 0 .. MaxQueries - 1 :
          /\ NextFree(d) /\ current_index' = SlotAfter(d) /\ UNCHANGED <<done_head, done_tail>>
          /\ \/ UNCHANGED queries
             \/ queries' = [queries EXCEPT ![SlotAfter(d)] = NewQuery(type, IdAfter(d))]
    BY <1>3 DEF asyncns_query
  <2>2. SlotAfter(d) \in Slots /\ ~Used(SlotAfter(d))
    <3>1. Inv'
      BY NextInv
    <3> QED  BY <2>1, <3>1 DEF Inv, TypeOK, NextFree
  <2>3. NewQuery(type, IdAfter(d)).done = FALSE
    BY DEF NewQuery, NoQuery
  <2>4. CASE UNCHANGED queries
    BY <1>2, <2>1, <2>4
  <2>5. CASE queries' = [queries EXCEPT ![SlotAfter(d)] = NewQuery(type, IdAfter(d))]
    BY <1>1, <2>1, <2>2, <2>3, <2>5, ListIssued
  <2> QED  BY <2>1, <2>4, <2>5
<1>4. ASSUME NEW i \in Slots,
             \/ asyncns_getaddrinfo_done(i) \/ asyncns_getnameinfo_done(i)
             \/ asyncns_res_done(i) \/ asyncns_cancel(i)
      PROVE  ListOf(ordered)' /\ DoneUsed'
  <2>1. Destroy(i) /\ i \in UsedSlots
    BY <1>4 DEF asyncns_getaddrinfo_done, asyncns_getnameinfo_done, asyncns_res_done,
       asyncns_cancel, Take, UsedSlots
  <2> QED  BY <2>1, ListDestroyed
<1>5. CASE RequestSent
  <2>1. call.slot \in UsedSlots
    BY <1>1, <1>5, InvSplit, CallFields DEF RequestSent, SendingUsed, UsedSlots
  <2>2. UNCHANGED tableVars \/ Destroy(call.slot)
    BY <1>5 DEF RequestSent
  <2> QED  BY <1>2, <2>1, <2>2, ListDestroyed DEF tableVars
<1>6. CASE WaitTurn
  <2>1. CASE UNCHANGED tableVars
    BY <1>2, <2>1 DEF tableVars
  <2>2. CASE responses # <<>> /\ handle_response(Head(responses))
    <3>1. Head(responses) \in Message
      BY <1>1, <2>2 DEF TypeOK
    <3>2. ASSUME NEW i \in lookup_query(Head(responses).id),
                 Expected(i, Head(responses)), complete_query(i, Head(responses).serial)
          PROVE  ListOf(ordered)' /\ DoneUsed'
      <4>1. i \in UsedSlots /\ ~queries[i].done /\ Head(responses).serial \in 0 .. MaxIssues
        BY <1>1, <3>1, <3>2, ResponseSlot DEF Expected, Message
      <4>2. call.op = "wait"
        BY <1>6 DEF WaitTurn
      <4>3. ordered => \A j \in Slots : queries[j].done => queries[j].serial < queries[i].serial
        BY <2>2, <3>2, <4>2 DEF NextInOrder
      <4> QED  BY <3>2, <4>1, <4>3, ListCompleted
    <3> QED  BY <1>2, <2>2, <3>2 DEF handle_response, tableVars
  <2> QED  BY <1>6, <2>1, <2>2 DEF WaitTurn
<1>7. CASE SessionFreed
  <2>1. /\ \A i \in Slots : queries'[i].done = FALSE
        /\ done_head' = NIL /\ done_tail' = NIL
    BY <1>7 DEF SessionFreed, NoQuery
  <2>2. 0 .. 0 - 1 = {}
    OBVIOUS
  <2> DEFINE L == [k \in 0 .. 0 - 1 |-> 0]
  <2>3. L \in Chains(0) /\ IsList(0, L)' /\ Increasing(0, L)'
    BY <2>1, <2>2 DEF Chains, IsList, Increasing
  <2>4. 0 \in Nat
    OBVIOUS
  <2> HIDE DEF L
  <2> QED  BY <2>1, <2>3, <2>4 DEF ListOf, DoneUsed
<1>8. CASE UNCHANGED vars
  BY <1>2, <1>8 DEF vars, tableVars
<1>9. CASE asyncns_getaddrinfo \/ asyncns_getnameinfo \/ asyncns_res
  <2>1. \E type \in Requests : asyncns_query(type)
    BY <1>9 DEF asyncns_getaddrinfo, asyncns_getnameinfo, asyncns_res, Requests
  <2> QED  BY <1>3, <2>1
<1>10. CASE (\E block \in BOOLEAN : asyncns_wait(block)) \/ asyncns_free \/ TerminateSent
  BY <1>2, <1>10 DEF asyncns_wait, asyncns_free, TerminateSent, tableVars
<1>11. ASSUME NEW w \in Workers, Worker(w) \/ WorkerFails(w) \/ WorkerCrashes(w)
       PROVE  ListOf(ordered)' /\ DoneUsed'
  BY <1>2, <1>11 DEF Worker, WorkerReceives, handle_request, send_died, WorkerFails, WorkerCrashes, tableVars
<1> QED  BY <1>4, <1>5, <1>6, <1>7, <1>8, <1>9, <1>10, <1>11 DEF Next, Caller, Returns

-----------------------------------------------------------------------------
(* What following the links finds.  Induction over the number of links, by *)
(* the least number for which it would be wrong.                           *)

LEMMA LeastOf ==
  ASSUME NEW T, T \subseteq Nat, T # {}
  PROVE  \E n \in T : \A m \in T : n <= m
<1>1. \E x \in T : \A y \in T : ~ (<<y, x>> \in OpToRel(<, Nat))
  BY NatLessThanWellFounded, WFMin
<1>2. PICK x \in T : \A y \in T : ~ (<<y, x>> \in OpToRel(<, Nat))
  BY <1>1
<1>3. ASSUME NEW y \in T PROVE x <= y
  <2>1. ~ (<<y, x>> \in OpToRel(<, Nat))
    BY <1>2
  <2>2. ~(y < x)
    BY <2>1 DEF OpToRel
  <2> QED  BY <2>2
<1> QED  BY <1>3

LEMMA Followed ==
  ASSUME NEW F, NEW G, NEW m \in Nat, F[0] = G[0],
         \A k \in 1 .. m : F[k - 1] = G[k - 1] => F[k] = G[k]
  PROVE  \A k \in 0 .. m : F[k] = G[k]
<1> DEFINE T == {k \in 0 .. m : F[k] # G[k]}
<1> SUFFICES ASSUME T # {} PROVE FALSE
  OBVIOUS
<1>1. PICK least \in T : \A k \in T : least <= k
  <2>1. T \subseteq Nat
    OBVIOUS
  <2> QED  BY <2>1, LeastOf
<1>2. least \in 1 .. m /\ least - 1 \in 0 .. m
  BY <1>1
<1>3. F[least - 1] = G[least - 1]
  BY <1>1, <1>2
<1> QED  BY <1>1, <1>2, <1>3

LEMMA ChainLength ==
  ASSUME NEW n \in Nat, NEW L \in Chains(n), IsList(n, L)
  PROVE  /\ Completed = {L[k] : k \in 0 .. n - 1}
         /\ Cardinality(Completed) = n /\ n <= MaxQueries
<1>1. L \in [0 .. n - 1 -> Slots] /\ \A j, k \in 0 .. n - 1 : L[j] = L[k] => j = k
  BY DEF Chains
<1>2. Completed = {L[k] : k \in 0 .. n - 1}
  BY <1>1 DEF Completed, IsList
<1>3. IsFiniteSet(0 .. n - 1) /\ Cardinality(0 .. n - 1) = n
  <2>1. 0 \in Int /\ n - 1 \in Int
    OBVIOUS
  <2>2. n = (n - 1) - 0 + 1 /\ (0 > n - 1 <=> n = 0)
    OBVIOUS
  <2> QED  BY <2>1, <2>2, FS_Interval
<1>4. Cardinality(Completed) = n
  <2>1. ExistsBijection(0 .. n - 1, Completed)
    <3>1. L \in [0 .. n - 1 -> Completed]
      BY <1>1, <1>2
    <3>2. \A y \in Completed : \E k \in 0 .. n - 1 : L[k] = y
      BY <1>2
    <3>3. DOMAIN L = 0 .. n - 1
      BY <1>1
    <3> QED
      BY <1>1, <3>1, <3>2, <3>3 DEF ExistsBijection, Bijection, Injection, Surjection, IsInjective
  <2> QED  BY <1>3, <2>1, FS_Bijection
<1>5. n <= MaxQueries
  <2>1. Completed \subseteq Slots
    BY DEF Completed
  <2>2. 0 \in Int /\ MaxQueries - 1 \in Int /\ MaxQueries \in Nat \ {0}
    BY TableAssumption
  <2>3. IsFiniteSet(Slots) /\ Cardinality(Slots) = MaxQueries
    BY <2>2, FS_Interval DEF Slots
  <2> QED  BY <1>4, <2>1, <2>3, FS_Subset
<1> QED  BY <1>2, <1>4, <1>5

LEMMA ForwardIs ==
  ASSUME NEW n \in Nat, NEW L \in Chains(n), IsList(n, L)
  PROVE  \A k \in 0 .. MaxQueries : Forward[k] = IF k < n THEN L[k] ELSE NIL
<1> DEFINE G == [k \in 0 .. MaxQueries |-> IF k < n THEN L[k] ELSE NIL]
           Follows(g) == g = [k \in 0 .. MaxQueries |->
              IF k = 0 THEN done_head ELSE IF g[k - 1] = NIL THEN NIL ELSE queries[g[k - 1]].done_next]
<1>1. /\ MaxQueries \in Nat /\ NIL \notin Slots /\ L \in [0 .. n - 1 -> Slots]
      /\ 0 \in 0 .. MaxQueries
  BY TableAssumption DEF Chains, Slots, NIL
<1>2. \A k \in 0 .. MaxQueries : G[k] = IF k < n THEN L[k] ELSE NIL
  OBVIOUS
<1>3. \A k \in 1 .. MaxQueries : k - 1 \in 0 .. MaxQueries /\ k \in 0 .. MaxQueries
  BY <1>1
<1>4. G[0] = done_head
  <2>1. n = 0 \/ 0 < n
    OBVIOUS
  <2> HIDE DEF G
  <2> QED  BY <1>1, <1>2, <2>1 DEF IsList
<1>5. ASSUME NEW k \in 1 .. MaxQueries
      PROVE  G[k] = IF G[k - 1] = NIL THEN NIL ELSE queries[G[k - 1]].done_next
  <2>1. G[k - 1] = (IF k - 1 < n THEN L[k - 1] ELSE NIL) /\ G[k] = IF k < n THEN L[k] ELSE NIL
    BY <1>2, <1>3
  <2> HIDE DEF G
  <2>2. CASE k - 1 < n
    <3>1. k - 1 \in 0 .. n - 1 /\ (k - 1) + 1 = k /\ (k - 1 = n - 1 <=> ~(k < n))
      BY <2>2
    <3>2. L[k - 1] # NIL /\ queries[L[k - 1]].done_next = IF k - 1 = n - 1 THEN NIL ELSE L[(k - 1) + 1]
      BY <1>1, <3>1 DEF IsList
    <3> QED  BY <2>1, <2>2, <3>1, <3>2
  <2>3. CASE ~(k - 1 < n)
    <3>1. ~(k < n)
      BY <2>3
    <3> QED  BY <2>1, <2>3, <3>1
  <2> QED  BY <2>2, <2>3
<1>6. Follows(G)
  <2>1. \A k \in 0 .. MaxQueries :
          G[k] = IF k = 0 THEN done_head ELSE IF G[k - 1] = NIL THEN NIL ELSE queries[G[k - 1]].done_next
    <3>1. \A k \in 0 .. MaxQueries : k = 0 \/ k \in 1 .. MaxQueries
      OBVIOUS
    <3>2. \A k \in 1 .. MaxQueries : k # 0
      OBVIOUS
    <3> HIDE DEF G
    <3> QED  BY <1>4, <1>5, <3>1, <3>2
  <2>2. G = [k \in 0 .. MaxQueries |-> G[k]]
    OBVIOUS
  <2> HIDE DEF G
  <2> QED  BY <2>1, <2>2
<1>7. Forward = CHOOSE g : Follows(g)
  BY DEF Forward
<1> HIDE DEF Follows, G
<1>8. Follows(Forward)
  BY <1>6, <1>7
<1>9. /\ Forward[0] = done_head
      /\ \A k \in 1 .. MaxQueries :
           Forward[k] = IF Forward[k - 1] = NIL THEN NIL ELSE queries[Forward[k - 1]].done_next
  BY <1>1, <1>3, <1>8 DEF Follows
<1>10. \A k \in 0 .. MaxQueries : Forward[k] = G[k]
  <2>1. Forward[0] = G[0]
    BY <1>4, <1>9
  <2>2. \A k \in 1 .. MaxQueries : Forward[k - 1] = G[k - 1] => Forward[k] = G[k]
    BY <1>5, <1>9
  <2>3. MaxQueries \in Nat
    BY <1>1
  <2> QED  BY <2>1, <2>2, <2>3, Followed
<1> QED  BY <1>2, <1>10

LEMMA BackwardIs ==
  ASSUME NEW n \in Nat, NEW L \in Chains(n), IsList(n, L)
  PROVE  \A k \in 0 .. MaxQueries : Backward[k] = IF k < n THEN L[n - 1 - k] ELSE NIL
<1> DEFINE G == [k \in 0 .. MaxQueries |-> IF k < n THEN L[n - 1 - k] ELSE NIL]
           Follows(g) == g = [k \in 0 .. MaxQueries |->
              IF k = 0 THEN done_tail ELSE IF g[k - 1] = NIL THEN NIL ELSE queries[g[k - 1]].done_prev]
<1>1. /\ MaxQueries \in Nat /\ NIL \notin Slots /\ L \in [0 .. n - 1 -> Slots]
      /\ 0 \in 0 .. MaxQueries
  BY TableAssumption DEF Chains, Slots, NIL
<1>2. \A k \in 0 .. MaxQueries : G[k] = IF k < n THEN L[n - 1 - k] ELSE NIL
  OBVIOUS
<1>3. \A k \in 1 .. MaxQueries : k - 1 \in 0 .. MaxQueries /\ k \in 0 .. MaxQueries
  BY <1>1
<1>4. G[0] = done_tail
  <2>1. n = 0 \/ (0 < n /\ n - 1 - 0 = n - 1)
    OBVIOUS
  <2> HIDE DEF G
  <2> QED  BY <1>1, <1>2, <2>1 DEF IsList
<1>5. ASSUME NEW k \in 1 .. MaxQueries
      PROVE  G[k] = IF G[k - 1] = NIL THEN NIL ELSE queries[G[k - 1]].done_prev
  <2>1. /\ G[k - 1] = IF k - 1 < n THEN L[n - 1 - (k - 1)] ELSE NIL
        /\ G[k] = IF k < n THEN L[n - 1 - k] ELSE NIL
    BY <1>2, <1>3
  <2> HIDE DEF G
  <2>2. CASE k - 1 < n
    <3>1. PICK j \in 0 .. n - 1 : j = n - 1 - (k - 1) /\ (j = 0 <=> ~(k < n)) /\ j - 1 = n - 1 - k
      BY <2>2
    <3>2. L[j] # NIL /\ queries[L[j]].done_prev = IF j = 0 THEN NIL ELSE L[j - 1]
      BY <1>1 DEF IsList
    <3> QED  BY <2>1, <2>2, <3>1, <3>2
  <2>3. CASE ~(k - 1 < n)
    <3>1. ~(k < n)
      BY <2>3
    <3> QED  BY <2>1, <2>3, <3>1
  <2> QED  BY <2>2, <2>3
<1>6. Follows(G)
  <2>1. \A k \in 0 .. MaxQueries :
          G[k] = IF k = 0 THEN done_tail ELSE IF G[k - 1] = NIL THEN NIL ELSE queries[G[k - 1]].done_prev
    <3>1. \A k \in 0 .. MaxQueries : k = 0 \/ k \in 1 .. MaxQueries
      OBVIOUS
    <3>2. \A k \in 1 .. MaxQueries : k # 0
      OBVIOUS
    <3> HIDE DEF G
    <3> QED  BY <1>4, <1>5, <3>1, <3>2
  <2>2. G = [k \in 0 .. MaxQueries |-> G[k]]
    OBVIOUS
  <2> HIDE DEF G
  <2> QED  BY <2>1, <2>2
<1>7. Backward = CHOOSE g : Follows(g)
  BY DEF Backward
<1> HIDE DEF Follows, G
<1>8. Follows(Backward)
  BY <1>6, <1>7
<1>9. /\ Backward[0] = done_tail
      /\ \A k \in 1 .. MaxQueries :
           Backward[k] = IF Backward[k - 1] = NIL THEN NIL ELSE queries[Backward[k - 1]].done_prev
  BY <1>1, <1>3, <1>8 DEF Follows
<1>10. \A k \in 0 .. MaxQueries : Backward[k] = G[k]
  <2>1. Backward[0] = G[0]
    BY <1>4, <1>9
  <2>2. \A k \in 1 .. MaxQueries : Backward[k - 1] = G[k - 1] => Backward[k] = G[k]
    BY <1>5, <1>9
  <2>3. MaxQueries \in Nat
    BY <1>1
  <2> QED  BY <2>1, <2>2, <2>3, Followed
<1> QED  BY <1>2, <1>10

(* The list of completed queries holds each of them once and no other, in  *)
(* both directions, whatever is completed, taken and cancelled in whatever *)
(* order.                                                                  *)
THEOREM DoneListExactAlways == Spec => []DoneListExact
<1>1. Init => Inv /\ DoneUsed /\ ListOf(FALSE)
  BY InitInv, ListInit
<1>2. Inv /\ DoneUsed /\ ListOf(FALSE) /\ [Next]_vars => (Inv /\ DoneUsed /\ ListOf(FALSE))'
  BY NextInv, ListNext
<1>3. ListOf(FALSE) => DoneListExact
  <2> SUFFICES ASSUME ListOf(FALSE) PROVE DoneListExact
    OBVIOUS
  <2>0. PICK n \in Nat : \E L \in Chains(n) : IsList(n, L)
    BY DEF ListOf
  <2>1. PICK L \in Chains(n) : IsList(n, L)
    BY <2>0
  <2>2. Completed = {L[k] : k \in 0 .. n - 1} /\ Cardinality(Completed) = n /\ n <= MaxQueries
    BY <2>1, ChainLength
  <2>3. MaxQueries \in Nat
    BY TableAssumption
  <2>4. \A k \in 0 .. n - 1 : k \in 0 .. MaxQueries /\ n - 1 - k \in 0 .. n - 1 /\ k < n
    BY <2>2, <2>3
  <2>5. n \in 0 .. MaxQueries
    BY <2>2, <2>3
  <2>6. \A k \in 0 .. n - 1 : Forward[k] = L[k] /\ Backward[k] = L[n - 1 - k]
    BY <2>1, <2>4, ForwardIs, BackwardIs
  <2>7. Forward[n] = NIL /\ Backward[n] = NIL
    BY <2>1, <2>5, ForwardIs, BackwardIs
  <2>8. {Forward[k] : k \in 0 .. n - 1} = Completed
    BY <2>2, <2>6
  <2>9. \A k \in 0 .. n - 1 : Backward[k] = Forward[n - 1 - k]
    BY <2>4, <2>6
  <2> QED  BY <2>2, <2>7, <2>8, <2>9 DEF DoneListExact
<1> QED  BY <1>1, <1>2, <1>3, PTL DEF Spec

-----------------------------------------------------------------------------
(* The order of the answers.  With one worker the queries go through a     *)
(* pipe, completed ones first, the one that is being sent last; each stage *)
(* is the set of the serials that are in it.                               *)

SerialsIn(queue) == {queue[k].serial : k \in {n \in 1 .. Len(queue) : Asked(queue[n])}}
Answered  == {queries[i].serial : i \in Completed}
Responded == SerialsIn(responses)
Looked    == {worker[w].job.serial : w \in {x \in Workers : worker[x].op = "busy"}}
Requested == SerialsIn(requests)
Sent      == {n \in {call.msg.serial} : call.op = "send"}

Below(A, B) == \A m \in A, n \in B : m < n
Sorted(queue) ==
  \A j, k \in 1 .. Len(queue) :
    j < k /\ Asked(queue[j]) /\ Asked(queue[k]) => queue[j].serial < queue[k].serial

Pipe(A, R, L, Q, S, n) ==
  /\ Below(A, R \cup L \cup Q \cup S)
  /\ Below(R, L \cup Q \cup S)
  /\ Below(L, Q \cup S)
  /\ Below(Q, S)
  /\ A \cup R \cup L \cup Q \cup S \subseteq 1 .. n

Order ==
  /\ Pipe(Answered, Responded, Looked, Requested, Sent, issued)
  /\ Sorted(responses) /\ Sorted(requests)

LEMMA TailSerials ==
  ASSUME NEW s \in Seq(Message), s # <<>>
  PROVE  /\ SerialsIn(Tail(s)) \subseteq SerialsIn(s)
         /\ Sorted(s) => Sorted(Tail(s))
         /\ Asked(Head(s)) => Head(s).serial \in SerialsIn(s)
         /\ Asked(Head(s)) /\ Sorted(s) => Below({Head(s).serial}, SerialsIn(Tail(s)))
<1>1. /\ Len(s) \in Nat \ {0} /\ Len(Tail(s)) = Len(s) - 1 /\ Head(s) = s[1] /\ 1 \in 1 .. Len(s)
      /\ \A k \in 1 .. Len(Tail(s)) : Tail(s)[k] = s[k + 1] /\ k + 1 \in 1 .. Len(s) /\ 1 < k + 1
  OBVIOUS
<1>2. SerialsIn(Tail(s)) \subseteq SerialsIn(s)
  BY <1>1 DEF SerialsIn
<1>3. ASSUME Sorted(s) PROVE Sorted(Tail(s))
  <2> SUFFICES ASSUME NEW j \in 1 .. Len(Tail(s)), NEW k \in 1 .. Len(Tail(s)), j < k,
                      Asked(Tail(s)[j]), Asked(Tail(s)[k])
               PROVE  Tail(s)[j].serial < Tail(s)[k].serial
    BY DEF Sorted
  <2>1. j + 1 \in 1 .. Len(s) /\ k + 1 \in 1 .. Len(s) /\ j + 1 < k + 1
    BY <1>1
  <2>2. Tail(s)[j] = s[j + 1] /\ Tail(s)[k] = s[k + 1]
    BY <1>1
  <2> QED  BY <1>3, <2>1, <2>2 DEF Sorted
<1>4. Asked(Head(s)) => Head(s).serial \in SerialsIn(s)
  BY <1>1 DEF SerialsIn
<1>5. ASSUME Asked(Head(s)), Sorted(s) PROVE Below({Head(s).serial}, SerialsIn(Tail(s)))
  <2> SUFFICES ASSUME NEW k \in 1 .. Len(Tail(s)), Asked(Tail(s)[k])
               PROVE  Head(s).serial < Tail(s)[k].serial
    BY DEF Below, SerialsIn
  <2> QED  BY <1>1, <1>5 DEF Sorted
<1> QED  BY <1>2, <1>3, <1>4, <1>5

LEMMA AppendSerials ==
  ASSUME NEW s \in Seq(Message), NEW m \in Message
  PROVE  /\ SerialsIn(Append(s, m)) \subseteq SerialsIn(s) \cup {m.serial}
         /\ ~Asked(m) => SerialsIn(Append(s, m)) \subseteq SerialsIn(s)
         /\ Sorted(s) /\ (Asked(m) => Below(SerialsIn(s), {m.serial})) => Sorted(Append(s, m))
<1> DEFINE t == Append(s, m)
<1>1. /\ Len(s) \in Nat /\ Len(t) = Len(s) + 1 /\ t[Len(s) + 1] = m
      /\ \A k \in 1 .. Len(s) : t[k] = s[k]
      /\ \A k \in 1 .. Len(t) : k \in 1 .. Len(s) \/ k = Len(s) + 1
  OBVIOUS
<1> HIDE DEF t
<1>2. SerialsIn(t) \subseteq SerialsIn(s) \cup {m.serial}
  BY <1>1 DEF SerialsIn
<1>3. ~Asked(m) => SerialsIn(t) \subseteq SerialsIn(s)
  BY <1>1 DEF SerialsIn
<1>4. ASSUME Sorted(s), Asked(m) => Below(SerialsIn(s), {m.serial}) PROVE Sorted(t)
  <2> SUFFICES ASSUME NEW j \in 1 .. Len(t), NEW k \in 1 .. Len(t), j < k, Asked(t[j]), Asked(t[k])
               PROVE  t[j].serial < t[k].serial
    BY DEF Sorted
  <2>1. j \in 1 .. Len(s) /\ t[j] = s[j]
    BY <1>1
  <2>2. CASE k \in 1 .. Len(s)
    BY <1>1, <1>4, <2>1, <2>2 DEF Sorted
  <2>3. CASE k = Len(s) + 1
    <3>1. t[k] = m /\ Asked(m) /\ s[j].serial \in SerialsIn(s)
      BY <1>1, <2>1, <2>3 DEF SerialsIn
    <3> QED  BY <1>4, <2>1, <3>1 DEF Below
  <2> QED  BY <1>1, <2>2, <2>3
<1> QED  BY <1>2, <1>3, <1>4 DEF t

LEMMA PipeShrinks ==
  ASSUME NEW A, NEW R, NEW L, NEW Q, NEW S, NEW n \in Nat, Pipe(A, R, L, Q, S, n),
         NEW B, NEW T, NEW M, NEW P, NEW U, NEW m \in Nat, n <= m,
         B \subseteq A, T \subseteq R, M \subseteq L, P \subseteq Q, U \subseteq S
  PROVE  Pipe(B, T, M, P, U, m)
<1>1. 1 .. n \subseteq 1 .. m
  OBVIOUS
<1> QED  BY <1>1 DEF Pipe, Below

LEMMA EmptyPlaces ==
  /\ SerialsIn(<<>>) = {} /\ Sorted(<<>>)
  /\ call = NoCall => Sent = {}
<1>1. Len(<<>>) = 0 /\ 1 .. 0 = {}
  OBVIOUS
<1> QED  BY <1>1, CallTypes DEF SerialsIn, Sorted, Sent

LEMMA InitOrder == Init => Order
<1> SUFFICES ASSUME Init PROVE Order
  OBVIOUS
<1>1. Responded = {} /\ Requested = {} /\ Sent = {} /\ Sorted(requests) /\ Sorted(responses)
  BY EmptyPlaces DEF Init, Responded, Requested
<1>2. Looked = {} /\ Answered = {}
  BY DEF Init, asyncns_new, Looked, Answered, Completed, NoQuery, Idle
<1> QED  BY <1>1, <1>2 DEF Order, Pipe, Below

(* Steps that only take queries out. *)
LEMMA OrderShrinks ==
  ASSUME Inv, Order, issued' = issued,
         \A i \in Slots : queries'[i].done => queries[i].done /\ queries'[i].serial = queries[i].serial,
         Responded' \subseteq Responded, Looked' \subseteq Looked,
         Requested' \subseteq Requested, Sent' \subseteq Sent,
         Sorted(responses'), Sorted(requests')
  PROVE  Order'
<1>1. issued \in Nat
  BY InvSplit DEF OtherTypes
<1>2. Answered' \subseteq Answered
  BY DEF Answered, Completed
<1>3. Pipe(Answered', Responded', Looked', Requested', Sent', issued')
  BY <1>1, <1>2, PipeShrinks DEF Order
<1> QED  BY <1>3 DEF Order, Sorted, Pipe, Below

LEMMA IssueOrder ==
  ASSUME Inv, Order, NEW type \in Requests, asyncns_query(type)
  PROVE  Order'
<1>1. /\ TableTypes /\ issued \in Nat /\ call = NoCall
      /\ UNCHANGED <<requests, responses, worker>>
  BY InvSplit DEF OtherTypes, asyncns_query
<1>2. /\ Responded' = Responded /\ Looked' = Looked /\ Requested' = Requested /\ Sent = {}
      /\ Sorted(responses') /\ Sorted(requests')
  BY <1>1, EmptyPlaces DEF Responded, Looked, Requested, Order
<1>3. PICK d \in 0 .. MaxQueries - 1 :
        \/ UNCHANGED <<queries, issued, call>>
        \/ /\ queries' = [queries EXCEPT ![SlotAfter(d)] = NewQuery(type, IdAfter(d))]
           /\ issued' = issued + 1
           /\ call' = Sending([type |-> type, id |-> IdAfter(d), serial |-> issued + 1],
                              SlotAfter(d))
  BY DEF asyncns_query
<1>4. CASE UNCHANGED <<queries, issued, call>>
  BY <1>2, <1>4, OrderShrinks DEF Sent
<1>5. ASSUME NEW i, NEW q, NEW m, q.done = FALSE, m.serial = issued + 1,
             queries' = [queries EXCEPT ![i] = q], issued' = issued + 1, call' = Sending(m, i)
      PROVE  Order'
  <2>1. Sent' \subseteq {issued + 1}
    BY <1>5 DEF Sent, Sending
  <2>2. Answered' \subseteq Answered
    <3>1. \A j \in Slots : queries'[j].done => queries'[j] = queries[j]
      BY <1>1, <1>5 DEF TableTypes
    <3> QED  BY <3>1 DEF Answered, Completed
  <2>3. \A n \in 1 .. issued : n < issued + 1 /\ n \in 1 .. issued + 1
    BY <1>1
  <2>4. issued + 1 \in 1 .. issued + 1
    BY <1>1
  <2>5. Pipe(Answered', Responded', Looked', Requested', Sent', issued')
    BY <1>2, <1>5, <2>1, <2>2, <2>3, <2>4 DEF Order, Pipe, Below
  <2> QED  BY <1>2, <2>5 DEF Order, Sorted, Pipe, Below
<1>6. NewQuery(type, IdAfter(d)).done = FALSE
  BY DEF NewQuery, NoQuery
<1> QED  BY <1>3, <1>4, <1>5, <1>6

LEMMA SentOrder ==
  ASSUME Inv, Order, RequestSent
  PROVE  Order'
<1>1. /\ requests \in Seq(Message) /\ call \in Calls /\ call.op = "send" /\ call' = NoCall
      /\ UNCHANGED <<issued, responses, worker>>
  BY InvSplit DEF OtherTypes, RequestSent, allocVars
<1>2. Responded' = Responded /\ Looked' = Looked /\ Sent' = {} /\ Sorted(responses')
  <2>1. Sent' = {}
    BY <1>1, CallTypes DEF Sent
  <2> QED  BY <1>1, <2>1 DEF Responded, Looked, Order
<1>3. CASE requests' = Append(requests, call.msg) /\ UNCHANGED tableVars
  <2>1. call.msg \in Message /\ Sent = {call.msg.serial}
    BY <1>1, CallFields DEF Sent
  <2>2. Answered' = Answered
    BY <1>3 DEF Answered, Completed, tableVars
  <2>3. Requested' \subseteq Requested \cup Sent
    BY <1>1, <1>3, <2>1, AppendSerials DEF Requested
  <2>4. Sorted(requests')
    BY <1>1, <1>3, <2>1, AppendSerials DEF Order, Pipe, Requested
  <2>5. Pipe(Answered', Responded', Looked', Requested', Sent', issued')
    BY <1>1, <1>2, <2>2, <2>3 DEF Order, Pipe, Below
  <2> QED  BY <1>2, <2>4, <2>5 DEF Order, Sorted, Pipe, Below
<1>4. CASE Destroy(call.slot) /\ UNCHANGED requests
  <2>1. call.slot \in UsedSlots
    BY <1>1, InvSplit, CallFields DEF SendingUsed, UsedSlots
  <2>2. \A i \in Slots : queries'[i].done => queries[i].done /\ queries'[i].serial = queries[i].serial
    BY <1>4, <2>1, DestroyKeeps DEF Kept
  <2>3. Requested' = Requested /\ Sorted(requests')
    BY <1>4 DEF Requested, Order
  <2> QED  BY <1>1, <1>2, <2>2, <2>3, OrderShrinks
<1> QED  BY <1>3, <1>4 DEF RequestSent

LEMMA WaitOrder ==
  ASSUME AnswersInv, Order, WaitTurn
  PROVE  Order'
<1>1. /\ Inv /\ responses \in Seq(Message) /\ call \in Calls /\ call.op # "send" /\ call'.op # "send"
      /\ UNCHANGED <<issued, requests, worker>>
  <2>1. Inv /\ responses \in Seq(Message) /\ call \in Calls
    BY InvSplit DEF AnswersInv, OtherTypes
  <2>2. NoCall.op # "send" /\ \A b, h : Waiting(b, h).op # "send"
    BY DEF NoCall, Waiting
  <2>3. call.op # "send" /\ call'.op # "send"
    BY <2>2 DEF WaitTurn
  <2>4. UNCHANGED <<issued, requests, worker>>
    BY DEF WaitTurn, allocVars
  <2> QED  BY <2>1, <2>3, <2>4
<1>2. Requested' = Requested /\ Looked' = Looked /\ Sent' = {} /\ Sent = {} /\ Sorted(requests')
  BY <1>1 DEF Requested, Looked, Sent, Order
<1>3. CASE UNCHANGED <<queries, responses>>
  BY <1>1, <1>2, <1>3, OrderShrinks DEF Responded, Order
<1>4. CASE /\ responses # <<>> /\ responses' = Tail(responses)
           /\ handle_response(Head(responses))
  <2> DEFINE m == Head(responses)
             i == m.id % MaxQueries
  <2>1. Responded' \subseteq Responded /\ Sorted(responses')
    BY <1>1, <1>4, TailSerials DEF Responded, Order
  <2>2. CASE m.type = "DIED"
    <3>1. UNCHANGED queries
      BY <1>4, <2>2 DEF handle_response, tableVars
    <3> QED  BY <1>1, <1>2, <2>1, <3>1, OrderShrinks
  <2>3. CASE m.type # "DIED"
    <3>1. /\ Asked(m) /\ m \in Message /\ i \in UsedSlots
          /\ lookup_query(m.id) = {i} /\ Expected(i, m)
          /\ queries[i].serial = m.serial
      BY <1>4, <2>3, ResponseFound
    <3>2. complete_query(i, m.serial)
      BY <1>4, <2>3, <3>1 DEF handle_response
    <3>3. /\ \A j \in Slots : j # i => Kept(j)
          /\ queries'[i].serial = m.serial
      <4>1. m.serial \in 0 .. MaxIssues
        BY <3>1 DEF Message
      <4> QED BY <1>1, <3>1, <3>2, <4>1, CompleteKeeps
    <3>4. m.serial \in Responded /\ Below({m.serial}, Responded')
      BY <1>1, <1>4, <3>1, TailSerials DEF Responded, Order
    <3> HIDE DEF m
    <3>5. Answered' \subseteq Answered \cup {m.serial}
      BY <3>3 DEF Answered, Completed, Kept
    <3>6. Pipe(Answered', Responded', Looked', Requested', Sent', issued')
      <4>1. Below(Answered', Responded')
        BY <2>1, <3>4, <3>5 DEF Order, Pipe, Below
      <4>2. Below(Answered', Looked' \cup Requested' \cup Sent')
        BY <1>2, <3>4, <3>5 DEF Order, Pipe, Below
      <4>3. Answered' \cup Responded' \subseteq 1 .. issued
        BY <2>1, <3>4, <3>5 DEF Order, Pipe
      <4> QED  BY <1>1, <1>2, <2>1, <4>1, <4>2, <4>3 DEF Order, Pipe, Below
    <3> QED  BY <1>2, <2>1, <3>6 DEF Order, Sorted, Pipe, Below
  <2> QED  BY <2>2, <2>3
<1> QED  BY <1>3, <1>4 DEF WaitTurn, tableVars

LEMMA WorkerOrder ==
  ASSUME AnswersInv, Order, NEW w, Workers = {w}, Worker(w) \/ WorkerFails(w) \/ WorkerCrashes(w)
  PROVE  Order'
<1>1. /\ Inv /\ MessageKinds /\ requests \in Seq(Message) /\ responses \in Seq(Message)
      /\ worker \in [{w} -> WorkerStates] /\ issued \in Nat
  BY InvSplit DEF AnswersInv, OtherTypes
<1>2. UNCHANGED <<queries, call, issued>>
  BY DEF Worker, WorkerReceives, handle_request, send_died, WorkerFails, WorkerCrashes,
     tableVars, allocVars
<1>3. Answered' = Answered /\ Sent' = Sent
  BY <1>2 DEF Answered, Completed, Sent
<1>4. CASE WorkerReceives(w)
  <2>1. /\ requests # <<>> /\ requests' = Tail(requests) /\ UNCHANGED responses
        /\ worker' = [worker EXCEPT ![w] = IF Head(requests).type = "TERMINATE" THEN Leaving
                                                                 ELSE Busy(Head(requests))]
    BY <1>4 DEF WorkerReceives
  <2>2. Responded' = Responded /\ Sorted(responses')
    BY <2>1 DEF Responded, Order
  <2>3. Head(requests).type \in Requests \cup {"TERMINATE"}
    BY <1>1, <2>1 DEF MessageKinds
  <2>4. Requested' \subseteq Requested /\ Sorted(requests')
    BY <1>1, <2>1, TailSerials DEF Requested, Order
  <2>5. CASE Head(requests).type = "TERMINATE"
    <3>1. Looked' = {}
      BY <1>1, <2>1, <2>5 DEF Looked, Leaving
    <3>2. Pipe(Answered', Responded', Looked', Requested', Sent', issued')
      BY <1>1, <1>2, <1>3, <2>2, <2>4, <3>1, PipeShrinks DEF Order
    <3> QED  BY <2>2, <2>4, <3>2 DEF Order, Sorted, Pipe, Below
  <2>6. CASE Head(requests).type # "TERMINATE"
    <3>1. Asked(Head(requests))
      BY <2>3, <2>6 DEF Asked, Requests
    <3>2. Looked' = {Head(requests).serial}
      BY <1>1, <2>1, <2>6 DEF Looked, Busy
    <3>3. Head(requests).serial \in Requested /\ Below({Head(requests).serial}, Requested')
      BY <1>1, <2>1, <3>1, TailSerials DEF Requested, Order
    <3>4. Pipe(Answered', Responded', Looked', Requested', Sent', issued')
      BY <1>2, <1>3, <2>2, <2>4, <3>2, <3>3 DEF Order, Pipe, Below
    <3> QED  BY <2>2, <2>4, <3>4 DEF Order, Sorted, Pipe, Below
  <2> QED  BY <2>5, <2>6
<1>5. CASE handle_request(w)
  <2>1. /\ worker[w].op = "busy" /\ responses' = Append(responses, Reply(worker[w].job))
        /\ worker' = [worker EXCEPT ![w] = Idle] /\ UNCHANGED requests
    BY <1>5 DEF handle_request
  <2>2. Requested' = Requested /\ Sorted(requests')
    BY <2>1 DEF Requested, Order
  <2>3. Looked' = {} /\ worker[w].job.serial \in Looked
    BY <1>1, <2>1 DEF Looked, Idle
  <2>4. Reply(worker[w].job) \in Message /\ Reply(worker[w].job).serial = worker[w].job.serial
    <3>1. worker[w].job \in Message
      BY <1>1, <2>1, WorkerStateTypes
    <3> QED  BY <3>1, MessageTypes DEF Reply, Message
  <2>5. Responded' \subseteq Responded \cup {worker[w].job.serial}
    BY <1>1, <2>1, <2>4, AppendSerials DEF Responded
  <2>6. Sorted(responses')
    <3>1. Below(SerialsIn(responses), {Reply(worker[w].job).serial})
      BY <2>3, <2>4 DEF Order, Pipe, Below, Responded
    <3> QED  BY <1>1, <2>1, <2>4, <3>1, AppendSerials DEF Order
  <2>7. Pipe(Answered', Responded', Looked', Requested', Sent', issued')
    BY <1>2, <1>3, <2>2, <2>3, <2>5 DEF Order, Pipe, Below
  <2> QED  BY <2>2, <2>6, <2>7 DEF Order, Sorted, Pipe, Below
<1>6. CASE send_died(w) \/ WorkerFails(w) \/ WorkerCrashes(w)
  <2>1. /\ worker'[w].op # "busy" /\ UNCHANGED requests
        /\ responses' = responses \/ responses' = Append(responses, DIED)
    BY <1>1, <1>6 DEF send_died, WorkerFails, WorkerCrashes, Leaving, Gone
  <2>2. Looked' = {} /\ Requested' = Requested /\ Sorted(requests')
    BY <2>1 DEF Looked, Requested, Order
  <2>3. DIED \in Message /\ ~Asked(DIED)
    BY MessageTypes DEF DIED, Asked
  <2>4. Responded' \subseteq Responded /\ Sorted(responses')
    BY <1>1, <2>1, <2>3, AppendSerials DEF Responded, Order
  <2>5. Pipe(Answered', Responded', Looked', Requested', Sent', issued')
    BY <1>1, <1>2, <1>3, <2>2, <2>4, PipeShrinks DEF Order
  <2> QED  BY <2>2, <2>4, <2>5 DEF Order, Sorted, Pipe, Below
<1> QED  BY <1>4, <1>5, <1>6 DEF Worker

LEMMA FreeOrder ==
  ASSUME AnswersInv, Order, asyncns_free \/ TerminateSent \/ SessionFreed
  PROVE  Order'
<1>1. Inv /\ requests \in Seq(Message) /\ issued' = issued
  BY InvSplit DEF AnswersInv, OtherTypes, asyncns_free, TerminateSent, SessionFreed, allocVars
<1>2. Sent' = {}
  BY CallTypes DEF Sent, asyncns_free, TerminateSent, SessionFreed
<1>3. CASE asyncns_free \/ TerminateSent
  <2>1. /\ UNCHANGED <<queries, responses, worker>>
        /\ requests' = requests \/ requests' = Append(requests, TERMINATE)
    BY <1>3 DEF asyncns_free, TerminateSent, tableVars
  <2>2. TERMINATE \in Message /\ ~Asked(TERMINATE)
    BY MessageTypes DEF TERMINATE, Asked
  <2>3. Requested' \subseteq Requested /\ Sorted(requests')
    BY <1>1, <2>1, <2>2, AppendSerials DEF Requested, Order
  <2>4. Responded' = Responded /\ Looked' = Looked /\ Sorted(responses')
    BY <2>1 DEF Responded, Looked, Order
  <2> QED  BY <1>1, <1>2, <2>1, <2>3, <2>4, OrderShrinks
<1>4. CASE SessionFreed
  <2>1. /\ \A i \in Slots : ~queries'[i].done
        /\ \A w \in Workers : worker'[w].op # "busy"
        /\ requests' = <<>> /\ responses' = <<>>
    BY <1>4 DEF SessionFreed, NoQuery, Gone
  <2>2. Looked' = {} /\ Responded' = {} /\ Requested' = {} /\ Sorted(requests') /\ Sorted(responses')
    BY <2>1, EmptyPlaces DEF Looked, Responded, Requested
  <2> QED  BY <1>1, <1>2, <2>1, <2>2, OrderShrinks
<1> QED  BY <1>3, <1>4

LEMMA NextOrderly ==
  ASSUME ~CancelsPending, Cardinality(Workers) = 1
  PROVE  AnswersInv /\ Order /\ [Next]_vars => Order'
<1> SUFFICES ASSUME AnswersInv, Order, [Next]_vars PROVE Order'
  OBVIOUS
<1>1. Inv
  BY DEF AnswersInv
<1>2. CASE UNCHANGED vars
  <2>1. UNCHANGED <<queries, requests, responses, worker, call, issued>>
    BY <1>2 DEF vars, tableVars, allocVars
  <2>2. /\ Responded' = Responded /\ Looked' = Looked /\ Requested' = Requested /\ Sent' = Sent
        /\ Sorted(responses') /\ Sorted(requests')
    BY <2>1 DEF Responded, Looked, Requested, Sent, Order
  <2> QED  BY <1>1, <2>1, <2>2, OrderShrinks
<1>3. CASE asyncns_getaddrinfo \/ asyncns_getnameinfo \/ asyncns_res
  <2>1. \E type \in Requests : asyncns_query(type)
    BY <1>3 DEF asyncns_getaddrinfo, asyncns_getnameinfo, asyncns_res, Requests
  <2> QED BY <1>1, <2>1, IssueOrder
<1>4. ASSUME NEW i \in Slots,
             \/ asyncns_getaddrinfo_done(i) \/ asyncns_getnameinfo_done(i)
             \/ asyncns_res_done(i) \/ asyncns_cancel(i)
      PROVE  Order'
  <2>1. /\ i \in UsedSlots /\ Destroy(i)
        /\ UNCHANGED <<requests, responses, worker, call, issued>>
    BY <1>4 DEF asyncns_getaddrinfo_done, asyncns_getnameinfo_done, asyncns_res_done,
       asyncns_cancel, Take, UsedSlots, allocVars
  <2>2. \A j \in Slots : queries'[j].done => queries[j].done /\ queries'[j].serial = queries[j].serial
    BY <1>1, <2>1, DestroyKeeps DEF Kept
  <2>3. /\ Responded' = Responded /\ Looked' = Looked /\ Requested' = Requested /\ Sent' = Sent
        /\ Sorted(responses') /\ Sorted(requests')
    BY <2>1 DEF Responded, Looked, Requested, Sent, Order
  <2> QED  BY <1>1, <2>1, <2>2, <2>3, OrderShrinks
<1>5. CASE \E block \in BOOLEAN : asyncns_wait(block)
  <2>1. UNCHANGED <<requests, responses, worker, queries, issued>> /\ call'.op # "send"
    BY <1>5, CallTypes DEF asyncns_wait, tableVars, allocVars
  <2>2. /\ Responded' = Responded /\ Looked' = Looked /\ Requested' = Requested /\ Sent' = {}
        /\ Sorted(responses') /\ Sorted(requests')
    BY <2>1 DEF Responded, Looked, Requested, Sent, Order
  <2> QED  BY <1>1, <2>1, <2>2, OrderShrinks
<1>6. CASE RequestSent
  BY <1>1, <1>6, SentOrder
<1>7. CASE asyncns_free \/ TerminateSent \/ SessionFreed
  BY <1>7, FreeOrder
<1>8. ASSUME NEW w \in Workers, Worker(w) \/ WorkerFails(w) \/ WorkerCrashes(w)
      PROVE  Order'
  <2>1. Workers = {w}
    BY WorkersAssumption, FS_Singleton
  <2> QED  BY <1>8, <2>1, WorkerOrder
<1>9. CASE WaitTurn
  BY <1>9, WaitOrder
<1> QED BY <1>2, <1>3, <1>4, <1>5, <1>6, <1>7, <1>8, <1>9 DEF Next, Caller, Returns

LEMMA OrderOfNext ==
  ASSUME AnswersInv, Order
  PROVE  NextInOrder
<1> SUFFICES ASSUME responses # <<>>, NEW i \in lookup_query(Head(responses).id),
                    Expected(i, Head(responses)), NEW j \in Slots, queries[j].done
             PROVE  queries[j].serial < queries[i].serial
  BY DEF NextInOrder
<1>1. Inv /\ TypeOK /\ responses \in Seq(Message) /\ Head(responses) \in Message
  BY InvSplit DEF AnswersInv, Inv, OtherTypes
<1>2. Head(responses).type # "DIED"
  <2>1. i \in UsedSlots /\ queries[i].type \in Requests
    <3>1. i \in UsedSlots
      BY <1>1, ResponseSlot
    <3> QED  BY <1>1, <3>1 DEF UsedSlots, Used, TypeOK, Query
  <2> QED  BY <2>1, ReplyTypes DEF Expected, Replies
<1>3. queries[i].serial = Head(responses).serial /\ Asked(Head(responses))
  BY <1>2, ResponseFound
<1>4. Head(responses).serial \in Responded
  BY <1>1, <1>3, TailSerials DEF Responded
<1>5. queries[j].serial \in Answered
  BY DEF Answered, Completed
<1> QED  BY <1>3, <1>4, <1>5 DEF Order, Pipe, Below

(* With one worker, and a caller that cancels no query before it is done,  *)
(* the list of completed queries is in the order in which they were        *)
(* issued, so asyncns_getnext returns them first in, first out, however    *)
(* slots and ids are reused and wherever current_id wraps around.          *)
THEOREM FirstInFirstOutAlways ==
  ASSUME ~CancelsPending
  PROVE  Spec => []FirstInFirstOut
<1> DEFINE one == Cardinality(Workers) = 1
           Fifo == AnswersInv /\ DoneUsed /\ ListOf(one) /\ (one => Order)
<1>1. Init => Fifo
  BY InitAnswers, InitOrder, ListInit
<1>2. Fifo /\ [Next]_vars => Fifo'
  <2> SUFFICES ASSUME Fifo, [Next]_vars PROVE Fifo'
    OBVIOUS
  <2>1. AnswersInv' /\ Inv
    BY NextAnswers DEF AnswersInv
  <2>2. one => Order' /\ NextInOrder
    BY NextOrderly, OrderOfNext
  <2>3. ListOf(one)' /\ DoneUsed'
    BY <2>1, <2>2, ListNext
  <2> QED  BY <2>1, <2>2, <2>3
<1>3. Fifo => FirstInFirstOut
  <2> SUFFICES ASSUME Fifo, one PROVE FirstInFirstOut
    BY DEF FirstInFirstOut
  <2>0. PICK n \in Nat : \E L \in Chains(n) : IsList(n, L) /\ Increasing(n, L)
    BY DEF ListOf
  <2>1. PICK L \in Chains(n) : IsList(n, L) /\ Increasing(n, L)
    BY <2>0
  <2>2. Cardinality(Completed) = n /\ n <= MaxQueries /\ MaxQueries \in Nat
    BY <2>1, ChainLength, TableAssumption
  <2>3. \A k \in 0 .. n - 1 : k \in 0 .. MaxQueries /\ k < n
    BY <2>2
  <2>4. \A k \in 0 .. n - 1 : Forward[k] = L[k]
    BY <2>1, <2>3, ForwardIs
  <2> QED  BY <2>1, <2>2, <2>4 DEF FirstInFirstOut, Increasing
<1> HIDE DEF Fifo
<1> QED  BY <1>1, <1>2, <1>3, PTL DEF Spec

-----------------------------------------------------------------------------
(* The service.  A query is known by its serial: no two queries of the     *)
(* table have the same one, and no query has one that was not given out.   *)

SerialsOK(t, k) ==
  /\ \A i \in Slots : t[i].serial \in 0 .. k /\ (t[i].type = "NONE" => t[i].serial = 0)
  /\ \A i, j \in Slots : t[i].serial = t[j].serial /\ t[i].serial # 0 => i = j
  /\ \A i \in Slots : t[i].type # "NONE" => t[i].serial # 0

(* Status for a table t when k queries have been issued. *)
StatusIn(t, k, n) ==
  LET S == {i \in Slots : t[i].serial = n}
      q == t[CHOOSE i \in S : TRUE]
  IN  IF S = {} THEN IF n <= k THEN "gone" ELSE "new"
      ELSE IF ~q.done THEN "pending" ELSE IF q.answer = n THEN "answered" ELSE "wrong"

LEMMA StatusIs ==
  /\ \A n : Status(n) = StatusIn(queries, issued, n)
  /\ \A n : Status(n)' = StatusIn(queries', issued', n)
BY DEF Status, Slot, StatusIn

LEMMA StatusHere ==
  ASSUME NEW t, NEW k, NEW i \in Slots, NEW n, t[i].serial = n,
         \A j \in Slots : t[j].serial = n => j = i
  PROVE  StatusIn(t, k, n) = IF ~t[i].done THEN "pending"
                             ELSE IF t[i].answer = n THEN "answered" ELSE "wrong"
<1>1. {j \in Slots : t[j].serial = n} = {i}
  OBVIOUS
<1>2. (CHOOSE j \in {i} : TRUE) = i
  OBVIOUS
<1> QED  BY <1>1, <1>2 DEF StatusIn

LEMMA StatusAbsent ==
  ASSUME NEW t, NEW k, NEW n, \A j \in Slots : t[j].serial # n
  PROVE  StatusIn(t, k, n) = IF n <= k THEN "gone" ELSE "new"
<1>1. {j \in Slots : t[j].serial = n} = {}
  OBVIOUS
<1> QED  BY <1>1 DEF StatusIn

LEMMA StatusKept ==
  ASSUME NEW t, NEW u, NEW k, NEW m, NEW n, n <= k <=> n <= m,
         \A j \in Slots : t[j].serial = n \/ u[j].serial = n =>
           t[j].serial = u[j].serial /\ t[j].done = u[j].done /\ t[j].answer = u[j].answer
  PROVE  StatusIn(t, k, n) = StatusIn(u, m, n)
<1> DEFINE S == {j \in Slots : t[j].serial = n}
<1>1. S = {j \in Slots : u[j].serial = n}
  OBVIOUS
<1>2. CASE S = {}
  BY <1>1, <1>2 DEF StatusIn
<1>3. CASE S # {}
  <2>1. PICK c : c = CHOOSE j \in S : TRUE
    OBVIOUS
  <2>2. c \in S
    BY <1>3, <2>1
  <2>3. t[c].done = u[c].done /\ t[c].answer = u[c].answer
    BY <2>2
  <2> QED  BY <1>1, <1>3, <2>1, <2>3 DEF StatusIn
<1> QED  BY <1>2, <1>3

Sound == AnswersInv /\ SerialsOK(queries, issued)

LEMMA InitSound == Init => Sound
<1> SUFFICES ASSUME Init PROVE Sound
  OBVIOUS
<1>1. SerialsOK(queries, issued)
  BY DEF Init, asyncns_new, SerialsOK, NoQuery
<1> QED  BY <1>1, InitAnswers DEF Sound

(* What a step does to the statuses and to the session. *)
StatusBecomes(n, to) ==
  /\ Status(n)' = to
  /\ \A m \in Serials \ {n} : Status(m)' = Status(m)

StatusesKept == \A m \in Serials : Status(m)' = Status(m)

LEMMA ServedSame ==
  ASSUME StatusesKept, Session' = Session
  PROVE  UNCHANGED Served
BY DEF Served, StatusesKept

LEMMA ServedBecomes ==
  ASSUME NEW n \in Serials, NEW to, StatusBecomes(n, to)
  PROVE  [m \in Serials |-> Status(m)]' = [[m \in Serials |-> Status(m)] EXCEPT ![n] = to]
BY DEF StatusBecomes

LEMMA SoundTable ==
  ASSUME Sound
  PROVE  /\ queries \in [Slots -> Query] /\ issued \in 0 .. MaxIssues /\ MaxIssues \in Nat
         /\ \A i \in UsedSlots : queries[i].serial \in Serials /\ queries[i].serial <= issued
         /\ \A i \in UsedSlots : Status(queries[i].serial) = IF queries[i].done THEN "answered" ELSE "pending"
<1>1. /\ queries \in [Slots -> Query] /\ issued \in 0 .. MaxIssues /\ MaxIssues \in Nat
      /\ AnswersOwn /\ SerialsOK(queries, issued)
  BY InvSplit, QueueAssumption DEF Sound, AnswersInv, TableTypes, OtherTypes
<1>2. ASSUME NEW i \in UsedSlots PROVE queries[i].serial \in 1 .. issued /\ i \in Slots
  BY <1>1 DEF SerialsOK, UsedSlots, Used
<1>3. ASSUME NEW i \in UsedSlots
      PROVE  Status(queries[i].serial) = IF queries[i].done THEN "answered" ELSE "pending"
  <2>1. \A j \in Slots : queries[j].serial = queries[i].serial => j = i
    BY <1>1, <1>2 DEF SerialsOK
  <2>2. queries[i].done => queries[i].answer = queries[i].serial
    BY <1>1, <1>2 DEF AnswersOwn
  <2> QED  BY <1>2, <2>1, <2>2, StatusHere, StatusIs
<1> QED  BY <1>1, <1>2, <1>3 DEF Serials

LEMMA DestroyServed ==
  ASSUME Sound, NEW i \in UsedSlots, Destroy(i), issued' = issued,
         NEW s, s = queries[i].serial
  PROVE  /\ SerialsOK(queries', issued')
         /\ StatusBecomes(s, "gone")
<1>1. /\ queries \in [Slots -> Query] /\ issued \in 0 .. MaxIssues /\ i \in Slots /\ Inv
      /\ SerialsOK(queries, issued) /\ queries[i].serial \in 1 .. issued
  BY SoundTable DEF Sound, AnswersInv, UsedSlots, Serials
<1>2. /\ \A j \in Slots : j # i => Kept(j) /\ queries'[j].answer = queries[j].answer
      /\ ~ queries'[i].done
  BY <1>1, DestroyKeeps
<1>3. queries'[i].serial = 0 /\ queries'[i].type = "NONE"
  BY <1>1 DEF Destroy, Unlinked, NoQuery
<1>4. SerialsOK(queries', issued')
  BY <1>1, <1>2, <1>3 DEF SerialsOK, Kept
<1>5. \A j \in Slots : queries'[j].serial # s
  BY <1>1, <1>2, <1>3 DEF SerialsOK, Kept
<1>6. Status(s)' = "gone"
  <2>1. StatusIn(queries', issued', s) = "gone"
    BY <1>1, <1>5, StatusAbsent
  <2> QED  BY <2>1, StatusIs
<1>7. ASSUME NEW n \in Serials, n # s PROVE Status(n)' = Status(n)
  <2>1. \A j \in Slots : queries[j].serial = n \/ queries'[j].serial = n =>
          /\ queries[j].serial = queries'[j].serial /\ queries[j].done = queries'[j].done
          /\ queries[j].answer = queries'[j].answer
    <3>1. n # 0
      BY DEF Serials
    <3> QED  BY <1>2, <1>3, <1>7, <3>1 DEF Kept
  <2>2. StatusIn(queries, issued, n) = StatusIn(queries', issued', n)
    BY <2>1, StatusKept
  <2> QED  BY <2>2, StatusIs
<1> QED  BY <1>4, <1>6, <1>7 DEF StatusBecomes

LEMMA CompleteServed ==
  ASSUME Sound, NEW i \in UsedSlots, NEW s, s = queries[i].serial, complete_query(i, s),
         issued' = issued
  PROVE  /\ SerialsOK(queries', issued')
         /\ StatusBecomes(s, "answered")
<1>1. /\ queries \in [Slots -> Query] /\ issued \in 0 .. MaxIssues /\ i \in Slots /\ Inv
      /\ SerialsOK(queries, issued) /\ s \in 1 .. issued /\ s \in 0 .. MaxIssues
  BY SoundTable DEF Sound, AnswersInv, UsedSlots, Serials
<1>2. /\ \A j \in Slots : j # i => Kept(j) /\ queries'[j].answer = queries[j].answer
      /\ queries'[i].done /\ queries'[i].answer = s
      /\ queries'[i].serial = queries[i].serial
  BY <1>1, CompleteKeeps
<1>3. queries'[i].type = queries[i].type
  BY <1>1 DEF complete_query, Query
<1>4. SerialsOK(queries', issued')
  BY <1>1, <1>2, <1>3 DEF SerialsOK, Kept
<1>5. Status(s)' = "answered"
  <2>1. \A j \in Slots : queries'[j].serial = s => j = i
    BY <1>1, <1>2, <1>4 DEF SerialsOK
  <2>2. StatusIn(queries', issued', s) = "answered"
    <3>1. queries'[i].serial = s /\ i \in Slots /\ s \in 1 .. issued'
      BY <1>1, <1>2
    <3>2. StatusIn(queries', issued', s) = IF ~queries'[i].done THEN "pending"
                                           ELSE IF queries'[i].answer = s THEN "answered" ELSE "wrong"
      BY <1>1, <2>1, <3>1, StatusHere
    <3> QED  BY <1>1, <1>2, <3>2
  <2> QED  BY <2>2, StatusIs
<1>6. ASSUME NEW n \in Serials, n # s PROVE Status(n)' = Status(n)
  <2>1. \A j \in Slots : queries[j].serial = n \/ queries'[j].serial = n =>
          /\ queries[j].serial = queries'[j].serial /\ queries[j].done = queries'[j].done
          /\ queries[j].answer = queries'[j].answer
    BY <1>2, <1>6 DEF Kept
  <2>2. StatusIn(queries, issued, n) = StatusIn(queries', issued', n)
    BY <1>1, <2>1, StatusKept
  <2> QED  BY <2>2, StatusIs
<1> QED  BY <1>4, <1>5, <1>6 DEF StatusBecomes

LEMMA IssueServed ==
  ASSUME Sound, NEW i \in Slots, ~Used(i), NEW s, s = issued + 1, s \in Serials,
         NEW q, q.serial = s, q.type # "NONE", q.done = FALSE,
         queries'[i] = q, \A j \in Slots : j # i => queries'[j] = queries[j],
         issued' = issued + 1
  PROVE  /\ SerialsOK(queries', issued')
         /\ Status(s) = "new" /\ StatusBecomes(s, "pending")
<1>1. /\ queries \in [Slots -> Query] /\ issued \in 0 .. MaxIssues
      /\ SerialsOK(queries, issued) /\ queries[i].serial = 0 /\ s \notin 0 .. issued
      /\ 0 .. issued \subseteq 0 .. s /\ s \in 0 .. s /\ s # 0
  BY SoundTable DEF Sound, SerialsOK, Used
<1>2. queries'[i] = q /\ \A j \in Slots : j # i => queries'[j] = queries[j]
  OBVIOUS
<1>3. SerialsOK(queries', issued')
  BY <1>1, <1>2 DEF SerialsOK
<1>4. Status(s) = "new"
  <2>1. \A j \in Slots : queries[j].serial # s
    BY <1>1 DEF SerialsOK
  <2>2. ~(s <= issued)
    BY <1>1
  <2>3. StatusIn(queries, issued, s) = "new"
    BY <2>1, <2>2, StatusAbsent
  <2> QED  BY <2>3, StatusIs
<1>5. Status(s)' = "pending"
  <2>1. \A j \in Slots : queries'[j].serial = s => j = i
    BY <1>1, <1>2 DEF SerialsOK
  <2>2. StatusIn(queries', issued', s) = "pending"
    <3>1. queries'[i].serial = s
      BY <1>1, <1>2
    <3>2. StatusIn(queries', issued', s) = IF ~queries'[i].done THEN "pending"
                                           ELSE IF queries'[i].answer = s THEN "answered" ELSE "wrong"
      BY <1>1, <2>1, <3>1, StatusHere
    <3> QED  BY <1>1, <1>2, <3>2
  <2> QED  BY <2>2, StatusIs
<1>6. ASSUME NEW n \in Serials, n # s PROVE Status(n)' = Status(n)
  <2>1. \A j \in Slots : queries[j].serial = n \/ queries'[j].serial = n =>
          /\ queries[j].serial = queries'[j].serial /\ queries[j].done = queries'[j].done
          /\ queries[j].answer = queries'[j].answer
    <3>1. n # 0
      BY DEF Serials
    <3> QED  BY <1>1, <1>2, <1>6, <3>1
  <2>2. n <= issued <=> n <= issued'
    BY <1>1, <1>6 DEF Serials
  <2>3. StatusIn(queries, issued, n) = StatusIn(queries', issued', n)
    <3> HIDE <2>1, <2>2
    <3>1. \A j \in Slots : queries'[j].serial = n \/ queries[j].serial = n =>
            /\ queries[j].serial = queries'[j].serial /\ queries[j].done = queries'[j].done
            /\ queries[j].answer = queries'[j].answer
      BY <2>1
    <3> QED  BY <2>2, <3>1, StatusKept
  <2> QED  BY <2>3, StatusIs
<1> QED  BY <1>3, <1>4, <1>5, <1>6 DEF StatusBecomes

(* A step that leaves the table alone. *)
LEMMA TableServed ==
  ASSUME Sound, UNCHANGED <<queries, issued>>
  PROVE  SerialsOK(queries', issued') /\ StatusesKept
BY StatusIs DEF Sound, StatusesKept

LEMMA FreedServed ==
  ASSUME Sound, SessionFreed
  PROVE  /\ SerialsOK(queries', issued')
         /\ \A n \in Serials : Status(n)' = IF Status(n) = "new" THEN "new" ELSE "gone"
<1>1. /\ queries \in [Slots -> Query] /\ issued \in 0 .. MaxIssues /\ SerialsOK(queries, issued)
      /\ issued' = issued
  BY SoundTable DEF Sound, SessionFreed, allocVars
<1>2. \A i \in Slots : queries'[i].serial = 0 /\ queries'[i].type = "NONE"
  BY DEF SessionFreed, NoQuery
<1>3. SerialsOK(queries', issued')
  BY <1>1, <1>2 DEF SerialsOK
<1>4. ASSUME NEW n \in Serials
      PROVE  Status(n)' = IF Status(n) = "new" THEN "new" ELSE "gone"
  <2>1. StatusIn(queries', issued', n) = IF n <= issued THEN "gone" ELSE "new"
    <3>1. \A j \in Slots : queries'[j].serial # n
      BY <1>2 DEF Serials
    <3> QED  BY <1>1, <3>1, StatusAbsent
  <2>2. CASE \E i \in UsedSlots : queries[i].serial = n
    BY <2>1, <2>2, SoundTable, StatusIs
  <2>3. CASE ~ \E i \in UsedSlots : queries[i].serial = n
    <3>1. \A j \in Slots : queries[j].serial # n
      BY <1>1, <2>3 DEF SerialsOK, UsedSlots, Used, Serials
    <3>2. StatusIn(queries, issued, n) = IF n <= issued THEN "gone" ELSE "new"
      BY <3>1, StatusAbsent
    <3> QED  BY <2>1, <3>2, StatusIs
  <2> QED  BY <2>2, <2>3
<1> QED  BY <1>3, <1>4

LEMMA ServiceBecomes ==
  ASSUME NEW n \in Serials, NEW from, NEW to, Status(n) = from, StatusBecomes(n, to)
  PROVE  Service!Becomes(n, from, to)
BY ServedBecomes DEF Service!Becomes

LEMMA SessionIs ==
  ASSUME UNCHANGED dead, call # Freed, call' # Freed
  PROVE  Session' = Session
BY DEF Session

(* The parts of a step of the session. *)
LEMMA DropServed ==
  ASSUME Sound, NEW i \in UsedSlots, Destroy(i), issued' = issued, Session' = Session
  PROVE  SerialsOK(queries', issued') /\ Service!Next
<1>1. PICK s : s = queries[i].serial
  OBVIOUS
<1>2. s \in Serials /\ Status(s) = IF queries[i].done THEN "answered" ELSE "pending"
  BY <1>1, SoundTable
<1>3. SerialsOK(queries', issued') /\ StatusBecomes(s, "gone")
  BY <1>1, DestroyServed
<1>4. Service!Becomes(s, "answered", "gone") \/ Service!Becomes(s, "pending", "gone")
  BY <1>2, <1>3, ServiceBecomes
<1> QED  BY <1>2, <1>3, <1>4 DEF Service!Next, Service!Drop

LEMMA QueryServed ==
  ASSUME Sound, NEW type \in Requests, asyncns_query(type)
  PROVE  SerialsOK(queries', issued') /\ [Service!Next]_Served
<1>1. /\ Inv /\ TypeOK /\ call = NoCall /\ issued < MaxIssues /\ UNCHANGED dead
      /\ queries \in [Slots -> Query] /\ issued \in 0 .. MaxIssues /\ MaxIssues \in Nat
  BY SoundTable DEF Sound, AnswersInv, Inv, asyncns_query
<1>2. PICK d \in 0 .. MaxQueries - 1 :
        /\ NextFree(d) /\ current_index' = SlotAfter(d)
        /\ \/ UNCHANGED <<queries, n_queries, issued, call>>
           \/ /\ queries' = [queries EXCEPT ![SlotAfter(d)] = NewQuery(type, IdAfter(d))]
              /\ issued' = issued + 1
              /\ call' = Sending([type |-> type, id |-> IdAfter(d), serial |-> issued + 1],
                                 SlotAfter(d))
  BY DEF asyncns_query
<1>3. call # Freed
  BY <1>1, CallTypes
<1>4. CASE UNCHANGED <<queries, n_queries, issued, call>>
  <2>1. SerialsOK(queries', issued') /\ StatusesKept /\ Session' = Session
    BY <1>1, <1>3, <1>4, TableServed, SessionIs
  <2> QED  BY <2>1, ServedSame
<1>5. CASE /\ queries' = [queries EXCEPT ![SlotAfter(d)] = NewQuery(type, IdAfter(d))]
           /\ issued' = issued + 1
           /\ call' = Sending([type |-> type, id |-> IdAfter(d), serial |-> issued + 1],
                              SlotAfter(d))
  <2>1. PICK i : i = SlotAfter(d)
    OBVIOUS
  <2>2. PICK q : q = NewQuery(type, IdAfter(d))
    OBVIOUS
  <2>3. PICK s : s = issued + 1
    OBVIOUS
  <2>4. i \in Slots /\ ~Used(i)
    <3>1. Inv'
      BY <1>1, NextInv, IssueInv
    <3> QED  BY <1>2, <2>1, <3>1 DEF Inv, TypeOK, NextFree
  <2>5. q.serial = s /\ q.type # "NONE" /\ q.done = FALSE
    BY <2>2, <2>3 DEF NewQuery, NoQuery, Requests
  <2>6. queries'[i] = q /\ \A j \in Slots : j # i => queries'[j] = queries[j]
    BY <1>1, <1>5, <2>1, <2>2, <2>4
  <2>7. s \in Serials
    BY <1>1, <2>3 DEF Serials
  <2>8. SerialsOK(queries', issued') /\ Status(s) = "new" /\ StatusBecomes(s, "pending")
    BY <1>5, <2>3, <2>4, <2>5, <2>6, <2>7, IssueServed
  <2>9. Service!Becomes(s, "new", "pending")
    BY <2>7, <2>8, ServiceBecomes
  <2>10. call' # Freed
    BY <1>5, CallTypes DEF Freed, Sending
  <2>11. Session' = Session /\ Session # "freed"
    BY <1>1, <1>3, <2>10, SessionIs DEF Session
  <2> QED  BY <2>7, <2>8, <2>9, <2>11 DEF Service!Next, Service!Issue
<1> QED  BY <1>2, <1>4, <1>5

LEMMA WaitServed ==
  ASSUME Sound, WaitTurn
  PROVE  SerialsOK(queries', issued') /\ [Service!Next]_Served
<1>1. /\ AnswersInv /\ Inv /\ call.op = "wait" /\ UNCHANGED issued
      /\ call' \in {NoCall, Waiting(call.block, TRUE)}
  BY DEF Sound, AnswersInv, WaitTurn, allocVars
<1>2. call # Freed /\ call' # Freed
  BY <1>1, CallTypes DEF Freed, Waiting
<1>3. CASE UNCHANGED <<tableVars, dead, responses, aborted>>
  <2>1. SerialsOK(queries', issued') /\ StatusesKept /\ Session' = Session
    BY <1>1, <1>2, <1>3, TableServed, SessionIs DEF tableVars
  <2> QED  BY <2>1, ServedSame
<1>4. CASE /\ ~dead /\ responses # <<>> /\ handle_response(Head(responses))
  <2> DEFINE m == Head(responses)
             i == m.id % MaxQueries
  <2>1. Session = "up"
    BY <1>2, <1>4 DEF Session
  <2>2. CASE m.type = "DIED"
    <3>1. UNCHANGED queries /\ dead' = TRUE
      BY <1>4, <2>2 DEF handle_response, tableVars
    <3>2. SerialsOK(queries', issued') /\ StatusesKept
      BY <1>1, <3>1, TableServed
    <3>3. Session' = "dead"
      BY <1>2, <3>1 DEF Session
    <3>4. [n \in Serials |-> Status(n)]' = [n \in Serials |-> Status(n)]
      BY <3>2 DEF StatusesKept
    <3> QED  BY <2>1, <3>2, <3>3, <3>4 DEF Service!Next, Service!Die
  <2>3. CASE m.type # "DIED"
    <3>1. /\ Asked(m) /\ m \in Message /\ i \in UsedSlots
          /\ lookup_query(m.id) = {i} /\ Expected(i, m)
          /\ queries[i].serial = m.serial
      BY <1>1, <1>4, <2>3, ResponseFound
    <3>2. complete_query(i, m.serial) /\ UNCHANGED dead
      BY <1>4, <2>3, <3>1 DEF handle_response
    <3>3. ~queries[i].done
      BY <3>1 DEF Expected
    <3>4. PICK j \in UsedSlots : j = i
      BY <3>1
    <3>5. PICK s : s = m.serial
      OBVIOUS
    <3>6. s = queries[j].serial /\ complete_query(j, s) /\ ~queries[j].done
      BY <3>1, <3>2, <3>3, <3>4, <3>5
    <3> HIDE DEF m, i
    <3>7. s \in Serials /\ Status(s) = "pending"
      BY <3>6, SoundTable
    <3>8. SerialsOK(queries', issued') /\ StatusBecomes(s, "answered")
      BY <1>1, <3>6, CompleteServed
    <3>9. Service!Becomes(s, "pending", "answered")
      BY <3>7, <3>8, ServiceBecomes
    <3>10. Session' = Session
      BY <1>2, <3>2, SessionIs
    <3> QED  BY <2>1, <3>7, <3>8, <3>9, <3>10 DEF Service!Next, Service!Answer
  <2> QED  BY <2>2, <2>3
<1> QED  BY <1>3, <1>4 DEF WaitTurn

(* Every step of the session is one of the service, or none. *)
LEMMA ServedStep ==
  ASSUME ~CancelsPending, Sound, [Next]_vars
  PROVE  SerialsOK(queries', issued') /\ [Service!Next]_Served
<1>1. AnswersInv /\ Inv
  BY DEF Sound, AnswersInv
<1>2. ASSUME UNCHANGED <<queries, issued, dead>>, call = Freed <=> call' = Freed
      PROVE  SerialsOK(queries', issued') /\ [Service!Next]_Served
  <2>1. SerialsOK(queries', issued') /\ StatusesKept /\ Session' = Session
    BY <1>2, TableServed DEF Session
  <2> QED  BY <2>1, ServedSame
<1>3. CASE UNCHANGED vars
  BY <1>2, <1>3 DEF vars, tableVars, allocVars
<1>4. CASE asyncns_getaddrinfo \/ asyncns_getnameinfo \/ asyncns_res
  <2>1. \E type \in Requests : asyncns_query(type)
    BY <1>4 DEF asyncns_getaddrinfo, asyncns_getnameinfo, asyncns_res, Requests
  <2> QED BY <2>1, QueryServed
<1>5. ASSUME NEW i \in Slots,
             \/ asyncns_getaddrinfo_done(i) \/ asyncns_getnameinfo_done(i)
             \/ asyncns_res_done(i) \/ asyncns_cancel(i)
      PROVE  SerialsOK(queries', issued') /\ [Service!Next]_Served
  <2>1. i \in UsedSlots /\ Destroy(i) /\ UNCHANGED <<call, issued, dead>>
    BY <1>5 DEF asyncns_getaddrinfo_done, asyncns_getnameinfo_done, asyncns_res_done,
       asyncns_cancel, Take, UsedSlots, allocVars
  <2>2. Session' = Session
    BY <2>1 DEF Session
  <2> QED  BY <2>1, <2>2, DropServed
<1>6. CASE (\E block \in BOOLEAN : asyncns_wait(block)) \/ asyncns_free \/ TerminateSent
  <2>1. UNCHANGED <<queries, issued, dead>> /\ call # Freed /\ call' # Freed
    BY <1>6, CallTypes DEF asyncns_wait, asyncns_free, TerminateSent, tableVars, allocVars,
       Freed, Waiting, Freeing
  <2> QED  BY <1>2, <2>1
<1>7. CASE RequestSent
  <2>1. /\ call.op = "send" /\ call' = NoCall /\ UNCHANGED <<issued, dead>>
        /\ call # Freed /\ call' # Freed
    BY <1>7, CallTypes DEF RequestSent, allocVars
  <2>2. CASE UNCHANGED tableVars
    BY <1>2, <2>1, <2>2 DEF tableVars
  <2>3. CASE Destroy(call.slot)
    <3>1. call.slot \in UsedSlots
      BY <1>1, <2>1, InvSplit, CallFields DEF SendingUsed, UsedSlots
    <3>2. PICK i \in UsedSlots : i = call.slot
      BY <3>1
    <3>3. Destroy(i)
      BY <2>3, <3>2
    <3> QED  BY <2>1, <3>3, SessionIs, DropServed
  <2> QED  BY <1>7, <2>2, <2>3 DEF RequestSent
<1>8. CASE SessionFreed
  <2>1. /\ SerialsOK(queries', issued')
        /\ \A n \in Serials : Status(n)' = IF Status(n) = "new" THEN "new" ELSE "gone"
    BY <1>8, FreedServed
  <2>2. Session # "freed" /\ Session' = "freed"
    BY <1>8, CallTypes DEF SessionFreed, Session
  <2>3. [n \in Serials |-> Status(n)]'
          = [n \in Serials |-> IF [k \in Serials |-> Status(k)][n] = "new" THEN "new" ELSE "gone"]
    BY <2>1
  <2> QED  BY <2>1, <2>2, <2>3 DEF Service!Next, Service!Free
<1>9. ASSUME NEW w \in Workers, Worker(w) \/ WorkerFails(w) \/ WorkerCrashes(w)
      PROVE  SerialsOK(queries', issued') /\ [Service!Next]_Served
  BY <1>2, <1>9 DEF Worker, WorkerReceives, handle_request, send_died, WorkerFails, WorkerCrashes,
     tableVars, allocVars
<1>10. CASE WaitTurn
  BY <1>10, WaitServed
<1> QED  BY <1>3, <1>4, <1>5, <1>6, <1>7, <1>8, <1>9, <1>10 DEF Next, Caller, Returns

(* Every behaviour of a session whose caller cancels no query before it is *)
(* done is one of the service that asyncns.h promises: a query is answered *)
(* at most once, with its own answer, only while the session is up, and    *)
(* one that was dropped is never answered any more.                        *)
THEOREM ServesQueries ==
  ASSUME ~CancelsPending
  PROVE  Spec => Service!Spec
<1>1. Init => Sound /\ Service!Init
  <2> SUFFICES ASSUME Init PROVE Service!Init
    BY InitSound
  <2>1. issued = 0 /\ \A i \in Slots : queries[i].serial = 0
    BY DEF Init, asyncns_new, NoQuery
  <2>2. ASSUME NEW n \in Serials PROVE Status(n) = "new"
    <3>1. \A i \in Slots : queries[i].serial # n
      BY <2>1 DEF Serials
    <3>2. ~(n <= issued)
      BY <2>1, QueueAssumption DEF Serials
    <3> QED  BY <3>1, <3>2, StatusAbsent, StatusIs
  <2>3. Session = "up"
    BY CallTypes DEF Init, asyncns_new, Session
  <2> QED  BY <2>2, <2>3 DEF Service!Init
<1>2. Sound /\ [Next]_vars => Sound' /\ [Service!Next]_Served
  <2> SUFFICES ASSUME Sound, [Next]_vars PROVE Sound' /\ [Service!Next]_Served
    OBVIOUS
  <2>1. SerialsOK(queries', issued') /\ [Service!Next]_Served
    BY ServedStep
  <2>2. AnswersInv'
    BY NextAnswers DEF Sound
  <2> QED  BY <2>1, <2>2 DEF Sound
<1> QED  BY <1>1, <1>2, PTL DEF Spec, Service!Spec, Service!svars, Served
=============================================================================
