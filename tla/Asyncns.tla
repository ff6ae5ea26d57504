------------------------------ MODULE Asyncns ------------------------------
(***************************************************************************)
(* A libasyncns session (src/asyncns.c), as the library builds it: the     *)
(* calling process keeps a table of queries and talks to forked workers    *)
(* over two pairs of blocking datagram sockets, one for requests and one   *)
(* for responses.  A message is matched to its query by the id, of which   *)
(* the low part is the query's slot in the table.                          *)
(*                                                                         *)
(* The caller and the workers interleave; a caller's function is atomic    *)
(* but where it can block: in send(), and between two turns of the loop of *)
(* asyncns_wait.                                                           *)
(***************************************************************************)
EXTENDS Integers, Sequences, FiniteSets

CONSTANTS
  Workers,         \* the n_proc of asyncns_new
  MaxQueries,      \* MAX_QUERIES
  IdSpan,          \* how many ids there are (2^32, the width of unsigned)
  QueueLen,        \* datagrams a socket holds before send() blocks
  Kinds,           \* the requests the caller issues
  MaxIssues,       \* bound: queries issued
  CancelsPending,  \* the caller cancels queries that are not done
  WorkersLeave,    \* a worker may fail and leave through send_died
  WorkersCrash     \* a worker may end without a word

Requests == {"ADDRINFO", "NAMEINFO", "RES_QUERY", "RES_SEARCH"}
Replies  == {"ADDRINFO", "NAMEINFO", "RES"}

ASSUME TableAssumption ==
  /\ MaxQueries \in Nat \ {0}
  /\ IdSpan \in Nat \ {0} /\ IdSpan % MaxQueries = 0
ASSUME QueueAssumption == QueueLen \in Nat \ {0} /\ MaxIssues \in Nat
ASSUME WorkersAssumption == IsFiniteSet(Workers) /\ Workers # {}
ASSUME RegimeAssumption ==
  /\ Kinds \subseteq Requests /\ CancelsPending \in BOOLEAN
  /\ WorkersLeave \in BOOLEAN /\ WorkersCrash \in BOOLEAN

Slots   == 0 .. MaxQueries - 1
Ids     == 0 .. IdSpan - 1
Serials == 1 .. MaxIssues      \* names the calls that issue a query
NIL     == -1                  \* the NULL of a pointer to a query

VARIABLES
  queries,        \* the table; a free slot holds NoQuery
  n_queries,
  current_id,
  current_index,
  done_head,      \* the list of completed queries
  done_tail,
  dead,
  requests,       \* datagrams on their way to the workers
  responses,      \* datagrams on their way back
  worker,         \* what each worker does
  call,           \* the function the caller is in
  issued,         \* history: queries issued so far
  aborted         \* an assert() of handle_response has failed

tableVars == <<queries, n_queries, done_head, done_tail>>
allocVars == <<current_id, current_index, issued>>
vars == <<tableVars, allocVars, dead, requests, responses, worker, call, aborted>>

-----------------------------------------------------------------------------
(* A query remembers by its serial which call issued it, and a message the *)
(* serial of the request it comes from; the code has only the id.          *)
NoQuery == [type |-> "NONE", id |-> 0, done |-> FALSE, serial |-> 0, answer |-> 0,
            done_next |-> NIL, done_prev |-> NIL]
Query == [type : Requests \cup {"NONE"}, id : Ids, done : BOOLEAN, serial : 0 .. MaxIssues,
          answer : 0 .. MaxIssues, done_next : Slots \cup {NIL}, done_prev : Slots \cup {NIL}]
Used(i) == queries[i].type # "NONE"

Message == [type : Requests \cup Replies \cup {"TERMINATE", "DIED"}, id : Ids,
            serial : 0 .. MaxIssues]
TERMINATE == [type |-> "TERMINATE", id |-> 0, serial |-> 0]
DIED      == [type |-> "DIED", id |-> 0, serial |-> 0]

ReplyType(type) == IF type \in {"RES_QUERY", "RES_SEARCH"} THEN "RES" ELSE type

Idle == [op |-> "idle"]                          \* a worker in recv()
Busy(m) == [op |-> "busy", job |-> m]            \* in the lookup, or in send()
Leaving == [op |-> "leaving"]                    \* in send_died
Gone == [op |-> "gone"]
WorkerStates == {Idle, Leaving, Gone} \cup [op : {"busy"}, job : Message]

NoCall == [op |-> "none"]
Sending(m, i) == [op |-> "send", msg |-> m, slot |-> i]
Waiting(b, h) == [op |-> "wait", block |-> b, handled |-> h]
Freeing(n) == [op |-> "free", left |-> n]        \* TERMINATE messages still to send
Freed == [op |-> "freed"]
Calls == {NoCall, Freed} \cup [op : {"send"}, msg : Message, slot : Slots]
           \cup [op : {"wait"}, block : BOOLEAN, handled : BOOLEAN]
           \cup [op : {"free"}, left : 0 .. Cardinality(Workers)]

TypeOK ==
  /\ queries \in [Slots -> Query]
  /\ n_queries \in 0 .. MaxQueries
  /\ current_id \in Ids /\ current_index \in Slots
  /\ done_head \in Slots \cup {NIL} /\ done_tail \in Slots \cup {NIL}
  /\ dead \in BOOLEAN
  /\ requests \in Seq(Message) /\ responses \in Seq(Message)
  /\ worker \in [Workers -> WorkerStates]
  /\ call \in Calls
  /\ issued \in 0 .. MaxIssues
  /\ aborted \in BOOLEAN

asyncns_new ==
  /\ queries = [i \in Slots |-> NoQuery]
  /\ n_queries = 0
  /\ current_id = 0 /\ current_index = 0
  /\ done_head = NIL /\ done_tail = NIL
  /\ dead = FALSE

Init ==
  /\ asyncns_new
  /\ requests = <<>> /\ responses = <<>>
  /\ worker = [w \in Workers |-> Idle]
  /\ call = NoCall
  /\ issued = 0
  /\ aborted = FALSE

-----------------------------------------------------------------------------
(* The socket pairs *)

HasRoom(queue) == Len(queue) < QueueLen

(* Mutant: the caller keeps the far end open, so send() waits for ever. *)
FarEndOpen == FALSE

(* The caller has closed its copy of the request socket's far end: once    *)
(* every worker is gone, send() fails.                                     *)
Refused == \A w \in Workers : worker[w] = Gone

-----------------------------------------------------------------------------
(* Issuing a query *)

(* Mutant: the id does not follow the index. *)
IdStays(d) == current_id

SlotAfter(d) == (current_index + d) % MaxQueries
IdAfter(d)   == (current_id + d) % IdSpan

(* alloc_query walks from the slot it used last to the next free one. *)
NextFree(d) ==
  /\ ~ Used(SlotAfter(d))
  /\ \A e \in 0 .. d - 1 : Used(SlotAfter(e))

NewQuery(type, id) == [NoQuery EXCEPT !.type = type, !.id = id, !.serial = issued + 1]

asyncns_query(type) ==
  /\ call = NoCall /\ ~ dead
  /\ n_queries < MaxQueries /\ issued < MaxIssues
  /\ \E d \in 0 .. MaxQueries - 1 :
       /\ NextFree(d)
       /\ current_index' = SlotAfter(d)
       /\ current_id' = IdAfter(d)
       /\ \/ UNCHANGED <<queries, n_queries, issued, call>>   \* too long, or no memory
          \/ /\ queries' = [queries EXCEPT ![SlotAfter(d)] = NewQuery(type, IdAfter(d))]
             /\ n_queries' = n_queries + 1
             /\ issued' = issued + 1
             /\ call' = Sending([type |-> type, id |-> IdAfter(d), serial |-> issued + 1],
                                SlotAfter(d))
  /\ UNCHANGED <<done_head, done_tail, dead, requests, responses, worker, aborted>>

asyncns_getaddrinfo == "ADDRINFO" \in Kinds /\ asyncns_query("ADDRINFO")
asyncns_getnameinfo == "NAMEINFO" \in Kinds /\ asyncns_query("NAMEINFO")
asyncns_res == \E type \in Kinds \cap {"RES_QUERY", "RES_SEARCH"} : asyncns_query(type)

(* Mutant: the successor keeps its pointer to the query that is removed. *)
UnlinkedForward(i, j) ==
  LET q == queries[i]
  IN  IF j = i THEN NoQuery
      ELSE IF q.done
        THEN [queries[j] EXCEPT !.done_next = IF j = q.done_prev THEN q.done_next ELSE @]
        ELSE queries[j]

(* asyncns_cancel: out of the list of completed queries, out of the table. *)
Unlinked(i, j) ==
  LET q == queries[i]
      p == queries[j]
  IN  IF j = i THEN NoQuery
      ELSE IF q.done
        THEN [p EXCEPT !.done_next = IF j = q.done_prev THEN q.done_next ELSE @,
                       !.done_prev = IF j = q.done_next THEN q.done_prev ELSE @]
        ELSE p

Destroy(i) ==
  /\ queries' = [j \in Slots |-> Unlinked(i, j)]
  /\ done_head' = IF queries[i].done /\ queries[i].done_prev = NIL
                    THEN queries[i].done_next ELSE done_head
  /\ done_tail' = IF queries[i].done /\ queries[i].done_next = NIL
                    THEN queries[i].done_prev ELSE done_tail
  /\ n_queries' = n_queries - 1

(* The send() of a request returns. *)
RequestSent ==
  /\ call.op = "send"
  /\ call' = NoCall
  /\ \/ /\ HasRoom(requests) /\ ~ Refused
        /\ requests' = Append(requests, call.msg)
        /\ UNCHANGED tableVars
     \/ /\ Refused
        /\ Destroy(call.slot)
        /\ UNCHANGED requests
  /\ UNCHANGED <<allocVars, dead, responses, worker, aborted>>

asyncns_cancel(i) ==
  /\ call = NoCall /\ Used(i)
  /\ queries[i].done \/ CancelsPending
  /\ Destroy(i)
  /\ UNCHANGED <<allocVars, dead, requests, responses, worker, call, aborted>>

(* Mutant: a query that is not completed yet is destroyed all the same. *)
TakeAnyway(i) ==
  /\ call = NoCall /\ Used(i)
  /\ ~ dead
  /\ Destroy(i)
  /\ UNCHANGED <<allocVars, dead, requests, responses, worker, call, aborted>>

(* The *_done functions give the answer out and destroy the query.  They   *)
(* assert its type; a dead session and a query that is not done change     *)
(* nothing.                                                                *)
Take(i) ==
  /\ call = NoCall /\ Used(i)
  /\ ~ dead /\ queries[i].done
  /\ Destroy(i)
  /\ UNCHANGED <<allocVars, dead, requests, responses, worker, call, aborted>>

asyncns_getaddrinfo_done(i) == queries[i].type = "ADDRINFO" /\ Take(i)
asyncns_getnameinfo_done(i) == queries[i].type = "NAMEINFO" /\ Take(i)
asyncns_res_done(i) == queries[i].type \in {"RES_QUERY", "RES_SEARCH"} /\ Take(i)

-----------------------------------------------------------------------------
(* Collecting responses *)

lookup_query(id) == {i \in {id % MaxQueries} : Used(i) /\ queries[i].id = id}

(* Mutant: the query is put at the head of the list. *)
CompletesAtHead(i, answer) ==
  /\ queries' = [j \in Slots |->
       CASE j = i         -> [queries[i] EXCEPT !.done = TRUE, !.answer = answer,
                                !.done_prev = NIL, !.done_next = done_head]
         [] j # i /\ j = done_head -> [queries[j] EXCEPT !.done_prev = i]
         [] OTHER         -> queries[j]]
  /\ done_tail' = IF done_head = NIL THEN i ELSE done_tail
  /\ done_head' = i

(* Mutant: the last query of the list is not linked to its new successor. *)
CompletesUnlinked(i, answer) ==
  /\ queries' = [queries EXCEPT ![i] = [@ EXCEPT !.done = TRUE, !.answer = answer,
                                         !.done_prev = done_tail, !.done_next = NIL]]
  /\ done_head' = IF done_tail = NIL THEN i ELSE done_head
  /\ done_tail' = i

complete_query(i, answer) ==
  /\ queries' = [j \in Slots |->
       CASE j = i         -> [queries[i] EXCEPT !.done = TRUE, !.answer = answer,
                                !.done_prev = done_tail, !.done_next = NIL]
         [] j # i /\ j = done_tail -> [queries[j] EXCEPT !.done_next = i]
         [] OTHER         -> queries[j]]
  /\ done_head' = IF done_tail = NIL THEN i ELSE done_head
  /\ done_tail' = i

(* The asserts: the query is of the response's type, and not done yet. *)
Expected(i, m) == ReplyType(queries[i].type) = m.type /\ ~ queries[i].done

handle_response(m) ==
  \/ /\ m.type = "DIED"
     /\ dead' = TRUE
     /\ UNCHANGED <<tableVars, aborted>>
  \/ /\ m.type # "DIED" /\ lookup_query(m.id) = {}
     /\ UNCHANGED <<tableVars, dead, aborted>>
  \/ /\ m.type # "DIED"
     /\ \E i \in lookup_query(m.id) :
          \/ Expected(i, m) /\ complete_query(i, m.serial) /\ UNCHANGED aborted
          \/ ~ Expected(i, m) /\ aborted' = TRUE /\ UNCHANGED <<queries, done_head, done_tail>>
     /\ UNCHANGED <<n_queries, dead>>

asyncns_wait(block) ==
  /\ call = NoCall
  /\ call' = Waiting(block, FALSE)
  /\ UNCHANGED <<tableVars, allocVars, dead, requests, responses, worker, aborted>>

(* One turn of the loop.  With nothing to receive a blocking call stays in *)
(* select() until it has handled a response.                               *)
WaitTurn ==
  /\ call.op = "wait"
  /\ \/ /\ dead \/ (responses = <<>> /\ (call.block => call.handled))
        /\ call' = NoCall
        /\ UNCHANGED <<tableVars, dead, responses, aborted>>
     \/ /\ ~ dead /\ responses # <<>>
        /\ responses' = Tail(responses)
        /\ call' = Waiting(call.block, TRUE)
        /\ handle_response(Head(responses))
  /\ UNCHANGED <<allocVars, requests, worker>>

-----------------------------------------------------------------------------
(* The workers: process_worker *)

WorkerReceives(w) ==
  /\ worker[w] = Idle /\ requests # <<>>
  /\ requests' = Tail(requests)
  /\ worker' = [worker EXCEPT ![w] =
                  IF Head(requests).type = "TERMINATE" THEN Leaving ELSE Busy(Head(requests))]
  /\ UNCHANGED <<tableVars, allocVars, dead, responses, call, aborted>>

Reply(m) == [m EXCEPT !.type = ReplyType(@)]

(* Mutant: a lookup that is no getaddrinfo is not answered. *)
AnswersAddrinfoOnly(w) ==
  /\ worker[w].op = "busy" /\ HasRoom(responses)
  /\ responses' = IF worker[w].job.type = "ADDRINFO"
                    THEN Append(responses, Reply(worker[w].job)) ELSE responses
  /\ worker' = [worker EXCEPT ![w] = Idle]
  /\ UNCHANGED <<tableVars, allocVars, dead, requests, call, aborted>>

(* The lookup has returned and there is room for its result. *)
handle_request(w) ==
  /\ worker[w].op = "busy" /\ HasRoom(responses)
  /\ responses' = Append(responses, Reply(worker[w].job))
  /\ worker' = [worker EXCEPT ![w] = Idle]
  /\ UNCHANGED <<tableVars, allocVars, dead, requests, call, aborted>>

(* Setting up, receiving or the send() of a reply fails; the reply is lost *)
(* with the worker.                                                        *)
WorkerFails(w) ==
  /\ WorkersLeave /\ (worker[w] = Idle \/ worker[w].op = "busy")
  /\ worker' = [worker EXCEPT ![w] = Leaving]
  /\ UNCHANGED <<tableVars, allocVars, dead, requests, responses, call, aborted>>

send_died(w) ==
  /\ worker[w] = Leaving /\ HasRoom(responses)
  /\ responses' = Append(responses, DIED)
  /\ worker' = [worker EXCEPT ![w] = Gone]
  /\ UNCHANGED <<tableVars, allocVars, dead, requests, call, aborted>>

WorkerCrashes(w) ==
  /\ WorkersCrash /\ worker[w] # Gone
  /\ worker' = [worker EXCEPT ![w] = Gone]
  /\ UNCHANGED <<tableVars, allocVars, dead, requests, responses, call, aborted>>

-----------------------------------------------------------------------------
(* asyncns_free: a TERMINATE for each worker, then everything is closed,   *)
(* the workers are killed and the queries cancelled.                       *)

asyncns_free ==
  /\ call = NoCall
  /\ call' = Freeing(Cardinality(Workers))
  /\ UNCHANGED <<tableVars, allocVars, dead, requests, responses, worker, aborted>>

(* Mutant: the loop over the workers runs once too often. *)
TerminateOneMore ==
  /\ call.op = "free" /\ call.left >= 0
  /\ call' = Freeing(call.left - 1)
  /\ \/ HasRoom(requests) /\ ~ Refused /\ requests' = Append(requests, TERMINATE)
     \/ Refused /\ UNCHANGED requests
  /\ UNCHANGED <<tableVars, allocVars, dead, responses, worker, aborted>>

TerminateSent ==
  /\ call.op = "free" /\ call.left > 0
  /\ call' = Freeing(call.left - 1)
  /\ \/ HasRoom(requests) /\ ~ Refused /\ requests' = Append(requests, TERMINATE)
     \/ Refused /\ UNCHANGED requests
  /\ UNCHANGED <<tableVars, allocVars, dead, responses, worker, aborted>>

SessionFreed ==
  /\ call.op = "free" /\ call.left = 0
  /\ call' = Freed
  /\ requests' = <<>> /\ responses' = <<>>
  /\ worker' = [w \in Workers |-> Gone]
  /\ queries' = [i \in Slots |-> NoQuery]
  /\ n_queries' = 0 /\ done_head' = NIL /\ done_tail' = NIL
  /\ UNCHANGED <<allocVars, dead, aborted>>

-----------------------------------------------------------------------------
Caller ==
  \/ asyncns_getaddrinfo \/ asyncns_getnameinfo \/ asyncns_res
  \/ \E i \in Slots :
       \/ asyncns_getaddrinfo_done(i) \/ asyncns_getnameinfo_done(i) \/ asyncns_res_done(i)
       \/ asyncns_cancel(i)
  \/ \E block \in BOOLEAN : asyncns_wait(block)
  \/ asyncns_free

Returns == RequestSent \/ WaitTurn \/ TerminateSent \/ SessionFreed

Worker(w) == WorkerReceives(w) \/ handle_request(w) \/ send_died(w)

Next == /\ ~ aborted
        /\ \/ Caller \/ Returns
           \/ \E w \in Workers : Worker(w) \/ WorkerFails(w) \/ WorkerCrashes(w)

Spec == Init /\ [][Next]_vars

(* Calls return and workers work.  The caller's main loop watches the      *)
(* response socket (asyncns_fd) and calls asyncns_wait when it is ready,   *)
(* in every poll until it is drained: hence strong fairness.               *)
Fairness ==
  /\ WF_vars(~ aborted /\ Returns)
  /\ \A w \in Workers : WF_vars(~ aborted /\ Worker(w))
  /\ SF_vars(~ aborted /\ responses # <<>> /\ asyncns_wait(FALSE))

FairSpec == Spec /\ Fairness

-----------------------------------------------------------------------------
(* Properties *)

(* The table, the counters and the ids agree, also after current_id has    *)
(* wrapped around: the slot of a query follows from its id, n_queries is   *)
(* the number of queries, and the walk of alloc_query keeps the id in step *)
(* with the index.  asyncns_cancel asserts the first (asyncns.c:1435).     *)
TableConsistent ==
  /\ \A i \in Slots : Used(i) => queries[i].id % MaxQueries = i
  /\ n_queries = Cardinality({i \in Slots : Used(i)})
  /\ current_index = current_id % MaxQueries

(* The query k links behind the head of the list of completed queries, and *)
(* the one k links before its tail; NIL past the end.                      *)
Forward[k \in 0 .. MaxQueries] ==
  IF k = 0 THEN done_head
  ELSE IF Forward[k - 1] = NIL THEN NIL ELSE queries[Forward[k - 1]].done_next
Backward[k \in 0 .. MaxQueries] ==
  IF k = 0 THEN done_tail
  ELSE IF Backward[k - 1] = NIL THEN NIL ELSE queries[Backward[k - 1]].done_prev

Completed == {i \in Slots : queries[i].done}

(* Whatever is completed, taken and cancelled in whatever order, the list  *)
(* holds each completed query once and no other, in both directions.       *)
DoneListExact ==
  LET n == Cardinality(Completed)
  IN  /\ {Forward[k] : k \in 0 .. n - 1} = Completed
      /\ \A k \in 0 .. n - 1 : Backward[k] = Forward[n - 1 - k]
      /\ Forward[n] = NIL /\ Backward[n] = NIL

(* One worker answers in the order of the questions: asyncns_getnext hands *)
(* the queries out first in, first out, however slots and ids are reused.  *)
FirstInFirstOut ==
  Cardinality(Workers) = 1 =>
    \A j, k \in 0 .. Cardinality(Completed) - 1 :
      j < k => queries[Forward[j]].serial < queries[Forward[k]].serial

(* A completed query has the answer to the question it was issued with:    *)
(* no response reaches the query that took over its id.                    *)
AnswersOwn == \A i \in Slots : queries[i].done => queries[i].answer = queries[i].serial

(* The assertions of handle_response (asyncns.c:986, 1019, 1041) and       *)
(* complete_query (895) hold: a response finds a query of its own type     *)
(* that has not been completed.                                            *)
AssertionsHold == ~ aborted

(* Everybody waits for everybody: the caller for room among the requests,  *)
(* which only the workers take, and each worker that is left for room      *)
(* among the responses, which only the caller takes.                       *)
BlockedByEachOther ==
  /\ call.op = "send" \/ (call.op = "free" /\ call.left > 0)
  /\ ~ HasRoom(requests) /\ ~ HasRoom(responses) /\ ~ Refused
  /\ \A w \in Workers : worker[w] # Idle

Unanswered == {i \in Slots : Used(i) /\ ~ queries[i].done}

(* A caller that is sending gets out of send() again, also when workers    *)
(* leave, unless it and the workers block each other for ever.  With one   *)
(* worker, as a resolver's session has, that takes two full sockets of     *)
(* queries without an answer.                                              *)
CallsReturn ==
  call.op \in {"send", "free"} ~>
    \/ call.op \in {"none", "freed"}
    \/ BlockedByEachOther /\ (Cardinality(Workers) = 1 =>
                                Cardinality(Unanswered) >= 2 * QueueLen)

(* The session does what asyncns.h promises.                               *)
Slot(n) == {i \in Slots : queries[i].serial = n}
Status(n) ==
  IF Slot(n) = {} THEN IF n <= issued THEN "gone" ELSE "new"
  ELSE LET q == queries[CHOOSE i \in Slot(n) : TRUE]
       IN  IF ~ q.done THEN "pending" ELSE IF q.answer = n THEN "answered" ELSE "wrong"
Session == IF call = Freed THEN "freed" ELSE IF dead THEN "dead" ELSE "up"
Served  == <<[n \in Serials |-> Status(n)], Session>>
Service == INSTANCE QueryService WITH
  status <- [n \in Serials |-> Status(n)], session <- Session, stuck <- BlockedByEachOther
ImplementsService == Service!FairSpec
=============================================================================
