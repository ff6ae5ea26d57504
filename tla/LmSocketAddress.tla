--------------------------- MODULE LmSocketAddress ---------------------------
(***************************************************************************)
(* LmSocketAddress and its iterator (src/lm-socket-address.c), with those  *)
(* that share one address: sockets, which keep a reference for all their   *)
(* life and walk over the results (src/lm-socket.c), and lookups, which    *)
(* keep one until they have finished and replace the results.  There is    *)
(* one iterator for all of them.  Everything runs in one thread; a socket  *)
(* waits for the network between two results.                              *)
(***************************************************************************)
EXTENDS Integers, Sequences, FiniteSets

CONSTANTS
  Sockets,
  MaxResults,  \* bound: entries of a result list
  MaxLookups   \* bound: lookups started

Oneself == "client"    \* who looks up: a socket, or the client itself

ASSUME AddressAssumption == MaxResults \in Nat \ {0} /\ MaxLookups \in Nat
ASSUME SocketsAssumption == IsFiniteSet(Sockets) /\ Oneself \notin Sockets

VARIABLES
  turns,    \* the client lets one socket walk at a time, and closes one before it connects again
  refs,     \* of the address; 0: freed
  client,   \* one of them is the client's
  results,  \* the list set last, 0 for none
  length,   \* of each list that was ever set, its number of entries
  freed,    \* the lists that were freed
  iter,     \* the one iterator: its current entry, or End (current = NULL)
  walk,     \* of each socket, what it is at
  given,    \* history, if they take turns: the entries each has got since it rewound
  lookups   \* those for whom a lookup is under way

addressVars == <<turns, refs, client, results, length, freed, iter, walk, given, lookups>>

End     == <<0, 0>>
Lists   == 1 .. Len(length)
Entries == Lists \X (1 .. MaxResults)

(* "rewind": sa_iter is NULL.  "looking": it waits for its lookup.         *)
(* "walking": it tries to connect.  "at_end": all were tried.  "gone": it  *)
(* was finalized.                                                          *)
States == {"rewind", "looking", "walking", "connected", "at_end", "gone"}

AddressTypeOK ==
  /\ turns \in BOOLEAN /\ client \in BOOLEAN /\ refs \in Nat
  /\ length \in Seq(1 .. MaxResults) /\ results \in {0} \cup Lists
  /\ freed \subseteq Lists
  /\ iter = End \/ (iter \in Entries /\ iter[2] <= length[iter[1]])
  /\ walk \in [Sockets -> States]
  /\ given \in [Sockets -> Seq(Entries)]
  /\ lookups \subseteq Sockets \cup {Oneself}

(* The client has made the address and sockets for it. *)
AddressInit ==
  /\ turns \in BOOLEAN
  /\ refs = 1 + Cardinality(Sockets) /\ client = TRUE
  /\ results = 0 /\ length = <<>> /\ freed = {}
  /\ iter = End
  /\ walk = [s \in Sockets |-> "rewind"]
  /\ given = [s \in Sockets |-> <<>>]
  /\ lookups = {}

-----------------------------------------------------------------------------
(* The iterator *)

(* Mutant: the iterator is handed out as it is. *)
GetIterKeeps(list) == iter

lm_socket_address_get_result_iter(list) == <<list, 1>>

(* Mutant: one entry too far. *)
AfterTheEnd(e, len) == IF e[2] <= len[e[1]] THEN <<e[1], e[2] + 1>> ELSE End

(* lm_socket_address_iter_get_next, on an entry. *)
Following(e, len) == IF e[2] < len[e[1]] THEN <<e[1], e[2] + 1>> ELSE End

From(e, len) ==
  IF e = End THEN <<>> ELSE [j \in 1 .. len[e[1]] - e[2] + 1 |-> <<e[1], e[2] + j - 1>>]

(* Entries are tried until one can be connected to, or none is left. *)
socket_attempt_connect_next(s, list, len) ==
  LET rewinds == walk[s] \in {"rewind", "looking"}
      left    == From(IF rewinds THEN lm_socket_address_get_result_iter(list) ELSE iter, len)
      Tried(n, state) ==
        /\ walk' = [walk EXCEPT ![s] = state]
        /\ given' = [given EXCEPT ![s] = IF turns THEN (IF rewinds THEN <<>> ELSE @) \o SubSeq(left, 1, n) ELSE <<>>]
  IN \/ \E n \in 1 .. Len(left) : Tried(n, "walking") /\ iter' = Following(left[n], len)
     \/ Tried(Len(left), "at_end") /\ iter' = End

-----------------------------------------------------------------------------
(* References and results *)

lm_socket_address_ref == refs' = refs + 1

(* What the last unref frees; the iterator is not freed. *)
GoesWithLast(list) == IF refs = 1 /\ list # 0 THEN {list} ELSE {}

lm_socket_address_unref(list, others) ==
  refs' = refs - 1 /\ freed' = freed \cup GoesWithLast(list) \cup others

(* Mutant: the list that is replaced is freed. *)
ReplacedFreed == {results} \ {0}

(* "sa->results = ai": the list there was is not freed. *)
Replaced == {}

lm_socket_address_set_results(n) ==
  length' = Append(length, n) /\ results' = Len(length) + 1

-----------------------------------------------------------------------------
(* Lookups, for a socket or the client itself *)

Starts(who) ==
  /\ who \notin lookups /\ Len(length) + Cardinality(lookups) < MaxLookups
  /\ lookups' = lookups \cup {who}
  /\ lm_socket_address_ref

Ends(who) == who \in lookups /\ lookups' = lookups \ {who}

(* The resolver gives its reference back after the handler of finished. *)
LookupFails(who) ==
  /\ Ends(who)
  /\ walk' = IF who = Oneself THEN walk ELSE [walk EXCEPT ![who] = "rewind"]
  /\ lm_socket_address_unref(results, {})
  /\ UNCHANGED <<client, results, length, iter, given>>

(* The handler, socket_resolver_finished_cb, tries the first result. *)
LookupSucceeds(who) ==
  /\ Ends(who)
  /\ \E n \in 1 .. MaxResults : lm_socket_address_set_results(n)
  /\ IF who = Oneself THEN UNCHANGED <<iter, walk, given>> ELSE socket_attempt_connect_next(who, results', length')
  /\ lm_socket_address_unref(results', Replaced)
  /\ UNCHANGED client

-----------------------------------------------------------------------------
(* The sockets and their client *)

MyTurn(s) == turns => /\ walk[s] = "rewind"
                      /\ \A q \in Sockets \ {s} : walk[q] \notin {"looking", "walking"}

lm_socket_connect(s) ==
  /\ walk[s] \in {"rewind", "at_end"} /\ MyTurn(s)
  /\ IF results = 0
       THEN /\ Starts(s) /\ walk' = [walk EXCEPT ![s] = "looking"]
            /\ UNCHANGED <<iter, given>>
       ELSE socket_attempt_connect_next(s, results, length) /\ UNCHANGED <<refs, lookups>>
  /\ UNCHANGED <<client, results, length, freed>>

(* socket_out_cb *)
Connects(s) ==
  /\ walk[s] = "walking" /\ walk' = [walk EXCEPT ![s] = "connected"]
  /\ UNCHANGED <<refs, client, results, length, freed, iter, given, lookups>>

(* socket_err_cb, when the attempt has failed *)
NextResult(s) ==
  /\ walk[s] = "walking" /\ socket_attempt_connect_next(s, results, length)
  /\ UNCHANGED <<refs, client, results, length, freed, lookups>>

socket_reset(s) ==
  /\ walk[s] \in {"walking", "connected", "at_end"}
  /\ walk' = [walk EXCEPT ![s] = "rewind"] /\ given' = [given EXCEPT ![s] = <<>>]
  /\ UNCHANGED <<refs, client, results, length, freed, iter, lookups>>

socket_finalize(s) ==
  /\ walk[s] \in {"rewind", "walking", "connected", "at_end"}
  /\ walk' = [walk EXCEPT ![s] = "gone"] /\ given' = [given EXCEPT ![s] = <<>>]
  /\ lm_socket_address_unref(results, {})
  /\ UNCHANGED <<client, results, length, iter, lookups>>

ClientLooksUp ==
  /\ client /\ Starts(Oneself)
  /\ UNCHANGED <<client, results, length, freed, iter, walk, given>>

DropsAddress ==
  /\ client /\ client' = FALSE /\ lm_socket_address_unref(results, {})
  /\ UNCHANGED <<results, length, iter, walk, given, lookups>>

-----------------------------------------------------------------------------
AddressNext ==
  /\ UNCHANGED turns
  /\ \/ ClientLooksUp \/ DropsAddress
     \/ \E who \in lookups : LookupFails(who) \/ LookupSucceeds(who)
     \/ \E s \in Sockets : lm_socket_connect(s) \/ Connects(s) \/ NextResult(s)
                             \/ socket_reset(s) \/ socket_finalize(s)

AddressSpec == AddressInit /\ [][AddressNext]_addressVars

-----------------------------------------------------------------------------
(* Properties *)

(* A socket that says that it has tried all results has tried every entry  *)
(* of one list, each once and in order, also when the list was replaced in *)
(* the middle; if others do not walk at the same time.                     *)
WholeList(l) == [k \in 1 .. length[l] |-> <<l, k>>]
WholeWalk ==
  turns => \A s \in Sockets : walk[s] = "at_end" => \E l \in Lists : given[s] = WholeList(l)

(* The last reference takes the list along, and nothing goes before: the   *)
(* iterator never stands in a list that was freed while somebody can still *)
(* advance it, although a lookup may replace the results under a socket    *)
(* that walks.  What is lost are the lists that were replaced, no others.  *)
FreedAtLast == freed = IF refs > 0 THEN {} ELSE {results} \ {0}
=============================================================================
