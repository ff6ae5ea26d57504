-------------------------- MODULE LmAsyncnsResolver --------------------------
(***************************************************************************)
(* LmAsyncnsResolver (src/lm-asyncns-resolver.c): a lookup by a libasyncns *)
(* session of its own, with one worker and one query.  The session is      *)
(* reduced to what Asyncns.tla shows of it: a query that was issued is     *)
(* answered by one message, and a worker that leaves says so after its     *)
(* answers.  The main loop watches the session's socket.                   *)
(*                                                                         *)
(* All the host lookups are for one address object, as when several        *)
(* sockets of a client share theirs.                                       *)
(***************************************************************************)
EXTENDS LmResolver

CONSTANTS
  SessionFails,  \* asyncns_new may fail, and a request may be refused
  WorkersLeave,  \* a worker may leave through send_died
  WorkersCrash,  \* a worker may end without a word
  BadAnswers     \* a SRV answer may name no server

ASSUME RegimeAssumption ==
  {SessionFails, WorkersLeave, WorkersCrash, BadAnswers} \subseteq BOOLEAN

VARIABLES
  asyncns_ctx,   \* of each resolver: "NULL", "up", or "dead" (the flag)
  resolv_query,  \* "NULL", "pending", or "done"
  resolve_type,  \* "host" or "srv"
  sa,            \* "NULL", "shared" (the address of all), or "own"
  worker,        \* its worker process: "idle", "busy", or "gone"
  inbox,         \* the datagrams on the session's response socket
  address        \* the shared address

sessionVars  == <<asyncns_ctx, resolv_query, worker, inbox>>
resolverVars == <<sessionVars, resolve_type, sa, address>>
vars == <<life, ref_count, held, told, sources, pending, stack, habits, fate, resolverVars>>

Messages == {"ok", "fail", "bad", "died"}
Nobody == "nobody"

TypeOK ==
  /\ ResolverTypeOK
  /\ asyncns_ctx \in [Resolvers -> {"NULL", "up", "dead"}]
  /\ resolv_query \in [Resolvers -> {"NULL", "pending", "done"}]
  /\ resolve_type \in [Resolvers -> {"host", "srv"}]
  /\ sa \in [Resolvers -> {"NULL", "shared", "own"}]
  /\ worker \in [Resolvers -> {"idle", "busy", "gone"}]
  /\ inbox \in [Resolvers -> Seq(Messages)]
  /\ address \in [refs : Nat, client : BOOLEAN, results : Resolvers \cup {Nobody}]

Init ==
  /\ ResolverInit
  /\ asyncns_ctx = [r \in Resolvers |-> "NULL"]
  /\ resolv_query = [r \in Resolvers |-> "NULL"]
  /\ resolve_type = [r \in Resolvers |-> "host"]
  /\ sa = [r \in Resolvers |-> "NULL"]
  /\ worker = [r \in Resolvers |-> "gone"]
  /\ inbox = [r \in Resolvers |-> <<>>]
  /\ address = [refs |-> 1, client |-> TRUE, results |-> Nobody]

-----------------------------------------------------------------------------
(* Starting a lookup *)

asyncns_resolver_prep(r) ==
  /\ asyncns_ctx' = [asyncns_ctx EXCEPT ![r] = "up"]
  /\ sources' = sources \cup {r}

(* The query is sent to the worker. *)
Issued(r) ==
  /\ asyncns_resolver_prep(r)
  /\ resolv_query' = [resolv_query EXCEPT ![r] = "pending"]
  /\ worker' = [worker EXCEPT ![r] = "busy"]

(* There is a session, but the request could not be sent. *)
RequestRefused(r) ==
  /\ SessionFails /\ asyncns_resolver_prep(r)
  /\ worker' = [worker EXCEPT ![r] = "idle"]
  /\ UNCHANGED resolv_query

(* The lookup returns as if it had been started. *)
NoSession == SessionFails /\ UNCHANGED <<asyncns_ctx, resolv_query, worker, sources>>

StartLookup(r, type) ==
  /\ ClientRuns
  /\ resolver_create(r)
  /\ resolve_type' = [resolve_type EXCEPT ![r] = type]
  /\ Issued(r) \/ RequestRefused(r) \/ NoSession
  /\ UNCHANGED <<inbox, told, pending, stack, fate>>

RefAddress(r) ==
  /\ sa' = [sa EXCEPT ![r] = "shared"]
  /\ address' = [address EXCEPT !.refs = @ + 1]

asyncns_resolver_lookup_host(r) ==
  address.client /\ StartLookup(r, "host") /\ RefAddress(r)

asyncns_resolver_lookup_srv(r) == StartLookup(r, "srv") /\ UNCHANGED <<sa, address>>

-----------------------------------------------------------------------------
(* The worker, outside the process *)

Says(r, m) == inbox' = [inbox EXCEPT ![r] = Append(@, m)]

WorkerTo(r, state) ==
  /\ worker' = [worker EXCEPT ![r] = state]
  /\ UNCHANGED <<life, ref_count, held, told, sources, pending, stack, fate,
                 asyncns_ctx, resolv_query, resolve_type, sa, address>>

WorkerAnswers(r) ==
  /\ worker[r] = "busy" /\ WorkerTo(r, "idle")
  /\ \/ Says(r, "ok") \/ Says(r, "fail")
     \/ BadAnswers /\ resolve_type[r] = "srv" /\ Says(r, "bad")

WorkerLeaves(r) ==
  /\ WorkersLeave /\ worker[r] # "gone" /\ WorkerTo(r, "gone") /\ Says(r, "died")

WorkerCrashes(r) ==
  WorkersCrash /\ worker[r] # "gone" /\ WorkerTo(r, "gone") /\ UNCHANGED inbox

-----------------------------------------------------------------------------
(* The end of a lookup *)

AddressAfterUnref(a) ==
  [a EXCEPT !.refs = @ - 1, !.results = IF a.refs = 1 THEN Nobody ELSE @]

FreeSession(r) ==                       \* asyncns_free takes the worker along
  /\ asyncns_ctx' = [asyncns_ctx EXCEPT ![r] = "NULL"]
  /\ resolv_query' = [resolv_query EXCEPT ![r] = "NULL"]
  /\ worker' = [worker EXCEPT ![r] = "gone"]
  /\ inbox' = [inbox EXCEPT ![r] = <<>>]

UnrefAddress(r) ==
  address' = IF sa[r] = "shared" THEN AddressAfterUnref(address) ELSE address

(* Mutant: the watch stays attached. *)
CleanupKeepsWatch(r) ==
  /\ FreeSession(r) /\ UnrefAddress(r) /\ sa' = [sa EXCEPT ![r] = "NULL"]
  /\ UNCHANGED <<sources, pending>>

asyncns_resolver_cleanup(r) ==
  /\ g_source_destroy(r)
  /\ FreeSession(r)
  /\ UnrefAddress(r) /\ sa' = [sa EXCEPT ![r] = "NULL"]

Untouched == UNCHANGED <<sessionVars, sa, address, loopVars>>

(* An unref anywhere else: the last one finalizes, which cleans up. *)
UnrefAndFinalize(r) ==
  /\ g_object_unref(r)
  /\ IF LastRef(r) THEN asyncns_resolver_cleanup(r) ELSE Untouched

(* Mutant: the resolver's own reference is kept. *)
FinishedKeepsReference(r) ==
  /\ asyncns_resolver_cleanup(r) /\ UNCHANGED <<objectVars, fate>>

(* asyncns_resolver_finished, after the emission.  If the unref is the     *)
(* last, finalize runs the cleanup once more and finds nothing.            *)
CleanupAndUnref(r) ==
  asyncns_resolver_cleanup(r) /\ g_object_unref(r) /\ UNCHANGED <<held, fate>>

FinishReturns ==
  LET r == Head(stack).resolver IN
  /\ Top("finish")
  /\ IF life[r] = "freed"
       THEN fate' = "use_after_free" /\ Untouched /\ UNCHANGED objectVars
       ELSE CleanupAndUnref(r)
  /\ stack' = Tail(stack)
  /\ UNCHANGED <<told, resolve_type>>

(* The emission ends and gives its reference back. *)
HandlerReturns ==
  LET r == Head(stack).resolver IN
  /\ Top("handler")
  /\ IF life[r] = "freed"
       THEN fate' = "use_after_free" /\ Untouched /\ UNCHANGED objectVars
       ELSE UnrefAndFinalize(r) /\ UNCHANGED <<held, fate>>
  /\ stack' = Tail(stack)
  /\ UNCHANGED <<told, resolve_type>>

-----------------------------------------------------------------------------
(* The watch *)

Poll ==
  /\ PollFinds({r \in sources : inbox[r] # <<>>})
  /\ UNCHANGED resolverVars

Has(r, m) == \E i \in 1 .. Len(inbox[r]) : inbox[r][i] = m

(* asyncns_wait reads all there is; DIED marks the session dead, in which  *)
(* asyncns_getaddrinfo_done and asyncns_res_done return only errors.       *)
asyncns_wait(r) ==
  /\ inbox' = [inbox EXCEPT ![r] = <<>>]
  /\ asyncns_ctx' = [asyncns_ctx EXCEPT ![r] = IF Has(r, "died") THEN "dead" ELSE @]

IsDone(r) == Has(r, "ok") \/ Has(r, "fail") \/ Has(r, "bad")

(* Mutant: the error of the lookup is not looked at. *)
ErrorIgnored(r) == IsDone(r)

Succeeded(r) == Has(r, "ok") /\ ~Has(r, "died")

Done(r, result) ==
  /\ resolv_query' = [resolv_query EXCEPT ![r] = "NULL"]
  /\ EmitFinished(r, result, <<Remove(r)>>)
  /\ UNCHANGED <<life, held>>

asyncns_resolver_host_done(r) ==
  /\ resolve_type[r] = "host"
  /\ Done(r, IF Succeeded(r) THEN "OK" ELSE "FAILED")
  /\ address' = [address EXCEPT !.results = IF Succeeded(r) THEN r ELSE @]
  /\ UNCHANGED <<sa, fate>>

asyncns_resolver_srv_done(r) ==
  /\ resolve_type[r] = "srv"
  /\ Done(r, IF Succeeded(r) THEN "OK" ELSE "FAILED")
  /\ sa' = [sa EXCEPT ![r] = IF Succeeded(r) THEN "own" ELSE @]
  /\ UNCHANGED <<address, fate>>

NothingDone(r) == UNCHANGED <<stack, told, objectVars, resolv_query, sa, address>>

(* A parse that fails leaves new_server unset, and g_free takes whatever   *)
(* the stack held: it may be harmless.                                     *)
UnsetServerFreed(r) ==
  /\ resolve_type[r] = "srv" /\ Has(r, "bad") /\ ~Has(r, "died")
  /\ fate' = "wild_free" /\ NothingDone(r)

(* asyncns_isdone asserts that there is a query. *)
NoQuery(r) ==
  resolv_query[r] = "NULL" /\ fate' = "assert" /\ NothingDone(r)

NotDone(r) ==
  resolv_query[r] # "NULL" /\ ~IsDone(r) /\ UNCHANGED fate /\ NothingDone(r)

asyncns_resolver_io_cb(r) ==
  /\ stack = <<>> /\ r \in pending
  /\ pending' = pending \ {r}
  /\ asyncns_wait(r)
  /\ \/ NoQuery(r)
     \/ NotDone(r)
     \/ /\ resolv_query[r] # "NULL" /\ IsDone(r)
        /\ \/ asyncns_resolver_host_done(r) \/ asyncns_resolver_srv_done(r)
           \/ UnsetServerFreed(r)
  /\ UNCHANGED <<sources, worker, resolve_type>>

(* return FALSE *)
SourceRemoved ==
  /\ Top("remove")
  /\ g_source_destroy(Head(stack).resolver)
  /\ stack' = Tail(stack)
  /\ UNCHANGED <<objectVars, told, fate, resolverVars>>

-----------------------------------------------------------------------------
(* The client *)

(* asyncns_cancel takes the query out of the session. *)
asyncns_resolver_cancel(r) ==
  /\ MayCancel(r)
  /\ IF life[r] = "freed"
       THEN fate' = "use_after_free" /\ UNCHANGED <<stack, told, objectVars, resolv_query>>
       ELSE /\ resolv_query' = [resolv_query EXCEPT ![r] = "NULL"]
            /\ EmitFinished(r, "CANCELLED", stack)
            /\ UNCHANGED <<life, held, fate>>
  /\ UNCHANGED <<loopVars, asyncns_ctx, worker, inbox, resolve_type, sa, address>>

ClientUnref(r) ==
  /\ MayUnref(r)
  /\ IF life[r] = "freed"
       THEN fate' = "use_after_free" /\ Untouched /\ UNCHANGED objectVars
       ELSE UnrefAndFinalize(r) /\ held' = [held EXCEPT ![r] = FALSE] /\ UNCHANGED fate
  /\ UNCHANGED <<told, stack, resolve_type>>

ClientDropsAddress ==
  /\ ClientRuns /\ address.client
  /\ address' = [AddressAfterUnref(address) EXCEPT !.client = FALSE]
  /\ UNCHANGED <<objectVars, told, loopVars, stack, fate, sessionVars, resolve_type, sa>>

-----------------------------------------------------------------------------
Library == Poll \/ FinishReturns \/ HandlerReturns \/ SourceRemoved
Watches == \E r \in Resolvers : asyncns_resolver_io_cb(r)
Workers == \E r \in Resolvers : WorkerAnswers(r) \/ WorkerLeaves(r) \/ WorkerCrashes(r)
Client  == \/ ClientDropsAddress
           \/ \E r \in Resolvers :
                \/ asyncns_resolver_lookup_host(r) \/ asyncns_resolver_lookup_srv(r)
                \/ asyncns_resolver_cancel(r) \/ ClientUnref(r)

Next == Running /\ (Library \/ Watches \/ Workers \/ Client)

Spec == Init /\ [][Next]_vars

(* The one thread runs on while it has something to do, and the resolver   *)
(* library in a worker answers or gives up in the end.                     *)
Fairness ==
  /\ WF_vars(Running /\ (Library \/ Watches))
  /\ \A r \in Resolvers : WF_vars(Running /\ WorkerAnswers(r))

FairSpec == Spec /\ Fairness

-----------------------------------------------------------------------------
(* Properties *)

(* finalize leaves nothing behind that could still call into the resolver  *)
(* or that nobody can free any more: no watch, no session with its worker, *)
(* no reference to the address.  Before the lookup there is none either.   *)
NothingLeftBehind ==
  \A r \in Resolvers :
    life[r] # "live" => /\ r \notin sources \cup pending
                        /\ asyncns_ctx[r] = "NULL" /\ worker[r] = "gone"
                        /\ resolv_query[r] = "NULL" /\ sa[r] = "NULL"

(* The shared address counts its holders: the client and the resolvers     *)
(* between lookup_host and their cleanup.                                  *)
Holders == {r \in Resolvers : sa[r] = "shared"}
AddressCounted == address.refs = Cardinality(Holders) + (IF address.client THEN 1 ELSE 0)

(* What a resolver has taken it gives back, once, whatever its client does *)
(* and however often cleanup runs.                                         *)
ReleasesOnce == NothingLeftBehind /\ AddressCounted

(* finished says OK only for a lookup that succeeded, and then the result  *)
(* is there for the handler to use; it says FAILED for one that succeeded  *)
(* only if the session died before it was read.                            *)
ResultTrue ==
  [][\A r \in Resolvers :
       told'[r] # told[r] =>
         LET result == told'[r][Len(told'[r])] IN
         /\ result = "OK" => /\ Has(r, "ok")
                             /\ resolve_type[r] = "host" => address'.results = r
                             /\ resolve_type[r] = "srv" => sa'[r] = "own"
         /\ result = "FAILED" /\ Has(r, "ok") => Has(r, "died")]_vars

(* libasyncns asserts that there is a query to ask about.  Only a lookup   *)
(* whose request could not be sent can fail it, when its worker leaves and *)
(* wakes the watch; no lookup that was answered or cancelled does, whoever *)
(* still holds the resolver.                                               *)
Unissued(r) == asyncns_ctx[r] # "NULL" /\ resolv_query[r] = "NULL" /\ told[r] = <<>>
AssertOnlyUnissued == fate = "assert" => \E r \in Resolvers : Unissued(r)

(* Lost: nothing is left that could bring the answer, or nobody. *)
Lost(r) == \/ fate # "running" \/ asyncns_ctx[r] = "NULL" \/ resolv_query[r] = "NULL"
           \/ worker[r] = "gone" /\ ~IsDone(r)

Status(r) == IF told[r] # <<>> THEN IF Len(told[r]) = 1 THEN "told" ELSE "told again"
             ELSE IF life[r] = "none" THEN "none" ELSE IF Lost(r) THEN "lost" ELSE "asked"

MayLose == SessionFails \/ WorkersLeave \/ WorkersCrash \/ BadAnswers

Served == [r \in Resolvers |-> IF habits = {} THEN Status(r) ELSE "none"]

Service == INSTANCE LookupService WITH status <- Served

(* A lookup ends in one finished, whatever the order of the answer, a      *)
(* cancel, unrefs and other lookups in handlers, unless its session fails; *)
(* then it ends if it is cancelled.  Of a client with bad habits it says    *)
(* nothing.                                                                *)
ImplementsLookup == Service!FairSpec
=============================================================================
