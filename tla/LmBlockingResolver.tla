-------------------------- MODULE LmBlockingResolver --------------------------
(***************************************************************************)
(* LmBlockingResolver (src/lm-blocking-resolver.c), the class used where   *)
(* libasyncns is not: the lookup is one blocking call, made from an idle   *)
(* source.  Unlike its sister it cleans up only when it is finalized, and  *)
(* emits finished while idle_source still points at the running source.    *)
(***************************************************************************)
EXTENDS LmResolver

Nobody == "nobody"

VARIABLES
  idle_source,  \* of each resolver: the pointer is set
  sa,           \* "NULL", "shared" (the address of all), or "own"
  resolve_type, \* which function the idle source calls, "host" or "srv"
  address       \* the shared address

privVars == <<idle_source, sa, resolve_type, address>>
vars == <<life, ref_count, held, told, sources, pending, stack, habits, fate, privVars>>

TypeOK ==
  /\ ResolverTypeOK
  /\ idle_source \in [Resolvers -> BOOLEAN]
  /\ sa \in [Resolvers -> {"NULL", "shared", "own"}]
  /\ resolve_type \in [Resolvers -> {"host", "srv"}]
  /\ address \in [refs : Nat, client : BOOLEAN, results : Resolvers \cup {Nobody}]

Init ==
  /\ ResolverInit
  /\ idle_source = [r \in Resolvers |-> FALSE]
  /\ sa = [r \in Resolvers |-> "NULL"]
  /\ resolve_type = [r \in Resolvers |-> "host"]
  /\ address = [refs |-> 1, client |-> TRUE, results |-> Nobody]

-----------------------------------------------------------------------------
(* Starting a lookup *)

AddIdle(r, type) ==
  /\ ClientRuns
  /\ resolver_create(r)
  /\ sources' = sources \cup {r}
  /\ idle_source' = [idle_source EXCEPT ![r] = TRUE]
  /\ resolve_type' = [resolve_type EXCEPT ![r] = type]
  /\ UNCHANGED <<told, pending, stack, fate>>

blocking_resolver_lookup_host(r) ==
  /\ address.client /\ AddIdle(r, "host")
  /\ sa' = [sa EXCEPT ![r] = "shared"]
  /\ address' = [address EXCEPT !.refs = @ + 1]

blocking_resolver_lookup_srv(r) == AddIdle(r, "srv") /\ UNCHANGED <<sa, address>>

-----------------------------------------------------------------------------
(* The end of a lookup *)

AddressAfterUnref(a) ==
  [a EXCEPT !.refs = @ - 1, !.results = IF a.refs = 1 THEN Nobody ELSE @]

UnrefAddress(r) ==
  address' = IF sa[r] = "shared" THEN AddressAfterUnref(address) ELSE address

(* The object's memory goes with its pointers. *)
blocking_resolver_finalize(r) ==
  /\ IF idle_source[r] THEN g_source_destroy(r) ELSE UNCHANGED loopVars
  /\ UnrefAddress(r)
  /\ sa' = [sa EXCEPT ![r] = "NULL"]
  /\ idle_source' = [idle_source EXCEPT ![r] = FALSE]

UnrefAndFinalize(r) ==
  /\ g_object_unref(r)
  /\ IF LastRef(r) THEN blocking_resolver_finalize(r)
                   ELSE UNCHANGED <<loopVars, sa, address, idle_source>>

HandlerReturns ==
  LET r == Head(stack).resolver IN
  /\ Top("handler")
  /\ IF life[r] = "freed"
       THEN /\ fate' = "use_after_free"
            /\ UNCHANGED <<objectVars, loopVars, idle_source, sa, address>>
       ELSE UnrefAndFinalize(r) /\ UNCHANGED <<held, fate>>
  /\ stack' = Tail(stack)
  /\ UNCHANGED <<told, resolve_type>>

(* idle_source is NULL by the time the last reference goes, so that        *)
(* finalize does not touch the source.                                     *)
ClearAndUnref(r) ==
  /\ g_object_unref(r) /\ UNCHANGED <<held, fate, loopVars>>
  /\ idle_source' = [idle_source EXCEPT ![r] = FALSE]
  /\ IF LastRef(r) THEN UnrefAddress(r) /\ sa' = [sa EXCEPT ![r] = "NULL"]
                   ELSE UNCHANGED <<sa, address>>

(* blocking_resolver_finished, after the emission *)
FinishReturns ==
  LET r == Head(stack).resolver IN
  /\ Top("finish")
  /\ IF life[r] = "freed"
       THEN fate' = "use_after_free" /\ UNCHANGED <<objectVars, loopVars, idle_source, sa, address>>
       ELSE ClearAndUnref(r)
  /\ stack' = Tail(stack)
  /\ UNCHANGED <<told, resolve_type>>

-----------------------------------------------------------------------------
(* The idle source *)

Poll == PollFinds(sources) /\ UNCHANGED privVars

Lookup(r, result) ==
  /\ stack = <<>> /\ r \in pending /\ pending' = pending \ {r}
  /\ EmitFinished(r, result, <<Remove(r)>>)
  /\ UNCHANGED <<life, held, sources, fate, idle_source, resolve_type>>

blocking_resolver_idle_lookup_host(r) ==
  /\ resolve_type[r] = "host"
  /\ \/ Lookup(r, "FAILED") /\ UNCHANGED address
     \/ Lookup(r, "OK") /\ address' = [address EXCEPT !.results = r]
  /\ UNCHANGED sa

blocking_resolver_idle_lookup_srv(r) ==
  /\ resolve_type[r] = "srv"
  /\ \/ Lookup(r, "FAILED") /\ UNCHANGED sa
     \/ Lookup(r, "OK") /\ sa' = [sa EXCEPT ![r] = "own"]
  /\ UNCHANGED address

(* return FALSE *)
SourceRemoved ==
  /\ Top("remove")
  /\ g_source_destroy(Head(stack).resolver)
  /\ stack' = Tail(stack)
  /\ UNCHANGED <<objectVars, told, fate, privVars>>

-----------------------------------------------------------------------------
(* The client *)

(* Mutant: the idle source stays attached. *)
CancelKeepsSource(r) == UNCHANGED loopVars

CancelDestroysSource(r) == IF idle_source[r] THEN g_source_destroy(r) ELSE UNCHANGED loopVars

blocking_resolver_cancel(r) ==
  /\ MayCancel(r)
  /\ IF life[r] = "freed"
       THEN fate' = "use_after_free" /\ UNCHANGED <<stack, told, objectVars, loopVars, idle_source>>
       ELSE /\ CancelDestroysSource(r)
            /\ idle_source' = [idle_source EXCEPT ![r] = FALSE]
            /\ EmitFinished(r, "CANCELLED", stack)
            /\ UNCHANGED <<life, held, fate>>
  /\ UNCHANGED <<resolve_type, sa, address>>

ClientUnref(r) ==
  /\ MayUnref(r)
  /\ IF life[r] = "freed"
       THEN /\ fate' = "use_after_free"
            /\ UNCHANGED <<objectVars, loopVars, idle_source, sa, address>>
       ELSE UnrefAndFinalize(r) /\ held' = [held EXCEPT ![r] = FALSE] /\ UNCHANGED fate
  /\ UNCHANGED <<told, stack, resolve_type>>

ClientDropsAddress ==
  /\ ClientRuns /\ address.client
  /\ address' = [AddressAfterUnref(address) EXCEPT !.client = FALSE]
  /\ UNCHANGED <<objectVars, told, loopVars, stack, fate, idle_source, resolve_type, sa>>

-----------------------------------------------------------------------------
Library == Poll \/ FinishReturns \/ HandlerReturns \/ SourceRemoved
Idles(r) == blocking_resolver_idle_lookup_host(r) \/ blocking_resolver_idle_lookup_srv(r)
Client  == \/ ClientDropsAddress
           \/ \E r \in Resolvers :
                \/ blocking_resolver_lookup_host(r) \/ blocking_resolver_lookup_srv(r)
                \/ blocking_resolver_cancel(r) \/ ClientUnref(r)

Next == Running /\ (Library \/ (\E r \in Resolvers : Idles(r)) \/ Client)

Spec == Init /\ [][Next]_vars

(* The one thread runs on while it has something to do. *)
Fairness == WF_vars(Running /\ (Library \/ \E r \in Resolvers : Idles(r)))

FairSpec == Spec /\ Fairness

-----------------------------------------------------------------------------
(* Properties *)

(* Whenever a resolver can be finalized, the source that would call into   *)
(* it is gone or will be found by finalize: nothing dispatches on a freed  *)
(* resolver, however handlers cancel, look up or unref.  The pointer is    *)
(* cleared before the source is gone, so for a while only the frame that   *)
(* returns FALSE stands between a finished resolver and a second lookup.   *)
Removing(r) == \E i \in 1 .. Len(stack) : stack[i] = Remove(r)
SourceNeedsObject ==
  \A r \in sources : idle_source[r] \/ Removing(r)

(* Every reference to the shared address is somebody's. *)
Holders == {r \in Resolvers : sa[r] = "shared"}
AddressCounted == address.refs = Cardinality(Holders) + (IF address.client THEN 1 ELSE 0)

Status(r) == IF told[r] # <<>> THEN IF Len(told[r]) = 1 THEN "told" ELSE "told again"
             ELSE IF life[r] = "none" THEN "none" ELSE "asked"

Served == [r \in Resolvers |-> IF habits = {} THEN Status(r) ELSE "none"]

Service == INSTANCE LookupService WITH status <- Served, MayLose <- FALSE

(* Every lookup that was started ends in exactly one finished: unlike its  *)
(* sister, this resolver loses none.                                       *)
ImplementsLookup == Service!FairSpec
=============================================================================
