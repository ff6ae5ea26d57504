----------------------- MODULE LmAsyncnsResolver_proofs -----------------------
(***************************************************************************)
(* Proofs about LmAsyncnsResolver, for every number of lookups, every      *)
(* nesting of handlers, every failure of the sessions and every client,    *)
(* the one that drops references of others included.                       *)
(*                                                                         *)
(* NothingLeftBehind needs what the main loop guarantees, that only an     *)
(* attached source is pending; AddressCounted needs nothing more than the  *)
(* shape of the state, and the cardinality of Holders.                     *)
(***************************************************************************)
EXTENDS LmAsyncnsResolver, LmResolver_proofs

(* What each variable is a function of; the references may go wrong. *)
Shape ==
  /\ life \in [Resolvers -> {"none", "live", "freed"}]
  /\ pending \subseteq sources /\ sources \subseteq Resolvers
  /\ asyncns_ctx \in [Resolvers -> {"NULL", "up", "dead"}]
  /\ resolv_query \in [Resolvers -> {"NULL", "pending", "done"}]
  /\ sa \in [Resolvers -> {"NULL", "shared", "own"}]
  /\ worker \in [Resolvers -> {"idle", "busy", "gone"}]

Clean(r) == /\ r \notin sources
            /\ asyncns_ctx[r] = "NULL" /\ worker[r] = "gone"
            /\ resolv_query[r] = "NULL" /\ sa[r] = "NULL"

Tidy == Shape /\ \A r \in Resolvers : life[r] # "live" => Clean(r)

ownVars == <<life, sources, pending, asyncns_ctx, resolv_query, sa, worker>>

LEMMA TidyInit == Init => Tidy
  BY DEF Init, ResolverInit, Tidy, Shape, Clean

LEMMA TidySame == ASSUME Tidy, UNCHANGED ownVars PROVE Tidy'
  BY DEF Tidy, Shape, Clean, ownVars

-----------------------------------------------------------------------------
(* The end of a lookup *)

LEMMA TidyCleanup ==
  ASSUME Tidy, NEW r, asyncns_resolver_cleanup(r),
         \/ UNCHANGED life
         \/ life' = [life EXCEPT ![r] = "freed"]
  PROVE  Tidy'
<1> USE DEF asyncns_resolver_cleanup, g_source_destroy, FreeSession
<1>1. Shape'
  BY DEF Tidy, Shape
<1>2. ASSUME NEW q \in Resolvers, life'[q] # "live" PROVE Clean(q)'
  <2>1. CASE q = r
    BY <2>1 DEF Tidy, Shape, Clean
  <2>2. CASE q # r
    <3>1. life'[q] = life[q]
      BY <2>2 DEF Tidy, Shape
    <3> QED  BY <1>2, <2>2, <3>1 DEF Tidy, Shape, Clean
  <2> QED  BY <2>1, <2>2
<1> QED  BY <1>1, <1>2 DEF Tidy

LEMMA TidyUnref ==
  ASSUME Tidy, NEW r, g_object_unref(r),
         IF LastRef(r) THEN asyncns_resolver_cleanup(r) ELSE Untouched
  PROVE  Tidy'
<1>1. CASE LastRef(r)
  BY <1>1, TidyCleanup DEF g_object_unref
<1>2. CASE ~LastRef(r)
  <2>1. UNCHANGED life
    BY <1>2 DEF g_object_unref, Tidy, Shape
  <2> QED  BY <1>2, <2>1, TidySame DEF Untouched, sessionVars, loopVars, ownVars
<1> QED  BY <1>1, <1>2

LEMMA TidyFinish == ASSUME Tidy, FinishReturns PROVE Tidy'
<1> DEFINE r == Head(stack).resolver
<1>1. CASE life[r] = "freed"
  BY <1>1, TidySame DEF FinishReturns, Untouched, sessionVars, loopVars, objectVars, ownVars
<1>2. CASE life[r] # "freed"
  <2>1. asyncns_resolver_cleanup(r) /\ g_object_unref(r)
    BY <1>2 DEF FinishReturns, CleanupAndUnref
  <2>2. UNCHANGED life \/ life' = [life EXCEPT ![r] = "freed"]
    BY <2>1 DEF g_object_unref, Tidy, Shape
  <2> QED  BY <2>1, <2>2, TidyCleanup
<1> QED  BY <1>1, <1>2

LEMMA TidyLibrary == ASSUME Tidy, Library PROVE Tidy'
<1>1. CASE Poll
  <2>1. pending' \subseteq sources
    BY <1>1 DEF Poll, PollFinds
  <2>2. UNCHANGED <<life, sources, asyncns_ctx, resolv_query, sa, worker>>
    BY <1>1 DEF Poll, PollFinds, objectVars, resolverVars, sessionVars
  <2> QED  BY <2>1, <2>2 DEF Tidy, Shape, Clean
<1>2. CASE FinishReturns
  BY <1>2, TidyFinish
<1>3. CASE HandlerReturns
  <2> DEFINE r == Head(stack).resolver
  <2>1. CASE life[r] = "freed"
    BY <1>3, <2>1, TidySame
    DEF HandlerReturns, Untouched, objectVars, loopVars, sessionVars, ownVars
  <2>2. CASE life[r] # "freed"
    BY <1>3, <2>2, TidyUnref DEF HandlerReturns, UnrefAndFinalize
  <2> QED  BY <2>1, <2>2
<1>4. CASE SourceRemoved
  BY <1>4 DEF SourceRemoved, g_source_destroy, objectVars, resolverVars, sessionVars,
              Tidy, Shape, Clean
<1> QED  BY <1>1, <1>2, <1>3, <1>4 DEF Library

-----------------------------------------------------------------------------
(* What else happens to a resolver happens while it is alive *)

LEMMA TidyAlive ==
  ASSUME Tidy, NEW r \in Resolvers, life'[r] = "live", Shape',
         \A q \in Resolvers \ {r} :
           /\ life'[q] = life[q] /\ (q \in sources' => q \in sources)
           /\ asyncns_ctx'[q] = asyncns_ctx[q] /\ worker'[q] = worker[q]
           /\ resolv_query'[q] = resolv_query[q] /\ sa'[q] = sa[q]
  PROVE  Tidy'
  BY DEF Tidy, Clean

LEMMA TidyLookup ==
  ASSUME Tidy, NEW r \in Resolvers,
         asyncns_resolver_lookup_host(r) \/ asyncns_resolver_lookup_srv(r)
  PROVE  Tidy'
<1> USE DEF asyncns_resolver_lookup_host, asyncns_resolver_lookup_srv
<1>1. life' = [life EXCEPT ![r] = "live"] /\ UNCHANGED pending
  BY DEF StartLookup, resolver_create
<1>2. sa' = sa \/ sa' = [sa EXCEPT ![r] = "shared"]
  BY DEF RefAddress
<1>3. Issued(r) \/ RequestRefused(r) \/ NoSession
  BY DEF StartLookup
<1>4. /\ asyncns_ctx' = asyncns_ctx \/ asyncns_ctx' = [asyncns_ctx EXCEPT ![r] = "up"]
      /\ resolv_query' = resolv_query
           \/ resolv_query' = [resolv_query EXCEPT ![r] = "pending"]
      /\ \/ worker' = worker \/ worker' = [worker EXCEPT ![r] = "busy"]
         \/ worker' = [worker EXCEPT ![r] = "idle"]
      /\ sources' = sources \/ sources' = sources \cup {r}
  BY <1>3 DEF Issued, RequestRefused, NoSession, asyncns_resolver_prep
<1>5. Shape'
  BY <1>1, <1>2, <1>4 DEF Tidy, Shape
<1> QED  BY <1>1, <1>2, <1>4, <1>5, TidyAlive DEF Tidy, Shape

LEMMA TidyWorker ==
  ASSUME Tidy, NEW r \in Resolvers, WorkerAnswers(r) \/ WorkerLeaves(r) \/ WorkerCrashes(r)
  PROVE  Tidy'
<1>1. /\ worker[r] # "gone"
      /\ worker' = [worker EXCEPT ![r] = "idle"] \/ worker' = [worker EXCEPT ![r] = "gone"]
      /\ UNCHANGED <<life, sources, pending, asyncns_ctx, resolv_query, sa>>
  BY DEF WorkerAnswers, WorkerLeaves, WorkerCrashes, WorkerTo
<1>2. life[r] = "live"
  BY <1>1 DEF Tidy, Clean
<1>3. Shape'
  BY <1>1 DEF Tidy, Shape
<1> QED  BY <1>1, <1>2, <1>3, TidyAlive DEF Tidy, Shape

LEMMA TidyWatch ==
  ASSUME Tidy, NEW r \in Resolvers, asyncns_resolver_io_cb(r)
  PROVE  Tidy'
<1>1. life[r] = "live"
  BY DEF asyncns_resolver_io_cb, Tidy, Shape, Clean
<1>2. /\ pending' = pending \ {r} /\ UNCHANGED <<sources, worker>>
      /\ \/ asyncns_ctx' = asyncns_ctx
         \/ asyncns_ctx' = [asyncns_ctx EXCEPT ![r] = "dead"]
  BY DEF asyncns_resolver_io_cb, asyncns_wait, Tidy, Shape
<1>3. /\ life' = life
      /\ resolv_query' = resolv_query \/ resolv_query' = [resolv_query EXCEPT ![r] = "NULL"]
      /\ sa' = sa \/ sa' = [sa EXCEPT ![r] = "own"]
  <2>1. CASE NoQuery(r) \/ NotDone(r) \/ UnsetServerFreed(r)
    BY <2>1 DEF NoQuery, NotDone, UnsetServerFreed, NothingDone, objectVars
  <2>2. CASE asyncns_resolver_host_done(r)
    BY <2>2 DEF asyncns_resolver_host_done, Done
  <2>3. CASE asyncns_resolver_srv_done(r)
    BY <2>3 DEF asyncns_resolver_srv_done, Done, Tidy, Shape
  <2> QED  BY <2>1, <2>2, <2>3 DEF asyncns_resolver_io_cb
<1>4. Shape'
  BY <1>2, <1>3 DEF Tidy, Shape
<1> QED  BY <1>1, <1>2, <1>3, <1>4, TidyAlive DEF Tidy, Shape

LEMMA TidyCancel ==
  ASSUME Tidy, NEW r \in Resolvers, asyncns_resolver_cancel(r)
  PROVE  Tidy'
<1>1. /\ UNCHANGED <<life, sources, pending, asyncns_ctx, worker, sa>>
      /\ \/ resolv_query' = resolv_query
         \/ life[r] = "live" /\ resolv_query' = [resolv_query EXCEPT ![r] = "NULL"]
  BY DEF asyncns_resolver_cancel, MayCancel, loopVars, objectVars, Tidy, Shape
<1>2. Shape'
  BY <1>1 DEF Tidy, Shape
<1>3. CASE resolv_query' = resolv_query
  BY <1>1, <1>3, TidySame DEF ownVars
<1>4. CASE life[r] = "live" /\ resolv_query' = [resolv_query EXCEPT ![r] = "NULL"]
  BY <1>1, <1>2, <1>4, TidyAlive DEF Tidy, Shape
<1> QED  BY <1>1, <1>3, <1>4

LEMMA TidyClient ==
  ASSUME Tidy, Client
  PROVE  Tidy'
<1>1. CASE ClientDropsAddress
  BY <1>1, TidySame DEF ClientDropsAddress, objectVars, loopVars, sessionVars, ownVars
<1>2. ASSUME NEW r \in Resolvers, ClientUnref(r) PROVE Tidy'
  <2>1. CASE life[r] = "freed"
    BY <1>2, <2>1, TidySame
    DEF ClientUnref, Untouched, sessionVars, loopVars, objectVars, ownVars
  <2>2. CASE life[r] # "freed"
    BY <1>2, <2>2, TidyUnref DEF ClientUnref, UnrefAndFinalize
  <2> QED  BY <2>1, <2>2
<1> QED  BY <1>1, <1>2, TidyLookup, TidyCancel DEF Client

LEMMA TidyKept == Tidy /\ [Next]_vars => Tidy'
<1> SUFFICES ASSUME Tidy, [Next]_vars PROVE Tidy'
  OBVIOUS
<1>1. CASE UNCHANGED vars
  BY <1>1, TidySame DEF vars, resolverVars, sessionVars, ownVars
<1> QED  BY <1>1, TidyLibrary, TidyWatch, TidyWorker, TidyClient DEF Next, Running, Watches, Workers

(* A resolver that was not started, or was finalized, has no watch, no     *)
(* session, no worker and no address, whatever the client did with it      *)
(* (asyncns_resolver_finalize).                                            *)
THEOREM NothingLeftBehindAlways == Spec => []NothingLeftBehind
<1>1. Tidy => NothingLeftBehind
  BY DEF Tidy, Shape, Clean, NothingLeftBehind
<1> QED  BY <1>1, TidyInit, TidyKept, PTL DEF Spec

-----------------------------------------------------------------------------
(* The references of the shared address *)

Addresses == [refs : Int, client : BOOLEAN, results : Resolvers \cup {Nobody}]

Share(client) == IF client THEN 1 ELSE 0

Counted ==
  /\ Tidy
  /\ stack \in Seq(Frames)
  /\ resolve_type \in [Resolvers -> {"host", "srv"}]
  /\ \A r \in Resolvers : sa[r] = "shared" => resolve_type[r] = "host"
  /\ address \in Addresses
  /\ AddressCounted

LEMMA TopResolver ==
  ASSUME stack \in Seq(Frames), stack # <<>>
  PROVE  Head(stack).resolver \in Resolvers /\ Tail(stack) \in Seq(Frames)
<1>1. Head(stack) \in Frames
  OBVIOUS
<1> QED  BY <1>1 DEF Frames

LEMMA EmissionStacks ==
  ASSUME NEW r \in Resolvers, NEW result \in ResolverResults, NEW rest \in Seq(Frames)
  PROVE  <<Handler(r, result), Finish(r)>> \o rest \in Seq(Frames)
<1>1. Handler(r, result) \in Frames /\ Finish(r) \in Frames
  BY DEF Handler, Finish, Frames
<1> QED  BY <1>1

LEMMA HoldersFinite == ASSUME IsFiniteSet(Resolvers) PROVE IsFiniteSet(Holders)
  BY FS_Subset DEF Holders

LEMMA CountInit == ASSUME IsFiniteSet(Resolvers), Init PROVE Counted
<1>1. Holders = {}
  BY DEF Init, Holders
<1>2. AddressCounted
  BY <1>1, FS_EmptySet DEF Init, AddressCounted
<1>3. stack \in Seq(Frames) /\ address \in Addresses
  BY DEF Init, ResolverInit, Addresses, Nobody
<1> QED  BY <1>2, <1>3, TidyInit DEF Counted, Init

(* The count is right again after one more holder, after one less, or when *)
(* nobody has come or gone.                                                *)
LEMMA CountMore ==
  ASSUME IsFiniteSet(Resolvers), Counted, NEW r \in Resolvers, sa[r] # "shared",
         sa' = [sa EXCEPT ![r] = "shared"], address' = [address EXCEPT !.refs = @ + 1]
  PROVE  AddressCounted' /\ address' \in Addresses
<1>1. sa \in [Resolvers -> {"NULL", "shared", "own"}]
  BY DEF Counted, Tidy, Shape
<1>2. Holders' = Holders \cup {r} /\ r \notin Holders
  BY <1>1 DEF Holders
<1>3. Cardinality(Holders') = Cardinality(Holders) + 1 /\ Cardinality(Holders) \in Nat
  BY <1>2, HoldersFinite, FS_AddElement, FS_CardinalityType
<1>4. address'.refs = address.refs + 1 /\ address'.client = address.client
      /\ address.refs \in Int /\ address' \in Addresses
  BY DEF Counted, Addresses
<1> QED  BY <1>3, <1>4 DEF Counted, AddressCounted

LEMMA UnrefShape ==
  ASSUME NEW a \in Addresses
  PROVE  /\ AddressAfterUnref(a).refs = a.refs - 1 /\ AddressAfterUnref(a).client = a.client
         /\ a.refs \in Int /\ AddressAfterUnref(a) \in Addresses
<1> DEFINE result == IF a.refs = 1 THEN Nobody ELSE a.results
           b == [a EXCEPT !.refs = a.refs - 1]
           c == [b EXCEPT !.results = result]
<1>1. result \in Resolvers \cup {Nobody} /\ a.refs \in Int
  BY DEF Addresses
<1>2. AddressAfterUnref(a) = c
  BY Zenon DEF AddressAfterUnref
<1> HIDE DEF result
<1>3. b \in Addresses /\ b.refs = a.refs - 1 /\ b.client = a.client
  BY <1>1 DEF Addresses
<1> HIDE DEF b
<1>4. c \in Addresses /\ c.refs = b.refs /\ c.client = b.client
  BY <1>1, <1>3 DEF Addresses
<1> HIDE DEF c
<1> QED  BY <1>1, <1>2, <1>3, <1>4

LEMMA CountLess ==
  ASSUME IsFiniteSet(Resolvers), Counted, NEW r \in Resolvers,
         UnrefAddress(r), sa' = [sa EXCEPT ![r] = "NULL"]
  PROVE  AddressCounted' /\ address' \in Addresses
<1>1. sa \in [Resolvers -> {"NULL", "shared", "own"}] /\ address \in Addresses
  BY DEF Counted, Tidy, Shape
<1>2. CASE sa[r] = "shared"
  <2>1. Holders' = Holders \ {r} /\ r \in Holders
    BY <1>1, <1>2 DEF Holders
  <2>2. Cardinality(Holders') = Cardinality(Holders) - 1 /\ Cardinality(Holders) \in Nat
    BY <2>1, HoldersFinite, FS_RemoveElement, FS_CardinalityType
  <2>3. address'.refs = address.refs - 1 /\ address'.client = address.client
        /\ address.refs \in Int /\ address' \in Addresses
    BY <1>1, <1>2, UnrefShape DEF UnrefAddress
  <2> QED  BY <2>2, <2>3 DEF Counted, AddressCounted
<1>3. CASE sa[r] # "shared"
  <2>1. Holders' = Holders /\ address' = address
    BY <1>1, <1>3 DEF Holders, UnrefAddress
  <2> QED  BY <1>1, <2>1 DEF Counted, AddressCounted
<1> QED  BY <1>2, <1>3

LEMMA CountSame ==
  ASSUME Counted, Holders' = Holders, address' \in Addresses,
         address'.refs = address.refs, address'.client = address.client
  PROVE  AddressCounted'
  BY DEF Counted, AddressCounted

LEMMA CountCleanup ==
  ASSUME IsFiniteSet(Resolvers), Counted, NEW r \in Resolvers, asyncns_resolver_cleanup(r)
  PROVE  /\ AddressCounted' /\ address' \in Addresses
         /\ UNCHANGED resolve_type => \A q \in Resolvers : sa'[q] = "shared" => resolve_type'[q] = "host"
<1>1. UnrefAddress(r) /\ sa' = [sa EXCEPT ![r] = "NULL"]
  BY DEF asyncns_resolver_cleanup
<1> QED  BY <1>1, CountLess DEF Counted, Tidy, Shape

LEMMA CountLibrary ==
  ASSUME IsFiniteSet(Resolvers), Counted, Library
  PROVE  Counted'
<1> DEFINE r == Head(stack).resolver
<1>1. Tidy'
  BY TidyLibrary DEF Counted
<1>2. ASSUME asyncns_resolver_cleanup(r), stack # <<>>, stack' = Tail(stack),
             UNCHANGED resolve_type
      PROVE  Counted'
  BY <1>1, <1>2, TopResolver, CountCleanup DEF Counted
<1>3. ASSUME UNCHANGED <<sa, address, resolve_type>>, stack' \in Seq(Frames)
      PROVE  Counted'
  BY <1>1, <1>3 DEF Counted, AddressCounted, Holders
<1>4. CASE Poll
  BY <1>3, <1>4 DEF Poll, PollFinds, resolverVars, Counted
<1>5. CASE FinishReturns
  BY <1>2, <1>3, <1>5, TopResolver DEF FinishReturns, Top, CleanupAndUnref, Untouched, Counted
<1>6. CASE HandlerReturns
  BY <1>2, <1>3, <1>6, TopResolver
  DEF HandlerReturns, Top, UnrefAndFinalize, Untouched, Counted
<1>7. CASE SourceRemoved
  BY <1>3, <1>7, TopResolver DEF SourceRemoved, Top, resolverVars, Counted
<1> QED  BY <1>4, <1>5, <1>6, <1>7 DEF Library

LEMMA CountLookup ==
  ASSUME IsFiniteSet(Resolvers), Counted, NEW r \in Resolvers,
         asyncns_resolver_lookup_host(r) \/ asyncns_resolver_lookup_srv(r)
  PROVE  Counted'
<1>1. Tidy'
  BY TidyLookup DEF Counted
<1>2. sa[r] = "NULL" /\ UNCHANGED stack
  BY DEF asyncns_resolver_lookup_host, asyncns_resolver_lookup_srv, StartLookup,
         resolver_create, Counted, Tidy, Clean
<1>3. CASE asyncns_resolver_lookup_host(r)
  <2>1. /\ sa' = [sa EXCEPT ![r] = "shared"] /\ address' = [address EXCEPT !.refs = @ + 1]
        /\ resolve_type' = [resolve_type EXCEPT ![r] = "host"]
    BY <1>3 DEF asyncns_resolver_lookup_host, StartLookup, RefAddress
  <2>2. AddressCounted' /\ address' \in Addresses
    BY <1>2, <2>1, CountMore
  <2> QED  BY <1>1, <1>2, <2>1, <2>2 DEF Counted, Tidy, Shape
<1>4. CASE asyncns_resolver_lookup_srv(r)
  <2>1. UNCHANGED <<sa, address>> /\ resolve_type' = [resolve_type EXCEPT ![r] = "srv"]
    BY <1>4 DEF asyncns_resolver_lookup_srv, StartLookup
  <2> QED  BY <1>1, <1>2, <2>1 DEF Counted, AddressCounted, Holders
<1> QED  BY <1>3, <1>4

LEMMA CountWatch ==
  ASSUME Counted, NEW r \in Resolvers, asyncns_resolver_io_cb(r)
  PROVE  Counted'
<1>1. Tidy'
  BY TidyWatch DEF Counted
<1>2. UNCHANGED resolve_type /\ stack = <<>>
  BY DEF asyncns_resolver_io_cb
<1>3. ASSUME NEW result \in ResolverResults, Done(r, result)
      PROVE  stack' \in Seq(Frames)
  <2>1. Remove(r) \in Frames
    BY DEF Remove, Frames
  <2>2. <<Remove(r)>> \in Seq(Frames)
    BY <2>1
  <2> QED  BY <1>3, <2>2, EmissionStacks DEF Done, EmitFinished
<1>4. (IF Succeeded(r) THEN "OK" ELSE "FAILED") \in ResolverResults
  BY DEF ResolverResults
<1>5. CASE asyncns_resolver_host_done(r)
  <2>1. stack' \in Seq(Frames) /\ UNCHANGED sa
    BY <1>3, <1>4, <1>5 DEF asyncns_resolver_host_done
  <2>2. /\ address' \in Addresses
        /\ address'.refs = address.refs /\ address'.client = address.client
    BY <1>5 DEF asyncns_resolver_host_done, Counted, Addresses
  <2>3. AddressCounted'
    BY <2>1, <2>2, CountSame DEF Holders
  <2> QED  BY <1>1, <1>2, <2>1, <2>2, <2>3 DEF Counted
<1>6. CASE asyncns_resolver_srv_done(r)
  <2>1. stack' \in Seq(Frames) /\ UNCHANGED address /\ resolve_type[r] = "srv"
    BY <1>3, <1>4, <1>6 DEF asyncns_resolver_srv_done
  <2>2. sa \in [Resolvers -> {"NULL", "shared", "own"}] /\ sa[r] # "shared"
    BY <2>1 DEF Counted, Tidy, Shape
  <2>3. sa' = sa \/ sa' = [sa EXCEPT ![r] = "own"]
    BY <1>6, <2>2 DEF asyncns_resolver_srv_done
  <2>4. Holders' = Holders /\ \A q \in Resolvers : sa'[q] = "shared" => sa[q] = "shared"
    BY <2>2, <2>3 DEF Holders
  <2> QED  BY <1>1, <1>2, <2>1, <2>4 DEF Counted, AddressCounted
<1>7. CASE NoQuery(r) \/ NotDone(r) \/ UnsetServerFreed(r)
  <2>1. UNCHANGED <<stack, sa, address>>
    BY <1>7 DEF NoQuery, NotDone, UnsetServerFreed, NothingDone
  <2> QED  BY <1>1, <1>2, <2>1 DEF Counted, AddressCounted, Holders
<1> QED  BY <1>5, <1>6, <1>7 DEF asyncns_resolver_io_cb

LEMMA CountWorker ==
  ASSUME Counted, NEW r \in Resolvers, WorkerAnswers(r) \/ WorkerLeaves(r) \/ WorkerCrashes(r)
  PROVE  Counted'
<1>1. Tidy'
  BY TidyWorker DEF Counted
<1>2. UNCHANGED <<stack, resolve_type, sa, address>>
  BY DEF WorkerAnswers, WorkerLeaves, WorkerCrashes, WorkerTo
<1> QED  BY <1>1, <1>2 DEF Counted, AddressCounted, Holders

LEMMA CountClient ==
  ASSUME IsFiniteSet(Resolvers), Counted, Client
  PROVE  Counted'
<1>1. Tidy'
  BY TidyClient DEF Counted
<1>2. CASE ClientDropsAddress
  <2> DEFINE a == AddressAfterUnref(address)
  <2>1. /\ address.client /\ address' = [a EXCEPT !.client = FALSE]
        /\ UNCHANGED <<sa, stack, resolve_type>> /\ address \in Addresses
    BY <1>2 DEF ClientDropsAddress, Counted
  <2>2. a.refs = address.refs - 1 /\ address.refs \in Int /\ a \in Addresses
    BY <2>1, UnrefShape
  <2> HIDE DEF a
  <2>3. address' \in Addresses /\ address'.refs = address.refs - 1 /\ ~address'.client
    BY <2>1, <2>2 DEF Addresses
  <2>4. Cardinality(Holders) \in Nat /\ Holders' = Holders
    BY <2>1, HoldersFinite, FS_CardinalityType DEF Holders
  <2>5. AddressCounted'
    BY <2>1, <2>2, <2>3, <2>4 DEF Counted, AddressCounted
  <2> QED  BY <1>1, <2>1, <2>3, <2>5 DEF Counted
<1>3. ASSUME NEW r \in Resolvers, asyncns_resolver_cancel(r)
      PROVE  Counted'
  <2>1. UNCHANGED <<resolve_type, sa, address>>
    BY <1>3 DEF asyncns_resolver_cancel
  <2>2. "CANCELLED" \in ResolverResults /\ stack \in Seq(Frames)
    BY DEF ResolverResults, Counted
  <2>3. stack' = stack \/ stack' = <<Handler(r, "CANCELLED"), Finish(r)>> \o stack
    BY <1>3 DEF asyncns_resolver_cancel, EmitFinished
  <2>4. stack' \in Seq(Frames)
    BY <2>2, <2>3, EmissionStacks
  <2> QED  BY <1>1, <2>1, <2>4 DEF Counted, AddressCounted, Holders
<1>4. ASSUME NEW r \in Resolvers, ClientUnref(r)
      PROVE  Counted'
  <2>1. UNCHANGED <<resolve_type, stack>>
    BY <1>4 DEF ClientUnref
  <2>2. asyncns_resolver_cleanup(r) \/ UNCHANGED <<sa, address>>
    BY <1>4 DEF ClientUnref, UnrefAndFinalize, Untouched
  <2>3. CASE asyncns_resolver_cleanup(r)
    BY <1>1, <2>1, <2>3, CountCleanup DEF Counted
  <2>4. CASE UNCHANGED <<sa, address>>
    BY <1>1, <2>1, <2>4 DEF Counted, AddressCounted, Holders
  <2> QED  BY <2>2, <2>3, <2>4
<1> QED  BY <1>2, <1>3, <1>4, CountLookup DEF Client

LEMMA CountKept ==
  ASSUME IsFiniteSet(Resolvers), Counted, [Next]_vars
  PROVE  Counted'
<1>1. CASE UNCHANGED vars
  <2>1. Tidy'
    BY <1>1, TidyKept DEF Counted
  <2> QED  BY <1>1, <2>1 DEF vars, resolverVars, Counted, AddressCounted, Holders
<1> QED  BY <1>1, CountLibrary, CountWatch, CountWorker, CountClient DEF Next, Running, Watches, Workers

(* lm_socket_address counts exactly the client and the lookups that still  *)
(* point to the address, however often asyncns_resolver_cleanup runs.      *)
THEOREM AddressCountedAlways ==
  ASSUME IsFiniteSet(Resolvers)
  PROVE  Spec => []AddressCounted
<1>1. Init => Counted
  BY CountInit
<1>2. Counted /\ [Next]_vars => Counted'
  BY CountKept
<1>3. Counted => AddressCounted
  BY DEF Counted
<1> QED  BY <1>1, <1>2, <1>3, PTL DEF Spec

(* Both together: what a resolver has taken it gives back once.            *)
THEOREM ReleasesOnceAlways ==
  ASSUME IsFiniteSet(Resolvers)
  PROVE  Spec => []ReleasesOnce
<1>1. NothingLeftBehind /\ AddressCounted => ReleasesOnce
  BY DEF ReleasesOnce
<1>2. Spec => []NothingLeftBehind
  BY NothingLeftBehindAlways
<1>3. Spec => []AddressCounted
  BY AddressCountedAlways
<1> QED  BY <1>1, <1>2, <1>3, PTL

-----------------------------------------------------------------------------
(* References and queries *)

(* Who is watched can be called: there is a session, and finished is still *)
(* to come, or to return from.                                             *)
Watched(r) == r \in sources => asyncns_ctx[r] # "NULL" /\ (told[r] = <<>> \/ Finishing(r) # 0)

(* A careful client's lookup has a query only until it is answered.        *)
QueryOpen(r) == habits = {} /\ resolv_query[r] # "NULL" => told[r] = <<>>

Held ==
  /\ Tidy /\ RefInv
  /\ \A r \in Resolvers : Watched(r) /\ QueryOpen(r)
  /\ AssertOnlyUnissued

LEMMA HeldInit == Init => Held
<1>1. Init => Tidy /\ RefInv
  BY TidyInit, RefInvInit DEF Init
<1> QED  BY <1>1 DEF Init, ResolverInit, Held, Watched, QueryOpen, AssertOnlyUnissued

LEMMA HeldMeans == Held => RefsBalanced /\ NoUseAfterFinalize /\ AssertOnlyUnissued
  BY RefInvMeans DEF Held

(* What a step does to watches and queries, if it does not end in an       *)
(* assertion.                                                              *)
LEMMA HeldStep ==
  ASSUME Held, Tidy', RefInv', UNCHANGED habits, fate' # "assert",
         \A r \in Resolvers :
           /\ told'[r] = told[r]
           /\ r \in sources' => /\ r \in sources /\ Finishing(r)' = Finishing(r)
                                /\ asyncns_ctx'[r] = asyncns_ctx[r]
           /\ resolv_query'[r] \in {resolv_query[r], "NULL"}
  PROVE  Held'
  BY DEF Held, Watched, QueryOpen, AssertOnlyUnissued

LEMMA CleanupStep ==
  ASSUME Tidy, NEW r \in Resolvers, asyncns_resolver_cleanup(r), NEW q \in Resolvers
  PROVE  /\ r \notin sources' /\ (q \in sources' => q \in sources /\ q # r)
         /\ q # r => asyncns_ctx'[q] = asyncns_ctx[q] /\ worker'[q] = worker[q]
         /\ resolv_query'[q] \in {resolv_query[q], "NULL"}
         /\ q # r => resolv_query'[q] = resolv_query[q] /\ inbox'[q] = inbox[q]
<1> USE DEF asyncns_resolver_cleanup, g_source_destroy, FreeSession
<1>1. inbox' = [inbox EXCEPT ![r] = <<>>]
  OBVIOUS
<1> QED  BY <1>1 DEF Tidy, Shape

LEMMA HeldReturns ==
  ASSUME Held, fate = "running", UNCHANGED habits, FinishReturns \/ HandlerReturns
  PROVE  Held'
<1> DEFINE r == Head(stack).resolver
<1>1. Tidy /\ RefInv /\ RefShape /\ stack # <<>> /\ stack' = Tail(stack) /\ UNCHANGED told
  BY DEF Held, RefInv, FinishReturns, HandlerReturns, Top
<1>2. r \in Resolvers /\ (Top("handler") \/ Top("finish"))
  BY <1>1, Popped DEF FinishReturns, HandlerReturns
<1>3. Tidy'
  BY <1>1, TidyLibrary DEF Library
<1>4. ASSUME NEW q \in Resolvers, q # r PROVE Finishing(q)' = Finishing(q)
  BY <1>1, <1>4, ReturnCounts
<1>5. CASE life[r] = "freed"
  <2>1. /\ UNCHANGED <<objectVars, sources, asyncns_ctx, resolv_query>>
        /\ fate' = "use_after_free"
    BY <1>5 DEF FinishReturns, HandlerReturns, Untouched, sessionVars, loopVars
  <2>2. RefInv'
    BY <1>1, <1>2, <1>5, <2>1, RefGone
  <2>3. r \notin sources
    BY <1>1, <1>2, <1>5 DEF Tidy, Clean
  <2> QED  BY <1>1, <1>3, <1>4, <2>1, <2>2, <2>3, HeldStep
<1>6. CASE life[r] # "freed"
  <2>1. g_object_unref(r) /\ UNCHANGED <<held, fate>>
    BY <1>6 DEF FinishReturns, HandlerReturns, CleanupAndUnref, UnrefAndFinalize
  <2>2. RefInv'
    BY <1>1, <1>2, <1>6, <2>1, RefReturn
  <2>3. CASE asyncns_resolver_cleanup(r)
    <3>1. \A q \in Resolvers :
            /\ told'[q] = told[q]
            /\ q \in sources' => /\ q \in sources /\ Finishing(q)' = Finishing(q)
                                 /\ asyncns_ctx'[q] = asyncns_ctx[q]
            /\ resolv_query'[q] \in {resolv_query[q], "NULL"}
      BY <1>1, <1>2, <1>4, <2>3, CleanupStep
    <3> QED  BY <1>3, <2>1, <2>2, <3>1, HeldStep
  <2>4. CASE Top("handler") /\ Untouched
    <3>1. \A q \in Resolvers : Finishing(q)' = Finishing(q)
      BY <1>1, <2>4, ReturnCounts DEF Top
    <3>2. UNCHANGED <<sources, asyncns_ctx, resolv_query>>
      BY <2>4 DEF Untouched, sessionVars, loopVars
    <3> QED  BY <1>1, <1>3, <2>1, <2>2, <3>1, <3>2, HeldStep
  <2> QED  BY <1>6, <2>3, <2>4 DEF FinishReturns, HandlerReturns, CleanupAndUnref, UnrefAndFinalize
<1> QED  BY <1>5, <1>6

LEMMA HeldLibrary ==
  ASSUME Held, fate = "running", UNCHANGED habits, Library
  PROVE  Held'
<1>1. Tidy /\ RefInv /\ RefShape /\ stack \in Seq(Frames)
  BY DEF Held, RefInv, RefShape
<1>2. Tidy'
  BY <1>1, TidyLibrary
<1>3. CASE Poll
  <2>1. UNCHANGED <<objectVars, told, stack, fate, sources, asyncns_ctx, resolv_query>>
    BY <1>3 DEF Poll, PollFinds, resolverVars, sessionVars
  <2>2. \A r \in Resolvers : Emissions(r)' = Emissions(r) /\ Finishing(r)' = Finishing(r)
    BY <2>1 DEF Emissions, Finishing
  <2>3. CountsSame(stack')
    BY <2>1 DEF CountsSame, Emissions, Finishing
  <2>4. RefInv'
    BY <1>1, <2>1, <2>3, RefSame
  <2> QED  BY <1>2, <2>1, <2>2, <2>4, HeldStep
<1>4. CASE SourceRemoved
  <2>1. /\ Top("remove") /\ stack' = Tail(stack) /\ sources' \subseteq sources
        /\ UNCHANGED <<objectVars, told, fate, asyncns_ctx, resolv_query>>
    BY <1>4 DEF SourceRemoved, g_source_destroy, resolverVars, sessionVars
  <2>2. stack' \in Seq(Frames) /\ CountsSame(stack')
    BY <1>1, <2>1, PoppedOther
  <2>3. RefInv'
    BY <1>1, <2>1, <2>2, RefSame
  <2>4. \A r \in Resolvers : Finishing(r)' = Finishing(r)
    BY <2>2 DEF CountsSame, Finishing
  <2> QED  BY <1>2, <2>1, <2>3, <2>4, HeldStep
<1> QED  BY <1>3, <1>4, HeldReturns DEF Library

LEMMA HeldDone ==
  ASSUME Held, fate = "running", UNCHANGED <<habits, sources, fate>>, Tidy', NEW r \in Resolvers,
         NEW result \in ResolverResults, NEW rest \in Seq(Frames), CountsSame(rest),
         UNCHANGED <<life, held>>, EmitFinished(r, result, rest),
         life[r] = "live", habits = {} => told[r] = <<>>,
         resolv_query' = [resolv_query EXCEPT ![r] = "NULL"],
         \A q \in Resolvers : asyncns_ctx[q] # "NULL" => asyncns_ctx'[q] # "NULL"
  PROVE  Held'
<1>1. RefInv /\ RefShape
  BY DEF Held, RefInv
<1>2. RefInv'
  BY <1>1, RefEmit
<1>3. /\ told[r] \in Seq(ResolverResults) /\ told'[r] = Append(told[r], result)
      /\ \A q \in Resolvers \ {r} : told'[q] = told[q]
      /\ \A q \in Resolvers : Finishing(q)' = Finishing(q) + OneIf(q = r) /\ Finishing(q) \in Nat
  BY <1>1, EmitCounts
<1>4. \A q \in Resolvers : Watched(q)'
  <2>1. Finishing(r)' # 0
    BY <1>3 DEF OneIf
  <2>2. ASSUME NEW q \in Resolvers, q # r PROVE Watched(q)'
    <3>1. Finishing(q)' = Finishing(q) /\ told'[q] = told[q]
      BY <1>3, <2>2 DEF OneIf
    <3> QED  BY <3>1 DEF Held, Watched
  <2>3. Watched(r)'
    BY <2>1 DEF Held, Watched
  <2> QED  BY <2>2, <2>3
<1>5. \A q \in Resolvers : QueryOpen(q)'
  <2>1. resolv_query'[r] = "NULL" /\ \A q \in Resolvers \ {r} : resolv_query'[q] = resolv_query[q]
    BY DEF Held, Tidy, Shape
  <2> QED  BY <1>3, <2>1 DEF Held, QueryOpen
<1> QED  BY <1>2, <1>4, <1>5 DEF Held, AssertOnlyUnissued

LEMMA HeldWatch ==
  ASSUME Held, fate = "running", UNCHANGED habits, NEW r \in Resolvers, asyncns_resolver_io_cb(r)
  PROVE  Held'
<1>1. Tidy /\ RefInv /\ RefShape /\ stack = <<>> /\ stack \in Seq(Frames)
  BY DEF Held, RefInv, RefShape, asyncns_resolver_io_cb
<1>2. Tidy'
  BY <1>1, TidyWatch
<1>3. r \in sources /\ UNCHANGED sources /\ life[r] = "live"
  BY <1>1 DEF asyncns_resolver_io_cb, Tidy, Shape, Clean
<1>4. \A q \in Resolvers : asyncns_ctx[q] # "NULL" => asyncns_ctx'[q] # "NULL"
  BY <1>1 DEF asyncns_resolver_io_cb, asyncns_wait, Tidy, Shape
<1>5. asyncns_ctx[r] # "NULL" /\ told[r] = <<>>
  <2>1. Finishing(r) = 0
    BY <1>1, CountNone DEF Finishing
  <2> QED  BY <1>3, <2>1 DEF Held, Watched
<1>6. ASSUME NothingDone(r), fate' \in {"running", "assert", "wild_free"},
             fate' = "assert" => resolv_query[r] = "NULL"
      PROVE  Held'
  <2>1. UNCHANGED <<objectVars, told, stack, resolv_query>>
    BY <1>6 DEF NothingDone
  <2>2. CountsSame(stack')
    BY <2>1 DEF CountsSame, Emissions, Finishing
  <2>3. RefInv'
    BY <1>1, <1>6, <2>1, <2>2, RefSame
  <2>4. \A q \in Resolvers : Finishing(q)' = Finishing(q)
    BY <2>1 DEF Finishing
  <2>5. \A q \in Resolvers : Watched(q)' /\ QueryOpen(q)'
    BY <1>3, <1>4, <2>1, <2>4 DEF Held, Watched, QueryOpen
  <2>6. AssertOnlyUnissued'
    BY <1>4, <1>5, <1>6, <2>1 DEF AssertOnlyUnissued, Unissued
  <2> QED  BY <1>2, <2>3, <2>5, <2>6 DEF Held
<1>7. ASSUME resolv_query[r] # "NULL", NEW result \in ResolverResults, Done(r, result), UNCHANGED fate
      PROVE  Held'
  <2> DEFINE rest == <<Remove(r)>> \o stack
  <2>1. rest \in Seq(Frames) /\ CountsSame(rest)
    <3>1. CountsSame(stack)
      BY DEF CountsSame, Emissions, Finishing
    <3> QED  BY <1>1, <3>1, PushedOther
  <2>2. rest = <<Remove(r)>>
    BY <1>1
  <2>3. EmitFinished(r, result, rest) /\ UNCHANGED <<life, held>>
        /\ resolv_query' = [resolv_query EXCEPT ![r] = "NULL"]
    BY <1>7, <2>2 DEF Done
  <2> HIDE DEF rest
  <2> QED  BY <1>2, <1>3, <1>4, <1>5, <1>7, <2>1, <2>3, HeldDone
<1>8. (IF Succeeded(r) THEN "OK" ELSE "FAILED") \in ResolverResults
  BY DEF ResolverResults
<1>9. CASE asyncns_resolver_host_done(r) /\ resolv_query[r] # "NULL"
  BY <1>7, <1>8, <1>9 DEF asyncns_resolver_host_done
<1>10. CASE asyncns_resolver_srv_done(r) /\ resolv_query[r] # "NULL"
  BY <1>7, <1>8, <1>10 DEF asyncns_resolver_srv_done
<1>11. CASE NoQuery(r) \/ NotDone(r) \/ UnsetServerFreed(r)
  BY <1>6, <1>11 DEF NoQuery, NotDone, UnsetServerFreed
<1> QED  BY <1>9, <1>10, <1>11 DEF asyncns_resolver_io_cb

LEMMA HeldLookup ==
  ASSUME Held, fate = "running", UNCHANGED habits, NEW r \in Resolvers,
         asyncns_resolver_lookup_host(r) \/ asyncns_resolver_lookup_srv(r)
  PROVE  Held'
<1>1. Tidy /\ RefInv /\ Tidy'
  BY TidyLookup DEF Held
<1>2. /\ resolver_create(r) /\ UNCHANGED <<told, stack, fate>>
      /\ Issued(r) \/ RequestRefused(r) \/ NoSession
  BY DEF asyncns_resolver_lookup_host, asyncns_resolver_lookup_srv, StartLookup
<1>3. RefInv'
  BY <1>1, <1>2, RefCreate
<1>4. told[r] = <<>> /\ r \notin sources
  BY <1>1, <1>2 DEF RefInv, NotStarted, Tidy, Clean, resolver_create
<1>5. \A q \in Resolvers : Finishing(q)' = Finishing(q)
  BY <1>2 DEF Finishing
<1>6. ASSUME NEW q \in Resolvers PROVE Watched(q)' /\ QueryOpen(q)'
  <2>1. CASE NoSession
    BY <1>2, <1>5, <2>1 DEF Held, Watched, QueryOpen, NoSession
  <2>2. CASE Issued(r) \/ RequestRefused(r)
    <3>1. /\ asyncns_ctx'[q] = IF q = r THEN "up" ELSE asyncns_ctx[q]
          /\ sources' = sources \cup {r}
          /\ q # r => resolv_query'[q] = resolv_query[q]
      BY <1>1, <2>2 DEF Issued, RequestRefused, asyncns_resolver_prep, Tidy, Shape
    <3> QED  BY <1>2, <1>4, <1>5, <3>1 DEF Held, Watched, QueryOpen
  <2> QED  BY <1>2, <2>1, <2>2
<1> QED  BY <1>1, <1>2, <1>3, <1>6 DEF Held, AssertOnlyUnissued

LEMMA HeldClient ==
  ASSUME Held, fate = "running", UNCHANGED habits, Client
  PROVE  Held'
<1>1. Tidy /\ RefInv /\ RefShape /\ Tidy' /\ stack \in Seq(Frames) /\ CountsSame(stack)
  BY TidyClient DEF Held, RefInv, RefShape, CountsSame, Emissions, Finishing
<1>2. CASE ClientDropsAddress
  <2>1. UNCHANGED <<objectVars, told, sources, stack, fate, asyncns_ctx, resolv_query>>
    BY <1>2 DEF ClientDropsAddress, loopVars, sessionVars
  <2>2. RefInv' /\ \A r \in Resolvers : Finishing(r)' = Finishing(r)
    BY <1>1, <2>1, RefSame DEF Finishing
  <2> QED  BY <1>1, <2>1, <2>2, HeldStep
<1>3. ASSUME NEW r \in Resolvers, asyncns_resolver_cancel(r) PROVE Held'
  <2>1. MayCancel(r) /\ UNCHANGED <<sources, asyncns_ctx>>
    BY <1>3 DEF asyncns_resolver_cancel, loopVars
  <2>2. life[r] # "none" /\ (habits = {} => life[r] = "live" /\ told[r] = <<>>)
    BY <1>1, <2>1, UsedIsLive DEF MayCancel
  <2>3. CASE life[r] = "freed"
    <3>1. UNCHANGED <<objectVars, told, stack, resolv_query>> /\ fate' = "use_after_free" /\ habits # {}
      BY <1>3, <2>2, <2>3 DEF asyncns_resolver_cancel
    <3>2. RefInv' /\ \A q \in Resolvers : Finishing(q)' = Finishing(q)
      BY <1>1, <3>1, RefSame DEF Finishing
    <3> QED  BY <1>1, <2>1, <3>1, <3>2, HeldStep
  <2>4. CASE life[r] # "freed"
    <3>1. /\ EmitFinished(r, "CANCELLED", stack) /\ UNCHANGED <<life, held, fate>>
          /\ resolv_query' = [resolv_query EXCEPT ![r] = "NULL"]
      BY <1>3, <2>4 DEF asyncns_resolver_cancel
    <3>2. "CANCELLED" \in ResolverResults
      BY DEF ResolverResults
    <3>3. life[r] = "live"
      BY <1>1, <2>2, <2>4 DEF Tidy, Shape
    <3> QED  BY <1>1, <2>1, <2>2, <3>1, <3>2, <3>3, HeldDone
  <2> QED  BY <2>3, <2>4
<1>4. ASSUME NEW r \in Resolvers, ClientUnref(r) PROVE Held'
  <2>1. MayUnref(r) /\ UNCHANGED <<told, stack>>
    BY <1>4 DEF ClientUnref
  <2>2. life[r] # "none" /\ (habits = {} => life[r] = "live")
    BY <1>1, <2>1, UsedIsLive
  <2>3. \A q \in Resolvers : Finishing(q)' = Finishing(q)
    BY <2>1 DEF Finishing
  <2>4. CASE life[r] = "freed"
    <3>1. /\ UNCHANGED <<objectVars, sources, asyncns_ctx, resolv_query>>
          /\ fate' = "use_after_free" /\ habits # {}
      BY <1>4, <2>2, <2>4 DEF ClientUnref, Untouched, sessionVars, loopVars
    <3>2. RefInv'
      BY <1>1, <2>1, <3>1, RefSame
    <3> QED  BY <1>1, <2>1, <2>3, <3>1, <3>2, HeldStep
  <2>5. CASE life[r] # "freed"
    <3>1. /\ g_object_unref(r) /\ held' = [held EXCEPT ![r] = FALSE] /\ UNCHANGED fate
          /\ asyncns_resolver_cleanup(r) \/ Untouched
      BY <1>4, <2>5 DEF ClientUnref, UnrefAndFinalize
    <3>2. RefInv'
      BY <1>1, <2>1, <2>5, <3>1, RefDrop
    <3>3. \A q \in Resolvers :
            /\ told'[q] = told[q]
            /\ q \in sources' => q \in sources /\ asyncns_ctx'[q] = asyncns_ctx[q]
            /\ resolv_query'[q] \in {resolv_query[q], "NULL"}
      <4>1. CASE asyncns_resolver_cleanup(r)
        BY <1>1, <2>1, <4>1, CleanupStep
      <4>2. CASE Untouched
        BY <2>1, <4>2 DEF Untouched, sessionVars, loopVars
      <4> QED  BY <3>1, <4>1, <4>2
    <3> QED  BY <1>1, <2>3, <3>1, <3>2, <3>3, HeldStep
  <2> QED  BY <2>4, <2>5
<1> QED  BY <1>2, <1>3, <1>4, HeldLookup DEF Client

LEMMA HeldKept == Held /\ [Next]_vars => Held'
<1> SUFFICES ASSUME Held, [Next]_vars PROVE Held'
  OBVIOUS
<1>1. CASE UNCHANGED vars
  <2>1. /\ UNCHANGED <<objectVars, told, habits, stack, fate, sources, asyncns_ctx, resolv_query>>
        /\ Tidy'
    BY <1>1, TidyKept DEF vars, objectVars, resolverVars, sessionVars, Held
  <2>2. RefInv /\ stack' \in Seq(Frames) /\ CountsSame(stack')
    BY <2>1 DEF Held, RefInv, RefShape, CountsSame, Emissions, Finishing
  <2>3. RefInv' /\ \A r \in Resolvers : Finishing(r)' = Finishing(r)
    BY <2>1, <2>2, RefSame DEF Finishing
  <2> QED  BY <2>1, <2>3 DEF Held, Watched, QueryOpen, AssertOnlyUnissued, Unissued
<1>2. ASSUME Running, Workers PROVE Held'
  <2>1. PICK r \in Resolvers : WorkerAnswers(r) \/ WorkerLeaves(r) \/ WorkerCrashes(r)
    BY <1>2 DEF Workers
  <2>2. /\ UNCHANGED <<objectVars, told, habits, stack, fate, sources, asyncns_ctx, resolv_query>>
        /\ fate = "running"
    BY <1>2, <2>1 DEF WorkerAnswers, WorkerLeaves, WorkerCrashes, WorkerTo, Running, objectVars
  <2>3. Tidy'
    BY <2>1, TidyWorker DEF Held
  <2>4. RefInv /\ stack' \in Seq(Frames) /\ CountsSame(stack')
    BY <2>2 DEF Held, RefInv, RefShape, CountsSame, Emissions, Finishing
  <2>5. RefInv' /\ \A q \in Resolvers : Finishing(q)' = Finishing(q)
    BY <2>2, <2>4, RefSame DEF Finishing
  <2> QED  BY <2>2, <2>3, <2>5 DEF Held, Watched, QueryOpen, AssertOnlyUnissued
<1> QED  BY <1>1, <1>2, HeldLibrary, HeldWatch, HeldClient DEF Next, Running, Watches

LEMMA HeldAlways == Spec => []Held
  BY HeldInit, HeldKept, PTL DEF Spec

(* A reference is the resolver's own, its client's, or that of an emission *)
(* under way: nobody gives back another's, whatever the order of answers,  *)
(* cancels and unrefs, if the client keeps to its own.                     *)
THEOREM RefsBalancedAlways == Spec => []RefsBalanced
  BY HeldAlways, HeldMeans, PTL

(* So with such a client no function of the resolver runs on one that was  *)
(* finalized.                                                              *)
THEOREM NoUseAfterFinalizeAlways == Spec => []NoUseAfterFinalize
  BY HeldAlways, HeldMeans, PTL

(* libasyncns is asked about no query only if the request of a lookup that *)
(* was not answered yet could not be sent, whatever the client.            *)
THEOREM AssertOnlyUnissuedAlways == Spec => []AssertOnlyUnissued
  BY HeldAlways, HeldMeans, PTL

-----------------------------------------------------------------------------
(* Sessions and their answers *)

Inboxes ==
  /\ inbox \in [Resolvers -> Seq(Messages)]
  /\ \A r \in Resolvers : Has(r, "bad") => BadAnswers

(* A careful client's lookup that cannot be answered any more had a reason *)
(* not to be.                                                              *)
Explained(r) ==
  habits = {} /\ told[r] = <<>> /\ life[r] # "none"
    /\ (asyncns_ctx[r] = "NULL" \/ resolv_query[r] = "NULL" \/ worker[r] = "gone")
  => MayLose

Sound ==
  /\ Held /\ Inboxes
  /\ resolve_type \in [Resolvers -> {"host", "srv"}]
  /\ fate \in Fates /\ habits \in Clients
  /\ \A r \in Resolvers : Explained(r)

LEMMA SoundInit == Init => Sound
<1> SUFFICES ASSUME Init PROVE Sound
  OBVIOUS
<1>1. Held
  BY HeldInit
<1>2. Inboxes
  <2>1. inbox \in [Resolvers -> Seq(Messages)]
    BY DEF Init
  <2>2. \A r \in Resolvers : ~Has(r, "bad")
    BY DEF Init, Has
  <2> QED  BY <2>1, <2>2 DEF Inboxes
<1> QED  BY <1>1, <1>2 DEF Init, ResolverInit, Sound, Explained, Fates

(* Inboxes are emptied, or get one message. *)
LEMMA InboxEmptied ==
  ASSUME Inboxes, NEW r, inbox' = inbox \/ inbox' = [inbox EXCEPT ![r] = <<>>]
  PROVE  /\ Inboxes'
         /\ \A q \in Resolvers : \A m : Has(q, m)' => Has(q, m)
<1>1. inbox \in [Resolvers -> Seq(Messages)]
  BY DEF Inboxes
<1>2. inbox' \in [Resolvers -> Seq(Messages)]
  <2>1. CASE inbox' = inbox
    BY <1>1, <2>1
  <2>2. CASE inbox' = [inbox EXCEPT ![r] = <<>>]
    <3>1. <<>> \in Seq(Messages)
      OBVIOUS
    <3> QED  BY <1>1, <2>2, <3>1
  <2> QED  BY <2>1, <2>2
<1>3. ASSUME NEW q \in Resolvers, NEW m, Has(q, m)' PROVE Has(q, m)
  <2>1. inbox'[q] = inbox[q] \/ inbox'[q] = <<>>
    BY <1>1
  <2> QED  BY <1>3, <2>1 DEF Has
<1> QED  BY <1>2, <1>3 DEF Inboxes

LEMMA InboxSays ==
  ASSUME Inboxes, NEW r \in Resolvers, NEW m \in Messages, Says(r, m)
  PROVE  /\ inbox' \in [Resolvers -> Seq(Messages)]
         /\ \A q \in Resolvers : \A x : Has(q, x)' <=> Has(q, x) \/ (q = r /\ x = m)
<1>1. inbox \in [Resolvers -> Seq(Messages)] /\ inbox' = [inbox EXCEPT ![r] = Append(@, m)]
  BY DEF Inboxes, Says
<1>2. inbox' \in [Resolvers -> Seq(Messages)]
  BY <1>1
<1>3. ASSUME NEW q \in Resolvers, NEW x PROVE Has(q, x)' <=> Has(q, x) \/ (q = r /\ x = m)
  <2>1. CASE q = r
    <3>1. inbox[r] \in Seq(Messages) /\ inbox'[r] = Append(inbox[r], m)
      BY <1>1
    <3>2. /\ Len(inbox'[r]) = Len(inbox[r]) + 1 /\ inbox'[r][Len(inbox[r]) + 1] = m
          /\ \A k \in 1 .. Len(inbox[r]) : inbox'[r][k] = inbox[r][k]
      BY <3>1
    <3>3. Len(inbox[r]) \in Nat
      BY <3>1
    <3> DEFINE now == inbox'[r]
               before == inbox[r]
    <3>4. \A k \in 1 .. Len(before) + 1 : k \in 1 .. Len(before) \/ k = Len(before) + 1
      BY <3>3
    <3>5. (\E k \in 1 .. Len(now) : now[k] = x) <=> (\E k \in 1 .. Len(before) : before[k] = x) \/ x = m
      BY <3>2, <3>3, <3>4
    <3> QED  BY <2>1, <3>5 DEF Has
  <2>2. CASE q # r
    <3>1. inbox'[q] = inbox[q]
      BY <1>1, <2>2
    <3> QED  BY <2>2, <3>1 DEF Has
  <2> QED  BY <2>1, <2>2
<1> QED  BY <1>2, <1>3

(* Steps that only end lookups that are answered. *)
LEMMA SoundStep ==
  ASSUME Sound, Held', Inboxes', UNCHANGED <<resolve_type, habits>>, fate' \in Fates,
         \A r \in Resolvers :
           habits = {} /\ told'[r] = <<>> =>
             /\ told[r] = <<>> /\ (life'[r] = "none" <=> life[r] = "none")
             /\ asyncns_ctx'[r] = "NULL" => asyncns_ctx[r] = "NULL"
             /\ resolv_query'[r] = resolv_query[r] /\ worker'[r] = worker[r]
  PROVE  Sound'
  BY DEF Sound, Explained

LEMMA SoundReturns ==
  ASSUME Sound, Held', fate = "running", UNCHANGED habits, FinishReturns \/ HandlerReturns
  PROVE  Sound'
<1> DEFINE r == Head(stack).resolver
<1>1. Tidy /\ RefInv /\ RefShape /\ stack # <<>> /\ stack' = Tail(stack) /\ UNCHANGED <<told, resolve_type>>
  BY DEF Sound, Held, RefInv, FinishReturns, HandlerReturns, Top
<1>2. r \in Resolvers /\ Head(stack).op \in {"handler", "finish"}
  BY <1>1, Popped DEF FinishReturns, HandlerReturns, Top
<1>3. told[r] # <<>>
  BY <1>1, <1>2, Popped DEF RefInv, Silent, OneIf
<1>4. CASE life[r] = "freed"
  <2>1. UNCHANGED <<objectVars, asyncns_ctx, resolv_query, worker, inbox>> /\ fate' = "use_after_free"
    BY <1>4 DEF FinishReturns, HandlerReturns, Untouched, sessionVars
  <2>2. Inboxes'
    BY <2>1, InboxEmptied DEF Sound
  <2> QED  BY <1>1, <2>1, <2>2, SoundStep DEF objectVars, Fates
<1>5. CASE life[r] # "freed"
  <2>1. g_object_unref(r) /\ UNCHANGED fate /\ (asyncns_resolver_cleanup(r) \/ Untouched)
    BY <1>5 DEF FinishReturns, HandlerReturns, CleanupAndUnref, UnrefAndFinalize
  <2>2. \A q \in Resolvers : q # r => life'[q] = life[q]
    BY <1>1, <2>1 DEF g_object_unref, Tidy, Shape
  <2>3. Inboxes'
    BY <2>1, InboxEmptied DEF Sound, asyncns_resolver_cleanup, FreeSession, Untouched, sessionVars
  <2>4. \A q \in Resolvers :
          q # r => /\ asyncns_ctx'[q] = asyncns_ctx[q] /\ resolv_query'[q] = resolv_query[q]
                   /\ worker'[q] = worker[q]
    BY <1>1, <1>2, <2>1, CleanupStep DEF Untouched, sessionVars
  <2> QED  BY <1>1, <1>3, <2>1, <2>2, <2>3, <2>4, SoundStep DEF Sound
<1> QED  BY <1>4, <1>5

LEMMA SoundLibrary ==
  ASSUME Sound, Held', fate = "running", UNCHANGED habits, Library
  PROVE  Sound'
<1>1. CASE Poll \/ SourceRemoved
  <2>1. UNCHANGED <<objectVars, told, fate, resolve_type, asyncns_ctx, resolv_query, worker, inbox>>
    BY <1>1 DEF Poll, PollFinds, SourceRemoved, resolverVars, sessionVars
  <2>2. Inboxes'
    BY <2>1, InboxEmptied DEF Sound
  <2> QED  BY <2>1, <2>2, SoundStep DEF objectVars, Sound
<1> QED  BY <1>1, SoundReturns DEF Library

LEMMA SoundWatch ==
  ASSUME Sound, Held', fate = "running", UNCHANGED habits, NEW r \in Resolvers, asyncns_resolver_io_cb(r)
  PROVE  Sound'
<1>1. Tidy /\ RefInv /\ RefShape
  BY DEF Sound, Held, RefInv
<1>2. /\ UNCHANGED <<worker, resolve_type>>
      /\ \A q \in Resolvers : asyncns_ctx'[q] = "NULL" => asyncns_ctx[q] = "NULL"
      /\ inbox' = [inbox EXCEPT ![r] = <<>>]
  BY <1>1 DEF asyncns_resolver_io_cb, asyncns_wait, Tidy, Shape
<1>3. Inboxes'
  BY <1>2, InboxEmptied DEF Sound
<1>4. ASSUME NothingDone(r), fate' \in Fates PROVE Sound'
  BY <1>2, <1>3, <1>4, SoundStep DEF NothingDone, objectVars
<1>5. ASSUME NEW result \in ResolverResults, Done(r, result), UNCHANGED fate PROVE Sound'
  <2>1. /\ told' = [told EXCEPT ![r] = Append(@, result)] /\ UNCHANGED life
        /\ resolv_query' = [resolv_query EXCEPT ![r] = "NULL"]
    BY <1>5 DEF Done, EmitFinished
  <2>2. told[r] \in Seq(ResolverResults) /\ told'[r] = Append(told[r], result)
    BY <1>1, <2>1 DEF RefShape
  <2>3. told'[r] # <<>>
    BY <2>2
  <2>4. \A q \in Resolvers \ {r} : told'[q] = told[q] /\ resolv_query'[q] = resolv_query[q]
    BY <1>1, <2>1 DEF RefShape, Tidy, Shape
  <2> QED  BY <1>2, <1>3, <1>5, <2>1, <2>3, <2>4, SoundStep DEF Sound
<1>6. (IF Succeeded(r) THEN "OK" ELSE "FAILED") \in ResolverResults
  BY DEF ResolverResults
<1>7. CASE asyncns_resolver_host_done(r)
  BY <1>5, <1>6, <1>7 DEF asyncns_resolver_host_done
<1>8. CASE asyncns_resolver_srv_done(r)
  BY <1>5, <1>6, <1>8 DEF asyncns_resolver_srv_done
<1>9. CASE NoQuery(r) \/ NotDone(r) \/ UnsetServerFreed(r)
  BY <1>4, <1>9 DEF NoQuery, NotDone, UnsetServerFreed, Fates
<1> QED  BY <1>7, <1>8, <1>9 DEF asyncns_resolver_io_cb

LEMMA SoundWorkers ==
  ASSUME Sound, Held', fate = "running", UNCHANGED habits, NEW r \in Resolvers,
         WorkerAnswers(r) \/ WorkerLeaves(r) \/ WorkerCrashes(r)
  PROVE  Sound'
<1>1. /\ UNCHANGED <<life, told, fate, asyncns_ctx, resolv_query, resolve_type>>
      /\ worker \in [Resolvers -> {"idle", "busy", "gone"}] /\ Inboxes
  BY DEF WorkerAnswers, WorkerLeaves, WorkerCrashes, WorkerTo, Sound, Held, Tidy, Shape
<1>2. CASE WorkerAnswers(r)
  <2>1. worker[r] # "gone" /\ worker' = [worker EXCEPT ![r] = "idle"]
    BY <1>2 DEF WorkerAnswers, WorkerTo
  <2>2. PICK m \in Messages : Says(r, m) /\ (m = "bad" => BadAnswers)
    BY <1>2 DEF WorkerAnswers, Messages
  <2>3. Inboxes'
    BY <1>1, <2>2, InboxSays DEF Inboxes
  <2> QED  BY <1>1, <2>1, <2>3 DEF Sound, Explained
<1>3. CASE WorkerLeaves(r)
  <2>1. "died" \in Messages /\ Says(r, "died") /\ MayLose
    BY <1>3 DEF WorkerLeaves, Messages, MayLose
  <2>2. Inboxes'
    BY <1>1, <2>1, InboxSays DEF Inboxes
  <2> QED  BY <1>1, <2>1, <2>2 DEF Sound, Explained
<1>4. CASE WorkerCrashes(r)
  <2>1. MayLose /\ inbox' = inbox
    BY <1>4 DEF WorkerCrashes, MayLose
  <2>2. Inboxes'
    BY <1>1, <2>1, InboxEmptied
  <2> QED  BY <1>1, <2>1, <2>2 DEF Sound, Explained
<1> QED  BY <1>2, <1>3, <1>4

LEMMA SoundLookup ==
  ASSUME Sound, Held', fate = "running", UNCHANGED habits, NEW r \in Resolvers,
         asyncns_resolver_lookup_host(r) \/ asyncns_resolver_lookup_srv(r)
  PROVE  Sound'
<1>1. /\ resolver_create(r) /\ UNCHANGED <<told, fate, inbox>>
      /\ Issued(r) \/ RequestRefused(r) \/ NoSession
      /\ resolve_type' \in [Resolvers -> {"host", "srv"}]
  BY DEF asyncns_resolver_lookup_host, asyncns_resolver_lookup_srv, StartLookup, Sound
<1>2. Inboxes'
  BY <1>1, InboxEmptied DEF Sound
<1>3. ASSUME NEW q \in Resolvers PROVE Explained(q)'
  <2>1. CASE q = r
    <3>1. CASE Issued(r)
      <4>1. asyncns_ctx'[r] = "up" /\ resolv_query'[r] = "pending" /\ worker'[r] = "busy"
        BY <3>1 DEF Issued, asyncns_resolver_prep, Sound, Held, Tidy, Shape
      <4> QED  BY <2>1, <4>1 DEF Explained
    <3>2. CASE RequestRefused(r) \/ NoSession
      BY <3>2 DEF RequestRefused, NoSession, Explained, MayLose
    <3> QED  BY <1>1, <3>1, <3>2
  <2>2. CASE q # r
    <3>1. life'[q] = life[q]
      BY <1>1, <2>2 DEF resolver_create, Sound, Held, Tidy, Shape
    <3>2. asyncns_ctx'[q] = asyncns_ctx[q] /\ resolv_query'[q] = resolv_query[q] /\ worker'[q] = worker[q]
      BY <1>1, <2>2 DEF Issued, RequestRefused, NoSession, asyncns_resolver_prep, Sound, Held, Tidy, Shape
    <3> QED  BY <1>1, <3>1, <3>2 DEF Sound, Explained
  <2> QED  BY <2>1, <2>2
<1> QED  BY <1>1, <1>2, <1>3 DEF Sound

LEMMA SoundClient ==
  ASSUME Sound, Held', fate = "running", UNCHANGED habits, Client
  PROVE  Sound'
<1>1. Tidy /\ RefInv /\ RefShape
  BY DEF Sound, Held, RefInv
<1>2. CASE ClientDropsAddress
  <2>1. UNCHANGED <<objectVars, told, fate, resolve_type, asyncns_ctx, resolv_query, worker, inbox>>
    BY <1>2 DEF ClientDropsAddress, sessionVars
  <2>2. Inboxes'
    BY <2>1, InboxEmptied DEF Sound
  <2> QED  BY <2>1, <2>2, SoundStep DEF objectVars, Sound
<1>3. ASSUME NEW r \in Resolvers, asyncns_resolver_cancel(r) PROVE Sound'
  <2>1. UNCHANGED <<life, asyncns_ctx, worker, inbox, resolve_type>> /\ fate' \in Fates
    BY <1>3 DEF asyncns_resolver_cancel, objectVars, Sound, Fates
  <2>2. Inboxes'
    BY <2>1, InboxEmptied DEF Sound
  <2>3. CASE UNCHANGED <<told, resolv_query>>
    BY <2>1, <2>2, <2>3, SoundStep
  <2>4. CASE /\ told' = [told EXCEPT ![r] = Append(@, "CANCELLED")]
             /\ resolv_query' = [resolv_query EXCEPT ![r] = "NULL"]
    <3>1. told[r] \in Seq(ResolverResults) /\ told'[r] = Append(told[r], "CANCELLED")
      BY <1>1, <2>4 DEF RefShape
    <3>2. told'[r] # <<>>
      BY <3>1
    <3>3. \A q \in Resolvers \ {r} : told'[q] = told[q] /\ resolv_query'[q] = resolv_query[q]
      BY <1>1, <2>4 DEF RefShape, Tidy, Shape
    <3> QED  BY <2>1, <2>2, <3>2, <3>3, SoundStep
  <2> QED  BY <1>3, <2>3, <2>4 DEF asyncns_resolver_cancel, EmitFinished
<1>4. ASSUME NEW r \in Resolvers, ClientUnref(r) PROVE Sound'
  <2>1. MayUnref(r) /\ UNCHANGED <<told, resolve_type>> /\ fate' \in Fates
    BY <1>4 DEF ClientUnref, Sound, Fates
  <2>2. CASE Untouched /\ (UNCHANGED objectVars \/ (g_object_unref(r) /\ ~LastRef(r)))
    <3>1. UNCHANGED <<life, asyncns_ctx, resolv_query, worker, inbox>>
      BY <1>1, <2>2 DEF Untouched, sessionVars, objectVars, g_object_unref, Tidy, Shape
    <3>2. Inboxes'
      BY <3>1, InboxEmptied DEF Sound
    <3> QED  BY <2>1, <3>1, <3>2, SoundStep
  <2>3. CASE asyncns_resolver_cleanup(r) /\ g_object_unref(r) /\ LastRef(r)
    <3>1. Inboxes'
      BY <2>3, InboxEmptied DEF Sound, asyncns_resolver_cleanup, FreeSession
    <3>2. habits = {} => told[r] # <<>>
      BY <1>1, <2>1, <2>3, LastIsFinished DEF MayUnref
    <3>3. \A q \in Resolvers \ {r} : /\ life'[q] = life[q] /\ asyncns_ctx'[q] = asyncns_ctx[q]
                                   /\ resolv_query'[q] = resolv_query[q] /\ worker'[q] = worker[q]
      BY <1>1, <2>3, CleanupStep DEF g_object_unref, Tidy, Shape
    <3> QED  BY <2>1, <3>1, <3>2, <3>3, SoundStep
  <2> QED  BY <1>4, <2>2, <2>3 DEF ClientUnref, UnrefAndFinalize
<1> QED  BY <1>2, <1>3, <1>4, SoundLookup DEF Client

LEMMA SoundKept == Sound /\ [Next]_vars => Sound'
<1> SUFFICES ASSUME Sound, [Next]_vars PROVE Sound'
  OBVIOUS
<1>1. Held'
  BY HeldKept DEF Sound
<1>2. CASE UNCHANGED vars
  <2>1. UNCHANGED <<life, told, habits, fate, resolve_type, asyncns_ctx, resolv_query, worker, inbox>>
    BY <1>2 DEF vars, resolverVars, sessionVars
  <2>2. Inboxes'
    BY <2>1, InboxEmptied DEF Sound
  <2> QED  BY <1>1, <2>1, <2>2, SoundStep DEF Sound
<1> QED  BY <1>1, <1>2, SoundLibrary, SoundWatch, SoundWorkers, SoundClient
         DEF Next, Running, Watches, Workers

LEMMA SoundAlways == Spec => []Sound
  BY SoundInit, SoundKept, PTL DEF Spec
-----------------------------------------------------------------------------
(* What each variable holds *)

LEMMA WellTyped == ASSUME IsFiniteSet(Resolvers), Sound, Counted PROVE TypeOK
<1>1. Tidy /\ Shape /\ RefInv /\ RefShape
  BY DEF Sound, Held, Tidy, RefInv
<1>2. ref_count \in [Resolvers -> Nat]
  BY <1>1 DEF RefInv, RefShape, Alive
<1>3. ResolverTypeOK
  BY <1>1, <1>2 DEF Sound, RefShape, Shape, ResolverTypeOK
<1>4. address \in [refs : Nat, client : BOOLEAN, results : Resolvers \cup {Nobody}]
  <2>1. Cardinality(Holders) \in Nat /\ address \in Addresses
    BY HoldersFinite, FS_CardinalityType DEF Counted
  <2>2. address.refs \in Nat
    BY <2>1 DEF Counted, AddressCounted
  <2> QED  BY <2>1, <2>2 DEF Addresses
<1> QED  BY <1>1, <1>3, <1>4 DEF TypeOK, Sound, Inboxes, Shape

(* Every variable keeps to its type; a count of references is never below  *)
(* zero, whatever the client unrefs.                                       *)
THEOREM TypeOKAlways == ASSUME IsFiniteSet(Resolvers) PROVE Spec => []TypeOK
<1>1. Init => Counted
  BY CountInit
<1>2. Counted /\ [Next]_vars => Counted'
  BY CountKept
<1>3. Sound /\ Counted => TypeOK
  BY WellTyped
<1> QED  BY <1>1, <1>2, <1>3, SoundInit, SoundKept, PTL DEF Spec

-----------------------------------------------------------------------------
(* What finished says *)

TrueTo(r, result) ==
  /\ result = "OK" => /\ Has(r, "ok")
                      /\ resolve_type[r] = "host" => address'.results = r
                      /\ resolve_type[r] = "srv" => sa'[r] = "own"
  /\ result = "FAILED" /\ Has(r, "ok") => Has(r, "died")

ResultsTrue == \A r \in Resolvers : told'[r] # told[r] => TrueTo(r, told'[r][Len(told'[r])])

LEMMA TrueOne ==
  ASSUME Sound, NEW r \in Resolvers, NEW result \in ResolverResults,
         told' = [told EXCEPT ![r] = Append(@, result)], TrueTo(r, result)
  PROVE  ResultsTrue
<1>1. told \in [Resolvers -> Seq(ResolverResults)]
  BY DEF Sound, Held, RefInv, RefShape
<1>2. told[r] \in Seq(ResolverResults) /\ told'[r] = Append(told[r], result)
      /\ \A q \in Resolvers \ {r} : told'[q] = told[q]
  BY <1>1
<1>3. told'[r][Len(told'[r])] = result
  BY <1>2
<1> QED  BY <1>2, <1>3 DEF ResultsTrue

LEMMA TrueWatch ==
  ASSUME Sound, Counted, NEW r \in Resolvers, asyncns_resolver_io_cb(r)
  PROVE  UNCHANGED told \/ ResultsTrue
<1> DEFINE result == IF Succeeded(r) THEN "OK" ELSE "FAILED"
<1>1. result \in ResolverResults /\ (result = "OK" => Succeeded(r)) /\ (result = "FAILED" => ~Succeeded(r))
  BY DEF ResolverResults
<1> HIDE DEF result
<1>2. CASE asyncns_resolver_host_done(r)
  <2>1. resolve_type[r] = "host" /\ told' = [told EXCEPT ![r] = Append(@, result)]
        /\ address' = [address EXCEPT !.results = IF Succeeded(r) THEN r ELSE @]
    BY <1>2 DEF asyncns_resolver_host_done, Done, EmitFinished, result
  <2>2. Succeeded(r) => address'.results = r
    BY <2>1 DEF Counted, Addresses
  <2> QED  BY <1>1, <2>1, <2>2, TrueOne DEF TrueTo, Succeeded
<1>3. CASE asyncns_resolver_srv_done(r)
  <2>1. resolve_type[r] = "srv" /\ told' = [told EXCEPT ![r] = Append(@, result)]
        /\ sa' = [sa EXCEPT ![r] = IF Succeeded(r) THEN "own" ELSE @]
    BY <1>3 DEF asyncns_resolver_srv_done, Done, EmitFinished, result
  <2>2. Succeeded(r) => sa'[r] = "own"
    BY <2>1 DEF Counted, Tidy, Shape
  <2> QED  BY <1>1, <2>1, <2>2, TrueOne DEF TrueTo, Succeeded
<1>4. CASE NoQuery(r) \/ NotDone(r) \/ UnsetServerFreed(r)
  BY <1>4 DEF NoQuery, NotDone, UnsetServerFreed, NothingDone
<1> QED  BY <1>2, <1>3, <1>4 DEF asyncns_resolver_io_cb

LEMMA TrueStep == ASSUME Sound, Counted, [Next]_vars PROVE UNCHANGED told \/ ResultsTrue
<1>1. CASE UNCHANGED vars
  BY <1>1 DEF vars
<1>2. CASE Library
  BY <1>2 DEF Library, Poll, PollFinds, FinishReturns, HandlerReturns, SourceRemoved
<1>3. CASE Workers
  BY <1>3 DEF Workers, WorkerAnswers, WorkerLeaves, WorkerCrashes, WorkerTo
<1>4. CASE Watches
  BY <1>4, TrueWatch DEF Watches
<1>5. CASE Client
  <2>1. ASSUME NEW r \in Resolvers, asyncns_resolver_cancel(r)
        PROVE  UNCHANGED told \/ ResultsTrue
    <3>1. "CANCELLED" \in ResolverResults /\ TrueTo(r, "CANCELLED")
      BY DEF ResolverResults, TrueTo
    <3>2. UNCHANGED told \/ told' = [told EXCEPT ![r] = Append(@, "CANCELLED")]
      BY <2>1 DEF asyncns_resolver_cancel, EmitFinished
    <3> QED  BY <3>1, <3>2, TrueOne
  <2>2. ASSUME NEW r \in Resolvers,
               asyncns_resolver_lookup_host(r) \/ asyncns_resolver_lookup_srv(r) \/ ClientUnref(r)
        PROVE  UNCHANGED told
    BY <2>2 DEF asyncns_resolver_lookup_host, asyncns_resolver_lookup_srv, StartLookup, ClientUnref
  <2>3. ClientDropsAddress => UNCHANGED told
    BY DEF ClientDropsAddress
  <2> QED  BY <1>5, <2>1, <2>2, <2>3 DEF Client
<1> QED  BY <1>1, <1>2, <1>3, <1>4, <1>5 DEF Next

(* finished says OK only of a lookup that succeeded, when its result is    *)
(* there to be used, and FAILED of one that succeeded only if the session  *)
(* died (asyncns_resolver_host_done, asyncns_resolver_srv_done).           *)
THEOREM ResultTrueAlways == ASSUME IsFiniteSet(Resolvers) PROVE Spec => ResultTrue
<1>1. Init => Counted
  BY CountInit
<1>2. Counted /\ [Next]_vars => Counted'
  BY CountKept
<1>3. Sound /\ Counted /\ [Next]_vars
        => [\A r \in Resolvers :
              told'[r] # told[r] =>
                LET result == told'[r][Len(told'[r])] IN
                /\ result = "OK" => /\ Has(r, "ok")
                                    /\ resolve_type[r] = "host" => address'.results = r
                                    /\ resolve_type[r] = "srv" => sa'[r] = "own"
                /\ result = "FAILED" /\ Has(r, "ok") => Has(r, "died")]_vars
  <2> SUFFICES ASSUME Sound, Counted, [Next]_vars, NEW r \in Resolvers, told'[r] # told[r]
               PROVE  TrueTo(r, told'[r][Len(told'[r])])
    BY DEF TrueTo
  <2> QED  BY TrueStep DEF ResultsTrue
<1> QED  BY <1>1, <1>2, <1>3, SoundInit, SoundKept, PTL DEF Spec, ResultTrue
-----------------------------------------------------------------------------
(* What a careful client is served *)

Moves(from, to) == \/ from = to
                   \/ from = "none" /\ (to = "asked" \/ (MayLose /\ to = "lost"))
                   \/ from \in {"asked", "lost"} /\ to = "told"
                   \/ MayLose /\ from = "asked" /\ to = "lost"

LEMMA ServedOne ==
  ASSUME habits = {}, habits' = {}, NEW r \in Resolvers,
         \A q \in Resolvers \ {r} : Status(q)' = Status(q), Moves(Status(r), Status(r)')
  PROVE  [Service!Next]_Served
<1> DEFINE to == Status(r)'
<1>1. Served' = [Served EXCEPT ![r] = to] /\ Served[r] = Status(r)
  BY DEF Served
<1>2. CASE Status(r) = to
  <2>1. Served' = Served
    BY <1>2 DEF Served
  <2> QED  BY <2>1
<1>3. CASE Status(r) = "none" /\ (to = "asked" \/ (MayLose /\ to = "lost"))
  <2>1. Service!Ask(r)
    BY <1>1, <1>3 DEF Service!Ask, Service!Becomes
  <2> QED  BY <2>1 DEF Service!Next
<1>4. CASE Status(r) \in {"asked", "lost"} /\ to = "told"
  <2>1. Service!Cancel(r)
    BY <1>1, <1>4 DEF Service!Cancel, Service!Becomes
  <2> QED  BY <2>1 DEF Service!Next
<1>5. CASE MayLose /\ Status(r) = "asked" /\ to = "lost"
  <2>1. Service!Lose({r}) /\ {r} \in SUBSET Service!Asked
    BY <1>1, <1>5 DEF Service!Lose, Service!Asked, Served
  <2> QED  BY <2>1 DEF Service!Next
<1> QED  BY <1>2, <1>3, <1>4, <1>5 DEF Moves

LEMMA ServedNone ==
  ASSUME habits = {}, habits' = {},
         MayLose, \A r \in Resolvers : Status(r)' = Status(r) \/ (Status(r) = "asked" /\ Status(r)' = "lost")
  PROVE  [Service!Next]_Served
<1> DEFINE lost == {r \in Resolvers : Status(r)' # Status(r)}
<1>1. lost \in SUBSET Service!Asked
  BY DEF Service!Asked, Served
<1>2. Service!Lose(lost)
  BY DEF Service!Lose, Served
<1> QED  BY <1>1, <1>2 DEF Service!Next

(* A lookup to which nothing happens that matters. *)
LEMMA StatusSame ==
  ASSUME NEW r, fate' = fate, told'[r] = told[r],
         \/ told[r] # <<>>
         \/ /\ life'[r] = "none" <=> life[r] = "none"
            /\ asyncns_ctx'[r] = "NULL" <=> asyncns_ctx[r] = "NULL"
            /\ resolv_query'[r] = "NULL" <=> resolv_query[r] = "NULL"
            /\ (worker'[r] = "gone" /\ ~IsDone(r)') <=> (worker[r] = "gone" /\ ~IsDone(r))
  PROVE  Status(r)' = Status(r)
<1>1. CASE told[r] # <<>>
  BY <1>1 DEF Status
<1>2. CASE told[r] = <<>>
  BY <1>2 DEF Status, Lost
<1> QED  BY <1>1, <1>2

LEMMA ServedSame ==
  ASSUME habits = {}, habits' = {}, \A r \in Resolvers : Status(r)' = Status(r)
  PROVE  [Service!Next]_Served
<1>1. Served' = Served
  BY DEF Served
<1> QED  BY <1>1

LEMMA ServedLibrary ==
  ASSUME Sound, habits = {}, habits' = {}, fate = "running", Library
  PROVE  [Service!Next]_Served
<1>1. Tidy /\ RefInv /\ RefShape
  BY DEF Sound, Held, RefInv
<1>2. CASE Poll \/ SourceRemoved
  <2>1. UNCHANGED <<life, told, fate, asyncns_ctx, resolv_query, worker, inbox>>
    BY <1>2 DEF Poll, PollFinds, SourceRemoved, objectVars, resolverVars, sessionVars
  <2>2. \A r \in Resolvers : Status(r)' = Status(r)
    BY <2>1 DEF Status, Lost, IsDone, Has
  <2> QED  BY <2>2, ServedSame
<1>3. CASE FinishReturns \/ HandlerReturns
  <2> DEFINE r == Head(stack).resolver
  <2>1. stack # <<>> /\ stack' = Tail(stack) /\ UNCHANGED told /\ (Top("handler") \/ Top("finish"))
    BY <1>3 DEF FinishReturns, HandlerReturns, Top
  <2>2. r \in Resolvers /\ Head(stack).op \in {"handler", "finish"}
    BY <1>1, <2>1, Popped DEF Top
  <2>3. told[r] # <<>>
    BY <1>1, <2>1, <2>2, Popped DEF RefInv, Silent, OneIf
  <2>4. life[r] # "freed"
    <3> SUFFICES ASSUME life[r] = "freed" PROVE FALSE
      OBVIOUS
    <3>1. UNCHANGED objectVars
      BY <1>3 DEF FinishReturns, HandlerReturns
    <3> QED  BY <1>1, <2>1, <3>1, RefGone
  <2>5. g_object_unref(r) /\ UNCHANGED fate /\ (asyncns_resolver_cleanup(r) \/ Untouched)
    BY <1>3, <2>4 DEF FinishReturns, HandlerReturns, CleanupAndUnref, UnrefAndFinalize
  <2>6. ASSUME NEW q \in Resolvers PROVE Status(q)' = Status(q)
    <3>1. CASE q = r
      BY <2>1, <2>3, <2>5, <3>1, StatusSame
    <3>2. CASE q # r
      <4>1. life'[q] = life[q]
        BY <1>1, <2>5, <3>2 DEF g_object_unref, Tidy, Shape
      <4>2. asyncns_ctx'[q] = asyncns_ctx[q] /\ resolv_query'[q] = resolv_query[q]
            /\ worker'[q] = worker[q] /\ inbox'[q] = inbox[q]
        BY <1>1, <2>2, <2>5, <3>2, CleanupStep DEF Untouched, sessionVars
      <4>3. IsDone(q)' <=> IsDone(q)
        BY <4>2 DEF IsDone, Has
      <4> QED  BY <2>1, <2>5, <4>1, <4>2, <4>3, StatusSame
    <3> QED  BY <3>1, <3>2
  <2> QED  BY <2>6, ServedSame
<1> QED  BY <1>2, <1>3 DEF Library

(* finished is emitted, for the first time. *)
LEMMA ServedTold ==
  ASSUME Sound, habits = {}, habits' = {}, NEW r \in Resolvers, NEW result \in ResolverResults,
         told[r] = <<>>, life[r] = "live", fate' = fate,
         told' = [told EXCEPT ![r] = Append(@, result)],
         \A q \in Resolvers \ {r} :
           /\ life'[q] = life[q] /\ asyncns_ctx'[q] = asyncns_ctx[q] /\ worker'[q] = worker[q]
           /\ resolv_query'[q] = resolv_query[q] /\ inbox'[q] = inbox[q]
  PROVE  [Service!Next]_Served
<1>1. told \in [Resolvers -> Seq(ResolverResults)]
  BY DEF Sound, Held, RefInv, RefShape
<1>2. told'[r] = Append(<<>>, result) /\ \A q \in Resolvers \ {r} : told'[q] = told[q]
  BY <1>1
<1>3. told'[r] # <<>> /\ Len(told'[r]) = 1
  BY <1>2
<1>4. Status(r)' = "told"
  BY <1>3 DEF Status
<1>5. Status(r) \in {"asked", "lost"}
  BY DEF Status
<1>6. ASSUME NEW q \in Resolvers \ {r} PROVE Status(q)' = Status(q)
  <2>1. IsDone(q)' <=> IsDone(q)
    BY DEF IsDone, Has
  <2> QED  BY <1>2, <2>1, StatusSame
<1> QED  BY <1>4, <1>5, <1>6, ServedOne DEF Moves

LEMMA ServedWatch ==
  ASSUME Sound, habits = {}, habits' = {}, fate = "running", NEW r \in Resolvers, asyncns_resolver_io_cb(r)
  PROVE  [Service!Next]_Served
<1>1. Tidy /\ RefInv /\ RefShape /\ Inboxes
  BY DEF Sound, Held, RefInv
<1>2. life[r] = "live" /\ told[r] = <<>>
  <2>1. Finishing(r) = 0
    BY CountNone DEF asyncns_resolver_io_cb, Finishing
  <2> QED  BY <1>1, <2>1 DEF asyncns_resolver_io_cb, Sound, Held, Watched, Tidy, Shape, Clean
<1>3. /\ UNCHANGED worker /\ inbox' = [inbox EXCEPT ![r] = <<>>]
      /\ \A q \in Resolvers : asyncns_ctx'[q] = "NULL" <=> asyncns_ctx[q] = "NULL"
      /\ \A q \in Resolvers \ {r} : asyncns_ctx'[q] = asyncns_ctx[q] /\ inbox'[q] = inbox[q]
  <2>1. /\ UNCHANGED worker /\ inbox' = [inbox EXCEPT ![r] = <<>>]
        /\ asyncns_ctx' = [asyncns_ctx EXCEPT ![r] = IF Has(r, "died") THEN "dead" ELSE @]
    BY DEF asyncns_resolver_io_cb, asyncns_wait
  <2>2. asyncns_ctx[r] # "NULL"
    BY <1>1 DEF asyncns_resolver_io_cb, Sound, Held, Watched, Tidy, Shape
  <2>3. \A q \in Resolvers : asyncns_ctx'[q] = "NULL" <=> asyncns_ctx[q] = "NULL"
    BY <1>1, <2>1, <2>2 DEF Tidy, Shape
  <2>4. \A q \in Resolvers \ {r} : asyncns_ctx'[q] = asyncns_ctx[q]
    BY <1>1, <2>1 DEF Tidy, Shape
  <2>5. \A q \in Resolvers \ {r} : inbox'[q] = inbox[q]
    BY <1>1, <2>1 DEF Inboxes
  <2> QED  BY <2>1, <2>3, <2>4, <2>5
<1>4. CASE NotDone(r)
  <2>1. ~IsDone(r) /\ UNCHANGED <<life, told, fate, resolv_query>>
    BY <1>4 DEF NotDone, NothingDone, objectVars
  <2>2. inbox'[r] = <<>>
    BY <1>1, <1>3 DEF Inboxes
  <2>3. ~IsDone(r)'
    BY <2>2 DEF IsDone, Has
  <2>4. \A q \in Resolvers \ {r} : IsDone(q)' <=> IsDone(q)
    BY <1>3 DEF IsDone, Has
  <2>5. \A q \in Resolvers : Status(q)' = Status(q)
    BY <1>3, <2>1, <2>3, <2>4, StatusSame
  <2> QED  BY <2>5, ServedSame
<1>5. CASE NoQuery(r) \/ UnsetServerFreed(r)
  <2>1. fate' # "running" /\ UNCHANGED <<life, told>>
    BY <1>5 DEF NoQuery, UnsetServerFreed, NothingDone, objectVars
  <2>2. MayLose
    <3>1. Explained(r)
      BY DEF Sound
    <3> QED  BY <1>1, <1>2, <1>5, <3>1 DEF NoQuery, UnsetServerFreed, Explained, Inboxes, MayLose
  <2>3. ASSUME NEW q \in Resolvers
        PROVE  Status(q)' = Status(q) \/ (Status(q) = "asked" /\ Status(q)' = "lost")
    BY <2>1 DEF Status, Lost
  <2> QED  BY <2>2, <2>3, ServedNone
<1>6. ASSUME NEW result \in ResolverResults, Done(r, result), fate' = fate
      PROVE  [Service!Next]_Served
  <2>1. /\ told' = [told EXCEPT ![r] = Append(@, result)] /\ UNCHANGED life
        /\ resolv_query' = [resolv_query EXCEPT ![r] = "NULL"]
    BY <1>6 DEF Done, EmitFinished
  <2>2. \A q \in Resolvers \ {r} : resolv_query'[q] = resolv_query[q]
    BY <1>1, <2>1 DEF Tidy, Shape
  <2> QED  BY <1>2, <1>3, <1>6, <2>1, <2>2, ServedTold
<1>7. (IF Succeeded(r) THEN "OK" ELSE "FAILED") \in ResolverResults
  BY DEF ResolverResults
<1>8. CASE asyncns_resolver_host_done(r)
  BY <1>6, <1>7, <1>8 DEF asyncns_resolver_host_done
<1>9. CASE asyncns_resolver_srv_done(r)
  BY <1>6, <1>7, <1>9 DEF asyncns_resolver_srv_done
<1> QED  BY <1>4, <1>5, <1>8, <1>9 DEF asyncns_resolver_io_cb

LEMMA ServedWorkers ==
  ASSUME Sound, habits = {}, habits' = {}, fate = "running", NEW r \in Resolvers,
         WorkerAnswers(r) \/ WorkerLeaves(r) \/ WorkerCrashes(r)
  PROVE  [Service!Next]_Served
<1>1. /\ UNCHANGED <<life, told, fate, asyncns_ctx, resolv_query>>
      /\ worker \in [Resolvers -> {"idle", "busy", "gone"}] /\ Inboxes
  BY DEF WorkerAnswers, WorkerLeaves, WorkerCrashes, WorkerTo, Sound, Held, Tidy, Shape
<1>2. worker[r] # "gone" /\ \A q \in Resolvers \ {r} : worker'[q] = worker[q]
  BY <1>1 DEF WorkerAnswers, WorkerLeaves, WorkerCrashes, WorkerTo
<1>3. \A q \in Resolvers \ {r} : inbox'[q] = inbox[q]
  BY <1>1 DEF WorkerAnswers, WorkerLeaves, WorkerCrashes, Says, Inboxes
<1>4. \A q \in Resolvers \ {r} : Status(q)' = Status(q)
  BY <1>1, <1>2, <1>3, StatusSame DEF IsDone, Has
<1>5. CASE WorkerAnswers(r)
  <2>1. worker'[r] # "gone"
    BY <1>1, <1>5 DEF WorkerAnswers, WorkerTo
  <2>2. Status(r)' = Status(r)
    BY <1>1, <1>2, <2>1, StatusSame
  <2> QED  BY <1>4, <2>2, ServedOne DEF Moves
<1>6. CASE WorkerLeaves(r) \/ WorkerCrashes(r)
  <2>1. MayLose
    BY <1>6 DEF WorkerLeaves, WorkerCrashes, MayLose
  <2>2. Status(r)' = Status(r) \/ (Status(r) = "asked" /\ Status(r)' = "lost")
    BY <1>1, <1>2 DEF Status, Lost
  <2> QED  BY <1>4, <2>1, <2>2, ServedOne DEF Moves
<1> QED  BY <1>5, <1>6

LEMMA ServedLookup ==
  ASSUME Sound, habits = {}, habits' = {}, fate = "running", NEW r \in Resolvers,
         asyncns_resolver_lookup_host(r) \/ asyncns_resolver_lookup_srv(r)
  PROVE  [Service!Next]_Served
<1>1. Tidy /\ RefInv
  BY DEF Sound, Held
<1>2. /\ life[r] = "none" /\ life' = [life EXCEPT ![r] = "live"] /\ UNCHANGED <<told, fate, inbox>>
      /\ Issued(r) \/ RequestRefused(r) \/ NoSession
  BY DEF asyncns_resolver_lookup_host, asyncns_resolver_lookup_srv, StartLookup, resolver_create
<1>3. told[r] = <<>> /\ life'[r] = "live"
  BY <1>1, <1>2 DEF RefInv, NotStarted, Tidy, Shape
<1>4. Status(r) = "none" /\ Status(r)' \in {"asked", "lost"}
  BY <1>2, <1>3 DEF Status
<1>5. ~MayLose => Status(r)' = "asked"
  <2>1. CASE Issued(r)
    <3>1. asyncns_ctx'[r] = "up" /\ resolv_query'[r] = "pending" /\ worker'[r] = "busy"
      BY <1>1, <2>1 DEF Issued, asyncns_resolver_prep, Tidy, Shape
    <3> QED  BY <1>2, <1>3, <3>1 DEF Status, Lost
  <2>2. CASE RequestRefused(r) \/ NoSession
    BY <2>2 DEF RequestRefused, NoSession, MayLose
  <2> QED  BY <1>2, <2>1, <2>2
<1>6. ASSUME NEW q \in Resolvers \ {r} PROVE Status(q)' = Status(q)
  <2>1. life'[q] = life[q]
    BY <1>1, <1>2 DEF Tidy, Shape
  <2>2. asyncns_ctx'[q] = asyncns_ctx[q] /\ resolv_query'[q] = resolv_query[q] /\ worker'[q] = worker[q]
    BY <1>1, <1>2 DEF Issued, RequestRefused, NoSession, asyncns_resolver_prep, Tidy, Shape
  <2>3. IsDone(q)' <=> IsDone(q)
    BY <1>2 DEF IsDone, Has
  <2> QED  BY <1>2, <2>1, <2>2, <2>3, StatusSame
<1> QED  BY <1>4, <1>5, <1>6, ServedOne DEF Moves

LEMMA ServedClient ==
  ASSUME Sound, habits = {}, habits' = {}, fate = "running", Client
  PROVE  [Service!Next]_Served
<1>1. Tidy /\ RefInv /\ RefShape
  BY DEF Sound, Held, RefInv
<1>2. CASE ClientDropsAddress
  <2>1. UNCHANGED <<life, told, fate, asyncns_ctx, resolv_query, worker, inbox>>
    BY <1>2 DEF ClientDropsAddress, objectVars, sessionVars
  <2>2. \A r \in Resolvers : Status(r)' = Status(r)
    BY <2>1 DEF Status, Lost, IsDone, Has
  <2> QED  BY <2>2, ServedSame
<1>3. ASSUME NEW r \in Resolvers, asyncns_resolver_cancel(r) PROVE [Service!Next]_Served
  <2>1. life[r] = "live" /\ told[r] = <<>>
    BY <1>1, <1>3, UsedIsLive DEF asyncns_resolver_cancel, MayCancel
  <2>2. /\ told' = [told EXCEPT ![r] = Append(@, "CANCELLED")]
        /\ resolv_query' = [resolv_query EXCEPT ![r] = "NULL"]
        /\ UNCHANGED <<life, fate, asyncns_ctx, worker, inbox>>
    BY <1>3, <2>1 DEF asyncns_resolver_cancel, EmitFinished
  <2>3. "CANCELLED" \in ResolverResults
    BY DEF ResolverResults
  <2>4. \A q \in Resolvers \ {r} : resolv_query'[q] = resolv_query[q]
    BY <1>1, <2>2 DEF Tidy, Shape
  <2> QED  BY <2>1, <2>2, <2>3, <2>4, ServedTold
<1>4. ASSUME NEW r \in Resolvers, ClientUnref(r) PROVE [Service!Next]_Served
  <2>1. life[r] = "live" /\ MayUnref(r) /\ held[r]
    BY <1>1, <1>4, UsedIsLive DEF ClientUnref, MayUnref
  <2>2. g_object_unref(r) /\ UNCHANGED <<told, fate>>
        /\ (IF LastRef(r) THEN asyncns_resolver_cleanup(r) ELSE Untouched)
    BY <1>4, <2>1 DEF ClientUnref, UnrefAndFinalize
  <2>3. CASE LastRef(r)
    <3>1. told[r] # <<>>
      BY <1>1, <2>1, <2>3, LastIsFinished
    <3>2. ASSUME NEW q \in Resolvers \ {r} PROVE Status(q)' = Status(q)
      <4>1. life'[q] = life[q]
        BY <1>1, <2>2 DEF g_object_unref, Tidy, Shape
      <4>2. asyncns_ctx'[q] = asyncns_ctx[q] /\ resolv_query'[q] = resolv_query[q]
            /\ worker'[q] = worker[q] /\ inbox'[q] = inbox[q]
        BY <1>1, <2>2, <2>3, CleanupStep
      <4>3. IsDone(q)' <=> IsDone(q)
        BY <4>2 DEF IsDone, Has
      <4> QED  BY <2>2, <4>1, <4>2, <4>3, StatusSame
    <3>3. Status(r)' = Status(r)
      BY <2>2, <3>1, StatusSame
    <3> QED  BY <3>2, <3>3, ServedSame
  <2>4. CASE ~LastRef(r)
    <3>1. UNCHANGED <<life, told, fate, asyncns_ctx, resolv_query, worker, inbox>>
      BY <1>1, <2>2, <2>4 DEF g_object_unref, Untouched, sessionVars, Tidy, Shape
    <3>2. \A q \in Resolvers : Status(q)' = Status(q)
      BY <3>1 DEF Status, Lost, IsDone, Has
    <3> QED  BY <3>2, ServedSame
  <2> QED  BY <2>3, <2>4
<1> QED  BY <1>2, <1>3, <1>4, ServedLookup DEF Client

LEMMA ServedStep == ASSUME Sound, [Next]_vars PROVE [Service!Next]_Served
<1>1. CASE UNCHANGED vars
  <2>1. UNCHANGED <<life, told, fate, habits, asyncns_ctx, resolv_query, worker, inbox>>
    BY <1>1 DEF vars, resolverVars, sessionVars
  <2>2. Served' = Served
    BY <2>1 DEF Served, Status, Lost, IsDone, Has
  <2> QED  BY <2>2
<1>2. CASE Next /\ habits # {}
  <2>1. habits' = habits
    BY <1>2 DEF Next, Running
  <2>2. Served' = Served
    BY <1>2, <2>1 DEF Served
  <2> QED  BY <2>2
<1>3. CASE Next /\ habits = {}
  BY <1>3, ServedLibrary, ServedWatch, ServedWorkers, ServedClient DEF Next, Running, Watches, Workers
<1> QED  BY <1>1, <1>2, <1>3

(* Every step of the class is one of the service: a lookup is answered     *)
(* once, and it is lost only for a reason (the safety half of              *)
(* ImplementsLookup; that every lookup is answered is left to TLC).        *)
THEOREM ServesLookups == Spec => Service!Spec
<1>1. Init => Service!Init
  <2> SUFFICES ASSUME Init PROVE Service!Init
    OBVIOUS
  <2>1. \A r \in Resolvers : Status(r) = "none"
    BY DEF Init, ResolverInit, Status
  <2> QED  BY <2>1 DEF Service!Init, Served
<1>2. Sound /\ [Next]_vars => [Service!Next]_Served
  BY ServedStep
<1> QED  BY <1>1, <1>2, SoundAlways, PTL DEF Spec, Service!Spec
=============================================================================
