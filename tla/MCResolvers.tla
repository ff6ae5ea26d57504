------------------------------ MODULE MCResolvers ------------------------------
(***************************************************************************)
(* Instances for TLC of what looks names up: the two classes of resolvers  *)
(* (LmAsyncnsResolver, LmBlockingResolver), and the address that lookups   *)
(* and sockets share (LmSocketAddress).  The build has one class or the    *)
(* other, and the address is the same for both, so a behaviour is one of   *)
(* one part, and the others rest.                                          *)
(***************************************************************************)
EXTENDS LmAsyncnsResolver, LmSocketAddress

VARIABLES
  part,  \* which
  bLife, bRefCount, bHeld, bTold, bSources, bPending, bStack, bHabits, bFate,
  bIdleSource, bSa, bResolveType, bAddress

Blocking == INSTANCE LmBlockingResolver
  WITH life <- bLife, ref_count <- bRefCount, held <- bHeld, told <- bTold,
       sources <- bSources, pending <- bPending, stack <- bStack, habits <- bHabits,
       fate <- bFate, idle_source <- bIdleSource, sa <- bSa,
       resolve_type <- bResolveType, address <- bAddress,
       Clients <- {{}, AllHabits}

(* The client of the other class does not drop references that are not its *)
(* own: that is left to the proofs.                                        *)
CarefulAndHasty == {{}, {"cancel_when_told"}}

blockingVars == <<bLife, bRefCount, bHeld, bTold, bSources, bPending, bStack, bHabits,
                  bFate, bIdleSource, bSa, bResolveType, bAddress>>
mcVars == <<part, vars, addressVars, blockingVars>>

Parts == {"asyncns", "blocking", "address"}

(* The parts that rest have one initial state. *)
MCInit ==
  /\ part \in Parts
  /\ part # "asyncns" => habits = {}
  /\ part # "blocking" => bHabits = {}
  /\ part # "address" => turns = TRUE
  /\ Init /\ Blocking!Init /\ AddressInit

Others(p) ==
  /\ part = p /\ UNCHANGED part
  /\ p # "asyncns" => UNCHANGED vars
  /\ p # "blocking" => UNCHANGED blockingVars
  /\ p # "address" => UNCHANGED addressVars

(* Bound: workers crash, and requests are refused, under the careful       *)
(* client only.                                                            *)
Crashed(r) == asyncns_ctx[r] = "up" /\ worker[r] = "gone" /\ ~Has(r, "died")
Bounded == habits # {} => \A r \in Resolvers : ~Crashed(r) /\ ~Unissued(r)

MCNext ==
  \/ Others("asyncns") /\ Next /\ Bounded'
  \/ Others("blocking") /\ Blocking!Next
  \/ Others("address") /\ AddressNext

(* A part that rests has nothing to do, so its fairness asks for nothing. *)
MCSpec == MCInit /\ [][MCNext]_mcVars /\ Fairness /\ Blocking!Fairness

-----------------------------------------------------------------------------
(* Properties of both classes, for one run *)

TypesOK == TypeOK /\ Blocking!TypeOK /\ AddressTypeOK

(* Every reference to a resolver is somebody's, so that none of its        *)
(* functions runs when it is gone, and no assertion fails but for a        *)
(* request that was refused.  In the blocking class every reference to the *)
(* shared address is somebody's too, and no idle source stays behind       *)
(* without a resolver that knows of it.                                    *)
ReferencesKept ==
  /\ RefsBalanced /\ NoUseAfterFinalize /\ AssertOnlyUnissued
  /\ Blocking!RefsBalanced /\ Blocking!NoUseAfterFinalize
  /\ Blocking!AddressCounted /\ Blocking!SourceNeedsObject

(* Every lookup of either class ends in exactly one finished; the class    *)
(* with a session may lose it, until it is cancelled.                      *)
BothImplementLookup == ImplementsLookup /\ Blocking!ImplementsLookup
=============================================================================
