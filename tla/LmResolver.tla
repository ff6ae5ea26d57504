----------------------------- MODULE LmResolver -----------------------------
(***************************************************************************)
(* LmResolver (src/lm-resolver.c): the object behind a lookup, common to   *)
(* its two classes LmAsyncnsResolver and LmBlockingResolver.               *)
(*                                                                         *)
(* A lookup creates a resolver, which owns its own initial reference and   *)
(* gives it up when it has emitted "finished".  The caller gets a pointer  *)
(* and no reference, and may take one of its own.  The emission is a call: *)
(* the user's handler runs in the middle of the library's function and may *)
(* call back in, so there is a stack of what is left to do.  The emission  *)
(* holds a reference while it lasts.                                       *)
(***************************************************************************)
EXTENDS Integers, Sequences, FiniteSets

CONSTANTS
  Resolvers,   \* the lookups that are ever started
  MaxDepth,    \* bound: nesting of calls from handlers
  MaxTold,     \* bound: emissions of finished by one resolver
  Clients      \* the clients there may be, each by its habits

(* "cancel_when_told": the client cancels a lookup that has been answered, *)
(* in the handler or later.  "unref_borrowed": it drops a reference that   *)
(* is not its own.                                                         *)
AllHabits == {"cancel_when_told", "unref_borrowed"}

ASSUME ResolverAssumption ==
  /\ MaxDepth \in Nat /\ MaxTold \in Nat \ {0} /\ Clients \subseteq SUBSET AllHabits

ResolverResults == {"OK", "FAILED", "CANCELLED"}      \* LmResolverResult

VARIABLES
  life,      \* of each resolver object: "none", "live", "freed"
  ref_count, \* of the GObject
  held,      \* one of the references is the client's
  told,      \* history: the results finished has been emitted with
  sources,   \* main loop: the resolvers whose source is attached
  pending,   \* main loop: those found ready by the last poll, not yet dispatched
  stack,     \* the C call stack, innermost call first
  habits,    \* of the client, which stays the same
  fate       \* of the process: "running", or what ended it

objectVars == <<life, ref_count, held>>
loopVars   == <<sources, pending>>

Fates == {"running", "use_after_free", "assert", "wild_free"}

Handler(r, result) == [op |-> "handler", resolver |-> r, result |-> result]
Finish(r) == [op |-> "finish", resolver |-> r]   \* what follows the emission
Remove(r) == [op |-> "remove", resolver |-> r]   \* "return FALSE" to the main loop

Frames == [op : {"handler"}, resolver : Resolvers, result : ResolverResults]
            \cup [op : {"finish", "remove"}, resolver : Resolvers]

Top(op) == stack # <<>> /\ Head(stack).op = op

ResolverTypeOK ==
  /\ life \in [Resolvers -> {"none", "live", "freed"}]
  /\ ref_count \in [Resolvers -> Nat]
  /\ held \in [Resolvers -> BOOLEAN]
  /\ told \in [Resolvers -> Seq(ResolverResults)]
  /\ sources \subseteq Resolvers /\ pending \subseteq Resolvers
  /\ stack \in Seq(Frames)
  /\ habits \in Clients /\ fate \in Fates

ResolverInit ==
  /\ life = [r \in Resolvers |-> "none"]
  /\ ref_count = [r \in Resolvers |-> 0]
  /\ held = [r \in Resolvers |-> FALSE]
  /\ told = [r \in Resolvers |-> <<>>]
  /\ sources = {} /\ pending = {}
  /\ stack = <<>>
  /\ habits \in Clients /\ fate = "running"

-----------------------------------------------------------------------------
(* References *)

(* resolver_create: the initial reference is the resolver's own; the       *)
(* client may take one as soon as it has the pointer.                      *)
resolver_create(r) ==
  /\ life[r] = "none"
  /\ life' = [life EXCEPT ![r] = "live"]
  /\ \E own \in BOOLEAN :
       /\ held' = [held EXCEPT ![r] = own]
       /\ ref_count' = [ref_count EXCEPT ![r] = IF own THEN 2 ELSE 1]

LastRef(r) == ref_count[r] = 1

g_object_unref(r) ==
  /\ ref_count' = [ref_count EXCEPT ![r] = @ - 1]
  /\ life' = [life EXCEPT ![r] = IF LastRef(r) THEN "freed" ELSE @]

(* g_signal_emit_by_name (resolver, "finished", result, sa).  The boxed    *)
(* argument sa is referenced, and unreferenced when the emission ends: a   *)
(* reference of its own, which the count of the address leaves out.        *)
EmitFinished(r, result, rest) ==
  /\ stack' = <<Handler(r, result), Finish(r)>> \o rest
  /\ ref_count' = [ref_count EXCEPT ![r] = @ + 1]
  /\ told' = [told EXCEPT ![r] = Append(@, result)]

(* A process that has ended takes no step, and the client stays the same. *)
Running == fate = "running" /\ UNCHANGED habits

(* The client is in control between two dispatches and in its handlers. *)
ClientRuns == (stack = <<>> \/ Top("handler")) /\ Len(stack) < MaxDepth

MayCancel(r) ==
  /\ ClientRuns /\ life[r] # "none" /\ Len(told[r]) < MaxTold
  /\ told[r] = <<>> \/ "cancel_when_told" \in habits

MayUnref(r) == ClientRuns /\ (held[r] \/ (life[r] # "none" /\ "unref_borrowed" \in habits))

-----------------------------------------------------------------------------
(* The main loop *)

(* ready: the resolvers whose attached source is ready. *)
PollFinds(ready) ==
  /\ stack = <<>> /\ pending = {}
  /\ ready # {} /\ pending' = ready
  /\ UNCHANGED <<objectVars, told, sources, stack, fate>>

g_source_destroy(r) == sources' = sources \ {r} /\ pending' = pending \ {r}

-----------------------------------------------------------------------------
(* Properties of both classes *)

(* The references the object counts are those somebody still has: the      *)
(* resolver's own until it has finished, the client's, and one for each    *)
(* emission under way.  One unref too many anywhere takes somebody else's. *)
(* Stated for clients that drop only what they have and cancel only what   *)
(* has not been answered.                                                  *)
EmissionsOf(r) == {i \in 1 .. Len(stack) : stack[i].op = "handler" /\ stack[i].resolver = r}
FinishingOf(r) == {i \in 1 .. Len(stack) : stack[i].op = "finish" /\ stack[i].resolver = r}
OwnsItself(r)  == told[r] = <<>> \/ FinishingOf(r) # {}

RefsBalanced ==
  \A r \in Resolvers :
    habits = {} /\ life[r] # "none" =>
      ref_count[r] = Cardinality(EmissionsOf(r)) + (IF held[r] THEN 1 ELSE 0)
                       + (IF OwnsItself(r) THEN 1 ELSE 0)

(* With such a client no function runs on a resolver that is gone. *)
NoUseAfterFinalize == habits = {} => fate # "use_after_free"
=============================================================================
