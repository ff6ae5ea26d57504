---------------------------- MODULE LookupService ----------------------------
(***************************************************************************)
(* What the users of a resolver rely on (socket_resolver_finished_cb of    *)
(* src/lm-socket.c, resolver_finished_cb of src/test.c): a lookup that was *)
(* started is answered by one "finished", and never by a second.  A lookup *)
(* that is lost is answered only if its user cancels it.                   *)
(***************************************************************************)
CONSTANTS Resolvers,
          MayLose      \* the service may be out of order

VARIABLE status

Init == status = [r \in Resolvers |-> "none"]

Becomes(r, from, to) == status[r] \in from /\ status' = [status EXCEPT ![r] = to]

Ask(r)    == Becomes(r, {"none"}, "asked") \/ (MayLose /\ Becomes(r, {"none"}, "lost"))
Answer(r) == Becomes(r, {"asked"}, "told")
Cancel(r) == Becomes(r, {"asked", "lost"}, "told")

Asked == {r \in Resolvers : status[r] = "asked"}
Lose(lost) == MayLose /\ status' = [r \in Resolvers |-> IF r \in lost THEN "lost" ELSE status[r]]

Next == \/ \E r \in Resolvers : Ask(r) \/ Answer(r) \/ Cancel(r)
        \/ \E lost \in SUBSET Asked : Lose(lost)

Spec == Init /\ [][Next]_status

(* Each lookup is answered once, so fairness of all answers together is    *)
(* fairness of each.                                                       *)
FairSpec == Spec /\ WF_status(\E r \in Resolvers : Answer(r))
=============================================================================
