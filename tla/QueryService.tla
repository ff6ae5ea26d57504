---------------------------- MODULE QueryService ----------------------------
(***************************************************************************)
(* What a libasyncns session promises its user (src/asyncns.h): a query    *)
(* that was issued is answered, with the answer to that query, unless it   *)
(* is cancelled or the session ends, and as long as the user and the       *)
(* workers do not block each other.                                        *)
(***************************************************************************)
CONSTANT Serials        \* the queries a session is ever asked, in order

VARIABLES
  status,       \* of each query
  session,
  stuck         \* the user is blocked by the workers, and they by the user

svars == <<status, session>>

Init == /\ status = [n \in Serials |-> "new"]
        /\ session = "up"

Becomes(n, from, to) == status[n] = from /\ status' = [status EXCEPT ![n] = to]

Issue(n)  == session # "freed" /\ Becomes(n, "new", "pending") /\ UNCHANGED session
Answer(n) == session = "up" /\ Becomes(n, "pending", "answered") /\ UNCHANGED session
(* Taken, cancelled, or refused because the session cannot send it. *)
Drop(n)   == /\ Becomes(n, "answered", "gone") \/ Becomes(n, "pending", "gone")
             /\ UNCHANGED session

(* The session found out that its workers have left. *)
Die  == session = "up" /\ session' = "dead" /\ UNCHANGED status

Free == /\ session # "freed" /\ session' = "freed"
        /\ status' = [n \in Serials |-> IF status[n] = "new" THEN "new" ELSE "gone"]

Next == (\E n \in Serials : Issue(n) \/ Answer(n) \/ Drop(n)) \/ Die \/ Free

Spec == Init /\ [][Next]_svars

(* When a user may get stuck is not said here: CallsReturn of Asyncns does. *)
FairSpec == Spec /\ \A n \in Serials : WF_svars(~stuck /\ Answer(n))
=============================================================================
