-------------------------- MODULE ChannelProtocol --------------------------
(***************************************************************************)
(* What the users of a bottom channel rely on (the handlers of             *)
(* src/test-connect.c, and the channels stacked on it): after              *)
(* lm_socket_connect there is one connect_result, then opened if it was    *)
(* OK, and closed ends everything until the next connect.                  *)
(***************************************************************************)
CONSTANT Sockets

VARIABLE phase

Init == phase = [s \in Sockets |-> "idle"]

Becomes(s, from, to) == phase[s] \in from /\ phase' = [phase EXCEPT ![s] = to]

(* With the results of a lookup that another connect has made, or without. *)
Connect(s) == Becomes(s, {"idle"}, "connecting") \/ Becomes(s, {"idle"}, "looking_up")
LookedUp(s) == Becomes(s, {"looking_up"}, "connecting") \/ Becomes(s, {"looking_up"}, "failed")
Answer(s)  == Becomes(s, {"connecting"}, "connected") \/ Becomes(s, {"connecting"}, "failed")
Open(s)    == Becomes(s, {"connected"}, "open")
Close(s)   == Becomes(s, {"looking_up", "connecting", "failed", "connected", "open"}, "idle")

Next == \E s \in Sockets : Connect(s) \/ LookedUp(s) \/ Answer(s) \/ Open(s) \/ Close(s)

(* A connect that has addresses to try is answered and a connected channel *)
(* opens; neither waits for anything the client does.  That a lookup ends  *)
(* is not promised: LookupService may lose it.                             *)
FairSpec ==
  /\ Init /\ [][Next]_phase
  /\ \A s \in Sockets : WF_phase(Answer(s)) /\ WF_phase(Open(s))
=============================================================================
