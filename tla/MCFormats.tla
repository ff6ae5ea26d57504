------------------------------- MODULE MCFormats -------------------------------
(***************************************************************************)
(* Instances for TLC of the two formats that are parsed: the reply of a    *)
(* worker (AddrinfoReply) and the DNS answer of a service (SrvResponse).   *)
(* They share nothing; a behaviour is one of one part, and the other part  *)
(* rests.                                                                  *)
(***************************************************************************)
EXTENDS AddrinfoReply, SrvResponse

VARIABLE part

mcVars == <<part, vars, srvVars>>

(* The part that rests has one initial state. *)
ReplyRests == entries = <<CHOOSE z \in Sizes : TRUE>>
SrvRests   == questions = <<>> /\ answers = <<>>

MCInit ==
  /\ \/ part = "reply" /\ SrvRests
     \/ part = "srv" /\ ReplyRests
  /\ Init /\ SrvInit

MCNext ==
  /\ UNCHANGED part
  /\ \/ part = "reply" /\ Next /\ UNCHANGED srvVars
     \/ part = "srv" /\ SrvNext /\ UNCHANGED vars

MCSpec == MCInit /\ [][MCNext]_mcVars

TypesOK == TypeOK /\ SrvTypeOK
=============================================================================
