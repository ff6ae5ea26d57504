------------------------------ MODULE MCChannels ------------------------------
(***************************************************************************)
(* Instances for TLC of the two parts of a stack of channels: how channels *)
(* are stacked (LmChannel), and the channel that encrypts                  *)
(* (LmGnuTLSChannel).  The two do not touch each other's state, so a       *)
(* behaviour is one of the first or of the second.                         *)
(***************************************************************************)
EXTENDS LmChannel, LmGnuTLSChannel

CONSTANTS b, m, t
VARIABLE part

ThreeChannels == {b, m, t}
TheSocket     == b
Chain         == {<<m, b>>, <<t, m>>}
AnyOrder      == {<<m, b>>, <<t, b>>, <<t, m>>}

(* A client of test-secure.c: handlers at the top, and close in them. *)
TopUser ==
  [stacking |-> Chain, listens |-> {t}, closes_in_handlers |-> TRUE, habits |-> {},
   depth |-> 12, connects |-> 2, stackings |-> 2]
AllUser ==
  [TopUser EXCEPT !.listens = ThreeChannels, !.closes_in_handlers = FALSE]
HastyUser ==
  [stacking |-> AnyOrder, listens |-> {m, t}, closes_in_handlers |-> TRUE,
   habits |-> AllHabits, depth |-> 9, connects |-> 1, stackings |-> 3]
LateUser ==
  [HastyUser EXCEPT !.habits = {"stack_late", "drop_outer"}, !.listens = {t},
                    !.stackings = 2]
FourUsers == {TopUser, AllUser, HastyUser, LateUser}

BothClients == BOOLEAN

mcVars == <<part, vars, channelVars>>

MCInit ==
  /\ ChannelInit /\ Init
  /\ \/ part = "stack" /\ careful = TRUE
     \/ part = "tls" /\ user = TopUser

MCNext ==
  /\ UNCHANGED part
  /\ \/ part = "stack" /\ ChannelNext /\ UNCHANGED vars
     \/ part = "tls" /\ Next /\ UNCHANGED channelVars

MCSpec == MCInit /\ [][MCNext]_mcVars /\ FairTurns

-----------------------------------------------------------------------------
TypesOK == ChannelTypeOK /\ TypeOK

(* None of the three loops of the TLS channel goes round for ever, but     *)
(* those of read and write while the peer is silent.                       *)
LoopsEnd == HandshakeReturns /\ SpinsOnlyOnPeer
=============================================================================
