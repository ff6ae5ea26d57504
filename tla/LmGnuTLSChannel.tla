--------------------------- MODULE LmGnuTLSChannel ---------------------------
(***************************************************************************)
(* LmGnuTLSChannel and LmSecureChannel (src/lm-gnutls-channel.c,           *)
(* src/lm-secure-channel.c): a channel that encrypts what it reads from    *)
(* and writes to its inner channel, from start_handshake on.  The inner    *)
(* channel is a non-blocking socket.  GnuTLS is modelled by what its       *)
(* calls return: it reads and writes through pull_func and push_func and   *)
(* reports a socket that would block as GNUTLS_E_AGAIN.                    *)
(*                                                                         *)
(* start_handshake, read and write take several turns, between which the   *)
(* peer acts; the main loop does not run meanwhile.                        *)
(***************************************************************************)
EXTENDS Integers, Sequences

CONSTANTS
  Flights,         \* messages of the peer that complete a handshake
  Problems,        \* what may be wrong with a certificate
  Clients,         \* the clients there may be: careful (TRUE) or not (FALSE)
  MaxIncoming, Room, MaxOpens   \* bounds: unread messages, unsent ones, connections

ASSUME RegimeAssumption == Clients \subseteq BOOLEAN
ASSUME BoundAssumption ==
  Flights \in Nat \ {0} /\ MaxIncoming \in Nat /\ Room \in Nat /\ MaxOpens \in Nat

VARIABLES
  is_encrypted,
  session,     \* gnutls_session: "none", "fresh", "failed", "secure", "freed"
  flights,     \* messages of the handshake that have come in
  auth_ok,     \* what the check of the certificate said
  leaked,      \* a session can no longer be freed
  life,        \* of the channel object: "live" or "freed"
  socket,      \* the inner channel: "closed" or "open"
  peer,        \* "up", or "gone": end of file once all is read
  incoming,    \* what the socket has received
  unsent,      \* how much the socket holds that the peer has not taken
  call,        \* the function the client is in
  last,        \* what the last call returned, and whether it should have
  opens,       \* history: connections so far; of the last one, ...
  asked,       \* start_handshake was called
  closings,    \* calls of close
  plain,       \* reads and writes passed through after start_handshake
  careful,     \* the client follows the rules at MayUse, MayClose and MayLeave
  fate         \* "running", "use_after_free" or "assert"

tlsVars     == <<is_encrypted, session, flights, auth_ok, leaked>>
wireVars    == <<peer, incoming, unsent>>
historyVars == <<opens, asked, closings, plain>>
vars == <<tlsVars, life, socket, wireVars, call, last, historyVars, careful, fate>>

Messages == {"flight", "record", "bye", "junk"}
Statuses == {"NORMAL", "ERROR", "EOF", "AGAIN"}      \* GIOStatus
Nothing  == [op |-> "none", status |-> "NORMAL", failed |-> FALSE]

TypeOK ==
  /\ is_encrypted \in BOOLEAN
  /\ session \in {"none", "fresh", "failed", "secure", "freed"}
  /\ flights \in 0 .. Flights
  /\ auth_ok \in BOOLEAN /\ leaked \in BOOLEAN
  /\ life \in {"live", "freed"}
  /\ socket \in {"closed", "open"} /\ peer \in {"up", "gone"}
  /\ incoming \in Seq(Messages) /\ unsent \in 0 .. Room
  /\ call \in {"none", "handshake", "read", "write"}
  /\ last \in [op : {"none", "read", "write"}, status : Statuses, failed : BOOLEAN]
  /\ opens \in 0 .. MaxOpens /\ asked \in BOOLEAN
  /\ closings \in Nat /\ plain \in BOOLEAN /\ careful \in BOOLEAN
  /\ fate \in {"running", "use_after_free", "assert"}

Init ==
  /\ is_encrypted = FALSE /\ session = "none" /\ flights = 0
  /\ auth_ok = TRUE /\ leaked = FALSE /\ life = "live"
  /\ socket = "closed" /\ peer = "gone" /\ incoming = <<>> /\ unsent = 0
  /\ call = "none" /\ last = Nothing
  /\ opens = 0 /\ asked = FALSE /\ closings = 0 /\ plain = FALSE
  /\ careful \in Clients /\ fate = "running"

-----------------------------------------------------------------------------
(* The inner channel, as pull_func and push_func see it *)

Readable   == socket = "open" /\ incoming # <<>>
AtEnd      == socket = "closed" \/ (incoming = <<>> /\ peer = "gone")
WouldBlock == socket = "open" /\ incoming = <<>> /\ peer = "up"
Writeable  == socket = "open" /\ peer = "up" /\ unsent < Room
Full       == socket = "open" /\ peer = "up" /\ unsent = Room

Pull == incoming' = Tail(incoming) /\ UNCHANGED <<peer, unsent>>
Push == unsent' = unsent + 1 /\ UNCHANGED <<peer, incoming>>

(* The first write after the peer has closed may still be taken. *)
Sends == \/ Writeable /\ Push
         \/ socket = "open" /\ peer = "gone" /\ UNCHANGED wireVars

Return(op, status, failed) ==
  call' = "none" /\ last' = [op |-> op, status |-> status, failed |-> failed]

ClientCalls == call = "none" /\ life = "live"

(* A client that reconnects starts the handshake before it does anything   *)
(* else, and one that was told closed stays away.                          *)
MayUse == ClientCalls /\ (careful => socket = "open" /\ (asked \/ opens = 1))

-----------------------------------------------------------------------------
(* The handshake *)

(* Mutant: what the last handshake has counted is kept. *)
InitKeepsFlights ==
  /\ session' = "fresh" /\ UNCHANGED flights
  /\ leaked' = (leaked \/ session \notin {"none", "freed"})

(* The new session is put where the old one was. *)
gnutls_init ==
  /\ session' = "fresh" /\ flights' = 0
  /\ leaked' = (leaked \/ session \notin {"none", "freed"})

(* The first push is the client's hello.                                   *)
gnutls_channel_start_handshake ==
  /\ ClientCalls /\ socket = "open"
  /\ careful => ~asked
  /\ gnutls_init /\ auth_ok' = TRUE
  /\ asked' = TRUE
  /\ call' = "handshake"
  /\ unsent' = IF Writeable THEN unsent + 1 ELSE unsent
  /\ UNCHANGED <<is_encrypted, life, socket, peer, incoming, last, opens, closings,
                 plain, fate>>

gnutls_channel_request_user_cert_feedback(problem) == TRUE

gnutls_channel_verify_certificate(problems) ==
  \A p \in problems : gnutls_channel_request_user_cert_feedback(p)

(* Mutant: only a handshake that succeeded counts. *)
EncryptedIfSecure(result) == is_encrypted' = (is_encrypted \/ result = "secure")

(* priv->is_encrypted = TRUE, whatever the result *)
HandshakeEnds(result) == is_encrypted' = TRUE

HandshakeResult(result) ==
  /\ session' = result /\ HandshakeEnds(result)
  /\ call' = "none" /\ last' = Nothing
  /\ UNCHANGED leaked

FlightComes ==
  /\ Readable /\ Head(incoming) = "flight" /\ Pull
  /\ flights' = flights + 1
  /\ IF flights' < Flights
       THEN UNCHANGED <<is_encrypted, session, auth_ok, leaked, call, last>>
       ELSE /\ \E problems \in SUBSET Problems :
                 auth_ok' = gnutls_channel_verify_certificate(problems)
            /\ HandshakeResult("secure")

HandshakeFails ==
  /\ \/ Readable /\ Head(incoming) # "flight" /\ Pull
     \/ AtEnd /\ UNCHANGED wireVars
  /\ HandshakeResult("failed") /\ UNCHANGED <<flights, auth_ok>>

(* GNUTLS_E_AGAIN: nobody calls gnutls_handshake again. *)
HandshakeAgain ==
  WouldBlock /\ HandshakeResult("fresh") /\ UNCHANGED <<wireVars, flights, auth_ok>>

gnutls_handshake ==
  /\ call = "handshake"
  /\ FlightComes \/ HandshakeFails \/ HandshakeAgain
  /\ UNCHANGED <<life, socket, historyVars, fate>>

-----------------------------------------------------------------------------
(* Reading and writing *)

UsesFreed == session = "freed" /\ fate' = "use_after_free"

PlainRead ==
  /\ \/ Readable /\ Pull /\ Return("read", "NORMAL", FALSE)
     \/ WouldBlock /\ Return("read", "AGAIN", FALSE) /\ UNCHANGED wireVars
     \/ AtEnd /\ Return("read", "EOF", FALSE) /\ UNCHANGED wireVars
  /\ plain' = (plain \/ asked)
  /\ UNCHANGED fate

Enters(function) == call' = function /\ UNCHANGED <<wireVars, last, plain>>

gnutls_channel_read ==
  /\ MayUse
  /\ IF is_encrypted
       THEN Enters("read") /\ (UsesFreed \/ (session # "freed" /\ UNCHANGED fate))
       ELSE PlainRead
  /\ UNCHANGED <<tlsVars, life, socket, opens, asked, closings>>

RecordComes ==
  /\ session = "secure" /\ Readable /\ Head(incoming) \in {"record", "bye"} /\ Pull
  /\ Return("read", IF Head(incoming) = "record" THEN "NORMAL" ELSE "EOF", FALSE)
  /\ UNCHANGED session

(* Mutant: the loop repeats on every error. *)
RepeatOnError == session' = "failed" /\ UNCHANGED <<wireVars, call, last>>

(* A message that does not belong here, the end of the connection, or a    *)
(* session that is no longer valid.                                        *)
RecvError ==
  \/ session = "secure" /\ Readable /\ Head(incoming) \in {"flight", "junk"}
       /\ Pull /\ session' = "failed"
  \/ session = "fresh" /\ Readable /\ Pull /\ UNCHANGED session
  \/ session = "failed" /\ UNCHANGED <<wireVars, session>>
  \/ session \in {"fresh", "secure"} /\ AtEnd /\ UNCHANGED <<wireVars, session>>

(* Mutant: the result is compared as in write. *)
ErrorAsNormal == RecvError /\ Return("read", "NORMAL", TRUE)

ReadFails == RecvError /\ Return("read", "ERROR", TRUE)

(* The loop around gnutls_record_recv: GNUTLS_E_AGAIN changes nothing.     *)
RecvTurn ==
  /\ call = "read"
  /\ RecordComes \/ ReadFails
  /\ UNCHANGED <<is_encrypted, flights, auth_ok, leaked, life, socket, historyVars, fate>>

PlainWrite ==
  /\ \/ Sends /\ Return("write", "NORMAL", FALSE)
     \/ Full /\ Return("write", "AGAIN", FALSE) /\ UNCHANGED wireVars
     \/ ~Writeable /\ ~Full /\ UNCHANGED wireVars
          /\ Return("write", IF socket = "open" THEN "ERROR" ELSE "EOF", TRUE)
  /\ plain' = (plain \/ asked)
  /\ UNCHANGED fate

gnutls_channel_write ==
  /\ MayUse
  /\ IF is_encrypted
       THEN Enters("write") /\ (UsesFreed \/ (session # "freed" /\ UNCHANGED fate))
       ELSE PlainWrite
  /\ UNCHANGED <<tlsVars, life, socket, opens, asked, closings>>

(* "*bytes_written >= 0" compares an unsigned number. *)
StatusOf(failed) == "NORMAL"

RecordSent ==
  /\ session \in {"fresh", "secure"} /\ Sends
  /\ Return("write", StatusOf(FALSE), FALSE)

(* What a session before its handshake is asked to send may go out or not. *)
(* On a socket that has closed push_func returns 0: GnuTLS has sent        *)
(* nothing and met no error, says GNUTLS_E_AGAIN, and the loop goes on.    *)
SendFails ==
  /\ session = "failed" \/ (socket = "open" /\ (session = "fresh" \/ peer = "gone"))
  /\ Return("write", StatusOf(TRUE), TRUE) /\ UNCHANGED wireVars

SendTurn ==
  /\ call = "write"
  /\ RecordSent \/ SendFails
  /\ UNCHANGED <<tlsVars, life, socket, historyVars, fate>>

(* The class sets no is_encrypted, and g_assert_not_reached is reached. *)
lm_secure_channel_is_encrypted ==
  /\ ClientCalls
  /\ fate' = "assert"
  /\ UNCHANGED <<tlsVars, life, socket, wireVars, call, last, historyVars>>

-----------------------------------------------------------------------------
(* The end of a connection, and of the channel *)

MayClose ==
  ClientCalls /\ closings < 2 /\
  (careful => closings = 0 /\ (asked \/ (socket = "open" /\ opens = 1)))

(* gnutls_bye and gnutls_deinit; is_encrypted stays as it is. *)
ByeAndDeinit ==
  \/ ~is_encrypted /\ UNCHANGED <<session, fate>>
  \/ is_encrypted /\ session # "freed" /\ session' = "freed" /\ UNCHANGED fate
  \/ is_encrypted /\ UsesFreed /\ UNCHANGED session

SocketClosed ==
  socket' = "closed" /\ incoming' = <<>> /\ unsent' = 0 /\ peer' = "gone"

gnutls_channel_close ==
  /\ MayClose /\ ByeAndDeinit /\ SocketClosed
  /\ closings' = closings + 1
  /\ last' = Nothing
  /\ UNCHANGED <<is_encrypted, flights, auth_ok, leaked, life, call, opens, asked, plain>>

Hup == call = "none" /\ socket = "open" /\ peer = "gone" /\ SocketClosed

(* Mutant: the channel frees the session as soon as its socket has closed. *)
HupDeinits ==
  /\ Hup /\ ByeAndDeinit
  /\ UNCHANGED <<is_encrypted, flights, auth_ok, leaked, life, call, last, opens, asked,
                 closings, plain>>

(* The socket closes itself, and the client is told. *)
SocketHup ==
  Hup /\ UNCHANGED <<tlsVars, life, call, last, opens, asked, closings, plain, fate>>

AliveSession == session \in {"fresh", "failed", "secure"}
MayLeave == careful => closings > 0 \/ ~asked

SocketOpens ==
  /\ ClientCalls /\ socket = "closed" /\ opens < MaxOpens
  /\ MayLeave
  /\ socket' = "open" /\ opens' = opens + 1
  /\ peer' = "up" /\ incoming' = <<>> /\ unsent' = 0
  /\ asked' = FALSE /\ closings' = 0 /\ plain' = FALSE
  /\ UNCHANGED <<tlsVars, life, call, last, fate>>

(* gnutls_channel_deinit_gnutls frees the credentials only. *)
gnutls_channel_finalize ==
  /\ ClientCalls /\ socket = "closed" /\ MayLeave
  /\ life' = "freed"
  /\ leaked' = (leaked \/ AliveSession)
  /\ UNCHANGED <<is_encrypted, session, flights, auth_ok, socket, wireVars, call, last,
                 historyVars, fate>>

-----------------------------------------------------------------------------
(* The peer *)

PeerStep == UNCHANGED <<tlsVars, life, socket, call, last, historyVars, fate>>

PeerSends ==
  /\ socket = "open" /\ peer = "up" /\ Len(incoming) < MaxIncoming
  /\ \E m \in Messages : incoming' = Append(incoming, m)
  /\ UNCHANGED <<peer, unsent>> /\ PeerStep

PeerTakes ==
  unsent > 0 /\ unsent' = unsent - 1 /\ UNCHANGED <<peer, incoming>> /\ PeerStep

PeerCloses ==
  /\ socket = "open" /\ peer = "up" /\ peer' = "gone"
  /\ UNCHANGED <<incoming, unsent>> /\ PeerStep

-----------------------------------------------------------------------------
Turns == gnutls_handshake \/ RecvTurn \/ SendTurn
ClientActs == \/ gnutls_channel_start_handshake \/ gnutls_channel_read
              \/ gnutls_channel_write \/ gnutls_channel_close
              \/ gnutls_channel_finalize \/ lm_secure_channel_is_encrypted
              \/ SocketOpens
Peer == PeerSends \/ PeerTakes \/ PeerCloses

(* A process that has ended takes no step. *)
Next == fate = "running" /\ UNCHANGED careful /\ (Turns \/ ClientActs \/ SocketHup \/ Peer)

Spec == Init /\ [][Next]_vars

(* The loops run; nothing is assumed of the peer or the client. *)
FairTurns == WF_vars(fate = "running" /\ Turns /\ UNCHANGED careful)

FairSpec == Spec /\ FairTurns

-----------------------------------------------------------------------------
(* Properties *)

(* A client that calls nothing after closed, and starts the handshake      *)
(* first when it reconnects, never reaches a session that was freed.       *)
SessionValid == careful => fate # "use_after_free"

(* With a client that closes the channel, also when the peer did so first, *)
(* every session is freed, over any number of connections.                 *)
SessionNotLeaked == careful => ~leaked

(* A session is freed once: not before its last use, and not never.        *)
SessionFreedOnce == SessionValid /\ SessionNotLeaked

(* From start_handshake on, no call falls back to the plain inner channel, *)
(* not even after a handshake that failed or was never finished.           *)
PlainOnlyBefore == ~plain

(* start_handshake returns, however silent the peer. *)
HandshakeReturns == (call = "handshake") ~> (call # "handshake")

(* The loops of read and write do not go round for ever once the peer has  *)
(* sent, taken or closed: with a careful client they wait for nothing      *)
(* else.  One that writes when the socket has closed never gets out again. *)
SpinsOnlyOnPeer ==
  []<>(\/ call \notin {"read", "write"} \/ fate # "running"
       \/ call = "read" /\ WouldBlock
       \/ call = "write" /\ (Full \/ (~careful /\ socket = "closed")))

(* is_encrypted is set also for a session whose handshake failed or did    *)
(* not finish.  Writes on such a session are reported as normal; but what  *)
(* read returns as data is a record of a session whose handshake finished, *)
(* and whose certificate the check accepted, if only because what it says  *)
(* is not looked at and nothing is ever refused.                           *)
DataOnlyFromSecure ==
  [][call = "read" /\ call' = "none" /\ last'.status = "NORMAL" =>
       session = "secure" /\ auth_ok /\ Head(incoming) = "record"]_vars
=============================================================================
