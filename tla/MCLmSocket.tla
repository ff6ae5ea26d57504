----------------------------- MODULE MCLmSocket -----------------------------
(* Instances of LmSocket for TLC. *)
EXTENDS LmSocket, TLC

CONSTANTS s1, s2, a1, a2

OneSocket  == {s1}
TwoSockets == {s1, s2}
OneAddress == {a1}
TwoAddresses == {a1, a2}

SharedAddress == [s \in Sockets |-> a1]
OwnAddress    == [s \in Sockets |-> IF s = s1 THEN a1 ELSE a2]

AnySignal     == Signals
NoSignal      == {}
(* Not in closed, where close would recurse for ever; not in the handler   *)
(* of an OK result, after which opened is emitted whatever the handler did.*)
CloseSignals  == Signals \ {"closed", "ok"}
(* In closed a connect would be undone by the reset that follows. *)
ConnectSignals == Signals \ {"closed"}

Careful == {}
Hasty   == AllHabits
=============================================================================
