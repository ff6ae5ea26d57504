----------------------------- MODULE MCAsyncns -----------------------------
(* Instances of Asyncns for TLC. *)
EXTENDS Asyncns, TLC

CONSTANTS w1, w2

OneWorker  == {w1}
TwoWorkers == {w1, w2}

TwoKinds == {"ADDRINFO", "RES_QUERY"}
OneKind  == {"NAMEINFO"}
=============================================================================
