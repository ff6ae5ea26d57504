--------------------------- MODULE AddrinfoReply ---------------------------
(***************************************************************************)
(* How the results of a getaddrinfo() travel from a worker to the caller   *)
(* in one datagram (src/asyncns.c): send_addrinfo_reply packs the entries  *)
(* one after the other behind the header of the response, as long as they  *)
(* fit, and handle_response unpacks them again.  Of an entry only its      *)
(* packed size matters.                                                    *)
(***************************************************************************)
EXTENDS Integers, Sequences

CONSTANTS
  BufSize,      \* BUFSIZE
  HeaderLen,    \* sizeof(addrinfo_response_t)
  Sizes,        \* the packed sizes of entries
  MaxEntries    \* bound: entries of a result list

ASSUME SizeAssumption ==
  /\ BufSize \in Nat /\ HeaderLen \in Nat /\ 2 * HeaderLen <= BufSize
  /\ Sizes \subseteq Nat \ {0} /\ MaxEntries \in Nat

VARIABLES
  entries,      \* the result list of getaddrinfo()
  pos,          \* entries handled so far by the loop that is running
  length,       \* resp->header.length; then the bytes not yet unpacked
  ret,          \* resp->ret; then q->ret
  received,     \* q->addrinfo
  phase         \* "pack", "unpack", "done", or "abort": an assertion failed

vars == <<entries, pos, length, ret, received, phase>>

Rets   == {"OK", "EAI_MEMORY"}
Phases == {"pack", "unpack", "done", "abort"}

TypeOK ==
  /\ entries \in Seq(Sizes) /\ received \in Seq(Sizes)
  /\ pos \in 0 .. Len(entries)
  /\ length \in Nat
  /\ ret \in Rets
  /\ phase \in Phases

(* Mutant: the header is not counted. *)
StartsEmpty == 0

StartLength == HeaderLen

Init ==
  /\ entries \in UNION {[1 .. n -> Sizes] : n \in 1 .. MaxEntries}
  /\ pos = 0
  /\ length = StartLength
  /\ ret = "OK"
  /\ received = <<>>
  /\ phase = "pack"

-----------------------------------------------------------------------------
(* serialize_addrinfo is told how much of the buffer is left, as maxlength, *)
(* but compares it with all that has been used.                             *)

MaxLength == BufSize - length

(* Mutant: what is left is never looked at. *)
FitsAlways(size) == TRUE

Fits(size) == length + size <= MaxLength

(* Mutant: what does not fit is left out and nobody told. *)
Overflow == ret' = ret

TooLong == ret' = "EAI_MEMORY"

serialize_addrinfo ==
  /\ phase = "pack" /\ pos < Len(entries)
  /\ \/ /\ length > MaxLength                    \* assert(*length <= maxlength)
        /\ phase' = "abort"
        /\ UNCHANGED <<pos, length, ret>>
     \/ /\ length <= MaxLength /\ Fits(entries[pos + 1])
        /\ length' = length + entries[pos + 1]
        /\ pos' = pos + 1
        /\ UNCHANGED <<ret, phase>>
     \/ /\ length <= MaxLength /\ ~ Fits(entries[pos + 1])
        /\ TooLong
        /\ length' = length - HeaderLen
        /\ pos' = 0
        /\ phase' = "unpack"
  /\ UNCHANGED <<entries, received>>

send_addrinfo_reply ==
  /\ phase = "pack" /\ pos = Len(entries)
  /\ length' = length - HeaderLen
  /\ pos' = 0
  /\ phase' = "unpack"
  /\ UNCHANGED <<entries, ret, received>>

(* One turn of handle_response's loop; unserialize_addrinfo may run out of *)
(* memory.                                                                 *)
unserialize_addrinfo ==
  /\ phase = "unpack" /\ length > 0
  /\ \/ /\ received' = Append(received, entries[pos + 1])
        /\ length' = length - entries[pos + 1]
        /\ pos' = pos + 1
        /\ UNCHANGED <<ret, phase>>
     \/ /\ ret' = "EAI_MEMORY"
        /\ phase' = "done"
        /\ UNCHANGED <<pos, length, received>>
  /\ UNCHANGED entries

complete_query ==
  /\ phase = "unpack" /\ length = 0
  /\ phase' = "done"
  /\ UNCHANGED <<entries, pos, length, ret, received>>

Next == serialize_addrinfo \/ send_addrinfo_reply \/ unserialize_addrinfo \/ complete_query

Spec == Init /\ [][Next]_vars

-----------------------------------------------------------------------------
(* Properties *)

(* The packed bytes of the first n entries. *)
Packed[n \in 0 .. Len(entries)] == IF n = 0 THEN 0 ELSE Packed[n - 1] + entries[n]

(* A query that succeeds has every result of the lookup, in its order; one *)
(* that fails has the first of them and says so.                           *)
WholeListOrError ==
  phase = "done" =>
    /\ received = SubSeq(entries, 1, Len(received))
    /\ ret = "OK" => Len(received) = Len(entries)

(* The reply never grows over the buffer it is built in.                   *)
BufferRespected == phase = "pack" => length <= BufSize

(* A list that needs no more than half of the buffer arrives: only memory  *)
(* can be short then, and only on the caller's side.                       *)
HalfFits ==
  2 * (HeaderLen + Packed[Len(entries)]) <= BufSize =>
    /\ phase # "abort"
    /\ phase = "unpack" => ret = "OK"

(* Of a list the caller gets all or is told; and all, if it is short.      *)
ListArrives == WholeListOrError /\ HalfFits

(* The assertion at the top of serialize_addrinfo (asyncns.c:399).         *)
AssertionHolds == phase # "abort"
=============================================================================
