----------------------------- MODULE SrvResponse -----------------------------
(***************************************************************************)
(* _lm_resolver_parse_srv_response (src/lm-resolver.c): the server and the *)
(* port of the preferred record of a DNS answer.  The packet is abstracted *)
(* to its questions and answers: whether their names expand, and the       *)
(* fields of a record.  One action is one turn of a loop.                  *)
(*                                                                         *)
(* The second dn_expand of a record is not checked: when it fails, name    *)
(* still holds the record's owner, and the -1 is added to the position.    *)
(* The code does not look at a record's type or length either.  After a    *)
(* target that does not expand, or a record that is not a SRV record, the  *)
(* position is inside some record, and what is read there is arbitrary.    *)
(***************************************************************************)
EXTENDS Integers, Sequences

CONSTANTS
  Names,       \* host names a record can point to
  Prios,       \* priorities a record can have (0 .. 65535 in the code)
  Ports,
  StartPrio,   \* where pref_prio starts (9999)
  NoPort,      \* where pref_port starts (0)
  MaxQuestions, MaxAnswers   \* bounds

ASSUME NumbersAssumption == Prios \subseteq Int /\ StartPrio \in Int
ASSUME BoundAssumption == MaxQuestions \in Nat /\ MaxAnswers \in Nat

Root  == "root"      \* the empty name
Owner == "owner"     \* the name that a record begins with
Bad   == "bad"       \* a name that dn_expand rejects
ASSUME NamesAssumption == Names \cap {Root, Owner, Bad} = {}

Records == [srv : BOOLEAN, prio : Prios, port : Ports,
            target : Names \cup {Root, Bad}]

VARIABLES
  questions,   \* of each question of the packet: its name expands
  answers,     \* the records, up to the first whose owner does not expand
  i,           \* the question or answer that comes next
  aligned,     \* the position is where that one begins
  pref_name, pref_port, pref_prio,
  pc           \* "questions", "answers", or the value returned

packet  == <<questions, answers>>
pref    == <<pref_name, pref_port, pref_prio>>
srvVars == <<packet, i, aligned, pref, pc>>

SeqsUpTo(S, n) == UNION {[1 .. m -> S] : m \in 0 .. n}

SrvTypeOK ==
  /\ questions \in Seq(BOOLEAN) /\ answers \in Seq(Records)
  /\ i \in Nat \ {0}
  /\ aligned \in BOOLEAN
  /\ pref_name \in Names \cup {Root, Owner}
  /\ pref_port \in Ports \cup {NoPort}
  /\ pref_prio \in Prios \cup {StartPrio}
  /\ pc \in {"questions", "answers", "TRUE", "FALSE"}

SrvInit ==
  /\ questions \in SeqsUpTo(BOOLEAN, MaxQuestions)
  /\ answers \in SeqsUpTo(Records, MaxAnswers)
  /\ i = 1 /\ aligned = TRUE
  /\ pref_name = Root /\ pref_port = NoPort /\ pref_prio = StartPrio
  /\ pc = "questions"

-----------------------------------------------------------------------------
SkipQuestion ==
  /\ pc = "questions" /\ i <= Len(questions) /\ questions[i]
  /\ i' = i + 1
  /\ UNCHANGED <<packet, aligned, pref, pc>>

LastQuestion ==
  /\ pc = "questions" /\ i > Len(questions)
  /\ pc' = "answers" /\ i' = 1
  /\ UNCHANGED <<packet, aligned, pref>>

(* The position stays at the bad name, where the loop over the answers,    *)
(* if there are any, finds it again.                                       *)
BadQuestion ==
  /\ pc = "questions" /\ i <= Len(questions) /\ ~questions[i]
  /\ pc' = "FALSE"
  /\ UNCHANGED <<packet, i, aligned, pref>>

-----------------------------------------------------------------------------
(* What the position shows: the next record, or any at all. *)
Read == IF aligned THEN {answers[i]} ELSE Records

(* Mutant: the target is not expanded. *)
OwnerTaken(r) == Owner

(* What name holds after the second dn_expand. *)
Expanded(r) == IF r.target = Bad THEN Owner ELSE r.target

Aligned(r) == aligned /\ r.srv /\ r.target # Bad

Preferred(r) == r.prio < pref_prio

Take(r) ==
  IF Preferred(r)
    THEN pref_prio' = r.prio /\ pref_name' = Expanded(r) /\ pref_port' = r.port
    ELSE UNCHANGED pref

ParseAnswer ==
  /\ pc = "answers" /\ i <= Len(answers)
  /\ \E r \in Read : Take(r) /\ aligned' = Aligned(r)
  /\ i' = i + 1
  /\ UNCHANGED <<packet, pc>>

(* Mutant: the last record is not looked at. *)
StopsEarly == i >= Len(answers)

(* No answer is left; or what is read at a wrong position is not a name. *)
NoMore == i > Len(answers) \/ ~aligned

Return ==
  /\ pc = "answers" /\ NoMore
  /\ pc' = IF pref_name # Root THEN "TRUE" ELSE "FALSE"
  /\ UNCHANGED <<packet, i, aligned, pref>>

SrvNext == SkipQuestion \/ LastQuestion \/ BadQuestion \/ ParseAnswer \/ Return

SrvSpec == SrvInit /\ [][SrvNext]_srvVars

-----------------------------------------------------------------------------
(* Properties *)

(* The records that were read and can be preferred at all: a priority that *)
(* is not below the start value never is.                                  *)
Candidates == {k \in 1 .. i - 1 : answers[k].prio < StartPrio}
Best(k) == \A j \in Candidates : /\ answers[k].prio <= answers[j].prio
                                 /\ j < k => answers[k].prio < answers[j].prio
Holds(k) == /\ pref_prio = answers[k].prio /\ pref_port = answers[k].port
            /\ pref_name = Expanded(answers[k])

(* As long as the position is right, the server and port kept are those of *)
(* one record, the first of those with the least priority, whatever order  *)
(* the records come in; weights play no part.                              *)
Chosen == IF Candidates = {} THEN pref_prio = StartPrio /\ pref_name = Root
                             ELSE \E k \in Candidates : Best(k) /\ Holds(k)
BestRecord == pc = "answers" /\ aligned => Chosen

(* The function does not give up on a packet it can read: it succeeds on a *)
(* well-formed one exactly if the best of all records names a server.  A   *)
(* record that says "no such service" (the root) hides the worse ones.     *)
WellFormed ==
  /\ \A q \in 1 .. Len(questions) : questions[q]
  /\ \A k \in 1 .. Len(answers) : answers[k].srv /\ answers[k].target # Bad
AllCandidates == {k \in 1 .. Len(answers) : answers[k].prio < StartPrio}
Serves(k) == /\ \A j \in AllCandidates : /\ answers[k].prio <= answers[j].prio
                                         /\ j < k => answers[k].prio < answers[j].prio
             /\ answers[k].target # Root
ResultExact ==
  WellFormed => /\ pc = "TRUE" => \E k \in AllCandidates : Serves(k) /\ Holds(k)
                /\ pc = "FALSE" => \A k \in AllCandidates : ~Serves(k)

(* The caller is given the service's own name as the server only if a      *)
(* target could not be expanded, or the position was lost.                 *)
OwnerOnlyIfBad ==
  pref_name = Owner => \E k \in 1 .. Len(answers) : answers[k].target = Bad \/ ~answers[k].srv
=============================================================================
