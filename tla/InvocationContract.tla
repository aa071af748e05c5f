-------------------------- MODULE InvocationContract --------------------------
(***************************************************************************)
(* What MCPFlow promises about the remote invocations of one TOOL Step,    *)
(* without workers, leases, queues or recovery: how many invocations are   *)
(* issued, which of them reach the server, and what the one final verdict  *)
(* may claim about them.                                                   *)
(*                                                                         *)
(* A Step of an unsafe risk class is issued once.  Its verdict is a known  *)
(* one (SUCCEEDED, FAILED, TIMED_OUT, CANCELLED) only when every request   *)
(* that was sent was also answered, and after a known verdict no request   *)
(* leaves any more.  One exception is what the code grants itself: a       *)
(* request whose connection the server closed may be reported FAILED.  A   *)
(* safe Step may be issued up to limit times, and a stray repeated request *)
(* is harmless.                                                            *)
(***************************************************************************)
EXTENDS Naturals

VARIABLES
  safe,      \* the risk class allows a repeated call
  limit,     \* how many invocations may be issued
  issued,    \* invocations decided on so far, numbered 1 .. issued
  sent,      \* those whose request reached the server
  answered,  \* those whose answer came back
  dropped,   \* those whose connection the server closed instead
  verdict    \* the Step's terminal status, OPEN before

contractVars == <<safe, limit, issued, sent, answered, dropped, verdict>>

KnownVerdicts == {"SUCCEEDED", "FAILED", "TIMED_OUT", "CANCELLED"}

\* A verdict may claim only what is known about the requests.
Truthful(v) ==
  /\ v = "SUCCEEDED" => issued \in answered
  /\ v = "FAILED" => safe \/ sent \subseteq answered \union dropped
  /\ v \in KnownVerdicts \ {"FAILED"} => safe \/ sent \subseteq answered

ContractInit ==
  /\ safe \in BOOLEAN
  /\ limit \in Nat
  /\ ~safe => limit <= 1
  /\ issued = 0
  /\ sent = {}
  /\ answered = {}
  /\ dropped = {}
  /\ verdict = "OPEN"

Issue ==
  /\ verdict = "OPEN"
  /\ issued < limit
  /\ issued' = issued + 1
  /\ UNCHANGED <<safe, limit, sent, answered, dropped, verdict>>

\* Issued and refused at once, before anything could be sent.
Refuse ==
  /\ verdict = "OPEN"
  /\ issued < limit
  /\ safe \/ sent = {}
  /\ issued' = issued + 1
  /\ verdict' \in {"FAILED", "TIMED_OUT"}
  /\ UNCHANGED <<safe, limit, sent, answered, dropped>>

Transmit(n) ==
  /\ n \in (1 .. issued) \ sent
  /\ safe \/ verdict \in {"OPEN", "UNKNOWN_OUTCOME"}
  /\ sent' = sent \union {n}
  /\ UNCHANGED <<safe, limit, issued, answered, dropped, verdict>>

Answer(n) ==
  /\ n \in sent \ (answered \union dropped)
  /\ answered' = answered \union {n}
  /\ UNCHANGED <<safe, limit, issued, sent, dropped, verdict>>

Drop(n) ==
  /\ n \in sent \ (answered \union dropped)
  /\ dropped' = dropped \union {n}
  /\ UNCHANGED <<safe, limit, issued, sent, answered, verdict>>

Conclude(v) ==
  /\ verdict = "OPEN"
  /\ Truthful(v)
  /\ verdict' = v
  /\ UNCHANGED <<safe, limit, issued, sent, answered, dropped>>

ContractNext ==
  \/ Issue
  \/ Refuse
  \/ \E n \in 1 .. limit : Transmit(n) \/ Answer(n) \/ Drop(n)
  \/ \E v \in KnownVerdicts \union {"UNKNOWN_OUTCOME"} : Conclude(v)

ContractSpec == ContractInit /\ [][ContractNext]_contractVars
=============================================================================
