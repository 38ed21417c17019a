----------------------------- MODULE PaidCalls -----------------------------
(***************************************************************************)
(* What the x402 gateway promises (apps/operator/src/http/server.ts): a    *)
(* call is paid before it runs, by a payment that buys nothing else; who   *)
(* is refused is not charged, then or later; and there is an answer only   *)
(* for who paid.  What was paid can be lost, with a restart or with the    *)
(* facilitator's word that the payment went through.  Verification, whom   *)
(* is paid, call ids, clocks and restarts are how the gateway does it.     *)
(***************************************************************************)
EXTENDS Naturals

CONSTANTS Call, Payment

VARIABLES sale,    \* how far the sale of a call has got
          spent,   \* the payments that were executed
          bought,  \* what a call was paid with: nothing or one payment
          answers  \* the calls whose answer can be read

vars == <<sale, spent, bought, answers>>

Init ==
  /\ sale = [c \in Call |-> "open"]
  /\ spent = {}
  /\ bought = [c \in Call |-> {}]
  /\ answers = {}

\* A call is paid; perhaps nobody learns of it.
Charge(c, p) ==
  /\ sale[c] = "open" /\ p \notin spent
  /\ spent' = spent \cup {p}
  /\ bought' = [bought EXCEPT ![c] = {p}]
  /\ \E s \in {"owed", "lost"} : sale' = [sale EXCEPT ![c] = s]
  /\ UNCHANGED answers

Refuse(c) ==
  /\ sale[c] = "open"
  /\ sale' = [sale EXCEPT ![c] = "refused"]
  /\ UNCHANGED <<spent, bought, answers>>

\* Old answers are dropped whenever somebody calls or asks.
Forget == answers' \subseteq answers

Serve(c) ==
  /\ sale[c] = "owed"
  /\ sale' = [sale EXCEPT ![c] = "running"]
  /\ Forget
  /\ UNCHANGED <<spent, bought>>

Answer(c) ==
  /\ sale[c] = "running"
  /\ sale' = [sale EXCEPT ![c] = "answered"]
  /\ answers' = answers \cup {c}
  /\ UNCHANGED <<spent, bought>>

\* Paid and not answered.
Lose ==
  /\ UNCHANGED <<spent, bought>>
  /\ Forget
  /\ \E cs \in SUBSET {c \in Call : sale[c] \in {"owed", "running"}} :
       sale' = [c \in Call |-> IF c \in cs THEN "lost" ELSE sale[c]]

Next ==
  \/ Lose
  \/ \E c \in Call :
       \/ Refuse(c) \/ Serve(c) \/ Answer(c)
       \/ \E p \in Payment : Charge(c, p)

Spec == Init /\ [][Next]_vars
=============================================================================
