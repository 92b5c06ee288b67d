----------------------------- MODULE FundingLedger -----------------------------
(* What the funding of standard sessions promises a learner and app, whatever *)
(* requests, retries, sweeps and crashes there are: a credit is taken for one  *)
(* session at a time, and then spent or returned, once; a batch never pays for *)
(* more sessions than it was granted.                                          *)
EXTENDS Naturals, FiniteSets

CONSTANTS
  Sessions,  \* the sessions that can ask for a credit
  Batches,   \* the monthly batches
  Granted    \* credits of a batch

\* What the theorems about the ledger assume of it.
LedgerAssumption == IsFiniteSet(Sessions) /\ Granted \in Nat \ {0}

VARIABLES
  credit,    \* "none", "held", "spent" or "returned", by session
  from       \* the batch the credit of a session is from: a set of at most one

ledger == <<credit, from>>

Held       == {s \in Sessions : credit[s] = "held"}
SpentOf(m) == {s \in Sessions : credit[s] = "spent" /\ from[s] = {m}}

Init ==
  /\ credit = [s \in Sessions |-> "none"]
  /\ from   = [s \in Sessions |-> {}]

\* Session s takes a credit of batch m; a credit still held goes back at once.
Take(s, m) ==
  /\ credit[s] = "none"
  /\ Cardinality(SpentOf(m)) < Granted
  /\ credit' = [r \in Sessions |-> IF r = s THEN "held"
                                   ELSE IF credit[r] = "held" THEN "returned" ELSE credit[r]]
  /\ from' = [from EXCEPT ![s] = {m}]

Spend(s) ==
  /\ credit[s] = "held"
  /\ credit' = [credit EXCEPT ![s] = "spent"]
  /\ UNCHANGED from

Return(s) ==
  /\ credit[s] = "held"
  /\ credit' = [credit EXCEPT ![s] = "returned"]
  /\ UNCHANGED from

Next == \E s \in Sessions : (\E m \in Batches : Take(s, m)) \/ Spend(s) \/ Return(s)

Spec == Init /\ [][Next]_ledger

\* At most one credit is held, and a batch pays for no more sessions than it grants
\* even if the one held is spent.
LedgerInv ==
  /\ \A r, s \in Held : r = s
  /\ \A m \in Batches :
       Cardinality(SpentOf(m)) + Cardinality({s \in Held : from[s] = {m}}) <= Granted
=============================================================================
