------------------------------ MODULE SupportCases ------------------------------
(****************************************************************************)
(* Cases of the support staff: opened from the receipt of a lookup, moved    *)
(* through their workflow, noted on, reopened, and purged of their content   *)
(* long after they were closed.  A change names the version its agent saw    *)
(* and a key; it is checked against the row, which is written by its id.     *)
(****************************************************************************)
EXTENDS Naturals, FiniteSets

CONSTANTS Procs,      \* processes of the server
          Cases,      \* ids of cases
          Keys,       \* idempotency keys of one agent
          MaxVersion  \* bound: versions of a case

VARIABLES
  receipt,    \* support_lookup_receipts: the lookup's receipt
  kase,       \* support_cases, all made from that receipt
  notes,      \* support_case_notes: the keys of a case's notes
  requests,   \* support_case_mutation_requests, by case and key
  work,       \* what a request has read
  applied,    \* how often the changes of a key were made
  won,        \* how many changes of a case named a version
  closed,     \* cases that have ever been closed
  added,      \* the notes that were ever added
  late,       \* a note was added to a closed case
  calm        \* no two requests have overlapped

vars == <<receipt, kase, notes, requests, work, applied, won, closed, added, late, calm>>

Idle == [at |-> "idle"]
NoCase == [status |-> "none", version |-> 0, closedAt |-> FALSE, reopened |-> 0]
Statuses == {"open", "in_progress", "waiting_parent", "escalated", "resolved", "closed"}
Rows == [status : Statuses \cup {"none"}, version : 0..MaxVersion, closedAt : BOOLEAN, reopened : Nat]

TypeOK ==
  /\ receipt \in {"matched", "consumed", "expired"}
  /\ kase \in [Cases -> Rows]
  /\ notes \in [Cases -> SUBSET Keys] /\ requests \in SUBSET (Cases \X Keys)
  /\ DOMAIN work = Procs
  /\ applied \in [Cases \X Keys -> Nat] /\ won \in [Cases -> [1..MaxVersion -> Nat]]
  /\ closed \subseteq Cases /\ added \in [Cases -> SUBSET Keys] /\ late \in BOOLEAN /\ calm \in BOOLEAN

\* An agent has looked up a customer.
Init ==
  /\ receipt = "matched"
  /\ kase = [c \in Cases |-> NoCase]
  /\ notes = [c \in Cases |-> {}] /\ requests = {}
  /\ work = [p \in Procs |-> Idle]
  /\ applied = [ck \in Cases \X Keys |-> 0]
  /\ won = [c \in Cases |-> [v \in 1..MaxVersion |-> 0]]
  /\ closed = {} /\ added = notes /\ late = FALSE /\ calm = TRUE

TERMINAL_TRANSITIONS ==
  [open |-> {"in_progress", "waiting_parent", "escalated", "resolved", "closed"},
   in_progress |-> {"waiting_parent", "escalated", "resolved", "closed"},
   waiting_parent |-> {"in_progress", "escalated", "resolved", "closed"},
   escalated |-> {"in_progress", "resolved", "closed"},
   resolved |-> {"closed"},
   closed |-> {}]

Arrive(p, request) ==
  /\ work[p] = Idle
  /\ work' = [work EXCEPT ![p] = request]
  /\ calm' = (calm /\ \A q \in Procs : work[q] = Idle)
  /\ UNCHANGED <<receipt, kase, notes, requests, applied, won, closed, added, late>>
Done(p) == work' = [work EXCEPT ![p] = Idle]
Opened == {c \in Cases : kase[c].status # "none"}
NotClosed(c) == kase[c].status # "closed"

\* Mutant: the receipt alone decides.
NotOpened == receipt \in {"matched", "consumed"}
\* A receipt that has a case is answered with it; that it is consumed is never asked.
NoneOpened == receipt \in {"matched", "consumed"} /\ Opened = {}
CreateRead(p) == NoneOpened /\ Arrive(p, [at |-> "create"])
CreateSupportCase(p, c) ==
  /\ work[p].at = "create" /\ kase[c].status = "none"
  /\ kase' = [kase EXCEPT ![c] = [status |-> "open", version |-> 1, closedAt |-> FALSE, reopened |-> 0]]
  /\ receipt' = "consumed"
  /\ Done(p)
  /\ UNCHANGED <<notes, requests, applied, won, closed, added, late, calm>>
ReceiptExpires ==
  /\ receipt = "matched" /\ receipt' = "expired"
  /\ UNCHANGED <<kase, notes, requests, work, applied, won, closed, added, late, calm>>

\* Mutant: the version the agent saw is not compared.
AnyVersion(c, v) == v <= kase[c].version
SameVersion(c, v) == v = kase[c].version
\* The status may stay as it is, also of a closed case.
Allowed(c, status) == status = kase[c].status \/ status \in TERMINAL_TRANSITIONS[kase[c].status]
\* The key is new, the version is the one the agent saw, and the status may follow.
UpdateRead(p, c, k, v, status) ==
  /\ c \in Opened /\ <<c, k>> \notin requests
  /\ SameVersion(c, v) /\ Allowed(c, status)
  /\ Arrive(p, [at |-> "update", case |-> c, key |-> k, expected |-> v, status |-> status])

\* Mutant: the row that is there already is no obstacle.
NoteMutation(p) == requests' = requests \cup {<<work[p].case, work[p].key>>}
\* The primary key of the request's row lets one request of a key through.
BeginMutation(p) ==
  /\ <<work[p].case, work[p].key>> \notin requests
  /\ requests' = requests \cup {<<work[p].case, work[p].key>>}
Written(p, row) ==
  /\ kase[work[p].case].version < MaxVersion
  /\ kase' = [kase EXCEPT ![work[p].case] = row]
  /\ closed' = closed \cup (IF row.status = "closed" THEN {work[p].case} ELSE {})
  /\ applied' = [applied EXCEPT ![<<work[p].case, work[p].key>>] = @ + 1]

\* The row that was checked is written by its id.
UpdateSupportCaseWorkflow(p) ==
  /\ work[p].at = "update"
  /\ BeginMutation(p)
  /\ Written(p, [kase[work[p].case] EXCEPT !.status = work[p].status, !.version = @ + 1,
                                           !.closedAt = work[p].status = "closed"])
  /\ won' = [won EXCEPT ![work[p].case][work[p].expected] = @ + 1]
  /\ Done(p)
  /\ UNCHANGED <<receipt, notes, added, late, calm>>

\* Mutant: whatever is settled may be reopened.
Settled(c) == kase[c].status \in {"resolved", "closed"}
Reopenable(c) == kase[c].status = "resolved"
ReopenRead(p, c, k) ==
  /\ c \in Opened /\ Reopenable(c) /\ <<c, k>> \notin requests
  /\ Arrive(p, [at |-> "reopen", case |-> c, key |-> k])
\* No version is named.
ReopenSupportCase(p) ==
  /\ work[p].at = "reopen"
  /\ BeginMutation(p)
  /\ Written(p, [kase[work[p].case] EXCEPT !.status = "open", !.version = @ + 1, !.closedAt = FALSE,
                                           !.reopened = @ + 1])
  /\ Done(p)
  /\ UNCHANGED <<receipt, notes, won, added, late, calm>>

NoteRead(p, c, k) ==
  /\ c \in Opened /\ NotClosed(c) /\ k \notin notes[c]
  /\ Arrive(p, [at |-> "note", case |-> c, key |-> k])
AddSupportCaseNote(p) ==
  /\ work[p].at = "note"
  /\ work[p].key \notin notes[work[p].case]
  /\ notes' = [notes EXCEPT ![work[p].case] = @ \cup {work[p].key}]
  /\ added' = [added EXCEPT ![work[p].case] = @ \cup {work[p].key}]
  /\ late' = (late \/ kase[work[p].case].status = "closed")
  /\ Done(p)
  /\ UNCHANGED <<receipt, kase, requests, applied, won, closed, calm>>

\* Mutant: whatever is settled.
SettledCases == {c \in Cases : Settled(c)}
\* Cases closed long ago.
Expired == {c \in Cases : kase[c].status = "closed" /\ kase[c].closedAt}
PurgeExpiredSupportCaseContent ==
  /\ Expired # {} /\ \E c \in Expired : notes[c] # {}
  /\ notes' = [c \in Cases |-> IF c \in Expired THEN {} ELSE notes[c]]
  /\ UNCHANGED <<receipt, kase, requests, work, applied, won, closed, added, late, calm>>

Abandon(p) ==
  /\ work[p] # Idle /\ Done(p)
  /\ UNCHANGED <<receipt, kase, notes, requests, applied, won, closed, added, late, calm>>

Begin(p) ==
  \/ CreateRead(p)
  \/ \E c \in Cases, k \in Keys, v \in 1..MaxVersion, status \in Statuses : UpdateRead(p, c, k, v, status)
  \/ \E c \in Cases, k \in Keys : ReopenRead(p, c, k) \/ NoteRead(p, c, k)
Continue(p) ==
  \/ \E c \in Cases : CreateSupportCase(p, c)
  \/ UpdateSupportCaseWorkflow(p) \/ ReopenSupportCase(p) \/ AddSupportCaseNote(p) \/ Abandon(p)

Next ==
  \/ \E p \in Procs : Begin(p) \/ Continue(p)
  \/ ReceiptExpires \/ PurgeExpiredSupportCaseContent

Spec == Init /\ [][Next]_vars
-----------------------------------------------------------------------------
\* A key changes a case once, however often and by however many its request is sent
\* (service.ts:257-263); the date of closing is there while the case is closed, and only then.
KeysChangeOnce ==
  /\ \A ck \in Cases \X Keys : applied[ck] <= 1
  /\ \A c \in Cases : kase[c].closedAt <=> kase[c].status = "closed"

\* Of requests that follow each other: a receipt opens one case, a version is changed once, a closed
\* case stays closed, no note is added to it, and only a closed case loses its notes
\* (service.ts:136-165, 275-407, retention.ts:12-36).
CasesFollowTheirOrder ==
  calm => /\ Cardinality(Opened) <= 1
          /\ \A c \in Cases, v \in 1..MaxVersion : won[c][v] <= 1
          /\ \A c \in closed : kase[c].status = "closed"
          /\ ~late
          /\ \A c \in Cases : notes[c] # added[c] => kase[c].status = "closed"

CasesAreOrderly == KeysChangeOnce /\ CasesFollowTheirOrder
=================================================================================
