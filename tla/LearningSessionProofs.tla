------------------------- MODULE LearningSessionProofs -------------------------
(* The safety of LearningSession for every number of sessions, requests, keys, *)
(* credits, weeks and months.                                                  *)
EXTENDS LearningSession, FiniteSetTheorems, TLAPS

\* The status of a row determines its funding state.
RowsOK ==
  \A s \in Sessions :
    /\ funding[s] = "none"     <=> status[s] = "none"
    /\ funding[s] = "reserved" <=> status[s] = "starting"
    /\ funding[s] = "released" <=> status[s] = "cancelled_before_launch"

\* What a request read still says something of the rows it is about to write: the row
\* a Start is to insert is nobody else's, and a row that is to be written by its id
\* alone was launched, which cannot be undone.
StartRowsOK(p) ==
  /\ \A s \in work[p].rows : status[s] = "none"
  /\ \A q \in Procs \ {p} : work[q].rows \cap work[p].rows = {}
LaunchedRows(p) == \A s \in work[p].rows : funding[s] = "consumed"
WorkOK ==
  \A p \in Procs :
    /\ work[p].op = "start" => StartRowsOK(p)
    /\ work[p].op # "start" => \A s \in work[p].rows : status[s] # "none"
    /\ work[p].op \in {"disconnect", "resume", "interrupt"} => LaunchedRows(p)
    /\ work[p].op \in Lifecycle /\ work[p].saw # "starting" => LaunchedRows(p)

OneLive == \A r, s \in Sessions : Live(r) /\ Live(s) => r = s

RowInv == TypeOK /\ RowsOK /\ WorkOK /\ OneLive /\ FullScopesArePaid
CreditLeft == \A m \in Months : \A s \in Holding(m) : Cardinality(Spent(m)) < Granted
BlankRows == \A s \in Sessions : status[s] = "none" => ~FromBatch(s)
CreditInv == ConsumedMatchesSessions /\ CreditLeft /\ BlankRows

-----------------------------------------------------------------------------
(* What a step may do to the rows and to the books.  Kept is what every action is *)
(* shown to do; the invariants and the refinement follow from it alone.           *)

\* The ways a row that exists can move, and what may happen to its grant.
RowMoves(s) ==
  /\ terms'[s] = terms[s]
  /\ \/ status'[s] = status[s] /\ funding'[s] = funding[s]
     \/ /\ status[s] = "starting" /\ status'[s] = "cancelled_before_launch"
        /\ funding'[s] = "released"
     \/ /\ status[s] = "starting" /\ status'[s] = "active" /\ funding'[s] = "consumed"
     \/ /\ funding[s] = "consumed" /\ funding'[s] = "consumed"
        /\ status'[s] \in Statuses \ {"none", "starting", "cancelled_before_launch"}
GrantMoves(s) == grant'[s] = "active" => grant[s] = "active" \/ funding'[s] = "consumed"

\* A row begins: on a credit, if it asks for one, that its batch still has.
Begins(s) ==
  /\ status[s] = "none" /\ funding[s] = "none"
  /\ status'[s] = "starting" /\ funding'[s] = "reserved"
  /\ terms'[s].source = "standard_monthly" =>
       batch[terms'[s].month].consumed < Granted

\* consumed_count follows the sessions that are paid for, one at a time.
NothingSpent ==
  /\ \A s \in Sessions : funding'[s] = "consumed" => funding[s] = "consumed"
  /\ \A m \in Months : batch'[m].consumed = batch[m].consumed
OneSpent(s) ==
  /\ status[s] = "starting" /\ funding[s] = "reserved" /\ funding'[s] = "consumed"
  /\ \A r \in Sessions \ {s} : funding'[r] = funding[r]
  /\ \A m \in Months : batch'[m].consumed = IF FromBatch(s) /\ m = terms[s].month
                                            THEN batch[m].consumed + 1
                                            ELSE batch[m].consumed
Books == NothingSpent \/ \E s \in Sessions : OneSpent(s)

Kept ==
  /\ RowInv'
  /\ \A s \in Sessions : RowMoves(s) \/ Begins(s)
  /\ Books

-----------------------------------------------------------------------------
(* The shape of the requests. *)

LEMMA Unmoved ==
  ASSUME UNCHANGED <<status, funding, terms>>,
         \A m \in Months : batch'[m].consumed = batch[m].consumed
  PROVE  Books /\ \A s \in Sessions : RowMoves(s)
BY DEF Books, NothingSpent, RowMoves

LEMMA IdleInWork == Idle \in Work
<1>1. 0 \in Months /\ 1 \in Weeks
  BY ConstantsAssumption DEF Months, Weeks
<1>2. NoTerms \in Terms
  BY <1>1 DEF NoTerms, Terms, Sources
<1> QED
  BY <1>2 DEF Idle, Work, Ops, Statuses

LEMMA OnInWork ==
  ASSUME NEW op \in Ops, NEW s \in Sessions
  PROVE  /\ On(op, s) \in Work
         /\ On(op, s).op = op /\ On(op, s).rows = {s}
<1> QED
  BY IdleInWork DEF On, Idle, Work

\* A step of p that only replaces its request by w keeps the invariant when w is a
\* request of the kinds WorkOK describes.
LEMMA NewRequest ==
  ASSUME RowInv, UNCHANGED <<rowVars, fundVars, envVars>>,
         NEW p \in Procs, NEW w \in Work,
         work' = [work EXCEPT ![p] = w],
         w.op = "start" => \A s \in w.rows :
                             status[s] = "none" /\ \A q \in Procs : s \notin work[q].rows,
         w.op # "start" => \A s \in w.rows : status[s] # "none",
         w.op \in {"disconnect", "resume", "interrupt"} \/
           (w.op \in Lifecycle /\ w.saw # "starting")
             => \A s \in w.rows : funding[s] = "consumed"
  PROVE  Kept
<1> USE DEF RowInv, rowVars, fundVars, envVars
<1>1. TypeOK'
  BY DEF TypeOK
<1>2. RowsOK' /\ OneLive' /\ FullScopesArePaid'
  BY DEF RowsOK, OneLive, FullScopesArePaid, Live
<1>3. WorkOK'
  <2> SUFFICES ASSUME NEW q \in Procs
               PROVE  /\ work'[q].op = "start" => StartRowsOK(q)'
                      /\ work'[q].op # "start" => \A s \in work'[q].rows : status'[s] # "none"
                      /\ work'[q].op \in {"disconnect", "resume", "interrupt"}
                           => LaunchedRows(q)'
                      /\ work'[q].op \in Lifecycle /\ work'[q].saw # "starting"
                           => LaunchedRows(q)'
    BY DEF WorkOK
  <2>1. work \in [Procs -> Work] /\ \A r \in Procs : work[r].rows \subseteq Sessions
    BY DEF TypeOK, Work
  <2>2. \A r \in Procs : work'[r] = IF r = p THEN w ELSE work[r]
    BY <2>1
  <2>3. CASE q = p
    <3>1. work'[q].op = "start" => StartRowsOK(q)'
      BY <2>2, <2>3 DEF StartRowsOK
    <3> QED
      BY <2>2, <2>3, <3>1 DEF LaunchedRows
  <2>4. CASE q # p
    <3>1. work'[q] = work[q]
      BY <2>2, <2>4
    <3>2. work[q].op = "start" => w.rows \cap work[q].rows = {}
      BY DEF WorkOK, StartRowsOK
    <3>3. work'[q].op = "start" => StartRowsOK(q)'
      BY <2>2, <2>4, <3>1, <3>2 DEF WorkOK, StartRowsOK
    <3> QED
      BY <3>1, <3>3 DEF WorkOK, LaunchedRows
  <2> QED
    BY <2>3, <2>4
<1> QED
  BY <1>1, <1>2, <1>3, Unmoved DEF Kept

\* A step of p that ends its request, or goes on to a statement that WorkOK asks nothing
\* of, keeps WorkOK when it only moves rows the way a row can move.
LEMMA OldRequest ==
  ASSUME RowInv, TypeOK', NEW p \in Procs, NEW rest \in Work,
         work' = [work EXCEPT ![p] = rest],
         rest.rows \subseteq work[p].rows,
         rest.op \notin {"start", "disconnect", "resume", "interrupt"} \cup Lifecycle,
         \A s \in rest.rows : status'[s] # "none",
         \A s \in Sessions : status[s] # "none" => status'[s] # "none",
         \A s \in Sessions : funding[s] = "consumed" => funding'[s] = "consumed",
         \A s \in Sessions : status[s] = "none" /\ s \notin work[p].rows
                               => status'[s] = "none"
  PROVE  WorkOK'
<1> USE DEF RowInv
<1> SUFFICES ASSUME NEW q \in Procs
             PROVE  /\ work'[q].op = "start" => StartRowsOK(q)'
                    /\ work'[q].op # "start" => \A s \in work'[q].rows : status'[s] # "none"
                    /\ work'[q].op \in {"disconnect", "resume", "interrupt"}
                         => LaunchedRows(q)'
                    /\ work'[q].op \in Lifecycle /\ work'[q].saw # "starting"
                         => LaunchedRows(q)'
  BY DEF WorkOK
<1>1. work \in [Procs -> Work] /\ \A r \in Procs : work[r].rows \subseteq Sessions
  BY DEF TypeOK, Work
<1>2. \A r \in Procs : work'[r] = IF r = p THEN rest ELSE work[r]
  BY <1>1
<1>3. CASE q = p
  BY <1>2, <1>3
<1>4. CASE q # p
  <2>1. work'[q] = work[q]
    BY <1>2, <1>4
  <2>2. work[q].op = "start" => \A r \in Procs \ {q} : work[r].rows \cap work[q].rows = {}
    BY DEF WorkOK, StartRowsOK
  <2>3. ASSUME work'[q].op = "start" PROVE StartRowsOK(q)'
    <3>1. \A s \in work[q].rows : status[s] = "none" /\ s \notin work[p].rows
      BY <1>4, <2>1, <2>2, <2>3 DEF WorkOK, StartRowsOK
    <3>2. \A r \in Procs \ {q} : work'[r].rows \subseteq work[r].rows
      BY <1>2
    <3> QED
      BY <1>1, <2>1, <2>2, <2>3, <3>1, <3>2 DEF StartRowsOK
  <2> QED
    BY <1>1, <2>1, <2>3 DEF WorkOK, LaunchedRows
<1> QED
  BY <1>3, <1>4

-----------------------------------------------------------------------------
(* Requests that arrive. *)

LEMMA StartTermsType ==
  ASSUME TypeOK, NEW k \in Keys, NEW bt, NEW t \in StartTerms(k, bt)
  PROVE  t \in Terms
<1>1. month - 1 \in Months /\ month \in Months /\ 0 \in Months
  BY ConstantsAssumption DEF TypeOK, Months
<1>2. week \in Weeks /\ funded[week] + 1 \in Nat /\ slots[week] + 1 \in Nat
  BY DEF TypeOK
<1>3. CASE Source[k] = "standard_monthly"
  <2>1. PICK m \in BatchChoice([bt EXCEPT ![month].made = TRUE], month, funded[week]) :
          t = [source |-> "standard_monthly", month |-> m, week |-> week,
               ordinal |-> funded[week] + 1]
    BY <1>3 DEF StartTerms
  <2>2. m \in Months
    BY <1>1 DEF BatchChoice
  <2> QED
    BY <1>2, <2>1, <2>2 DEF Terms, Sources
<1>4. CASE Source[k] # "standard_monthly"
  BY <1>1, <1>2, <1>4 DEF StartTerms, Terms, Sources
<1> QED
  BY <1>3, <1>4

LEMMA StartReadKeeps ==
  ASSUME RowInv, NEW p \in Procs, NEW k \in Keys, NEW s \in Sessions, StartRead(p, k, s)
  PROVE  Kept
<1> DEFINE prior == {r \in Sessions : Live(r)}
           held  == \E r \in prior : Held(r)
           makes == {m \in {month} : Source[k] = "standard_monthly" /\ ~batch[m].made}
           w(t)  == [op |-> "start", rows |-> {s}, prior |-> prior, key |-> {k},
                     held |-> held, makes |-> makes, saw |-> "none", terms |-> t]
<1>1. PICK t \in StartTerms(k, Released(prior, held)) : work' = [work EXCEPT ![p] = w(t)]
  BY DEF StartRead
<1>2. t \in Terms
  BY StartTermsType DEF RowInv
<1>3. makes \subseteq Months
  BY DEF RowInv, TypeOK
<1>4. w(t) \in Work
  BY <1>2, <1>3 DEF Work, Ops, Statuses
<1>5. /\ status[s] = "none" /\ \A q \in Procs : s \notin work[q].rows
      /\ UNCHANGED <<rowVars, fundVars, envVars>>
  BY DEF StartRead
<1>6. w(t).op = "start" /\ w(t).rows = {s}
  OBVIOUS
<1> HIDE DEF w
<1> QED
  BY <1>1, <1>4, <1>5, <1>6, NewRequest DEF Lifecycle

LEMMA OnRead ==
  ASSUME RowInv, NEW p \in Procs, NEW s \in Sessions,
         NEW op \in Ops \ ({"start"} \cup Lifecycle),
         status[s] # "none",
         op \in {"disconnect", "resume", "interrupt"}
           => status[s] \in {"active", "disconnected", "resumable"},
         work' = [work EXCEPT ![p] = On(op, s)],
         UNCHANGED <<rowVars, fundVars, envVars>>
  PROVE  Kept
<1>1. /\ On(op, s) \in Work
      /\ On(op, s).op = op /\ On(op, s).rows = {s}
  BY OnInWork
<1>2. status[s] \in {"active", "disconnected", "resumable"} => funding[s] = "consumed"
  BY DEF RowInv, RowsOK, TypeOK
<1> QED
  BY <1>1, <1>2, NewRequest

LEMMA LifecycleReadKeeps ==
  ASSUME RowInv, NEW p \in Procs, NEW op \in Lifecycle, LifecycleRead(p, op)
  PROVE  Kept
<1> DEFINE rows == {s \in Sessions : IF op = "endEntitlement" THEN status[s] = "starting"
                                                               ELSE Live(s)}
           held == \E s \in rows : status[s] = "starting" /\ Held(s)
           w(saw) == [Idle EXCEPT !.op = op, !.rows = rows, !.saw = saw, !.held = held]
<1>1. PICK saw \in Statuses :
        /\ \A s \in rows : status[s] = saw
        /\ work' = [work EXCEPT ![p] = w(saw)]
  BY DEF LifecycleRead
<1>2. /\ w(saw) \in Work /\ w(saw).op = op /\ w(saw).rows = rows /\ w(saw).saw = saw
  BY IdleInWork DEF Idle, Work, Ops, Lifecycle
<1>3. \A s \in rows : status[s] \in LiveStatuses
  BY DEF Live, LiveStatuses
<1>4. saw # "starting" => \A s \in rows : funding[s] = "consumed"
  BY <1>1, <1>3 DEF RowInv, RowsOK, TypeOK, LiveStatuses
<1>5. UNCHANGED <<rowVars, fundVars, envVars>>
  BY DEF LifecycleRead
<1>6. \A s \in rows : status[s] # "none"
  BY <1>3 DEF LiveStatuses
<1> HIDE DEF w, rows
<1> QED
  BY <1>1, <1>2, <1>4, <1>5, <1>6, NewRequest DEF Lifecycle

LEMMA ReadKeeps ==
  ASSUME RowInv, NEW p \in Procs, Read(p)
  PROVE  Kept
<1>1. CASE \E k \in Keys, s \in Sessions : StartRead(p, k, s)
  BY <1>1, StartReadKeeps
<1>2. CASE \E op \in Lifecycle : LifecycleRead(p, op)
  BY <1>2, LifecycleReadKeeps
<1>3. ASSUME NEW s \in Sessions, ConfirmRead(p, s) PROVE Kept
  <2>1. PICK op \in {"relBatch", "confirm"} : work' = [work EXCEPT ![p] = On(op, s)]
    BY <1>3 DEF ConfirmRead
  <2> QED
    BY <1>3, <2>1, OnRead DEF ConfirmRead, Ops, Lifecycle
<1>4. ASSUME NEW s \in Sessions, CancelRead(p, s) PROVE Kept
  <2>1. [On("cancel", s) EXCEPT !.held = Held(s)] \in Work
    BY IdleInWork DEF On, Idle, Ops, Work, Held, FromBatch
  <2>2. /\ [On("cancel", s) EXCEPT !.held = Held(s)].op = "cancel"
        /\ [On("cancel", s) EXCEPT !.held = Held(s)].rows = {s}
    BY OnInWork DEF Ops, Work
  <2> QED
    BY <1>4, <2>1, <2>2, NewRequest DEF CancelRead, Lifecycle
<1>5. ASSUME NEW s \in Sessions, SweepStartsRead(p, s) PROVE Kept
  BY <1>5, OnRead DEF SweepStartsRead, Ops, Lifecycle
<1>6. ASSUME NEW s \in Sessions, DisconnectRead(p, s) PROVE Kept
  BY <1>6, OnRead DEF DisconnectRead, Ops, Lifecycle
<1>7. ASSUME NEW s \in Sessions, ResumeRead(p, s) PROVE Kept
  <2>1. PICK op \in {"interrupt", "resume"} : work' = [work EXCEPT ![p] = On(op, s)]
    BY <1>7 DEF ResumeRead
  <2>2. /\ op \in Ops \ ({"start"} \cup Lifecycle) /\ status[s] # "none"
        /\ status[s] \in {"active", "disconnected", "resumable"}
    BY <1>7, <2>1 DEF ResumeRead, Ops, Lifecycle
  <2>3. UNCHANGED <<rowVars, fundVars, envVars>>
    BY <1>7 DEF ResumeRead
  <2> QED
    BY <2>1, <2>2, <2>3, OnRead
<1>8. ASSUME NEW s \in Sessions, FinalizeRead(p, s) PROVE Kept
  BY <1>8, OnRead DEF FinalizeRead, Ops, Lifecycle
<1>9. ASSUME NEW s \in Sessions, MarkRead(p, s) PROVE Kept
  BY <1>9, OnRead DEF MarkRead, Ops, Lifecycle
<1>10. ASSUME NEW s \in Sessions, SweepSessionsRead(p, s) PROVE Kept
  BY <1>10, OnRead DEF SweepSessionsRead, Ops, Lifecycle
<1> QED
  BY <1>1, <1>2, <1>3, <1>4, <1>5, <1>6, <1>7, <1>8, <1>9, <1>10 DEF Read

-----------------------------------------------------------------------------
(* Commits. *)

\* Releasing the rows R leaves the counters of every batch in their ranges.
LEMMA ReleasedType ==
  ASSUME TypeOK, NEW R \in SUBSET Sessions, NEW held \in BOOLEAN, ~ReleaseRefused(R, held)
  PROVE  /\ Released(R, held) \in [Months -> Batch]
         /\ \A m \in Months :
              /\ Released(R, held)[m].made = batch[m].made
              /\ Released(R, held)[m].consumed = batch[m].consumed
              /\ Released(R, held)[m].reserved \in Nat
              /\ Released(R, held)[m].reserved <= batch[m].reserved
<1> SUFFICES ASSUME NEW m \in Months
             PROVE  /\ Released(R, held)[m] \in Batch
                    /\ Released(R, held)[m].made = batch[m].made
                    /\ Released(R, held)[m].consumed = batch[m].consumed
                    /\ Released(R, held)[m].reserved \in Nat
                    /\ Released(R, held)[m].reserved <= batch[m].reserved
  BY DEF Released
<1>1. batch[m] \in Batch
  BY DEF TypeOK
<1>2. Decrement(R, held, m) \in {0, 1} /\ Decrement(R, held, m) <= batch[m].reserved
  BY <1>1 DEF ReleaseRefused, Decrement, Batch
<1>3. Released(R, held)[m] = [batch[m] EXCEPT !.reserved = @ - Decrement(R, held, m)]
  BY DEF Released
<1> QED
  BY <1>1, <1>2, <1>3 DEF Batch

LEMMA ReleasedBounds ==
  ASSUME TypeOK, NEW R \in SUBSET Sessions, NEW held \in BOOLEAN, ~ReleaseRefused(R, held)
  PROVE  \A m \in Months : Released(R, held)[m].reserved + Released(R, held)[m].consumed
                             <= Granted
<1> DEFINE bt == Released(R, held)
<1>1. \A m \in Months : /\ bt[m].consumed = batch[m].consumed
                        /\ bt[m].reserved \in Nat /\ bt[m].reserved <= batch[m].reserved
  BY ReleasedType
<1> HIDE DEF bt
<1>2. \A m \in Months : bt[m].reserved + bt[m].consumed <= Granted
  BY <1>1, ConstantsAssumption DEF TypeOK, Batch
<1> QED
  BY <1>2 DEF bt

\* Cancelling rows takes the ones that are starting to an end of their own.
LEMMA CancelRows ==
  ASSUME RowInv, NEW R \in SUBSET Sessions
  PROVE  /\ Cancelled(status, R) \in [Sessions -> Statuses]
         /\ Unfunded(R) \in [Sessions -> {"none", "reserved", "consumed", "released"}]
         /\ PurgedGrants(R) \in [Sessions -> {"none", "provisional", "active", "revoked"}]
         /\ \A s \in Sessions :
              /\ \/ Cancelled(status, R)[s] = status[s] /\ Unfunded(R)[s] = funding[s]
                 \/ /\ status[s] = "starting" /\ funding[s] = "reserved" /\ s \in R
                    /\ Cancelled(status, R)[s] = "cancelled_before_launch"
                    /\ Unfunded(R)[s] = "released"
              /\ PurgedGrants(R)[s] \in {"none", grant[s]}
<1> USE DEF RowInv, TypeOK
<1>1. /\ Cancelled(status, R) \in [Sessions -> Statuses]
      /\ Unfunded(R) \in [Sessions -> {"none", "reserved", "consumed", "released"}]
      /\ PurgedGrants(R) \in [Sessions -> {"none", "provisional", "active", "revoked"}]
  BY DEF Cancelled, Unfunded, PurgedGrants, Statuses, TerminalStatuses
<1> QED
  BY <1>1 DEF Cancelled, Unfunded, PurgedGrants, RowsOK

\* Whatever else a commit does, the row invariants survive moves like these.
LEMMA CommitKeeps ==
  ASSUME RowInv, TypeOK', OneLive',
         NEW p \in Procs, NEW rest \in Work,
         work' = [work EXCEPT ![p] = rest],
         rest = Idle \/ (rest.rows = work[p].rows /\ work[p].op # "start"),
         rest.op \notin {"start", "disconnect", "resume", "interrupt"} \cup Lifecycle,
         \A s \in Sessions : RowMoves(s) /\ GrantMoves(s), Books
  PROVE  Kept
<1> USE DEF RowInv
<1>1. RowsOK'
  BY DEF RowMoves, RowsOK, TypeOK
<1>2. FullScopesArePaid'
  BY DEF RowMoves, GrantMoves, FullScopesArePaid, RowsOK
<1>3. WorkOK'
  <2>1. rest.rows \subseteq work[p].rows /\ work[p].rows \subseteq Sessions
    BY DEF Idle, TypeOK, Work
  <2>2. \A s \in Sessions : status[s] # "none" => status'[s] # "none"
    BY DEF RowMoves
  <2>3. \A s \in Sessions : funding[s] = "consumed" => funding'[s] = "consumed"
    BY DEF RowMoves, RowsOK
  <2>4. \A s \in Sessions : status[s] = "none" => status'[s] = "none"
    BY DEF RowMoves, RowsOK
  <2>5. \A s \in rest.rows : status'[s] # "none"
    BY <2>1, <2>2 DEF WorkOK, Idle
  <2> QED
    BY <2>1, <2>2, <2>3, <2>4, <2>5, OldRequest
<1> QED
  BY <1>1, <1>2, <1>3 DEF Kept

\* No second live row appears when only live rows stay live, or when the one that
\* comes alive is alone.
LEMMA NoNewLive ==
  ASSUME OneLive, \/ \A s \in Sessions : Live(s)' => Live(s)
                  \/ \E s \in Sessions : OnlyLive(s) /\ \A r \in Sessions \ {s} :
                                                          status'[r] = status[r]
  PROVE  OneLive'
BY DEF OneLive, OnlyLive, Live

\* The continuations of a request.
LEMMA GoOn ==
  ASSUME TypeOK, NEW p \in Procs, NEW op \in Ops, Go(p, op)
  PROVE  \E rest \in Work : /\ work' = [work EXCEPT ![p] = rest]
                            /\ rest.op = op /\ rest.rows = work[p].rows
<1>1. work[p] \in Work
  BY DEF TypeOK
<1>2. [work[p] EXCEPT !.op = op] \in Work
  BY <1>1 DEF Work
<1>3. work' = [work EXCEPT ![p] = [work[p] EXCEPT !.op = op]]
  BY DEF Go
<1> QED
  BY <1>1, <1>2, <1>3 DEF Work

LEMMA IdleOp == Idle.op = "idle" /\ Idle.rows = {}
BY DEF Idle

\* A commit that writes no row.
LEMMA RowsAlone ==
  ASSUME RowInv, TypeOK', UNCHANGED rowVars, NEW p \in Procs, Done(p),
         \A m \in Months : batch'[m].consumed = batch[m].consumed
  PROVE  Kept
<1>1. OneLive'
  BY DEF RowInv, OneLive, Live, rowVars
<1>2. Books /\ \A s \in Sessions : RowMoves(s) /\ GrantMoves(s)
  BY Unmoved DEF rowVars, GrantMoves
<1> QED
  BY <1>1, <1>2, CommitKeeps, IdleInWork, IdleOp DEF Done, Lifecycle

LEMMA DoneType ==
  ASSUME TypeOK, NEW p \in Procs, Done(p)
  PROVE  work' \in [Procs -> Work]
BY IdleInWork DEF TypeOK, Done

LEMMA StartCommitKeeps ==
  ASSUME RowInv, NEW p \in Procs, StartCommit(p)
  PROVE  Kept
<1> DEFINE w  == work[p]
           bt == Released(w.prior, w.held)
<1> USE DEF RowInv
<1>1. w \in Work /\ w.op = "start" /\ StartRowsOK(p)
  BY DEF StartCommit, Busy, TypeOK, WorkOK
<1>2. work' \in [Procs -> Work] /\ Done(p) /\ UNCHANGED envVars
  BY DoneType DEF StartCommit
<1>3. CASE ~StartAccepted(w, bt)
  <2>1. UNCHANGED <<rowVars, fundVars>>
    BY <1>3 DEF StartCommit
  <2>2. TypeOK'
    BY <1>2, <2>1 DEF TypeOK, rowVars, fundVars, envVars
  <2> QED
    BY <1>2, <2>1, <2>2, RowsAlone DEF fundVars
<1>4. CASE StartAccepted(w, bt)
  <2>1. PICK s \in w.rows :
          /\ status' = [Cancelled(status, w.prior) EXCEPT ![s] = "starting"]
          /\ funding' = [Unfunded(w.prior) EXCEPT ![s] = "reserved"]
          /\ terms' = [terms EXCEPT ![s] = w.terms]
          /\ grant' = PurgedGrants(w.prior)
          /\ request' = [k \in Keys |-> IF k \in w.key THEN {s} ELSE request[k]]
          /\ batch' = [m \in Months |->
               [made     |-> bt[m].made \/ m \in w.makes,
                reserved |-> bt[m].reserved +
                               (IF w.terms.source = "standard_monthly" /\ m = w.terms.month
                                THEN 1 ELSE 0),
                consumed |-> bt[m].consumed]]
          /\ slots' = IF w.terms.source = "normal"
                      THEN [slots EXCEPT ![w.terms.week] = w.terms.ordinal] ELSE slots
          /\ UNCHANGED <<passed, funded>>
    BY <1>4 DEF StartCommit
  <2>2. s \in Sessions /\ w.prior \in SUBSET Sessions /\ w.held \in BOOLEAN
        /\ w.terms \in Terms
    BY <1>1 DEF Work
  <2>3. /\ bt \in [Months -> Batch]
        /\ \A m \in Months : bt[m].consumed = batch[m].consumed
    BY <1>4, <2>2, ReleasedType DEF StartAccepted
  <2>4. \A m \in Months : bt[m].reserved + bt[m].consumed <= Granted
    BY <1>4, <2>2, ReleasedBounds DEF StartAccepted
  <2> HIDE DEF bt
  <2>5. batch' \in [Months -> Batch]
    BY <2>1, <2>3 DEF Batch
  <2>6. \A m \in Months : batch'[m].reserved + batch'[m].consumed <= Granted
    BY <1>4, <2>1, <2>3, <2>4, ConstantsAssumption DEF Batch, StartAccepted, CreditIsLeft
  <2>7. status[s] = "none" /\ funding[s] = "none"
    BY <1>1, <2>2 DEF StartRowsOK, RowsOK
  <2>8. /\ status'[s] = "starting" /\ funding'[s] = "reserved"
        /\ \A r \in Sessions \ {s} :
             /\ status'[r] = Cancelled(status, w.prior)[r]
             /\ funding'[r] = Unfunded(w.prior)[r]
        /\ status' \in [Sessions -> Statuses]
        /\ funding' \in [Sessions -> {"none", "reserved", "consumed", "released"}]
        /\ grant' \in [Sessions -> {"none", "provisional", "active", "revoked"}]
        /\ \A r \in Sessions : grant'[r] \in {"none", grant[r]}
    BY <2>1, <2>2, CancelRows DEF Statuses, LiveStatuses
  <2>9. TypeOK'
    <3>1. request' \in [Keys -> SUBSET Sessions]
      BY <2>1, <2>2 DEF TypeOK
    <3>2. slots' \in [Weeks -> Nat] /\ terms' \in [Sessions -> Terms]
      BY <2>1, <2>2 DEF TypeOK, Terms
    <3> QED
      BY <1>2, <2>1, <2>5, <2>6, <2>8, <3>1, <3>2 DEF TypeOK, envVars
  <2>10. \A r \in Sessions \ {s} :
           \/ status'[r] = status[r] /\ funding'[r] = funding[r]
           \/ /\ status[r] = "starting" /\ funding[r] = "reserved"
              /\ status'[r] = "cancelled_before_launch" /\ funding'[r] = "released"
    BY <2>2, <2>8, CancelRows
  <2>11. RowsOK'
    BY <2>8, <2>10 DEF RowsOK
  <2>12. OneLive'
    <3>1. \A r \in Sessions \ {s} : ~Live(r)'
      <4> SUFFICES ASSUME NEW r \in Sessions \ {s}, Live(r)' PROVE FALSE
        OBVIOUS
      <4>1. status'[r] = status[r]
        BY <2>10 DEF Live, LiveStatuses
      <4>2. Live(r) /\ r \in w.prior /\ status[r] = "starting"
        BY <1>4, <4>1 DEF Live, StartAccepted, LearnerIsFree
      <4>3. Cancelled(status, w.prior)[r] = "cancelled_before_launch"
        BY <4>2 DEF Cancelled
      <4> QED
        BY <2>8, <4>1, <4>2, <4>3
    <3> QED
      BY <3>1 DEF OneLive
  <2>13. FullScopesArePaid'
    BY <2>7, <2>8, <2>10 DEF FullScopesArePaid
  <2>14. WorkOK'
    <3>1. \A r \in Sessions : status[r] # "none" => status'[r] # "none"
      BY <2>8, <2>10
    <3>2. \A r \in Sessions : funding[r] = "consumed" => funding'[r] = "consumed"
      BY <2>7, <2>10
    <3>3. \A r \in Sessions : status[r] = "none" /\ r \notin w.rows => status'[r] = "none"
      BY <2>1, <2>10
    <3> QED
      BY <1>2, <2>9, <3>1, <3>2, <3>3, OldRequest, IdleInWork, IdleOp DEF Done, Lifecycle
  <2>15. \A r \in Sessions \ {s} : RowMoves(r)
    BY <2>1, <2>10 DEF RowMoves, TypeOK
  <2>16. terms'[s] = w.terms
    BY <2>1, <2>2 DEF TypeOK
  <2>17. ASSUME w.terms.source = "standard_monthly"
         PROVE  batch[w.terms.month].consumed < Granted
    <3>1. w.terms.month \in Months
      BY <2>2 DEF Terms
    <3>2. bt[w.terms.month].reserved + bt[w.terms.month].consumed < Granted
      BY <1>4, <2>17 DEF StartAccepted, CreditIsLeft
    <3> QED
      BY <2>3, <3>1, <3>2, ConstantsAssumption DEF Batch
  <2>18. Begins(s)
    BY <2>7, <2>8, <2>16, <2>17 DEF Begins
  <2>19. Books
    <3>1. \A r \in Sessions : funding'[r] = "consumed" => funding[r] = "consumed"
      BY <2>8, <2>10
    <3>2. \A m \in Months : batch'[m].consumed = batch[m].consumed
      BY <2>1, <2>3
    <3> QED
      BY <3>1, <3>2 DEF Books, NothingSpent
  <2> QED
    BY <2>9, <2>11, <2>12, <2>13, <2>14, <2>15, <2>18, <2>19 DEF Kept
<1> QED
  BY <1>3, <1>4

LEMMA ConfirmCommitKeeps ==
  ASSUME RowInv, NEW p \in Procs, ConfirmCommit(p)
  PROVE  Kept
<1> USE DEF RowInv
<1>1. /\ Done(p) /\ UNCHANGED envVars /\ work[p].op = "confirm"
      /\ work' \in [Procs -> Work] /\ work[p].rows \subseteq Sessions
  BY DoneType DEF ConfirmCommit, Busy, TypeOK, Work
<1>2. CASE UNCHANGED <<rowVars, fundVars>>
  <2>1. TypeOK'
    BY <1>1, <1>2 DEF TypeOK, rowVars, fundVars, envVars
  <2> QED
    BY <1>1, <1>2, <2>1, RowsAlone DEF fundVars
<1>3. ASSUME NEW s \in work[p].rows, NEW m, m = terms[s].month,
             status[s] = "starting", FromBatch(s) => batch[m].reserved > 0,
             status'  = [status EXCEPT ![s] = "active"],
             funding' = [funding EXCEPT ![s] = "consumed"],
             grant'   = [grant EXCEPT ![s] = IF @ = "provisional" THEN "active" ELSE @],
             IF FromBatch(s)
             THEN /\ batch'  = [batch EXCEPT ![m].reserved = @ - 1, ![m].consumed = @ + 1]
                  /\ funded' = [funded EXCEPT ![ChargedWeek(s)] = @ + 1]
             ELSE UNCHANGED <<batch, funded>>,
             UNCHANGED <<terms, passed, slots, request>>
      PROVE  Kept
  <2>1. s \in Sessions /\ m \in Months /\ batch[m] \in Batch
    BY <1>1, <1>3 DEF TypeOK, Terms
  <2>2. /\ batch' \in [Months -> Batch]
        /\ \A n \in Months : batch'[n].reserved + batch'[n].consumed <= Granted
        /\ \A n \in Months : batch'[n].consumed = IF FromBatch(s) /\ n = m
                                                   THEN batch[n].consumed + 1
                                                   ELSE batch[n].consumed
    <3>1. CASE FromBatch(s)
      <4> DEFINE b == [batch[m] EXCEPT !.reserved = @ - 1, !.consumed = @ + 1]
      <4>1. batch' = [batch EXCEPT ![m] = b]
        BY <1>3, <2>1, <3>1 DEF TypeOK, Batch
      <4>2. b \in Batch /\ b.reserved + b.consumed <= Granted
            /\ b.consumed = batch[m].consumed + 1
        BY <1>3, <2>1, <3>1, ConstantsAssumption DEF TypeOK, Batch
      <4> HIDE DEF b
      <4> QED
        BY <2>1, <3>1, <4>1, <4>2 DEF TypeOK
    <3>2. CASE ~FromBatch(s)
      BY <1>3, <3>2 DEF TypeOK
    <3> QED
      BY <3>1, <3>2
  <2>3. funded' \in [Weeks -> Nat]
    BY <1>3 DEF TypeOK, Terms, ChargedWeek
  <2>4. TypeOK'
    BY <1>1, <1>3, <2>1, <2>2, <2>3 DEF TypeOK, envVars, Statuses, LiveStatuses
  <2>5. OneLive'
    BY <1>3, <2>1, NoNewLive DEF Live, LiveStatuses, TypeOK
  <2>6. \A r \in Sessions : RowMoves(r) /\ GrantMoves(r)
    BY <1>3, <2>1 DEF RowMoves, GrantMoves, TypeOK
  <2>7. OneSpent(s)
    <3>1. funding[s] = "reserved"
      BY <1>3, <2>1 DEF RowsOK
    <3> QED
      BY <1>3, <2>1, <2>2, <3>1 DEF OneSpent, TypeOK
  <2>8. Books
    BY <2>1, <2>7 DEF Books
  <2> QED
    BY <1>1, <2>4, <2>5, <2>6, <2>8, CommitKeeps, IdleInWork, IdleOp DEF Done, Lifecycle
<1> QED
  BY <1>2, <1>3 DEF ConfirmCommit, Confirmable, Payable, Pay

LEMMA CancelCommitKeeps ==
  ASSUME RowInv, NEW p \in Procs, CancelCommit(p)
  PROVE  Kept
<1> DEFINE w == work[p]
<1> USE DEF RowInv
<1>1. /\ w.rows \in SUBSET Sessions /\ w.held \in BOOLEAN
      /\ Done(p) /\ work' \in [Procs -> Work] /\ UNCHANGED envVars
  BY DoneType DEF CancelCommit, TypeOK, Work
<1>2. CASE UNCHANGED <<rowVars, fundVars>>
  <2>1. TypeOK'
    BY <1>1, <1>2 DEF TypeOK, rowVars, fundVars, envVars
  <2> QED
    BY <1>1, <1>2, <2>1, RowsAlone DEF fundVars
<1>3. CASE /\ ~ReleaseRefused(w.rows, w.held)
           /\ batch'   = Released(w.rows, w.held)
           /\ status'  = Cancelled(status, w.rows)
           /\ funding' = Unfunded(w.rows)
           /\ grant'   = PurgedGrants(w.rows)
           /\ UNCHANGED <<terms, passed, funded, slots, request>>
  <2>1. TypeOK'
    <3>1. /\ batch' \in [Months -> Batch]
          /\ \A m \in Months : batch'[m].reserved + batch'[m].consumed <= Granted
      BY <1>1, <1>3, ReleasedType, ReleasedBounds
    <3>2. /\ status' \in [Sessions -> Statuses]
          /\ funding' \in [Sessions -> {"none", "reserved", "consumed", "released"}]
          /\ grant' \in [Sessions -> {"none", "provisional", "active", "revoked"}]
      BY <1>1, <1>3, CancelRows
    <3> QED
      BY <1>1, <1>3, <3>1, <3>2 DEF TypeOK, envVars
  <2>2. \A s \in Sessions : RowMoves(s) /\ GrantMoves(s)
    BY <1>1, <1>3, CancelRows DEF RowMoves, GrantMoves
  <2>4. Books
    <3>1. \A s \in Sessions : funding'[s] = "consumed" => funding[s] = "consumed"
      BY <1>1, <1>3, CancelRows
    <3>2. \A m \in Months : batch'[m].consumed = batch[m].consumed
      BY <1>1, <1>3, ReleasedType
    <3> QED
      BY <3>1, <3>2 DEF Books, NothingSpent
  <2>3. OneLive'
    <3>1. \A s \in Sessions : Live(s)' => Live(s)
      BY <1>1, <1>3, CancelRows DEF Live, LiveStatuses
    <3> QED
      BY <3>1, NoNewLive
  <2> QED
    BY <1>1, <2>1, <2>2, <2>3, <2>4, CommitKeeps, IdleInWork, IdleOp DEF Done, Lifecycle
<1> QED
  BY <1>2, <1>3 DEF CancelCommit

\* A step of a request that writes no row and goes on to op.
LEMMA GoOnKeeps ==
  ASSUME RowInv, TypeOK', UNCHANGED rowVars, NEW p \in Procs,
         NEW op \in {"relDecrement", "relRow"}, work[p].op # "start", Go(p, op),
         \A m \in Months : batch'[m].consumed = batch[m].consumed
  PROVE  Kept
<1>1. PICK rest \in Work : /\ work' = [work EXCEPT ![p] = rest]
                           /\ rest.op = op /\ rest.rows = work[p].rows
  BY GoOn DEF RowInv, Ops
<1>2. OneLive'
  BY DEF RowInv, OneLive, Live, rowVars
<1>3. Books /\ \A s \in Sessions : RowMoves(s) /\ GrantMoves(s)
  BY Unmoved DEF rowVars, GrantMoves
<1> QED
  BY <1>1, <1>2, <1>3, CommitKeeps DEF Lifecycle

LEMMA GoType ==
  ASSUME TypeOK, NEW p \in Procs, NEW op \in Ops, Go(p, op)
  PROVE  work' \in [Procs -> Work]
BY GoOn DEF TypeOK

LEMMA ReleaseReadBatchKeeps ==
  ASSUME RowInv, NEW p \in Procs, ReleaseReadBatch(p)
  PROVE  Kept
<1>1. PICK op \in {"relDecrement", "relRow"} : Go(p, op)
  BY DEF ReleaseReadBatch
<1>2. work' \in [Procs -> Work]
  BY <1>1, GoType DEF RowInv, Ops
<1>3. TypeOK'
  BY <1>2 DEF RowInv, TypeOK, ReleaseReadBatch, rowVars, fundVars, envVars
<1> QED
  BY <1>1, <1>3, GoOnKeeps DEF ReleaseReadBatch, Busy, fundVars

LEMMA ReleaseDecrementKeeps ==
  ASSUME RowInv, NEW p \in Procs, ReleaseDecrement(p)
  PROVE  Kept
<1> USE DEF RowInv
<1>1. work[p].rows \in SUBSET Sessions /\ work[p].op = "relDecrement"
  BY DEF TypeOK, Work, ReleaseDecrement, Busy
<1>2. UNCHANGED <<rowVars, funded, slots, request, envVars>>
  BY DEF ReleaseDecrement
<1>3. CASE Done(p) /\ UNCHANGED batch
  <2>1. TypeOK'
    BY <1>2, <1>3, DoneType DEF TypeOK, rowVars, envVars
  <2> QED
    BY <1>2, <1>3, <2>1, RowsAlone
<1>4. CASE /\ ~ReleaseRefused(work[p].rows, TRUE)
           /\ Go(p, "relRow") /\ batch' = Released(work[p].rows, TRUE)
  <2>1. work' \in [Procs -> Work]
    BY <1>4, GoType DEF Ops
  <2>2. TypeOK'
    BY <1>1, <1>2, <1>4, <2>1, ReleasedType, ReleasedBounds DEF TypeOK, rowVars, envVars
  <2> QED
    BY <1>1, <1>2, <1>4, <2>2, GoOnKeeps, ReleasedType
<1> QED
  BY <1>3, <1>4 DEF ReleaseDecrement

LEMMA ReleaseRowKeeps ==
  ASSUME RowInv, NEW p \in Procs, ReleaseRow(p)
  PROVE  Kept
<1> USE DEF RowInv
<1>1. /\ work[p].rows \in SUBSET Sessions /\ work[p].op = "relRow"
      /\ Go(p, "relPurge") /\ UNCHANGED <<terms, passed, grant, fundVars, envVars>>
      /\ status' = Cancelled(status, work[p].rows) /\ funding' = Unfunded(work[p].rows)
  BY DEF TypeOK, Work, ReleaseRow, Busy
<1>2. PICK rest \in Work : /\ work' = [work EXCEPT ![p] = rest]
                           /\ rest.op = "relPurge" /\ rest.rows = work[p].rows
  BY <1>1, GoOn DEF Ops
<1>3. TypeOK'
  BY <1>1, <1>2, CancelRows DEF TypeOK, fundVars, envVars
<1>4. \A s \in Sessions : RowMoves(s) /\ GrantMoves(s)
  BY <1>1, CancelRows DEF RowMoves, GrantMoves
<1>6. Books
  BY <1>1, CancelRows DEF Books, NothingSpent, fundVars
<1>5. OneLive'
  <2>1. \A s \in Sessions : Live(s)' => Live(s)
    BY <1>1, CancelRows DEF Live, LiveStatuses
  <2> QED
    BY <2>1, NoNewLive
<1> QED
  BY <1>1, <1>2, <1>3, <1>4, <1>5, <1>6, CommitKeeps DEF Lifecycle

LEMMA PurgeKeeps ==
  ASSUME RowInv, NEW p \in Procs, Purge(p)
  PROVE  Kept
<1> USE DEF RowInv
<1>1. /\ work[p].rows \in SUBSET Sessions /\ Done(p)
      /\ UNCHANGED <<status, funding, terms, passed, fundVars, envVars>>
      /\ grant' = PurgedGrants(work[p].rows)
  BY DEF TypeOK, Work, Purge
<1>2. TypeOK'
  BY <1>1, DoneType, CancelRows DEF TypeOK, fundVars, envVars
<1>3. Books /\ \A s \in Sessions : RowMoves(s) /\ GrantMoves(s)
  BY <1>1, CancelRows, Unmoved DEF GrantMoves, fundVars
<1>4. OneLive'
  BY <1>1 DEF OneLive, Live
<1> QED
  BY <1>1, <1>2, <1>3, <1>4, CommitKeeps, IdleInWork, IdleOp DEF Done, Lifecycle

\* The UPDATE by id of disconnect, resume and an overdue resume.
LEMMA SetStatusMoves ==
  ASSUME RowInv, NEW s \in Sessions,
         NEW new \in Statuses \ {"none", "starting", "cancelled_before_launch"},
         funding[s] = "consumed", SetStatus(s, new), new \in LiveStatuses => OnlyLive(s)
  PROVE  /\ OneLive' /\ (\A r \in Sessions : RowMoves(r) /\ GrantMoves(r)) /\ Books
         /\ status' \in [Sessions -> Statuses]
         /\ UNCHANGED <<funding, terms, grant, fundVars, envVars>>
<1>1. /\ status' = [status EXCEPT ![s] = new] /\ status' \in [Sessions -> Statuses]
      /\ UNCHANGED <<funding, terms, grant, fundVars, envVars>>
  BY DEF SetStatus, RowInv, TypeOK
<1>2. \A r \in Sessions \ {s} : status'[r] = status[r]
  BY <1>1 DEF RowInv, TypeOK
<1>3. status'[s] = new
  BY <1>1 DEF RowInv, TypeOK
<1>4. OneLive'
  <2>1. CASE new \in LiveStatuses
    BY <1>2, <2>1, NoNewLive DEF RowInv
  <2>2. CASE new \notin LiveStatuses
    <3>1. \A r \in Sessions : Live(r)' => Live(r)
      BY <1>2, <1>3, <2>2 DEF Live
    <3> QED
      BY <3>1, NoNewLive DEF RowInv
  <2> QED
    BY <2>1, <2>2
<1>5. \A r \in Sessions : RowMoves(r) /\ GrantMoves(r)
  BY <1>1, <1>2, <1>3 DEF RowMoves, GrantMoves
<1>6. Books
  BY <1>1 DEF Books, NothingSpent, fundVars
<1> QED
  BY <1>1, <1>4, <1>5, <1>6

LEMMA ReconnectKeeps ==
  ASSUME RowInv, NEW p \in Procs, DisconnectCommit(p) \/ ResumeCommit(p)
  PROVE  Kept
<1> USE DEF RowInv
<1>1. /\ Done(p) /\ work' \in [Procs -> Work] /\ work[p].rows \subseteq Sessions
      /\ work[p].op \in {"disconnect", "resume"}
  BY DoneType DEF DisconnectCommit, ResumeCommit, Busy, TypeOK, Work
<1>2. CASE UNCHANGED <<rowVars, fundVars, envVars>>
  <2>1. TypeOK'
    BY <1>1, <1>2 DEF TypeOK, rowVars, fundVars, envVars
  <2> QED
    BY <1>1, <1>2, <2>1, RowsAlone DEF fundVars
<1>3. ASSUME NEW s \in work[p].rows, NEW new \in {"active", "disconnected"},
             OnlyLive(s), SetStatus(s, new),
             passed' = [passed EXCEPT ![s] = @ \ {"window"}]
      PROVE  Kept
  <2>1. s \in Sessions /\ funding[s] = "consumed"
    BY <1>1 DEF WorkOK, LaunchedRows
  <2>2. new \in Statuses \ {"none", "starting", "cancelled_before_launch"}
    BY DEF Statuses, LiveStatuses
  <2>3. /\ OneLive' /\ (\A r \in Sessions : RowMoves(r) /\ GrantMoves(r)) /\ Books
        /\ status' \in [Sessions -> Statuses]
        /\ UNCHANGED <<funding, terms, grant, fundVars, envVars>>
    BY <1>3, <2>1, <2>2, SetStatusMoves
  <2>4. passed' \in [Sessions -> SUBSET Deadlines]
    BY <1>3, <2>1 DEF TypeOK
  <2>5. TypeOK'
    BY <1>1, <2>3, <2>4 DEF TypeOK, fundVars, envVars
  <2> QED
    BY <1>1, <2>3, <2>5, CommitKeeps, IdleInWork, IdleOp DEF Done, Lifecycle
<1> QED
  BY <1>2, <1>3 DEF DisconnectCommit, ResumeCommit

LEMMA InterruptRowKeeps ==
  ASSUME RowInv, NEW p \in Procs, InterruptRow(p)
  PROVE  Kept
<1> USE DEF RowInv
<1>1. /\ work[p].op = "interrupt" /\ work[p].rows \subseteq Sessions
      /\ Go(p, "interruptPurge") /\ UNCHANGED passed
  BY DEF InterruptRow, Busy, TypeOK, Work
<1>2. PICK s \in work[p].rows : SetStatus(s, "interrupted")
  BY DEF InterruptRow
<1>3. s \in Sessions /\ funding[s] = "consumed"
  BY <1>1 DEF WorkOK, LaunchedRows
<1>4. /\ OneLive' /\ (\A r \in Sessions : RowMoves(r) /\ GrantMoves(r)) /\ Books
      /\ status' \in [Sessions -> Statuses]
      /\ UNCHANGED <<funding, terms, grant, fundVars, envVars>>
  BY <1>2, <1>3, SetStatusMoves DEF Statuses, LiveStatuses, TerminalStatuses
<1>5. PICK rest \in Work : /\ work' = [work EXCEPT ![p] = rest]
                           /\ rest.op = "interruptPurge" /\ rest.rows = work[p].rows
  BY <1>1, GoOn DEF Ops
<1>6. TypeOK'
  BY <1>1, <1>4, <1>5 DEF TypeOK, fundVars, envVars
<1> QED
  BY <1>1, <1>4, <1>5, <1>6, CommitKeeps DEF Lifecycle

\* The guarded UPDATEs of the ends of a launched session.
LEMMA EndKeeps ==
  ASSUME RowInv, NEW p \in Procs,
         FinalizeCommit(p) \/ MarkCommit(p) \/ SweepSessionsCommit(p)
  PROVE  Kept
<1> USE DEF RowInv
<1>1. /\ Done(p) /\ work' \in [Procs -> Work] /\ work[p].rows \in SUBSET Sessions
      /\ UNCHANGED <<funding, terms, passed, fundVars, envVars>>
  BY DoneType DEF FinalizeCommit, MarkCommit, SweepSessionsCommit, TypeOK, Work
<1>2. PICK s \in work[p].rows, new \in {"completed", "resumable", "interrupted"},
           fromStatuses \in SUBSET {"active", "disconnected", "resumable"} :
        SetStatusIf(s, fromStatuses, new)
  BY DEF FinalizeCommit, MarkCommit, SweepSessionsCommit
<1>3. s \in Sessions
  BY <1>1
<1>4. /\ \A r \in Sessions \ {s} : status'[r] = status[r]
      /\ status'[s] = status[s] \/ (status[s] \in fromStatuses /\ status'[s] = new)
      /\ status' \in [Sessions -> Statuses]
  BY <1>2, <1>3 DEF SetStatusIf, TypeOK, Statuses, LiveStatuses, TerminalStatuses
<1>5. /\ grant' \in [Sessions -> {"none", "provisional", "active", "revoked"}]
      /\ \A r \in Sessions : grant'[r] \in {"none", "revoked", grant[r]}
  BY <1>1, CancelRows DEF FinalizeCommit, MarkCommit, SweepSessionsCommit, TypeOK
<1>6. TypeOK'
  BY <1>1, <1>4, <1>5 DEF TypeOK, fundVars, envVars
<1>7. \A r \in Sessions : RowMoves(r) /\ GrantMoves(r)
  BY <1>1, <1>4, <1>5
  DEF RowMoves, GrantMoves, RowsOK, TypeOK, Statuses, LiveStatuses, TerminalStatuses
<1>9. Books
  BY <1>1 DEF Books, NothingSpent, fundVars
<1>8. OneLive'
  <2>1. \A r \in Sessions : Live(r)' => Live(r)
    BY <1>4 DEF Live, LiveStatuses
  <2> QED
    BY <2>1, NoNewLive
<1> QED
  BY <1>1, <1>6, <1>7, <1>8, <1>9, CommitKeeps, IdleInWork, IdleOp DEF Done, Lifecycle

LEMMA LifecycleCommitKeeps ==
  ASSUME RowInv, NEW p \in Procs, LifecycleCommit(p)
  PROVE  Kept
<1> DEFINE w == work[p]
<1> USE DEF RowInv
<1>1. /\ w.rows \in SUBSET Sessions /\ w.held \in BOOLEAN /\ w.op \in Lifecycle
      /\ Done(p) /\ work' \in [Procs -> Work]
  BY DoneType DEF LifecycleCommit, TypeOK, Work
<1>2. CASE UNCHANGED <<rowVars, fundVars, envVars>>
  <2>1. TypeOK'
    BY <1>1, <1>2 DEF TypeOK, rowVars, fundVars, envVars
  <2> QED
    BY <1>1, <1>2, <2>1, RowsAlone DEF fundVars
<1>3. CASE ~ReleaseRefused(w.rows, w.held) /\ ~UNCHANGED <<rowVars, fundVars, envVars>>
  <2>1. /\ batch' = Released(w.rows, w.held) /\ grant' = PurgedGrants(w.rows)
        /\ UNCHANGED <<terms, passed, funded, slots, request, week, month>>
        /\ account' \in {"active", "deleted"} /\ entitled' \in BOOLEAN
    BY <1>3 DEF LifecycleCommit, TypeOK
  <2>2. /\ batch' \in [Months -> Batch]
        /\ \A m \in Months : batch'[m].reserved + batch'[m].consumed <= Granted
    BY <1>1, <1>3, <2>1, ReleasedType, ReleasedBounds
  <2>3. /\ status' \in [Sessions -> Statuses]
        /\ funding' \in [Sessions -> {"none", "reserved", "consumed", "released"}]
        /\ \A s \in Sessions :
             /\ RowMoves(s) /\ (Live(s)' => Live(s))
             /\ funding'[s] = "consumed" => funding[s] = "consumed"
    <3>1. CASE w.saw = "starting"
      <4>1. status' = Cancelled(status, w.rows) /\ funding' = Unfunded(w.rows)
        BY <1>3, <3>1 DEF LifecycleCommit
      <4> QED
        BY <1>1, <2>1, <4>1, CancelRows DEF RowMoves, Live, LiveStatuses
    <3>2. CASE w.saw # "starting"
      <4>1. /\ status' = [s \in Sessions |-> IF s \in w.rows THEN "revoked_by_admin"
                                                              ELSE status[s]]
            /\ UNCHANGED funding
        BY <1>3, <3>2 DEF LifecycleCommit
      <4>2. \A s \in w.rows : funding[s] = "consumed"
        BY <1>1, <3>2 DEF WorkOK, LaunchedRows
      <4> QED
        BY <1>1, <2>1, <4>1, <4>2
        DEF RowMoves, Live, LiveStatuses, TypeOK, Statuses, TerminalStatuses
    <3> QED
      BY <3>1, <3>2
  <2>4. /\ grant' \in [Sessions -> {"none", "provisional", "active", "revoked"}]
        /\ \A s \in Sessions : GrantMoves(s)
    BY <1>1, <2>1, CancelRows DEF GrantMoves
  <2>5. TypeOK'
    BY <1>1, <2>1, <2>2, <2>3, <2>4 DEF TypeOK
  <2>6. OneLive'
    BY <2>3, NoNewLive
  <2>7. Books
    BY <1>1, <1>3, <2>1, <2>3, ReleasedType DEF Books, NothingSpent
  <2> QED
    BY <1>1, <2>3, <2>4, <2>5, <2>6, <2>7, CommitKeeps, IdleInWork, IdleOp DEF Done, Lifecycle
<1> QED
  BY <1>2, <1>3 DEF LifecycleCommit

-----------------------------------------------------------------------------
(* The invariant of the rows. *)

LEMMA StepKeeps ==
  ASSUME RowInv, NEW p \in Procs, Step(p)
  PROVE  Kept
BY StartCommitKeeps, ConfirmCommitKeeps, CancelCommitKeeps, ReleaseReadBatchKeeps,
   ReleaseDecrementKeeps, ReleaseRowKeeps, PurgeKeeps, ReconnectKeeps, InterruptRowKeeps,
   EndKeeps, LifecycleCommitKeeps
DEF Step

LEMMA EnvironmentKeeps ==
  ASSUME RowInv, Environment
  PROVE  Kept
<1> USE DEF RowInv
<1>1. ASSUME NEW s \in Sessions, Exchange(s) PROVE RowInv'
  <2>1. /\ UNCHANGED <<status, funding, terms, passed, fundVars, envVars, work>>
        /\ grant' = [grant EXCEPT ![s] = "provisional"]
    BY <1>1 DEF Exchange
  <2>2. TypeOK'
    BY <2>1 DEF TypeOK, fundVars, envVars
  <2> QED
    BY <2>1, <2>2
    DEF RowsOK, WorkOK, StartRowsOK, LaunchedRows, OneLive, Live, FullScopesArePaid, TypeOK
<1>2. ASSUME NEW s \in Sessions, NEW d \in Deadlines, DeadlinePasses(s, d) PROVE RowInv'
  <2>1. /\ UNCHANGED <<status, funding, terms, grant, fundVars, envVars, work>>
        /\ passed' = [passed EXCEPT ![s] = @ \cup {d}]
    BY <1>2 DEF DeadlinePasses
  <2>2. TypeOK'
    BY <2>1 DEF TypeOK, fundVars, envVars
  <2> QED
    BY <2>1, <2>2
    DEF RowsOK, WorkOK, StartRowsOK, LaunchedRows, OneLive, Live, FullScopesArePaid
<1>3. ASSUME EnsureAllocation \/ NextWeek \/ NextMonth PROVE RowInv'
  <2>1. UNCHANGED <<rowVars, funded, slots, request, account, entitled, work>>
    BY <1>3 DEF EnsureAllocation, NextWeek, NextMonth, envVars, fundVars
  <2>2. CASE EnsureAllocation
    <3>1. batch' = [batch EXCEPT ![month].made = TRUE] /\ UNCHANGED <<week, month>>
      BY <2>2 DEF EnsureAllocation, envVars
    <3>2. /\ batch' \in [Months -> Batch]
          /\ \A m \in Months : batch'[m].reserved = batch[m].reserved
                               /\ batch'[m].consumed = batch[m].consumed
      BY <3>1 DEF TypeOK, Batch
    <3> QED
      BY <2>1, <3>1, <3>2 DEF TypeOK, RowsOK, WorkOK, StartRowsOK, LaunchedRows, OneLive,
                              Live, FullScopesArePaid, rowVars
  <2>3. CASE NextWeek \/ NextMonth
    <3>1. UNCHANGED batch
      BY <2>3 DEF NextWeek, NextMonth, fundVars
    <3>2. week' \in Weeks
      BY <2>3, ConstantsAssumption DEF NextWeek, NextMonth, TypeOK, Weeks
    <3>3. month' \in Months \ {0}
      BY <2>3, ConstantsAssumption DEF NextWeek, NextMonth, TypeOK, Months
    <3> QED
      BY <2>1, <3>1, <3>2, <3>3
      DEF TypeOK, RowsOK, WorkOK, StartRowsOK, LaunchedRows, OneLive, Live,
          FullScopesArePaid, rowVars
  <2> QED
    BY <1>3, <2>2, <2>3
<1>4. RowInv'
  BY <1>1, <1>2, <1>3 DEF Environment
<1>5. UNCHANGED <<status, funding, terms>>
  BY DEF Environment, Exchange, DeadlinePasses, EnsureAllocation, NextWeek, NextMonth, rowVars
<1>6. \A m \in Months : batch'[m].consumed = batch[m].consumed
  <2>1. CASE EnsureAllocation
    BY <2>1 DEF EnsureAllocation, TypeOK, Batch
  <2>2. CASE ~EnsureAllocation
    BY <2>2 DEF Environment, Exchange, DeadlinePasses, NextWeek, NextMonth, fundVars
  <2> QED
    BY <2>1, <2>2
<1> QED
  BY <1>4, <1>5, <1>6, Unmoved DEF Kept

LEMMA InitRows == Init => RowInv
<1> SUFFICES ASSUME Init PROVE RowInv
  OBVIOUS
<1>1. NoTerms \in Terms /\ Idle \in Work /\ Idle.op = "idle" /\ Idle.rows = {}
  BY IdleInWork, IdleOp DEF Idle, Work
<1>2. TypeOK
  <2>1. 1 \in Weeks /\ 1 \in Months \ {0}
    BY ConstantsAssumption DEF Weeks, Months
  <2>2. batch \in [Months -> Batch] /\ \A m \in Months : batch[m].reserved = 0
                                                         /\ batch[m].consumed = 0
    <3>1. NoBatch \in Batch /\ NoBatch.reserved = 0 /\ NoBatch.consumed = 0
      BY DEF NoBatch, Batch
    <3>2. \A b \in {NoBatch, [NoBatch EXCEPT !.made = TRUE]} :
            b \in Batch /\ b.reserved = 0 /\ b.consumed = 0
      BY <3>1 DEF Batch
    <3>3. batch \in [Months -> {NoBatch, [NoBatch EXCEPT !.made = TRUE]}]
      BY DEF Init
    <3> QED
      BY <3>2, <3>3
  <2>3. \A m \in Months : batch[m].reserved + batch[m].consumed <= Granted
    BY <2>2, ConstantsAssumption
  <2>4. /\ status \in [Sessions -> Statuses] /\ terms \in [Sessions -> Terms]
        /\ request \in [Keys -> SUBSET Sessions] /\ work \in [Procs -> Work]
        /\ funded \in [Weeks -> Nat] /\ slots \in [Weeks -> Nat]
        /\ passed \in [Sessions -> SUBSET Deadlines]
    BY <1>1 DEF Init, Statuses
  <2> QED
    BY <2>1, <2>2, <2>3, <2>4 DEF Init, TypeOK
<1> QED
  BY <1>1, <1>2 DEF Init, RowInv, RowsOK, WorkOK, OneLive, Live, LiveStatuses,
                    FullScopesArePaid, Lifecycle

LEMMA RowStep == RowInv /\ [Next]_vars => Kept
<1> SUFFICES ASSUME RowInv, [Next]_vars PROVE Kept
  OBVIOUS
<1>1. ASSUME NEW p \in Procs, Abandon(p) PROVE Kept
  <2>1. TypeOK'
    BY <1>1, DoneType DEF Abandon, RowInv, TypeOK, rowVars, fundVars, envVars
  <2> QED
    BY <1>1, <2>1, RowsAlone DEF Abandon, fundVars
<1>2. CASE UNCHANGED vars
  <2>1. RowInv'
    BY <1>2 DEF vars, rowVars, fundVars, envVars, RowInv, TypeOK, RowsOK, WorkOK,
                StartRowsOK, LaunchedRows, OneLive, Live, FullScopesArePaid
  <2> QED
    BY <1>2, <2>1, Unmoved DEF vars, rowVars, fundVars, Kept
<1> QED
  BY <1>1, <1>2, ReadKeeps, StepKeeps, EnvironmentKeeps DEF Next

LEMMA RowInvariant == Spec => []RowInv
<1>1. RowInv /\ [Next]_vars => RowInv'
  BY RowStep DEF Kept
<1> QED
  BY <1>1, InitRows, PTL DEF Spec

\* Every column holds a value of its type, and the counters of a batch stay within the
\* CHECKs of the schema, whatever requests interleave.
THEOREM TypeCorrect == Spec => []TypeOK
<1>1. RowInv => TypeOK
  BY DEF RowInv
<1> QED
  BY <1>1, RowInvariant, PTL

\* A session is paid for exactly when its launch was confirmed.
THEOREM PaidExactlyWhenLaunched == Spec => []PaidIffLaunched
<1>1. RowInv => PaidIffLaunched
  BY DEF RowInv, RowsOK, TypeOK, PaidIffLaunched
<1> QED
  BY <1>1, RowInvariant, PTL

\* The app gets the full scopes only for a session that was paid for.
THEOREM FullScopesOnlyWhenPaid == Spec => []FullScopesArePaid
<1>1. RowInv => FullScopesArePaid
  BY DEF RowInv
<1> QED
  BY <1>1, RowInvariant, PTL

\* A reservation is consumed or released, once and for good, and a session cancelled
\* before launch never comes back, however late a stale request commits.
THEOREM FundingNeverGoesBack == Spec => FundingIsOneWay
<1>1. ASSUME RowInv, [Next]_vars
      PROVE  \A s \in Sessions :
               /\ funding[s] \in {"consumed", "released"} => funding'[s] = funding[s]
               /\ funding'[s] = "none" => funding[s] = "none"
               /\ status[s] = "cancelled_before_launch" => status'[s] = status[s]
  BY <1>1, RowStep DEF Kept, RowMoves, Begins, RowInv, RowsOK
<1>2. RowInv /\ [Next]_vars =>
        [\A s \in Sessions :
           /\ funding[s] \in {"consumed", "released"} => funding'[s] = funding[s]
           /\ funding'[s] = "none" => funding[s] = "none"
           /\ status[s] = "cancelled_before_launch" => status'[s] = status[s]]_vars
  BY <1>1
<1> QED
  BY <1>2, RowInvariant, PTL DEF Spec, FundingIsOneWay

-----------------------------------------------------------------------------
(* The books: consumed_count counts the sessions paid for. *)

LEMMA SpentFinite ==
  ASSUME NEW m
  PROVE  /\ IsFiniteSet(Spent(m)) /\ Cardinality(Spent(m)) \in Nat
         /\ IsFiniteSet(Holding(m))
<1>1. Spent(m) \subseteq Sessions /\ Holding(m) \subseteq Sessions
  BY DEF Spent, Holding
<1> QED
  BY <1>1, ConstantsAssumption, FS_Subset, FS_CardinalityType

\* How the sessions a batch paid for change in a step.
LEMMA SpentMoves ==
  ASSUME RowInv, Kept, NEW m \in Months
  PROVE  /\ NothingSpent => Spent(m)' = Spent(m)
         /\ \A s \in Sessions : OneSpent(s) =>
              /\ s \notin Spent(m)
              /\ Spent(m)' = IF FromBatch(s) /\ m = terms[s].month
                             THEN Spent(m) \cup {s} ELSE Spent(m)
<1>1. \A r \in Sessions : funding[r] = "consumed" =>
        funding'[r] = "consumed" /\ terms'[r] = terms[r]
  BY DEF Kept, RowMoves, Begins, RowInv, RowsOK
<1>2. CASE NothingSpent
  BY <1>1, <1>2 DEF NothingSpent, Spent, FromBatch, OneSpent
<1>3. ASSUME NEW s \in Sessions, OneSpent(s)
      PROVE  /\ s \notin Spent(m) /\ ~NothingSpent
             /\ Spent(m)' = IF FromBatch(s) /\ m = terms[s].month
                            THEN Spent(m) \cup {s} ELSE Spent(m)
  <2>1. terms'[s] = terms[s]
    BY <1>3 DEF OneSpent, Kept, Begins, RowMoves
  <2> QED
    BY <1>1, <1>3, <2>1 DEF OneSpent, NothingSpent, Spent, FromBatch
<1> QED
  BY <1>2, <1>3

\* In a step that spends a credit no other row is starting, before or after.
LEMMA OneSpentAlone ==
  ASSUME RowInv, Kept, NEW s \in Sessions, OneSpent(s), NEW r \in Sessions \ {s}
  PROVE  status[r] # "starting" /\ status'[r] # "starting"
<1>1. status[s] = "starting" /\ status'[s] = "active"
  BY DEF OneSpent, Kept, RowMoves, Begins
<1> QED
  BY <1>1 DEF Kept, RowInv, OneLive, Live, LiveStatuses

LEMMA CreditStep ==
  ASSUME RowInv, CreditInv, Kept
  PROVE  CreditInv'
<1>1. ConsumedMatchesSessions'
  <2> SUFFICES ASSUME NEW m \in Months PROVE batch'[m].consumed = Cardinality(Spent(m)')
    BY DEF ConsumedMatchesSessions, Spent, FromBatch
  <2>1. batch[m].consumed = Cardinality(Spent(m))
    BY DEF CreditInv, ConsumedMatchesSessions
  <2>2. CASE NothingSpent
    BY <2>1, <2>2, SpentMoves DEF NothingSpent
  <2>3. ASSUME NEW s \in Sessions, OneSpent(s)
        PROVE  batch'[m].consumed = Cardinality(Spent(m)')
    <3>1. Cardinality(Spent(m) \cup {s}) = Cardinality(Spent(m)) + 1
      BY <2>3, SpentMoves, SpentFinite, FS_AddElement
    <3> QED
      BY <2>1, <2>3, <3>1, SpentMoves DEF OneSpent
  <2> QED
    BY <2>2, <2>3 DEF Kept, Books
<1>2. CreditLeft'
  <2> SUFFICES ASSUME NEW m \in Months, NEW s \in Sessions,
                      status'[s] = "starting", terms'[s].source = "standard_monthly",
                      terms'[s].month = m
               PROVE  Cardinality(Spent(m)') < Granted
    BY DEF CreditLeft, Holding, FromBatch
  <2>1. Spent(m)' = Spent(m)
    <3>1. \A r \in Sessions : ~OneSpent(r)
      <4> SUFFICES ASSUME NEW r \in Sessions, OneSpent(r) PROVE FALSE
        OBVIOUS
      <4>1. r = s
        BY OneSpentAlone
      <4> QED
        BY <4>1 DEF OneSpent, Kept, RowMoves, Begins
    <3> QED
      BY <3>1, SpentMoves DEF Kept, Books
  <2>2. CASE Begins(s)
    BY <2>1, <2>2 DEF Begins, CreditInv, ConsumedMatchesSessions
  <2>3. CASE RowMoves(s)
    <3>1. status[s] = "starting" /\ terms[s] = terms'[s]
      BY <2>3 DEF RowMoves
    <3>2. s \in Holding(m)
      BY <3>1 DEF Holding, FromBatch
    <3> QED
      BY <2>1, <3>2 DEF CreditInv, CreditLeft
  <2> QED
    BY <2>2, <2>3 DEF Kept
<1>3. BlankRows'
  BY DEF CreditInv, BlankRows, FromBatch, Kept, RowMoves, Begins, RowInv, RowsOK
<1> QED
  BY <1>1, <1>2, <1>3 DEF CreditInv

LEMMA InitCredits == Init => CreditInv
<1> SUFFICES ASSUME Init PROVE CreditInv
  OBVIOUS
<1>1. \A m \in Months : Spent(m) = {} /\ Holding(m) = {}
  BY DEF Init, Spent, Holding
<1>2. \A m \in Months : batch[m].consumed = 0
  <2>1. NoBatch.consumed = 0 /\ NoBatch \in Batch
    BY DEF NoBatch, Batch
  <2> QED
    BY <2>1 DEF Init, Batch
<1>3. BlankRows
  BY DEF Init, BlankRows, FromBatch, NoTerms
<1> QED
  BY <1>1, <1>2, <1>3, FS_EmptySet DEF CreditInv, ConsumedMatchesSessions, CreditLeft

LEMMA CreditInvariant == Spec => [](RowInv /\ CreditInv)
<1>1. Init => RowInv /\ CreditInv
  BY InitRows, InitCredits
<1>2. RowInv /\ CreditInv /\ [Next]_vars => (RowInv /\ CreditInv)'
  BY RowStep, CreditStep DEF Kept
<1> QED
  BY <1>1, <1>2, PTL DEF Spec

\* The consumed_count of a batch is the number of sessions it paid for, whatever
\* confirmations, releases, retries and crashes interleaved.
THEOREM BooksAreExact == Spec => []ConsumedMatchesSessions
<1>1. CreditInv => ConsumedMatchesSessions
  BY DEF CreditInv
<1> QED
  BY <1>1, CreditInvariant, PTL

\* Credits are never overdrawn: the sessions paid for and the one that may yet be fit
\* in the batch.
THEOREM CreditsNeverOverdrawn == Spec => []NeverOverdrawn
<1>1. ASSUME RowInv, CreditInv PROVE NeverOverdrawn
  <2> SUFFICES ASSUME NEW m \in Months
               PROVE  Cardinality(Spent(m)) + Cardinality(Holding(m)) <= Granted
    BY DEF NeverOverdrawn
  <2>1. Cardinality(Spent(m)) \in Nat /\ Granted \in Nat
    BY SpentFinite, ConstantsAssumption
  <2>2. CASE Holding(m) = {}
    <3>1. Cardinality(Spent(m)) <= Granted
      BY <1>1, <2>1 DEF CreditInv, ConsumedMatchesSessions, RowInv, TypeOK, Batch
    <3> QED
      BY <2>1, <2>2, <3>1, FS_EmptySet
  <2>3. CASE Holding(m) # {}
    <3>1. PICK s : s \in Holding(m)
      BY <2>3
    <3>2. Holding(m) = {s}
      BY <1>1, <3>1 DEF Holding, RowInv, OneLive, Live, LiveStatuses
    <3>3. Cardinality(Holding(m)) = 1
      BY <3>2, FS_Singleton
    <3>4. Cardinality(Spent(m)) < Granted
      BY <1>1, <3>1 DEF CreditInv, CreditLeft
    <3> QED
      BY <2>1, <3>3, <3>4
  <2> QED
    BY <2>2, <2>3
<1>2. RowInv /\ CreditInv => NeverOverdrawn
  BY <1>1
<1> QED
  BY <1>2, CreditInvariant, PTL

-----------------------------------------------------------------------------
(* The tables implement the ledger.  At most one row is starting, so a step gives *)
(* one credit back, spends one, or takes one in place of the one still held.       *)

LedgerCredit == [s \in Sessions |->
  IF ~FromBatch(s) THEN "none"
  ELSE CASE funding[s] = "none"     -> "none"
         [] funding[s] = "reserved" -> "held"
         [] funding[s] = "consumed" -> "spent"
         [] OTHER                   -> "returned"]
LedgerFrom == [s \in Sessions |-> IF FromBatch(s) THEN {terms[s].month} ELSE {}]

LEMMA SameCardinality ==
  ASSUME NEW S
  PROVE  Ledger!Cardinality(S) = Cardinality(S)
BY DEF Cardinality, Ledger!Cardinality

LEMMA LedgerInit == Init => Ledger!Init
BY DEF Init, Ledger!Init, FromBatch, NoTerms

LEMMA LedgerSpent ==
  ASSUME RowInv, NEW m \in Months
  PROVE  {s \in Sessions : LedgerCredit[s] = "spent" /\ LedgerFrom[s] = {m}} = Spent(m)
BY DEF LedgerCredit, LedgerFrom, Spent, RowInv, TypeOK

\* A row that does not begin keeps its batch, and its credit moves only as a ledger's may.
LEMMA CreditMoves ==
  ASSUME RowInv, Kept, NEW s \in Sessions, RowMoves(s)
  PROVE  /\ LedgerFrom'[s] = LedgerFrom[s]
         /\ \/ LedgerCredit'[s] = LedgerCredit[s]
            \/ /\ LedgerCredit[s] = "held" /\ LedgerCredit'[s] \in {"spent", "returned"}
               /\ status[s] = "starting"
<1>1. /\ terms'[s] = terms[s]
      /\ \/ funding[s] = funding'[s]
         \/ /\ funding[s] = "reserved" /\ status[s] = "starting"
            /\ funding'[s] \in {"released", "consumed"}
  BY DEF RowMoves, RowInv, RowsOK
<1>2. LedgerFrom'[s] = LedgerFrom[s]
  BY <1>1 DEF LedgerFrom, FromBatch
<1>3. CASE FromBatch(s)
  BY <1>1, <1>2, <1>3 DEF LedgerCredit, FromBatch
<1>4. CASE ~FromBatch(s)
  BY <1>1, <1>2, <1>4 DEF LedgerCredit, FromBatch
<1> QED
  BY <1>3, <1>4

LEMMA LedgerStep ==
  ASSUME RowInv, CreditInv, Kept
  PROVE  \/ \E s \in Sessions : \/ \E m \in Months : Ledger!Take(s, m)
                                \/ Ledger!Spend(s) \/ Ledger!Return(s)
         \/ UNCHANGED <<LedgerCredit, LedgerFrom>>
<1>1. CASE \A s \in Sessions : RowMoves(s)
  <2>1. LedgerFrom' = LedgerFrom
    BY <1>1, CreditMoves DEF LedgerFrom
  <2>2. CASE \A s \in Sessions : LedgerCredit'[s] = LedgerCredit[s]
    BY <2>1, <2>2 DEF LedgerCredit
  <2>3. ASSUME NEW s \in Sessions, LedgerCredit'[s] # LedgerCredit[s]
        PROVE  Ledger!Spend(s) \/ Ledger!Return(s)
    <3>1. /\ status[s] = "starting" /\ LedgerCredit[s] = "held"
          /\ LedgerCredit'[s] \in {"spent", "returned"}
      BY <1>1, <2>3, CreditMoves
    <3>2. \A r \in Sessions \ {s} : LedgerCredit'[r] = LedgerCredit[r]
      <4>1. \A r \in Sessions \ {s} : status[r] # "starting"
        BY <3>1 DEF RowInv, OneLive, Live, LiveStatuses
      <4> QED
        BY <1>1, <4>1, CreditMoves
    <3>3. LedgerCredit' = [LedgerCredit EXCEPT ![s] = LedgerCredit'[s]]
      BY <3>2 DEF LedgerCredit
    <3> QED
      BY <2>1, <3>1, <3>3 DEF Ledger!Spend, Ledger!Return, LedgerCredit, LedgerFrom
  <2> QED
    BY <2>1, <2>2, <2>3
<1>2. ASSUME NEW s \in Sessions, Begins(s), ~RowMoves(s)
      PROVE  \/ \E m \in Months : Ledger!Take(s, m)
             \/ \E r \in Sessions : Ledger!Return(r)
             \/ UNCHANGED <<LedgerCredit, LedgerFrom>>
  <2>1. /\ status[s] = "none" /\ funding[s] = "none" /\ status'[s] = "starting"
        /\ funding'[s] = "reserved" /\ ~FromBatch(s)
    BY <1>2 DEF Begins, CreditInv, BlankRows
  <2>2. \A r \in Sessions \ {s} : status'[r] \notin LiveStatuses
    BY <2>1 DEF Kept, RowInv, OneLive, Live, LiveStatuses
  <2>3. \A r \in Sessions \ {s} : RowMoves(r)
    BY <2>2 DEF Kept, Begins, LiveStatuses
  <2>4. \A r \in Sessions \ {s} :
          /\ LedgerFrom'[r] = LedgerFrom[r]
          /\ LedgerCredit'[r] = IF LedgerCredit[r] = "held" THEN "returned"
                                                            ELSE LedgerCredit[r]
    <3> SUFFICES ASSUME NEW r \in Sessions \ {s}
                 PROVE  /\ LedgerFrom'[r] = LedgerFrom[r]
                        /\ LedgerCredit'[r] = IF LedgerCredit[r] = "held" THEN "returned"
                                                                          ELSE LedgerCredit[r]
      OBVIOUS
    <3>1. funding'[r] = IF funding[r] = "reserved" THEN "released" ELSE funding[r]
      BY <2>2, <2>3 DEF RowMoves, RowInv, RowsOK, LiveStatuses
    <3>2. terms'[r] = terms[r]
      BY <2>3 DEF RowMoves
    <3> QED
      BY <3>1, <3>2 DEF LedgerCredit, LedgerFrom, FromBatch
  <2>5. LedgerCredit[s] = "none" /\ LedgerFrom[s] = {}
    BY <2>1 DEF LedgerCredit, LedgerFrom
  <2>6. CASE terms'[s].source = "standard_monthly"
    <3>1. PICK m \in Months : m = terms'[s].month
      BY DEF Kept, RowInv, TypeOK, Terms
    <3>2. Cardinality(Spent(m)) < Granted
      BY <1>2, <2>6, <3>1 DEF Begins, CreditInv, ConsumedMatchesSessions
    <3>3. LedgerCredit'[s] = "held" /\ LedgerFrom'[s] = {m}
      BY <2>1, <2>6, <3>1 DEF LedgerCredit, LedgerFrom, FromBatch
    <3>4. LedgerFrom' = [LedgerFrom EXCEPT ![s] = {m}]
      BY <2>4, <3>3 DEF LedgerFrom
    <3>5. LedgerCredit' = [r \in Sessions |->
            IF r = s THEN "held"
            ELSE IF LedgerCredit[r] = "held" THEN "returned" ELSE LedgerCredit[r]]
      BY <2>4, <3>3 DEF LedgerCredit
    <3>6. Cardinality({r \in Sessions : LedgerCredit[r] = "spent" /\ LedgerFrom[r] = {m}})
            < Granted
      BY <3>1, <3>2, LedgerSpent
    <3>7. Ledger!Take(s, m)
      BY <2>5, <3>4, <3>5, <3>6, SameCardinality
      DEF Ledger!Take, Ledger!SpentOf, LedgerCredit, LedgerFrom
    <3> QED
      BY <3>7
  <2>7. CASE terms'[s].source # "standard_monthly"
    <3>1. LedgerCredit'[s] = LedgerCredit[s] /\ LedgerFrom'[s] = LedgerFrom[s]
      BY <2>5, <2>7 DEF LedgerCredit, LedgerFrom, FromBatch
    <3>2. LedgerFrom' = LedgerFrom
      BY <2>4, <3>1 DEF LedgerFrom
    <3>3. CASE \A r \in Sessions : LedgerCredit[r] # "held"
      BY <2>4, <3>1, <3>2, <3>3 DEF LedgerCredit
    <3>4. ASSUME NEW r \in Sessions, LedgerCredit[r] = "held" PROVE Ledger!Return(r)
      <4>1. status[r] = "starting" /\ r # s
        BY <2>5, <3>4 DEF LedgerCredit, RowInv, RowsOK
      <4>2. \A q \in Sessions \ {r} : LedgerCredit[q] # "held"
        BY <4>1 DEF LedgerCredit, RowInv, RowsOK, OneLive, Live, LiveStatuses
      <4>3. LedgerCredit' = [LedgerCredit EXCEPT ![r] = "returned"]
        <5>1. LedgerCredit'[r] = "returned"
          BY <2>4, <3>4, <4>1
        <5>2. \A q \in Sessions \ {r} : LedgerCredit'[q] = LedgerCredit[q]
          BY <2>4, <3>1, <4>2
        <5> QED
          BY <5>1, <5>2 DEF LedgerCredit
      <4> QED
        BY <3>2, <3>4, <4>3 DEF Ledger!Return, LedgerCredit, LedgerFrom
    <3> QED
      BY <3>3, <3>4
  <2> QED
    BY <2>6, <2>7
<1> QED
  BY <1>1, <1>2 DEF Kept

\* The tables of the sessions and the credits implement the ledger: one credit at a
\* time, spent or returned once, and no batch ever pays for more than it was granted.
THEOREM SessionsImplementLedger == Spec => ImplementsLedger
<1>1. RowInv /\ CreditInv /\ [Next]_vars => [Ledger!Next]_(Ledger!ledger)
  BY RowStep, LedgerStep DEF Ledger!Next, Ledger!ledger, LedgerCredit, LedgerFrom
<1> QED
  BY <1>1, LedgerInit, CreditInvariant, PTL DEF Spec, ImplementsLedger, Ledger!Spec

-----------------------------------------------------------------------------
(* Keys, slots and weeks: what only a Start or a confirmation writes. *)

\* A step that neither begins a session nor pays for one.
Quiet ==
  /\ UNCHANGED <<request, slots, funded>>
  /\ \A s \in Sessions : /\ status'[s] = "starting" => status[s] = "starting"
                         /\ funding'[s] = "consumed" => funding[s] = "consumed"
  /\ \A q \in Procs : work'[q].op = "start" => work'[q] = work[q]
Quieter(p) ==
  \/ Read(p) /\ ~(\E k \in Keys, s \in Sessions : StartRead(p, k, s))
  \/ Step(p) /\ ~StartCommit(p) /\ ~ConfirmCommit(p)
  \/ Abandon(p)

LEMMA QuietWork ==
  ASSUME TypeOK, NEW p \in Procs, NEW w, w.op # "start", work' = [work EXCEPT ![p] = w]
  PROVE  \A q \in Procs : work'[q].op = "start" => work'[q] = work[q]
BY DEF TypeOK

LEMMA QuietRows ==
  ASSUME TypeOK, NEW R
  PROVE  \A s \in Sessions : /\ Cancelled(status, R)[s] = "starting" => status[s] = "starting"
                             /\ Unfunded(R)[s] = "consumed" => funding[s] = "consumed"
BY DEF TypeOK, Cancelled, Unfunded

LEMMA QuietReads ==
  ASSUME TypeOK, NEW p \in Procs, Read(p), ~(\E k \in Keys, s \in Sessions : StartRead(p, k, s))
  PROVE  Quiet
<1>1. UNCHANGED <<rowVars, fundVars>>
  BY DEF Read, ConfirmRead, CancelRead, SweepStartsRead, DisconnectRead, ResumeRead, FinalizeRead,
         MarkRead, SweepSessionsRead, LifecycleRead
<1>2. \E w : w.op # "start" /\ work' = [work EXCEPT ![p] = w]
  <2>1. ASSUME NEW s \in Sessions, NEW op \in Ops \ {"start"}
        PROVE  /\ On(op, s).op # "start"
               /\ [On(op, s) EXCEPT !.held = Held(s)].op # "start"
    BY DEF On, Idle
  <2>2. CASE \E s \in Sessions :
               \/ ConfirmRead(p, s) \/ CancelRead(p, s) \/ SweepStartsRead(p, s)
               \/ DisconnectRead(p, s) \/ ResumeRead(p, s) \/ FinalizeRead(p, s)
               \/ MarkRead(p, s) \/ SweepSessionsRead(p, s)
    BY <2>1, <2>2 DEF ConfirmRead, CancelRead, SweepStartsRead, DisconnectRead, ResumeRead,
       FinalizeRead, MarkRead, SweepSessionsRead, Ops
  <2>3. CASE \E op \in Lifecycle : LifecycleRead(p, op)
    BY <2>3 DEF LifecycleRead, Lifecycle, Idle
  <2> QED
    BY <2>2, <2>3 DEF Read
<1> QED
  BY <1>1, <1>2, QuietWork DEF Quiet, rowVars, fundVars

LEMMA QuietGo ==
  ASSUME TypeOK, NEW p \in Procs, Done(p) \/ \E op \in Ops \ {"start"} : Go(p, op)
  PROVE  \A q \in Procs : work'[q].op = "start" => work'[q] = work[q]
BY GoOn, QuietWork, IdleOp DEF Done

LEMMA QuietSteps ==
  ASSUME TypeOK, NEW p \in Procs, Step(p), ~StartCommit(p), ~ConfirmCommit(p)
  PROVE  Quiet
<1>1. CASE CancelCommit(p)
  BY <1>1, QuietGo, QuietRows DEF CancelCommit, Quiet, rowVars, fundVars
<1>2. CASE ReleaseReadBatch(p) \/ ReleaseDecrement(p) \/ ReleaseRow(p) \/ Purge(p)
  <2>1. Done(p) \/ \E op \in Ops \ {"start"} : Go(p, op)
    BY <1>2 DEF ReleaseReadBatch, ReleaseDecrement, ReleaseRow, Purge, Ops
  <2>2. UNCHANGED <<request, slots, funded>> /\
        \A s \in Sessions : /\ status'[s] = "starting" => status[s] = "starting"
                            /\ funding'[s] = "consumed" => funding[s] = "consumed"
    BY <1>2, QuietRows DEF ReleaseReadBatch, ReleaseDecrement, ReleaseRow, Purge, rowVars, fundVars
  <2> QED
    BY <2>1, <2>2, QuietGo DEF Quiet
<1>3. CASE DisconnectCommit(p) \/ ResumeCommit(p) \/ InterruptRow(p)
  <2>1. Done(p) \/ \E op \in Ops \ {"start"} : Go(p, op)
    BY <1>3 DEF DisconnectCommit, ResumeCommit, InterruptRow, Ops
  <2>2. UNCHANGED fundVars /\ UNCHANGED funding /\
        \A s \in Sessions : status'[s] = "starting" => status[s] = "starting"
    BY <1>3 DEF DisconnectCommit, ResumeCommit, InterruptRow, SetStatus, rowVars, TypeOK
  <2> QED
    BY <2>1, <2>2, QuietGo DEF Quiet, fundVars
<1>4. CASE FinalizeCommit(p) \/ MarkCommit(p) \/ SweepSessionsCommit(p)
  <2>1. UNCHANGED fundVars /\ UNCHANGED funding /\ Done(p) /\
        \A s \in Sessions : status'[s] = "starting" => status[s] = "starting"
    BY <1>4 DEF FinalizeCommit, MarkCommit, SweepSessionsCommit, SetStatusIf, TypeOK
  <2> QED
    BY <2>1, QuietGo DEF Quiet, fundVars
<1>5. CASE LifecycleCommit(p)
  <2>1. UNCHANGED <<request, slots, funded>> /\ Done(p)
    BY <1>5 DEF LifecycleCommit, fundVars
  <2>2. \A s \in Sessions : /\ status'[s] = "starting" => status[s] = "starting"
                            /\ funding'[s] = "consumed" => funding[s] = "consumed"
    BY <1>5, QuietRows DEF LifecycleCommit, rowVars, TypeOK
  <2> QED
    BY <2>1, <2>2, QuietGo DEF Quiet
<1> QED
  BY <1>1, <1>2, <1>3, <1>4, <1>5 DEF Step

LEMMA QuietElse ==
  ASSUME TypeOK, Environment \/ (\E p \in Procs : Abandon(p)) \/ UNCHANGED vars
  PROVE  Quiet
<1>1. CASE \E p \in Procs : Abandon(p)
  BY <1>1, QuietGo DEF Abandon, Quiet, rowVars, fundVars
<1>2. CASE Environment
  BY <1>2 DEF Environment, Exchange, DeadlinePasses, EnsureAllocation, NextWeek, NextMonth, Quiet, rowVars, fundVars
<1>3. CASE UNCHANGED vars
  BY <1>3 DEF vars, Quiet, rowVars, fundVars
<1> QED
  BY <1>1, <1>2, <1>3

\* A step is quiet, or it is a Start's or a confirmation's.
LEMMA Steps ==
  ASSUME TypeOK, [Next]_vars
  PROVE  \/ Quiet
         \/ \E p \in Procs : \/ \E k \in Keys, s \in Sessions : StartRead(p, k, s)
                             \/ StartCommit(p) \/ ConfirmCommit(p)
BY QuietReads, QuietSteps, QuietElse DEF Next

-----------------------------------------------------------------------------
Normals(w) == {s \in Sessions : status[s] # "none" /\ terms[s].source = "normal" /\ terms[s].week = w}

\* A key has the one session it created, and a session the one key that created it.
KeysOK ==
  /\ \A k \in Keys : request[k] = {} \/ \E s \in Sessions : request[k] = {s} /\ status[s] # "none"
  /\ \A s \in Sessions : status[s] # "none" => \E k \in Keys : s \in request[k]
  /\ \A k, l \in Keys : \A s \in request[k] \cap request[l] : k = l

\* The normal sessions of a week are numbered from 1 to the week's counter.
SlotsOK == \A w \in Weeks :
  /\ slots[w] = Cardinality(Normals(w))
  /\ \A s \in Normals(w) : terms[s].ordinal \in 1 .. slots[w]
  /\ \A n \in 1 .. slots[w] : \E s \in Normals(w) : terms[s].ordinal = n
  /\ ~Unlimited => slots[w] <= NormalLimit

\* A Start under way is of one key, for one row, whose number was the next when it was read.
NextSlot(t) ==
  t.source = "normal" =>
    t.ordinal \in 1 .. slots[t.week] + 1 /\ (~Unlimited => t.ordinal <= NormalLimit)
StartsOK == \A p \in Procs : work[p].op = "start" =>
  /\ \E k \in Keys : work[p].key = {k}
  /\ \E s \in Sessions : work[p].rows = {s}
  /\ NextSlot(work[p].terms)

StartInv == KeysOK /\ SlotsOK /\ StartsOK /\ WeekUsageMatchesSessions

LEMMA NormalsFinite ==
  ASSUME NEW w
  PROVE  /\ IsFiniteSet(Normals(w)) /\ Cardinality(Normals(w)) \in Nat
         /\ IsFiniteSet(SpentInWeek(w)) /\ Cardinality(SpentInWeek(w)) \in Nat
<1>1. Normals(w) \subseteq Sessions /\ SpentInWeek(w) \subseteq Sessions
  BY DEF Normals, SpentInWeek
<1> QED
  BY <1>1, ConstantsAssumption, FS_Subset, FS_CardinalityType

\* While no row begins, the sessions of a week stay the same; while none is paid for, those
\* it paid for.
LEMMA RowsStay ==
  ASSUME RowInv, Kept
  PROVE  /\ \A s \in Sessions : funding[s] = "consumed" =>
              funding'[s] = "consumed" /\ terms'[s] = terms[s]
         /\ (\A s \in Sessions : status'[s] = "starting" => status[s] = "starting") =>
              /\ \A s \in Sessions : (status'[s] # "none" <=> status[s] # "none") /\ terms'[s] = terms[s]
              /\ \A w : Normals(w)' = Normals(w)
         /\ (\A s \in Sessions : funding'[s] = "consumed" => funding[s] = "consumed") =>
              \A w : SpentInWeek(w)' = SpentInWeek(w)
<1>1. \A s \in Sessions : funding[s] = "consumed" =>
        funding'[s] = "consumed" /\ terms'[s] = terms[s]
  BY DEF Kept, RowMoves, Begins, RowInv, RowsOK
<1>2. ASSUME \A s \in Sessions : status'[s] = "starting" => status[s] = "starting"
      PROVE  \A s \in Sessions : (status'[s] # "none" <=> status[s] # "none") /\ terms'[s] = terms[s]
  BY <1>2 DEF Kept, RowMoves, Begins, RowInv, RowsOK
<1> QED
  BY <1>1, <1>2 DEF Normals, SpentInWeek, FromBatch

LEMMA QuietKeeps ==
  ASSUME RowInv, StartInv, Kept, Quiet
  PROVE  StartInv'
<1>1. /\ \A s \in Sessions : (status'[s] # "none" <=> status[s] # "none") /\ terms'[s] = terms[s]
      /\ \A w : Normals(w)' = Normals(w)
      /\ \A w : SpentInWeek(w)' = SpentInWeek(w)
  BY RowsStay DEF Quiet
<1>2. KeysOK'
  BY <1>1 DEF StartInv, KeysOK, Quiet
<1>3. SlotsOK'
  <2>1. \A w \in Weeks : \A s \in Normals(w) : s \in Sessions
    BY DEF Normals
  <2> QED  BY <1>1, <2>1 DEF StartInv, SlotsOK, Quiet
<1>4. StartsOK'
  BY DEF StartInv, StartsOK, NextSlot, Quiet
<1>5. WeekUsageMatchesSessions'
  BY <1>1 DEF StartInv, WeekUsageMatchesSessions, Quiet
<1> QED
  BY <1>2, <1>3, <1>4, <1>5 DEF StartInv

LEMMA StartReadStarts ==
  ASSUME RowInv, StartInv, NEW p \in Procs, NEW k \in Keys, NEW s \in Sessions, StartRead(p, k, s)
  PROVE  StartInv'
<1>1. UNCHANGED <<rowVars, fundVars>>
  BY DEF StartRead
<1>2. KeysOK' /\ SlotsOK' /\ WeekUsageMatchesSessions'
  <2>1. UNCHANGED <<status, funding, terms, request, slots, funded>>
    BY <1>1 DEF rowVars, fundVars
  <2>2. \A w : Normals(w)' = Normals(w) /\ SpentInWeek(w)' = SpentInWeek(w)
    BY <2>1 DEF Normals, SpentInWeek, FromBatch
  <2>3. KeysOK'
    BY <2>1 DEF StartInv, KeysOK
  <2>4. SlotsOK'
    BY <2>1, <2>2 DEF StartInv, SlotsOK
  <2>5. WeekUsageMatchesSessions'
    BY <2>1, <2>2 DEF StartInv, WeekUsageMatchesSessions
  <2> QED
    BY <2>3, <2>4, <2>5
<1>3. StartsOK'
  <2> DEFINE prior == {r \in Sessions : Live(r)}
             held  == \E r \in prior : Held(r)
             bt    == Released(prior, held)
             made  == {m \in {month} : Source[k] = "standard_monthly" /\ ~batch[m].made}
             new(t) == [op |-> "start", rows |-> {s}, prior |-> prior, key |-> {k}, held |-> held,
                        makes |-> made, saw |-> "none", terms |-> t]
  <2>1. PICK t \in StartTerms(k, bt) : work' = [work EXCEPT ![p] = new(t)]
    BY DEF StartRead
  <2>2. NextSlot(t)
    <3> HIDE DEF bt
    <3>1. week \in Weeks /\ slots[week] \in Nat
      BY DEF RowInv, TypeOK
    <3>2. CASE Source[k] = "standard_monthly"
      BY <3>2 DEF StartTerms, NextSlot
    <3>3. CASE Source[k] # "standard_monthly"
      BY <3>1, <3>3, ConstantsAssumption DEF StartTerms, NextSlot
    <3> QED  BY <3>2, <3>3
  <2>3. NextSlot(t)'
    BY <1>1, <2>2 DEF NextSlot, fundVars
  <2>4. new(t).key = {k} /\ new(t).rows = {s} /\ new(t).terms = t
    OBVIOUS
  <2> HIDE DEF new
  <2> QED  BY <1>1, <2>1, <2>3, <2>4 DEF StartInv, StartsOK, NextSlot, fundVars, RowInv, TypeOK
<1> QED
  BY <1>2, <1>3 DEF StartInv

LEMMA StartCommitStarts ==
  ASSUME RowInv, StartInv, Kept, NEW p \in Procs, StartCommit(p)
  PROVE  StartInv'
<1> DEFINE w  == work[p]
           bt == Released(w.prior, w.held)
<1>1. Done(p) /\ w.op = "start" /\ \A q \in Procs : work'[q].op = "start" => work'[q] = work[q] /\ q # p
  BY QuietGo, IdleOp DEF StartCommit, Busy, RowInv, Done, TypeOK
<1>2. CASE ~StartAccepted(w, bt)
  <2>1. UNCHANGED <<rowVars, fundVars>>
    BY <1>2 DEF StartCommit
  <2>2. Quiet
    BY <1>1, <2>1 DEF Quiet, rowVars, fundVars
  <2> QED
    BY <2>2, QuietKeeps
<1>3. CASE StartAccepted(w, bt)
  <2>1. PICK s \in Sessions : w.rows = {s}
    BY <1>1 DEF StartInv, StartsOK
  <2>2. PICK k \in Keys : w.key = {k}
    BY <1>1 DEF StartInv, StartsOK
  <2>3. w.terms \in Terms /\ NextSlot(w.terms)
    BY <1>1 DEF StartInv, StartsOK, RowInv, TypeOK, Work
  <2>4. /\ status' = [Cancelled(status, w.prior) EXCEPT ![s] = "starting"]
        /\ funding' = [Unfunded(w.prior) EXCEPT ![s] = "reserved"]
        /\ terms' = [terms EXCEPT ![s] = w.terms]
        /\ request' = [l \in Keys |-> IF l \in w.key THEN {s} ELSE request[l]]
        /\ slots' = IF w.terms.source = "normal"
                    THEN [slots EXCEPT ![w.terms.week] = w.terms.ordinal] ELSE slots
        /\ funded' = funded
    <3>1. \E r \in w.rows :
             /\ status' = [Cancelled(status, w.prior) EXCEPT ![r] = "starting"]
             /\ funding' = [Unfunded(w.prior) EXCEPT ![r] = "reserved"]
             /\ terms' = [terms EXCEPT ![r] = w.terms]
             /\ request' = [l \in Keys |-> IF l \in w.key THEN {r} ELSE request[l]]
             /\ slots' = IF w.terms.source = "normal"
                         THEN [slots EXCEPT ![w.terms.week] = w.terms.ordinal] ELSE slots
             /\ funded' = funded
      BY <1>3 DEF StartCommit
    <3> QED  BY <2>1, <3>1
  <2>5. status[s] = "none" /\ funding[s] = "none"
    BY <1>1, <2>1 DEF RowInv, WorkOK, StartRowsOK, RowsOK
  <2>6. request[k] = {}
    BY <1>3, <2>2 DEF StartAccepted, KeyIsNew
  <2>7. w.terms.source = "normal" => \A r \in Normals(w.terms.week) : terms[r].ordinal # w.terms.ordinal
    BY <1>3 DEF StartAccepted, SlotIsFree, Normals
  <2> HIDE DEF w, bt
  <2>8. /\ \A r \in Sessions : status'[r] # "none" <=> (status[r] # "none" \/ r = s)
        /\ \A r \in Sessions \ {s} : terms'[r] = terms[r]
        /\ terms'[s] = w.terms
    BY <2>4 DEF RowInv, TypeOK, Cancelled
  <2>9. \A v : SpentInWeek(v)' = SpentInWeek(v)
    <3>1. \A r \in Sessions : funding'[r] = "consumed" => funding[r] = "consumed"
      BY <2>4 DEF RowInv, TypeOK, Unfunded
    <3> QED  BY <3>1, RowsStay
  <2>10. WeekUsageMatchesSessions'
    BY <2>4, <2>9 DEF StartInv, WeekUsageMatchesSessions
  <2>11. KeysOK'
    <3>1. \A l \in Keys : request'[l] = IF l = k THEN {s} ELSE request[l]
      BY <2>2, <2>4
    <3>2. \A l \in Keys : s \notin request[l]
      BY <2>5 DEF StartInv, KeysOK
    <3>3. (\A l \in Keys : request[l] = {} \/ \E r \in Sessions : request[l] = {r} /\ status[r] # "none")'
      BY <2>8, <3>1 DEF StartInv, KeysOK
    <3>4. (\A r \in Sessions : status[r] # "none" => \E l \in Keys : r \in request[l])'
      BY <2>6, <2>8, <3>1 DEF StartInv, KeysOK
    <3>5. (\A l, m \in Keys : \A r \in request[l] \cap request[m] : l = m)'
      BY <3>1, <3>2 DEF StartInv, KeysOK
    <3> QED  BY <3>3, <3>4, <3>5 DEF KeysOK
  <2>12. CASE w.terms.source # "normal"
    <3>1. slots' = slots /\ \A v : Normals(v)' = Normals(v)
      BY <2>4, <2>5, <2>8, <2>12 DEF Normals
    <3>2. SlotsOK'
      <4>1. \A v \in Weeks : \A r \in Normals(v) : terms'[r] = terms[r]
        BY <2>5, <2>8 DEF Normals
      <4> QED  BY <3>1, <4>1 DEF StartInv, SlotsOK
    <3>3. StartsOK'
      BY <1>1, <3>1 DEF StartInv, StartsOK, NextSlot
    <3> QED  BY <2>10, <2>11, <3>2, <3>3 DEF StartInv
  <2>13. CASE w.terms.source = "normal"
    <3> DEFINE v == w.terms.week
               n == w.terms.ordinal
    <3>1. v \in Weeks /\ n \in Nat /\ \A u \in Weeks : slots[u] \in Nat
      BY <2>3 DEF Terms, RowInv, TypeOK
    <3>2. n = slots[v] + 1 /\ (~Unlimited => n <= NormalLimit)
      <4>1. n \in 1 .. slots[v] + 1 /\ (~Unlimited => n <= NormalLimit)
        BY <2>3, <2>13 DEF NextSlot
      <4>2. n \notin 1 .. slots[v]
        BY <2>7, <2>13, <3>1 DEF StartInv, SlotsOK
      <4> QED  BY <3>1, <4>1, <4>2
    <3>3. \A u \in Weeks : slots'[u] = IF u = v THEN n ELSE slots[u]
      BY <2>4, <2>13 DEF RowInv, TypeOK
    <3>4. \A u : Normals(u)' = IF u = v THEN Normals(u) \cup {s} ELSE Normals(u)
      BY <2>5, <2>8, <2>13 DEF Normals
    <3>5. s \notin Normals(v) /\ \A u : \A r \in Normals(u) : r # s /\ r \in Sessions
      BY <2>5 DEF Normals
    <3> HIDE DEF v, n
    <3>6. SlotsOK'
      <4> SUFFICES ASSUME NEW u \in Weeks
                   PROVE  /\ slots'[u] = Cardinality(Normals(u)')
                          /\ \A r \in Normals(u)' : terms'[r].ordinal \in 1 .. slots'[u]
                          /\ \A i \in 1 .. slots'[u] : \E r \in Normals(u)' : terms'[r].ordinal = i
                          /\ ~Unlimited => slots'[u] <= NormalLimit
        BY DEF SlotsOK
      <4>1. CASE u # v
        BY <2>8, <3>3, <3>4, <3>5, <4>1 DEF StartInv, SlotsOK
      <4>2. CASE u = v
        <5>1. slots'[u] = slots[u] + 1 /\ Normals(u)' = Normals(u) \cup {s} /\ terms'[s].ordinal = slots[u] + 1
          BY <2>8, <3>2, <3>3, <3>4, <4>2 DEF n
        <5>2. Cardinality(Normals(u)') = Cardinality(Normals(u)) + 1
          <6>1. PICK N : N = Normals(u) /\ IsFiniteSet(N) /\ s \notin N
            BY <3>5, <4>2, NormalsFinite
          <6>2. Cardinality(N \cup {s}) = Cardinality(N) + 1
            BY <6>1, FS_AddElement
          <6> QED  BY <5>1, <6>1, <6>2
        <5>3. \A r \in Normals(u) : terms'[r] = terms[r] /\ terms[r].ordinal \in 1 .. slots[u]
          BY <2>8, <3>5 DEF StartInv, SlotsOK
        <5>4. \A i \in 1 .. slots[u] : \E r \in Normals(u) : terms'[r].ordinal = i
          BY <5>3 DEF StartInv, SlotsOK
        <5>5. slots[u] \in Nat /\ slots[u] = Cardinality(Normals(u))
          BY <3>1 DEF StartInv, SlotsOK
        <5>6. \A r \in Normals(u)' : terms'[r].ordinal \in 1 .. slots'[u]
          BY <5>1, <5>3, <5>5
        <5>7. \A i \in 1 .. slots'[u] : i \in 1 .. slots[u] \/ i = slots[u] + 1
          BY <5>1, <5>5
        <5>8. \A i \in 1 .. slots'[u] : \E r \in Normals(u)' : terms'[r].ordinal = i
          BY <5>1, <5>4, <5>7
        <5>9. ~Unlimited => slots'[u] <= NormalLimit
          BY <3>2, <3>3, <4>2
        <5> QED  BY <5>1, <5>2, <5>5, <5>6, <5>8, <5>9
      <4> QED  BY <4>1, <4>2
    <3>7. StartsOK'
      <4> SUFFICES ASSUME NEW q \in Procs, work'[q].op = "start"
                   PROVE  /\ \E l \in Keys : work'[q].key = {l}
                          /\ \E r \in Sessions : work'[q].rows = {r}
                          /\ NextSlot(work[q].terms)'
        BY DEF StartsOK
      <4>1. work'[q] = work[q] /\ NextSlot(work[q].terms) /\ work[q].terms \in Terms
            /\ (\E l \in Keys : work[q].key = {l}) /\ \E r \in Sessions : work[q].rows = {r}
        BY <1>1 DEF StartInv, StartsOK, RowInv, TypeOK, Work
      <4>2. \A u \in Weeks : slots'[u] >= slots[u] /\ slots'[u] \in Nat
        BY <3>1, <3>2, <3>3
      <4>3. NextSlot(work[q].terms)'
        <5> DEFINE t == work[q].terms
        <5>1. t.week \in Weeks /\ t.ordinal \in Nat
          BY <4>1 DEF Terms
        <5>2. work'[q].terms = t
          BY <4>1
        <5> HIDE DEF t
        <5>3. NextSlot(t)
          BY <4>1 DEF t
        <5>4. t.source = "normal" => t.ordinal \in 1 .. slots'[t.week] + 1 /\ (~Unlimited => t.ordinal <= NormalLimit)
          BY <3>1, <4>2, <5>1, <5>3 DEF NextSlot
        <5> QED  BY <5>2, <5>4 DEF NextSlot, t
      <4> QED  BY <4>1, <4>3
    <3> QED  BY <2>10, <2>11, <3>6, <3>7 DEF StartInv
  <2> QED  BY <2>12, <2>13
<1> QED  BY <1>2, <1>3

LEMMA ConfirmCommitStarts ==
  ASSUME RowInv, StartInv, Kept, NEW p \in Procs, ConfirmCommit(p)
  PROVE  StartInv'
<1>1. /\ Done(p) /\ \A q \in Procs : work'[q].op = "start" => work'[q] = work[q]
  BY QuietGo DEF ConfirmCommit, RowInv
<1>2. PICK s \in Sessions :
        IF Confirmable(s) /\ Payable(s)
        THEN /\ status'  = [status EXCEPT ![s] = "active"]
             /\ funding' = [funding EXCEPT ![s] = "consumed"]
             /\ Pay(s)
             /\ UNCHANGED <<terms, slots, request>>
        ELSE UNCHANGED <<rowVars, fundVars>>
  BY DEF ConfirmCommit, RowInv, TypeOK, Work
<1>3. CASE ~(Confirmable(s) /\ Payable(s))
  <2>1. Quiet
    BY <1>1, <1>2, <1>3 DEF Quiet, rowVars, fundVars
  <2> QED  BY <2>1, QuietKeeps
<1>4. CASE Confirmable(s) /\ Payable(s)
  <2>1. /\ \A r \in Sessions : status'[r] = IF r = s THEN "active" ELSE status[r]
        /\ \A r \in Sessions : funding'[r] = IF r = s THEN "consumed" ELSE funding[r]
        /\ UNCHANGED <<terms, slots, request>>
        /\ status[s] = "starting" /\ funding[s] = "reserved"
    BY <1>2, <1>4 DEF Confirmable, RowInv, TypeOK, RowsOK
  <2>2. \A w : Normals(w)' = Normals(w)
    BY <2>1 DEF Normals
  <2>3. KeysOK' /\ StartsOK'
    BY <1>1, <2>1 DEF StartInv, KeysOK, StartsOK, NextSlot
  <2>4. SlotsOK'
    BY <2>1, <2>2 DEF StartInv, SlotsOK
  <2>5. WeekUsageMatchesSessions'
    <3> SUFFICES ASSUME NEW w \in Weeks PROVE funded'[w] = Cardinality(SpentInWeek(w)')
      BY DEF WeekUsageMatchesSessions
    <3>1. funded[w] = Cardinality(SpentInWeek(w)) /\ s \notin SpentInWeek(w)
      BY <2>1 DEF StartInv, WeekUsageMatchesSessions, SpentInWeek
    <3>2. CASE FromBatch(s) /\ terms[s].week = w
      <4>1. SpentInWeek(w)' = SpentInWeek(w) \cup {s}
        BY <2>1, <3>2 DEF SpentInWeek, FromBatch
      <4>2. Cardinality(SpentInWeek(w) \cup {s}) = Cardinality(SpentInWeek(w)) + 1
        BY <3>1, NormalsFinite, FS_AddElement
      <4>3. funded'[w] = funded[w] + 1
        BY <1>2, <1>4, <3>2 DEF Pay, ChargedWeek, RowInv, TypeOK
      <4> QED  BY <3>1, <4>1, <4>2, <4>3
    <3>3. CASE ~(FromBatch(s) /\ terms[s].week = w)
      <4>1. SpentInWeek(w)' = SpentInWeek(w)
        BY <2>1, <3>3 DEF SpentInWeek, FromBatch
      <4>2. funded'[w] = funded[w]
        BY <1>2, <1>4, <3>3 DEF Pay, ChargedWeek, RowInv, TypeOK
      <4> QED  BY <3>1, <4>1, <4>2
    <3> QED  BY <3>2, <3>3
  <2> QED  BY <2>3, <2>4, <2>5 DEF StartInv
<1> QED  BY <1>3, <1>4

LEMMA InitStarts == Init => StartInv
<1> SUFFICES ASSUME Init PROVE StartInv
  OBVIOUS
<1>1. /\ \A w \in Weeks : Normals(w) = {} /\ SpentInWeek(w) = {}
  BY DEF Init, Normals, SpentInWeek
<1>2. KeysOK /\ StartsOK
  BY IdleOp DEF Init, KeysOK, StartsOK
<1>3. SlotsOK /\ WeekUsageMatchesSessions
  <2>1. Cardinality({}) = 0 /\ NormalLimit \in Nat /\ \A w \in Weeks : slots[w] = 0 /\ funded[w] = 0
    BY FS_EmptySet, ConstantsAssumption DEF Init
  <2>3. \A w \in Weeks : Cardinality(Normals(w)) = 0 /\ Cardinality(SpentInWeek(w)) = 0
    BY <1>1, <2>1, Zenon
  <2>4. \A w \in Weeks : 1 .. slots[w] = {} /\ slots[w] <= NormalLimit
    BY <2>1
  <2>5. SlotsOK
    BY <1>1, <2>1, <2>3, <2>4 DEF SlotsOK
  <2>6. WeekUsageMatchesSessions
    BY <2>1, <2>3 DEF WeekUsageMatchesSessions
  <2> QED  BY <2>5, <2>6
<1> QED  BY <1>2, <1>3 DEF StartInv

LEMMA StartInvariant == Spec => [](RowInv /\ StartInv)
<1>1. Init => RowInv /\ StartInv
  BY InitRows, InitStarts
<1>2. RowInv /\ StartInv /\ [Next]_vars => (RowInv /\ StartInv)'
  BY RowStep, Steps, QuietKeeps, StartReadStarts, StartCommitStarts, ConfirmCommitStarts DEF Kept, RowInv
<1> QED
  BY <1>1, <1>2, PTL DEF Spec

\* A key creates at most one session and a session comes from one key, whatever Starts
\* are repeated or overlap (startLearnerSession; UNIQUE(parent_id, idempotency_key)).
THEOREM KeysStartOnce == Spec => []OneSessionPerKey
<1>1. ASSUME KeysOK PROVE OneSessionPerKey
  <2>1. ASSUME NEW k \in Keys PROVE Cardinality(request[k]) <= 1
    <3>1. request[k] = {} \/ \E s \in Sessions : request[k] = {s}
      BY <1>1 DEF KeysOK
    <3>2. Cardinality({}) = 0 /\ \A s : Cardinality({s}) = 1
      BY FS_EmptySet, FS_Singleton
    <3>3. Cardinality(request[k]) = 0 \/ Cardinality(request[k]) = 1
      BY <3>1, <3>2, Zenon
    <3> QED  BY <3>3
  <2>2. ASSUME NEW s \in Sessions, status[s] # "none"
        PROVE  Cardinality({k \in Keys : s \in request[k]}) = 1
    <3>1. PICK k \in Keys : s \in request[k]
      BY <1>1, <2>2 DEF KeysOK
    <3>2. {l \in Keys : s \in request[l]} = {k}
      BY <1>1, <3>1 DEF KeysOK
    <3> QED  BY <3>2, FS_Singleton
  <2> QED  BY <2>1, <2>2 DEF OneSessionPerKey
<1> QED
  BY <1>1, StartInvariant, PTL DEF StartInv

\* The absolute UPDATE of normal_sessions_started loses no slot: what a Start read may be
\* old, but the unique index on week and ordinal lets only the next number through.
THEOREM SlotsAreExact == Spec => []NormalSlotsExact
<1>1. SlotsOK => NormalSlotsExact
  BY DEF SlotsOK, NormalSlotsExact, Normals
<1> QED
  BY <1>1, StartInvariant, PTL DEF StartInv

\* The week's count of standard sessions is that of the sessions paid for that were started
\* in it, whenever they were confirmed.
THEOREM WeeksAreExact == Spec => []WeekUsageMatchesSessions
<1> QED
  BY StartInvariant, PTL DEF StartInv

-----------------------------------------------------------------------------
(* The ledger by itself: whatever implements it gives out no more credits than *)
(* there are.                                                                   *)
CONSTANT Batches
VARIABLES credit, from
Credits == INSTANCE FundingLedger

\* LedgerInv in the form a step preserves: while a credit is held, the batch it is from
\* has not yet paid for all the sessions it was granted.
CreditsIInv ==
  /\ credit \in [Sessions -> {"none", "held", "spent", "returned"}]
  /\ from \in [Sessions -> {{}} \cup {{m} : m \in Batches}]
  /\ \A r, s \in Credits!Held : r = s
  /\ \A m \in Batches : Cardinality(Credits!SpentOf(m)) <= Granted
  /\ \A s \in Credits!Held : \A m \in Batches : from[s] = {m} => Cardinality(Credits!SpentOf(m)) < Granted

LEMMA CreditsFiniteSets ==
  ASSUME NEW S
  PROVE  Credits!Cardinality(S) = Cardinality(S) /\ Credits!IsFiniteSet(S) = IsFiniteSet(S)
BY DEF Cardinality, Credits!Cardinality, IsFiniteSet, Credits!IsFiniteSet

LEMMA SpentOfFinite ==
  ASSUME Credits!LedgerAssumption, NEW m
  PROVE  IsFiniteSet(Credits!SpentOf(m)) /\ Cardinality(Credits!SpentOf(m)) \in Nat
<1>1. Credits!SpentOf(m) \subseteq Sessions
  BY DEF Credits!SpentOf
<1> QED
  BY <1>1, CreditsFiniteSets, FS_Subset, FS_CardinalityType DEF Credits!LedgerAssumption

LEMMA CreditTakeKeeps ==
  ASSUME CreditsIInv, NEW s \in Sessions, NEW b \in Batches, Credits!Take(s, b)
  PROVE  CreditsIInv'
<1>1. /\ credit' \in [Sessions -> {"none", "held", "spent", "returned"}]
      /\ from' \in [Sessions -> {{}} \cup {{m} : m \in Batches}]
  BY DEF CreditsIInv, Credits!Take
<1>2. Credits!Held' = {s}
  BY DEF Credits!Take, Credits!Held
<1>3. \A m \in Batches : Credits!SpentOf(m)' = Credits!SpentOf(m)
  BY DEF CreditsIInv, Credits!Take, Credits!SpentOf
<1>4. from'[s] = {b}
  BY DEF CreditsIInv, Credits!Take
<1>5. \A m \in Batches : {b} = {m} => Cardinality(Credits!SpentOf(m)) < Granted
  BY CreditsFiniteSets DEF Credits!Take
<1> QED
  BY <1>1, <1>2, <1>3, <1>4, <1>5 DEF CreditsIInv

LEMMA CreditSpendKeeps ==
  ASSUME Credits!LedgerAssumption, CreditsIInv, NEW s \in Sessions, Credits!Spend(s)
  PROVE  CreditsIInv'
<1>1. credit' \in [Sessions -> {"none", "held", "spent", "returned"}] /\ from' = from
  BY DEF CreditsIInv, Credits!Spend
<1>2. Credits!Held' = {}
  BY DEF CreditsIInv, Credits!Spend, Credits!Held
<1>3. ASSUME NEW m \in Batches PROVE Cardinality(Credits!SpentOf(m)') <= Granted
  <2>1. s \in Credits!Held /\ s \notin Credits!SpentOf(m)
    BY DEF Credits!Spend, Credits!Held, Credits!SpentOf
  <2>2. CASE from[s] = {m}
    <3>1. Credits!SpentOf(m)' = Credits!SpentOf(m) \cup {s}
      BY <1>1, <2>2 DEF CreditsIInv, Credits!Spend, Credits!SpentOf
    <3>2. Cardinality(Credits!SpentOf(m)') = Cardinality(Credits!SpentOf(m)) + 1
      BY <2>1, <3>1, SpentOfFinite, FS_AddElement
    <3>3. Cardinality(Credits!SpentOf(m)) < Granted
      BY <2>1, <2>2 DEF CreditsIInv
    <3> QED
      BY <3>2, <3>3, SpentOfFinite DEF Credits!LedgerAssumption
  <2>3. CASE from[s] # {m}
    <3>1. Credits!SpentOf(m)' = Credits!SpentOf(m)
      BY <1>1, <2>3 DEF CreditsIInv, Credits!Spend, Credits!SpentOf
    <3> QED
      BY <3>1 DEF CreditsIInv
  <2> QED
    BY <2>2, <2>3
<1>4. \A m \in Batches : Cardinality(Credits!SpentOf(m))' <= Granted
  BY <1>3
<1> QED
  BY <1>1, <1>2, <1>4 DEF CreditsIInv

LEMMA CreditReturnKeeps ==
  ASSUME CreditsIInv, NEW s \in Sessions, Credits!Return(s)
  PROVE  CreditsIInv'
<1>1. credit' \in [Sessions -> {"none", "held", "spent", "returned"}] /\ from' = from
  BY DEF CreditsIInv, Credits!Return
<1>2. Credits!Held' = {}
  BY DEF CreditsIInv, Credits!Return, Credits!Held
<1>3. \A m \in Batches : Credits!SpentOf(m)' = Credits!SpentOf(m)
  BY <1>1 DEF CreditsIInv, Credits!Return, Credits!SpentOf
<1> QED
  BY <1>1, <1>2, <1>3 DEF CreditsIInv

LEMMA LedgerIInv ==
  ASSUME Credits!LedgerAssumption
  PROVE  Credits!Spec => []CreditsIInv
<1>1. Credits!Init => CreditsIInv
  <2> SUFFICES ASSUME Credits!Init PROVE CreditsIInv
    OBVIOUS
  <2>1. Credits!Held = {} /\ \A m \in Batches : Credits!SpentOf(m) = {}
    BY DEF Credits!Init, Credits!Held, Credits!SpentOf
  <2> QED
    BY <2>1, FS_EmptySet DEF Credits!LedgerAssumption, Credits!Init, CreditsIInv
<1>2. CreditsIInv /\ [Credits!Next]_(Credits!ledger) => CreditsIInv'
  <2> SUFFICES ASSUME CreditsIInv, [Credits!Next]_(Credits!ledger) PROVE CreditsIInv'
    OBVIOUS
  <2>1. CASE UNCHANGED Credits!ledger
    BY <2>1 DEF Credits!ledger, CreditsIInv, Credits!Held, Credits!SpentOf
  <2> QED
    BY <2>1, CreditTakeKeeps, CreditSpendKeeps, CreditReturnKeeps DEF Credits!Next
<1> QED
  BY <1>1, <1>2, PTL DEF Credits!Spec

\* At most one credit is held, and a batch pays for no more sessions than it grants
\* even if the one held is spent.
THEOREM LedgerIsSafe ==
  ASSUME Credits!LedgerAssumption
  PROVE  Credits!Spec => []Credits!LedgerInv
<1>1. ASSUME CreditsIInv, NEW m \in Batches
      PROVE  Cardinality(Credits!SpentOf(m)) + Cardinality({s \in Credits!Held : from[s] = {m}}) <= Granted
  <2> DEFINE H == {s \in Credits!Held : from[s] = {m}}
  <2>1. CASE H = {}
    <3>1. Cardinality(Credits!SpentOf(m)) <= Granted
      BY <1>1 DEF CreditsIInv
    <3>2. Cardinality(H) = 0
      BY <2>1, FS_EmptySet
    <3> HIDE DEF H
    <3>3. Cardinality(Credits!SpentOf(m)) + Cardinality(H) <= Granted
      BY <3>1, <3>2, SpentOfFinite DEF Credits!LedgerAssumption
    <3> QED
      BY <3>3 DEF H
  <2>2. CASE H # {}
    <3>1. PICK s : s \in H
      BY <2>2
    <3>2. H = {s}
      BY <1>1, <3>1 DEF CreditsIInv
    <3>3. Cardinality(H) = 1
      BY <3>2, FS_Singleton
    <3>4. Cardinality(Credits!SpentOf(m)) < Granted
      BY <1>1, <3>1 DEF CreditsIInv
    <3> QED
      BY <3>3, <3>4, SpentOfFinite DEF Credits!LedgerAssumption
  <2> QED
    BY <2>1, <2>2
<1>2. CreditsIInv => Credits!LedgerInv
  BY <1>1, CreditsFiniteSets DEF CreditsIInv, Credits!LedgerInv
<1> QED
  BY <1>2, LedgerIInv, PTL
=============================================================================
