----------------------------- MODULE Consistency -----------------------------
(****************************************************************************)
(* The weekly consistency of one learner in one app: the two funded sessions *)
(* that complete a week, the queue that brings them to the projection, the   *)
(* weekly finalisation, and the reconciliation that rebuilds the streak.     *)
(*                                                                          *)
(* A transaction is one step. Between the commit of a session, its place in  *)
(* the queue and its processing the process may stop for any time.           *)
(****************************************************************************)
EXTENDS Integers

CONSTANT MaxWeek   \* bound on the weeks

VARIABLES
  week,      \* the week that has begun
  kind,      \* how the entitlement periods cover each week
  funded,    \* learner_app_week_usage: standard_sessions_funded, and its version
  receipt,   \* the usage version each session was queued with, 0 if it was not
  applied,   \* sessions whose receipt is completed
  rows,      \* learner_app_consistency_weeks.status
  state,     \* learner_app_consistency
  ordered,   \* weeks were handled in order, and after they ended (history)
  rebuilt    \* a reconciliation went over a week that is not fully covered (history)

vars == <<week, kind, funded, receipt, applied, rows, state, ordered, rebuilt>>

Weeks    == 1..MaxWeek
Sessions == Weeks \X {1, 2}
Kinds    == {"eligible", "ending", "partial_start", "out_of_scope"}
Final    == {"cadence_complete", "incomplete_reset", "neutral_partial", "out_of_scope",
             "platform_unavailable_neutral"}

\* hasCommercialGapAfter: some day between the two weeks has no entitlement period.
HasGap(from, to) == from # 0 /\ \E w \in from + 1..to - 1 : kind[w] # "eligible"

MaxOf(a, b) == IF a > b THEN a ELSE b

------------------------------------------------------------------------------
\* Every transaction maps a store, the rows with the state, to another.
Store == [rows |-> rows, state |-> state]

Ensured(st, w) == IF st.rows[w] = "none" THEN [st EXCEPT !.rows[w] = "open"] ELSE st

\* completeWeek: a week completes once; one the learner entered late stays neutral.
NeverCounted(st, w) == FALSE
IsCounted(st, w) == st.rows[w] = "cadence_complete"
ExtendedOnly(s, w) == [s EXCEPT !.streak = @ + 1, !.current = w, !.latest = w]
Extended(s, w) ==
  LET streak == IF HasGap(s.latest, w) THEN 1 ELSE s.streak + 1
  IN  [streak |-> streak, longest |-> MaxOf(s.longest, streak), current |-> w, latest |-> w]
Completed(st, w) ==
  CASE IsCounted(st, w) -> st
    [] ~IsCounted(st, w) /\ kind[w] \in {"partial_start", "out_of_scope"} ->
         [rows |-> [st.rows EXCEPT ![w] = "neutral_partial"], state |-> [st.state EXCEPT !.current = w]]
    [] OTHER ->
         [rows |-> [st.rows EXCEPT ![w] = "cadence_complete"], state |-> Extended(st.state, w)]

\* finalizeOne: what an open week ends as. evidence: the app was unavailable all week.
Ending(w, evidence) ==
  CASE kind[w] \in {"partial_start", "ending"} -> "neutral_partial"
    [] kind[w] = "out_of_scope" -> "out_of_scope"
    [] OTHER -> IF evidence THEN "platform_unavailable_neutral" ELSE "incomplete_reset"
IsClosed(st, w) == st.rows[w] \notin {"none", "open"}
Finalized(st, w, evidence) ==
  LET end == Ending(w, evidence)
  IN  CASE IsClosed(st, w) -> st
        [] ~IsClosed(st, w) /\ funded[w] = 2 -> Completed(Ensured(st, w), w)
        [] OTHER ->
             [rows  |-> [st.rows EXCEPT ![w] = end],
              state |-> IF end = "incomplete_reset" /\ st.state.current <= w
                          THEN [st.state EXCEPT !.streak = 0, !.current = w] ELSE st.state]

\* applyStandardSessionConsistency: the week the state is at is finalised before a later one.
Applied(st, w, evidence) ==
  LET before == IF st.state.current \in 1..w - 1 THEN Finalized(st, st.state.current, evidence) ELSE st
  IN  IF funded[w] = 2 THEN Completed(Ensured(before, w), w)
      ELSE [Ensured(before, w) EXCEPT !.state.current = w]

\* reconcilePairWeeks: weeks with a row or with usage, in order; those that have ended are finalised.
Reconciled(st, evidence) ==
  LET upTo[w \in 0..MaxWeek] ==
        IF w = 0 THEN st
        ELSE LET s == upTo[w - 1]
             IN  CASE s.rows[w] = "none" /\ funded[w] = 0 -> s
                   [] funded[w] = 2 -> Completed(Ensured(s, w), w)
                   [] OTHER -> IF w < week THEN Finalized(s, w, evidence) ELSE Ensured(s, w)
  IN  upTo[MaxWeek]

\* rebuildState: from the rows that are not open, in order; only an out_of_scope row is a gap.
NoStreak == [streak |-> 0, longest |-> 0, latest |-> 0, gap |-> FALSE]
Rebuilt(st) ==
  LET upTo[w \in 0..MaxWeek] ==
        IF w = 0 THEN NoStreak
        ELSE LET s == upTo[w - 1]
                 n == IF s.gap THEN 1 ELSE s.streak + 1
             IN  CASE st.rows[w] = "cadence_complete" ->
                        [streak |-> n, longest |-> MaxOf(s.longest, n), latest |-> w, gap |-> FALSE]
                   [] st.rows[w] = "incomplete_reset" -> [s EXCEPT !.streak = 0, !.gap = FALSE]
                   [] st.rows[w] = "out_of_scope" -> [s EXCEPT !.gap = TRUE]
                   [] OTHER -> s
      s == upTo[MaxWeek]
  IN  [rows |-> st.rows,
       state |-> [streak |-> s.streak, longest |-> s.longest, current |-> week, latest |-> s.latest]]

Becomes(st) == rows' = st.rows /\ state' = st.state

------------------------------------------------------------------------------
\* Weeks up to w that ended are closed, or will be by the transaction itself.
InOrder(w) == /\ w >= state.current
              /\ \A v \in 1..w - 1 : IsClosed(Store, v) \/ kind[v] = "out_of_scope" \/ v = state.current

NextWeek ==
  /\ week < MaxWeek
  /\ week' = week + 1
  /\ UNCHANGED <<kind, funded, receipt, applied, rows, state, ordered, rebuilt>>

\* The session gateway funds a session, of this week or one that was started before it began; then
\* enqueueStandardSessionConsistency queues it with the version it finds, if the process lives.
Fund(w, lives) ==
  LET n == funded[w] + 1
  IN  /\ w \in {week, week - 1} /\ kind[w] # "out_of_scope"
      /\ n <= 2
      /\ funded' = [funded EXCEPT ![w] = n]
      /\ receipt' = IF lives THEN [receipt EXCEPT ![<<w, n>>] = n] ELSE receipt
      /\ ordered' = (ordered /\ w = week)
      /\ UNCHANGED <<week, kind, applied, rows, state, rebuilt>>

\* processQueuedStandardSessionConsistency, and the internal route: the usage must still have the
\* version of the receipt, or of the request if nothing was queued.
Apply(s, evidence) ==
  LET w == s[1]
  IN  /\ s[2] <= funded[w]
      /\ s \notin applied
      /\ receipt[s] \in {0, funded[w]}
      /\ receipt' = [receipt EXCEPT ![s] = funded[w]]
      /\ applied' = applied \cup {s}
      /\ Becomes(Applied(Store, w, evidence))
      /\ ordered' = (ordered /\ InOrder(w))
      /\ UNCHANGED <<week, kind, funded, rebuilt>>

\* finalizeConsistencyWeek takes any week; its candidates have usage, a row or a period.
Finalize(w, evidence) ==
  /\ w <= week
  /\ funded[w] > 0 \/ rows[w] # "none" \/ kind[w] # "out_of_scope"
  /\ ~IsClosed(Store, w)
  /\ Becomes(Finalized(Store, w, evidence))
  /\ ordered' = (ordered /\ w < week /\ InOrder(w))
  /\ UNCHANGED <<week, kind, funded, receipt, applied, rebuilt>>

\* reconcileConsistency
Reconcile(evidence) ==
  /\ Becomes(Rebuilt(Reconciled(Store, evidence)))
  /\ ordered' = (ordered /\ \A w \in 1..week - 1 : IsClosed(Store, w) \/ kind[w] = "out_of_scope")
  /\ rebuilt' = (rebuilt \/ \E w \in 1..week : kind[w] # "eligible")
  /\ UNCHANGED <<week, kind, funded, receipt, applied>>

Init ==
  /\ week = 1
  /\ kind \in [Weeks -> Kinds]
  /\ funded = [w \in Weeks |-> 0]
  /\ receipt = [s \in Sessions |-> 0]
  /\ applied = {}
  /\ rows = [w \in Weeks |-> "none"]
  /\ state = [streak |-> 0, longest |-> 0, current |-> 0, latest |-> 0]
  /\ ordered = TRUE /\ rebuilt = FALSE

Next ==
  \/ NextWeek
  \/ \E w \in Weeks, lives \in BOOLEAN : Fund(w, lives)
  \/ \E evidence \in BOOLEAN :
       \/ \E s \in Sessions : Apply(s, evidence)
       \/ \E w \in Weeks : Finalize(w, evidence)
       \/ Reconcile(evidence)

Spec == Init /\ [][Next]_vars

------------------------------------------------------------------------------
TypeOK ==
  /\ week \in Weeks /\ kind \in [Weeks -> Kinds] /\ funded \in [Weeks -> 0..2]
  /\ receipt \in [Sessions -> 0..2] /\ applied \subseteq Sessions
  /\ rows \in [Weeks -> {"none", "open"} \cup Final]
  /\ state.streak \in 0..MaxWeek /\ state.longest \in state.streak..MaxWeek
  /\ state.current \in 0..MaxWeek /\ state.latest \in 0..MaxWeek
  /\ {ordered, rebuilt} \subseteq BOOLEAN

\* The streak counted from the weeks themselves: a completed week extends it, an eligible week that
\* was not completed ends it, and a commercial gap restarts it.
Recount ==
  LET upTo[w \in 0..MaxWeek] ==
        IF w = 0 THEN NoStreak
        ELSE LET s == upTo[w - 1]
                 gap == s.latest # 0 /\ \E v \in s.latest + 1..w - 1 : kind[v] # "eligible"
                 n == IF gap THEN 1 ELSE s.streak + 1
             IN  CASE rows[w] = "cadence_complete" ->
                        [s EXCEPT !.streak = n, !.longest = MaxOf(s.longest, n), !.latest = w]
                   [] rows[w] = "incomplete_reset" -> [s EXCEPT !.streak = 0]
                   [] OTHER -> s
  IN  upTo[MaxWeek]
IsRecount == state.streak = Recount.streak /\ state.longest = Recount.longest

\* As long as weeks are handled in order, the streak and the longest streak are those of the weeks,
\* however the queue, the finalisation and reconciliations share the work, repeat it or leave it to
\* each other (completeWeek, finalizeOne, applyStandardSessionConsistency).
StreakIsTheRecount == ordered /\ ~rebuilt => IsRecount

\* README.md on EG-002: commercial gaps restart the current streak. No exception is made for a
\* streak that reconcileConsistency has rebuilt.
GapsRestartTheStreak == ordered => IsRecount
==============================================================================
