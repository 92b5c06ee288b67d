------------------------- MODULE EntitlementProofs -------------------------
(****************************************************************************)
(* What the ledger of lifecycle events, the paid cycles and the assignment of *)
(* subscriptions promise for any numbers of events, cycles, learners and      *)
(* processes: each keeps an inductive invariant in its own steps, and a step   *)
(* of MCEntitlement is one of a single part.                                   *)
(****************************************************************************)
EXTENDS MCEntitlement, FiniteSetTheorems, SequenceTheorems, WellFoundedInduction, TLAPS

-----------------------------------------------------------------------------
(* The ledger of lifecycle events (Entitlement).                              *)

Recorded == {e \in Events : ledger[e] # NoEvent}
Settled(e) == Contains(log, e) \/ e \in missed

\* Whom each request serves: an event that arrives, events that are recorded and have to be
\* applied, one of them that is taken, a notice that is applied, or a refund case.
Received(w) ==
  \E e \in Events :
    /\ w.id = {e} /\ w.rest = {}
    /\ \/ e \in Reports /\ w.from = "report" /\ w.kind \in Reported
       \/ e \in Notices /\ w.from = "provider" /\ w.kind \in Disputes /\ case[e].kind = w.kind
Applying(w) ==
  /\ w.rest \subseteq Recorded \ RefundCases
  /\ \A e \in w.rest : ledger[e].status \in {"pending", "applied"}
  /\ w.from # "none" /\ (w.from = "provider" => w.rest \subseteq Notices)
Taken(w)     == Applying(w) /\ \E e \in w.rest : w.id = {e}
Told(w)      == \E e \in Notices : w.id = {e} /\ ledger[e].status = "applied"
Refunding(w) == \E e \in RefundCases : w.id = {e} /\ w.rest = {} /\ w.kind \in Refunds /\ case[e].kind = w.kind

Arriving == {"version", "decide", "quarantine", "record"}
Serves(w) ==
  /\ w.op = "idle" => w = Idle
  /\ w.op \in Arriving => Received(w)
  /\ w.op = "effect" => Applying(w)
  /\ w.op \in {"write", "finish"} => Taken(w)
  /\ w.op = "write" => w.row.state # "none"
  /\ w.op = "finish" => \A e \in w.id : Settled(e)
  /\ w.op = "settle" => Told(w)
  /\ w.op \in {"refund", "confirm"} => Refunding(w)
  /\ w.op = "confirm" => w.row.state # "none" \/ w.row = NoRow
  /\ w.op = "rebuild" => w.row.state \in {"active", "inactive"}

\* What the stored notices and refund cases, and the entries of the ledger, are about.
CasesAreTheirs ==
  /\ \A e \in Reports : case[e] = NoCase
  /\ \A e \in Notices : case[e] = NoCase \/ (case[e].kind \in Disputes /\ case[e].status \in {"received", "processed", "lapsed"})
  /\ \A e \in RefundCases : case[e] = NoCase \/ (case[e].kind \in Refunds /\ case[e].status \in {"unconfirmed", "confirmed"})
LedgerIsTheirs ==
  /\ \A e \in Events : ledger[e].status = "none" <=> ledger[e] = NoEvent
  /\ \A e \in Reports : ledger[e] # NoEvent => ledger[e].kind \in Reported
  /\ \A e \in Notices : ledger[e] # NoEvent => ledger[e].kind \in Disputes /\ ledger[e].kind = case[e].kind
  /\ \A e \in RefundCases : /\ ledger[e] # NoEvent => ledger[e].status = "applied" /\ ledger[e].kind = case[e].kind
                            /\ ledger[e] # NoEvent => ledger[e].version = RefundVersion
                            /\ ledger[e] # NoEvent <=> case[e].status = "confirmed"
LogIsRecorded == \A i \in DOMAIN log : log[i] \in Recorded

Entries == [status : {"none", "pending", "applied", "quarantined"}, kind : Kinds \cup {"none"}, version : Versions]
CaseRows == [kind : Kinds \cup {"none"},
             status : {"none", "received", "processed", "lapsed", "unconfirmed", "confirmed"}]
Shapes ==
  /\ row \in Rows /\ (row.state = "none" => row = NoRow)
  /\ ledger \in [Events -> Entries] /\ case \in [Events -> CaseRows]
  /\ log \in Seq(Events) /\ missed \subseteq Events
  /\ work \in [Procs -> Work] /\ calm \in BOOLEAN
Bounded == \E b \in Nat : \A e \in Events : ledger[e].version <= b
Served == \A p \in Procs : Serves(work[p])

IInv == Shapes /\ Bounded /\ Served /\ CasesAreTheirs /\ LedgerIsTheirs /\ LogIsRecorded /\ EffectsHappenOnce

-----------------------------------------------------------------------------
(* Kinds, the newest version, and sequences. *)

LEMMA KindsApart ==
  /\ Disputes \cap Refunds = {} /\ Reported \cap (Disputes \cup Refunds) = {}
  /\ Disputes \subseteq Kinds /\ Refunds \subseteq Kinds /\ Reported \subseteq Kinds /\ "none" \notin Kinds
BY DEF Disputes, Refunds, Reported, Kinds, Decision, AuditOnly

LEMMA StateAfterIsState ==
  ASSUME NEW kind \in Kinds, NEW state \in States
  PROVE  StateAfter(kind, state) \in States
<1>1. CASE kind \in DOMAIN Decision
  BY <1>1 DEF StateAfter, States
<1>2. CASE kind \notin DOMAIN Decision
  BY <1>2 DEF StateAfter
<1> QED  BY <1>1, <1>2

LEMMA SomeStates == {"active", "inactive"} \subseteq States /\ "none" \notin States
BY DEF States, Decision

LEMMA IdleIsWork == Idle \in Work /\ Idle.op = "idle" /\ Idle.from = "none" /\ Idle.id = {} /\ Idle.rest = {}
                    /\ Idle.kind = "none" /\ Idle.version = 0 /\ Idle.row = NoRow /\ NoRow \in Rows
<1>1. NoRow \in Rows
  BY DEF NoRow, Rows, Versions
<1> QED  BY <1>1 DEF Idle, Work, Versions, Kinds

LEMMA IdOfSingle ==
  ASSUME NEW p \in Procs, NEW e \in Events, work[p].id = {e}
  PROVE  IdOf(p) = e
BY DEF IdOf

\* The newest version of a set of events is that of one of them, or 0.
LEMMA MaxIsLargest ==
  ASSUME NEW S \in SUBSET Nat, 0 \in S, NEW b \in Nat, \A x \in S : x <= b
  PROVE  Max(S) \in S /\ \A x \in S : x <= Max(S)
<1> DEFINE U == {u \in Nat : \A x \in S : x <= u}
           R == {ss \in Nat \X Nat : ss[1] < ss[2]}
<1>1. IsWellFoundedOn(R, Nat)
  BY NatLessThanWellFounded DEF OpToRel
<1>2. \A x, y \in Nat : y < x => <<y, x>> \in R
  OBVIOUS
<1>3. U \in SUBSET Nat /\ b \in U
  OBVIOUS
<1> HIDE DEF R
<1>4. PICK u \in U : \A y \in U : ~ (<<y, u>> \in R)
  BY <1>1, <1>3, WFMin
<1>5. u \in S
  <2> SUFFICES ASSUME u \notin S PROVE FALSE
    OBVIOUS
  <2>1. u \in Nat /\ (\A x \in S : x <= u /\ x # u) /\ u # 0
    BY <1>4
  <2>2. u - 1 \in U
    BY <2>1
  <2>3. u \in Nat /\ u - 1 \in Nat /\ u - 1 < u
    BY <2>1
  <2>4. <<u - 1, u>> \in R
    BY <1>2, <2>3
  <2> QED  BY <1>4, <2>2, <2>4
<1>6. \A x \in S : u >= x
  BY <1>4
<1> QED  BY <1>5, <1>6 DEF Max

LEMMA NewestBounds ==
  ASSUME Shapes, Bounded, NEW S \in SUBSET Events
  PROVE  /\ Newest(S) \in Nat /\ \A e \in S : ledger[e].version <= Newest(S)
         /\ Newest(S) # 0 => \E e \in S : ledger[e].version = Newest(S)
<1> DEFINE V == {0} \cup {ledger[e].version : e \in S}
<1>1. PICK b \in Nat : \A e \in Events : ledger[e].version <= b
  BY DEF Bounded
<1>2. V \in SUBSET Nat /\ 0 \in V /\ \A x \in V : x <= b
  BY <1>1 DEF Shapes, Entries, Versions
<1>3. Max(V) \in V /\ \A x \in V : x <= Max(V)
  <2> HIDE DEF V
  <2> QED  BY <1>2, MaxIsLargest
<1> QED  BY <1>2, <1>3 DEF Newest

LEMMA Appends ==
  ASSUME IInv, NEW e \in Events, log' = Append(log, e)
  PROVE  /\ log' \in Seq(Events) /\ DOMAIN log = 1..Len(log) /\ DOMAIN log' = 1..Len(log) + 1
         /\ Len(log') = Len(log) + 1 /\ Len(log) \in Nat
         /\ (\A i \in 1..Len(log) : log'[i] = log[i]) /\ log'[Len(log) + 1] = e
         /\ \A d : Contains(log', d) <=> Contains(log, d) \/ d = e
         /\ ~Contains(log, e) => IsInjective(log')
<1>1. /\ log \in Seq(Events) /\ log' \in Seq(Events) /\ DOMAIN log = 1..Len(log)
      /\ DOMAIN log' = 1..Len(log) + 1
      /\ Len(log') = Len(log) + 1 /\ Len(log) \in Nat
      /\ (\A i \in 1..Len(log) : log'[i] = log[i]) /\ log'[Len(log) + 1] = e
  BY DEF IInv, Shapes
<1>2. ASSUME NEW d PROVE Contains(log', d) <=> Contains(log, d) \/ d = e
  BY <1>1 DEF Contains
<1>3. ASSUME ~Contains(log, e) PROVE IsInjective(log')
  <2>1. \A i, j \in 1..Len(log) : log[i] = log[j] => i = j
    BY <1>1 DEF IInv, EffectsHappenOnce, IsInjective
  <2>2. \A i \in 1..Len(log) : log[i] # e
    BY <1>3 DEF Contains
  <2>3. ASSUME NEW i \in 1..Len(log) + 1, NEW j \in 1..Len(log) + 1, log'[i] = log'[j] PROVE i = j
    <3>1. i = Len(log) + 1 \/ i \in 1..Len(log)
      BY <1>1
    <3>2. j = Len(log) + 1 \/ j \in 1..Len(log)
      BY <1>1
    <3> QED  BY <1>1, <2>1, <2>2, <2>3, <3>1, <3>2
  <2> QED  BY <1>1, <2>3 DEF IsInjective
<1> QED  BY <1>1, <1>2, <1>3

-----------------------------------------------------------------------------
(* What never gets lost: an entry, an effect, and what a case is about. *)
Grows ==
  /\ \A e \in Recorded : /\ ledger'[e] # NoEvent
                         /\ ledger'[e].kind = ledger[e].kind /\ ledger'[e].version = ledger[e].version
                         /\ ledger[e].status = "applied" => ledger'[e].status = "applied"
                         /\ ledger[e].status = "pending" => ledger'[e].status \in {"pending", "applied"}
  /\ \A e \in Events : Settled(e) => Settled(e)'
  /\ \A e \in Events : case[e] # NoCase => case'[e].kind = case[e].kind

LEMMA StillServes ==
  ASSUME IInv, Grows, NEW w \in Work, Serves(w)
  PROVE  Serves(w)'
<1>1. Received(w) => Received(w)'
  BY KindsApart DEF Received, Grows, NoCase
<1>2. Applying(w) => Applying(w)'
  BY DEF Applying, Grows, Recorded
<1>3. Taken(w) => Taken(w)'
  BY <1>2 DEF Taken
<1>4. Told(w) => Told(w)'
  <2> SUFFICES ASSUME NEW e \in Notices, ledger[e].status = "applied" PROVE ledger'[e].status = "applied"
    BY DEF Told
  <2> QED  BY DEF Grows, Recorded, NoEvent, Events
<1>5. Refunding(w) => Refunding(w)'
  BY KindsApart DEF Refunding, Grows, NoCase, Events
<1>6. \A e \in w.id : Settled(e) => Settled(e)'
  BY DEF Grows, Work
<1> QED  BY <1>1, <1>2, <1>3, <1>4, <1>5, <1>6 DEF Serves

LEMMA Moves ==
  ASSUME IInv, Grows, NEW p \in Procs, NEW w \in Work, work' = [work EXCEPT ![p] = w], Serves(w)'
  PROVE  work' \in [Procs -> Work] /\ Served'
<1>1. work \in [Procs -> Work]
  BY DEF IInv, Shapes
<1>2. ASSUME NEW q \in Procs PROVE Serves(work[q])'
  <2>1. CASE q = p
    BY <1>1, <2>1
  <2>2. CASE q # p
    <3>1. work'[q] = work[q] /\ work[q] \in Work /\ Serves(work[q])
      BY <1>1, <2>2 DEF IInv, Served
    <3> QED  BY <3>1, StillServes
  <2> QED  BY <2>1, <2>2
<1> QED  BY <1>1, <1>2 DEF Served

\* A step that only serves a request, or finds no row to change.
LEMMA OnlyWork ==
  ASSUME IInv, NEW p \in Procs, NEW w \in Work, Goes(p, w), Serves(w)',
         UNCHANGED <<row, ledger, log, case>>, missed \subseteq missed', missed' \subseteq Events,
         calm' \in BOOLEAN
  PROVE  IInv'
<1>1. Grows
  BY DEF Grows, Settled, Recorded
<1>2. work' \in [Procs -> Work] /\ Served'
  BY <1>1, Moves DEF Goes
<1>3. Shapes' /\ Bounded'
  BY <1>2 DEF IInv, Shapes, Bounded
<1>4. CasesAreTheirs' /\ LedgerIsTheirs' /\ LogIsRecorded'
  BY DEF IInv, CasesAreTheirs, LedgerIsTheirs, LogIsRecorded, Recorded
<1>5. EffectsHappenOnce'
  BY DEF IInv, EffectsHappenOnce
<1> QED  BY <1>2, <1>3, <1>4, <1>5 DEF IInv

LEMMA ToApplyIs ==
  ASSUME NEW from \in {"report", "provider", "sweep", "repair"}, NEW rest \in SUBSET Events
  PROVE  /\ ToApply(from, rest) \in Work
         /\ rest = {} => ToApply(from, rest) = Idle
         /\ rest # {} => /\ ToApply(from, rest).op = "effect" /\ ToApply(from, rest).from = from
                         /\ ToApply(from, rest).rest = rest /\ ToApply(from, rest).id = {}
<1> DEFINE w == [Idle EXCEPT !.op = "effect", !.from = from, !.rest = rest]
<1>1. w \in Work /\ w.op = "effect" /\ w.from = from /\ w.rest = rest /\ w.id = {}
  BY IdleIsWork DEF Work
<1> HIDE DEF w
<1> QED  BY <1>1, IdleIsWork DEF ToApply, w

\* The events that are still to be applied are recorded.
Due(from, rest) ==
  /\ rest \subseteq Recorded \ RefundCases
  /\ \A e \in rest : ledger[e].status \in {"pending", "applied"}
  /\ from = "provider" => rest \subseteq Notices

LEMMA ToApplyServes ==
  ASSUME NEW from \in {"report", "provider", "sweep", "repair"}, NEW rest \in SUBSET Events, Due(from, rest)'
  PROVE  Serves(ToApply(from, rest))'
<1>1. CASE rest = {}
  BY <1>1, ToApplyIs, IdleIsWork DEF Serves, Arriving
<1>2. CASE rest # {}
  <2> DEFINE w == ToApply(from, rest)
  <2>1. w.op = "effect" /\ w.from = from /\ w.rest = rest
    BY <1>2, ToApplyIs
  <2>2. Applying(w)'
    BY <2>1 DEF Applying, Due
  <2> HIDE DEF w
  <2>3. Serves(w)'
    BY <2>1, <2>2 DEF Serves, Arriving
  <2> QED  BY <2>3 DEF w
<1> QED  BY <1>1, <1>2

-----------------------------------------------------------------------------
(* The steps that only serve a request. *)

LEMMA InitHolds == Init => IInv
<1> SUFFICES ASSUME Init PROVE IInv
  OBVIOUS
<1>1. Shapes
  BY IdleIsWork DEF Init, Shapes, NoRow, NoEvent, NoCase, Entries, CaseRows, Versions
<1>2. Bounded
  BY DEF Init, Bounded, NoEvent
<1>3. Served
  BY IdleIsWork DEF Init, Served, Serves, Arriving
<1>4. CasesAreTheirs /\ LedgerIsTheirs /\ LogIsRecorded
  BY DEF Init, CasesAreTheirs, LedgerIsTheirs, LogIsRecorded, NoEvent, NoCase, Events
<1>5. EffectsHappenOnce
  BY KindsApart DEF Init, EffectsHappenOnce, NoEvent, NoCase, IsInjective
<1> QED  BY <1>1, <1>2, <1>3, <1>4, <1>5 DEF IInv

LEMMA Arrives ==
  ASSUME IInv, NEW p \in Procs, NEW w \in Work, Arrive(p, w), Serves(w)',
         UNCHANGED <<row, ledger, log, case, missed>>
  PROVE  IInv'
<1>1. missed \subseteq Events /\ calm' \in BOOLEAN
  BY DEF IInv, Shapes, Arrive
<1> QED  BY <1>1, OnlyWork DEF Arrive

LEMMA ReportStep ==
  ASSUME IInv, NEW p \in Procs, NEW e \in Reports, NEW kind \in Reported, NEW v \in 1..2, Report(p, e, kind, v)
  PROVE  IInv'
<1> DEFINE w == [Idle EXCEPT !.op = "decide", !.from = "report", !.id = {e}, !.kind = kind, !.version = v]
<1>0. e \in Events /\ kind \in Kinds /\ v \in Nat
  BY KindsApart DEF Events
<1>1. w \in Work /\ w.op = "decide" /\ w.from = "report" /\ w.id = {e} /\ w.kind = kind /\ w.rest = {}
  BY <1>0, IdleIsWork DEF Work, Versions
<1>2. Arrive(p, w) /\ UNCHANGED <<row, ledger, log, case, missed>>
  BY DEF Report
<1> HIDE DEF w
<1>3. Serves(w)'
  BY <1>1 DEF Serves, Arriving, Received, Events
<1> QED  BY <1>1, <1>2, <1>3, Arrives

LEMMA NextVersionStep ==
  ASSUME IInv, NEW p \in Procs, NextVersion(p)
  PROVE  IInv'
<1>1. PICK v \in Nat : v = Newest(OfSources(Numbered(work[p].kind))) + 1
  <2>1. OfSources(Numbered(work[p].kind)) \in SUBSET Events
    BY DEF OfSources
  <2> QED  BY <2>1, NewestBounds DEF IInv
<1>2. work[p] \in Work /\ Received(work[p]) /\ UNCHANGED <<row, ledger, log, case, history>>
  BY DEF IInv, Shapes, Served, Serves, Arriving, NextVersion, Busy
<1>3. PICK w \in Work : w = [work[p] EXCEPT !.op = "decide", !.version = v]
  BY <1>2 DEF Work, Versions
<1>4. w.op = "decide" /\ w.from = work[p].from /\ w.id = work[p].id /\ w.kind = work[p].kind /\ w.rest = work[p].rest
  BY <1>2, <1>3 DEF Work
<1>5. Goes(p, w)
  BY <1>1, <1>3 DEF NextVersion
<1>6. Serves(w)'
  <2>1. Received(w)'
    BY <1>2, <1>4 DEF Received
  <2> QED  BY <1>4, <2>1 DEF Serves, Arriving
<1>7. missed' = missed /\ calm' = calm /\ missed \subseteq Events /\ calm \in BOOLEAN
  BY <1>2 DEF history, IInv, Shapes
<1> QED  BY <1>2, <1>5, <1>6, <1>7, OnlyWork

\* Whoever serves an event that arrives serves one, which is not a refund case.
LEMMA Arrived ==
  ASSUME IInv, NEW p \in Procs, work[p].op \in Arriving
  PROVE  /\ IdOf(p) \in Reports \cup Notices /\ IdOf(p) \in Events \ RefundCases
         /\ work[p].id = {IdOf(p)} /\ work[p].rest = {} /\ work[p] \in Work
         /\ work[p].from \in {"report", "provider"} /\ (work[p].from = "provider" => IdOf(p) \in Notices)
         /\ work[p].kind \in Kinds /\ Received(work[p])
<1>1. work[p] \in Work /\ Received(work[p])
  BY DEF IInv, Shapes, Served, Serves
<1>2. PICK e \in Events :
    /\ work[p].id = {e} /\ work[p].rest = {}
    /\ \/ e \in Reports /\ work[p].from = "report" /\ work[p].kind \in Reported
       \/ e \in Notices /\ work[p].from = "provider" /\ work[p].kind \in Disputes /\ case[e].kind = work[p].kind
  BY <1>1 DEF Received
<1>3. IdOf(p) = e
  BY <1>2, IdOfSingle
<1> QED  BY <1>1, <1>2, <1>3, KindsApart, EntitlementAssumption DEF Events

LEMMA IdleServes == Serves(Idle)'
BY IdleIsWork DEF Serves, Arriving

LEMMA DecideStep ==
  ASSUME IInv, NEW p \in Procs, Decide(p)
  PROVE  IInv'
<1>1. work[p].op = "decide" /\ UNCHANGED <<row, ledger, log, case>> /\ missed' = missed /\ calm' = calm
  BY DEF Decide, Busy, history
<1>2. PICK e \in Events \ RefundCases : e = IdOf(p)
  BY <1>1, Arrived DEF Arriving
<1>3. PICK from \in {"report", "provider"} : from = work[p].from
  BY <1>1, Arrived DEF Arriving
<1>4. /\ work[p].id = {e} /\ work[p].rest = {} /\ work[p] \in Work /\ Received(work[p])
      /\ from = "provider" => e \in Notices
  BY <1>1, <1>2, <1>3, Arrived DEF Arriving
<1>5. missed \subseteq Events /\ calm \in BOOLEAN
  BY DEF IInv, Shapes
<1>6. CASE Goes(p, Idle)
  BY <1>1, <1>5, <1>6, IdleServes, IdleIsWork, OnlyWork
<1>7. CASE ledger[e] # NoEvent /\ ledger[e].status = "pending" /\ Goes(p, ToApply(from, {e}))
  <2>1. Due(from, {e})'
    BY <1>1, <1>4, <1>7 DEF Due, Recorded
  <2>2. Serves(ToApply(from, {e}))' /\ ToApply(from, {e}) \in Work
    BY <2>1, ToApplyIs, ToApplyServes
  <2>3. PICK w \in Work : w = ToApply(from, {e})
    BY <2>2
  <2> QED  BY <1>1, <1>5, <1>7, <2>2, <2>3, OnlyWork
<1>8. ASSUME NEW op \in {"quarantine", "record"}, Goes(p, [work[p] EXCEPT !.op = op]) PROVE IInv'
  <2>1. PICK w \in Work : w = [work[p] EXCEPT !.op = op]
    BY <1>4 DEF Work
  <2>2. w.op = op /\ w.from = work[p].from /\ w.id = work[p].id /\ w.kind = work[p].kind /\ w.rest = work[p].rest
    BY <1>4, <2>1 DEF Work
  <2>3. Received(w)'
    BY <1>1, <1>4, <2>2 DEF Received
  <2>4. Serves(w)'
    BY <2>2, <2>3 DEF Serves, Arriving
  <2> QED  BY <1>1, <1>5, <1>8, <2>1, <2>4, OnlyWork
<1> QED  BY <1>2, <1>3, <1>6, <1>7, <1>8 DEF Decide

LEMMA SweepStep ==
  ASSUME IInv, NEW p \in Procs, Sweep(p)
  PROVE  IInv'
<1>1. PICK S \in SUBSET Events : S = Pending
  BY DEF Pending
<1>2. Arrive(p, ToApply("sweep", S)) /\ UNCHANGED <<row, ledger, log, case, missed>>
  BY <1>1 DEF Sweep
<1>3. Due("sweep", S)'
  BY <1>1, <1>2 DEF Due, Recorded, Pending, IInv, LedgerIsTheirs, NoEvent
<1>4. Serves(ToApply("sweep", S))' /\ ToApply("sweep", S) \in Work
  BY <1>3, ToApplyIs, ToApplyServes
<1> QED  BY <1>2, <1>4, Arrives

LEMMA RebuildReadStep ==
  ASSUME IInv, NEW p \in Procs, NEW covered \in BOOLEAN, RebuildRead(p, covered)
  PROVE  IInv'
<1> DEFINE w == [Idle EXCEPT !.op = "rebuild", !.row.state = IF covered THEN "active" ELSE "inactive"]
<1>1. w \in Work /\ w.op = "rebuild" /\ w.row.state \in {"active", "inactive"}
  BY IdleIsWork, SomeStates DEF Work, Rows
<1>2. Arrive(p, w) /\ UNCHANGED <<row, ledger, log, case, missed>>
  BY DEF RebuildRead
<1> HIDE DEF w
<1>3. Serves(w)'
  BY <1>1 DEF Serves, Arriving
<1> QED  BY <1>1, <1>2, <1>3, Arrives

\* An event that a request has taken.
LEMMA TakenIs ==
  ASSUME IInv, NEW p \in Procs, work[p].op \in {"write", "finish"}
  PROVE  /\ IdOf(p) \in Recorded \ RefundCases /\ IdOf(p) \in work[p].rest /\ work[p].id = {IdOf(p)}
         /\ ledger[IdOf(p)].status \in {"pending", "applied"} /\ ledger[IdOf(p)].kind \in Kinds
         /\ work[p].from \in {"report", "provider", "sweep", "repair"} /\ Applying(work[p]) /\ work[p] \in Work
<1>1. work[p] \in Work /\ Taken(work[p])
  BY DEF IInv, Shapes, Served, Serves
<1>2. PICK e \in work[p].rest : work[p].id = {e}
  BY <1>1 DEF Taken
<1>3. e \in Events /\ IdOf(p) = e
  BY <1>1, <1>2, IdOfSingle DEF Taken, Applying, Recorded
<1>4. ledger[e].kind \in Kinds
  BY <1>1, <1>2, <1>3, KindsApart DEF Taken, Applying, IInv, LedgerIsTheirs, Events
<1> QED  BY <1>1, <1>2, <1>3, <1>4 DEF Taken, Applying, Work

LEMMA EffectReadStep ==
  ASSUME IInv, NEW p \in Procs, EffectRead(p)
  PROVE  IInv'
<1>1. /\ work[p] \in Work /\ Applying(work[p]) /\ work[p].op = "effect"
      /\ UNCHANGED <<row, ledger, log, case, calm>> /\ missed \subseteq Events /\ calm \in BOOLEAN
  BY DEF IInv, Shapes, Served, Serves, EffectRead, Busy
<1>2. PICK e \in work[p].rest :
       IF Skips(p, e)
         THEN Goes(p, ToApply("repair", work[p].rest \ {e})) /\ UNCHANGED missed
         ELSE IF row = NoRow \/ Contains(log, e)
           THEN /\ Goes(p, [work[p] EXCEPT !.id = {e}, !.op = "finish"])
                /\ missed' = IF row = NoRow THEN missed \cup {e} ELSE missed
           ELSE /\ Goes(p, [work[p] EXCEPT !.id = {e}, !.op = "write", !.row = row])
                /\ UNCHANGED missed
  BY DEF EffectRead
<1>3. e \in Events /\ e \in Recorded \ RefundCases
  BY <1>1, <1>2 DEF Applying, Recorded
<1>4. CASE Skips(p, e)
  <2>1. PICK S \in SUBSET Events : S = work[p].rest \ {e}
    BY <1>1 DEF Work
  <2>2. Due("repair", S)'
    BY <1>1, <2>1 DEF Due, Applying, Recorded
  <2>3. Serves(ToApply("repair", S))' /\ ToApply("repair", S) \in Work
    BY <2>2, ToApplyIs, ToApplyServes
  <2> QED  BY <1>1, <1>2, <1>4, <2>1, <2>3, OnlyWork
<1>5. CASE ~Skips(p, e) /\ (row = NoRow \/ Contains(log, e))
  <2>1. PICK w \in Work : w = [work[p] EXCEPT !.id = {e}, !.op = "finish"]
    BY <1>1, <1>3 DEF Work
  <2>2. w.op = "finish" /\ w.id = {e} /\ w.from = work[p].from /\ w.rest = work[p].rest
    BY <1>1, <2>1 DEF Work
  <2>3. missed \subseteq missed' /\ missed' \subseteq Events /\ Settled(e)'
    BY <1>1, <1>2, <1>3, <1>5 DEF Settled
  <2>4. Taken(w)'
    BY <1>1, <1>2, <2>2 DEF Taken, Applying, Recorded
  <2>5. Serves(w)'
    BY <2>2, <2>3, <2>4 DEF Serves, Arriving
  <2> QED  BY <1>1, <1>2, <1>5, <2>1, <2>3, <2>5, OnlyWork
<1>6. CASE ~Skips(p, e) /\ ~(row = NoRow \/ Contains(log, e))
  <2>1. row \in Rows /\ row.state # "none"
    BY <1>6 DEF IInv, Shapes
  <2>2. PICK w \in Work : w = [work[p] EXCEPT !.id = {e}, !.op = "write", !.row = row]
    BY <1>1, <1>3, <2>1 DEF Work
  <2>3. w.op = "write" /\ w.id = {e} /\ w.from = work[p].from /\ w.rest = work[p].rest /\ w.row = row
    BY <1>1, <2>2 DEF Work
  <2>4. Taken(w)'
    BY <1>1, <1>2, <2>3 DEF Taken, Applying, Recorded
  <2>5. Serves(w)'
    BY <2>1, <2>3, <2>4 DEF Serves, Arriving
  <2> QED  BY <1>1, <1>2, <1>6, <2>2, <2>5, OnlyWork
<1> QED  BY <1>4, <1>5, <1>6

LEMMA RefundPayStep ==
  ASSUME IInv, NEW p \in Procs, NEW e \in RefundCases, RefundPay(p, e)
  PROVE  IInv'
<1>1. e \in Events /\ case[e].kind \in Refunds /\ case[e].kind \in Kinds
  BY KindsApart DEF IInv, CasesAreTheirs, RefundPay, NoCase, Events
<1>2. PICK kind \in Kinds : kind = case[e].kind
  BY <1>1
<1>3. PICK w \in Work : w = [Idle EXCEPT !.op = "refund", !.id = {e}, !.kind = kind]
  BY <1>1, IdleIsWork DEF Work
<1>4. w.op = "refund" /\ w.id = {e} /\ w.kind = kind /\ w.rest = {}
  BY <1>3, IdleIsWork DEF Work
<1>5. Arrive(p, w) /\ UNCHANGED <<row, ledger, log, case, missed>>
  BY <1>2, <1>3 DEF RefundPay
<1>6. Serves(w)'
  <2>1. Refunding(w)'
    BY <1>1, <1>2, <1>4, <1>5 DEF Refunding
  <2> QED  BY <1>4, <2>1 DEF Serves, Arriving
<1> QED  BY <1>5, <1>6, Arrives

LEMMA RefundReadStep ==
  ASSUME IInv, NEW p \in Procs, RefundRead(p)
  PROVE  IInv'
<1>1. /\ work[p] \in Work /\ Refunding(work[p]) /\ row \in Rows /\ (row.state # "none" \/ row = NoRow)
      /\ UNCHANGED <<row, ledger, log, case>> /\ missed' = missed /\ calm' = calm
      /\ missed \subseteq Events /\ calm \in BOOLEAN
  BY DEF IInv, Shapes, Served, Serves, RefundRead, Busy, history
<1>2. PICK w \in Work : w = [work[p] EXCEPT !.op = "confirm", !.row = row]
  BY <1>1 DEF Work
<1>3. w.op = "confirm" /\ w.row = row /\ w.id = work[p].id /\ w.kind = work[p].kind /\ w.rest = work[p].rest
  BY <1>1, <1>2 DEF Work
<1>4. Serves(w)'
  <2>1. Refunding(w)'
    BY <1>1, <1>3 DEF Refunding
  <2> QED  BY <1>1, <1>3, <2>1 DEF Serves, Arriving
<1>5. Goes(p, w)
  BY <1>2 DEF RefundRead
<1> QED  BY <1>1, <1>4, <1>5, OnlyWork

LEMMA AbandonStep ==
  ASSUME IInv, NEW p \in Procs, Abandon(p)
  PROVE  IInv'
<1>1. missed \subseteq Events
  BY DEF IInv, Shapes
<1> QED  BY <1>1, IdleServes, IdleIsWork, OnlyWork DEF Abandon

-----------------------------------------------------------------------------
(* The steps on a notice or a refund case. *)

\* A case opens or goes on.
Follows(e, c) ==
  /\ e \notin Reports
  /\ \/ case[e] = NoCase /\ ledger[e] = NoEvent
     \/ case[e] # NoCase /\ c.kind = case[e].kind
  /\ e \in Notices => c.kind \in Disputes /\ c.status \in {"received", "processed", "lapsed"}
  /\ e \in RefundCases => c.kind \in Refunds /\ c.status = "unconfirmed" /\ case[e].status # "confirmed"
  /\ c.status = "processed" => ledger[e].status = "applied"

LEMMA CaseStep ==
  ASSUME IInv, NEW p \in Procs, NEW w \in Work, work' = [work EXCEPT ![p] = w], NEW e \in Events,
         NEW c \in CaseRows,
         Follows(e, c), case' = [case EXCEPT ![e] = c], UNCHANGED <<row, ledger, log, missed>>,
         calm' \in BOOLEAN,
         Serves(w)'
  PROVE  IInv'
<1>1. case \in [Events -> CaseRows] /\ case' \in [Events -> CaseRows] /\ case'[e] = c
      /\ \A d \in Events \ {e} : case'[d] = case[d]
  BY DEF IInv, Shapes
<1>2. c # NoCase
  BY KindsApart DEF Follows, NoCase, Events
<1>3. Grows
  BY <1>1 DEF Grows, Settled, Recorded, Follows
<1>4. work' \in [Procs -> Work] /\ Served'
  BY <1>3, Moves
<1>5. Shapes' /\ Bounded'
  BY <1>1, <1>4 DEF IInv, Shapes, Bounded
<1>6. CasesAreTheirs'
  BY <1>1 DEF IInv, CasesAreTheirs, Follows, Events
<1>7. LedgerIsTheirs' /\ LogIsRecorded'
  <2>1. \A d \in Reports : ledger'[d] # NoEvent => ledger'[d].kind \in Reported
    BY DEF IInv, LedgerIsTheirs
  <2>2. ASSUME NEW d \in Notices, ledger[d] # NoEvent
        PROVE  ledger[d].kind \in Disputes /\ ledger[d].kind = case'[d].kind
    BY <1>1, <2>2 DEF IInv, LedgerIsTheirs, Follows, Events
  <2>3. ASSUME NEW d \in RefundCases
        PROVE  /\ ledger[d] # NoEvent => ledger[d].status = "applied" /\ ledger[d].kind = case'[d].kind
               /\ ledger[d] # NoEvent => ledger[d].version = RefundVersion
               /\ ledger[d] # NoEvent <=> case'[d].status = "confirmed"
    <3>1. CASE d = e
      <4>1. ledger[d] = NoEvent
        BY <1>1, <3>1 DEF IInv, LedgerIsTheirs, Follows, NoCase
      <4> QED  BY <1>1, <3>1, <4>1 DEF Follows
    <3>2. CASE d # e
      BY <1>1, <3>2 DEF IInv, LedgerIsTheirs, Events
    <3> QED  BY <3>1, <3>2
  <2>4. LogIsRecorded' /\ \A d \in Events : ledger'[d].status = "none" <=> ledger'[d] = NoEvent
    BY DEF IInv, LedgerIsTheirs, LogIsRecorded, Recorded
  <2> QED  BY <2>1, <2>2, <2>3, <2>4 DEF LedgerIsTheirs
<1>8. EffectsHappenOnce'
  <2>1. \A d \in Events : case'[d].status = "processed" => ledger[d].status = "applied"
    BY <1>1 DEF IInv, EffectsHappenOnce, Follows
  <2>2. ASSUME NEW d \in Events, case'[d].kind \in Refunds
        PROVE  case'[d].status = "confirmed" <=> ledger[d].status = "applied"
    <3>1. d \in RefundCases
      BY <1>6, <2>2, KindsApart DEF CasesAreTheirs, NoCase, Events
    <3>2. (ledger[d].status = "applied" => ledger[d] # NoEvent)
      BY DEF NoEvent
    <3> QED  BY <1>7, <3>1, <3>2 DEF LedgerIsTheirs
  <2> QED  BY <2>1, <2>2 DEF IInv, EffectsHappenOnce
<1> QED  BY <1>4, <1>5, <1>6, <1>7, <1>8 DEF IInv

LEMMA WebhookStep ==
  ASSUME IInv, NEW p \in Procs, NEW e \in Notices, NEW kind \in Disputes, Webhook(p, e, kind)
  PROVE  IInv'
<1> DEFINE c == [kind |-> kind, status |-> "received"]
<1>1. e \in Events /\ e \notin Reports /\ e \notin RefundCases /\ kind \in Kinds
  BY KindsApart, EntitlementAssumption DEF Events
<1>2. c \in CaseRows /\ c.kind = kind /\ c.status = "received"
  BY <1>1 DEF CaseRows
<1>3. ledger[e] = NoEvent
  BY <1>1, KindsApart DEF IInv, LedgerIsTheirs, Webhook, NoCase
<1>4. /\ case' = [case EXCEPT ![e] = c] /\ UNCHANGED <<row, ledger, log, missed>> /\ calm' \in BOOLEAN
      /\ case[e] = NoCase
  BY DEF Webhook, Arrive, IInv, Shapes
<1> HIDE DEF c
<1>5. Follows(e, c)
  BY <1>1, <1>2, <1>3, <1>4 DEF Follows
<1>6. CASE kind = "reversal"
  <2>1. work' = [work EXCEPT ![p] = Idle]
    BY <1>6 DEF Webhook, Arrive, Goes
  <2> QED  BY <1>1, <1>2, <1>4, <1>5, <2>1, IdleIsWork, IdleServes, CaseStep
<1>7. CASE kind # "reversal"
  <2>1. PICK w \in Work : w = [Idle EXCEPT !.op = "version", !.from = "provider", !.id = {e}, !.kind = kind]
    BY <1>1, IdleIsWork DEF Work
  <2>2. w.op = "version" /\ w.from = "provider" /\ w.id = {e} /\ w.kind = kind /\ w.rest = {}
    BY <2>1, IdleIsWork DEF Work
  <2>3. work' = [work EXCEPT ![p] = w]
    BY <1>7, <2>1 DEF Webhook, Arrive, Goes
  <2>4. case'[e].kind = kind
    BY <1>1, <1>2, <1>4 DEF IInv, Shapes
  <2>5. Received(w)'
    BY <1>1, <2>2, <2>4 DEF Received
  <2>6. Serves(w)'
    BY <2>2, <2>5 DEF Serves, Arriving
  <2> QED  BY <1>1, <1>2, <1>4, <1>5, <2>3, <2>6, CaseStep
<1> QED  BY <1>6, <1>7

LEMMA ReconcileStep ==
  ASSUME IInv, NEW p \in Procs, NEW e \in Notices, NEW covered \in BOOLEAN, Reconcile(p, e, covered)
  PROVE  IInv'
<1>1. /\ e \in Events /\ e \notin Reports /\ e \notin RefundCases /\ case[e].kind = "reversal"
      /\ case[e] # NoCase /\ case[e] \in CaseRows
  BY KindsApart, EntitlementAssumption DEF Events, Reconcile, NoCase, IInv, Shapes
<1>2. case[e].kind \in Disputes /\ case[e].kind \in Kinds
  BY <1>1, KindsApart DEF IInv, CasesAreTheirs
<1>3. CASE covered
  <2>1. PICK w \in Work : w = [Idle EXCEPT !.op = "version", !.from = "provider", !.id = {e}, !.kind = "reversal"]
    BY <1>1, <1>2, IdleIsWork DEF Work
  <2>2. w.op = "version" /\ w.from = "provider" /\ w.id = {e} /\ w.kind = "reversal" /\ w.rest = {}
    BY <2>1, IdleIsWork DEF Work
  <2>3. Arrive(p, w) /\ UNCHANGED <<row, ledger, log, case, missed>>
    BY <1>3, <2>1 DEF Reconcile
  <2>4. Received(w)'
    BY <1>1, <1>2, <2>2, <2>3 DEF Received
  <2>5. Serves(w)'
    BY <2>2, <2>4 DEF Serves, Arriving
  <2> QED  BY <2>3, <2>5, Arrives
<1>4. CASE ~covered
  <2>1. PICK c \in CaseRows : c = [case[e] EXCEPT !.status = "lapsed"]
    BY <1>1 DEF CaseRows
  <2>2. c.kind = case[e].kind /\ c.status = "lapsed"
    BY <1>1, <2>1 DEF CaseRows
  <2>3. /\ case' = [case EXCEPT ![e] = c] /\ UNCHANGED <<row, ledger, log, missed>> /\ calm' \in BOOLEAN
        /\ work' = [work EXCEPT ![p] = Idle]
    BY <1>1, <1>4, <2>1 DEF Reconcile, Arrive, Goes, IInv, Shapes
  <2>4. Follows(e, c)
    BY <1>1, <1>2, <2>2 DEF Follows
  <2> QED  BY <1>1, <2>3, <2>4, IdleIsWork, IdleServes, CaseStep
<1> QED  BY <1>3, <1>4

LEMMA SettleStep ==
  ASSUME IInv, NEW p \in Procs, Settle(p)
  PROVE  IInv'
<1>1. Told(work[p])
  BY DEF IInv, Served, Serves, Settle, Busy
<1>2. PICK e \in Notices : work[p].id = {e} /\ ledger[e].status = "applied"
  BY <1>1 DEF Told
<1>3. e \in Events /\ e \notin Reports /\ e \notin RefundCases /\ IdOf(p) = e /\ ledger[e] # NoEvent
  BY <1>2, IdOfSingle, EntitlementAssumption DEF Events, NoEvent
<1>4. case[e] # NoCase /\ case[e].kind \in Disputes /\ case[e] \in CaseRows
  BY <1>3, KindsApart DEF IInv, CasesAreTheirs, LedgerIsTheirs, NoCase, Shapes
<1>5. PICK c \in CaseRows : c = [case[e] EXCEPT !.status = "processed"]
  BY <1>4 DEF CaseRows
<1>6. c.kind = case[e].kind /\ c.status = "processed"
  BY <1>4, <1>5 DEF CaseRows
<1>7. /\ case' = [case EXCEPT ![e] = c] /\ UNCHANGED <<row, ledger, log, missed>> /\ calm' \in BOOLEAN
      /\ work' = [work EXCEPT ![p] = Idle]
  BY <1>3, <1>4, <1>5 DEF Settle, Goes, history, IInv, Shapes
<1>8. Follows(e, c)
  BY <1>2, <1>3, <1>4, <1>6 DEF Follows
<1> QED  BY <1>3, <1>7, <1>8, IdleIsWork, IdleServes, CaseStep

LEMMA OpenRefundStep ==
  ASSUME IInv, NEW p \in Procs, NEW e \in RefundCases, NEW kind \in Refunds, OpenRefund(p, e, kind)
  PROVE  IInv'
<1>1. e \in Events /\ e \notin Reports /\ e \notin Notices /\ kind \in Kinds
  BY KindsApart, EntitlementAssumption DEF Events
<1>2. PICK c \in CaseRows : c = [kind |-> kind, status |-> "unconfirmed"]
  BY <1>1 DEF CaseRows
<1>3. c.kind = kind /\ c.status = "unconfirmed"
  BY <1>2
<1>4. /\ case' = [case EXCEPT ![e] = c] /\ UNCHANGED <<row, ledger, log, work>> /\ missed' = missed
      /\ calm' \in BOOLEAN
      /\ case[e] = NoCase /\ work[p] = Idle /\ work \in [Procs -> Work]
  BY <1>2 DEF OpenRefund, history, IInv, Shapes, Served, Serves, Busy
<1>5. work' = [work EXCEPT ![p] = Idle]
  BY <1>4
<1>6. Follows(e, c)
  <2>1. ledger[e] = NoEvent /\ case[e].status # "confirmed"
    BY <1>4 DEF IInv, LedgerIsTheirs, NoCase
  <2> QED  BY <1>1, <1>3, <1>4, <2>1 DEF Follows
<1> QED  BY <1>1, <1>4, <1>5, <1>6, IdleIsWork, IdleServes, CaseStep

-----------------------------------------------------------------------------
(* The steps on the ledger. *)

\* An entry is inserted, or marked as applied.
Advances(e, entry) ==
  /\ e \notin RefundCases /\ entry # NoEvent /\ entry.status # "none"
  /\ \/ ledger[e] = NoEvent /\ entry.status # "applied" /\ (e \in Reports => entry.kind \in Reported)
        /\ (e \in Notices => entry.kind \in Disputes /\ entry.kind = case[e].kind)
     \/ /\ ledger[e] # NoEvent /\ entry.kind = ledger[e].kind /\ entry.version = ledger[e].version
        /\ entry.status = "applied" /\ Settled(e)

LEMMA LedgerStep ==
  ASSUME IInv, NEW p \in Procs, NEW w \in Work, Goes(p, w), NEW e \in Events, NEW entry \in Entries,
         Advances(e, entry), ledger' = [ledger EXCEPT ![e] = entry], UNCHANGED <<row, log, case, history>>,
         Serves(w)'
  PROVE  IInv'
<1>1. ledger \in [Events -> Entries] /\ ledger' \in [Events -> Entries] /\ ledger'[e] = entry
      /\ \A d \in Events \ {e} : ledger'[d] = ledger[d]
  BY DEF IInv, Shapes
<1>2. Grows
  BY <1>1 DEF Grows, Settled, Recorded, Advances, history, NoEvent
<1>3. work' \in [Procs -> Work] /\ Served'
  BY <1>2, Moves DEF Goes
<1>4. Shapes'
  BY <1>1, <1>3 DEF IInv, Shapes, history
<1>5. Bounded'
  <2>1. PICK b \in Nat : \A d \in Events : ledger[d].version <= b
    BY DEF IInv, Bounded
  <2>2. entry.version \in Nat /\ \A d \in Events : ledger[d].version \in Nat
    BY <1>1 DEF Entries, Versions
  <2>3. \A d \in Events : ledger'[d].version <= b + entry.version
    BY <1>1, <2>1, <2>2
  <2> QED  BY <2>2, <2>3 DEF Bounded
<1>6. CasesAreTheirs' /\ LogIsRecorded'
  <2>1. CasesAreTheirs'
    BY DEF IInv, CasesAreTheirs
  <2>2. Recorded \subseteq Recorded'
    BY <1>2 DEF Grows, Recorded
  <2> QED  BY <2>1, <2>2 DEF IInv, LogIsRecorded
<1>7. LedgerIsTheirs'
  <2>1. \A d \in Events : ledger'[d].status = "none" <=> ledger'[d] = NoEvent
    BY <1>1 DEF IInv, LedgerIsTheirs, Advances
  <2>2. \A d \in Reports : ledger'[d] # NoEvent => ledger'[d].kind \in Reported
    BY <1>1 DEF IInv, LedgerIsTheirs, Advances, Events
  <2>3. \A d \in Notices : ledger'[d] # NoEvent => ledger'[d].kind \in Disputes /\ ledger'[d].kind = case[d].kind
    BY <1>1 DEF IInv, LedgerIsTheirs, Advances, Events
  <2>4. \A d \in RefundCases : ledger'[d] = ledger[d]
    BY <1>1 DEF Advances, Events
  <2> QED  BY <2>1, <2>2, <2>3, <2>4 DEF IInv, LedgerIsTheirs
<1>8. EffectsHappenOnce'
  <2>1. \A d \in Events : ledger'[d].status = "applied" => Settled(d)
    BY <1>1 DEF IInv, EffectsHappenOnce, Advances, Settled
  <2>2. \A d \in Events : case[d].status = "processed" => ledger'[d].status = "applied"
    BY <1>1 DEF IInv, EffectsHappenOnce, Advances, NoEvent
  <2>3. \A d \in Events : case[d].kind \in Refunds => d \in RefundCases
    BY KindsApart DEF IInv, CasesAreTheirs, NoCase, Events
  <2>4. \A d \in Events : case[d].kind \in Refunds => ledger'[d] = ledger[d]
    BY <1>1, <2>3 DEF Advances
  <2> QED  BY <2>1, <2>2, <2>4 DEF IInv, EffectsHappenOnce, Settled, history
<1> QED  BY <1>3, <1>4, <1>5, <1>6, <1>7, <1>8 DEF IInv

LEMMA RecordStep ==
  ASSUME IInv, NEW p \in Procs, Record(p)
  PROVE  IInv'
<1>1. work[p].op \in {"record", "quarantine"} /\ UNCHANGED <<row, log, case, history>>
  BY DEF Record, Busy
<1>2. PICK e \in Events \ RefundCases : e = IdOf(p)
  BY <1>1, Arrived DEF Arriving
<1>3. PICK from \in {"report", "provider"} : from = work[p].from
  BY <1>1, Arrived DEF Arriving
<1>4. /\ work[p].id = {e} /\ work[p].rest = {} /\ work[p] \in Work /\ Received(work[p])
      /\ from = "provider" => e \in Notices
  BY <1>1, <1>2, <1>3, Arrived DEF Arriving
<1>5. missed \subseteq Events /\ missed' = missed /\ calm' \in BOOLEAN
  BY <1>1 DEF IInv, Shapes, history
<1>6. CASE ledger[e] # NoEvent
  BY <1>1, <1>2, <1>5, <1>6, IdleServes, IdleIsWork, OnlyWork DEF Record
<1>7. CASE ledger[e] = NoEvent
  <2>1. PICK status \in {"pending", "quarantined"} : status = IF Busy(p, "record") THEN "pending" ELSE "quarantined"
    OBVIOUS
  <2>2. PICK entry \in Entries : entry = [status |-> status, kind |-> work[p].kind, version |-> work[p].version]
    BY <1>4 DEF Work, Entries
  <2>3. entry.status = status /\ entry.kind = work[p].kind
    BY <2>2
  <2>4. ledger' = [ledger EXCEPT ![e] = entry] /\ Goes(p, IF status = "pending" THEN ToApply(from, {e}) ELSE Idle)
    BY <1>2, <1>3, <1>7, <2>1, <2>2 DEF Record
  <2>5. Advances(e, entry)
    BY <1>2, <1>4, <1>7, <2>3, EntitlementAssumption DEF Advances, Received, NoEvent
  <2>6. ledger'[e] = entry
    BY <1>2, <2>4 DEF IInv, Shapes
  <2>7. CASE status = "pending"
    <3>1. Due(from, {e})'
      BY <1>2, <1>4, <2>3, <2>6, <2>7 DEF Due, Recorded, NoEvent
    <3>2. Serves(ToApply(from, {e}))' /\ ToApply(from, {e}) \in Work
      BY <3>1, ToApplyIs, ToApplyServes
    <3> QED  BY <1>1, <2>4, <2>5, <2>7, <3>2, LedgerStep
  <2>8. CASE status = "quarantined"
    BY <1>1, <2>4, <2>5, <2>8, IdleServes, IdleIsWork, LedgerStep
  <2> QED  BY <2>7, <2>8
<1> QED  BY <1>6, <1>7

LEMMA FinishStep ==
  ASSUME IInv, NEW p \in Procs, Finish(p)
  PROVE  IInv'
<1>1. work[p].op = "finish" /\ UNCHANGED <<row, log, case, history>>
  BY DEF Finish, Busy
<1>2. PICK e \in Recorded \ RefundCases : e = IdOf(p)
  BY <1>1, TakenIs
<1>3. PICK from \in {"report", "provider", "sweep", "repair"} : from = work[p].from
  BY <1>1, TakenIs
<1>4. /\ work[p].id = {e} /\ work[p] \in Work /\ Applying(work[p]) /\ e \in work[p].rest /\ Settled(e)
      /\ e \in Events
      /\ ledger[e] \in Entries
  BY <1>1, <1>2, TakenIs DEF IInv, Shapes, Served, Serves, Recorded
<1>5. PICK entry \in Entries : entry = Marked(ledger[e])
  BY <1>4 DEF Entries, Marked
<1>6. entry.status = "applied" /\ entry.kind = ledger[e].kind /\ entry.version = ledger[e].version
  BY <1>4, <1>5 DEF Entries, Marked
<1>7. ledger' = [ledger EXCEPT ![e] = entry]
  BY <1>2, <1>4, <1>5 DEF Finish, IInv, Shapes
<1>8. Advances(e, entry)
  BY <1>2, <1>4, <1>6 DEF Advances, Recorded, NoEvent
<1>9. ledger'[e] = entry /\ \A d \in Events \ {e} : ledger'[d] = ledger[d]
  BY <1>4, <1>7 DEF IInv, Shapes
<1>10. CASE from = "provider"
  <2>1. PICK w \in Work : w = [work[p] EXCEPT !.op = "settle"]
    BY <1>4 DEF Work
  <2>2. w.op = "settle" /\ w.id = {e} /\ e \in Notices
    BY <1>3, <1>4, <1>10, <2>1 DEF Work, Applying
  <2>3. Serves(w)'
    <3>1. Told(w)'
      BY <1>6, <1>9, <2>2 DEF Told
    <3> QED  BY <2>2, <3>1 DEF Serves, Arriving
  <2>4. Goes(p, w)
    BY <1>3, <1>10, <2>1 DEF Finish
  <2> QED  BY <1>1, <1>4, <1>7, <1>8, <2>3, <2>4, LedgerStep
<1>11. CASE from # "provider"
  <2>1. PICK S \in SUBSET Events : S = work[p].rest \ {e}
    BY <1>4 DEF Work
  <2>2. Goes(p, ToApply(from, S))
    BY <1>3, <1>4, <1>11, <2>1 DEF Finish, GoesOn
  <2>3. Due(from, S)'
    BY <1>4, <1>9, <1>11, <2>1 DEF Due, Applying, Recorded
  <2>4. Serves(ToApply(from, S))' /\ ToApply(from, S) \in Work
    BY <2>3, ToApplyIs, ToApplyServes
  <2> QED  BY <1>1, <1>4, <1>7, <1>8, <2>2, <2>4, LedgerStep
<1> QED  BY <1>10, <1>11

-----------------------------------------------------------------------------
(* The steps on the row and its log. *)

LEMMA RowStep ==
  ASSUME IInv, NEW p \in Procs, NEW w \in Work, Goes(p, w), NEW r \in Rows, r.state # "none", row' = r,
         NEW e \in Events, log' = log \/ (log' = Append(log, e) /\ ~Contains(log, e) /\ e \in Recorded),
         UNCHANGED <<ledger, case, missed>>, calm' \in BOOLEAN, Serves(w)'
  PROVE  IInv'
<1>1. log' \in Seq(Events) /\ IsInjective(log') /\ (\A d : Contains(log, d) => Contains(log', d)) /\ LogIsRecorded'
  <2>1. CASE log' = log
    BY <2>1 DEF IInv, Shapes, EffectsHappenOnce, LogIsRecorded, Recorded
  <2>2. CASE log' = Append(log, e) /\ ~Contains(log, e) /\ e \in Recorded
    <3>1. log' \in Seq(Events) /\ IsInjective(log') /\ (\A d : Contains(log, d) => Contains(log', d))
      BY <2>2, Appends
    <3>2. \A i \in DOMAIN log' : log'[i] \in Recorded
      BY <2>2, Appends DEF IInv, LogIsRecorded
    <3> QED  BY <3>1, <3>2 DEF LogIsRecorded, Recorded
  <2> QED  BY <2>1, <2>2
<1>2. Grows
  BY <1>1 DEF Grows, Settled, Recorded
<1>3. work' \in [Procs -> Work] /\ Served'
  BY <1>2, Moves DEF Goes
<1>4. Shapes' /\ Bounded'
  BY <1>1, <1>3 DEF IInv, Shapes, Bounded
<1>5. CasesAreTheirs' /\ LedgerIsTheirs'
  BY DEF IInv, CasesAreTheirs, LedgerIsTheirs
<1>6. EffectsHappenOnce'
  BY <1>1 DEF IInv, EffectsHappenOnce
<1> QED  BY <1>1, <1>3, <1>4, <1>5, <1>6 DEF IInv

LEMMA RebuildCommitStep ==
  ASSUME IInv, NEW p \in Procs, RebuildCommit(p)
  PROVE  IInv'
<1>1. /\ work[p] \in Work /\ work[p].row.state \in {"active", "inactive"} /\ row \in Rows
      /\ UNCHANGED <<ledger, log, case, calm, missed>> /\ calm \in BOOLEAN
  BY DEF RebuildCommit, Busy, IInv, Shapes, Served, Serves
<1>2. PICK r \in Rows : r = [row EXCEPT !.state = work[p].row.state]
  BY <1>1, SomeStates DEF Rows
<1>3. r.state # "none" /\ row' = r
  BY <1>1, <1>2 DEF RebuildCommit, Overwrites, Rows
<1>4. PICK S \in SUBSET Events : S = Pending
  BY DEF Pending
<1>5. Due("repair", S)'
  BY <1>1, <1>4 DEF Due, Recorded, Pending, IInv, LedgerIsTheirs, NoEvent
<1>6. Serves(ToApply("repair", S))' /\ ToApply("repair", S) \in Work
  BY <1>5, ToApplyIs, ToApplyServes
<1>7. PICK w \in Work : (w = Idle \/ w = ToApply("repair", S)) /\ Goes(p, w) /\ Serves(w)'
  BY <1>4, <1>6, IdleIsWork, IdleServes DEF RebuildCommit
<1>8. CASE Events = {}
  <2>1. Grows
    BY <1>8 DEF Grows, Recorded
  <2>2. work' \in [Procs -> Work] /\ Served'
    BY <1>7, <2>1, Moves DEF Goes
  <2>3. Shapes' /\ Bounded' /\ CasesAreTheirs' /\ LedgerIsTheirs' /\ LogIsRecorded' /\ EffectsHappenOnce'
    BY <1>1, <1>3, <2>2 DEF IInv, Shapes, Bounded, CasesAreTheirs, LedgerIsTheirs, LogIsRecorded,
       EffectsHappenOnce, Recorded
  <2> QED  BY <2>2, <2>3 DEF IInv
<1>9. CASE Events # {}
  BY <1>1, <1>3, <1>7, <1>9, RowStep
<1> QED  BY <1>8, <1>9

\* What a decision makes of the row that was read.
LEMMA WrittenIs ==
  ASSUME NEW kind \in Kinds, NEW read \in Rows, read.state # "none"
  PROVE  /\ Written(kind, read) \in Rows /\ Written(kind, read).state # "none"
         /\ Written(kind, read).state = StateAfter(kind, read.state)
         /\ Written(kind, read).version = read.version + 1
<1>1. read.state \in States /\ read.version \in Nat
  BY DEF Rows, Versions
<1>2. StateAfter(kind, read.state) \in States
  BY <1>1, StateAfterIsState
<1> QED  BY <1>1, <1>2, SomeStates DEF Written, Rows, Versions

LEMMA EffectWriteStep ==
  ASSUME IInv, NEW p \in Procs, EffectWrite(p)
  PROVE  IInv'
<1>1. work[p].op = "write" /\ UNCHANGED <<ledger, case, calm, missed>> /\ calm \in BOOLEAN /\ missed \subseteq Events
  BY DEF EffectWrite, Busy, IInv, Shapes
<1>2. PICK e \in Recorded \ RefundCases : e = IdOf(p)
  BY <1>1, TakenIs
<1>3. PICK from \in {"report", "provider", "sweep", "repair"} : from = work[p].from
  BY <1>1, TakenIs
<1>4. /\ work[p].id = {e} /\ work[p] \in Work /\ Applying(work[p]) /\ e \in work[p].rest /\ e \in Events
      /\ ledger[e].kind \in Kinds /\ work[p].row \in Rows /\ work[p].row.state # "none"
  BY <1>1, <1>2, TakenIs DEF IInv, Served, Serves, Recorded, Work
<1>5. CASE Unlogged(e)
  <2>1. PICK r \in Rows : r = Written(ledger[e].kind, work[p].row) /\ r.state # "none"
    BY <1>4, WrittenIs
  <2>2. row' = r /\ log' = Append(log, e) /\ ~Contains(log, e)
    BY <1>2, <1>5, <2>1 DEF EffectWrite, Unlogged
  <2>3. PICK w \in Work : w = [work[p] EXCEPT !.op = "finish", !.row = NoRow]
    BY <1>4, IdleIsWork DEF Work
  <2>4. w.op = "finish" /\ w.id = {e} /\ w.rest = work[p].rest /\ w.from = work[p].from
    BY <1>4, <2>3 DEF Work
  <2>5. Contains(log', e)
    BY <1>4, <2>2, Appends
  <2>6. Taken(w)'
    BY <1>1, <1>4, <2>4 DEF Taken, Applying, Recorded
  <2>7. Serves(w)'
    BY <2>4, <2>5, <2>6 DEF Serves, Arriving, Settled
  <2>8. Goes(p, w)
    BY <1>2, <1>5, <2>3 DEF EffectWrite
  <2> QED  BY <1>1, <1>2, <1>4, <2>1, <2>2, <2>7, <2>8, RowStep
<1>6. CASE ~Unlogged(e)
  <2>1. PICK S \in SUBSET Events : S = work[p].rest \ {e}
    BY <1>4 DEF Work
  <2>2. Goes(p, ToApply(from, S)) /\ UNCHANGED <<row, log>>
    BY <1>2, <1>3, <1>4, <1>6, <2>1 DEF EffectWrite, GoesOn
  <2>3. Due(from, S)'
    BY <1>1, <1>3, <1>4, <2>1 DEF Due, Applying, Recorded
  <2>4. Serves(ToApply(from, S))' /\ ToApply(from, S) \in Work
    BY <2>3, ToApplyIs, ToApplyServes
  <2> QED  BY <1>1, <2>2, <2>4, OnlyWork
<1> QED  BY <1>5, <1>6

LEMMA RefundingIs ==
  ASSUME IInv, NEW p \in Procs, work[p].op \in {"refund", "confirm"}
  PROVE  /\ IdOf(p) \in RefundCases /\ IdOf(p) \in Events /\ work[p].id = {IdOf(p)} /\ work[p] \in Work
         /\ work[p].kind \in Refunds /\ work[p].kind \in Kinds /\ case[IdOf(p)].kind = work[p].kind
<1>1. work[p] \in Work /\ Refunding(work[p])
  BY DEF IInv, Shapes, Served, Serves
<1>2. PICK e \in RefundCases : work[p].id = {e} /\ work[p].kind \in Refunds /\ case[e].kind = work[p].kind
  BY <1>1 DEF Refunding
<1>3. e \in Events /\ IdOf(p) = e
  BY <1>2, IdOfSingle DEF Events
<1> QED  BY <1>1, <1>2, <1>3, KindsApart

LEMMA RefundCommitStep ==
  ASSUME IInv, NEW p \in Procs, RefundCommit(p)
  PROVE  IInv'
<1>1. work[p].op = "confirm" /\ UNCHANGED calm /\ calm \in BOOLEAN /\ missed \subseteq Events /\ Goes(p, Idle)
  BY DEF RefundCommit, Busy, IInv, Shapes
<1>2. PICK e \in RefundCases : e = IdOf(p)
  BY <1>1, RefundingIs
<1>3. PICK kind \in Refunds : kind = work[p].kind
  BY <1>1, RefundingIs
<1>4. e \in Events /\ kind \in Kinds /\ case[e].kind = kind /\ work[p] \in Work
  BY <1>1, <1>2, <1>3, RefundingIs
<1>5. CASE RefundRefused(e, kind)
  <2>1. UNCHANGED <<case, ledger, row, log, missed>>
    BY <1>2, <1>3, <1>5 DEF RefundCommit
  <2> QED  BY <1>1, <2>1, IdleIsWork, IdleServes, OnlyWork
<1>6. CASE ~RefundRefused(e, kind)
  <2> DEFINE entry == [status |-> "applied", kind |-> kind, version |-> RefundVersion]
  <2>1. case[e].status = "unconfirmed" /\ ledger[e] = NoEvent /\ e \notin Reports /\ e \notin Notices
    BY <1>4, <1>6, EntitlementAssumption DEF RefundRefused, IInv, LedgerIsTheirs
  <2>2. /\ entry \in Entries /\ entry.status = "applied" /\ entry.kind = kind /\ entry.version = 2
        /\ entry # NoEvent
    BY <1>4 DEF Entries, RefundVersion, Versions, NoEvent
  <2>3. ledger' = [ledger EXCEPT ![e] = entry] /\ case' = [case EXCEPT ![e] = Confirmed(case[e])]
    BY <1>2, <1>3, <1>4, <1>6 DEF RefundCommit, IInv, Shapes
  <2> HIDE DEF entry
  <2>4. Confirmed(case[e]) \in CaseRows /\ Confirmed(case[e]).kind = kind /\ Confirmed(case[e]).status = "confirmed"
    BY <1>4 DEF IInv, Shapes, CaseRows, Confirmed
  <2>5. /\ ledger' \in [Events -> Entries] /\ ledger'[e] = entry
        /\ \A d \in Events \ {e} : ledger'[d] = ledger[d]
        /\ case' \in [Events -> CaseRows] /\ case'[e].kind = kind /\ case'[e].status = "confirmed"
        /\ \A d \in Events \ {e} : case'[d] = case[d]
    BY <1>4, <2>2, <2>3, <2>4 DEF IInv, Shapes
  <2>6. ~Contains(log, e)
    BY <2>1 DEF IInv, LogIsRecorded, Recorded, Contains, Shapes
  <2>7. /\ log' \in Seq(Events) /\ IsInjective(log') /\ (\A d : Contains(log, d) => Contains(log', d))
        /\ Contains(log', e) \/ e \in missed'
        /\ missed \subseteq missed' /\ missed' \subseteq Events
        /\ row' \in Rows /\ (row'.state = "none" => row' = NoRow)
        /\ \A i \in DOMAIN log' : log'[i] \in Recorded \cup {e}
    <3>1. CASE work[p].row = NoRow
      <4>1. missed' = missed \cup {e} /\ UNCHANGED <<row, log>>
        BY <1>2, <1>3, <1>6, <3>1 DEF RefundCommit
      <4> QED  BY <1>4, <4>1 DEF IInv, Shapes, EffectsHappenOnce, LogIsRecorded
    <3>2. CASE work[p].row # NoRow
      <4>1. row' = Written(kind, work[p].row) /\ log' = Append(log, e) /\ missed' = missed
        BY <1>2, <1>3, <1>6, <3>2 DEF RefundCommit
      <4>2. log' \in Seq(Events) /\ IsInjective(log') /\ (\A d : Contains(log, d) => Contains(log', d)) /\ Contains(log', e)
        BY <1>4, <2>6, <4>1, Appends
      <4>3. \A i \in DOMAIN log' : log'[i] \in Recorded \cup {e}
        BY <1>4, <4>1, Appends DEF IInv, LogIsRecorded
      <4>4. row' \in Rows /\ (row'.state = "none" => row' = NoRow)
        <5>1. work[p].row \in Rows
          BY <1>4 DEF Work
        <5>2. work[p].row.state # "none"
          BY <1>1, <3>2 DEF IInv, Served, Serves
        <5> QED  BY <1>4, <4>1, <5>1, <5>2, WrittenIs
      <4> QED  BY <1>1, <4>1, <4>2, <4>3, <4>4
    <3> QED  BY <3>1, <3>2
  <2>8. Grows
    BY <1>4, <2>1, <2>5, <2>7 DEF Grows, Settled, Recorded
  <2>9. work' \in [Procs -> Work] /\ Served'
    BY <1>1, <2>8, IdleIsWork, IdleServes, Moves DEF Goes
  <2>10. Shapes'
    BY <1>1, <2>5, <2>7, <2>9 DEF Shapes
  <2>11. Bounded'
    <3>1. PICK b \in Nat : \A d \in Events : ledger[d].version <= b
      BY DEF IInv, Bounded
    <3>2. \A d \in Events : ledger[d].version \in Nat
      BY DEF IInv, Shapes, Entries, Versions
    <3>3. \A d \in Events : ledger'[d].version <= b + 2
      BY <2>2, <2>5, <3>1, <3>2
    <3> QED  BY <3>3 DEF Bounded
  <2>12. CasesAreTheirs'
    BY <2>1, <2>5 DEF IInv, CasesAreTheirs, Events
  <2>13. LedgerIsTheirs'
    <3>1. \A d \in Events : ledger'[d].status = "none" <=> ledger'[d] = NoEvent
      BY <2>2, <2>5 DEF IInv, LedgerIsTheirs
    <3>2. \A d \in Reports : ledger'[d] # NoEvent => ledger'[d].kind \in Reported
      BY <2>1, <2>5 DEF IInv, LedgerIsTheirs, Events
    <3>3. \A d \in Notices : ledger'[d] # NoEvent => ledger'[d].kind \in Disputes /\ ledger'[d].kind = case'[d].kind
      BY <2>1, <2>5 DEF IInv, LedgerIsTheirs, Events
    <3>4. \A d \in RefundCases : /\ ledger'[d] # NoEvent => ledger'[d].status = "applied" /\ ledger'[d].kind = case'[d].kind
                                 /\ ledger'[d] # NoEvent => ledger'[d].version = RefundVersion
                                 /\ ledger'[d] # NoEvent <=> case'[d].status = "confirmed"
      BY <2>2, <2>5 DEF IInv, LedgerIsTheirs, Events, RefundVersion
    <3> QED  BY <3>1, <3>2, <3>3, <3>4 DEF LedgerIsTheirs
  <2>14. LogIsRecorded'
    BY <2>2, <2>5, <2>7 DEF LogIsRecorded, Recorded
  <2>15. EffectsHappenOnce'
    <3>1. \A d \in Events : ledger'[d].status = "applied" => Contains(log', d) \/ d \in missed'
      BY <2>5, <2>7 DEF IInv, EffectsHappenOnce
    <3>2. \A d \in Events : case'[d].status = "processed" => ledger'[d].status = "applied"
      BY <2>2, <2>5 DEF IInv, EffectsHappenOnce
    <3>3. \A d \in Events : case'[d].kind \in Refunds => (case'[d].status = "confirmed" <=> ledger'[d].status = "applied")
      BY <2>2, <2>5 DEF IInv, EffectsHappenOnce
    <3> QED  BY <2>7, <3>1, <3>2, <3>3 DEF EffectsHappenOnce
  <2> QED  BY <2>9, <2>10, <2>11, <2>12, <2>13, <2>14, <2>15 DEF IInv
<1> QED  BY <1>5, <1>6

LEMMA SameVars == IInv /\ UNCHANGED vars => IInv'
<1> SUFFICES ASSUME IInv, UNCHANGED vars PROVE IInv'
  OBVIOUS
<1>1. UNCHANGED <<row, ledger, log, case, work, calm, decided, missed>>
  BY DEF vars, history
<1>2. Served'
  BY <1>1 DEF IInv, Served, Serves, Received, Applying, Taken, Told, Refunding, Settled, Recorded
<1>3. Shapes' /\ Bounded' /\ CasesAreTheirs' /\ LedgerIsTheirs' /\ LogIsRecorded' /\ EffectsHappenOnce'
  BY <1>1 DEF IInv, Shapes, Bounded, CasesAreTheirs, LedgerIsTheirs, LogIsRecorded, EffectsHappenOnce, Recorded
<1> QED  BY <1>2, <1>3 DEF IInv

LEMMA NextHolds == IInv /\ [Next]_vars => IInv'
<1> SUFFICES ASSUME IInv, [Next]_vars PROVE IInv'
  OBVIOUS
<1>1. ASSUME NEW p \in Procs, NEW e \in Reports, NEW kind \in Reported, NEW v \in 1 .. 2, Report(p, e, kind, v)
      PROVE  IInv'
  BY <1>1, ReportStep
<1>2. ASSUME NEW p \in Procs, NEW e \in Notices, NEW kind \in Disputes, Webhook(p, e, kind) PROVE IInv'
  BY <1>2, WebhookStep
<1>3. ASSUME NEW p \in Procs, NEW e \in Notices, NEW covered \in BOOLEAN, Reconcile(p, e, covered) PROVE IInv'
  BY <1>3, ReconcileStep
<1>4. ASSUME NEW p \in Procs, NextVersion(p) \/ Decide(p) \/ Record(p) \/ Sweep(p) PROVE IInv'
  BY <1>4, NextVersionStep, DecideStep, RecordStep, SweepStep
<1>5. ASSUME NEW p \in Procs, NEW covered \in BOOLEAN, RebuildRead(p, covered) PROVE IInv'
  BY <1>5, RebuildReadStep
<1>6. ASSUME NEW p \in Procs, RebuildCommit(p) \/ EffectRead(p) \/ EffectWrite(p) \/ Finish(p) \/ Settle(p)
      PROVE  IInv'
  BY <1>6, RebuildCommitStep, EffectReadStep, EffectWriteStep, FinishStep, SettleStep
<1>7. ASSUME NEW p \in Procs, NEW e \in RefundCases, NEW kind \in Refunds, OpenRefund(p, e, kind) PROVE IInv'
  BY <1>7, OpenRefundStep
<1>8. ASSUME NEW p \in Procs, NEW e \in RefundCases, RefundPay(p, e) PROVE IInv'
  BY <1>8, RefundPayStep
<1>9. ASSUME NEW p \in Procs, RefundRead(p) \/ RefundCommit(p) \/ Abandon(p) PROVE IInv'
  BY <1>9, RefundReadStep, RefundCommitStep, AbandonStep
<1>10. CASE UNCHANGED vars
  BY <1>10, SameVars
<1> QED  BY <1>1, <1>2, <1>3, <1>4, <1>5, <1>6, <1>7, <1>8, <1>9, <1>10 DEF Next

LEMMA IInvSuffices == IInv => TypeOK /\ EffectsHappenOnce
<1> SUFFICES ASSUME IInv PROVE TypeOK
  BY DEF IInv
<1>1. ASSUME NEW e \in Events, case[e] # NoCase, ledger[e] # NoEvent PROVE case[e].kind = ledger[e].kind
  BY <1>1 DEF IInv, CasesAreTheirs, LedgerIsTheirs, Events
<1> QED  BY <1>1 DEF IInv, Shapes, Entries, CaseRows, TypeOK

-----------------------------------------------------------------------------
(* Requests in turn: while none overlaps another and none dies, at most one is served; what it *)
(* records is newer than what was applied, and nothing else is pending.                        *)

Latest(w) ==
  \A e \in Events : ledger[e].status = "applied" /\ SourceOf(ledger[e].kind) = SourceOf(w.kind)
                      => ledger[e].version < w.version
After(e) ==
  \A i \in DOMAIN log : SourceOf(ledger[log[i]].kind) = SourceOf(ledger[e].kind)
                           => ledger[log[i]].version < ledger[e].version
InTurn(w) ==
  /\ w.op = "record" => Latest(w)
  /\ w.op \in {"effect", "write"} => \E e \in Pending : w.rest = {e} /\ After(e)
  /\ w.op = "finish" => \E e \in Pending : w.rest = {e}
  /\ w.op \in {"write", "confirm"} => w.row = row
OneAtATime == \A p, q \in Procs : ~Busy(p, "idle") /\ ~Busy(q, "idle") => p = q
AppliesAt(w, e) == w.op \in {"effect", "write", "finish"} /\ w.rest = {e}
MarksAt(w, e) == w.op = "finish" /\ w.id = {e}
PendingIsServed == \A e \in Pending : \E p \in Procs : AppliesAt(work[p], e)
LogIsApplied ==
  \A i \in DOMAIN log : ledger[log[i]].status = "applied" \/ \E p \in Procs : MarksAt(work[p], log[i])
Turns ==
  calm => OneAtATime /\ (\A p \in Procs : InTurn(work[p])) /\ PendingIsServed /\ LogIsApplied
TInv == Turns /\ NewestDecisionStands
Calm == IInv /\ IInv' /\ TInv /\ calm /\ calm'

LEMMA TurnStep ==
  ASSUME Calm, NEW p \in Procs, NEW w \in Work, Goes(p, w),
         \A q \in Procs \ {p} : Busy(q, "idle"),
         InTurn(w)', \A e \in Pending' : AppliesAt(w, e),
         \A i \in DOMAIN log' : ledger'[log'[i]].status = "applied" \/ MarksAt(w, log'[i])
  PROVE  Turns'
<1>1. work'[p] = w /\ \A q \in Procs \ {p} : work'[q] = work[q] /\ work'[q].op = "idle"
  BY DEF Goes, Calm, IInv, Shapes, Busy
<1>2. OneAtATime'
  BY <1>1 DEF OneAtATime, Busy
<1>3. \A q \in Procs : InTurn(work[q])'
  <2>1. ASSUME NEW q \in Procs \ {p} PROVE InTurn(work[q])'
    BY <1>1 DEF InTurn
  <2>2. InTurn(work[p])'
    BY <1>1 DEF InTurn, Latest
  <2> QED  BY <2>1, <2>2
<1>4. PendingIsServed' /\ LogIsApplied'
  BY <1>1 DEF PendingIsServed, LogIsApplied
<1> QED  BY <1>2, <1>3, <1>4 DEF Turns

LEMMA Alone ==
  ASSUME Calm, NEW p \in Procs, ~Busy(p, "idle")
  PROVE  \A q \in Procs \ {p} : Busy(q, "idle")
BY DEF Calm, TInv, Turns, OneAtATime

\* Nothing is pending, and the log is applied, but for what is being applied.
LEMMA NothingPends ==
  ASSUME Calm, NEW p \in Procs, \A q \in Procs \ {p} : Busy(q, "idle"),
         work[p].op \notin {"effect", "write", "finish"}
  PROVE  Pending = {} /\ \A i \in DOMAIN log : ledger[log[i]].status = "applied"
BY DEF Calm, TInv, Turns, PendingIsServed, LogIsApplied, AppliesAt, MarksAt, Busy

LEMMA SameDecision ==
  ASSUME Calm, UNCHANGED <<row, ledger, log, decided>>
  PROVE  NewestDecisionStands'
BY DEF Calm, TInv, NewestDecisionStands

\* A step that leaves the ledger, the log and the row alone, of a request that applies nothing.
LEMMA QuietStep ==
  ASSUME Calm, NEW p \in Procs, NEW w \in Work, Goes(p, w), \A q \in Procs \ {p} : Busy(q, "idle"),
         work[p].op \notin {"effect", "write", "finish"}, UNCHANGED <<row, ledger, log, decided>>, InTurn(w)'
  PROVE  TInv'
<1>1. Pending' = {} /\ \A i \in DOMAIN log' : ledger'[log'[i]].status = "applied"
  BY NothingPends DEF Pending
<1> QED  BY <1>1, TurnStep, SameDecision DEF TInv

LEMMA ArrivesInTurn ==
  ASSUME Calm, NEW p \in Procs, NEW w \in Work, Arrive(p, w), UNCHANGED <<row, ledger, log>>,
         w.op \notin {"record", "effect", "write", "finish", "confirm"}
  PROVE  TInv'
<1>1. Goes(p, w) /\ decided' = decided /\ (\A q \in Procs : Busy(q, "idle"))
  BY DEF Arrive, Calm
<1>2. InTurn(w)'
  BY DEF InTurn
<1> QED  BY <1>1, <1>2, QuietStep DEF Busy

(* The steps that apply nothing. *)

LEMMA ReportTurns ==
  ASSUME Calm, NEW p \in Procs, NEW e \in Reports, NEW kind \in Reported, NEW v \in 1..2, Report(p, e, kind, v)
  PROVE  TInv'
<1>1. e \in Events /\ kind \in Kinds /\ v \in Nat
  BY KindsApart DEF Events
<1>2. PICK w \in Work : w = [Idle EXCEPT !.op = "decide", !.from = "report", !.id = {e}, !.kind = kind, !.version = v]
  BY <1>1, IdleIsWork DEF Work, Versions
<1>3. w.op = "decide"
  BY <1>2, IdleIsWork DEF Work
<1> QED  BY <1>2, <1>3, ArrivesInTurn DEF Report

LEMMA WebhookTurns ==
  ASSUME Calm, NEW p \in Procs, NEW e \in Notices, NEW kind \in Disputes, Webhook(p, e, kind)
  PROVE  TInv'
<1>1. e \in Events /\ kind \in Kinds
  BY KindsApart DEF Events
<1>2. PICK w \in Work : w = [Idle EXCEPT !.op = "version", !.from = "provider", !.id = {e}, !.kind = kind]
  BY <1>1, IdleIsWork DEF Work
<1>3. w.op = "version" /\ Idle \in Work /\ Idle.op = "idle"
  BY <1>2, IdleIsWork DEF Work
<1> QED  BY <1>2, <1>3, ArrivesInTurn DEF Webhook

LEMMA ReconcileTurns ==
  ASSUME Calm, NEW p \in Procs, NEW e \in Notices, NEW covered \in BOOLEAN, Reconcile(p, e, covered)
  PROVE  TInv'
<1>1. e \in Events
  BY DEF Events
<1>2. "reversal" \in Kinds \/ case[e].kind \notin Kinds
  BY DEF Reconcile
<1>3. "reversal" \in Kinds
  BY <1>2, KindsApart DEF Reconcile, Calm, IInv, CasesAreTheirs, NoCase
<1>4. PICK w \in Work : w = [Idle EXCEPT !.op = "version", !.from = "provider", !.id = {e}, !.kind = "reversal"]
  BY <1>1, <1>3, IdleIsWork DEF Work
<1>5. w.op = "version" /\ Idle \in Work /\ Idle.op = "idle"
  BY <1>4, IdleIsWork DEF Work
<1> QED  BY <1>4, <1>5, ArrivesInTurn DEF Reconcile

LEMMA RebuildReadTurns ==
  ASSUME Calm, NEW p \in Procs, NEW covered \in BOOLEAN, RebuildRead(p, covered)
  PROVE  TInv'
<1>1. PICK w \in Work : w = [Idle EXCEPT !.op = "rebuild", !.row.state = IF covered THEN "active" ELSE "inactive"]
  BY IdleIsWork, SomeStates DEF Work, Rows
<1>2. w.op = "rebuild"
  BY <1>1, IdleIsWork DEF Work
<1> QED  BY <1>1, <1>2, ArrivesInTurn DEF RebuildRead

LEMMA RefundPayTurns ==
  ASSUME Calm, NEW p \in Procs, NEW e \in RefundCases, RefundPay(p, e)
  PROVE  TInv'
<1>1. e \in Events /\ case[e].kind \in Kinds
  BY KindsApart DEF Calm, IInv, CasesAreTheirs, RefundPay, NoCase, Events
<1>2. PICK w \in Work : w = [Idle EXCEPT !.op = "refund", !.id = {e}, !.kind = case[e].kind]
  BY <1>1, IdleIsWork DEF Work
<1>3. w.op = "refund"
  BY <1>2, IdleIsWork DEF Work
<1> QED  BY <1>2, <1>3, ArrivesInTurn DEF RefundPay

\* A sweep has nothing to replay: it could only overlap the request that serves the event.
LEMMA SweepTurns ==
  ASSUME Calm, NEW p \in Procs, Sweep(p)
  PROVE  TInv'
<1>1. (\A q \in Procs : work[q].op = "idle") /\ Pending # {}
  BY DEF Sweep, Arrive, Calm, Busy
<1>2. Pending = {}
  BY <1>1 DEF Calm, TInv, Turns, PendingIsServed, AppliesAt
<1> QED  BY <1>1, <1>2

LEMMA OpenRefundTurns ==
  ASSUME Calm, NEW p \in Procs, NEW e \in RefundCases, NEW kind \in Refunds, OpenRefund(p, e, kind)
  PROVE  TInv'
<1>1. UNCHANGED <<row, ledger, log, work, decided, calm>>
  BY DEF OpenRefund, history
<1>2. Turns'
  BY <1>1 DEF Calm, TInv, Turns, OneAtATime, Busy, InTurn, Latest, After, Pending, PendingIsServed, LogIsApplied
<1> QED  BY <1>1, <1>2, SameDecision DEF TInv

LEMMA NextVersionTurns ==
  ASSUME Calm, NEW p \in Procs, NextVersion(p)
  PROVE  TInv'
<1>1. work[p].op = "version" /\ work[p] \in Work /\ UNCHANGED <<row, ledger, log, decided>>
  BY DEF NextVersion, Busy, history, Calm, IInv, Shapes
<1>2. PICK v \in Nat : v = Newest(OfSources(Numbered(work[p].kind))) + 1
  <2>1. OfSources(Numbered(work[p].kind)) \in SUBSET Events
    BY DEF OfSources
  <2> QED  BY <2>1, NewestBounds DEF Calm, IInv
<1>3. PICK w \in Work : w = [work[p] EXCEPT !.op = "decide", !.version = v]
  BY <1>1 DEF Work, Versions
<1>4. w.op = "decide" /\ Goes(p, w)
  BY <1>1, <1>2, <1>3 DEF Work, NextVersion
<1>5. InTurn(w)'
  BY <1>4 DEF InTurn
<1>6. \A q \in Procs \ {p} : Busy(q, "idle")
  BY <1>1, Alone DEF Busy
<1> QED  BY <1>1, <1>4, <1>5, <1>6, QuietStep

LEMMA SourcesKnown ==
  ASSUME NEW kind \in Kinds
  PROVE  SourceOf(kind) = "billing_refund" <=> kind \in Refunds
BY DEF SourceOf, Refunds, Disputes

\* An event newer than the newest applied one of its source is newer than all of them.
LEMMA FreshIsLatest ==
  ASSUME IInv, NEW w \in Work, w.kind \in Kinds, ~IsStale(w.kind, w.version), ~Conflicts(w.kind, w.version)
  PROVE  Latest(w)
<1>1. PICK S \in SUBSET Events : S = {e \in OfSources({SourceOf(w.kind)}) : ledger[e].status = "applied"}
  BY DEF OfSources
<1>2. LatestApplied(w.kind) = Newest(S)
  BY <1>1 DEF LatestApplied
<1>3. Newest(S) \in Nat /\ \A e \in S : ledger[e].version <= Newest(S)
  BY NewestBounds DEF IInv
<1>4. w.version \in Nat /\ Newest(S) < w.version
  BY <1>2, <1>3 DEF IsStale, Conflicts, Work, Versions
<1>5. ASSUME NEW e \in Events, ledger[e].status = "applied", SourceOf(ledger[e].kind) = SourceOf(w.kind)
      PROVE  ledger[e].version < w.version
  <2>1. e \in S
    BY <1>1, <1>5 DEF OfSources, NoEvent
  <2>2. ledger[e].version \in Nat
    BY DEF IInv, Shapes, Entries, Versions
  <2> QED  BY <1>3, <1>4, <2>1, <2>2
<1> QED  BY <1>5 DEF Latest

LEMMA DecideTurns ==
  ASSUME Calm, NEW p \in Procs, Decide(p)
  PROVE  TInv'
<1>1. work[p].op = "decide" /\ UNCHANGED <<row, ledger, log, decided>> /\ IInv
  BY DEF Decide, Busy, history, Calm
<1>2. PICK e \in Events : e = IdOf(p)
  BY <1>1, Arrived DEF Arriving
<1>3. work[p] \in Work /\ work[p].kind \in Kinds
  BY <1>1, Arrived DEF Arriving
<1>4. \A q \in Procs \ {p} : Busy(q, "idle")
  BY <1>1, Alone DEF Busy
<1>5. e \notin Pending
  BY <1>1, <1>4, NothingPends
<1>6. CASE Goes(p, Idle)
  <2>1. InTurn(Idle)'
    BY IdleIsWork DEF InTurn
  <2> QED  BY <1>1, <1>4, <1>6, <2>1, IdleIsWork, QuietStep
<1>7. CASE Goes(p, [work[p] EXCEPT !.op = "quarantine"])
  <2>1. PICK w \in Work : w = [work[p] EXCEPT !.op = "quarantine"]
    BY <1>3 DEF Work
  <2>2. w.op = "quarantine"
    BY <1>3, <2>1 DEF Work
  <2>3. InTurn(w)'
    BY <2>2 DEF InTurn
  <2> QED  BY <1>1, <1>4, <1>7, <2>1, <2>3, QuietStep
<1>8. CASE /\ ~IsStale(work[p].kind, work[p].version) /\ ~Conflicts(work[p].kind, work[p].version)
           /\ Goes(p, [work[p] EXCEPT !.op = "record"])
  <2>1. PICK w \in Work : w = [work[p] EXCEPT !.op = "record"]
    BY <1>3 DEF Work
  <2>2. w.op = "record" /\ w.kind = work[p].kind /\ w.version = work[p].version
    BY <1>3, <2>1 DEF Work
  <2>3. Latest(w)
    BY <1>1, <1>3, <1>8, <2>2, FreshIsLatest
  <2>4. InTurn(w)'
    BY <1>1, <2>2, <2>3 DEF InTurn, Latest
  <2> QED  BY <1>1, <1>4, <1>8, <2>1, <2>4, QuietStep
<1> QED  BY <1>2, <1>5, <1>6, <1>7, <1>8 DEF Decide, Pending

LEMMA RefundReadTurns ==
  ASSUME Calm, NEW p \in Procs, RefundRead(p)
  PROVE  TInv'
<1>1. work[p].op = "refund" /\ work[p] \in Work /\ row \in Rows /\ UNCHANGED <<row, ledger, log, decided>>
  BY DEF RefundRead, Busy, history, Calm, IInv, Shapes
<1>2. PICK w \in Work : w = [work[p] EXCEPT !.op = "confirm", !.row = row]
  BY <1>1 DEF Work
<1>3. w.op = "confirm" /\ w.row = row /\ Goes(p, w)
  BY <1>1, <1>2 DEF Work, RefundRead
<1>4. InTurn(w)'
  BY <1>1, <1>3 DEF InTurn
<1>5. \A q \in Procs \ {p} : Busy(q, "idle")
  BY <1>1, Alone DEF Busy
<1> QED  BY <1>1, <1>3, <1>4, <1>5, QuietStep

LEMMA SettleTurns ==
  ASSUME Calm, NEW p \in Procs, Settle(p)
  PROVE  TInv'
<1>1. work[p].op = "settle" /\ UNCHANGED <<row, ledger, log, decided>> /\ Goes(p, Idle)
  BY DEF Settle, Busy, history
<1>2. InTurn(Idle)'
  BY IdleIsWork DEF InTurn
<1>3. \A q \in Procs \ {p} : Busy(q, "idle")
  BY <1>1, Alone DEF Busy
<1> QED  BY <1>1, <1>2, <1>3, IdleIsWork, QuietStep

-----------------------------------------------------------------------------
(* The steps that record and apply an event. *)

LEMMA RecordTurns ==
  ASSUME Calm, NEW p \in Procs, Record(p)
  PROVE  TInv'
<1>1. work[p].op \in {"record", "quarantine"} /\ UNCHANGED <<row, log, decided>> /\ IInv
  BY DEF Record, Busy, history, Calm
<1>2. PICK e \in Events : e = IdOf(p)
  BY <1>1, Arrived DEF Arriving
<1>3. PICK from \in {"report", "provider"} : from = work[p].from
  BY <1>1, Arrived DEF Arriving
<1>4. work[p] \in Work /\ work[p].kind \in Kinds
  BY <1>1, Arrived DEF Arriving
<1>5. \A q \in Procs \ {p} : Busy(q, "idle")
  BY <1>1, Alone DEF Busy
<1>6. Pending = {} /\ \A i \in DOMAIN log : ledger[log[i]].status = "applied" /\ log[i] \in Recorded
  BY <1>1, <1>5, NothingPends DEF IInv, LogIsRecorded
<1>7. CASE ledger[e] # NoEvent
  <2>1. UNCHANGED ledger /\ Goes(p, Idle)
    BY <1>2, <1>7 DEF Record
  <2>2. InTurn(Idle)'
    BY IdleIsWork DEF InTurn
  <2> QED  BY <1>1, <1>5, <2>1, <2>2, IdleIsWork, QuietStep
<1>8. CASE ledger[e] = NoEvent
  <2>1. PICK status \in {"pending", "quarantined"} : status = IF Busy(p, "record") THEN "pending" ELSE "quarantined"
    OBVIOUS
  <2>2. PICK entry \in Entries : entry = [status |-> status, kind |-> work[p].kind, version |-> work[p].version]
    BY <1>4, <2>1 DEF Work, Entries
  <2>3. ledger' = [ledger EXCEPT ![e] = entry] /\ Goes(p, IF status = "pending" THEN ToApply(from, {e}) ELSE Idle)
    BY <1>2, <1>3, <1>8, <2>1, <2>2 DEF Record
  <2>4. ledger'[e] = entry /\ (\A d \in Events \ {e} : ledger'[d] = ledger[d]) /\ entry.status = status
        /\ entry.kind = work[p].kind /\ entry.version = work[p].version
    BY <1>1, <2>2, <2>3 DEF IInv, Shapes
  <2>5. \A i \in DOMAIN log : log[i] \in Events /\ log[i] # e
    BY <1>6, <1>8 DEF Recorded
  <2>6. \A i \in DOMAIN log : ledger'[log[i]] = ledger[log[i]] /\ ledger'[log[i]].status = "applied"
    BY <1>6, <2>4, <2>5
  <2>7. NewestDecisionStands'
    BY <1>1, <2>6 DEF Calm, TInv, NewestDecisionStands
  <2>8. CASE status = "pending"
    <3>1. Pending' = {e} /\ Latest(work[p])
      BY <1>1, <1>6, <2>1, <2>4, <2>8 DEF Pending, Busy, Calm, TInv, Turns, InTurn
    <3>2. After(e)'
      BY <1>1, <1>6, <2>4, <2>5, <2>6, <3>1 DEF After, Latest, Recorded
    <3>3. PICK w \in Work : w = ToApply(from, {e})
      BY ToApplyIs
    <3>4. w.op = "effect" /\ w.rest = {e}
      BY <3>3, ToApplyIs
    <3>5. InTurn(w)' /\ \A d \in Pending' : AppliesAt(w, d)
      BY <3>1, <3>2, <3>4 DEF InTurn, AppliesAt
    <3>6. Turns'
      BY <1>1, <1>5, <2>3, <2>6, <2>8, <3>3, <3>5, TurnStep
    <3> QED  BY <2>7, <3>6 DEF TInv
  <2>9. CASE status = "quarantined"
    <3>1. Pending' = {}
      BY <1>6, <2>4, <2>9 DEF Pending
    <3>2. InTurn(Idle)'
      BY IdleIsWork DEF InTurn
    <3>3. Turns'
      BY <1>1, <1>5, <2>3, <2>6, <2>9, <3>1, <3>2, IdleIsWork, TurnStep
    <3> QED  BY <2>7, <3>3 DEF TInv
  <2> QED  BY <2>8, <2>9
<1> QED  BY <1>7, <1>8

\* Whoever applies an event applies the only one that is pending.
LEMMA OnlyPending ==
  ASSUME Calm, NEW p \in Procs, work[p].op \in {"effect", "write", "finish"}, NEW e \in work[p].rest
  PROVE  /\ work[p] \in Work /\ work[p].rest = {e} /\ Pending = {e} /\ e \in Events /\ ledger[e].status = "pending"
         /\ (work[p].op \in {"effect", "write"} => After(e)) /\ (work[p].op = "write" => work[p].row = row)
         /\ \A q \in Procs \ {p} : Busy(q, "idle")
         /\ \A i \in DOMAIN log : ledger[log[i]].status = "applied" \/ MarksAt(work[p], log[i])
<1>1. \A q \in Procs \ {p} : Busy(q, "idle")
  BY Alone DEF Busy
<1>2. InTurn(work[p]) /\ work[p] \in Work /\ PendingIsServed /\ LogIsApplied
  BY DEF Calm, TInv, Turns, IInv, Shapes
<1>3. PICK d \in Pending : work[p].rest = {d} /\ (work[p].op \in {"effect", "write"} => After(d))
  BY <1>2 DEF InTurn
<1>4. d = e
  BY <1>3
<1>5. \A x \in Pending : x = e
  BY <1>1, <1>2, <1>3, <1>4 DEF PendingIsServed, AppliesAt, Busy
<1>6. \A i \in DOMAIN log : ledger[log[i]].status = "applied" \/ MarksAt(work[p], log[i])
  BY <1>1, <1>2 DEF LogIsApplied, MarksAt, Busy
<1> QED  BY <1>1, <1>2, <1>3, <1>4, <1>5, <1>6 DEF Pending, InTurn

LEMMA EffectReadTurns ==
  ASSUME Calm, NEW p \in Procs, EffectRead(p)
  PROVE  TInv'
<1>1. work[p].op = "effect" /\ UNCHANGED <<row, ledger, log, decided>>
  BY DEF EffectRead, Busy
<1>2. PICK e \in work[p].rest :
       IF Skips(p, e)
         THEN Goes(p, ToApply("repair", work[p].rest \ {e})) /\ UNCHANGED missed
         ELSE IF row = NoRow \/ Contains(log, e)
           THEN /\ Goes(p, [work[p] EXCEPT !.id = {e}, !.op = "finish"])
                /\ missed' = IF row = NoRow THEN missed \cup {e} ELSE missed
           ELSE /\ Goes(p, [work[p] EXCEPT !.id = {e}, !.op = "write", !.row = row])
                /\ UNCHANGED missed
  BY DEF EffectRead
<1>3. /\ work[p] \in Work /\ work[p].rest = {e} /\ Pending = {e} /\ e \in Events
      /\ ledger[e].status = "pending" /\ After(e)
      /\ (\A q \in Procs \ {p} : Busy(q, "idle"))
      /\ \A i \in DOMAIN log : ledger[log[i]].status = "applied"
  BY <1>1, OnlyPending DEF MarksAt
<1>4. Pending' = {e} /\ After(e)' /\ \A i \in DOMAIN log' : ledger'[log'[i]].status = "applied"
  BY <1>1, <1>3 DEF Pending, After
<1>5. NewestDecisionStands'
  BY <1>1, SameDecision
<1>6. PICK w \in Work : Goes(p, w) /\ w.rest = {e} /\ (w.op = "finish" \/ (w.op = "write" /\ w.row = row))
  <2>1. ~Skips(p, e) /\ row \in Rows
    BY <1>3 DEF Skips, Calm, IInv, Shapes
  <2>2. PICK w \in Work : w = [work[p] EXCEPT !.id = {e}, !.op = "finish"]
    BY <1>3 DEF Work
  <2>3. PICK u \in Work : u = [work[p] EXCEPT !.id = {e}, !.op = "write", !.row = row]
    BY <1>3, <2>1 DEF Work
  <2>4. w.rest = {e} /\ w.op = "finish" /\ u.rest = {e} /\ u.op = "write" /\ u.row = row
    BY <1>3, <2>1, <2>2, <2>3 DEF Work
  <2> QED  BY <1>2, <2>1, <2>2, <2>3, <2>4
<1>7. InTurn(w)' /\ \A d \in Pending' : AppliesAt(w, d)
  BY <1>1, <1>4, <1>6 DEF InTurn, AppliesAt
<1>8. Turns'
  BY <1>3, <1>4, <1>6, <1>7, TurnStep
<1> QED  BY <1>5, <1>8 DEF TInv

\* An event that enters the log after all of its source, and decides the state.
LEMMA DecisionStands ==
  ASSUME Calm, NEW e \in Events, NEW kind \in Kinds, ledger'[e].kind = kind,
         log' = Append(log, e), row' = Written(kind, row), row # NoRow, Decides(StateAfter(kind, decided)),
         \A i \in DOMAIN log : /\ ledger'[log[i]] = ledger[log[i]]
                               /\ SourceOf(ledger[log[i]].kind) = SourceOf(kind) => ledger[log[i]].version < ledger'[e].version
  PROVE  NewestDecisionStands'
<1>1. /\ row \in Rows /\ row.state # "none" /\ row.state = decided /\ row.version = Len(log) /\ IInv
      /\ decided' = StateAfter(kind, decided)
  BY DEF Calm, IInv, Shapes, TInv, NewestDecisionStands, Decides
<1>2. row'.state = decided' /\ row'.version = Len(log) + 1
  BY <1>1, WrittenIs
<1>3. /\ DOMAIN log = 1..Len(log) /\ DOMAIN log' = 1..Len(log) + 1 /\ Len(log') = Len(log) + 1
      /\ Len(log) \in Nat
      /\ (\A i \in 1..Len(log) : log'[i] = log[i]) /\ log'[Len(log) + 1] = e
  BY <1>1, Appends
<1>4. ASSUME NEW i \in DOMAIN log', NEW j \in DOMAIN log', i < j,
             SourceOf(ledger'[log'[i]].kind) = SourceOf(ledger'[log'[j]].kind)
      PROVE  ledger'[log'[i]].version < ledger'[log'[j]].version
  <2>1. i \in DOMAIN log /\ log'[i] = log[i] /\ ledger'[log[i]] = ledger[log[i]]
    BY <1>3, <1>4
  <2>2. CASE j = Len(log) + 1
    BY <1>3, <1>4, <2>1, <2>2
  <2>3. CASE j # Len(log) + 1
    <3>1. j \in DOMAIN log /\ log'[j] = log[j] /\ ledger'[log[j]] = ledger[log[j]]
      BY <1>3, <2>3
    <3> QED  BY <1>4, <2>1, <3>1 DEF Calm, TInv, NewestDecisionStands
  <2> QED  BY <2>2, <2>3
<1> QED  BY <1>2, <1>3, <1>4 DEF NewestDecisionStands

LEMMA EffectWriteTurns ==
  ASSUME Calm, NEW p \in Procs, EffectWrite(p)
  PROVE  TInv'
<1>1. work[p].op = "write" /\ UNCHANGED <<ledger, calm>> /\ IInv
  BY DEF EffectWrite, Busy, Calm
<1>2. PICK e \in Events : e = IdOf(p)
  BY <1>1, TakenIs DEF Recorded
<1>3. e \in work[p].rest /\ work[p].id = {e} /\ ledger[e].kind \in Kinds
  BY <1>1, <1>2, TakenIs
<1>4. /\ work[p] \in Work /\ work[p].rest = {e} /\ Pending = {e} /\ After(e) /\ work[p].row = row
      /\ (\A q \in Procs \ {p} : Busy(q, "idle"))
      /\ \A i \in DOMAIN log : ledger[log[i]].status = "applied"
  BY <1>1, <1>3, OnlyPending DEF MarksAt
<1>5. Unlogged(e)
  BY <1>4 DEF Unlogged, Contains, Pending
<1>6. PICK w \in Work : w = [work[p] EXCEPT !.op = "finish", !.row = NoRow]
  BY <1>4, IdleIsWork DEF Work
<1>7. w.op = "finish" /\ w.rest = {e} /\ w.id = {e}
  BY <1>3, <1>4, <1>6 DEF Work
<1>8. /\ Goes(p, w) /\ row' = Written(ledger[e].kind, row) /\ log' = Append(log, e)
      /\ Decides(StateAfter(ledger[e].kind, decided))
  BY <1>2, <1>4, <1>5, <1>6 DEF EffectWrite
<1>9. Pending' = {e}
  BY <1>1, <1>4 DEF Pending
<1>10. InTurn(w)' /\ \A d \in Pending' : AppliesAt(w, d)
  BY <1>7, <1>9 DEF InTurn, AppliesAt
<1>11. \A i \in DOMAIN log' : ledger'[log'[i]].status = "applied" \/ MarksAt(w, log'[i])
  <2>1. /\ DOMAIN log = 1..Len(log) /\ DOMAIN log' = 1..Len(log) + 1 /\ Len(log) \in Nat
        /\ (\A i \in 1..Len(log) : log'[i] = log[i]) /\ log'[Len(log) + 1] = e
    BY <1>1, <1>8, Appends
  <2>2. \A i \in DOMAIN log' : i \in DOMAIN log \/ i = Len(log) + 1
    BY <2>1
  <2> QED  BY <1>1, <1>4, <1>7, <2>1, <2>2 DEF MarksAt
<1>12. Turns'
  BY <1>4, <1>8, <1>10, <1>11, TurnStep
<1>13. row # NoRow
  BY <1>1, <1>4 DEF IInv, Served, Serves, NoRow
<1>14. NewestDecisionStands'
  BY <1>1, <1>3, <1>4, <1>8, <1>13, DecisionStands DEF After
<1> QED  BY <1>12, <1>14 DEF TInv

LEMMA FinishTurns ==
  ASSUME Calm, NEW p \in Procs, Finish(p)
  PROVE  TInv'
<1>1. work[p].op = "finish" /\ UNCHANGED <<row, log, decided>> /\ IInv
  BY DEF Finish, Busy, history, Calm
<1>2. PICK e \in Events : e = IdOf(p)
  BY <1>1, TakenIs DEF Recorded
<1>3. PICK from \in {"report", "provider", "sweep", "repair"} : from = work[p].from
  BY <1>1, TakenIs
<1>4. e \in work[p].rest /\ work[p].id = {e}
  BY <1>1, <1>2, TakenIs
<1>5. /\ work[p] \in Work /\ work[p].rest = {e} /\ Pending = {e}
      /\ (\A q \in Procs \ {p} : Busy(q, "idle"))
      /\ \A i \in DOMAIN log : ledger[log[i]].status = "applied" \/ log[i] = e
  BY <1>1, <1>4, OnlyPending DEF MarksAt
<1>6. /\ ledger'[e].status = "applied" /\ ledger'[e].kind = ledger[e].kind
      /\ ledger'[e].version = ledger[e].version
      /\ \A d \in Events \ {e} : ledger'[d] = ledger[d]
  <2>1. ledger' = [ledger EXCEPT ![e] = Marked(ledger[e])] /\ ledger \in [Events -> Entries]
    BY <1>1, <1>2 DEF Finish, IInv, Shapes
  <2>2. ledger'[e] = Marked(ledger[e]) /\ ledger[e] \in Entries
    BY <2>1
  <2> QED  BY <2>1, <2>2 DEF Marked, Entries
<1>7. \A i \in DOMAIN log : /\ log[i] \in Events
                            /\ ledger'[log[i]].kind = ledger[log[i]].kind
                            /\ ledger'[log[i]].version = ledger[log[i]].version
                            /\ ledger'[log[i]].status = "applied"
  BY <1>1, <1>5, <1>6 DEF IInv, LogIsRecorded, Recorded
<1>8. NewestDecisionStands'
  BY <1>1, <1>7 DEF Calm, TInv, NewestDecisionStands
<1>9. Pending' = {}
  BY <1>5, <1>6 DEF Pending
<1>10. PICK w \in Work : Goes(p, w) /\ w.op \in {"idle", "settle"}
  <2>1. work[p].rest \ work[p].id = {} /\ ToApply(work[p].from, {}) = Idle
    BY <1>3, <1>4, <1>5, ToApplyIs
  <2>2. PICK w \in Work : w = [work[p] EXCEPT !.op = "settle"]
    BY <1>5 DEF Work
  <2>3. w.op = "settle"
    BY <1>5, <2>2 DEF Work
  <2> QED  BY <2>1, <2>2, <2>3, IdleIsWork DEF Finish, GoesOn
<1>11. InTurn(w)'
  BY <1>10 DEF InTurn
<1>12. Turns'
  BY <1>1, <1>5, <1>7, <1>9, <1>10, <1>11, TurnStep
<1> QED  BY <1>8, <1>12 DEF TInv

LEMMA RebuildCommitTurns ==
  ASSUME Calm, NEW p \in Procs, RebuildCommit(p)
  PROVE  TInv'
<1>1. work[p].op = "rebuild" /\ UNCHANGED <<ledger, log>> /\ row \in Rows
  BY DEF RebuildCommit, Busy, Calm, IInv, Shapes
<1>2. \A q \in Procs \ {p} : Busy(q, "idle")
  BY <1>1, Alone DEF Busy
<1>3. Pending = {} /\ \A i \in DOMAIN log : ledger[log[i]].status = "applied"
  BY <1>1, <1>2, NothingPends
<1>4. Goes(p, Idle)
  <2>1. ToApply("repair", {}) = Idle
    BY ToApplyIs
  <2> QED  BY <1>3, <2>1 DEF RebuildCommit
<1>5. InTurn(Idle)' /\ Pending' = {}
  BY <1>1, <1>3, IdleIsWork DEF InTurn, Pending
<1>6. Turns'
  BY <1>1, <1>2, <1>3, <1>4, <1>5, IdleIsWork, TurnStep
<1>7. row'.state = decided' /\ row'.version = row.version
  BY <1>1 DEF RebuildCommit, Overwrites, Decides, Calm, Rows
<1>8. NewestDecisionStands'
  BY <1>1, <1>7 DEF Calm, TInv, NewestDecisionStands
<1> QED  BY <1>6, <1>8 DEF TInv

\* The only version a refund has is taken by the first one that is applied.
LEMMA NoRefundLogged ==
  ASSUME Calm, NEW kind \in Refunds, ~Conflicts(kind, RefundVersion),
         NEW e \in Events, ledger[e].status = "applied"
  PROVE  SourceOf(ledger[e].kind) # SourceOf(kind)
<1> SUFFICES ASSUME SourceOf(ledger[e].kind) = SourceOf(kind) PROVE FALSE
  OBVIOUS
<1>1. IInv /\ kind \in Kinds /\ ledger[e] # NoEvent
  BY KindsApart DEF Calm, NoEvent
<1>2. ledger[e].kind \in Kinds
  BY <1>1, KindsApart DEF IInv, LedgerIsTheirs, CasesAreTheirs, Events, NoCase
<1>3. PICK S \in SUBSET Events : S = {d \in OfSources({SourceOf(kind)}) : ledger[d].status = "applied"}
  BY DEF OfSources
<1>4. ASSUME NEW d \in S PROVE ledger[d].version = 2
  <2>1. ledger[d] # NoEvent /\ SourceOf(ledger[d].kind) = SourceOf(kind)
    BY <1>3 DEF OfSources
  <2>2. ledger[d].kind \in Kinds
    BY <1>1, <2>1, KindsApart DEF IInv, LedgerIsTheirs, CasesAreTheirs, Events, NoCase
  <2>3. ledger[d].kind \in Refunds
    BY <1>1, <2>1, <2>2, SourcesKnown
  <2>4. d \in RefundCases
    BY <1>1, <2>1, <2>3, KindsApart DEF IInv, LedgerIsTheirs, Events
  <2> QED  BY <1>1, <2>1, <2>4 DEF IInv, LedgerIsTheirs, RefundVersion
<1>5. e \in S
  BY <1>1, <1>3 DEF OfSources
<1>6. Newest(S) \in Nat /\ (\A d \in S : ledger[d].version <= Newest(S))
      /\ (Newest(S) # 0 => \E d \in S : ledger[d].version = Newest(S))
  BY <1>1, NewestBounds DEF IInv
<1>7. Newest(S) = 2
  BY <1>4, <1>5, <1>6
<1> QED  BY <1>3, <1>7 DEF Conflicts, LatestApplied, RefundVersion

LEMMA RefundCommitTurns ==
  ASSUME Calm, NEW p \in Procs, RefundCommit(p)
  PROVE  TInv'
<1>1. work[p].op = "confirm" /\ Goes(p, Idle) /\ IInv
  BY DEF RefundCommit, Busy, Calm
<1>2. PICK e \in RefundCases : e = IdOf(p)
  BY <1>1, RefundingIs
<1>3. PICK kind \in Refunds : kind = work[p].kind
  BY <1>1, RefundingIs
<1>4. e \in Events /\ kind \in Kinds /\ work[p].row = row
  BY <1>1, <1>2, <1>3, RefundingIs DEF Calm, TInv, Turns, InTurn
<1>5. \A q \in Procs \ {p} : Busy(q, "idle")
  BY <1>1, Alone DEF Busy
<1>6. Pending = {} /\ \A i \in DOMAIN log : ledger[log[i]].status = "applied" /\ log[i] \in Recorded
  BY <1>1, <1>5, NothingPends DEF IInv, LogIsRecorded
<1>7. InTurn(Idle)'
  BY IdleIsWork DEF InTurn
<1>8. CASE RefundRefused(e, kind)
  <2>1. UNCHANGED <<row, ledger, log, decided>>
    BY <1>2, <1>3, <1>8 DEF RefundCommit
  <2> QED  BY <1>1, <1>5, <1>7, <2>1, IdleIsWork, QuietStep
<1>9. CASE ~RefundRefused(e, kind)
  <2>1. ~Conflicts(kind, RefundVersion) /\ ledger[e] = NoEvent
    BY <1>1, <1>4, <1>9 DEF RefundRefused, IInv, LedgerIsTheirs
  <2>2. ledger' = [ledger EXCEPT ![e] = [status |-> "applied", kind |-> kind, version |-> RefundVersion]]
    BY <1>2, <1>3, <1>9 DEF RefundCommit
  <2>3. ledger'[e].status = "applied" /\ ledger'[e].kind = kind /\ \A d \in Events \ {e} : ledger'[d] = ledger[d]
    BY <1>1, <1>4, <2>2 DEF IInv, Shapes
  <2>4. \A i \in DOMAIN log : /\ log[i] \in Events /\ log[i] # e /\ ledger'[log[i]] = ledger[log[i]]
                              /\ SourceOf(ledger[log[i]].kind) # SourceOf(kind)
    BY <1>6, <2>1, <2>3, NoRefundLogged DEF Recorded
  <2>5. Pending' = {}
    BY <1>6, <2>3 DEF Pending
  <2>6. CASE row = NoRow
    <3>1. UNCHANGED <<row, log, decided>>
      BY <1>2, <1>3, <1>4, <1>9, <2>6 DEF RefundCommit
    <3>2. \A i \in DOMAIN log' : ledger'[log'[i]].status = "applied"
      BY <1>6, <2>4, <3>1
    <3>3. Turns'
      BY <1>1, <1>5, <1>7, <2>5, <3>2, IdleIsWork, TurnStep
    <3>4. NewestDecisionStands'
      BY <2>4, <3>1 DEF Calm, TInv, NewestDecisionStands
    <3> QED  BY <3>3, <3>4 DEF TInv
  <2>7. CASE row # NoRow
    <3>1. row' = Written(kind, row) /\ log' = Append(log, e) /\ Decides(StateAfter(kind, decided))
      BY <1>2, <1>3, <1>4, <1>9, <2>7 DEF RefundCommit
    <3>2. /\ DOMAIN log = 1..Len(log) /\ DOMAIN log' = 1..Len(log) + 1 /\ Len(log) \in Nat
          /\ (\A i \in 1..Len(log) : log'[i] = log[i]) /\ log'[Len(log) + 1] = e
      BY <1>1, <1>4, <3>1, Appends
    <3>3. \A i \in DOMAIN log' : i \in DOMAIN log \/ i = Len(log) + 1
      BY <3>2
    <3>4. \A i \in DOMAIN log' : ledger'[log'[i]].status = "applied"
      BY <1>6, <2>3, <2>4, <3>2, <3>3
    <3>5. Turns'
      BY <1>1, <1>5, <1>7, <2>5, <3>4, IdleIsWork, TurnStep
    <3>6. NewestDecisionStands'
      BY <1>4, <2>3, <2>4, <2>7, <3>1, DecisionStands
    <3> QED  BY <3>5, <3>6 DEF TInv
  <2> QED  BY <2>6, <2>7
<1> QED  BY <1>8, <1>9

LEMMA InitTurns == Init => TInv
<1> SUFFICES ASSUME Init PROVE TInv
  OBVIOUS
<1>1. \A p \in Procs : work[p] = Idle
  BY DEF Init
<1>2. Pending = {} /\ DOMAIN log = {}
  BY DEF Init, Pending, NoEvent
<1>3. Turns
  BY <1>1, <1>2, IdleIsWork DEF Turns, OneAtATime, Busy, InTurn, PendingIsServed, LogIsApplied
<1>4. NewestDecisionStands
  BY <1>2 DEF Init, NewestDecisionStands, NoRow
<1> QED  BY <1>3, <1>4 DEF TInv

LEMMA TNextHolds == IInv /\ IInv' /\ TInv /\ [Next]_vars => TInv'
<1> SUFFICES ASSUME IInv, IInv', TInv, [Next]_vars PROVE TInv'
  OBVIOUS
<1>0. CASE ~calm'
  BY <1>0 DEF TInv, Turns, NewestDecisionStands
<1> SUFFICES ASSUME calm' PROVE TInv'
  BY <1>0
<1>1. CASE UNCHANGED vars
  <2>1. UNCHANGED <<row, ledger, log, case, work, calm, decided, missed>>
    BY <1>1 DEF vars, history
  <2>2. Turns'
    BY <2>1 DEF TInv, Turns, OneAtATime, Busy, InTurn, Latest, After, Pending, PendingIsServed, LogIsApplied
  <2> QED  BY <2>1, <2>2 DEF TInv, NewestDecisionStands
<1>2. ASSUME NEW p \in Procs, NEW e \in Reports, NEW kind \in Reported, NEW v \in 1 .. 2, Report(p, e, kind, v)
      PROVE  TInv'
  BY <1>2, ReportTurns DEF Calm, Report, Arrive
<1>3. ASSUME NEW p \in Procs, NEW e \in Notices, NEW kind \in Disputes, Webhook(p, e, kind) PROVE TInv'
  BY <1>3, WebhookTurns DEF Calm, Webhook, Arrive
<1>4. ASSUME NEW p \in Procs, NEW e \in Notices, NEW covered \in BOOLEAN, Reconcile(p, e, covered) PROVE TInv'
  BY <1>4, ReconcileTurns DEF Calm, Reconcile, Arrive
<1>5. ASSUME NEW p \in Procs, NextVersion(p) \/ Decide(p) \/ Record(p) PROVE TInv'
  BY <1>5, NextVersionTurns, DecideTurns, RecordTurns DEF Calm, NextVersion, Decide, Record, history
<1>6. ASSUME NEW p \in Procs, Sweep(p) PROVE TInv'
  BY <1>6, SweepTurns DEF Calm, Sweep, Arrive
<1>7. ASSUME NEW p \in Procs, NEW covered \in BOOLEAN, RebuildRead(p, covered) PROVE TInv'
  BY <1>7, RebuildReadTurns DEF Calm, RebuildRead, Arrive
<1>8. ASSUME NEW p \in Procs, RebuildCommit(p) PROVE TInv'
  BY <1>8, RebuildCommitTurns DEF Calm, RebuildCommit
<1>9. ASSUME NEW p \in Procs, EffectRead(p) \/ EffectWrite(p) PROVE TInv'
  BY <1>9, EffectReadTurns, EffectWriteTurns DEF Calm, EffectRead, EffectWrite
<1>10. ASSUME NEW p \in Procs, Finish(p) \/ Settle(p) PROVE TInv'
  BY <1>10, FinishTurns, SettleTurns DEF Calm, Finish, Settle, history
<1>11. ASSUME NEW p \in Procs, NEW e \in RefundCases, NEW kind \in Refunds, OpenRefund(p, e, kind) PROVE TInv'
  BY <1>11, OpenRefundTurns DEF Calm, OpenRefund, history
<1>12. ASSUME NEW p \in Procs, NEW e \in RefundCases, RefundPay(p, e) PROVE TInv'
  BY <1>12, RefundPayTurns DEF Calm, RefundPay, Arrive
<1>13. ASSUME NEW p \in Procs, RefundRead(p) PROVE TInv'
  BY <1>13, RefundReadTurns DEF Calm, RefundRead, history
<1>14. ASSUME NEW p \in Procs, RefundCommit(p) PROVE TInv'
  BY <1>14, RefundCommitTurns DEF Calm, RefundCommit
<1>15. ASSUME NEW p \in Procs, Abandon(p) PROVE TInv'
  BY <1>15 DEF Abandon
<1> QED
  BY <1>1, <1>2, <1>3, <1>4, <1>5, <1>6, <1>7, <1>8, <1>9, <1>10, <1>11, <1>12, <1>13, <1>14, <1>15 DEF Next

-----------------------------------------------------------------------------
(* The paid cycles of one subscription, their batches and incidents (PaidCycles). *)

\* What a request carries: the cycle it is about, the learner it writes for, the roles and the
\* incidents it has read.
Ops == {"idle", "cycle", "derive", "batches", "incident", "act"}
PaidWork == [op : Ops, cycle : SUBSET Cycles, for : Learners \cup {Paid!Nobody}, roles : [Cycles -> Paid!Roles],
         found : (SUBSET Cycles) \cup (SUBSET Nat), row : Paid!Incident, key : SUBSET Reports,
         action : Paid!Actions \cup {"none"}]
PaidFor(w) ==
  /\ w.op = "batches" => \A c \in w.cycle : c \in Cycles /\ ~Paid!IsMissing(c)
  /\ w.op \in {"cycle", "derive"} => w.for \in Learners
  /\ w.op = "derive" => /\ \A d \in w.found : d \in Cycles /\ learner[d] = w.for
                        /\ \A d \in Cycles : Paid!IsMissing(d) => w.roles[d] = "none"
PaidNumbered(w) ==
  /\ w.op = "incident" => \A c \in w.cycle : w.found \subseteq DOMAIN incidents[c]
  /\ w.op = "act" => \E i \in Nat : /\ w.found = {i} /\ w.row \in Paid!Incident /\ w.action \in Paid!Actions
                                    /\ \E key \in Reports : w.key = {key}
                                    /\ \A c \in w.cycle : /\ i \in DOMAIN incidents[c]
                                                          /\ w.row.version <= incidents[c][i].version
Carries(w) ==
  /\ w.op # "idle" => \E c \in Cycles : w.cycle = {c}
  /\ PaidFor(w) /\ PaidNumbered(w)

Columns ==
  /\ Paid!TypeOK
  /\ batch \in [Cycles -> {0, 1}] /\ \A c \in Cycles : Paid!IsMissing(c) => batch[c] = 0
  /\ incidents \in [Cycles -> Seq(Paid!Incident)]
  /\ quiet \in BOOLEAN /\ ordered \in BOOLEAN
  /\ tasks \in [Procs -> PaidWork]

\* What was acted on was an earlier version of an incident, and one incident of a cycle is open.
ActsAreEarlier ==
  \A r \in acted : /\ r.cycle \in Cycles /\ r.nr \in DOMAIN incidents[r.cycle] /\ r.version \in Nat
                   /\ r.version < incidents[r.cycle][r.nr].version
OneActive(list) == \A i, j \in DOMAIN list : list[i].status = "open" /\ list[j].status = "open" => i = j

\* Of requests that follow each other, an operator acts on the incident as he has read it.
PaidInTurn ==
  quiet => /\ \A p, q \in Procs : ~Paid!Busy(p, "idle") /\ ~Paid!Busy(q, "idle") => p = q
           /\ \A p \in Procs : Paid!Busy(p, "act") =>
                \A c \in tasks[p].cycle, i \in tasks[p].found : tasks[p].row = incidents[c][i]
           /\ \A r, s \in acted : r.cycle = s.cycle /\ r.nr = s.nr /\ r.version = s.version => r = s

PaidInv == /\ Columns /\ (\A p \in Procs : Carries(tasks[p]))
           /\ ActsAreEarlier /\ (\A c \in Cycles : OneActive(incidents[c])) /\ PaidInTurn

LEMMA IdleIs ==
  Paid!Idle \in PaidWork /\ Paid!Idle.op = "idle" /\ Paid!Idle.cycle = {} /\ Paid!Idle.found = {} /\ Paid!Idle.for = Paid!Nobody
<1>1. Paid!Opened \in Paid!Incident /\ Paid!NoRoles \in [Cycles -> Paid!Roles]
  BY DEF Paid!Opened, Paid!Incident, Paid!Statuses, Paid!NoRoles, Paid!Roles
<1> QED  BY <1>1 DEF Paid!Idle, PaidWork, Ops

LEMMA IdleCarries == Carries(Paid!Idle) /\ Carries(Paid!Idle)'
BY IdleIs DEF Carries, PaidFor, PaidNumbered, Ops

LEMMA PaidInitHolds == Paid!Init => PaidInv
<1> SUFFICES ASSUME Paid!Init PROVE PaidInv
  OBVIOUS
<1>1. Columns
  BY IdleIs DEF Paid!Init, Columns, Paid!TypeOK, Paid!IsMissing, Paid!Roles, Paid!NoRoles
<1>2. \A p \in Procs : Carries(tasks[p])
  BY IdleCarries DEF Paid!Init
<1>3. ActsAreEarlier /\ (\A c \in Cycles : OneActive(incidents[c])) /\ PaidInTurn
  BY IdleIs DEF Paid!Init, ActsAreEarlier, OneActive, PaidInTurn, Paid!Busy
<1> QED  BY <1>1, <1>2, <1>3 DEF PaidInv

\* Versions only grow, and no incident disappears.
Advance(c) ==
  /\ DOMAIN incidents[c] \subseteq DOMAIN incidents'[c]
  /\ \A i \in DOMAIN incidents[c] : incidents[c][i].version <= incidents'[c][i].version

LEMMA VersionsAre ==
  ASSUME Columns, NEW c \in Cycles, NEW i \in DOMAIN incidents[c]
  PROVE  incidents[c][i] \in Paid!Incident /\ incidents[c][i].version \in Nat /\ incidents[c][i].status \in Paid!Statuses
<1>1. incidents[c] \in Seq(Paid!Incident)
  BY DEF Columns
<1>2. incidents[c][i] \in Paid!Incident
  BY <1>1
<1> QED  BY <1>2 DEF Paid!Incident

LEMMA StillCarries ==
  ASSUME Columns, Columns', NEW w \in PaidWork, Carries(w), \A c \in Cycles : Advance(c),
         \A c \in Cycles : ~Paid!IsMissing(c) => learner'[c] = learner[c]
  PROVE  Carries(w)'
<1>1. PaidFor(w)'
  BY SomebodyAssumption DEF Carries, PaidFor, Paid!IsMissing
<1>2. PaidNumbered(w)'
  <2>1. w.op = "incident" => \A c \in w.cycle : w.found \subseteq DOMAIN incidents'[c]
    BY DEF Carries, PaidNumbered, Advance
  <2>2. ASSUME w.op = "act"
        PROVE  \E i \in Nat : /\ w.found = {i} /\ w.row \in Paid!Incident /\ w.action \in Paid!Actions
                              /\ \E key \in Reports : w.key = {key}
                              /\ \A c \in w.cycle : /\ i \in DOMAIN incidents'[c]
                                                    /\ w.row.version <= incidents'[c][i].version
    <3>1. PICK i \in Nat : /\ w.found = {i} /\ w.row \in Paid!Incident /\ w.action \in Paid!Actions
                           /\ \E key \in Reports : w.key = {key}
                           /\ \A c \in w.cycle : /\ i \in DOMAIN incidents[c]
                                                 /\ w.row.version <= incidents[c][i].version
      BY <2>2 DEF Carries, PaidNumbered
    <3>2. ASSUME NEW c \in w.cycle PROVE i \in DOMAIN incidents'[c] /\ w.row.version <= incidents'[c][i].version
      <4>1. c \in Cycles /\ w.row.version \in Nat
        BY <2>2, <3>1, <3>2 DEF Carries, Paid!Incident
      <4>2. i \in DOMAIN incidents'[c] /\ incidents[c][i].version <= incidents'[c][i].version
        BY <3>1, <4>1 DEF Advance
      <4>3. incidents[c][i].version \in Nat
        BY <3>1, <4>1, VersionsAre
      <4>4. incidents'[c] \in Seq(Paid!Incident)
        BY <4>1 DEF Columns
      <4>5. incidents'[c][i] \in Paid!Incident
        BY <4>2, <4>4
      <4>6. incidents'[c][i].version \in Nat
        BY <4>5 DEF Paid!Incident
      <4> QED  BY <3>1, <4>1, <4>2, <4>3, <4>6
    <3> QED  BY <3>1, <3>2
  <2> QED  BY <2>1, <2>2 DEF PaidNumbered
<1> QED  BY <1>1, <1>2 DEF Carries

\* A step that only serves a request.
LEMMA PaidOnlyWork ==
  ASSUME PaidInv, NEW p \in Procs, NEW w \in PaidWork, Paid!Goes(p, w), Carries(w),
         UNCHANGED <<assigned, learner, role, batch, incidents, acted>>, quiet' \in BOOLEAN,
         ordered' \in BOOLEAN,
         quiet' => /\ quiet /\ (w.op # "idle" => \A q \in Procs \ {p} : Paid!Busy(q, "idle"))
                   /\ w.op = "act" => \A c \in w.cycle, i \in w.found : w.row = incidents[c][i]
  PROVE  PaidInv'
<1>1. tasks'[p] = w /\ (\A q \in Procs \ {p} : tasks'[q] = tasks[q]) /\ tasks' \in [Procs -> PaidWork]
  BY DEF Paid!Goes, PaidInv, Columns
<1>2. Columns'
  BY <1>1 DEF PaidInv, Columns, Paid!TypeOK, Paid!IsMissing
<1>3. ASSUME NEW q \in Procs PROVE Carries(tasks[q])'
  BY <1>1 DEF PaidInv, Carries, PaidFor, PaidNumbered, Paid!IsMissing
<1>4. ActsAreEarlier' /\ \A c \in Cycles : OneActive(incidents[c])'
  BY DEF PaidInv, ActsAreEarlier, OneActive
<1>5. PaidInTurn'
  BY <1>1 DEF PaidInv, PaidInTurn, Paid!Busy
<1> QED  BY <1>2, <1>3, <1>4, <1>5 DEF PaidInv

LEMMA Ends ==
  ASSUME PaidInv, NEW p \in Procs, Paid!Goes(p, Paid!Idle),
         UNCHANGED <<assigned, learner, role, batch, incidents, acted, quiet, ordered>>
  PROVE  PaidInv'
BY PaidOnlyWork, IdleCarries, IdleIs DEF PaidInv, Columns

LEMMA PaidReconcileStep ==
  ASSUME PaidInv, NEW p \in Procs, NEW c \in Cycles, Paid!Reconcile(p, c)
  PROVE  PaidInv'
<1>0. /\ assigned \in Learners \cup {Paid!Nobody} /\ role \in [Cycles -> Paid!Roles]
      /\ Paid!ActiveOf(c) \in SUBSET Nat
      /\ Paid!ActiveOf(c) \subseteq DOMAIN incidents[c]
  BY DEF PaidInv, Columns, Paid!TypeOK, Paid!ActiveOf
<1>1. PICK w \in PaidWork :
        /\ Paid!Arrive(p, w)
        /\ \/ w = [Paid!Idle EXCEPT !.op = "cycle", !.cycle = {c}, !.for = assigned]
           \/ w = [Paid!Idle EXCEPT !.op = "incident", !.cycle = {c}, !.found = Paid!ActiveOf(c)]
           \/ w = [Paid!Idle EXCEPT !.op = "batches", !.cycle = {c}, !.roles = role] /\ ~Paid!IsMissing(c)
  <2>1. /\ [Paid!Idle EXCEPT !.op = "cycle", !.cycle = {c}, !.for = assigned] \in PaidWork
        /\ [Paid!Idle EXCEPT !.op = "incident", !.cycle = {c}, !.found = Paid!ActiveOf(c)] \in PaidWork
        /\ [Paid!Idle EXCEPT !.op = "batches", !.cycle = {c}, !.roles = role] \in PaidWork
    BY <1>0, IdleIs DEF PaidWork, Ops
  <2> QED  BY <2>1 DEF Paid!Reconcile
<1>2. w.op \in {"cycle", "incident", "batches"} /\ w.cycle = {c}
      /\ (w.op = "cycle" => w.for = assigned) /\ (w.op = "incident" => w.found = Paid!ActiveOf(c))
      /\ (w.op = "batches" => ~Paid!IsMissing(c))
  BY <1>1, IdleIs DEF PaidWork
<1>3. Carries(w)
  BY <1>0, <1>2 DEF Carries, PaidFor, PaidNumbered, Ops, PaidInv, Columns, Paid!TypeOK
<1>4. /\ Paid!Goes(p, w)
      /\ quiet' = (quiet /\ \A q \in Procs : Paid!Busy(q, "idle")) /\ ordered' = (ordered /\ quiet')
      /\ UNCHANGED <<assigned, learner, role, batch, incidents, acted>> /\ quiet \in BOOLEAN
      /\ ordered \in BOOLEAN
  BY <1>1 DEF Paid!Arrive, Paid!Reconcile, PaidInv, Columns
<1> QED  BY <1>2, <1>3, <1>4, PaidOnlyWork

LEMMA ActReadStep ==
  ASSUME PaidInv, NEW p \in Procs, NEW c \in Cycles, NEW i \in 1 .. MaxIncidents, NEW key \in Reports,
         NEW action \in Paid!Actions,
         Paid!ActRead(p, c, i, key, action)
  PROVE  PaidInv'
<1>0. i \in Nat /\ i \in DOMAIN incidents[c] /\ incidents[c][i] \in Paid!Incident /\ incidents[c][i].version \in Nat
  BY VersionsAre DEF Paid!ActRead, PaidInv
<1>1. PICK w \in PaidWork : /\ w = [Paid!Idle EXCEPT !.op = "act", !.cycle = {c}, !.found = {i}, !.key = {key},
                                   !.action = action, !.row = incidents[c][i]]
                            /\ Paid!Arrive(p, w)
  <2>1. [Paid!Idle EXCEPT !.op = "act", !.cycle = {c}, !.found = {i}, !.key = {key},
           !.action = action, !.row = incidents[c][i]] \in PaidWork
    BY <1>0, IdleIs DEF PaidWork, Ops
  <2> QED  BY <2>1 DEF Paid!ActRead
<1>2. w.op = "act" /\ w.cycle = {c} /\ w.found = {i} /\ w.key = {key} /\ w.action = action /\ w.row = incidents[c][i]
  BY <1>1, <1>0, IdleIs DEF PaidWork
<1>4. Carries(w)
  BY <1>2, <1>0 DEF Carries, PaidFor, PaidNumbered, Ops
<1>5. /\ Paid!Goes(p, w)
      /\ quiet' = (quiet /\ \A q \in Procs : Paid!Busy(q, "idle")) /\ ordered' = (ordered /\ quiet')
      /\ UNCHANGED <<assigned, learner, role, batch, incidents, acted>> /\ quiet \in BOOLEAN
      /\ ordered \in BOOLEAN
  BY <1>1 DEF Paid!Arrive, Paid!ActRead, PaidInv, Columns
<1> QED  BY <1>2, <1>4, <1>5, PaidOnlyWork

LEMMA CarriedIs ==
  ASSUME PaidInv, NEW p \in Procs, tasks[p].op # "idle"
  PROVE  /\ tasks[p].cycle = {Paid!CycleOf(p)} /\ Paid!CycleOf(p) \in Cycles /\ Carries(tasks[p])
BY DEF PaidInv, Carries, Paid!CycleOf

LEMMA CycleDeriveStep ==
  ASSUME PaidInv, NEW p \in Procs, Paid!CycleDerive(p)
  PROVE  PaidInv'
<1>1. tasks[p].op = "cycle" /\ UNCHANGED <<assigned, learner, role, batch, incidents, acted, quiet, ordered>>
      /\ quiet \in BOOLEAN /\ ordered \in BOOLEAN /\ Carries(tasks[p])
  BY DEF Paid!CycleDerive, Paid!Busy, PaidInv, Columns
<1>0. tasks[p] \in PaidWork /\ role \in [Cycles -> Paid!Roles] /\ Paid!OfLearner(tasks[p].for) \in SUBSET Cycles
  BY DEF PaidInv, Columns, Paid!TypeOK, Paid!OfLearner
<1>2. PICK w \in PaidWork : w = [tasks[p] EXCEPT !.op = "derive", !.found = Paid!OfLearner(tasks[p].for), !.roles = role]
  BY <1>0 DEF PaidWork, Ops
<1>3. /\ w.op = "derive" /\ w.cycle = tasks[p].cycle /\ w.for = tasks[p].for /\ w.found = Paid!OfLearner(w.for)
      /\ w.roles = role
      /\ Paid!Goes(p, w)
  BY <1>0, <1>2 DEF PaidWork, Paid!CycleDerive
<1>4. Carries(w)
  BY <1>1, <1>3 DEF Carries, PaidFor, PaidNumbered, Ops, Paid!OfLearner, PaidInv, Columns, Paid!TypeOK
<1>5. quiet => \A q \in Procs \ {p} : Paid!Busy(q, "idle")
  BY <1>1 DEF PaidInv, PaidInTurn, Paid!Busy
<1> QED  BY <1>1, <1>2, <1>3, <1>4, <1>5, PaidOnlyWork

LEMMA CycleCommitStep ==
  ASSUME PaidInv, NEW p \in Procs, Paid!CycleCommit(p)
  PROVE  PaidInv'
<1>1. /\ tasks[p].op = "derive" /\ Paid!Goes(p, Paid!Idle) /\ UNCHANGED <<assigned, incidents, acted, quiet>>
      /\ tasks[p] \in PaidWork /\ Carries(tasks[p])
  BY DEF Paid!CycleCommit, Paid!Busy, PaidInv, Columns
<1>2. PICK c \in Cycles : c = Paid!CycleOf(p) /\ tasks[p].cycle = {c}
  BY <1>1, CarriedIs
<1>3. CASE Paid!CycleRefused(p)
  BY <1>1, <1>3, Ends DEF Paid!CycleCommit
<1>4. CASE ~Paid!CycleRefused(p)
  <2> DEFINE S == tasks[p].found \cup {c}
  <2>1. /\ learner[c] = Paid!Nobody /\ tasks[p].for \in Learners /\ tasks[p].for # Paid!Nobody
        /\ tasks[p].roles[c] = "none"
        /\ \A d \in tasks[p].found : d \in Cycles /\ learner[d] = tasks[p].for
    BY <1>1, <1>2, <1>4, SomebodyAssumption DEF Paid!CycleRefused, Paid!IsMissing, Carries, PaidFor
  <2>2. /\ learner' = [learner EXCEPT ![c] = tasks[p].for]
        /\ role' = [d \in Cycles |-> IF d \in S /\ Paid!RoleIn(S, d) # tasks[p].roles[d] THEN Paid!RoleIn(S, d) ELSE role[d]]
        /\ batch' = [batch EXCEPT ![c] = IF c \in Paid!Bearing(S) THEN @ + 1 ELSE @]
        /\ ordered' = (ordered /\ \A d \in Paid!OfLearner(tasks[p].for) : Start[d] < Start[c])
    BY <1>2, <1>4 DEF Paid!CycleCommit
  <2>3. \A d \in Cycles : Paid!RoleIn(S, d) \in {"bearing", "supporting"}
    BY DEF Paid!RoleIn
  <2>4. /\ learner \in [Cycles -> Learners \cup {Paid!Nobody}] /\ role \in [Cycles -> Paid!Roles]
        /\ batch \in [Cycles -> {0, 1}]
        /\ batch[c] = 0 /\ ordered \in BOOLEAN
    BY <2>1 DEF PaidInv, Columns, Paid!TypeOK, Paid!IsMissing
  <2> HIDE DEF S
  <2>5. /\ learner' \in [Cycles -> Learners \cup {Paid!Nobody}] /\ learner'[c] = tasks[p].for
        /\ \A d \in Cycles \ {c} : learner'[d] = learner[d]
    BY <2>1, <2>2, <2>4
  <2>6. role' \in [Cycles -> Paid!Roles] /\ \A d \in Cycles : role'[d] = "none" <=> Paid!IsMissing(d)'
    <3>1. ASSUME NEW d \in Cycles PROVE role'[d] \in Paid!Roles /\ (role'[d] = "none" <=> Paid!IsMissing(d)')
      <4>1. CASE d = c
        <5>1. d \in S
          BY <4>1 DEF S
        <5>2. role'[d] = Paid!RoleIn(S, d)
          BY <2>1, <2>2, <2>3, <4>1, <5>1
        <5> QED  BY <2>1, <2>3, <2>5, <4>1, <5>2 DEF Paid!Roles, Paid!IsMissing
      <4>2. CASE d # c
        <5>1. d \in S => learner[d] # Paid!Nobody
          BY <2>1, <4>2 DEF S
        <5>2. role[d] \in Paid!Roles /\ (role[d] = "none" <=> learner[d] = Paid!Nobody)
          BY DEF PaidInv, Columns, Paid!TypeOK, Paid!IsMissing
        <5>3. CASE d \in S /\ Paid!RoleIn(S, d) # tasks[p].roles[d]
          BY <2>2, <2>3, <2>5, <4>2, <5>1, <5>3 DEF Paid!Roles, Paid!IsMissing
        <5>4. CASE ~(d \in S /\ Paid!RoleIn(S, d) # tasks[p].roles[d])
          BY <2>2, <2>5, <4>2, <5>2, <5>4 DEF Paid!IsMissing
        <5> QED  BY <5>3, <5>4
      <4> QED  BY <4>1, <4>2
    <3> QED  BY <2>2, <3>1
  <2>7. batch' \in [Cycles -> {0, 1}] /\ \A d \in Cycles \ {c} : batch'[d] = batch[d]
    BY <2>2, <2>4
  <2>8. Columns'
    <3>1. tasks' \in [Procs -> PaidWork]
      BY <1>1, IdleIs DEF Paid!Goes, PaidInv, Columns
    <3>2. \A d \in Cycles : Paid!IsMissing(d)' => batch'[d] = 0
      BY <2>1, <2>5, <2>7 DEF PaidInv, Columns, Paid!IsMissing
    <3>3. ordered' \in BOOLEAN
      BY <2>2, <2>4
    <3>4. Paid!TypeOK'
      BY <1>1, <2>5, <2>6 DEF PaidInv, Columns, Paid!TypeOK
    <3> QED  BY <1>1, <2>7, <3>1, <3>2, <3>3, <3>4 DEF PaidInv, Columns
  <2>9. \A d \in Cycles : Advance(d)
    BY <1>1, VersionsAre DEF PaidInv, Advance
  <2>10. ASSUME NEW q \in Procs PROVE Carries(tasks[q])'
    <3>1. CASE q = p
      BY <1>1, <3>1, IdleCarries DEF Paid!Goes, PaidInv, Columns
    <3>2. CASE q # p
      <4>1. tasks'[q] = tasks[q] /\ tasks[q] \in PaidWork /\ Carries(tasks[q])
        BY <1>1, <3>2 DEF Paid!Goes, PaidInv, Columns
      <4>2. \A d \in Cycles : ~Paid!IsMissing(d) => learner'[d] = learner[d]
        BY <2>1, <2>5 DEF Paid!IsMissing
      <4> QED  BY <2>8, <2>9, <4>1, <4>2, StillCarries DEF PaidInv
    <3> QED  BY <3>1, <3>2
  <2>11. ActsAreEarlier' /\ \A d \in Cycles : OneActive(incidents[d])'
    BY <1>1 DEF PaidInv, ActsAreEarlier, OneActive
  <2>12. PaidInTurn'
    BY <1>1, IdleIs DEF Paid!Goes, PaidInv, Columns, PaidInTurn, Paid!Busy
  <2> QED  BY <2>8, <2>10, <2>11, <2>12 DEF PaidInv
<1> QED  BY <1>3, <1>4

LEMMA BatchRepairStep ==
  ASSUME PaidInv, NEW p \in Procs, Paid!BatchRepair(p)
  PROVE  PaidInv'
<1>1. /\ tasks[p].op = "batches" /\ Paid!Goes(p, Paid!Idle)
      /\ UNCHANGED <<assigned, learner, role, incidents, acted, quiet, ordered>>
      /\ Carries(tasks[p])
  BY DEF Paid!BatchRepair, Paid!Busy, PaidInv
<1>2. PICK c \in Cycles : c = Paid!CycleOf(p) /\ tasks[p].cycle = {c}
  BY <1>1, CarriedIs
<1>3. batch' = [batch EXCEPT ![c] = IF tasks[p].roles[c] = "bearing" /\ Paid!LacksBatch(c) THEN @ + 1 ELSE @]
  BY <1>2 DEF Paid!BatchRepair
<1>4. batch' \in [Cycles -> {0, 1}] /\ \A d \in Cycles : Paid!IsMissing(d) => batch'[d] = 0
  <2>1. batch \in [Cycles -> {0, 1}] /\ (\A d \in Cycles : Paid!IsMissing(d) => batch[d] = 0) /\ ~Paid!IsMissing(c)
    BY <1>1, <1>2 DEF PaidInv, Columns, Carries, PaidFor
  <2> QED  BY <1>3, <2>1 DEF Paid!LacksBatch
<1>5. tasks' \in [Procs -> PaidWork] /\ tasks'[p] = Paid!Idle /\ \A q \in Procs \ {p} : tasks'[q] = tasks[q]
  BY <1>1, IdleIs DEF PaidInv, Columns, Paid!Goes
<1>6. Columns'
  BY <1>1, <1>4, <1>5 DEF PaidInv, Columns, Paid!TypeOK, Paid!IsMissing
<1>7. ASSUME NEW q \in Procs PROVE Carries(tasks[q])'
  <2>1. Carries(tasks'[q])
    BY <1>5, IdleCarries DEF PaidInv
  <2> QED  BY <1>1, <2>1 DEF Carries, PaidFor, PaidNumbered, Paid!IsMissing
<1>8. ActsAreEarlier' /\ \A d \in Cycles : OneActive(incidents[d])'
  BY <1>1 DEF PaidInv, ActsAreEarlier, OneActive
<1>9. PaidInTurn'
  BY <1>1, <1>5, IdleIs DEF PaidInv, PaidInTurn, Paid!Busy
<1> QED  BY <1>6, <1>7, <1>8, <1>9 DEF PaidInv

\* What a repair makes of the incidents of a cycle: it counts up or opens, and settles nothing.
LEMMA TouchedIs ==
  ASSUME PaidInv, NEW c \in Cycles, NEW found \in SUBSET (DOMAIN incidents[c])
  PROVE  /\ Paid!Touched(c, found) \in Seq(Paid!Incident) /\ OneActive(Paid!Touched(c, found))
         /\ DOMAIN incidents[c] \subseteq DOMAIN Paid!Touched(c, found)
         /\ \A i \in DOMAIN incidents[c] : /\ incidents[c][i].version <= Paid!Touched(c, found)[i].version
                                           /\ incidents[c][i].status = Paid!Touched(c, found)[i].status
<1> DEFINE list == incidents[c]
<1>1. list \in Seq(Paid!Incident) /\ OneActive(list) /\ DOMAIN list = 1 .. Len(list) /\ Len(list) \in Nat
  BY DEF PaidInv, Columns
<1>2. \A i \in DOMAIN list : list[i] \in Paid!Incident /\ list[i].version \in Nat
  BY VersionsAre DEF PaidInv
<1> HIDE DEF list
<1>3. CASE found # {}
  <2> DEFINE T == [i \in DOMAIN list |-> IF i \in found THEN [list[i] EXCEPT !.version = @ + 1] ELSE list[i]]
  <2>1. Paid!Touched(c, found) = T
    BY <1>3 DEF Paid!Touched, list
  <2>2. \A i \in DOMAIN list : /\ T[i] \in Paid!Incident /\ T[i].status = list[i].status
                               /\ list[i].version <= T[i].version
    BY <1>2 DEF Paid!Incident
  <2>3. T \in [1 .. Len(list) -> Paid!Incident] /\ DOMAIN T = DOMAIN list
    BY <1>1, <2>2
  <2> HIDE DEF T
  <2>4. T \in Seq(Paid!Incident)
    BY <1>1, <2>3, SeqDef
  <2>5. OneActive(T)
    BY <1>1, <2>2, <2>3 DEF OneActive
  <2> QED  BY <2>1, <2>2, <2>3, <2>4, <2>5 DEF list
<1>4. CASE found = {} /\ Paid!MayOpen(c)
  <2>1. Paid!Touched(c, found) = Append(list, Paid!Opened) /\ Paid!Opened \in Paid!Incident
    BY <1>4 DEF Paid!Touched, list, Paid!Opened, Paid!Incident, Paid!Statuses
  <2>2. \A i \in DOMAIN list : list[i].status # "open"
    BY <1>4 DEF Paid!MayOpen, Paid!ActiveOf, list
  <2>3. /\ Append(list, Paid!Opened) \in Seq(Paid!Incident)
        /\ DOMAIN Append(list, Paid!Opened) = 1 .. Len(list) + 1
        /\ (\A i \in 1 .. Len(list) : Append(list, Paid!Opened)[i] = list[i])
    BY <1>1, <2>1
  <2>4. \A i \in DOMAIN Append(list, Paid!Opened) : i \in 1 .. Len(list) \/ i = Len(list) + 1
    BY <1>1, <2>3
  <2>5. OneActive(Append(list, Paid!Opened))
    BY <1>1, <2>2, <2>3, <2>4 DEF OneActive
  <2>6. \A i \in DOMAIN list : i \in DOMAIN Append(list, Paid!Opened) /\ Append(list, Paid!Opened)[i] = list[i]
    BY <1>1, <2>3
  <2> QED  BY <1>2, <2>1, <2>3, <2>5, <2>6 DEF list
<1>5. CASE found = {} /\ ~Paid!MayOpen(c)
  BY <1>1, <1>2, <1>5 DEF Paid!Touched, list
<1> QED  BY <1>3, <1>4, <1>5

\* A step that rewrites the incidents of one cycle.
LEMMA Rewrites ==
  ASSUME PaidInv, NEW p \in Procs, Paid!Goes(p, Paid!Idle), NEW c \in Cycles, NEW list \in Seq(Paid!Incident),
         OneActive(list),
         incidents' = [incidents EXCEPT ![c] = list],
         DOMAIN incidents[c] \subseteq DOMAIN list,
         \A i \in DOMAIN incidents[c] : incidents[c][i].version <= list[i].version,
         UNCHANGED <<assigned, learner, role, batch, quiet, ordered>>, ActsAreEarlier',
         quiet => /\ \A q \in Procs \ {p} : Paid!Busy(q, "idle")
                  /\ \A r, s \in acted' : r.cycle = s.cycle /\ r.nr = s.nr /\ r.version = s.version => r = s
  PROVE  PaidInv'
<1>1. /\ incidents' \in [Cycles -> Seq(Paid!Incident)] /\ incidents'[c] = list
      /\ \A d \in Cycles \ {c} : incidents'[d] = incidents[d]
      /\ tasks' \in [Procs -> PaidWork] /\ tasks'[p] = Paid!Idle /\ \A q \in Procs \ {p} : tasks'[q] = tasks[q]
  BY IdleIs DEF PaidInv, Columns, Paid!Goes
<1>2. Columns'
  BY <1>1 DEF PaidInv, Columns, Paid!TypeOK, Paid!IsMissing
<1>3. \A d \in Cycles : Advance(d)
  <2>1. ASSUME NEW d \in Cycles \ {c} PROVE Advance(d)
    BY <1>1, VersionsAre DEF PaidInv, Advance
  <2>2. Advance(c)
    BY <1>1 DEF Advance
  <2> QED  BY <2>1, <2>2
<1>4. ASSUME NEW q \in Procs PROVE Carries(tasks[q])'
  <2>1. CASE q = p
    BY <1>1, <2>1, IdleCarries
  <2>2. CASE q # p
    <3>1. tasks'[q] = tasks[q] /\ tasks[q] \in PaidWork /\ Carries(tasks[q])
      BY <1>1, <2>2 DEF PaidInv, Columns
    <3> QED  BY <1>2, <1>3, <3>1, StillCarries DEF PaidInv
  <2> QED  BY <2>1, <2>2
<1>5. \A d \in Cycles : OneActive(incidents[d])'
  BY <1>1 DEF PaidInv, OneActive
<1>6. PaidInTurn'
  BY <1>1, IdleIs DEF PaidInTurn, Paid!Busy
<1> QED  BY <1>2, <1>4, <1>5, <1>6 DEF PaidInv

\* An act keeps being earlier than the incident it is about.
LEMMA StillEarlier ==
  ASSUME PaidInv, NEW r \in acted, NEW c \in Cycles, NEW list \in Seq(Paid!Incident),
         incidents' = [incidents EXCEPT ![c] = list],
         DOMAIN incidents[c] \subseteq DOMAIN list,
         \A i \in DOMAIN incidents[c] : incidents[c][i].version <= list[i].version
  PROVE  /\ r.cycle \in Cycles /\ r.nr \in DOMAIN incidents'[r.cycle] /\ r.version \in Nat
         /\ r.version < incidents'[r.cycle][r.nr].version
<1>1. /\ r.cycle \in Cycles /\ r.nr \in DOMAIN incidents[r.cycle] /\ r.version \in Nat
      /\ r.version < incidents[r.cycle][r.nr].version
  BY DEF PaidInv, ActsAreEarlier
<1>2. incidents[r.cycle][r.nr].version \in Nat
  BY <1>1, VersionsAre DEF PaidInv
<1>3. incidents'[c] = list /\ \A d \in Cycles \ {c} : incidents'[d] = incidents[d]
  BY DEF PaidInv, Columns
<1>4. CASE r.cycle = c
  <2>1. r.nr \in DOMAIN list /\ list[r.nr] \in Paid!Incident
    BY <1>1, <1>4
  <2>2. list[r.nr].version \in Nat /\ incidents[c][r.nr].version <= list[r.nr].version
    BY <1>1, <1>4, <2>1 DEF Paid!Incident
  <2> QED  BY <1>1, <1>2, <1>3, <1>4, <2>1, <2>2
<1>5. CASE r.cycle # c
  BY <1>1, <1>3, <1>5
<1> QED  BY <1>4, <1>5

LEMMA IncidentCommitStep ==
  ASSUME PaidInv, NEW p \in Procs, Paid!IncidentCommit(p)
  PROVE  PaidInv'
<1>1. /\ tasks[p].op = "incident" /\ Paid!Goes(p, Paid!Idle)
      /\ UNCHANGED <<assigned, learner, role, batch, acted, quiet, ordered>>
      /\ Carries(tasks[p])
  BY DEF Paid!IncidentCommit, Paid!Busy, PaidInv
<1>2. PICK c \in Cycles : c = Paid!CycleOf(p) /\ tasks[p].cycle = {c}
  BY <1>1, CarriedIs
<1>3. tasks[p].found \in SUBSET (DOMAIN incidents[c])
  BY <1>1, <1>2 DEF Carries, PaidNumbered
<1>4. PICK list \in Seq(Paid!Incident) :
         /\ list = Paid!Touched(c, tasks[p].found) /\ OneActive(list)
         /\ DOMAIN incidents[c] \subseteq DOMAIN list
         /\ \A i \in DOMAIN incidents[c] : incidents[c][i].version <= list[i].version
  BY <1>3, TouchedIs
<1>5. incidents' = [incidents EXCEPT ![c] = list]
  BY <1>2, <1>4 DEF Paid!IncidentCommit
<1>6. ActsAreEarlier'
  BY <1>1, <1>4, <1>5, StillEarlier DEF ActsAreEarlier
<1>7. quiet => \A q \in Procs \ {p} : Paid!Busy(q, "idle")
  BY <1>1 DEF PaidInv, PaidInTurn, Paid!Busy
<1>8. quiet => \A r, s \in acted' : r.cycle = s.cycle /\ r.nr = s.nr /\ r.version = s.version => r = s
  BY <1>1 DEF PaidInv, PaidInTurn
<1> QED  BY <1>1, <1>4, <1>5, <1>6, <1>7, <1>8, Rewrites

\* An operator's verdict never opens an incident.
LEMMA VerdictIs ==
  ASSUME NEW action \in Paid!Actions, NEW agrees \in BOOLEAN, NEW entry \in Paid!Incident,
         NEW read \in Paid!Incident
  PROVE  /\ Paid!ActedOn(entry, read, Paid!Verdict(action, agrees, read.status)) \in Paid!Incident
         /\ Paid!ActedOn(entry, read, Paid!Verdict(action, agrees, read.status)).version = entry.version + 1
         /\ Paid!ActedOn(entry, read, Paid!Verdict(action, agrees, read.status)).status = "open" => entry.status = "open"
<1>1. entry.status \in Paid!Statuses /\ entry.version \in Nat \ {0} /\ read.status \in Paid!Statuses
  BY DEF Paid!Incident
<1>2. Paid!Verdict(action, agrees, read.status) \in {Paid!Outcome[a] : a \in DOMAIN Paid!Outcome} \cup {"resolved_repaired", read.status}
  BY DEF Paid!Verdict
<1>3. "open" \notin {Paid!Outcome[a] : a \in DOMAIN Paid!Outcome} \cup {"resolved_repaired"}
  BY DEF Paid!Outcome
<1>4. PICK v \in Paid!Statuses : v = Paid!Verdict(action, agrees, read.status) /\ (v = "open" => v = read.status)
  BY <1>1, <1>2, <1>3 DEF Paid!Statuses
<1>5. PICK status \in Paid!Statuses : status = (IF v = read.status THEN entry.status ELSE v) /\ (status = "open" => entry.status = "open")
  BY <1>1, <1>4
<1>6. Paid!ActedOn(entry, read, v) = [status |-> status, version |-> entry.version + 1]
  BY <1>5 DEF Paid!ActedOn
<1> QED  BY <1>1, <1>4, <1>5, <1>6 DEF Paid!Incident

LEMMA ActCommitStep ==
  ASSUME PaidInv, NEW p \in Procs, Paid!ActCommit(p)
  PROVE  PaidInv'
<1>1. /\ tasks[p].op = "act" /\ Paid!Goes(p, Paid!Idle)
      /\ UNCHANGED <<assigned, learner, role, batch, quiet, ordered>>
      /\ Carries(tasks[p])
  BY DEF Paid!ActCommit, Paid!Busy, PaidInv
<1>2. PICK c \in Cycles : c = Paid!CycleOf(p) /\ tasks[p].cycle = {c}
  BY <1>1, CarriedIs
<1>3. PICK i \in Nat :
         /\ tasks[p].found = {i} /\ tasks[p].row \in Paid!Incident /\ tasks[p].action \in Paid!Actions
         /\ (\E k \in Reports : tasks[p].key = {k})
         /\ i \in DOMAIN incidents[c] /\ tasks[p].row.version <= incidents[c][i].version
  BY <1>1, <1>2 DEF Carries, PaidNumbered
<1>4. PICK key \in Reports : tasks[p].key = {key}
  BY <1>3
<1>5. (CHOOSE n \in tasks[p].found : TRUE) = i /\ (CHOOSE k \in Reports : k \in tasks[p].key) = key
  BY <1>3, <1>4
<1>6. CASE Paid!IsRepeated(c, i, key)
  BY <1>1, <1>2, <1>5, <1>6, Ends DEF Paid!ActCommit
<1>7. CASE ~Paid!IsRepeated(c, i, key)
  <2>1. Paid!ActiveOf(c) \in SUBSET (DOMAIN incidents[c])
    BY DEF Paid!ActiveOf
  <2>2. incidents[c] \in Seq(Paid!Incident) /\ OneActive(incidents[c]) /\ \A n \in DOMAIN incidents[c] : incidents[c][n].version \in Nat
    BY VersionsAre DEF PaidInv, Columns
  <2>3. PICK tried \in Seq(Paid!Incident) :
         /\ tried = (IF tasks[p].action = "retry" /\ Paid!Disagrees(c) THEN Paid!Touched(c, Paid!ActiveOf(c)) ELSE incidents[c])
         /\ OneActive(tried) /\ DOMAIN incidents[c] \subseteq DOMAIN tried
         /\ \A n \in DOMAIN incidents[c] : incidents[c][n].version <= tried[n].version
    <3>1. CASE tasks[p].action = "retry" /\ Paid!Disagrees(c)
      BY <2>1, <3>1, TouchedIs
    <3>2. CASE ~(tasks[p].action = "retry" /\ Paid!Disagrees(c))
      BY <2>2, <3>2
    <3> QED  BY <3>1, <3>2
  <2>4. PICK agrees \in BOOLEAN : agrees = ~Paid!Disagrees(c)
    OBVIOUS
  <2>5. i \in DOMAIN tried /\ tried[i] \in Paid!Incident
    BY <1>3, <2>3
  <2>6. PICK entry \in Paid!Incident :
          /\ entry = Paid!ActedOn(tried[i], tasks[p].row, Paid!Verdict(tasks[p].action, agrees, tasks[p].row.status))
          /\ entry.version = tried[i].version + 1 /\ (entry.status = "open" => tried[i].status = "open")
    <3>1. PICK old \in Paid!Incident, read \in Paid!Incident, action \in Paid!Actions :
            old = tried[i] /\ read = tasks[p].row /\ action = tasks[p].action
      BY <1>3, <2>5
    <3>2. /\ Paid!ActedOn(old, read, Paid!Verdict(action, agrees, read.status)) \in Paid!Incident
          /\ Paid!ActedOn(old, read, Paid!Verdict(action, agrees, read.status)).version = old.version + 1
          /\ Paid!ActedOn(old, read, Paid!Verdict(action, agrees, read.status)).status = "open" => old.status = "open"
      BY VerdictIs
    <3> QED  BY <3>1, <3>2
  <2>7. /\ incidents' = [incidents EXCEPT ![c] = [tried EXCEPT ![i] = entry]]
        /\ acted' = acted \cup {[cycle |-> c, nr |-> i, key |-> key, version |-> tasks[p].row.version]}
    BY <1>2, <1>5, <1>7, <2>3, <2>4, <2>6 DEF Paid!ActCommit
  <2>8. PICK list \in Seq(Paid!Incident) : list = [tried EXCEPT ![i] = entry]
    <3>1. tried \in [1 .. Len(tried) -> Paid!Incident] /\ Len(tried) \in Nat
      BY <2>3
    <3>2. [tried EXCEPT ![i] = entry] \in [1 .. Len(tried) -> Paid!Incident]
      BY <3>1
    <3>3. [tried EXCEPT ![i] = entry] \in Seq(Paid!Incident)
      BY <3>1, <3>2, SeqDef
    <3> QED  BY <3>3
  <2>9. DOMAIN list = DOMAIN tried /\ list[i] = entry /\ \A n \in DOMAIN tried \ {i} : list[n] = tried[n]
    BY <2>5, <2>8
  <2>10. OneActive(list)
    BY <2>3, <2>6, <2>9 DEF OneActive
  <2>11. (\A n \in DOMAIN tried : tried[n].version \in Nat) /\ tasks[p].row.version \in Nat /\ entry.version \in Nat
    <3>1. \A n \in DOMAIN tried : tried[n] \in Paid!Incident
      BY <2>3
    <3> QED  BY <1>3, <3>1 DEF Paid!Incident
  <2>12. /\ DOMAIN incidents[c] \subseteq DOMAIN list
         /\ \A n \in DOMAIN incidents[c] : incidents[c][n].version <= list[n].version
    <3>1. ASSUME NEW n \in DOMAIN incidents[c] PROVE incidents[c][n].version <= list[n].version
      <4>1. incidents[c][n].version <= tried[n].version /\ incidents[c][n].version \in Nat
        BY <2>2, <2>3
      <4> QED  BY <2>3, <2>6, <2>9, <2>11, <4>1
    <3> QED  BY <2>3, <2>9, <3>1
  <2>13. incidents'[c] = list
    BY <2>7, <2>8 DEF PaidInv, Columns
  <2>14. ActsAreEarlier'
    <3>1. ASSUME NEW r \in acted
          PROVE  /\ r.cycle \in Cycles /\ r.nr \in DOMAIN incidents'[r.cycle] /\ r.version \in Nat
                 /\ r.version < incidents'[r.cycle][r.nr].version
      BY <2>7, <2>8, <2>12, StillEarlier
    <3>2. tasks[p].row.version < incidents'[c][i].version /\ i \in DOMAIN incidents'[c]
      <4>1. incidents[c][i].version <= tried[i].version /\ incidents[c][i].version \in Nat
        BY <1>3, <2>2, <2>3
      <4> QED  BY <1>3, <2>5, <2>6, <2>9, <2>11, <2>13, <4>1
    <3> QED  BY <2>7, <2>11, <3>1, <3>2 DEF ActsAreEarlier
  <2>15. quiet => \A q \in Procs \ {p} : Paid!Busy(q, "idle")
    BY <1>1 DEF PaidInv, PaidInTurn, Paid!Busy
  <2>16. ASSUME quiet, NEW r \in acted', NEW s \in acted', r.cycle = s.cycle, r.nr = s.nr, r.version = s.version
         PROVE  r = s
    <3> DEFINE new == [cycle |-> c, nr |-> i, key |-> key, version |-> tasks[p].row.version]
    <3>1. tasks[p].row = incidents[c][i]
      BY <1>1, <1>2, <1>3, <2>16 DEF PaidInv, PaidInTurn, Paid!Busy
    <3>2. ASSUME NEW a \in acted, a.cycle = c, a.nr = i, a.version = tasks[p].row.version PROVE FALSE
      BY <1>3, <2>2, <3>1, <3>2 DEF PaidInv, ActsAreEarlier
    <3>3. CASE r \in acted /\ s \in acted
      BY <2>16, <3>3 DEF PaidInv, PaidInTurn
    <3>4. CASE r = new \/ s = new
      BY <2>7, <2>16, <3>2, <3>4
    <3> QED  BY <2>7, <3>3, <3>4
  <2> QED  BY <1>1, <2>7, <2>8, <2>10, <2>12, <2>14, <2>15, <2>16, Rewrites
<1> QED  BY <1>6, <1>7

LEMMA ReassignStep ==
  ASSUME PaidInv, NEW l \in Learners, Paid!Reassign(l)
  PROVE  PaidInv'
<1>1. assigned' = l /\ UNCHANGED <<learner, role, batch, incidents, acted, tasks, quiet, ordered>>
  BY DEF Paid!Reassign
<1>2. Columns'
  BY <1>1 DEF PaidInv, Columns, Paid!TypeOK, Paid!IsMissing
<1>3. \A q \in Procs : Carries(tasks[q])'
  BY <1>1 DEF PaidInv, Carries, PaidFor, PaidNumbered, Paid!IsMissing
<1>4. ActsAreEarlier' /\ \A c \in Cycles : OneActive(incidents[c])'
  BY <1>1 DEF PaidInv, ActsAreEarlier, OneActive
<1>5. PaidInTurn'
  BY <1>1 DEF PaidInv, PaidInTurn, Paid!Busy
<1> QED  BY <1>2, <1>3, <1>4, <1>5 DEF PaidInv

LEMMA PaidAbandonStep ==
  ASSUME PaidInv, NEW p \in Procs, Paid!Abandon(p)
  PROVE  PaidInv'
BY Ends DEF Paid!Abandon

LEMMA PaidSameVars ==
  ASSUME PaidInv, UNCHANGED Paid!vars
  PROVE  PaidInv'
<1>1. UNCHANGED <<assigned, learner, role, batch, incidents, acted, tasks, quiet, ordered>>
  BY DEF Paid!vars
<1>2. Columns'
  BY <1>1 DEF PaidInv, Columns, Paid!TypeOK, Paid!IsMissing
<1>3. \A q \in Procs : Carries(tasks[q])'
  BY <1>1 DEF PaidInv, Carries, PaidFor, PaidNumbered, Paid!IsMissing
<1>4. ActsAreEarlier' /\ \A c \in Cycles : OneActive(incidents[c])'
  BY <1>1 DEF PaidInv, ActsAreEarlier, OneActive
<1>5. PaidInTurn'
  BY <1>1 DEF PaidInv, PaidInTurn, Paid!Busy
<1> QED  BY <1>2, <1>3, <1>4, <1>5 DEF PaidInv

LEMMA PaidNextHolds == PaidInv /\ [Paid!Next]_(Paid!vars) => PaidInv'
<1> SUFFICES ASSUME PaidInv, [Paid!Next]_(Paid!vars) PROVE PaidInv'
  OBVIOUS
<1>1. CASE UNCHANGED Paid!vars
  BY <1>1, PaidSameVars
<1>2. ASSUME NEW p \in Procs, \E c \in Cycles : Paid!Reconcile(p, c) PROVE PaidInv'
  BY <1>2, PaidReconcileStep
<1>3. ASSUME NEW p \in Procs,
             Paid!CycleDerive(p) \/ Paid!CycleCommit(p) \/ Paid!BatchRepair(p) \/ Paid!IncidentCommit(p) \/ Paid!ActCommit(p) \/ Paid!Abandon(p)
      PROVE PaidInv'
  BY <1>3, CycleDeriveStep, CycleCommitStep, BatchRepairStep, IncidentCommitStep, ActCommitStep, PaidAbandonStep
<1>4. ASSUME NEW p \in Procs,
             \E c \in Cycles, i \in 1 .. MaxIncidents, key \in Reports, action \in Paid!Actions : Paid!ActRead(p, c, i, key, action)
      PROVE PaidInv'
  BY <1>4, ActReadStep
<1>5. ASSUME NEW l \in Learners, Paid!Reassign(l) PROVE PaidInv'
  BY <1>5, ReassignStep
<1> QED  BY <1>1, <1>2, <1>3, <1>4, <1>5 DEF Paid!Next

\* A cycle has one batch at most, and one active incident.
\* The instance counts as the library does.
LEMMA PaidCounts ==
  ASSUME NEW S
  PROVE  Paid!Cardinality(S) = Cardinality(S)
BY DEF Paid!Cardinality, Cardinality

LEMMA PaidInvSuffices == PaidInv => Paid!TypeOK /\ Paid!IncidentsAreActedOnce /\ \A c \in Cycles : batch[c] <= 1
<1> SUFFICES ASSUME PaidInv PROVE Paid!TypeOK /\ Paid!IncidentsAreActedOnce /\ \A c \in Cycles : batch[c] <= 1
  OBVIOUS
<1>1. Paid!TypeOK /\ \A c \in Cycles : batch[c] <= 1
  BY DEF PaidInv, Columns
<1>2. ASSUME NEW c \in Cycles PROVE Cardinality(Paid!ActiveOf(c)) <= 1
  <2>1. CASE Paid!ActiveOf(c) = {}
    BY <2>1, FS_EmptySet
  <2>2. CASE Paid!ActiveOf(c) # {}
    <3>1. PICK i \in Paid!ActiveOf(c) : TRUE
      BY <2>2
    <3>2. Paid!ActiveOf(c) = {i}
      BY <3>1 DEF PaidInv, OneActive, Paid!ActiveOf
    <3>3. Cardinality({i}) = 1
      BY FS_Singleton
    <3> QED  BY <3>2, <3>3
  <2> QED  BY <2>1, <2>2
<1>3. quiet => \A r, s \in acted : r.cycle = s.cycle /\ r.nr = s.nr /\ r.version = s.version => r = s
  BY DEF PaidInv, PaidInTurn
<1> QED  BY <1>1, <1>2, <1>3, PaidCounts DEF Paid!IncidentsAreActedOnce

-----------------------------------------------------------------------------
(* Which periods bear the allocation (recomputeEffectiveEntitlement).               *)

\* A condition that some cycle meets is met by one no later than any other that meets it.
LEMMA EarliestOf ==
  ASSUME NEW S \in SUBSET Cycles, S # {}
  PROVE  \E c \in S : \A d \in S : Start[c] <= Start[d]
<1> DEFINE U == {u \in Nat : \E c \in S : Start[c] = u}
           R == {ss \in Nat \X Nat : ss[1] < ss[2]}
<1>1. IsWellFoundedOn(R, Nat)
  BY NatLessThanWellFounded DEF OpToRel
<1>2. \A x, y \in Nat : y < x => <<y, x>> \in R
  OBVIOUS
<1>3. U \in SUBSET Nat /\ \A c \in S : Start[c] \in U
  BY PeriodsAssumption
<1> HIDE DEF R
<1>4. PICK u \in U : \A y \in U : ~ (<<y, u>> \in R)
  <2>1. U # {} /\ U \in SUBSET Nat
    BY <1>3
  <2> HIDE DEF U
  <2> QED  BY <1>1, <2>1, WFMin
<1>5. PICK c \in S : Start[c] = u
  BY <1>4
<1>6. ASSUME NEW d \in S PROVE Start[c] <= Start[d]
  <2>1. PICK v \in Nat : v = Start[d] /\ v \in U
    BY <1>3
  <2>2. u \in Nat /\ ~(v < u)
    BY <1>2, <1>3, <1>4, <2>1
  <2> QED  BY <1>5, <2>1, <2>2
<1> QED  BY <1>6

\* A walk that is right about the cycles that start before a time, and two sets alike up to it.
Walked(B, S, n) == \A c \in S : Start[c] < n => (c \in B <=> \A d \in B : Start[d] < Start[c] => End[d] <= Start[c])
AlikeUpTo(A, B, n) == \A c \in Cycles : Start[c] < n => (c \in A <=> c \in B)

\* Two walks choose alike among the cycles that start before a time, when they are about the
\* same cycles up to it.
LEMMA WalksAgree ==
  ASSUME NEW n \in Nat, NEW S \in SUBSET Cycles, NEW T \in SUBSET Cycles,
         NEW A \in SUBSET S, NEW B \in SUBSET T,
         Walked(A, S, n), Walked(B, T, n), AlikeUpTo(S, T, n)
  PROVE  AlikeUpTo(A, B, n)
<1> DEFINE Odd == {c \in Cycles : Start[c] < n /\ ~(c \in A <=> c \in B)}
<1>1. SUFFICES ASSUME Odd # {} PROVE FALSE
  BY DEF AlikeUpTo
<1>2. PICK c \in Odd : \A d \in Odd : Start[c] <= Start[d]
  <2>1. Odd \in SUBSET Cycles
    OBVIOUS
  <2> HIDE DEF Odd
  <2> QED  BY <1>1, <2>1, EarliestOf
<1>3. c \in S /\ c \in T /\ Start[c] < n
  BY <1>2 DEF AlikeUpTo
<1>4. ASSUME NEW d \in Cycles, Start[d] < Start[c] PROVE d \in A <=> d \in B
  <2>1. Start[d] \in Nat /\ Start[c] \in Nat
    BY <1>2, PeriodsAssumption
  <2>2. d \notin Odd /\ Start[d] < n
    BY <1>2, <1>3, <1>4, <2>1
  <2> QED  BY <2>2
<1>5. c \in A <=> c \in B
  <2>1. /\ c \in A <=> \A d \in A : Start[d] < Start[c] => End[d] <= Start[c]
        /\ c \in B <=> \A d \in B : Start[d] < Start[c] => End[d] <= Start[c]
    BY <1>3 DEF Walked
  <2> QED  BY <1>4, <2>1
<1> QED  BY <1>2, <1>5

\* The walk over the cycles that start before a time chooses the next one or passes it over.
IsWalkUpTo(B, S, n) ==
  /\ B \subseteq {c \in S : Start[c] < n}
  /\ Walked(B, S, n)

LEMMA WalkGoesOn ==
  ASSUME NEW S \in SUBSET Cycles, NEW n \in Nat, NEW B, IsWalkUpTo(B, S, n)
  PROVE  \E C : IsWalkUpTo(C, S, n + 1)
<1> DEFINE C == B \cup {c \in S : Start[c] = n /\ \A d \in B : End[d] <= n}
<1>1. \A c \in S : Start[c] \in Nat
  BY PeriodsAssumption
<1>2. B \subseteq {c \in S : Start[c] < n}
  BY DEF IsWalkUpTo, Walked
<1>3. C \subseteq {c \in S : Start[c] < n + 1}
  BY <1>1, <1>2
<1>4. \A d \in S : Start[d] < n => (d \in C <=> d \in B)
  BY <1>1, <1>2
<1>5. ASSUME NEW c \in S, Start[c] < n + 1
      PROVE  c \in C <=> \A d \in C : Start[d] < Start[c] => End[d] <= Start[c]
  <2>1. \A d \in S : Start[d] < Start[c] => Start[d] < n
    BY <1>1, <1>5
  <2>2. (\A d \in C : Start[d] < Start[c] => End[d] <= Start[c]) <=> (\A d \in B : Start[d] < Start[c] => End[d] <= Start[c])
    BY <1>2, <1>3, <1>4, <2>1
  <2>3. CASE Start[c] < n
    <3>1. c \in B <=> \A d \in B : Start[d] < Start[c] => End[d] <= Start[c]
      BY <2>3 DEF IsWalkUpTo, Walked
    <3> QED  BY <1>4, <2>2, <2>3, <3>1
  <2>4. CASE Start[c] = n
    <3>1. c \notin B /\ \A d \in B : Start[d] < Start[c]
      BY <1>1, <1>2, <2>4
    <3> QED  BY <2>2, <2>4, <3>1
  <2> QED  BY <1>1, <1>5, <2>3, <2>4
<1> HIDE DEF C
<1>6. IsWalkUpTo(C, S, n + 1)
  BY <1>3, <1>5 DEF IsWalkUpTo, Walked
<1> QED  BY <1>6

LEMMA WalksUpToAll ==
  ASSUME NEW S \in SUBSET Cycles
  PROVE  \A n \in Nat : \E B : IsWalkUpTo(B, S, n)
<1> DEFINE U == {n \in Nat : ~\E B : IsWalkUpTo(B, S, n)}
           R == {ss \in Nat \X Nat : ss[1] < ss[2]}
<1>1. IsWellFoundedOn(R, Nat)
  BY NatLessThanWellFounded DEF OpToRel
<1>2. \A x, y \in Nat : y < x => <<y, x>> \in R
  OBVIOUS
<1> HIDE DEF R
<1>3. SUFFICES ASSUME U # {} PROVE FALSE
  OBVIOUS
<1>4. PICK n \in U : \A y \in U : ~ (<<y, n>> \in R)
  <2>1. U \in SUBSET Nat
    OBVIOUS
  <2> QED  BY <1>1, <1>3, <2>1, WFMin
<1>5. CASE n = 0
  <2>1. IsWalkUpTo({}, S, 0)
    BY PeriodsAssumption DEF IsWalkUpTo, Walked
  <2> QED  BY <1>4, <1>5, <2>1
<1>6. CASE n # 0
  <2>1. n \in Nat /\ n - 1 \in Nat /\ n - 1 < n /\ (n - 1) + 1 = n
    BY <1>4, <1>6
  <2>2. n - 1 \notin U
    BY <1>2, <1>4, <2>1
  <2>3. PICK m \in Nat : m = n - 1
    BY <2>1
  <2>4. PICK B : IsWalkUpTo(B, S, m)
    BY <2>2, <2>3
  <2>5. \E C : IsWalkUpTo(C, S, m + 1)
    BY <2>3, <2>4, WalkGoesOn
  <2> QED  BY <1>4, <2>1, <2>3, <2>5
<1> QED  BY <1>5, <1>6

\* The walks over ever more cycles make one: it is what the definition chooses.
LEMMA BearingIs ==
  ASSUME NEW S \in SUBSET Cycles
  PROVE  Paid!Bearing(S) \subseteq S /\ Paid!IsWalk(Paid!Bearing(S), S)
<1> DEFINE W(n) == CHOOSE B : IsWalkUpTo(B, S, n)
           All == {c \in S : c \in W(Start[c] + 1)}
<1>1. \A n \in Nat : IsWalkUpTo(W(n), S, n)
  BY WalksUpToAll
<1> HIDE DEF W
<1>2. ASSUME NEW n \in Nat, NEW m \in Nat, n <= m, NEW c \in Cycles, Start[c] < n
      PROVE  c \in W(n) <=> c \in W(m)
  <2>1. PICK A \in SUBSET S : A = W(n) /\ IsWalkUpTo(A, S, n)
    BY <1>1 DEF IsWalkUpTo, Walked
  <2>2. PICK B \in SUBSET S : B = W(m) /\ IsWalkUpTo(B, S, m)
    BY <1>1 DEF IsWalkUpTo, Walked
  <2>3. Walked(A, S, n)
    BY <2>1 DEF IsWalkUpTo
  <2>4. Walked(B, S, n)
    BY <1>2, <2>2, PeriodsAssumption DEF IsWalkUpTo, Walked
  <2>5. AlikeUpTo(S, S, n)
    BY DEF AlikeUpTo
  <2>6. AlikeUpTo(A, B, n)
    BY <2>3, <2>4, <2>5, WalksAgree
  <2> QED  BY <1>2, <2>1, <2>2, <2>6 DEF AlikeUpTo
<1>3. ASSUME NEW c \in S PROVE c \in All <=> \A d \in All : Start[d] < Start[c] => End[d] <= Start[c]
  <2>1. PICK n \in Nat : n = Start[c] + 1
    BY PeriodsAssumption
  <2>2. Start[c] \in Nat /\ Start[c] < n /\ c \in Cycles
    BY <2>1, PeriodsAssumption
  <2>3. IsWalkUpTo(W(n), S, n) /\ W(n) \subseteq S
    BY <1>1 DEF IsWalkUpTo, Walked
  <2>4. c \in W(n) <=> \A d \in W(n) : Start[d] < Start[c] => End[d] <= Start[c]
    BY <2>2, <2>3 DEF IsWalkUpTo, Walked
  <2>5. ASSUME NEW d \in S, Start[d] < Start[c] PROVE d \in All <=> d \in W(n)
    <3>1. PICK m \in Nat : m = Start[d] + 1
      BY PeriodsAssumption
    <3>2. m <= n /\ Start[d] < m /\ d \in Cycles
      BY <2>1, <2>2, <2>5, <3>1, PeriodsAssumption
    <3>3. d \in W(m) <=> d \in W(n)
      BY <1>2, <3>2
    <3> QED  BY <3>1, <3>3
  <2>6. c \in All <=> c \in W(n)
    BY <2>1
  <2>7. (\A d \in All : Start[d] < Start[c] => End[d] <= Start[c]) <=> (\A d \in W(n) : Start[d] < Start[c] => End[d] <= Start[c])
    BY <2>3, <2>5
  <2> QED  BY <2>4, <2>6, <2>7
<1>4. All \in SUBSET S /\ Paid!IsWalk(All, S)
  BY <1>3 DEF Paid!IsWalk
<1> HIDE DEF All
<1> QED  BY <1>4 DEF Paid!Bearing

\* What starts after all of them changes nothing for cycles that have been walked.
LEMMA BearingOfEarlier ==
  ASSUME NEW S \in SUBSET Cycles, NEW c \in Cycles, \A d \in S : Start[d] < Start[c]
  PROVE  \A d \in S : d \in Paid!Bearing(S \cup {c}) <=> d \in Paid!Bearing(S)
<1>1. PICK n \in Nat : n = Start[c]
  BY PeriodsAssumption
<1>2. PICK A \in SUBSET S : A = Paid!Bearing(S) /\ Paid!IsWalk(A, S)
  BY BearingIs
<1>3. PICK T \in SUBSET Cycles : T = S \cup {c}
  OBVIOUS
<1>4. PICK B \in SUBSET T : B = Paid!Bearing(S \cup {c}) /\ Paid!IsWalk(B, T)
  BY <1>3, BearingIs
<1>5. Walked(A, S, n)
  BY <1>2 DEF Paid!IsWalk, Walked
<1>6. Walked(B, T, n)
  BY <1>4 DEF Paid!IsWalk, Walked
<1>7. AlikeUpTo(S, T, n)
  BY <1>1, <1>3, PeriodsAssumption DEF AlikeUpTo
<1>8. AlikeUpTo(A, B, n)
  BY <1>5, <1>6, <1>7, WalksAgree
<1> QED  BY <1>1, <1>2, <1>4, <1>8 DEF AlikeUpTo

\* Bearing periods do not overlap, and a supporting one starts within a bearing one.
LEMMA WalksAreApart ==
  ASSUME NEW S \in SUBSET Cycles
  PROVE  /\ \A c, d \in Paid!Bearing(S) : c = d \/ End[c] <= Start[d] \/ End[d] <= Start[c]
         /\ \A c \in S \ Paid!Bearing(S) : \E d \in Paid!Bearing(S) : Start[d] < Start[c] /\ Start[c] < End[d]
<1>1. PICK B \in SUBSET S : B = Paid!Bearing(S) /\ \A c \in S : c \in B <=> \A d \in B : Start[d] < Start[c] => End[d] <= Start[c]
  BY BearingIs DEF Paid!IsWalk
<1>2. \A c \in S : Start[c] \in Nat /\ End[c] \in Nat
  BY PeriodsAssumption
<1>3. ASSUME NEW c \in B, NEW d \in B, c # d PROVE End[c] <= Start[d] \/ End[d] <= Start[c]
  <2>1. Start[c] # Start[d]
    BY <1>3, PeriodsAssumption
  <2> QED  BY <1>1, <1>2, <2>1
<1>4. ASSUME NEW c \in S \ B PROVE \E d \in B : Start[d] < Start[c] /\ Start[c] < End[d]
  <2>1. PICK d \in B : Start[d] < Start[c] /\ ~(End[d] <= Start[c])
    BY <1>1
  <2> QED  BY <1>2, <2>1
<1> QED  BY <1>1, <1>3, <1>4

-----------------------------------------------------------------------------
(* The roles of the periods while requests follow each other.                        *)

\* The roles of a learner's periods are those of a walk over all of them, which is what a
\* request that writes them has read; applied in their order, only bearing ones have a batch.
RolesStand ==
  quiet => /\ \A c \in Cycles : ~Paid!IsMissing(c) => role[c] = Paid!RoleIn(Paid!OfLearner(learner[c]), c)
           /\ \A p \in Procs : tasks[p].op = "derive" => tasks[p].found = Paid!OfLearner(tasks[p].for)
           /\ \A p \in Procs : tasks[p].op \in {"derive", "batches"} => tasks[p].roles = role
BatchesStand == ordered => quiet /\ \A c \in Cycles : batch[c] > 0 => role[c] = "bearing"
RolesInv == RolesStand /\ BatchesStand

LEMMA RolesInit == Paid!Init => RolesInv
<1> SUFFICES ASSUME Paid!Init PROVE RolesInv
  OBVIOUS
<1>1. \A c \in Cycles : Paid!IsMissing(c) /\ batch[c] = 0
  BY DEF Paid!Init, Paid!IsMissing
<1>2. (\A p \in Procs : tasks[p].op = "idle") /\ quiet
  BY IdleIs DEF Paid!Init
<1> QED  BY <1>1, <1>2 DEF RolesInv, RolesStand, BatchesStand

\* A step that only serves a request.
LEMMA RolesOfWork ==
  ASSUME PaidInv, RolesInv, NEW p \in Procs, NEW w \in PaidWork, Paid!Goes(p, w),
         UNCHANGED <<learner, role, batch>>, quiet' => quiet, ordered' => ordered /\ quiet',
         quiet /\ w.op = "derive" => w.found = Paid!OfLearner(w.for),
         quiet /\ w.op \in {"derive", "batches"} => w.roles = role
  PROVE  RolesInv'
<1>1. tasks'[p] = w /\ \A q \in Procs \ {p} : tasks'[q] = tasks[q]
  BY DEF Paid!Goes, PaidInv, Columns
<1>2. RolesStand'
  <2> SUFFICES ASSUME quiet'
               PROVE  /\ \A c \in Cycles : ~Paid!IsMissing(c)' => role'[c] = Paid!RoleIn(Paid!OfLearner(learner[c]), c)'
                      /\ \A q \in Procs : tasks'[q].op = "derive" => tasks'[q].found = Paid!OfLearner(tasks[q].for)'
                      /\ \A q \in Procs : tasks'[q].op \in {"derive", "batches"} => tasks'[q].roles = role'
    BY DEF RolesStand
  <2>1. \A c \in Cycles : ~Paid!IsMissing(c)' => role'[c] = Paid!RoleIn(Paid!OfLearner(learner[c]), c)'
    BY DEF RolesInv, RolesStand, Paid!IsMissing, Paid!OfLearner
  <2>2. \A q \in Procs : tasks'[q].op = "derive" => tasks'[q].found = Paid!OfLearner(tasks[q].for)'
    BY <1>1 DEF RolesInv, RolesStand, Paid!OfLearner
  <2>3. \A q \in Procs : tasks'[q].op \in {"derive", "batches"} => tasks'[q].roles = role'
    BY <1>1 DEF RolesInv, RolesStand
  <2> QED  BY <2>1, <2>2, <2>3
<1>3. BatchesStand'
  BY DEF RolesInv, BatchesStand
<1> QED  BY <1>2, <1>3 DEF RolesInv

LEMMA RolesOfEnd ==
  ASSUME PaidInv, RolesInv, NEW p \in Procs, Paid!Goes(p, Paid!Idle),
         UNCHANGED <<learner, role, batch, quiet, ordered>>
  PROVE  RolesInv'
<1>1. ordered => quiet
  BY DEF RolesInv, BatchesStand
<1> QED  BY <1>1, IdleIs, RolesOfWork

LEMMA RolesOfReconcile ==
  ASSUME PaidInv, RolesInv, NEW p \in Procs, NEW c \in Cycles, Paid!Reconcile(p, c)
  PROVE  RolesInv'
<1>1. /\ assigned \in Learners \cup {Paid!Nobody} /\ role \in [Cycles -> Paid!Roles]
      /\ Paid!ActiveOf(c) \in SUBSET Nat
  BY DEF PaidInv, Columns, Paid!TypeOK, Paid!ActiveOf
<1>2. PICK w \in PaidWork :
        /\ Paid!Arrive(p, w)
        /\ \/ w = [Paid!Idle EXCEPT !.op = "cycle", !.cycle = {c}, !.for = assigned]
           \/ w = [Paid!Idle EXCEPT !.op = "incident", !.cycle = {c}, !.found = Paid!ActiveOf(c)]
           \/ w = [Paid!Idle EXCEPT !.op = "batches", !.cycle = {c}, !.roles = role]
  <2>1. /\ [Paid!Idle EXCEPT !.op = "cycle", !.cycle = {c}, !.for = assigned] \in PaidWork
        /\ [Paid!Idle EXCEPT !.op = "incident", !.cycle = {c}, !.found = Paid!ActiveOf(c)] \in PaidWork
        /\ [Paid!Idle EXCEPT !.op = "batches", !.cycle = {c}, !.roles = role] \in PaidWork
    BY <1>1, IdleIs DEF PaidWork, Ops
  <2> QED  BY <2>1 DEF Paid!Reconcile
<1>3. w.op \in {"cycle", "incident", "batches"} /\ (w.op = "batches" => w.roles = role)
  BY <1>2, IdleIs DEF PaidWork
<1>4. /\ Paid!Goes(p, w) /\ (quiet' => quiet) /\ (ordered' => ordered /\ quiet')
      /\ UNCHANGED <<learner, role, batch>>
  BY <1>2 DEF Paid!Arrive, Paid!Reconcile
<1> QED  BY <1>3, <1>4, RolesOfWork

LEMMA RolesOfActRead ==
  ASSUME PaidInv, RolesInv, NEW p \in Procs, NEW c \in Cycles, NEW i \in 1 .. MaxIncidents, NEW key \in Reports,
         NEW action \in Paid!Actions,
         Paid!ActRead(p, c, i, key, action)
  PROVE  RolesInv'
<1>1. i \in Nat /\ incidents[c][i] \in Paid!Incident
  BY VersionsAre DEF Paid!ActRead, PaidInv
<1>2. PICK w \in PaidWork : /\ w = [Paid!Idle EXCEPT !.op = "act", !.cycle = {c}, !.found = {i}, !.key = {key},
                                   !.action = action, !.row = incidents[c][i]]
                            /\ Paid!Arrive(p, w)
  <2>1. [Paid!Idle EXCEPT !.op = "act", !.cycle = {c}, !.found = {i}, !.key = {key},
           !.action = action, !.row = incidents[c][i]] \in PaidWork
    BY <1>1, IdleIs DEF PaidWork, Ops
  <2> QED  BY <2>1 DEF Paid!ActRead
<1>3. w.op = "act"
  BY <1>2, IdleIs DEF PaidWork
<1>4. /\ Paid!Goes(p, w) /\ (quiet' => quiet) /\ (ordered' => ordered /\ quiet')
      /\ UNCHANGED <<learner, role, batch>>
  BY <1>2 DEF Paid!Arrive, Paid!ActRead
<1> QED  BY <1>3, <1>4, RolesOfWork

LEMMA RolesOfDerive ==
  ASSUME PaidInv, RolesInv, NEW p \in Procs, Paid!CycleDerive(p)
  PROVE  RolesInv'
<1>1. tasks[p].op = "cycle" /\ UNCHANGED <<learner, role, batch, quiet, ordered>> /\ tasks[p] \in PaidWork
      /\ role \in [Cycles -> Paid!Roles] /\ Paid!OfLearner(tasks[p].for) \in SUBSET Cycles
  BY DEF Paid!CycleDerive, Paid!Busy, PaidInv, Columns, Paid!TypeOK, Paid!OfLearner
<1>2. PICK w \in PaidWork : w = [tasks[p] EXCEPT !.op = "derive", !.found = Paid!OfLearner(tasks[p].for), !.roles = role]
  BY <1>1 DEF PaidWork, Ops
<1>3. w.op = "derive" /\ w.found = Paid!OfLearner(w.for) /\ w.roles = role /\ Paid!Goes(p, w)
  BY <1>1, <1>2 DEF PaidWork, Paid!CycleDerive
<1>4. ordered => quiet
  BY DEF RolesInv, BatchesStand
<1> QED  BY <1>1, <1>3, <1>4, RolesOfWork

\* The period of a new cycle: those of its learner are walked again, and the last of them
\* leaves the others their roles.
LEMMA RolesOfCommit ==
  ASSUME PaidInv, RolesInv, NEW p \in Procs, Paid!CycleCommit(p)
  PROVE  RolesInv'
<1>1. /\ tasks[p].op = "derive" /\ Paid!Goes(p, Paid!Idle) /\ UNCHANGED quiet
      /\ tasks[p] \in PaidWork /\ Carries(tasks[p])
  BY DEF Paid!CycleCommit, Paid!Busy, PaidInv, Columns
<1>2. PICK c \in Cycles : c = Paid!CycleOf(p) /\ tasks[p].cycle = {c}
  BY <1>1, CarriedIs
<1>3. CASE Paid!CycleRefused(p)
  BY <1>1, <1>3, RolesOfEnd DEF Paid!CycleCommit
<1>4. CASE ~Paid!CycleRefused(p)
  <2> DEFINE S == tasks[p].found \cup {c}
  <2>1. PICK l \in Learners : l = tasks[p].for /\ l # Paid!Nobody
    BY <1>1, SomebodyAssumption DEF Carries, PaidFor
  <2>2. /\ learner' = [learner EXCEPT ![c] = l]
        /\ role' = [d \in Cycles |-> IF d \in S /\ Paid!RoleIn(S, d) # tasks[p].roles[d] THEN Paid!RoleIn(S, d) ELSE role[d]]
        /\ batch' = [batch EXCEPT ![c] = IF c \in Paid!Bearing(S) THEN @ + 1 ELSE @]
        /\ ordered' = (ordered /\ \A d \in Paid!OfLearner(l) : Start[d] < Start[c])
    BY <1>2, <1>4, <2>1 DEF Paid!CycleCommit
  <2>3. /\ learner[c] = Paid!Nobody /\ batch[c] = 0 /\ batch \in [Cycles -> {0, 1}]
        /\ learner \in [Cycles -> Learners \cup {Paid!Nobody}]
    BY <1>2, <1>4 DEF Paid!CycleRefused, Paid!IsMissing, PaidInv, Columns, Paid!TypeOK
  <2>4. learner'[c] = l /\ \A d \in Cycles \ {c} : learner'[d] = learner[d]
    BY <2>2, <2>3
  <2> HIDE DEF S
  <2>5. tasks'[p].op = "idle" /\ \A q \in Procs \ {p} : tasks'[q] = tasks[q]
    BY <1>1, IdleIs DEF Paid!Goes, PaidInv, Columns
  <2>6. ASSUME quiet
        PROVE  /\ \A q \in Procs : tasks'[q].op = "idle"
               /\ S = Paid!OfLearner(l) \cup {c} /\ S \in SUBSET Cycles /\ S = Paid!OfLearner(l)'
               /\ \A d \in S : role'[d] = Paid!RoleIn(S, d)
               /\ \A d \in Cycles \ S : role'[d] = role[d]
    <3>1. \A q \in Procs : tasks'[q].op = "idle"
      BY <1>1, <2>5, <2>6 DEF PaidInv, PaidInTurn, Paid!Busy
    <3>2. tasks[p].found = Paid!OfLearner(l) /\ tasks[p].roles = role
      BY <1>1, <2>1, <2>6 DEF RolesInv, RolesStand
    <3>3. S = Paid!OfLearner(l) \cup {c} /\ S \in SUBSET Cycles
      BY <3>2 DEF S, Paid!OfLearner
    <3>4. S = Paid!OfLearner(l)'
      BY <2>1, <2>3, <2>4, <3>3 DEF Paid!OfLearner
    <3>5. \A d \in S : role'[d] = Paid!RoleIn(S, d)
      BY <2>2, <3>2, <3>3
    <3>6. \A d \in Cycles \ S : role'[d] = role[d]
      BY <2>2
    <3> QED  BY <3>1, <3>3, <3>4, <3>5, <3>6
  <2>7. ASSUME quiet, NEW d \in Cycles, ~Paid!IsMissing(d)'
        PROVE  role'[d] = Paid!RoleIn(Paid!OfLearner(learner[d]), d)'
    <3>1. CASE d \in S
      <4>1. learner'[d] = l
        BY <2>6, <2>7, <3>1 DEF Paid!OfLearner
      <4>2. Paid!OfLearner(learner[d])' = S
        BY <2>6, <2>7, <4>1 DEF Paid!OfLearner
      <4>3. Paid!RoleIn(Paid!OfLearner(learner[d]), d)' = Paid!RoleIn(S, d)
        BY <4>2 DEF Paid!RoleIn, Paid!Bearing, Paid!IsWalk
      <4> QED  BY <2>6, <2>7, <3>1, <4>3
    <3>2. CASE d \notin S
      <4>1. d # c /\ learner'[d] = learner[d] /\ learner[d] # l /\ ~Paid!IsMissing(d)
        BY <2>4, <2>6, <2>7, <3>2 DEF Paid!OfLearner, Paid!IsMissing
      <4>2. Paid!OfLearner(learner[d])' = Paid!OfLearner(learner[d])
        BY <2>1, <2>3, <2>4, <4>1 DEF Paid!OfLearner, Paid!IsMissing
      <4>3. Paid!RoleIn(Paid!OfLearner(learner[d]), d)' = Paid!RoleIn(Paid!OfLearner(learner[d]), d)
        BY <4>2 DEF Paid!RoleIn, Paid!Bearing, Paid!IsWalk
      <4> QED  BY <2>6, <2>7, <3>2, <4>1, <4>3 DEF RolesInv, RolesStand
    <3> QED  BY <3>1, <3>2
  <2>8. RolesStand'
    BY <1>1, <2>6, <2>7 DEF RolesStand
  <2>9. ASSUME ordered', NEW d \in Cycles, batch'[d] > 0 PROVE role'[d] = "bearing"
    <3>1. ordered /\ quiet /\ \A e \in Paid!OfLearner(l) : Start[e] < Start[c]
      BY <2>2, <2>9 DEF RolesInv, BatchesStand
    <3>2. CASE d = c
      <4>1. c \in Paid!Bearing(S) /\ c \in S
        BY <2>2, <2>3, <2>9, <3>2 DEF S
      <4> QED  BY <2>6, <3>1, <3>2, <4>1 DEF Paid!RoleIn
    <3>3. CASE d # c
      <4>1. batch[d] > 0 /\ role[d] = "bearing"
        BY <2>2, <2>3, <2>9, <3>1, <3>3 DEF RolesInv, BatchesStand
      <4>2. CASE d \in S
        <5>1. d \in Paid!OfLearner(l) /\ learner[d] = l /\ ~Paid!IsMissing(d)
          BY <2>1, <2>6, <3>1, <3>3, <4>2 DEF Paid!OfLearner, Paid!IsMissing
        <5>2. d \in Paid!Bearing(Paid!OfLearner(l))
          BY <3>1, <4>1, <5>1 DEF RolesInv, RolesStand, Paid!RoleIn
        <5>3. Paid!OfLearner(l) \in SUBSET Cycles
          BY DEF Paid!OfLearner
        <5>4. d \in Paid!Bearing(S)
          BY <2>6, <3>1, <5>1, <5>2, <5>3, BearingOfEarlier
        <5> QED  BY <2>6, <3>1, <4>2, <5>4 DEF Paid!RoleIn
      <4>3. CASE d \notin S
        BY <2>6, <3>1, <4>1, <4>3
      <4> QED  BY <4>2, <4>3
    <3> QED  BY <3>2, <3>3
  <2>10. BatchesStand'
    BY <1>1, <2>2, <2>9 DEF RolesInv, BatchesStand
  <2> QED  BY <2>8, <2>10 DEF RolesInv
<1> QED  BY <1>3, <1>4

LEMMA RolesOfRepair ==
  ASSUME PaidInv, RolesInv, NEW p \in Procs, Paid!BatchRepair(p)
  PROVE  RolesInv'
<1>1. /\ tasks[p].op = "batches" /\ Paid!Goes(p, Paid!Idle) /\ UNCHANGED <<learner, role, quiet, ordered>>
  BY DEF Paid!BatchRepair, Paid!Busy
<1>2. PICK c \in Cycles : c = Paid!CycleOf(p)
  BY <1>1, CarriedIs
<1>3. /\ batch' = [batch EXCEPT ![c] = IF tasks[p].roles[c] = "bearing" /\ Paid!LacksBatch(c) THEN @ + 1 ELSE @]
      /\ batch \in [Cycles -> {0, 1}]
  BY <1>2 DEF Paid!BatchRepair, PaidInv, Columns
<1>4. tasks'[p].op = "idle" /\ \A q \in Procs \ {p} : tasks'[q] = tasks[q]
  BY <1>1, IdleIs DEF PaidInv, Columns, Paid!Goes
<1>5. RolesStand'
  <2>1. \A l : Paid!OfLearner(l)' = Paid!OfLearner(l)
    BY <1>1 DEF Paid!OfLearner
  <2>2. ASSUME quiet, NEW d \in Cycles, ~Paid!IsMissing(d)'
        PROVE  role'[d] = Paid!RoleIn(Paid!OfLearner(learner[d]), d)'
    BY <1>1, <2>2 DEF RolesInv, RolesStand, Paid!IsMissing, Paid!OfLearner
  <2> QED  BY <1>1, <1>4, <2>1, <2>2 DEF RolesInv, RolesStand
<1>6. ASSUME ordered, NEW d \in Cycles, batch'[d] > 0 PROVE role[d] = "bearing"
  <2>1. tasks[p].roles = role
    BY <1>1, <1>6 DEF RolesInv, RolesStand, BatchesStand
  <2>2. CASE d = c /\ batch[d] = 0
    BY <1>3, <1>6, <2>1, <2>2
  <2>3. CASE d # c \/ batch[d] # 0
    <3>1. batch[d] > 0
      BY <1>3, <1>6, <2>3
    <3> QED  BY <1>6, <3>1 DEF RolesInv, BatchesStand
  <2> QED  BY <2>2, <2>3
<1>7. BatchesStand'
  BY <1>1, <1>6 DEF RolesInv, BatchesStand
<1> QED  BY <1>5, <1>7 DEF RolesInv

LEMMA RolesOfRest ==
  ASSUME PaidInv, RolesInv, UNCHANGED <<learner, role, batch, tasks, quiet, ordered>>
  PROVE  RolesInv'
<1>1. RolesStand'
  BY DEF RolesInv, RolesStand, Paid!IsMissing, Paid!OfLearner
<1>2. BatchesStand'
  BY DEF RolesInv, BatchesStand
<1> QED  BY <1>1, <1>2 DEF RolesInv

LEMMA RolesNext == PaidInv /\ RolesInv /\ [Paid!Next]_(Paid!vars) => RolesInv'
<1> SUFFICES ASSUME PaidInv, RolesInv, [Paid!Next]_(Paid!vars) PROVE RolesInv'
  OBVIOUS
<1>1. CASE UNCHANGED Paid!vars
  BY <1>1, RolesOfRest DEF Paid!vars
<1>2. ASSUME NEW p \in Procs, \E c \in Cycles : Paid!Reconcile(p, c) PROVE RolesInv'
  BY <1>2, RolesOfReconcile
<1>3. ASSUME NEW p \in Procs, Paid!CycleDerive(p) \/ Paid!CycleCommit(p) \/ Paid!BatchRepair(p) PROVE RolesInv'
  BY <1>3, RolesOfDerive, RolesOfCommit, RolesOfRepair
<1>4. ASSUME NEW p \in Procs, Paid!IncidentCommit(p) \/ Paid!ActCommit(p) \/ Paid!Abandon(p) PROVE RolesInv'
  BY <1>4, RolesOfEnd DEF Paid!IncidentCommit, Paid!ActCommit, Paid!Abandon
<1>5. ASSUME NEW p \in Procs,
             \E c \in Cycles, i \in 1 .. MaxIncidents, key \in Reports, action \in Paid!Actions : Paid!ActRead(p, c, i, key, action)
      PROVE RolesInv'
  BY <1>5, RolesOfActRead
<1>6. ASSUME NEW l \in Learners, Paid!Reassign(l) PROVE RolesInv'
  BY <1>6, RolesOfRest DEF Paid!Reassign
<1> QED  BY <1>1, <1>2, <1>3, <1>4, <1>5, <1>6 DEF Paid!Next

LEMMA RolesInvSuffices == PaidInv /\ RolesInv => Paid!AllocatedOnce
<1> SUFFICES ASSUME PaidInv, RolesInv PROVE Paid!AllocatedOnce
  OBVIOUS
<1>1. \A c \in Cycles : batch[c] <= 1
  BY PaidInvSuffices
<1>2. ASSUME quiet, NEW c \in Cycles, role[c] \in {"bearing", "supporting"}
      PROVE  /\ c \in Paid!OfLearner(learner[c]) /\ Paid!OfLearner(learner[c]) \in SUBSET Cycles
             /\ role[c] = "bearing" <=> c \in Paid!Bearing(Paid!OfLearner(learner[c]))
             /\ ~Paid!IsMissing(c)
  <2>1. ~Paid!IsMissing(c)
    BY <1>2 DEF PaidInv, Columns, Paid!TypeOK
  <2>2. role[c] = Paid!RoleIn(Paid!OfLearner(learner[c]), c)
    BY <1>2, <2>1 DEF RolesInv, RolesStand
  <2> QED  BY <2>1, <2>2 DEF Paid!RoleIn, Paid!OfLearner
<1>3. ASSUME quiet, NEW c \in Cycles, NEW d \in Cycles, role[c] = "bearing", role[d] = "bearing"
      PROVE  ~Paid!Overlap(c, d)
  <2> SUFFICES ASSUME c # d, learner[c] = learner[d], Start[c] < End[d], Start[d] < End[c] PROVE FALSE
    BY DEF Paid!Overlap
  <2>1. PICK S \in SUBSET Cycles : S = Paid!OfLearner(learner[c]) /\ c \in Paid!Bearing(S) /\ d \in Paid!Bearing(S)
    BY <1>2, <1>3
  <2>2. End[c] <= Start[d] \/ End[d] <= Start[c]
    BY <2>1, WalksAreApart
  <2> QED  BY <2>2, PeriodsAssumption
<1>4. ASSUME quiet, NEW c \in Cycles, role[c] = "supporting"
      PROVE  \E d \in Cycles : role[d] = "bearing" /\ Paid!Overlap(c, d) /\ Start[d] <= Start[c]
  <2>1. PICK S \in SUBSET Cycles : S = Paid!OfLearner(learner[c]) /\ c \in S \ Paid!Bearing(S)
    BY <1>2, <1>4
  <2>2. PICK d \in Paid!Bearing(S) : Start[d] < Start[c] /\ Start[c] < End[d]
    BY <2>1, WalksAreApart
  <2>3. d \in Cycles /\ d \in S /\ learner[d] = learner[c] /\ ~Paid!IsMissing(d)
    BY <1>2, <1>4, <2>1, <2>2, BearingIs DEF Paid!OfLearner, Paid!IsMissing
  <2>4. role[d] = "bearing"
    BY <1>4, <2>1, <2>2, <2>3 DEF RolesInv, RolesStand, Paid!RoleIn
  <2>5. Paid!Overlap(c, d) /\ Start[d] <= Start[c]
    BY <2>2, <2>3, PeriodsAssumption DEF Paid!Overlap
  <2> QED  BY <2>3, <2>4, <2>5
<1>5. ASSUME ordered, NEW c \in Cycles, NEW d \in Cycles, batch[c] > 0, batch[d] > 0 PROVE ~Paid!Overlap(c, d)
  BY <1>3, <1>5 DEF RolesInv, BatchesStand
<1> QED  BY <1>1, <1>3, <1>4, <1>5 DEF Paid!AllocatedOnce

-----------------------------------------------------------------------------
(* Whom the subscriptions are for (Assignment).                                     *)

\* A row that exists has a learner, and only such a row has one pending.
RowsAreWhole ==
  \A s \in Reports :
    /\ sub[s].status = "none" => sub[s].pending = {}
    /\ sub[s].status # "none" => \E l \in Learners : sub[s].learner = {l}
CasesAreWhole ==
  \A c \in Cycles : reassignment[c].status # "none" =>
    /\ \E s \in Reports : reassignment[c].sub = {s} /\ sub[s].status # "none"
    /\ \E l \in Learners : reassignment[c].target = {l}

\* What a request carries: the case it executes says so, and while the version it read stands,
\* the case still waits for it.
Ordering == {"immediate", "next_period"}
Carrying(j) ==
  /\ j.at = "idle" => j = Assigned!Idle
  /\ j.at # "idle" => \E s \in Reports : j.sub = {s}
  /\ j.at \in {"checkout", "request"} \cup Ordering \cup {"move"} => \E l \in Learners : j.learner = {l}
  /\ j.at \notin {"idle", "checkout"} => \A s \in j.sub : sub[s].status # "none"
  /\ j.at \in Ordering \cup {"move"} =>
       \E c \in Cycles : j.case = {c} /\ reassignment[c].status # "none" /\ reassignment[c].sub = j.sub /\ reassignment[c].target = j.learner
Stands(p) ==
  \A s \in Reports : p \in unmoved[s] =>
    /\ request[p].sub = {s} /\ request[p].at \in Ordering \cup {"move"}
    /\ request[p].at \in Ordering => \A c \in request[p].case : reassignment[c].status = "open"
    /\ request[p].at = "move" => /\ \A c \in request[p].case : reassignment[c].status = "scheduled"
                                 /\ sub[s].pending = request[p].learner
AssignedCarries(p) == Carrying(request[p]) /\ Stands(p)

\* A subscription waits for a learner exactly while its one scheduled case says so.
Scheduled(s) == {c \in Cycles : reassignment[c].status = "scheduled" /\ reassignment[c].sub = {s}}
Waits(s) ==
  /\ \A c, d \in Scheduled(s) : c = d
  /\ \A c \in Scheduled(s) : sub[s].pending = reassignment[c].target
  /\ Scheduled(s) = {} => sub[s].pending = {}

Kept == /\ Assigned!TypeOK /\ RowsAreWhole /\ CasesAreWhole
        /\ \A p \in Procs : AssignedCarries(p)
        /\ \A s \in Reports : Waits(s)

\* Of requests that follow each other: nobody else serves the learner of a subscription, or
\* whom a request is about to give it.
AssignedServes(s, l) == s \notin revived /\ sub[s].status \in Assigned!Live /\ sub[s].learner = {l}
Sole(s, l) == \A t \in Reports \ {s} : ~AssignedServes(t, l)
Looked(j) ==
  \A s \in j.sub :
    /\ j.at = "activate" => \A l \in sub[s].learner : Sole(s, l)
    /\ j.at \in Ordering \cup {"move"} => \A l \in j.learner : Sole(s, l)
    /\ j.at \in {"boundary", "renew"} =>
         sub[s].status = "expired" \/ s \in revived \/ \A l \in sub[s].learner : Sole(s, l)
AssignedInTurn ==
  ~overlapped =>
    /\ \A p, q \in Procs : request[p].at # "idle" /\ request[q].at # "idle" => p = q
    /\ \A p \in Procs : Looked(request[p])
    /\ \A s, t \in Reports, l \in Learners : AssignedServes(s, l) /\ AssignedServes(t, l) => s = t

AssignedInv == Kept /\ AssignedInTurn

-----------------------------------------------------------------------------
LEMMA IdleIsJob == Assigned!Idle \in Assigned!Job /\ Assigned!Idle.at = "idle" /\ Assigned!Idle.sub = {}
BY DEF Assigned!Idle, Assigned!Job, Assigned!Steps

LEMMA AssignedInitHolds == Assigned!Init => AssignedInv
<1> SUFFICES ASSUME Assigned!Init PROVE AssignedInv
  OBVIOUS
<1>1. Assigned!TypeOK
  BY IdleIsJob DEF Assigned!Init, Assigned!TypeOK, Assigned!Row, Assigned!Case
<1>2. RowsAreWhole /\ CasesAreWhole
  BY DEF Assigned!Init, RowsAreWhole, CasesAreWhole
<1>3. \A p \in Procs : AssignedCarries(p)
  BY IdleIsJob DEF Assigned!Init, AssignedCarries, Carrying, Stands, Ordering
<1>4. \A s \in Reports : Waits(s)
  BY DEF Assigned!Init, Waits, Scheduled
<1>5. AssignedInTurn
  BY IdleIsJob DEF Assigned!Init, AssignedInTurn, Looked, AssignedServes, Assigned!Live
<1> QED  BY <1>1, <1>2, <1>3, <1>4, <1>5 DEF AssignedInv, Kept

-----------------------------------------------------------------------------
(* Requests that begin *)

LEMMA Begins ==
  ASSUME AssignedInv, NEW p \in Procs, NEW j \in Assigned!Job, Assigned!Begin(p, j),
         UNCHANGED <<sub, reassignment, revived>>,
         NEW s \in Reports, j.sub = {s}, j.at \notin {"idle", "move"}, Carrying(j),
         j.at \in Ordering => \A c \in j.case : reassignment[c].status = "open",
         ~overlapped => Looked(j)
  PROVE  AssignedInv'
<1>1. /\ request \in [Procs -> Assigned!Job] /\ unmoved \in [Reports -> SUBSET Procs]
      /\ unpaid \in [Reports -> SUBSET Procs]
      /\ overlapped \in BOOLEAN /\ Kept
  BY DEF AssignedInv, Kept, Assigned!TypeOK
<1>2. request[p].at = "idle" /\ request' = [request EXCEPT ![p] = j] /\ overlapped' = (overlapped \/ \E q \in Procs : request[q].at # "idle")
  BY DEF Assigned!Begin, Assigned!At
<1>3. \A t \in Reports : p \notin unmoved[t]
  BY <1>1, <1>2 DEF Kept, AssignedCarries, Stands, Ordering
<1>4. unmoved' = [t \in Reports |-> unmoved[t] \cup (IF t \in (IF j.at \in Ordering THEN j.sub ELSE {}) THEN {p} ELSE {})]
  BY DEF Assigned!Begin, Ordering
<1>5. unpaid' = [t \in Reports |-> unpaid[t] \cup (IF t \in (IF j.at \in {"boundary", "renew"} THEN j.sub ELSE {}) THEN {p} ELSE {})]
  BY DEF Assigned!Begin
<1>6. request'[p] = j /\ (\A q \in Procs \ {p} : request'[q] = request[q]) /\ request' \in [Procs -> Assigned!Job]
  BY <1>1, <1>2
<1>7. Assigned!TypeOK'
  BY <1>1, <1>2, <1>4, <1>5, <1>6 DEF Kept, Assigned!TypeOK
<1>8. \A q \in Procs \ {p} : AssignedCarries(q)'
  <2>1. ASSUME NEW q \in Procs \ {p} PROVE AssignedCarries(q)'
    <3>1. Carrying(request[q])'
      BY <1>1, <1>6 DEF Kept, AssignedCarries, Carrying
    <3>2. \A t \in Reports : q \in unmoved'[t] => q \in unmoved[t]
      BY <1>4
    <3>3. Stands(q)'
      BY <1>1, <1>6, <3>2 DEF Kept, AssignedCarries, Stands
    <3> QED  BY <3>1, <3>3 DEF AssignedCarries
  <2> QED  BY <2>1
<1>9. AssignedCarries(p)'
  <2>1. Carrying(request[p])'
    BY <1>6 DEF Carrying
  <2>2. \A t \in Reports : p \in unmoved'[t] => t = s /\ j.at \in Ordering
    BY <1>3, <1>4
  <2>3. Stands(p)'
    BY <1>6, <2>2 DEF Stands, Ordering
  <2> QED  BY <2>1, <2>3 DEF AssignedCarries
<1>10. Kept'
  <2>1. RowsAreWhole' /\ CasesAreWhole'
    BY <1>1 DEF Kept, RowsAreWhole, CasesAreWhole
  <2>2. ASSUME NEW t \in Reports PROVE Waits(t)'
    <3>1. Scheduled(t)' = Scheduled(t) /\ Waits(t)
      BY <1>1 DEF Kept, Scheduled
    <3> QED  BY <1>1, <3>1 DEF Waits
  <2> QED  BY <1>7, <1>8, <1>9, <2>1, <2>2 DEF Kept
<1>11. AssignedInTurn'
  <2> SUFFICES ASSUME ~overlapped' PROVE AssignedInTurn'
    BY DEF AssignedInTurn
  <2>1. ~overlapped /\ \A q \in Procs : request[q].at = "idle" /\ request[q] = Assigned!Idle
    BY <1>1, <1>2 DEF Kept, AssignedCarries, Carrying
  <2>2. Looked(request[p])'
    BY <1>6, <2>1 DEF Looked, Sole, AssignedServes
  <2>3. \A q \in Procs : Looked(request[q])'
    BY <1>6, <2>1, <2>2, IdleIsJob DEF Looked
  <2>4. \A t, u \in Reports, l \in Learners : (AssignedServes(t, l) /\ AssignedServes(u, l))' => t = u
    BY <2>1 DEF AssignedInv, AssignedInTurn, AssignedServes
  <2> QED  BY <1>6, <2>1, <2>3, <2>4, IdleIsJob DEF AssignedInTurn
<1> QED  BY <1>10, <1>11 DEF AssignedInv

LEMMA CheckoutReadStep ==
  ASSUME AssignedInv, NEW p \in Procs, Assigned!CheckoutRead(p)
  PROVE  AssignedInv'
<1>1. PICK s \in Reports, l \in Learners : Assigned!Begin(p, [Assigned!Idle EXCEPT !.at = "checkout", !.sub = {s}, !.learner = {l}])
  BY DEF Assigned!CheckoutRead
<1>2. PICK j \in Assigned!Job : j = [Assigned!Idle EXCEPT !.at = "checkout", !.sub = {s}, !.learner = {l}]
  BY IdleIsJob DEF Assigned!Job, Assigned!Steps
<1>3. j.at = "checkout" /\ j.sub = {s} /\ j.learner = {l} /\ UNCHANGED <<sub, reassignment, revived>>
  BY <1>2, IdleIsJob DEF Assigned!Job, Assigned!CheckoutRead
<1>4. Carrying(j) /\ Looked(j)
  BY <1>3 DEF Carrying, Looked, Ordering
<1> QED  BY <1>1, <1>2, <1>3, <1>4, Begins DEF Ordering

LEMMA ActivateReadStep ==
  ASSUME AssignedInv, NEW p \in Procs, Assigned!ActivateRead(p)
  PROVE  AssignedInv'
<1>1. PICK s \in Reports, settled \in BOOLEAN :
       /\ sub[s].status = "pending_payment"
       /\ settled => \A l \in sub[s].learner : ~Assigned!Covered(l, {})
       /\ Assigned!Begin(p, [Assigned!Idle EXCEPT !.at = IF settled THEN "activate" ELSE "fail", !.sub = {s}])
  BY DEF Assigned!ActivateRead
<1>2. PICK at \in {"activate", "fail"} : at = IF settled THEN "activate" ELSE "fail"
  OBVIOUS
<1>3. PICK j \in Assigned!Job : j = [Assigned!Idle EXCEPT !.at = at, !.sub = {s}]
  BY IdleIsJob DEF Assigned!Job, Assigned!Steps
<1>4. j.at = at /\ j.sub = {s} /\ UNCHANGED <<sub, reassignment, revived>>
  BY <1>3, IdleIsJob DEF Assigned!Job, Assigned!ActivateRead
<1>5. Carrying(j) /\ Looked(j)
  BY <1>1, <1>2, <1>4 DEF Carrying, Looked, Ordering, Sole, AssignedServes, Assigned!Covered
<1>6. Assigned!Begin(p, j)
  BY <1>1, <1>2, <1>3
<1> QED  BY <1>4, <1>5, <1>6, Begins DEF Ordering

LEMMA RequestCaseStep ==
  ASSUME AssignedInv, NEW p \in Procs, Assigned!RequestCase(p)
  PROVE  AssignedInv'
<1>1. PICK s \in Reports, l \in Learners :
       /\ sub[s].status # "none"
       /\ Assigned!Begin(p, [Assigned!Idle EXCEPT !.at = "request", !.sub = {s}, !.source = sub[s].learner, !.learner = {l}])
  BY DEF Assigned!RequestCase
<1>2. sub[s].learner \in SUBSET Learners
  BY DEF AssignedInv, Kept, Assigned!TypeOK, Assigned!Row
<1>3. PICK j \in Assigned!Job : j = [Assigned!Idle EXCEPT !.at = "request", !.sub = {s}, !.source = sub[s].learner, !.learner = {l}]
  BY <1>2, IdleIsJob DEF Assigned!Job, Assigned!Steps
<1>4. j.at = "request" /\ j.sub = {s} /\ j.learner = {l} /\ UNCHANGED <<sub, reassignment, revived>>
  BY <1>2, <1>3, IdleIsJob DEF Assigned!Job, Assigned!RequestCase
<1>5. Carrying(j) /\ Looked(j)
  BY <1>1, <1>4 DEF Carrying, Looked, Ordering
<1> QED  BY <1>1, <1>3, <1>4, <1>5, Begins DEF Ordering

LEMMA ExecuteReadStep ==
  ASSUME AssignedInv, NEW p \in Procs, Assigned!ExecuteRead(p)
  PROVE  AssignedInv'
<1>1. PICK c \in Cycles, mode \in {"immediate", "next_period"} : \E s \in reassignment[c].sub :
       /\ reassignment[c].status = "open"
       /\ \A l \in reassignment[c].target : Assigned!Valid(s, l)
       /\ Assigned!Begin(p, [Assigned!Idle EXCEPT !.at = mode, !.sub = {s}, !.case = {c}, !.learner = reassignment[c].target])
  BY DEF Assigned!ExecuteRead
<1>2. /\ reassignment[c].target \in SUBSET Learners /\ (\E l \in Learners : reassignment[c].target = {l})
      /\ \E s \in Reports : reassignment[c].sub = {s} /\ sub[s].status # "none"
  BY <1>1 DEF AssignedInv, Kept, Assigned!TypeOK, Assigned!Case, CasesAreWhole
<1>3. PICK s \in Reports :
       /\ reassignment[c].sub = {s} /\ sub[s].status # "none"
       /\ \A l \in reassignment[c].target : Assigned!Valid(s, l)
       /\ Assigned!Begin(p, [Assigned!Idle EXCEPT !.at = mode, !.sub = {s}, !.case = {c}, !.learner = reassignment[c].target])
  BY <1>1, <1>2
<1>4. PICK j \in Assigned!Job : j = [Assigned!Idle EXCEPT !.at = mode, !.sub = {s}, !.case = {c}, !.learner = reassignment[c].target]
  BY <1>2, IdleIsJob DEF Assigned!Job, Assigned!Steps
<1>5. j.at = mode /\ j.sub = {s} /\ j.case = {c} /\ j.learner = reassignment[c].target /\ UNCHANGED <<sub, reassignment, revived>>
  BY <1>2, <1>4, IdleIsJob DEF Assigned!Job, Assigned!ExecuteRead
<1>6. Carrying(j)
  BY <1>1, <1>2, <1>3, <1>5 DEF Carrying, Ordering
<1>7. Looked(j)
  BY <1>3, <1>5 DEF Looked, Ordering, Sole, AssignedServes, Assigned!Valid, Assigned!Covered
<1> QED  BY <1>1, <1>3, <1>4, <1>5, <1>6, <1>7, Begins DEF Ordering

LEMMA RenewReadStep ==
  ASSUME AssignedInv, NEW p \in Procs, Assigned!RenewRead(p)
  PROVE  AssignedInv'
<1>1. PICK s \in Reports :
       /\ sub[s].status \in Assigned!Live \cup {"expired"}
       /\ Assigned!Begin(p, [Assigned!Idle EXCEPT !.at = IF sub[s].pending = {} THEN "renew" ELSE "boundary", !.sub = {s}])
  BY DEF Assigned!RenewRead
<1>2. PICK at \in {"renew", "boundary"} : at = IF sub[s].pending = {} THEN "renew" ELSE "boundary"
  OBVIOUS
<1>3. PICK j \in Assigned!Job : j = [Assigned!Idle EXCEPT !.at = at, !.sub = {s}]
  BY IdleIsJob DEF Assigned!Job, Assigned!Steps
<1>4. j.at = at /\ j.sub = {s} /\ UNCHANGED <<sub, reassignment, revived>>
  BY <1>3, IdleIsJob DEF Assigned!Job, Assigned!RenewRead
<1>5. Carrying(j)
  BY <1>1, <1>4 DEF Carrying, Ordering, Assigned!Live
<1>6. ASSUME ~overlapped PROVE Looked(j)
  <2>1. sub[s].status = "expired" \/ s \in revived \/ \A l \in sub[s].learner : Sole(s, l)
    <3> SUFFICES ASSUME sub[s].status \in Assigned!Live, s \notin revived
                 PROVE  \A l \in sub[s].learner : Sole(s, l)
      BY <1>1
    <3>1. PICK l \in Learners : sub[s].learner = {l}
      BY DEF AssignedInv, Kept, RowsAreWhole, Assigned!Live
    <3>2. AssignedServes(s, l)
      BY <3>1 DEF AssignedServes
    <3> QED  BY <1>6, <3>1, <3>2 DEF AssignedInv, AssignedInTurn, Sole
  <2> QED  BY <1>4, <2>1 DEF Looked, Ordering
<1>7. Assigned!Begin(p, j)
  BY <1>1, <1>2, <1>3
<1> QED  BY <1>4, <1>5, <1>6, <1>7, Begins DEF Ordering

-----------------------------------------------------------------------------
(* Steps of requests under way *)

\* A case only moves on, and only those of the subscription that is written.
MovesOn(s) ==
  \A c \in Cycles : reassignment'[c] = reassignment[c]
    \/ /\ reassignment[c].status # "none" /\ reassignment'[c].status # "none" /\ reassignment[c].sub = {s}
       /\ reassignment'[c].sub = reassignment[c].sub /\ reassignment'[c].target = reassignment[c].target

LEMMA Writes ==
  ASSUME Kept, NEW s \in Reports, NEW r \in Assigned!Row, Assigned!Update(s, r),
         r.status # "none", \E l \in Learners : r.learner = {l},
         reassignment' \in [Cycles -> Assigned!Case], MovesOn(s), Waits(s)',
         request' \in [Procs -> Assigned!Job], unpaid' \in [Reports -> SUBSET Procs],
         revived' \subseteq Reports, overlapped' \in BOOLEAN,
         \A q \in Procs : request'[q] = request[q] \/ (request[q].sub = {s} /\ Carrying(request[q])')
  PROVE  Kept'
<1>1. /\ sub'[s] = r /\ (\A t \in Reports \ {s} : sub'[t] = sub[t]) /\ sub' \in [Reports -> Assigned!Row]
      /\ unmoved'[s] = {} /\ (\A t \in Reports \ {s} : unmoved'[t] = unmoved[t])
      /\ unmoved' \in [Reports -> SUBSET Procs]
  BY DEF Assigned!Update, Kept, Assigned!TypeOK
<1>2. Assigned!TypeOK'
  BY <1>1 DEF Assigned!TypeOK
<1>3. RowsAreWhole'
  BY <1>1 DEF Kept, RowsAreWhole
<1>4. CasesAreWhole'
  <2> SUFFICES ASSUME NEW c \in Cycles, reassignment'[c].status # "none"
               PROVE  /\ \E t \in Reports : reassignment'[c].sub = {t} /\ sub'[t].status # "none"
                      /\ \E l \in Learners : reassignment'[c].target = {l}
    BY DEF CasesAreWhole
  <2>1. reassignment[c].status # "none" /\ reassignment'[c].sub = reassignment[c].sub /\ reassignment'[c].target = reassignment[c].target
    BY DEF MovesOn
  <2> QED  BY <1>1, <2>1 DEF Kept, CasesAreWhole
<1>5. ASSUME NEW j \in Assigned!Job, Carrying(j) PROVE Carrying(j)'
  <2>1. j.at \notin {"idle", "checkout"} => \A t \in j.sub : sub'[t].status # "none"
    BY <1>1, <1>5 DEF Carrying
  <2>2. \A c \in Cycles : reassignment[c].status # "none" =>
          reassignment'[c].status # "none" /\ reassignment'[c].sub = reassignment[c].sub /\ reassignment'[c].target = reassignment[c].target
    BY DEF MovesOn
  <2> QED  BY <1>5, <2>1, <2>2 DEF Carrying
<1>6. ASSUME NEW q \in Procs PROVE AssignedCarries(q)'
  <2>1. Carrying(request[q])'
    BY <1>5, <1>6 DEF Kept, AssignedCarries, Assigned!TypeOK
  <2>2. ASSUME NEW t \in Reports, q \in unmoved'[t]
        PROVE  /\ request'[q].sub = {t} /\ request'[q].at \in Ordering \cup {"move"}
               /\ request'[q].at \in Ordering => \A c \in request'[q].case : reassignment'[c].status = "open"
               /\ request'[q].at = "move" => /\ \A c \in request'[q].case : reassignment'[c].status = "scheduled"
                                             /\ sub'[t].pending = request'[q].learner
    <3>1. t # s /\ q \in unmoved[t] /\ sub'[t] = sub[t]
      BY <1>1, <2>2
    <3>2. /\ request[q].sub = {t} /\ request[q].at \in Ordering \cup {"move"}
          /\ request[q].at \in Ordering => \A c \in request[q].case : reassignment[c].status = "open"
          /\ request[q].at = "move" => /\ \A c \in request[q].case : reassignment[c].status = "scheduled"
                                       /\ sub[t].pending = request[q].learner
      BY <3>1 DEF Kept, AssignedCarries, Stands
    <3>3. request'[q] = request[q]
      BY <3>1, <3>2
    <3>4. PICK c \in Cycles : request[q].case = {c} /\ reassignment[c].sub = {t}
      BY <3>2 DEF Kept, AssignedCarries, Carrying
    <3>5. reassignment'[c] = reassignment[c]
      BY <3>1, <3>4 DEF MovesOn
    <3> QED  BY <3>1, <3>2, <3>3, <3>4, <3>5
  <2> QED  BY <2>1, <2>2 DEF AssignedCarries, Stands
<1>7. ASSUME NEW t \in Reports PROVE Waits(t)'
  <2>1. CASE t = s
    BY <2>1
  <2>2. CASE t # s
    <3>1. ASSUME NEW c \in Cycles PROVE /\ c \in Scheduled(t)' <=> c \in Scheduled(t)
                                        /\ c \in Scheduled(t) => reassignment'[c] = reassignment[c]
      BY <2>2 DEF MovesOn, Scheduled
    <3>2. Scheduled(t)' = Scheduled(t) /\ \A c \in Scheduled(t) : reassignment'[c] = reassignment[c]
      BY <3>1 DEF Scheduled
    <3> QED  BY <1>1, <2>2, <3>2 DEF Kept, Waits
  <2> QED  BY <2>1, <2>2
<1> QED  BY <1>2, <1>3, <1>4, <1>6, <1>7 DEF Kept

\* Whoever serves a learner now did so before, or nobody else does.
LEMMA StaysSole ==
  ASSUME \A s, t \in Reports, l \in Learners : AssignedServes(s, l) /\ AssignedServes(t, l) => s = t,
         NEW s \in Reports, \A t \in Reports \ {s} : sub'[t] = sub[t], revived \subseteq revived',
         \A l \in Learners : AssignedServes(s, l)' => AssignedServes(s, l) \/ Sole(s, l)
  PROVE  \A t, u \in Reports, l \in Learners : (AssignedServes(t, l) /\ AssignedServes(u, l))' => t = u
<1>1. \A t \in Reports \ {s}, l \in Learners : AssignedServes(t, l)' => AssignedServes(t, l)
  BY DEF AssignedServes
<1> QED  BY <1>1 DEF Sole

LEMMA AssignedGoesOn ==
  ASSUME AssignedInv, NEW p \in Procs, request[p].at # "idle", \A q \in Procs \ {p} : request'[q] = request[q],
         UNCHANGED overlapped,
         ~overlapped => /\ Looked(request[p])'
                        /\ \A t, u \in Reports, l \in Learners : (AssignedServes(t, l) /\ AssignedServes(u, l))' => t = u
  PROVE  AssignedInTurn'
<1> SUFFICES ASSUME ~overlapped' PROVE AssignedInTurn'
  BY DEF AssignedInTurn
<1>1. ~overlapped /\ \A q \in Procs \ {p} : request[q].at = "idle" /\ request[q] = Assigned!Idle
  BY DEF AssignedInv, AssignedInTurn, Kept, AssignedCarries, Carrying
<1>2. \A q \in Procs : Looked(request[q])'
  BY <1>1, IdleIsJob DEF Looked
<1> QED  BY <1>1, <1>2 DEF AssignedInTurn

LEMMA AssignedIdleCarries == Carrying(Assigned!Idle)' /\ Looked(Assigned!Idle)'
BY IdleIsJob DEF Carrying, Looked, Ordering

LEMMA DoneIs ==
  ASSUME Kept, NEW p \in Procs, Assigned!Done(p)
  PROVE  /\ request'[p] = Assigned!Idle /\ (\A q \in Procs \ {p} : request'[q] = request[q]) /\ request' \in [Procs -> Assigned!Job]
         /\ unpaid' \in [Reports -> SUBSET Procs]
BY IdleIsJob DEF Kept, Assigned!TypeOK, Assigned!Done

\* A row of a subscription that keeps what it waits for.
LEMMA StillWaits ==
  ASSUME Kept, NEW s \in Reports, UNCHANGED reassignment, sub'[s].pending = sub[s].pending
  PROVE  Waits(s)'
BY DEF Kept, Waits, Scheduled

LEMMA CheckoutCommitStep ==
  ASSUME AssignedInv, NEW p \in Procs, Assigned!CheckoutCommit(p)
  PROVE  AssignedInv'
<1>1. /\ request[p].at = "checkout" /\ Assigned!Done(p) /\ UNCHANGED <<reassignment, revived, overlapped>>
      /\ Kept /\ Carrying(request[p])
      /\ reassignment \in [Cycles -> Assigned!Case] /\ revived \subseteq Reports /\ overlapped \in BOOLEAN
  BY DEF Assigned!CheckoutCommit, Assigned!At, AssignedInv, Kept, Assigned!TypeOK, AssignedCarries
<1>2. PICK s \in Reports, l \in Learners : request[p].sub = {s} /\ request[p].learner = {l}
  BY <1>1 DEF Carrying
<1>3. PICK r \in Assigned!Row : r = [status |-> "pending_payment", learner |-> {l}, pending |-> {}]
  BY DEF Assigned!Row
<1>4. r.status = "pending_payment" /\ r.learner = {l} /\ r.pending = {}
  BY <1>3
<1>5. sub[s].status = "none" /\ Assigned!Update(s, r)
  BY <1>2, <1>3 DEF Assigned!CheckoutCommit
<1>6. sub'[s] = r /\ (\A t \in Reports \ {s} : sub'[t] = sub[t])
  BY <1>1, <1>5 DEF Assigned!Update, Kept, Assigned!TypeOK
<1>7. Waits(s)'
  BY <1>1, <1>4, <1>5, <1>6, StillWaits DEF Kept, RowsAreWhole
<1>8. \A q \in Procs : request'[q] = request[q] \/ (request[q].sub = {s} /\ Carrying(request[q])')
  BY <1>1, <1>2, DoneIs, AssignedIdleCarries
<1>9. Kept'
  BY <1>1, <1>4, <1>5, <1>7, <1>8, DoneIs, Writes DEF MovesOn
<1>10. \A k \in Learners : ~AssignedServes(s, k)'
  BY <1>4, <1>6 DEF AssignedServes, Assigned!Live
<1>11. AssignedInTurn'
  BY <1>1, <1>6, <1>10, DoneIs, AssignedIdleCarries, StaysSole, AssignedGoesOn DEF AssignedInv, AssignedInTurn
<1> QED  BY <1>9, <1>11 DEF AssignedInv

LEMMA ActivateCommitStep ==
  ASSUME AssignedInv, NEW p \in Procs, Assigned!ActivateCommit(p)
  PROVE  AssignedInv'
<1>1. /\ request[p].at \in {"activate", "fail"} /\ Assigned!Done(p)
      /\ UNCHANGED <<reassignment, revived, overlapped>> /\ Kept /\ Carrying(request[p])
      /\ reassignment \in [Cycles -> Assigned!Case] /\ revived \subseteq Reports /\ overlapped \in BOOLEAN
  BY DEF Assigned!ActivateCommit, Assigned!At, AssignedInv, Kept, Assigned!TypeOK, AssignedCarries
<1>2. PICK s \in Reports : request[p].sub = {s} /\ sub[s].status # "none"
  BY <1>1 DEF Carrying
<1>3. PICK status \in {"active", "cancelled"} :
        /\ Assigned!Update(s, [sub[s] EXCEPT !.status = status])
        /\ status = "active" => request[p].at = "activate"
  BY <1>2 DEF Assigned!ActivateCommit, Assigned!At
<1>4. sub[s] \in Assigned!Row /\ \E l \in Learners : sub[s].learner = {l}
  BY <1>1, <1>2 DEF Kept, Assigned!TypeOK, RowsAreWhole
<1>5. PICK r \in Assigned!Row : r = [sub[s] EXCEPT !.status = status]
  BY <1>4 DEF Assigned!Row
<1>6. r.status = status /\ r.learner = sub[s].learner /\ r.pending = sub[s].pending
  BY <1>4, <1>5 DEF Assigned!Row
<1>7. sub'[s] = r /\ (\A t \in Reports \ {s} : sub'[t] = sub[t])
  BY <1>1, <1>3, <1>5 DEF Assigned!Update, Kept, Assigned!TypeOK
<1>8. Waits(s)'
  BY <1>1, <1>6, <1>7, StillWaits
<1>9. \A q \in Procs : request'[q] = request[q] \/ (request[q].sub = {s} /\ Carrying(request[q])')
  BY <1>1, <1>2, DoneIs, AssignedIdleCarries
<1>10. Kept'
  <2>1. Assigned!Update(s, r) /\ r.status # "none" /\ \E l \in Learners : r.learner = {l}
    BY <1>3, <1>4, <1>5, <1>6
  <2>2. MovesOn(s) /\ reassignment' \in [Cycles -> Assigned!Case] /\ revived' \subseteq Reports /\ overlapped' \in BOOLEAN
    BY <1>1 DEF MovesOn
  <2> QED  BY <1>1, <1>8, <1>9, <2>1, <2>2, DoneIs, Writes
<1>11. ASSUME ~overlapped, NEW l \in Learners, AssignedServes(s, l)' PROVE Sole(s, l)
  <2>1. request[p].at = "activate" /\ l \in sub[s].learner
    BY <1>3, <1>6, <1>7, <1>11 DEF AssignedServes, Assigned!Live
  <2> QED  BY <1>2, <1>11, <2>1 DEF AssignedInv, AssignedInTurn, Looked
<1>12. AssignedInTurn'
  BY <1>1, <1>7, <1>11, DoneIs, AssignedIdleCarries, StaysSole, AssignedGoesOn DEF AssignedInv, AssignedInTurn
<1> QED  BY <1>10, <1>12 DEF AssignedInv

\* The case that an administrator's decision, or the boundary, is about.
LEMMA CaseOf ==
  ASSUME Kept, NEW p \in Procs, request[p].at \in Ordering \cup {"move"}
  PROVE  \E s \in Reports, l \in Learners, c \in Cycles :
           /\ request[p].sub = {s} /\ request[p].learner = {l} /\ request[p].case = {c}
           /\ reassignment[c].sub = {s} /\ reassignment[c].target = {l} /\ reassignment[c].status # "none"
           /\ sub[s] \in Assigned!Row /\ sub[s].status # "none" /\ (\E k \in Learners : sub[s].learner = {k})
           /\ p \in unmoved[s] => /\ request[p].at \in Ordering => reassignment[c].status = "open"
                                  /\ request[p].at = "move" => reassignment[c].status = "scheduled" /\ sub[s].pending = {l}
<1>1. Carrying(request[p]) /\ Stands(p)
  BY DEF Kept, AssignedCarries
<1>2. PICK s \in Reports, l \in Learners : request[p].sub = {s} /\ request[p].learner = {l} /\ sub[s].status # "none"
  BY <1>1 DEF Carrying, Ordering
<1>3. PICK c \in Cycles : request[p].case = {c} /\ reassignment[c].status # "none" /\ reassignment[c].sub = {s} /\ reassignment[c].target = {l}
  BY <1>1, <1>2 DEF Carrying
<1>4. sub[s] \in Assigned!Row /\ \E k \in Learners : sub[s].learner = {k}
  BY <1>2 DEF Kept, Assigned!TypeOK, RowsAreWhole
<1>5. p \in unmoved[s] => /\ request[p].at \in Ordering => reassignment[c].status = "open"
                          /\ request[p].at = "move" => reassignment[c].status = "scheduled" /\ sub[s].pending = {l}
  BY <1>1, <1>2, <1>3 DEF Stands
<1> QED  BY <1>2, <1>3, <1>4, <1>5

LEMMA ResolveIs ==
  ASSUME Kept, NEW c \in Cycles, NEW s \in Reports, reassignment[c].sub = {s}, NEW from,
         reassignment[c].status = from, from # "none",
         NEW to \in {"scheduled", "executed"}, Assigned!Resolve({c}, from, to)
  PROVE  /\ reassignment' \in [Cycles -> Assigned!Case] /\ MovesOn(s)
         /\ reassignment'[c].status = to /\ reassignment'[c].sub = {s}
         /\ reassignment'[c].target = reassignment[c].target
         /\ \A d \in Cycles \ {c} : reassignment'[d] = reassignment[d]
<1>1. reassignment \in [Cycles -> Assigned!Case] /\ reassignment[c] \in Assigned!Case
  BY DEF Kept, Assigned!TypeOK
<1>2. PICK e \in Assigned!Case : e = [reassignment[c] EXCEPT !.status = to]
  BY <1>1 DEF Assigned!Case
<1>3. e.status = to /\ e.sub = {s} /\ e.target = reassignment[c].target
  BY <1>1, <1>2 DEF Assigned!Case
<1>4. reassignment' = [d \in Cycles |-> IF d = c THEN e ELSE reassignment[d]]
  BY <1>2 DEF Assigned!Resolve
<1> QED  BY <1>1, <1>3, <1>4 DEF MovesOn

LEMMA ExecuteCommitStep ==
  ASSUME AssignedInv, NEW p \in Procs, Assigned!ExecuteCommit(p)
  PROVE  AssignedInv'
<1>1. /\ request[p].at \in Ordering /\ request[p].at # "idle" /\ Assigned!Done(p)
      /\ UNCHANGED <<revived, overlapped>> /\ Kept
      /\ revived \subseteq Reports /\ overlapped \in BOOLEAN
  BY DEF Assigned!ExecuteCommit, Assigned!At, Ordering, AssignedInv, Kept, Assigned!TypeOK
<1>2. PICK s \in Reports, l \in Learners, c \in Cycles :
           /\ request[p].sub = {s} /\ request[p].learner = {l} /\ request[p].case = {c}
           /\ reassignment[c].sub = {s} /\ reassignment[c].target = {l} /\ reassignment[c].status # "none"
           /\ sub[s] \in Assigned!Row /\ sub[s].status # "none" /\ (\E k \in Learners : sub[s].learner = {k})
           /\ p \in unmoved[s] => reassignment[c].status = "open"
  BY <1>1, CaseOf
<1>3. reassignment[c].status = "open" /\ p \in unmoved[s]
  BY <1>2 DEF Assigned!ExecuteCommit, Assigned!SameVersion
<1>4. \A q \in Procs : request'[q] = request[q] \/ (request[q].sub = {s} /\ Carrying(request[q])')
  BY <1>1, <1>2, DoneIs, AssignedIdleCarries
<1>5. ASSUME ~overlapped PROVE Sole(s, l)
  BY <1>1, <1>2, <1>5 DEF AssignedInv, AssignedInTurn, Looked
<1>6. CASE /\ Assigned!Update(s, [sub[s] EXCEPT !.learner = {l}]) /\ Assigned!Resolve({c}, "open", "executed")
  <2>1. PICK r \in Assigned!Row : r = [sub[s] EXCEPT !.learner = {l}]
    BY <1>2 DEF Assigned!Row
  <2>2. r.status = sub[s].status /\ r.learner = {l} /\ r.pending = sub[s].pending /\ Assigned!Update(s, r)
    BY <1>2, <1>6, <2>1 DEF Assigned!Row
  <2>3. sub'[s] = r /\ (\A t \in Reports \ {s} : sub'[t] = sub[t])
    BY <1>1, <2>2 DEF Assigned!Update, Kept, Assigned!TypeOK
  <2>4. /\ reassignment' \in [Cycles -> Assigned!Case] /\ MovesOn(s) /\ reassignment'[c].status = "executed"
        /\ \A d \in Cycles \ {c} : reassignment'[d] = reassignment[d]
    BY <1>1, <1>2, <1>3, <1>6, ResolveIs
  <2>5. Waits(s)'
    <3>1. Scheduled(s)' = Scheduled(s) /\ c \notin Scheduled(s)
      BY <1>3, <2>4 DEF Scheduled
    <3>2. Waits(s)
      BY <1>1 DEF Kept
    <3> QED  BY <2>2, <2>3, <2>4, <3>1, <3>2 DEF Waits, Scheduled
  <2>6. r.status # "none" /\ \E k \in Learners : r.learner = {k}
    BY <1>2, <2>2
  <2>7. Kept'
    BY <1>1, <1>4, <2>2, <2>4, <2>5, <2>6, DoneIs, Writes
  <2>8. ASSUME ~overlapped, NEW k \in Learners, AssignedServes(s, k)' PROVE Sole(s, k)
    BY <1>5, <2>2, <2>3, <2>8 DEF AssignedServes
  <2>9. AssignedInTurn'
    BY <1>1, <2>3, <2>8, DoneIs, AssignedIdleCarries, StaysSole, AssignedGoesOn DEF AssignedInv, AssignedInTurn
  <2> QED  BY <2>7, <2>9 DEF AssignedInv
<1>7. CASE sub[s].pending = {} /\ Assigned!Update(s, [sub[s] EXCEPT !.pending = {l}]) /\ Assigned!Resolve({c}, "open", "scheduled")
  <2>1. PICK r \in Assigned!Row : r = [sub[s] EXCEPT !.pending = {l}]
    BY <1>2 DEF Assigned!Row
  <2>2. r.status = sub[s].status /\ r.learner = sub[s].learner /\ r.pending = {l} /\ Assigned!Update(s, r)
    BY <1>2, <1>7, <2>1 DEF Assigned!Row
  <2>3. sub'[s] = r /\ (\A t \in Reports \ {s} : sub'[t] = sub[t])
    BY <1>1, <2>2 DEF Assigned!Update, Kept, Assigned!TypeOK
  <2>4. /\ reassignment' \in [Cycles -> Assigned!Case] /\ MovesOn(s) /\ reassignment'[c].status = "scheduled"
        /\ reassignment'[c].sub = {s}
        /\ reassignment'[c].target = {l} /\ \A d \in Cycles \ {c} : reassignment'[d] = reassignment[d]
    BY <1>1, <1>2, <1>3, <1>7, ResolveIs
  <2>5. Waits(s)'
    <3>1. Scheduled(s) = {}
      BY <1>1, <1>7 DEF Kept, Waits, CasesAreWhole, Scheduled
    <3>2. Scheduled(s)' = {c}
      BY <2>4, <3>1 DEF Scheduled
    <3> QED  BY <2>2, <2>3, <2>4, <3>2 DEF Waits
  <2>6. r.status # "none" /\ \E k \in Learners : r.learner = {k}
    BY <1>2, <2>2
  <2>7. Kept'
    BY <1>1, <1>4, <2>2, <2>4, <2>5, <2>6, DoneIs, Writes
  <2>8. \A k \in Learners : AssignedServes(s, k)' => AssignedServes(s, k)
    BY <1>1, <2>2, <2>3 DEF AssignedServes
  <2>9. AssignedInTurn'
    BY <1>1, <2>3, <2>8, DoneIs, AssignedIdleCarries, StaysSole, AssignedGoesOn DEF AssignedInv, AssignedInTurn
  <2> QED  BY <2>7, <2>9 DEF AssignedInv
<1> QED  BY <1>2, <1>6, <1>7 DEF Assigned!ExecuteCommit

LEMMA MoveCommitStep ==
  ASSUME AssignedInv, NEW p \in Procs, Assigned!MoveCommit(p)
  PROVE  AssignedInv'
<1>1. /\ request[p].at = "move" /\ UNCHANGED <<unpaid, revived, overlapped>> /\ Kept
      /\ revived \subseteq Reports /\ overlapped \in BOOLEAN /\ unpaid \in [Reports -> SUBSET Procs]
      /\ request \in [Procs -> Assigned!Job]
  BY DEF Assigned!MoveCommit, Assigned!At, AssignedInv, Kept, Assigned!TypeOK
<1>2. PICK s \in Reports, l \in Learners, c \in Cycles :
           /\ request[p].sub = {s} /\ request[p].learner = {l} /\ request[p].case = {c}
           /\ reassignment[c].sub = {s} /\ reassignment[c].target = {l} /\ reassignment[c].status # "none"
           /\ sub[s] \in Assigned!Row /\ sub[s].status # "none" /\ (\E k \in Learners : sub[s].learner = {k})
           /\ p \in unmoved[s] => /\ request[p].at \in Ordering => reassignment[c].status = "open"
                                  /\ request[p].at = "move" => reassignment[c].status = "scheduled" /\ sub[s].pending = {l}
  BY <1>1, CaseOf
<1>3. /\ reassignment[c].status = "scheduled" /\ sub[s].pending = {l}
      /\ Assigned!Update(s, [sub[s] EXCEPT !.learner = {l}, !.pending = {}])
      /\ Assigned!Resolve({c}, "scheduled", "executed")
  BY <1>1, <1>2 DEF Assigned!MoveCommit, Assigned!SameVersion
<1>4. PICK r \in Assigned!Row : r = [sub[s] EXCEPT !.learner = {l}, !.pending = {}]
  BY <1>2 DEF Assigned!Row
<1>5. r.status = sub[s].status /\ r.learner = {l} /\ r.pending = {} /\ Assigned!Update(s, r)
  BY <1>2, <1>3, <1>4 DEF Assigned!Row
<1>6. sub'[s] = r /\ (\A t \in Reports \ {s} : sub'[t] = sub[t])
  BY <1>1, <1>5 DEF Assigned!Update, Kept, Assigned!TypeOK
<1>7. /\ reassignment' \in [Cycles -> Assigned!Case] /\ MovesOn(s) /\ reassignment'[c].status = "executed"
      /\ \A d \in Cycles \ {c} : reassignment'[d] = reassignment[d]
  BY <1>1, <1>2, <1>3, ResolveIs
<1>8. Waits(s)'
  <2>1. c \in Scheduled(s) /\ Waits(s)
    BY <1>1, <1>2, <1>3 DEF Scheduled, Kept
  <2>2. \A d \in Scheduled(s) : d = c
    BY <2>1 DEF Waits
  <2>3. Scheduled(s)' = {}
    BY <1>7, <2>2 DEF Scheduled
  <2> QED  BY <1>5, <1>6, <2>3 DEF Waits
<1>9. PICK j \in Assigned!Job : j = [Assigned!Idle EXCEPT !.at = "renew", !.sub = {s}]
  BY IdleIsJob DEF Assigned!Job, Assigned!Steps
<1>10. j.at = "renew" /\ j.sub = {s}
  BY <1>9, IdleIsJob DEF Assigned!Job
<1>11. request'[p] = j /\ (\A q \in Procs \ {p} : request'[q] = request[q]) /\ request' \in [Procs -> Assigned!Job]
  BY <1>1, <1>2, <1>9 DEF Assigned!MoveCommit
<1>12. Carrying(j)'
  BY <1>2, <1>5, <1>6, <1>10 DEF Carrying, Ordering
<1>13. \A q \in Procs : request'[q] = request[q] \/ (request[q].sub = {s} /\ Carrying(request[q])')
  BY <1>2, <1>11, <1>12
<1>14. Kept'
  <2>1. r.status # "none" /\ \E k \in Learners : r.learner = {k}
    BY <1>2, <1>5
  <2> QED  BY <1>1, <1>5, <1>7, <1>8, <1>11, <1>13, <2>1, Writes
<1>15. ASSUME ~overlapped PROVE Sole(s, l)
  BY <1>1, <1>2, <1>15 DEF AssignedInv, AssignedInTurn, Looked
<1>16. ASSUME ~overlapped, NEW k \in Learners, AssignedServes(s, k)' PROVE Sole(s, k)
  BY <1>5, <1>6, <1>15, <1>16 DEF AssignedServes
<1>17. ASSUME ~overlapped PROVE Looked(request[p])'
  <2>1. Sole(s, l)'
    BY <1>1, <1>6, <1>15, <1>17 DEF Sole, AssignedServes
  <2> QED  BY <1>5, <1>6, <1>10, <1>11, <2>1 DEF Looked, Ordering
<1>18. AssignedInTurn'
  BY <1>1, <1>6, <1>11, <1>16, <1>17, StaysSole, AssignedGoesOn DEF AssignedInv, AssignedInTurn
<1> QED  BY <1>14, <1>18 DEF AssignedInv

LEMMA RenewCommitStep ==
  ASSUME AssignedInv, NEW p \in Procs, Assigned!RenewCommit(p)
  PROVE  AssignedInv'
<1>1. /\ request[p].at = "renew" /\ UNCHANGED <<reassignment, overlapped>> /\ Kept /\ Carrying(request[p])
      /\ reassignment \in [Cycles -> Assigned!Case] /\ revived \subseteq Reports /\ overlapped \in BOOLEAN
      /\ unpaid \in [Reports -> SUBSET Procs] /\ request \in [Procs -> Assigned!Job]
  BY DEF Assigned!RenewCommit, Assigned!At, AssignedInv, Kept, Assigned!TypeOK, AssignedCarries
<1>2. PICK s \in Reports : request[p].sub = {s} /\ sub[s].status # "none"
  BY <1>1 DEF Carrying
<1>3. /\ Assigned!Update(s, [sub[s] EXCEPT !.status = "active"]) /\ unpaid' = [unpaid EXCEPT ![s] = {}]
      /\ revived' = IF sub[s].status = "expired" THEN revived \cup {s} ELSE revived
      /\ request' = [request EXCEPT ![p] = Assigned!Idle]
  BY <1>2 DEF Assigned!RenewCommit
<1>4. sub[s] \in Assigned!Row /\ \E l \in Learners : sub[s].learner = {l}
  BY <1>1, <1>2 DEF Kept, Assigned!TypeOK, RowsAreWhole
<1>5. PICK r \in Assigned!Row : r = [sub[s] EXCEPT !.status = "active"]
  BY <1>4 DEF Assigned!Row
<1>6. r.status = "active" /\ r.learner = sub[s].learner /\ r.pending = sub[s].pending /\ Assigned!Update(s, r)
  BY <1>3, <1>4, <1>5 DEF Assigned!Row
<1>7. sub'[s] = r /\ (\A t \in Reports \ {s} : sub'[t] = sub[t])
  BY <1>1, <1>6 DEF Assigned!Update, Kept, Assigned!TypeOK
<1>8. Waits(s)'
  BY <1>1, <1>6, <1>7, StillWaits
<1>9. request'[p] = Assigned!Idle /\ (\A q \in Procs \ {p} : request'[q] = request[q]) /\ request' \in [Procs -> Assigned!Job]
      /\ unpaid' \in [Reports -> SUBSET Procs] /\ revived' \subseteq Reports /\ revived \subseteq revived'
  BY <1>1, <1>3, IdleIsJob
<1>10. \A q \in Procs : request'[q] = request[q] \/ (request[q].sub = {s} /\ Carrying(request[q])')
  BY <1>2, <1>9, AssignedIdleCarries
<1>11. Kept'
  <2>1. r.status # "none" /\ (\E l \in Learners : r.learner = {l}) /\ MovesOn(s)
        /\ reassignment' \in [Cycles -> Assigned!Case] /\ overlapped' \in BOOLEAN
    BY <1>1, <1>4, <1>6 DEF MovesOn
  <2> QED  BY <1>1, <1>6, <1>8, <1>9, <1>10, <2>1, Writes
<1>12. ASSUME ~overlapped, NEW l \in Learners, AssignedServes(s, l)' PROVE Sole(s, l)
  <2>1. l \in sub[s].learner /\ s \notin revived /\ sub[s].status # "expired"
    BY <1>3, <1>6, <1>7, <1>12 DEF AssignedServes
  <2> QED  BY <1>1, <1>2, <1>12, <2>1 DEF AssignedInv, AssignedInTurn, Looked
<1>13. AssignedInTurn'
  BY <1>1, <1>7, <1>9, <1>12, AssignedIdleCarries, StaysSole, AssignedGoesOn DEF AssignedInv, AssignedInTurn
<1> QED  BY <1>11, <1>13 DEF AssignedInv

LEMMA AgesStep ==
  ASSUME AssignedInv, NEW s \in Reports, Assigned!Ages(s)
  PROVE  AssignedInv'
<1>1. /\ UNCHANGED <<reassignment, unpaid, revived, overlapped, request>> /\ Kept
      /\ reassignment \in [Cycles -> Assigned!Case] /\ revived \subseteq Reports /\ overlapped \in BOOLEAN
      /\ unpaid \in [Reports -> SUBSET Procs] /\ request \in [Procs -> Assigned!Job]
  BY DEF Assigned!Ages, AssignedInv, Kept, Assigned!TypeOK
<1>2. PICK status \in {"past_due", "expired", "cancelled"} :
        /\ sub[s].status \in Assigned!Live /\ Assigned!Update(s, [sub[s] EXCEPT !.status = status])
  BY DEF Assigned!Ages, Assigned!Live
<1>3. sub[s] \in Assigned!Row /\ \E l \in Learners : sub[s].learner = {l}
  BY <1>1, <1>2 DEF Kept, Assigned!TypeOK, RowsAreWhole, Assigned!Live
<1>4. PICK r \in Assigned!Row : r = [sub[s] EXCEPT !.status = status]
  BY <1>3 DEF Assigned!Row
<1>5. r.status = status /\ r.learner = sub[s].learner /\ r.pending = sub[s].pending /\ Assigned!Update(s, r)
  BY <1>2, <1>3, <1>4 DEF Assigned!Row
<1>6. sub'[s] = r /\ (\A t \in Reports \ {s} : sub'[t] = sub[t])
  BY <1>1, <1>5 DEF Assigned!Update, Kept, Assigned!TypeOK
<1>7. Waits(s)'
  BY <1>1, <1>5, <1>6, StillWaits
<1>8. Kept'
  <2>1. r.status # "none" /\ (\E l \in Learners : r.learner = {l}) /\ MovesOn(s)
    BY <1>1, <1>3, <1>5 DEF MovesOn
  <2>2. /\ reassignment' \in [Cycles -> Assigned!Case] /\ overlapped' \in BOOLEAN /\ revived' \subseteq Reports
        /\ unpaid' \in [Reports -> SUBSET Procs] /\ request' \in [Procs -> Assigned!Job]
        /\ \A q \in Procs : request'[q] = request[q]
    BY <1>1
  <2> QED  BY <1>1, <1>5, <1>7, <2>1, <2>2, Writes
<1>9. \A t \in Reports, l \in Learners : AssignedServes(t, l)' => AssignedServes(t, l)
  BY <1>1, <1>2, <1>5, <1>6 DEF AssignedServes
<1>10. AssignedInTurn'
  <2> SUFFICES ASSUME ~overlapped' PROVE AssignedInTurn'
    BY DEF AssignedInTurn
  <2>1. ASSUME NEW q \in Procs PROVE Looked(request[q])'
    <3>1. Looked(request[q]) /\ request'[q] = request[q]
      BY <1>1 DEF AssignedInv, AssignedInTurn
    <3>2. \A t \in Reports, l \in Learners : Sole(t, l) => Sole(t, l)'
      BY <1>9 DEF Sole
    <3>3. \A t \in Reports : /\ sub'[t].learner = sub[t].learner
                             /\ sub[t].status = "expired" => sub'[t].status = "expired"
      BY <1>2, <1>5, <1>6 DEF Assigned!Live
    <3>4. request[q].sub \subseteq Reports /\ request[q].learner \subseteq Learners
          /\ \A t \in Reports : sub[t].learner \subseteq Learners
      BY <1>1 DEF Assigned!Job, Kept, Assigned!TypeOK, Assigned!Row
    <3> QED  BY <1>1, <3>1, <3>2, <3>3, <3>4 DEF Looked
  <2>2. \A t, u \in Reports, l \in Learners : (AssignedServes(t, l) /\ AssignedServes(u, l))' => t = u
    BY <1>1, <1>9 DEF AssignedInv, AssignedInTurn
  <2> QED  BY <1>1, <2>1, <2>2 DEF AssignedInv, AssignedInTurn
<1> QED  BY <1>8, <1>10 DEF AssignedInv

LEMMA LeaveIs ==
  ASSUME Kept, NEW p \in Procs, Assigned!Leave(p)
  PROVE  /\ request'[p] = Assigned!Idle /\ (\A q \in Procs \ {p} : request'[q] = request[q]) /\ request' \in [Procs -> Assigned!Job]
         /\ unpaid' \in [Reports -> SUBSET Procs] /\ unmoved' \in [Reports -> SUBSET Procs]
         /\ \A s \in Reports : unmoved'[s] = unmoved[s] \ {p}
<1>1. unmoved' = [s \in Reports |-> unmoved[s] \ {p}] /\ unmoved \in [Reports -> SUBSET Procs]
  BY DEF Assigned!Leave, Kept, Assigned!TypeOK
<1>2. unmoved' \in [Reports -> SUBSET Procs] /\ \A s \in Reports : unmoved'[s] = unmoved[s] \ {p}
  BY <1>1
<1> QED  BY <1>2, DoneIs DEF Assigned!Leave

\* A request leaves, having at most opened a case.
LEMMA Leaves ==
  ASSUME AssignedInv, NEW p \in Procs, request[p].at # "idle", Assigned!Leave(p),
         UNCHANGED <<sub, revived, overlapped>>,
         reassignment' \in [Cycles -> Assigned!Case],
         \A c \in Cycles : \/ reassignment'[c] = reassignment[c]
                           \/ reassignment[c].status = "none" /\ reassignment'[c].status = "open"
                              /\ (\E s \in Reports : reassignment'[c].sub = {s} /\ sub[s].status # "none")
                              /\ (\E l \in Learners : reassignment'[c].target = {l})
  PROVE  AssignedInv'
<1>1. Kept /\ revived \subseteq Reports /\ overlapped \in BOOLEAN
  BY DEF AssignedInv, Kept, Assigned!TypeOK
<1>2. Assigned!TypeOK'
  BY <1>1, LeaveIs DEF Kept, Assigned!TypeOK
<1>3. RowsAreWhole' /\ CasesAreWhole'
  BY <1>1 DEF Kept, RowsAreWhole, CasesAreWhole
<1>4. ASSUME NEW q \in Procs PROVE AssignedCarries(q)'
  <2>1. CASE q = p
    <3>1. Carrying(request[p])' /\ \A s \in Reports : p \notin unmoved'[s]
      BY <1>1, LeaveIs, AssignedIdleCarries
    <3> QED  BY <2>1, <3>1 DEF AssignedCarries, Stands
  <2>2. CASE q # p
    <3>1. request'[q] = request[q] /\ Carrying(request[q]) /\ Stands(q) /\ \A s \in Reports : q \in unmoved'[s] => q \in unmoved[s]
      BY <1>1, <2>2, LeaveIs DEF Kept, AssignedCarries
    <3>2. Carrying(request[q])'
      <4>1. \A c \in Cycles : reassignment[c].status # "none" => reassignment'[c] = reassignment[c]
        OBVIOUS
      <4> QED  BY <3>1, <4>1 DEF Carrying
    <3>3. Stands(q)'
      <4>1. ASSUME NEW c \in Cycles, reassignment[c].status # "none" PROVE reassignment'[c] = reassignment[c]
        BY <4>1
      <4>2. ASSUME NEW s \in Reports, q \in unmoved'[s]
            PROVE  /\ request[q].sub = {s} /\ request[q].at \in Ordering \cup {"move"}
                   /\ \E c \in Cycles : request[q].case = {c} /\ reassignment'[c] = reassignment[c]
        BY <3>1, <4>1, <4>2 DEF Stands, Carrying
      <4> QED  BY <3>1, <4>2 DEF Stands
    <3> QED  BY <3>2, <3>3 DEF AssignedCarries
  <2> QED  BY <2>1, <2>2
<1>5. ASSUME NEW s \in Reports PROVE Waits(s)'
  <2>1. \A c \in Cycles : /\ reassignment'[c].status = "scheduled" <=> reassignment[c].status = "scheduled"
                          /\ reassignment[c].status = "scheduled" => reassignment'[c] = reassignment[c]
    OBVIOUS
  <2>2. Scheduled(s)' = Scheduled(s) /\ \A c \in Scheduled(s) : reassignment'[c] = reassignment[c]
    BY <2>1 DEF Scheduled
  <2> QED  BY <1>1, <2>2 DEF Kept, Waits
<1>6. AssignedInTurn'
  <2>1. ~overlapped => \A t, u \in Reports, l \in Learners : (AssignedServes(t, l) /\ AssignedServes(u, l))' => t = u
    BY DEF AssignedInv, AssignedInTurn, AssignedServes
  <2> QED  BY <1>1, <2>1, LeaveIs, AssignedIdleCarries, AssignedGoesOn
<1> QED  BY <1>2, <1>3, <1>4, <1>5, <1>6 DEF AssignedInv, Kept

LEMMA AssignedAbandonStep ==
  ASSUME AssignedInv, NEW p \in Procs, Assigned!Abandon(p)
  PROVE  AssignedInv'
<1>1. request[p].at # "idle" /\ Assigned!Leave(p) /\ UNCHANGED <<sub, reassignment, revived, overlapped>> /\ reassignment \in [Cycles -> Assigned!Case]
  BY DEF Assigned!Abandon, Assigned!At, AssignedInv, Kept, Assigned!TypeOK
<1> QED  BY <1>1, Leaves

LEMMA CreateCaseStep ==
  ASSUME AssignedInv, NEW p \in Procs, Assigned!CreateCase(p)
  PROVE  AssignedInv'
<1>1. /\ request[p].at = "request" /\ Assigned!Leave(p) /\ UNCHANGED <<sub, revived, overlapped>>
      /\ Carrying(request[p]) /\ reassignment \in [Cycles -> Assigned!Case] /\ request[p] \in Assigned!Job
  BY DEF Assigned!CreateCase, Assigned!At, AssignedInv, Kept, Assigned!TypeOK, AssignedCarries
<1>2. PICK s \in Reports, l \in Learners : request[p].sub = {s} /\ request[p].learner = {l} /\ sub[s].status # "none"
  BY <1>1 DEF Carrying
<1>3. PICK c \in Cycles :
        /\ reassignment[c].status = "none"
        /\ reassignment' = [reassignment EXCEPT ![c] = [status |-> "open", sub |-> {s}, source |-> request[p].source, target |-> {l}]]
  BY <1>2 DEF Assigned!CreateCase
<1>4. PICK e \in Assigned!Case : e = [status |-> "open", sub |-> {s}, source |-> request[p].source, target |-> {l}]
  BY <1>1 DEF Assigned!Case, Assigned!Job
<1>5. e.status = "open" /\ e.sub = {s} /\ e.target = {l} /\ reassignment' = [reassignment EXCEPT ![c] = e]
  BY <1>3, <1>4
<1>6. reassignment' \in [Cycles -> Assigned!Case] /\ reassignment'[c] = e /\ \A d \in Cycles \ {c} : reassignment'[d] = reassignment[d]
  BY <1>1, <1>5
<1>7. request[p].at # "idle" /\ UNCHANGED <<sub, revived, overlapped>> /\ Assigned!Leave(p)
  BY <1>1
<1>8. ASSUME NEW d \in Cycles
      PROVE  \/ reassignment'[d] = reassignment[d]
             \/ reassignment[d].status = "none" /\ reassignment'[d].status = "open"
                /\ (\E r \in Reports : reassignment'[d].sub = {r} /\ sub[r].status # "none")
                /\ (\E m \in Learners : reassignment'[d].target = {m})
  <2>1. CASE d = c
    BY <1>2, <1>3, <1>5, <1>6, <2>1
  <2>2. CASE d # c
    BY <1>6, <2>2
  <2> QED  BY <2>1, <2>2
<1>9. reassignment' \in [Cycles -> Assigned!Case]
  BY <1>6
<1> QED  BY <1>7, <1>8, <1>9, Leaves

LEMMA MoveReadStep ==
  ASSUME AssignedInv, NEW p \in Procs, Assigned!MoveRead(p)
  PROVE  AssignedInv'
<1>1. /\ request[p].at = "boundary" /\ UNCHANGED <<sub, reassignment, unpaid, revived, overlapped>> /\ Kept
      /\ AssignedCarries(p) /\ Carrying(request[p])
      /\ request \in [Procs -> Assigned!Job] /\ request[p] \in Assigned!Job
      /\ unmoved \in [Reports -> SUBSET Procs]
      /\ (~overlapped => Looked(request[p]))
  BY DEF Assigned!MoveRead, Assigned!At, AssignedInv, Kept, Assigned!TypeOK, AssignedCarries, AssignedInTurn
<1>2. PICK s \in Reports : request[p].sub = {s} /\ sub[s].status # "none"
  BY <1>1 DEF Carrying
<1>3. \A t \in Reports : p \notin unmoved[t]
  BY <1>1 DEF AssignedCarries, Stands, Ordering
<1>4. RowsAreWhole' /\ CasesAreWhole' /\ \A t \in Reports : Waits(t)'
  <2>1. RowsAreWhole' /\ CasesAreWhole'
    BY <1>1 DEF Kept, RowsAreWhole, CasesAreWhole
  <2>2. ASSUME NEW t \in Reports PROVE Waits(t)'
    <3>1. Scheduled(t)' = Scheduled(t) /\ Waits(t)
      BY <1>1 DEF Kept, Scheduled
    <3> QED  BY <1>1, <3>1 DEF Waits
  <2> QED  BY <2>1, <2>2
<1>5. ASSUME NEW j \in Assigned!Job, request' = [request EXCEPT ![p] = j],
             unmoved' \in [Reports -> SUBSET Procs],
             Carrying(j), ~overlapped => Looked(j),
             \A t \in Reports, q \in Procs : q \in unmoved'[t] =>
               \/ q \in unmoved[t] /\ q # p
               \/ /\ q = p /\ t = s /\ j.at = "move" /\ j.sub = {s} /\ sub[s].pending = j.learner
                  /\ \A c \in j.case : reassignment[c].status = "scheduled"
      PROVE  AssignedInv'
  <2>1. request'[p] = j /\ (\A q \in Procs \ {p} : request'[q] = request[q]) /\ request' \in [Procs -> Assigned!Job]
    BY <1>1, <1>5
  <2>2. Assigned!TypeOK'
    BY <1>1, <1>5, <2>1 DEF Kept, Assigned!TypeOK
  <2>3. ASSUME NEW q \in Procs PROVE Carrying(request[q])'
    BY <1>1, <1>5, <2>1 DEF Kept, AssignedCarries, Carrying
  <2>4. ASSUME NEW q \in Procs PROVE Stands(q)'
    <3>1. CASE q = p
      <4>1. \A t \in Reports : p \in unmoved'[t] =>
               /\ t = s /\ j.at = "move" /\ j.sub = {s} /\ sub[s].pending = j.learner
               /\ \A c \in j.case : reassignment[c].status = "scheduled"
        BY <1>5
      <4> QED  BY <1>1, <2>1, <3>1, <4>1 DEF Stands, Ordering
    <3>2. CASE q # p
      <4>1. \A t \in Reports : q \in unmoved'[t] => q \in unmoved[t]
        BY <1>5, <3>2
      <4> QED  BY <1>1, <2>1, <3>2, <4>1 DEF Kept, AssignedCarries, Stands
    <3> QED  BY <3>1, <3>2
  <2>5. Kept'
    BY <1>4, <2>2, <2>3, <2>4 DEF Kept, AssignedCarries
  <2>6. ASSUME ~overlapped PROVE Looked(request[p])'
    BY <1>1, <1>5, <2>1, <2>6 DEF Looked, Sole, AssignedServes
  <2>7. ~overlapped => \A t, u \in Reports, l \in Learners : (AssignedServes(t, l) /\ AssignedServes(u, l))' => t = u
    BY <1>1 DEF AssignedInv, AssignedInTurn, AssignedServes
  <2>8. AssignedInTurn'
    BY <1>1, <2>1, <2>6, <2>7, AssignedGoesOn
  <2> QED  BY <2>5, <2>8 DEF AssignedInv
<1>6. CASE sub[s].pending = {} /\ request' = [request EXCEPT ![p].at = "renew"] /\ UNCHANGED unmoved
  <2>1. PICK j \in Assigned!Job : j = [request[p] EXCEPT !.at = "renew"]
    BY <1>1 DEF Assigned!Job, Assigned!Steps
  <2>2. j.at = "renew" /\ j.sub = {s} /\ request' = [request EXCEPT ![p] = j]
    BY <1>1, <1>2, <1>6, <2>1 DEF Assigned!Job
  <2>3. Carrying(j)
    BY <1>2, <2>2 DEF Carrying, Ordering
  <2>4. ~overlapped => Looked(j)
    BY <1>1, <1>2, <2>2 DEF Looked, Ordering
  <2>5. /\ unmoved' \in [Reports -> SUBSET Procs]
        /\ \A t \in Reports, q \in Procs : q \in unmoved'[t] => q \in unmoved[t] /\ q # p
    BY <1>1, <1>3, <1>6
  <2> QED  BY <1>5, <2>2, <2>3, <2>4, <2>5
<1>7. ASSUME NEW c \in Cycles, \A l \in sub[s].pending : Assigned!Valid(s, l),
             reassignment[c].status = "scheduled" /\ reassignment[c].sub = {s} /\ reassignment[c].target = sub[s].pending,
             request' = [request EXCEPT ![p].at = "move", ![p].case = {c}, ![p].learner = sub[s].pending],
             unmoved' = [unmoved EXCEPT ![s] = @ \cup {p}]
      PROVE  AssignedInv'
  <2>1. sub[s].pending \in SUBSET Learners
    BY <1>1 DEF Kept, Assigned!TypeOK, Assigned!Row
  <2>2. PICK j \in Assigned!Job : j = [request[p] EXCEPT !.at = "move", !.case = {c}, !.learner = sub[s].pending]
    BY <1>1, <2>1 DEF Assigned!Job, Assigned!Steps
  <2>3. j.at = "move" /\ j.sub = {s} /\ j.case = {c} /\ j.learner = sub[s].pending /\ request' = [request EXCEPT ![p] = j]
    BY <1>1, <1>2, <1>7, <2>1, <2>2 DEF Assigned!Job
  <2>4. Carrying(j)
    <3>1. \E l \in Learners : j.learner = {l}
      BY <1>1, <1>7, <2>3 DEF Kept, CasesAreWhole
    <3> QED  BY <1>2, <1>7, <2>3, <3>1 DEF Carrying, Ordering
  <2>5. Looked(j)
    BY <1>7, <2>3 DEF Looked, Ordering, Sole, AssignedServes, Assigned!Valid, Assigned!Covered
  <2>6. unmoved' \in [Reports -> SUBSET Procs] /\ \A t \in Reports, q \in Procs :
          q \in unmoved'[t] => (q \in unmoved[t] /\ q # p) \/ (q = p /\ t = s)
    BY <1>1, <1>3, <1>7
  <2> QED  BY <1>5, <1>7, <2>3, <2>4, <2>5, <2>6
<1> QED  BY <1>2, <1>6, <1>7 DEF Assigned!MoveRead

LEMMA AssignedNextHolds == AssignedInv /\ [Assigned!Next]_(Assigned!vars) => AssignedInv'
<1> SUFFICES ASSUME AssignedInv, [Assigned!Next]_(Assigned!vars) PROVE AssignedInv'
  OBVIOUS
<1>1. ASSUME NEW p \in Procs,
             \/ Assigned!CheckoutRead(p) \/ Assigned!CheckoutCommit(p) \/ Assigned!ActivateRead(p) \/ Assigned!ActivateCommit(p)
             \/ Assigned!RequestCase(p) \/ Assigned!CreateCase(p)
      PROVE  AssignedInv'
  BY <1>1, CheckoutReadStep, CheckoutCommitStep, ActivateReadStep, ActivateCommitStep, RequestCaseStep,
     CreateCaseStep
<1>2. ASSUME NEW p \in Procs, Assigned!ExecuteRead(p) \/ Assigned!ExecuteCommit(p) \/ Assigned!Abandon(p)
      PROVE  AssignedInv'
  BY <1>2, ExecuteReadStep, ExecuteCommitStep, AssignedAbandonStep
<1>3. ASSUME NEW p \in Procs,
             Assigned!RenewRead(p) \/ Assigned!MoveRead(p) \/ Assigned!MoveCommit(p) \/ Assigned!RenewCommit(p)
      PROVE  AssignedInv'
  BY <1>3, RenewReadStep, MoveReadStep, MoveCommitStep, RenewCommitStep
<1>4. ASSUME NEW s \in Reports, Assigned!Ages(s) PROVE AssignedInv'
  BY <1>4, AgesStep
<1>5. CASE UNCHANGED Assigned!vars
  <2>1. UNCHANGED <<sub, reassignment, unmoved, unpaid, revived, overlapped, request>>
    BY <1>5 DEF Assigned!vars
  <2>2. Kept'
    <3>1. Assigned!TypeOK' /\ RowsAreWhole' /\ CasesAreWhole'
      BY <2>1 DEF AssignedInv, Kept, Assigned!TypeOK, RowsAreWhole, CasesAreWhole
    <3>2. \A p \in Procs : AssignedCarries(p)'
      BY <2>1 DEF AssignedInv, Kept, AssignedCarries, Carrying, Stands
    <3>3. \A s \in Reports : Waits(s)'
      BY <2>1 DEF AssignedInv, Kept, Waits, Scheduled
    <3> QED  BY <3>1, <3>2, <3>3 DEF Kept
  <2>3. AssignedInTurn'
    BY <2>1 DEF AssignedInv, AssignedInTurn, Looked, Sole, AssignedServes
  <2> QED  BY <2>2, <2>3 DEF AssignedInv
<1> QED  BY <1>1, <1>2, <1>3, <1>4, <1>5 DEF Assigned!Next

LEMMA AssignedCounts ==
  ASSUME NEW S
  PROVE  Assigned!Cardinality(S) = Cardinality(S)
BY DEF Assigned!Cardinality, Cardinality

LEMMA AssignedInvSuffices ==
  AssignedInv => Assigned!TypeOK /\ Assigned!OneSubscriptionPerLearner /\ Assigned!PendingIsScheduled
<1> SUFFICES ASSUME AssignedInv PROVE Assigned!OneSubscriptionPerLearner /\ Assigned!PendingIsScheduled
  BY DEF AssignedInv, Kept
<1>1. Assigned!OneSubscriptionPerLearner
  <2> SUFFICES ASSUME ~overlapped, NEW l \in Learners
               PROVE  Cardinality({s \in Reports \ revived : sub[s].status \in Assigned!Live /\ sub[s].learner = {l}}) <= 1
    BY AssignedCounts DEF Assigned!OneSubscriptionPerLearner
  <2> DEFINE S == {s \in Reports \ revived : sub[s].status \in Assigned!Live /\ sub[s].learner = {l}}
  <2>1. \A s, t \in S : s = t
    BY DEF AssignedInv, AssignedInTurn, AssignedServes
  <2>2. Cardinality(S) <= 1
    <3> HIDE DEF S
    <3>1. CASE S = {}
      BY <3>1, FS_EmptySet
    <3>2. ASSUME NEW s \in S PROVE Cardinality(S) <= 1
      <4>1. S = {s}
        BY <2>1
      <4>2. Cardinality({s}) = 1
        BY FS_Singleton
      <4> QED  BY <4>1, <4>2
    <3> QED  BY <3>1, <3>2
  <2> QED  BY <2>2
<1>2. Assigned!PendingIsScheduled
  <2> SUFFICES ASSUME NEW s \in Reports
               PROVE  /\ Cardinality(Scheduled(s)) <= 1
                      /\ sub[s].pending = UNION {reassignment[c].target : c \in Scheduled(s)}
    BY AssignedCounts DEF Assigned!PendingIsScheduled, Scheduled
  <2>1. Waits(s)
    BY DEF AssignedInv, Kept
  <2>2. CASE Scheduled(s) = {}
    BY <2>1, <2>2, FS_EmptySet DEF Waits
  <2>3. CASE Scheduled(s) # {}
    <3>1. PICK c : Scheduled(s) = {c}
      BY <2>1, <2>3 DEF Waits
    <3>2. sub[s].pending = reassignment[c].target
      BY <2>1, <3>1 DEF Waits
    <3>3. Cardinality({c}) = 1
      BY FS_Singleton
    <3> QED  BY <3>1, <3>2, <3>3
  <2> QED  BY <2>2, <2>3
<1> QED  BY <1>1, <1>2

-----------------------------------------------------------------------------
(* The three parts together: a step of one leaves the variables of the others. *)

state == <<part, vars, paidVars, assignedVars>>

LEMMA EveryStep ==
  [MCNext]_state => [Next]_vars /\ [Paid!Next]_(Paid!vars) /\ [Assigned!Next]_(Assigned!vars)
<1> SUFFICES ASSUME [MCNext]_state
             PROVE  [Next]_vars /\ [Paid!Next]_(Paid!vars) /\ [Assigned!Next]_(Assigned!vars)
  OBVIOUS
<1>1. UNCHANGED paidVars => UNCHANGED Paid!vars
  BY DEF paidVars, Paid!vars
<1>2. UNCHANGED assignedVars => UNCHANGED Assigned!vars
  BY DEF assignedVars, Assigned!vars
<1>3. CASE MCNext
  BY <1>1, <1>2, <1>3 DEF MCNext
<1>4. CASE UNCHANGED state
  BY <1>1, <1>2, <1>4 DEF state
<1> QED  BY <1>3, <1>4

LEMMA LedgerStays == MCSpec => [](IInv /\ TInv)
<1>1. MCInit => IInv /\ TInv
  BY InitHolds, InitTurns DEF MCInit
<1>2. IInv /\ TInv /\ [MCNext]_<<part, vars, paidVars, assignedVars>> => (IInv /\ TInv)'
  BY EveryStep, NextHolds, TNextHolds DEF state
<1> QED  BY <1>1, <1>2, PTL DEF MCSpec

LEMMA PaidStays == MCSpec => []PaidInv
<1>1. MCInit => PaidInv
  BY PaidInitHolds DEF MCInit
<1>2. PaidInv /\ [MCNext]_<<part, vars, paidVars, assignedVars>> => PaidInv'
  BY EveryStep, PaidNextHolds DEF state
<1> QED  BY <1>1, <1>2, PTL DEF MCSpec

LEMMA AssignedStays == MCSpec => []AssignedInv
<1>1. MCInit => AssignedInv
  BY AssignedInitHolds DEF MCInit
<1>2. AssignedInv /\ [MCNext]_<<part, vars, paidVars, assignedVars>> => AssignedInv'
  BY EveryStep, AssignedNextHolds DEF state
<1> QED  BY <1>1, <1>2, PTL DEF MCSpec

(* Rows, ledger entries, incidents, reassignment cases and the requests about them  *)
(* keep their types in all three parts.                                             *)
THEOREM TypesStay == MCSpec => []TypesOK
<1>1. IInv /\ PaidInv /\ AssignedInv => TypesOK
  BY IInvSuffices, PaidInvSuffices, AssignedInvSuffices DEF TypesOK
<1> QED  BY <1>1, LedgerStays, PaidStays, AssignedStays, PTL

(* An event changes the row of an entitlement once, however many retries, sweeps    *)
(* and repairs replay it and whichever of them die (applyRecordedEvent, its unique   *)
(* pair of row and event, and the statuses written after it).                        *)
THEOREM EffectsStayOnce == Spec => []EffectsHappenOnce
<1>1. IInv /\ [Next]_vars => IInv'
  BY NextHolds
<1> QED  BY <1>1, InitHolds, IInvSuffices, PTL DEF Spec

(* In the order of their versions the events of one source change the row, and what *)
(* was decided last stands, while no request overlaps another (recordLifecycleEvent, *)
(* applyRecordedEvent, sweepDueLifecycleTransitions, confirmProviderRefund).         *)
THEOREM NewestDecisionRemains == Spec => []NewestDecisionStands
<1>1. Init => IInv /\ TInv
  BY InitHolds, InitTurns
<1>2. IInv /\ TInv /\ [Next]_vars => (IInv /\ TInv)'
  BY NextHolds, TNextHolds
<1>3. TInv => NewestDecisionStands
  BY DEF TInv
<1> QED  BY <1>1, <1>2, <1>3, PTL DEF Spec

(* A paid cycle has one credit batch at most, whatever the provider's events, the   *)
(* repairs and the retries of operators do at once; while requests follow each other *)
(* the periods that bear credits do not overlap and a supporting one starts within a *)
(* bearing one, and cycles applied in their order have no batches for one time; a    *)
(* cycle has one active incident, of which a version is acted on once                *)
(* (recomputeEffectiveEntitlement, reconcilePaidCycle, applyPaidCycle,               *)
(* openOrUpdateIncident, applyIncidentAction).                                       *)
THEOREM CyclesAreCreditedOnce == MCSpec => []AllocatedOnce
<1>1. MCInit => PaidInv /\ RolesInv
  BY PaidInitHolds, RolesInit DEF MCInit
<1>2. PaidInv /\ RolesInv /\ [MCNext]_<<part, vars, paidVars, assignedVars>> => (PaidInv /\ RolesInv)'
  BY EveryStep, PaidNextHolds, RolesNext DEF state
<1>3. PaidInv /\ RolesInv => AllocatedOnce
  BY PaidInvSuffices, RolesInvSuffices DEF AllocatedOnce
<1> QED  BY <1>1, <1>2, <1>3, PTL DEF MCSpec

(* Two live subscriptions of one app never serve one learner while requests follow  *)
(* each other, and a pending reassignment always has its one scheduled case          *)
(* (executeReassignment, the renewal at the boundary, the checkout's activation).    *)
THEOREM LearnersKeepOneSubscription == MCSpec => []OneSubscriptionPerLearner
<1>1. AssignedInv => OneSubscriptionPerLearner
  BY AssignedInvSuffices DEF OneSubscriptionPerLearner
<1> QED  BY <1>1, AssignedStays, PTL
===============================================================================
