--------------------------- MODULE RuntimeProofs ---------------------------
(* The counted time, the replacement credits and the launch codes of a session, each *)
(* for every value of the constants: its own specification keeps an inductive        *)
(* invariant, and the composition keeps all three.                                   *)
EXTENDS MCRuntime, FiniteSetTheorems, TLAPS

\* Neither the row nor what a request read of it is ahead of the clock, and a resume under way
\* found an absence within the window.
Remembering(w) ==
  /\ w.at <= now /\ w.saw.connected <= now
  /\ w.op = "resume" => /\ w.saw.status \in {"disconnected", "resumable"}
                        /\ w.saw.left <= w.at
                        /\ AwaySoFar(w.saw, w.at) <= Window
Measured ==
  /\ row.connected <= now /\ row.left <= now /\ away <= now
  /\ \A p \in Procs : Remembering(work[p])

\* Of requests that follow each other: the row and the engaged seconds e are in balance, a request
\* computes from the row r it will write, and what it still has to contribute fits in.
Balanced(r, e) ==
  /\ e <= r.connected
  /\ r.status \in {"active", "resumable"} => away <= r.absent
  /\ r.status = "disconnected" => away <= r.absent + (now - r.left)
Accounted(w, r, e) ==
  /\ w.op \in Computing => w.saw = r
  /\ w.op = "disconnect" => r.status = "active"
  /\ w.op \in {"apply", "applyThenEnd"} => e + w.delta <= r.connected
  /\ w.op = "resume" => away <= AwaySoFar(w.saw, w.at)
InTurn ==
  ~overlapped => /\ \A p, q \in Procs : work[p].op # "idle" /\ work[q].op # "idle" => p = q
                 /\ \A p \in Procs : Accounted(work[p], row, engaged)
                 /\ Balanced(row, engaged)

IInv == TypeOK /\ Measured /\ InTurn

LEMMA Bounds ==
  /\ MaxConnected \in Nat /\ Window \in Nat /\ HardExpiry \in Nat /\ MaxTime \in Nat
  /\ MaxEpisodes \in Nat /\ 0 \in Times /\ Times \subseteq Nat /\ Reports \subseteq Nat
  BY ClockAssumption DEF Times

\* The columns of a row, and the parts of a request.
LEMMA Columns ==
  ASSUME NEW r \in Row
  PROVE  /\ r.status \in Statuses /\ r.connected \in 0 .. MaxConnected /\ r.absent \in 0 .. Window
         /\ r.left \in Times /\ r.deadline \in Nat /\ r.episodes \in 0 .. MaxEpisodes
         /\ r.connected \in Nat /\ r.absent \in Nat /\ r.left \in Nat /\ r.episodes \in Nat
         /\ r.connected <= MaxConnected /\ r.absent <= Window
<1>1. /\ r.status \in Statuses /\ r.connected \in 0 .. MaxConnected /\ r.absent \in 0 .. Window
      /\ r.left \in Times /\ r.deadline \in Nat /\ r.episodes \in 0 .. MaxEpisodes
  BY DEF Row
<1>2. /\ r.connected \in Nat /\ r.connected <= MaxConnected
      /\ r.absent \in Nat /\ r.absent <= Window /\ r.episodes \in Nat
  BY <1>1, Bounds
<1>3. r.left \in Nat
  BY <1>1, Bounds
<1> QED  BY <1>1, <1>2, <1>3

LEMMA Parts ==
  ASSUME NEW w \in Work
  PROVE  /\ w.op \in Ops /\ w.at \in Times /\ w.at \in Nat /\ w.saw \in Row /\ w.reported \in Nat
         /\ w.id \in Ids /\ w.delta \in Times /\ w.delta \in Nat
  BY Bounds DEF Work

LEMMA FreshIsRow ==
  /\ FreshRow \in Row /\ FreshRow.status = "active"
  /\ FreshRow.connected = 0 /\ FreshRow.absent = 0 /\ FreshRow.left = 0
<1>1. 0 \in 0 .. MaxConnected /\ 0 \in 0 .. Window /\ 0 \in 0 .. MaxEpisodes /\ 0 \in Times
  BY Bounds
<1> QED  BY <1>1 DEF FreshRow, Row, Statuses, Open

LEMMA IdleIsWork ==
  /\ Idle \in Work /\ Idle.op = "idle" /\ Idle.at = 0 /\ Idle.saw = FreshRow /\ Idle.delta = 0
  BY FreshIsRow, Bounds DEF Idle, Work, Ops, Ids

LEMMA InitHolds == Init => IInv
<1> SUFFICES ASSUME Init PROVE IInv
  OBVIOUS
<1>1. work \in [Procs -> Work] /\ \A p \in Procs : work[p] = Idle
  BY IdleIsWork DEF Init
<1>2. TypeOK
  BY <1>1, FreshIsRow, Bounds DEF Init, TypeOK
<1>3. Measured
  BY <1>1, IdleIsWork, FreshIsRow DEF Init, Measured, Remembering
<1>4. InTurn
  BY <1>1, IdleIsWork, FreshIsRow DEF Init, InTurn, Accounted, Balanced, Computing
<1> QED  BY <1>2, <1>3, <1>4 DEF IInv

LEMMA Types ==
  ASSUME IInv
  PROVE  /\ now \in Times /\ now \in Nat /\ row \in Row /\ engaged \in Nat /\ receipts \subseteq Ids
         /\ away \in Nat /\ away \in Times /\ overlapped \in BOOLEAN /\ work \in [Procs -> Work]
  BY Bounds DEF IInv, TypeOK

\* What is accepted is no less than what was, and no more than the clock has measured.
LEMMA AcceptedIsReal ==
  ASSUME NEW r \in Row, NEW reported \in Nat, NEW at \in Times
  PROVE  \A a \in {Accepted(r, reported, at), FinallyAccepted(r, reported, at)} :
           /\ a \in 0 .. MaxConnected /\ r.connected <= a /\ a - r.connected \in Times
           /\ a <= r.connected \/ a <= at
<1>1. ASSUME NEW a, a = Accepted(r, reported, at) \/ a = r.connected
      PROVE  /\ a \in 0 .. MaxConnected /\ r.connected <= a /\ a - r.connected \in Times
             /\ a <= r.connected \/ a <= at
  <2>1. r.connected \in Nat /\ r.connected <= MaxConnected /\ MaxConnected \in Nat /\ at \in Nat
        /\ at <= MaxTime /\ MaxTime \in Nat
    BY Columns, Bounds DEF Times
  <2> QED  BY <1>1, <2>1 DEF Accepted, Most, Least, Times
<1> QED  BY <1>1 DEF FinallyAccepted

\* A request arrives.
LEMMA ArriveStep ==
  ASSUME IInv, NEW p \in Procs, NEW reported \in Nat,
         NEW op \in {"disconnect", "limit", "resume", "interrupt", "mark", "finalize", "sweep"},
         Arrive(p, op, reported),
         op = "disconnect" => row.status = "active",
         op = "resume" => row.status \in {"disconnected", "resumable"} /\ ~Overdue(row, now)
  PROVE  IInv'
<1> DEFINE w == IF op \in Computing
                THEN [Idle EXCEPT !.op = op, !.at = now, !.saw = row, !.reported = reported]
                ELSE [Idle EXCEPT !.op = op, !.saw.status = row.status]
<1>1. /\ work[p].op = "idle" /\ work' = [work EXCEPT ![p] = w]
      /\ overlapped' = (overlapped \/ \E q \in Procs : work[q].op # "idle")
      /\ away' = IF overlapped' THEN 0 ELSE away
      /\ UNCHANGED <<now, row, engaged, receipts>>
  BY DEF Arrive, Busy
<1>2. /\ row.connected \in Nat /\ row.connected <= now /\ row.left <= now /\ row.left \in Nat
      /\ row.status \in Statuses /\ row.absent \in Nat /\ row.absent <= Window
  BY Types, Columns DEF IInv, Measured
<1>3. /\ w \in Work /\ w.op = op /\ w.at <= now /\ w.saw.connected <= now
      /\ op \in Computing => w.at = now /\ w.saw = row
  <2>1. CASE op \in Computing
    <3> DEFINE v == [Idle EXCEPT !.op = op, !.at = now, !.saw = row, !.reported = reported]
    <3>1. v \in Work /\ v.op = op /\ v.at = now /\ v.saw = row
      BY Types, IdleIsWork DEF Work, Ops
    <3>2. w = v
      BY <2>1
    <3> HIDE DEF v, w
    <3> QED  BY <1>2, <3>1, <3>2, Types
  <2>2. CASE op \notin Computing
    <3> DEFINE s == [Idle.saw EXCEPT !.status = row.status]
               v == [Idle EXCEPT !.op = op, !.saw = s]
    <3>1. s \in Row /\ s.connected = 0
      BY <1>2, FreshIsRow, IdleIsWork DEF Row
    <3>2. w = v
      BY <2>2
    <3> HIDE DEF s
    <3>3. v \in Work /\ v.op = op /\ v.at = 0 /\ v.saw = s
      BY <3>1, IdleIsWork DEF Work, Ops
    <3> HIDE DEF v, w
    <3> QED  BY <2>2, <3>1, <3>2, <3>3, Types
  <2> QED  BY <2>1, <2>2
<1> HIDE DEF w
<1>4. work' \in [Procs -> Work] /\ work'[p] = w /\ \A q \in Procs : q # p => work'[q] = work[q]
  BY <1>1, <1>3, Types
<1>5. TypeOK'
  <2>1. overlapped' \in BOOLEAN
    BY <1>1
  <2>2. away' \in Times
    BY <1>1, Types, Bounds
  <2> QED  BY <1>1, <1>4, <2>1, <2>2 DEF IInv, TypeOK
<1>6. op = "resume" => AwaySoFar(row, now) <= Window /\ AwaySoFar(row, now) \in Nat
                       /\ (away <= now /\ Balanced(row, engaged) => away <= AwaySoFar(row, now))
  BY <1>2, Types, Bounds DEF Overdue, AwaySoFar, Balanced
<1>7. Measured'
  <2>1. Remembering(w)
    BY <1>2, <1>3, <1>6 DEF Remembering, Computing
  <2>2. \A q \in Procs : Remembering(work'[q])
    BY <1>4, <2>1 DEF IInv, Measured
  <2>3. \A q \in Procs : (Remembering(work[q]))'
    BY <1>1, <2>2 DEF Remembering
  <2>4. away' <= now'
    BY <1>1, Types DEF IInv, Measured
  <2> QED  BY <1>1, <1>2, <2>3, <2>4 DEF Measured
<1>8. InTurn'
  <2> SUFFICES ASSUME ~overlapped' PROVE InTurn'
    BY DEF InTurn
  <2>1. ~overlapped /\ \A q \in Procs : work[q].op = "idle"
    BY <1>1
  <2>2. away' = away
    BY <1>1
  <2>3. Balanced(row, engaged) /\ \A q \in Procs : Accounted(work[q], row, engaged)
    BY <2>1 DEF IInv, InTurn
  <2>4. Accounted(w, row, engaged)
    BY <1>3, <1>6, <2>3 DEF Accounted, Computing, IInv, Measured
  <2>5. \A q \in Procs : Accounted(work'[q], row, engaged)
    BY <1>4, <2>3, <2>4
  <2>6. \A q \in Procs : (Accounted(work[q], row, engaged))'
    BY <1>1, <2>2, <2>5 DEF Accounted
  <2>7. Balanced(row, engaged)'
    BY <1>1, <2>2, <2>3 DEF Balanced
  <2>8. \A q, r \in Procs : work'[q].op # "idle" /\ work'[r].op # "idle" => q = r
    BY <1>4, <2>1
  <2> QED  BY <2>6, <2>7, <2>8 DEF InTurn
<1> QED  BY <1>5, <1>7, <1>8 DEF IInv

\* A request under way writes a row, and goes on or is over.
LEMMA WriteStep ==
  ASSUME IInv, NEW p \in Procs, NEW w \in Work, NEW r \in Row, NEW e \in Nat,
         work[p].op # "idle", work' = [work EXCEPT ![p] = w], row' = r, engaged' = e,
         receipts' \subseteq Ids, UNCHANGED <<now, away, overlapped>>,
         r.connected <= now, r.left <= now, Remembering(w),
         ~overlapped /\ Accounted(work[p], row, engaged) /\ Balanced(row, engaged)
           => Accounted(w, r, e) /\ Balanced(r, e)
  PROVE  IInv'
<1>1. work' \in [Procs -> Work] /\ work'[p] = w /\ \A q \in Procs : q # p => work'[q] = work[q]
  BY Types
<1>2. TypeOK'
  BY <1>1 DEF IInv, TypeOK
<1>3. Measured'
  <2>1. \A q \in Procs : Remembering(work'[q])
    BY <1>1 DEF IInv, Measured
  <2>2. \A q \in Procs : (Remembering(work[q]))'
    BY <2>1 DEF Remembering
  <2> QED  BY <2>2 DEF IInv, Measured
<1>4. InTurn'
  <2> SUFFICES ASSUME ~overlapped' PROVE InTurn'
    BY DEF InTurn
  <2>1. /\ ~overlapped /\ \A q \in Procs : q # p => work[q].op = "idle"
        /\ Accounted(w, r, e) /\ Balanced(r, e)
    BY DEF IInv, InTurn
  <2>2. \A q \in Procs : Accounted(work'[q], r, e)
    BY <1>1, <2>1 DEF Accounted, Computing
  <2>3. \A q \in Procs : (Accounted(work[q], row, engaged))'
    BY <2>2 DEF Accounted
  <2>4. Balanced(row, engaged)'
    BY <2>1 DEF Balanced
  <2>5. \A q, s \in Procs : work'[q].op # "idle" /\ work'[s].op # "idle" => q = s
    BY <1>1, <2>1
  <2> QED  BY <2>3, <2>4, <2>5 DEF InTurn
<1> QED  BY <1>2, <1>3, <1>4 DEF IInv

\* Its contribution is what it has added.
LEMMA ContributeStep ==
  ASSUME IInv, NEW p \in Procs, NEW next \in {"apply", "applyThenEnd"}, NEW id \in Ids,
         NEW accepted \in 0 .. MaxConnected, NEW r \in Row,
         work[p].op \in {"disconnect", "limit", "finalize"},
         Contribute(p, next, id, NewlyEngaged(work[p].saw, accepted)),
         accepted \in {Accepted(work[p].saw, work[p].reported, work[p].at),
                       FinallyAccepted(work[p].saw, work[p].reported, work[p].at)},
         row' = r, UNCHANGED <<engaged, receipts, now, away, overlapped>>,
         r.connected \in {accepted, row.connected}, r.left \in {row.left, work[p].at},
         ~overlapped /\ Accounted(work[p], row, engaged) /\ Balanced(row, engaged)
           => r.connected = accepted /\ Balanced(r, engaged)
  PROVE  IInv'
<1> PICK v \in Work : v = work[p]
  BY Types
<1>1. /\ v.saw \in Row /\ v.at \in Times /\ v.at \in Nat /\ v.at <= now /\ v.saw.connected <= now
      /\ v.saw.connected \in Nat /\ v.reported \in Nat
      /\ row.connected <= now /\ row.left <= now /\ row.connected \in Nat
  BY Parts, Columns, Types DEF IInv, Measured, Remembering
<1> DEFINE delta == NewlyEngaged(v.saw, accepted)
           at    == IF next = "apply" THEN 0 ELSE v.at
           w     == [Idle EXCEPT !.op = next, !.id = id, !.delta = delta, !.at = at]
<1>2. /\ delta \in Times /\ delta = accepted - v.saw.connected /\ v.saw.connected <= accepted
      /\ accepted <= now
  BY <1>1, AcceptedIsReal, Types DEF NewlyEngaged
<1>3. at \in Times /\ at <= now
  BY <1>1, Types, Bounds
<1>4. work' = [work EXCEPT ![p] = w]
  BY DEF Contribute
<1> HIDE DEF delta, at
<1>5. w \in Work /\ w.op = next /\ w.delta = delta /\ w.at = at /\ w.saw = FreshRow
  BY <1>2, <1>3, IdleIsWork DEF Work, Ops
<1> HIDE DEF w
<1>6. Remembering(w)
  BY <1>3, <1>5, FreshIsRow, Types DEF Remembering
<1>7. r.connected <= now /\ r.left <= now
  BY <1>1, <1>2
<1>8. ASSUME ~overlapped, Accounted(v, row, engaged), Balanced(row, engaged)
      PROVE  Accounted(w, r, engaged) /\ Balanced(r, engaged)
  <2>1. v.saw = row /\ r.connected = accepted /\ Balanced(r, engaged) /\ engaged <= row.connected
    BY <1>8 DEF Accounted, Computing, Balanced
  <2>2. engaged + w.delta <= r.connected
    BY <1>1, <1>2, <1>5, <2>1, Types, Bounds
  <2> QED  BY <1>5, <2>1, <2>2 DEF Accounted, Computing
<1>9. work[p].op # "idle" /\ engaged \in Nat /\ receipts' \subseteq Ids
  BY Types
<1> QED  BY <1>4, <1>5, <1>6, <1>7, <1>8, <1>9, WriteStep

LEMMA DisconnectReadStep ==
  ASSUME IInv, NEW p \in Procs, DisconnectRead(p)
  PROVE  IInv'
<1>1. PICK reported \in Reports :
        Arrive(p, IF Accepted(row, reported, now) >= MaxConnected THEN "limit" ELSE "disconnect", reported)
  BY DEF DisconnectRead
<1>2. row.status = "active" /\ reported \in Nat
  BY Bounds DEF DisconnectRead
<1>3. PICK op \in {"limit", "disconnect"} : Arrive(p, op, reported)
  BY <1>1
<1> QED  BY <1>2, <1>3, ArriveStep

LEMMA OtherReadSteps ==
  ASSUME IInv, NEW p \in Procs, ResumeRead(p) \/ MarkRead(p) \/ FinalizeRead(p) \/ SweepRead(p)
  PROVE  IInv'
<1>1. CASE ResumeRead(p)
  <2>1. row.status \in {"disconnected", "resumable"}
        /\ Arrive(p, IF Overdue(row, now) THEN "interrupt" ELSE "resume", 0)
    BY <1>1 DEF ResumeRead
  <2>2. CASE Overdue(row, now)
    BY <2>1, <2>2, ArriveStep
  <2>3. CASE ~Overdue(row, now)
    BY <2>1, <2>3, ArriveStep
  <2> QED  BY <2>2, <2>3
<1>2. CASE MarkRead(p)
  BY <1>2, ArriveStep DEF MarkRead
<1>3. CASE FinalizeRead(p)
  <2>1. PICK reported \in Reports : Arrive(p, "finalize", reported)
    BY <1>3 DEF FinalizeRead
  <2> QED  BY <2>1, Bounds, ArriveStep
<1>4. CASE SweepRead(p)
  BY <1>4, ArriveStep DEF SweepRead
<1> QED  BY <1>1, <1>2, <1>3, <1>4

LEMMA DisconnectCommitStep ==
  ASSUME IInv, NEW p \in Procs, DisconnectCommit(p)
  PROVE  IInv'
<1> PICK v \in Work : v = work[p]
  BY Types
<1> PICK r \in Row : r = row
  BY Types
<1> DEFINE accepted == Accepted(v.saw, v.reported, v.at)
           deadline == Least(v.at + (Window - v.saw.absent), HardExpiry)
           s == [r EXCEPT !.status = "disconnected", !.left = v.at, !.connected = accepted,
                          !.deadline = deadline, !.episodes = r.episodes + 1]
<1>1. /\ v.op = "disconnect" /\ r.episodes < MaxEpisodes /\ row' = s
      /\ Contribute(p, "apply", <<"disconnected", r.episodes + 1>>, NewlyEngaged(v.saw, accepted))
      /\ UNCHANGED <<now, engaged, receipts, away, overlapped>>
  BY DEF DisconnectCommit, Busy, history
<1>2. /\ v.saw \in Row /\ v.at \in Times /\ v.at \in Nat /\ v.reported \in Nat
      /\ v.saw.absent \in Nat /\ v.saw.absent <= Window
      /\ r.episodes \in Nat /\ r.absent \in 0 .. Window /\ v.at <= now /\ now \in Nat
  BY Parts, Columns, Types DEF IInv, Measured, Remembering
<1>3. accepted \in 0 .. MaxConnected /\ accepted \in {accepted, FinallyAccepted(v.saw, v.reported, v.at)}
  BY <1>2, AcceptedIsReal
<1>4. deadline \in Nat
  BY <1>2, Bounds DEF Least
<1>5. r.episodes + 1 \in 1 .. MaxEpisodes /\ r.episodes + 1 \in 0 .. MaxEpisodes
  BY <1>1, <1>2, Bounds
<1>6. <<"disconnected", r.episodes + 1>> \in Ids
  BY <1>5 DEF Ids
<1> HIDE DEF deadline
<1>7. /\ s \in Row /\ s.status = "disconnected" /\ s.left = v.at /\ s.connected = accepted
      /\ s.absent = r.absent
  BY <1>2, <1>3, <1>4, <1>5 DEF Row, Statuses, Open
<1> HIDE DEF s
<1>8. ASSUME Accounted(v, row, engaged), Balanced(row, engaged)
      PROVE  Balanced(s, engaged)
  <2>1. v.saw = r /\ r.status = "active" /\ away <= r.absent /\ engaged <= r.connected
    BY <1>1, <1>8 DEF Accounted, Balanced, Computing
  <2>2. r.connected <= accepted /\ r.connected \in Nat
    BY <1>2, <2>1, AcceptedIsReal, Columns
  <2>3. accepted \in Nat
    BY <1>3, Bounds
  <2>4. engaged <= s.connected
    BY <1>7, <2>1, <2>2, <2>3, Types
  <2>5. away <= s.absent + (now - s.left)
    BY <1>2, <1>7, <2>1, Types, Bounds, Columns
  <2> QED  BY <1>7, <2>4, <2>5 DEF Balanced
<1> HIDE DEF accepted
<1>9. /\ row' = s /\ s.connected \in {accepted, row.connected} /\ s.left \in {row.left, work[p].at}
      /\ work[p].op \in {"disconnect", "limit", "finalize"}
      /\ Contribute(p, "apply", <<"disconnected", r.episodes + 1>>, NewlyEngaged(work[p].saw, accepted))
      /\ accepted \in {Accepted(work[p].saw, work[p].reported, work[p].at),
                       FinallyAccepted(work[p].saw, work[p].reported, work[p].at)}
      /\ ~overlapped /\ Accounted(work[p], row, engaged) /\ Balanced(row, engaged)
           => s.connected = accepted /\ Balanced(s, engaged)
  BY <1>1, <1>7, <1>8 DEF accepted
<1> QED  BY <1>1, <1>3, <1>6, <1>7, <1>9, ContributeStep

LEMMA LimitCommitStep ==
  ASSUME IInv, NEW p \in Procs, LimitCommit(p)
  PROVE  IInv'
<1> PICK v \in Work : v = work[p]
  BY Types
<1> PICK r \in Row : r = row
  BY Types
<1> DEFINE accepted == Accepted(v.saw, v.reported, v.at)
           s == [r EXCEPT !.connected = accepted]
<1>1. /\ v.op = "limit" /\ row' = s
      /\ Contribute(p, "applyThenEnd", <<"limit", 0>>, NewlyEngaged(v.saw, accepted))
      /\ UNCHANGED <<now, engaged, receipts, away, overlapped>>
  BY DEF LimitCommit, Busy, history
<1>2. v.saw \in Row /\ v.at \in Times /\ v.reported \in Nat
  BY Parts
<1>3. accepted \in 0 .. MaxConnected
  BY <1>2, AcceptedIsReal
<1>4. <<"limit", 0>> \in Ids
  BY DEF Ids
<1>5. /\ s \in Row /\ s.status = r.status /\ s.left = r.left /\ s.connected = accepted
      /\ s.absent = r.absent
  BY <1>3 DEF Row
<1> HIDE DEF s
<1>6. ASSUME Accounted(v, row, engaged), Balanced(row, engaged)
      PROVE  Balanced(s, engaged)
  <2>1. v.saw = r /\ engaged <= r.connected
    BY <1>1, <1>6 DEF Accounted, Balanced, Computing
  <2>2. r.connected <= accepted /\ r.connected \in Nat
    BY <1>2, <2>1, AcceptedIsReal, Columns
  <2>3. accepted \in Nat
    BY <1>3, Bounds
  <2>4. engaged <= s.connected
    BY <1>5, <2>1, <2>2, <2>3, Types
  <2> QED  BY <1>5, <1>6, <2>4 DEF Balanced
<1> HIDE DEF accepted
<1>7. /\ row' = s /\ s.connected \in {accepted, row.connected} /\ s.left \in {row.left, work[p].at}
      /\ work[p].op \in {"disconnect", "limit", "finalize"}
      /\ Contribute(p, "applyThenEnd", <<"limit", 0>>, NewlyEngaged(work[p].saw, accepted))
      /\ accepted \in {Accepted(work[p].saw, work[p].reported, work[p].at),
                       FinallyAccepted(work[p].saw, work[p].reported, work[p].at)}
      /\ ~overlapped /\ Accounted(work[p], row, engaged) /\ Balanced(row, engaged)
           => s.connected = accepted /\ Balanced(s, engaged)
  BY <1>1, <1>5, <1>6 DEF accepted
<1> QED  BY <1>1, <1>3, <1>4, <1>5, <1>7, ContributeStep

LEMMA FinalizeCommitStep ==
  ASSUME IInv, NEW p \in Procs, FinalizeCommit(p)
  PROVE  IInv'
<1> PICK v \in Work : v = work[p]
  BY Types
<1> PICK r \in Row : r = row
  BY Types
<1> DEFINE accepted == FinallyAccepted(v.saw, v.reported, v.at)
           closed   == [r EXCEPT !.status = "completed", !.connected = accepted]
           s        == IF r.status \in Open THEN closed ELSE r
<1>1. /\ v.op = "finalize" /\ row' = s
      /\ Contribute(p, "apply", <<"end", 0>>, NewlyEngaged(v.saw, accepted))
      /\ UNCHANGED <<now, engaged, receipts, away, overlapped>>
  BY DEF FinalizeCommit, Busy, history
<1>2. v.saw \in Row /\ v.at \in Times /\ v.reported \in Nat
  BY Parts
<1>3. accepted \in 0 .. MaxConnected
  BY <1>2, AcceptedIsReal
<1>4. <<"end", 0>> \in Ids
  BY DEF Ids
<1>5. /\ closed \in Row /\ closed.status = "completed" /\ closed.left = r.left
      /\ closed.connected = accepted /\ closed.absent = r.absent
  BY <1>3 DEF Row, Statuses
<1> HIDE DEF closed
<1>6. s \in Row /\ s.left = r.left /\ s.connected \in {accepted, r.connected}
  BY <1>5
<1>7. ASSUME Accounted(v, row, engaged), Balanced(row, engaged)
      PROVE  s.connected = accepted /\ Balanced(s, engaged)
  <2>1. v.saw = r /\ engaged <= r.connected
    BY <1>1, <1>7 DEF Accounted, Balanced, Computing
  <2>2. r.connected <= accepted /\ r.connected \in Nat
    BY <1>2, <2>1, AcceptedIsReal, Columns
  <2>3. accepted \in Nat
    BY <1>3, Bounds
  <2>4. CASE r.status \in Open
    BY <1>5, <2>1, <2>2, <2>3, <2>4, Types DEF Balanced
  <2>5. CASE r.status \notin Open
    <3>1. r.status # "active" /\ s = r
      BY <2>5 DEF Open
    <3>2. accepted = r.connected
      BY <2>1, <3>1 DEF FinallyAccepted
    <3> QED  BY <1>7, <3>1, <3>2
  <2> QED  BY <2>4, <2>5
<1> HIDE DEF accepted, s
<1>8. /\ row' = s /\ s.connected \in {accepted, row.connected} /\ s.left \in {row.left, work[p].at}
      /\ work[p].op \in {"disconnect", "limit", "finalize"}
      /\ Contribute(p, "apply", <<"end", 0>>, NewlyEngaged(work[p].saw, accepted))
      /\ accepted \in {Accepted(work[p].saw, work[p].reported, work[p].at),
                       FinallyAccepted(work[p].saw, work[p].reported, work[p].at)}
      /\ ~overlapped /\ Accounted(work[p], row, engaged) /\ Balanced(row, engaged)
           => s.connected = accepted /\ Balanced(s, engaged)
  BY <1>1, <1>6, <1>7 DEF accepted
<1> QED  BY <1>1, <1>3, <1>4, <1>6, <1>8, ContributeStep

\* The contribution is applied at most once, and fits in what the row counts.
LEMMA ApplyStep ==
  ASSUME IInv, NEW p \in Procs, Apply(p)
  PROVE  IInv'
<1> PICK v \in Work : v = work[p]
  BY Types
<1> DEFINE e == IF v.id \in receipts THEN engaged ELSE engaged + v.delta
           ends == [Idle EXCEPT !.op = "endByLimit", !.at = v.at]
           n    == IF v.op = "apply" THEN Idle ELSE ends
<1>1. /\ v.op \in {"apply", "applyThenEnd"} /\ engaged' = e /\ receipts' = receipts \cup {v.id}
      /\ UNCHANGED <<now, row, away, overlapped>> /\ work' = [work EXCEPT ![p] = n]
  BY DEF Apply, Done, history
<1>2. /\ v.delta \in Nat /\ v.id \in Ids /\ v.at \in Times /\ v.at <= now
      /\ row.connected <= now /\ row.left <= now
  BY Parts, Types DEF IInv, Measured, Remembering
<1>3. e \in Nat /\ (e = engaged \/ e = engaged + v.delta)
  BY <1>2, Types
<1>4. n \in Work /\ n.op \in {"idle", "endByLimit"} /\ n.at <= now /\ n.saw = FreshRow
  <2>1. ends \in Work /\ ends.op = "endByLimit" /\ ends.at = v.at /\ ends.saw = FreshRow
    BY <1>2, IdleIsWork DEF Work, Ops
  <2> HIDE DEF ends
  <2> QED  BY <1>2, <2>1, IdleIsWork, Types
<1> HIDE DEF e, n
<1>5. Remembering(n)
  BY <1>4, FreshIsRow, Types DEF Remembering
<1>6. ASSUME Accounted(v, row, engaged), Balanced(row, engaged)
      PROVE  Accounted(n, row, e) /\ Balanced(row, e)
  <2>1. engaged + v.delta <= row.connected /\ engaged <= row.connected
    BY <1>1, <1>6 DEF Accounted, Balanced
  <2>2. e <= row.connected
    BY <1>3, <2>1
  <2> QED  BY <1>4, <1>6, <2>2 DEF Accounted, Balanced, Computing
<1>7. v.op # "idle" /\ receipts' \subseteq Ids /\ row \in Row /\ row' = row
  BY <1>1, <1>2, Types
<1> QED  BY <1>1, <1>2, <1>3, <1>4, <1>5, <1>6, <1>7, WriteStep

\* A request is over, and the row is in balance as it was.
LEMMA OverStep ==
  ASSUME IInv, NEW p \in Procs, NEW r \in Row, work[p].op # "idle", work' = [work EXCEPT ![p] = Idle],
         row' = r, UNCHANGED <<now, engaged, receipts, away, overlapped>>,
         r.connected = row.connected, r.left = row.left,
         ~overlapped /\ Accounted(work[p], row, engaged) /\ Balanced(row, engaged) => Balanced(r, engaged)
  PROVE  IInv'
<1>1. r.connected <= now /\ r.left <= now /\ receipts' \subseteq Ids /\ engaged \in Nat
  BY Types DEF IInv, Measured
<1>2. Remembering(Idle)
  BY IdleIsWork, FreshIsRow, Types DEF Remembering
<1>3. Accounted(Idle, r, engaged)
  BY IdleIsWork DEF Accounted, Computing
<1> QED  BY <1>1, <1>2, <1>3, IdleIsWork, WriteStep

LEMMA ResumeCommitStep ==
  ASSUME IInv, NEW p \in Procs, ResumeCommit(p)
  PROVE  IInv'
<1> PICK v \in Work : v = work[p]
  BY Types
<1> PICK r \in Row : r = row
  BY Types
<1> DEFINE absent == AwaySoFar(v.saw, v.at)
           s == [r EXCEPT !.status = "active", !.absent = absent]
<1>1. /\ v.op = "resume" /\ row' = s /\ work' = [work EXCEPT ![p] = Idle]
      /\ UNCHANGED <<now, engaged, receipts, away, overlapped>>
  BY DEF ResumeCommit, Busy, Done, history
<1>2. /\ v.saw.left <= v.at /\ absent <= Window /\ v.at \in Nat /\ v.saw \in Row
      /\ v.saw.left \in Nat /\ v.saw.absent \in Nat
  BY <1>1, Parts, Columns DEF IInv, Measured, Remembering
<1>3. absent \in 0 .. Window
  BY <1>2, Bounds DEF AwaySoFar
<1> HIDE DEF absent
<1>4. /\ s \in Row /\ s.status = "active" /\ s.absent = absent /\ s.left = r.left
      /\ s.connected = r.connected
  BY <1>3 DEF Row, Statuses, Open
<1> HIDE DEF s
<1>5. ASSUME Accounted(v, row, engaged), Balanced(row, engaged)
      PROVE  Balanced(s, engaged)
  <2>1. away <= absent
    BY <1>1, <1>5 DEF Accounted, absent
  <2> QED  BY <1>4, <1>5, <2>1 DEF Balanced
<1> QED  BY <1>1, <1>4, <1>5, OverStep

LEMMA InterruptCommitStep ==
  ASSUME IInv, NEW p \in Procs, InterruptCommit(p)
  PROVE  IInv'
<1> PICK r \in Row : r = row
  BY Types
<1> DEFINE s == [r EXCEPT !.status = "interrupted"]
<1>1. /\ work[p].op = "interrupt" /\ row' = s /\ work' = [work EXCEPT ![p] = Idle]
      /\ UNCHANGED <<now, engaged, receipts, away, overlapped>>
  BY DEF InterruptCommit, Busy, Done, history
<1>2. s \in Row /\ s.status = "interrupted" /\ s.left = r.left /\ s.connected = r.connected
  BY DEF Row, Statuses
<1> HIDE DEF s
<1>3. Balanced(row, engaged) => Balanced(s, engaged)
  BY <1>2 DEF Balanced
<1> QED  BY <1>1, <1>2, <1>3, OverStep

LEMMA MarkCommitStep ==
  ASSUME IInv, NEW p \in Procs, MarkCommit(p)
  PROVE  IInv'
<1> PICK r \in Row : r = row
  BY Types
<1> DEFINE marked == [r EXCEPT !.status = "resumable"]
           s == IF r.status = "active" THEN marked ELSE r
<1>1. /\ work[p].op = "mark" /\ row' = s /\ work' = [work EXCEPT ![p] = Idle]
      /\ UNCHANGED <<now, engaged, receipts, away, overlapped>>
  BY DEF MarkCommit, Busy, Done, history
<1>2. /\ marked \in Row /\ marked.status = "resumable" /\ marked.left = r.left
      /\ marked.connected = r.connected /\ marked.absent = r.absent
  BY DEF Row, Statuses, Open
<1> HIDE DEF marked
<1>3. s \in Row /\ s.left = r.left /\ s.connected = r.connected
  BY <1>2
<1>4. Balanced(row, engaged) => Balanced(s, engaged)
  BY <1>2 DEF Balanced
<1> HIDE DEF s
<1> QED  BY <1>1, <1>3, <1>4, OverStep

LEMMA SweepCommitStep ==
  ASSUME IInv, NEW p \in Procs, SweepCommit(p)
  PROVE  IInv'
<1> PICK r \in Row : r = row
  BY Types
<1> DEFINE n == r.episodes + (IF work[p].saw.status = "active" THEN 1 ELSE 0)
           swept == [r EXCEPT !.status = "interrupted", !.episodes = n]
           s == IF r.status \in Open THEN swept ELSE r
<1>1. /\ work[p].op = "sweep" /\ row' = s /\ work' = [work EXCEPT ![p] = Idle]
      /\ r.episodes < MaxEpisodes
      /\ UNCHANGED <<now, engaged, receipts, away, overlapped>>
  BY DEF SweepCommit, Busy, Done, history
<1>2. n \in 0 .. MaxEpisodes
  <2>1. r.episodes \in Nat
    BY Columns
  <2> QED  BY <1>1, <2>1, Bounds
<1> HIDE DEF n
<1>3. swept \in Row /\ swept.status = "interrupted" /\ swept.left = r.left /\ swept.connected = r.connected
  BY <1>2 DEF Row, Statuses
<1> HIDE DEF swept
<1>4. s \in Row /\ s.left = r.left /\ s.connected = r.connected
  BY <1>3
<1>5. Balanced(row, engaged) => Balanced(s, engaged)
  BY <1>3 DEF Balanced
<1> HIDE DEF s
<1> QED  BY <1>1, <1>4, <1>5, OverStep

LEMMA AbandonStep ==
  ASSUME IInv, NEW p \in Procs, Abandon(p)
  PROVE  IInv'
  BY OverStep, Types DEF Abandon, Busy, Done, history

\* finalizeSessionAutomatically goes on with what it reads, or finds the session ended.
LEMMA EndByLimitStep ==
  ASSUME IInv, NEW p \in Procs, EndByLimitRead(p)
  PROVE  IInv'
<1> PICK v \in Work : v = work[p]
  BY Types
<1>1. v.op = "endByLimit" /\ UNCHANGED <<now, row, engaged, receipts, away, overlapped>>
  BY DEF EndByLimitRead, Busy, history
<1>2. CASE row.status \notin Open
  BY <1>1, <1>2, OverStep, Types DEF EndByLimitRead, Done
<1>3. CASE row.status \in Open
  <2> PICK c \in Nat : c = row.connected
    BY Types, Columns
  <2> DEFINE w == [v EXCEPT !.op = "finalize", !.saw = row, !.reported = c]
  <2>1. work' = [work EXCEPT ![p] = w]
    BY <1>3 DEF EndByLimitRead
  <2>2. w \in Work /\ w.op = "finalize" /\ w.saw = row /\ w.at = v.at
    BY Types DEF Work, Ops
  <2> HIDE DEF w
  <2>3. v.at <= now /\ row.connected <= now /\ row.left <= now
    BY DEF IInv, Measured, Remembering
  <2>4. Remembering(w)
    BY <2>2, <2>3 DEF Remembering
  <2>5. Accounted(w, row, engaged)
    BY <2>2 DEF Accounted, Computing
  <2>6. v.op # "idle" /\ engaged \in Nat /\ row \in Row /\ receipts' \subseteq Ids
    BY <1>1, Types
  <2> QED  BY <1>1, <2>1, <2>2, <2>3, <2>4, <2>5, <2>6, WriteStep
<1> QED  BY <1>2, <1>3

LEMMA TickStep == IInv /\ Tick => IInv'
<1> SUFFICES ASSUME IInv, Tick PROVE IInv'
  OBVIOUS
<1>1. /\ now < MaxTime /\ now' = now + 1
      /\ UNCHANGED <<row, engaged, receipts, overlapped, work>>
      /\ away' = IF row.status = "disconnected" /\ ~overlapped /\ \A p \in Procs : work[p].op = "idle"
                 THEN away + 1 ELSE away
  BY DEF Tick, Busy
<1>2. /\ now \in Nat /\ away \in Nat /\ away <= now /\ row.left <= now /\ row.connected <= now
      /\ row.left \in Nat /\ row.connected \in Nat /\ row.absent \in Nat
  BY Types, Columns DEF IInv, Measured
<1>3. now' \in Times /\ now' \in Nat /\ away' \in Times /\ away' <= now'
  <2>1. away' \in {away, away + 1}
    BY <1>1
  <2> QED  BY <1>1, <1>2, <2>1, Bounds DEF Times
<1>4. TypeOK'
  BY <1>1, <1>3 DEF IInv, TypeOK
<1>5. Measured'
  <2>1. ASSUME NEW p \in Procs PROVE (Remembering(work[p]))'
    <3>1. work[p] \in Work /\ Remembering(work[p])
      BY Types DEF IInv, Measured
    <3>2. work[p].at \in Nat /\ work[p].saw.connected \in Nat
      BY <3>1, Parts, Columns
    <3> QED  BY <1>1, <1>2, <3>1, <3>2 DEF Remembering
  <2> QED  BY <1>1, <1>2, <1>3, <2>1 DEF Measured
<1>6. InTurn'
  <2> SUFFICES ASSUME ~overlapped' PROVE InTurn'
    BY DEF InTurn
  <2>1. /\ \A p, q \in Procs : work[p].op # "idle" /\ work[q].op # "idle" => p = q
        /\ \A p \in Procs : Accounted(work[p], row, engaged)
        /\ Balanced(row, engaged)
    BY <1>1 DEF IInv, InTurn
  <2>2. CASE row.status = "disconnected" /\ \A p \in Procs : work[p].op = "idle"
    <3>1. away' = away + 1 \/ away' = away
      BY <1>1
    <3>2. away' <= row.absent + (now' - row.left)
      BY <1>1, <1>2, <2>1, <2>2, <3>1 DEF Balanced
    <3>3. Balanced(row, engaged)'
      BY <1>1, <2>1, <2>2, <3>2 DEF Balanced
    <3>4. \A p \in Procs : (Accounted(work[p], row, engaged))'
      BY <1>1, <2>2 DEF Accounted, Computing
    <3> QED  BY <1>1, <2>1, <3>3, <3>4 DEF InTurn
  <2>3. CASE ~(row.status = "disconnected" /\ \A p \in Procs : work[p].op = "idle")
    <3>1. away' = away
      BY <1>1, <2>3
    <3>2. \A p \in Procs : (Accounted(work[p], row, engaged))'
      BY <1>1, <2>1, <3>1 DEF Accounted
    <3>3. Balanced(row, engaged)'
      BY <1>1, <1>2, <2>1, <3>1 DEF Balanced
    <3> QED  BY <1>1, <2>1, <3>2, <3>3 DEF InTurn
  <2> QED  BY <2>2, <2>3
<1> QED  BY <1>4, <1>5, <1>6 DEF IInv

\* Whether requests have overlapped may only come to be so.
LEMMA SameVars ==
  ASSUME IInv, overlapped' \in BOOLEAN, overlapped => overlapped',
         UNCHANGED <<now, row, engaged, receipts, away, work>>
  PROVE  IInv'
<1>1. TypeOK'
  BY DEF IInv, TypeOK
<1>2. Measured'
  <2>1. \A p \in Procs : (Remembering(work[p]))'
    BY DEF IInv, Measured, Remembering
  <2> QED  BY <2>1 DEF IInv, Measured
<1>3. InTurn'
  <2> SUFFICES ASSUME ~overlapped' PROVE InTurn'
    BY DEF InTurn
  <2>1. \A p \in Procs : (Accounted(work[p], row, engaged))'
    BY DEF IInv, InTurn, Accounted
  <2>2. Balanced(row, engaged)'
    BY DEF IInv, InTurn, Balanced
  <2> QED  BY <2>1, <2>2 DEF IInv, InTurn
<1> QED  BY <1>1, <1>2, <1>3 DEF IInv

LEMMA NextHolds == IInv /\ [Next]_vars => IInv'
<1> SUFFICES ASSUME IInv, [Next]_vars PROVE IInv'
  OBVIOUS
<1>1. CASE UNCHANGED vars
  BY <1>1, SameVars, Types DEF vars, history
<1>2. ASSUME NEW p \in Procs, Handler(p)
      PROVE  IInv'
  BY <1>2, DisconnectReadStep, OtherReadSteps, DisconnectCommitStep, LimitCommitStep, ApplyStep,
     ResumeCommitStep, InterruptCommitStep, MarkCommitStep, EndByLimitStep, FinalizeCommitStep,
     SweepCommitStep DEF Handler
<1>3. ASSUME NEW p \in Procs, Abandon(p)
      PROVE  IInv'
  BY <1>3, AbandonStep
<1>4. CASE Tick
  BY <1>4, TickStep
<1> QED  BY <1>1, <1>2, <1>3, <1>4 DEF Next

LEMMA IInvSuffices == IInv => TypeOK /\ CountedTimeIsReal
<1> SUFFICES ASSUME IInv PROVE CountedTimeIsReal
  BY DEF IInv
<1>1. row.absent <= Window
  BY Types, Columns
<1> QED  BY <1>1 DEF IInv, Measured, InTurn, Balanced, CountedTimeIsReal

(* Whatever the order of disconnects, resumes, endings and lost contributions, a      *)
(* session's row never counts more connected time than has passed; and where requests *)
(* follow each other, analytics receives no more engaged time than the row counts,    *)
(* and a learner who is learning was away for no longer than the row says, at most    *)
(* the window (learner-session/service.ts), for every window, limit and report.       *)
THEOREM TimeStaysReal == Spec => []CountedTimeIsReal
<1>1. Init => IInv
  BY InitHolds
<1>2. IInv /\ [Next]_vars => IInv'
  BY NextHolds
<1>3. IInv => CountedTimeIsReal
  BY IInvSuffices
<1> QED  BY <1>1, <1>2, <1>3, PTL DEF Spec

-----------------------------------------------------------------------------
(* The replacement credits. *)

\* The instance counts as the library does.
LEMMA CreditCounts ==
  ASSUME NEW S
  PROVE  Credit!Cardinality(S) = Cardinality(S)
  BY DEF Credit!Cardinality, Cardinality

One(S, U) == \E x \in U : S = {x}

\* What each kind of request is about.
Shape(w) ==
  /\ w.op = "claim" => One(w.past, Past) /\ One(w.credit, Credits) /\ One(w.key, Keys)
  /\ w.op \in {"start", "confirm", "consume"} => One(w.credit, Credits)
  /\ w.op \notin {"idle", "claim"} => One(w.rows, Sessions)
Shaped == Credit!TypeOK /\ \A p \in Procs : Shape(claims[p])

\* A session is funded by one credit, a source has one, and a key was answered a credit.
Funding(s) == One(funds[s], Credits) /\ \A c \in funds[s] : credit[c] # "none"
Founded ==
  /\ \A s \in Sessions : session[s] # "none" => Funding(s)
  /\ \A c \in Credits : credit[c] = "none" => holder[c] = {}
  /\ \A c, d \in Credits : source[c] = source[d] /\ source[c] # {} => c = d
  /\ \A k \in Keys : \A c \in receipt[k] : source[c] # {}
  /\ Credit!CreditFollowsSession

HeldBy(s) == {c \in Credits : credit[c] = "reserved" /\ holder[c] = {s}}

\* What a request remembers still bounds what it writes: all that a session has reserved by now,
\* it had when its row was read.
Remembers(w) ==
  /\ w.op = "claim" => IF w.new THEN \A c \in w.credit : credit[c] = "none"
                                ELSE \A c \in w.credit : source[c] = w.past
  /\ w.op = "start" =>
       /\ \A s \in w.rows : session[s] = "none"
       /\ \A c \in w.credit : credit[c] # "none"
       /\ \A s \in w.prior : session[s] # "none" /\ HeldBy(s) \subseteq w.restores
  /\ w.op \notin {"idle", "claim", "start"} => \A s \in w.rows : session[s] # "none"
  /\ w.op \in {"confirm", "consume"} => \A s \in w.rows : funds[s] = w.credit
  /\ w.op \in {"cancel", "releaseCredit"} => \A s \in w.rows : HeldBy(s) \subseteq w.restores
  /\ w.op = "releaseRow" => \A s \in w.rows : HeldBy(s) = {}
  /\ \A c \in w.restores : credit[c] # "none"
\* Rows and credits to be inserted are apart.
Apart(v, w) ==
  /\ v.op = "start" /\ w.op = "start" => v.rows \cap w.rows = {}
  /\ v.op = "claim" /\ w.op = "claim" /\ v.new /\ w.new => v.credit \cap w.credit = {}
Remembered ==
  /\ \A p \in Procs : Remembers(claims[p])
  /\ \A p, q \in Procs : p # q => Apart(claims[p], claims[q])

\* Of requests that follow each other, none is about to reserve, restore or consume a spent credit.
Unspent(w) ==
  /\ w.op \in {"start", "consume"} => \A c \in w.credit : credit[c] # "consumed"
  /\ w.op \in {"start", "cancel", "releaseCredit"} => \A c \in w.restores : credit[c] # "consumed"
LaunchedOnce == \A c \in Credits :
  /\ Credit!Launched(c) # {} => credit[c] = "consumed"
  /\ \A s, t \in Credit!Launched(c) : s = t
CreditInTurn ==
  ~overlapped => /\ \A p, q \in Procs : claims[p].op # "idle" /\ claims[q].op # "idle" => p = q
                 /\ \A p \in Procs : Unspent(claims[p])
                 /\ LaunchedOnce

CreditInv == Shaped /\ Founded /\ Remembered /\ CreditInTurn

LEMMA CreditIdleIsWork ==
  /\ Credit!Idle \in Credit!Work /\ Credit!Idle.op = "idle"
  /\ Shape(Credit!Idle) /\ Credit!Idle.restores = {}
  BY DEF Credit!Idle, Credit!Work, Credit!Ops, Shape

LEMMA CreditInitHolds == Credit!Init => CreditInv
<1> SUFFICES ASSUME Credit!Init PROVE CreditInv
  OBVIOUS
<1>1. claims \in [Procs -> Credit!Work] /\ \A p \in Procs : claims[p] = Credit!Idle
  BY CreditIdleIsWork DEF Credit!Init
<1>2. Shaped
  BY <1>1, CreditIdleIsWork DEF Credit!Init, Shaped, Credit!TypeOK
<1>3. Founded
  BY DEF Credit!Init, Founded, Credit!CreditFollowsSession
<1>4. Remembered
  BY <1>1, CreditIdleIsWork DEF Remembered, Remembers, Apart
<1>5. CreditInTurn
  <2>1. LaunchedOnce
    BY DEF Credit!Init, LaunchedOnce, Credit!Launched
  <2> QED  BY <1>1, <2>1, CreditIdleIsWork DEF CreditInTurn, Unspent
<1> QED  BY <1>2, <1>3, <1>4, <1>5 DEF CreditInv

\* Rows and credits stay what they became, and nothing that exists is reserved anew.
Grown ==
  /\ \A c \in Credits : credit[c] # "none" => credit'[c] # "none" /\ source'[c] = source[c]
  /\ \A s \in Sessions : session[s] # "none" =>
       /\ session'[s] # "none" /\ funds'[s] = funds[s]
       /\ \A c \in Credits : credit'[c] = "reserved" /\ holder'[c] = {s}
                               => credit[c] = "reserved" /\ holder[c] = {s}

\* A session's credit exists.
LEMMA Funded ==
  ASSUME CreditInv, NEW s \in Sessions, session[s] # "none"
  PROVE  \E c \in Credits : funds[s] = {c} /\ credit[c] # "none"
  BY DEF CreditInv, Founded, Funding, One

\* ... and goes on to.
LEMMA StayFunded ==
  ASSUME CreditInv, Grown, NEW s \in Sessions, session[s] # "none"
  PROVE  (Funding(s))'
<1>1. PICK c \in Credits : funds[s] = {c} /\ credit[c] # "none"
  BY Funded
<1> QED  BY <1>1 DEF Grown, Funding, One

\* What a request remembers is so after another one's step, unless that inserts its row.
LEMMA StillRemembers ==
  ASSUME CreditInv, Grown, NEW q \in Procs, claims'[q] = claims[q],
         claims[q].op = "start" => \A s \in claims[q].rows : session'[s] = "none",
         claims[q].op = "claim" /\ claims[q].new => \A c \in claims[q].credit : credit'[c] = "none"
  PROVE  (Remembers(claims[q]))'
<1> PICK w \in Credit!Work : w = claims[q]
  BY DEF CreditInv, Shaped, Credit!TypeOK
<1>1. Remembers(w) /\ Shape(w) /\ claims'[q] = w /\ source \in [Credits -> SUBSET Past]
      /\ \A c \in Credits : credit[c] = "none" <=> source[c] = {}
  BY DEF CreditInv, Shaped, Remembered, Credit!TypeOK
<1>2. /\ w.rows \subseteq Sessions /\ w.prior \subseteq Sessions /\ w.credit \subseteq Credits
      /\ w.restores \subseteq Credits /\ w.past \subseteq Past /\ w.new \in BOOLEAN
  BY DEF Credit!Work
<1>3. \A s \in Sessions : session[s] # "none" =>
        {c \in Credits : credit'[c] = "reserved" /\ holder'[c] = {s}} \subseteq HeldBy(s)
  BY DEF Grown, HeldBy
<1>4. w.op = "claim" => IF w.new THEN \A c \in w.credit : credit'[c] = "none"
                                 ELSE \A c \in w.credit : source'[c] = w.past
  <2>1. ASSUME w.op = "claim", ~w.new, NEW c \in w.credit PROVE source'[c] = w.past
    <3>1. source[c] = w.past /\ w.past # {} /\ c \in Credits
      BY <1>1, <1>2, <2>1 DEF Remembers, Shape, One
    <3>2. credit[c] # "none"
      BY <1>1, <3>1
    <3> QED  BY <3>1, <3>2 DEF Grown
  <2> QED  BY <2>1
<1>5. w.op = "start" =>
        /\ \A s \in w.rows : session'[s] = "none"
        /\ \A c \in w.credit : credit'[c] # "none"
        /\ \A s \in w.prior : /\ session'[s] # "none"
                              /\ {c \in Credits : credit'[c] = "reserved" /\ holder'[c] = {s}} \subseteq w.restores
  BY <1>1, <1>2, <1>3 DEF Remembers, Grown
<1>6. w.op \notin {"idle", "claim", "start"} => \A s \in w.rows : session'[s] # "none"
  BY <1>1, <1>2 DEF Remembers, Grown
<1>7. w.op \in {"confirm", "consume"} => \A s \in w.rows : funds'[s] = w.credit
  BY <1>1, <1>2 DEF Remembers, Grown
<1>8. w.op \in {"cancel", "releaseCredit"} => \A s \in w.rows :
        {c \in Credits : credit'[c] = "reserved" /\ holder'[c] = {s}} \subseteq w.restores
  BY <1>1, <1>2, <1>3 DEF Remembers
<1>9. w.op = "releaseRow" => \A s \in w.rows :
        {c \in Credits : credit'[c] = "reserved" /\ holder'[c] = {s}} = {}
  BY <1>1, <1>2, <1>3 DEF Remembers
<1>10. \A c \in w.restores : credit'[c] # "none"
  BY <1>1, <1>2 DEF Remembers, Grown
<1> QED  BY <1>1, <1>4, <1>5, <1>6, <1>7, <1>8, <1>9, <1>10 DEF Remembers, HeldBy

\* A request arrives with what it has read.
LEMMA CreditArriveStep ==
  ASSUME CreditInv, NEW p \in Procs, NEW w \in Credit!Work, Credit!Arrive(p, w), Shape(w), Remembers(w), Unspent(w),
         \A q \in Procs : Apart(w, claims[q]) /\ Apart(claims[q], w)
  PROVE  CreditInv'
<1>1. /\ UNCHANGED <<session, funds, credit, source, holder, receipt, lapsed, claimable, due>>
      /\ claims' = [claims EXCEPT ![p] = w] /\ claims[p].op = "idle"
      /\ overlapped' = (overlapped \/ \E q \in Procs : claims[q].op # "idle")
  BY DEF Credit!Arrive, Credit!Busy, Credit!sessionVars, Credit!creditVars, Credit!envVars
<1>2. claims' \in [Procs -> Credit!Work] /\ claims'[p] = w /\ \A q \in Procs : q # p => claims'[q] = claims[q]
  BY <1>1 DEF CreditInv, Shaped, Credit!TypeOK
<1>3. Shaped'
  <2>1. overlapped' \in BOOLEAN
    BY <1>1
  <2>2. Credit!TypeOK'
    BY <1>1, <1>2, <2>1 DEF CreditInv, Shaped, Credit!TypeOK
  <2>3. \A q \in Procs : Shape(claims'[q])
    BY <1>2 DEF CreditInv, Shaped
  <2>4. \A q \in Procs : (Shape(claims[q]))'
    BY <2>3 DEF Shape
  <2> QED  BY <2>2, <2>4 DEF Shaped
<1>4. Founded'
  BY <1>1 DEF CreditInv, Founded, Funding, Credit!CreditFollowsSession, Credit!Launched
<1>5. Remembered'
  <2>1. \A q \in Procs : Remembers(claims'[q])
    BY <1>2 DEF CreditInv, Remembered
  <2>2. \A q \in Procs : (Remembers(claims[q]))'
    BY <1>1, <2>1 DEF Remembers, HeldBy
  <2>3. \A q, r \in Procs : q # r => Apart(claims'[q], claims'[r])
    BY <1>2 DEF CreditInv, Remembered
  <2>4. \A q, r \in Procs : q # r => (Apart(claims[q], claims[r]))'
    BY <2>3 DEF Apart
  <2> QED  BY <2>2, <2>4 DEF Remembered
<1>6. CreditInTurn'
  <2> SUFFICES ASSUME ~overlapped' PROVE CreditInTurn'
    BY DEF CreditInTurn
  <2>1. ~overlapped /\ \A q \in Procs : claims[q].op = "idle"
    BY <1>1
  <2>2. LaunchedOnce'
    BY <1>1, <2>1 DEF CreditInv, CreditInTurn, LaunchedOnce, Credit!Launched
  <2>3. \A q \in Procs : Unspent(claims'[q])
    BY <1>2, <2>1 DEF CreditInv, CreditInTurn
  <2>4. \A q \in Procs : (Unspent(claims[q]))'
    BY <1>1, <2>3 DEF Unspent
  <2>5. \A q, r \in Procs : claims'[q].op # "idle" /\ claims'[r].op # "idle" => q = r
    BY <1>2, <2>1
  <2> QED  BY <2>2, <2>4, <2>5 DEF CreditInTurn
<1> QED  BY <1>3, <1>4, <1>5, <1>6 DEF CreditInv

\* A request that is under way takes a step, after which nothing is inserted by it.
LEMMA CommitStep ==
  ASSUME CreditInv, NEW p \in Procs, NEW w \in Credit!Work, claims' = [claims EXCEPT ![p] = w],
         Shape(w), w.op \notin {"start", "claim"}, claims[p].op # "idle", overlapped' = overlapped,
         Credit!TypeOK', Founded', Grown, (Remembers(claims[p]))',
         \A q \in Procs \ {p} : claims[q].op = "start" => \A s \in claims[q].rows : session'[s] = "none",
         \A q \in Procs \ {p} :
           claims[q].op = "claim" /\ claims[q].new => \A c \in claims[q].credit : credit'[c] = "none",
         ~overlapped /\ LaunchedOnce /\ Unspent(claims[p]) => LaunchedOnce' /\ (Unspent(claims[p]))'
  PROVE  CreditInv'
<1>1. claims' \in [Procs -> Credit!Work] /\ claims'[p] = w /\ \A q \in Procs : q # p => claims'[q] = claims[q]
  BY DEF CreditInv, Shaped, Credit!TypeOK
<1>2. Shaped'
  <2>1. \A q \in Procs : Shape(claims'[q])
    BY <1>1 DEF CreditInv, Shaped
  <2>2. \A q \in Procs : (Shape(claims[q]))'
    BY <2>1 DEF Shape
  <2> QED  BY <2>2 DEF Shaped
<1>3. Remembered'
  <2>1. \A q \in Procs : (Remembers(claims[q]))'
    <3>1. ASSUME NEW q \in Procs, q # p PROVE (Remembers(claims[q]))'
      BY <1>1, <3>1, StillRemembers
    <3> QED  BY <3>1
  <2>2. \A q, r \in Procs : q # r => Apart(claims'[q], claims'[r])
    <3>1. ASSUME NEW q \in Procs, NEW r \in Procs, q # r PROVE Apart(claims'[q], claims'[r])
      <4>1. CASE q = p \/ r = p
        BY <1>1, <4>1 DEF Apart
      <4>2. CASE q # p /\ r # p
        BY <1>1, <3>1, <4>2 DEF CreditInv, Remembered
      <4> QED  BY <4>1, <4>2
    <3> QED  BY <3>1
  <2>3. \A q, r \in Procs : q # r => (Apart(claims[q], claims[r]))'
    BY <2>2 DEF Apart
  <2> QED  BY <2>1, <2>3 DEF Remembered
<1>4. CreditInTurn'
  <2> SUFFICES ASSUME ~overlapped' PROVE CreditInTurn'
    BY DEF CreditInTurn
  <2>1. /\ ~overlapped /\ \A q \in Procs : q # p => claims[q].op = "idle"
        /\ LaunchedOnce /\ Unspent(claims[p])
    BY DEF CreditInv, CreditInTurn
  <2>2. LaunchedOnce' /\ (Unspent(claims[p]))'
    BY <2>1
  <2>3. ASSUME NEW q \in Procs PROVE (Unspent(claims[q]))'
    <3>1. CASE q = p
      BY <2>2, <3>1
    <3>2. CASE q # p
      BY <1>1, <2>1, <3>2 DEF Unspent
    <3> QED  BY <3>1, <3>2
  <2>4. \A q, r \in Procs : claims'[q].op # "idle" /\ claims'[r].op # "idle" => q = r
    BY <1>1, <2>1
  <2> QED  BY <2>2, <2>3, <2>4 DEF CreditInTurn
<1> QED  BY <1>2, <1>3, <1>4 DEF CreditInv

\* What happens while requests are under way or not.
LEMMA EnvStep ==
  ASSUME CreditInv, claims' = claims, overlapped' \in BOOLEAN, overlapped => overlapped',
         Credit!TypeOK', Founded', Grown,
         \A s \in Sessions : session[s] = "none" => session'[s] = "none",
         \A c \in Credits : credit[c] = "none" => credit'[c] = "none",
         \A c \in Credits : credit[c] # "consumed" => credit'[c] # "consumed",
         LaunchedOnce => LaunchedOnce'
  PROVE  CreditInv'
<1>1. Shaped'
  <2>1. \A q \in Procs : (Shape(claims[q]))'
    BY DEF CreditInv, Shaped, Shape
  <2> QED  BY <2>1 DEF Shaped
<1>2. Remembered'
  <2>1. ASSUME NEW q \in Procs PROVE (Remembers(claims[q]))'
    <3>1. claims[q] \in Credit!Work /\ Remembers(claims[q])
      BY DEF CreditInv, Shaped, Credit!TypeOK, Remembered
    <3>2. claims[q].op = "start" => \A s \in claims[q].rows : session'[s] = "none"
      BY <3>1 DEF Remembers, Credit!Work
    <3>3. claims[q].op = "claim" /\ claims[q].new => \A c \in claims[q].credit : credit'[c] = "none"
      BY <3>1 DEF Remembers, Credit!Work
    <3> QED  BY <3>2, <3>3, StillRemembers
  <2>2. \A q, r \in Procs : q # r => (Apart(claims[q], claims[r]))'
    BY DEF CreditInv, Remembered, Apart
  <2> QED  BY <2>1, <2>2 DEF Remembered
<1>3. CreditInTurn'
  <2> SUFFICES ASSUME ~overlapped' PROVE CreditInTurn'
    BY DEF CreditInTurn
  <2>1. /\ \A p, q \in Procs : claims[p].op # "idle" /\ claims[q].op # "idle" => p = q
        /\ \A p \in Procs : Unspent(claims[p])
        /\ LaunchedOnce
    BY DEF CreditInv, CreditInTurn
  <2>2. ASSUME NEW q \in Procs PROVE (Unspent(claims[q]))'
    <3>1. claims[q] \in Credit!Work /\ Unspent(claims[q])
      BY <2>1 DEF CreditInv, Shaped, Credit!TypeOK
    <3>2. claims[q].credit \subseteq Credits /\ claims[q].restores \subseteq Credits
      BY <3>1 DEF Credit!Work
    <3> QED  BY <3>1, <3>2 DEF Unspent
  <2>3. \A p, q \in Procs : claims'[p].op # "idle" /\ claims'[q].op # "idle" => p = q
    BY <2>1
  <2> QED  BY <2>1, <2>2, <2>3 DEF CreditInTurn
<1> QED  BY <1>1, <1>2, <1>3 DEF CreditInv

\* The types of a row's columns.
LEMMA RowTypes ==
  ASSUME CreditInv
  PROVE  /\ session \in [Sessions -> {"none", "starting", "active", "ended", "cancelled"}]
         /\ funds \in [Sessions -> SUBSET Credits]
         /\ credit \in [Credits -> {"none", "available", "reserved", "consumed", "expired"}]
         /\ source \in [Credits -> SUBSET Past] /\ holder \in [Credits -> SUBSET Sessions]
         /\ receipt \in [Keys -> SUBSET Credits] /\ claims \in [Procs -> Credit!Work] /\ due \subseteq Credits
         /\ \A c \in Credits : /\ credit[c] = "none" <=> source[c] = {}
                               /\ credit[c] = "available" => holder[c] = {}
                               /\ credit[c] = "reserved" => holder[c] # {}
  BY DEF CreditInv, Shaped, Credit!TypeOK

\* All that a session has reserved is what its release would restore.
LEMMA HeldIsRestored ==
  ASSUME CreditInv, NEW s \in Sessions
  PROVE  /\ Credit!Restores(s) = HeldBy(s)
         /\ \A c \in Credit!Restores(s) : c \in Credits /\ credit[c] = "reserved"
<1>1. \A c \in HeldBy(s) : c \in funds[s]
  BY DEF CreditInv, Founded, Credit!CreditFollowsSession, HeldBy
<1>2. funds[s] \subseteq Credits
  BY RowTypes
<1> QED  BY <1>1, <1>2 DEF HeldBy, Credit!Restores

LEMMA ClaimReadStep ==
  ASSUME CreditInv, NEW p \in Procs, NEW k \in Keys, NEW x \in Past, Credit!ClaimRead(p, k, x)
  PROVE  CreditInv'
<1>1. PICK c \in Credits :
        /\ IF Credit!CreditOf(x) # {} THEN c \in Credit!CreditOf(x)
           ELSE credit[c] = "none" /\ \A q \in Procs : c \notin claims[q].credit
        /\ Credit!Arrive(p, [Credit!Idle EXCEPT !.op = "claim", !.key = {k}, !.past = {x},
                                  !.credit = {c}, !.new = (Credit!CreditOf(x) = {})])
  BY DEF Credit!ClaimRead
<1> DEFINE new == Credit!CreditOf(x) = {}
           w == [Credit!Idle EXCEPT !.op = "claim", !.key = {k}, !.past = {x}, !.credit = {c}, !.new = new]
<1>2. Credit!Arrive(p, w)
  BY <1>1
<1>3. new \in BOOLEAN
  OBVIOUS
<1>4. /\ new => credit[c] = "none" /\ \A q \in Procs : c \notin claims[q].credit
      /\ ~new => source[c] = {x}
  BY <1>1 DEF Credit!CreditOf
<1> HIDE DEF new
<1>5. /\ w \in Credit!Work /\ w.op = "claim" /\ w.past = {x} /\ w.credit = {c} /\ w.key = {k}
      /\ w.new = new /\ w.restores = {}
  BY <1>3 DEF Credit!Idle, Credit!Work, Credit!Ops
<1> HIDE DEF w
<1>6. Shape(w)
  BY <1>5 DEF Shape, One
<1>7. Remembers(w) /\ Unspent(w)
  BY <1>4, <1>5 DEF Remembers, Unspent
<1>8. \A q \in Procs : Apart(w, claims[q]) /\ Apart(claims[q], w)
  BY <1>4, <1>5 DEF Apart
<1> QED  BY <1>2, <1>5, <1>6, <1>7, <1>8, CreditArriveStep

LEMMA StartReadStep ==
  ASSUME CreditInv, NEW p \in Procs, NEW s \in Sessions, NEW c \in Credits, Credit!StartRead(p, s, c)
  PROVE  CreditInv'
<1> DEFINE prior    == {r \in Sessions : Credit!Live(r)}
           restores == UNION {Credit!Restores(r) : r \in prior}
           w == [Credit!Idle EXCEPT !.op = "start", !.rows = {s}, !.prior = prior,
                             !.credit = {c}, !.restores = restores]
<1>1. /\ session[s] = "none" /\ \A q \in Procs : s \notin claims[q].rows
      /\ \A r \in prior : session[r] = "starting"
      /\ Credit!Reservable(c, Credit!Restored(restores))
      /\ Credit!Arrive(p, w)
  BY DEF Credit!StartRead
<1>2. prior \subseteq Sessions
  OBVIOUS
<1>3. \A d \in restores : d \in Credits /\ credit[d] = "reserved"
  BY HeldIsRestored
<1>4. \A r \in prior : HeldBy(r) \subseteq restores
  BY HeldIsRestored
<1> HIDE DEF prior, restores
<1>5. credit[c] \in {"available", "reserved"}
  <2>1. Credit!Restored(restores)[c] = "available"
    <3> DEFINE cr == Credit!Restored(restores)
    <3>1. (IF c \in due /\ cr[c] \in {"available", "reserved"} THEN "expired" ELSE cr[c]) = "available"
      BY <1>1 DEF Credit!Reservable, Credit!Expired
    <3> QED  BY <3>1
  <2>2. CASE c \in restores
    BY <1>3, <2>2
  <2>3. CASE c \notin restores
    BY <2>1, <2>3 DEF Credit!Restored
  <2> QED  BY <2>2, <2>3
<1>6. /\ w \in Credit!Work /\ w.op = "start" /\ w.rows = {s} /\ w.prior = prior /\ w.credit = {c}
      /\ w.restores = restores
  BY <1>2, <1>3 DEF Credit!Idle, Credit!Work, Credit!Ops
<1>11. Credit!Arrive(p, w)
  BY <1>1
<1> HIDE DEF w
<1>7. Shape(w)
  BY <1>6 DEF Shape, One
<1>8. Remembers(w)
  BY <1>1, <1>3, <1>4, <1>5, <1>6 DEF Remembers
<1>9. Unspent(w)
  BY <1>3, <1>5, <1>6 DEF Unspent
<1>10. \A q \in Procs : Apart(w, claims[q]) /\ Apart(claims[q], w)
  BY <1>1, <1>6 DEF Apart
<1> QED  BY <1>6, <1>7, <1>8, <1>9, <1>10, <1>11, CreditArriveStep

\* A session is to be confirmed, cancelled or released.
LEMMA SessionReadSteps ==
  ASSUME CreditInv, NEW p \in Procs, NEW s \in Sessions, Credit!ConfirmRead(p, s) \/ Credit!CancelRead(p, s) \/ Credit!SweepRead(p, s)
  PROVE  CreditInv'
<1>1. session[s] # "none" /\ One(funds[s], Credits) /\ funds[s] \subseteq Credits
  <2>1. session[s] = "starting"
    BY DEF Credit!ConfirmRead, Credit!CancelRead, Credit!SweepRead
  <2> QED  BY <2>1, RowTypes DEF CreditInv, Founded, Funding
<1>2. ASSUME NEW w \in Credit!Work, w.op \in {"confirm", "release", "cancel"}, w.rows = {s},
             w.op = "confirm" => w.credit = funds[s],
             w.op = "cancel" => HeldBy(s) \subseteq w.restores,
             \A c \in w.restores : credit[c] = "reserved",
             Credit!Arrive(p, w)
      PROVE  CreditInv'
  <2>1. Shape(w)
    BY <1>1, <1>2 DEF Shape, One
  <2>2. Remembers(w)
    BY <1>1, <1>2 DEF Remembers
  <2>3. Unspent(w)
    BY <1>2 DEF Unspent
  <2>4. \A q \in Procs : Apart(w, claims[q]) /\ Apart(claims[q], w)
    BY <1>2 DEF Apart
  <2> QED  BY <1>2, <2>1, <2>2, <2>3, <2>4, CreditArriveStep
<1>3. CASE Credit!ConfirmRead(p, s)
  <2>1. PICK o \in {"confirm", "release"} :
          Credit!Arrive(p, [Credit!Idle EXCEPT !.op = o, !.rows = {s}, !.credit = funds[s]])
    BY <1>3 DEF Credit!ConfirmRead
  <2> DEFINE w == [Credit!Idle EXCEPT !.op = o, !.rows = {s}, !.credit = funds[s]]
  <2>2. w \in Credit!Work /\ w.op = o /\ w.rows = {s} /\ w.credit = funds[s] /\ w.restores = {}
    BY <1>1 DEF Credit!Idle, Credit!Work, Credit!Ops
  <2>3. Credit!Arrive(p, w)
    BY <2>1
  <2> HIDE DEF w
  <2> QED  BY <1>2, <2>2, <2>3
<1>4. CASE Credit!CancelRead(p, s)
  <2> DEFINE R == Credit!Restores(s)
             w == [Credit!Idle EXCEPT !.op = "cancel", !.rows = {s}, !.restores = R]
  <2>1. Credit!Arrive(p, w)
    BY <1>4 DEF Credit!CancelRead
  <2>2. HeldBy(s) \subseteq R /\ R \in SUBSET Credits /\ \A c \in R : credit[c] = "reserved"
    BY HeldIsRestored
  <2> HIDE DEF R
  <2>3. w \in Credit!Work /\ w.op = "cancel" /\ w.rows = {s} /\ w.restores = R
    BY <2>2 DEF Credit!Idle, Credit!Work, Credit!Ops
  <2> HIDE DEF w
  <2> QED  BY <1>2, <2>1, <2>2, <2>3
<1>5. CASE Credit!SweepRead(p, s)
  <2> DEFINE w == [Credit!Idle EXCEPT !.op = "release", !.rows = {s}]
  <2>1. Credit!Arrive(p, w)
    BY <1>5 DEF Credit!SweepRead
  <2>2. w \in Credit!Work /\ w.op = "release" /\ w.rows = {s} /\ w.restores = {}
    BY DEF Credit!Idle, Credit!Work, Credit!Ops
  <2> HIDE DEF w
  <2> QED  BY <1>2, <2>1, <2>2
<1> QED  BY <1>3, <1>4, <1>5


\* A request is over, and nothing is written.
LEMMA CreditOverStep ==
  ASSUME CreditInv, NEW p \in Procs, claims[p].op # "idle", claims' = [claims EXCEPT ![p] = Credit!Idle],
         UNCHANGED <<session, funds, lapsed, claimable, due, credit, source, holder, receipt, overlapped>>
  PROVE  CreditInv'
<1>1. claims'[p] = Credit!Idle /\ \A q \in Procs : claims'[q] \in Credit!Work
  BY CreditIdleIsWork, RowTypes
<1>2. Credit!TypeOK'
  <2>1. claims' \in [Procs -> Credit!Work]
    BY CreditIdleIsWork, RowTypes
  <2> QED  BY <2>1 DEF CreditInv, Shaped, Credit!TypeOK
<1>3. Founded'
  BY DEF CreditInv, Founded, Funding, Credit!CreditFollowsSession, Credit!Launched
<1>4. Grown
  BY DEF Grown
<1>5. (Remembers(claims[p]))' /\ (Unspent(claims[p]))'
  BY <1>1, CreditIdleIsWork DEF Remembers, Unspent
<1>6. LaunchedOnce => LaunchedOnce'
  BY DEF LaunchedOnce, Credit!Launched
<1>7. ASSUME NEW q \in Procs \ {p}
      PROVE  /\ claims[q].op = "start" => \A s \in claims[q].rows : session'[s] = "none"
             /\ claims[q].op = "claim" /\ claims[q].new => \A c \in claims[q].credit : credit'[c] = "none"
  BY DEF CreditInv, Remembered, Remembers
<1> QED  BY <1>2, <1>3, <1>4, <1>5, <1>6, <1>7, CreditIdleIsWork, CommitStep

LEMMA ClaimCommitStep ==
  ASSUME CreditInv, NEW p \in Procs, Credit!ClaimCommit(p)
  PROVE  CreditInv'
<1> PICK w \in Credit!Work : w = claims[p]
  BY RowTypes
<1>1. /\ w.op = "claim" /\ claims' = [claims EXCEPT ![p] = Credit!Idle]
      /\ UNCHANGED <<session, funds, lapsed, claimable, due, overlapped>>
  BY DEF Credit!ClaimCommit, Credit!Busy, Credit!Done, Credit!sessionVars, Credit!envVars
<1>2. CASE ~(Credit!OneForSource(w) /\ Credit!KeyIsNew(w))
  <2>1. UNCHANGED <<credit, source, holder, receipt>>
    BY <1>2 DEF Credit!ClaimCommit, Credit!creditVars
  <2> QED  BY <1>1, <2>1, CreditOverStep
<1>3. CASE Credit!OneForSource(w) /\ Credit!KeyIsNew(w)
  <2>1. Shape(w) /\ Remembers(w) /\ w.new \in BOOLEAN
    BY DEF CreditInv, Shaped, Remembered, Credit!Work
  <2>2. PICK c \in Credits, x \in Past, k \in Keys : w.credit = {c} /\ w.past = {x} /\ w.key = {k}
    BY <1>1, <2>1 DEF Shape, One
  <2>3. /\ credit' = [d \in Credits |-> IF w.new /\ d \in w.credit THEN "available" ELSE credit[d]]
        /\ source' = [d \in Credits |-> IF d \in w.credit THEN w.past ELSE source[d]]
        /\ receipt' = [j \in Keys |-> IF j \in w.key THEN w.credit ELSE receipt[j]]
        /\ holder' = holder
    BY <1>3 DEF Credit!ClaimCommit
  <2>4. /\ w.new => credit[c] = "none" /\ credit'[c] = "available" /\ source[c] = {} /\ holder[c] = {}
        /\ w.new => \A d \in Credits : source[d] # {x}
        /\ ~w.new => source[c] = {x} /\ credit'[c] = credit[c] /\ credit[c] # "none"
    <3>1. w.new => credit[c] = "none" /\ \A d \in Credits : source[d] # {x}
      BY <1>1, <1>3, <2>1, <2>2 DEF Remembers, Credit!OneForSource, Credit!CreditOf
    <3>2. ~w.new => source[c] = {x}
      BY <1>1, <2>1, <2>2 DEF Remembers
    <3> QED  BY <2>2, <2>3, <3>1, <3>2, RowTypes DEF CreditInv, Founded
  <2>5. /\ source'[c] = {x}
        /\ \A d \in Credits \ {c} : credit'[d] = credit[d] /\ source'[d] = source[d]
    BY <2>2, <2>3
  <2>6. /\ credit' \in [Credits -> {"none", "available", "reserved", "consumed", "expired"}]
        /\ source' \in [Credits -> SUBSET Past] /\ receipt' \in [Keys -> SUBSET Credits]
        /\ claims' \in [Procs -> Credit!Work] /\ claims'[p] = Credit!Idle
    BY <1>1, <2>2, <2>3, CreditIdleIsWork, RowTypes
  <2>7. Credit!TypeOK'
    <3>1. ASSUME NEW d \in Credits
          PROVE  /\ credit'[d] = "none" <=> source'[d] = {}
                 /\ credit'[d] = "available" => holder'[d] = {}
                 /\ credit'[d] = "reserved" => holder'[d] # {}
      <4>1. CASE d = c
        BY <2>1, <2>3, <2>4, <2>5, <4>1, RowTypes
      <4>2. CASE d # c
        BY <2>3, <2>5, <4>2, RowTypes
      <4> QED  BY <4>1, <4>2
    <3> QED  BY <1>1, <2>3, <2>6, <3>1 DEF CreditInv, Shaped, Credit!TypeOK
  <2>8. Grown
    BY <1>1, <2>1, <2>3, <2>4, <2>5 DEF Grown
  <2>9. Founded'
    <3>1. \A s \in Sessions : session'[s] # "none" => (Funding(s))'
      BY <1>1, <2>8, StayFunded
    <3>2. \A d \in Credits : credit'[d] = "none" => holder'[d] = {}
      BY <2>1, <2>3, <2>4, <2>5 DEF CreditInv, Founded
    <3>3. ASSUME NEW d \in Credits, NEW e \in Credits, source'[d] = source'[e], source'[d] # {}
          PROVE  d = e
      <4>1. \A b \in Credits : b # c => source'[b] = source[b]
        BY <2>5
      <4>2. \A b \in Credits : source[b] = {x} => b = c /\ ~w.new
        BY <2>1, <2>4 DEF CreditInv, Founded
      <4>3. CASE d = c \/ e = c
        BY <2>5, <3>3, <4>1, <4>2, <4>3
      <4>4. CASE d # c /\ e # c
        BY <3>3, <4>1, <4>4 DEF CreditInv, Founded
      <4> QED  BY <4>3, <4>4
    <3>4. ASSUME NEW j \in Keys, NEW d \in receipt'[j] PROVE source'[d] # {}
      <4>1. receipt'[j] = (IF j = k THEN {c} ELSE receipt[j])
        BY <2>2, <2>3
      <4>2. CASE d = c
        BY <2>5, <4>2
      <4>3. CASE d # c
        <5>1. d \in receipt[j] /\ d \in Credits
          BY <3>4, <4>1, <4>3, RowTypes
        <5> QED  BY <2>5, <4>3, <5>1 DEF CreditInv, Founded
      <4> QED  BY <4>2, <4>3
    <3>5. \A d \in Credits : credit'[d] \in {"reserved", "consumed"} => credit[d] = credit'[d]
      BY <2>1, <2>4, <2>5
    <3>6. Credit!CreditFollowsSession'
      BY <1>1, <2>3, <3>5 DEF CreditInv, Founded, Credit!CreditFollowsSession, Credit!Launched
    <3> QED  BY <3>1, <3>2, <3>3, <3>4, <3>6 DEF Founded
  <2>10. (Remembers(claims[p]))' /\ (Unspent(claims[p]))'
    BY <2>6, CreditIdleIsWork DEF Remembers, Unspent
  <2>11. LaunchedOnce => LaunchedOnce'
    <3> SUFFICES ASSUME LaunchedOnce PROVE LaunchedOnce'
      OBVIOUS
    <3>1. \A d \in Credits : credit[d] = "consumed" => credit'[d] = "consumed"
      BY <2>1, <2>4, <2>5
    <3> QED  BY <1>1, <3>1 DEF LaunchedOnce, Credit!Launched
  <2>12. ASSUME NEW q \in Procs \ {p}
         PROVE  /\ claims[q].op = "start" => \A s \in claims[q].rows : session'[s] = "none"
                /\ claims[q].op = "claim" /\ claims[q].new => \A d \in claims[q].credit : credit'[d] = "none"
    <3>1. Remembers(claims[q]) /\ Apart(w, claims[q]) /\ claims[q] \in Credit!Work
      BY RowTypes DEF CreditInv, Remembered
    <3>2. claims[q].op = "claim" /\ claims[q].new /\ w.new => c \notin claims[q].credit
      BY <1>1, <2>2, <3>1 DEF Apart
    <3>3. claims[q].credit \subseteq Credits
      BY <3>1 DEF Credit!Work
    <3> QED  BY <1>1, <2>1, <2>4, <2>5, <3>1, <3>2, <3>3 DEF Remembers
  <2> QED  BY <1>1, <2>7, <2>8, <2>9, <2>10, <2>11, <2>12, CreditIdleIsWork, CommitStep
<1> QED  BY <1>2, <1>3

\* The statements that restore credits touch no others, and reserve none.
LEMMA RestoredCredits ==
  ASSUME CreditInv, NEW R \in SUBSET Credits, \A c \in R : credit[c] # "none"
  PROVE  /\ Credit!Restored(R) \in [Credits -> {"none", "available", "reserved", "consumed", "expired"}]
         /\ Credit!Unheld(R) \in [Credits -> SUBSET Sessions]
         /\ \A c \in Credits :
              /\ c \notin R => Credit!Restored(R)[c] = credit[c] /\ Credit!Unheld(R)[c] = holder[c]
              /\ c \in R => Credit!Restored(R)[c] \in {"available", "expired"} /\ Credit!Unheld(R)[c] = {}
<1>1. /\ credit \in [Credits -> {"none", "available", "reserved", "consumed", "expired"}]
      /\ holder \in [Credits -> SUBSET Sessions]
  BY RowTypes
<1>2. Credit!Restored(R) \in [Credits -> {"none", "available", "reserved", "consumed", "expired"}]
  BY <1>1 DEF Credit!Restored
<1>3. Credit!Unheld(R) \in [Credits -> SUBSET Sessions]
  BY <1>1 DEF Credit!Unheld
<1>4. \A c \in Credits :
        /\ c \notin R => Credit!Restored(R)[c] = credit[c]
        /\ c \in R => Credit!Restored(R)[c] \in {"available", "expired"}
  BY DEF Credit!Restored
<1>5. \A c \in Credits :
        /\ c \notin R => Credit!Unheld(R)[c] = holder[c]
        /\ c \in R => Credit!Unheld(R)[c] = {}
  BY DEF Credit!Unheld
<1> QED  BY <1>2, <1>3, <1>4, <1>5

LEMMA StartCommitStep ==
  ASSUME CreditInv, NEW p \in Procs, Credit!StartCommit(p)
  PROVE  CreditInv'
<1> PICK w \in Credit!Work : w = claims[p]
  BY RowTypes
<1>1. /\ w.op = "start" /\ claims' = [claims EXCEPT ![p] = Credit!Idle]
      /\ UNCHANGED <<lapsed, claimable, due, overlapped>>
  BY DEF Credit!StartCommit, Credit!Busy, Credit!Done, Credit!envVars
<1>2. CASE ~Credit!OnlyLive(w.prior)
  <2>1. UNCHANGED <<session, funds, credit, source, holder, receipt>>
    BY <1>2 DEF Credit!StartCommit, Credit!creditVars, Credit!sessionVars
  <2> QED  BY <1>1, <2>1, CreditOverStep
<1>3. CASE Credit!OnlyLive(w.prior)
  <2>1. Shape(w) /\ Remembers(w) /\ w.restores \in SUBSET Credits /\ w.prior \subseteq Sessions
    BY DEF CreditInv, Shaped, Remembered, Credit!Work
  <2>2. PICK c \in Credits, s \in Sessions : w.credit = {c} /\ w.rows = {s}
    BY <1>1, <2>1 DEF Shape, One
  <2>3. session[s] = "none" /\ credit[c] # "none"
    BY <1>1, <2>1, <2>2 DEF Remembers
  <2> DEFINE cr == Credit!Restored(w.restores)
             ho == Credit!Unheld(w.restores)
  <2>4. /\ session' = [r \in Sessions |-> IF r \in w.rows THEN "starting"
                                          ELSE IF r \in w.prior /\ session[r] = "starting"
                                               THEN "cancelled" ELSE session[r]]
        /\ funds' = [r \in Sessions |-> IF r \in w.rows THEN w.credit ELSE funds[r]]
        /\ credit' = [d \in Credits |-> IF d \in w.credit THEN "reserved"
                                        ELSE Credit!Expired(cr)[d]]
        /\ holder' = [d \in Credits |-> IF d \in w.credit THEN w.rows ELSE ho[d]]
        /\ source' = source /\ receipt' = receipt
    BY <1>3 DEF Credit!StartCommit
  <2>5. /\ cr \in [Credits -> {"none", "available", "reserved", "consumed", "expired"}]
        /\ ho \in [Credits -> SUBSET Sessions]
        /\ \A d \in Credits :
              /\ d \notin w.restores => cr[d] = credit[d] /\ ho[d] = holder[d]
              /\ d \in w.restores => cr[d] \in {"available", "expired"} /\ ho[d] = {}
    BY <2>1, RestoredCredits DEF Remembers
  <2> HIDE DEF cr, ho
  <2>6. \A d \in Credits \ {c} :
          /\ credit'[d] = (IF d \in due /\ cr[d] \in {"available", "reserved"} THEN "expired" ELSE cr[d])
          /\ holder'[d] = ho[d]
    BY <2>2, <2>4 DEF Credit!Expired
  <2>7. credit'[c] = "reserved" /\ holder'[c] = {s}
    BY <2>2, <2>4
  <2>8. session'[s] = "starting" /\ funds'[s] = {c}
    BY <2>2, <2>4
  <2>9. \A r \in Sessions \ {s} :
          /\ session'[r] = (IF r \in w.prior /\ session[r] = "starting" THEN "cancelled" ELSE session[r])
          /\ funds'[r] = funds[r]
    BY <2>2, <2>4
  <2>10. \A d \in Credits \ {c} : credit'[d] \in {"reserved", "consumed"} =>
           d \notin w.restores /\ credit[d] = credit'[d] /\ holder'[d] = holder[d]
    BY <2>5, <2>6
  <2>11. /\ session' \in [Sessions -> {"none", "starting", "active", "ended", "cancelled"}]
         /\ funds' \in [Sessions -> SUBSET Credits]
         /\ credit' \in [Credits -> {"none", "available", "reserved", "consumed", "expired"}]
         /\ holder' \in [Credits -> SUBSET Sessions]
    <3>1. session' \in [Sessions -> {"none", "starting", "active", "ended", "cancelled"}]
      BY <2>4, RowTypes
    <3>2. funds' \in [Sessions -> SUBSET Credits]
      BY <2>2, <2>4, RowTypes
    <3>3. \A d \in Credits : Credit!Expired(cr)[d] \in {"none", "available", "reserved", "consumed", "expired"}
      BY <2>5 DEF Credit!Expired
    <3>4. credit' \in [Credits -> {"none", "available", "reserved", "consumed", "expired"}]
      BY <2>4, <3>3
    <3>5. holder' \in [Credits -> SUBSET Sessions]
      BY <2>2, <2>4, <2>5
    <3> QED  BY <3>1, <3>2, <3>4, <3>5
  <2>12. claims' \in [Procs -> Credit!Work] /\ claims'[p] = Credit!Idle
    BY <1>1, CreditIdleIsWork, RowTypes
  <2>13. Credit!TypeOK'
    <3>1. ASSUME NEW d \in Credits
          PROVE  /\ credit'[d] = "none" <=> source[d] = {}
                 /\ credit'[d] = "available" => holder'[d] = {}
                 /\ credit'[d] = "reserved" => holder'[d] # {}
      <4>1. CASE d = c
        BY <2>3, <2>7, <4>1, RowTypes
      <4>2. CASE d # c
        <5>1. d \in w.restores => credit[d] # "none"
          BY <2>1 DEF Remembers
        <5> QED  BY <2>5, <2>6, <4>2, <5>1, RowTypes
      <4> QED  BY <4>1, <4>2
    <3> QED  BY <1>1, <2>4, <2>11, <2>12, <3>1 DEF CreditInv, Shaped, Credit!TypeOK
  <2>14. Credit!CreditFollowsSession'
    <3>1. ASSUME NEW d \in Credits, credit'[d] = "reserved"
          PROVE  \E r \in Sessions : session'[r] = "starting" /\ funds'[r] = {d} /\ holder'[d] = {r}
      <4>1. CASE d = c
        BY <2>7, <2>8, <4>1
      <4>2. CASE d # c
        <5>1. credit[d] = "reserved" /\ d \notin w.restores
          BY <2>10, <3>1, <4>2
        <5>2. PICK r \in Sessions : session[r] = "starting" /\ funds[r] = {d} /\ holder[d] = {r}
          BY <5>1 DEF CreditInv, Founded, Credit!CreditFollowsSession
        <5>3. r \in w.prior
          BY <1>3, <5>2 DEF Credit!OnlyLive, Credit!Live
        <5>4. d \in HeldBy(r)
          BY <5>1, <5>2 DEF HeldBy
        <5> QED  BY <1>1, <2>1, <5>1, <5>3, <5>4 DEF Remembers
      <4> QED  BY <4>1, <4>2
    <3>2. ASSUME NEW d \in Credits, credit'[d] = "consumed"
          PROVE  \E r \in Sessions : funds'[r] = {d} /\ session'[r] \in {"active", "ended"}
      <4>1. credit[d] = "consumed"
        BY <2>7, <2>10, <3>2
      <4>2. PICK r \in Sessions : funds[r] = {d} /\ session[r] \in {"active", "ended"}
        BY <4>1 DEF CreditInv, Founded, Credit!CreditFollowsSession, Credit!Launched
      <4> QED  BY <2>3, <2>9, <4>2
    <3> QED  BY <3>1, <3>2 DEF Credit!CreditFollowsSession, Credit!Launched
  <2>15. Grown
    <3>1. \A d \in Credits : credit[d] # "none" => credit'[d] # "none" /\ source'[d] = source[d]
      BY <2>4, <2>13, RowTypes DEF Credit!TypeOK
    <3>2. \A r \in Sessions : session[r] # "none" => session'[r] # "none" /\ funds'[r] = funds[r]
      BY <2>3, <2>9
    <3>3. ASSUME NEW r \in Sessions, session[r] # "none", NEW d \in Credits,
                 credit'[d] = "reserved", holder'[d] = {r}
          PROVE  credit[d] = "reserved" /\ holder[d] = {r}
      <4>1. d # c
        BY <2>3, <2>7, <3>3
      <4> QED  BY <2>10, <3>3, <4>1
    <3> QED  BY <3>1, <3>2, <3>3 DEF Grown
  <2>16. Founded'
    <3>1. ASSUME NEW r \in Sessions, session'[r] # "none" PROVE (Funding(r))'
      <4>1. CASE r = s
        BY <2>7, <2>8, <4>1 DEF Funding, One
      <4>2. CASE r # s
        BY <2>9, <2>15, <3>1, <4>2, StayFunded
      <4> QED  BY <4>1, <4>2
    <3>2. \A d \in Credits : credit'[d] = "none" => holder'[d] = {}
      <4>1. ASSUME NEW d \in Credits, credit'[d] = "none" PROVE holder'[d] = {}
        <5>1. d # c
          BY <2>7, <4>1
        <5> QED  BY <2>5, <2>6, <4>1, <5>1 DEF CreditInv, Founded
      <4> QED  BY <4>1
    <3> QED  BY <2>4, <2>14, <3>1, <3>2 DEF CreditInv, Founded
  <2>17. (Remembers(claims[p]))' /\ (Unspent(claims[p]))'
    BY <2>12, CreditIdleIsWork DEF Remembers, Unspent
  <2>18. LaunchedOnce /\ Unspent(claims[p]) => LaunchedOnce'
    <3> SUFFICES ASSUME LaunchedOnce, Unspent(w) PROVE LaunchedOnce'
      OBVIOUS
    <3>1. \A d \in Credits, r \in Sessions :
            funds'[r] = {d} /\ session'[r] \in {"active", "ended"}
              => funds[r] = {d} /\ session[r] \in {"active", "ended"}
      BY <2>8, <2>9
    <3>2. ASSUME NEW d \in Credits, credit[d] = "consumed" PROVE credit'[d] = "consumed"
      <4>1. d # c /\ d \notin w.restores
        BY <1>1, <2>2, <3>2 DEF Unspent
      <4> QED  BY <2>5, <2>6, <3>2, <4>1
    <3> QED  BY <3>1, <3>2 DEF LaunchedOnce, Credit!Launched
  <2>19. ASSUME NEW q \in Procs \ {p}
         PROVE  /\ claims[q].op = "start" => \A r \in claims[q].rows : session'[r] = "none"
                /\ claims[q].op = "claim" /\ claims[q].new => \A d \in claims[q].credit : credit'[d] = "none"
    <3>1. Remembers(claims[q]) /\ Apart(w, claims[q]) /\ claims[q].rows \subseteq Sessions
          /\ claims[q].credit \subseteq Credits
      BY RowTypes DEF CreditInv, Remembered, Credit!Work
    <3>2. ASSUME claims[q].op = "start", NEW r \in claims[q].rows PROVE session'[r] = "none"
      <4>1. r # s
        BY <1>1, <2>2, <3>1, <3>2 DEF Apart
      <4> QED  BY <2>9, <3>1, <3>2, <4>1 DEF Remembers
    <3>3. ASSUME claims[q].op = "claim", claims[q].new, NEW d \in claims[q].credit PROVE credit'[d] = "none"
      <4>1. credit[d] = "none" /\ d \in Credits
        BY <3>1, <3>3 DEF Remembers
      <4> QED  BY <2>4, <2>13, <4>1, RowTypes DEF Credit!TypeOK
    <3> QED  BY <3>2, <3>3
  <2> QED  BY <1>1, <2>13, <2>15, <2>16, <2>17, <2>18, <2>19, CreditIdleIsWork, CommitStep
<1> QED  BY <1>2, <1>3

\* A step that restores a request's credits, cancels its sessions, or neither.
LEMMA ReleaseStep ==
  ASSUME CreditInv, NEW p \in Procs, NEW R \in SUBSET Credits, NEW S \in SUBSET Sessions, NEW w \in Credit!Work,
         claims' = [claims EXCEPT ![p] = w], Shape(w), w.op \notin {"start", "claim"}, claims[p].op # "idle",
         session' = Credit!Cancelled(S), credit' = Credit!Restored(R), holder' = Credit!Unheld(R),
         UNCHANGED <<funds, source, receipt, lapsed, claimable, due, overlapped>>,
         \A c \in R : credit[c] # "none",
         \A s \in S : HeldBy(s) \subseteq R,
         (Remembers(claims[p]))',
         ~overlapped /\ LaunchedOnce /\ Unspent(claims[p])
           => (\A c \in R : credit[c] # "consumed") /\ (Unspent(claims[p]))'
  PROVE  CreditInv'
<1>1. /\ credit' \in [Credits -> {"none", "available", "reserved", "consumed", "expired"}]
      /\ holder' \in [Credits -> SUBSET Sessions]
      /\ \A d \in Credits :
            /\ d \notin R => credit'[d] = credit[d] /\ holder'[d] = holder[d]
            /\ d \in R => credit'[d] \in {"available", "expired"} /\ holder'[d] = {}
  BY RestoredCredits
<1>2. /\ session' \in [Sessions -> {"none", "starting", "active", "ended", "cancelled"}]
      /\ \A s \in Sessions :
           session'[s] = IF s \in S /\ session[s] = "starting" THEN "cancelled" ELSE session[s]
  BY RowTypes DEF Credit!Cancelled
<1>3. claims' \in [Procs -> Credit!Work]
  BY RowTypes
<1>4. Credit!TypeOK'
  <2>1. ASSUME NEW d \in Credits
        PROVE  /\ credit'[d] = "none" <=> source[d] = {}
               /\ credit'[d] = "available" => holder'[d] = {}
               /\ credit'[d] = "reserved" => holder'[d] # {}
    BY <1>1, RowTypes
  <2> QED  BY <1>1, <1>2, <1>3, <2>1 DEF CreditInv, Shaped, Credit!TypeOK
<1>5. Credit!CreditFollowsSession'
  <2>1. ASSUME NEW d \in Credits, credit'[d] = "reserved"
        PROVE  \E r \in Sessions : session'[r] = "starting" /\ funds'[r] = {d} /\ holder'[d] = {r}
    <3>1. d \notin R /\ credit[d] = "reserved" /\ holder'[d] = holder[d]
      BY <1>1, <2>1
    <3>2. PICK r \in Sessions : session[r] = "starting" /\ funds[r] = {d} /\ holder[d] = {r}
      BY <3>1 DEF CreditInv, Founded, Credit!CreditFollowsSession
    <3>3. r \notin S
      BY <3>1, <3>2 DEF HeldBy
    <3> QED  BY <1>2, <3>1, <3>2, <3>3
  <2>2. ASSUME NEW d \in Credits, credit'[d] = "consumed"
        PROVE  \E r \in Sessions : funds'[r] = {d} /\ session'[r] \in {"active", "ended"}
    <3>1. credit[d] = "consumed"
      BY <1>1, <2>2
    <3>2. PICK r \in Sessions : funds[r] = {d} /\ session[r] \in {"active", "ended"}
      BY <3>1 DEF CreditInv, Founded, Credit!CreditFollowsSession, Credit!Launched
    <3> QED  BY <1>2, <3>2
  <2> QED  BY <2>1, <2>2 DEF Credit!CreditFollowsSession, Credit!Launched
<1>6. Grown
  BY <1>1, <1>2 DEF Grown
<1>7. Founded'
  <2>1. \A d \in Credits : credit'[d] = "none" => holder'[d] = {}
    BY <1>1 DEF CreditInv, Founded
  <2>2. \A s \in Sessions : session'[s] # "none" => (Funding(s))'
    BY <1>2, <1>6, StayFunded
  <2> QED  BY <1>1, <1>5, <2>1, <2>2 DEF CreditInv, Founded
<1>8. ~overlapped /\ LaunchedOnce /\ Unspent(claims[p]) => LaunchedOnce' /\ (Unspent(claims[p]))'
  <2> SUFFICES ASSUME ~overlapped, LaunchedOnce, Unspent(claims[p]) PROVE LaunchedOnce'
    OBVIOUS
  <2>1. \A d \in Credits : credit[d] = "consumed" => credit'[d] = "consumed"
    BY <1>1
  <2>2. \A d \in Credits, r \in Sessions :
          funds'[r] = {d} /\ session'[r] \in {"active", "ended"}
            => funds[r] = {d} /\ session[r] \in {"active", "ended"}
    BY <1>2
  <2> QED  BY <2>1, <2>2 DEF LaunchedOnce, Credit!Launched
<1>9. ASSUME NEW q \in Procs \ {p}
      PROVE  /\ claims[q].op = "start" => \A s \in claims[q].rows : session'[s] = "none"
             /\ claims[q].op = "claim" /\ claims[q].new => \A d \in claims[q].credit : credit'[d] = "none"
  <2>1. Remembers(claims[q]) /\ claims[q].rows \subseteq Sessions /\ claims[q].credit \subseteq Credits
    BY RowTypes DEF CreditInv, Remembered, Credit!Work
  <2> QED  BY <1>1, <1>2, <2>1 DEF Remembers
<1> QED  BY <1>4, <1>6, <1>7, <1>8, <1>9, CommitStep

\* Nothing restored, nothing cancelled.
LEMMA NothingReleased ==
  ASSUME CreditInv
  PROVE  credit = Credit!Restored({}) /\ holder = Credit!Unheld({}) /\ session = Credit!Cancelled({})
  BY RowTypes DEF Credit!Restored, Credit!Unheld, Credit!Cancelled

LEMMA ReleaseSteps ==
  ASSUME CreditInv, NEW p \in Procs,
         Credit!CancelCommit(p) \/ Credit!ReleaseReadCredit(p) \/ Credit!ReleaseCredit(p) \/ Credit!ReleaseRow(p)
  PROVE  CreditInv'
<1> PICK w \in Credit!Work : w = claims[p]
  BY RowTypes
<1>1. /\ Shape(w) /\ Remembers(w) /\ w.rows \in SUBSET Sessions /\ w.restores \in SUBSET Credits
      /\ w.op \in {"cancel", "release", "releaseCredit", "releaseRow"}
      /\ {} \in SUBSET Sessions /\ {} \in SUBSET Credits
  BY DEF CreditInv, Shaped, Remembered, Credit!Work, Credit!CancelCommit, Credit!ReleaseReadCredit,
     Credit!ReleaseCredit, Credit!ReleaseRow, Credit!Busy
<1>2. CASE Credit!CancelCommit(p)
  <2>1. /\ w.op = "cancel" /\ claims' = [claims EXCEPT ![p] = Credit!Idle]
        /\ session' = Credit!Cancelled(w.rows) /\ credit' = Credit!Restored(w.restores) /\ holder' = Credit!Unheld(w.restores)
        /\ UNCHANGED <<funds, source, receipt, lapsed, claimable, due, overlapped>>
    BY <1>2 DEF Credit!CancelCommit, Credit!Busy, Credit!Done, Credit!envVars
  <2>2. /\ \A c \in w.restores : credit[c] # "none"
        /\ \A s \in w.rows : HeldBy(s) \subseteq w.restores
    BY <1>1, <2>1 DEF Remembers
  <2>3. claims'[p] = Credit!Idle
    BY <2>1, RowTypes
  <2>4. (Remembers(claims[p]))' /\ (Unspent(claims[p]))'
    BY <2>3, CreditIdleIsWork DEF Remembers, Unspent
  <2>5. Unspent(claims[p]) => \A c \in w.restores : credit[c] # "consumed"
    BY <2>1 DEF Unspent
  <2> QED  BY <1>1, <2>1, <2>2, <2>4, <2>5, CreditIdleIsWork, ReleaseStep
<1>3. CASE Credit!ReleaseReadCredit(p)
  <2>1. PICK s \in w.rows :
          claims' = [claims EXCEPT ![p].restores = Credit!Restores(s),
                               ![p].op = IF Credit!Restores(s) = {} THEN "releaseRow" ELSE "releaseCredit"]
    BY <1>3 DEF Credit!ReleaseReadCredit
  <2>2. /\ w.op = "release" /\ UNCHANGED <<session, credit, holder>>
        /\ UNCHANGED <<funds, source, receipt, lapsed, claimable, due, overlapped>>
    BY <1>3 DEF Credit!ReleaseReadCredit, Credit!Busy, Credit!sessionVars, Credit!creditVars, Credit!envVars
  <2> DEFINE o == IF Credit!Restores(s) = {} THEN "releaseRow" ELSE "releaseCredit"
             v == [w EXCEPT !.restores = Credit!Restores(s), !.op = o]
  <2>3. /\ Credit!Restores(s) = HeldBy(s) /\ Credit!Restores(s) \in SUBSET Credits
        /\ \A c \in Credit!Restores(s) : credit[c] = "reserved"
    BY <1>1, HeldIsRestored
  <2>4. o \in {"releaseRow", "releaseCredit"} /\ (o = "releaseRow" => HeldBy(s) = {})
    BY <2>3
  <2>5. claims' = [claims EXCEPT ![p] = v]
    BY <2>1, RowTypes
  <2> HIDE DEF o
  <2>6. v \in Credit!Work /\ v.op = o /\ v.rows = w.rows /\ v.restores = Credit!Restores(s)
    BY <2>3, <2>4 DEF Credit!Work, Credit!Ops
  <2> HIDE DEF v
  <2>7. w.rows = {s}
    BY <1>1, <2>2 DEF Shape, One
  <2>8. Shape(v)
    BY <1>1, <2>2, <2>4, <2>6 DEF Shape
  <2>9. Remembers(v)
    BY <1>1, <2>2, <2>3, <2>4, <2>6, <2>7 DEF Remembers
  <2>10. Unspent(v)
    BY <2>3, <2>4, <2>6 DEF Unspent
  <2>11. claims'[p] = v
    BY <2>5, <2>6, RowTypes
  <2>12. (Remembers(claims[p]))' /\ (Unspent(claims[p]))'
    <3>1. Remembers(claims'[p]) /\ Unspent(claims'[p])
      BY <2>9, <2>10, <2>11
    <3> QED  BY <2>2, <3>1 DEF Remembers, Unspent, HeldBy
  <2>13. /\ session' = Credit!Cancelled({}) /\ credit' = Credit!Restored({}) /\ holder' = Credit!Unheld({})
    BY <2>2, NothingReleased
  <2>14. {} \in SUBSET Credits /\ {} \in SUBSET Sessions
    BY <1>1
  <2>15. v.op \notin {"start", "claim"} /\ claims[p].op # "idle"
    BY <2>2, <2>4, <2>6
  <2>16. /\ \A c \in {} : credit[c] # "none" /\ credit[c] # "consumed"
         /\ \A r \in {} : HeldBy(r) \subseteq {}
    OBVIOUS
  <2>17. UNCHANGED <<funds, source, receipt, lapsed, claimable, due, overlapped>>
    BY <2>2
  <2>18. v \in Credit!Work
    BY <2>6
  <2> QED  BY <2>5, <2>8, <2>12, <2>13, <2>14, <2>15, <2>16, <2>17, <2>18, ReleaseStep
<1>4. CASE Credit!ReleaseCredit(p)
  <2> DEFINE v == [w EXCEPT !.op = "releaseRow"]
  <2>1. /\ w.op = "releaseCredit" /\ claims' = [claims EXCEPT ![p] = v]
        /\ session' = session /\ credit' = Credit!Restored(w.restores) /\ holder' = Credit!Unheld(w.restores)
        /\ UNCHANGED <<funds, source, receipt, lapsed, claimable, due, overlapped>>
    BY <1>4 DEF Credit!ReleaseCredit, Credit!Busy, Credit!Go, Credit!sessionVars, Credit!envVars
  <2>2. v \in Credit!Work /\ v.op = "releaseRow" /\ v.rows = w.rows /\ v.restores = w.restores
    BY DEF Credit!Work, Credit!Ops
  <2> HIDE DEF v
  <2>3. Shape(v)
    BY <1>1, <2>1, <2>2 DEF Shape
  <2>4. claims'[p] = v
    BY <2>1, <2>2, RowTypes
  <2>5. \A c \in w.restores : credit[c] # "none"
    BY <1>1 DEF Remembers
  <2>6. \A d \in Credits :
          /\ d \notin w.restores => credit'[d] = credit[d] /\ holder'[d] = holder[d]
          /\ d \in w.restores => credit'[d] \in {"available", "expired"} /\ holder'[d] = {}
    BY <1>1, <2>1, <2>5, RestoredCredits
  <2>7. (Remembers(claims[p]))'
    <3>1. \A s \in w.rows : session'[s] # "none"
      BY <1>1, <2>1 DEF Remembers
    <3>2. \A s \in w.rows : {c \in Credits : credit'[c] = "reserved" /\ holder'[c] = {s}} = {}
      <4>1. \A s \in w.rows : HeldBy(s) \subseteq w.restores
        BY <1>1, <2>1 DEF Remembers
      <4> QED  BY <2>6, <4>1 DEF HeldBy
    <3>3. \A c \in w.restores : credit'[c] # "none"
      BY <1>1, <2>6
    <3> QED  BY <2>2, <2>4, <3>1, <3>2, <3>3 DEF Remembers, HeldBy
  <2>8. (Unspent(claims[p]))'
    BY <2>2, <2>4 DEF Unspent
  <2>9. Unspent(claims[p]) => \A c \in w.restores : credit[c] # "consumed"
    BY <2>1 DEF Unspent
  <2>10. session' = Credit!Cancelled({})
    BY <2>1, NothingReleased
  <2>11. v \in Credit!Work /\ v.op \notin {"start", "claim"} /\ claims[p].op # "idle"
    BY <2>1, <2>2
  <2>12. /\ w.restores \in SUBSET Credits /\ {} \in SUBSET Sessions
         /\ \A r \in {} : HeldBy(r) \subseteq w.restores
    BY <1>1
  <2>13. /\ claims' = [claims EXCEPT ![p] = v]
         /\ credit' = Credit!Restored(w.restores) /\ holder' = Credit!Unheld(w.restores)
         /\ UNCHANGED <<funds, source, receipt, lapsed, claimable, due, overlapped>>
    BY <2>1
  <2> QED  BY <2>3, <2>5, <2>7, <2>8, <2>9, <2>10, <2>11, <2>12, <2>13, ReleaseStep
<1>5. CASE Credit!ReleaseRow(p)
  <2>1. /\ w.op = "releaseRow" /\ claims' = [claims EXCEPT ![p] = Credit!Idle]
        /\ session' = Credit!Cancelled(w.rows) /\ UNCHANGED <<credit, holder>>
        /\ UNCHANGED <<funds, source, receipt, lapsed, claimable, due, overlapped>>
    BY <1>5 DEF Credit!ReleaseRow, Credit!Busy, Credit!Done, Credit!creditVars, Credit!envVars
  <2>2. \A s \in w.rows : HeldBy(s) \subseteq {}
    BY <1>1, <2>1 DEF Remembers
  <2>3. claims'[p] = Credit!Idle
    BY <2>1, RowTypes
  <2>4. (Remembers(claims[p]))' /\ (Unspent(claims[p]))'
    BY <2>3, CreditIdleIsWork DEF Remembers, Unspent
  <2>5. credit' = Credit!Restored({}) /\ holder' = Credit!Unheld({})
    BY <2>1, NothingReleased
  <2> QED  BY <1>1, <2>1, <2>2, <2>4, <2>5, CreditIdleIsWork, ReleaseStep
<1> QED  BY <1>2, <1>3, <1>4, <1>5

LEMMA ConsumeReadStep ==
  ASSUME CreditInv, NEW p \in Procs, Credit!ConsumeRead(p)
  PROVE  CreditInv'
<1> PICK w \in Credit!Work : w = claims[p]
  BY RowTypes
<1>1. /\ Shape(w) /\ Remembers(w) /\ w.op = "confirm" /\ {} \in SUBSET Credits /\ {} \in SUBSET Sessions
      /\ UNCHANGED <<session, funds, credit, source, holder, receipt, lapsed, claimable, due>>
  BY DEF CreditInv, Shaped, Remembered, Credit!ConsumeRead, Credit!Busy, Credit!sessionVars,
     Credit!creditVars, Credit!envVars
<1>2. PICK s \in w.rows, c \in w.credit :
        IF session[s] = "starting" /\ holder[c] = {s} /\ credit[c] = "reserved" /\ c \notin due
        THEN Credit!Go(p, "consume") ELSE Credit!Done(p)
  BY DEF Credit!ConsumeRead
<1>3. CASE Credit!Done(p)
  BY <1>1, <1>3, CreditOverStep DEF Credit!Done
<1>4. CASE Credit!Go(p, "consume") /\ credit[c] = "reserved"
  <2> DEFINE v == [w EXCEPT !.op = "consume"]
  <2>1. claims' = [claims EXCEPT ![p] = v] /\ overlapped' = overlapped
    BY <1>4 DEF Credit!Go
  <2>2. v \in Credit!Work /\ v.op = "consume" /\ v.rows = w.rows /\ v.restores = w.restores /\ v.credit = w.credit
    BY DEF Credit!Work, Credit!Ops
  <2> HIDE DEF v
  <2>3. Shape(v) /\ v.credit = {c}
    BY <1>1, <1>2, <2>2 DEF Shape, One
  <2>4. claims'[p] = v
    BY <2>1, <2>2, RowTypes
  <2>5. Remembers(v)
    BY <1>1, <2>2 DEF Remembers
  <2>6. Unspent(v)
    BY <1>4, <2>2, <2>3 DEF Unspent
  <2>7. (Remembers(claims[p]))' /\ (Unspent(claims[p]))'
    <3>1. Remembers(claims'[p]) /\ Unspent(claims'[p])
      BY <2>4, <2>5, <2>6
    <3> QED  BY <1>1, <3>1 DEF Remembers, Unspent, HeldBy
  <2>8. PICK R \in SUBSET Credits, S \in SUBSET Sessions : R = {} /\ S = {}
    BY <1>1
  <2>9. session' = Credit!Cancelled(S) /\ credit' = Credit!Restored(R) /\ holder' = Credit!Unheld(R)
    BY <1>1, <2>8, NothingReleased
  <2>10. UNCHANGED <<funds, source, receipt, lapsed, claimable, due, overlapped>> /\ claims[p].op # "idle"
    BY <1>1, <2>1
  <2>11. (\A d \in R : credit[d] # "none") /\ (\A r \in S : HeldBy(r) \subseteq R)
         /\ \A d \in R : credit[d] # "consumed"
    BY <2>8
  <2>12. v.op \notin {"start", "claim"}
    BY <2>2
  <2> QED  BY <2>1, <2>2, <2>3, <2>7, <2>9, <2>10, <2>11, <2>12, ReleaseStep
<1> QED  BY <1>2, <1>3, <1>4

LEMMA ConsumeCommitStep ==
  ASSUME CreditInv, NEW p \in Procs, Credit!ConsumeCommit(p)
  PROVE  CreditInv'
<1> PICK w \in Credit!Work : w = claims[p]
  BY RowTypes
<1>1. /\ Shape(w) /\ Remembers(w) /\ w.op = "consume" /\ claims' = [claims EXCEPT ![p] = Credit!Idle]
      /\ w.rows \subseteq Sessions /\ w.credit \subseteq Credits
      /\ UNCHANGED <<lapsed, claimable, due, overlapped>>
  BY DEF CreditInv, Shaped, Remembered, Credit!Work, Credit!ConsumeCommit, Credit!Busy, Credit!Done,
     Credit!envVars
<1>2. PICK s \in w.rows, c \in w.credit :
        IF Credit!OneChanged(s)
        THEN /\ session' = [session EXCEPT ![s] = IF @ = "starting" THEN "active" ELSE @]
             /\ credit'  = [credit EXCEPT ![c] = "consumed"]
             /\ UNCHANGED <<funds, source, holder, receipt>>
        ELSE UNCHANGED <<Credit!sessionVars, Credit!creditVars>>
  BY DEF Credit!ConsumeCommit
<1>3. CASE ~Credit!OneChanged(s)
  <2>1. UNCHANGED <<session, funds, credit, source, holder, receipt>>
    BY <1>2, <1>3 DEF Credit!sessionVars, Credit!creditVars
  <2> QED  BY <1>1, <2>1, CreditOverStep
<1>4. CASE Credit!OneChanged(s)
  <2>1. w.credit = {c} /\ s \in Sessions /\ c \in Credits
    BY <1>1 DEF Shape, One
  <2>2. session[s] = "starting" /\ funds[s] = {c} /\ credit[c] # "none"
    <3>1. session[s] = "starting" /\ funds[s] = {c}
      BY <1>1, <1>4, <2>1 DEF Credit!OneChanged, Remembers
    <3>2. PICK h \in Credits : funds[s] = {h} /\ credit[h] # "none"
      BY <2>1, <3>1, Funded
    <3> QED  BY <3>1, <3>2
  <2>3. /\ session' = [session EXCEPT ![s] = "active"]
        /\ credit' = [credit EXCEPT ![c] = "consumed"]
        /\ UNCHANGED <<funds, source, holder, receipt>>
    BY <1>2, <1>4, <2>2
  <2>4. /\ session' \in [Sessions -> {"none", "starting", "active", "ended", "cancelled"}]
        /\ credit' \in [Credits -> {"none", "available", "reserved", "consumed", "expired"}]
        /\ claims' \in [Procs -> Credit!Work] /\ claims'[p] = Credit!Idle
    BY <1>1, <2>3, CreditIdleIsWork, RowTypes
  <2>5. /\ session'[s] = "active" /\ \A r \in Sessions \ {s} : session'[r] = session[r]
        /\ credit'[c] = "consumed" /\ \A d \in Credits \ {c} : credit'[d] = credit[d]
    BY <2>1, <2>3, RowTypes
  <2>6. Credit!TypeOK'
    <3>1. ASSUME NEW d \in Credits
          PROVE  /\ credit'[d] = "none" <=> source[d] = {}
                 /\ credit'[d] = "available" => holder[d] = {}
                 /\ credit'[d] = "reserved" => holder[d] # {}
      BY <2>2, <2>5, RowTypes
    <3> QED  BY <1>1, <2>3, <2>4, <3>1 DEF CreditInv, Shaped, Credit!TypeOK
  <2>7. Credit!CreditFollowsSession'
    <3>1. ASSUME NEW d \in Credits, credit'[d] = "reserved"
          PROVE  \E r \in Sessions : session'[r] = "starting" /\ funds'[r] = {d} /\ holder'[d] = {r}
      <4>1. d # c /\ credit[d] = "reserved"
        BY <2>5, <3>1
      <4>2. PICK r \in Sessions : session[r] = "starting" /\ funds[r] = {d} /\ holder[d] = {r}
        BY <4>1 DEF CreditInv, Founded, Credit!CreditFollowsSession
      <4> QED  BY <2>2, <2>3, <2>5, <4>1, <4>2
    <3>2. ASSUME NEW d \in Credits, credit'[d] = "consumed"
          PROVE  \E r \in Sessions : funds'[r] = {d} /\ session'[r] \in {"active", "ended"}
      <4>1. CASE d = c
        BY <2>1, <2>2, <2>3, <2>5, <4>1
      <4>2. CASE d # c
        <5>1. PICK r \in Sessions : funds[r] = {d} /\ session[r] \in {"active", "ended"}
          BY <2>5, <3>2, <4>2 DEF CreditInv, Founded, Credit!CreditFollowsSession, Credit!Launched
        <5> QED  BY <2>3, <2>5, <5>1
      <4> QED  BY <4>1, <4>2
    <3> QED  BY <3>1, <3>2 DEF Credit!CreditFollowsSession, Credit!Launched
  <2>8. Grown
    BY <2>3, <2>5 DEF Grown
  <2>9. Founded'
    <3>1. \A r \in Sessions : session'[r] # "none" => (Funding(r))'
      BY <2>2, <2>5, <2>8, StayFunded
    <3>2. \A d \in Credits : credit'[d] = "none" => holder'[d] = {}
      BY <2>3, <2>5 DEF CreditInv, Founded
    <3> QED  BY <2>3, <2>7, <3>1, <3>2 DEF CreditInv, Founded
  <2>10. (Remembers(claims[p]))' /\ (Unspent(claims[p]))'
    BY <2>4, CreditIdleIsWork DEF Remembers, Unspent
  <2>11. LaunchedOnce /\ Unspent(claims[p]) => LaunchedOnce'
    <3> SUFFICES ASSUME LaunchedOnce, Unspent(w) PROVE LaunchedOnce'
      OBVIOUS
    <3>1. Credit!Launched(c) = {}
      BY <1>1, <2>1 DEF Unspent, LaunchedOnce
    <3>2. ASSUME NEW d \in Credits, NEW r \in Sessions, funds'[r] = {d}, session'[r] \in {"active", "ended"}
          PROVE  (d = c /\ r = s) \/ (d # c /\ funds[r] = {d} /\ session[r] \in {"active", "ended"})
      <4>1. CASE r = s
        BY <2>2, <2>3, <3>2, <4>1
      <4>2. CASE r # s
        BY <2>3, <2>5, <3>1, <3>2, <4>2 DEF Credit!Launched
      <4> QED  BY <4>1, <4>2
    <3>3. ASSUME NEW d \in Credits PROVE /\ (Credit!Launched(d))' # {} => credit'[d] = "consumed"
                                         /\ \A r, t \in (Credit!Launched(d))' : r = t
      <4>1. CASE d = c
        BY <2>5, <3>2, <4>1 DEF Credit!Launched
      <4>2. CASE d # c
        BY <2>5, <3>2, <4>2 DEF Credit!Launched, LaunchedOnce
      <4> QED  BY <4>1, <4>2
    <3> QED  BY <3>3 DEF LaunchedOnce
  <2>12. ASSUME NEW q \in Procs \ {p}
         PROVE  /\ claims[q].op = "start" => \A r \in claims[q].rows : session'[r] = "none"
                /\ claims[q].op = "claim" /\ claims[q].new => \A d \in claims[q].credit : credit'[d] = "none"
    <3>1. Remembers(claims[q]) /\ claims[q].rows \subseteq Sessions /\ claims[q].credit \subseteq Credits
      BY RowTypes DEF CreditInv, Remembered, Credit!Work
    <3> QED  BY <2>2, <2>5, <3>1 DEF Remembers
  <2> QED  BY <1>1, <2>6, <2>8, <2>9, <2>10, <2>11, <2>12, <2>3, CreditIdleIsWork, CommitStep
<1> QED  BY <1>3, <1>4

LEMMA EnvSteps ==
  ASSUME CreditInv, Credit!Expire \/ Credit!TimePasses \/ \E s \in Sessions : Credit!EndSession(s)
  PROVE  CreditInv'
<1>1. CASE Credit!Expire
  <2>1. /\ credit' = [c \in Credits |-> IF c \in due /\ credit[c] \in {"available", "reserved"}
                                        THEN "expired" ELSE credit[c]]
        /\ UNCHANGED <<session, funds, source, holder, receipt, lapsed, claimable, due, overlapped, claims>>
    BY <1>1 DEF Credit!Expire, Credit!Expired, Credit!sessionVars, Credit!envVars
  <2>2. \A c \in Credits : credit'[c] = credit[c]
                           \/ (credit[c] \in {"available", "reserved"} /\ credit'[c] = "expired")
    BY <2>1
  <2>3. credit' \in [Credits -> {"none", "available", "reserved", "consumed", "expired"}]
    BY <2>1, RowTypes
  <2>4. Credit!TypeOK'
    <3>1. ASSUME NEW d \in Credits
          PROVE  /\ credit'[d] = "none" <=> source[d] = {}
                 /\ credit'[d] = "available" => holder[d] = {}
                 /\ credit'[d] = "reserved" => holder[d] # {}
      BY <2>2, RowTypes
    <3> QED  BY <2>1, <2>3, <3>1 DEF CreditInv, Shaped, Credit!TypeOK
  <2>5. Founded'
    <3>1. Credit!CreditFollowsSession'
      BY <2>1, <2>2 DEF CreditInv, Founded, Credit!CreditFollowsSession, Credit!Launched
    <3>2. ASSUME NEW r \in Sessions, session'[r] # "none" PROVE (Funding(r))'
      <4>1. PICK c \in Credits : funds[r] = {c} /\ credit[c] # "none"
        BY <2>1, <3>2, Funded
      <4> QED  BY <2>1, <2>2, <4>1 DEF Funding, One
    <3>3. \A d \in Credits : credit'[d] = "none" => holder'[d] = {}
      BY <2>1, <2>2 DEF CreditInv, Founded
    <3> QED  BY <2>1, <3>1, <3>2, <3>3 DEF CreditInv, Founded
  <2>6. Grown
    BY <2>1, <2>2 DEF Grown
  <2>7. LaunchedOnce => LaunchedOnce'
    BY <2>1, <2>2 DEF LaunchedOnce, Credit!Launched
  <2> QED  BY <2>1, <2>2, <2>4, <2>5, <2>6, <2>7, EnvStep DEF CreditInv, Shaped, Credit!TypeOK
<1>2. CASE Credit!TimePasses
  <2>1. /\ UNCHANGED <<session, funds, credit, source, holder, receipt, overlapped, claims>>
        /\ lapsed' \subseteq Sessions /\ claimable' \subseteq Past /\ due' \subseteq Credits
    BY <1>2 DEF Credit!TimePasses, Credit!sessionVars, Credit!creditVars, CreditInv, Shaped, Credit!TypeOK
  <2>2. Credit!TypeOK'
    BY <2>1 DEF CreditInv, Shaped, Credit!TypeOK
  <2>3. Founded'
    BY <2>1 DEF CreditInv, Founded, Funding, Credit!CreditFollowsSession, Credit!Launched
  <2>4. Grown
    BY <2>1 DEF Grown
  <2>5. LaunchedOnce => LaunchedOnce'
    BY <2>1 DEF LaunchedOnce, Credit!Launched
  <2> QED  BY <2>1, <2>2, <2>3, <2>4, <2>5, EnvStep DEF CreditInv, Shaped, Credit!TypeOK
<1>3. ASSUME NEW s \in Sessions, Credit!EndSession(s)
      PROVE  CreditInv'
  <2>1. /\ session[s] = "active" /\ session' = [session EXCEPT ![s] = "ended"]
        /\ UNCHANGED <<funds, credit, source, holder, receipt, lapsed, claimable, due, overlapped, claims>>
    BY <1>3 DEF Credit!EndSession, Credit!creditVars, Credit!envVars
  <2>2. /\ session' \in [Sessions -> {"none", "starting", "active", "ended", "cancelled"}]
        /\ session'[s] = "ended" /\ \A r \in Sessions : r # s => session'[r] = session[r]
    BY <2>1, RowTypes
  <2>3. Credit!TypeOK'
    BY <2>1, <2>2 DEF CreditInv, Shaped, Credit!TypeOK
  <2>4. \A c \in Credits : (Credit!Launched(c))' = Credit!Launched(c)
    BY <2>1, <2>2 DEF Credit!Launched
  <2>5. \A r \in Sessions : session[r] = "starting" => session'[r] = "starting"
    BY <2>1, <2>2
  <2>6. Grown
    BY <2>1, <2>2 DEF Grown
  <2>7. Founded'
    <3>1. \A r \in Sessions : session'[r] # "none" => (Funding(r))'
      BY <2>1, <2>2, <2>6, StayFunded
    <3>2. Credit!CreditFollowsSession'
      BY <2>1, <2>4, <2>5 DEF CreditInv, Founded, Credit!CreditFollowsSession
    <3> QED  BY <2>1, <3>1, <3>2 DEF CreditInv, Founded
  <2>8. LaunchedOnce => LaunchedOnce'
    BY <2>1, <2>4 DEF LaunchedOnce
  <2>9. \A r \in Sessions : session[r] = "none" => session'[r] = "none"
    BY <2>1, <2>2
  <2> QED  BY <2>1, <2>3, <2>6, <2>7, <2>8, <2>9, EnvStep DEF CreditInv, Shaped, Credit!TypeOK
<1> QED  BY <1>1, <1>2, <1>3

\* Whether requests have overlapped may only come to be so.
LEMMA CreditSameVars ==
  ASSUME CreditInv, overlapped' \in BOOLEAN, overlapped => overlapped',
         UNCHANGED <<session, funds, credit, source, holder, receipt, lapsed, claimable, due, claims>>
  PROVE  CreditInv'
<1>1. Credit!TypeOK'
  BY DEF CreditInv, Shaped, Credit!TypeOK
<1>2. Founded'
  BY DEF CreditInv, Founded, Funding, Credit!CreditFollowsSession, Credit!Launched
<1>3. Grown /\ (LaunchedOnce => LaunchedOnce')
  BY DEF Grown, LaunchedOnce, Credit!Launched
<1> QED  BY <1>1, <1>2, <1>3, EnvStep

LEMMA CreditNextHolds == CreditInv /\ [Credit!Next]_(Credit!vars) => CreditInv'
<1> SUFFICES ASSUME CreditInv, [Credit!Next]_(Credit!vars) PROVE CreditInv'
  OBVIOUS
<1>1. CASE UNCHANGED Credit!vars
  BY <1>1, CreditSameVars DEF Credit!vars, Credit!sessionVars, Credit!creditVars, Credit!envVars,
     CreditInv, Shaped, Credit!TypeOK
<1>2. ASSUME NEW p \in Procs, Credit!Handler(p)
      PROVE  CreditInv'
  BY <1>2, ClaimReadStep, StartReadStep, SessionReadSteps, ClaimCommitStep, StartCommitStep,
     ConsumeReadStep, ConsumeCommitStep, ReleaseSteps DEF Credit!Handler
<1>3. ASSUME NEW p \in Procs, Credit!Abandon(p)
      PROVE  CreditInv'
  BY <1>3, CreditOverStep DEF Credit!Abandon, Credit!Busy, Credit!Done, Credit!sessionVars,
     Credit!creditVars, Credit!envVars
<1>4. CASE Credit!Expire \/ Credit!TimePasses \/ \E s \in Sessions : Credit!EndSession(s)
  BY <1>4, EnvSteps
<1> QED  BY <1>1, <1>2, <1>3, <1>4 DEF Credit!Next

LEMMA CreditInvSuffices == CreditInv => Credit!TypeOK /\ Credit!CreditPaysOnce /\ Credit!CreditFollowsSession
<1> SUFFICES ASSUME CreditInv PROVE Credit!TypeOK /\ Credit!CreditPaysOnce /\ Credit!CreditFollowsSession
  OBVIOUS
<1>1. ASSUME NEW S, \A c, d \in S : c = d PROVE Cardinality(S) <= 1
  <2>1. CASE S = {}
    BY <2>1, FS_EmptySet
  <2>2. CASE S # {}
    <3>1. PICK c : S = {c}
      BY <1>1, <2>2
    <3>2. Cardinality({c}) = 1
      BY FS_Singleton
    <3> QED  BY <3>1, <3>2
  <2> QED  BY <2>1, <2>2
<1>2. ASSUME NEW x \in Past PROVE Cardinality(Credit!CreditOf(x)) <= 1
  <2>1. \A c, d \in Credit!CreditOf(x) : c = d
    BY DEF Credit!CreditOf, CreditInv, Founded
  <2> QED  BY <1>1, <2>1
<1>3. ASSUME ~overlapped, NEW c \in Credits PROVE Cardinality(Credit!Launched(c)) <= 1
  <2>1. \A s, t \in Credit!Launched(c) : s = t
    BY <1>3 DEF CreditInv, CreditInTurn, LaunchedOnce
  <2> QED  BY <1>1, <2>1
<1> QED  BY <1>2, <1>3, CreditCounts DEF CreditInv, Shaped, Founded, Credit!CreditPaysOnce

(* However many actors claim, start, confirm, cancel and release, a failed session is *)
(* replaced by one credit; a reserved credit is that of a start under way and a       *)
(* consumed one that of a launched session; and of requests that follow each other a  *)
(* credit pays for one session (session-credit/service.ts), for every number of       *)
(* sessions, credits, keys and requests.                                              *)
THEOREM CreditsStaySafe == Credit!Spec => [](Credit!CreditPaysOnce /\ Credit!CreditFollowsSession)
<1>1. Credit!Init => CreditInv
  BY CreditInitHolds
<1>2. CreditInv /\ [Credit!Next]_(Credit!vars) => CreditInv'
  BY CreditNextHolds
<1>3. CreditInv => Credit!CreditPaysOnce /\ Credit!CreditFollowsSession
  BY CreditInvSuffices
<1> QED  BY <1>1, <1>2, <1>3, PTL DEF Credit!Spec

-----------------------------------------------------------------------------
(* The launch codes. *)

\* The instance counts as the library does.
LEMMA LaunchCounts ==
  ASSUME NEW S
  PROVE  Launch!Cardinality(S) = Cardinality(S)
  BY DEF Launch!Cardinality, Cardinality

Dispatches == [op : {"dispatch"}, attempt : {{a} : a \in Attempts}, key : {{}}, jti : {{}}]
Exchanges  == [op : {"exchange"}, attempt : {{a} : a \in Attempts}, key : {{k} : k \in Keys},
               jti : {{j} : j \in Jtis}]
Others     == [op : Launch!Ops \ {"dispatch", "exchange"}, attempt : {{}}, key : {{}}, jti : {{}}]
Works      == Dispatches \cup Exchanges \cup Others
LaunchShaped == Launch!TypeOK /\ calls \in [Procs -> Works]

\* What is exchanged was dispatched, and what is being dispatched was not.
LaunchApart(w) ==
  /\ w.op = "dispatch" => w.attempt \cap dispatched = {}
  /\ w.op = "exchange" => w.attempt \subseteq dispatched
Codes ==
  /\ launch.attempt \subseteq dispatched
  /\ \A p \in Procs : LaunchApart(calls[p])
  /\ \A p, q \in Procs : p # q /\ calls[p].op = "dispatch" /\ calls[q].op = "dispatch"
                           => calls[p].attempt \cap calls[q].attempt = {}

\* A prepared code is one that nothing was accepted for yet, whichever it is.
Paid ==
  /\ IsFiniteSet(dispatched) /\ IsFiniteSet(replays)
  /\ taken = Cardinality(replays) /\ taken <= Cardinality(dispatched)
  /\ launch.status = "prepared" => taken < Cardinality(dispatched)

\* Of requests that follow each other, an exchange finds the code it has checked, unspent.
SpentOnce == \A a \in Attempts :
  /\ uses[a] <= 1
  /\ uses[a] = 1 => a \in dispatched /\ (launch.status = "prepared" => launch.attempt # {a})
LaunchInTurn ==
  ~overlapped =>
    /\ \A p, q \in Procs : calls[p].op # "idle" /\ calls[q].op # "idle" => p = q
    /\ \A p \in Procs : calls[p].op = "exchange" /\ launch.status = "prepared"
                          => launch.attempt = calls[p].attempt
    /\ SpentOnce

LaunchInv == LaunchShaped /\ Codes /\ Paid /\ LaunchInTurn

LEMMA LaunchInitHolds == Launch!Init => LaunchInv
<1> SUFFICES ASSUME Launch!Init PROVE LaunchInv
  OBVIOUS
<1>1. Launch!Idle \in Others /\ Launch!Idle \in Launch!Work
  BY DEF Launch!Idle, Others, Launch!Ops, Launch!Work
<1>2. calls \in [Procs -> Works] /\ \A p \in Procs : calls[p] = Launch!Idle
  BY <1>1 DEF Launch!Init, Works
<1>3. Launch!TypeOK
  BY <1>1 DEF Launch!Init, Launch!TypeOK, Launch!NoLaunch
<1>4. IsFiniteSet({}) /\ Cardinality({}) = 0
  BY FS_EmptySet
<1>5. Paid
  BY <1>4 DEF Launch!Init, Paid, Launch!NoLaunch
<1>6. Codes
  BY <1>2 DEF Launch!Init, Codes, LaunchApart, Launch!Idle, Launch!NoLaunch
<1>7. LaunchInTurn
  BY <1>2 DEF Launch!Init, LaunchInTurn, SpentOnce, Launch!Idle
<1> QED  BY <1>2, <1>3, <1>5, <1>6, <1>7 DEF LaunchInv, LaunchShaped

LEMMA WorksAreWork == Works \subseteq Launch!Work
  BY DEF Works, Dispatches, Exchanges, Others, Launch!Work, Launch!Ops

\* A request goes on as another one, and the others stay.
LEMMA GoesOn ==
  ASSUME LaunchInv, NEW p \in Procs, NEW w \in Works, calls' = [calls EXCEPT ![p] = w]
  PROVE  /\ calls' \in [Procs -> Works] /\ calls' \in [Procs -> Launch!Work]
         /\ calls'[p] = w
         /\ \A q \in Procs : q # p => calls'[q] = calls[q]
  BY WorksAreWork DEF LaunchInv, LaunchShaped

LEMMA LaunchIdleIsWork == Launch!Idle \in Works /\ Launch!Idle.op = "idle"
  BY DEF Launch!Idle, Works, Others, Launch!Ops

\* A request's reads are checked: its codes are apart from those under way.
LEMMA CheckedStep ==
  ASSUME LaunchInv, NEW p \in Procs, NEW w \in Works, Launch!Checked(p, w), LaunchApart(w),
         w.op = "dispatch" => \A q \in Procs : w.attempt \cap calls[q].attempt = {},
         w.op = "exchange" => launch.attempt = w.attempt
  PROVE  LaunchInv'
<1>1. /\ UNCHANGED <<launched, launch, grant, exchanges, replays, expired, dispatched, uses, taken>>
      /\ overlapped' = (overlapped \/ \E q \in Procs : calls[q].op # "idle")
      /\ calls' = [calls EXCEPT ![p] = w] /\ calls[p].op = "idle"
  BY DEF Launch!Checked, Launch!launchVars, Launch!counts, Launch!Busy
<1>2. /\ calls' \in [Procs -> Works] /\ calls' \in [Procs -> Launch!Work] /\ calls'[p] = w
      /\ \A q \in Procs : q # p => calls'[q] = calls[q]
  BY <1>1, GoesOn
<1>3. Launch!TypeOK'
  <2>1. overlapped' \in BOOLEAN
    BY <1>1
  <2> QED  BY <1>1, <1>2, <2>1 DEF LaunchInv, LaunchShaped, Launch!TypeOK
<1>4. Codes'
  <2>1. launch'.attempt \subseteq dispatched'
    BY <1>1 DEF LaunchInv, Codes
  <2>2. \A q \in Procs : LaunchApart(calls'[q])
    BY <1>1, <1>2 DEF LaunchInv, Codes
  <2>3. \A q \in Procs : (LaunchApart(calls[q]))'
    BY <1>1, <2>2 DEF LaunchApart
  <2>4. \A q, r \in Procs : q # r /\ calls'[q].op = "dispatch" /\ calls'[r].op = "dispatch"
                              => calls'[q].attempt \cap calls'[r].attempt = {}
    BY <1>1, <1>2 DEF LaunchInv, Codes
  <2> QED  BY <2>1, <2>3, <2>4 DEF Codes
<1>5. Paid'
  BY <1>1 DEF LaunchInv, Paid
<1>6. LaunchInTurn'
  BY <1>1, <1>2 DEF LaunchInv, LaunchInTurn, SpentOnce
<1> QED  BY <1>2, <1>3, <1>4, <1>5, <1>6 DEF LaunchInv, LaunchShaped

\* A request is over, or goes on without a code, and spends and dispatches none.
LEMMA QuietStep ==
  ASSUME LaunchInv, NEW p \in Procs, NEW w \in Others, calls' = [calls EXCEPT ![p] = w],
         w.op = "idle" \/ calls[p].op # "idle",
         UNCHANGED <<replays, dispatched, uses, taken, overlapped>>,
         expired' \subseteq Attempts,
         launch' = launch \/ (launch'.status # "prepared" /\ launch'.attempt \subseteq launch.attempt),
         Launch!TypeOK'
  PROVE  LaunchInv'
<1>1. w \in Works /\ w.op \notin {"dispatch", "exchange"}
  BY DEF Works, Others
<1>2. /\ calls' \in [Procs -> Works] /\ calls'[p] = w
      /\ \A q \in Procs : q # p => calls'[q] = calls[q]
  BY <1>1, GoesOn
<1>3. Codes'
  <2>1. launch'.attempt \subseteq dispatched'
    BY DEF LaunchInv, Codes
  <2>2. \A q \in Procs : LaunchApart(calls'[q])
    BY <1>1, <1>2 DEF LaunchInv, Codes, LaunchApart
  <2>3. \A q \in Procs : (LaunchApart(calls[q]))'
    BY <2>2 DEF LaunchApart
  <2>4. \A q, r \in Procs : q # r /\ calls'[q].op = "dispatch" /\ calls'[r].op = "dispatch"
                              => calls'[q].attempt \cap calls'[r].attempt = {}
    BY <1>1, <1>2 DEF LaunchInv, Codes
  <2> QED  BY <2>1, <2>3, <2>4 DEF Codes
<1>4. Paid'
  BY DEF LaunchInv, Paid
<1>5. LaunchInTurn'
  BY <1>1, <1>2 DEF LaunchInv, LaunchInTurn, SpentOnce
<1> QED  BY <1>2, <1>3, <1>4, <1>5 DEF LaunchInv, LaunchShaped

\* The reads of the requests.
LEMMA ReadSteps ==
  ASSUME LaunchInv, NEW p \in Procs,
         \/ Launch!DispatchRead(p)
         \/ \E a \in Attempts, k \in Keys, j \in Jtis : Launch!ExchangeRead(p, a, k, j)
         \/ Launch!ConfirmRead(p) \/ Launch!FinalizeRead(p) \/ Launch!EndRead(p)
  PROVE  LaunchInv'
<1>1. CASE Launch!DispatchRead(p)
  <2>1. PICK a \in Attempts \ dispatched :
          /\ \A q \in Procs : a \notin calls[q].attempt
          /\ Launch!Checked(p, [Launch!Idle EXCEPT !.op = "dispatch", !.attempt = {a}])
    BY <1>1 DEF Launch!DispatchRead
  <2> DEFINE w == [Launch!Idle EXCEPT !.op = "dispatch", !.attempt = {a}]
  <2>2. /\ w.op = "dispatch" /\ w.attempt = {a} /\ w.key = {} /\ w.jti = {}
        /\ w \in [op : {"dispatch"}, attempt : {{b} : b \in Attempts}, key : {{}}, jti : {{}}]
    BY DEF Launch!Idle
  <2>3. w \in Works
    BY <2>2 DEF Works, Dispatches
  <2>4. LaunchApart(w) /\ w.op = "dispatch" /\ w.attempt = {a}
    BY <2>1, <2>2 DEF LaunchApart
  <2>5. Launch!Checked(p, w)
    BY <2>1
  <2>6. \A q \in Procs : w.attempt \cap calls[q].attempt = {}
    BY <2>1, <2>4
  <2> HIDE DEF w
  <2> QED  BY <2>3, <2>4, <2>5, <2>6, CheckedStep
<1>2. ASSUME NEW a \in Attempts, NEW k \in Keys, NEW j \in Jtis, Launch!ExchangeRead(p, a, k, j)
      PROVE  LaunchInv'
  <2> DEFINE w == [op |-> "exchange", attempt |-> {a}, key |-> {k}, jti |-> {j}]
  <2>1. Launch!Checked(p, w) /\ launch.attempt = {a}
    BY <1>2 DEF Launch!ExchangeRead
  <2>2. w \in Works
    BY DEF Works, Exchanges
  <2>3. LaunchApart(w) /\ w.op = "exchange" /\ w.attempt = {a}
    BY <2>1 DEF LaunchApart, LaunchInv, Codes
  <2> HIDE DEF w
  <2> QED  BY <2>1, <2>2, <2>3, CheckedStep
<1>3. ASSUME NEW o \in {"confirm", "finalize", "release", "revoke"}, Launch!Checked(p, [Launch!Idle EXCEPT !.op = o])
      PROVE  LaunchInv'
  <2> DEFINE w == [Launch!Idle EXCEPT !.op = o]
  <2>1. w = [op |-> o, attempt |-> {}, key |-> {}, jti |-> {}]
    BY DEF Launch!Idle
  <2>2. w \in Works /\ w.op = o
    BY <2>1 DEF Works, Others, Launch!Ops
  <2>3. LaunchApart(w)
    BY <2>2 DEF LaunchApart
  <2>4. Launch!Checked(p, w)
    BY <1>3
  <2> HIDE DEF w
  <2> QED  BY <2>2, <2>3, <2>4, CheckedStep
<1>4. CASE Launch!ConfirmRead(p) \/ Launch!FinalizeRead(p) \/ Launch!EndRead(p)
  <2>1. \E o \in {"confirm", "finalize", "release", "revoke"} : Launch!Checked(p, [Launch!Idle EXCEPT !.op = o])
    BY <1>4 DEF Launch!ConfirmRead, Launch!FinalizeRead, Launch!EndRead
  <2> QED  BY <2>1, <1>3
<1> QED  BY <1>1, <1>2, <1>4

LEMMA DispatchCommitStep ==
  ASSUME LaunchInv, NEW p \in Procs, Launch!DispatchCommit(p)
  PROVE  LaunchInv'
<1>1. /\ calls[p].op = "dispatch" /\ calls' = [calls EXCEPT ![p] = Launch!Idle]
      /\ launch' = [status |-> "prepared", attempt |-> calls[p].attempt]
      /\ dispatched' = dispatched \cup calls[p].attempt
      /\ UNCHANGED <<launched, grant, exchanges, replays, expired, uses, taken, overlapped>>
  BY DEF Launch!DispatchCommit, Launch!Busy, Launch!Done, Launch!counts
<1>2. /\ calls' \in [Procs -> Works] /\ calls' \in [Procs -> Launch!Work] /\ calls'[p].op = "idle"
      /\ \A q \in Procs : q # p => calls'[q] = calls[q]
  BY <1>1, GoesOn, LaunchIdleIsWork
<1>3. calls[p] \in Works
  BY DEF LaunchInv, LaunchShaped
<1>4. PICK a \in Attempts : calls[p].attempt = {a}
  BY <1>1, <1>3 DEF Works, Dispatches, Exchanges, Others
<1>5. a \notin dispatched
  BY <1>1, <1>4 DEF LaunchInv, Codes, LaunchApart
<1>6. launch'.status = "prepared" /\ launch'.attempt = {a} /\ dispatched' = dispatched \cup {a}
  BY <1>1, <1>4
<1>7. Launch!TypeOK'
  <2>1. launch' \in [status : {"none", "prepared", "exchanged", "revoked"}, attempt : SUBSET Attempts]
    BY <1>1, <1>4
  <2> QED  BY <1>1, <1>2, <1>6, <2>1 DEF LaunchInv, LaunchShaped, Launch!TypeOK
<1>8. Codes'
  <2>1. launch'.attempt \subseteq dispatched'
    BY <1>6
  <2>2. ASSUME NEW q \in Procs PROVE (LaunchApart(calls[q]))'
    <3>1. CASE q = p
      BY <1>2, <3>1 DEF LaunchApart
    <3>2. CASE q # p
      <4>1. LaunchApart(calls[q]) /\ calls'[q] = calls[q]
        BY <1>2, <3>2 DEF LaunchInv, Codes
      <4>2. calls[q].op = "dispatch" => calls[q].attempt \cap {a} = {}
        BY <1>1, <1>4, <3>2 DEF LaunchInv, Codes
      <4> QED  BY <1>6, <4>1, <4>2 DEF LaunchApart
    <3> QED  BY <3>1, <3>2
  <2>3. \A q, r \in Procs : q # r /\ calls'[q].op = "dispatch" /\ calls'[r].op = "dispatch"
                              => calls'[q].attempt \cap calls'[r].attempt = {}
    BY <1>2 DEF LaunchInv, Codes
  <2> QED  BY <2>1, <2>2, <2>3 DEF Codes
<1>9. Paid'
  <2>1. IsFiniteSet(dispatched) /\ IsFiniteSet(replays) /\ taken = Cardinality(replays)
        /\ taken <= Cardinality(dispatched)
    BY DEF LaunchInv, Paid
  <2>2. IsFiniteSet(dispatched') /\ Cardinality(dispatched') = Cardinality(dispatched) + 1
    BY <1>5, <1>6, <2>1, FS_AddElement
  <2>3. taken \in Nat /\ Cardinality(dispatched) \in Nat
    BY <2>1, FS_CardinalityType DEF LaunchInv, LaunchShaped, Launch!TypeOK
  <2> QED  BY <1>1, <2>1, <2>2, <2>3 DEF Paid
<1>10. LaunchInTurn'
  <2> SUFFICES ASSUME ~overlapped' PROVE LaunchInTurn'
    BY DEF LaunchInTurn
  <2>1. ~overlapped
    BY <1>1
  <2>2. /\ \A q, r \in Procs : calls[q].op # "idle" /\ calls[r].op # "idle" => q = r
        /\ SpentOnce
    BY <2>1 DEF LaunchInv, LaunchInTurn
  <2>3. uses[a] # 1
    BY <1>5, <2>2 DEF SpentOnce
  <2>4. SpentOnce'
    BY <1>1, <1>6, <2>2, <2>3 DEF SpentOnce
  <2>5. \A q \in Procs : calls'[q].op = "idle"
    BY <1>1, <1>2, <2>2
  <2> QED  BY <2>4, <2>5 DEF LaunchInTurn
<1> QED  BY <1>2, <1>7, <1>8, <1>9, <1>10 DEF LaunchInv, LaunchShaped

LEMMA ExchangeCommitStep ==
  ASSUME LaunchInv, NEW p \in Procs, Launch!ExchangeCommit(p)
  PROVE  LaunchInv'
<1>1. /\ calls[p].op = "exchange" /\ calls' = [calls EXCEPT ![p] = Launch!Idle]
      /\ UNCHANGED <<launched, expired, dispatched, overlapped>>
  BY DEF Launch!ExchangeCommit, Launch!Busy, Launch!Done
<1>2. /\ calls' \in [Procs -> Works] /\ calls' \in [Procs -> Launch!Work] /\ calls'[p].op = "idle"
      /\ \A q \in Procs : q # p => calls'[q] = calls[q]
  BY <1>1, GoesOn, LaunchIdleIsWork
<1>3. calls[p] \in Works
  BY DEF LaunchInv, LaunchShaped
<1>4. PICK a \in Attempts, j \in Jtis : calls[p].attempt = {a} /\ calls[p].jti = {j}
  BY <1>1, <1>3 DEF Works, Dispatches, Exchanges, Others
<1>5. CASE Launch!FirstOfItsKeys(calls[p]) /\ Launch!StillPrepared(calls[p])
  <2>1. /\ launch' = Launch!Exchanged(launch) /\ grant' = Launch!GrantOf(grant) /\ replays' = replays \cup {j}
        /\ exchanges' = [k \in Keys |-> IF k \in calls[p].key THEN calls[p].attempt ELSE exchanges[k]]
        /\ uses' = [b \in Attempts |-> IF b \in {a} THEN uses[b] + 1 ELSE uses[b]]
        /\ taken' = taken + 1
    BY <1>4, <1>5 DEF Launch!ExchangeCommit
  <2>2. launch.status = "prepared" /\ j \notin replays
    BY <1>4, <1>5 DEF Launch!FirstOfItsKeys, Launch!StillPrepared
  <2>3. launch' \in [status : {"none", "prepared", "exchanged", "revoked"}, attempt : SUBSET Attempts]
        /\ launch'.status = "exchanged" /\ launch'.attempt = launch.attempt
    BY <2>1 DEF Launch!Exchanged, LaunchInv, LaunchShaped, Launch!TypeOK
  <2>4. Launch!TypeOK'
    <3>1. grant' \in {"none", "provisional", "active", "revoked"} /\ grant' # "none"
      BY <2>1 DEF Launch!GrantOf, LaunchInv, LaunchShaped, Launch!TypeOK
    <3>2. exchanges' \in [Keys -> SUBSET Attempts]
      BY <1>4, <2>1 DEF LaunchInv, LaunchShaped, Launch!TypeOK
    <3>3. uses' \in [Attempts -> Nat] /\ taken' \in Nat /\ replays' \subseteq Jtis
      BY <2>1 DEF LaunchInv, LaunchShaped, Launch!TypeOK
    <3>4. launch'.attempt # {}
      BY <2>2, <2>3 DEF LaunchInv, LaunchShaped, Launch!TypeOK
    <3> QED  BY <1>1, <1>2, <2>3, <3>1, <3>2, <3>3, <3>4 DEF LaunchInv, LaunchShaped, Launch!TypeOK
  <2>5. Codes'
    <3>1. \A q \in Procs : LaunchApart(calls'[q])
      BY <1>2 DEF LaunchInv, Codes, LaunchApart
    <3>2. \A q \in Procs : (LaunchApart(calls[q]))'
      BY <1>1, <3>1 DEF LaunchApart
    <3>3. \A q, r \in Procs : q # r /\ calls'[q].op = "dispatch" /\ calls'[r].op = "dispatch"
                                => calls'[q].attempt \cap calls'[r].attempt = {}
      BY <1>2 DEF LaunchInv, Codes
    <3> QED  BY <1>1, <2>3, <3>2, <3>3 DEF Codes, LaunchInv
  <2>6. Paid'
    <3>1. IsFiniteSet(dispatched) /\ IsFiniteSet(replays) /\ taken = Cardinality(replays)
          /\ taken < Cardinality(dispatched)
      BY <2>2 DEF LaunchInv, Paid
    <3>2. IsFiniteSet(replays') /\ Cardinality(replays') = Cardinality(replays) + 1
      BY <2>1, <2>2, <3>1, FS_AddElement
    <3>3. taken \in Nat /\ Cardinality(dispatched) \in Nat
      BY <3>1, FS_CardinalityType DEF LaunchInv, LaunchShaped, Launch!TypeOK
    <3> QED  BY <1>1, <2>1, <2>3, <3>1, <3>2, <3>3 DEF Paid
  <2>7. LaunchInTurn'
    <3> SUFFICES ASSUME ~overlapped' PROVE LaunchInTurn'
      BY DEF LaunchInTurn
    <3>1. /\ \A q, r \in Procs : calls[q].op # "idle" /\ calls[r].op # "idle" => q = r
          /\ SpentOnce /\ launch.attempt = {a}
      BY <1>1, <1>4, <2>2 DEF LaunchInv, LaunchInTurn
    <3>2. uses[a] # 1 /\ uses \in [Attempts -> Nat] /\ uses[a] <= 1 /\ a \in dispatched
      BY <2>2, <3>1 DEF SpentOnce, LaunchInv, LaunchShaped, Launch!TypeOK, Codes
    <3>3. SpentOnce'
      BY <1>1, <2>1, <2>3, <3>1, <3>2 DEF SpentOnce
    <3>4. \A q \in Procs : calls'[q].op = "idle"
      BY <1>1, <1>2, <3>1
    <3> QED  BY <3>3, <3>4 DEF LaunchInTurn
  <2> QED  BY <1>2, <2>4, <2>5, <2>6, <2>7 DEF LaunchInv, LaunchShaped
<1>6. CASE ~(Launch!FirstOfItsKeys(calls[p]) /\ Launch!StillPrepared(calls[p]))
  <2>1. UNCHANGED <<launch, grant, exchanges, replays, uses, taken>>
    BY <1>6 DEF Launch!ExchangeCommit, Launch!launchVars, Launch!counts
  <2>2. Launch!TypeOK' /\ expired' \subseteq Attempts
    BY <1>1, <1>2, <2>1 DEF LaunchInv, LaunchShaped, Launch!TypeOK
  <2>3. Launch!Idle \in Others /\ Launch!Idle.op = "idle"
    BY DEF Launch!Idle, Others, Launch!Ops
  <2> QED  BY <1>1, <2>1, <2>2, <2>3, QuietStep
<1> QED  BY <1>5, <1>6

\* The other commits touch the grant and the launch state as a whole, and no code.
LEMMA OtherCommits ==
  ASSUME LaunchInv, NEW p \in Procs,
         Launch!ConfirmCommit(p) \/ Launch!FinalizeCommit(p) \/ Launch!EndCommit(p) \/ Launch!Purge(p) \/ Launch!Abandon(p)
  PROVE  LaunchInv'
<1>1. Launch!Idle \in Others /\ Launch!Idle.op = "idle" /\ Launch!Idle \in Works
  BY DEF Launch!Idle, Others, Launch!Ops, Works
<1>2. Launch!TypeOK /\ calls[p] \in Works /\ launch.attempt \in SUBSET Attempts
  BY DEF LaunchInv, LaunchShaped, Launch!TypeOK
<1>3. CASE Launch!ConfirmCommit(p)
  <2>1. /\ calls' = [calls EXCEPT ![p] = Launch!Idle]
        /\ UNCHANGED <<launch, exchanges, replays, expired, dispatched, uses, taken, overlapped>>
        /\ launched' \in {"starting", "active", "ended"}
        /\ grant' \in {"none", "provisional", "active", "revoked"} /\ (grant # "none" => grant' # "none")
    BY <1>2, <1>3 DEF Launch!ConfirmCommit, Launch!Done, Launch!history, Launch!counts, Launch!Activated,
       Launch!TypeOK
  <2>2. calls' \in [Procs -> Launch!Work]
    BY <1>1, <2>1, GoesOn
  <2>3. Launch!TypeOK' /\ expired' \subseteq Attempts
    BY <1>2, <2>1, <2>2 DEF Launch!TypeOK
  <2> QED  BY <1>1, <2>1, <2>3, QuietStep
<1>4. CASE Launch!FinalizeCommit(p)
  <2>1. /\ calls' = [calls EXCEPT ![p] = Launch!Idle]
        /\ UNCHANGED <<exchanges, replays, expired, dispatched, uses, taken, overlapped>>
        /\ launched' \in {"starting", "active", "ended"}
        /\ grant' \in {"none", "provisional", "active", "revoked"} /\ (grant # "none" => grant' # "none")
    BY <1>2, <1>4 DEF Launch!FinalizeCommit, Launch!Done, Launch!history, Launch!counts, Launch!Revoked,
       Launch!TypeOK
  <2>2. calls' \in [Procs -> Launch!Work]
    BY <1>1, <2>1, GoesOn
  <2>3. CASE launch = Launch!NoLaunch
    <3>1. launch' = launch
      BY <1>4, <2>3 DEF Launch!FinalizeCommit
    <3>2. Launch!TypeOK' /\ expired' \subseteq Attempts
      BY <1>2, <2>1, <2>2, <3>1 DEF Launch!TypeOK
    <3> QED  BY <1>1, <2>1, <3>1, <3>2, QuietStep
  <2>4. CASE launch # Launch!NoLaunch
    <3>1. launch' = [launch EXCEPT !.status = "revoked"]
      BY <1>4, <2>4 DEF Launch!FinalizeCommit
    <3>2. /\ launch' \in [status : {"none", "prepared", "exchanged", "revoked"}, attempt : SUBSET Attempts]
          /\ launch'.status = "revoked" /\ launch'.attempt = launch.attempt
      BY <1>2, <3>1 DEF Launch!TypeOK
    <3>3. launch.attempt # {}
      <4>1. launch = [status |-> launch.status, attempt |-> launch.attempt]
        BY <1>2 DEF Launch!TypeOK
      <4> QED  BY <1>2, <2>4, <4>1 DEF Launch!TypeOK, Launch!NoLaunch
    <3>4. Launch!TypeOK' /\ expired' \subseteq Attempts
      BY <1>2, <2>1, <2>2, <3>2, <3>3 DEF Launch!TypeOK
    <3> QED  BY <1>1, <2>1, <3>2, <3>4, QuietStep
  <2> QED  BY <2>3, <2>4
<1>5. CASE Launch!EndCommit(p)
  <2> DEFINE w == [calls[p] EXCEPT !.op = "purge"]
  <2>1. /\ calls[p].op \in {"release", "revoke"} /\ calls' = [calls EXCEPT ![p] = w]
        /\ UNCHANGED <<launch, grant, exchanges, replays, expired, dispatched, uses, taken, overlapped>>
        /\ launched' \in {"starting", "active", "ended"}
    BY <1>2, <1>5 DEF Launch!EndCommit, Launch!launchVars, Launch!history, Launch!counts, Launch!TypeOK
  <2>2. w \in Others
    BY <1>2, <2>1 DEF Works, Dispatches, Exchanges, Others, Launch!Ops
  <2> HIDE DEF w
  <2>3. calls' \in [Procs -> Launch!Work]
    BY <2>1, <2>2, GoesOn DEF Works
  <2>4. Launch!TypeOK' /\ expired' \subseteq Attempts
    BY <1>2, <2>1, <2>3 DEF Launch!TypeOK
  <2> QED  BY <2>1, <2>2, <2>4, QuietStep
<1>6. CASE Launch!Purge(p)
  <2>1. /\ calls' = [calls EXCEPT ![p] = Launch!Idle]
        /\ UNCHANGED <<launched, replays, expired, dispatched, uses, taken, overlapped>>
        /\ launch' = Launch!NoLaunch /\ grant' = "none"
        /\ exchanges' = [k \in Keys |-> exchanges[k] \ launch.attempt]
    BY <1>6 DEF Launch!Purge, Launch!Done, Launch!Deleted, Launch!history, Launch!counts
  <2>2. calls' \in [Procs -> Launch!Work]
    BY <1>1, <2>1, GoesOn
  <2>3. /\ launch'.status = "none" /\ launch'.attempt = {}
        /\ launch' \in [status : {"none", "prepared", "exchanged", "revoked"}, attempt : SUBSET Attempts]
    BY <2>1 DEF Launch!NoLaunch
  <2>4. exchanges' \in [Keys -> SUBSET Attempts]
    BY <1>2, <2>1 DEF Launch!TypeOK
  <2>5. Launch!TypeOK' /\ expired' \subseteq Attempts
    BY <1>2, <2>1, <2>2, <2>3, <2>4 DEF Launch!TypeOK
  <2> QED  BY <1>1, <2>1, <2>3, <2>5, QuietStep
<1>7. CASE Launch!Abandon(p)
  <2>1. /\ calls' = [calls EXCEPT ![p] = Launch!Idle]
        /\ UNCHANGED <<launched, launch, grant, exchanges, replays, expired, dispatched, uses, taken, overlapped>>
    BY <1>7 DEF Launch!Abandon, Launch!Done, Launch!launchVars, Launch!history, Launch!counts
  <2>2. calls' \in [Procs -> Launch!Work]
    BY <1>1, <2>1, GoesOn
  <2>3. Launch!TypeOK' /\ expired' \subseteq Attempts
    BY <1>2, <2>1, <2>2 DEF Launch!TypeOK
  <2> QED  BY <1>1, <2>1, <2>3, QuietStep
<1> QED  BY <1>3, <1>4, <1>5, <1>6, <1>7

\* The invariant is of the variables but the expiry of codes, and of whether requests overlapped.
LEMMA LaunchSameVars ==
  ASSUME LaunchInv, UNCHANGED <<launched, launch, grant, exchanges, replays, dispatched, uses, taken, calls>>,
         expired' \subseteq Attempts, overlapped' \in BOOLEAN, overlapped => overlapped'
  PROVE  LaunchInv'
<1>1. Launch!TypeOK'
  BY DEF LaunchInv, LaunchShaped, Launch!TypeOK
<1>2. Codes'
  <2>1. \A q \in Procs : (LaunchApart(calls[q]))'
    BY DEF LaunchInv, Codes, LaunchApart
  <2> QED  BY <2>1 DEF LaunchInv, Codes
<1>3. Paid' /\ LaunchInTurn'
  BY DEF LaunchInv, Paid, LaunchInTurn, SpentOnce
<1> QED  BY <1>1, <1>2, <1>3 DEF LaunchInv, LaunchShaped

LEMMA LaunchNextHolds == LaunchInv /\ [Launch!Next]_(Launch!vars) => LaunchInv'
<1> SUFFICES ASSUME LaunchInv, [Launch!Next]_(Launch!vars) PROVE LaunchInv'
  OBVIOUS
<1>1. CASE UNCHANGED Launch!vars
  BY <1>1, LaunchSameVars DEF Launch!vars, Launch!launchVars, Launch!history, Launch!counts, LaunchInv,
     LaunchShaped, Launch!TypeOK
<1>2. CASE Launch!CodeExpires
  <2>1. UNCHANGED <<launched, launch, grant, exchanges, replays, dispatched, uses, taken, overlapped, calls>>
        /\ expired' \subseteq Attempts
    BY <1>2 DEF Launch!CodeExpires, Launch!launchVars, Launch!history, Launch!counts, LaunchInv,
       LaunchShaped, Launch!TypeOK
  <2> QED  BY <2>1, LaunchSameVars DEF LaunchInv, LaunchShaped, Launch!TypeOK
<1>3. ASSUME NEW p \in Procs, Launch!Handler(p) \/ Launch!Abandon(p)
      PROVE  LaunchInv'
  BY <1>3, ReadSteps, DispatchCommitStep, ExchangeCommitStep, OtherCommits DEF Launch!Handler
<1> QED  BY <1>1, <1>2, <1>3 DEF Launch!Next

LEMMA LaunchInvSuffices == LaunchInv => Launch!TypeOK /\ Launch!CodesAreSpentOnce
  BY LaunchCounts DEF LaunchInv, LaunchShaped, Paid, LaunchInTurn, SpentOnce, Launch!CodesAreSpentOnce

(* No more exchanges are accepted than codes were dispatched, and each has spent a    *)
(* client assertion of its own, however exchanges, dispatches and purges overlap; and *)
(* a code is accepted once where requests follow each other (app-launch/service.ts),  *)
(* for every number of attempts, keys, assertions and requests.                       *)
THEOREM CodesStaySpent == Launch!Spec => []Launch!CodesAreSpentOnce
<1>1. Launch!Init => LaunchInv
  BY LaunchInitHolds
<1>2. LaunchInv /\ [Launch!Next]_(Launch!vars) => LaunchInv'
  BY LaunchNextHolds
<1>3. LaunchInv => Launch!CodesAreSpentOnce
  BY LaunchInvSuffices
<1> QED  BY <1>1, <1>2, <1>3, PTL DEF Launch!Spec

-----------------------------------------------------------------------------
(* The composition: one part takes a step and the others stay; only whether requests  *)
(* have overlapped is said of all of them.                                             *)

state == <<part, vars, creditPart, launchPart>>
AllParts == IInv /\ CreditInv /\ LaunchInv

\* No step makes requests that have overlapped such that have not.
LEMMA ClockOverlaps ==
  ASSUME Next, overlapped
  PROVE  overlapped'
<1>1. ASSUME NEW p \in Procs, Handler(p) PROVE overlapped'
  BY <1>1 DEF Handler, DisconnectRead, DisconnectCommit, LimitCommit, Apply, ResumeRead, ResumeCommit,
     InterruptCommit, MarkRead, MarkCommit, FinalizeRead, EndByLimitRead, FinalizeCommit, SweepRead,
     SweepCommit, Arrive, history
<1>2. ASSUME NEW p \in Procs, Abandon(p) PROVE overlapped'
  BY <1>2 DEF Abandon, history
<1>3. CASE Tick
  BY <1>3 DEF Tick
<1> QED  BY <1>1, <1>2, <1>3 DEF Next

LEMMA CreditOverlaps ==
  ASSUME Credit!Next, overlapped
  PROVE  overlapped'
<1>1. ASSUME NEW p \in Procs, Credit!Handler(p) PROVE overlapped'
  BY <1>1 DEF Credit!Handler, Credit!ClaimRead, Credit!ClaimCommit, Credit!StartRead, Credit!StartCommit,
     Credit!ConfirmRead, Credit!ConsumeRead, Credit!ConsumeCommit, Credit!CancelRead, Credit!CancelCommit,
     Credit!SweepRead, Credit!ReleaseReadCredit, Credit!ReleaseCredit, Credit!ReleaseRow,
     Credit!Arrive, Credit!Go, Credit!Done
<1>2. ASSUME NEW p \in Procs, Credit!Abandon(p) PROVE overlapped'
  BY <1>2 DEF Credit!Abandon, Credit!Done
<1>3. CASE Credit!Expire \/ Credit!TimePasses \/ \E s \in Sessions : Credit!EndSession(s)
  BY <1>3 DEF Credit!Expire, Credit!TimePasses, Credit!EndSession
<1> QED  BY <1>1, <1>2, <1>3 DEF Credit!Next

LEMMA LaunchOverlaps ==
  ASSUME Launch!Next, overlapped
  PROVE  overlapped'
<1>1. ASSUME NEW p \in Procs, Launch!Handler(p) PROVE overlapped'
  BY <1>1 DEF Launch!Handler, Launch!DispatchRead, Launch!DispatchCommit, Launch!ExchangeRead,
     Launch!ExchangeCommit, Launch!ConfirmRead, Launch!ConfirmCommit, Launch!FinalizeRead,
     Launch!FinalizeCommit, Launch!EndRead, Launch!EndCommit, Launch!Purge, Launch!Checked, Launch!history
<1>2. ASSUME NEW p \in Procs, Launch!Abandon(p) PROVE overlapped'
  BY <1>2 DEF Launch!Abandon, Launch!history
<1>3. CASE Launch!CodeExpires
  BY <1>3 DEF Launch!CodeExpires, Launch!history
<1> QED  BY <1>1, <1>2, <1>3 DEF Launch!Next

LEMMA PartsStart == MCInit => AllParts
  BY InitHolds, CreditInitHolds, LaunchInitHolds DEF MCInit, AllParts

LEMMA PartsStay == AllParts /\ [MCNext]_state => AllParts'
<1> SUFFICES ASSUME AllParts, [MCNext]_state PROVE AllParts'
  OBVIOUS
<1>1. IInv /\ CreditInv /\ LaunchInv
  BY DEF AllParts
<1>2. CASE Next /\ UNCHANGED <<creditPart, launchPart>>
  <2>1. IInv'
    BY <1>1, <1>2, NextHolds
  <2>2. overlapped' \in BOOLEAN /\ (overlapped => overlapped')
    BY <1>2, <2>1, ClockOverlaps DEF IInv, TypeOK
  <2>3. CreditInv' /\ LaunchInv'
    BY <1>1, <1>2, <2>2, CreditSameVars, LaunchSameVars
       DEF creditPart, launchPart, LaunchInv, LaunchShaped, Launch!TypeOK
  <2> QED  BY <2>1, <2>3 DEF AllParts
<1>3. CASE Credit!Next /\ UNCHANGED <<clockPart, launchPart>>
  <2>1. CreditInv'
    BY <1>1, <1>3, CreditNextHolds
  <2>2. overlapped' \in BOOLEAN /\ (overlapped => overlapped')
    BY <1>3, <2>1, CreditOverlaps DEF CreditInv, Shaped, Credit!TypeOK
  <2>3. IInv' /\ LaunchInv'
    BY <1>1, <1>3, <2>2, SameVars, LaunchSameVars
       DEF clockPart, launchPart, LaunchInv, LaunchShaped, Launch!TypeOK
  <2> QED  BY <2>1, <2>3 DEF AllParts
<1>4. CASE Launch!Next /\ UNCHANGED <<clockPart, creditPart>>
  <2>1. LaunchInv'
    BY <1>1, <1>4, LaunchNextHolds
  <2>2. overlapped' \in BOOLEAN /\ (overlapped => overlapped')
    BY <1>4, <2>1, LaunchOverlaps DEF LaunchInv, LaunchShaped, Launch!TypeOK
  <2>3. IInv' /\ CreditInv'
    BY <1>1, <1>4, <2>2, SameVars, CreditSameVars DEF clockPart, creditPart
  <2> QED  BY <2>1, <2>3 DEF AllParts
<1>5. CASE UNCHANGED state
  <2>1. UNCHANGED <<now, row, engaged, receipts, away, overlapped, work, creditPart, launchPart>>
    BY <1>5 DEF state, vars, history
  <2>2. overlapped' \in BOOLEAN /\ (overlapped => overlapped')
    BY <1>1, <2>1 DEF IInv, TypeOK
  <2>3. IInv' /\ CreditInv' /\ LaunchInv'
    BY <1>1, <2>1, <2>2, SameVars, CreditSameVars, LaunchSameVars
       DEF creditPart, launchPart, LaunchInv, LaunchShaped, Launch!TypeOK
  <2> QED  BY <2>3 DEF AllParts
<1> QED  BY <1>2, <1>3, <1>4, <1>5 DEF MCNext

LEMMA PartsSuffice ==
  AllParts => TypesOK /\ CountedTimeIsReal /\ CreditPaysOnce /\ CodesAreSpentOnce
  BY IInvSuffices, CreditInvSuffices, LaunchInvSuffices
     DEF AllParts, TypesOK, CreditPaysOnce, CodesAreSpentOnce

(* Rows, requests and contributions keep their shape and ranges: a session's connected *)
(* time and its absence stay within their limits, a credit's status says whether it is *)
(* held, and an exchanged code has a grant, for every value of the constants.          *)
THEOREM TypesStay == MCSpec => []TypesOK
<1>1. AllParts => TypesOK
  BY PartsSuffice
<1> QED  BY <1>1, PartsStart, PartsStay, PTL DEF MCSpec, state

(* The connected time of a row never exceeds the time that has passed; where requests  *)
(* follow each other, what analytics has received never exceeds the row, nor the time  *)
(* a learner was away what the row accounts for (learner-session/service.ts).          *)
THEOREM CountedTimeStaysReal == MCSpec => []CountedTimeIsReal
<1>1. AllParts => CountedTimeIsReal
  BY PartsSuffice
<1> QED  BY <1>1, PartsStart, PartsStay, PTL DEF MCSpec, state

(* A failed session is replaced by one credit whatever overlaps, its reservation is of *)
(* a start under way and its consumption of a launched session; and of requests that   *)
(* follow each other it pays once (session-credit/service.ts).                         *)
THEOREM CreditsPayOnce == MCSpec => []CreditPaysOnce
<1>1. AllParts => CreditPaysOnce
  BY PartsSuffice
<1> QED  BY <1>1, PartsStart, PartsStay, PTL DEF MCSpec, state

(* No more exchanges are accepted than codes were dispatched and assertions spent, and *)
(* of requests that follow each other a code is accepted once (app-launch/service.ts). *)
THEOREM CodesAreSpent == MCSpec => []CodesAreSpentOnce
<1>1. AllParts => CodesAreSpentOnce
  BY PartsSuffice
<1> QED  BY <1>1, PartsStart, PartsStay, PTL DEF MCSpec, state
================================================================================
