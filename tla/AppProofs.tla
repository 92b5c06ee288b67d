----------------------------- MODULE AppProofs -----------------------------
(* What the availability of an app, its entry in the registry, its launcher in a    *)
(* browser and its deployments promise, and what the jobs promise that send the     *)
(* e-mails, remind the parents and publish the day's figures: each for every number  *)
(* of windows, processes, changes, contexts, releases, notices and contributions,    *)
(* every reservation and hard expiry.                                                *)
EXTENDS AppAvailability, FiniteSetTheorems, WellFoundedInduction, TLAPS

Durations == Reservation \in Nat /\ HardExpiry \in Nat /\ MaxTime \in Nat /\ MaxVersion \in Nat \ {0}

\* Each version of the row but the first has its event.
Logged == events = 2 .. version

\* What a change of the version of now has checked still holds.
Holds(w) ==
  /\ w.kind = "outage" =>
       \E o \in Outages : w.id = {o} /\ (w.row.status = "scheduled" => Free(o, w.row))
  /\ w.kind # "outage" => w.id = {}
  /\ w.kind = "transition" => state # "security_blocked" /\ w.state # "security_blocked"
CurrentHold == \A p \in Procs : work[p] # Idle =>
  /\ work[p].kind # "idle" /\ work[p].saw \in 1 .. version /\ work[p].saw < MaxVersion
  /\ work[p].saw = version => Holds(work[p])

\* What a session knew when it started begins after it can have ended.
Ahead ==
  /\ session.status = "none" => session.knew = {}
  /\ session.status = "active" => session.launched <= session.at + Reservation
  /\ \A o \in session.knew : outage[o].status = "scheduled"
                             /\ session.at + Reservation + HardExpiry <= outage[o].from

IInv == TypeOK /\ Logged /\ CurrentHold /\ Ahead /\ AvailabilityIsSerial

LEMMA Least ==
  ASSUME NEW T \in SUBSET Nat, T # {}
  PROVE  \E x \in T : \A y \in T : x <= y
<1> DEFINE R == {ss \in Nat \X Nat : ss[1] < ss[2]}
<1>1. IsWellFoundedOn(R, Nat)
  BY NatLessThanWellFounded DEF OpToRel
<1>2. \A x, y \in Nat : y < x => <<y, x>> \in R
  OBVIOUS
<1> HIDE DEF R
<1>3. PICK x \in T : \A y \in T : ~ (<<y, x>> \in R)
  BY <1>1, WFMin
<1>4. ASSUME NEW y \in T PROVE x <= y
  <2>1. x \in Nat /\ y \in Nat
    BY <1>3, <1>4
  <2>2. ~(y < x)
    BY <1>2, <1>3, <1>4, <2>1
  <2> QED  BY <2>1, <2>2
<1> QED  BY <1>4

LEMMA InitHolds == Durations /\ Init => IInv
<1> SUFFICES ASSUME Durations, Init PROVE IInv
  OBVIOUS
<1>1. NoOutage \in Outage /\ NoSession \in Session /\ 0 \in Times
  BY DEF Durations, NoOutage, Outage, NoSession, Session, Times, Stops
<1>2. Idle \in Work
  BY <1>1 DEF Durations, Idle, Work, States
<1>3. 1 \in 1 .. MaxVersion /\ 2 .. 1 = {}
  BY DEF Durations
<1>4. TypeOK
  BY <1>1, <1>2, <1>3 DEF Init, TypeOK, States
<1>5. Logged
  BY <1>3 DEF Init, Logged
<1>6. CurrentHold
  BY DEF Init, CurrentHold
<1>7. Ahead /\ AvailabilityIsSerial
  BY DEF Init, Ahead, AvailabilityIsSerial, NoSession, NoOutage
<1> QED  BY <1>4, <1>5, <1>6, <1>7 DEF IInv

\* A change that was checked against the row of now.
LEMMA CheckedStep ==
  ASSUME Durations, IInv, NEW p \in Procs, NEW w, Checked(p, w), w \in Work, w.kind # "idle", Holds(w)
  PROVE  IInv'
<1> DEFINE x == [w EXCEPT !.saw = version]
<1>1. /\ work' = [work EXCEPT ![p] = x] /\ version < MaxVersion
      /\ UNCHANGED <<now, state, version, outage, events, blocked, session>>
  BY DEF Checked
<1>2. x \in Work /\ x.kind = w.kind /\ x.id = w.id /\ x.row = w.row /\ x.state = w.state /\ x.saw = version
  BY DEF IInv, TypeOK, Work
<1>3. TypeOK'
  BY <1>1, <1>2 DEF IInv, TypeOK
<1>4. CurrentHold'
  <2>1. Holds(x)' /\ version \in 1 .. version /\ version < MaxVersion
    BY <1>1, <1>2 DEF Holds, Free, IInv, TypeOK, Durations
  <2>2. \A q \in Procs \ {p} : work'[q] = work[q]
    BY <1>1 DEF IInv, TypeOK
  <2>3. \A q \in Procs : Holds(work[q]) => Holds(work[q])'
    BY <1>1 DEF Holds, Free
  <2>4. work'[p] = x
    BY <1>1 DEF IInv, TypeOK
  <2> QED  BY <1>1, <1>2, <2>1, <2>2, <2>3, <2>4 DEF IInv, CurrentHold, Holds
<1> QED  BY <1>1, <1>3, <1>4 DEF IInv, Logged, Ahead, AvailabilityIsSerial, Free

LEMMA ReadSteps ==
  ASSUME Durations, IInv, NEW p \in Procs,
         PlanRead(p) \/ CancelRead(p) \/ TransitionRead(p) \/ SecurityRead(p)
  PROVE  IInv'
<1>0. Idle \in Work
  BY DEF Durations, Idle, Work, NoOutage, Outage, Times, Stops, States
<1>1. CASE PlanRead(p)
  <2>1. PICK o \in Outages, from \in Times, to \in Stops :
          LET row == [status |-> "scheduled", from |-> from, to |-> to] IN
          Free(o, row) /\ Checked(p, [Idle EXCEPT !.kind = "outage", !.id = {o}, !.row = row])
    BY <1>1 DEF PlanRead
  <2> DEFINE row == [status |-> "scheduled", from |-> from, to |-> to]
             w == [Idle EXCEPT !.kind = "outage", !.id = {o}, !.row = row]
  <2>2. w \in Work /\ w.kind = "outage" /\ w.id = {o} /\ w.row = row
    BY <1>0 DEF Idle, Work, Outage, Times, Stops
  <2>3. Holds(w)
    BY <2>1, <2>2 DEF Holds
  <2> QED  BY <2>1, <2>2, <2>3, CheckedStep
<1>2. CASE CancelRead(p)
  <2>1. PICK o \in Outages :
          Checked(p, [Idle EXCEPT !.kind = "outage", !.id = {o},
                                  !.row = [outage[o] EXCEPT !.status = "cancelled"]])
    BY <1>2 DEF CancelRead
  <2> DEFINE row == [outage[o] EXCEPT !.status = "cancelled"]
             w == [Idle EXCEPT !.kind = "outage", !.id = {o}, !.row = row]
  <2>2. row \in Outage /\ row.status = "cancelled"
    BY DEF IInv, TypeOK, Outage
  <2>3. w \in Work /\ w.kind = "outage" /\ w.id = {o} /\ w.row = row
    BY <1>0, <2>2 DEF Idle, Work
  <2>4. Holds(w)
    BY <2>2, <2>3 DEF Holds
  <2> QED  BY <2>1, <2>3, <2>4, CheckedStep
<1>3. CASE TransitionRead(p)
  <2>1. PICK s \in States \ {"security_blocked"} :
          Checked(p, [Idle EXCEPT !.kind = "transition", !.state = s])
    BY <1>3 DEF TransitionRead
  <2> DEFINE w == [Idle EXCEPT !.kind = "transition", !.state = s]
  <2>2. w \in Work /\ w.kind = "transition" /\ w.id = {} /\ w.state = s
    BY <1>0 DEF Idle, Work
  <2>3. Holds(w)
    BY <1>3, <2>2 DEF Holds, TransitionRead
  <2> QED  BY <2>1, <2>2, <2>3, CheckedStep
<1>4. CASE SecurityRead(p)
  <2>1. PICK s \in {"security_blocked", "available"} :
          Checked(p, [Idle EXCEPT !.kind = "security", !.state = s])
    BY <1>4 DEF SecurityRead
  <2> DEFINE w == [Idle EXCEPT !.kind = "security", !.state = s]
  <2>2. w \in Work /\ w.kind = "security" /\ w.id = {}
    BY <1>0 DEF Idle, Work, States
  <2>3. Holds(w)
    BY <2>2 DEF Holds
  <2> QED  BY <2>1, <2>2, <2>3, CheckedStep
<1> QED  BY <1>1, <1>2, <1>3, <1>4

\* The event's index lets the change through whose row is the row of now, and no other.
LEMMA CommitStep ==
  ASSUME Durations, IInv, NEW p \in Procs, Commit(p)
  PROVE  IInv'
<1> DEFINE w == work[p]
<1>1. /\ w # Idle /\ w.saw + 1 \notin events /\ w \in Work
      /\ w.saw \in 1 .. version /\ w.saw < MaxVersion /\ w.kind # "idle"
  BY DEF Commit, EventIsNew, IInv, TypeOK, CurrentHold
<1>2. w.saw = version /\ version \in Nat /\ Holds(w)
  BY <1>1 DEF IInv, TypeOK, Logged, CurrentHold, Durations
<1>3. /\ events' = events \cup {version + 1} /\ version' = version + 1
      /\ state' = IF w.kind # "outage" THEN w.state ELSE state
      /\ outage' = [o \in Outages |-> IF o \in w.id THEN w.row ELSE outage[o]]
      /\ session' = [session EXCEPT !.knew = @ \ w.id]
      /\ blocked' = IF w.kind = "security" THEN w.state = "security_blocked" ELSE blocked
      /\ work' = [work EXCEPT ![p] = Idle] /\ now' = now
  BY <1>2 DEF Commit, Found
<1>4. TypeOK'
  <2>1. now' \in Times /\ state' \in States /\ version' \in 1 .. MaxVersion /\ blocked' \in BOOLEAN
    <3>1. now \in Times /\ state \in States /\ version \in 1 .. MaxVersion /\ blocked \in BOOLEAN
      BY DEF IInv, TypeOK
    <3>2. w.state \in States
      BY <1>1 DEF Work
    <3>3. version + 1 \in 1 .. MaxVersion
      BY <1>1, <1>2, <3>1 DEF Durations
    <3>4. (w.state = "security_blocked") \in BOOLEAN
      OBVIOUS
    <3> QED  BY <1>3, <3>1, <3>2, <3>3, <3>4
  <2>2. outage' \in [Outages -> Outage]
    BY <1>1, <1>3 DEF IInv, TypeOK, Work
  <2>3. events' \subseteq 2 .. MaxVersion
    BY <1>1, <1>2, <1>3 DEF IInv, TypeOK, Durations
  <2>4. session' \in Session
    BY <1>3 DEF IInv, TypeOK, Session
  <2>5. work' \in [Procs -> Work]
    BY <1>3 DEF IInv, TypeOK, Durations, Idle, Work, NoOutage, Outage, Times, Stops, States
  <2> QED  BY <2>1, <2>2, <2>3, <2>4, <2>5 DEF TypeOK
<1>5. Logged'
  BY <1>2, <1>3 DEF IInv, TypeOK, Logged
<1>6. CurrentHold'
  <2>1. ASSUME NEW q \in Procs, work'[q] # Idle
        PROVE  work'[q] = work[q] /\ work[q] # Idle
    BY <1>3, <2>1 DEF IInv, TypeOK
  <2> QED  BY <1>2, <1>3, <2>1 DEF IInv, TypeOK, CurrentHold, Durations
<1>7. Ahead'
  <2>1. session'.status = session.status /\ session'.at = session.at /\ session'.launched = session.launched
        /\ session'.knew = session.knew \ w.id /\ session.knew \subseteq Outages
    BY <1>3 DEF IInv, TypeOK, Session
  <2>2. \A o \in session'.knew : outage'[o] = outage[o]
    BY <1>3, <2>1
  <2> QED  BY <2>1, <2>2 DEF IInv, Ahead
<1>8. AvailabilityIsSerial'
  <2>1. blocked' <=> state' = "security_blocked"
    <3>1. CASE w.kind = "security"
      BY <1>3, <3>1
    <3>2. CASE w.kind = "transition"
      BY <1>2, <1>3, <3>2 DEF IInv, AvailabilityIsSerial, Holds
    <3>3. CASE w.kind = "outage"
      BY <1>3, <3>3 DEF IInv, AvailabilityIsSerial
    <3> QED  BY <1>1, <3>1, <3>2, <3>3 DEF Work
  <2>2. ASSUME NEW o \in Outages, NEW q \in Outages, q # o,
               outage'[o].status = "scheduled", outage'[q].status = "scheduled"
        PROVE  ~Overlaps(outage'[q], outage'[o])
    <3>1. CASE o \notin w.id /\ q \notin w.id
      BY <1>3, <2>2, <3>1 DEF IInv, AvailabilityIsSerial, Free
    <3>2. CASE o \in w.id
      <4>1. w.id = {o} /\ Free(o, w.row) /\ outage'[o] = w.row /\ outage'[q] = outage[q]
        BY <1>2, <1>3, <2>2, <3>2 DEF Holds
      <4> QED  BY <2>2, <4>1 DEF Free
    <3>3. CASE q \in w.id
      <4>1. w.id = {q} /\ Free(q, w.row) /\ outage'[q] = w.row /\ outage'[o] = outage[o]
        BY <1>2, <1>3, <2>2, <3>3 DEF Holds
      <4>2. ~Overlaps(outage'[o], outage'[q])
        BY <2>2, <4>1 DEF Free
      <4>3. outage'[o] \in Outage /\ outage'[q] \in Outage
        BY <1>4 DEF TypeOK
      <4> QED  BY <4>2, <4>3 DEF Overlaps, Outage, Times, Stops, Durations
    <3> QED  BY <3>1, <3>2, <3>3
  <2> QED  BY <2>1, <2>2 DEF AvailabilityIsSerial, Free
<1> QED  BY <1>4, <1>5, <1>6, <1>7, <1>8 DEF IInv

LEMMA RollBackStep ==
  ASSUME Durations, IInv, NEW p \in Procs, RollBack(p)
  PROVE  IInv'
<1>1. work' = [work EXCEPT ![p] = Idle] /\ UNCHANGED <<now, state, version, outage, events, blocked, session>>
  BY DEF RollBack
<1>2. TypeOK'
  BY <1>1 DEF IInv, TypeOK, Durations, Idle, Work, NoOutage, Outage, Times, Stops, States
<1>3. CurrentHold'
  <2>1. ASSUME NEW q \in Procs, work'[q] # Idle
        PROVE  work'[q] = work[q] /\ work[q] # Idle
    BY <1>1, <2>1 DEF IInv, TypeOK
  <2> QED  BY <1>1, <2>1 DEF IInv, CurrentHold, Holds, Free
<1> QED  BY <1>1, <1>2, <1>3 DEF IInv, Logged, Ahead, AvailabilityIsSerial, Free

\* The first window that is not over bounds all of them.
LEMMA StartSessionStep ==
  ASSUME Durations, IInv, StartSession
  PROVE  IInv'
<1>1. /\ ~StartBlocked /\ UNCHANGED <<now, state, version, outage, events, blocked, work>>
      /\ session' = [status |-> "starting", at |-> now, launched |-> 0, knew |-> Relevant]
  BY DEF StartSession
<1>2. ASSUME NEW o \in Relevant
      PROVE  now + Reservation + HardExpiry <= outage[o].from
  <2> DEFINE Starts == {outage[q].from : q \in Relevant}
  <2>1. \A q \in Relevant : q \in Outages /\ outage[q].from \in Nat
    BY DEF Relevant, IInv, TypeOK, Outage, Times, Durations
  <2>2. PICK first \in Starts : \A y \in Starts : first <= y
    <3>1. Starts \in SUBSET Nat /\ Starts # {}
      BY <2>1
    <3> QED  BY <3>1, Least
  <2>3. PICK q \in Relevant : first = outage[q].from
    BY <2>2
  <2>4. q \in Next1 /\ outage[q].from <= outage[o].from
    BY <2>2, <2>3 DEF Next1
  <2>5. ~(now + SafeStart > outage[q].from)
    BY <1>1, <2>4 DEF StartBlocked
  <2>6. now \in Nat
    BY DEF IInv, TypeOK, Times, Durations
  <2> QED  BY <2>1, <2>3, <2>4, <2>5, <2>6 DEF SafeStart, Durations
<1>3. TypeOK'
  BY <1>1 DEF IInv, TypeOK, Session, Relevant, Durations, Times
<1>4. Ahead'
  BY <1>1, <1>2 DEF Ahead, Relevant
<1> QED  BY <1>1, <1>3, <1>4 DEF IInv, Logged, CurrentHold, Holds, AvailabilityIsSerial, Free

LEMMA SessionSteps ==
  ASSUME Durations, IInv, LaunchSession \/ EndSession \/ Tick
  PROVE  IInv'
<1>1. UNCHANGED <<state, version, outage, events, blocked, work>>
  BY DEF LaunchSession, EndSession, Tick
<1>2. ASSUME LaunchSession PROVE TypeOK' /\ Ahead'
  <2>1. /\ session.status = "starting" /\ now <= session.at + Reservation /\ now' = now
        /\ session' = [session EXCEPT !.status = "active", !.launched = now]
        /\ session \in Session /\ now \in Times
    BY <1>2 DEF LaunchSession, IInv, TypeOK
  <2>2. /\ session' \in Session /\ session'.status = "active" /\ session'.launched = now
        /\ session'.at = session.at /\ session'.knew = session.knew
    BY <2>1 DEF Session
  <2>3. TypeOK'
    BY <1>1, <2>1, <2>2 DEF IInv, TypeOK
  <2> QED  BY <1>1, <2>1, <2>2, <2>3 DEF IInv, Ahead
<1>3. ASSUME EndSession PROVE TypeOK' /\ Ahead'
  <2>1. session' = NoSession /\ now' = now
    BY <1>3 DEF EndSession
  <2>2. /\ NoSession \in Session /\ NoSession.status = "none" /\ NoSession.knew = {}
    BY DEF NoSession, Session, Times, Durations
  <2> QED  BY <1>1, <2>1, <2>2 DEF IInv, TypeOK, Ahead
<1>4. ASSUME Tick PROVE TypeOK' /\ Ahead'
  <2>1. session' = session /\ now' \in Times
    BY <1>4 DEF Tick, IInv, TypeOK, Times, Durations
  <2> QED  BY <1>1, <2>1 DEF IInv, TypeOK, Ahead
<1>5. TypeOK' /\ Ahead'
  BY <1>2, <1>3, <1>4
<1> QED  BY <1>1, <1>5 DEF IInv, Logged, CurrentHold, Holds, AvailabilityIsSerial, Free

LEMMA NextHolds == Durations /\ IInv /\ [Next]_vars => IInv'
<1> SUFFICES ASSUME Durations, IInv, [Next]_vars PROVE IInv'
  OBVIOUS
<1>1. CASE UNCHANGED vars
  BY <1>1 DEF vars, IInv, TypeOK, Logged, CurrentHold, Holds, Ahead, AvailabilityIsSerial, Free
<1>2. CASE Next
  BY <1>2, ReadSteps, CommitStep, RollBackStep, StartSessionStep, SessionSteps DEF Next
<1> QED  BY <1>1, <1>2

LEMMA IInvSuffices == Durations /\ IInv => MaintenanceIsRespected
  BY DEF IInv, Ahead, MaintenanceIsRespected, SafeStartsEndInTime, TypeOK, Session, Outage, Times, Durations

(* Overlapping changes take effect one after the other, by the unique version of *)
(* their events alone, and a session that may start ends before the maintenance  *)
(* it knew of: SAFE_START_SECONDS is the reservation and the hard expiry.        *)
THEOREM MaintenanceRespected == ASSUME Durations PROVE Spec => []MaintenanceIsRespected
<1>1. Init => IInv
  BY InitHolds
<1>2. IInv /\ [Next]_vars => IInv'
  BY NextHolds
<1>3. IInv => MaintenanceIsRespected
  BY IInvSuffices
<1> QED  BY <1>1, <1>2, <1>3, PTL DEF Spec

-----------------------------------------------------------------------------
(* The entry in the registry. *)
CONSTANT MaxEdits
VARIABLES app, asked

Registry == INSTANCE AppRegistry WITH MaxVersion <- MaxEdits

SomeEdits == MaxEdits \in Nat \ {0}

\* What an activation has found ready is ready as long as the version stays.
ReadyStill ==
  \A p \in Procs : asked[p] # 0 =>
    /\ asked[p] <= app.version
    /\ asked[p] = app.version => app.complete
RegistryInv == Registry!TypeOK /\ ReadyStill

LEMMA RegistryInitHolds ==
  ASSUME SomeEdits, Registry!Init
  PROVE  RegistryInv
BY DEF SomeEdits, Registry!Init, RegistryInv, Registry!TypeOK, ReadyStill

\* Every change makes a version of its own, of which nothing is found ready yet.
LEMMA ChangeStep ==
  ASSUME SomeEdits, RegistryInv, NEW status \in {"draft", "active", "soft_deleted"}, NEW complete \in BOOLEAN,
         app.version < MaxEdits,
         app' = [status |-> status, version |-> app.version + 1, complete |-> complete],
         asked' \in [Procs -> 0..MaxEdits], \A p \in Procs : asked'[p] \in {0, asked[p]}
  PROVE  RegistryInv'
<1>1. app.version \in 1..MaxEdits /\ app.version + 1 \in 1..MaxEdits
  BY DEF RegistryInv, Registry!TypeOK, SomeEdits
<1>2. Registry!TypeOK'
  BY <1>1 DEF Registry!TypeOK
<1>3. ReadyStill'
  BY <1>1 DEF RegistryInv, Registry!TypeOK, ReadyStill, SomeEdits
<1> QED  BY <1>2, <1>3 DEF RegistryInv

LEMMA RegistryNextHolds ==
  ASSUME SomeEdits, RegistryInv, [Registry!Next]_(Registry!vars)
  PROVE  RegistryInv'
<1>1. /\ app.status \in {"draft", "active", "soft_deleted"} /\ app.complete \in BOOLEAN
      /\ app = [status |-> app.status, version |-> app.version, complete |-> app.complete]
      /\ app.version \in 1..MaxEdits /\ asked \in [Procs -> 0..MaxEdits]
  BY DEF RegistryInv, Registry!TypeOK
<1>2. CASE Registry!Edit
  <2> PICK complete \in BOOLEAN : app' = [app EXCEPT !.complete = complete, !.version = @ + 1]
    BY <1>2 DEF Registry!Edit
  <2>1. app' = [status |-> app.status, version |-> app.version + 1, complete |-> complete]
    BY <1>1
  <2> QED  BY <1>1, <1>2, <2>1, ChangeStep DEF Registry!Edit
<1>3. CASE Registry!SoftDelete
  <2>1. app' = [status |-> "soft_deleted", version |-> app.version + 1, complete |-> app.complete]
    BY <1>1, <1>3 DEF Registry!SoftDelete
  <2> QED  BY <1>1, <1>3, <2>1, ChangeStep DEF Registry!SoftDelete
<1>4. CASE Registry!Restore
  <2>1. app' = [status |-> "draft", version |-> app.version + 1, complete |-> app.complete]
    BY <1>1, <1>4 DEF Registry!Restore
  <2> QED  BY <1>1, <1>4, <2>1, ChangeStep DEF Registry!Restore
<1>5. ASSUME NEW p \in Procs, Registry!ActivateRead(p)
      PROVE  RegistryInv'
  <2>1. asked' = [asked EXCEPT ![p] = app.version] /\ app.complete /\ UNCHANGED app
    BY <1>5 DEF Registry!ActivateRead
  <2>2. asked' \in [Procs -> 0..MaxEdits] /\ \A q \in Procs : asked'[q] = IF q = p THEN app.version ELSE asked[q]
    BY <1>1, <2>1 DEF SomeEdits
  <2>3. ReadyStill'
    BY <1>1, <2>1, <2>2 DEF RegistryInv, ReadyStill, SomeEdits
  <2> QED  BY <2>1, <2>2, <2>3 DEF RegistryInv, Registry!TypeOK
<1>6. ASSUME NEW p \in Procs, asked' = [asked EXCEPT ![p] = 0], UNCHANGED app
      PROVE  RegistryInv'
  <2>1. asked' \in [Procs -> 0..MaxEdits] /\ \A q \in Procs : asked'[q] = IF q = p THEN 0 ELSE asked[q]
    BY <1>1, <1>6 DEF SomeEdits
  <2>2. ReadyStill'
    BY <1>6, <2>1 DEF RegistryInv, ReadyStill
  <2> QED  BY <1>6, <2>1, <2>2 DEF RegistryInv, Registry!TypeOK
<1>7. ASSUME NEW p \in Procs, Registry!ActivateCommit(p)
      PROVE  RegistryInv'
  <2>1. asked' = [asked EXCEPT ![p] = 0] /\ app.version < MaxEdits
    BY <1>7 DEF Registry!ActivateCommit
  <2>2. CASE Registry!Unchanged(asked[p])
    <3>1. app' = [status |-> "active", version |-> app.version + 1, complete |-> app.complete]
      BY <1>1, <1>7, <2>2 DEF Registry!ActivateCommit
    <3>2. asked' \in [Procs -> 0..MaxEdits] /\ \A q \in Procs : asked'[q] \in {0, asked[q]}
      BY <1>1, <2>1 DEF SomeEdits
    <3> QED  BY <1>1, <2>1, <3>1, <3>2, ChangeStep
  <2>3. CASE ~Registry!Unchanged(asked[p])
    BY <1>6, <1>7, <2>1, <2>3 DEF Registry!ActivateCommit
  <2> QED  BY <2>2, <2>3
<1>8. CASE UNCHANGED Registry!vars
  BY <1>8 DEF Registry!vars, RegistryInv, Registry!TypeOK, ReadyStill
<1> QED  BY <1>2, <1>3, <1>4, <1>5, <1>6, <1>7, <1>8 DEF Registry!Next, Registry!Abandon

LEMMA StepIsChecked ==
  ASSUME SomeEdits, RegistryInv, [Registry!Next]_(Registry!vars)
  PROVE  Registry!ActivationChecked
<1> SUFFICES ASSUME app'.status = "active", app.status # "active"
             PROVE  app.status = "draft" /\ app.complete
  BY DEF Registry!ActivationChecked
<1>1. app \in [status : {"draft", "active", "soft_deleted"}, version : 1..MaxEdits, complete : BOOLEAN]
  BY DEF RegistryInv, Registry!TypeOK
<1>2. ASSUME NEW p \in Procs, Registry!ActivateCommit(p)
      PROVE  app.status = "draft" /\ app.complete
  BY <1>2 DEF Registry!ActivateCommit, Registry!Unchanged, RegistryInv, ReadyStill
<1>3. ~Registry!Edit /\ ~Registry!SoftDelete /\ ~Registry!Restore /\ ~UNCHANGED Registry!vars
      /\ \A p \in Procs : ~Registry!ActivateRead(p) /\ ~Registry!Abandon(p)
  BY <1>1 DEF Registry!Edit, Registry!SoftDelete, Registry!Restore, Registry!vars, Registry!ActivateRead,
     Registry!Abandon
<1> QED  BY <1>2, <1>3 DEF Registry!Next

\* An app becomes active only as a draft that is ready then, although readiness is checked before the
\* transaction (app-registry-repo.ts), however many activate, edit, delete and restore it.
THEOREM ActivationStaysChecked ==
  ASSUME SomeEdits
  PROVE  Registry!Spec => Registry!ActivationIsChecked
<1>1. Registry!Spec => []RegistryInv
  BY RegistryInitHolds, RegistryNextHolds, PTL DEF Registry!Spec
<1> QED  BY <1>1, StepIsChecked, PTL DEF Registry!Spec, Registry!ActivationIsChecked

-----------------------------------------------------------------------------
(* What a tab keeps of its launchers. *)
CONSTANT MaxContexts
VARIABLES visible, online, serving, unlocked, storage, page, orphans, left

Tab == INSTANCE LauncherRefresh

\* The page says it is updating, and has an answer under way, only while it asks.
Asks(pg) == pg.status = "updating" \/ pg.answer # Tab!None => pg.current # Tab!None

Paged == page # Tab!NoPage => page \in Tab!Pages /\ page.ctx <= serving /\ Asks(page)

\* The storage has what the page shows.
Kept1 == Tab!Mounted => storage \subseteq {page.ctx} /\ (~page.data => storage = {})

\* Once learning mode was left, no answer is under way, and the page's context is not served again.
Left == left => storage = {} /\ (Tab!Mounted => page.answer # "own" /\ ~Tab!Serves(page.ctx))

Small == serving \in Tab!Contexts /\ storage \subseteq Tab!Contexts
         /\ visible \in BOOLEAN /\ online \in BOOLEAN /\ unlocked \in BOOLEAN /\ left \in BOOLEAN

LauncherInv == Small /\ Paged /\ Kept1 /\ Left

LEMMA Reasoned == Tab!None \notin Tab!Reasons /\ "page_entry" \in Tab!Reasons
  BY DEF Tab!None, Tab!Reasons

\* Another state of the page, with the same context, launcher shown and answer under way.
Same(r, pg) == r \in Tab!Pages /\ Asks(r) /\ r.ctx = pg.ctx /\ r.data = pg.data /\ r.answer = pg.answer

\* refresh() leaves the context, the launcher shown and the answer under way as they are.
LEMMA RefreshKeeps ==
  ASSUME NEW pg \in Tab!Pages, NEW reason \in Tab!Reasons, NEW followUp \in BOOLEAN,
         NEW seen \in BOOLEAN, NEW up \in BOOLEAN, Asks(pg)
  PROVE  Same(Tab!Refresh(pg, reason, followUp, seen, up), pg)
<1> DEFINE r == Tab!Refresh(pg, reason, followUp, seen, up)
           noted == [pg EXCEPT !.recent = @ \/ reason = "visibility_return"]
           Good(x) == Same(x, pg)
<1>1. Good(pg)
  BY DEF Same
<1>2. Good(Tab!MarkStale(pg, up))
  BY DEF Tab!MarkStale, Tab!Pages, Asks, Same
<1>3. noted \in Tab!Pages /\ Good(noted) /\ noted.data \in BOOLEAN
  <2>1. (pg.recent \/ reason = "visibility_return") \in BOOLEAN
    OBVIOUS
  <2> QED  BY <2>1 DEF Tab!Pages, Asks, Same
<1>4. Good(Tab!Started(noted, reason, followUp, up))
  <2>1. (reason \in Tab!Critical \/ ~noted.data \/ ~up) \in BOOLEAN
    OBVIOUS
  <2> HIDE DEF noted
  <2>2. Tab!Started(noted, reason, followUp, up) \in Tab!Pages
    <3>1. /\ 1 \in 0 .. 3 /\ reason \in Tab!Reasons \cup {Tab!None}
          /\ "updating" \in {"updating", "fresh", "stale", "offline", "unavailable"}
      OBVIOUS
    <3> DEFINE dis == reason \in Tab!Critical \/ ~noted.data \/ ~up
    <3>2. dis \in BOOLEAN
      OBVIOUS
    <3>3. Tab!Started(noted, reason, followUp, up) =
            [noted EXCEPT !.current = reason, !.attempt = 1, !.followUp = followUp,
                          !.status = "updating", !.disabled = dis]
      BY DEF Tab!Started
    <3> HIDE DEF dis
    <3> QED  BY <1>3, <3>1, <3>2, <3>3 DEF Tab!Pages
  <2>3. /\ Tab!Started(noted, reason, followUp, up).current = reason
        /\ Tab!Started(noted, reason, followUp, up).ctx = noted.ctx
        /\ Tab!Started(noted, reason, followUp, up).data = noted.data
        /\ Tab!Started(noted, reason, followUp, up).answer = noted.answer
    BY <1>3 DEF Tab!Started, Tab!Pages
  <2> QED  BY <1>3, <2>2, <2>3, Reasoned DEF Asks, Same
<1>5. Good([noted EXCEPT !.pending = reason])
  <2> HIDE DEF noted
  <2> QED  BY <1>3 DEF Tab!Pages, Asks, Same
<1>6. r \in {pg, Tab!MarkStale(pg, up), noted, Tab!Started(noted, reason, followUp, up), [noted EXCEPT !.pending = reason]}
  BY DEF Tab!Refresh
<1> HIDE DEF r, noted
<1>7. Good(r)
  BY <1>1, <1>2, <1>3, <1>4, <1>5, <1>6
<1> QED  BY <1>7 DEF r

\* The end of a request leaves no answer, and a page that is settled or asks again.
LEMMA FinallyKeeps ==
  ASSUME NEW pg \in Tab!Pages, pg.status # "updating", visible \in BOOLEAN, online \in BOOLEAN
  PROVE  LET r == Tab!Finally(pg) IN
         r \in Tab!Pages /\ Asks(r) /\ r.ctx = pg.ctx /\ r.data = pg.data /\ r.answer = Tab!None
<1> DEFINE over == [pg EXCEPT !.current = Tab!None, !.attempt = 0, !.answer = Tab!None, !.pending = Tab!None]
<1>1. /\ over \in Tab!Pages /\ Asks(over) /\ over.ctx = pg.ctx /\ over.data = pg.data /\ over.answer = Tab!None
  <2>1. 0 \in 0 .. 3 /\ Tab!None \in Tab!Reasons \cup {Tab!None} /\ Tab!None \in {Tab!None, "own", "foreign"}
    OBVIOUS
  <2>2. over \in Tab!Pages
    BY <2>1 DEF Tab!Pages
  <2>3. over.status = pg.status /\ over.ctx = pg.ctx /\ over.data = pg.data /\ over.answer = Tab!None
    BY DEF Tab!Pages
  <2> QED  BY <2>2, <2>3 DEF Asks
<1>2. CASE pg.pending # Tab!None /\ ~pg.followUp
  <2>1. pg.pending \in Tab!Reasons
    BY <1>2 DEF Tab!Pages
  <2>2. Tab!Finally(pg) = Tab!Refresh(over, pg.pending, TRUE, visible, online)
    BY <1>2 DEF Tab!Finally
  <2> HIDE DEF over
  <2>3. ASSUME NEW v \in BOOLEAN, NEW o \in BOOLEAN
        PROVE  Same(Tab!Refresh(over, pg.pending, TRUE, v, o), over)
    <3>1. TRUE \in BOOLEAN /\ over \in Tab!Pages /\ Asks(over)
      BY <1>1
    <3> QED  BY <2>1, <3>1, RefreshKeeps
  <2> QED  BY <1>1, <2>2, <2>3 DEF Same
<1>3. CASE ~(pg.pending # Tab!None /\ ~pg.followUp)
  <2>1. Tab!Finally(pg) = [over EXCEPT !.followUp = FALSE]
    BY <1>3 DEF Tab!Finally
  <2> HIDE DEF over
  <2> QED  BY <1>1, <2>1 DEF Tab!Pages, Asks
<1> QED  BY <1>2, <1>3

LEMMA LauncherInitHolds == MaxContexts \in Nat \ {0} /\ Tab!Init => LauncherInv
<1> SUFFICES ASSUME MaxContexts \in Nat \ {0}, Tab!Init PROVE LauncherInv
  OBVIOUS
<1>1. 1 \in Tab!Contexts
  BY DEF Tab!Contexts
<1>2. Small
  BY <1>1 DEF Tab!Init, Small
<1>3. Paged /\ Kept1 /\ Left
  BY DEF Tab!Init, Paged, Kept1, Left, Tab!Mounted
<1> QED  BY <1>2, <1>3 DEF LauncherInv

LEMMA PageKnown == LauncherInv /\ Tab!Mounted => page \in Tab!Pages /\ page.ctx <= serving /\ Asks(page)
  BY DEF LauncherInv, Paged, Tab!Mounted

\* A step of the mounted page that leaves its context, launcher and answer as they are.
LEMMA SameStep ==
  ASSUME LauncherInv, page' = page \/ (Tab!Mounted /\ Same(page', page)),
         serving' = serving, storage' = storage, unlocked' = unlocked, left' = left,
         visible' \in BOOLEAN, online' \in BOOLEAN
  PROVE  LauncherInv'
<1>1. CASE page' = page
  BY <1>1 DEF LauncherInv, Small, Paged, Kept1, Left, Tab!Mounted, Tab!Serves
<1>2. CASE Tab!Mounted /\ Same(page', page)
  BY <1>2 DEF LauncherInv, Small, Paged, Kept1, Left, Tab!Mounted, Tab!Serves, Same
<1> QED  BY <1>1, <1>2

LEMMA MountStep ==
  ASSUME LauncherInv, NEW c \in Tab!Contexts, Tab!Mount(c)
  PROVE  LauncherInv'
<1> DEFINE new == [ctx |-> c, data |-> TRUE, disabled |-> TRUE, status |-> "stale", current |-> Tab!None,
                   attempt |-> 0, waiting |-> FALSE, answer |-> Tab!None, followUp |-> FALSE, pending |-> Tab!None,
                   recent |-> FALSE, boundary |-> FALSE]
<1>1. /\ Tab!Serves(c) /\ storage' = storage \cap {c} /\ left' = FALSE
      /\ UNCHANGED <<visible, online, serving, unlocked, orphans>>
      /\ page' = Tab!Started(new, "page_entry", FALSE, online)
  BY DEF Tab!Mount
<1>2. page' \in Tab!Pages /\ page'.ctx = c /\ page'.data = TRUE /\ page'.current = "page_entry"
  <2> DEFINE dis == "page_entry" \in Tab!Critical \/ ~new.data \/ ~online
  <2>1. /\ 1 \in 0 .. 3 /\ "page_entry" \in Tab!Reasons \cup {Tab!None} /\ dis \in BOOLEAN
        /\ 0 \in 0 .. 3 /\ Tab!None \in Tab!Reasons \cup {Tab!None} /\ Tab!None \in {Tab!None, "own", "foreign"}
    BY Reasoned
  <2>2. new \in Tab!Pages
    BY <2>1 DEF Tab!Pages
  <2>3. page' = [new EXCEPT !.current = "page_entry", !.attempt = 1, !.followUp = FALSE,
                            !.status = "updating", !.disabled = dis]
    BY <1>1 DEF Tab!Started
  <2>4. new.ctx = c /\ new.data = TRUE
    OBVIOUS
  <2> HIDE DEF new, dis
  <2> QED  BY <2>1, <2>2, <2>3, <2>4 DEF Tab!Pages
<1>3. c <= serving /\ Asks(page')
  <2>1. serving = c /\ c \in Nat
    BY <1>1 DEF Tab!Serves, Tab!Contexts
  <2>2. page'.current # Tab!None
    BY <1>2, Reasoned
  <2> QED  BY <2>1, <2>2 DEF Asks
<1> QED  BY <1>1, <1>2, <1>3 DEF LauncherInv, Small, Paged, Kept1, Left, Tab!Mounted

\* The page goes, or an answer comes to one that is gone.
LEMMA GoneSteps ==
  ASSUME LauncherInv, Tab!Unmount \/ Tab!Unload \/ \E c \in Tab!Contexts : Tab!LateAnswer(c)
  PROVE  LauncherInv'
<1>1. CASE Tab!Unmount \/ Tab!Unload
  <2>1. page' = Tab!NoPage /\ UNCHANGED <<visible, online, serving, unlocked, storage, left>>
    BY <1>1 DEF Tab!Unmount, Tab!Unload
  <2> QED  BY <2>1 DEF LauncherInv, Small, Paged, Kept1, Left, Tab!Mounted
<1>2. CASE \E c \in Tab!Contexts : Tab!LateAnswer(c)
  <2>1. storage' = storage /\ UNCHANGED <<visible, online, serving, unlocked, page, left>>
    BY <1>2 DEF Tab!LateAnswer, Tab!Kept
  <2> QED  BY <2>1, SameStep DEF LauncherInv, Small
<1> QED  BY <1>1, <1>2

\* What becomes of a request under way.
LEMMA RequestSteps ==
  ASSUME LauncherInv, Tab!Serve \/ Tab!Answered \/ Tab!ContextLost \/ Tab!Failed \/ Tab!TryAgain
  PROVE  LauncherInv'
<1>1. /\ Tab!Mounted /\ page \in Tab!Pages /\ page.ctx <= serving /\ Asks(page)
      /\ UNCHANGED <<visible, online, serving, unlocked, left>>
  BY PageKnown DEF Tab!Serve, Tab!Answered, Tab!ContextLost, Tab!Failed, Tab!TryAgain, Tab!Asking, Tab!Unchanged
<1>2. visible \in BOOLEAN /\ online \in BOOLEAN
  BY DEF LauncherInv, Small
<1>3. CASE Tab!Serve
  <2>1. /\ page' = [page EXCEPT !.answer = IF Tab!Serves(page.ctx) THEN "own" ELSE "foreign"]
        /\ storage' = storage
    BY <1>3 DEF Tab!Serve
  <2>2. /\ page' \in Tab!Pages /\ page'.ctx = page.ctx /\ page'.data = page.data
        /\ page'.status = page.status /\ page'.current = page.current
        /\ page'.answer = IF Tab!Serves(page.ctx) THEN "own" ELSE "foreign"
    BY <1>1, <2>1 DEF Tab!Pages
  <2>3. Asks(page')
    BY <1>1, <1>3, <2>2 DEF Asks, Tab!Serve, Tab!Asking
  <2> QED  BY <1>1, <2>1, <2>2, <2>3 DEF LauncherInv, Small, Paged, Kept1, Left, Tab!Mounted, Tab!Serves
<1>4. CASE Tab!Answered
  <2>1. PICK again \in BOOLEAN :
          page' = Tab!Finally([page EXCEPT !.data = TRUE, !.status = "fresh", !.disabled = FALSE, !.boundary = again])
    BY <1>4 DEF Tab!Answered
  <2> DEFINE x == [page EXCEPT !.data = TRUE, !.status = "fresh", !.disabled = FALSE, !.boundary = again]
  <2>2. x \in Tab!Pages /\ x.status # "updating" /\ x.ctx = page.ctx /\ x.data = TRUE
    BY <1>1 DEF Tab!Pages
  <2>3. page' = Tab!Finally(x)
    BY <2>1
  <2> HIDE DEF x
  <2>4. page' \in Tab!Pages /\ Asks(page') /\ page'.ctx = page.ctx /\ page'.data = TRUE
    BY <1>2, <2>2, <2>3, FinallyKeeps
  <2>5. storage' = storage \cup {page.ctx} /\ page.answer = "own"
    BY <1>4 DEF Tab!Answered
  <2>6. ~left
    BY <1>1, <2>5 DEF LauncherInv, Left
  <2> QED  BY <1>1, <2>4, <2>5, <2>6 DEF LauncherInv, Small, Paged, Kept1, Left, Tab!Mounted, Tab!Pages
<1>5. CASE Tab!ContextLost
  <2> DEFINE x == [page EXCEPT !.data = FALSE, !.status = "unavailable", !.disabled = TRUE]
  <2>1. page' = Tab!Finally(x) /\ storage' = storage \ {page.ctx}
    BY <1>5 DEF Tab!ContextLost
  <2>2. x \in Tab!Pages /\ x.status # "updating" /\ x.ctx = page.ctx
    BY <1>1 DEF Tab!Pages
  <2> HIDE DEF x
  <2>3. page' \in Tab!Pages /\ Asks(page') /\ page'.ctx = page.ctx /\ page'.answer = Tab!None
    BY <1>2, <2>1, <2>2, FinallyKeeps
  <2>4. storage' = {}
    BY <1>1, <2>1 DEF LauncherInv, Kept1
  <2>5. Tab!None # "own"
    BY DEF Tab!None
  <2> QED  BY <1>1, <2>3, <2>4, <2>5 DEF LauncherInv, Small, Paged, Kept1, Left, Tab!Mounted, Tab!Serves
<1>6. CASE Tab!Failed
  <2>1. storage' = storage
    BY <1>6 DEF Tab!Failed
  <2>2. CASE page.attempt < Tab!AttemptLimit[page.current] /\ visible /\ online
    <3>1. page' = [page EXCEPT !.waiting = TRUE, !.attempt = @ + 1, !.answer = Tab!None]
      BY <1>6, <2>2 DEF Tab!Failed
    <3>2. page.current \in Tab!Reasons /\ page.attempt + 1 \in 0 .. 3
      <4>1. page.current \in Tab!Reasons /\ page.attempt \in 0 .. 3
        BY <1>1, <1>6 DEF Tab!Failed, Tab!Asking, Tab!Pages
      <4> QED  BY <2>2, <4>1 DEF Tab!AttemptLimit
    <3>3. /\ page' \in Tab!Pages /\ page'.ctx = page.ctx /\ page'.data = page.data /\ page'.answer = Tab!None
          /\ page'.status = page.status /\ page'.current = page.current
      BY <1>1, <3>1, <3>2 DEF Tab!Pages, Tab!None
    <3>4. Asks(page') /\ Tab!None # "own"
      BY <1>1, <3>3 DEF Asks, Tab!None
    <3> QED  BY <1>1, <2>1, <3>3, <3>4 DEF LauncherInv, Small, Paged, Kept1, Left, Tab!Mounted, Tab!Serves
  <2>3. CASE ~(page.attempt < Tab!AttemptLimit[page.current] /\ visible /\ online)
    <3> DEFINE st == IF ~online THEN "offline" ELSE IF page.data THEN "stale" ELSE "unavailable"
               di == ~online \/ ~page.data
               x == [page EXCEPT !.status = st, !.disabled = di]
    <3>1. page' = Tab!Finally(x)
      BY <1>6, <2>3 DEF Tab!Failed
    <3>2. st \in {"stale", "offline", "unavailable"} /\ di \in BOOLEAN
      OBVIOUS
    <3> HIDE DEF st, di
    <3>3. x \in Tab!Pages /\ x.status # "updating" /\ x.ctx = page.ctx /\ x.data = page.data
      BY <1>1, <3>2 DEF Tab!Pages
    <3> HIDE DEF x
    <3>4. page' \in Tab!Pages /\ Asks(page') /\ page'.ctx = page.ctx /\ page'.data = page.data /\ page'.answer = Tab!None
      BY <1>2, <3>1, <3>3, FinallyKeeps
    <3>5. Tab!None # "own"
      BY DEF Tab!None
    <3> QED  BY <1>1, <2>1, <3>4, <3>5 DEF LauncherInv, Small, Paged, Kept1, Left, Tab!Mounted, Tab!Serves
  <2> QED  BY <2>2, <2>3
<1>7. CASE Tab!TryAgain
  <2>1. page' = [page EXCEPT !.waiting = FALSE] /\ storage' = storage
    BY <1>7 DEF Tab!TryAgain
  <2>2. Same(page', page)
    BY <1>1, <2>1 DEF Same, Tab!Pages, Asks
  <2> QED  BY <1>1, <1>2, <2>1, <2>2, SameStep
<1> QED  BY <1>3, <1>4, <1>5, <1>6, <1>7

\* What the page hears, and what happens around it.
LEMMA HeardSteps ==
  ASSUME LauncherInv, Tab!Show \/ Tab!Hide \/ Tab!GoOffline \/ Tab!GoOnline \/ Tab!Later
               \/ \E reason \in Tab!Reasons : Tab!Heard(reason)
  PROVE  LauncherInv'
<1>1. visible \in BOOLEAN /\ online \in BOOLEAN
  BY DEF LauncherInv, Small
<1>2. UNCHANGED <<serving, unlocked, storage, left>>
  BY DEF Tab!Heard, Tab!Show, Tab!Hide, Tab!GoOffline, Tab!GoOnline, Tab!Later, Tab!Unchanged
<1>3. ASSUME NEW reason \in Tab!Reasons, Tab!Heard(reason) PROVE LauncherInv'
  <2> DEFINE fired == IF reason = "server_boundary" THEN [page EXCEPT !.boundary = FALSE] ELSE page
  <2>1. Tab!Mounted /\ page' = Tab!Refresh(fired, reason, FALSE, visible, online) /\ UNCHANGED <<visible, online>>
    BY <1>3 DEF Tab!Heard, Tab!Unchanged
  <2>2. Same(fired, page)
    <3>1. page \in Tab!Pages /\ Asks(page)
      BY <2>1, PageKnown
    <3>2. CASE reason # "server_boundary"
      BY <3>1, <3>2 DEF Same
    <3>3. CASE reason = "server_boundary"
      <4>1. fired = [page EXCEPT !.boundary = FALSE]
        BY <3>3
      <4> HIDE DEF fired
      <4>2. fired \in Tab!Pages
        BY <3>1, <4>1 DEF Tab!Pages
      <4>3. /\ fired.status = page.status /\ fired.answer = page.answer /\ fired.current = page.current
            /\ fired.ctx = page.ctx /\ fired.data = page.data
        BY <3>1, <4>1 DEF Tab!Pages
      <4> QED  BY <3>1, <4>2, <4>3 DEF Same, Asks
    <3> QED  BY <3>2, <3>3
  <2> HIDE DEF fired
  <2>3. FALSE \in BOOLEAN /\ fired \in Tab!Pages /\ Asks(fired)
    BY <2>2 DEF Same
  <2>4. Same(page', fired)
    BY <1>1, <2>1, <2>3, RefreshKeeps
  <2>5. Same(page', page)
    BY <2>2, <2>4 DEF Same
  <2> QED  BY <1>1, <1>2, <2>1, <2>5, SameStep
<1>4. CASE Tab!Show
  <2>1. visible' = TRUE /\ UNCHANGED online
    BY <1>4 DEF Tab!Show
  <2>2. page' = page \/ (Tab!Mounted /\ page' = Tab!Refresh(page, "visibility_return", FALSE, TRUE, online))
    BY <1>4 DEF Tab!Show
  <2>3. ASSUME Tab!Mounted PROVE Same(Tab!Refresh(page, "visibility_return", FALSE, TRUE, online), page)
    <3>1. TRUE \in BOOLEAN /\ FALSE \in BOOLEAN /\ "visibility_return" \in Tab!Reasons
      BY DEF Tab!Reasons
    <3> QED  BY <1>1, <2>3, <3>1, PageKnown, RefreshKeeps
  <2> QED  BY <1>1, <1>2, <2>1, <2>2, <2>3, SameStep
<1>5. CASE Tab!GoOnline
  <2>1. online' = TRUE /\ UNCHANGED visible
    BY <1>5 DEF Tab!GoOnline
  <2>2. page' = page \/ (Tab!Mounted /\ page' = Tab!Refresh(page, "online", FALSE, visible, TRUE))
    BY <1>5 DEF Tab!GoOnline
  <2>3. ASSUME Tab!Mounted PROVE Same(Tab!Refresh(page, "online", FALSE, visible, TRUE), page)
    <3>1. TRUE \in BOOLEAN /\ FALSE \in BOOLEAN /\ "online" \in Tab!Reasons
      BY DEF Tab!Reasons
    <3> QED  BY <1>1, <2>3, <3>1, PageKnown, RefreshKeeps
  <2> QED  BY <1>1, <1>2, <2>1, <2>2, <2>3, SameStep
<1>6. CASE Tab!Hide \/ Tab!GoOffline
  BY <1>1, <1>2, <1>6, SameStep DEF Tab!Hide, Tab!GoOffline
<1>7. CASE Tab!Later
  <2>1. Tab!Mounted /\ page' = [page EXCEPT !.recent = FALSE] /\ UNCHANGED <<visible, online>>
    BY <1>7 DEF Tab!Later, Tab!Unchanged
  <2>2. Same(page', page)
    BY <2>1, PageKnown DEF Same, Tab!Pages, Asks
  <2> QED  BY <1>1, <1>2, <2>1, <2>2, SameStep
<1> QED  BY <1>3, <1>4, <1>5, <1>6, <1>7

\* The server goes on to another context, or learning mode is left.
LEMMA ServerSteps ==
  ASSUME MaxContexts \in Nat \ {0}, LauncherInv, Tab!Switch \/ Tab!Exit
  PROVE  LauncherInv'
<1>1. serving \in Tab!Contexts /\ UNCHANGED <<visible, online, page>>
  BY DEF LauncherInv, Small, Tab!Switch, Tab!Exit
<1>2. CASE Tab!Switch
  <2>1. /\ serving < MaxContexts /\ serving' = serving + 1 /\ unlocked' = TRUE
        /\ UNCHANGED <<storage, left>>
    BY <1>2 DEF Tab!Switch
  <2>2. serving' \in Tab!Contexts
    BY <1>1, <2>1 DEF Tab!Contexts
  <2>3. Small'
    BY <1>1, <2>1, <2>2 DEF LauncherInv, Small
  <2>4. Tab!Mounted =>
          /\ page \in Tab!Pages /\ page.ctx \in Tab!Contexts /\ page.ctx <= serving'
          /\ page.ctx # serving' /\ Asks(page)
    BY <1>1, <2>1, PageKnown DEF Tab!Pages, Tab!Contexts
  <2> QED  BY <1>1, <2>1, <2>3, <2>4 DEF LauncherInv, Paged, Kept1, Left, Tab!Mounted, Tab!Serves
<1>3. CASE Tab!Exit
  <2>1. /\ Tab!Mounted /\ unlocked' = FALSE /\ storage' = {} /\ serving' = serving
        /\ left' = (page.current = Tab!None)
    BY <1>3 DEF Tab!Exit
  <2>2. Small'
    BY <1>1, <2>1 DEF LauncherInv, Small
  <2>3. page.current = Tab!None => page.answer # "own"
    BY <2>1, PageKnown DEF Asks, Tab!None
  <2> QED  BY <1>1, <2>1, <2>2, <2>3 DEF LauncherInv, Paged, Kept1, Left, Tab!Mounted, Tab!Serves
<1> QED  BY <1>2, <1>3

LEMMA LauncherNextHolds == MaxContexts \in Nat \ {0} /\ LauncherInv /\ [Tab!Next]_(Tab!vars) => LauncherInv'
<1> SUFFICES ASSUME MaxContexts \in Nat \ {0}, LauncherInv, [Tab!Next]_(Tab!vars) PROVE LauncherInv'
  OBVIOUS
<1>1. CASE UNCHANGED Tab!vars
  BY <1>1, SameStep DEF Tab!vars, LauncherInv, Small
<1>2. CASE Tab!Next
  BY <1>2, MountStep, GoneSteps, RequestSteps, HeardSteps, ServerSteps DEF Tab!Next
<1> QED  BY <1>1, <1>2

\* A coordinator that was destroyed asked for a context there was.
OrphansKnown == orphans \subseteq Tab!Contexts

LEMMA OrphansStayKnown ==
  /\ Tab!Init => OrphansKnown
  /\ LauncherInv /\ OrphansKnown /\ [Tab!Next]_(Tab!vars) => OrphansKnown'
<1>1. Tab!Init => OrphansKnown
  BY DEF Tab!Init, OrphansKnown
<1>2. ASSUME LauncherInv, OrphansKnown, [Tab!Next]_(Tab!vars) PROVE OrphansKnown'
  <2>1. CASE Tab!Unmount
    <3>1. page.ctx \in Tab!Contexts
      BY <1>2, <2>1 DEF Tab!Unmount, Tab!Mounted, LauncherInv, Paged, Tab!Pages
    <3> QED  BY <1>2, <2>1, <3>1 DEF Tab!Unmount, OrphansKnown
  <2>2. CASE orphans' \subseteq orphans
    BY <1>2, <2>2 DEF OrphansKnown
  <2>3. ASSUME NEW c \in Tab!Contexts, Tab!Mount(c) \/ Tab!LateAnswer(c) PROVE orphans' \subseteq orphans
    BY <2>3 DEF Tab!Mount, Tab!LateAnswer
  <2>4. ASSUME \/ Tab!Serve \/ Tab!Answered \/ Tab!ContextLost \/ Tab!Failed \/ Tab!TryAgain \/ Tab!Later
               \/ \E reason \in Tab!Reasons : Tab!Heard(reason)
        PROVE  orphans' \subseteq orphans
    <3>1. Tab!Unchanged
      BY <2>4 DEF Tab!Serve, Tab!Answered, Tab!ContextLost, Tab!Failed, Tab!TryAgain, Tab!Later, Tab!Heard
    <3> QED  BY <3>1 DEF Tab!Unchanged
  <2>5. ASSUME \/ Tab!Switch \/ Tab!Unload \/ Tab!Exit \/ Tab!Show \/ Tab!Hide \/ Tab!GoOffline \/ Tab!GoOnline
               \/ UNCHANGED Tab!vars
        PROVE  orphans' \subseteq orphans
    BY <2>5 DEF Tab!Switch, Tab!Unload, Tab!Exit, Tab!Show, Tab!Hide, Tab!GoOffline, Tab!GoOnline, Tab!vars
  <2> QED  BY <1>2, <2>1, <2>2, <2>3, <2>4, <2>5 DEF Tab!Next
<1> QED  BY <1>1, <1>2

LEMMA LauncherTyped == LauncherInv /\ OrphansKnown => Tab!TypeOK
  BY DEF LauncherInv, Small, Paged, OrphansKnown, Tab!TypeOK

LEMMA LauncherInvSuffices == LauncherInv => Tab!LauncherStaysInItsContext
  BY DEF LauncherInv, Paged, Kept1, Left, Tab!Mounted, Asks, Tab!LauncherStaysInItsContext

(* The storage of a tab never outlives the context its launcher was shown for, and *)
(* a page that is updating asks: an answer that comes late, for a page that is     *)
(* gone, is dropped, and the server gives none for a context it does not serve.    *)
THEOREM LauncherStays ==
  ASSUME MaxContexts \in Nat \ {0} PROVE Tab!Spec => []Tab!LauncherStaysInItsContext
<1>1. Tab!Init => LauncherInv
  BY LauncherInitHolds
<1>2. LauncherInv /\ [Tab!Next]_(Tab!vars) => LauncherInv'
  BY LauncherNextHolds
<1>3. LauncherInv => Tab!LauncherStaysInItsContext
  BY LauncherInvSuffices
<1> QED  BY <1>1, <1>2, <1>3, PTL DEF Tab!Spec

-----------------------------------------------------------------------------
(* The deployments of the apps. *)
CONSTANTS Releases, Windows, AdminKeys, MaxDeployments
VARIABLES release, window, unmoved, pub, dep, drain, obs, op, told, calm, job

Pipeline == INSTANCE Deployment

SomeDeployments == MaxDeployments \in Nat \ {0, 1}

Acting     == {"promoting", "restoring"}
Proceeding == {"approve", "rollback"}

\* What a request works for is one window with a release, one key, one deployment; the operation
\* of its key is processing for as long as it is at work with the provider.
HeldBy(j) ==
  /\ \A w \in j.window : window[w].release # {}
  /\ \A v, w \in j.window : v = w
  /\ \A k, l \in j.key : k = l
  /\ \A d, e \in j.deployment : d = e
  /\ j.at = "promoting" => \A k \in j.key : op[k] = "approve"
  /\ j.at = "restoring" => \A k \in j.key : op[k] = "rollback"
ApartFrom(i, j) == i.at \in Acting /\ j.at \in Acting => i.key \cap j.key = {}
Owned ==
  /\ \A w \in Windows : window[w].status = "none" <=> window[w].release = {}
  /\ \A p \in Procs : HeldBy(job[p])
  /\ \A p \in Procs : job[p].at \in Acting => job[p].key # {}
  /\ \A p, q \in Procs : p # q => ApartFrom(job[p], job[q])

\* As long as nothing interfered: one operation is processing, on the publication it read or for
\* a window not used yet; and a used window has a promoted release, which none can promote again.
Used(w)    == \E d \in Pipeline!Deployments : w \in dep[d].window
CurrentFor(j) ==
  /\ j.at = "restoring" => pub = [current |-> j.deployment, previous |-> j.target]
  /\ j.at = "promoting" => \A w \in j.window : ~Used(w)
Single  == \A k, l \in Pipeline!Keys : op[k] \in Proceeding /\ op[l] \in Proceeding => k = l
Spent   == \A w \in Windows : Used(w) => /\ window[w].release # {}
                                         /\ \A r \in window[w].release : release[r] = "promoted"
UsedOnce == \A d, e \in Pipeline!Deployments : dep[d].window \cap dep[e].window # {} => d = e
InTurn  == calm => /\ Single /\ Spent /\ UsedOnce
                   /\ \A p \in Procs : CurrentFor(job[p])
                   /\ Pipeline!PublicationIsConsistent

PipelineInv == Pipeline!TypeOK /\ Owned /\ InTurn

LEMMA PipelineInitHolds == SomeDeployments /\ Pipeline!Init => PipelineInv
<1> SUFFICES ASSUME SomeDeployments, Pipeline!Init PROVE PipelineInv
  OBVIOUS
<1>1. Pipeline!Idle \in Pipeline!Job /\ Pipeline!Idle.at = "idle" /\ Pipeline!Idle.window = {} /\ Pipeline!Idle.key = {} /\ Pipeline!Idle.deployment = {}
  BY DEF Pipeline!Idle, Pipeline!Job, Pipeline!Steps
<1>2. \A p \in Procs : job[p] = Pipeline!Idle
  BY DEF Pipeline!Init
<1>3. PICK n \in {1, 2} :
        /\ pub = [current |-> {n}, previous |-> {n - 1} \ {0}]
        /\ dep = [d \in Pipeline!Deployments |->
                    [status |-> IF d > n THEN "none" ELSE IF d = n THEN "published" ELSE "superseded",
                     window |-> {}]]
        /\ obs = [d \in Pipeline!Deployments |-> IF d <= n THEN "passed" ELSE "none"]
  BY DEF Pipeline!Init
<1>4. n \in Pipeline!Deployments /\ ({n - 1} \ {0}) \subseteq Pipeline!Deployments /\ Pipeline!Deployments \subseteq Nat \ {0}
  BY DEF SomeDeployments, Pipeline!Deployments
<1>5. Pipeline!TypeOK
  BY <1>1, <1>3, <1>4 DEF Pipeline!Init, Pipeline!TypeOK
<1>6. Owned
  BY <1>1, <1>2 DEF Pipeline!Init, Owned, HeldBy, ApartFrom, Acting
<1>7. Pipeline!PublicationIsConsistent
  <2>1. {d \in Pipeline!Deployments : dep[d].status = "published"} = pub.current
    BY <1>3, <1>4
  <2>2. \A d \in pub.previous : dep[d].status = "superseded"
    BY <1>3, <1>4
  <2>3. \A d \in Pipeline!Deployments : drain[d] = {}
    BY DEF Pipeline!Init
  <2> QED  BY <2>1, <2>2, <2>3 DEF Pipeline!PublicationIsConsistent
<1>8. Single /\ Spent /\ UsedOnce /\ \A p \in Procs : CurrentFor(job[p])
  <2>1. \A d \in Pipeline!Deployments : dep[d].window = {}
    BY <1>3
  <2>2. \A w \in Windows : ~Used(w)
    BY <2>1 DEF Used
  <2>3. Single
    BY DEF Pipeline!Init, Single, Proceeding
  <2> QED  BY <1>1, <1>2, <2>1, <2>2, <2>3 DEF Spent, UsedOnce, CurrentFor
<1> QED  BY <1>5, <1>6, <1>7, <1>8 DEF PipelineInv, InTurn

\* One request moves on.
LEMMA Moves ==
  ASSUME job \in [Procs -> Pipeline!Job], NEW p \in Procs, NEW j \in Pipeline!Job, job' = [job EXCEPT ![p] = j]
  PROVE  /\ job' \in [Procs -> Pipeline!Job] /\ job'[p] = j
         /\ \A q \in Procs : q # p => job'[q] = job[q]
  OBVIOUS

LEMMA IdleIsJob ==
  /\ Pipeline!Idle \in Pipeline!Job /\ Pipeline!Idle.at = "idle" /\ Pipeline!Idle.window = {}
  /\ Pipeline!Idle.key = {}
  /\ Pipeline!Idle.deployment = {} /\ Pipeline!Idle.release = {} /\ Pipeline!Idle.target = {}
  BY DEF Pipeline!Idle, Pipeline!Job, Pipeline!Steps

\* A step that changes what one request is doing, and of the windows at most status and phase.
LEMMA RowStep ==
  ASSUME PipelineInv, NEW p \in Procs, NEW j \in Pipeline!Job, job' = [job EXCEPT ![p] = j],
         j.at \notin Acting, HeldBy(j),
         window' \in [Windows -> [status : Pipeline!Due \cup {"none", "completed", "cancelled", "failed"},
                                  release : SUBSET Releases, phase : {"ahead", "open", "over"}]],
         \A v \in Windows : /\ window'[v].release = window[v].release
                            /\ window'[v].status = "none" <=> window[v].status = "none",
         unmoved' \in [Windows -> SUBSET Procs], told' \subseteq Pipeline!Deployments,
         UNCHANGED <<release, pub, dep, drain, obs, op, calm>>
  PROVE  PipelineInv'
<1>1. /\ job' \in [Procs -> Pipeline!Job] /\ job'[p] = j
      /\ \A q \in Procs : q # p => job'[q] = job[q]
  BY Moves DEF PipelineInv, Pipeline!TypeOK
<1>2. Pipeline!TypeOK'
  BY <1>1 DEF PipelineInv, Pipeline!TypeOK
<1>3. \A q \in Procs : HeldBy(job[q])'
  <2>0. \A q \in Procs : job[q].window \subseteq Windows
    BY DEF PipelineInv, Pipeline!TypeOK, Pipeline!Job
  <2>1. HeldBy(job[p])'
    BY <1>1 DEF HeldBy, Pipeline!Job
  <2>2. \A q \in Procs : q # p => HeldBy(job[q])'
    BY <1>1, <2>0 DEF HeldBy, PipelineInv, Owned
  <2> QED  BY <2>1, <2>2
<1>4. Owned'
  BY <1>1, <1>3 DEF PipelineInv, Owned, ApartFrom
<1>5. InTurn'
  <2> SUFFICES ASSUME calm' PROVE InTurn'
    BY DEF InTurn
  <2>1. calm /\ InTurn
    BY DEF PipelineInv
  <2>2. \A q \in Procs : CurrentFor(job[q])'
    <3>1. CurrentFor(job[p])'
      BY <1>1 DEF CurrentFor, Acting
    <3>2. \A q \in Procs : q # p => CurrentFor(job[q])'
      BY <1>1, <2>1 DEF InTurn, CurrentFor, Used
    <3> QED  BY <3>1, <3>2
  <2>3. Single' /\ Spent' /\ UsedOnce' /\ Pipeline!PublicationIsConsistent'
    BY <2>1 DEF InTurn, Single, Spent, UsedOnce, Pipeline!PublicationIsConsistent, Used
  <2> QED  BY <2>2, <2>3 DEF InTurn
<1> QED  BY <1>2, <1>4, <1>5 DEF PipelineInv

LEMMA JobStep ==
  ASSUME PipelineInv, NEW p \in Procs, NEW j \in Pipeline!Job, job' = [job EXCEPT ![p] = j],
         j.at \notin Acting, HeldBy(j),
         unmoved' \in [Windows -> SUBSET Procs], told' \subseteq Pipeline!Deployments,
         UNCHANGED <<release, window, pub, dep, drain, obs, op, calm>>
  PROVE  PipelineInv'
  BY RowStep DEF PipelineInv, Pipeline!TypeOK

\* A request goes on with what it works for, or it is done.
LEMMA GoesOn ==
  ASSUME job \in [Procs -> Pipeline!Job], NEW p \in Procs, NEW step \in Pipeline!Steps
  PROVE  LET j == [job[p] EXCEPT !.at = step] IN
         /\ j \in Pipeline!Job /\ j.at = step /\ j.window = job[p].window /\ j.key = job[p].key
         /\ j.deployment = job[p].deployment /\ j.target = job[p].target
         /\ Pipeline!Go(p, step) => job' = [job EXCEPT ![p] = j]
<1>1. job[p] \in Pipeline!Job
  OBVIOUS
<1>2. Pipeline!Go(p, step) => job' = [job EXCEPT ![p] = [job[p] EXCEPT !.at = step]]
  BY DEF Pipeline!Go
<1> QED  BY <1>1, <1>2 DEF Pipeline!Job

\* A request begins.
LEMMA Begins ==
  ASSUME PipelineInv, NEW p \in Procs, NEW j \in Pipeline!Job, Pipeline!Begin(p, j), j.at \notin Acting,
         HeldBy(j),
         unmoved' \in [Windows -> SUBSET Procs],
         UNCHANGED <<release, window, Pipeline!published, op, told, calm>>
  PROVE  PipelineInv'
<1>1. told' \subseteq Pipeline!Deployments /\ job' = [job EXCEPT ![p] = j]
  BY DEF Pipeline!Begin, PipelineInv, Pipeline!TypeOK
<1> QED  BY <1>1, JobStep DEF Pipeline!published

\* A request goes on to a step of its own, or is done.
LEMMA Continues ==
  ASSUME PipelineInv, NEW p \in Procs, NEW step \in Pipeline!Steps \ Acting,
         Pipeline!Go(p, step) \/ Pipeline!Done(p),
         unmoved' \in [Windows -> SUBSET Procs], told' \subseteq Pipeline!Deployments,
         UNCHANGED <<release, window, Pipeline!published, op, calm>>
  PROVE  PipelineInv'
<1>1. CASE Pipeline!Go(p, step)
  <2> DEFINE j == [job[p] EXCEPT !.at = step]
  <2>1. /\ j \in Pipeline!Job /\ j.at = step /\ j.window = job[p].window /\ j.key = job[p].key
        /\ j.deployment = job[p].deployment /\ job' = [job EXCEPT ![p] = j]
    BY <1>1, GoesOn DEF PipelineInv, Pipeline!TypeOK
  <2>2. HeldBy(j)
    BY <2>1 DEF HeldBy, PipelineInv, Owned, Acting
  <2> HIDE DEF j
  <2> QED  BY <2>1, <2>2, JobStep DEF Pipeline!published
<1>2. CASE Pipeline!Done(p)
  <2>1. HeldBy(Pipeline!Idle) /\ Pipeline!Idle \in Pipeline!Job /\ Pipeline!Idle.at \notin Acting /\ job' = [job EXCEPT ![p] = Pipeline!Idle]
    BY <1>2, IdleIsJob DEF HeldBy, Pipeline!Done, Acting
  <2> QED  BY <2>1, JobStep DEF Pipeline!published
<1> QED  BY <1>1, <1>2

LEMMA PipelineReadSteps ==
  ASSUME PipelineInv, NEW p \in Procs,
         Pipeline!StagingRead(p) \/ Pipeline!SweepRead(p) \/ Pipeline!ApproveRequest(p) \/ Pipeline!ObserveRead(p) \/ Pipeline!RollbackRequest(p)
  PROVE  PipelineInv'
<1>0. \A w \in Windows : window[w].status # "none" => window[w].release # {}
  BY DEF PipelineInv, Owned
<1>1. CASE Pipeline!StagingRead(p)
  <2>1. PICK r \in Releases : Pipeline!Begin(p, [Pipeline!Idle EXCEPT !.at = "staging", !.release = {r}])
    BY <1>1 DEF Pipeline!StagingRead
  <2> DEFINE j == [Pipeline!Idle EXCEPT !.at = "staging", !.release = {r}]
  <2>2. j \in Pipeline!Job /\ j.at = "staging" /\ j.window = {} /\ j.key = {} /\ j.deployment = {}
    BY DEF Pipeline!Idle, Pipeline!Job, Pipeline!Steps
  <2>3. Pipeline!Begin(p, j)
    BY <2>1
  <2> HIDE DEF j
  <2>4. HeldBy(j) /\ j.at \notin Acting
    BY <2>2 DEF HeldBy, Acting
  <2> QED  BY <1>1, <2>2, <2>3, <2>4, Begins DEF Pipeline!StagingRead, PipelineInv, Pipeline!TypeOK
<1>2. CASE Pipeline!SweepRead(p)
  <2>1. PICK w \in Windows : /\ window[w].status \in Pipeline!Due
                             /\ Pipeline!Begin(p, [Pipeline!Idle EXCEPT !.at = "sweep", !.window = {w}])
                             /\ unmoved' = [unmoved EXCEPT ![w] = @ \cup {p}]
    BY <1>2 DEF Pipeline!SweepRead
  <2> DEFINE j == [Pipeline!Idle EXCEPT !.at = "sweep", !.window = {w}]
  <2>2. j \in Pipeline!Job /\ j.at = "sweep" /\ j.window = {w} /\ j.key = {} /\ j.deployment = {}
    BY DEF Pipeline!Idle, Pipeline!Job, Pipeline!Steps
  <2>3. Pipeline!Begin(p, j) /\ unmoved' \in [Windows -> SUBSET Procs]
    BY <2>1 DEF PipelineInv, Pipeline!TypeOK
  <2> HIDE DEF j
  <2>4. HeldBy(j) /\ j.at \notin Acting
    BY <1>0, <2>1, <2>2 DEF HeldBy, Pipeline!Due, Acting
  <2> QED  BY <1>2, <2>2, <2>3, <2>4, Begins DEF Pipeline!SweepRead
<1>3. CASE Pipeline!ApproveRequest(p)
  <2>1. PICK w \in Windows, k \in AdminKeys :
          /\ window[w].status # "none"
          /\ Pipeline!Begin(p, [Pipeline!Idle EXCEPT !.at = "approve", !.window = {w}, !.key = {<<"admin", k>>}])
    BY <1>3 DEF Pipeline!ApproveRequest
  <2> DEFINE j == [Pipeline!Idle EXCEPT !.at = "approve", !.window = {w}, !.key = {<<"admin", k>>}]
  <2>2. /\ j \in Pipeline!Job /\ j.at = "approve" /\ j.window = {w} /\ j.key = {<<"admin", k>>}
        /\ j.deployment = {}
    <3> DEFINE key == <<"admin", k>>
    <3>1. key \in Pipeline!Keys
      BY DEF Pipeline!Keys
    <3> HIDE DEF key
    <3>2. LET i == [Pipeline!Idle EXCEPT !.at = "approve", !.window = {w}, !.key = {key}] IN
          i \in Pipeline!Job /\ i.at = "approve" /\ i.window = {w} /\ i.key = {key} /\ i.deployment = {}
      BY <3>1, IdleIsJob DEF Pipeline!Job, Pipeline!Steps
    <3> QED  BY <3>2 DEF key
  <2>3. Pipeline!Begin(p, j)
    BY <2>1
  <2> HIDE DEF j
  <2>4. HeldBy(j) /\ j.at \notin Acting
    BY <1>0, <2>1, <2>2 DEF HeldBy, Acting
  <2> QED  BY <1>3, <2>2, <2>3, <2>4, Begins DEF Pipeline!ApproveRequest, PipelineInv, Pipeline!TypeOK
<1>4. CASE Pipeline!ObserveRead(p)
  <2>1. PICK d \in Pipeline!Deployments : Pipeline!Begin(p, [Pipeline!Idle EXCEPT !.at = "observe", !.deployment = {d}])
    BY <1>4 DEF Pipeline!ObserveRead
  <2> DEFINE j == [Pipeline!Idle EXCEPT !.at = "observe", !.deployment = {d}]
  <2>2. j \in Pipeline!Job /\ j.at = "observe" /\ j.window = {} /\ j.key = {} /\ j.deployment = {d}
    BY DEF Pipeline!Idle, Pipeline!Job, Pipeline!Steps
  <2>3. Pipeline!Begin(p, j)
    BY <2>1
  <2> HIDE DEF j
  <2>4. HeldBy(j) /\ j.at \notin Acting
    BY <2>2 DEF HeldBy, Acting
  <2> QED  BY <1>4, <2>2, <2>3, <2>4, Begins DEF Pipeline!ObserveRead, PipelineInv, Pipeline!TypeOK
<1>5. CASE Pipeline!RollbackRequest(p)
  <2>1. PICK d \in pub.current, k \in AdminKeys :
          Pipeline!Begin(p, [Pipeline!Idle EXCEPT !.at = "rollback", !.deployment = {d}, !.key = {<<"admin", k>>}])
    BY <1>5 DEF Pipeline!RollbackRequest
  <2> DEFINE j == [Pipeline!Idle EXCEPT !.at = "rollback", !.deployment = {d}, !.key = {<<"admin", k>>}]
  <2>2. d \in Pipeline!Deployments
    BY DEF PipelineInv, Pipeline!TypeOK
  <2>3. /\ j \in Pipeline!Job /\ j.at = "rollback" /\ j.window = {} /\ j.key = {<<"admin", k>>}
        /\ j.deployment = {d}
    <3> DEFINE key == <<"admin", k>>
    <3>1. key \in Pipeline!Keys
      BY DEF Pipeline!Keys
    <3> HIDE DEF key
    <3>2. LET i == [Pipeline!Idle EXCEPT !.at = "rollback", !.deployment = {d}, !.key = {key}] IN
          i \in Pipeline!Job /\ i.at = "rollback" /\ i.window = {} /\ i.key = {key} /\ i.deployment = {d}
      BY <2>2, <3>1, IdleIsJob DEF Pipeline!Job, Pipeline!Steps
    <3> QED  BY <3>2 DEF key
  <2>4. Pipeline!Begin(p, j)
    BY <2>1
  <2> HIDE DEF j
  <2>5. HeldBy(j) /\ j.at \notin Acting
    BY <2>3 DEF HeldBy, Acting
  <2> QED  BY <1>5, <2>3, <2>4, <2>5, Begins DEF Pipeline!RollbackRequest, PipelineInv, Pipeline!TypeOK
<1> QED  BY <1>1, <1>2, <1>3, <1>4, <1>5

LEMMA CheckSteps ==
  ASSUME PipelineInv, NEW p \in Procs,
         \/ Pipeline!ApproveCheck(p) \/ Pipeline!ApproveRefused(p) \/ Pipeline!ObserveCritical(p) \/ Pipeline!RollbackCheck(p) \/ Pipeline!Abandon(p)
  PROVE  PipelineInv'
<1>0. /\ unmoved \in [Windows -> SUBSET Procs] /\ told \subseteq Pipeline!Deployments
      /\ {"failing", "clear"} \subseteq Pipeline!Steps \ Acting
  BY DEF PipelineInv, Pipeline!TypeOK, Pipeline!Steps, Acting
<1>1. CASE Pipeline!ApproveCheck(p)
  <2>1. Pipeline!Go(p, "failing") \/ Pipeline!Go(p, "clear") \/ Pipeline!Done(p)
    BY <1>1 DEF Pipeline!ApproveCheck
  <2> QED  BY <1>0, <1>1, <2>1, Continues DEF Pipeline!ApproveCheck
<1>2. CASE Pipeline!ApproveRefused(p) \/ Pipeline!Abandon(p)
  BY <1>0, <1>2, Continues DEF Pipeline!ApproveRefused, Pipeline!Abandon
<1>3. CASE Pipeline!ObserveCritical(p)
  <2> DEFINE j == [job[p] EXCEPT !.at = "rollback", !.key = {"safety"} \X job[p].deployment]
  <2>1. job[p] \in Pipeline!Job /\ HeldBy(job[p])
    BY DEF PipelineInv, Pipeline!TypeOK, Owned
  <2>2. /\ j \in Pipeline!Job /\ j.at = "rollback" /\ j.window = job[p].window
        /\ j.deployment = job[p].deployment /\ j.key = {"safety"} \X job[p].deployment
    BY <2>1 DEF Pipeline!Job, Pipeline!Steps, Pipeline!Keys
  <2>3. job' = [job EXCEPT ![p] = j]
    BY <1>3 DEF Pipeline!ObserveCritical
  <2> HIDE DEF j
  <2>4. HeldBy(j) /\ j.at \notin Acting
    BY <2>1, <2>2 DEF HeldBy, Acting
  <2> QED  BY <1>0, <1>3, <2>2, <2>3, <2>4, JobStep DEF Pipeline!ObserveCritical, Pipeline!published
<1>4. CASE Pipeline!RollbackCheck(p)
  <2>0. told' \subseteq Pipeline!Deployments
    BY <1>0, <1>4 DEF Pipeline!RollbackCheck, Pipeline!Report
  <2>1. CASE Pipeline!Done(p)
    BY <1>0, <1>4, <2>0, <2>1, Continues DEF Pipeline!RollbackCheck
  <2>2. CASE job' = [job EXCEPT ![p].at = "rollbackClear", ![p].target = pub.previous]
    <3> DEFINE j == [job[p] EXCEPT !.at = "rollbackClear", !.target = pub.previous]
    <3>1. job[p] \in Pipeline!Job /\ HeldBy(job[p]) /\ pub.previous \subseteq Pipeline!Deployments
      BY DEF PipelineInv, Pipeline!TypeOK, Owned
    <3>2. /\ j \in Pipeline!Job /\ j.at = "rollbackClear" /\ j.window = job[p].window
          /\ j.deployment = job[p].deployment /\ j.key = job[p].key
      BY <3>1 DEF Pipeline!Job, Pipeline!Steps
    <3>3. job' = [job EXCEPT ![p] = j]
      BY <2>2
    <3> HIDE DEF j
    <3>4. HeldBy(j) /\ j.at \notin Acting
      BY <3>1, <3>2 DEF HeldBy, Acting
    <3> QED  BY <1>0, <1>4, <2>0, <3>2, <3>3, <3>4, JobStep DEF Pipeline!RollbackCheck, Pipeline!published
  <2> QED  BY <1>4, <2>1, <2>2 DEF Pipeline!RollbackCheck
<1> QED  BY <1>1, <1>2, <1>3, <1>4

\* What the sweep writes of a window leaves its release.
LEMMA Writes ==
  ASSUME Pipeline!TypeOK, NEW w \in Windows,
         NEW status \in Pipeline!Due \cup {"completed", "cancelled", "failed"}, Pipeline!Write(w, status)
  PROVE  /\ window' \in [Windows -> [status : Pipeline!Due \cup {"none", "completed", "cancelled", "failed"},
                                     release : SUBSET Releases, phase : {"ahead", "open", "over"}]]
         /\ unmoved' \in [Windows -> SUBSET Procs]
         /\ \A v \in Windows : window'[v].release = window[v].release
         /\ \A v \in Windows : v # w => window'[v].status = window[v].status
         /\ window'[w].status # "none"
<1>1. /\ window' = [window EXCEPT ![w] = [window[w] EXCEPT !.status = status]]
      /\ unmoved' = [unmoved EXCEPT ![w] = {}]
  BY DEF Pipeline!Write
<1>2. window[w] \in [status : Pipeline!Due \cup {"none", "completed", "cancelled", "failed"},
                     release : SUBSET Releases, phase : {"ahead", "open", "over"}]
  BY DEF Pipeline!TypeOK
<1>3. [window[w] EXCEPT !.status = status] \in
        [status : Pipeline!Due \cup {"none", "completed", "cancelled", "failed"},
         release : SUBSET Releases, phase : {"ahead", "open", "over"}]
  BY <1>2
<1>4. status # "none"
  BY DEF Pipeline!Due
<1> QED  BY <1>1, <1>2, <1>3, <1>4 DEF Pipeline!TypeOK

\* A step after which every window that had a release has it, that puts no operation and takes
\* no deployment in use, and after which a request is at most less far.
LEMMA WindowStep ==
  ASSUME PipelineInv,
         window' \in [Windows -> [status : Pipeline!Due \cup {"none", "completed", "cancelled", "failed"},
                                  release : SUBSET Releases, phase : {"ahead", "open", "over"}]],
         unmoved' \in [Windows -> SUBSET Procs], drain' \in [Pipeline!Deployments -> SUBSET Windows],
         \A v \in Windows : window[v].release = {} \/ window'[v].release = window[v].release,
         \A v \in Windows : window'[v].status = "none" <=> window'[v].release = {},
         \A d \in Pipeline!Deployments : drain'[d] # {} => drain[d] # {} \/ d \in pub.current,
         UNCHANGED <<release, pub, dep, obs, op, told, calm, job>>
  PROVE  PipelineInv'
<1>1. Pipeline!TypeOK'
  BY DEF PipelineInv, Pipeline!TypeOK
<1>2. \A q \in Procs : job[q].window \subseteq Windows
  BY DEF PipelineInv, Pipeline!TypeOK, Pipeline!Job
<1>3. Owned'
  <2>1. \A q \in Procs : HeldBy(job[q])'
    BY <1>2 DEF PipelineInv, Owned, HeldBy
  <2> QED  BY <2>1 DEF PipelineInv, Owned, ApartFrom
<1>4. InTurn'
  <2> SUFFICES ASSUME calm' PROVE InTurn'
    BY DEF InTurn
  <2>1. calm /\ InTurn
    BY DEF PipelineInv
  <2>2. \A q \in Procs : CurrentFor(job[q])'
    BY <2>1 DEF InTurn, CurrentFor, Used
  <2>3. Single' /\ UsedOnce'
    BY <2>1 DEF InTurn, Single, UsedOnce
  <2>4. Spent'
    BY <2>1 DEF InTurn, Spent, Used
  <2>5. Pipeline!PublicationIsConsistent'
    BY <2>1 DEF InTurn, Pipeline!PublicationIsConsistent
  <2> QED  BY <2>2, <2>3, <2>4, <2>5 DEF InTurn
<1> QED  BY <1>1, <1>3, <1>4 DEF PipelineInv

LEMMA Projects ==
  ASSUME Pipeline!TypeOK, NEW W \in SUBSET Windows, Pipeline!Project(W)
  PROVE  /\ drain' \in [Pipeline!Deployments -> SUBSET Windows]
         /\ \A d \in Pipeline!Deployments : drain'[d] # {} => drain[d] # {} \/ d \in pub.current
  BY DEF Pipeline!TypeOK, Pipeline!Project

LEMMA WindowSteps ==
  ASSUME PipelineInv, NEW w \in Windows,
         \/ Pipeline!TimePasses(w) \/ Pipeline!RescheduleWindow(w) \/ Pipeline!CancelWindow(w)
         \/ \E r \in Releases : Pipeline!ScheduleWindow(w, r)
  PROVE  PipelineInv'
<1> DEFINE Rows == [status : Pipeline!Due \cup {"none", "completed", "cancelled", "failed"},
                    release : SUBSET Releases, phase : {"ahead", "open", "over"}]
<1>0. /\ Pipeline!TypeOK /\ window[w] \in Rows /\ window \in [Windows -> Rows]
      /\ unmoved \in [Windows -> SUBSET Procs]
      /\ \A v \in Windows : window[v].status = "none" <=> window[v].release = {}
      /\ drain \in [Pipeline!Deployments -> SUBSET Windows]
  BY DEF PipelineInv, Pipeline!TypeOK, Owned
<1>1. CASE Pipeline!TimePasses(w)
  <2>1. PICK phase \in {"open", "over"} : window' = [window EXCEPT ![w] = [window[w] EXCEPT !.phase = phase]]
    <3>1. window' = [window EXCEPT ![w] = [window[w] EXCEPT !.phase = IF window[w].phase = "ahead" THEN "open" ELSE "over"]]
      BY <1>1 DEF Pipeline!TimePasses
    <3> QED  BY <3>1
  <2>2. [window[w] EXCEPT !.phase = phase] \in Rows
    BY <1>0
  <2>3. window' \in [Windows -> Rows] /\ \A v \in Windows : window'[v].status = window[v].status
                                                         /\ window'[v].release = window[v].release
    BY <1>0, <2>1, <2>2
  <2> QED  BY <1>0, <1>1, <2>3, WindowStep DEF Pipeline!TimePasses, Pipeline!published
<1>2. CASE Pipeline!RescheduleWindow(w)
  <2>1. /\ window' = [window EXCEPT ![w] = [window[w] EXCEPT !.phase = "ahead"]]
        /\ unmoved' = [unmoved EXCEPT ![w] = {}] /\ Pipeline!Project({w})
    BY <1>2 DEF Pipeline!RescheduleWindow
  <2>2. [window[w] EXCEPT !.phase = "ahead"] \in Rows
    BY <1>0
  <2>3. window' \in [Windows -> Rows] /\ \A v \in Windows : window'[v].status = window[v].status
                                                         /\ window'[v].release = window[v].release
    BY <1>0, <2>1, <2>2
  <2>4. unmoved' \in [Windows -> SUBSET Procs]
    BY <1>0, <2>1
  <2>5. /\ drain' \in [Pipeline!Deployments -> SUBSET Windows]
        /\ \A d \in Pipeline!Deployments : drain'[d] # {} => drain[d] # {} \/ d \in pub.current
    BY <1>0, <2>1, Projects
  <2> QED  BY <1>0, <1>2, <2>3, <2>4, <2>5, WindowStep DEF Pipeline!RescheduleWindow
<1>3. CASE Pipeline!CancelWindow(w)
  <2>1. Pipeline!Write(w, "cancelled") /\ Pipeline!Project({}) /\ window[w].status # "none"
    BY <1>3 DEF Pipeline!CancelWindow
  <2>2. /\ drain' \in [Pipeline!Deployments -> SUBSET Windows]
        /\ \A d \in Pipeline!Deployments : drain'[d] # {} => drain[d] # {} \/ d \in pub.current
    BY <1>0, <2>1, Projects
  <2> QED  BY <1>0, <1>3, <2>1, <2>2, Writes, WindowStep DEF Pipeline!CancelWindow
<1>4. ASSUME NEW r \in Releases, Pipeline!ScheduleWindow(w, r) PROVE PipelineInv'
  <2> DEFINE row == [status |-> "scheduled", release |-> {r}, phase |-> "ahead"]
  <2>1. window' = [window EXCEPT ![w] = row] /\ Pipeline!Project({w}) /\ window[w].status = "none"
    BY <1>4 DEF Pipeline!ScheduleWindow
  <2>2. row \in Rows /\ row.release = {r} /\ row.status = "scheduled"
    BY DEF Pipeline!Due
  <2> HIDE DEF row
  <2>3. /\ window' \in [Windows -> Rows] /\ window'[w] = row
        /\ \A v \in Windows : v # w => window'[v] = window[v]
    BY <1>0, <2>1, <2>2
  <2>4. /\ drain' \in [Pipeline!Deployments -> SUBSET Windows]
        /\ \A d \in Pipeline!Deployments : drain'[d] # {} => drain[d] # {} \/ d \in pub.current
    BY <1>0, <2>1, Projects
  <2>5. \A v \in Windows : window[v].release = {} \/ window'[v].release = window[v].release
    BY <1>0, <2>1, <2>3
  <2>6. \A v \in Windows : window'[v].status = "none" <=> window'[v].release = {}
    BY <1>0, <2>2, <2>3
  <2> QED  BY <1>0, <1>4, <2>3, <2>4, <2>5, <2>6, WindowStep DEF Pipeline!ScheduleWindow
<1> QED  BY <1>1, <1>2, <1>3, <1>4

\* The sweep writes a window's row, and goes on or ends.
LEMMA SweepSteps ==
  ASSUME PipelineInv, NEW p \in Procs, Pipeline!SweepDecide(p) \/ Pipeline!SweepFails(p)
  PROVE  PipelineInv'
<1>0. /\ Pipeline!TypeOK /\ job[p] \in Pipeline!Job /\ HeldBy(job[p]) /\ job[p].window \subseteq Windows
      /\ told \subseteq Pipeline!Deployments /\ unmoved \in [Windows -> SUBSET Procs]
      /\ \A v \in job[p].window : window[v].status # "none"
      /\ window \in [Windows -> [status : Pipeline!Due \cup {"none", "completed", "cancelled", "failed"},
                                 release : SUBSET Releases, phase : {"ahead", "open", "over"}]]
  BY DEF PipelineInv, Pipeline!TypeOK, Owned, HeldBy, Pipeline!Job
<1>1. ASSUME NEW w \in job[p].window,
             \/ \E status \in Pipeline!Due \cup {"failed"} : Pipeline!Write(w, status)
             \/ UNCHANGED <<window, unmoved>>
      PROVE  /\ window' \in [Windows -> [status : Pipeline!Due \cup {"none", "completed", "cancelled", "failed"},
                                         release : SUBSET Releases, phase : {"ahead", "open", "over"}]]
             /\ unmoved' \in [Windows -> SUBSET Procs]
             /\ \A v \in Windows : /\ window'[v].release = window[v].release
                                   /\ window'[v].status = "none" <=> window[v].status = "none"
  BY <1>0, <1>1, Writes
<1>2. CASE Pipeline!SweepDecide(p)
  <2>1. PICK w \in job[p].window, reserved \in BOOLEAN :
          /\ \/ \E status \in Pipeline!Due \cup {"failed"} : Pipeline!Write(w, status)
             \/ UNCHANGED <<window, unmoved>>
          /\ IF reserved THEN Pipeline!Done(p)
             ELSE job' = [job EXCEPT ![p].at = "approve", ![p].key = {<<"window", w>>}]
    BY <1>2 DEF Pipeline!SweepDecide, Pipeline!Due
  <2>2. PICK j \in Pipeline!Job : job' = [job EXCEPT ![p] = j] /\ j.at \notin Acting /\ HeldBy(j)
    <3>1. CASE Pipeline!Done(p)
      <4>1. HeldBy(Pipeline!Idle) /\ Pipeline!Idle \in Pipeline!Job /\ Pipeline!Idle.at \notin Acting /\ job' = [job EXCEPT ![p] = Pipeline!Idle]
        BY <3>1, IdleIsJob DEF HeldBy, Pipeline!Done, Acting
      <4> QED  BY <4>1
    <3>2. CASE job' = [job EXCEPT ![p].at = "approve", ![p].key = {<<"window", w>>}]
      <4> DEFINE j == [job[p] EXCEPT !.at = "approve", !.key = {<<"window", w>>}]
      <4>1. <<"window", w>> \in Pipeline!Keys
        BY <1>0 DEF Pipeline!Keys
      <4>2. /\ j \in Pipeline!Job /\ j.at = "approve" /\ j.window = job[p].window
            /\ j.deployment = job[p].deployment /\ j.key = {<<"window", w>>}
        BY <1>0, <4>1 DEF Pipeline!Job, Pipeline!Steps
      <4>3. job' = [job EXCEPT ![p] = j]
        BY <3>2
      <4> HIDE DEF j
      <4>4. HeldBy(j) /\ j.at \notin Acting
        BY <1>0, <4>2 DEF HeldBy, Acting
      <4> QED  BY <4>2, <4>3, <4>4
    <3> QED  BY <2>1, <3>1, <3>2
  <2> QED  BY <1>0, <1>1, <1>2, <2>1, <2>2, RowStep DEF Pipeline!SweepDecide, Pipeline!published
<1>3. CASE Pipeline!SweepFails(p)
  <2>1. \/ UNCHANGED <<window, unmoved>>
        \/ \E w \in job[p].window, status \in Pipeline!Due \cup {"failed"} : Pipeline!Write(w, status)
    BY <1>3 DEF Pipeline!SweepFails, Pipeline!Due
  <2>2. HeldBy(Pipeline!Idle) /\ Pipeline!Idle \in Pipeline!Job /\ Pipeline!Idle.at \notin Acting /\ job' = [job EXCEPT ![p] = Pipeline!Idle]
    BY <1>3, IdleIsJob DEF HeldBy, Pipeline!SweepFails, Pipeline!Done, Acting
  <2>3. CASE UNCHANGED <<window, unmoved>>
    BY <1>0, <1>3, <2>2, <2>3, RowStep DEF Pipeline!SweepFails, Pipeline!published
  <2>4. CASE \E w \in job[p].window, status \in Pipeline!Due \cup {"failed"} : Pipeline!Write(w, status)
    BY <1>0, <1>1, <1>3, <2>2, <2>4, RowStep DEF Pipeline!SweepFails, Pipeline!published
  <2> QED  BY <2>1, <2>3, <2>4
<1> QED  BY <1>2, <1>3

\* Releases change, but none that was promoted while nothing interferes.
LEMMA ReleaseStep ==
  ASSUME PipelineInv, release' \in [Releases -> {"none", "created", "gate_failed", "verified", "staging_failed",
                                         "promoted"}],
         calm' \in BOOLEAN, calm' => calm,
         calm' => \A r \in Releases : release[r] = "promoted" => release'[r] = "promoted",
         job' \in [Procs -> Pipeline!Job], \A q \in Procs : job'[q] = job[q] \/ job'[q] = Pipeline!Idle,
         UNCHANGED <<window, unmoved, Pipeline!published, op, told>>
  PROVE  PipelineInv'
<1>1. Pipeline!TypeOK'
  BY DEF PipelineInv, Pipeline!TypeOK, Pipeline!published
<1>2. HeldBy(Pipeline!Idle)' /\ CurrentFor(Pipeline!Idle)' /\ Pipeline!Idle.at \notin Acting
  BY IdleIsJob DEF HeldBy, CurrentFor, Acting
<1>3. \A q \in Procs : HeldBy(job[q])'
  <2>1. \A q \in Procs : job'[q] = job[q] => HeldBy(job[q])'
    BY DEF HeldBy, PipelineInv, Owned
  <2>2. \A q \in Procs : job'[q] = Pipeline!Idle => HeldBy(job[q])'
    BY <1>2 DEF HeldBy
  <2> QED  BY <2>1, <2>2
<1>4. Owned'
  BY <1>2, <1>3 DEF PipelineInv, Owned, ApartFrom
<1>5. InTurn'
  <2> SUFFICES ASSUME calm' PROVE InTurn'
    BY DEF InTurn
  <2>1. calm /\ InTurn
    BY DEF PipelineInv
  <2>2. \A q \in Procs : CurrentFor(job[q])'
    <3>1. \A q \in Procs : job'[q] = job[q] => CurrentFor(job[q])'
      BY <2>1 DEF InTurn, CurrentFor, Used, Pipeline!published
    <3>2. \A q \in Procs : job'[q] = Pipeline!Idle => CurrentFor(job[q])'
      BY <1>2 DEF CurrentFor
    <3> QED  BY <3>1, <3>2
  <2>3. Single' /\ UsedOnce' /\ Pipeline!PublicationIsConsistent'
    BY <2>1 DEF InTurn, Single, UsedOnce, Pipeline!PublicationIsConsistent, Pipeline!published
  <2>4. Spent'
    <3>1. \A w \in Windows : window[w].release \subseteq Releases
      BY DEF PipelineInv, Pipeline!TypeOK
    <3> QED  BY <2>1, <3>1 DEF InTurn, Spent, Used, Pipeline!published
  <2> QED  BY <2>2, <2>3, <2>4 DEF InTurn
<1> QED  BY <1>1, <1>4, <1>5 DEF PipelineInv

LEMMA StagingCommits ==
  ASSUME PipelineInv, NEW p \in Procs, Pipeline!StagingCommit(p)
  PROVE  PipelineInv'
<1>1. PICK r \in job[p].release, outcome \in {"verified", "staging_failed"} :
        release' = [release EXCEPT ![r] = outcome] /\ calm' = (calm /\ release[r] \in Pipeline!Unstaged)
  BY DEF Pipeline!StagingCommit
<1>2. r \in Releases /\ Pipeline!TypeOK
  BY DEF PipelineInv, Pipeline!TypeOK, Pipeline!Job
<1>3. /\ release' \in [Releases -> {"none", "created", "gate_failed", "verified", "staging_failed", "promoted"}]
      /\ calm' \in BOOLEAN /\ (calm' => calm)
      /\ calm' => \A s \in Releases : release[s] = "promoted" => release'[s] = "promoted"
  BY <1>1, <1>2 DEF Pipeline!TypeOK, Pipeline!Unstaged
<1>4. /\ job' \in [Procs -> Pipeline!Job] /\ \A q \in Procs : job'[q] = job[q] \/ job'[q] = Pipeline!Idle
      /\ UNCHANGED <<window, unmoved, Pipeline!published, op, told>>
  BY <1>2, IdleIsJob DEF Pipeline!StagingCommit, Pipeline!Done, Pipeline!TypeOK
<1> QED  BY <1>3, <1>4, ReleaseStep

LEMMA Creates ==
  ASSUME PipelineInv, NEW r \in Releases, Pipeline!CreateRelease(r)
  PROVE  PipelineInv'
<1>1. PICK status \in {"created", "gate_failed"} : release' = [release EXCEPT ![r] = status]
  BY DEF Pipeline!CreateRelease
<1>2. Pipeline!TypeOK /\ release[r] = "none"
  BY DEF PipelineInv, Pipeline!CreateRelease
<1>3. /\ release' \in [Releases -> {"none", "created", "gate_failed", "verified", "staging_failed", "promoted"}]
      /\ \A s \in Releases : release[s] = "promoted" => release'[s] = "promoted"
      /\ calm' = calm /\ calm \in BOOLEAN
  BY <1>1, <1>2 DEF Pipeline!TypeOK, Pipeline!CreateRelease
<1>4. /\ job' \in [Procs -> Pipeline!Job] /\ \A q \in Procs : job'[q] = job[q] \/ job'[q] = Pipeline!Idle
      /\ UNCHANGED <<window, unmoved, Pipeline!published, op, told>>
  BY <1>2 DEF Pipeline!CreateRelease, Pipeline!TypeOK
<1> QED  BY <1>3, <1>4, ReleaseStep

\* An operation is completed, or one that was is forgotten: the others are as they were.
LEMMA OperationStep ==
  ASSUME PipelineInv, NEW k \in Pipeline!Keys, NEW result \in {"none", "completed"},
         op' = [op EXCEPT ![k] = result],
         job' \in [Procs -> Pipeline!Job],
         \A q \in Procs : \/ job'[q].at \notin Acting /\ HeldBy(job'[q])
                          \/ job'[q] = job[q] /\ (job[q].at \in Acting => k \notin job[q].key),
         told' \subseteq Pipeline!Deployments, UNCHANGED <<release, window, unmoved, Pipeline!published, calm>>
  PROVE  PipelineInv'
<1>1. Pipeline!TypeOK'
  BY DEF PipelineInv, Pipeline!TypeOK, Pipeline!published
<1>2. \A q \in Procs : HeldBy(job[q])'
  <2>1. \A q \in Procs : job[q].key \subseteq Pipeline!Keys /\ job'[q].key \subseteq Pipeline!Keys
    BY DEF PipelineInv, Pipeline!TypeOK, Pipeline!Job
  <2>2. ASSUME NEW q \in Procs, job'[q].at \notin Acting, HeldBy(job'[q]) PROVE HeldBy(job[q])'
    BY <2>2 DEF HeldBy, Acting
  <2>3. ASSUME NEW q \in Procs, job'[q] = job[q], job[q].at \in Acting => k \notin job[q].key
        PROVE  HeldBy(job[q])'
    <3>1. job[q].at \in Acting => \A l \in job[q].key : op'[l] = op[l]
      BY <2>1, <2>3 DEF PipelineInv, Pipeline!TypeOK
    <3>2. HeldBy(job[q])
      BY DEF PipelineInv, Owned
    <3> QED  BY <2>3, <3>1, <3>2 DEF HeldBy, Acting
  <2> QED  BY <2>2, <2>3
<1>3. Owned'
  BY <1>2 DEF PipelineInv, Owned, ApartFrom
<1>4. InTurn'
  <2> SUFFICES ASSUME calm' PROVE InTurn'
    BY DEF InTurn
  <2>1. calm /\ InTurn
    BY DEF PipelineInv
  <2>2. \A q \in Procs : CurrentFor(job[q])'
    <3>1. \A q \in Procs : job'[q].at \notin Acting => CurrentFor(job[q])'
      BY DEF CurrentFor, Acting
    <3>2. \A q \in Procs : job'[q] = job[q] => CurrentFor(job[q])'
      BY <2>1 DEF InTurn, CurrentFor, Used, Pipeline!published
    <3> QED  BY <3>1, <3>2
  <2>3. Single'
    BY <2>1 DEF InTurn, Single, Proceeding, PipelineInv, Pipeline!TypeOK
  <2>4. Spent' /\ UsedOnce' /\ Pipeline!PublicationIsConsistent'
    BY <2>1 DEF InTurn, Spent, UsedOnce, Used, Pipeline!PublicationIsConsistent, Pipeline!published
  <2> QED  BY <2>2, <2>3, <2>4 DEF InTurn
<1> QED  BY <1>1, <1>3, <1>4 DEF PipelineInv

LEMMA Purges ==
  ASSUME PipelineInv, NEW k \in Pipeline!Keys, Pipeline!PurgeOperation(k)
  PROVE  PipelineInv'
<1>1. \A q \in Procs : job[q].at \in Acting => k \notin job[q].key
  BY DEF PipelineInv, Owned, HeldBy, Pipeline!PurgeOperation, Acting
<1>2. job' \in [Procs -> Pipeline!Job] /\ told' \subseteq Pipeline!Deployments
  BY DEF PipelineInv, Pipeline!TypeOK, Pipeline!PurgeOperation
<1> QED  BY <1>1, <1>2, OperationStep DEF Pipeline!PurgeOperation

LEMMA Fails ==
  ASSUME PipelineInv, NEW p \in Procs, Pipeline!PromotionFails(p) \/ Pipeline!RollbackFails(p)
  PROVE  PipelineInv'
<1>0. /\ job \in [Procs -> Pipeline!Job] /\ job[p] \in Pipeline!Job /\ HeldBy(job[p]) /\ job[p].at \in Acting
      /\ job[p].key \subseteq Pipeline!Keys
  BY DEF PipelineInv, Pipeline!TypeOK, Owned, Pipeline!Job, Pipeline!PromotionFails,
     Pipeline!RollbackFails, Pipeline!At, Acting
<1>1. PICK k \in job[p].key : op' = [op EXCEPT ![k] = "completed"]
  BY DEF Pipeline!PromotionFails, Pipeline!RollbackFails
<1>2. \A q \in Procs : q # p /\ job[q].at \in Acting => k \notin job[q].key
  BY <1>0 DEF PipelineInv, Owned, ApartFrom
<1>3. PICK j \in Pipeline!Job : job' = [job EXCEPT ![p] = j] /\ j.at \notin Acting /\ HeldBy(j)
  <2>1. CASE Pipeline!PromotionFails(p)
    <3> DEFINE j == [job[p] EXCEPT !.at = "failing"]
    <3>1. /\ j \in Pipeline!Job /\ j.at = "failing" /\ j.window = job[p].window /\ j.key = job[p].key
          /\ j.deployment = job[p].deployment /\ job' = [job EXCEPT ![p] = j]
      BY <1>0, <2>1, GoesOn DEF Pipeline!PromotionFails, Pipeline!Steps
    <3> HIDE DEF j
    <3>2. HeldBy(j) /\ j.at \notin Acting
      BY <1>0, <3>1 DEF HeldBy, Acting
    <3> QED  BY <3>1, <3>2
  <2>2. CASE Pipeline!RollbackFails(p)
    <3>1. HeldBy(Pipeline!Idle) /\ Pipeline!Idle \in Pipeline!Job /\ Pipeline!Idle.at \notin Acting /\ job' = [job EXCEPT ![p] = Pipeline!Idle]
      BY <2>2, IdleIsJob DEF HeldBy, Pipeline!RollbackFails, Pipeline!Done, Acting
    <3> QED  BY <3>1
  <2> QED  BY <2>1, <2>2
<1>4. /\ job' \in [Procs -> Pipeline!Job]
      /\ \A q \in Procs : \/ job'[q].at \notin Acting /\ HeldBy(job'[q])
                          \/ job'[q] = job[q] /\ (job[q].at \in Acting => k \notin job[q].key)
  BY <1>0, <1>2, <1>3
<1>5. told' \subseteq Pipeline!Deployments /\ UNCHANGED <<release, window, unmoved, Pipeline!published, calm>>
  BY DEF Pipeline!PromotionFails, Pipeline!RollbackFails, Pipeline!Report, PipelineInv, Pipeline!TypeOK
<1> QED  BY <1>0, <1>1, <1>4, <1>5, OperationStep

\* An observation is written over, which nothing else depends on.
LEMMA Observes ==
  ASSUME PipelineInv, NEW p \in Procs, Pipeline!ObserveFine(p)
  PROVE  PipelineInv'
<1>1. Pipeline!TypeOK'
  BY IdleIsJob DEF Pipeline!ObserveFine, Pipeline!Done, PipelineInv, Pipeline!TypeOK, Pipeline!Job
<1>2. \A q \in Procs : job'[q] = job[q] \/ job'[q] = Pipeline!Idle
  BY IdleIsJob DEF Pipeline!ObserveFine, Pipeline!Done, PipelineInv, Pipeline!TypeOK
<1>3. \A q \in Procs : HeldBy(job[q])' /\ (CurrentFor(job[q]) => CurrentFor(job[q])')
  <2>1. HeldBy(Pipeline!Idle)' /\ CurrentFor(Pipeline!Idle)'
    BY IdleIsJob DEF HeldBy, CurrentFor
  <2>2. \A q \in Procs : job'[q] = job[q] => HeldBy(job[q])' /\ (CurrentFor(job[q]) => CurrentFor(job[q])')
    BY DEF HeldBy, CurrentFor, Used, Pipeline!ObserveFine, PipelineInv, Owned
  <2>3. \A q \in Procs : job'[q] = Pipeline!Idle => HeldBy(job[q])' /\ CurrentFor(job[q])'
    BY <2>1 DEF HeldBy, CurrentFor
  <2> QED  BY <1>2, <2>2, <2>3
<1>4. Owned'
  BY <1>2, <1>3, IdleIsJob DEF Pipeline!ObserveFine, PipelineInv, Owned, ApartFrom, Acting
<1>5. InTurn'
  BY <1>3 DEF Pipeline!ObserveFine, PipelineInv, InTurn, Single, Spent, UsedOnce, Used,
     Pipeline!PublicationIsConsistent
<1> QED  BY <1>1, <1>4, <1>5 DEF PipelineInv

\* An operation begins: nothing interferes if none is processing and what was read still holds.
LEMMA BeginStep ==
  ASSUME PipelineInv, NEW p \in Procs, NEW k \in job[p].key, op[k] = "none", NEW step \in Acting,
         Pipeline!Go(p, step),
         op' = [op EXCEPT ![k] = IF step = "promoting" THEN "approve" ELSE "rollback"],
         calm' \in BOOLEAN,
         calm' => calm /\ Pipeline!InFlight({"approve", "rollback"}) = {},
         calm' /\ step = "promoting" => \A w \in job[p].window : ~Used(w),
         calm' /\ step = "restoring" => pub = [current |-> job[p].deployment, previous |-> job[p].target],
         UNCHANGED <<release, window, unmoved, Pipeline!published, told>>
  PROVE  PipelineInv'
<1> DEFINE j == [job[p] EXCEPT !.at = step]
<1>0. /\ job \in [Procs -> Pipeline!Job] /\ job[p] \in Pipeline!Job /\ HeldBy(job[p]) /\ job[p].key = {k}
      /\ k \in Pipeline!Keys
      /\ step \in Pipeline!Steps
  BY DEF PipelineInv, Pipeline!TypeOK, Owned, HeldBy, Pipeline!Job, Acting, Pipeline!Steps
<1>1. /\ j \in Pipeline!Job /\ j.at = step /\ j.window = job[p].window /\ j.key = {k}
      /\ j.deployment = job[p].deployment /\ j.target = job[p].target
      /\ job' = [job EXCEPT ![p] = j]
  BY <1>0, GoesOn
<1> HIDE DEF j
<1>2. /\ job' \in [Procs -> Pipeline!Job] /\ job'[p] = j
      /\ \A q \in Procs : q # p => job'[q] = job[q]
  BY <1>0, <1>1, Moves
<1>3. /\ op' \in [Pipeline!Keys -> {"none", "approve", "rollback", "completed"}]
      /\ \A l \in Pipeline!Keys : l # k => op'[l] = op[l]
      /\ step = "promoting" => op'[k] = "approve"
      /\ step = "restoring" => op'[k] = "rollback"
  BY <1>0 DEF PipelineInv, Pipeline!TypeOK, Acting
<1>4. Pipeline!TypeOK'
  BY <1>2, <1>3 DEF PipelineInv, Pipeline!TypeOK, Pipeline!published
<1>5. \A q \in Procs : q # p /\ job[q].at \in Acting => k \notin job[q].key
  BY DEF PipelineInv, Owned, HeldBy, Acting
<1>6. Owned'
  <2>1. HeldBy(job[p])'
    BY <1>0, <1>1, <1>2, <1>3 DEF HeldBy
  <2>2. \A q \in Procs : job[q].key \subseteq Pipeline!Keys
    BY <1>0 DEF Pipeline!Job
  <2>3. \A q \in Procs : q # p => HeldBy(job[q])'
    BY <1>2, <1>3, <1>5, <2>2 DEF PipelineInv, Owned, HeldBy, Acting
  <2>4. \A q \in Procs : HeldBy(job[q])'
    BY <2>1, <2>3
  <2>5. \A q, r \in Procs : q # r => ApartFrom(job[q], job[r])'
    BY <1>1, <1>2, <1>5 DEF PipelineInv, Owned, ApartFrom
  <2> QED  BY <1>1, <1>2, <2>4, <2>5 DEF PipelineInv, Owned
<1>7. InTurn'
  <2> SUFFICES ASSUME calm' PROVE InTurn'
    BY DEF InTurn
  <2>1. calm /\ InTurn /\ \A l \in Pipeline!Keys : op[l] \notin Proceeding
    BY DEF PipelineInv, Pipeline!InFlight, Proceeding
  <2>2. Single'
    BY <1>3, <2>1 DEF Single
  <2>3. CurrentFor(job[p])'
    BY <1>1, <1>2 DEF CurrentFor, Used, Pipeline!published
  <2>4. \A q \in Procs : q # p => CurrentFor(job[q])'
    BY <1>2, <2>1 DEF InTurn, CurrentFor, Used, Pipeline!published
  <2>5. Spent' /\ UsedOnce' /\ Pipeline!PublicationIsConsistent'
    BY <2>1 DEF InTurn, Spent, UsedOnce, Used, Pipeline!PublicationIsConsistent, Pipeline!published
  <2> QED  BY <2>2, <2>3, <2>4, <2>5 DEF InTurn
<1> QED  BY <1>4, <1>6, <1>7 DEF PipelineInv

LEMMA ApproveBegins ==
  ASSUME PipelineInv, NEW p \in Procs, Pipeline!ApproveBegin(p)
  PROVE  PipelineInv'
<1>0. /\ Pipeline!TypeOK /\ calm \in BOOLEAN /\ job[p] \in Pipeline!Job /\ job[p].window \subseteq Windows
      /\ \A v, w \in job[p].window : v = w
  BY DEF PipelineInv, Pipeline!TypeOK, Owned, HeldBy, Pipeline!Job
<1>1. PICK w \in job[p].window, k \in job[p].key :
        IF op[k] # "none" THEN Pipeline!Go(p, "failing") /\ UNCHANGED <<op, calm>>
        ELSE /\ op' = [op EXCEPT ![k] = "approve"]
             /\ calm' = (calm /\ Pipeline!InFlight({"approve", "rollback"}) = {} /\ Pipeline!Promotable(w))
             /\ Pipeline!Go(p, "promoting")
  BY DEF Pipeline!ApproveBegin
<1>2. UNCHANGED <<release, window, unmoved, Pipeline!published, told>>
  BY DEF Pipeline!ApproveBegin
<1>3. CASE op[k] # "none"
  <2>1. unmoved' \in [Windows -> SUBSET Procs] /\ told' \subseteq Pipeline!Deployments
    BY <1>0, <1>2 DEF Pipeline!TypeOK
  <2> QED  BY <1>1, <1>2, <1>3, <2>1, Continues DEF Pipeline!Steps, Acting
<1>4. CASE op[k] = "none"
  \* What is promotable has a release that is verified, so it is not used.
  <2>1. calm /\ Pipeline!Promotable(w) => ~Used(w)
    <3>1. calm /\ Used(w) => window[w].release # {} /\ \A r \in window[w].release : release[r] = "promoted"
      BY <1>0 DEF PipelineInv, InTurn, Spent
    <3> QED  BY <3>1 DEF Pipeline!Promotable
  <2>2. calm' => \A v \in job[p].window : ~Used(v)
    BY <1>0, <1>1, <1>4, <2>1
  <2>3. /\ calm' \in BOOLEAN /\ (calm' => calm /\ Pipeline!InFlight({"approve", "rollback"}) = {})
        /\ op' = [op EXCEPT ![k] = "approve"] /\ Pipeline!Go(p, "promoting")
    BY <1>0, <1>1, <1>4
  <2> QED  BY <1>2, <1>4, <2>2, <2>3, BeginStep DEF Acting
<1> QED  BY <1>3, <1>4

LEMMA RollbackBegins ==
  ASSUME PipelineInv, NEW p \in Procs, Pipeline!RollbackBegin(p)
  PROVE  PipelineInv'
<1>1. PICK k \in job[p].key :
        IF op[k] # "none" THEN Pipeline!Done(p) /\ Pipeline!Report(p, "failed") /\ UNCHANGED <<op, calm>>
        ELSE /\ op' = [op EXCEPT ![k] = "rollback"]
             /\ calm' = (calm /\ Pipeline!InFlight({"approve", "rollback"}) = {}
                              /\ pub = [current |-> job[p].deployment, previous |-> job[p].target])
             /\ Pipeline!Go(p, "restoring")
             /\ UNCHANGED told
  BY DEF Pipeline!RollbackBegin
<1>2. UNCHANGED <<release, window, unmoved, Pipeline!published>>
  BY DEF Pipeline!RollbackBegin
<1>3. CASE op[k] # "none"
  <2>1. unmoved' \in [Windows -> SUBSET Procs] /\ told' \subseteq Pipeline!Deployments
    BY <1>1, <1>2, <1>3 DEF PipelineInv, Pipeline!TypeOK, Pipeline!Report
  <2> QED  BY <1>1, <1>2, <1>3, <2>1, Continues DEF Pipeline!Steps, Acting
<1>4. CASE op[k] = "none"
  <2>1. calm \in BOOLEAN
    BY DEF PipelineInv, Pipeline!TypeOK
  <2>2. /\ calm' \in BOOLEAN /\ (calm' => calm /\ Pipeline!InFlight({"approve", "rollback"}) = {})
        /\ calm' => pub = [current |-> job[p].deployment, previous |-> job[p].target]
        /\ op' = [op EXCEPT ![k] = "rollback"] /\ Pipeline!Go(p, "restoring") /\ told' = told
    BY <1>1, <1>4, <2>1
  <2> QED  BY <1>2, <1>4, <2>2, BeginStep DEF Acting
<1> QED  BY <1>3, <1>4

\* An operation ends with what it came for. Of the others none is at work while nothing interferes.
LEMMA Alone ==
  ASSUME PipelineInv, calm, NEW p \in Procs, job[p].at \in Acting
  PROVE  \A q \in Procs : q # p => job[q].at \notin Acting
<1> SUFFICES ASSUME NEW q \in Procs, q # p, job[q].at \in Acting PROVE FALSE
  OBVIOUS
<1>1. job[p].key \subseteq Pipeline!Keys /\ job[q].key \subseteq Pipeline!Keys
  BY DEF PipelineInv, Pipeline!TypeOK, Pipeline!Job
<1>2. PICK k \in job[p].key : op[k] \in Proceeding
  BY DEF PipelineInv, Owned, HeldBy, Acting, Proceeding
<1>3. PICK l \in job[q].key : op[l] \in Proceeding
  BY DEF PipelineInv, Owned, HeldBy, Acting, Proceeding
<1>4. k = l
  BY <1>1, <1>2, <1>3 DEF PipelineInv, InTurn, Single
<1> QED  BY <1>4 DEF PipelineInv, Owned, ApartFrom

LEMMA PipelineCommitStep ==
  ASSUME PipelineInv, NEW p \in Procs, job[p].at \in Acting, Pipeline!Done(p),
         NEW k \in job[p].key, op' = [op EXCEPT ![k] = "completed"],
         release' \in [Releases -> {"none", "created", "gate_failed", "verified", "staging_failed",
                                   "promoted"}],
         window' \in [Windows -> [status : Pipeline!Due \cup {"none", "completed", "cancelled", "failed"},
                                  release : SUBSET Releases, phase : {"ahead", "open", "over"}]],
         \A v \in Windows : /\ window'[v].release = window[v].release
                            /\ window'[v].status = "none" <=> window[v].status = "none",
         unmoved' \in [Windows -> SUBSET Procs],
         pub' \in [current : SUBSET Pipeline!Deployments, previous : SUBSET Pipeline!Deployments],
         dep' \in [Pipeline!Deployments -> [status : {"none", "published", "superseded", "rolled_back"},
                                   window : SUBSET Windows]],
         drain' \in [Pipeline!Deployments -> SUBSET Windows],
         obs' \in [Pipeline!Deployments -> {"none", "observing", "passed", "rollback_triggered"}],
         told' \subseteq Pipeline!Deployments, calm' = calm,
         calm => Spent' /\ UsedOnce' /\ Pipeline!PublicationIsConsistent'
  PROVE  PipelineInv'
<1>1. /\ k \in Pipeline!Keys /\ op' \in [Pipeline!Keys -> {"none", "approve", "rollback", "completed"}]
      /\ \A l \in Pipeline!Keys : l # k => op'[l] = op[l]
      /\ op'[k] = "completed"
  BY DEF PipelineInv, Pipeline!TypeOK, Pipeline!Job
<1>2. /\ job' \in [Procs -> Pipeline!Job] /\ job'[p] = Pipeline!Idle
      /\ \A q \in Procs : q # p => job'[q] = job[q]
  BY IdleIsJob, Moves DEF PipelineInv, Pipeline!TypeOK, Pipeline!Done
<1>3. Pipeline!TypeOK'
  BY <1>1, <1>2 DEF PipelineInv, Pipeline!TypeOK
<1>4. Owned'
  <2>1. \A q \in Procs : job[q].window \subseteq Windows /\ job[q].key \subseteq Pipeline!Keys
    BY DEF PipelineInv, Pipeline!TypeOK, Pipeline!Job
  <2>2. \A q \in Procs : q # p /\ job[q].at \in Acting => k \notin job[q].key
    BY DEF PipelineInv, Owned, ApartFrom
  <2>3. HeldBy(job[p])'
    BY <1>2, IdleIsJob DEF HeldBy
  <2>4. \A q \in Procs : q # p => HeldBy(job[q])'
    <3> SUFFICES ASSUME NEW q \in Procs, q # p PROVE HeldBy(job[q])'
      OBVIOUS
    <3>1. job'[q] = job[q] /\ HeldBy(job[q])
      BY <1>2 DEF PipelineInv, Owned
    <3>2. job[q].at \in Acting => \A l \in job[q].key : op'[l] = op[l]
      BY <1>1, <2>1, <2>2
    <3>3. \A w \in job[q].window : window'[w].release # {}
      BY <2>1, <3>1 DEF HeldBy
    <3> QED  BY <3>1, <3>2, <3>3 DEF HeldBy, Acting
  <2>5. \A q \in Procs : HeldBy(job[q])'
    BY <2>3, <2>4
  <2>6. job'[p].at \notin Acting
    BY <1>2, IdleIsJob DEF Acting
  <2>7. \A q, r \in Procs : q # r => ApartFrom(job[q], job[r])'
    BY <1>2, <2>6 DEF PipelineInv, Owned, ApartFrom
  <2>8. \A q \in Procs : job'[q].at \in Acting => job'[q].key # {}
    BY <1>2, <2>6 DEF PipelineInv, Owned
  <2>9. \A v \in Windows : window'[v].status = "none" <=> window'[v].release = {}
    BY DEF PipelineInv, Owned
  <2> QED  BY <2>5, <2>7, <2>8, <2>9 DEF Owned
<1>5. InTurn'
  <2> SUFFICES ASSUME calm' PROVE InTurn'
    BY DEF InTurn
  <2>1. \A q \in Procs : job'[q].at \notin Acting
    BY <1>2, Alone, IdleIsJob DEF Acting
  <2>2. \A q \in Procs : CurrentFor(job[q])'
    BY <2>1 DEF CurrentFor, Acting
  <2>3. Single'
    BY <1>1 DEF PipelineInv, InTurn, Single, Proceeding
  <2> QED  BY <2>2, <2>3 DEF InTurn
<1> QED  BY <1>3, <1>4, <1>5 DEF PipelineInv

LEMMA RollbackCommit ==
  ASSUME PipelineInv, NEW p \in Procs, Pipeline!RollbackCommits(p)
  PROVE  PipelineInv'
<1> DEFINE from == job[p].deployment
           to   == job[p].target
<1>0. /\ Pipeline!TypeOK /\ from \subseteq Pipeline!Deployments /\ to \subseteq Pipeline!Deployments
      /\ job[p].at = "restoring"
  BY DEF PipelineInv, Pipeline!TypeOK, Pipeline!Job, Pipeline!RollbackCommits, Pipeline!At
<1>1. PICK k \in job[p].key : op' = [op EXCEPT ![k] = "completed"]
  BY DEF Pipeline!RollbackCommits
<1>2. /\ dep' = [d \in Pipeline!Deployments |->
                   [dep[d] EXCEPT !.status = IF d \in from THEN "rolled_back"
                                             ELSE IF d \in to THEN "published" ELSE dep[d].status]]
      /\ pub' = [current |-> to, previous |-> {}]
      /\ drain' = [d \in Pipeline!Deployments |-> IF d \in from \cup to THEN {} ELSE drain[d]]
      /\ obs' = [d \in Pipeline!Deployments |-> IF d \in from THEN "rollback_triggered" ELSE obs[d]]
  BY DEF Pipeline!RollbackCommits, Pipeline!Restored
<1>3. Pipeline!Done(p) /\ told' \subseteq Pipeline!Deployments /\ UNCHANGED <<release, window, unmoved, calm>>
  BY <1>0 DEF Pipeline!RollbackCommits, Pipeline!Report, Pipeline!TypeOK
<1> HIDE DEF from, to
<1>4. /\ dep' \in [Pipeline!Deployments -> [status : {"none", "published", "superseded", "rolled_back"},
                                   window : SUBSET Windows]]
      /\ \A d \in Pipeline!Deployments : /\ dep'[d].window = dep[d].window
                                /\ dep'[d].status = IF d \in from THEN "rolled_back"
                                                    ELSE IF d \in to THEN "published" ELSE dep[d].status
  <2> DEFINE Row == [status : {"none", "published", "superseded", "rolled_back"}, window : SUBSET Windows]
             statusAfter(d) == IF d \in from THEN "rolled_back" ELSE IF d \in to THEN "published" ELSE dep[d].status
  <2>1. \A d \in Pipeline!Deployments : dep[d] \in Row
    BY <1>0 DEF Pipeline!TypeOK
  <2>2. ASSUME NEW d \in Pipeline!Deployments
        PROVE  /\ [dep[d] EXCEPT !.status = statusAfter(d)] \in Row
               /\ [dep[d] EXCEPT !.status = statusAfter(d)].window = dep[d].window
               /\ [dep[d] EXCEPT !.status = statusAfter(d)].status = statusAfter(d)
    BY <2>1
  <2>3. dep' = [d \in Pipeline!Deployments |-> [dep[d] EXCEPT !.status = statusAfter(d)]]
    BY <1>2
  <2> HIDE DEF Row
  <2>4. dep' \in [Pipeline!Deployments -> Row]
    BY <2>2, <2>3
  <2>5. \A d \in Pipeline!Deployments : dep'[d].window = dep[d].window /\ dep'[d].status = statusAfter(d)
    BY <2>2, <2>3
  <2> QED  BY <2>4, <2>5 DEF Row
<1>5. /\ pub' \in [current : SUBSET Pipeline!Deployments, previous : SUBSET Pipeline!Deployments]
      /\ drain' \in [Pipeline!Deployments -> SUBSET Windows]
      /\ obs' \in [Pipeline!Deployments -> {"none", "observing", "passed", "rollback_triggered"}]
  BY <1>0, <1>2 DEF Pipeline!TypeOK
<1>6. ASSUME calm PROVE Spent' /\ UsedOnce' /\ Pipeline!PublicationIsConsistent'
  <2>1. /\ pub.current = from /\ pub.previous = to
        /\ Spent /\ UsedOnce /\ Pipeline!PublicationIsConsistent
    BY <1>0, <1>6 DEF PipelineInv, InTurn, CurrentFor, from, to
  <2>2. Spent' /\ UsedOnce'
    BY <1>3, <1>4, <2>1 DEF Spent, UsedOnce, Used
  <2>3. /\ {d \in Pipeline!Deployments : dep[d].status = "published"} = from
        /\ \A d \in to : dep[d].status = "superseded"
        /\ \A d \in Pipeline!Deployments : drain[d] # {} => d \in from
    BY <1>6, <2>1 DEF Pipeline!PublicationIsConsistent
  <2>4. {d \in Pipeline!Deployments : dep'[d].status = "published"} = to
    BY <1>0, <1>4, <2>3
  <2> QED  BY <1>2, <2>2, <2>3, <2>4 DEF Pipeline!PublicationIsConsistent
<1>7. /\ window' \in [Windows -> [status : Pipeline!Due \cup {"none", "completed", "cancelled", "failed"},
                                  release : SUBSET Releases, phase : {"ahead", "open", "over"}]]
      /\ release' \in [Releases -> {"none", "created", "gate_failed", "verified", "staging_failed",
                                   "promoted"}]
      /\ unmoved' \in [Windows -> SUBSET Procs]
  BY <1>0, <1>3 DEF Pipeline!TypeOK
<1> QED  BY <1>0, <1>1, <1>3, <1>4, <1>5, <1>6, <1>7, PipelineCommitStep DEF Acting

LEMMA PromotionCommit ==
  ASSUME PipelineInv, NEW p \in Procs, Pipeline!PromotionCommits(p)
  PROVE  PipelineInv'
<1>0. /\ Pipeline!TypeOK /\ job[p] \in Pipeline!Job /\ HeldBy(job[p]) /\ job[p].at = "promoting"
      /\ job[p].window \subseteq Windows
  BY DEF PipelineInv, Pipeline!TypeOK, Pipeline!Job, Owned, Pipeline!PromotionCommits, Pipeline!At
<1>1. PICK w \in job[p].window, k \in job[p].key, n \in Pipeline!Unused :
        /\ dep' = [e \in Pipeline!Deployments |-> IF e = n THEN [status |-> "published", window |-> {w}]
                                         ELSE [dep[e] EXCEPT !.status = Pipeline!Superseded(e)]]
        /\ Pipeline!Project({})
        /\ pub' = [current |-> {n}, previous |-> pub.current]
        /\ release' = [r \in Releases |-> IF r \in window[w].release THEN "promoted" ELSE release[r]]
        /\ obs' = [obs EXCEPT ![n] = "observing"]
        /\ Pipeline!Write(w, "completed")
        /\ op' = [op EXCEPT ![k] = "completed"]
  BY DEF Pipeline!PromotionCommits
<1>2. Pipeline!Done(p) /\ told' \subseteq Pipeline!Deployments /\ UNCHANGED calm
  BY <1>0 DEF Pipeline!PromotionCommits, Pipeline!TypeOK
<1>3. n \in Pipeline!Deployments /\ w \in Windows /\ window[w].status # "none" /\ window[w].release # {}
  BY <1>0 DEF Pipeline!Unused, HeldBy, PipelineInv, Owned
<1>4. /\ dep' \in [Pipeline!Deployments -> [status : {"none", "published", "superseded", "rolled_back"},
                                   window : SUBSET Windows]]
      /\ dep'[n].status = "published" /\ dep'[n].window = {w}
      /\ \A d \in Pipeline!Deployments \ {n} :
           /\ dep'[d].window = dep[d].window
           /\ dep'[d].status = IF d \in pub.current THEN "superseded" ELSE dep[d].status
  BY <1>0, <1>1, <1>3 DEF Pipeline!TypeOK, Pipeline!Superseded
<1>5. /\ pub' \in [current : SUBSET Pipeline!Deployments, previous : SUBSET Pipeline!Deployments]
      /\ drain' \in [Pipeline!Deployments -> SUBSET Windows]
      /\ obs' \in [Pipeline!Deployments -> {"none", "observing", "passed", "rollback_triggered"}]
      /\ release' \in [Releases -> {"none", "created", "gate_failed", "verified", "staging_failed",
                                   "promoted"}]
  BY <1>0, <1>1, <1>3 DEF Pipeline!TypeOK, Pipeline!Project
<1>6. /\ window' \in [Windows -> [status : Pipeline!Due \cup {"none", "completed", "cancelled", "failed"},
                                  release : SUBSET Releases, phase : {"ahead", "open", "over"}]]
      /\ unmoved' \in [Windows -> SUBSET Procs]
      /\ \A v \in Windows : /\ window'[v].release = window[v].release
                            /\ window'[v].status = "none" <=> window[v].status = "none"
  BY <1>0, <1>1, <1>3, Writes
<1>7. ASSUME calm PROVE Spent' /\ UsedOnce' /\ Pipeline!PublicationIsConsistent'
  <2>1. Spent /\ UsedOnce /\ Pipeline!PublicationIsConsistent /\ ~Used(w)
    BY <1>0, <1>7 DEF PipelineInv, InTurn, CurrentFor
  <2>2. \A d \in Pipeline!Deployments : w \in dep'[d].window => d = n
    BY <1>4, <2>1 DEF Used
  <2>3. UsedOnce'
    BY <1>4, <2>1, <2>2 DEF UsedOnce
  <2>4. Spent'
    <3>1. \A v \in Windows : v # w /\ Used(v)' => Used(v)
      BY <1>4 DEF Used
    <3>2. \A v \in Windows : window[v].release \subseteq Releases
      BY <1>0 DEF Pipeline!TypeOK
    <3> QED  BY <1>1, <1>3, <1>6, <2>1, <3>1, <3>2 DEF Spent
  <2>5. /\ {d \in Pipeline!Deployments : dep[d].status = "published"} = pub.current
        /\ \A d \in Pipeline!Deployments : drain[d] # {} => d \in pub.current
        /\ dep[n].status = "none"
    BY <1>7, <2>1 DEF Pipeline!PublicationIsConsistent, Pipeline!Unused
  <2>6. {d \in Pipeline!Deployments : dep'[d].status = "published"} = {n}
    BY <1>3, <1>4, <2>5
  <2>7. \A d \in pub.current : dep'[d].status = "superseded"
    BY <1>3, <1>4, <2>5
  <2>8. \A d \in Pipeline!Deployments : drain'[d] = {}
    BY <1>1, <2>5 DEF Pipeline!Project
  <2> QED  BY <1>1, <2>3, <2>4, <2>6, <2>7, <2>8 DEF Pipeline!PublicationIsConsistent
<1> QED  BY <1>0, <1>1, <1>2, <1>4, <1>5, <1>6, <1>7, PipelineCommitStep DEF Acting

LEMMA PipelineNextHolds == PipelineInv /\ [Pipeline!Next]_(Pipeline!vars) => PipelineInv'
<1> SUFFICES ASSUME PipelineInv, [Pipeline!Next]_(Pipeline!vars) PROVE PipelineInv'
  OBVIOUS
<1>1. ASSUME NEW p \in Procs, Pipeline!Work(p) PROVE PipelineInv'
  BY <1>1, PipelineReadSteps, CheckSteps, SweepSteps, StagingCommits, Fails, Observes, ApproveBegins,
     RollbackBegins, PromotionCommit, RollbackCommit DEF Pipeline!Work, Pipeline!Approve, Pipeline!Rollback
<1>2. ASSUME NEW w \in Windows,
             Pipeline!TimePasses(w) \/ Pipeline!RescheduleWindow(w) \/ Pipeline!CancelWindow(w)
      PROVE  PipelineInv'
  BY <1>2, WindowSteps
<1>3. ASSUME NEW w \in Windows, NEW r \in Releases, Pipeline!ScheduleWindow(w, r) PROVE PipelineInv'
  BY <1>3, WindowSteps
<1>4. ASSUME NEW r \in Releases, Pipeline!CreateRelease(r) PROVE PipelineInv'
  BY <1>4, Creates
<1>5. ASSUME NEW k \in Pipeline!Keys, Pipeline!PurgeOperation(k) PROVE PipelineInv'
  BY <1>5, Purges
<1>6. CASE UNCHANGED Pipeline!vars
  <2>1. UNCHANGED Pipeline!vars
    BY <1>6
  <2>2. Pipeline!TypeOK'
    BY <2>1 DEF Pipeline!vars, Pipeline!published, PipelineInv, Pipeline!TypeOK
  <2>3. Owned'
    BY <2>1 DEF Pipeline!vars, PipelineInv, Owned, HeldBy, ApartFrom
  <2>4. InTurn'
    BY <2>1 DEF Pipeline!vars, Pipeline!published, PipelineInv, InTurn, Single, Spent, UsedOnce, Used,
       CurrentFor, Pipeline!PublicationIsConsistent
  <2> QED  BY <2>2, <2>3, <2>4 DEF PipelineInv
<1> QED  BY <1>1, <1>2, <1>3, <1>4, <1>5, <1>6 DEF Pipeline!Next

\* The instance counts as the library does.
LEMMA PipelineCounts ==
  ASSUME NEW S
  PROVE  Pipeline!Cardinality(S) = Cardinality(S)
  BY DEF Pipeline!Cardinality, Cardinality

LEMMA PipelineInvSuffices ==
  SomeDeployments /\ PipelineInv
  => Pipeline!TypeOK /\ Pipeline!PublicationIsConsistent /\ Pipeline!WindowsPromoteOnce
<1> SUFFICES ASSUME SomeDeployments, PipelineInv
             PROVE  Pipeline!TypeOK /\ Pipeline!PublicationIsConsistent /\ Pipeline!WindowsPromoteOnce
  OBVIOUS
<1>1. Pipeline!TypeOK
  BY DEF PipelineInv
<1>2. Pipeline!PublicationIsConsistent
  BY DEF PipelineInv, InTurn, Pipeline!PublicationIsConsistent
<1>3. ASSUME calm, NEW w \in Windows
      PROVE  Cardinality({d \in Pipeline!Deployments : w \in dep[d].window}) <= 1
  <2> DEFINE S == {d \in Pipeline!Deployments : w \in dep[d].window}
  <2>1. \A d, e \in S : d = e
    BY <1>3 DEF PipelineInv, InTurn, UsedOnce
  <2>2. CASE S = {}
    BY <2>2, FS_EmptySet
  <2>3. CASE S # {}
    <3>1. PICK d \in S : TRUE
      BY <2>3
    <3>2. S = {d}
      BY <2>1, <3>1
    <3> QED  BY <3>2, FS_Singleton
  <2> QED  BY <2>2, <2>3
<1> QED  BY <1>1, <1>2, <1>3, PipelineCounts DEF Pipeline!WindowsPromoteOnce

\* The publication names the deployment that is published and one that can be restored, and a
\* window promotes once, as long as nothing begins or stages on what another has changed.
THEOREM PublicationStays ==
  ASSUME SomeDeployments
  PROVE  Pipeline!Spec => [](Pipeline!TypeOK /\ Pipeline!PublicationIsConsistent /\ Pipeline!WindowsPromoteOnce)
<1>1. Pipeline!Init => PipelineInv
  BY PipelineInitHolds
<1>2. PipelineInv /\ [Pipeline!Next]_(Pipeline!vars) => PipelineInv'
  BY PipelineNextHolds
<1>3. PipelineInv => Pipeline!TypeOK /\ Pipeline!PublicationIsConsistent /\ Pipeline!WindowsPromoteOnce
  BY PipelineInvSuffices
<1> QED  BY <1>1, <1>2, <1>3, PTL DEF Pipeline!Spec

-----------------------------------------------------------------------------
(* The e-mails of the jobs. *)
CONSTANTS Notices, MaxAttempts
VARIABLES intent, delivery, sends, task

Mails == INSTANCE Notifications WITH job <- task

\* A first attempt is allowed.
SomeAttempts == MaxAttempts \in Nat \ {0}

Delivers(p, n) == task[p].at \in {"claimed", "answered"} /\ task[p].n = n

\* Nothing is delivered, looked at or stored of an e-mail that nobody enqueued.
Enqueued ==
  /\ \A n \in Notices : intent[n].state = "none" =>
       intent[n] = Mails!NoIntent /\ delivery[n] = Mails!NoDelivery /\ sends[n] = 0
  /\ \A p \in Procs : task[p] # Mails!Idle => intent[task[p].n].state # "none"

\* A claim is one process's until it has recorded its answer; until then nobody else may claim,
\* and no reconciliation can find the delivery.
OneClaim == \A p \in Procs, n \in Notices : Delivers(p, n) =>
  /\ \A q \in Procs : Delivers(q, n) => q = p
  /\ intent[n].state # "pending"
  /\ delivery[n].state # "sending"

\* Every way to another attempt knows how many there have been.
Counted ==
  /\ \A n \in Notices :
       /\ sends[n] <= MaxAttempts
       /\ intent[n].state = "pending" =>
            sends[n] = intent[n].attempts /\ sends[n] < MaxAttempts /\ delivery[n].state # "sending"
       /\ delivery[n].state = "sending" =>
            sends[n] = delivery[n].attempts /\ sends[n] = intent[n].attempts
  /\ \A p \in Procs, n \in Notices :
       Delivers(p, n) => sends[n] = task[p].attempts + (IF task[p].at = "answered" THEN 1 ELSE 0)
                         /\ task[p].attempts < MaxAttempts

\* A reconciliation has read a delivery whose outcome was unknown.
Looked == \A p \in Procs : task[p].at = "looking" => task[p].read.state = "sending"

MailInv == Mails!TypeOK /\ Enqueued /\ Looked /\ Mails!SettledTogether /\ (calm => OneClaim /\ Counted)

\* What a process works on is a notification.
LEMMA Works ==
  ASSUME Mails!TypeOK, NEW p \in Procs
  PROVE  /\ Mails!Idle.at = "idle"
         /\ task[p].at # "idle" => task[p] # Mails!Idle /\ task[p].n \in Notices
         /\ task[p] # Mails!Idle => task[p].at # "idle" /\ task[p].n \in Notices
         /\ task[p].at \in {"claimed", "answered"} => task[p].attempts \in Nat
         /\ task[p].at = "answered" => task[p].answer \in Mails!Answers
         /\ task[p].at = "looking" => /\ task[p].retries \in BOOLEAN
                                    /\ task[p].read \in [state : Mails!DeliveryStates, attempts : Nat, keyed : BOOLEAN]
  BY DEF Mails!TypeOK, Mails!Jobs, Mails!Idle

LEMMA MailInitHolds == SomeAttempts /\ Mails!Init => MailInv
  BY DEF SomeAttempts, Mails!Init, MailInv, Mails!TypeOK, Enqueued, Looked, Mails!SettledTogether, OneClaim,
     Counted, Delivers,
      Mails!NoIntent, Mails!NoDelivery, Mails!Idle, Mails!Jobs, Mails!IntentStates, Mails!DeliveryStates

LEMMA EnqueueStep ==
  ASSUME SomeAttempts, MailInv, NEW n \in Notices, Mails!Enqueue(n)
  PROVE  MailInv'
<1>1. Mails!TypeOK'
  BY DEF SomeAttempts, MailInv, Mails!TypeOK, Mails!Enqueue, Mails!Jobs, Mails!Idle, Mails!IntentStates,
     Mails!DeliveryStates, Mails!Answers, Mails!NoIntent, Mails!NoDelivery
<1>2. Enqueued' /\ Looked'
  BY DEF MailInv, Mails!TypeOK, Enqueued, Looked, Mails!Enqueue, Mails!Jobs, Mails!Idle, Mails!Answers,
     Mails!NoIntent, Mails!NoDelivery
<1>3. Mails!SettledTogether'
  BY DEF MailInv, Mails!TypeOK, Enqueued, Mails!SettledTogether, Mails!Enqueue, Mails!Jobs, Mails!Idle,
     Mails!Answers, Mails!NoIntent, Mails!NoDelivery
<1>4. (calm => OneClaim /\ Counted)'
  BY DEF SomeAttempts, MailInv, Mails!TypeOK, Enqueued, Looked, OneClaim, Counted, Delivers, Mails!Enqueue,
     Mails!Jobs, Mails!Idle, Mails!Answers, Mails!NoIntent, Mails!NoDelivery
<1> QED  BY <1>1, <1>2, <1>3, <1>4 DEF MailInv

LEMMA ClaimStep ==
  ASSUME SomeAttempts, MailInv, NEW p \in Procs, NEW n \in Notices, Mails!Claim(p, n)
  PROVE  MailInv'
<1>1. Mails!TypeOK'
  BY DEF SomeAttempts, MailInv, Mails!TypeOK, Mails!Claim, Mails!Jobs, Mails!Idle, Mails!IntentStates,
     Mails!DeliveryStates, Mails!Answers, Mails!NoIntent, Mails!NoDelivery
<1>2. Enqueued' /\ Looked'
  BY DEF MailInv, Mails!TypeOK, Enqueued, Looked, Mails!Claim, Mails!Jobs, Mails!Idle, Mails!Answers,
     Mails!NoIntent, Mails!NoDelivery
<1>3. Mails!SettledTogether'
  BY DEF MailInv, Mails!TypeOK, Enqueued, Mails!SettledTogether, Mails!Claim, Mails!Jobs, Mails!Idle,
     Mails!Answers, Mails!NoIntent, Mails!NoDelivery
<1>4. (calm => OneClaim /\ Counted)'
  BY DEF SomeAttempts, MailInv, Mails!TypeOK, Enqueued, Looked, OneClaim, Counted, Delivers, Mails!Claim,
     Mails!Jobs, Mails!Idle, Mails!Answers, Mails!NoIntent, Mails!NoDelivery
<1> QED  BY <1>1, <1>2, <1>3, <1>4 DEF MailInv

LEMMA BlockStep ==
  ASSUME SomeAttempts, MailInv, NEW p \in Procs, Mails!Block(p)
  PROVE  MailInv'
<1>1. Mails!TypeOK'
  BY DEF SomeAttempts, MailInv, Mails!TypeOK, Mails!Block, Mails!Jobs, Mails!Idle, Mails!IntentStates,
     Mails!DeliveryStates, Mails!Answers, Mails!NoIntent, Mails!NoDelivery
<1>2. Enqueued' /\ Looked'
  <2>1. ASSUME NEW m \in Notices, intent'[m].state = "none"
        PROVE  intent'[m] = Mails!NoIntent /\ delivery'[m] = Mails!NoDelivery /\ sends'[m] = 0
    BY <2>1, Works DEF MailInv, Mails!TypeOK, Enqueued, Mails!Block, Mails!Answers, Mails!NoIntent,
       Mails!NoDelivery
  <2>2. ASSUME NEW q \in Procs, task'[q] # Mails!Idle
        PROVE  intent'[task'[q].n].state # "none"
    BY <2>2, Works DEF MailInv, Mails!TypeOK, Enqueued, Mails!Block, Mails!Answers, Mails!NoIntent,
       Mails!NoDelivery
  <2>3. Looked'
    BY Works DEF MailInv, Mails!TypeOK, Looked, Mails!Block
  <2> QED  BY <2>1, <2>2, <2>3 DEF Enqueued
<1>3. Mails!SettledTogether'
  BY DEF MailInv, Mails!TypeOK, Enqueued, Mails!SettledTogether, Mails!Block, Mails!Jobs, Mails!Idle,
     Mails!Answers, Mails!NoIntent, Mails!NoDelivery
<1>4. (calm => OneClaim /\ Counted)'
  BY DEF SomeAttempts, MailInv, Mails!TypeOK, Enqueued, Looked, OneClaim, Counted, Delivers, Mails!Block,
     Mails!Jobs, Mails!Idle, Mails!Answers, Mails!NoIntent, Mails!NoDelivery
<1> QED  BY <1>1, <1>2, <1>3, <1>4 DEF MailInv

LEMMA SendStep ==
  ASSUME SomeAttempts, MailInv, NEW p \in Procs, Mails!Send(p)
  PROVE  MailInv'
<1>1. Mails!TypeOK'
  BY DEF SomeAttempts, MailInv, Mails!TypeOK, Mails!Send, Mails!Jobs, Mails!Idle, Mails!IntentStates,
     Mails!DeliveryStates, Mails!Answers, Mails!NoIntent, Mails!NoDelivery
<1>2. Enqueued' /\ Looked'
  <2>1. ASSUME NEW m \in Notices, intent'[m].state = "none"
        PROVE  intent'[m] = Mails!NoIntent /\ delivery'[m] = Mails!NoDelivery /\ sends'[m] = 0
    BY <2>1, Works DEF MailInv, Mails!TypeOK, Enqueued, Mails!Send, Mails!Answers, Mails!NoIntent,
       Mails!NoDelivery
  <2>2. ASSUME NEW q \in Procs, task'[q] # Mails!Idle
        PROVE  intent'[task'[q].n].state # "none"
    BY <2>2, Works DEF MailInv, Mails!TypeOK, Enqueued, Mails!Send, Mails!Answers, Mails!NoIntent,
       Mails!NoDelivery
  <2>3. Looked'
    BY Works DEF MailInv, Mails!TypeOK, Looked, Mails!Send
  <2> QED  BY <2>1, <2>2, <2>3 DEF Enqueued
<1>3. Mails!SettledTogether'
  BY DEF MailInv, Mails!TypeOK, Enqueued, Mails!SettledTogether, Mails!Send, Mails!Jobs, Mails!Idle,
     Mails!Answers, Mails!NoIntent, Mails!NoDelivery
<1>4. (calm => OneClaim /\ Counted)'
  BY DEF SomeAttempts, MailInv, Mails!TypeOK, Enqueued, Looked, OneClaim, Counted, Delivers, Mails!Send,
     Mails!Jobs, Mails!Idle, Mails!Answers, Mails!NoIntent, Mails!NoDelivery
<1> QED  BY <1>1, <1>2, <1>3, <1>4 DEF MailInv

LEMMA RecordStep ==
  ASSUME SomeAttempts, MailInv, NEW p \in Procs, Mails!Record(p)
  PROVE  MailInv'
<1>1. Mails!TypeOK'
  BY DEF SomeAttempts, MailInv, Mails!TypeOK, Mails!Record, Mails!DeliveryAfter, Mails!IntentAfter,
     Mails!LastAttempt, Mails!Jobs, Mails!Idle, Mails!IntentStates, Mails!DeliveryStates, Mails!Answers,
     Mails!NoIntent, Mails!NoDelivery
<1>2. Enqueued' /\ Looked'
  <2>1. ASSUME NEW m \in Notices, intent'[m].state = "none"
        PROVE  intent'[m] = Mails!NoIntent /\ delivery'[m] = Mails!NoDelivery /\ sends'[m] = 0
    BY <2>1, Works DEF MailInv, Mails!TypeOK, Enqueued, Mails!Record, Mails!DeliveryAfter,
       Mails!IntentAfter, Mails!LastAttempt, Mails!Answers, Mails!NoIntent, Mails!NoDelivery
  <2>2. ASSUME NEW q \in Procs, task'[q] # Mails!Idle
        PROVE  intent'[task'[q].n].state # "none"
    BY <2>2, Works DEF MailInv, Mails!TypeOK, Enqueued, Mails!Record, Mails!DeliveryAfter,
       Mails!IntentAfter, Mails!LastAttempt, Mails!Answers, Mails!NoIntent, Mails!NoDelivery
  <2>3. Looked'
    BY Works DEF MailInv, Mails!TypeOK, Looked, Mails!Record, Mails!DeliveryAfter, Mails!IntentAfter,
       Mails!LastAttempt
  <2> QED  BY <2>1, <2>2, <2>3 DEF Enqueued
<1>3. Mails!SettledTogether'
  BY DEF MailInv, Mails!TypeOK, Enqueued, Mails!SettledTogether, Mails!Record, Mails!DeliveryAfter,
     Mails!IntentAfter, Mails!LastAttempt, Mails!Jobs, Mails!Idle, Mails!Answers, Mails!NoIntent,
     Mails!NoDelivery
<1>4. (calm => OneClaim /\ Counted)'
  BY DEF SomeAttempts, MailInv, Mails!TypeOK, Enqueued, Looked, OneClaim, Counted, Delivers, Mails!Record,
     Mails!DeliveryAfter, Mails!IntentAfter, Mails!LastAttempt, Mails!Jobs, Mails!Idle, Mails!Answers,
     Mails!NoIntent, Mails!NoDelivery
<1> QED  BY <1>1, <1>2, <1>3, <1>4 DEF MailInv

LEMMA CallbackStep ==
  ASSUME SomeAttempts, MailInv, NEW n \in Notices, NEW event \in {"accepted", "delivered", "bounced"},
         Mails!Callback(n, event)
  PROVE  MailInv'
<1>1. Mails!TypeOK'
  <2> DEFINE Row == [state : Mails!DeliveryStates, attempts : Nat, keyed : BOOLEAN]
             Ask == [state : Mails!IntentStates, attempts : Nat]
             row == Mails!Settles(delivery[n], event)
             ask == [intent[n] EXCEPT !.state = Mails!Told(@, event)]
  <2>1. /\ delivery \in [Notices -> Row] /\ intent \in [Notices -> Ask]
        /\ sends \in [Notices -> Nat] /\ task \in [Procs -> Mails!Jobs] /\ calm \in BOOLEAN
    BY DEF MailInv, Mails!TypeOK
  <2>2. /\ delivery' = [delivery EXCEPT ![n] = row] /\ intent' = [intent EXCEPT ![n] = ask]
        /\ sends' = sends /\ task' = task /\ calm' = calm
    BY DEF Mails!Callback
  <2>3. delivery[n] \in Row /\ intent[n] \in Ask
    BY <2>1
  <2>4. row \in Row
    BY <2>3 DEF Mails!Settles, Mails!DeliveryStates
  <2>5. ask \in Ask
    BY <2>3 DEF Mails!Told, Mails!IntentStates
  <2> HIDE DEF Row, Ask, row, ask
  <2>6. delivery' \in [Notices -> Row] /\ intent' \in [Notices -> Ask]
    BY <2>1, <2>2, <2>4, <2>5
  <2> USE DEF Row, Ask
  <2>7. sends' \in [Notices -> Nat] /\ task' \in [Procs -> Mails!Jobs] /\ calm' \in BOOLEAN
    BY <2>1, <2>2
  <2> QED  BY <2>6, <2>7 DEF Mails!TypeOK, Mails!Jobs, Mails!Idle, Mails!IntentStates, Mails!DeliveryStates,
     Mails!Answers
<1>2. Enqueued' /\ Looked'
  <2>1. ASSUME NEW m \in Notices, intent'[m].state = "none"
        PROVE  intent'[m] = Mails!NoIntent /\ delivery'[m] = Mails!NoDelivery /\ sends'[m] = 0
    <3>1. m # n
      BY <2>1 DEF MailInv, Mails!TypeOK, Enqueued, Mails!Callback, Mails!Told, Mails!NoDelivery
    <3> QED  BY <2>1, <3>1 DEF MailInv, Mails!TypeOK, Enqueued, Mails!Callback
  <2>2. ASSUME NEW q \in Procs, task'[q] # Mails!Idle
        PROVE  intent'[task'[q].n].state # "none"
    BY <2>2, Works DEF MailInv, Mails!TypeOK, Enqueued, Mails!Callback, Mails!Settles, Mails!Told,
       Mails!Terminal, Mails!Answers, Mails!NoIntent, Mails!NoDelivery
  <2>3. Looked'
    BY Works DEF MailInv, Mails!TypeOK, Looked, Mails!Callback, Mails!Settles, Mails!Told, Mails!Terminal
  <2> QED  BY <2>1, <2>2, <2>3 DEF Enqueued
<1>3. Mails!SettledTogether'
  BY DEF MailInv, Mails!TypeOK, Enqueued, Mails!SettledTogether, Mails!Callback, Mails!Settles, Mails!Told,
     Mails!Terminal, Mails!Jobs, Mails!Idle, Mails!Answers, Mails!NoIntent, Mails!NoDelivery
<1>4. (calm => OneClaim /\ Counted)'
  BY DEF SomeAttempts, MailInv, Mails!TypeOK, Enqueued, Looked, OneClaim, Counted, Delivers, Mails!Callback,
     Mails!Settles, Mails!Told, Mails!Terminal, Mails!Jobs, Mails!Idle, Mails!Answers, Mails!NoIntent,
     Mails!NoDelivery
<1> QED  BY <1>1, <1>2, <1>3, <1>4 DEF MailInv

LEMMA LookStep ==
  ASSUME SomeAttempts, MailInv, NEW p \in Procs, NEW n \in Notices, Mails!Look(p, n)
  PROVE  MailInv'
<1>1. Mails!TypeOK'
  BY DEF SomeAttempts, MailInv, Mails!TypeOK, Mails!Look, Mails!Jobs, Mails!Idle, Mails!IntentStates,
     Mails!DeliveryStates, Mails!Answers, Mails!NoIntent, Mails!NoDelivery
<1>2. Enqueued' /\ Looked'
  BY DEF MailInv, Mails!TypeOK, Enqueued, Looked, Mails!Look, Mails!Jobs, Mails!Idle, Mails!Answers,
     Mails!NoIntent, Mails!NoDelivery
<1>3. Mails!SettledTogether'
  BY DEF MailInv, Mails!TypeOK, Enqueued, Mails!SettledTogether, Mails!Look, Mails!Jobs, Mails!Idle,
     Mails!Answers, Mails!NoIntent, Mails!NoDelivery
<1>4. (calm => OneClaim /\ Counted)'
  BY DEF SomeAttempts, MailInv, Mails!TypeOK, Enqueued, Looked, OneClaim, Counted, Delivers, Mails!Look,
     Mails!Jobs, Mails!Idle, Mails!Answers, Mails!NoIntent, Mails!NoDelivery
<1> QED  BY <1>1, <1>2, <1>3, <1>4 DEF MailInv

\* What a reconciliation may make of a delivery and its intent.
LEMMA ReconcileStep ==
  ASSUME SomeAttempts, MailInv, NEW p \in Procs, task[p].at = "looking", NEW d, NEW i,
         Mails!Reconciled(p, d, i),
         \/ d = "delivered" /\ i = "sent"
         \/ d = "permanent_failed" /\ i = "failed"
         \/ d = "temporary_failed" /\ i = "pending" /\ Mails!MayRetry(p)
  PROVE  MailInv'
<1> DEFINE n == task[p].n
<1>1. n \in Notices /\ task[p] # Mails!Idle /\ intent[n].state # "none" /\ Mails!Idle.at = "idle"
  BY Works DEF MailInv, Enqueued
<1>2. /\ delivery' = [delivery EXCEPT ![n].state = d] /\ intent' = [intent EXCEPT ![n].state = i]
      /\ calm' = (calm /\ delivery[n] = task[p].read) /\ task' = [task EXCEPT ![p] = Mails!Idle]
      /\ sends' = sends
  BY DEF Mails!Reconciled
<1>3. /\ d \in Mails!DeliveryStates /\ i \in Mails!IntentStates
      /\ intent \in [Notices -> [state : Mails!IntentStates, attempts : Nat]]
      /\ delivery \in [Notices -> [state : Mails!DeliveryStates, attempts : Nat, keyed : BOOLEAN]]
      /\ sends \in [Notices -> Nat] /\ task \in [Procs -> Mails!Jobs] /\ calm \in BOOLEAN
      /\ Mails!Idle \in Mails!Jobs
  BY DEF MailInv, Mails!TypeOK, Mails!IntentStates, Mails!DeliveryStates, Mails!Jobs
<1>4. Mails!TypeOK'
  <2>1. /\ intent' \in [Notices -> [state : Mails!IntentStates, attempts : Nat]]
        /\ delivery' \in [Notices -> [state : Mails!DeliveryStates, attempts : Nat, keyed : BOOLEAN]]
    BY <1>1, <1>2, <1>3
  <2>2. sends' \in [Notices -> Nat] /\ task' \in [Procs -> Mails!Jobs]
    BY <1>2, <1>3
  <2>3. calm' \in BOOLEAN
    BY <1>2, <1>3
  <2> QED  BY <2>1, <2>2, <2>3 DEF Mails!TypeOK
<1>5. Enqueued'
  <2>1. ASSUME NEW m \in Notices, intent'[m].state = "none"
        PROVE  intent'[m] = Mails!NoIntent /\ delivery'[m] = Mails!NoDelivery /\ sends'[m] = 0
    BY <1>1, <1>2, <1>3, <2>1 DEF MailInv, Enqueued
  <2>2. ASSUME NEW q \in Procs, task'[q] # Mails!Idle
        PROVE  intent'[task'[q].n].state # "none"
    <3>1. q # p /\ task'[q] = task[q] /\ task[q].n \in Notices /\ intent[task[q].n].state # "none"
      BY <1>2, <1>3, <2>2, Works DEF MailInv, Enqueued
    <3> QED  BY <1>1, <1>2, <1>3, <3>1
  <2> QED  BY <2>1, <2>2 DEF Enqueued
<1>6. Looked'
  BY <1>1, <1>2, <1>3 DEF MailInv, Looked
<1>7. Mails!SettledTogether'
  BY <1>1, <1>2, <1>3 DEF MailInv, Mails!SettledTogether
<1>8. ASSUME calm'  PROVE (OneClaim /\ Counted)'
  <2>1. calm /\ OneClaim /\ Counted /\ delivery[n] = task[p].read /\ delivery[n].state = "sending"
    BY <1>2, <1>8 DEF MailInv, Looked
  <2>2. \A q \in Procs : ~Delivers(q, n)
    BY <1>1, <2>1 DEF OneClaim
  <2>3. \A q \in Procs, m \in Notices : Delivers(q, m)' =>
          /\ q # p /\ m # n /\ task'[q] = task[q] /\ Delivers(q, m)
          /\ intent'[m] = intent[m] /\ delivery'[m] = delivery[m]
    BY <1>1, <1>2, <1>3, <2>2 DEF Delivers
  <2>4. OneClaim'
    BY <2>1, <2>3 DEF OneClaim
  <2>5. i = "pending" => sends[n] < MaxAttempts
    BY <2>1, <1>1 DEF Mails!MayRetry, Counted
  <2>6. Counted'
    BY <1>1, <1>2, <1>3, <2>1, <2>3, <2>5 DEF Counted
  <2> QED  BY <2>4, <2>6
<1> QED  BY <1>4, <1>5, <1>6, <1>7, <1>8 DEF MailInv

LEMMA FoundStep ==
  ASSUME SomeAttempts, MailInv, NEW p \in Procs, Mails!FoundDelivered(p) \/ Mails!FoundNothing(p)
  PROVE  MailInv'
<1>1. task[p].at = "looking"
  BY DEF Mails!FoundDelivered, Mails!FoundNothing
<1>2. \/ Mails!Reconciled(p, "delivered", "sent") \/ Mails!Reconciled(p, "permanent_failed", "failed")
      \/ Mails!MayRetry(p) /\ Mails!Reconciled(p, "temporary_failed", "pending")
  BY DEF Mails!FoundDelivered, Mails!FoundNothing
<1> QED  BY <1>1, <1>2, ReconcileStep

LEMMA AbandonStep ==
  ASSUME SomeAttempts, MailInv, NEW p \in Procs, Mails!Abandon(p)
  PROVE  MailInv'
<1>1. Mails!TypeOK'
  BY DEF SomeAttempts, MailInv, Mails!TypeOK, Mails!Abandon, Mails!Jobs, Mails!Idle, Mails!IntentStates,
     Mails!DeliveryStates, Mails!Answers, Mails!NoIntent, Mails!NoDelivery
<1>2. Enqueued' /\ Looked'
  BY DEF MailInv, Mails!TypeOK, Enqueued, Looked, Mails!Abandon, Mails!Jobs, Mails!Idle, Mails!Answers,
     Mails!NoIntent, Mails!NoDelivery
<1>3. Mails!SettledTogether'
  BY DEF MailInv, Mails!TypeOK, Enqueued, Mails!SettledTogether, Mails!Abandon, Mails!Jobs, Mails!Idle,
     Mails!Answers, Mails!NoIntent, Mails!NoDelivery
<1>4. (calm => OneClaim /\ Counted)'
  BY DEF SomeAttempts, MailInv, Mails!TypeOK, Enqueued, Looked, OneClaim, Counted, Delivers, Mails!Abandon,
     Mails!Jobs, Mails!Idle, Mails!Answers, Mails!NoIntent, Mails!NoDelivery
<1> QED  BY <1>1, <1>2, <1>3, <1>4 DEF MailInv

LEMMA MailNextHolds == SomeAttempts /\ MailInv /\ [Mails!Next]_(Mails!vars) => MailInv'
<1> SUFFICES ASSUME SomeAttempts, MailInv, [Mails!Next]_(Mails!vars) PROVE MailInv'
  OBVIOUS
<1>1. CASE UNCHANGED Mails!vars
  BY <1>1 DEF Mails!vars, MailInv, Mails!TypeOK, Enqueued, Looked, Mails!SettledTogether, OneClaim,
     Counted, Delivers
<1>2. ASSUME NEW n \in Notices,
             Mails!Enqueue(n) \/ \E event \in {"accepted", "delivered", "bounced"} : Mails!Callback(n, event)
      PROVE  MailInv'
  BY <1>2, EnqueueStep, CallbackStep
<1>3. ASSUME NEW p \in Procs, Mails!Work(p)
      PROVE  MailInv'
  BY <1>3, ClaimStep, LookStep, BlockStep, SendStep, RecordStep, FoundStep,
     AbandonStep DEF Mails!Work
<1> QED  BY <1>1, <1>2, <1>3 DEF Mails!Next

LEMMA MailInvSuffices == MailInv => Mails!MailsAreSettled
  BY DEF MailInv, Mails!MailsAreSettled, Mails!AttemptsAreBounded, Counted

(* However claims, failures, unknown outcomes, callbacks, reconciliations and     *)
(* crashes alternate, a final delivery has settled its intent, and, while no      *)
(* reconciliation acts on a delivery that moved, no e-mail is sent more often     *)
(* than MAX_DELIVERY_ATTEMPTS (deliverOne and the jobs that reconcile).           *)
THEOREM MailsSettle == ASSUME SomeAttempts PROVE Mails!Spec => []Mails!MailsAreSettled
<1>1. Mails!Init => MailInv
  BY MailInitHolds
<1>2. MailInv /\ [Mails!Next]_(Mails!vars) => MailInv'
  BY MailNextHolds
<1>3. MailInv => Mails!MailsAreSettled
  BY MailInvSuffices
<1> QED  BY <1>1, <1>2, <1>3, PTL DEF Mails!Spec

-----------------------------------------------------------------------------
(* The weekly reminders. *)
CONSTANTS Runs, MaxChanges
VARIABLES wanted, eligible, changes, ran, batch, holder, mailed

Reminders == INSTANCE LearningReminders WITH job <- task

\* The instance counts as the library does.
LEMMA ReminderCounts ==
  ASSUME NEW S
  PROVE  Reminders!Cardinality(S) = Cardinality(S)
BY DEF Reminders!Cardinality, Cardinality

SomeRetries == MaxAttempts \in Nat \ {0} /\ MaxChanges \in Nat /\ Reminders!NoOne \notin Runs

Evaluations == [at : {"batched", "placed"}, k : Runs, made : Nat, own : BOOLEAN, new : BOOLEAN]
Sends   == [at : {"sending", "sent"}, k : Runs, made : Nat, answer : Reminders!DeliveryStatuses]
Retries == [at : {"retrying", "retried"}, k : Runs, made : Nat, read : Reminders!Deliveries, answer : Reminders!DeliveryStatuses]
ReminderWorks == {Reminders!Idle} \cup Evaluations \cup Sends \cup Retries
MailingAt == {"sending", "sent", "retrying", "retried"}
Batches == [status : {"none", "ready", "suppressed", "sending", "sent", "failed"}, made : Nat]

Held == holder # Reminders!NoOne => Reminders!Exists(holder)
\* One evaluates a run's key at a time, and one mails its batch.
ReminderSingle ==
  \A p, q \in Procs :
    (/\ task[p].at # "idle" /\ task[q].at # "idle" /\ task[p].k = task[q].k
     /\ (task[p].at \in Reminders!Evaluating /\ task[q].at \in Reminders!Evaluating)
        \/ (task[p].at \in MailingAt /\ task[q].at \in MailingAt)) => p = q
\* What a job has read is so; the batch it mails has the week's item.
ReadsNow(w) ==
  /\ w.at = "batched" /\ w.own => holder # w.k
  /\ w.at = "placed" /\ w.own /\ ~w.new => holder # w.k
  /\ w.at \in {"sending", "sent"} => delivery[w.k] = Reminders!NoDelivery
  /\ w.at \in {"sent", "retrying", "retried"} => w.k = holder /\ w.made = batch[w.k].made
  /\ w.at \in {"retrying", "retried"} => w.read = delivery[w.k]
  /\ w.at = "retried" => Reminders!MayRetry(w.read.attempts)
Delivered == \A k \in Runs : delivery[k] # Reminders!NoDelivery => k = holder
Unrecorded == \E p \in Procs : task[p].at \in {"sent", "retried"}
\* Only the batch that has the item was mailed, as often as was recorded, or once more.
Given ==
  \A b \in DOMAIN mailed :
    mailed[b] # 0 => /\ holder # Reminders!NoOne /\ b = <<holder, batch[holder].made>>
                     /\ \/ mailed[b] <= delivery[holder].attempts
                        \/ mailed[b] <= delivery[holder].attempts + 1 /\ Unrecorded
ReminderInTurn ==
  calm => /\ ReminderSingle /\ (\A p \in Procs : ReadsNow(task[p]))
          /\ Delivered /\ Given

ReminderInv == Reminders!TypeOK /\ Held /\ ReminderInTurn

LEMMA Types ==
  Reminders!TypeOK <=>
    /\ wanted \in BOOLEAN /\ eligible \in BOOLEAN /\ changes \in 0..MaxChanges /\ calm \in BOOLEAN
    /\ ran \in [Procs -> [Runs -> {"none", "processing", "completed"}]]
    /\ batch \in [Runs -> Batches] /\ holder \in Runs \cup {Reminders!NoOne}
    /\ delivery \in [Runs -> Reminders!Deliveries]
    /\ mailed \in [Runs \X (1..Reminders!Cardinality(Procs)) -> Nat] /\ task \in [Procs -> ReminderWorks]
BY DEF Reminders!TypeOK, ReminderWorks, Evaluations, Sends, Retries, Batches

LEMMA TypesAfter ==
  ASSUME wanted' \in BOOLEAN, eligible' \in BOOLEAN, changes' \in 0..MaxChanges, calm' \in BOOLEAN,
         ran' \in [Procs -> [Runs -> {"none", "processing", "completed"}]],
         batch' \in [Runs -> Batches], holder' \in Runs \cup {Reminders!NoOne},
         delivery' \in [Runs -> Reminders!Deliveries],
         mailed' \in [Runs \X (1..Reminders!Cardinality(Procs)) -> Nat], task' \in [Procs -> ReminderWorks]
  PROVE  Reminders!TypeOK'
BY DEF Reminders!TypeOK, ReminderWorks, Evaluations, Sends, Retries, Batches

LEMMA Kinds ==
  ASSUME NEW w \in ReminderWorks
  PROVE  /\ w = Reminders!Idle <=> w.at = "idle"
         /\ w.at # "idle" => w.k \in Runs /\ w.made \in Nat
         /\ w.at \in Reminders!Evaluating => w \in Evaluations
         /\ w.at \in {"sending", "sent"} => w \in Sends
         /\ w.at \in {"retrying", "retried"} => w \in Retries
         /\ w.at \in {"idle"} \cup Reminders!Evaluating \cup MailingAt
BY DEF ReminderWorks, Reminders!Idle, Evaluations, Sends, Retries, Reminders!Evaluating, MailingAt

LEMMA JobTaken ==
  ASSUME Reminders!TypeOK, NEW p \in Procs, NEW w \in ReminderWorks, task' = [task EXCEPT ![p] = w]
  PROVE  task' \in [Procs -> ReminderWorks] /\ \A q \in Procs : task'[q] = IF q = p THEN w ELSE task[q]
BY Types

\* A preference or the eligibility changes.
LEMMA ReminderChangeStep ==
  ASSUME ReminderInv, wanted' \in BOOLEAN, eligible' \in BOOLEAN, changes' \in 0..MaxChanges,
         UNCHANGED <<ran, batch, holder, delivery, mailed, task, calm>>
  PROVE  ReminderInv'
<1>1. Reminders!TypeOK'
  BY DEF ReminderInv, Reminders!TypeOK
<1>2. Held'
  BY DEF ReminderInv, Held, Reminders!Exists
<1>3. ReminderInTurn'
  BY DEF ReminderInv, ReminderInTurn, ReminderSingle, ReadsNow, Delivered, Given, Unrecorded
<1> QED  BY <1>1, <1>2, <1>3 DEF ReminderInv

\* One job goes on, from nothing or to nothing more, and the item and the deliveries stay.
LEMMA SingleStays ==
  ASSUME ReminderInv, calm, NEW p \in Procs, NEW w \in ReminderWorks,
         \A q \in Procs : task'[q] = IF q = p THEN w ELSE task[q],
         \/ w.at = "idle"
         \/ /\ task[p].at # "idle" /\ w.k = task[p].k
            /\ (w.at \in Reminders!Evaluating /\ task[p].at \in Reminders!Evaluating) \/ (w.at \in MailingAt /\ task[p].at \in MailingAt)
         \/ /\ w.at \in Reminders!Evaluating
            /\ \A q \in Procs : task[q].at # "idle" /\ task[q].k = w.k => task[q].at \notin Reminders!Evaluating
         \/ /\ w.at \in MailingAt
            /\ \A q \in Procs : task[q].at # "idle" /\ task[q].k = w.k => task[q].at \notin MailingAt
  PROVE  ReminderSingle'
<1>1. ReminderSingle
  BY DEF ReminderInv, ReminderInTurn
<1>2. Reminders!Evaluating \cap MailingAt = {}
  BY DEF Reminders!Evaluating, MailingAt
<1> SUFFICES ASSUME NEW q \in Procs, NEW o \in Procs, q # o,
                    task'[q].at # "idle", task'[o].at # "idle", task'[q].k = task'[o].k,
                    \/ task'[q].at \in Reminders!Evaluating /\ task'[o].at \in Reminders!Evaluating
                    \/ task'[q].at \in MailingAt /\ task'[o].at \in MailingAt
             PROVE  FALSE
  BY DEF ReminderSingle, Reminders!Evaluating, MailingAt
<1>3. CASE q # p /\ o # p
  BY <1>1, <1>3 DEF ReminderSingle
<1>4. CASE q = p
  BY <1>1, <1>2, <1>4 DEF ReminderSingle
<1>5. CASE o = p
  BY <1>1, <1>2, <1>5 DEF ReminderSingle
<1> QED  BY <1>3, <1>4, <1>5

-----------------------------------------------------------------------------
LEMMA BeginEvaluationStep ==
  ASSUME SomeRetries, ReminderInv, NEW p \in Procs, NEW k \in Runs, Reminders!BeginEvaluation(p, k)
  PROVE  ReminderInv'
<1> USE Types
<1>1. /\ task[p] = Reminders!Idle /\ UNCHANGED <<wanted, eligible, changes, holder, delivery, mailed>>
      /\ calm' = (calm /\ \A q \in Procs : task[q] # Reminders!Idle /\ task[q].k = k => task[q].at \notin Reminders!Evaluating)
  BY DEF Reminders!BeginEvaluation
<1>2. calm' \in BOOLEAN
  BY <1>1 DEF ReminderInv
<1>3. \A q \in Procs : task[q] = Reminders!Idle <=> task[q].at = "idle"
  BY Kinds DEF ReminderInv
<1>4. CASE Reminders!Due
  <2>1. /\ ran' = [ran EXCEPT ![p][k] = "processing"]
        /\ batch' = IF Reminders!Exists(k) THEN batch ELSE [batch EXCEPT ![k] = [status |-> "ready", made |-> @.made + 1]]
        /\ task' = [task EXCEPT ![p] = [at |-> "batched", k |-> k, made |-> batch'[k].made,
                                      own |-> ~Reminders!Exists(k), new |-> FALSE]]
    BY <1>4 DEF Reminders!BeginEvaluation
  <2>2. ran' \in [Procs -> [Runs -> {"none", "processing", "completed"}]]
    BY <2>1 DEF ReminderInv
  <2>3. /\ batch' \in [Runs -> Batches]
        /\ \A o \in Runs : Reminders!Exists(o) => batch'[o] = batch[o]
    <3>1. CASE Reminders!Exists(k)
      BY <2>1, <3>1 DEF ReminderInv
    <3>2. CASE ~Reminders!Exists(k)
      <4> PICK old \in Batches : old = batch[k]
        BY DEF ReminderInv
      <4> DEFINE row == [status |-> "ready", made |-> old.made + 1]
      <4>1. row \in Batches /\ batch' = [batch EXCEPT ![k] = row]
        BY <2>1, <3>2 DEF Batches
      <4> HIDE DEF row
      <4> QED  BY <3>2, <4>1 DEF ReminderInv
    <3> QED  BY <3>1, <3>2
  <2>4. PICK own \in BOOLEAN : own <=> ~Reminders!Exists(k)
    OBVIOUS
  <2> DEFINE w == [at |-> "batched", k |-> k, made |-> batch'[k].made, own |-> own, new |-> FALSE]
  <2>5. w.at = "batched" /\ w.k = k /\ w.own = own /\ w \in ReminderWorks /\ task' = [task EXCEPT ![p] = w]
    <3>1. batch'[k].made \in Nat
      BY <2>3 DEF Batches
    <3>2. (~Reminders!Exists(k)) = own
      BY <2>4 DEF Reminders!Exists
    <3> QED  BY <2>1, <3>1, <3>2 DEF ReminderWorks, Evaluations
  <2> HIDE DEF w
  <2>6. task' \in [Procs -> ReminderWorks] /\ \A q \in Procs : task'[q] = IF q = p THEN w ELSE task[q]
    BY <2>5, JobTaken DEF ReminderInv
  <2>7. Reminders!TypeOK'
    BY <1>1, <1>2, <2>2, <2>3, <2>6, TypesAfter DEF ReminderInv
  <2>8. Held'
    BY <1>1, <2>3 DEF ReminderInv, Held, Reminders!Exists
  <2>9. ASSUME calm'
        PROVE  ReminderSingle' /\ (\A q \in Procs : ReadsNow(task[q])') /\ Delivered' /\ Given'
    <3>1. ReminderSingle'
      BY <1>1, <1>3, <2>5, <2>6, <2>9, SingleStays DEF Reminders!Evaluating
    <3>2. ReminderInTurn /\ calm
      BY <1>1, <2>9 DEF ReminderInv
    <3>3. holder # Reminders!NoOne => batch'[holder] = batch[holder] /\ holder \in Runs
      BY <2>3 DEF ReminderInv, Held
    <3>4. ASSUME NEW q \in Procs
          PROVE  ReadsNow(task[q])'
      <4>1. CASE q = p
        <5>1. task'[q] = w /\ (own => holder # k)
          BY <2>4, <2>6, <4>1 DEF ReminderInv, Held, SomeRetries
        <5> QED  BY <1>1, <2>5, <5>1 DEF ReadsNow
      <4>2. CASE q # p
        <5>1. task'[q] = task[q] /\ ReadsNow(task[q])
          BY <2>6, <3>2, <4>2 DEF ReminderInTurn
        <5>2. task[q] \in ReminderWorks
          BY DEF ReminderInv
        <5> QED  BY <1>1, <3>3, <5>1, <5>2, Kinds DEF ReadsNow, SomeRetries
      <4> QED  BY <4>1, <4>2
    <3>5. Unrecorded => Unrecorded'
      BY <1>1, <1>3, <2>6 DEF Unrecorded
    <3>6. Given'
      BY <1>1, <3>2, <3>3, <3>5 DEF ReminderInTurn, Given
    <3> QED  BY <1>1, <3>1, <3>2, <3>4, <3>6 DEF ReminderInTurn, Delivered
  <2> QED  BY <2>7, <2>8, <2>9 DEF ReminderInv, ReminderInTurn
<1>5. CASE ~Reminders!Due
  <2>1. ran' = [ran EXCEPT ![p][k] = "completed"] /\ UNCHANGED <<task, batch>>
    BY <1>5 DEF Reminders!BeginEvaluation
  <2>2. ran' \in [Procs -> [Runs -> {"none", "processing", "completed"}]]
    BY <2>1 DEF ReminderInv
  <2>3. Reminders!TypeOK'
    BY <1>1, <1>2, <2>1, <2>2, TypesAfter DEF ReminderInv
  <2>4. Held'
    BY <1>1, <2>1 DEF ReminderInv, Held, Reminders!Exists
  <2>5. ReminderInTurn'
    BY <1>1, <2>1 DEF ReminderInv, ReminderInTurn, ReminderSingle, ReadsNow, Delivered, Given, Unrecorded
  <2> QED  BY <2>3, <2>4, <2>5 DEF ReminderInv
<1> QED  BY <1>4, <1>5

LEMMA PlaceStep ==
  ASSUME SomeRetries, ReminderInv, NEW p \in Procs, Reminders!PlaceItem(p)
  PROVE  ReminderInv'
<1> USE Types
<1> PICK w \in ReminderWorks : w = task[p]
  BY DEF ReminderInv
<1>1. w.at = "batched" /\ UNCHANGED <<wanted, eligible, changes, ran, batch, delivery, mailed, calm>>
  BY DEF Reminders!PlaceItem
<1>2. w \in Evaluations /\ w.k \in Runs
  BY <1>1, Kinds DEF Reminders!Evaluating
<1> PICK k \in Runs : k = w.k
  BY <1>2
<1>3. CASE holder # Reminders!NoOne \/ Reminders!Same(p)
  <2>1. PICK new \in BOOLEAN : new <=> (holder = Reminders!NoOne)
    OBVIOUS
  <2> DEFINE v == [w EXCEPT !.at = "placed", !.new = new]
  <2>2. /\ holder' = IF holder = Reminders!NoOne THEN k ELSE holder
        /\ task' = [task EXCEPT ![p] = v]
    <3>1. (holder = Reminders!NoOne) = new
      BY <2>1
    <3> QED  BY <1>3, <3>1 DEF Reminders!PlaceItem
  <2>3. v \in ReminderWorks /\ v.at = "placed" /\ v.k = k /\ (v.new <=> new) /\ v.own = w.own
    BY <1>2 DEF ReminderWorks, Evaluations
  <2> HIDE DEF v
  <2>4. task' \in [Procs -> ReminderWorks] /\ \A q \in Procs : task'[q] = IF q = p THEN v ELSE task[q]
    BY <2>2, <2>3, JobTaken DEF ReminderInv
  <2>5. holder' \in Runs \cup {Reminders!NoOne} /\ holder' # Reminders!NoOne
    BY <2>2 DEF ReminderInv, SomeRetries
  <2>6. Reminders!TypeOK'
    BY <1>1, <2>4, <2>5, TypesAfter DEF ReminderInv
  <2>7. Held'
    BY <1>1, <1>3, <2>2 DEF ReminderInv, Held, Reminders!Exists, Reminders!Same
  <2>8. ASSUME calm'
        PROVE  ReminderSingle' /\ (\A q \in Procs : ReadsNow(task[q])') /\ Delivered' /\ Given'
    <3>1. ReminderInTurn /\ calm
      BY <1>1, <2>8 DEF ReminderInv
    <3>2. ReminderSingle'
      BY <1>1, <2>3, <2>4, <3>1, SingleStays DEF Reminders!Evaluating
    <3>3. \A r \in Runs : delivery[r] # Reminders!NoDelivery => holder = r
      BY <3>1 DEF ReminderInTurn, Delivered
    <3>4. ASSUME NEW q \in Procs
          PROVE  ReadsNow(task[q])'
      <4>1. CASE q = p
        <5>1. task'[q] = v /\ (~new => holder' # k \/ ~w.own)
          <6>1. w.own => holder # k
            BY <1>1, <3>1 DEF ReminderInTurn, ReadsNow
          <6>3. ~new => holder' = holder /\ holder # Reminders!NoOne
            BY <2>1, <2>2
          <6>4. task'[q] = v
            BY <2>4, <4>1
          <6> QED  BY <6>1, <6>3, <6>4
        <5> QED  BY <2>3, <5>1 DEF ReadsNow
      <4>2. CASE q # p
        <5>1. task'[q] = task[q] /\ ReadsNow(task[q])
          BY <2>4, <3>1, <4>2 DEF ReminderInTurn
        <5>2. task[q] \in ReminderWorks
          BY DEF ReminderInv
        <5> PICK u \in ReminderWorks : u = task[q]
          BY <5>2
        <5>3. u.at \in Reminders!Evaluating => u.k # k
          BY <1>1, <3>1, <4>2 DEF ReminderInTurn, ReminderSingle, Reminders!Evaluating
        <5>4. /\ u.at = "batched" /\ u.own => holder' # u.k
              /\ u.at = "placed" /\ u.own /\ ~u.new => holder' # u.k
          BY <2>2, <5>1, <5>3 DEF ReadsNow, Reminders!Evaluating
        <5>5. u.at \in {"sent", "retrying", "retried"} => holder # Reminders!NoOne
          BY <5>1, Kinds DEF ReadsNow, SomeRetries
        <5> QED  BY <1>1, <2>2, <5>1, <5>4, <5>5 DEF ReadsNow
      <4> QED  BY <4>1, <4>2
    <3>5. Delivered'
      BY <1>1, <2>2, <3>3 DEF Delivered, SomeRetries
    <3>6. Unrecorded => Unrecorded'
      BY <1>1, <2>4 DEF Unrecorded
    <3>7. Given'
      BY <1>1, <2>2, <3>1, <3>6 DEF ReminderInTurn, Given
    <3> QED  BY <3>2, <3>4, <3>5, <3>7
  <2> QED  BY <2>6, <2>7, <2>8 DEF ReminderInv, ReminderInTurn
<1>4. CASE ~(holder # Reminders!NoOne \/ Reminders!Same(p))
  <2>1. task' = [task EXCEPT ![p] = Reminders!Idle] /\ UNCHANGED holder
    BY <1>4 DEF Reminders!PlaceItem
  <2>2. task' \in [Procs -> ReminderWorks] /\ \A q \in Procs : task'[q] = IF q = p THEN Reminders!Idle ELSE task[q]
    BY <2>1, JobTaken DEF ReminderInv, ReminderWorks
  <2>3. Reminders!TypeOK'
    BY <1>1, <2>1, <2>2, TypesAfter DEF ReminderInv
  <2>4. Held'
    BY <1>1, <2>1 DEF ReminderInv, Held, Reminders!Exists
  <2>5. ASSUME calm'
        PROVE  ReminderSingle' /\ (\A q \in Procs : ReadsNow(task[q])') /\ Delivered' /\ Given'
    <3>1. ReminderInTurn /\ calm
      BY <1>1, <2>5 DEF ReminderInv
    <3>2. Reminders!Idle \in ReminderWorks /\ Reminders!Idle.at = "idle"
      BY DEF ReminderWorks, Reminders!Idle
    <3>3. ReminderSingle'
      BY <2>2, <3>1, <3>2, SingleStays
    <3>4. ASSUME NEW q \in Procs
          PROVE  ReadsNow(task[q])'
      <4>1. CASE q = p
        BY <2>2, <4>1 DEF ReadsNow, Reminders!Idle, Reminders!Evaluating
      <4>2. CASE q # p
        BY <1>1, <2>1, <2>2, <3>1, <4>2 DEF ReminderInTurn, ReadsNow
      <4> QED  BY <4>1, <4>2
    <3>5. Unrecorded => Unrecorded'
      BY <1>1, <2>2 DEF Unrecorded
    <3> QED  BY <1>1, <2>1, <3>1, <3>3, <3>4, <3>5 DEF ReminderInTurn, Delivered, Given
  <2> QED  BY <2>3, <2>4, <2>5 DEF ReminderInv, ReminderInTurn
<1> QED  BY <1>3, <1>4

LEMMA EndEvaluationStep ==
  ASSUME SomeRetries, ReminderInv, NEW p \in Procs, Reminders!EndEvaluation(p)
  PROVE  ReminderInv'
<1> USE Types
<1> PICK w \in ReminderWorks : w = task[p]
  BY DEF ReminderInv
<1>1. w.at = "placed" /\ UNCHANGED <<wanted, eligible, changes, mailed, calm>>
      /\ ran' = [ran EXCEPT ![p][w.k] = "completed"] /\ task' = [task EXCEPT ![p] = Reminders!Idle]
  BY DEF Reminders!EndEvaluation
<1>2. w \in Evaluations /\ w.k \in Runs
  BY <1>1, Kinds DEF Reminders!Evaluating
<1> PICK k \in Runs : k = w.k
  BY <1>2
<1>3. ran' \in [Procs -> [Runs -> {"none", "processing", "completed"}]]
  BY <1>1 DEF ReminderInv
<1>4. Reminders!Idle \in ReminderWorks /\ Reminders!Idle.at = "idle"
  BY DEF ReminderWorks, Reminders!Idle
<1>5. task' \in [Procs -> ReminderWorks] /\ \A q \in Procs : task'[q] = IF q = p THEN Reminders!Idle ELSE task[q]
  BY <1>1, <1>4, JobTaken DEF ReminderInv
<1>6. Unrecorded => Unrecorded'
  BY <1>1, <1>5 DEF Unrecorded
<1>7. Reminders!NoDelivery \in Reminders!Deliveries
  BY DEF Reminders!NoDelivery, Reminders!Deliveries, Reminders!DeliveryStatuses, SomeRetries
<1>8. CASE Reminders!Empty(w.own, w.new)
  <2> PICK old \in Batches : old = batch[k]
    BY DEF ReminderInv
  <2> DEFINE row == [old EXCEPT !.status = "none"]
  <2>1. /\ batch' = [batch EXCEPT ![k] = row] /\ delivery' = [delivery EXCEPT ![k] = Reminders!NoDelivery]
        /\ holder' = IF holder = k THEN Reminders!NoOne ELSE holder
    BY <1>8 DEF Reminders!EndEvaluation
  <2>2. row \in Batches /\ row.made = old.made
    BY DEF Batches
  <2> HIDE DEF row
  <2>3. /\ batch' \in [Runs -> Batches] /\ delivery' \in [Runs -> Reminders!Deliveries]
        /\ \A r \in Runs : batch'[r] = (IF r = k THEN row ELSE batch[r]) /\ batch'[r].made = batch[r].made
        /\ \A r \in Runs : delivery'[r] = IF r = k THEN Reminders!NoDelivery ELSE delivery[r]
    BY <1>7, <2>1, <2>2 DEF ReminderInv
  <2>4. holder' \in Runs \cup {Reminders!NoOne}
    BY <2>1 DEF ReminderInv
  <2>5. Reminders!TypeOK'
    BY <1>1, <1>3, <1>5, <2>3, <2>4, TypesAfter DEF ReminderInv
  <2>6. Held'
    BY <2>1, <2>3 DEF ReminderInv, Held, Reminders!Exists
  <2>7. ASSUME calm'
        PROVE  ReminderSingle' /\ (\A q \in Procs : ReadsNow(task[q])') /\ Delivered' /\ Given'
    <3>1. ReminderInTurn /\ calm
      BY <1>1, <2>7 DEF ReminderInv
    <3>2. holder # k
      BY <1>1, <1>8, <3>1 DEF ReminderInTurn, ReadsNow, Reminders!Empty
    <3>3. holder' = holder /\ delivery[k] = Reminders!NoDelivery
      BY <2>1, <3>1, <3>2 DEF ReminderInTurn, Delivered
    <3>4. \A r \in Runs : delivery'[r] = delivery[r]
      BY <2>3, <3>3
    <3>5. ReminderSingle'
      BY <1>4, <1>5, <3>1, SingleStays
    <3>6. ASSUME NEW q \in Procs
          PROVE  ReadsNow(task[q])'
      <4>1. CASE q = p
        BY <1>5, <4>1 DEF ReadsNow, Reminders!Idle
      <4>2. CASE q # p
        <5>1. task'[q] = task[q] /\ ReadsNow(task[q]) /\ task[q] \in ReminderWorks
          BY <1>5, <3>1, <4>2 DEF ReminderInTurn, ReminderInv
        <5> PICK u \in ReminderWorks : u = task[q]
          BY <5>1
        <5>2. u.at # "idle" => u.k \in Runs
          BY Kinds
        <5> QED  BY <2>3, <3>3, <3>4, <5>1, <5>2 DEF ReadsNow
      <4> QED  BY <4>1, <4>2
    <3>7. Delivered'
      BY <3>1, <3>3, <3>4 DEF ReminderInTurn, Delivered
    <3>8. holder # Reminders!NoOne => holder \in Runs
      BY DEF ReminderInv
    <3>9. Given'
      BY <1>1, <1>6, <2>3, <3>1, <3>3, <3>4, <3>8 DEF ReminderInTurn, Given
    <3> QED  BY <3>5, <3>6, <3>7, <3>9
  <2> QED  BY <2>5, <2>6, <2>7 DEF ReminderInv, ReminderInTurn
<1>9. CASE ~Reminders!Empty(w.own, w.new)
  <2>1. UNCHANGED <<batch, delivery, holder>>
    BY <1>9 DEF Reminders!EndEvaluation
  <2>2. Reminders!TypeOK'
    BY <1>1, <1>3, <1>5, <2>1, TypesAfter DEF ReminderInv
  <2>3. Held'
    BY <2>1 DEF ReminderInv, Held, Reminders!Exists
  <2>4. ASSUME calm'
        PROVE  ReminderSingle' /\ (\A q \in Procs : ReadsNow(task[q])') /\ Delivered' /\ Given'
    <3>1. ReminderInTurn /\ calm
      BY <1>1, <2>4 DEF ReminderInv
    <3>2. ReminderSingle'
      BY <1>4, <1>5, <3>1, SingleStays
    <3>3. ASSUME NEW q \in Procs
          PROVE  ReadsNow(task[q])'
      <4>1. CASE q = p
        BY <1>5, <4>1 DEF ReadsNow, Reminders!Idle
      <4>2. CASE q # p
        BY <1>5, <2>1, <3>1, <4>2 DEF ReminderInTurn, ReadsNow
      <4> QED  BY <4>1, <4>2
    <3> QED  BY <1>1, <1>6, <2>1, <3>1, <3>2, <3>3 DEF ReminderInTurn, Delivered, Given
  <2> QED  BY <2>2, <2>3, <2>4 DEF ReminderInv, ReminderInTurn
<1> QED  BY <1>8, <1>9

-----------------------------------------------------------------------------
\* A job begins to mail a batch.
LEMMA BegunStep ==
  ASSUME SomeRetries, ReminderInv, NEW p \in Procs, NEW w \in ReminderWorks, task[p] = Reminders!Idle,
         w.at \in {"sending", "retrying"},
         Reminders!Begun(p, w.k, w), calm => ReadsNow(w)
  PROVE  ReminderInv'
<1> USE Types
<1>1. /\ task' = [task EXCEPT ![p] = w] /\ calm' = (calm /\ Reminders!Mailing(w.k) = {})
      /\ UNCHANGED <<wanted, eligible, changes, ran, batch, holder, delivery, mailed>>
  BY DEF Reminders!Begun
<1>2. task' \in [Procs -> ReminderWorks] /\ \A q \in Procs : task'[q] = IF q = p THEN w ELSE task[q]
  BY <1>1, JobTaken DEF ReminderInv
<1>3. Reminders!TypeOK'
  <2>1. calm' \in BOOLEAN
    BY <1>1 DEF ReminderInv
  <2> QED  BY <1>1, <1>2, <2>1, TypesAfter DEF ReminderInv
<1>4. Held'
  BY <1>1 DEF ReminderInv, Held, Reminders!Exists
<1>5. ASSUME calm'
      PROVE  ReminderSingle' /\ (\A q \in Procs : ReadsNow(task[q])') /\ Delivered' /\ Given'
  <2>1. ReminderInTurn /\ calm /\ Reminders!Mailing(w.k) = {}
    BY <1>1, <1>5 DEF ReminderInv
  <2>2. \A q \in Procs : task[q].at # "idle" /\ task[q].k = w.k => task[q].at \notin MailingAt
    BY <2>1 DEF Reminders!Mailing, MailingAt, Reminders!Idle
  <2>3. ReminderSingle'
    BY <1>2, <2>1, <2>2, SingleStays DEF MailingAt
  <2>4. ASSUME NEW q \in Procs
        PROVE  ReadsNow(task[q])'
    BY <1>1, <1>2, <2>1 DEF ReminderInTurn, ReadsNow
  <2>5. Unrecorded => Unrecorded'
    BY <1>2 DEF Unrecorded, Reminders!Idle
  <2> QED  BY <1>1, <2>1, <2>3, <2>4, <2>5 DEF ReminderInTurn, Delivered, Given
<1> QED  BY <1>3, <1>4, <1>5 DEF ReminderInv, ReminderInTurn

LEMMA BeginMailStep ==
  ASSUME SomeRetries, ReminderInv, NEW p \in Procs, NEW k \in Runs,
         Reminders!BeginSend(p, k) \/ Reminders!BeginRetry(p, k)
  PROVE  ReminderInv'
<1> PICK row \in Batches : row = batch[k]
  BY Types DEF ReminderInv
<1>1. row.made \in Nat
  BY DEF Batches
<1>2. CASE Reminders!BeginSend(p, k)
  <2> DEFINE w == [at |-> "sending", k |-> k, made |-> row.made, answer |-> "none"]
  <2>1. w \in ReminderWorks /\ w.at = "sending" /\ w.k = k
    BY <1>1 DEF ReminderWorks, Sends, Reminders!DeliveryStatuses
  <2>2. task[p] = Reminders!Idle /\ Reminders!Begun(p, k, w) /\ delivery[k] = Reminders!NoDelivery
    BY <1>2 DEF Reminders!BeginSend
  <2>3. ReadsNow(w)
    BY <2>1, <2>2 DEF ReadsNow
  <2> HIDE DEF w
  <2> QED  BY <2>1, <2>2, <2>3, BegunStep
<1>3. CASE Reminders!BeginRetry(p, k)
  <2> PICK read \in Reminders!Deliveries : read = delivery[k]
    BY Types DEF ReminderInv
  <2> DEFINE w == [at |-> "retrying", k |-> k, made |-> row.made, read |-> read, answer |-> "none"]
  <2>1. w \in ReminderWorks /\ w.at = "retrying" /\ w.k = k /\ w.made = row.made /\ w.read = read
    BY <1>1 DEF ReminderWorks, Retries, Reminders!DeliveryStatuses
  <2>2. task[p] = Reminders!Idle /\ Reminders!Begun(p, k, w) /\ read # Reminders!NoDelivery
    BY <1>3 DEF Reminders!BeginRetry, Reminders!NoDelivery
  <2>3. calm => k = holder
    BY <2>2 DEF ReminderInv, ReminderInTurn, Delivered
  <2>4. calm => ReadsNow(w)
    BY <2>1, <2>3 DEF ReadsNow, Reminders!Evaluating
  <2> HIDE DEF w
  <2> QED  BY <2>1, <2>2, <2>4, BegunStep
<1> QED  BY <1>2, <1>3

\* What a job that is over leaves behind: the batch's status, and what is recorded of the delivery.
LEMMA EndedStep ==
  ASSUME SomeRetries, ReminderInv, NEW p \in Procs, NEW w \in ReminderWorks, w = task[p], w.at # "idle",
         Reminders!Ended(p),
         batch' \in [Runs -> Batches], delivery' \in [Runs -> Reminders!Deliveries],
         \A r \in Runs : batch'[r].made = batch[r].made /\ (batch[r].status # "none" => batch'[r].status # "none"),
         \A r \in Runs : r # w.k => delivery'[r] = delivery[r],
         delivery' # delivery => w.at \in MailingAt,
         calm' \in BOOLEAN, calm' => calm,
         calm' => /\ delivery'[w.k] # Reminders!NoDelivery => w.k = holder
                  /\ delivery'[w.k].attempts >= delivery[w.k].attempts
                  /\ w.at \in {"sent", "retried"} => delivery'[w.k].attempts = delivery[w.k].attempts + 1
  PROVE  ReminderInv'
<1> USE Types
<1>1. /\ task' = [task EXCEPT ![p] = Reminders!Idle]
      /\ UNCHANGED <<wanted, eligible, changes, ran, holder, mailed>>
  BY DEF Reminders!Ended
<1>2. Reminders!Idle \in ReminderWorks /\ Reminders!Idle.at = "idle"
  BY DEF ReminderWorks, Reminders!Idle
<1>3. task' \in [Procs -> ReminderWorks] /\ \A q \in Procs : task'[q] = IF q = p THEN Reminders!Idle ELSE task[q]
  BY <1>1, <1>2, JobTaken DEF ReminderInv
<1>4. Reminders!TypeOK'
  BY <1>1, <1>3, TypesAfter DEF ReminderInv
<1>5. holder # Reminders!NoOne => holder \in Runs
  BY DEF ReminderInv
<1>6. Held'
  BY <1>1, <1>5 DEF ReminderInv, Held, Reminders!Exists
<1>7. w.k \in Runs
  BY Kinds
<1>8. ASSUME calm'
      PROVE  ReminderSingle' /\ (\A q \in Procs : ReadsNow(task[q])') /\ Delivered' /\ Given'
  <2>1. ReminderInTurn /\ calm
    BY <1>8 DEF ReminderInv
  <2>2. ReminderSingle'
    BY <1>2, <1>3, <2>1, SingleStays
  <2>3. ASSUME NEW q \in Procs
        PROVE  ReadsNow(task[q])'
    <3>1. CASE q = p
      BY <1>3, <3>1 DEF ReadsNow, Reminders!Idle
    <3>2. CASE q # p
      <4>1. task'[q] = task[q] /\ ReadsNow(task[q]) /\ task[q] \in ReminderWorks
        BY <1>3, <2>1, <3>2 DEF ReminderInTurn, ReminderInv
      <4> PICK u \in ReminderWorks : u = task[q]
        BY <4>1
      <4>2. u.at # "idle" => u.k \in Runs
        BY Kinds
      <4>3. u.at \in MailingAt => delivery'[u.k] = delivery[u.k]
        <5> SUFFICES ASSUME u.at \in MailingAt, delivery'[u.k] # delivery[u.k]
                     PROVE  FALSE
          OBVIOUS
        <5>1. u.k = w.k /\ w.at \in MailingAt
          BY <4>2 DEF MailingAt
        <5> QED  BY <2>1, <3>2, <5>1 DEF ReminderInTurn, ReminderSingle, MailingAt
      <4>4. u.at # "idle" => batch'[u.k].made = batch[u.k].made
        BY <4>2
      <4> QED  BY <1>1, <4>1, <4>3, <4>4 DEF ReadsNow, MailingAt
    <3> QED  BY <3>1, <3>2
  <2>4. Delivered'
    BY <1>1, <1>8, <2>1 DEF ReminderInTurn, Delivered
  <2>5. Given'
    <3> SUFFICES ASSUME NEW b \in DOMAIN mailed, mailed[b] # 0
                 PROVE  /\ holder # Reminders!NoOne /\ b = <<holder, batch'[holder].made>>
                        /\ \/ mailed[b] <= delivery'[holder].attempts
                           \/ mailed[b] <= delivery'[holder].attempts + 1 /\ Unrecorded'
      BY <1>1 DEF Given
    <3>1. /\ holder # Reminders!NoOne /\ holder \in Runs /\ b = <<holder, batch'[holder].made>>
          /\ \/ mailed[b] <= delivery[holder].attempts
             \/ mailed[b] <= delivery[holder].attempts + 1 /\ Unrecorded
      BY <1>5, <2>1 DEF ReminderInTurn, Given
    <3>2. mailed[b] \in Nat /\ delivery[holder].attempts \in Nat /\ delivery'[holder].attempts \in Nat
      BY <3>1 DEF ReminderInv, Reminders!Deliveries, SomeRetries
    <3>3. delivery'[holder].attempts >= delivery[holder].attempts
      BY <1>8, <3>1, <3>2
    <3>4. Unrecorded /\ ~Unrecorded' => delivery'[holder].attempts = delivery[holder].attempts + 1
      <4> SUFFICES ASSUME Unrecorded, ~Unrecorded'
                   PROVE  delivery'[holder].attempts = delivery[holder].attempts + 1
        OBVIOUS
      <4>1. w.at \in {"sent", "retried"}
        BY <1>3 DEF Unrecorded
      <4>2. w.k = holder
        BY <2>1, <4>1 DEF ReminderInTurn, ReadsNow
      <4> QED  BY <1>8, <4>1, <4>2
    <3> QED  BY <3>1, <3>2, <3>3, <3>4
  <2> QED  BY <2>2, <2>3, <2>4, <2>5
<1> QED  BY <1>4, <1>6, <1>8 DEF ReminderInv, ReminderInTurn

LEMMA BatchSet ==
  ASSUME ReminderInv, NEW p \in Procs, NEW status \in {"suppressed", "sending", "sent", "failed"},
         Reminders!SetBatch(p, status), task[p].at # "idle"
  PROVE  /\ batch' \in [Runs -> Batches]
         /\ \A r \in Runs : batch'[r].made = batch[r].made /\ (batch[r].status # "none" => batch'[r].status # "none")
<1> PICK k \in Runs : k = task[p].k
  BY Types, Kinds DEF ReminderInv
<1> PICK old \in Batches : old = batch[k]
  BY Types DEF ReminderInv
<1> DEFINE row == [old EXCEPT !.status = status]
<1>1. row \in Batches /\ row.made = old.made /\ row.status # "none"
  BY DEF Batches
<1>2. batch' = [batch EXCEPT ![k] = row] \/ batch' = batch
  BY DEF Reminders!SetBatch
<1> HIDE DEF row
<1> QED  BY <1>1, <1>2, Types DEF ReminderInv

LEMMA AfterStatus ==
  ASSUME NEW status \in Reminders!DeliveryStatuses
  PROVE  Reminders!BatchAfter(status) \in {"suppressed", "sending", "sent", "failed"}
BY DEF Reminders!BatchAfter, Reminders!DeliveryStatuses

\* In turn, the batch an attempt is recorded of is there still.
LEMMA SentIsHeld ==
  ASSUME SomeRetries, ReminderInv, calm, NEW p \in Procs, task[p].at \in {"sent", "retried"}
  PROVE  Reminders!Same(p) /\ task[p].k = holder /\ holder \in Runs /\ ReadsNow(task[p])
<1>1. ReadsNow(task[p]) /\ task[p] \in ReminderWorks
  BY Types DEF ReminderInv, ReminderInTurn
<1>2. task[p].k \in Runs
  BY <1>1, Kinds
<1>3. task[p].k = holder /\ task[p].made = batch[task[p].k].made
  BY <1>1 DEF ReadsNow
<1> QED  BY <1>1, <1>2, <1>3 DEF ReminderInv, Held, Reminders!Same, SomeRetries

LEMMA SuppressStep ==
  ASSUME SomeRetries, ReminderInv, NEW p \in Procs, Reminders!Suppress(p)
  PROVE  ReminderInv'
<1> USE Types
<1> PICK w \in ReminderWorks : w = task[p]
  BY DEF ReminderInv
<1>1. w.at \in {"sending", "retrying"} /\ Reminders!SetBatch(p, "suppressed") /\ Reminders!Ended(p) /\ UNCHANGED <<delivery, calm>>
  BY DEF Reminders!Suppress, Reminders!MayMail
<1>2. w.k \in Runs /\ delivery[w.k].attempts \in Nat
  BY <1>1, Kinds DEF ReminderInv, Reminders!Deliveries, SomeRetries
<1>3. calm' => (delivery'[w.k] # Reminders!NoDelivery => w.k = holder)
  BY <1>1, <1>2 DEF ReminderInv, ReminderInTurn, Delivered
<1>4. /\ batch' \in [Runs -> Batches]
      /\ \A r \in Runs : batch'[r].made = batch[r].made /\ (batch[r].status # "none" => batch'[r].status # "none")
  BY <1>1, BatchSet
<1>5. delivery' \in [Runs -> Reminders!Deliveries] /\ calm' \in BOOLEAN
  BY <1>1 DEF ReminderInv
<1> QED  BY <1>1, <1>2, <1>3, <1>4, <1>5, EndedStep

LEMMA RecordSendStep ==
  ASSUME SomeRetries, ReminderInv, NEW p \in Procs, Reminders!RecordSend(p)
  PROVE  ReminderInv'
<1> USE Types
<1> PICK w \in ReminderWorks : w = task[p]
  BY DEF ReminderInv
<1>1. w.at = "sent" /\ Reminders!Ended(p) /\ UNCHANGED calm
  BY DEF Reminders!RecordSend
<1>2. w.k \in Runs /\ w.answer \in Reminders!DeliveryStatuses
  BY <1>1, Kinds DEF Sends
<1> PICK k \in Runs : k = w.k
  BY <1>2
<1> PICK status \in Reminders!DeliveryStatuses : status = IF w.answer = "failed" THEN "retry_pending" ELSE w.answer
  BY <1>2 DEF Reminders!DeliveryStatuses
<1>3. \/ /\ Reminders!Same(p) /\ delivery[k] = Reminders!NoDelivery
         /\ delivery' = [delivery EXCEPT ![k] = [status |-> status, attempts |-> 1]]
         /\ Reminders!SetBatch(p, Reminders!BatchAfter(status))
      \/ ~(Reminders!Same(p) /\ delivery[k] = Reminders!NoDelivery) /\ UNCHANGED <<delivery, batch>>
  BY DEF Reminders!RecordSend
<1>4. [status |-> status, attempts |-> 1] \in Reminders!Deliveries
  BY DEF Reminders!Deliveries, SomeRetries
<1>5. /\ batch' \in [Runs -> Batches]
      /\ \A r \in Runs : batch'[r].made = batch[r].made /\ (batch[r].status # "none" => batch'[r].status # "none")
  BY <1>1, <1>3, AfterStatus, BatchSet DEF ReminderInv
<1>6. delivery' \in [Runs -> Reminders!Deliveries] /\ (\A r \in Runs : r # k => delivery'[r] = delivery[r]) /\ calm' \in BOOLEAN
  BY <1>1, <1>3, <1>4 DEF ReminderInv
<1>7. ASSUME calm'
      PROVE  k = holder /\ delivery'[k].attempts = delivery[k].attempts + 1 /\ delivery[k].attempts = 0
  <2>1. Reminders!Same(p) /\ k = holder /\ delivery[k] = Reminders!NoDelivery
    BY <1>1, <1>7, SentIsHeld DEF ReadsNow
  <2>2. delivery'[k].attempts = 1 /\ delivery[k].attempts = 0
    BY <1>3, <2>1 DEF ReminderInv, Reminders!NoDelivery
  <2> QED  BY <2>1, <2>2
<1>8. w.at \in MailingAt
  BY <1>1 DEF MailingAt
<1> QED  BY <1>1, <1>5, <1>6, <1>7, <1>8, EndedStep

LEMMA RecordRetryStep ==
  ASSUME SomeRetries, ReminderInv, NEW p \in Procs, Reminders!RecordRetry(p)
  PROVE  ReminderInv'
<1> USE Types
<1> PICK w \in ReminderWorks : w = task[p]
  BY DEF ReminderInv
<1>1. w.at = "retried" /\ Reminders!Ended(p) /\ UNCHANGED calm
  BY DEF Reminders!RecordRetry
<1>2. w.k \in Runs /\ w.answer \in Reminders!DeliveryStatuses /\ w.read \in Reminders!Deliveries
  BY <1>1, Kinds DEF Retries
<1> PICK k \in Runs : k = w.k
  BY <1>2
<1> PICK old \in Reminders!Deliveries : old = delivery[k]
  BY DEF ReminderInv
<1> PICK status \in Reminders!DeliveryStatuses : status = Reminders!RetryStatus(w.answer, w.read.attempts)
  BY <1>2 DEF Reminders!DeliveryStatuses, Reminders!RetryStatus
<1> DEFINE row == [status |-> status, attempts |-> old.attempts + 1]
<1>3. \/ /\ Reminders!Same(p) /\ old.attempts < MaxAttempts
         /\ delivery' = [delivery EXCEPT ![k] = row] /\ Reminders!SetBatch(p, Reminders!BatchAfter(status))
      \/ ~(Reminders!Same(p) /\ old.attempts < MaxAttempts) /\ UNCHANGED <<delivery, batch>>
  BY DEF Reminders!RecordRetry
<1>4. old.attempts \in Nat /\ (old.attempts < MaxAttempts => row \in Reminders!Deliveries) /\ row.attempts = old.attempts + 1
  <2>1. old.attempts \in 0..MaxAttempts
    BY DEF Reminders!Deliveries
  <2>2. old.attempts < MaxAttempts => old.attempts + 1 \in 0..MaxAttempts
    BY <2>1 DEF SomeRetries
  <2> QED  BY <2>1, <2>2 DEF Reminders!Deliveries, SomeRetries
<1> HIDE DEF row
<1>5. /\ batch' \in [Runs -> Batches]
      /\ \A r \in Runs : batch'[r].made = batch[r].made /\ (batch[r].status # "none" => batch'[r].status # "none")
  BY <1>1, <1>3, AfterStatus, BatchSet DEF ReminderInv
<1>6. delivery' \in [Runs -> Reminders!Deliveries] /\ (\A r \in Runs : r # k => delivery'[r] = delivery[r]) /\ calm' \in BOOLEAN
  BY <1>1, <1>3, <1>4 DEF ReminderInv
<1>7. ASSUME calm'
      PROVE  k = holder /\ delivery'[k].attempts = old.attempts + 1
  <2>1. Reminders!Same(p) /\ k = holder /\ old.attempts < MaxAttempts
    BY <1>1, <1>7, SentIsHeld DEF ReadsNow, Reminders!MayRetry
  <2> QED  BY <1>3, <1>4, <2>1 DEF ReminderInv
<1>8. w.at \in MailingAt
  BY <1>1 DEF MailingAt
<1>9. calm' => delivery'[k].attempts >= old.attempts
  BY <1>4, <1>7
<1> QED  BY <1>1, <1>5, <1>6, <1>7, <1>8, <1>9, EndedStep

LEMMA SettleStep ==
  ASSUME SomeRetries, ReminderInv, NEW p \in Procs, Reminders!Settle(p)
  PROVE  ReminderInv'
<1> USE Types
<1> PICK w \in ReminderWorks : w = task[p]
  BY DEF ReminderInv
<1>1. w.at = "retrying" /\ Reminders!Ended(p) /\ UNCHANGED calm
  BY DEF Reminders!Settle
<1>2. w.k \in Runs
  BY <1>1, Kinds
<1> PICK k \in Runs : k = w.k
  BY <1>2
<1> PICK old \in Reminders!Deliveries : old = delivery[k]
  BY DEF ReminderInv
<1> PICK status \in {"delivered", "failed"} :
          /\ delivery' = IF Reminders!Same(p) THEN [delivery EXCEPT ![k].status = status] ELSE delivery
          /\ Reminders!SetBatch(p, Reminders!BatchAfter(status))
  BY DEF Reminders!Settle
<1> DEFINE row == [old EXCEPT !.status = status]
<1>3. row \in Reminders!Deliveries /\ row.attempts = old.attempts /\ old.attempts \in Nat
  BY DEF Reminders!Deliveries, Reminders!DeliveryStatuses, SomeRetries
<1>4. delivery' = [delivery EXCEPT ![k] = row] \/ delivery' = delivery
  OBVIOUS
<1> HIDE DEF row
<1>5. delivery' \in [Runs -> Reminders!Deliveries] /\ (\A r \in Runs : r # k => delivery'[r] = delivery[r])
      /\ delivery'[k].attempts = old.attempts /\ calm' \in BOOLEAN
  BY <1>1, <1>3, <1>4 DEF ReminderInv
<1>6. status \in Reminders!DeliveryStatuses
  BY DEF Reminders!DeliveryStatuses
<1>7. /\ batch' \in [Runs -> Batches]
      /\ \A r \in Runs : batch'[r].made = batch[r].made /\ (batch[r].status # "none" => batch'[r].status # "none")
  BY <1>1, <1>6, AfterStatus, BatchSet
<1>8. calm' => k = holder
  BY <1>1 DEF ReminderInv, ReminderInTurn, ReadsNow
<1>9. w.at \in MailingAt
  BY <1>1 DEF MailingAt
<1> QED  BY <1>1, <1>3, <1>5, <1>7, <1>8, <1>9, EndedStep

LEMMA ReminderAbandonStep ==
  ASSUME SomeRetries, ReminderInv, NEW p \in Procs, Reminders!Abandon(p)
  PROVE  ReminderInv'
<1> USE Types
<1> PICK w \in ReminderWorks : w = task[p]
  BY DEF ReminderInv
<1>1. /\ w # Reminders!Idle /\ calm' = (calm /\ w.at \notin {"sent", "retried"}) /\ Reminders!Ended(p)
      /\ UNCHANGED <<batch, delivery>>
  BY DEF Reminders!Abandon
<1>2. w.at # "idle" /\ w.k \in Runs
  BY <1>1, Kinds
<1>3. calm' \in BOOLEAN /\ (calm' => calm /\ w.at \notin {"sent", "retried"})
  BY <1>1 DEF ReminderInv
<1>4. delivery[w.k].attempts \in Nat
  BY <1>2 DEF ReminderInv, Reminders!Deliveries, SomeRetries
<1>5. calm' => (delivery'[w.k] # Reminders!NoDelivery => w.k = holder)
  BY <1>1, <1>2, <1>3 DEF ReminderInv, ReminderInTurn, Delivered
<1>6. batch' \in [Runs -> Batches] /\ delivery' \in [Runs -> Reminders!Deliveries]
  BY <1>1 DEF ReminderInv
<1> QED  BY <1>1, <1>2, <1>3, <1>4, <1>5, <1>6, EndedStep

LEMMA MailStep ==
  ASSUME SomeRetries, ReminderInv, NEW p \in Procs, Reminders!Mail(p)
  PROVE  ReminderInv'
<1> USE Types
<1> PICK w \in ReminderWorks : w = task[p]
  BY DEF ReminderInv
<1>1. /\ w.at = "sending" \/ (w.at = "retrying" /\ Reminders!MayRetry(w.read.attempts))
      /\ Reminders!Exists(w.k) /\ batch[w.k].made = w.made /\ holder = w.k
      /\ mailed' = [mailed EXCEPT ![<<w.k, w.made>>] = @ + 1]
      /\ UNCHANGED <<wanted, eligible, changes, ran, batch, holder, delivery, calm>>
  BY DEF Reminders!Mail, Reminders!MayMail, Reminders!StillHolds, Reminders!Same
<1>2. w.k \in Runs
  BY <1>1, Kinds
<1> PICK k \in Runs : k = w.k
  BY <1>2
<1> PICK a \in {"accepted", "delivered", "uncertain", "failed"} :
          task' = [task EXCEPT ![p].answer = a, ![p].at = IF @ = "sending" THEN "sent" ELSE "retried"]
  BY DEF Reminders!Mail
<1> PICK at \in {"sent", "retried"} : at = IF w.at = "sending" THEN "sent" ELSE "retried"
  OBVIOUS
<1> DEFINE v == [w EXCEPT !.answer = a, !.at = at]
<1>3. task' = [task EXCEPT ![p] = v]
  OBVIOUS
<1>4. v \in ReminderWorks /\ v.at = at /\ v.k = k /\ v.made = w.made /\ (at = "retried" => v.read = w.read)
  <2>1. CASE w.at = "sending"
    <3>1. w \in Sends /\ at = "sent"
      BY <2>1, Kinds
    <3> QED  BY <3>1 DEF ReminderWorks, Sends, Reminders!DeliveryStatuses
  <2>2. CASE w.at = "retrying"
    <3>1. w \in Retries /\ at = "retried"
      BY <2>2, Kinds
    <3> QED  BY <3>1 DEF ReminderWorks, Retries, Reminders!DeliveryStatuses
  <2> QED  BY <1>1, <2>1, <2>2
<1> HIDE DEF v
<1>5. task' \in [Procs -> ReminderWorks] /\ \A q \in Procs : task'[q] = IF q = p THEN v ELSE task[q]
  BY <1>3, <1>4, JobTaken DEF ReminderInv
<1> DEFINE Sent == Runs \X (1..Reminders!Cardinality(Procs))
<1>6. /\ mailed \in [Sent -> Nat] /\ mailed' \in [Sent -> Nat]
      /\ \A b \in Sent : mailed'[b] = IF b = <<k, w.made>> THEN mailed[b] + 1 ELSE mailed[b]
  <2>1. mailed \in [Sent -> Nat]
    BY DEF ReminderInv
  <2>2. PICK c : c = <<k, w.made>>
    OBVIOUS
  <2>3. mailed' = [mailed EXCEPT ![c] = @ + 1]
    BY <1>1, <2>2
  <2> HIDE DEF Sent
  <2>4. /\ mailed' \in [Sent -> Nat]
        /\ \A b \in Sent : mailed'[b] = IF b = c THEN mailed[b] + 1 ELSE mailed[b]
    <3>1. CASE c \in Sent
      BY <2>1, <2>3, <3>1
    <3>2. CASE c \notin Sent
      <4>1. mailed' = mailed
        BY <2>1, <2>3, <3>2
      <4> QED  BY <2>1, <3>2, <4>1
    <3> QED  BY <3>1, <3>2
  <2> QED  BY <2>1, <2>2, <2>4
<1>7. Reminders!TypeOK'
  BY <1>1, <1>5, <1>6, TypesAfter DEF ReminderInv
<1> HIDE DEF Sent
<1>8. Held'
  BY <1>1 DEF ReminderInv, Held, Reminders!Exists
<1>9. ASSUME calm'
      PROVE  ReminderSingle' /\ (\A q \in Procs : ReadsNow(task[q])') /\ Delivered' /\ Given'
  <2>1. ReminderInTurn /\ calm /\ ReadsNow(w)
    BY <1>1, <1>9 DEF ReminderInv, ReminderInTurn
  <2>2. ReminderSingle'
    BY <1>1, <1>4, <1>5, <2>1, SingleStays DEF MailingAt
  <2>3. ASSUME NEW q \in Procs
        PROVE  ReadsNow(task[q])'
    <3>1. CASE q = p
      <4>1. task'[q] = v
        BY <1>5, <3>1
      <4>2. at = "sent" => w.at = "sending"
        BY <1>1
      <4>3. at = "retried" => w.at = "retrying" /\ Reminders!MayRetry(w.read.attempts) /\ w.read = delivery[k]
        BY <1>1, <2>1 DEF ReadsNow
      <4>4. at = "sent" => delivery[k] = Reminders!NoDelivery
        BY <2>1, <4>2 DEF ReadsNow
      <4> QED  BY <1>1, <1>4, <4>1, <4>3, <4>4 DEF ReadsNow
    <3>2. CASE q # p
      BY <1>1, <1>5, <2>1, <3>2 DEF ReminderInTurn, ReadsNow
    <3> QED  BY <3>1, <3>2
  <2>4. Delivered'
    BY <1>1, <2>1 DEF ReminderInTurn, Delivered
  <2>5. ~Unrecorded
    <3> SUFFICES ASSUME NEW q \in Procs, task[q].at \in {"sent", "retried"}
                 PROVE  FALSE
      BY DEF Unrecorded
    <3>1. task[q].k = k /\ q # p
      BY <1>1, <2>1, SentIsHeld
    <3> QED  BY <1>1, <2>1, <3>1 DEF ReminderInTurn, ReminderSingle, MailingAt
  <2>6. Unrecorded'
    BY <1>4, <1>5 DEF Unrecorded
  <2>7. Given'
    <3> SUFFICES ASSUME NEW b \in Sent, mailed'[b] # 0
                 PROVE  /\ k # Reminders!NoOne /\ b = <<k, batch[k].made>>
                        /\ mailed'[b] <= delivery[k].attempts + 1
      BY <1>1, <1>6, <2>6 DEF Given
    <3>1. mailed[b] # 0 => b = <<k, batch[k].made>> /\ mailed[b] <= delivery[k].attempts
      BY <1>1, <1>6, <2>1, <2>5 DEF ReminderInTurn, Given
    <3>2. mailed[b] \in Nat /\ delivery[k].attempts \in Nat
      BY <1>6 DEF ReminderInv, Reminders!Deliveries, SomeRetries
    <3>3. b = <<k, w.made>> \/ mailed[b] # 0
      BY <1>6
    <3> QED  BY <1>1, <1>6, <3>1, <3>2, <3>3 DEF SomeRetries
  <2> QED  BY <2>2, <2>3, <2>4, <2>7
<1> QED  BY <1>7, <1>8, <1>9 DEF ReminderInv, ReminderInTurn

-----------------------------------------------------------------------------
LEMMA ReminderInitHolds ==
  ASSUME SomeRetries, Reminders!Init
  PROVE  ReminderInv
<1> USE DEF Reminders!Init
<1>1. Reminders!NoBatch \in Batches /\ Reminders!NoDelivery \in Reminders!Deliveries
  BY DEF Reminders!NoBatch, Batches, Reminders!NoDelivery, Reminders!Deliveries,
     Reminders!DeliveryStatuses, SomeRetries
<1>2. Reminders!TypeOK
  <2>1. batch \in [Runs -> Batches] /\ delivery \in [Runs -> Reminders!Deliveries] /\ task \in [Procs -> ReminderWorks]
        /\ mailed \in [Runs \X (1..Reminders!Cardinality(Procs)) -> Nat]
        /\ ran \in [Procs -> [Runs -> {"none", "processing", "completed"}]]
    BY <1>1 DEF ReminderWorks
  <2>2. changes \in 0..MaxChanges /\ holder \in Runs \cup {Reminders!NoOne}
    BY DEF SomeRetries
  <2> QED  BY <2>1, <2>2, Types
<1>3. \A p \in Procs : task[p].at = "idle"
  BY DEF Reminders!Idle
<1> QED
  BY <1>2, <1>3 DEF ReminderInv, Held, ReminderInTurn, ReminderSingle, ReadsNow, Delivered, Given,
     Reminders!Evaluating

LEMMA ReminderNextHolds ==
  ASSUME SomeRetries, ReminderInv, [Reminders!Next]_(Reminders!vars)
  PROVE  ReminderInv'
<1>1. CASE Reminders!UpdatePreference \/ Reminders!CandidateEligibility
  <2>1. wanted' \in BOOLEAN /\ eligible' \in BOOLEAN /\ changes' \in 0..MaxChanges
        /\ UNCHANGED <<ran, batch, holder, delivery, mailed, task, calm>>
    <3>1. changes < MaxChanges /\ changes' = changes + 1
          /\ UNCHANGED <<ran, batch, holder, delivery, mailed, task, calm>>
      BY <1>1 DEF Reminders!UpdatePreference, Reminders!CandidateEligibility
    <3>2. changes \in 0..MaxChanges
      BY DEF ReminderInv, Reminders!TypeOK
    <3>3. changes' \in 0..MaxChanges
      BY <3>1, <3>2 DEF SomeRetries
    <3>4. wanted' \in BOOLEAN /\ eligible' \in BOOLEAN
      BY <1>1, Zenon DEF Reminders!UpdatePreference, Reminders!CandidateEligibility, ReminderInv,
         Reminders!TypeOK
    <3> QED  BY <3>1, <3>3, <3>4
  <2> QED  BY <2>1, ReminderChangeStep
<1>2. CASE UNCHANGED Reminders!vars
  <2>1. wanted' \in BOOLEAN /\ eligible' \in BOOLEAN /\ changes' \in 0..MaxChanges
        /\ UNCHANGED <<ran, batch, holder, delivery, mailed, task, calm>>
    BY <1>2 DEF Reminders!vars, ReminderInv, Reminders!TypeOK
  <2> QED  BY <2>1, ReminderChangeStep
<1> QED
  BY <1>1, <1>2, BeginEvaluationStep, BeginMailStep, PlaceStep, EndEvaluationStep, SuppressStep, MailStep,
            RecordSendStep, RecordRetryStep, SettleStep, ReminderAbandonStep DEF Reminders!Next

LEMMA ReminderInvSuffices ==
  ASSUME SomeRetries, ReminderInv
  PROVE  Reminders!RemindedOnce
<1> SUFFICES ASSUME calm
             PROVE  /\ Cardinality({b \in DOMAIN mailed : mailed[b] > 0}) <= 1
                    /\ \A b \in DOMAIN mailed : mailed[b] <= MaxAttempts
  BY ReminderCounts DEF Reminders!RemindedOnce
<1>1. ReminderInTurn /\ Given
  BY DEF ReminderInv, ReminderInTurn
<1>2. \A b \in DOMAIN mailed : mailed[b] \in Nat
  BY DEF ReminderInv, Reminders!TypeOK
<1> DEFINE Sent == {b \in DOMAIN mailed : mailed[b] > 0}
<1>3. \A b, c \in Sent : b = c
  BY <1>1, <1>2 DEF Given
<1>4. Cardinality(Sent) <= 1
  <2>1. CASE Sent = {}
    BY <2>1, FS_EmptySet
  <2>2. CASE Sent # {}
    <3>1. PICK b \in Sent : Sent = {b}
      BY <1>3, <2>2
    <3>2. Cardinality({b}) = 1
      BY FS_Singleton
    <3> HIDE DEF Sent
    <3> QED  BY <3>1, <3>2
  <2> QED  BY <2>1, <2>2
<1>5. ASSUME NEW b \in DOMAIN mailed
      PROVE  mailed[b] <= MaxAttempts
  <2>1. CASE mailed[b] = 0
    BY <2>1 DEF SomeRetries
  <2>2. CASE mailed[b] # 0
    <3>1. holder \in Runs
      BY <1>1, <2>2, Types DEF Given, ReminderInv
    <3>2. delivery[holder].attempts \in 0..MaxAttempts
      BY <3>1, Types DEF ReminderInv, Reminders!Deliveries
    <3>3. ASSUME Unrecorded
          PROVE  delivery[holder].attempts < MaxAttempts
      <4> PICK p \in Procs : task[p].at \in {"sent", "retried"}
        BY <3>3 DEF Unrecorded
      <4>1. task[p].k = holder /\ ReadsNow(task[p])
        BY SentIsHeld
      <4>2. CASE task[p].at = "sent"
        BY <4>1, <4>2 DEF ReadsNow, Reminders!NoDelivery, SomeRetries
      <4>3. CASE task[p].at = "retried"
        BY <4>1, <4>3 DEF ReadsNow, Reminders!MayRetry
      <4> QED  BY <4>2, <4>3
    <3> QED  BY <1>1, <1>2, <2>2, <3>2, <3>3 DEF Given, SomeRetries
  <2> QED  BY <2>1, <2>2
<1> QED  BY <1>4, <1>5

\* While nobody evaluates one run key twice at once, mails a batch at once or dies mailing, a reminder is in
\* one batch only, mailed at most LEARNING_REMINDER_MAX_ATTEMPTS times (learning-reminders/service.ts),
\* for every number of runs, processes and attempts.
THEOREM ReminderStaysOne ==
  ASSUME SomeRetries
  PROVE  Reminders!Spec => []Reminders!RemindedOnce
<1>1. Reminders!Spec => []ReminderInv
  BY ReminderInitHolds, ReminderNextHolds, PTL DEF Reminders!Spec
<1> QED  BY <1>1, ReminderInvSuffices, PTL

-----------------------------------------------------------------------------
(* The daily run. *)
CONSTANTS Contributions, MaxFailures
VARIABLES run, buffer, receipts, counted, doing, applied, inTime, heard

Daily == INSTANCE DailyRun WITH work <- doing

\* The buffer contains a contribution at most once, and just then there is a receipt.
Receipted ==
  /\ inTime \subseteq applied
  /\ \A c \in Contributions : buffer[c] \in {0, 1} /\ (buffer[c] = 1 <=> c \in receipts)

Reads(p) == doing[p].at \in {"claimed", "read"}
\* As long as no commit went unheard, the row locks the date: one process reads, of a run that is on.
OneReader == \A p \in Procs :
  /\ doing[p].at # "unheard"
  /\ Reads(p) => run.status = "running" /\ \A q \in Procs : Reads(q) => q = p
\* Until the run is completed, the buffer keeps whatever was applied.
Kept == run.status # "completed" => applied \subseteq receipts
\* What a process has read contains the contributions in time once, and none twice.
ExactRead == \A p \in Procs : doing[p].at = "read" =>
  \A c \in Contributions : doing[p].rows[c] <= 1 /\ (c \in inTime => doing[p].rows[c] = 1)

DailyInv == Daily!TypeOK /\ Receipted /\ (heard => OneReader /\ Kept /\ ExactRead) /\ Daily!CountedExactlyOnce

LEMMA DailyInitHolds == Daily!Init => DailyInv
  BY DEF Daily!Init, DailyInv, Daily!TypeOK, Receipted, OneReader, Kept, ExactRead,
     Daily!CountedExactlyOnce, Reads,
         Daily!Nothing, Daily!Counts, Daily!Idle, Daily!Statuses

LEMMA BeginApplyStep ==
  ASSUME DailyInv, NEW p \in Procs, NEW c \in Contributions, Daily!BeginApply(p, c)
  PROVE  DailyInv'
  BY DEF DailyInv, Daily!TypeOK, Receipted, OneReader, Kept, ExactRead, Daily!CountedExactlyOnce, Reads,
         Daily!BeginApply, Daily!Goes, Daily!Idle, Daily!Counts

LEMMA ApplyStep ==
  ASSUME DailyInv, NEW p \in Procs, Daily!Apply(p)
  PROVE  DailyInv'
<1> DEFINE c == doing[p].c
<1>1. doing[p].at = "applying" /\ c \in Contributions
  BY DEF DailyInv, Daily!TypeOK, Daily!Apply, Daily!Idle
<1>2. UNCHANGED <<run, counted, inTime, heard>> /\ doing' = [doing EXCEPT ![p] = Daily!Idle]
  BY DEF Daily!Apply, Daily!Goes
<1>3. CASE c \notin receipts
  <2>1. receipts' = receipts \cup {c} /\ buffer' = [buffer EXCEPT ![c] = @ + 1] /\ applied' = applied \cup {c}
    BY <1>3 DEF Daily!Apply, Daily!ReceiptIsNew
  <2>2. Daily!TypeOK'
    BY <1>1, <1>2, <2>1 DEF DailyInv, Daily!TypeOK, Daily!Idle, Daily!Counts
  <2>3. Receipted'
    BY <1>1, <1>2, <1>3, <2>1 DEF DailyInv, Daily!TypeOK, Daily!Counts, Receipted
  <2>4. (heard => OneReader /\ Kept /\ ExactRead)'
    BY <1>1, <1>2, <2>1 DEF DailyInv, Daily!TypeOK, OneReader, Kept, ExactRead, Reads, Daily!Idle
  <2> QED  BY <1>2, <2>2, <2>3, <2>4 DEF DailyInv, Daily!CountedExactlyOnce
<1>4. CASE c \in receipts
  <2>1. UNCHANGED <<receipts, buffer, applied>>
    BY <1>4 DEF Daily!Apply, Daily!ReceiptIsNew
  <2> QED
    BY <1>1, <1>2, <2>1 DEF DailyInv, Daily!TypeOK, Daily!Idle, Daily!Counts, Receipted, OneReader, Kept,
       ExactRead, Reads, Daily!CountedExactlyOnce
<1> QED  BY <1>3, <1>4

LEMMA DailyClaimStep ==
  ASSUME DailyInv, NEW p \in Procs, Daily!Claim(p)
  PROVE  DailyInv'
  BY DEF DailyInv, Daily!TypeOK, Receipted, OneReader, Kept, ExactRead, Daily!CountedExactlyOnce, Reads,
         Daily!Claim, Daily!Claimable, Daily!Goes, Daily!Idle, Daily!Counts, Daily!Statuses

LEMMA ClaimRefusedStep ==
  ASSUME DailyInv, NEW p \in Procs, Daily!ClaimRefused(p)
  PROVE  DailyInv'
  BY DEF DailyInv, Daily!TypeOK, Receipted, OneReader, Kept, ExactRead, Daily!CountedExactlyOnce, Reads,
         Daily!ClaimRefused, Daily!Goes, Daily!Idle, Daily!Counts

LEMMA ReadBufferStep ==
  ASSUME DailyInv, NEW p \in Procs, Daily!ReadBuffer(p)
  PROVE  DailyInv'
<1>1. /\ doing[p].at = "claimed" /\ doing' = [doing EXCEPT ![p] = [at |-> "read", rows |-> buffer]]
      /\ inTime' = applied /\ UNCHANGED <<run, buffer, receipts, counted, applied, heard>>
  BY DEF Daily!ReadBuffer, Daily!Goes
<1>2. Daily!TypeOK' /\ Receipted'
  BY <1>1 DEF DailyInv, Daily!TypeOK, Daily!Counts, Receipted
<1>3. ASSUME heard  PROVE run.status = "running" /\ (OneReader /\ Kept /\ ExactRead)'
  <2>1. run.status = "running" /\ applied \subseteq receipts /\ OneReader'
    BY <1>1, <1>3 DEF DailyInv, Daily!TypeOK, OneReader, Kept, Reads
  <2>2. Kept'
    BY <1>1, <2>1 DEF Kept
  <2>3. \A c \in Contributions : buffer[c] <= 1 /\ (c \in applied => buffer[c] = 1)
    BY <2>1 DEF DailyInv, Receipted
  <2>4. \A q \in Procs : doing'[q].at = "read" => q = p
    BY <1>1, <1>3 DEF DailyInv, Daily!TypeOK, OneReader, Reads
  <2>5. ExactRead'
    BY <1>1, <2>3, <2>4 DEF DailyInv, Daily!TypeOK, ExactRead
  <2> QED  BY <2>1, <2>2, <2>5
<1> QED  BY <1>1, <1>2, <1>3 DEF DailyInv, Daily!CountedExactlyOnce

LEMMA CommitAggregatesStep ==
  ASSUME DailyInv, NEW p \in Procs, Daily!CommitAggregates(p)
  PROVE  DailyInv'
<1>1. PICK h \in BOOLEAN : heard' = (heard /\ h) /\ Daily!Goes(p, [at |-> IF h THEN "purging" ELSE "unheard"])
  BY DEF Daily!CommitAggregates
<1>2. /\ doing[p].at = "read" /\ counted' = doing[p].rows /\ run' = [run EXCEPT !.status = "completed"]
      /\ UNCHANGED <<buffer, receipts, applied, inTime>>
  BY DEF Daily!CommitAggregates
<1>3. doing[p].rows \in Daily!Counts
  BY <1>2 DEF DailyInv, Daily!TypeOK, Daily!Idle
<1>4. Daily!TypeOK'
  BY <1>1, <1>2, <1>3 DEF DailyInv, Daily!TypeOK, Daily!Goes, Daily!Statuses
<1>5. Receipted'
  BY <1>2 DEF DailyInv, Receipted
<1>6. ASSUME heard'  PROVE (OneReader /\ Kept /\ ExactRead)'
  <2>1. heard /\ doing' = [doing EXCEPT ![p] = [at |-> "purging"]]
    BY <1>1, <1>6 DEF Daily!Goes
  <2>2. \A q \in Procs : ~Reads(q)'
    BY <1>2, <2>1 DEF DailyInv, Daily!TypeOK, OneReader, Reads
  <2>3. OneReader'
    BY <2>1, <2>2 DEF DailyInv, Daily!TypeOK, OneReader
  <2>4. Kept'
    BY <1>2 DEF DailyInv, Daily!TypeOK, Kept
  <2>5. ExactRead'
    BY <2>2 DEF ExactRead, Reads
  <2> QED  BY <2>3, <2>4, <2>5
<1>7. Daily!CountedExactlyOnce'
  BY <1>1, <1>2, <1>3 DEF DailyInv, Daily!TypeOK, Daily!CountedExactlyOnce, ExactRead
<1> QED  BY <1>4, <1>5, <1>6, <1>7 DEF DailyInv

LEMMA MarkFailedStep ==
  ASSUME DailyInv, NEW p \in Procs, Daily!MarkFailed(p)
  PROVE  DailyInv'
  BY DEF DailyInv, Daily!TypeOK, Receipted, OneReader, Kept, ExactRead, Daily!CountedExactlyOnce, Reads,
         Daily!MarkFailed, Daily!Goes, Daily!Idle, Daily!Counts, Daily!Statuses

LEMMA PurgeStep ==
  ASSUME DailyInv, NEW p \in Procs, Daily!Purge(p)
  PROVE  DailyInv'
<1>1. doing' = [doing EXCEPT ![p] = Daily!Idle] /\ UNCHANGED <<run, counted, applied, inTime, heard>>
  BY DEF Daily!Purge, Daily!Goes
<1>2. CASE Daily!MayPurge(run.status)
  <2>1. buffer' = Daily!Nothing /\ receipts' = {} /\ run.status = "completed"
    BY <1>2 DEF Daily!Purge, Daily!MayPurge
  <2> QED
    BY <1>1, <2>1 DEF DailyInv, Daily!TypeOK, Receipted, OneReader, Kept, ExactRead,
       Daily!CountedExactlyOnce, Reads,
                      Daily!Idle, Daily!Counts, Daily!Nothing
<1>3. CASE ~Daily!MayPurge(run.status)
  <2>1. UNCHANGED <<buffer, receipts>>
    BY <1>3 DEF Daily!Purge
  <2> QED
    BY <1>1, <2>1 DEF DailyInv, Daily!TypeOK, Receipted, OneReader, Kept, ExactRead,
       Daily!CountedExactlyOnce, Reads, Daily!Idle, Daily!Counts
<1> QED  BY <1>2, <1>3

LEMMA DailyAbandonStep ==
  ASSUME DailyInv, NEW p \in Procs, Daily!Abandon(p)
  PROVE  DailyInv'
  BY DEF DailyInv, Daily!TypeOK, Receipted, OneReader, Kept, ExactRead, Daily!CountedExactlyOnce, Reads,
         Daily!Abandon, Daily!Goes, Daily!Idle, Daily!Counts

LEMMA DailyNextHolds == DailyInv /\ [Daily!Next]_(Daily!vars) => DailyInv'
<1> SUFFICES ASSUME DailyInv, [Daily!Next]_(Daily!vars) PROVE DailyInv'
  OBVIOUS
<1>1. CASE Daily!Next
  <2>1. PICK p \in Procs : Daily!Step(p)
    BY <1>1 DEF Daily!Next
  <2> QED
    BY <2>1, BeginApplyStep, ApplyStep, DailyClaimStep, ClaimRefusedStep, ReadBufferStep,
       CommitAggregatesStep, MarkFailedStep, PurgeStep, DailyAbandonStep DEF Daily!Step
<1>2. CASE UNCHANGED Daily!vars
  BY <1>2 DEF Daily!vars, DailyInv, Daily!TypeOK, Receipted, OneReader, Kept, ExactRead,
     Daily!CountedExactlyOnce, Reads, Daily!Counts
<1> QED  BY <1>1, <1>2

LEMMA DailyInvSuffices == DailyInv => Daily!CountedExactlyOnce
  BY DEF DailyInv

(* The published figures contain every contribution applied in time exactly once *)
(* and none twice, whatever is repeated, retried or dies (commitAggregates,       *)
(* applyDailyContribution and purgeDailyBuffer), unless a commit went unheard.    *)
THEOREM FiguresAreExact == Daily!Spec => []Daily!CountedExactlyOnce
<1>1. DailyInv => Daily!CountedExactlyOnce
  BY DailyInvSuffices
<1> QED  BY DailyInitHolds, DailyNextHolds, <1>1, PTL DEF Daily!Spec
===============================================================================
