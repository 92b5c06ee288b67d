---------------------------- MODULE AppAvailability ----------------------------
(****************************************************************************)
(* The operational availability of one app in one environment: planned       *)
(* maintenance, the administrators' transitions, the security block, and the *)
(* starts of sessions that they hold back.                                  *)
(*                                                                          *)
(* A change reads the row and checks, then writes.  Some of its UPDATEs name *)
(* the version it read and some do not; none looks whether a row was found.  *)
(* What serialises them is the unique version of app_availability_events:    *)
(* the second of two overlapping changes fails there and is rolled back.     *)
(****************************************************************************)
EXTENDS Naturals

CONSTANTS
  Outages,      \* ids of app_maintenance_windows
  Procs,
  Reservation,  \* how long a start stays reserved                (300 s in the code)
  HardExpiry,   \* how long a launched session may last          (3600 s in the code)
  MaxTime,      \* bound: the clock stops here
  MaxVersion    \* bound: changes of the row

VARIABLES
  now,
  state,     \* operational_state of app_launch_availability
  version,   \* availability_version
  outage,    \* app_maintenance_windows: status, starts_at and ends_at
  events,    \* the versions in app_availability_events
  blocked,   \* what security decided last (history)
  session,   \* a session: when it started, when it launched, the outages it had to respect
  work       \* the change each process has checked

vars == <<now, state, version, outage, events, blocked, session, work>>

Times    == 0 .. MaxTime
Stops    == 1 .. MaxTime + 1
\* "restoring" holds back starts as "temporarily_unavailable" does, and is not told apart.
States   == {"available", "temporarily_unavailable", "security_blocked"}
Outage   == [status : {"none", "scheduled", "cancelled"}, from : Times, to : Stops]
NoOutage == [status |-> "none", from |-> 0, to |-> 1]
Session  == [status : {"none", "starting", "active"}, at : Times, launched : Times,
             knew : SUBSET Outages]
NoSession == [status |-> "none", at |-> 0, launched |-> 0, knew |-> {}]

\* A change: the version it read, and what it is to write.
Work == [kind : {"idle", "outage", "transition", "security"}, saw : 0 .. MaxVersion,
         id : SUBSET Outages, row : Outage, state : States]
Idle == [kind |-> "idle", saw |-> 0, id |-> {}, row |-> NoOutage, state |-> "available"]

Checked(p, w) ==
  /\ work[p] = Idle /\ version < MaxVersion
  /\ work' = [work EXCEPT ![p] = [w EXCEPT !.saw = version]]
  /\ UNCHANGED <<now, state, version, outage, events, blocked, session>>

-----------------------------------------------------------------------------
(* The changes, up to their checks. *)

Overlaps(a, b) == a.from < b.to /\ a.to > b.from

\* No other scheduled window overlaps this one.
Free(o, row) ==
  \A q \in Outages \ {o} : outage[q].status = "scheduled" => ~Overlaps(outage[q], row)

\* scheduleMaintenanceWindow, and updateMaintenanceWindow with new times.
PlanRead(p) ==
  \E o \in Outages, from \in Times, to \in Stops :
    LET row == [status |-> "scheduled", from |-> from, to |-> to] IN
    /\ outage[o].status \in {"none", "scheduled"}
    /\ from < to
    /\ Free(o, row)
    /\ Checked(p, [Idle EXCEPT !.kind = "outage", !.id = {o}, !.row = row])

\* updateMaintenanceWindow with action "cancel".
CancelRead(p) ==
  \E o \in Outages :
    /\ outage[o].status = "scheduled"
    /\ Checked(p, [Idle EXCEPT !.kind = "outage", !.id = {o},
                               !.row = [outage[o] EXCEPT !.status = "cancelled"]])

\* transitionAvailability: an administrator does not lift a security block.
TransitionRead(p) ==
  /\ state # "security_blocked"
  /\ \E s \in States \ {"security_blocked"} :
       Checked(p, [Idle EXCEPT !.kind = "transition", !.state = s])

SecurityRead(p) ==
  \E s \in {"security_blocked", "available"} :
    Checked(p, [Idle EXCEPT !.kind = "security", !.state = s])

-----------------------------------------------------------------------------
(* ... and their writes. *)

AnyEvent(v)   == TRUE          \* mutant: the index on the event's version is missing
EventIsNew(v) == v \notin events

\* The UPDATE of app_launch_availability: of the row as it was read for a change of state,
\* of any row for a change of windows.
Found(w) == w.kind = "outage" \/ w.saw = version

Commit(p) ==
  LET w == work[p] IN
  /\ w # Idle
  /\ EventIsNew(w.saw + 1)
  /\ events' = events \cup {w.saw + 1}
  /\ version' = IF Found(w) THEN version + 1 ELSE version
  /\ state' = IF w.kind # "outage" /\ Found(w) THEN w.state ELSE state
  /\ outage' = [o \in Outages |-> IF o \in w.id THEN w.row ELSE outage[o]]
  /\ session' = [session EXCEPT !.knew = @ \ w.id]
  /\ blocked' = IF w.kind = "security" THEN w.state = "security_blocked" ELSE blocked
  /\ work' = [work EXCEPT ![p] = Idle]
  /\ UNCHANGED now

\* The event's version is taken and the transaction rolls back, or the process dies.
RollBack(p) ==
  /\ work[p] # Idle
  /\ work' = [work EXCEPT ![p] = Idle]
  /\ UNCHANGED <<now, state, version, outage, events, blocked, session>>

-----------------------------------------------------------------------------
(* The starts of sessions. *)

\* The planned outages that are not over yet, and of those the ones that start first.
Relevant == {o \in Outages : outage[o].status = "scheduled" /\ outage[o].to > now}
Next1    == {o \in Relevant : \A q \in Relevant : outage[o].from <= outage[q].from}

\* SAFE_START_SECONDS: 3900 in the code.
HardExpiryOnly == HardExpiry     \* mutant: the reservation is forgotten
SafeStart      == Reservation + HardExpiry

StartBlocked ==
  \/ state # "available"
  \/ \E o \in Next1 : now + SafeStart > outage[o].from

\* assertStartAvailability, in startLearnerSession.
StartSession ==
  /\ session.status = "none"
  /\ ~StartBlocked
  /\ session' = [status |-> "starting", at |-> now, launched |-> 0, knew |-> Relevant]
  /\ UNCHANGED <<now, state, version, outage, events, blocked, work>>

\* confirmUsableLaunch does not ask for the availability again.
LaunchSession ==
  /\ session.status = "starting" /\ now <= session.at + Reservation
  /\ session' = [session EXCEPT !.status = "active", !.launched = now]
  /\ UNCHANGED <<now, state, version, outage, events, blocked, work>>

EndSession ==
  /\ session.status # "none" /\ session' = NoSession
  /\ UNCHANGED <<now, state, version, outage, events, blocked, work>>

Tick ==
  /\ now < MaxTime /\ now' = now + 1
  /\ UNCHANGED <<state, version, outage, events, blocked, session, work>>

Init ==
  /\ now = 0 /\ state = "available" /\ version = 1
  /\ outage = [o \in Outages |-> NoOutage]
  /\ events = {} /\ blocked = FALSE /\ session = NoSession
  /\ work = [p \in Procs |-> Idle]

Next ==
  \/ \E p \in Procs :
       PlanRead(p) \/ CancelRead(p) \/ TransitionRead(p) \/ SecurityRead(p)
         \/ Commit(p) \/ RollBack(p)
  \/ StartSession \/ LaunchSession \/ EndSession \/ Tick

Spec == Init /\ [][Next]_vars

-----------------------------------------------------------------------------
(* Properties *)

TypeOK ==
  /\ now \in Times /\ state \in States /\ version \in 1 .. MaxVersion
  /\ outage \in [Outages -> Outage]
  /\ events \subseteq 2 .. MaxVersion /\ blocked \in BOOLEAN
  /\ session \in Session
  /\ work \in [Procs -> Work]

\* Changes that overlap take effect one after the other: planned maintenance never overlaps,
\* and the app is blocked exactly when security's last word was a block, whatever
\* administrators do at the same time.
AvailabilityIsSerial ==
  /\ \A o \in Outages : outage[o].status = "scheduled" => Free(o, outage[o])
  /\ blocked <=> state = "security_blocked"

\* A session that was allowed to start is over, at its hard expiry, before any maintenance
\* begins that was planned when it started: it may launch as late as its reservation lasts.
SafeStartsEndInTime ==
  \A o \in session.knew :
    session.status = "active" => session.launched + HardExpiry <= outage[o].from

\* Both, as an app's maintenance and the sessions that start around it have to respect each other.
MaintenanceIsRespected == AvailabilityIsSerial /\ SafeStartsEndInTime
===============================================================================
