----------------------------- MODULE RequestGate -----------------------------
(****************************************************************************)
(* The way of a request through a handler: one caller, whose authority may  *)
(* change between any two steps (the session ends, the account is deleted,  *)
(* the device changes mode, a role is taken, a grant expires, a key is       *)
(* rotated), and the requests it has under way.  For each of them the module *)
(* keeps what it still owes: the facts its declared action and its handler   *)
(* ask for that have not been true since it came.                            *)
(****************************************************************************)
EXTENDS Permissions, Naturals, Sequences

CONSTANTS
  Requests,   \* requests of the caller served at once
  Routes      \* the register of routes: <<declared action, handler>> by name

VARIABLES
  kind,       \* who calls
  facts,      \* what is true of the caller now
  request,    \* how far each request is
  spent       \* the requests that have spent the caller's assertion

vars == <<kind, facts, request, spent>>

Kinds == {"visitor", "parent", "staff", "service", "app"}
Modes == {"parent_management", "learner_mode"}
Grants == {"provisional grant", "active grant"}

(* What can be true of a caller of each kind. *)
MayHold == [k \in Kinds |->
  CASE k = "visitor" -> {"password", "proof"}
    [] k = "parent"  -> {"signed in", "account", "password"} \cup Modes
    [] k = "staff"   -> {"staff session", "receipt", "password"} \cup Roles
    [] k = "service" -> ServiceKeys
    [] k = "app"     -> {"app principal"} \cup Grants]

(* A device is in one mode, a grant in one state, an assertion made with one key. *)
Single(f) ==
  \A g \in {Modes, Grants, ServiceKeys} : \A x, y \in f \cap g : x = y

(* What a cookie, a key or an assertion shows once is not shown again after it
   is gone; the account's deletion ends its sessions, and so does a change of a
   staff member's roles (the generation the session carries is then an old one). *)
Ended(x) ==
  IF x = "account" THEN {"signed in"} ELSE IF x \in Roles THEN {"staff session"} ELSE {}
Final == {"signed in", "staff session", "app principal"} \cup ServiceKeys
Rivals(x) == (IF x \in Modes THEN Modes ELSE IF x \in Grants THEN Grants ELSE {}) \ {x}

Change(x) ==
  IF x \in facts THEN facts \ ({x} \cup Ended(x))
  ELSE (facts \cup {x}) \ (Rivals(x) \cup Ended(x))

-----------------------------------------------------------------------------
(* What the register of actions asks of the caller of an action: sets of facts
   one of which must be true. *)
DecidedOn(action) == {{"account"}, {ModeOf(action)}}
Authority(action) ==
  CASE action = "public" -> {}
    [] action \in ParentActions \cup LearnerActions -> {{"signed in"}} \cup DecidedOn(action)
    [] action = "admin.staff.session_context.read" -> {{"staff session"}}
    [] action \in SelfServiceActions \ {"admin.staff.session_context.read"} ->
         {{"staff session", "password", "proof"}}
    [] action \in AdministratorActions -> {{"staff session"}, RolesWith(action)}
    [] action = "app.progress.integrity.validate" ->
         {{"app principal", ServiceKey["progress-integrity"]}}
    [] action \in AppActions \ {"app.progress.integrity.validate"} -> {{"app principal"}}
    [] action \in ServiceActions -> {ServiceKeys \cup {"proof"}}

NeedsOf(program) == {program[i].needs : i \in DOMAIN program}
Spending(program) == \E i \in DOMAIN program : program[i].spends

Met(n, f) == n \cap (f \cup {"anyone"}) # {}
Unmet(ns, f) == {n \in ns : ~Met(n, f)}

Names == DOMAIN Routes
Waiting == [stage |-> "waiting", route |-> "none", at |-> 1, owed |-> {}, acted |-> FALSE]
Action(q)  == Routes[request[q].route][1]
Program(q) == Routes[request[q].route][2]
Step(q)    == Program(q)[request[q].at]
Running(q) == request[q].stage = "running"

Init ==
  /\ kind \in Kinds
  /\ facts \in IF kind = "service" THEN {{key} : key \in ServiceKeys}
                ELSE {f \in SUBSET MayHold[kind] : Single(f)}
  /\ request = [q \in Requests |-> Waiting]
  /\ spent = {}

(* middleware: the declared action is looked up, and the handler begins. *)
Arrive(q, name) ==
  /\ request[q].stage = "waiting"
  /\ LET asked == Authority(Routes[name][1]) \cup NeedsOf(Routes[name][2]) IN
     request' = [request EXCEPT ![q] =
       [stage |-> "running", route |-> name, at |-> 1, owed |-> Unmet(asked, facts), acted |-> FALSE]]
  /\ UNCHANGED <<kind, facts, spent>>

(* mutant: a step goes on whatever it needs. *)
GoesOnAnyway(q) == Step(q).spends => spent = {}
(* mutant: the assertion's identifier is not looked up. *)
GoesOnReplayed(q) == Met(Step(q).needs, facts)
GoesOn(q) == Met(Step(q).needs, facts) /\ (Step(q).spends => spent = {})

(* Passing the lock, the decision is owed again. *)
Relocked(q) == IF Step(q).name = "lock" THEN Unmet(DecidedOn(Action(q)), facts) ELSE {}

(* The handler takes its next step. *)
Pass(q) ==
  /\ Running(q) /\ request[q].at \in DOMAIN Program(q)
  /\ GoesOn(q)
  /\ spent' = IF Step(q).spends THEN {q} ELSE spent
  /\ request' = [request EXCEPT ![q] =
       [stage |-> "running", route |-> @.route, at |-> @.at + 1,
        owed |-> @.owed \cup Relocked(q), acted |-> @.acted \/ Step(q).acts]]
  /\ UNCHANGED <<kind, facts>>

(* It answers, refuses or dies. *)
End(q) ==
  /\ Running(q)
  /\ request' = [request EXCEPT ![q].stage = "over"]
  /\ UNCHANGED <<kind, facts, spent>>

(* Something changes about the caller. *)
CallerChanges(x) ==
  /\ x \in MayHold[kind]
  /\ x \in Final => x \in facts
  /\ facts' = Change(x)
  /\ request' = [q \in Requests |-> [request[q] EXCEPT !.owed = Unmet(@, facts')]]
  /\ UNCHANGED <<kind, spent>>

Next ==
  \/ \E q \in Requests : (\E name \in Names : Arrive(q, name)) \/ Pass(q) \/ End(q)
  \/ \E x \in MayHold[kind] : CallerChanges(x)

Spec == Init /\ [][Next]_vars

-----------------------------------------------------------------------------
(* What the programs of the register must be for the gate to hold: nothing is
   asked after the first effect, the action's authority is asked somewhere, once
   more after a lock, and an assertion is spent before the first effect. *)
Covers(program, from, ns) ==
  \A n \in ns : \E i \in DOMAIN program : i > from /\ program[i].needs \subseteq n
InOrder(action, program) ==
  /\ DOMAIN program \subseteq Nat \ {0}
  /\ \A i, j \in DOMAIN program : program[i].acts /\ j > i =>
       program[j].needs = {"anyone"} /\ program[j].name # "lock" /\ ~program[j].spends
  /\ Covers(program, 0, Authority(action))
  /\ \A i \in DOMAIN program : program[i].name = "lock" => Covers(program, i, DecidedOn(action))
  /\ \A i, j \in DOMAIN program : program[i].spends /\ program[j].spends => i = j
RoutesInOrder == \A name \in Names : InOrder(Routes[name][1], Routes[name][2])

TypeOK ==
  /\ kind \in Kinds
  /\ facts \subseteq MayHold[kind] /\ Single(facts)
  /\ spent \subseteq Requests
  /\ \A q \in Requests :
       /\ request[q].stage \in {"waiting", "running", "over"}
       /\ request[q].stage # "waiting" => request[q].route \in Names
       /\ request[q].at \in Nat \ {0}
       /\ request[q].acted \in BOOLEAN

(* Every fact that the declared action and the handler ask for has been true
   since the request came (since its lock, for those decided once more) when it
   has an effect, and one assertion lets one request have effects. *)
EffectsAreAuthorized ==
  /\ \A q \in Requests : request[q].acted => request[q].owed = {}
  /\ \A q, r \in Requests :
       request[q].acted /\ request[r].acted /\ Spending(Program(q)) /\ Spending(Program(r)) => q = r
=============================================================================
