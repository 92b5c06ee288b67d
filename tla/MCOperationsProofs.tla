-------------------------- MODULE MCOperationsProofs --------------------------
(* What the parts of MCOperations promise, for every value of its constants: *)
(* each part keeps its invariant in its own steps, and no step leaves a part. *)
EXTENDS MCOperations, TLAPS

state == <<part, v1, v2, none9>>
Stays == part' = part

\* A step belongs to the part the behaviour is of.
LEMMA PartStays == [MCNext]_state => Stays
  BY DEF MCNext, state, Stays

LEMMA DailyStep == part = "daily" /\ [MCNext]_state => [Apps!Daily!Next]_(Apps!Daily!vars)
<1> SUFFICES ASSUME part = "daily", [MCNext]_state PROVE [Apps!Daily!Next]_(Apps!Daily!vars)
  OBVIOUS
<1>1. CASE MCNext
  BY <1>1 DEF MCNext
<1>2. CASE UNCHANGED state
  BY <1>2 DEF state, none9, none6, none3, Apps!Daily!vars
<1> QED  BY <1>1, <1>2

LEMMA StaffStep == part = "staff" /\ [MCNext]_state => [Accounts!Guard!Next]_(Accounts!Guard!vars)
<1> SUFFICES ASSUME part = "staff", [MCNext]_state PROVE [Accounts!Guard!Next]_(Accounts!Guard!vars)
  OBVIOUS
<1>1. CASE MCNext
  BY <1>1 DEF MCNext, Accounts!Guard!Next
<1>2. CASE UNCHANGED state
  BY <1>2 DEF state, none9, none6, none3, Accounts!Guard!vars
<1> QED  BY <1>1, <1>2

LEMMA LauncherStep == part = "launcher" /\ [MCNext]_state => [Apps!Tab!Next]_(Apps!Tab!vars)
<1> SUFFICES ASSUME part = "launcher", [MCNext]_state PROVE [Apps!Tab!Next]_(Apps!Tab!vars)
  OBVIOUS
<1>1. CASE MCNext
  BY <1>1 DEF MCNext
<1>2. CASE UNCHANGED state
  BY <1>2 DEF state, none9, none6, none3, Apps!Tab!vars
<1> QED  BY <1>1, <1>2

LEMMA AvailabilityStep == part = "availability" /\ [MCNext]_state => [Apps!Next]_(Apps!vars)
<1> SUFFICES ASSUME part = "availability", [MCNext]_state PROVE [Apps!Next]_(Apps!vars)
  OBVIOUS
<1>1. CASE MCNext
  BY <1>1 DEF MCNext
<1>2. CASE UNCHANGED state
  BY <1>2 DEF state, none9, none6, none3, Apps!vars
<1> QED  BY <1>1, <1>2

LEMMA RegistryStep == part = "registry" /\ [MCNext]_state => [Apps!Registry!Next]_(Apps!Registry!vars)
<1> SUFFICES ASSUME part = "registry", [MCNext]_state PROVE [Apps!Registry!Next]_(Apps!Registry!vars)
  OBVIOUS
<1>1. CASE MCNext
  BY <1>1 DEF MCNext
<1>2. CASE UNCHANGED state
  BY <1>2 DEF state, none9, none6, none3, Apps!Registry!vars
<1> QED  BY <1>1, <1>2

LEMMA PipelineStep == part = "pipeline" /\ [MCNext]_state => [Apps!Pipeline!Next]_(Apps!Pipeline!vars)
<1> SUFFICES ASSUME part = "pipeline", [MCNext]_state PROVE [Apps!Pipeline!Next]_(Apps!Pipeline!vars)
  OBVIOUS
<1>1. CASE MCNext
  BY <1>1 DEF MCNext
<1>2. CASE UNCHANGED state
  BY <1>2 DEF state, none9, none6, none3, Apps!Pipeline!vars
<1> QED  BY <1>1, <1>2

LEMMA MailsStep == part = "mails" /\ [MCNext]_state => [Apps!Mails!Next]_(Apps!Mails!vars)
<1> SUFFICES ASSUME part = "mails", [MCNext]_state PROVE [Apps!Mails!Next]_(Apps!Mails!vars)
  OBVIOUS
<1>1. CASE MCNext
  BY <1>1 DEF MCNext
<1>2. CASE UNCHANGED state
  BY <1>2 DEF state, none9, none6, none3, Apps!Mails!vars
<1> QED  BY <1>1, <1>2

LEMMA RemindersStep == part = "reminders" /\ [MCNext]_state => [Apps!Reminders!Next]_(Apps!Reminders!vars)
<1> SUFFICES ASSUME part = "reminders", [MCNext]_state PROVE [Apps!Reminders!Next]_(Apps!Reminders!vars)
  OBVIOUS
<1>1. CASE MCNext
  BY <1>1 DEF MCNext
<1>2. CASE UNCHANGED state
  BY <1>2 DEF state, none9, none6, none3, Apps!Reminders!vars
<1> QED  BY <1>1, <1>2

LEMMA SupportStep == part = "support" /\ [MCNext]_state => [Accounts!Support!Next]_(Accounts!Support!vars)
<1> SUFFICES ASSUME part = "support", [MCNext]_state PROVE [Accounts!Support!Next]_(Accounts!Support!vars)
  OBVIOUS
<1>1. CASE MCNext
  BY <1>1 DEF MCNext, Accounts!Support!Next
<1>2. CASE UNCHANGED state
  BY <1>2 DEF state, none9, none6, none3, Accounts!Support!vars
<1> QED  BY <1>1, <1>2

LEMMA AccessStep == part = "access" /\ [MCNext]_state => [Accounts!Next]_(Accounts!vars)
<1> SUFFICES ASSUME part = "access", [MCNext]_state PROVE [Accounts!Next]_(Accounts!vars)
  OBVIOUS
<1>1. CASE MCNext
  BY <1>1 DEF MCNext, Accounts!Next
<1>2. CASE UNCHANGED state
  BY <1>2 DEF state, none9, none6, none3, Accounts!vars
<1> QED  BY <1>1, <1>2

LEMMA EmailStep == part = "e-mail" /\ [MCNext]_state => [Accounts!Email!Next]_(Accounts!Email!vars)
<1> SUFFICES ASSUME part = "e-mail", [MCNext]_state PROVE [Accounts!Email!Next]_(Accounts!Email!vars)
  OBVIOUS
<1>1. CASE MCNext
  BY <1>1 DEF MCNext, Accounts!Email!Next
<1>2. CASE UNCHANGED state
  BY <1>2 DEF state, none9, none6, none3, Accounts!Email!vars
<1> QED  BY <1>1, <1>2

LEMMA ChildrenStep == part = "profiles" /\ [MCNext]_state => [Accounts!Children!Next]_(Accounts!Children!vars)
<1> SUFFICES ASSUME part = "profiles", [MCNext]_state PROVE [Accounts!Children!Next]_(Accounts!Children!vars)
  OBVIOUS
<1>1. CASE MCNext
  BY <1>1 DEF MCNext, Accounts!Children!Next
<1>2. CASE UNCHANGED state
  BY <1>2 DEF state, none9, none6, none3, Accounts!Children!vars
<1> QED  BY <1>1, <1>2

LEMMA ModesStep == part = "learner mode" /\ [MCNext]_state => [Accounts!Modes!Next]_(Accounts!Modes!vars)
<1> SUFFICES ASSUME part = "learner mode", [MCNext]_state PROVE [Accounts!Modes!Next]_(Accounts!Modes!vars)
  OBVIOUS
<1>1. CASE MCNext
  BY <1>1 DEF MCNext, Accounts!Modes!Next
<1>2. CASE UNCHANGED state
  BY <1>2 DEF state, none9, none6, none3, Accounts!Modes!vars
<1> QED  BY <1>1, <1>2

-----------------------------------------------------------------------------
(* The request gate: v1 is the kind of the caller, v2 what is true of it, v3 how  *)
(* far each request is, and v4 who has spent the assertion.                       *)

LEMMA GateStep == part = "requests" /\ [MCNext]_state => [Gate!Next]_(Gate!vars)
<1> SUFFICES ASSUME part = "requests", [MCNext]_state PROVE [Gate!Next]_(Gate!vars)
  OBVIOUS
<1>1. CASE MCNext
  <2>1. CASE \E x \in Ids : (\E name \in Callable(x) : Gate!Arrive(x, name)) \/ Gate!Pass(x) \/ Gate!End(x)
    BY <2>1 DEF Gate!Next, Callable
  <2> QED  BY <1>1, <2>1 DEF MCNext, Gate!Next
<1>2. CASE UNCHANGED state
  BY <1>2 DEF state, none9, none6, none3, Gate!vars
<1> QED  BY <1>1, <1>2

Asked(name) ==
  Gate!Authority(RouteTable[name][1]) \cup Gate!NeedsOf(RouteTable[name][2])
    \cup Gate!DecidedOn(RouteTable[name][1])
Needs == UNION {Asked(name) : name \in Gate!Names}
Came(q) == v3[q].stage # "waiting"
Before(q) == {i \in DOMAIN Gate!Program(q) : i < v3[q].at}

Gated ==
  v3 \in [Ids -> [stage : {"waiting", "running", "over"}, route : Gate!Names \cup {"none"},
                  at : Nat \ {0}, owed : SUBSET Needs, acted : BOOLEAN]]
\* A request that waits for its turn has done nothing, and one that came has a route.
Routed == \A q \in Ids :
  IF Came(q) THEN v3[q].route \in Gate!Names ELSE v3[q].owed = {} /\ ~v3[q].acted
\* Whatever is owed has not been true, and is still to be asked for.
StillAsked == \A q \in Ids : Gate!Running(q) => \A n \in v3[q].owed :
  /\ ~Gate!Met(n, v2)
  /\ \E j \in DOMAIN Gate!Program(q) \ Before(q) : Gate!Program(q)[j].needs \subseteq n
\* Effects come from steps passed, of requests that owe nothing.
ActsPaid == \A q \in Ids : v3[q].acted =>
  v3[q].owed = {} /\ \E i \in Before(q) : Gate!Program(q)[i].acts
\* Who passed a step that spends the assertion is the one who spent it.
SpentBy == \A q \in Ids : Came(q) => \A i \in Before(q) : Gate!Program(q)[i].spends => v4 = {q}

GateIInv == Gated /\ Routed /\ StillAsked /\ ActsPaid /\ SpentBy
GateInv == part = "requests" => GateIInv

LEMMA GateInit == Gate!Init => GateIInv
<1> SUFFICES ASSUME Gate!Init PROVE GateIInv
  OBVIOUS
<1>1. \A q \in Ids : v3[q] = Gate!Waiting
  BY DEF Gate!Init
<1>2. Gated
  BY DEF Gate!Init, Gate!Waiting, Gated
<1>3. Routed /\ StillAsked /\ ActsPaid /\ SpentBy
  BY <1>1 DEF Gate!Waiting, Routed, StillAsked, ActsPaid, SpentBy, Came, Gate!Running
<1> QED  BY <1>2, <1>3 DEF GateIInv

LEMMA InOrderOf ==
  ASSUME NEW name \in Gate!Names
  PROVE  Gate!InOrder(RouteTable[name][1], RouteTable[name][2])
  BY RoutesAssumption DEF Gate!RoutesInOrder

LEMMA EndKeeps ==
  ASSUME GateIInv, NEW q \in Ids, Gate!End(q)
  PROVE  GateIInv'
<1>1. Gated'
  BY DEF GateIInv, Gated, Gate!End
<1>2. /\ v3[q].stage = "running" /\ v2' = v2 /\ v4' = v4
      /\ v3'[q].stage = "over" /\ v3'[q].route = v3[q].route /\ v3'[q].at = v3[q].at
      /\ v3'[q].owed = v3[q].owed /\ v3'[q].acted = v3[q].acted
      /\ \A r \in Ids \ {q} : v3'[r] = v3[r]
  BY DEF GateIInv, Gated, Gate!End, Gate!Running
<1>3. \A r \in Ids : /\ Came(r)' = Came(r) /\ Before(r)' = Before(r) /\ Gate!Program(r)' = Gate!Program(r)
                     /\ Gate!Running(r)' => Gate!Running(r) /\ v3'[r] = v3[r]
                     /\ v3'[r].owed = v3[r].owed /\ v3'[r].acted = v3[r].acted /\ v3'[r].route = v3[r].route
  BY <1>2 DEF Came, Before, Gate!Program, Gate!Running
<1> USE DEF GateIInv
<1>4. Routed'
  BY <1>3 DEF Routed
<1>5. StillAsked'
  BY <1>2, <1>3 DEF StillAsked
<1>6. ActsPaid'
  BY <1>3 DEF ActsPaid
<1>7. SpentBy'
  BY <1>2, <1>3 DEF SpentBy
<1> QED  BY <1>1, <1>4, <1>5, <1>6, <1>7

LEMMA CallerKeeps ==
  ASSUME GateIInv, NEW x, Gate!CallerChanges(x)
  PROVE  GateIInv'
<1>1. \A q \in Ids : v3'[q] = [v3[q] EXCEPT !.owed = Gate!Unmet(@, v2')]
  BY DEF Gate!CallerChanges
<1>2. \A ns, f : Gate!Unmet(ns, f) \subseteq ns /\ \A n \in Gate!Unmet(ns, f) : ~Gate!Met(n, f)
  BY DEF Gate!Unmet
<1>3. ASSUME NEW q \in Ids
      PROVE  /\ v3'[q].stage = v3[q].stage /\ v3'[q].route = v3[q].route
             /\ v3'[q].at = v3[q].at /\ v3'[q].acted = v3[q].acted
             /\ v3'[q].owed = Gate!Unmet(v3[q].owed, v2')
  <2>1. v3[q] \in [stage : {"waiting", "running", "over"}, route : Gate!Names \cup {"none"},
                  at : Nat \ {0}, owed : SUBSET Needs, acted : BOOLEAN]
    BY DEF GateIInv, Gated
  <2> QED  BY <1>1, <2>1
<1>4. Gated'
  BY <1>1, <1>2 DEF GateIInv, Gated, Gate!CallerChanges
<1>5. \A q \in Ids : Came(q)' = Came(q) /\ Before(q)' = Before(q) /\ Gate!Program(q)' = Gate!Program(q)
  BY <1>3 DEF Came, Before, Gate!Program
<1>6. Routed' /\ ActsPaid' /\ SpentBy'
  BY <1>2, <1>3, <1>5 DEF GateIInv, Routed, ActsPaid, SpentBy, Gate!CallerChanges
<1>7. StillAsked'
  BY <1>2, <1>3, <1>5 DEF GateIInv, StillAsked, Gate!Running
<1> QED  BY <1>4, <1>6, <1>7 DEF GateIInv

\* A request that arrives owes what it asks for and is not so, all of it before its first step.
LEMMA ArriveKeeps ==
  ASSUME GateIInv, NEW q \in Ids, NEW name \in Gate!Names, Gate!Arrive(q, name)
  PROVE  GateIInv'
<1> DEFINE action == RouteTable[name][1]
           program == RouteTable[name][2]
           asked == Gate!Authority(action) \cup Gate!NeedsOf(program)
<1>1. /\ v3' = [v3 EXCEPT ![q] = [stage |-> "running", route |-> name, at |-> 1,
                                 owed |-> Gate!Unmet(asked, v2), acted |-> FALSE]]
      /\ UNCHANGED <<v1, v2, v4>>
  BY DEF Gate!Arrive
<1>2. Gate!Unmet(asked, v2) \subseteq asked /\ \A n \in Gate!Unmet(asked, v2) : ~Gate!Met(n, v2)
  BY DEF Gate!Unmet
<1>3. asked \subseteq Needs
  BY DEF Needs, Asked
<1>4. DOMAIN program \subseteq Nat \ {0} /\ \A n \in asked : \E i \in DOMAIN program : program[i].needs \subseteq n
  BY InOrderOf DEF Gate!InOrder, Gate!Covers, Gate!NeedsOf
<1> HIDE DEF asked
<1>5. Gated'
  BY <1>1, <1>2, <1>3 DEF GateIInv, Gated
<1>6. \A r \in Ids \ {q} : v3'[r] = v3[r]
  BY <1>1
<1>7. /\ v3'[q].stage = "running" /\ v3'[q].route = name /\ v3'[q].at = 1
      /\ v3'[q].owed = Gate!Unmet(asked, v2) /\ ~v3'[q].acted
  BY <1>1 DEF GateIInv, Gated
<1>8. /\ \A r \in Ids \ {q} : Came(r)' = Came(r) /\ Before(r)' = Before(r) /\ Gate!Program(r)' = Gate!Program(r)
      /\ Gate!Program(q)' = program
      /\ Before(q)' = {}
  BY <1>4, <1>6, <1>7 DEF Came, Before, Gate!Program
<1>9. Routed' /\ ActsPaid' /\ SpentBy'
  BY <1>1, <1>6, <1>7, <1>8 DEF GateIInv, Routed, ActsPaid, SpentBy, Came
<1>10. StillAsked'
  BY <1>1, <1>2, <1>4, <1>6, <1>7, <1>8 DEF GateIInv, StillAsked, Gate!Running
<1> QED  BY <1>5, <1>9, <1>10 DEF GateIInv

\* A step that goes on settles what it asks for; after an effect there is nothing left to ask.
LEMMA PassKeeps ==
  ASSUME GateIInv, NEW q \in Ids, Gate!Pass(q)
  PROVE  GateIInv'
<1> DEFINE program == Gate!Program(q)
           at == v3[q].at
           again == Gate!Relocked(q)
<1>1. /\ Gate!Running(q) /\ at \in DOMAIN program /\ Gate!GoesOn(q)
      /\ v4' = IF program[at].spends THEN {q} ELSE v4
      /\ v3' = [v3 EXCEPT ![q] = [stage |-> "running", route |-> @.route, at |-> @.at + 1,
                                 owed |-> @.owed \cup again, acted |-> @.acted \/ program[at].acts]]
      /\ UNCHANGED <<v1, v2>>
  BY DEF Gate!Pass, Gate!Step
<1>2. v3[q].route \in Gate!Names /\ Came(q)
  BY <1>1 DEF Gate!Running, GateIInv, Routed, Came
<1>3. program = RouteTable[v3[q].route][2] /\ Gate!Action(q) = RouteTable[v3[q].route][1]
  BY DEF Gate!Program, Gate!Action
<1>4. Gate!InOrder(RouteTable[v3[q].route][1], program)
  BY <1>2, <1>3, InOrderOf
<1>5. /\ at \in Nat \ {0} /\ DOMAIN program \subseteq Nat \ {0}
      /\ Before(q) = {i \in DOMAIN program : i < at}
  BY <1>4 DEF GateIInv, Gated, Gate!InOrder, Before
<1>6. again \subseteq Needs /\ \A n \in again : ~Gate!Met(n, v2)
  BY <1>2, <1>3 DEF Gate!Relocked, Gate!Unmet, Needs, Asked
<1>7. \A n \in again : \E j \in DOMAIN program : j > at /\ program[j].needs \subseteq n
  BY <1>1, <1>3, <1>4 DEF Gate!Relocked, Gate!Step, Gate!Unmet, Gate!InOrder, Gate!Covers
<1>8. ASSUME NEW n \in v3[q].owed PROVE \E j \in DOMAIN program : j > at /\ program[j].needs \subseteq n
  <2>1. ~Gate!Met(n, v2)
    BY <1>1 DEF GateIInv, StillAsked
  <2>2. PICK j \in DOMAIN program \ Before(q) : program[j].needs \subseteq n
    BY <1>1 DEF GateIInv, StillAsked
  <2>3. Gate!Met(program[at].needs, v2)
    BY <1>1 DEF Gate!GoesOn, Gate!Step
  <2>4. j # at
    BY <2>1, <2>2, <2>3 DEF Gate!Met
  <2> QED  BY <1>5, <2>2, <2>4
<1> HIDE DEF again, program
<1>9. Gated'
  BY <1>1, <1>2, <1>6 DEF GateIInv, Gated
<1>10. \A r \in Ids \ {q} : v3'[r] = v3[r]
  BY <1>1
<1>11. /\ v3'[q].stage = "running" /\ v3'[q].route = v3[q].route /\ v3'[q].at = at + 1
       /\ v3'[q].owed = v3[q].owed \cup again
       /\ v3'[q].acted <=> v3[q].acted \/ program[at].acts
  BY <1>1 DEF GateIInv, Gated
<1>12. /\ \A r \in Ids \ {q} : Came(r)' = Came(r) /\ Before(r)' = Before(r) /\ Gate!Program(r)' = Gate!Program(r)
       /\ Gate!Program(q)' = program
       /\ Before(q)' = {i \in DOMAIN program : i < at + 1}
       /\ Before(q)' = Before(q) \cup {at}
  <2>1. ASSUME NEW r \in Ids \ {q}
        PROVE  Came(r)' = Came(r) /\ Before(r)' = Before(r) /\ Gate!Program(r)' = Gate!Program(r)
    BY <1>10 DEF Came, Before, Gate!Program
  <2>2. Gate!Program(q)' = program
    BY <1>11 DEF Gate!Program, program
  <2>3. Before(q)' = {i \in DOMAIN program : i < at + 1}
    BY <1>11, <2>2 DEF Before
  <2>4. Before(q) = {i \in DOMAIN program : i < at}
    BY <1>1 DEF Before, program
  <2>5. {i \in DOMAIN program : i < at + 1} = {i \in DOMAIN program : i < at} \cup {at}
    BY <1>1, <1>5
  <2> QED  BY <2>1, <2>2, <2>3, <2>4, <2>5
<1>13. \A n \in v3'[q].owed :
         ~Gate!Met(n, v2) /\ \E j \in DOMAIN program : j > at /\ program[j].needs \subseteq n
  BY <1>1, <1>6, <1>7, <1>8, <1>11 DEF GateIInv, StillAsked
<1>14. Routed'
  BY <1>2, <1>10, <1>11, <1>12 DEF GateIInv, Routed, Came
<1>15. StillAsked'
  BY <1>1, <1>5, <1>10, <1>11, <1>12, <1>13 DEF GateIInv, StillAsked, Gate!Running
<1>16. ASSUME v3'[q].acted
       PROVE  v3'[q].owed = {} /\ \E i \in Before(q)' : program[i].acts
  <2>1. PICK i \in Before(q)' : program[i].acts
    BY <1>5, <1>11, <1>12, <1>16 DEF GateIInv, ActsPaid, program
  <2>2. ASSUME NEW n \in v3'[q].owed PROVE FALSE
    <3>1. PICK j \in DOMAIN program : j > at /\ program[j].needs \subseteq n
      BY <1>13
    <3>2. program[j].needs = {"anyone"}
      BY <1>4, <1>5, <1>12, <2>1, <3>1 DEF Gate!InOrder
    <3>3. ~Gate!Met(n, v2)
      BY <1>13
    <3> QED  BY <3>1, <3>2, <3>3 DEF Gate!Met
  <2> QED  BY <2>1, <2>2
<1>17. ActsPaid'
  BY <1>10, <1>12, <1>16 DEF GateIInv, ActsPaid
<1>18. SpentBy'
  <2>1. CASE program[at].spends
    <3>1. v4 = {}
      BY <1>1, <2>1 DEF Gate!GoesOn, Gate!Step, program
    <3>2. \A r \in Ids \ {q} : Came(r) => \A i \in Before(r) : ~Gate!Program(r)[i].spends
      BY <3>1 DEF GateIInv, SpentBy
    <3> QED  BY <1>1, <1>10, <1>12, <2>1, <3>2 DEF SpentBy
  <2>2. CASE ~program[at].spends
    BY <1>1, <1>2, <1>10, <1>12, <2>2 DEF GateIInv, SpentBy, program
  <2> QED  BY <2>1, <2>2
<1> QED  BY <1>9, <1>14, <1>15, <1>17, <1>18 DEF GateIInv

LEMMA GateNext == GateIInv /\ [Gate!Next]_(Gate!vars) => GateIInv'
<1> SUFFICES ASSUME GateIInv, [Gate!Next]_(Gate!vars) PROVE GateIInv'
  OBVIOUS
<1>1. CASE Gate!Next
  BY <1>1, ArriveKeeps, PassKeeps, EndKeeps, CallerKeeps DEF Gate!Next
<1>2. CASE UNCHANGED Gate!vars
  BY <1>2 DEF Gate!vars, GateIInv, Gated, Routed, StillAsked, ActsPaid, SpentBy, Came, Before, Gate!Running,
              Gate!Program
<1> QED  BY <1>1, <1>2

LEMMA GateInvStays == MCSpec => []GateInv
<1>1. MCInit => GateInv
  BY OperationsAssumption, GateInit DEF MCInit, GateInv
<1>2. GateInv /\ [MCNext]_<<part, v1, v2, none9>> => GateInv'
  BY OperationsAssumption, PartStays, GateStep, GateNext DEF GateInv, state, Stays
<1> QED  BY <1>1, <1>2, PTL DEF MCSpec

LEMMA GateSuffices == GateIInv => Gate!EffectsAreAuthorized
<1> SUFFICES ASSUME GateIInv, NEW q \in Ids, NEW r \in Ids,
                    v3[q].acted, v3[r].acted, Gate!Spending(Gate!Program(q)), Gate!Spending(Gate!Program(r))
             PROVE  q = r
  BY DEF GateIInv, ActsPaid, Gate!EffectsAreAuthorized
<1>1. ASSUME NEW x \in Ids, v3[x].acted, Gate!Spending(Gate!Program(x))
      PROVE  v4 = {x}
  <2>1. Came(x) /\ v3[x].route \in Gate!Names
    BY <1>1 DEF GateIInv, Routed
  <2>2. Gate!InOrder(RouteTable[v3[x].route][1], Gate!Program(x))
    BY <2>1, InOrderOf DEF Gate!Program
  <2>3. PICK i \in Before(x) : Gate!Program(x)[i].acts
    BY <1>1 DEF GateIInv, ActsPaid
  <2>4. PICK k \in DOMAIN Gate!Program(x) : Gate!Program(x)[k].spends
    BY <1>1 DEF Gate!Spending
  <2>5. ~(k > i)
    BY <2>2, <2>3, <2>4 DEF Gate!InOrder, Before
  <2>6. k \in Before(x)
    BY <2>2, <2>3, <2>4, <2>5 DEF Gate!InOrder, Before, GateIInv, Gated
  <2> QED  BY <2>1, <2>4, <2>6 DEF GateIInv, SpentBy
<1> QED  BY <1>1

-----------------------------------------------------------------------------
DailyInv == part = "daily" => Apps!DailyInv

LEMMA DailyInvStays == MCSpec => []DailyInv
<1>1. MCInit => DailyInv
  BY OperationsAssumption, Apps!DailyInitHolds DEF MCInit, DailyInv
<1>2. DailyInv /\ [MCNext]_<<part, v1, v2, none9>> => DailyInv'
  BY OperationsAssumption, PartStays, DailyStep, Apps!DailyNextHolds DEF DailyInv, state, Stays
<1> QED  BY <1>1, <1>2, PTL DEF MCSpec

(* The published figures of the day contain every contribution applied in time *)
(* exactly once and none twice, whatever is repeated, retried or dies           *)
(* (commitAggregates, applyDailyContribution and purgeDailyBuffer), unless a    *)
(* commit went unheard.                                                         *)
THEOREM FiguresCountOnce == MCSpec => []CountedExactlyOnce
<1>1. DailyInv => CountedExactlyOnce
  BY OperationsAssumption, Apps!DailyInvSuffices DEF DailyInv, CountedExactlyOnce
<1> QED  BY <1>1, DailyInvStays, PTL

-----------------------------------------------------------------------------
StaffInv == part = "staff" => Accounts!StaffInv

LEMMA StaffInvStays == MCSpec => []StaffInv
<1>1. MCInit => StaffInv
  BY OperationsAssumption, Accounts!StaffInitHolds DEF MCInit, StaffInv
<1>2. StaffInv /\ [MCNext]_<<part, v1, v2, none9>> => StaffInv'
  BY OperationsAssumption, PartStays, StaffStep, Accounts!StaffNextHolds DEF StaffInv, state, Stays
<1> QED  BY <1>1, <1>2, PTL DEF MCSpec

(* Until a check of one request is overtaken by the write of another, a live    *)
(* session has its account's roles, a revoked account is not revived, and an    *)
(* administrator remains (status-service.ts, roles-service.ts, session.ts).     *)
THEOREM StaffAccessRemains == MCSpec => []StaffAccessHolds
<1>1. StaffInv => StaffAccessHolds
  BY OperationsAssumption, Accounts!StaffInvSuffices DEF StaffInv, StaffAccessHolds
<1> QED  BY <1>1, StaffInvStays, PTL

-----------------------------------------------------------------------------
LauncherInv == part = "launcher" => Apps!LauncherInv

LEMMA LauncherInvStays == MCSpec => []LauncherInv
<1>1. MCInit => LauncherInv
  BY OperationsAssumption, Apps!LauncherInitHolds DEF MCInit, LauncherInv
<1>2. LauncherInv /\ [MCNext]_<<part, v1, v2, none9>> => LauncherInv'
  BY OperationsAssumption, PartStays, LauncherStep, Apps!LauncherNextHolds DEF LauncherInv, state, Stays
<1> QED  BY <1>1, <1>2, PTL DEF MCSpec

(* The tab shows and stores a launcher of the mounted context only, whatever    *)
(* answers come late and whatever is invalidated meanwhile                      *)
(* (refresh-controller.ts).                                                     *)
THEOREM LauncherIsTheContexts == MCSpec => []LauncherStaysInItsContext
<1>1. LauncherInv => LauncherStaysInItsContext
  BY OperationsAssumption, Apps!LauncherInvSuffices DEF LauncherInv, LauncherStaysInItsContext
<1> QED  BY <1>1, LauncherInvStays, PTL

-----------------------------------------------------------------------------
AvailabilityInv == part = "availability" => Apps!IInv

LEMMA AvailabilityInvStays == MCSpec => []AvailabilityInv
<1>1. MCInit => AvailabilityInv
  BY OperationsAssumption, Apps!InitHolds DEF MCInit, AvailabilityInv
<1>2. AvailabilityInv /\ [MCNext]_<<part, v1, v2, none9>> => AvailabilityInv'
  BY OperationsAssumption, PartStays, AvailabilityStep, Apps!NextHolds DEF AvailabilityInv, state, Stays
<1> QED  BY <1>1, <1>2, PTL DEF MCSpec

(* Overlapping changes of an app's availability leave one maintenance at a time, *)
(* a security block is lifted by security alone, and a session that may start   *)
(* ends before the maintenance it knew of (app-availability/service.ts).        *)
THEOREM MaintenanceHolds == MCSpec => []MaintenanceIsRespected
<1>1. AvailabilityInv => MaintenanceIsRespected
  BY OperationsAssumption, Apps!IInvSuffices DEF AvailabilityInv, MaintenanceIsRespected
<1> QED  BY <1>1, AvailabilityInvStays, PTL

-----------------------------------------------------------------------------
MailsInv == part = "mails" => Apps!MailInv

LEMMA MailsInvStays == MCSpec => []MailsInv
<1>1. MCInit => MailsInv
  BY OperationsAssumption, Apps!MailInitHolds DEF MCInit, MailsInv
<1>2. MailsInv /\ [MCNext]_<<part, v1, v2, none9>> => MailsInv'
  BY OperationsAssumption, PartStays, MailsStep, Apps!MailNextHolds DEF MailsInv, state, Stays
<1> QED  BY <1>1, <1>2, PTL DEF MCSpec
RemindersInv == part = "reminders" => Apps!ReminderInv

LEMMA RemindersInvStays == MCSpec => []RemindersInv
<1>1. MCInit => RemindersInv
  BY OperationsAssumption, Apps!ReminderInitHolds DEF MCInit, RemindersInv
<1>2. RemindersInv /\ [MCNext]_<<part, v1, v2, none9>> => RemindersInv'
  BY OperationsAssumption, PartStays, RemindersStep, Apps!ReminderNextHolds DEF RemindersInv, state, Stays
<1> QED  BY <1>1, <1>2, PTL DEF MCSpec

(* An e-mail is sent a bounded number of times and settled with its delivery      *)
(* (notifications/service.ts), and one batch at most reminds the parent, mailed a *)
(* bounded number of times (learning-reminders/service.ts): until workers         *)
(* overlap or die where nothing guards the write.                                 *)
THEOREM MailsStaySettled == MCSpec => []MailsAreSettled
<1>1. MailsInv /\ RemindersInv => MailsAreSettled
  BY OperationsAssumption, Apps!MailInvSuffices, Apps!ReminderInvSuffices DEF MailsInv, RemindersInv,
     MailsAreSettled
<1> QED  BY <1>1, MailsInvStays, RemindersInvStays, PTL

-----------------------------------------------------------------------------
SupportInv == part = "support" => Accounts!CaseInv

LEMMA SupportInvStays == MCSpec => []SupportInv
<1>1. MCInit => SupportInv
  BY OperationsAssumption, Accounts!CaseInitHolds DEF MCInit, SupportInv
<1>2. SupportInv /\ [MCNext]_<<part, v1, v2, none9>> => SupportInv'
  BY OperationsAssumption, PartStays, SupportStep, Accounts!CaseNextHolds DEF SupportInv, state, Stays
<1> QED  BY <1>1, <1>2, PTL DEF MCSpec

(* A key changes a support case once, whatever overlaps, and until two requests    *)
(* about a case overlap at most one is opened per receipt and a closed one stays   *)
(* closed (support-cases/service.ts).                                              *)
THEOREM CasesStayInOrder == MCSpec => []CasesAreOrderly
<1>1. SupportInv => CasesAreOrderly
  BY OperationsAssumption, Accounts!CaseInvSuffices DEF SupportInv, CasesAreOrderly
<1> QED  BY <1>1, SupportInvStays, PTL

-----------------------------------------------------------------------------
EmailInv == part = "e-mail" => Accounts!EmailInv

LEMMA EmailInvStays == MCSpec => []EmailInv
<1>1. MCInit => EmailInv
  BY OperationsAssumption, Accounts!EmailInitHolds DEF MCInit, EmailInv
<1>2. EmailInv /\ [MCNext]_<<part, v1, v2, none9>> => EmailInv'
  BY OperationsAssumption, PartStays, EmailStep, Accounts!EmailNextHolds DEF EmailInv, state, Stays
<1> QED  BY <1>1, <1>2, PTL DEF MCSpec
AccessInv == part = "access" => Accounts!IInv

LEMMA AccessInvStays == MCSpec => []AccessInv
<1>1. MCInit => AccessInv
  BY OperationsAssumption, Accounts!InitHolds DEF MCInit, AccessInv
<1>2. AccessInv /\ [MCNext]_<<part, v1, v2, none9>> => AccessInv'
  BY OperationsAssumption, PartStays, AccessStep, Accounts!NextHolds DEF AccessInv, state, Stays
<1> QED  BY <1>1, <1>2, PTL DEF MCSpec
ChildrenInv == part = "profiles" => Accounts!ChildInv

LEMMA ChildrenInvStays == MCSpec => []ChildrenInv
<1>1. MCInit => ChildrenInv
  BY OperationsAssumption, Accounts!ChildInitHolds DEF MCInit, ChildrenInv
<1>2. ChildrenInv /\ [MCNext]_<<part, v1, v2, none9>> => ChildrenInv'
  BY OperationsAssumption, PartStays, ChildrenStep, Accounts!ChildNextHolds DEF ChildrenInv, state, Stays
<1> QED  BY <1>1, <1>2, PTL DEF MCSpec

(* No address a parent had is lost (account-security-repo.ts), no session from      *)
(* before a deletion gets into the restored account (session.ts, restoration.ts),   *)
(* and a creation key makes one learner, whose acknowledged changes stay            *)
(* (learner-repo.ts), until requests overlap where nothing serialises them.         *)
THEOREM ParentAccountStays == MCSpec => []ParentAccountHolds
<1>1. EmailInv /\ AccessInv /\ ChildrenInv => ParentAccountHolds
  BY OperationsAssumption, Accounts!EmailInvSuffices, Accounts!IInvSuffices, Accounts!ChildInvSuffices DEF
     EmailInv, AccessInv, ChildrenInv, ParentAccountHolds
<1> QED  BY <1>1, EmailInvStays, AccessInvStays, ChildrenInvStays, PTL

-----------------------------------------------------------------------------
ModesInv == part = "learner mode" => Accounts!ModeInv

LEMMA ModesInvStays == MCSpec => []ModesInv
<1>1. MCInit => ModesInv
  BY OperationsAssumption, Accounts!ModeInitHolds DEF MCInit, ModesInv
<1>2. ModesInv /\ [MCNext]_<<part, v1, v2, none9>> => ModesInv'
  BY OperationsAssumption, PartStays, ModesStep, Accounts!ModeNextHolds DEF ModesInv, state, Stays
<1> QED  BY <1>1, <1>2, PTL DEF MCSpec

(* A browser is in learner mode by one challenge, one selection and a passkey that  *)
(* still is one (authorization/modes.ts, webauthn/service.ts), and no handler has   *)
(* an effect before what its action asks for was true (api-guard.ts,                *)
(* locked-mutation.ts), whichever routes are called and whatever changes meanwhile. *)
THEOREM AuthorityStaysHeld == MCSpec => []AuthorityIsHeld
<1>1. ModesInv /\ GateInv => AuthorityIsHeld
  BY OperationsAssumption, Accounts!ModeInvSuffices, GateSuffices DEF ModesInv, GateInv, AuthorityIsHeld
<1> QED  BY <1>1, ModesInvStays, GateInvStays, PTL

-----------------------------------------------------------------------------
RegistryPart == part = "registry" => Apps!RegistryInv

LEMMA RegistryPartStays == MCSpec => []RegistryPart
<1>1. MCInit => RegistryPart
  BY OperationsAssumption, Apps!RegistryInitHolds DEF MCInit, RegistryPart
<1>2. RegistryPart /\ [MCNext]_<<part, v1, v2, none9>> => RegistryPart'
  BY OperationsAssumption, PartStays, RegistryStep, Apps!RegistryNextHolds DEF RegistryPart, state, Stays
<1> QED  BY <1>1, <1>2, PTL DEF MCSpec

(* Whatever changes of an app's registry entry overlap, it becomes active only from *)
(* a draft that is complete at that moment, although completeness is read before    *)
(* the transaction (app-registry-repo.ts).                                          *)
THEOREM ActivationsAreChecked == MCSpec => ActivationIsChecked
<1>1. RegistryPart /\ [MCNext]_<<part, v1, v2, none9>>
        => [part = "registry" => Apps!Registry!ActivationChecked]_<<part, v1, v2, none9>>
  BY OperationsAssumption, RegistryStep, Apps!StepIsChecked DEF RegistryPart, state
<1> QED  BY <1>1, RegistryPartStays, PTL DEF MCSpec, ActivationIsChecked

-----------------------------------------------------------------------------
PipelinePart == part = "pipeline" => Apps!PipelineInv

LEMMA PipelinePartStays == MCSpec => []PipelinePart
<1>1. MCInit => PipelinePart
  BY OperationsAssumption, Apps!PipelineInitHolds DEF MCInit, PipelinePart
<1>2. PipelinePart /\ [MCNext]_<<part, v1, v2, none9>> => PipelinePart'
  BY OperationsAssumption, PartStays, PipelineStep, Apps!PipelineNextHolds DEF PipelinePart, state, Stays
<1> QED  BY <1>1, <1>2, PTL DEF MCSpec

(* Whatever approvals, promotions, rollbacks, window changes and sweeps overlap or  *)
(* die, the publication names the deployment that is published and one that can be  *)
(* restored, and a window promotes one deployment, until a request begins or stages *)
(* on what another has changed (the services of deployment-pipeline).               *)
THEOREM PublicationHolds == MCSpec => []PublicationIsConsistent
<1>1. PipelinePart => PublicationIsConsistent
  BY OperationsAssumption, Apps!PipelineInvSuffices DEF PipelinePart, PublicationIsConsistent
<1> QED  BY <1>1, PipelinePartStays, PTL

-----------------------------------------------------------------------------
(* The types of the parts. *)

GateTyped == v1 \in Gate!Kinds /\ v2 \subseteq Gate!MayHold[v1] /\ Gate!Single(v2) /\ v4 \subseteq Ids
GatePart == part = "requests" => GateTyped
OrphanPart == part = "launcher" => Apps!OrphansKnown

\* A key, an assertion or a mode is one of its kind, in what changes about a caller as well.
LEMMA CallerStaysTyped ==
  ASSUME GateTyped, NEW x, Gate!CallerChanges(x)
  PROVE  GateTyped'
<1>1. v2' = Gate!Change(x) /\ x \in Gate!MayHold[v1] /\ (x \in Gate!Final => x \in v2) /\ UNCHANGED <<v1, v4>>
  BY DEF Gate!CallerChanges
<1>2. v2' \subseteq v2 \/ (x \notin Gate!Final /\ v2' \subseteq (v2 \cup {x}) \ Gate!Rivals(x))
  BY <1>1 DEF Gate!Change
<1>3. v2' \subseteq Gate!MayHold[v1]
  BY <1>1, <1>2 DEF GateTyped
<1>4. CASE v2' \subseteq v2
  <2>1. Gate!Single(v2')
    BY <1>4 DEF GateTyped, Gate!Single
  <2> QED  BY <1>1, <1>3, <2>1 DEF GateTyped
<1>5. CASE x \notin Gate!Final /\ v2' \subseteq (v2 \cup {x}) \ Gate!Rivals(x)
  <2>1. ASSUME NEW a \in v2' \cap Gate!Modes, NEW b \in v2' \cap Gate!Modes PROVE a = b
    <3>1. CASE x \in Gate!Modes
      BY <1>5, <2>1, <3>1 DEF Gate!Rivals
    <3>2. CASE x \notin Gate!Modes
      BY <1>5, <2>1, <3>2 DEF GateTyped, Gate!Single
    <3> QED  BY <3>1, <3>2
  <2>2. ASSUME NEW a \in v2' \cap Gate!Grants, NEW b \in v2' \cap Gate!Grants PROVE a = b
    <3>1. CASE x \in Gate!Grants
      BY <1>5, <2>2, <3>1 DEF Gate!Rivals, Gate!Grants, Gate!Modes
    <3>2. CASE x \notin Gate!Grants
      BY <1>5, <2>2, <3>2 DEF GateTyped, Gate!Single
    <3> QED  BY <3>1, <3>2
  <2>3. ASSUME NEW a \in v2' \cap Gate!ServiceKeys, NEW b \in v2' \cap Gate!ServiceKeys PROVE a = b
    BY <1>5, <2>3 DEF GateTyped, Gate!Single, Gate!Final
  <2> QED  BY <2>1, <2>2, <2>3, <1>1, <1>3 DEF GateTyped, Gate!Single
<1> QED  BY <1>1, <1>2, <1>3, <1>4, <1>5 DEF GateTyped

LEMMA GateStaysTyped ==
  /\ Gate!Init => GateTyped
  /\ GateTyped /\ [Gate!Next]_(Gate!vars) => GateTyped'
<1>1. ASSUME Gate!Init PROVE GateTyped
  <2>1. v1 \in Gate!Kinds /\ v4 \subseteq Ids
    BY <1>1 DEF Gate!Init
  <2>2. CASE v1 = "service"
    <3>1. PICK key \in Gate!ServiceKeys : v2 = {key}
      BY <1>1, <2>2 DEF Gate!Init
    <3>2. Gate!MayHold[v1] = Gate!ServiceKeys
      BY <2>2 DEF Gate!MayHold, Gate!Kinds
    <3> QED  BY <2>1, <3>1, <3>2 DEF GateTyped, Gate!Single
  <2>3. CASE v1 # "service"
    BY <1>1, <2>1, <2>3 DEF Gate!Init, GateTyped
  <2> QED  BY <2>2, <2>3
<1>2. ASSUME GateTyped, [Gate!Next]_(Gate!vars) PROVE GateTyped'
  <2>1. CASE \E q \in Ids : (\E name \in Gate!Names : Gate!Arrive(q, name)) \/ Gate!Pass(q) \/ Gate!End(q)
    <3>1. UNCHANGED <<v1, v2>> /\ v4' \subseteq Ids
      BY <1>2, <2>1 DEF GateTyped, Gate!Arrive, Gate!Pass, Gate!End
    <3> QED  BY <1>2, <3>1 DEF GateTyped, Gate!Single
  <2>2. CASE \E x \in Gate!MayHold[v1] : Gate!CallerChanges(x)
    BY <1>2, <2>2, CallerStaysTyped
  <2>3. CASE UNCHANGED Gate!vars
    BY <1>2, <2>3 DEF Gate!vars, GateTyped, Gate!Single
  <2> QED  BY <1>2, <2>1, <2>2, <2>3 DEF Gate!Next
<1> QED  BY <1>1, <1>2

LEMMA GateIsTyped == GateIInv /\ GateTyped => Gate!TypeOK
  BY DEF GateIInv, Gated, Routed, Came, GateTyped, Gate!TypeOK

(* Every row, session, work item and pending request of the fourteen parts keeps   *)
(* its shape and its ranges, whatever overlaps, dies or is abandoned.              *)
THEOREM TypesStay == MCSpec => []TypesOK
<1>1. MCInit => GatePart /\ OrphanPart
  BY GateStaysTyped, Apps!OrphansStayKnown DEF MCInit, GatePart, OrphanPart
<1>2. GatePart /\ [MCNext]_<<part, v1, v2, none9>> => GatePart'
  BY PartStays, GateStep, GateStaysTyped DEF GatePart, state, Stays
<1>3. LauncherInv /\ OrphanPart /\ [MCNext]_<<part, v1, v2, none9>> => OrphanPart'
  BY PartStays, LauncherStep, Apps!OrphansStayKnown DEF LauncherInv, OrphanPart, state, Stays
<1>4. MCSpec => [](GatePart /\ OrphanPart)
  BY <1>1, <1>2, <1>3, LauncherInvStays, PTL DEF MCSpec
<1>5. ASSUME GatePart, OrphanPart, PipelinePart, AvailabilityInv, RegistryPart, MailsInv, RemindersInv,
             StaffInv, DailyInv, LauncherInv, ModesInv, EmailInv,
             AccessInv, ChildrenInv, SupportInv, GateInv
      PROVE  TypesOK
  <2>1. part = "pipeline" => Apps!Pipeline!TypeOK
    BY <1>5 DEF PipelinePart, Apps!PipelineInv
  <2>2. part = "availability" => Apps!TypeOK
    BY <1>5 DEF AvailabilityInv, Apps!IInv
  <2>3. part = "registry" => Apps!Registry!TypeOK
    BY <1>5 DEF RegistryPart, Apps!RegistryInv
  <2>4. part = "mails" => Apps!Mails!TypeOK
    BY <1>5 DEF MailsInv, Apps!MailInv
  <2>5. part = "reminders" => Apps!Reminders!TypeOK
    BY <1>5 DEF RemindersInv, Apps!ReminderInv
  <2>6. part = "staff" => Accounts!Guard!TypeOK
    BY <1>5, Accounts!StaffTyped DEF StaffInv
  <2>7. part = "daily" => Apps!Daily!TypeOK
    BY <1>5 DEF DailyInv, Apps!DailyInv
  <2>8. part = "launcher" => Apps!Tab!TypeOK
    BY <1>5, Apps!LauncherTyped DEF LauncherInv, OrphanPart
  <2>9. part = "learner mode" => Accounts!Modes!TypeOK
    BY <1>5 DEF ModesInv, Accounts!ModeInv, Accounts!ModeShaped
  <2>10. part = "e-mail" => Accounts!Email!TypeOK
    BY <1>5 DEF EmailInv, Accounts!EmailInv, Accounts!EmailShaped
  <2>11. part = "access" => Accounts!TypeOK
    BY <1>5 DEF AccessInv, Accounts!IInv, Accounts!Shaped
  <2>12. part = "profiles" => Accounts!Children!TypeOK
    BY <1>5 DEF ChildrenInv, Accounts!ChildInv, Accounts!ChildShaped
  <2>13. part = "support" => Accounts!Support!TypeOK
    BY <1>5 DEF SupportInv, Accounts!CaseInv, Accounts!CaseShaped
  <2>14. part = "requests" => Gate!TypeOK
    BY <1>5, GateIsTyped DEF GateInv, GatePart
  <2> QED
    BY <1>5, <2>1, <2>2, <2>3, <2>4, <2>5, <2>6, <2>7, <2>8, <2>9, <2>10, <2>11, <2>12, <2>13, <2>14 DEF TypesOK
<1> QED  BY <1>4, <1>5, PipelinePartStays, AvailabilityInvStays, RegistryPartStays, MailsInvStays,
          RemindersInvStays, StaffInvStays, DailyInvStays, LauncherInvStays,
          ModesInvStays, EmailInvStays, AccessInvStays, ChildrenInvStays,
          SupportInvStays, GateInvStays, PTL
===============================================================================
