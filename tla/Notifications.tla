------------------------------ MODULE Notifications ------------------------------
(****************************************************************************)
(* Transactional e-mails: the intents their sources enqueue, the workers     *)
(* that claim and send them, the provider's callbacks, and the two jobs that *)
(* reconcile a send whose outcome is unknown.  A claim is guarded by the     *)
(* intent's state; every other write names the rows by their ids alone and   *)
(* carries values read before the provider was called.                      *)
(****************************************************************************)
EXTENDS Naturals, FiniteSets

CONSTANTS Notices,      \* logical notifications: the natural key of an intent
          Procs,        \* processes of the server
          MaxAttempts   \* MAX_DELIVERY_ATTEMPTS

VARIABLES
  intent,     \* transactional_notification_intents
  delivery,   \* transactional_notification_deliveries, with whether the key the provider knows is stored
  sends,      \* how often the provider was asked to send it
  job,        \* what a process has read and been answered
  calm        \* no reconciliation has committed on a delivery that moved after it was read

vars == <<intent, delivery, sends, job, calm>>

IntentStates   == {"none", "pending", "claimed", "sent", "failed", "blocked"}
DeliveryStates == {"none", "pending", "sending", "accepted", "temporary_failed"}
                  \cup {"delivered", "permanent_failed", "blocked"}
Terminal == {"delivered", "permanent_failed", "blocked"}
Answers  == {"accepted", "delivered", "uncertain", "failed"}

NoIntent   == [state |-> "none", attempts |-> 0]
NoDelivery == [state |-> "none", attempts |-> 0, keyed |-> FALSE]
Idle       == [at |-> "idle"]

Jobs == {Idle}
  \cup [at : {"claimed"}, n : Notices, attempts : Nat]
  \cup [at : {"answered"}, n : Notices, attempts : Nat, answer : Answers]
  \cup [at : {"looking"}, n : Notices, retries : BOOLEAN,
        read : [state : DeliveryStates, attempts : Nat, keyed : BOOLEAN]]

TypeOK ==
  /\ intent \in [Notices -> [state : IntentStates, attempts : Nat]]
  /\ delivery \in [Notices -> [state : DeliveryStates, attempts : Nat, keyed : BOOLEAN]]
  /\ sends \in [Notices -> Nat]
  /\ job \in [Procs -> Jobs]
  /\ calm \in BOOLEAN

Init ==
  /\ intent = [n \in Notices |-> NoIntent]
  /\ delivery = [n \in Notices |-> NoDelivery]
  /\ sends = [n \in Notices |-> 0]
  /\ job = [p \in Procs |-> Idle]
  /\ calm = TRUE

\* A source's event becomes an intent once: a replay finds the row of its natural key.
Enqueue(n) ==
  /\ intent[n] = NoIntent
  /\ intent' = [intent EXCEPT ![n].state = "pending"]
  /\ UNCHANGED <<delivery, sends, job, calm>>

\* The sweep and the API run: an intent that is still pending is claimed and read back.
Claim(p, n) ==
  /\ job[p] = Idle
  /\ intent[n].state = "pending"
  /\ intent' = [intent EXCEPT ![n].state = "claimed"]
  /\ job' = [job EXCEPT ![p] = [at |-> "claimed", n |-> n, attempts |-> intent[n].attempts]]
  /\ UNCHANGED <<delivery, sends, calm>>

\* deliverOne: the parent has no verified address now.
Block(p) ==
  /\ job[p].at = "claimed"
  /\ LET n == job[p].n
     IN /\ delivery' = [delivery EXCEPT ![n].state = "blocked"]
        /\ intent' = [intent EXCEPT ![n].state = "blocked"]
  /\ job' = [job EXCEPT ![p] = Idle]
  /\ UNCHANGED <<sends, calm>>

\* ensureDeliveryRow, then the provider's answer.
Send(p) ==
  /\ job[p].at = "claimed"
  /\ \E a \in Answers :
       job' = [job EXCEPT ![p] =
                 [at |-> "answered", n |-> job[p].n, attempts |-> job[p].attempts, answer |-> a]]
  /\ LET n == job[p].n
     IN /\ sends' = [sends EXCEPT ![n] = @ + 1]
        /\ delivery' = [delivery EXCEPT ![n].state = IF @ = "none" THEN "pending" ELSE @]
  /\ UNCHANGED <<intent, calm>>

\* Mutant: one attempt more.
PastLast(attempts) == attempts > MaxAttempts
\* A failure of this attempt is final.
LastAttempt(attempts) == attempts >= MaxAttempts

\* What deliverOne's transaction makes of both rows; an uncertain answer leaves the intent's state alone.
DeliveryAfter(answer, attempts) ==
  [state |-> CASE answer = "uncertain" -> "sending"
               [] answer = "failed" -> IF LastAttempt(attempts) THEN "permanent_failed" ELSE "temporary_failed"
               [] OTHER -> answer,
   attempts |-> attempts, keyed |-> TRUE]
IntentAfter(i, answer, attempts) ==
  [state |-> CASE answer = "uncertain" -> i.state
               [] answer = "failed" -> IF LastAttempt(attempts) THEN "failed" ELSE "pending"
               [] OTHER -> "sent",
   attempts |-> attempts]

Record(p) ==
  /\ job[p].at = "answered"
  /\ LET n == job[p].n
         attempts == job[p].attempts + 1
     IN /\ delivery' = [delivery EXCEPT ![n] = DeliveryAfter(job[p].answer, attempts)]
        /\ intent' = [intent EXCEPT ![n] = IntentAfter(intent[n], job[p].answer, attempts)]
  /\ job' = [job EXCEPT ![p] = Idle]
  /\ UNCHANGED <<sends, calm>>

\* The provider's callback: a delivery it knows, not yet settled; "accepted" says nothing of the intent.
Settles(d, event) ==
  CASE event = "delivered" -> [d EXCEPT !.state = "delivered"]
    [] event = "accepted" -> [d EXCEPT !.state = "accepted"]
    [] OTHER -> [d EXCEPT !.state = "permanent_failed"]
\* Mutant: a bounce is left to the workers.
ToldOfDelivery(state, event) == IF event = "delivered" THEN "sent" ELSE state
Told(state, event) ==
  CASE event = "delivered" -> "sent" [] event = "bounced" -> "failed" [] OTHER -> state
Callback(n, event) ==
  /\ delivery[n].keyed
  /\ delivery[n].state \notin Terminal
  /\ delivery' = [delivery EXCEPT ![n] = Settles(@, event)]
  /\ intent' = [intent EXCEPT ![n].state = Told(@, event)]
  /\ UNCHANGED <<sends, job, calm>>

\* A reconciliation reads a delivery left "sending"; the API's kind may ask for another attempt.
Look(p, n) ==
  /\ job[p] = Idle
  /\ delivery[n].state = "sending"
  /\ \E retries \in BOOLEAN :
       job' = [job EXCEPT ![p] = [at |-> "looking", n |-> n, retries |-> retries, read |-> delivery[n]]]
  /\ UNCHANGED <<intent, delivery, sends, calm>>

Reconciled(p, d, i) ==
  LET n == job[p].n
  IN /\ delivery' = [delivery EXCEPT ![n].state = d]
     /\ intent' = [intent EXCEPT ![n].state = i]
     /\ calm' = (calm /\ delivery[n] = job[p].read)
     /\ job' = [job EXCEPT ![p] = Idle]
     /\ UNCHANGED sends
MayRetry(p) == job[p].retries /\ job[p].read.attempts < MaxAttempts

FoundDelivered(p) == job[p].at = "looking" /\ Reconciled(p, "delivered", "sent")
FoundNothing(p) ==
  /\ job[p].at = "looking"
  /\ IF MayRetry(p) THEN Reconciled(p, "temporary_failed", "pending")
                    ELSE Reconciled(p, "permanent_failed", "failed")

\* The lookup says nothing, or the process dies: what was claimed stays claimed.
Abandon(p) ==
  /\ job[p] # Idle
  /\ job' = [job EXCEPT ![p] = Idle]
  /\ UNCHANGED <<intent, delivery, sends, calm>>

Work(p) ==
  \/ \E n \in Notices : Claim(p, n) \/ Look(p, n)
  \/ Block(p) \/ Send(p) \/ Record(p) \/ FoundDelivered(p) \/ FoundNothing(p) \/ Abandon(p)
Next ==
  \/ \E n \in Notices : Enqueue(n) \/ \E event \in {"accepted", "delivered", "bounced"} : Callback(n, event)
  \/ \E p \in Procs : Work(p)

Spec == Init /\ [][Next]_vars

(****************************************************************************)
(* An e-mail is never sent more than MAX_DELIVERY_ATTEMPTS times, however    *)
(* claims, failures, unknown outcomes, reconciliations, callbacks and        *)
(* crashes alternate, as long as no reconciliation acts on a delivery that   *)
(* moved under it.                                                          *)
(****************************************************************************)
AttemptsAreBounded == calm => \A n \in Notices : sends[n] <= MaxAttempts

(****************************************************************************)
(* Whoever settles a delivery settles its intent: a notification whose      *)
(* delivery is final is not waiting for another worker.                     *)
(****************************************************************************)
SettledTogether == \A n \in Notices :
  /\ delivery[n].state = "delivered" => intent[n].state = "sent"
  /\ delivery[n].state = "permanent_failed" => intent[n].state = "failed"
  /\ delivery[n].state = "blocked" => intent[n].state = "blocked"

(****************************************************************************)
(* Both: what is settled stays with its delivery, and no e-mail is sent more *)
(* often than MAX_DELIVERY_ATTEMPTS.                                        *)
(****************************************************************************)
MailsAreSettled == AttemptsAreBounded /\ SettledTogether
===================================================================================
