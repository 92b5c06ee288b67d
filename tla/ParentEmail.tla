------------------------------ MODULE ParentEmail ------------------------------
(****************************************************************************)
(* A parent changes the address of the account: a request is mailed a link,  *)
(* the link's callback changes the address and then, in a transaction of its *)
(* own, archives the old one.  A link may be followed again, by two browsers *)
(* at once, or after another request replaced its own.                       *)
(****************************************************************************)
EXTENDS Naturals, FiniteSets

CONSTANTS Procs,     \* processes of the server
          Emails,    \* addresses
          Requests,  \* ids of requests
          MaxLinks   \* bound: links mailed for a request

VARIABLES
  email,     \* users.email of the account
  taken,     \* the addresses of other accounts
  change,    \* email_change_requests
  archived,  \* how often parent_email_history has the old address of a request
  had,       \* the addresses the account has had
  work,      \* what a request or callback has read
  calm       \* no two have overlapped, and no callback died half way

vars == <<email, taken, change, archived, had, work, calm>>

Idle == [at |-> "idle"]
Statuses == {"none", "pending", "verified", "expired", "cancelled"}
NoChange == [status |-> "none", old |-> "none", new |-> "none", link |-> 0, due |-> FALSE]
Rows == [status : Statuses, old : Emails \cup {"none"}, new : Emails \cup {"none"},
         link : 0..MaxLinks, due : BOOLEAN]

TypeOK ==
  /\ email \in Emails /\ taken \subseteq Emails /\ had \subseteq Emails
  /\ change \in [Requests -> Rows] /\ archived \in [Requests -> Nat]
  /\ DOMAIN work = Procs /\ calm \in BOOLEAN

Init ==
  /\ email \in Emails /\ taken = {} /\ had = {email}
  /\ change = [r \in Requests |-> NoChange] /\ archived = [r \in Requests |-> 0]
  /\ work = [p \in Procs |-> Idle] /\ calm = TRUE

Arrive(p, request) ==
  /\ work[p] = Idle
  /\ work' = [work EXCEPT ![p] = request]
  /\ calm' = (calm /\ \A q \in Procs : work[q] = Idle)
Done(p) == work' = [work EXCEPT ![p] = Idle]
AtOnce == calm' = (calm /\ \A q \in Procs : work[q] = Idle) /\ UNCHANGED work
Pending == {r \in Requests : change[r].status = "pending"}

\* Somebody signs up with an address nobody has, or leaves one.
SignUpElsewhere(a) ==
  /\ a # email /\ a \notin taken /\ taken' = taken \cup {a}
  /\ UNCHANGED <<email, change, archived, had, work, calm>>

\* The account's address is read with the request, and the new one must be nobody's.
RequestRead(p, a) ==
  /\ a # email /\ a \notin taken
  /\ Arrive(p, [at |-> "request", old |-> email, new |-> a])
  /\ UNCHANGED <<email, taken, change, archived, had>>
\* Mutant: the request before goes on.
Kept(r) == change[r]
\* A pending request gives way to the new one.
Replaced(r) == IF r \in Pending THEN [change[r] EXCEPT !.status = "cancelled"] ELSE change[r]
RequestEmailChange(p, r) ==
  /\ work[p].at = "request" /\ change[r].status = "none"
  /\ change' = [s \in Requests |->
       IF s = r THEN [status |-> "pending", old |-> work[p].old, new |-> work[p].new,
                      link |-> 1, due |-> FALSE]
                ELSE Replaced(s)]
  /\ Done(p)
  /\ UNCHANGED <<email, taken, archived, had, calm>>

\* A new link and a new day for the row that was pending, whatever became of it.
ResendRead(p, r) ==
  /\ r \in Pending /\ change[r].link < MaxLinks
  /\ Arrive(p, [at |-> "resend", request |-> r])
  /\ UNCHANGED <<email, taken, change, archived, had>>
ResendEmailChange(p) ==
  /\ work[p].at = "resend"
  /\ change[work[p].request].link < MaxLinks
  /\ change' = [change EXCEPT ![work[p].request].link = @ + 1, ![work[p].request].due = FALSE]
  /\ Done(p)
  /\ UNCHANGED <<email, taken, archived, had, calm>>

CancelEmailChange ==
  /\ Pending # {}
  /\ change' = [r \in Requests |-> Replaced(r)]
  /\ AtOnce
  /\ UNCHANGED <<email, taken, archived, had>>

DayPasses(r) ==
  /\ r \in Pending /\ ~change[r].due
  /\ change' = [change EXCEPT ![r].due = TRUE]
  /\ UNCHANGED <<email, taken, archived, had, work, calm>>

(* The callback of the link the row has. *)
\* Applied again: a request that is verified goes on to the second step.
FollowVerified(p, r) ==
  /\ change[r].status = "verified" /\ Arrive(p, [at |-> "finalize"])
  /\ UNCHANGED <<email, taken, change, archived, had>>
FollowPending(p, r) ==
  /\ r \in Pending
  /\ Arrive(p, [at |-> IF change[r].due THEN "expire" ELSE "apply", request |-> r, new |-> change[r].new])
  /\ UNCHANGED <<email, taken, change, archived, had>>
Expire(p) ==
  /\ work[p].at = "expire"
  /\ change' = [change EXCEPT ![work[p].request].status = "expired"]
  /\ Done(p)
  /\ UNCHANGED <<email, taken, archived, had, calm>>
\* users.email is unique: the update throws when the address was taken meanwhile.
ApplyEmailChangeToken(p) ==
  /\ work[p].at = "apply" /\ work[p].new \notin taken
  /\ email' = work[p].new /\ had' = had \cup {work[p].new}
  /\ work' = [work EXCEPT ![p] = [at |-> "finalize"]]
  /\ UNCHANGED <<taken, change, archived, calm>>

\* Mutant: also what is verified already.
OfAddress(r) == change[r].status # "none" /\ change[r].new = email
\* The pending request that led to the address the account now has.
Unfinished(r) == r \in Pending /\ change[r].new = email
FinalizeRead(p) ==
  /\ work[p].at = "finalize"
  /\ \/ \E r \in Requests : Unfinished(r) /\ work' = [work EXCEPT ![p] = [at |-> "archive", request |-> r]]
     \/ (\A r \in Requests : ~Unfinished(r)) /\ Done(p)
  /\ UNCHANGED <<email, taken, change, archived, had, calm>>
FinalizeEmailChange(p) ==
  /\ work[p].at = "archive"
  /\ archived' = [archived EXCEPT ![work[p].request] = @ + 1]
  /\ change' = [change EXCEPT ![work[p].request].status = "verified"]
  /\ Done(p)
  /\ UNCHANGED <<email, taken, had, calm>>

\* A callback that dies after its first step leaves the old address unarchived.
Abandon(p) ==
  /\ work[p] # Idle /\ Done(p)
  /\ calm' = (calm /\ work[p].at \notin {"finalize", "archive"})
  /\ UNCHANGED <<email, taken, change, archived, had>>

Begin(p) ==
  \/ \E a \in Emails : RequestRead(p, a)
  \/ \E r \in Requests : ResendRead(p, r) \/ FollowVerified(p, r) \/ FollowPending(p, r)
Continue(p) ==
  \/ \E r \in Requests : RequestEmailChange(p, r)
  \/ ResendEmailChange(p) \/ Expire(p) \/ ApplyEmailChangeToken(p)
  \/ FinalizeRead(p) \/ FinalizeEmailChange(p) \/ Abandon(p)

Next ==
  \/ \E p \in Procs : Begin(p) \/ Continue(p)
  \/ CancelEmailChange
  \/ \E a \in Emails : SignUpElsewhere(a)
  \/ \E r \in Requests : DayPasses(r)

Spec == Init /\ [][Next]_vars
-----------------------------------------------------------------------------
\* At most one request is pending, and an address belongs to one account (schema.sql:115-117, 10).
OneRequestPends == Cardinality(Pending) <= 1 /\ email \notin taken

\* Of callbacks that follow each other and live: a request archives its old address once, when it is
\* verified, and every address the account has had is archived or its own
\* (account-security-repo.ts:149-224).
NoAddressIsLost ==
  calm => /\ \A r \in Requests : archived[r] = IF change[r].status = "verified" THEN 1 ELSE 0
          /\ (\A p \in Procs : work[p] = Idle) =>
               had \subseteq {email} \cup {change[r].old : r \in {s \in Requests : archived[s] > 0}}

AddressesAreKept == OneRequestPends /\ NoAddressIsLost
=================================================================================
