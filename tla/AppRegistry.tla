------------------------------ MODULE AppRegistry ------------------------------
(****************************************************************************)
(* One app of the registry: edited, activated, deleted and restored by       *)
(* administrators, each of whom names the version he has seen.               *)
(*                                                                          *)
(* An activation checks that the app is ready before its transaction; the    *)
(* others read, check and write within theirs, which is one step here.       *)
(****************************************************************************)
EXTENDS Naturals

CONSTANTS Procs, MaxVersion   \* MaxVersion bounds the changes

VARIABLES
  app,    \* the row of app_registry: status, version, whether its metadata are complete
  asked   \* the version an activation has found ready, per process; 0 of none

vars == <<app, asked>>

\* editApp: any of the metadata, in any status.
Edit ==
  /\ app.version < MaxVersion
  /\ \E complete \in BOOLEAN : app' = [app EXCEPT !.complete = complete, !.version = @ + 1]
  /\ UNCHANGED asked

ActivateRead(p) ==
  /\ asked[p] = 0
  /\ app.status = "draft" /\ app.complete
  /\ asked' = [asked EXCEPT ![p] = app.version]
  /\ UNCHANGED app

\* mutant: the status alone is checked again
StillDraft(version)  == app.status = "draft"
\* The row that was checked is the row that is activated.
Unchanged(version)   == app.status = "draft" /\ app.version = version

ActivateCommit(p) ==
  /\ asked[p] # 0 /\ app.version < MaxVersion
  /\ app' = IF Unchanged(asked[p]) THEN [app EXCEPT !.status = "active", !.version = @ + 1]
                                   ELSE app
  /\ asked' = [asked EXCEPT ![p] = 0]

SoftDelete ==
  /\ app.status # "soft_deleted" /\ app.version < MaxVersion
  /\ app' = [app EXCEPT !.status = "soft_deleted", !.version = @ + 1]
  /\ UNCHANGED asked

\* restoreApp: to draft only, to be activated again.
Restore ==
  /\ app.status = "soft_deleted" /\ app.version < MaxVersion
  /\ app' = [app EXCEPT !.status = "draft", !.version = @ + 1]
  /\ UNCHANGED asked

Abandon(p) ==
  /\ asked[p] # 0 /\ asked' = [asked EXCEPT ![p] = 0]
  /\ UNCHANGED app

Init ==
  /\ \E complete \in BOOLEAN :
       app = [status |-> "draft", version |-> 1, complete |-> complete]
  /\ asked = [p \in Procs |-> 0]

Next ==
  \/ Edit \/ SoftDelete \/ Restore
  \/ \E p \in Procs : ActivateRead(p) \/ ActivateCommit(p) \/ Abandon(p)

Spec == Init /\ [][Next]_vars

-----------------------------------------------------------------------------
(* Properties *)

TypeOK ==
  /\ app \in [status : {"draft", "active", "soft_deleted"}, version : 1 .. MaxVersion,
              complete : BOOLEAN]
  /\ asked \in [Procs -> 0 .. MaxVersion]

\* An app becomes active only as a draft that is ready at that moment, although readiness is
\* checked before the transaction and other administrators edit, delete and restore it.
ActivationChecked ==
  app'.status = "active" /\ app.status # "active" => app.status = "draft" /\ app.complete
ActivationIsChecked == [][ActivationChecked]_vars
================================================================================
