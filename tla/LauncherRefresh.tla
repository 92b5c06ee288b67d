------------------------------ MODULE LauncherRefresh -------------------------------
(****************************************************************************)
(* The learner's launcher in one browser tab: a coordinator per mounted page *)
(* that fetches the launcher for one learner context, one request at a time  *)
(* with at most one follow-up, shows it, and keeps it in the tab's storage.  *)
(* JavaScript runs each handler up to its next await; an answer may come     *)
(* after the page that asked is gone and another context's page is mounted.  *)
(****************************************************************************)
EXTENDS Naturals

CONSTANTS MaxContexts  \* bound: versions of the learner context, each with a binding of its own

VARIABLES
  visible, online,  \* the tab and the network
  serving,          \* the context the server answers for,
  unlocked,         \* unless learning mode was left
  storage,          \* contexts whose launcher the tab's storage has
  page,             \* the mounted coordinator
  orphans,          \* contexts of destroyed coordinators whose request is still under way
  left              \* learning mode was left with no request under way, and nothing mounted since

vars == <<visible, online, serving, unlocked, storage, page, orphans, left>>

Contexts == 1 .. MaxContexts
None == "none"
Reasons == {"page_entry", "pageshow", "visibility_return", "online", "manual_refresh",
            "same_browser_invalidation", "security_invalidation", "server_boundary"}
Priority == [visibility_return |-> 1, online |-> 1, same_browser_invalidation |-> 2, manual_refresh |-> 2,
             server_boundary |-> 3, page_entry |-> 5, pageshow |-> 5, security_invalidation |-> 7]
Critical == {"page_entry", "pageshow", "security_invalidation"}
AttemptLimit == [r \in Reasons |-> IF r = "manual_refresh" THEN 1 ELSE 3]

NoPage == [ctx |-> 0]
Pages == [ctx : Contexts, data : BOOLEAN, disabled : BOOLEAN,
          status : {"updating", "fresh", "stale", "offline", "unavailable"},
          current : Reasons \cup {None}, attempt : 0..3, waiting : BOOLEAN,
          answer : {None, "own", "foreign"}, followUp : BOOLEAN,
          pending : Reasons \cup {None}, recent : BOOLEAN, boundary : BOOLEAN]
Mounted == page # NoPage

TypeOK ==
  /\ visible \in BOOLEAN /\ online \in BOOLEAN /\ left \in BOOLEAN
  /\ serving \in Contexts /\ unlocked \in BOOLEAN
  /\ storage \subseteq Contexts /\ orphans \subseteq Contexts
  /\ page \in Pages \cup {NoPage}

Init ==
  /\ visible = TRUE /\ online = TRUE /\ left = FALSE
  /\ serving = 1 /\ unlocked = TRUE
  /\ storage = {} /\ orphans = {} /\ page = NoPage

Serves(c) == unlocked /\ serving = c

MarkStale(pg, up) == [pg EXCEPT !.status = IF up THEN "stale" ELSE "offline", !.disabled = ~up]

Started(pg, reason, followUp, up) ==
  [pg EXCEPT !.current = reason, !.attempt = 1, !.followUp = followUp,
             !.status = "updating", !.disabled = reason \in Critical \/ ~pg.data \/ ~up]

\* refresh(), with whether the tab is seen and the network up: put off, throttled, coalesced or begun.
Refresh(pg, reason, followUp, seen, up) ==
  IF ~seen /\ reason # "page_entry" THEN MarkStale(pg, up)
  ELSE IF reason = "visibility_return" /\ pg.recent THEN pg
  ELSE LET noted == [pg EXCEPT !.recent = @ \/ reason = "visibility_return"]
       IN CASE pg.current = None -> Started(noted, reason, followUp, up)
            [] pg.current # None /\ ~pg.followUp /\ Priority[reason] > Priority[pg.current] ->
                 [noted EXCEPT !.pending = reason]
            [] OTHER -> noted

\* The request's finally: the pending reason, unless this was a follow-up already.
Finally(pg) ==
  LET over == [pg EXCEPT !.current = None, !.attempt = 0, !.answer = None, !.pending = None]
  IN IF pg.pending # None /\ ~pg.followUp
     THEN Refresh(over, pg.pending, TRUE, visible, online)
     ELSE [over EXCEPT !.followUp = FALSE]

\* The effect of the page: foreign caches are cleared, and the entry refresh begins.
Mount(c) ==
  /\ ~Mounted /\ Serves(c)
  /\ storage' = storage \cap {c}
  /\ page' = Started([ctx |-> c, data |-> TRUE, disabled |-> TRUE, status |-> "stale", current |-> None,
                      attempt |-> 0, waiting |-> FALSE, answer |-> None, followUp |-> FALSE, pending |-> None,
                      recent |-> FALSE, boundary |-> FALSE], "page_entry", FALSE, online)
  /\ left' = FALSE
  /\ UNCHANGED <<visible, online, serving, unlocked, orphans>>

\* The effect's cleanup: destroy(), whose abort an answer may have overtaken; or the document goes.
Unmount ==
  /\ Mounted
  /\ orphans' = orphans \cup (IF page.answer = "own" THEN {page.ctx} ELSE {})
  /\ page' = NoPage
  /\ UNCHANGED <<visible, online, serving, unlocked, storage, left>>
Unload ==
  /\ Mounted
  /\ page' = NoPage /\ orphans' = {}
  /\ UNCHANGED <<visible, online, serving, unlocked, storage, left>>

\* Mutant: whoever asked gets the answer.
AnyAnswer(destroyed) == TRUE
\* An answer is kept only by a coordinator that is not destroyed.
Kept(destroyed) == ~destroyed
LateAnswer(c) ==
  /\ c \in orphans
  /\ orphans' = orphans \ {c}
  /\ storage' = IF Kept(TRUE) THEN storage \cup {c} ELSE storage
  /\ UNCHANGED <<visible, online, serving, unlocked, page, left>>

Unchanged == UNCHANGED <<visible, online, serving, unlocked, orphans, left>>
Asking == Mounted /\ page.current # None /\ ~page.waiting

\* The server composes its answer, for whom it serves then.
Serve ==
  /\ Asking /\ page.answer = None
  /\ page' = [page EXCEPT !.answer = IF Serves(page.ctx) THEN "own" ELSE "foreign"]
  /\ UNCHANGED storage /\ Unchanged
\* 200 for the context asked for, or 304.
Answered ==
  /\ Asking /\ page.answer = "own" /\ Kept(FALSE)
  /\ storage' = storage \cup {page.ctx}
  /\ \E again \in BOOLEAN :
       page' = Finally([page EXCEPT !.data = TRUE, !.status = "fresh", !.disabled = FALSE, !.boundary = again])
  /\ Unchanged
\* 200 for another context, 401, 403 or 409.
ContextLost ==
  /\ Asking /\ page.answer = "foreign"
  /\ storage' = storage \ {page.ctx}
  /\ page' = Finally([page EXCEPT !.data = FALSE, !.status = "unavailable", !.disabled = TRUE])
  /\ Unchanged
\* Anything else is tried again after a pause, and given up in the end.
Failed ==
  /\ Asking
  /\ page' = IF page.attempt < AttemptLimit[page.current] /\ visible /\ online
             THEN [page EXCEPT !.waiting = TRUE, !.attempt = @ + 1, !.answer = None]
             ELSE Finally([page EXCEPT
                    !.status = IF ~online THEN "offline" ELSE IF page.data THEN "stale" ELSE "unavailable",
                    !.disabled = ~online \/ ~page.data])
  /\ UNCHANGED storage /\ Unchanged
TryAgain ==
  /\ Mounted /\ page.waiting
  /\ page' = [page EXCEPT !.waiting = FALSE]
  /\ UNCHANGED storage /\ Unchanged

\* What the page hears: a restored page, an invalidation, the boundary's timer, the button.
Heard(reason) ==
  /\ Mounted
  /\ reason \in {"pageshow", "same_browser_invalidation", "security_invalidation", "server_boundary", "manual_refresh"}
  /\ reason = "server_boundary" => page.boundary
  /\ reason = "manual_refresh" => page.status \in {"stale", "offline", "unavailable"}
  /\ LET fired == IF reason = "server_boundary" THEN [page EXCEPT !.boundary = FALSE] ELSE page
     IN page' = Refresh(fired, reason, FALSE, visible, online)
  /\ UNCHANGED storage /\ Unchanged

Show ==
  /\ ~visible /\ visible' = TRUE
  /\ \E long \in BOOLEAN :
       page' = IF Mounted /\ (long \/ page.status \in {"stale", "offline"})
               THEN Refresh(page, "visibility_return", FALSE, TRUE, online) ELSE page
  /\ UNCHANGED <<online, serving, unlocked, storage, orphans, left>>
Hide ==
  /\ visible /\ visible' = FALSE
  /\ UNCHANGED <<online, serving, unlocked, storage, page, orphans, left>>
GoOffline ==
  /\ online /\ online' = FALSE
  /\ UNCHANGED <<visible, serving, unlocked, storage, page, orphans, left>>
GoOnline ==
  /\ ~online /\ online' = TRUE
  /\ page' = IF Mounted THEN Refresh(page, "online", FALSE, visible, TRUE) ELSE page
  /\ UNCHANGED <<visible, serving, unlocked, storage, orphans, left>>

\* VISIBILITY_REFRESH_THRESHOLD_MS have passed.
Later ==
  /\ Mounted /\ page.recent
  /\ page' = [page EXCEPT !.recent = FALSE]
  /\ UNCHANGED storage /\ Unchanged

\* The learner is switched elsewhere, for a new context; or the parent ends learning mode on this page, which clears the
\* storage and leaves, while a request may be under way.
Switch ==
  /\ serving < MaxContexts /\ serving' = serving + 1 /\ unlocked' = TRUE
  /\ UNCHANGED <<visible, online, storage, page, orphans, left>>
Exit ==
  /\ Mounted /\ unlocked
  /\ unlocked' = FALSE /\ storage' = {}
  /\ left' = (page.current = None)
  /\ UNCHANGED <<visible, online, serving, page, orphans>>

Next ==
  \/ \E c \in Contexts : Mount(c) \/ LateAnswer(c)
  \/ Switch \/ Unmount \/ Unload \/ Serve \/ Answered \/ ContextLost \/ Failed \/ TryAgain
  \/ \E reason \in Reasons : Heard(reason)
  \/ Show \/ Hide \/ GoOffline \/ GoOnline \/ Later \/ Exit

Spec == Init /\ [][Next]_vars

(****************************************************************************)
(* The tab's storage has the launcher of the mounted context at most, none   *)
(* once that context is lost, and none after learning mode was left with no *)
(* request under way, whatever answers come late; and a page that says it is *)
(* updating has a request under way, so it does not stay so for ever.       *)
(****************************************************************************)
LauncherStaysInItsContext ==
  /\ left => storage = {}
  /\ Mounted => /\ storage \subseteq {page.ctx}
                /\ ~page.data => storage = {}
                /\ page.status = "updating" => page.current # None
===================================================================================
