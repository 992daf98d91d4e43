------------------------------ MODULE DrainGate ------------------------------
(***************************************************************************)
(* What the run coordinator promises about one Session, without entries,   *)
(* fibers or waiters: requests for work arrive at any time, one drain at a *)
(* time serves them, requests that arrive while it is busy coalesce into   *)
(* one owed follow-up, and the gate goes idle only when nothing is owed.   *)
(* RunCoordinator implements this specification.                           *)
(***************************************************************************)

VARIABLES state,   \* "idle", "serving" (a drain owns the Session) or "closing" (idle is being published)
          owed     \* a request arrived that no drain started after it has served

vars == <<state, owed>>

TypeOK ==
  /\ state \in {"idle", "serving", "closing"}
  /\ owed \in BOOLEAN

Init ==
  /\ state = "idle"
  /\ owed = FALSE

\* A request finds the gate idle and starts a drain for it, or is owed one.
Ask ==
  \/ state = "idle" /\ state' = "serving" /\ UNCHANGED owed
  \/ state # "idle" /\ owed' = TRUE /\ UNCHANGED state

\* The drain ends. What is owed is served next, by one drain; otherwise close.
Finish ==
  /\ state = "serving"
  /\ state' = IF owed THEN "serving" ELSE "closing"
  /\ owed' = FALSE

\* Idle has been announced. A request that arrived meanwhile is served now.
Close ==
  /\ state = "closing"
  /\ state' = IF owed THEN "serving" ELSE "idle"
  /\ owed' = FALSE

\* An interrupt discards what is owed and nothing else.
Halt ==
  /\ state # "idle"
  /\ owed' = FALSE
  /\ UNCHANGED state

Next == Ask \/ Finish \/ Close \/ Halt

Spec == Init /\ [][Next]_vars

\* A drain that is owned ends, and a closing gate closes.
FairSpec == Spec /\ WF_vars(Finish) /\ WF_vars(Close)

==============================================================================
