--------------------------- MODULE RunCoordinator ----------------------------
(***************************************************************************)
(* SessionRunCoordinator (session/run-coordinator.ts) for one key.  Keys   *)
(* share nothing but the map that holds their entries, so one key shows    *)
(* everything the coordinator does.                                        *)
(*                                                                         *)
(* The `active` map holds at most one Entry for the key.  An entry is a    *)
(* deferred result (`done`), the fiber that owns it, a coalesced wake and  *)
(* a stopping flag.  The fiber publishes busy, drains, settles, and either *)
(* hands over to a successor or publishes idle and removes the entry.      *)
(*                                                                         *)
(* A step of this module is a stretch of JavaScript between two points     *)
(* where the Effect runtime may switch fibers.                             *)
(***************************************************************************)
EXTENDS FiniteSets

CONSTANTS Entry,     \* identities of entries; a finished entry's identity is reused
          Caller,    \* fibers that call run(key)
          Stopper,   \* fibers that call interrupt(key)
          NoEntry    \* "no entry": Map.get returned undefined

ASSUME NoEntryAssumption == NoEntry \notin Entry

VARIABLES active,    \* active.get(key)
          entry,     \* [Entry -> what the entry and its owner fiber hold]
          caller,    \* [Caller -> where its call to run stands]
          stopper,   \* [Stopper -> the entry whose owner it waits for]
          status     \* the last status onStatus published

vars == <<active, entry, caller, stopper, status>>

------------------------------------------------------------------------------
(* The states of an owner fiber.                                           *)
(*   "busy"       onStatus(key, true) is running                           *)
(*   "announced"  it has returned; the drain has not begun                 *)
(*   "yield"      a successor that has yielded once and skips onStatus     *)
(*   "drain"      options.drain(key, force) is running                     *)
(*   "exited"     the drain, or what precedes it, has an Exit; settle next *)
(*   "idle"       onStatus(key, false) is running                          *)
(*   "closing"    it has returned or died; Effect.ensuring's sync is next  *)
(*   "gone"       the fiber is over and `done` is complete                 *)
Starting == {"busy", "announced", "yield"}
Publishing == {"idle", "closing"}
Live == Starting \union {"drain", "exited"} \union Publishing
Phases == Live \union {"gone"}

Exits == {"success", "failure", "interrupted"}

EntryType == [phase : Phases, force : BOOLEAN, pendingWake : BOOLEAN,
              stopping : BOOLEAN, exit : Exits]

\* "join" awaits `done` of `on`; "afterStop" awaits it and then calls run again.
CallerType == [mode : {"idle", "join", "afterStop", "returned", "failed"},
               on : Entry \union {NoEntry}, got : Exits \union {"open"}]

Waiting == {"join", "afterStop"}

NewEntry(phase, force) ==
  [phase |-> phase, force |-> force, pendingWake |-> FALSE, stopping |-> FALSE,
   exit |-> "success"]

Gone == [NewEntry("gone", FALSE) EXCEPT !.stopping = TRUE]

Quiet == [mode |-> "idle", on |-> NoEntry, got |-> "open"]

\* An identity no map, caller or interrupter refers to.
Unused(e) ==
  /\ e # active
  /\ entry[e].phase = "gone"
  /\ \A r \in Caller : caller[r].on # e
  /\ \A s \in Stopper : stopper[s] # e

Init ==
  /\ active = NoEntry
  /\ entry = [e \in Entry |-> Gone]
  /\ caller = [r \in Caller |-> Quiet]
  /\ stopper = [s \in Stopper |-> NoEntry]
  /\ status = "none"

------------------------------------------------------------------------------
(* The public operations.                                                  *)

\* run(key) evaluated by caller r: start a forced drain, join, or queue behind
\* an entry that is stopping.
EvaluateRun(r) ==
  \/ \E e \in Entry :
       /\ active = NoEntry /\ Unused(e)
       /\ active' = e
       /\ entry' = [entry EXCEPT ![e] = NewEntry("busy", TRUE)]
       /\ caller' = [caller EXCEPT ![r] = [mode |-> "join", on |-> e, got |-> "open"]]
  \/ /\ active # NoEntry
     /\ caller' = [caller EXCEPT ![r] =
          [mode |-> IF entry[active].stopping THEN "afterStop" ELSE "join",
           on |-> active, got |-> "open"]]
     /\ UNCHANGED <<active, entry>>

Run(r) ==
  /\ caller[r].mode \notin Waiting
  /\ EvaluateRun(r)
  /\ UNCHANGED <<stopper, status>>

\* `done` completed with Exit x: everyone awaiting entry e is resumed with it.
Resumed(e, x) ==
  [r \in Caller |-> IF caller[r].on = e THEN [caller[r] EXCEPT !.on = NoEntry, !.got = x]
                                        ELSE caller[r]]

\* Mutant: interrupters are not told that the fiber ended.
ReleasedNobody(e) == stopper

\* Interrupters of e's owner wait for the fiber, which ends with its entry.
Released(e) == [s \in Stopper |-> IF stopper[s] = e THEN NoEntry ELSE stopper[s]]

\* A joined caller returns the drain's Exit.  A caller behind a stopping entry
\* runs again, but only if that entry ended in success: Deferred.await fails
\* with the Exit of the entry, and andThen does not run after a failure.
Return(r) ==
  /\ caller[r].mode \in Waiting /\ caller[r].got # "open"
  /\ IF caller[r].mode = "afterStop" /\ caller[r].got = "success"
     THEN EvaluateRun(r)
     ELSE /\ caller' = [caller EXCEPT ![r] =
               [Quiet EXCEPT !.mode = IF caller[r].got = "success" THEN "returned" ELSE "failed"]]
          /\ UNCHANGED <<active, entry>>
  /\ UNCHANGED <<stopper, status>>

\* The calling fiber is interrupted while it waits; the drain is not.
Abandon(r) ==
  /\ caller[r].mode \in Waiting
  /\ caller' = [caller EXCEPT ![r] = Quiet]
  /\ UNCHANGED <<active, entry, stopper, status>>

Wake ==
  /\ \/ /\ active # NoEntry
        /\ entry' = [entry EXCEPT ![active].pendingWake = TRUE]
        /\ UNCHANGED active
     \/ \E e \in Entry :
          /\ active = NoEntry /\ Unused(e)
          /\ active' = e
          /\ entry' = [entry EXCEPT ![e] = NewEntry("busy", FALSE)]
  /\ UNCHANGED <<caller, stopper, status>>

\* interrupt(key) on an idle key changes nothing and returns at once.
Interrupt(s) ==
  /\ stopper[s] = NoEntry /\ active # NoEntry
  /\ entry' = [entry EXCEPT ![active].stopping = TRUE, ![active].pendingWake = FALSE]
  /\ stopper' = [stopper EXCEPT ![s] = active]
  /\ UNCHANGED <<active, caller, status>>

------------------------------------------------------------------------------
(* The owner fiber of entry e.                                             *)

\* onStatus(key, true) publishes, unless the Session is gone.  The commit is
\* uninterruptible, so an interrupt that is already pending does not prevent it.
PublishBusy(e) ==
  /\ entry[e].phase = "busy"
  /\ entry' = [entry EXCEPT ![e].phase = "announced"]
  /\ status' \in {"busy", status}
  /\ UNCHANGED <<active, caller, stopper>>

\* onStatus(key, true) died before it published.
BusyDies(e) ==
  /\ entry[e].phase = "busy"
  /\ entry' = [entry EXCEPT ![e].phase = "exited", ![e].exit = "failure"]
  /\ UNCHANGED <<active, caller, stopper, status>>

\* A pending interrupt is honoured before the drain begins.
InterruptedBeforeDrain(e) ==
  /\ entry[e].phase \in Starting /\ entry[e].stopping
  /\ entry' = [entry EXCEPT ![e].phase = "exited", ![e].exit = "interrupted"]
  /\ UNCHANGED <<active, caller, stopper, status>>

StartDrain(e) ==
  /\ entry[e].phase \in {"announced", "yield"} /\ ~entry[e].stopping
  /\ entry' = [entry EXCEPT ![e].phase = "drain"]
  /\ UNCHANGED <<active, caller, stopper, status>>

\* The drain ends by itself, or with the interrupt once one is pending.  A drain
\* that interrupts itself, because the Session has moved to another Location,
\* has not set `stopping`; settle treats its Exit like a failure's.
DrainExit(e) ==
  /\ entry[e].phase = "drain"
  /\ \E x \in Exits :
       /\ x = "interrupted" => entry[e].stopping
       /\ entry' = [entry EXCEPT ![e].phase = "exited", ![e].exit = x]
  /\ UNCHANGED <<active, caller, stopper, status>>

\* Mutant: the follow-up leaves the coalesced wake set.
SettleFollowUpKeepsWake(e) ==
  /\ entry[e].phase = "exited" /\ entry[e].pendingWake
  /\ entry[e].exit = "success" /\ ~entry[e].stopping
  /\ entry' = [entry EXCEPT ![e].phase = "yield"]
  /\ UNCHANGED <<active, caller, stopper, status>>

\* settle, first branch: one follow-up drain on the same entry.
SettleFollowUp(e) ==
  /\ entry[e].phase = "exited" /\ entry[e].pendingWake
  /\ entry[e].exit = "success" /\ ~entry[e].stopping
  /\ entry' = [entry EXCEPT ![e] = NewEntry("yield", FALSE)]
  /\ UNCHANGED <<active, caller, stopper, status>>

\* Mutant: the hand-over forgets to complete the old entry's `done`.
SettleHandOverSilently(e) ==
  /\ entry[e].phase = "exited" /\ entry[e].pendingWake
  /\ entry[e].exit # "success" \/ entry[e].stopping
  /\ \E n \in Entry :
       /\ Unused(n)
       /\ active' = n
       /\ entry' = [entry EXCEPT ![n] = NewEntry("yield", FALSE), ![e] = Gone]
  /\ stopper' = Released(e)
  /\ UNCHANGED <<caller, status>>

\* settle, second branch: the entry failed or is stopping, so the follow-up
\* gets an entry of its own and `done` completes with the old Exit.
SettleHandOver(e) ==
  /\ entry[e].phase = "exited" /\ entry[e].pendingWake
  /\ entry[e].exit # "success" \/ entry[e].stopping
  /\ \E n \in Entry :
       /\ Unused(n)
       /\ active' = n
       /\ entry' = [entry EXCEPT ![n] = NewEntry("yield", FALSE), ![e] = Gone]
  /\ caller' = Resumed(e, entry[e].exit)
  /\ stopper' = Released(e)
  /\ UNCHANGED status

\* Mutant: the entry leaves the map before idle is published.
SettleDeletesFirst(e) ==
  /\ entry[e].phase = "exited" /\ ~entry[e].pendingWake
  /\ entry' = [entry EXCEPT ![e].phase = "idle", ![e].stopping = TRUE]
  /\ active' = NoEntry
  /\ UNCHANGED <<caller, stopper, status>>

\* Mutant: a stopped entry is removed without publishing idle.
SettleSkipsIdle(e) ==
  /\ entry[e].phase = "exited" /\ ~entry[e].pendingWake
  /\ entry' = [entry EXCEPT ![e].phase = "closing", ![e].stopping = TRUE]
  /\ UNCHANGED <<active, caller, stopper, status>>

\* settle, last branch: keep the entry, as stopping, while idle is published.
SettlePublishIdle(e) ==
  /\ entry[e].phase = "exited" /\ ~entry[e].pendingWake
  /\ entry' = [entry EXCEPT ![e].phase = "idle", ![e].stopping = TRUE]
  /\ UNCHANGED <<active, caller, stopper, status>>

\* Mutant: the idle status is published as the third status type, "retry".
PublishIdleAsRetry(e) ==
  /\ entry[e].phase = "idle"
  /\ entry' = [entry EXCEPT ![e].phase = "closing"]
  /\ status' = "retry"
  /\ UNCHANGED <<active, caller, stopper>>

\* onStatus(key, false) publishes; or it dies, or the Session is gone, and
\* observers are left with whatever was published before.
PublishIdle(e) ==
  /\ entry[e].phase = "idle"
  /\ entry' = [entry EXCEPT ![e].phase = "closing"]
  /\ status' \in {"idle", IF status = "busy" THEN "stuck" ELSE status}
  /\ UNCHANGED <<active, caller, stopper>>

\* Mutant: a wake that arrived during the idle publication is dropped.
CloseDropsWake(e) ==
  /\ entry[e].phase = "closing"
  /\ active' = NoEntry
  /\ entry' = [entry EXCEPT ![e] = Gone]
  /\ caller' = Resumed(e, entry[e].exit)
  /\ stopper' = Released(e)
  /\ UNCHANGED status

\* Effect.ensuring: remove the entry, start a new busy interval for a wake
\* that arrived during the publication, complete `done`.
Close(e) ==
  /\ entry[e].phase = "closing"
  /\ \/ /\ ~entry[e].pendingWake
        /\ active' = NoEntry
        /\ entry' = [entry EXCEPT ![e] = Gone]
     \/ \E n \in Entry :
          /\ entry[e].pendingWake /\ Unused(n)
          /\ active' = n
          /\ entry' = [entry EXCEPT ![n] = NewEntry("busy", FALSE), ![e] = Gone]
  /\ caller' = Resumed(e, entry[e].exit)
  /\ stopper' = Released(e)
  /\ UNCHANGED status

FiberStep(e) ==
  \/ PublishBusy(e) \/ BusyDies(e) \/ InterruptedBeforeDrain(e)
  \/ StartDrain(e) \/ DrainExit(e)
  \/ SettleFollowUp(e) \/ SettleHandOver(e) \/ SettlePublishIdle(e)
  \/ PublishIdle(e) \/ Close(e)

Next ==
  \/ Wake
  \/ \E r \in Caller : Run(r) \/ Return(r) \/ Abandon(r)
  \/ \E s \in Stopper : Interrupt(s)
  \/ \E e \in Entry : FiberStep(e)

Spec == Init /\ [][Next]_vars

\* The runtime runs every fiber that can run.  Weak fairness on the owner's
\* steps includes DrainExit: a drain ends.  Nobody has to call anything.
Fairness ==
  /\ \A e \in Entry : WF_vars(FiberStep(e))
  /\ \A r \in Caller : WF_vars(Return(r))

FairSpec == Spec /\ Fairness

------------------------------------------------------------------------------
(* Correctness.                                                            *)

TypeOK ==
  /\ active \in Entry \union {NoEntry}
  /\ entry \in [Entry -> EntryType]
  /\ caller \in [Caller -> CallerType]
  /\ stopper \in [Stopper -> Entry \union {NoEntry}]
  /\ status \in {"none", "busy", "idle", "stuck"}

\* Execution is serialized: the only fiber that is draining, about to drain or
\* still publishing idle is the owner of the entry in the map, and that entry
\* always has one.  So two drains never overlap, and an idle publication never
\* lands on top of a newer entry's busy (the comment at run-coordinator.ts:69).
OneOwner ==
  \A e \in Entry : (entry[e].phase \in Live) <=> (active = e)

\* Nobody waits for an entry that has left the map: whoever awaits `done`, or
\* an owner's end, waits for the entry that is active, so its settlement will
\* resume them.  An entry in the map has not been settled.
NoOrphan ==
  /\ \A r \in Caller :
       caller[r].mode \in Waiting /\ caller[r].got = "open" => caller[r].on = active /\ active # NoEntry
  /\ \A s \in Stopper : stopper[s] # NoEntry => stopper[s] = active

\* With no entry in the map the last status published is not busy, unless the
\* publication of idle itself died.
QuietIsIdle == active = NoEntry => status # "busy"

\* Work recorded by a wake that no drain begun after it has seen.
Owed ==
  /\ active # NoEntry
  /\ \/ entry[active].pendingWake
     \/ entry[active].phase \in Starting /\ ~entry[active].stopping

\* A wake is never lost: what it owes is discharged only by a drain that starts
\* afterwards, by an interrupt, or by a death of the busy publication before
\* the drain.  In particular no settlement, removal or hand-over drops it.
NoLostWake ==
  [][Owed /\ ~Owed' =>
       \/ \E e \in Entry : StartDrain(e) \/ BusyDies(e)
       \/ \E s \in Stopper : Interrupt(s)]_vars

\* The coordinator implements the abstract gate, with its fairness.
GateState ==
  IF active = NoEntry THEN "idle"
  ELSE IF entry[active].phase \in Publishing THEN "closing" ELSE "serving"

GateOwed == active # NoEntry /\ entry[active].pendingWake

Gate == INSTANCE DrainGate WITH state <- GateState, owed <- GateOwed

GateSpec == Gate!Spec
GateFairSpec == Gate!FairSpec

\* Somebody calls the coordinator.
Call ==
  \/ Wake
  \/ \E r \in Caller : Run(r)
  \/ \E s \in Stopper : Interrupt(s)

\* Every call of run returns and every interrupt returns once new calls stop.
\* Until then a caller may wait: successful drains that keep finding another
\* wake pending settle no entry, and a caller behind a stopping entry may find
\* the next one stopping too.
WaitersReturn ==
  \/ []<><<Call>>_vars
  \/ /\ \A r \in Caller : caller[r].mode \in Waiting ~> caller[r].mode \notin Waiting
     /\ \A s \in Stopper : stopper[s] # NoEntry ~> stopper[s] = NoEntry

\* The test "starts a resume registered during interruption cleanup"
\* (session-run-coordinator.test.ts:212): a resume that found the entry
\* stopping goes on to run, rather than failing with the interrupted drain's
\* Exit.
ResumeAfterCleanup ==
  [][\A r \in Caller :
       ~(/\ caller[r].mode = "afterStop" /\ caller[r].got = "interrupted"
         /\ caller'[r].mode = "failed")]_vars

==============================================================================
