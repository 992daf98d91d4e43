------------------------ MODULE RunCoordinator_proofs ------------------------
(***************************************************************************)
(* Proofs about RunCoordinator: its type invariant, that one owner at a    *)
(* time holds the Session, that no waiter is orphaned, and that it         *)
(* implements DrainGate's safety part, for any sets of entries, callers    *)
(* and interrupters.                                                       *)
(***************************************************************************)
EXTENDS RunCoordinator, TLAPS

\* The entry constructor builds entries, which owe no wake and are not stopping.
LEMMA NewEntryType ==
  ASSUME NEW f \in BOOLEAN, NEW p \in {"busy", "yield"}
  PROVE  NewEntry(p, f) \in EntryType
  BY DEF NewEntry, EntryType, Exits, Phases, Live, Starting

LEMMA GoneType ==
  /\ Gone \in EntryType
  /\ Gone.phase = "gone"
  BY DEF Gone, NewEntry, EntryType, Exits, Phases

\* Resuming and releasing waiters keeps their types.
LEMMA ResumedType ==
  ASSUME TypeOK, NEW e \in Entry, NEW x \in Exits
  PROVE  Resumed(e, x) \in [Caller -> CallerType]
  <1> SUFFICES ASSUME NEW r \in Caller
               PROVE  (IF caller[r].on = e THEN [caller[r] EXCEPT !.on = NoEntry, !.got = x]
                                           ELSE caller[r]) \in CallerType
    BY DEF Resumed
  <1>1. caller[r] \in CallerType
    BY DEF TypeOK
  <1> QED
    BY <1>1 DEF CallerType

LEMMA ReleasedType ==
  ASSUME TypeOK, NEW e \in Entry
  PROVE  Released(e) \in [Stopper -> Entry \union {NoEntry}]
  BY DEF Released, TypeOK

------------------------------------------------------------------------------

\* Evaluating run keeps the types.
LEMMA EvaluateRunType ==
  ASSUME TypeOK, NEW r \in Caller, EvaluateRun(r)
  PROVE  /\ active' \in Entry \union {NoEntry}
         /\ entry' \in [Entry -> EntryType]
         /\ caller' \in [Caller -> CallerType]
  <1>1. CASE \E e \in Entry :
               /\ active = NoEntry /\ Unused(e)
               /\ active' = e
               /\ entry' = [entry EXCEPT ![e] = NewEntry("busy", TRUE)]
               /\ caller' = [caller EXCEPT ![r] = [mode |-> "join", on |-> e, got |-> "open"]]
    <2>1. PICK e \in Entry :
            /\ active' = e
            /\ entry' = [entry EXCEPT ![e] = NewEntry("busy", TRUE)]
            /\ caller' = [caller EXCEPT ![r] = [mode |-> "join", on |-> e, got |-> "open"]]
      BY <1>1
    <2>2. NewEntry("busy", TRUE) \in EntryType
      BY NewEntryType
    <2>3. [mode |-> "join", on |-> e, got |-> "open"] \in CallerType
      BY DEF CallerType
    <2> QED
      BY <2>1, <2>2, <2>3 DEF TypeOK
  <1>2. CASE /\ active # NoEntry
             /\ caller' = [caller EXCEPT ![r] =
                  [mode |-> IF entry[active].stopping THEN "afterStop" ELSE "join",
                   on |-> active, got |-> "open"]]
             /\ UNCHANGED <<active, entry>>
    BY <1>2 DEF TypeOK, CallerType
  <1> QED
    BY <1>1, <1>2 DEF EvaluateRun

LEMMA TypeStep == TypeOK /\ [Next]_vars => TypeOK'
  <1> SUFFICES ASSUME TypeOK, [Next]_vars PROVE TypeOK'
    OBVIOUS
  <1> USE DEF Phases, Live, Starting, Publishing
  <1>1. CASE Wake
    <2>1. CASE active # NoEntry /\ entry' = [entry EXCEPT ![active].pendingWake = TRUE]
               /\ UNCHANGED active
      BY <1>1, <2>1 DEF Wake, TypeOK, EntryType
    <2>2. CASE \E e \in Entry : active' = e /\ entry' = [entry EXCEPT ![e] = NewEntry("busy", FALSE)]
      <3>1. NewEntry("busy", FALSE) \in EntryType
        BY NewEntryType
      <3> QED
        BY <1>1, <2>2, <3>1 DEF Wake, TypeOK
    <2> QED
      BY <1>1, <2>1, <2>2 DEF Wake
  <1>2. ASSUME NEW r \in Caller, Run(r) PROVE TypeOK'
    BY <1>2, EvaluateRunType DEF Run, TypeOK
  <1>3. ASSUME NEW r \in Caller, Return(r) PROVE TypeOK'
    <2>1. CASE caller[r].mode = "afterStop" /\ caller[r].got = "success"
      BY <1>3, <2>1, EvaluateRunType DEF Return, TypeOK
    <2>2. CASE ~(caller[r].mode = "afterStop" /\ caller[r].got = "success")
      <3>1. [Quiet EXCEPT !.mode = IF caller[r].got = "success" THEN "returned" ELSE "failed"]
              \in CallerType
        BY DEF Quiet, CallerType
      <3> QED
        BY <1>3, <2>2, <3>1 DEF Return, TypeOK
    <2> QED
      BY <2>1, <2>2
  <1>4. ASSUME NEW r \in Caller, Abandon(r) PROVE TypeOK'
    <2>1. Quiet \in CallerType
      BY DEF Quiet, CallerType
    <2> QED
      BY <1>4, <2>1 DEF Abandon, TypeOK
  <1>5. ASSUME NEW s \in Stopper, Interrupt(s) PROVE TypeOK'
    BY <1>5 DEF Interrupt, TypeOK, EntryType
  <1>6. ASSUME NEW e \in Entry, FiberStep(e) PROVE TypeOK'
    <2>1. CASE PublishBusy(e)
      BY <2>1 DEF PublishBusy, TypeOK, EntryType
    <2>2. CASE BusyDies(e)
      BY <2>2 DEF BusyDies, TypeOK, EntryType, Exits
    <2>3. CASE InterruptedBeforeDrain(e)
      <3>1. [entry[e] EXCEPT !.phase = "exited", !.exit = "interrupted"] \in EntryType
        BY DEF TypeOK, EntryType, Exits
      <3>2. /\ entry' = [entry EXCEPT ![e].phase = "exited", ![e].exit = "interrupted"]
            /\ UNCHANGED <<active, caller, stopper, status>>
        BY <2>3 DEF InterruptedBeforeDrain
      <3> QED
        BY <3>1, <3>2 DEF TypeOK
    <2>4. CASE StartDrain(e)
      BY <2>4 DEF StartDrain, TypeOK, EntryType
    <2>5. CASE DrainExit(e)
      <3>1. PICK x \in Exits : entry' = [entry EXCEPT ![e].phase = "exited", ![e].exit = x]
        BY <2>5 DEF DrainExit
      <3>2. [entry[e] EXCEPT !.phase = "exited", !.exit = x] \in EntryType
        BY DEF TypeOK, EntryType
      <3> QED
        BY <2>5, <3>1, <3>2 DEF DrainExit, TypeOK
    <2>6. CASE SettleFollowUp(e)
      <3>1. NewEntry("yield", FALSE) \in EntryType
        BY NewEntryType
      <3> QED
        BY <2>6, <3>1 DEF SettleFollowUp, TypeOK
    <2>7. CASE SettleHandOver(e)
      <3>1. entry[e].exit \in Exits
        BY DEF TypeOK, EntryType
      <3>2. caller' \in [Caller -> CallerType] /\ stopper' \in [Stopper -> Entry \union {NoEntry}]
        BY <2>7, <3>1, ResumedType, ReleasedType DEF SettleHandOver
      <3> QED
        BY <2>7, <3>2, NewEntryType, GoneType DEF SettleHandOver, TypeOK
    <2>8. CASE SettlePublishIdle(e)
      BY <2>8 DEF SettlePublishIdle, TypeOK, EntryType
    <2>9. CASE PublishIdle(e)
      BY <2>9 DEF PublishIdle, TypeOK, EntryType
    <2>10. CASE Close(e)
      <3>1. entry[e].exit \in Exits
        BY DEF TypeOK, EntryType
      <3>2. caller' \in [Caller -> CallerType] /\ stopper' \in [Stopper -> Entry \union {NoEntry}]
        BY <2>10, <3>1, ResumedType, ReleasedType DEF Close
      <3> QED
        BY <2>10, <3>2, NewEntryType, GoneType DEF Close, TypeOK
    <2> QED
      BY <1>6, <2>1, <2>2, <2>3, <2>4, <2>5, <2>6, <2>7, <2>8, <2>9, <2>10 DEF FiberStep
  <1>7. CASE UNCHANGED vars
    BY <1>7 DEF vars, TypeOK
  <1> QED
    BY <1>1, <1>2, <1>3, <1>4, <1>5, <1>6, <1>7 DEF Next

LEMMA TypeInit == Init => TypeOK
  BY GoneType DEF Init, TypeOK, CallerType, Quiet

\* Every variable keeps its type: entries, waiters, interrupters and the
\* published status of session/run-coordinator.ts.
THEOREM TypeCorrect == Spec => []TypeOK
  BY TypeInit, TypeStep, PTL DEF Spec

------------------------------------------------------------------------------
(* One owner.                                                              *)

Inv == TypeOK /\ OneOwner /\ NoOrphan

LEMMA InvInit == Init => Inv
  <1> SUFFICES ASSUME Init PROVE OneOwner /\ NoOrphan
    BY TypeInit DEF Inv
  <1>1. OneOwner
    BY GoneType, NoEntryAssumption DEF Init, OneOwner, Live, Starting, Publishing
  <1>2. NoOrphan
    BY DEF Init, NoOrphan, Quiet, Waiting
  <1> QED
    BY <1>1, <1>2

\* A step that creates entry n while none is active makes n the owner.
LEMMA FirstOwner ==
  ASSUME Inv, active = NoEntry, NEW n \in Entry, NEW f \in BOOLEAN,
         active' = n, entry' = [entry EXCEPT ![n] = NewEntry("busy", f)]
  PROVE  OneOwner'
  <1>1. entry'[n] = NewEntry("busy", f) /\ \A d \in Entry \ {n} : entry'[d] = entry[d]
    BY DEF Inv, TypeOK
  <1>2. entry'[n].phase \in Live
    BY <1>1 DEF NewEntry, Live, Starting
  <1>3. \A d \in Entry : entry[d].phase \notin Live
    BY NoEntryAssumption DEF Inv, OneOwner
  <1> QED
    BY <1>1, <1>2, <1>3 DEF OneOwner

\* A step that hands over from the owner e to a fresh entry n makes n the owner.
LEMMA NextOwner ==
  ASSUME Inv, NEW e \in Entry, NEW n \in Entry, entry[e].phase \in Live, Unused(n),
         NEW p \in {"busy", "yield"}, NEW f \in BOOLEAN,
         active' = n,
         entry' = [entry EXCEPT ![n] = NewEntry(p, f), ![e] = Gone]
  PROVE  OneOwner'
  <1>1. active = e /\ n # e
    BY DEF Inv, OneOwner, Unused
  <1>2. entry'[n].phase \in Live /\ entry'[e].phase \notin Live
    <2>1. entry'[n] = NewEntry(p, f) /\ entry'[e] = Gone
      BY <1>1 DEF Inv, TypeOK
    <2>2. entry'[n].phase \in Live
      BY <2>1 DEF NewEntry, Live, Starting
    <2>3. entry'[e].phase \notin Live
      BY <2>1, GoneType DEF Live, Starting, Publishing
    <2> QED
      BY <2>2, <2>3
  <1>3. \A d \in Entry : d # e /\ d # n => entry'[d] = entry[d]
    BY DEF Inv, TypeOK
  <1> QED
    BY <1>1, <1>2, <1>3 DEF Inv, OneOwner

\* A step of the owner that keeps it live and in the map keeps it the owner.
LEMMA SameOwner ==
  ASSUME Inv, NEW e \in Entry, entry[e].phase \in Live, UNCHANGED active,
         NEW new, new.phase \in Live, entry' = [entry EXCEPT ![e] = new]
  PROVE  OneOwner'
  BY DEF Inv, TypeOK, OneOwner

\* When e's waiters are resumed, nobody still waits for it.
LEMMA NobodyLeft ==
  ASSUME Inv, NEW e \in Entry, active = e, NEW x \in Exits,
         caller' = Resumed(e, x), stopper' = Released(e)
  PROVE  NoOrphan'
  <1>1. ASSUME NEW r \in Caller, caller'[r].mode \in Waiting, caller'[r].got = "open"
        PROVE  FALSE
    <2>1. caller[r].on # e
      BY <1>1 DEF Resumed, Exits, Inv, TypeOK, CallerType
    <2>2. caller'[r] = caller[r]
      BY <2>1 DEF Resumed
    <2> QED
      BY <1>1, <2>1, <2>2 DEF Inv, NoOrphan
  <1>2. ASSUME NEW s \in Stopper PROVE stopper'[s] = NoEntry
    BY DEF Released, Inv, NoOrphan
  <1> QED
    BY <1>1, <1>2 DEF NoOrphan

\* Evaluating run keeps the owner and the other waiters.
LEMMA EvaluateRunInv ==
  ASSUME Inv, NEW r \in Caller, EvaluateRun(r), UNCHANGED stopper
  PROVE  OneOwner' /\ NoOrphan'
  <1>1. ASSUME NEW e \in Entry, active = NoEntry, active' = e,
               entry' = [entry EXCEPT ![e] = NewEntry("busy", TRUE)],
               caller' = [caller EXCEPT ![r] = [mode |-> "join", on |-> e, got |-> "open"]]
        PROVE  OneOwner' /\ NoOrphan'
    <2>1. OneOwner'
      BY <1>1, FirstOwner
    <2>2. NoOrphan'
      BY <1>1, NoEntryAssumption DEF Inv, TypeOK, NoOrphan, Waiting
    <2> QED
      BY <2>1, <2>2
  <1>2. ASSUME active # NoEntry, NEW m \in Waiting,
               caller' = [caller EXCEPT ![r] = [mode |-> m, on |-> active, got |-> "open"]],
               UNCHANGED <<active, entry>>
        PROVE  OneOwner' /\ NoOrphan'
    <2>1. OneOwner'
      BY <1>2 DEF Inv, OneOwner
    <2>2. NoOrphan'
      BY <1>2 DEF Inv, TypeOK, NoOrphan
    <2> QED
      BY <2>1, <2>2
  <1> QED
    BY <1>1, <1>2 DEF EvaluateRun, Waiting

LEMMA InvStep == Inv /\ [Next]_vars => Inv'
  <1> SUFFICES ASSUME Inv, [Next]_vars PROVE OneOwner' /\ NoOrphan'
    BY TypeStep DEF Inv
  <1> USE DEF Inv
  <1>1. CASE Wake
    <2>1. ASSUME active # NoEntry, UNCHANGED active,
                 entry' = [entry EXCEPT ![active].pendingWake = TRUE]
          PROVE  OneOwner'
      BY <2>1 DEF TypeOK, OneOwner, EntryType
    <2>2. ASSUME NEW e \in Entry, active = NoEntry, active' = e,
                 entry' = [entry EXCEPT ![e] = NewEntry("busy", FALSE)]
          PROVE  OneOwner'
      BY <2>2, FirstOwner
    <2>3. OneOwner'
      BY <1>1, <2>1, <2>2 DEF Wake
    <2>4. NoOrphan'
      BY <1>1 DEF Wake, NoOrphan
    <2> QED
      BY <2>3, <2>4
  <1>2. ASSUME NEW r \in Caller, Run(r) PROVE OneOwner' /\ NoOrphan'
    BY <1>2, EvaluateRunInv DEF Run
  <1>3. ASSUME NEW r \in Caller, Return(r) PROVE OneOwner' /\ NoOrphan'
    <2>1. CASE EvaluateRun(r)
      BY <1>3, <2>1, EvaluateRunInv DEF Return
    <2>2. CASE ~EvaluateRun(r)
      <3>1. /\ UNCHANGED <<active, entry, stopper>>
            /\ \E m \in {"returned", "failed"} :
                 caller' = [caller EXCEPT ![r] = [Quiet EXCEPT !.mode = m]]
        BY <1>3, <2>2 DEF Return
      <3>2. caller'[r].mode \notin Waiting /\ \A q \in Caller \ {r} : caller'[q] = caller[q]
        BY <3>1 DEF TypeOK, Quiet, Waiting
      <3> QED
        BY <3>1, <3>2 DEF OneOwner, NoOrphan
    <2> QED
      BY <2>1, <2>2
  <1>4. ASSUME NEW r \in Caller, Abandon(r) PROVE OneOwner' /\ NoOrphan'
    <2>1. caller'[r].mode \notin Waiting /\ \A q \in Caller \ {r} : caller'[q] = caller[q]
      BY <1>4 DEF Abandon, TypeOK, Quiet, Waiting
    <2> QED
      BY <1>4, <2>1 DEF Abandon, OneOwner, NoOrphan
  <1>5. ASSUME NEW s \in Stopper, Interrupt(s) PROVE OneOwner' /\ NoOrphan'
    <2>1. OneOwner'
      BY <1>5 DEF Interrupt, TypeOK, OneOwner, EntryType
    <2>2. NoOrphan'
      BY <1>5 DEF Interrupt, TypeOK, NoOrphan
    <2> QED
      BY <2>1, <2>2
  <1>6. ASSUME NEW e \in Entry, FiberStep(e) PROVE OneOwner' /\ NoOrphan'
    <2> USE DEF Live, Starting, Publishing
    <2> SUFFICES ASSUME entry[e].phase \in Live PROVE OneOwner' /\ NoOrphan'
      BY <1>6 DEF FiberStep, PublishBusy, BusyDies, InterruptedBeforeDrain, StartDrain, DrainExit,
                  SettleFollowUp, SettleHandOver, SettlePublishIdle, PublishIdle, Close
    <2>0. active = e /\ entry[e].exit \in Exits /\ entry[e] \in EntryType
      BY DEF OneOwner, TypeOK, EntryType
    <2>1. ASSUME UNCHANGED <<active, caller, stopper>>,
                 NEW new, new.phase \in Live, entry' = [entry EXCEPT ![e] = new]
          PROVE  OneOwner' /\ NoOrphan'
      BY <2>1, SameOwner DEF NoOrphan
    <2>2. CASE PublishBusy(e)
      BY <2>2, <2>1, <2>0 DEF PublishBusy, EntryType
    <2>3. CASE BusyDies(e) \/ InterruptedBeforeDrain(e) \/ DrainExit(e)
      <3>1. PICK x \in Exits :
              /\ entry' = [entry EXCEPT ![e] = [entry[e] EXCEPT !.phase = "exited", !.exit = x]]
              /\ UNCHANGED <<active, caller, stopper>>
        BY <2>3 DEF BusyDies, InterruptedBeforeDrain, DrainExit, Exits
      <3>2. [entry[e] EXCEPT !.phase = "exited", !.exit = x].phase \in Live
        BY <2>0 DEF EntryType
      <3> QED
        BY <2>1, <3>1, <3>2
    <2>4. CASE StartDrain(e)
      <3>1. [entry[e] EXCEPT !.phase = "drain"].phase \in Live
        BY <2>0 DEF EntryType
      <3> QED
        BY <2>4, <2>1, <3>1 DEF StartDrain
    <2>5. CASE SettleFollowUp(e)
      BY <2>5, <2>1 DEF SettleFollowUp, NewEntry
    <2>6. CASE SettleHandOver(e)
      <3>1. PICK n \in Entry : Unused(n) /\ active' = n
                 /\ entry' = [entry EXCEPT ![n] = NewEntry("yield", FALSE), ![e] = Gone]
        BY <2>6 DEF SettleHandOver
      <3>2. OneOwner'
        BY <3>1, NextOwner
      <3>3. NoOrphan'
        BY <2>6, <2>0, NobodyLeft DEF SettleHandOver
      <3> QED
        BY <3>2, <3>3
    <2>7. CASE SettlePublishIdle(e)
      <3>1. [entry[e] EXCEPT !.phase = "idle", !.stopping = TRUE].phase \in Live
        BY <2>0 DEF EntryType
      <3> QED
        BY <2>7, <2>1, <3>1 DEF SettlePublishIdle
    <2>8. CASE PublishIdle(e)
      BY <2>8, <2>1, <2>0 DEF PublishIdle, EntryType
    <2>9. CASE Close(e)
      <3>1. NoOrphan'
        BY <2>9, <2>0, NobodyLeft DEF Close
      <3>2. ASSUME active' = NoEntry, entry' = [entry EXCEPT ![e] = Gone]
            PROVE  OneOwner'
        BY <3>2, <2>0, GoneType, NoEntryAssumption DEF TypeOK, OneOwner
      <3>3. ASSUME NEW n \in Entry, Unused(n), active' = n,
                   entry' = [entry EXCEPT ![n] = NewEntry("busy", FALSE), ![e] = Gone]
            PROVE  OneOwner'
        BY <3>3, NextOwner
      <3> QED
        BY <2>9, <3>1, <3>2, <3>3 DEF Close
    <2> QED
      BY <1>6, <2>2, <2>3, <2>4, <2>5, <2>6, <2>7, <2>8, <2>9 DEF FiberStep
  <1>7. CASE UNCHANGED vars
    BY <1>7 DEF vars, OneOwner, NoOrphan
  <1> QED
    BY <1>1, <1>2, <1>3, <1>4, <1>5, <1>6, <1>7 DEF Next

LEMMA Invariance == Spec => []Inv
  BY InvInit, InvStep, PTL DEF Spec

\* Two drains of one Session never overlap, and no fiber of an earlier entry
\* is left publishing once a newer entry is in the map.
THEOREM OneOwnerAlways == Spec => []OneOwner
  BY Invariance, PTL DEF Inv

\* Every caller of run and of interrupt waits for the entry in the map, whose
\* settlement resumes it: none is left behind by a hand-over.
THEOREM NoOrphanAlways == Spec => []NoOrphan
  BY Invariance, PTL DEF Inv

------------------------------------------------------------------------------
(* The published status.                                                   *)

\* Nothing is busy once the idle publication is over, and while no entry is in
\* the map.
Announced ==
  /\ QuietIsIdle
  /\ \A e \in Entry : entry[e].phase = "closing" => status # "busy"

\* A step that publishes nothing, and brings no entry to its removal.
LEMMA SilentStep ==
  ASSUME Inv, Announced, UNCHANGED status, active' # NoEntry \/ active = NoEntry,
         \A e \in Entry : entry'[e].phase = "closing" => entry[e].phase = "closing"
  PROVE  Announced'
  BY DEF Announced, QuietIsIdle

LEMMA AnnouncedStep == Inv /\ Announced /\ [Next]_vars => Announced'
  <1> SUFFICES ASSUME Inv, Announced, [Next]_vars
               PROVE  Announced'
    OBVIOUS
  <1>0. \A p, f : NewEntry(p, f).phase = p /\ Gone.phase = "gone"
    BY GoneType DEF NewEntry
  <1>1. ASSUME NEW r \in Caller, EvaluateRun(r), UNCHANGED status PROVE Announced'
    <2>1. ASSUME NEW e \in Entry, active' = e,
                 entry' = [entry EXCEPT ![e] = NewEntry("busy", TRUE)]
          PROVE  Announced'
      BY <1>0, <1>1, <2>1, SilentStep, NoEntryAssumption DEF Inv, TypeOK
    <2>2. CASE UNCHANGED <<active, entry>>
      BY <1>1, <2>2, SilentStep
    <2> QED
      BY <1>1, <2>1, <2>2 DEF EvaluateRun
  <1>2. CASE Wake
    <2>1. ASSUME NEW e \in Entry, active' = e,
                 entry' = [entry EXCEPT ![e] = NewEntry("busy", FALSE)]
          PROVE  Announced'
      BY <1>0, <1>2, <2>1, SilentStep, NoEntryAssumption DEF Wake, Inv, TypeOK
    <2>2. CASE entry' = [entry EXCEPT ![active].pendingWake = TRUE] /\ UNCHANGED active
      BY <1>2, <2>2, SilentStep DEF Wake, Inv, TypeOK, EntryType
    <2> QED
      BY <1>2, <2>1, <2>2 DEF Wake
  <1>3. ASSUME NEW r \in Caller, Run(r) \/ Return(r) \/ Abandon(r) PROVE Announced'
    <2>1. UNCHANGED status /\ (EvaluateRun(r) \/ UNCHANGED <<active, entry>>)
      BY <1>3 DEF Run, Return, Abandon
    <2> QED
      BY <1>1, <2>1, SilentStep
  <1>4. ASSUME NEW s \in Stopper, Interrupt(s) PROVE Announced'
    BY <1>4, SilentStep DEF Interrupt, Inv, TypeOK, EntryType
  <1>5. ASSUME NEW e \in Entry, FiberStep(e) PROVE Announced'
    <2> USE DEF Live, Starting, Publishing
    <2>0. /\ entry[e].phase \in Live => active = e /\ e # NoEntry
          /\ entry[e] \in EntryType
      BY NoEntryAssumption DEF Inv, OneOwner, TypeOK
    <2>1. CASE PublishBusy(e)
      <3>1. active' = e /\ e # NoEntry
        BY <2>0, <2>1 DEF PublishBusy
      <3>2. \A d \in Entry : entry'[d].phase # "closing"
        BY <2>0, <2>1 DEF PublishBusy, Inv, OneOwner, TypeOK, EntryType
      <3> QED
        BY <3>1, <3>2 DEF Announced, QuietIsIdle
    <2>2. CASE BusyDies(e) \/ InterruptedBeforeDrain(e) \/ StartDrain(e) \/ DrainExit(e)
      <3>1. UNCHANGED <<active, status>> /\ active # NoEntry
        BY <2>0, <2>2 DEF BusyDies, InterruptedBeforeDrain, StartDrain, DrainExit
      <3>2. \E p \in {"exited", "drain"} : entry'[e].phase = p
            /\ \A d \in Entry \ {e} : entry'[d] = entry[d]
        BY <2>0, <2>2 DEF BusyDies, InterruptedBeforeDrain, StartDrain, DrainExit, Inv, TypeOK,
                          EntryType
      <3> QED
        BY <3>1, <3>2, SilentStep
    <2>3. CASE SettleFollowUp(e)
      <3>1. entry' = [entry EXCEPT ![e] = NewEntry("yield", FALSE)]
            /\ UNCHANGED <<active, status>>
        BY <2>3 DEF SettleFollowUp
      <3>2. \A d \in Entry : entry'[d].phase = "closing" => entry[d].phase = "closing"
        BY <1>0, <3>1 DEF Inv, TypeOK
      <3> QED
        BY <3>1, <3>2, SilentStep
    <2>4. CASE SettleHandOver(e)
      <3>1. PICK n \in Entry : active' = n
                 /\ entry' = [entry EXCEPT ![n] = NewEntry("yield", FALSE), ![e] = Gone]
        BY <2>4 DEF SettleHandOver
      <3>2. \A d \in Entry : entry'[d].phase = "closing" => entry[d].phase = "closing"
        BY <1>0, <3>1 DEF Inv, TypeOK
      <3> QED
        BY <2>4, <3>1, <3>2, SilentStep, NoEntryAssumption DEF SettleHandOver
    <2>5. CASE SettlePublishIdle(e)
      BY <2>0, <2>5, SilentStep DEF SettlePublishIdle, Inv, TypeOK, EntryType
    <2>6. CASE PublishIdle(e)
      BY <2>6 DEF PublishIdle, Announced, QuietIsIdle
    <2>7. CASE Close(e)
      <3>1. status' # "busy"
        BY <2>7 DEF Close, Announced
      <3> QED
        BY <3>1 DEF Announced, QuietIsIdle
    <2> QED
      BY <1>5, <2>1, <2>2, <2>3, <2>4, <2>5, <2>6, <2>7 DEF FiberStep
  <1>6. CASE UNCHANGED vars
    BY <1>6, SilentStep DEF vars
  <1> QED
    BY <1>2, <1>3, <1>4, <1>5, <1>6 DEF Next

\* A Session without an entry in the map is not shown as busy, unless the
\* publication of idle died.
THEOREM QuietIsIdleAlways == Spec => []QuietIsIdle
  <1>1. Init => Announced
    BY GoneType DEF Init, Announced, QuietIsIdle
  <1>2. Announced => QuietIsIdle
    BY DEF Announced
  <1> QED
    BY <1>1, <1>2, AnnouncedStep, Invariance, PTL DEF Spec

------------------------------------------------------------------------------
(* The abstract gate.                                                      *)

LEMMA GateInit == Init => Gate!Init
  BY DEF Init, Gate!Init, GateState, GateOwed

\* What a step that keeps the entry in the map shows the gate.
LEMMA SameEntryView ==
  ASSUME Inv, active \in Entry, UNCHANGED active,
         entry'[active].pendingWake = entry[active].pendingWake,
         (entry'[active].phase \in Publishing) <=> (entry[active].phase \in Publishing)
  PROVE  UNCHANGED <<GateState, GateOwed>>
  BY NoEntryAssumption DEF GateState, GateOwed

\* What a fresh entry in the map shows the gate.
LEMMA NewEntryView ==
  ASSUME NEW n \in Entry, active' = n, NEW p \in {"busy", "yield"}, NEW f \in BOOLEAN,
         entry'[n] = NewEntry(p, f)
  PROVE  GateState' = "serving" /\ GateOwed' = FALSE
  BY NoEntryAssumption DEF GateState, GateOwed, NewEntry, Publishing

LEMMA EvaluateRunView ==
  ASSUME Inv, NEW r \in Caller, EvaluateRun(r)
  PROVE  Gate!Ask \/ UNCHANGED <<GateState, GateOwed>>
  <1>1. ASSUME NEW e \in Entry, active = NoEntry, active' = e,
               entry' = [entry EXCEPT ![e] = NewEntry("busy", TRUE)]
        PROVE  Gate!Ask
    <2>1. entry'[e] = NewEntry("busy", TRUE)
      BY <1>1 DEF Inv, TypeOK
    <2> QED
      BY <1>1, <2>1, NewEntryView DEF GateState, GateOwed, Gate!Ask
  <1>2. ASSUME UNCHANGED <<active, entry>> PROVE UNCHANGED <<GateState, GateOwed>>
    BY <1>2 DEF GateState, GateOwed
  <1> QED
    BY <1>1, <1>2 DEF EvaluateRun

LEMMA GateStep == Inv /\ [Next]_vars => [Gate!Next]_(Gate!vars)
  <1> SUFFICES ASSUME Inv, [Next]_vars
               PROVE  Gate!Next \/ UNCHANGED <<GateState, GateOwed>>
    BY DEF Gate!vars
  <1> USE DEF Gate!Next
  <1>0. active \in Entry \/ active = NoEntry
    BY DEF Inv, TypeOK
  <1>1. CASE Wake
    <2>1. ASSUME active # NoEntry, UNCHANGED active,
                 entry' = [entry EXCEPT ![active].pendingWake = TRUE]
          PROVE  Gate!Ask
      <3>1. entry'[active].pendingWake = TRUE /\ entry'[active].phase = entry[active].phase
        BY <1>0, <2>1 DEF Inv, TypeOK, EntryType
      <3> QED
        BY <2>1, <3>1 DEF GateState, GateOwed, Gate!Ask
    <2>2. ASSUME NEW e \in Entry, active = NoEntry, active' = e,
                 entry' = [entry EXCEPT ![e] = NewEntry("busy", FALSE)]
          PROVE  Gate!Ask
      <3>1. entry'[e] = NewEntry("busy", FALSE)
        BY <2>2 DEF Inv, TypeOK
      <3> QED
        BY <2>2, <3>1, NewEntryView DEF GateState, GateOwed, Gate!Ask
    <2> QED
      BY <1>1, <2>1, <2>2 DEF Wake
  <1>2. ASSUME NEW r \in Caller, Run(r)
        PROVE  Gate!Ask \/ UNCHANGED <<GateState, GateOwed>>
    BY <1>2, EvaluateRunView DEF Run
  <1>3. ASSUME NEW r \in Caller, Return(r) \/ Abandon(r)
        PROVE  Gate!Ask \/ UNCHANGED <<GateState, GateOwed>>
    <2>1. CASE EvaluateRun(r)
      BY <2>1, EvaluateRunView
    <2>2. CASE UNCHANGED <<active, entry>>
      BY <2>2 DEF GateState, GateOwed
    <2> QED
      BY <1>3, <2>1, <2>2 DEF Return, Abandon
  <1>4. ASSUME NEW s \in Stopper, Interrupt(s) PROVE Gate!Halt
    <2>1. active \in Entry /\ entry'[active].phase = entry[active].phase
          /\ entry'[active].pendingWake = FALSE
      BY <1>0, <1>4 DEF Interrupt, Inv, TypeOK, EntryType
    <2> QED
      BY <1>4, <2>1, NoEntryAssumption DEF Interrupt, GateState, GateOwed, Gate!Halt
  <1>5. ASSUME NEW e \in Entry, FiberStep(e)
        PROVE  Gate!Finish \/ Gate!Close \/ UNCHANGED <<GateState, GateOwed>>
    <2> USE DEF Live, Starting, Publishing
    <2>0. active = e /\ active # NoEntry
      BY <1>5, NoEntryAssumption
      DEF Inv, OneOwner, FiberStep, PublishBusy, BusyDies, InterruptedBeforeDrain, StartDrain,
          DrainExit, SettleFollowUp, SettleHandOver, SettlePublishIdle, PublishIdle, Close
    <2>1. CASE \/ PublishBusy(e) \/ BusyDies(e) \/ InterruptedBeforeDrain(e)
               \/ StartDrain(e) \/ DrainExit(e) \/ PublishIdle(e)
      <3>1. /\ UNCHANGED active
            /\ entry'[e].pendingWake = entry[e].pendingWake
            /\ (entry'[e].phase \in Publishing) <=> (entry[e].phase \in Publishing)
        BY <2>1 DEF PublishBusy, BusyDies, InterruptedBeforeDrain, StartDrain, DrainExit,
                    PublishIdle, Inv, TypeOK, EntryType
      <3> QED
        BY <2>0, <3>1, SameEntryView
    <2>2. CASE SettleFollowUp(e)
      <3>1. entry'[e] = NewEntry("yield", FALSE) /\ active' = e
        BY <2>2, <2>0 DEF SettleFollowUp, Inv, TypeOK
      <3>2. GateState' = "serving" /\ GateOwed' = FALSE
        BY <3>1, NewEntryView
      <3> QED
        BY <2>2, <2>0, <3>2 DEF SettleFollowUp, GateState, GateOwed, Gate!Finish
    <2>3. CASE SettleHandOver(e)
      <3>1. PICK n \in Entry : Unused(n) /\ active' = n
                 /\ entry' = [entry EXCEPT ![n] = NewEntry("yield", FALSE), ![e] = Gone]
        BY <2>3 DEF SettleHandOver
      <3>2. entry'[n] = NewEntry("yield", FALSE)
        BY <3>1, <2>0 DEF Unused, Inv, TypeOK
      <3>3. GateState' = "serving" /\ GateOwed' = FALSE
        BY <3>1, <3>2, NewEntryView
      <3> QED
        BY <2>3, <2>0, <3>3 DEF SettleHandOver, GateState, GateOwed, Gate!Finish
    <2>4. CASE SettlePublishIdle(e)
      <3>1. active' = e /\ entry'[e].phase = "idle" /\ entry'[e].pendingWake = entry[e].pendingWake
        BY <2>4, <2>0 DEF SettlePublishIdle, Inv, TypeOK, EntryType
      <3> QED
        BY <2>4, <2>0, <3>1 DEF SettlePublishIdle, GateState, GateOwed, Gate!Finish
    <2>5. CASE Close(e)
      <3>1. GateState = "closing" /\ (GateOwed <=> entry[e].pendingWake)
        BY <2>5, <2>0 DEF Close, GateState, GateOwed
      <3>2. ASSUME ~entry[e].pendingWake, active' = NoEntry PROVE Gate!Close
        BY <3>1, <3>2 DEF GateState, GateOwed, Gate!Close
      <3>3. ASSUME NEW n \in Entry, Unused(n), entry[e].pendingWake, active' = n,
                   entry' = [entry EXCEPT ![n] = NewEntry("busy", FALSE), ![e] = Gone]
            PROVE  Gate!Close
        <4>1. entry'[n] = NewEntry("busy", FALSE)
          BY <3>3, <2>0 DEF Unused, Inv, TypeOK
        <4>2. GateState' = "serving" /\ GateOwed' = FALSE
          BY <3>3, <4>1, NewEntryView
        <4> QED
          BY <3>1, <3>3, <4>2 DEF Gate!Close
      <3> QED
        BY <2>5, <3>2, <3>3 DEF Close
    <2> QED
      BY <1>5, <2>1, <2>2, <2>3, <2>4, <2>5 DEF FiberStep
  <1>6. CASE UNCHANGED vars
    BY <1>6 DEF vars, GateState, GateOwed
  <1> QED
    BY <1>1, <1>2, <1>3, <1>4, <1>5, <1>6 DEF Next

\* The coordinator implements the abstract gate: requests coalesce into one
\* owed follow-up, the follow-up is served before the Session goes idle, and
\* only an interrupt discards it.
THEOREM ImplementsGate == Spec => GateSpec
  BY GateInit, GateStep, Invariance, PTL DEF Spec, Gate!Spec, GateSpec

------------------------------------------------------------------------------
(* No wake is lost.                                                        *)

LEMMA WakeStep ==
  ASSUME Inv, [Next]_vars, Owed, ~Owed'
  PROVE  \/ \E e \in Entry : StartDrain(e) \/ BusyDies(e)
         \/ \E s \in Stopper : Interrupt(s)
  <1> USE DEF Inv, Starting
  <1>0. active \in Entry /\ active # NoEntry
    BY DEF Owed, TypeOK
  <1>1. ASSUME UNCHANGED <<active, entry>> PROVE FALSE
    BY <1>1 DEF Owed
  <1>2. ASSUME Wake PROVE FALSE
    <2>1. active' = active /\ entry' = [entry EXCEPT ![active].pendingWake = TRUE]
      BY <1>0, <1>2 DEF Wake
    <2>2. entry'[active].pendingWake = TRUE
      BY <1>0, <2>1 DEF TypeOK, EntryType
    <2> QED
      BY <1>0, <2>1, <2>2 DEF Owed
  <1>3. ASSUME NEW r \in Caller, EvaluateRun(r) PROVE FALSE
    BY <1>0, <1>1, <1>3 DEF EvaluateRun
  <1>4. ASSUME NEW r \in Caller, Run(r) \/ Return(r) \/ Abandon(r) PROVE FALSE
    BY <1>1, <1>3, <1>4 DEF Run, Return, Abandon
  <1>5. ASSUME NEW e \in Entry, FiberStep(e), ~StartDrain(e), ~BusyDies(e) PROVE FALSE
    <2>0. active = e
      BY <1>5 DEF OneOwner, Live, Publishing, FiberStep, PublishBusy, InterruptedBeforeDrain,
                  DrainExit, SettleFollowUp, SettleHandOver, SettlePublishIdle, PublishIdle, Close
    <2>1. CASE PublishBusy(e)
      <3>1. /\ active' = active
            /\ entry'[e].pendingWake = entry[e].pendingWake
            /\ entry'[e].stopping = entry[e].stopping
            /\ entry'[e].phase = "announced"
        BY <2>0, <2>1 DEF PublishBusy, TypeOK, EntryType
      <3> QED
        BY <2>0, <3>1, <1>0 DEF Owed
    <2>2. CASE InterruptedBeforeDrain(e) \/ DrainExit(e) \/ PublishIdle(e)
      <3>1. /\ active' = active
            /\ entry'[e].pendingWake = entry[e].pendingWake
            /\ entry[e].phase \in Starting => entry[e].stopping
        BY <2>0, <2>2 DEF InterruptedBeforeDrain, DrainExit, PublishIdle, TypeOK, EntryType
      <3> QED
        BY <2>0, <3>1, <1>0 DEF Owed
    <2>3. ASSUME NEW n \in Entry, active' = n, NEW p \in {"busy", "yield"},
                 entry'[n] = NewEntry(p, FALSE)
          PROVE  FALSE
      BY <2>3, NoEntryAssumption DEF Owed, NewEntry
    <2>4. CASE SettleFollowUp(e)
      BY <2>0, <2>3, <2>4 DEF SettleFollowUp, TypeOK
    <2>5. CASE SettleHandOver(e)
      <3>1. PICK n \in Entry : Unused(n) /\ active' = n
                 /\ entry' = [entry EXCEPT ![n] = NewEntry("yield", FALSE), ![e] = Gone]
        BY <2>5 DEF SettleHandOver
      <3>2. entry'[n] = NewEntry("yield", FALSE)
        BY <2>0, <3>1 DEF Unused, TypeOK
      <3> QED
        BY <2>3, <3>1, <3>2
    <2>6. CASE SettlePublishIdle(e)
      BY <2>0, <2>6 DEF SettlePublishIdle, Owed
    <2>7. CASE Close(e)
      <3>1. entry[e].pendingWake
        BY <2>0, <2>7 DEF Close, Owed
      <3>2. PICK n \in Entry : Unused(n) /\ active' = n
                 /\ entry' = [entry EXCEPT ![n] = NewEntry("busy", FALSE), ![e] = Gone]
        BY <2>7, <3>1 DEF Close
      <3>3. entry'[n] = NewEntry("busy", FALSE)
        BY <2>0, <3>2 DEF Unused, TypeOK
      <3> QED
        BY <2>3, <3>2, <3>3
    <2> QED
      BY <1>5, <2>1, <2>2, <2>4, <2>5, <2>6, <2>7 DEF FiberStep
  <1> QED
    BY <1>1, <1>2, <1>4, <1>5 DEF Next, vars

\* What a wake owes is discharged only by a drain that starts afterwards, by an
\* interrupt, or by a death of the busy publication before that drain.
THEOREM NoLostWakeAlways == Spec => NoLostWake
  <1>1. Inv /\ [Next]_vars =>
          [Owed /\ ~Owed' => \/ \E e \in Entry : StartDrain(e) \/ BusyDies(e)
                            \/ \E s \in Stopper : Interrupt(s)]_vars
    BY WakeStep
  <1> QED
    BY <1>1, Invariance, PTL DEF Spec, NoLostWake

==============================================================================
