----------------------------- MODULE MCSchedules -----------------------------
(* The two schedulers that share schedule-core.ts, on small instances: Work jobs
   (JobScheduler) and reminders (Reminder). Each has a queue and a daemon of its
   own, so that the run checks the disjoint union of the instances, one of which
   is chosen at the start. *)
CONSTANTS Instances,  \* the instances to check
          None

VARIABLES instance,
          stage, queue, minute, todo, current, signal, event, read, faults, crashes,
          status, kind, deps, come, outcome, writes, mine, dropped, asked, moved, since,
          now, at, row, inbox, marked, edit, edits, deaths, fresh, tries, overdue

coreVars == <<stage, queue, minute, todo, current, signal, event, read, faults, crashes>>
jobVars == <<status, kind, deps, come, outcome, writes, mine, dropped, asked, moved, since>>
reminderVars == <<now, at, row, inbox, marked, edit, edits, deaths, fresh, tries, overdue>>
vars == <<instance, coreVars, jobVars, reminderVars>>

-----------------------------------------------------------------------------
(* The instances. *)

\* A one-shot job and one that depends on it, against a write.
Chain == INSTANCE JobScheduler WITH
           Rows <- {"j1", "j2"}, Once <- {"j1", "j2"}, Cron <- {},
           DependsOn <- [r \in {"j1", "j2"} |-> IF r = "j2" THEN {"j1"} ELSE {}],
           MaxWrites <- 1, MaxFaults <- 0, MaxCrashes <- 0

\* A recurring job against a write, a death and an end of the process.
Recurring == INSTANCE JobScheduler WITH
               Rows <- {"c1"}, Once <- {}, Cron <- {"c1"}, DependsOn <- [r \in {"c1"} |-> {}],
               MaxWrites <- 1, MaxFaults <- 1, MaxCrashes <- 1

\* A job that waits for a task others work on, against a write, a death and an end
\* of the process.
Edits == INSTANCE JobScheduler WITH
           Rows <- {"j1", "t1"}, Once <- {"j1"}, Cron <- {},
           DependsOn <- [r \in {"j1", "t1"} |-> IF r = "j1" THEN {"t1"} ELSE {}],
           MaxWrites <- 1, MaxFaults <- 1, MaxCrashes <- 1

\* Two reminders, a change of the moment, failing deliveries and a crash.
Two == INSTANCE Reminder WITH
         Rows <- {"r1", "r2"}, Contents <- {"a"}, Editors <- {"e1"},
         MaxTime <- 2, MaxAttempts <- 2, MaxEdits <- 1, MaxFaults <- 0,
         MaxDeaths <- 0, MaxCrashes <- 0

\* Two updates of one reminder against failing deliveries.
Updates == INSTANCE Reminder WITH
             Rows <- {"r1"}, Contents <- {"a"}, Editors <- {"e1", "e2"},
             MaxTime <- 2, MaxAttempts <- 2, MaxEdits <- 2, MaxFaults <- 1,
             MaxDeaths <- 0, MaxCrashes <- 0

\* One reminder, a back-off to a later moment and a crash.
Retries == INSTANCE Reminder WITH
             Rows <- {"r1"}, Contents <- {"a"}, Editors <- {"e1"},
             MaxTime <- 2, MaxAttempts <- 2, MaxEdits <- 1, MaxFaults <- 2,
             MaxDeaths <- 0, MaxCrashes <- 1

\* One reminder against a failing delivery, a death and a crash.
Defects == INSTANCE Reminder WITH
             Rows <- {"r1"}, Contents <- {"a"}, Editors <- {},
             MaxTime <- 2, MaxAttempts <- 2, MaxEdits <- 0, MaxFaults <- 1,
             MaxDeaths <- 1, MaxCrashes <- 1

ASSUME SchedulesAssumption ==
  /\ Instances \subseteq {"chain", "recurring", "edits", "two", "updates", "retries",
                    "defects"}
  /\ Chain!JobAssumption /\ Recurring!JobAssumption /\ Edits!JobAssumption
  /\ Two!ReminderAssumption /\ Updates!ReminderAssumption /\ Retries!ReminderAssumption
  /\ Defects!ReminderAssumption

-----------------------------------------------------------------------------
(* What is not of the chosen instance is off. *)

JobsOff == /\ status = "off" /\ kind = "off" /\ deps = "off" /\ come = "off"
           /\ outcome = "off" /\ writes = "off" /\ mine = "off" /\ dropped = "off"
           /\ asked = "off" /\ moved = "off" /\ since = "off"
RemindersOff == /\ now = "off" /\ at = "off" /\ row = "off" /\ inbox = "off" /\ marked = "off"
                /\ edit = "off" /\ edits = "off"
                /\ deaths = "off" /\ fresh = "off" /\ tries = "off" /\ overdue = "off"

Init ==
  /\ instance \in Instances
  /\ \/ /\ \/ instance = "chain" /\ Chain!Init
           \/ instance = "recurring" /\ Recurring!Init
           \/ instance = "edits" /\ Edits!Init
        /\ RemindersOff
     \/ /\ \/ instance = "two" /\ Two!Init
           \/ instance = "updates" /\ Updates!Init
           \/ instance = "retries" /\ Retries!Init
           \/ instance = "defects" /\ Defects!Init
        /\ JobsOff

InJobs(i)      == instance = i /\ UNCHANGED <<instance, reminderVars>>
InReminders(i) == instance = i /\ UNCHANGED <<instance, jobVars>>

Next ==
  \/ InJobs("chain") /\ Chain!Next
  \/ InJobs("recurring") /\ Recurring!Next
  \/ InJobs("edits") /\ Edits!Daemon
  \/ InJobs("edits") /\ Edits!Rearming
  \/ InJobs("edits") /\ Edits!Others
  \/ InJobs("edits") /\ Edits!Deaths
  \/ InJobs("edits") /\ Edits!Crash
  \/ InJobs("edits") /\ Edits!Time
  \/ InReminders("two") /\ Two!Next
  \/ InReminders("updates") /\ Updates!Next
  \/ InReminders("retries") /\ Retries!Daemon
  \/ InReminders("retries") /\ Retries!Rearming
  \/ InReminders("retries") /\ Retries!Tools
  \/ InReminders("retries") /\ Retries!ClockTurns
  \/ InReminders("retries") /\ Retries!Crash
  \/ InReminders("defects") /\ Defects!Next

\* The fairness of JobScheduler and Reminder, for the instances DueEnds is about.
Fairness ==
  /\ WF_vars(InJobs("edits") /\ Edits!Daemon)
  /\ WF_vars(InJobs("edits") /\ Edits!Rearming)
  /\ WF_vars(InJobs("edits") /\ Edits!ClockPasses("j1"))
  /\ WF_vars(InReminders("retries") /\ Retries!Daemon)
  /\ WF_vars(InReminders("retries") /\ Retries!Rearming)
  /\ WF_vars(InReminders("retries") /\ Retries!ClockTurns)

Spec == Init /\ [][Next]_vars /\ Fairness

-----------------------------------------------------------------------------
(* Properties; each part is stated and explained in its component's module. *)

\* What is scheduled happens once, through edits, failures, deaths and restarts: no
\* job is left in progress; a reminder is delivered exactly once, and given up only
\* after the limit.
HappensOnce ==
  /\ instance = "chain" => Chain!HappensOnce
  /\ instance = "recurring" => Recurring!HappensOnce
  /\ instance = "edits" => Edits!HappensOnce
  /\ instance = "two" => Two!HappensOnce
  /\ instance = "updates" => Updates!HappensOnce
  /\ instance = "retries" => Retries!HappensOnce
  /\ instance = "defects" => Defects!HappensOnce

\* A job is claimed only if something asked for it after its last start and nothing
\* took that back; and, unless its row or a predecessor was written since the scan
\* or the gate, when its moment has come and nothing blocks it.
StartsAreAsked ==
  [][/\ instance = "chain" =>
          Chain!ClaimsAsAsked /\ Chain!ClaimsInTime /\ Chain!ClaimsUnblocked
     /\ instance = "recurring" =>
          Recurring!ClaimsAsAsked /\ Recurring!ClaimsInTime /\ Recurring!ClaimsUnblocked
     /\ instance = "edits" =>
          Edits!ClaimsAsAsked /\ Edits!ClaimsInTime /\ Edits!ClaimsUnblocked]_vars

\* What is due is taken: a job whose moment has come and that nothing blocks does
\* not wait for ever, and a due reminder is delivered, given up or put off.
DueEnds ==
  []<>~(\/ instance = "edits" /\ Edits!IsDue("j1")
        \/ instance = "retries" /\ Retries!IsDue("r1"))
=============================================================================
