---------------------------- MODULE ManagedDevice ----------------------------
(***************************************************************************)
(* A logger in the field that is configured and updated at the same time.  *)
(* The two meet in three places of logger_main.cpp: an accepted status     *)
(* request is the heartbeat that the health check waits for, an applied    *)
(* configuration restarts the logger, and a restart of an image that is    *)
(* not confirmed yet rolls it back.                                        *)
(***************************************************************************)
EXTENDS RemoteConfiguration, BootHealth

vars == <<configVars, healthVars>>

TypeOK == ConfigTypeOK /\ HealthTypeOK

Init == ConfigInit /\ HealthInit

-----------------------------------------------------------------------------

\* Statuses: an accepted one is a heartbeat.
Status ==
    \/ SubmitStatus /\ UNCHANGED healthVars
    \/ /\ HandleStatus
       /\ heartbeat' = IF answer # Failed /\ health = "Pending" THEN 0 ELSE heartbeat
       /\ UNCHANGED <<slot, running, selected, ota, received, health, age, healthySince,
                      lastSick, updates>>

App == (Desire \/ Answer) /\ UNCHANGED healthVars

Settings == (RejectConfig \/ LocalSave) /\ UNCHANGED healthVars

\* Every restart is one of both parts.
Reboot == (ApplyConfig \/ Restart \/ PowerLoss) /\ HealthBoot(slot, selected)

Update == (OtaBegin \/ OtaAppend \/ OtaFinish) /\ UNCHANGED configVars

\* The restart into an image that was just selected
UpdateReboot ==
    /\ ota = "ReadyToReboot" /\ HealthBoot(slot, selected)
    /\ ConfigBoot(flash) /\ UNCHANGED faults

\* A poll that rolls back reboots.
Health ==
    \/ Tick /\ UNCHANGED configVars
    \/ /\ \E ok \in BOOLEAN : Poll(ok)
       /\ IF running' # running THEN ConfigBoot(flash) /\ UNCHANGED faults
          ELSE UNCHANGED configVars

Next == Status \/ App \/ Settings \/ Reboot \/ Update \/ UpdateReboot \/ Health

Spec == Init /\ [][Next]_vars

\* loop() goes on, time passes, the app answers; faults stop in the end.
Fairness ==
    /\ WF_vars(Status /\ faults' = faults) /\ WF_vars(Answer /\ faults' = faults /\ UNCHANGED healthVars)
    /\ WF_vars(ApplyConfig /\ Reboot) /\ WF_vars(Restart /\ Reboot)
    /\ WF_vars(Tick /\ UNCHANGED configVars) /\ WF_vars(Health /\ age' # age + 1)

FairSpec == Spec /\ Fairness

-----------------------------------------------------------------------------

\* An image does not stay under observation: it is confirmed, rolled back, or
\* the logger says that it needs recovery.
PendingResolved == health = "Pending" ~> health # "Pending"
=============================================================================
