-------------------------- MODULE RemoteConfiguration --------------------------
(***************************************************************************)
(* Settings and their remote configuration over HTTPS: RuntimeSettings.cpp, *)
(* the desired configuration in LiveUpload.cpp, the local settings page of  *)
(* WebUi.cpp and the part of loop() in logger_main.cpp that applies a       *)
(* configuration and restarts.                                              *)
(*                                                                          *)
(* A record is [format, upload, remote, applied, from]: upload and remote   *)
(* are the two switches, applied is appliedConfigVersion, and from says     *)
(* which revision its other settings come from (0: the defaults, Local: the *)
(* settings page).  A revision always carries all of them.                  *)
(****************************************************************************)
EXTENDS Integers

CONSTANTS
    MaxVersion,     \* bound: revisions of the app
    MaxLocal,       \* bound: uses of the settings page
    MaxFaults       \* bound: resets, lost answers, failing commits and
                    \* desired states with an invalid assignment or rotation

ASSUME ConfigAssumption == {MaxVersion, MaxLocal, MaxFaults} \subseteq Nat

VARIABLES
    flash,          \* the record in EEPROM
    ram,            \* what RuntimeSettings has applied
    live,           \* what LiveUpload was begun with and reports
    pending,        \* pendingRemoteConfig_
    request,        \* config_version of the status on its way, or Nothing
    answer,         \* its answer: the desired state, Failed or Nothing
    restarting,     \* restartPending_ of the settings page
    desired,        \* the app: its newest revision
    known,          \* the app: the version that the logger last reported
    locals, faults

configVars == <<flash, ram, live, pending, request, answer, restarting, desired, known, locals, faults>>

Local == -1
Nothing == -1
Versions == 0 .. MaxVersion

\* The formats that valid() tells apart, and 0 for a record that is none of them
Formats == 0 .. 5
Records == [format : Formats, upload : BOOLEAN, remote : BOOLEAN, applied : Versions,
            from : {Local} \cup Versions]
Documents == [version : {Nothing} \cup Versions, upload : BOOLEAN, ok : BOOLEAN]
None == [version |-> Nothing, upload |-> FALSE, ok |-> FALSE]
Failed == [version |-> Nothing, upload |-> FALSE, ok |-> TRUE]

ConfigTypeOK ==
    /\ flash \in Records /\ ram \in Records /\ live \in Records
    /\ pending \in Documents /\ answer \in Documents /\ desired \in Documents
    /\ request \in {Nothing} \cup Versions /\ known \in Versions
    /\ restarting \in BOOLEAN
    /\ locals \in 0 .. MaxLocal /\ faults \in 0 .. MaxFaults

\* populateDefaults
Defaults == [format |-> 5, upload |-> TRUE, remote |-> TRUE, applied |-> 0, from |-> 0]

\* What begin makes of the record in flash: formats 3 and 4 keep everything,
\* format 2 knew no remote management, format 1 no time settings.
Migrated(r) ==
    IF r.format = 5 THEN r
    ELSE IF r.format \in {3, 4} THEN [r EXCEPT !.format = 5]
    ELSE IF r.format = 2 THEN [Defaults EXCEPT !.upload = r.upload, !.from = r.from]
    ELSE IF r.format = 1 THEN [Defaults EXCEPT !.upload = r.upload]
    ELSE Defaults

\* The first boot after a record of an earlier firmware, or none, and what the
\* app knows of it.  The migrated record is written back unless that fails.
ConfigInit ==
    /\ \E f \in Formats :
         LET v == IF f >= 3 THEN 1 ELSE 0
             r == [format |-> f, upload |-> TRUE, remote |-> TRUE, applied |-> v,
                   from |-> IF f = 2 THEN Local ELSE v]
         IN /\ ram = Migrated(r) /\ live = Migrated(r)
            /\ \/ flash = Migrated(r) /\ faults = 0
               \/ flash = r /\ faults = 1 /\ MaxFaults > 0
            /\ known = v /\ desired = [version |-> v, upload |-> TRUE, ok |-> TRUE]
    /\ pending = None /\ request = Nothing /\ answer = None
    /\ restarting = FALSE /\ locals = 0

Fault == faults < MaxFaults /\ faults' = faults + 1

-----------------------------------------------------------------------------
(* The logger *)

\* apply
Apply(r) == ram' = r

\* A boot with record r in flash: a migrated record is written back, whether
\* that succeeds or not.
ConfigBoot(r) ==
    /\ Apply(Migrated(r)) /\ live' = Migrated(r)
    /\ flash' \in {r, Migrated(r)}
    /\ pending' = None /\ request' = Nothing /\ answer' = None /\ restarting' = FALSE
    /\ UNCHANGED <<desired, known, locals>>

\* A status request.  Without remote management it names no version.
SubmitStatus ==
    /\ live.upload /\ request = Nothing /\ answer = None
    /\ request' = IF live.remote THEN live.applied ELSE 0
    /\ UNCHANGED <<flash, ram, live, pending, answer, restarting, desired, known, locals, faults>>

\* consumeDesiredState looks for a revision beyond the one it runs with.
Newer(v) == v > live.applied

\* consumeHttpsDesiredConfig and consumeDesiredState: a revision is kept for
\* loop() when all of the desired state is valid.
Consume(doc, rest) ==
    pending' = IF live.remote /\ Newer(doc.version) /\ doc.ok /\ rest THEN doc ELSE pending

\* Mutant: a failed request is not collected.
HandleStatusAccepted ==
    /\ answer \notin {None, Failed} /\ answer' = None /\ request' = Nothing
    /\ Consume(answer, TRUE)
    /\ UNCHANGED <<flash, ram, live, restarting, desired, known, locals, faults>>

\* parseAssignment and parseCredentialRotation: what else is in a desired state
\* may be invalid, or cannot be stored.
RestParses(rest) == IF rest THEN UNCHANGED faults ELSE Fault

\* The answer of a status request
HandleStatus ==
    /\ answer # None /\ answer' = None /\ request' = Nothing
    /\ IF answer = Failed THEN UNCHANGED <<pending, faults>>
       ELSE \E rest \in BOOLEAN : Consume(answer, rest) /\ RestParses(rest)
    /\ UNCHANGED <<flash, ram, live, restarting, desired, known, locals>>

\* Mutant: settings that are left out keep the value they had.
AppliedKeeps(doc) ==
    [format |-> 5, upload |-> doc.upload, remote |-> TRUE, applied |-> doc.version, from |-> ram.from]

\* The record that applyRemoteConfig saves
Applied(doc) ==
    [format |-> 5, upload |-> doc.upload, remote |-> TRUE, applied |-> doc.version, from |-> doc.version]

MayApply(doc) == ram.remote /\ doc.version > ram.applied

\* save fails: the record may have reached flash, RAM keeps the old one.
SaveFails(r) == Fault /\ flash' \in {flash, r}

\* Mutant: what could not be saved is acknowledged all the same.
RejectConfigAcknowledges ==
    /\ pending # None /\ pending' = None
    /\ IF MayApply(pending)
       THEN SaveFails(Applied(pending)) /\ live' = Applied(pending)
       ELSE UNCHANGED <<flash, faults, live>>
    /\ UNCHANGED <<ram, request, answer, restarting, desired, known, locals>>

\* loop(): a revision that is refused or cannot be saved is rejected.
RejectConfig ==
    /\ pending # None /\ pending' = None
    /\ IF MayApply(pending) THEN SaveFails(Applied(pending)) ELSE UNCHANGED <<flash, faults>>
    /\ UNCHANGED <<ram, live, request, answer, restarting, desired, known, locals>>

\* loop(): a revision is saved and the logger restarts; over HTTPS the
\* acknowledgement is only asked for, the next boot sends it.
ApplyConfig ==
    /\ pending # None /\ MayApply(pending)
    /\ ConfigBoot(Applied(pending)) /\ UNCHANGED faults

\* handleSettingsSave keeps the version; the restart follows 750 ms later.
LocalSave ==
    /\ locals < MaxLocal /\ locals' = locals + 1
    /\ \E u, m \in BOOLEAN :
         LET r == [format |-> 5, upload |-> u, remote |-> m, applied |-> ram.applied, from |-> Local]
         IN /\ m => u
            /\ \/ flash' = r /\ Apply(r) /\ restarting' = TRUE /\ UNCHANGED faults
               \/ SaveFails(r) /\ UNCHANGED <<ram, restarting>>
    /\ UNCHANGED <<live, pending, request, answer, desired, known>>

Restart == restarting /\ ConfigBoot(flash) /\ UNCHANGED faults

PowerLoss == Fault /\ ConfigBoot(flash)

-----------------------------------------------------------------------------
(* The app *)

Desire ==
    /\ desired.version < MaxVersion
    /\ \E u, ok \in BOOLEAN :
         (u \/ ok) /\ desired' = [version |-> desired.version + 1, upload |-> u, ok |-> ok]
    /\ UNCHANGED <<flash, ram, live, pending, request, answer, restarting, known, locals, faults>>

\* The app takes the report and answers with what it wants; either may be
\* lost.
Answer ==
    /\ request # Nothing /\ answer = None
    /\ \/ known' = request /\ answer' = desired /\ UNCHANGED faults
       \/ known' \in {request, known} /\ answer' = Failed /\ Fault
    /\ UNCHANGED <<flash, ram, live, pending, request, restarting, desired, locals>>

-----------------------------------------------------------------------------
(* Properties *)

\* What the app was told is applied, no reset takes back.
ReportedIsDurable == known <= Migrated(flash).applied

\* A version is never claimed, in flash, in RAM or in a report, with the
\* settings of another one.
VersionsAreWhole ==
    \A r \in {flash, ram, live} : r.applied > 0 => r.from \in {r.applied, Local}

\* Once uploads and remote management stay switched on, the app learns in the
\* end that its newest revision is applied, whatever was lost on the way.
ConfigurationConverges ==
    <>[]((\A r \in {flash, ram, live} : r.upload /\ r.remote) /\ desired.ok /\ desired.upload)
        => <>[](known = desired.version)
=============================================================================
