------------------------------ MODULE Settings ------------------------------
(***************************************************************************)
(* The protocol settings: services/adminService.ts over                    *)
(* infra/repositories/settingsRepository.ts, one row of                    *)
(* protocol_settings.                                                      *)
(*                                                                         *)
(* Every operation first makes sure the row is there, in a statement of    *)
(* its own.  An update of the parameters and one of the oracle are both    *)
(* upserts: the values of the other columns are looked up by subqueries,   *)
(* in the snapshot with which the statement starts, and only the columns   *)
(* of the request are set when the row turns out to exist.                 *)
(***************************************************************************)
EXTENDS Integers

CONSTANTS
  AdminRequests,    \* requests in flight, each slot used again and again
  ParameterInputs,  \* parameters asked for, see ParameterType
  OracleInputs      \* oracle endpoints asked for, with a URL scheme or not

(* Shares are in hundredths.                                               *)
ParameterType == [baseReward : Int, challengeBond : Int,
                  validatorQuorum : Int, slashPercentage : Int]

DefaultParameters == [baseReward |-> 150, challengeBond |-> 500,
                      validatorQuorum |-> 67, slashPercentage |-> 25]

DefaultOracle == [url |-> "default", http |-> TRUE]

ASSUME SettingsAssumption ==
  /\ ParameterInputs \subseteq ParameterType
  /\ OracleInputs \subseteq [url : STRING, http : BOOLEAN]

VARIABLES
  settings,        \* the row
  adminPc,         \* the statement each request is at
  adminJob,        \* the request
  snapshot,        \* the row as the subqueries of its statement see it
  \* observation
  lastParameters,  \* the parameters of the last update committed
  lastOracle

SettingsVars == <<settings, adminPc, adminJob, snapshot, lastParameters, lastOracle>>

NoRow == [parameters |-> "none"]
NoAdminJob == [op |-> "none"]

Defaults == [parameters |-> DefaultParameters, oracle |-> DefaultOracle]

(* updateAdminParameters and updateAdminOracle answer anything else with a *)
(* 400.                                                                    *)
Acceptable(p) == /\ p.baseReward > 0
                 /\ p.challengeBond >= 0
                 /\ p.validatorQuorum \in 0 .. 100
                 /\ p.slashPercentage \in 0 .. 100

AdminJobs ==
  [op : {"get"}]
    \cup [op : {"parameters"}, value : {p \in ParameterInputs : Acceptable(p)}]
    \cup [op : {"oracle"}, value : {o \in OracleInputs : o.http}]

-----------------------------------------------------------------------------
(* The migration inserts the defaults; a database without them works too.  *)
SettingsInit == /\ settings \in {NoRow, Defaults}
                /\ adminPc = [h \in AdminRequests |-> "idle"]
                /\ adminJob = [h \in AdminRequests |-> NoAdminJob]
                /\ snapshot = [h \in AdminRequests |-> NoRow]
                /\ lastParameters = DefaultParameters
                /\ lastOracle = DefaultOracle

AdminArrives(h) == /\ adminPc[h] = "idle"
                   /\ \E j \in AdminJobs : adminJob' = [adminJob EXCEPT ![h] = j]
                   /\ adminPc' = [adminPc EXCEPT ![h] = "ensure"]
                   /\ UNCHANGED <<settings, snapshot, lastParameters, lastOracle>>

(* ensureSettings: INSERT ... ON CONFLICT DO NOTHING.                      *)
EnsureSettings(h) ==
  /\ adminPc[h] = "ensure"
  /\ settings' = IF settings = NoRow THEN Defaults ELSE settings
  /\ adminPc' = [adminPc EXCEPT ![h] = "statement"]
  /\ UNCHANGED <<adminJob, snapshot, lastParameters, lastOracle>>

AdminAnswers(h) == /\ adminPc' = [adminPc EXCEPT ![h] = "idle"]
                   /\ adminJob' = [adminJob EXCEPT ![h] = NoAdminJob]
                   /\ snapshot' = [snapshot EXCEPT ![h] = NoRow]

(* getAdminSettings reads the row and answers.                             *)
ReadSettings(h) == /\ adminPc[h] = "statement" /\ adminJob[h].op = "get"
                   /\ AdminAnswers(h)
                   /\ UNCHANGED <<settings, lastParameters, lastOracle>>

(* The statement of an update starts.                                      *)
StartUpdate(h) == /\ adminPc[h] = "statement" /\ adminJob[h].op # "get"
                  /\ snapshot' = [snapshot EXCEPT ![h] = settings]
                  /\ adminPc' = [adminPc EXCEPT ![h] = "write"]
                  /\ UNCHANGED <<settings, adminJob, lastParameters, lastOracle>>

\* Mutant: DO UPDATE SET takes every column from EXCLUDED, the values of the
\* insert.
UpdateParametersMutant(h) ==
  /\ adminPc[h] = "write" /\ adminJob[h].op = "parameters" /\ snapshot[h] # NoRow
  /\ settings' = [snapshot[h] EXCEPT !.parameters = adminJob[h].value]
  /\ lastParameters' = adminJob[h].value
  /\ AdminAnswers(h)
  /\ UNCHANGED lastOracle

(* updateProtocolParameters.  The insert has the oracle of the snapshot,   *)
(* without which it would fail for its NULL; the row's own stays.          *)
UpdateParameters(h) ==
  /\ adminPc[h] = "write" /\ adminJob[h].op = "parameters" /\ snapshot[h] # NoRow
  /\ settings' = [settings EXCEPT !.parameters = adminJob[h].value]
  /\ lastParameters' = adminJob[h].value
  /\ AdminAnswers(h)
  /\ UNCHANGED lastOracle

(* updateOracleEndpoint, the other way round.                              *)
UpdateOracle(h) ==
  /\ adminPc[h] = "write" /\ adminJob[h].op = "oracle" /\ snapshot[h] # NoRow
  /\ settings' = [settings EXCEPT !.oracle = adminJob[h].value]
  /\ lastOracle' = adminJob[h].value
  /\ AdminAnswers(h)
  /\ UNCHANGED lastParameters

(* A statement fails without effect, or the process dies: 500.             *)
AdminFails(h) == /\ adminPc[h] # "idle"
                 /\ AdminAnswers(h)
                 /\ UNCHANGED <<settings, lastParameters, lastOracle>>

SettingsNext == \E h \in AdminRequests : \/ AdminArrives(h) \/ EnsureSettings(h)
                                         \/ ReadSettings(h) \/ StartUpdate(h)
                                         \/ UpdateParameters(h) \/ UpdateOracle(h)
                                         \/ AdminFails(h)

SettingsSpec == SettingsInit /\ [][SettingsNext]_SettingsVars

-----------------------------------------------------------------------------
Rows == [parameters : {p \in ParameterInputs : Acceptable(p)} \cup {DefaultParameters},
         oracle : {o \in OracleInputs : o.http} \cup {DefaultOracle}]

SettingsTypeOK ==
  /\ settings \in Rows \cup {NoRow}
  /\ adminPc \in [AdminRequests -> {"idle", "ensure", "statement", "write"}]
  /\ adminJob \in [AdminRequests -> AdminJobs \cup {NoAdminJob}]
  /\ snapshot \in [AdminRequests -> Rows \cup {NoRow}]
  /\ lastParameters \in {p \in ParameterInputs : Acceptable(p)} \cup {DefaultParameters}
  /\ lastOracle \in {o \in OracleInputs : o.http} \cup {DefaultOracle}

(* NO UPDATE IS LOST.  The row has the parameters of the last update of    *)
(* the parameters and the oracle of the last update of the oracle, however *)
(* the statements overlap, and no update fails because the row it upserts  *)
(* was missing when its statement began.                                   *)
NoUpdateLost ==
  /\ settings # NoRow => /\ settings.parameters = lastParameters
                         /\ settings.oracle = lastOracle
  /\ \A h \in AdminRequests : adminPc[h] = "write" => snapshot[h] # NoRow
=============================================================================
