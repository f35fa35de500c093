--------------------------- MODULE ServiceProofs ---------------------------
(***************************************************************************)
(* Five services with several requests or events at a time: the faucet,    *)
(* the settings, the commentary, the ENS names and the RPC pool of the     *)
(* Sepolia listener.  Each reads in one step what it uses in a later one;  *)
(* the invariants say what is still so by then.  At the end, the system in *)
(* which these five, the backfill, the window and the usage run beside     *)
(* each other: no variable is shared, so what each keeps, all keep.        *)
(***************************************************************************)
EXTENDS MCServices, BackfillProofs, MetricsProofs, FiniteSetTheorems, TLAPS

-----------------------------------------------------------------------------
(* The faucet.  Of what is not crowded, the cooldown is the latest grant   *)
(* and at most one transfer is under way, which the check has spaced.      *)
FaucetTypes ==
  /\ clock \in Times
  /\ transfers \in [FaucetRequests -> Transfer \cup {NoTransfer}]
  /\ walletCooldown \in [Wallets -> Times \cup {Never}]
  /\ ipCooldown \in [Ips -> Times \cup {Never}]
  /\ lastWalletGrant \in [Wallets -> Times \cup {Never}]
  /\ lastIpGrant \in [Ips -> Times \cup {Never}]

WalletQuiet(w) ==
  /\ walletCooldown[w] = lastWalletGrant[w]
  /\ \A h \in FaucetRequests :
       (transfers[h] # NoTransfer /\ transfers[h].wallet = w) =>
         /\ Spaced(transfers[h].at, lastWalletGrant[w])
         /\ \A o \in FaucetRequests :
              (transfers[o] # NoTransfer /\ transfers[o].wallet = w) => o = h

IpQuiet(i) ==
  /\ ipCooldown[i] = lastIpGrant[i]
  /\ \A h \in FaucetRequests :
       (transfers[h] # NoTransfer /\ transfers[h].ip = i) =>
         /\ Spaced(transfers[h].at, lastIpGrant[i])
         /\ \A o \in FaucetRequests :
              (transfers[o] # NoTransfer /\ transfers[o].ip = i) => o = h

FaucetIInv == /\ FaucetTypes
              /\ \A w \in Wallets \ crowded : WalletQuiet(w)
              /\ \A i \in Ips \ crowded : IpQuiet(i)

(* What is not a transfer has no wallet and no IP.                         *)
LEMMA TransferFields ==
  ASSUME FaucetTypes, NEW h \in FaucetRequests, transfers[h] # NoTransfer
  PROVE  /\ transfers[h].wallet \in Wallets /\ transfers[h].ip \in Ips
         /\ transfers[h].at \in Times
BY DEF FaucetTypes, Transfer

LEMMA NewTransfer ==
  ASSUME NEW w, NEW i, NEW t
  PROVE  [wallet |-> w, ip |-> i, at |-> t] # NoTransfer
<1>1. "wallet" \in DOMAIN [wallet |-> w, ip |-> i, at |-> t] /\ "wallet" \notin DOMAIN NoTransfer
  BY DEF NoTransfer
<1> QED BY <1>1

LEMMA AskKeeps ==
  ASSUME FaucetIInv, NEW h \in FaucetRequests, NEW w \in Wallets, NEW i \in Ips, Ask(h, w, i)
  PROVE  FaucetIInv'
<1> DEFINE T == [wallet |-> w, ip |-> i, at |-> clock]
<1>1. /\ FaucetTypes /\ T \in Transfer /\ T # NoTransfer /\ transfers[h] = NoTransfer
      /\ T.wallet = w /\ T.ip = i /\ T.at = clock
      /\ Rested(walletCooldown[w]) /\ Rested(ipCooldown[i])
      /\ transfers' = [transfers EXCEPT ![h] = T] /\ clock' = clock
      /\ walletCooldown' = walletCooldown /\ ipCooldown' = ipCooldown
      /\ lastWalletGrant' = lastWalletGrant /\ lastIpGrant' = lastIpGrant
  BY NewTransfer DEF Ask, FaucetIInv, FaucetTypes, Transfer, cooldowns, grants
<1>2. \A o \in FaucetRequests : transfers'[o] = IF o = h THEN T ELSE transfers[o]
  BY <1>1 DEF FaucetTypes
<1>3. /\ crowded \subseteq crowded'
      /\ \A o \in FaucetRequests : transfers[o] # NoTransfer =>
           /\ transfers[o].wallet = w => w \in crowded'
           /\ transfers[o].ip = i => i \in crowded'
  BY DEF Ask, Paying
<1>4. FaucetTypes'
  BY <1>1 DEF FaucetTypes
<1>5. ASSUME NEW x \in Wallets \ crowded' PROVE WalletQuiet(x)'
  <2>1. WalletQuiet(x)
    BY <1>3 DEF FaucetIInv
  <2>2. CASE x # w
    BY <1>1, <1>2, <2>1, <2>2 DEF WalletQuiet, Spaced
  <2>3. CASE x = w
    <3>1. Spaced(clock, lastWalletGrant[w])
      BY <1>1, <2>1, <2>3 DEF WalletQuiet, Rested, Spaced
    <3> QED BY <1>1, <1>2, <1>3, <2>1, <2>3, <3>1 DEF WalletQuiet, Spaced
  <2> QED BY <2>2, <2>3
<1>6. ASSUME NEW x \in Ips \ crowded' PROVE IpQuiet(x)'
  <2>1. IpQuiet(x)
    BY <1>3 DEF FaucetIInv
  <2>2. CASE x # i
    BY <1>1, <1>2, <2>1, <2>2 DEF IpQuiet, Spaced
  <2>3. CASE x = i
    <3>1. Spaced(clock, lastIpGrant[i])
      BY <1>1, <2>1, <2>3 DEF IpQuiet, Rested, Spaced
    <3> QED BY <1>1, <1>2, <1>3, <2>1, <2>3, <3>1 DEF IpQuiet, Spaced
  <2> QED BY <2>2, <2>3
<1> QED BY <1>4, <1>5, <1>6 DEF FaucetIInv

(* A spaced arrival is the latest grant.                                   *)
LEMMA SpacedIsLater ==
  ASSUME NEW at \in Times, NEW last \in Times \cup {Never}, Spaced(at, last)
  PROVE  Later(last, at) = at
BY FaucetAssumption DEF Times, Never, Spaced, Later

LEMMA GrantKeeps ==
  ASSUME FaucetIInv, NEW h \in FaucetRequests, Grant(h)
  PROVE  FaucetIInv'
<1>1. PICK w \in Wallets, i \in Ips, at \in Times :
        w = transfers[h].wallet /\ i = transfers[h].ip /\ at = transfers[h].at
  BY TransferFields DEF Grant, FaucetIInv
<1>2. /\ FaucetTypes /\ transfers[h] # NoTransfer /\ crowded' = crowded /\ clock' = clock
      /\ walletCooldown' = [walletCooldown EXCEPT ![w] = at]
      /\ ipCooldown' = [ipCooldown EXCEPT ![i] = at]
      /\ lastWalletGrant' = [lastWalletGrant EXCEPT ![w] = Later(@, at)]
      /\ lastIpGrant' = [lastIpGrant EXCEPT ![i] = Later(@, at)]
      /\ transfers' = [transfers EXCEPT ![h] = NoTransfer]
  BY <1>1 DEF Grant, FaucetIInv
<1>3. \A o \in FaucetRequests : transfers'[o] = IF o = h THEN NoTransfer ELSE transfers[o]
  BY <1>2 DEF FaucetTypes
<1>4. FaucetTypes'
  <2>1. \A x \in Times \cup {Never} : Later(x, at) \in Times \cup {Never}
    BY DEF Later
  <2> QED BY <1>2, <2>1 DEF FaucetTypes
<1>5. ASSUME NEW x \in Wallets \ crowded' PROVE WalletQuiet(x)'
  <2>1. WalletQuiet(x)
    BY <1>2 DEF FaucetIInv
  <2>2. CASE x # w
    <3>1. walletCooldown'[x] = walletCooldown[x] /\ lastWalletGrant'[x] = lastWalletGrant[x]
      BY <1>2, <2>2 DEF FaucetTypes
    <3> QED BY <1>3, <2>1, <3>1 DEF WalletQuiet, Spaced
  <2>3. CASE x = w
    <3>1. walletCooldown'[w] = at /\ lastWalletGrant'[w] = at
      BY <1>1, <1>2, <2>1, <2>3, SpacedIsLater DEF FaucetTypes, WalletQuiet
    <3> QED BY <1>1, <1>2, <1>3, <2>1, <2>3, <3>1 DEF WalletQuiet
  <2> QED BY <2>2, <2>3
<1>6. ASSUME NEW x \in Ips \ crowded' PROVE IpQuiet(x)'
  <2>1. IpQuiet(x)
    BY <1>2 DEF FaucetIInv
  <2>2. CASE x # i
    <3>1. ipCooldown'[x] = ipCooldown[x] /\ lastIpGrant'[x] = lastIpGrant[x]
      BY <1>2, <2>2 DEF FaucetTypes
    <3> QED BY <1>3, <2>1, <3>1 DEF IpQuiet, Spaced
  <2>3. CASE x = i
    <3>1. ipCooldown'[i] = at /\ lastIpGrant'[i] = at
      BY <1>1, <1>2, <2>1, <2>3, SpacedIsLater DEF FaucetTypes, IpQuiet
    <3> QED BY <1>1, <1>2, <1>3, <2>1, <2>3, <3>1 DEF IpQuiet
  <2> QED BY <2>2, <2>3
<1> QED BY <1>4, <1>5, <1>6 DEF FaucetIInv

LEMMA TransferFailsKeeps ==
  ASSUME FaucetIInv, NEW h \in FaucetRequests, TransferFails(h)
  PROVE  FaucetIInv'
<1>1. /\ FaucetTypes /\ transfers' = [transfers EXCEPT ![h] = NoTransfer]
      /\ walletCooldown' = walletCooldown /\ ipCooldown' = ipCooldown
      /\ lastWalletGrant' = lastWalletGrant /\ lastIpGrant' = lastIpGrant
      /\ crowded' = crowded /\ clock' = clock
  BY DEF TransferFails, FaucetIInv, cooldowns, grants
<1>2. \A o \in FaucetRequests : transfers'[o] = IF o = h THEN NoTransfer ELSE transfers[o]
  BY <1>1 DEF FaucetTypes
<1>3. FaucetTypes'
  BY <1>1 DEF FaucetTypes
<1>4. ASSUME NEW x \in Wallets \ crowded' PROVE WalletQuiet(x)'
  BY <1>1, <1>2 DEF FaucetIInv, WalletQuiet, Spaced
<1>5. ASSUME NEW x \in Ips \ crowded' PROVE IpQuiet(x)'
  BY <1>1, <1>2 DEF FaucetIInv, IpQuiet, Spaced
<1> QED BY <1>3, <1>4, <1>5 DEF FaucetIInv

(* A process that has just started has granted nothing.                    *)
LEMMA NewProcess ==
  ASSUME clock \in Times, transfers = [h \in FaucetRequests |-> NoTransfer],
         walletCooldown = Forgotten(Wallets), ipCooldown = Forgotten(Ips),
         lastWalletGrant = Forgotten(Wallets), lastIpGrant = Forgotten(Ips)
  PROVE  FaucetIInv
BY DEF FaucetIInv, FaucetTypes, WalletQuiet, IpQuiet, Forgotten, Never

LEMMA FaucetRestartKeeps ==
  ASSUME FaucetIInv, FaucetRestart
  PROVE  FaucetIInv'
BY DEF FaucetRestart, FaucetIInv, FaucetTypes, WalletQuiet, IpQuiet, Forgotten, Never

LEMMA FaucetInductive == FaucetSpec => []FaucetIInv
<1>1. FaucetInit => FaucetIInv
  BY NewProcess, FaucetAssumption DEF FaucetInit, Times
<1>2. FaucetIInv /\ [FaucetNext]_FaucetVars => FaucetIInv'
  <2> SUFFICES ASSUME FaucetIInv, [FaucetNext]_FaucetVars PROVE FaucetIInv'
    OBVIOUS
  <2>1. CASE Tick
    <3>1. /\ clock' \in Times /\ transfers' = transfers /\ crowded' = crowded
          /\ walletCooldown' = walletCooldown /\ ipCooldown' = ipCooldown
          /\ lastWalletGrant' = lastWalletGrant /\ lastIpGrant' = lastIpGrant
      BY <2>1, FaucetAssumption DEF Tick, cooldowns, grants, FaucetIInv, FaucetTypes, Times
    <3> QED BY <3>1 DEF FaucetIInv, FaucetTypes, WalletQuiet, IpQuiet, Spaced
  <2>2. CASE UNCHANGED FaucetVars
    BY <2>2 DEF FaucetVars, cooldowns, grants, FaucetIInv, FaucetTypes,
                WalletQuiet, IpQuiet, Spaced
  <2> QED BY <2>1, <2>2, AskKeeps, GrantKeeps, TransferFailsKeeps, FaucetRestartKeeps
             DEF FaucetNext
<1> QED BY <1>1, <1>2, PTL DEF FaucetSpec

(* GRANTS ARE SPACED by a whole cooldown, of a wallet and of an IP that    *)
(* never had two transfers under way at once (faucet.ts checks before the  *)
(* transfer and records after it).                                         *)
THEOREM FaucetSpacesGrants == FaucetSpec => GrantsSpaced
<1>1. ASSUME FaucetIInv, NEW h \in FaucetRequests, Grant(h)
      PROVE  /\ transfers[h].wallet \notin crowded =>
                  Spaced(transfers[h].at, lastWalletGrant[transfers[h].wallet])
             /\ transfers[h].ip \notin crowded =>
                  Spaced(transfers[h].at, lastIpGrant[transfers[h].ip])
  <2>1. /\ transfers[h] # NoTransfer
        /\ transfers[h].wallet \in Wallets /\ transfers[h].ip \in Ips
    BY <1>1, TransferFields DEF Grant, FaucetIInv
  <2> QED BY <1>1, <2>1 DEF FaucetIInv, WalletQuiet, IpQuiet
<1>2. FaucetIInv =>
        [\A h \in FaucetRequests :
           Grant(h) =>
             /\ transfers[h].wallet \notin crowded =>
                  Spaced(transfers[h].at, lastWalletGrant[transfers[h].wallet])
             /\ transfers[h].ip \notin crowded =>
                  Spaced(transfers[h].at, lastIpGrant[transfers[h].ip])]_FaucetVars
  BY <1>1
<1> QED BY <1>2, FaucetInductive, PTL DEF GrantsSpaced

CrowdedTyped == crowded \subseteq Wallets \cup Ips

(* THE TYPES OF THE FAUCET: times, and what is crowded is a wallet or IP.  *)
THEOREM FaucetTypeCorrect == FaucetSpec => []FaucetTypeOK
<1>1. FaucetInit => CrowdedTyped
  BY DEF FaucetInit, CrowdedTyped
<1>2. /\ CrowdedTyped
      /\ [FaucetNext]_FaucetVars
      => CrowdedTyped'
  <2> SUFFICES ASSUME CrowdedTyped, [FaucetNext]_FaucetVars
               PROVE  CrowdedTyped'
    OBVIOUS
  <2>1. ASSUME NEW h \in FaucetRequests, NEW w \in Wallets, NEW i \in Ips, Ask(h, w, i)
        PROVE  CrowdedTyped'
    BY <2>1 DEF Ask, CrowdedTyped
  <2>2. ASSUME NEW h \in FaucetRequests, Grant(h) \/ TransferFails(h)
        PROVE  CrowdedTyped'
    BY <2>2 DEF Grant, TransferFails, CrowdedTyped
  <2>3. ASSUME Tick \/ FaucetRestart \/ UNCHANGED FaucetVars
        PROVE  CrowdedTyped'
    BY <2>3 DEF Tick, FaucetRestart, FaucetVars, CrowdedTyped
  <2> QED BY <2>1, <2>2, <2>3 DEF FaucetNext
<1>3. FaucetIInv /\ CrowdedTyped => FaucetTypeOK
  BY DEF FaucetIInv, FaucetTypes, CrowdedTyped, FaucetTypeOK
<1> QED BY <1>1, <1>2, <1>3, FaucetInductive, PTL DEF FaucetSpec

-----------------------------------------------------------------------------
(* The settings.  The row is there from the ensuring statement on, and it  *)
(* never goes away.                                                        *)
Parameters == {p \in ParameterInputs : Acceptable(p)} \cup {DefaultParameters}
Oracles == {o \in OracleInputs : o.http} \cup {DefaultOracle}

SettingsTypes ==
  /\ settings \in [parameters : Parameters, oracle : Oracles] \cup {NoRow}
  /\ adminPc \in [AdminRequests -> {"idle", "ensure", "statement", "write"}]
  /\ adminJob \in [AdminRequests -> AdminJobs \cup {NoAdminJob}]
  /\ snapshot \in [AdminRequests -> [parameters : Parameters, oracle : Oracles] \cup {NoRow}]
  /\ lastParameters \in Parameters /\ lastOracle \in Oracles

SettingsCurrent ==
  /\ settings # NoRow => settings.parameters = lastParameters /\ settings.oracle = lastOracle
  /\ settings = NoRow => lastParameters = DefaultParameters /\ lastOracle = DefaultOracle

RequestSees(h) ==
  /\ adminPc[h] = "idle" => adminJob[h] = NoAdminJob
  /\ adminPc[h] # "idle" => adminJob[h] \in AdminJobs
  /\ adminPc[h] \in {"statement", "write"} => settings # NoRow
  /\ adminPc[h] = "write" => snapshot[h] # NoRow

SettingsIInv == /\ SettingsTypes
                /\ SettingsCurrent
                /\ \A h \in AdminRequests : RequestSees(h)

LEMMA RowIsNoNoRow ==
  ASSUME NEW row, DOMAIN row = {"parameters", "oracle"}
  PROVE  row # NoRow
<1>1. "oracle" \notin DOMAIN NoRow
  BY DEF NoRow
<1> QED BY <1>1

(* A request that goes on while the row stays or is written.               *)
LEMMA RequestGoesOn ==
  ASSUME SettingsIInv, NEW h \in AdminRequests, settings # NoRow => settings' # NoRow,
         RequestSees(h)',
         \A g \in AdminRequests \ {h} : /\ adminPc'[g] = adminPc[g] /\ adminJob'[g] = adminJob[g]
                                       /\ snapshot'[g] = snapshot[g]
  PROVE  \A g \in AdminRequests : RequestSees(g)'
BY DEF SettingsIInv, RequestSees

LEMMA AnswersKeeps ==
  ASSUME SettingsTypes, NEW h \in AdminRequests, AdminAnswers(h)
  PROVE  /\ adminPc' \in [AdminRequests -> {"idle", "ensure", "statement", "write"}]
         /\ adminJob' \in [AdminRequests -> AdminJobs \cup {NoAdminJob}]
         /\ snapshot' \in [AdminRequests -> [parameters : Parameters, oracle : Oracles] \cup {NoRow}]
         /\ RequestSees(h)'
         /\ \A g \in AdminRequests \ {h} : /\ adminPc'[g] = adminPc[g] /\ adminJob'[g] = adminJob[g]
                                          /\ snapshot'[g] = snapshot[g]
<1>1. /\ adminPc' = [adminPc EXCEPT ![h] = "idle"] /\ adminJob' = [adminJob EXCEPT ![h] = NoAdminJob]
      /\ snapshot' = [snapshot EXCEPT ![h] = NoRow]
  BY DEF AdminAnswers
<1>2. adminPc'[h] = "idle" /\ adminJob'[h] = NoAdminJob
  BY <1>1 DEF SettingsTypes
<1> QED BY <1>1, <1>2 DEF SettingsTypes, RequestSees

LEMMA UpdateKeeps ==
  ASSUME SettingsIInv, NEW h \in AdminRequests, UpdateParameters(h) \/ UpdateOracle(h)
  PROVE  SettingsIInv'
<1>1. /\ adminPc[h] = "write" /\ adminJob[h] \in AdminJobs /\ settings # NoRow /\ SettingsTypes
      /\ AdminAnswers(h) /\ settings \in [parameters : Parameters, oracle : Oracles]
      /\ settings.parameters = lastParameters /\ settings.oracle = lastOracle
  BY DEF SettingsIInv, SettingsTypes, SettingsCurrent, RequestSees, UpdateParameters, UpdateOracle
<1>2. ASSUME UpdateParameters(h)
      PROVE  /\ settings' = [settings EXCEPT !.parameters = adminJob[h].value]
             /\ adminJob[h].value \in Parameters
             /\ lastParameters' = adminJob[h].value /\ lastOracle' = lastOracle
  BY <1>1, <1>2 DEF UpdateParameters, AdminJobs, Parameters
<1>3. ASSUME UpdateOracle(h)
      PROVE  /\ settings' = [settings EXCEPT !.oracle = adminJob[h].value]
             /\ adminJob[h].value \in Oracles
             /\ lastOracle' = adminJob[h].value /\ lastParameters' = lastParameters
  BY <1>1, <1>3 DEF UpdateOracle, AdminJobs, Oracles
<1>4. /\ settings' \in [parameters : Parameters, oracle : Oracles]
      /\ settings'.parameters = lastParameters' /\ settings'.oracle = lastOracle'
      /\ lastParameters' \in Parameters /\ lastOracle' \in Oracles
  BY <1>1, <1>2, <1>3 DEF SettingsTypes
<1>5. settings' # NoRow
  BY <1>4, RowIsNoNoRow
<1>6. SettingsTypes' /\ SettingsCurrent'
  BY <1>1, <1>4, <1>5, AnswersKeeps DEF SettingsTypes, SettingsCurrent
<1> QED BY <1>1, <1>5, <1>6, AnswersKeeps, RequestGoesOn DEF SettingsIInv

LEMMA EnsureKeeps ==
  ASSUME SettingsIInv, NEW h \in AdminRequests, EnsureSettings(h)
  PROVE  SettingsIInv'
<1>1. /\ SettingsTypes /\ SettingsCurrent /\ adminPc[h] = "ensure" /\ adminJob[h] \in AdminJobs
      /\ settings' = IF settings = NoRow THEN Defaults ELSE settings
      /\ adminPc' = [adminPc EXCEPT ![h] = "statement"]
      /\ UNCHANGED <<adminJob, snapshot, lastParameters, lastOracle>>
  BY DEF SettingsIInv, RequestSees, EnsureSettings
<1>2. /\ Defaults \in [parameters : Parameters, oracle : Oracles] /\ Defaults # NoRow
      /\ Defaults.parameters = DefaultParameters /\ Defaults.oracle = DefaultOracle
  BY RowIsNoNoRow DEF Defaults, Parameters, Oracles
<1>3. SettingsTypes' /\ SettingsCurrent' /\ settings' # NoRow
  BY <1>1, <1>2 DEF SettingsTypes, SettingsCurrent
<1>4. RequestSees(h)'
  BY <1>1, <1>3 DEF SettingsTypes, RequestSees
<1>5. \A g \in AdminRequests \ {h} : /\ adminPc'[g] = adminPc[g] /\ adminJob'[g] = adminJob[g]
                                    /\ snapshot'[g] = snapshot[g]
  BY <1>1 DEF SettingsTypes
<1> QED BY <1>3, <1>4, <1>5, RequestGoesOn DEF SettingsIInv

LEMMA StepsWithoutWrite ==
  ASSUME SettingsIInv, NEW h \in AdminRequests,
         AdminArrives(h) \/ StartUpdate(h) \/ ReadSettings(h) \/ AdminFails(h)
  PROVE  SettingsIInv'
<1>1. /\ settings' = settings /\ lastParameters' = lastParameters /\ lastOracle' = lastOracle
      /\ SettingsTypes /\ SettingsCurrent
  BY DEF SettingsIInv, AdminArrives, StartUpdate, ReadSettings, AdminFails
<1>2. CASE AdminArrives(h)
  BY <1>1, <1>2 DEF AdminArrives, SettingsIInv, SettingsTypes, SettingsCurrent, RequestSees
<1>3. CASE StartUpdate(h)
  BY <1>1, <1>3 DEF StartUpdate, SettingsIInv, SettingsTypes, SettingsCurrent, RequestSees
<1>4. CASE ReadSettings(h) \/ AdminFails(h)
  <2>1. AdminAnswers(h)
    BY <1>4 DEF ReadSettings, AdminFails
  <2> QED BY <1>1, <2>1, AnswersKeeps, RequestGoesOn DEF SettingsIInv, SettingsTypes, SettingsCurrent
<1> QED BY <1>2, <1>3, <1>4

LEMMA SettingsInductive == SettingsSpec => []SettingsIInv
<1>1. SettingsInit => SettingsIInv
  <2> SUFFICES ASSUME SettingsInit PROVE SettingsIInv
    OBVIOUS
  <2>1. /\ Defaults \in [parameters : Parameters, oracle : Oracles] /\ Defaults # NoRow
        /\ Defaults.parameters = DefaultParameters /\ Defaults.oracle = DefaultOracle
    BY RowIsNoNoRow DEF Defaults, Parameters, Oracles
  <2>2. SettingsTypes
    BY <2>1 DEF SettingsInit, SettingsTypes, Parameters, Oracles
  <2> QED BY <2>1, <2>2 DEF SettingsInit, SettingsIInv, SettingsCurrent, RequestSees
<1>2. SettingsIInv /\ [SettingsNext]_SettingsVars => SettingsIInv'
  <2>1. ASSUME SettingsIInv, UNCHANGED SettingsVars PROVE SettingsIInv'
    BY <2>1 DEF SettingsVars, SettingsIInv, SettingsTypes, SettingsCurrent, RequestSees
  <2> QED BY <2>1, UpdateKeeps, EnsureKeeps, StepsWithoutWrite DEF SettingsNext
<1> QED BY <1>1, <1>2, PTL DEF SettingsSpec

(* NO UPDATE IS LOST: the two updates of settingsRepository.ts never undo  *)
(* each other, and none finds the row missing.                             *)
THEOREM SettingsLoseNoUpdate == SettingsSpec => []NoUpdateLost
<1>1. SettingsIInv => NoUpdateLost
  BY DEF SettingsIInv, SettingsCurrent, RequestSees, NoUpdateLost
<1> QED BY <1>1, SettingsInductive, PTL

(* THE TYPES OF THE SETTINGS: the row has parameters and an oracle that    *)
(* the updates accept, or the defaults.                                    *)
THEOREM SettingsTypeCorrect == SettingsSpec => []SettingsTypeOK
<1>1. SettingsIInv => SettingsTypeOK
  BY DEF SettingsIInv, SettingsTypes, Parameters, Oracles, Rows, SettingsTypeOK
<1> QED BY <1>1, SettingsInductive, PTL

-----------------------------------------------------------------------------
(* The commentary.  What is cached under the key of an output is of that   *)
(* output, as two outputs never share a key.                               *)
EntryType == [output : Outputs, insights : [of : Outputs],
              commentary : Commentaries \cup {NoCommentary}]

Says(commentary, o) == /\ commentary.of = o
                       /\ commentary.insights = InsightOf(o)
                       /\ commentary.model = commentary.by

EntryTrue(v, w) ==
  /\ entries[v][w] \in EntryType
  /\ entries[v][w].output.wallet = w
  /\ entries[v][w].insights = InsightOf(entries[v][w].output)
  /\ entries[v][w].commentary # NoCommentary =>
       Says(entries[v][w].commentary, entries[v][w].output)

InsightsTrue ==
  \A o \in Outputs :
    CommentaryKey(o) \in DOMAIN insightsCache =>
      insightsCache[CommentaryKey(o)] = InsightOf(o)

CommentariesTrue ==
  \A o \in Outputs :
    CommentaryKey(o) \in DOMAIN commentaryCache =>
      /\ commentaryCache[CommentaryKey(o)] \in Commentaries
      /\ Says(commentaryCache[CommentaryKey(o)], o)

CommentaryIInv == /\ provider \in {"openai", Fallback}
                  /\ DOMAIN entries = Viewers
                  /\ \A v \in Viewers : \A w \in DOMAIN entries[v] : EntryTrue(v, w)
                  /\ InsightsTrue
                  /\ CommentariesTrue

LEMMA KeysTellApart ==
  ASSUME NEW o \in Outputs, NEW p \in Outputs, CommentaryKey(o) = CommentaryKey(p)
  PROVE  o = p
BY CommentaryAssumption DEF CommentaryKey

(* A new entry of a request, with or without a cached commentary.          *)
LEMMA NewEntry ==
  ASSUME CommentaryIInv, NEW o \in Outputs
  PROVE  /\ Entry(o, InsightOf(o)) \in EntryType
         /\ Entry(o, InsightOf(o)).output = o
         /\ Entry(o, InsightOf(o)).insights = InsightOf(o)
         /\ Entry(o, InsightOf(o)).commentary # NoCommentary =>
              Says(Entry(o, InsightOf(o)).commentary, o)
BY DEF Entry, EntryType, InsightOf, CommentaryIInv, CommentariesTrue

LEMMA InsightsComputed ==
  ASSUME CommentaryIInv, NEW asked \in SUBSET Outputs, insightsCache' = InsightsAfter(asked)
  PROVE  /\ InsightsTrue'
         /\ \A o \in asked : insightsCache'[CommentaryKey(o)] = InsightOf(o)
<1>1. ASSUME NEW o \in Outputs, CommentaryKey(o) \in DOMAIN insightsCache'
      PROVE  insightsCache'[CommentaryKey(o)] = InsightOf(o)
  <2>1. CASE CommentaryKey(o) \in DOMAIN insightsCache
    BY <2>1 DEF InsightsAfter, CommentaryIInv, InsightsTrue
  <2>2. CASE CommentaryKey(o) \notin DOMAIN insightsCache
    <3>1. \E p \in asked : CommentaryKey(p) = CommentaryKey(o)
      BY <1>1, <2>2 DEF InsightsAfter
    <3>2. PICK p \in asked : /\ CommentaryKey(p) = CommentaryKey(o)
                             /\ p = CHOOSE q \in asked : CommentaryKey(q) = CommentaryKey(o)
      BY <3>1
    <3>3. insightsCache'[CommentaryKey(o)] = InsightOf(p)
      BY <1>1, <2>2, <3>2 DEF InsightsAfter
    <3> QED BY <3>2, <3>3, KeysTellApart
  <2> QED BY <2>1, <2>2
<1>2. \A o \in asked : CommentaryKey(o) \in DOMAIN insightsCache'
  BY DEF InsightsAfter
<1> QED BY <1>1, <1>2 DEF InsightsTrue

LEMMA CampaignKeeps ==
  ASSUME CommentaryIInv, NEW v \in Viewers, CampaignCommentary(v)
  PROVE  CommentaryIInv'
<1>1. PICK wallets \in SUBSET OutputWallets : \E output \in [wallets -> Outputs] :
        /\ \A w \in wallets : output[w].wallet = w
        /\ insightsCache' = InsightsAfter({output[w] : w \in wallets})
        /\ entries' = [entries EXCEPT ![v] =
             [w \in wallets |-> Entry(output[w], insightsCache'[CommentaryKey(output[w])])]]
  BY DEF CampaignCommentary
<1>2. PICK output \in [wallets -> Outputs] :
        /\ \A w \in wallets : output[w].wallet = w
        /\ insightsCache' = InsightsAfter({output[w] : w \in wallets})
        /\ entries' = [entries EXCEPT ![v] =
             [w \in wallets |-> Entry(output[w], insightsCache'[CommentaryKey(output[w])])]]
  BY <1>1
<1>3. /\ InsightsTrue'
      /\ \A w \in wallets : insightsCache'[CommentaryKey(output[w])] = InsightOf(output[w])
  BY <1>2, InsightsComputed
<1>4. provider' = provider /\ commentaryCache' = commentaryCache
  BY DEF CampaignCommentary
<1>5. /\ DOMAIN entries' = Viewers
      /\ entries'[v] = [w \in wallets |-> Entry(output[w], InsightOf(output[w]))]
      /\ \A u \in Viewers \ {v} : entries'[u] = entries[u]
  BY <1>2, <1>3 DEF CommentaryIInv
<1>6. ASSUME NEW w \in wallets PROVE EntryTrue(v, w)'
  BY <1>2, <1>5, NewEntry DEF EntryTrue
<1> QED BY <1>3, <1>4, <1>5, <1>6 DEF CommentaryIInv, CommentariesTrue, EntryTrue

LEMMA PostKeeps ==
  ASSUME CommentaryIInv, NEW v \in Viewers, PostCommentary(v)
  PROVE  CommentaryIInv'
<1>1. PICK o \in Outputs : entries' = [entries EXCEPT ![v] =
                                        [w \in {o.wallet} |-> Entry(o, InsightOf(o))]]
  BY DEF PostCommentary
<1>2. /\ DOMAIN entries' = Viewers
      /\ entries'[v] = [w \in {o.wallet} |-> Entry(o, InsightOf(o))]
      /\ \A u \in Viewers \ {v} : entries'[u] = entries[u]
  BY <1>1 DEF CommentaryIInv
<1>3. provider' = provider /\ commentaryCache' = commentaryCache /\ insightsCache' = insightsCache
  BY DEF PostCommentary
<1>4. EntryTrue(v, o.wallet)'
  BY <1>2, NewEntry DEF EntryTrue
<1> QED BY <1>2, <1>3, <1>4 DEF CommentaryIInv, CommentariesTrue, InsightsTrue, EntryTrue

LEMMA WrittenKeeps ==
  ASSUME CommentaryIInv, NEW v \in Viewers, NEW w, NEW writer \in {"openai", Fallback},
         Writing(v, w), Written(v, w, writer, writer)
  PROVE  CommentaryIInv'
<1> DEFINE e == entries[v][w]
           said == [of |-> e.output, insights |-> e.insights, by |-> writer, model |-> writer]
<1>1. w \in DOMAIN entries[v] /\ EntryTrue(v, w)
  BY DEF Writing, CommentaryIInv
<1>2. /\ entries' = [entries EXCEPT ![v][w].commentary = said]
      /\ commentaryCache' = Put(commentaryCache, CommentaryKey(e.output), said)
      /\ provider' = provider /\ insightsCache' = insightsCache
  BY DEF Written
<1>3. e \in EntryType /\ e.output \in Outputs /\ said \in Commentaries /\ Says(said, e.output)
  BY <1>1 DEF EntryTrue, EntryType, Commentaries, Says
<1>4. /\ DOMAIN entries' = Viewers /\ DOMAIN entries'[v] = DOMAIN entries[v]
      /\ entries'[v][w] = [e EXCEPT !.commentary = said]
      /\ \A x \in DOMAIN entries[v] \ {w} : entries'[v][x] = entries[v][x]
      /\ \A u \in Viewers \ {v} : entries'[u] = entries[u]
  BY <1>1, <1>2 DEF CommentaryIInv
<1>5. EntryTrue(v, w)'
  <2>1. /\ entries'[v][w] \in EntryType /\ entries'[v][w].commentary = said
        /\ entries'[v][w].output = e.output /\ entries'[v][w].insights = e.insights
    BY <1>3, <1>4 DEF EntryType
  <2> QED BY <1>1, <1>3, <2>1 DEF EntryTrue
<1>6. CommentariesTrue'
  <2> SUFFICES ASSUME NEW o \in Outputs, CommentaryKey(o) \in DOMAIN commentaryCache'
               PROVE  /\ commentaryCache'[CommentaryKey(o)] \in Commentaries
                      /\ Says(commentaryCache'[CommentaryKey(o)], o)
    BY DEF CommentariesTrue
  <2>1. CASE CommentaryKey(o) = CommentaryKey(e.output)
    <3>1. o = e.output
      BY <1>3, <2>1, KeysTellApart
    <3>2. commentaryCache'[CommentaryKey(o)] = said
      BY <1>2, <2>1 DEF Put
    <3> QED BY <1>3, <3>1, <3>2
  <2>2. CASE CommentaryKey(o) # CommentaryKey(e.output)
    BY <1>2, <2>2 DEF Put, CommentaryIInv, CommentariesTrue
  <2> QED BY <2>1, <2>2
<1>7. InsightsTrue'
  BY <1>2 DEF CommentaryIInv, InsightsTrue
<1>8. ASSUME NEW u \in Viewers, NEW x \in DOMAIN entries'[u], u # v \/ x # w
      PROVE  EntryTrue(u, x)'
  BY <1>4, <1>8 DEF CommentaryIInv, EntryTrue
<1> QED BY <1>2, <1>4, <1>5, <1>6, <1>7, <1>8 DEF CommentaryIInv

LEMMA CachesForget ==
  ASSUME CommentaryIInv, InsightsExpire \/ CommentaryExpires
  PROVE  CommentaryIInv'
<1>1. provider' = provider /\ entries' = entries
  BY DEF InsightsExpire, CommentaryExpires
<1>2. \A v \in Viewers : \A w \in DOMAIN entries'[v] : EntryTrue(v, w)'
  BY <1>1 DEF CommentaryIInv, EntryTrue
<1>3. CASE InsightsExpire
  <2>1. PICK k \in DOMAIN insightsCache : insightsCache' = Dropped(insightsCache, k)
    BY <1>3 DEF InsightsExpire
  <2>2. InsightsTrue'
    BY <2>1 DEF Dropped, CommentaryIInv, InsightsTrue
  <2>3. CommentariesTrue'
    BY <1>3 DEF InsightsExpire, CommentaryIInv, CommentariesTrue
  <2> QED BY <1>1, <1>2, <2>2, <2>3 DEF CommentaryIInv
<1>4. CASE CommentaryExpires
  <2>1. PICK k \in DOMAIN commentaryCache : commentaryCache' = Dropped(commentaryCache, k)
    BY <1>4 DEF CommentaryExpires
  <2>2. CommentariesTrue'
    BY <2>1 DEF Dropped, CommentaryIInv, CommentariesTrue
  <2>3. InsightsTrue'
    BY <1>4 DEF CommentaryExpires, CommentaryIInv, InsightsTrue
  <2> QED BY <1>1, <1>2, <2>2, <2>3 DEF CommentaryIInv
<1> QED BY <1>3, <1>4

LEMMA CommentaryInductive == CommentarySpec => []CommentaryIInv
<1>1. CommentaryInit => CommentaryIInv
  BY DEF CommentaryInit, CommentaryIInv, InsightsTrue, CommentariesTrue
<1>2. CommentaryIInv /\ [CommentaryNext]_CommentaryVars => CommentaryIInv'
  <2> SUFFICES ASSUME CommentaryIInv, [CommentaryNext]_CommentaryVars PROVE CommentaryIInv'
    OBVIOUS
  <2>1. ASSUME NEW v \in Viewers, Respond(v) PROVE CommentaryIInv'
    BY <2>1 DEF Respond, CommentaryIInv, InsightsTrue, CommentariesTrue, EntryTrue
  <2>2. ASSUME NEW v \in Viewers, NEW w, ProviderWrites(v, w) \/ ProviderFails(v, w)
        PROVE  CommentaryIInv'
    <3>1. provider \in {"openai", Fallback}
      BY DEF CommentaryIInv
    <3> QED BY <2>2, <3>1, WrittenKeeps DEF ProviderWrites, ProviderFails
  <2>3. CASE UNCHANGED CommentaryVars
    BY <2>3 DEF CommentaryVars, CommentaryIInv, InsightsTrue, CommentariesTrue, EntryTrue
  <2> QED BY <2>1, <2>2, <2>3, CampaignKeeps, PostKeeps, CachesForget DEF CommentaryNext
<1> QED BY <1>1, <1>2, PTL DEF CommentarySpec

(* WHAT IS SAID IS OF WHAT IS SHOWN: insights and commentary are of the    *)
(* output they stand next to, whoever filled the caches and when.          *)
THEOREM CommentaryIsTrue == CommentarySpec => []CommentaryTrue
<1>1. CommentaryIInv => CommentaryTrue
  BY DEF CommentaryIInv, EntryTrue, Says, CommentaryTrue
<1> QED BY <1>1, CommentaryInductive, PTL

(* Whatever the keys, the caches hold insights and commentaries.           *)
CachesTyped == /\ \A k \in DOMAIN insightsCache : insightsCache[k] \in [of : Outputs]
               /\ \A k \in DOMAIN commentaryCache : commentaryCache[k] \in Commentaries

LEMMA CampaignCaches ==
  ASSUME CommentaryIInv, CachesTyped, NEW v \in Viewers, CampaignCommentary(v)
  PROVE  CachesTyped'
<1>1. PICK asked \in SUBSET Outputs : insightsCache' = InsightsAfter(asked)
  <2>1. PICK wallets \in SUBSET OutputWallets \ {{}} : \E output \in [wallets -> Outputs] :
          /\ \A w \in wallets : output[w].wallet = w
          /\ insightsCache' = InsightsAfter({output[w] : w \in wallets})
          /\ entries' = [entries EXCEPT ![v] =
               [w \in wallets |-> Entry(output[w], insightsCache'[CommentaryKey(output[w])])]]
    BY Zenon DEF CampaignCommentary
  <2>2. PICK output \in [wallets -> Outputs] :
          insightsCache' = InsightsAfter({output[w] : w \in wallets})
    BY <2>1
  <2>3. {output[w] : w \in wallets} \subseteq Outputs
    OBVIOUS
  <2> QED BY <2>2, <2>3
<1>2. ASSUME NEW k \in DOMAIN insightsCache' PROVE insightsCache'[k] \in [of : Outputs]
  <2>1. CASE k \in DOMAIN insightsCache
    BY <1>1, <2>1 DEF InsightsAfter, CachesTyped
  <2>2. CASE k \notin DOMAIN insightsCache
    <3>1. PICK o \in asked : CommentaryKey(o) = k
      BY <1>1, <1>2, <2>2 DEF InsightsAfter
    <3>2. (CHOOSE q \in asked : CommentaryKey(q) = k) \in asked
      BY <3>1
    <3>3. insightsCache'[k] = InsightOf(CHOOSE q \in asked : CommentaryKey(q) = k)
      BY <1>1, <1>2, <2>2 DEF InsightsAfter
    <3> QED BY <3>2, <3>3 DEF InsightOf
  <2> QED BY <2>1, <2>2
<1> QED BY <1>2 DEF CampaignCommentary, CachesTyped

LEMMA WrittenCaches ==
  ASSUME CommentaryIInv, CachesTyped, NEW v \in Viewers, NEW w,
         NEW writer \in {"openai", Fallback}, Writing(v, w), Written(v, w, writer, writer)
  PROVE  CachesTyped'
<1> DEFINE e == entries[v][w]
           said == [of |-> e.output, insights |-> e.insights, by |-> writer, model |-> writer]
<1>1. /\ commentaryCache' = Put(commentaryCache, CommentaryKey(e.output), said)
      /\ insightsCache' = insightsCache
  BY DEF Written
<1>2. e \in EntryType
  BY DEF Writing, CommentaryIInv, EntryTrue
<1>3. said \in Commentaries
  BY <1>2 DEF EntryType, Commentaries
<1> HIDE DEF said
<1> QED BY <1>1, <1>3 DEF Put, CachesTyped

(* THE TYPES OF THE COMMENTARY: whatever is in a cache is an insight or a  *)
(* commentary of an output.                                                *)
THEOREM CommentaryTypeCorrect == CommentarySpec => []CommentaryTypeOK
<1>1. CommentaryInit => CachesTyped
  BY DEF CommentaryInit, CachesTyped
<1>2. CommentaryIInv /\ CachesTyped /\ [CommentaryNext]_CommentaryVars => CachesTyped'
  <2> SUFFICES ASSUME CommentaryIInv, CachesTyped, [CommentaryNext]_CommentaryVars
               PROVE  CachesTyped'
    OBVIOUS
  <2>1. ASSUME UNCHANGED <<insightsCache, commentaryCache>> PROVE CachesTyped'
    BY <2>1 DEF CachesTyped
  <2>2. ASSUME NEW v \in Viewers, PostCommentary(v) \/ Respond(v) PROVE CachesTyped'
    <3>1. UNCHANGED <<insightsCache, commentaryCache>>
      BY <2>2 DEF PostCommentary, Respond
    <3> QED BY <2>1, <3>1
  <2>3. ASSUME NEW v \in Viewers, NEW w, ProviderWrites(v, w) \/ ProviderFails(v, w)
        PROVE  CachesTyped'
    <3>1. provider \in {"openai", Fallback}
      BY DEF CommentaryIInv
    <3> QED BY <2>3, <3>1, WrittenCaches DEF ProviderWrites, ProviderFails
  <2>4. CASE InsightsExpire
    BY <2>4 DEF InsightsExpire, Dropped, CachesTyped
  <2>5. CASE CommentaryExpires
    BY <2>5 DEF CommentaryExpires, Dropped, CachesTyped
  <2>6. CASE UNCHANGED CommentaryVars
    BY <2>1, <2>6 DEF CommentaryVars
  <2> QED BY <2>2, <2>3, <2>4, <2>5, <2>6, CampaignCaches DEF CommentaryNext
<1>3. CommentaryIInv /\ CachesTyped => CommentaryTypeOK
  BY DEF CommentaryIInv, EntryTrue, EntryType, CachesTyped, CommentaryTypeOK
<1> QED BY <1>1, <1>2, <1>3, CommentaryInductive, PTL DEF CommentarySpec

-----------------------------------------------------------------------------
(* The slots of the ENS resolution.                                        *)
SlotTypes ==
  /\ ensPc \in [EnsCallers -> {"idle", "waiting", "resolving"}]
  /\ activeResolves \in Nat
  /\ resolveQueue \in Seq(EnsCallers)

SlotIInv == SlotTypes /\ SlotsExact

(* Callers that resolve are finitely many.                                 *)
LEMMA ResolvingFinite == IsFiniteSet(Resolving) /\ Cardinality(Resolving) \in Nat
<1>1. IsFiniteSet(EnsCallers) /\ Resolving \subseteq EnsCallers
  BY EnsAssumption DEF Resolving
<1> QED BY <1>1, FS_Subset, FS_CardinalityType

LEMMA SlotInit == EnsInit => SlotIInv
<1> SUFFICES ASSUME EnsInit PROVE SlotIInv
  OBVIOUS
<1>1. Resolving = {}
  BY DEF EnsInit, Resolving
<1>2. Cardinality(Resolving) = 0
  BY <1>1, FS_EmptySet
<1> QED BY <1>2, EnsAssumption DEF EnsInit, SlotIInv, SlotTypes, SlotsExact

(* A caller takes a slot, which is only free when nobody waits, or goes to *)
(* the end of the queue.                                                   *)
LEMMA AcquireKeeps ==
  ASSUME SlotIInv, NEW c \in EnsCallers, ensPc[c] = "idle", AcquireResolveSlot(c)
  PROVE  SlotIInv'
<1>1. CASE activeResolves < EnsMaxConcurrent
  <2>1. /\ activeResolves' = activeResolves + 1 /\ resolveQueue' = resolveQueue
        /\ ensPc' = [ensPc EXCEPT ![c] = "resolving"]
    BY <1>1, EnsAssumption DEF AcquireResolveSlot, SlotIInv, SlotTypes
  <2>2. Resolving' = Resolving \cup {c} /\ c \notin Resolving
    BY <2>1 DEF Resolving, SlotIInv, SlotTypes
  <2>3. Cardinality(Resolving') = Cardinality(Resolving) + 1
    BY <2>2, ResolvingFinite, FS_AddElement
  <2>4. resolveQueue = <<>>
    BY <1>1, EnsAssumption DEF SlotIInv, SlotsExact, SlotTypes
  <2> QED BY <1>1, <2>1, <2>3, <2>4, EnsAssumption DEF SlotIInv, SlotTypes, SlotsExact
<1>2. CASE activeResolves >= EnsMaxConcurrent
  <2>1. /\ activeResolves' = activeResolves
        /\ resolveQueue' = Append(resolveQueue, c)
        /\ ensPc' = [ensPc EXCEPT ![c] = "waiting"]
    BY <1>2, EnsAssumption DEF AcquireResolveSlot, SlotIInv, SlotTypes
  <2>2. Resolving' = Resolving
    BY <2>1 DEF Resolving, SlotIInv, SlotTypes
  <2>3. activeResolves = EnsMaxConcurrent
    BY <1>2, EnsAssumption DEF SlotIInv, SlotTypes, SlotsExact
  <2>4. SlotTypes'
    BY <2>1 DEF SlotIInv, SlotTypes
  <2>5. \A i, j \in DOMAIN resolveQueue' : resolveQueue'[i] = resolveQueue'[j] => i = j
    BY <2>1 DEF SlotIInv, SlotTypes, SlotsExact
  <2>6. ASSUME NEW o \in EnsCallers
        PROVE  ensPc'[o] = "waiting" <=> \E i \in DOMAIN resolveQueue' : resolveQueue'[i] = o
    <3>1. ensPc[o] = "waiting" <=> \E i \in DOMAIN resolveQueue : resolveQueue[i] = o
      BY DEF SlotIInv, SlotsExact
    <3>2. CASE o = c
      <4>1. Len(resolveQueue') \in DOMAIN resolveQueue' /\ resolveQueue'[Len(resolveQueue')] = c
        BY <2>1 DEF SlotIInv, SlotTypes
      <4> QED BY <2>1, <3>2, <4>1 DEF SlotIInv, SlotTypes
    <3>3. CASE o # c
      <4>1. ensPc'[o] = ensPc[o]
        BY <2>1, <3>3 DEF SlotIInv, SlotTypes
      <4>2. \A i \in DOMAIN resolveQueue : i \in DOMAIN resolveQueue' /\ resolveQueue'[i] = resolveQueue[i]
        BY <2>1 DEF SlotIInv, SlotTypes
      <4>3. \A i \in DOMAIN resolveQueue' : i \in DOMAIN resolveQueue \/ resolveQueue'[i] = c
        BY <2>1 DEF SlotIInv, SlotTypes
      <4> QED BY <3>1, <3>3, <4>1, <4>2, <4>3
    <3> QED BY <3>2, <3>3
  <2> QED BY <2>1, <2>2, <2>3, <2>4, <2>5, <2>6 DEF SlotIInv, SlotsExact
<1> QED BY <1>1, <1>2, EnsAssumption DEF SlotIInv, SlotTypes

(* A slot given back is free, or the first of the queue has it.            *)
LEMMA ReleaseKeeps ==
  ASSUME SlotIInv, NEW c \in EnsCallers, ensPc[c] = "resolving", Release(c)
  PROVE  SlotIInv'
<1>1. c \in Resolving
  BY DEF Resolving
<1>2. /\ IsFiniteSet(Resolving \ {c})
      /\ Cardinality(Resolving \ {c}) = Cardinality(Resolving) - 1
      /\ Cardinality(Resolving \ {c}) \in Nat
  BY <1>1, ResolvingFinite, FS_RemoveElement, FS_CardinalityType
<1>3. activeResolves > 0 /\ activeResolves = Cardinality(Resolving)
  BY <1>2, ResolvingFinite DEF SlotIInv, SlotsExact
<1>4. CASE resolveQueue = <<>>
  <2>1. /\ activeResolves' = activeResolves - 1 /\ resolveQueue' = resolveQueue
        /\ ensPc' = [ensPc EXCEPT ![c] = "idle"]
    BY <1>3, <1>4 DEF Release
  <2>2. Resolving' = Resolving \ {c}
    BY <2>1 DEF Resolving, SlotIInv, SlotTypes
  <2> QED BY <1>2, <1>3, <1>4, <2>1, <2>2, EnsAssumption DEF SlotIInv, SlotTypes, SlotsExact
<1>5. CASE resolveQueue # <<>>
  <2> DEFINE h == Head(resolveQueue)
  <2>1. /\ activeResolves' = activeResolves /\ resolveQueue' = Tail(resolveQueue)
        /\ ensPc' = [ensPc EXCEPT ![c] = "idle", ![h] = "resolving"]
    BY <1>3, <1>5 DEF Release, SlotIInv, SlotTypes
  <2>2. /\ h \in EnsCallers /\ 1 \in DOMAIN resolveQueue /\ resolveQueue[1] = h
        /\ ensPc[h] = "waiting" /\ h # c
    BY <1>5 DEF SlotIInv, SlotTypes, SlotsExact
  <2> HIDE DEF h
  <2>3. Resolving' = (Resolving \ {c}) \cup {h} /\ h \notin Resolving \ {c}
    BY <2>1, <2>2 DEF Resolving, SlotIInv, SlotTypes
  <2>4. Cardinality(Resolving') = Cardinality(Resolving)
    <3> DEFINE R == Resolving \ {c}
    <3> HIDE DEF R
    <3>1. Cardinality(R \cup {h}) = Cardinality(R) + 1
      BY <1>2, <2>3, FS_AddElement DEF R
    <3> QED BY <1>2, <2>3, <3>1, ResolvingFinite DEF R
  <2>5. SlotTypes'
    BY <1>5, <2>1, <2>2 DEF SlotIInv, SlotTypes
  <2>6. /\ \A i \in DOMAIN resolveQueue' : i + 1 \in DOMAIN resolveQueue
                                           /\ resolveQueue'[i] = resolveQueue[i + 1]
        /\ \A i \in DOMAIN resolveQueue : i = 1 \/ i - 1 \in DOMAIN resolveQueue'
    BY <1>5, <2>1 DEF SlotIInv, SlotTypes
  <2>7. \A i, j \in DOMAIN resolveQueue' : resolveQueue'[i] = resolveQueue'[j] => i = j
    <3> SUFFICES ASSUME NEW i \in DOMAIN resolveQueue', NEW j \in DOMAIN resolveQueue',
                        resolveQueue'[i] = resolveQueue'[j]
                 PROVE  i = j
      OBVIOUS
    <3>1. i + 1 = j + 1
      BY <2>6 DEF SlotIInv, SlotsExact
    <3>2. i \in Nat /\ j \in Nat
      BY <2>5 DEF SlotTypes
    <3> QED BY <3>1, <3>2
  <2>8. ASSUME NEW o \in EnsCallers
        PROVE  ensPc'[o] = "waiting" <=> \E i \in DOMAIN resolveQueue' : resolveQueue'[i] = o
    <3>1. ensPc[o] = "waiting" <=> \E i \in DOMAIN resolveQueue : resolveQueue[i] = o
      BY DEF SlotIInv, SlotsExact
    <3>2. ensPc'[o] = "waiting" <=> ensPc[o] = "waiting" /\ o # h
      BY <2>1, <2>2 DEF SlotIInv, SlotTypes
    <3>3. ASSUME ensPc'[o] = "waiting"
          PROVE  \E i \in DOMAIN resolveQueue' : resolveQueue'[i] = o
      <4>1. PICK i \in DOMAIN resolveQueue : resolveQueue[i] = o
        BY <3>1, <3>2, <3>3
      <4>2. i # 1 /\ i \in Nat
        BY <2>2, <3>2, <3>3, <4>1 DEF SlotIInv, SlotTypes
      <4>3. i - 1 \in DOMAIN resolveQueue' /\ resolveQueue'[i - 1] = resolveQueue[(i - 1) + 1]
        BY <2>6, <4>2
      <4>4. (i - 1) + 1 = i
        BY <4>2
      <4> QED BY <4>1, <4>3, <4>4
    <3>4. ASSUME NEW i \in DOMAIN resolveQueue', resolveQueue'[i] = o
          PROVE  ensPc'[o] = "waiting"
      <4>1. i \in Nat /\ i # 0
        BY <2>5 DEF SlotTypes
      <4>2. i + 1 \in DOMAIN resolveQueue /\ resolveQueue[i + 1] = o /\ i + 1 # 1
        BY <2>6, <3>4, <4>1
      <4>3. o # h
        BY <2>2, <4>2 DEF SlotIInv, SlotsExact
      <4> QED BY <3>1, <3>2, <4>2, <4>3
    <3> QED BY <3>3, <3>4
  <2>9. activeResolves' = EnsMaxConcurrent
    BY <1>5, <2>1 DEF SlotIInv, SlotsExact
  <2> QED BY <1>3, <2>1, <2>4, <2>5, <2>7, <2>8, <2>9 DEF SlotIInv, SlotsExact
<1> QED BY <1>4, <1>5

LEMMA SlotInductive == EnsSpec => []SlotIInv
<1>1. SlotIInv /\ [EnsNext]_EnsVars => SlotIInv'
  <2> SUFFICES ASSUME SlotIInv, [EnsNext]_EnsVars PROVE SlotIInv'
    OBVIOUS
  <2>1. ASSUME UNCHANGED slotVars PROVE SlotIInv'
    BY <2>1 DEF slotVars, SlotIInv, SlotTypes, SlotsExact, Resolving
  <2>2. ASSUME NEW c \in EnsCallers, NEW n \in Names, Hit(c, n) PROVE SlotIInv'
    BY <2>1, <2>2 DEF Hit
  <2>3. ASSUME NEW c \in EnsCallers, NEW n \in Names, Miss(c, n) PROVE SlotIInv'
    BY <2>1, <2>3, AcquireKeeps DEF Miss
  <2>4. ASSUME NEW c \in EnsCallers, Resolved(c) PROVE SlotIInv'
    BY <2>4, ReleaseKeeps DEF Resolved
  <2>5. ASSUME NEW c \in EnsCallers, ResolverError(c) PROVE SlotIInv'
    BY <2>5, ReleaseKeeps DEF ResolverError
  <2>6. ASSUME NEW n \in Names, EntryExpires(n) PROVE SlotIInv'
    BY <2>1, <2>6 DEF EntryExpires
  <2>7. CASE UNCHANGED EnsVars
    BY <2>1, <2>7 DEF EnsVars
  <2> QED BY <2>2, <2>3, <2>4, <2>5, <2>6, <2>7 DEF EnsNext
<1> QED BY SlotInit, <1>1, PTL DEF EnsSpec

(* NO SLOT IS LOST OR DOUBLED by withResolveSlot, for any number of        *)
(* callers and any ENS_MAX_CONCURRENT.                                     *)
THEOREM EnsSlotsExact == EnsSpec => []SlotsExact
<1>1. SlotIInv => SlotsExact
  BY DEF SlotIInv
<1> QED BY <1>1, SlotInductive, PTL

(* The cache of the names: a list without repetition.                      *)
Elements(s) == {s[i] : i \in DOMAIN s}

Listed(s) == /\ s \in Seq(Names)
             /\ \A i, j \in DOMAIN s : s[i] = s[j] => i = j

LEMMA ListedTwice ==
  ASSUME NEW s, Listed(s), NEW i \in DOMAIN s, NEW j \in DOMAIN s, s[i] = s[j]
  PROVE  i = j
BY DEF Listed

LEMMA WithoutListed ==
  ASSUME NEW s, Listed(s), NEW n
  PROVE  /\ Listed(Without(s, n)) /\ Elements(Without(s, n)) = Elements(s) \ {n}
         /\ Len(Without(s, n)) = IF n \in Elements(s) THEN Len(s) - 1 ELSE Len(s)
<1>1. CASE \A i \in DOMAIN s : s[i] # n
  <2>1. Without(s, n) = s /\ n \notin Elements(s) /\ Len(s) \in Nat
    BY <1>1 DEF Without, Elements, Listed
  <2> QED BY <2>1
<1>2. CASE \E i \in DOMAIN s : s[i] = n
  <2> DEFINE at == CHOOSE i \in DOMAIN s : s[i] = n
             t  == [i \in 1 .. Len(s) - 1 |-> IF i < at THEN s[i] ELSE s[i + 1]]
  <2>1. at \in DOMAIN s /\ s[at] = n
    BY <1>2
  <2>2. Without(s, n) = t
    BY <1>2 DEF Without
  <2>3. /\ s \in Seq(Names) /\ DOMAIN s = 1 .. Len(s) /\ Len(s) \in Nat
        /\ \A i \in 1 .. Len(s) : s[i] \in Names
    BY DEF Listed
  <2> HIDE DEF at
  <2>4. at \in Int /\ 1 <= at /\ at <= Len(s) /\ Len(s) - 1 \in Nat
    BY <2>1, <2>3
  <2>5. t \in Seq(Names) /\ Len(t) = Len(s) - 1 /\ DOMAIN t = 1 .. Len(s) - 1
    <3>1. \A i \in 1 .. Len(s) - 1 : (IF i < at THEN s[i] ELSE s[i + 1]) \in Names
      BY <2>3, <2>4
    <3>2. t \in [1 .. Len(s) - 1 -> Names]
      BY <3>1
    <3> HIDE DEF t
    <3> QED BY <2>4, <3>2
  <2> DEFINE from(i) == IF i < at THEN i ELSE i + 1
  <2>6. ASSUME NEW i \in DOMAIN t
        PROVE  from(i) \in DOMAIN s /\ from(i) # at /\ t[i] = s[from(i)] /\ i \in Int
    BY <2>3, <2>4, <2>5
  <2>7. \A i, j \in Int : from(i) = from(j) => i = j
    BY <2>4
  <2>8. ASSUME NEW k \in DOMAIN s, k # at
        PROVE  \E i \in DOMAIN t : from(i) = k
    <3>1. CASE k < at
      BY <2>3, <2>4, <2>5, <3>1
    <3>2. CASE k > at
      <4>1. k - 1 \in DOMAIN t /\ from(k - 1) = k
        BY <2>3, <2>4, <2>5, <3>2
      <4> QED BY <4>1
    <3> QED BY <2>3, <2>4, <2>8, <3>1, <3>2
  <2> HIDE DEF t, from
  <2>9. ASSUME NEW i \in DOMAIN t, NEW j \in DOMAIN t, t[i] = t[j] PROVE i = j
    <3>1. from(i) = from(j)
      BY <2>6, <2>9, ListedTwice
    <3> QED BY <2>6, <2>7, <3>1
  <2>10. Elements(t) \subseteq Elements(s) \ {n}
    <3>1. ASSUME NEW i \in DOMAIN t PROVE t[i] \in Elements(s) /\ t[i] # n
      BY <2>1, <2>6, ListedTwice DEF Elements
    <3> QED BY <3>1 DEF Elements
  <2>11. Elements(s) \ {n} \subseteq Elements(t)
    <3>1. ASSUME NEW k \in DOMAIN s, s[k] # n PROVE s[k] \in Elements(t)
      <4>1. PICK i \in DOMAIN t : from(i) = k
        BY <2>1, <2>8, <3>1
      <4> QED BY <2>6, <4>1 DEF Elements
    <3> QED BY <3>1 DEF Elements
  <2>12. n \in Elements(s)
    BY <2>1 DEF Elements
  <2> QED BY <2>2, <2>3, <2>5, <2>9, <2>10, <2>11, <2>12 DEF Listed
<1> QED BY <1>1, <1>2

LEMMA AppendListed ==
  ASSUME NEW s, Listed(s), NEW n \in Names, n \notin Elements(s)
  PROVE  /\ Listed(Append(s, n)) /\ Elements(Append(s, n)) = Elements(s) \cup {n}
         /\ Len(Append(s, n)) = Len(s) + 1
<1> DEFINE t == Append(s, n)
<1>1. /\ s \in Seq(Names) /\ DOMAIN s = 1 .. Len(s) /\ Len(s) \in Nat
      /\ t \in Seq(Names) /\ Len(t) = Len(s) + 1 /\ DOMAIN t = 1 .. Len(s) + 1
      /\ t[Len(s) + 1] = n /\ \A i \in 1 .. Len(s) : t[i] = s[i]
  BY DEF Listed
<1> HIDE DEF t
<1>2. \A i \in DOMAIN t : i \in DOMAIN s \/ i = Len(s) + 1
  BY <1>1
<1>3. \A i \in DOMAIN s : t[i] = s[i] /\ s[i] # n /\ i \in DOMAIN t
  BY <1>1 DEF Elements
<1>4. ASSUME NEW i \in DOMAIN t, NEW j \in DOMAIN t, t[i] = t[j] PROVE i = j
  BY <1>1, <1>2, <1>3, <1>4, ListedTwice
<1>5. Elements(t) = Elements(s) \cup {n}
  <2>1. Elements(t) \subseteq Elements(s) \cup {n}
    BY <1>1, <1>2, <1>3 DEF Elements
  <2>2. n \in Elements(t)
    <3>1. Len(s) + 1 \in DOMAIN t
      BY <1>1
    <3> QED BY <1>1, <3>1 DEF Elements
  <2>3. Elements(s) \subseteq Elements(t)
    BY <1>3 DEF Elements
  <2> QED BY <2>1, <2>2, <2>3
<1> QED BY <1>1, <1>4, <1>5 DEF Listed, t

LEMMA TailListed ==
  ASSUME NEW s, Listed(s), s # <<>>
  PROVE  /\ Listed(Tail(s)) /\ Elements(Tail(s)) = Elements(s) \ {Head(s)}
         /\ Len(Tail(s)) = Len(s) - 1
<1> DEFINE t == Tail(s)
<1>1. /\ s \in Seq(Names) /\ DOMAIN s = 1 .. Len(s) /\ Len(s) \in Nat \ {0}
      /\ t \in Seq(Names) /\ Len(t) = Len(s) - 1 /\ DOMAIN t = 1 .. Len(s) - 1
      /\ Head(s) = s[1] /\ \A i \in 1 .. Len(s) - 1 : t[i] = s[i + 1]
  BY DEF Listed
<1> HIDE DEF t
<1>2. \A i \in DOMAIN t : i + 1 \in DOMAIN s /\ t[i] = s[i + 1] /\ i + 1 # 1 /\ i \in Int
  BY <1>1
<1>3. 1 \in DOMAIN s /\ \A k \in DOMAIN s : k = 1 \/ (k - 1 \in DOMAIN t /\ t[k - 1] = s[k])
  BY <1>1
<1>4. ASSUME NEW i \in DOMAIN t, NEW j \in DOMAIN t, t[i] = t[j] PROVE i = j
  <2>1. i + 1 = j + 1
    BY <1>2, <1>4, ListedTwice
  <2> QED BY <1>2, <2>1
<1>5. Elements(t) \subseteq Elements(s) \ {Head(s)}
  <2>1. ASSUME NEW i \in DOMAIN t PROVE t[i] \in Elements(s) /\ t[i] # Head(s)
    BY <1>1, <1>2, <1>3, ListedTwice DEF Elements
  <2> QED BY <2>1 DEF Elements
<1>6. Elements(s) \ {Head(s)} \subseteq Elements(t)
  <2>1. ASSUME NEW k \in DOMAIN s, s[k] # Head(s) PROVE s[k] \in Elements(t)
    BY <1>1, <1>3, <2>1 DEF Elements
  <2> QED BY <2>1 DEF Elements
<1> QED BY <1>1, <1>4, <1>5, <1>6 DEF Listed, t

CacheInv == /\ rpcUrl \in BOOLEAN /\ ensName \in [EnsCallers -> Names]
            /\ Listed(ensCache) /\ Len(ensCache) <= EnsMaxEntries
            /\ ensExpired \subseteq Elements(ensCache)

(* A name that is remembered makes the cache one longer, or replaces the   *)
(* first.                                                                  *)
LEMMA RememberKeeps ==
  ASSUME CacheInv, NEW n \in Names, Remember(n)
  PROVE  /\ Listed(ensCache') /\ Len(ensCache') <= EnsMaxEntries
         /\ ensExpired' \subseteq Elements(ensCache')
<1> DEFINE rest   == Without(ensCache, n)
           longer == Append(rest, n)
<1>1. /\ Listed(rest) /\ Elements(rest) = Elements(ensCache) \ {n}
      /\ Len(rest) \in {Len(ensCache), Len(ensCache) - 1}
  BY WithoutListed DEF CacheInv
<1>2. /\ Listed(longer) /\ Elements(longer) = Elements(ensCache) \cup {n}
      /\ Len(longer) = Len(rest) + 1
  <2> HIDE DEF rest
  <2>1. n \notin Elements(rest)
    BY <1>1
  <2> QED BY <1>1, <2>1, AppendListed
<1>3. Len(rest) \in Nat /\ Len(ensCache) \in Nat /\ Len(ensCache) <= EnsMaxEntries
  BY <1>1 DEF CacheInv, Listed
<1>4. /\ ensCache' = IF Len(longer) > EnsMaxEntries THEN Tail(longer) ELSE longer
      /\ ensExpired' = IF Len(longer) > EnsMaxEntries
                       THEN ensExpired \ {n, Head(longer)} ELSE ensExpired \ {n}
  BY DEF Remember
<1>5. ensExpired \subseteq Elements(ensCache)
  BY DEF CacheInv
<1> HIDE DEF longer, rest
<1>6. CASE Len(longer) > EnsMaxEntries
  <2>1. longer # <<>>
    BY <1>2, <1>3
  <2>2. /\ Listed(Tail(longer)) /\ Elements(Tail(longer)) = Elements(longer) \ {Head(longer)}
        /\ Len(Tail(longer)) = Len(longer) - 1
    BY <1>2, <2>1, TailListed
  <2> QED BY <1>1, <1>2, <1>3, <1>4, <1>5, <1>6, <2>2, EnsAssumption
<1>7. CASE ~ (Len(longer) > EnsMaxEntries)
  BY <1>2, <1>3, <1>4, <1>5, <1>7, EnsAssumption
<1> QED BY <1>6, <1>7

LEMMA CacheInductive == EnsSpec => []CacheInv
<1>1. EnsInit => CacheInv
  <2> SUFFICES ASSUME EnsInit PROVE CacheInv
    OBVIOUS
  <2>1. ensName \in [EnsCallers -> Names]
    <3>1. (CHOOSE n \in Names : TRUE) \in Names
      BY EnsAssumption
    <3> QED BY <3>1 DEF EnsInit
  <2> QED BY <2>1, EnsAssumption DEF EnsInit, CacheInv, Listed, Elements
<1>2. CacheInv /\ [EnsNext]_EnsVars => CacheInv'
  <2> SUFFICES ASSUME CacheInv, [EnsNext]_EnsVars PROVE CacheInv'
    OBVIOUS
  <2>1. ASSUME UNCHANGED <<rpcUrl, ensName>> PROVE (rpcUrl \in BOOLEAN /\ ensName \in [EnsCallers -> Names])'
    BY <2>1 DEF CacheInv
  <2>2. ASSUME NEW c \in EnsCallers, NEW n \in Names, Hit(c, n) PROVE CacheInv'
    <3> DEFINE rest == Without(ensCache, n)
    <3>1. /\ ensCache' = Append(rest, n) /\ ensExpired' = ensExpired
          /\ UNCHANGED <<rpcUrl, ensName>> /\ n \in Elements(ensCache)
      BY <2>2 DEF Hit, slotVars, Cached, Elements
    <3>2. /\ Listed(rest) /\ Elements(rest) = Elements(ensCache) \ {n}
          /\ Len(rest) = Len(ensCache) - 1
      BY <3>1, WithoutListed DEF CacheInv
    <3> HIDE DEF rest
    <3>3. n \notin Elements(rest)
      BY <3>2
    <3>4. /\ Listed(ensCache') /\ Elements(ensCache') = Elements(rest) \cup {n}
          /\ Len(ensCache') = Len(rest) + 1
      BY <3>1, <3>2, <3>3, AppendListed
    <3>5. Elements(ensCache') = Elements(ensCache)
      BY <3>1, <3>2, <3>4
    <3>6. Len(ensCache') <= EnsMaxEntries
      BY <3>2, <3>4, EnsAssumption DEF CacheInv, Listed
    <3> QED BY <2>1, <3>1, <3>4, <3>5, <3>6 DEF CacheInv
  <2>3. ASSUME NEW c \in EnsCallers, NEW n \in Names, Miss(c, n) PROVE CacheInv'
    <3>1. /\ ensCache' = Without(ensCache, n) /\ ensExpired' = ensExpired \ {n} /\ rpcUrl' = rpcUrl
      BY <2>3 DEF Miss
    <3>2. /\ Listed(ensCache') /\ Elements(ensCache') = Elements(ensCache) \ {n}
          /\ Len(ensCache') \in {Len(ensCache), Len(ensCache) - 1}
      BY <3>1, WithoutListed DEF CacheInv
    <3>3. ensName' \in [EnsCallers -> Names]
      BY <2>3 DEF Miss, slotVars, CacheInv
    <3>4. Len(ensCache') <= EnsMaxEntries
      BY <3>2, EnsAssumption DEF CacheInv, Listed
    <3> QED BY <3>1, <3>2, <3>3, <3>4 DEF CacheInv
  <2>4. ASSUME NEW c \in EnsCallers, Resolved(c) PROVE CacheInv'
    <3>1. ensName[c] \in Names /\ Remember(ensName[c]) /\ UNCHANGED <<rpcUrl, ensName>>
      BY <2>4 DEF Resolved, CacheInv
    <3> QED BY <2>1, <3>1, RememberKeeps DEF CacheInv
  <2>5. ASSUME NEW c \in EnsCallers, ResolverError(c) PROVE CacheInv'
    BY <2>5 DEF ResolverError, CacheInv
  <2>6. ASSUME NEW n \in Names, EntryExpires(n) PROVE CacheInv'
    BY <2>6 DEF EntryExpires, CacheInv, slotVars, Cached, Elements
  <2>7. CASE UNCHANGED EnsVars
    BY <2>7 DEF EnsVars, slotVars, CacheInv
  <2> QED BY <2>2, <2>3, <2>4, <2>5, <2>6, <2>7 DEF EnsNext
<1> QED BY <1>1, <1>2, PTL DEF EnsSpec

(* THE CACHE OF THE NAMES IS A BOUNDED LIST WITHOUT REPETITION, as TTLCache*)
(* keeps it with its order and its limit, and the rest has its types.      *)
THEOREM EnsTypeCorrect == EnsSpec => []EnsTypeOK
<1>1. CacheInv => Len(ensCache) = Cardinality(Cached) /\ Cached = Elements(ensCache)
  <2> SUFFICES ASSUME CacheInv PROVE Len(ensCache) = Cardinality(Cached)
    BY DEF Cached, Elements
  <2>1. /\ DOMAIN ensCache = 1 .. Len(ensCache) /\ Len(ensCache) \in Nat
        /\ ensCache = [i \in DOMAIN ensCache |-> ensCache[i]]
        /\ \A i, j \in DOMAIN ensCache : ensCache[i] = ensCache[j] => i = j
    BY DEF CacheInv, Listed
  <2>2. ensCache \in Surjection(1 .. Len(ensCache), Cached)
    BY <2>1 DEF Surjection, Cached
  <2>3. ensCache \in Injection(1 .. Len(ensCache), Cached)
    BY <2>1, <2>2 DEF Surjection, Injection, IsInjective
  <2>4. IsFiniteSet(1 .. Len(ensCache)) /\ Cardinality(1 .. Len(ensCache)) = Len(ensCache)
    <3>1. ASSUME NEW n \in Nat PROVE IsFiniteSet(1 .. n) /\ Cardinality(1 .. n) = n
      <4>1. /\ IsFiniteSet(1 .. n)
            /\ Cardinality(1 .. n) = IF 1 > n THEN 0 ELSE n - 1 + 1
        BY FS_Interval
      <4> QED BY <4>1
    <3> QED BY <2>1, <3>1
  <2> QED BY <2>2, <2>3, <2>4, FS_Surjection
<1>2. SlotIInv /\ CacheInv => EnsTypeOK
  BY <1>1, EnsAssumption DEF SlotIInv, SlotTypes, SlotsExact, CacheInv, Listed, EnsTypeOK
<1> QED BY <1>2, SlotInductive, CacheInductive, PTL

-----------------------------------------------------------------------------
(* The RPC pool of the Sepolia listener.  Past(bad) is how far the pool    *)
(* has been rotated past the bad endpoint, and Owed(k) the error events it *)
(* takes to bring the pool back to it after each of k tries.               *)
Past(bad) == IF currentIndex >= bad THEN currentIndex - bad ELSE currentIndex - bad + RpcUrls

Owed(k) == k * (RpcUrls - 1)

(* The try at the bad endpoint rotates the pool itself: one step is free.  *)
RoundWay(bad) == IF currentIndex = bad THEN RpcUrls ELSE Past(bad)

StraysOK(bad) ==
  /\ rpcPc = "calling" /\ usedIndex = bad => strays >= Owed(attempt) + Past(bad)
  /\ rpcPc = "sleeping" => /\ attempt >= 1
                           /\ strays + 1 >= Owed(attempt - 1) + RoundWay(bad)
  /\ rpcOutcome = "exhausted" => rpcPc = "idle" /\ strays >= Owed(RpcMaxAttempts - 1)

MultiRpcIInv == /\ MultiRpcTypeOK
                /\ rpcPc = "calling" => attempt < RpcMaxAttempts
                /\ \A bad \in RpcEndpoints : OnlyBad(bad) => StraysOK(bad)

LEMMA OwedOneMore ==
  ASSUME NEW k \in Nat
  PROVE  Owed(k) \in Nat /\ Owed(k + 1) = Owed(k) + (RpcUrls - 1) /\ Owed(0) = 0
BY MultiRpcAssumption DEF Owed

LEMMA NextIndex ==
  ASSUME NEW i \in RpcEndpoints
  PROVE  /\ (i + 1) % RpcUrls = IF i + 1 = RpcUrls THEN 0 ELSE i + 1
         /\ (i + 1) % RpcUrls \in RpcEndpoints
<1>1. \A n \in Nat \ {0} : n % n = 0
  OBVIOUS
<1>2. \A n \in Nat \ {0} : \A k \in 0 .. n - 1 : k % n = k
  OBVIOUS
<1> QED BY <1>1, <1>2, MultiRpcAssumption DEF RpcEndpoints

(* A rotation is one step past the bad endpoint, or the whole way round.   *)
LEMMA RotatedPast ==
  ASSUME MultiRpcTypeOK, RotateProvider, NEW bad \in RpcEndpoints
  PROVE  /\ currentIndex' \in RpcEndpoints /\ made' \subseteq RpcEndpoints
         /\ Past(bad) \in Nat /\ Past(bad)' \in Nat
         /\ RoundWay(bad)' = Past(bad) + 1
         /\ Past(bad)' <= Past(bad) + 1
         /\ RoundWay(bad) >= 1 /\ RoundWay(bad)' <= RoundWay(bad) + 1
<1>1. /\ currentIndex' = IF currentIndex + 1 = RpcUrls THEN 0 ELSE currentIndex + 1
      /\ currentIndex \in RpcEndpoints /\ currentIndex' \in RpcEndpoints
  BY NextIndex DEF RotateProvider, MultiRpcTypeOK
<1>2. RpcUrls \in Nat \ {0} /\ RpcEndpoints = 0 .. RpcUrls - 1
  BY MultiRpcAssumption DEF RpcEndpoints
<1>3. made' \subseteq RpcEndpoints
  BY <1>1 DEF RotateProvider, MultiRpcTypeOK
<1> QED BY <1>1, <1>2, <1>3 DEF Past, RoundWay

LEMMA MultiRpcTyped == MultiRpcTypeOK /\ [MultiRpcNext]_MultiRpcVars /\ (rpcPc = "calling" => attempt < RpcMaxAttempts)
                         => MultiRpcTypeOK' /\ (rpcPc' = "calling" => attempt' < RpcMaxAttempts)
<1> SUFFICES ASSUME MultiRpcTypeOK, [MultiRpcNext]_MultiRpcVars,
                    rpcPc = "calling" => attempt < RpcMaxAttempts
             PROVE  MultiRpcTypeOK' /\ (rpcPc' = "calling" => attempt' < RpcMaxAttempts)
  OBVIOUS
<1> USE MultiRpcAssumption
<1>1. RotateProvider => currentIndex' \in RpcEndpoints /\ made' \subseteq RpcEndpoints
  BY NextIndex DEF RotateProvider, MultiRpcTypeOK
<1>2. CASE BeginCall
  BY <1>2 DEF BeginCall, Try, MultiRpcTypeOK
<1>3. CASE TrySucceeds
  BY <1>3 DEF TrySucceeds, MultiRpcTypeOK
<1>4. CASE TryRefused \/ TryFails
  BY <1>1, <1>4 DEF TryRefused, TryFails, MultiRpcTypeOK
<1>5. CASE WakeUp
  BY <1>5 DEF WakeUp, Try, MultiRpcTypeOK
<1>6. CASE StrayError \/ IdleError
  BY <1>1, <1>6 DEF StrayError, IdleError, callVars, MultiRpcTypeOK
<1>7. CASE UNCHANGED MultiRpcVars
  BY <1>7 DEF MultiRpcVars, callVars, MultiRpcTypeOK
<1> QED BY <1>2, <1>3, <1>4, <1>5, <1>6, <1>7 DEF MultiRpcNext

LEMMA StraysKept ==
  ASSUME MultiRpcIInv, [MultiRpcNext]_MultiRpcVars, NEW bad \in RpcEndpoints, OnlyBad(bad)
  PROVE  StraysOK(bad)'
<1> USE DEF MultiRpcIInv
<1>1. /\ MultiRpcTypeOK /\ StraysOK(bad)
      /\ attempt \in Nat /\ strays \in Nat /\ RpcMaxAttempts \in Nat \ {0} /\ RpcUrls \in Nat \ {0}
  BY MultiRpcAssumption DEF MultiRpcTypeOK
<1>2. CASE BeginCall
  BY <1>1, <1>2, OwedOneMore DEF BeginCall, Try, StraysOK, Past, MultiRpcTypeOK, RpcEndpoints
<1>3. CASE TrySucceeds
  BY <1>1, <1>3 DEF TrySucceeds, StraysOK
<1>4. CASE TryRefused
  <2>1. usedIndex = bad
    BY <1>1, <1>4 DEF TryRefused, OnlyBad, MultiRpcTypeOK
  <2>2. strays' >= Owed(attempt) + Past(bad) /\ attempt' = attempt + 1
    BY <1>1, <1>4, <2>1 DEF TryRefused, StraysOK
  <2>3. RoundWay(bad)' = Past(bad) + 1 /\ Past(bad) \in Nat
    BY <1>1, <1>4, RotatedPast DEF TryRefused
  <2>4. attempt' - 1 = attempt /\ Owed(attempt) \in Nat
    BY <1>1, <2>2, OwedOneMore
  <2>5. Owed(attempt - 1)' = Owed(attempt)
    BY <2>4 DEF Owed
  <2>6. strays' = strays /\ rpcPc' = "sleeping" /\ rpcOutcome' = rpcOutcome /\ rpcPc = "calling"
    BY <1>4 DEF TryRefused
  <2>7. strays' + 1 >= Owed(attempt - 1)' + RoundWay(bad)'
    BY <1>1, <2>2, <2>3, <2>4, <2>5, <2>6
  <2> QED BY <1>1, <2>2, <2>6, <2>7 DEF StraysOK
<1>5. CASE TryFails
  BY <1>1, <1>5 DEF TryFails, OnlyBad, MultiRpcTypeOK
<1>6. CASE WakeUp
  <2> DEFINE k == attempt - 1
  <2>1. /\ rpcPc = "sleeping" /\ rpcOutcome # "exhausted"
        /\ k \in Nat /\ strays + 1 >= Owed(k) + RoundWay(bad)
        /\ UNCHANGED <<currentIndex, attempt, strays>>
    BY <1>1, <1>6 DEF WakeUp, StraysOK
  <2>2. RoundWay(bad) \in Nat \ {0} /\ (currentIndex = bad => RoundWay(bad) = RpcUrls /\ Past(bad) = 0)
    BY <1>1 DEF RoundWay, Past, MultiRpcTypeOK, RpcEndpoints
  <2>3. Owed(k) \in Nat /\ Owed(attempt) = Owed(k) + (RpcUrls - 1)
    BY <1>1, <2>1, OwedOneMore
  <2>4. CASE attempt < RpcMaxAttempts
    <3>1. usedIndex' = currentIndex /\ rpcPc' = "calling" /\ rpcOutcome' = rpcOutcome
      BY <1>6, <2>4 DEF WakeUp, Try
    <3>2. currentIndex = bad => strays >= Owed(attempt) + Past(bad)
      BY <1>1, <2>1, <2>2, <2>3
    <3> QED BY <2>1, <3>1, <3>2 DEF StraysOK, Owed, Past
  <2>5. CASE ~ (attempt < RpcMaxAttempts)
    <3>1. rpcPc' = "idle" /\ attempt = RpcMaxAttempts
      BY <1>1, <1>6, <2>5 DEF WakeUp, MultiRpcTypeOK
    <3>2. strays >= Owed(k)
      BY <1>1, <2>1, <2>2, <2>3
    <3> QED BY <2>1, <3>1, <3>2 DEF StraysOK
  <2> QED BY <2>4, <2>5
<1>7. CASE StrayError
  <2>1. /\ strays' = strays + 1 /\ UNCHANGED <<rpcPc, usedIndex, attempt, rpcOutcome>>
        /\ rpcPc # "idle" /\ RotateProvider
    BY <1>7 DEF StrayError, callVars
  <2>2. Owed(attempt)' = Owed(attempt) /\ Owed(attempt - 1)' = Owed(attempt - 1)
    BY <2>1 DEF Owed
  <2>3. Owed(attempt) \in Int /\ (rpcPc = "sleeping" => Owed(attempt - 1) \in Int)
    BY <1>1, OwedOneMore DEF StraysOK
  <2>4. RoundWay(bad) \in Int /\ RoundWay(bad)' \in Int
    BY <1>1, <2>1, RotatedPast DEF RoundWay
  <2> QED BY <1>1, <2>1, <2>2, <2>3, <2>4, RotatedPast DEF StraysOK
<1>8. CASE IdleError
  BY <1>1, <1>8 DEF IdleError, callVars, StraysOK
<1>9. CASE UNCHANGED MultiRpcVars
  BY <1>1, <1>9 DEF MultiRpcVars, callVars, StraysOK, Past, RoundWay, Owed
<1> QED BY <1>2, <1>3, <1>4, <1>5, <1>6, <1>7, <1>8, <1>9 DEF MultiRpcNext

LEMMA MultiRpcInductive == MultiRpcSpec => []MultiRpcIInv
<1>1. MultiRpcInit => MultiRpcIInv
  BY MultiRpcAssumption
  DEF MultiRpcInit, MultiRpcIInv, MultiRpcTypeOK, StraysOK, RpcEndpoints
<1>2. MultiRpcIInv /\ [MultiRpcNext]_MultiRpcVars => MultiRpcIInv'
  <2> SUFFICES ASSUME MultiRpcIInv, [MultiRpcNext]_MultiRpcVars PROVE MultiRpcIInv'
    OBVIOUS
  <2>1. rpcBehaviour' = rpcBehaviour
    BY DEF MultiRpcNext, MultiRpcVars, callVars, BeginCall, TrySucceeds, TryRefused, TryFails,
           WakeUp, StrayError, IdleError
  <2>2. \A bad \in RpcEndpoints : OnlyBad(bad)' => StraysOK(bad)'
    BY <2>1, StraysKept DEF OnlyBad
  <2> QED BY <2>2, MultiRpcTyped DEF MultiRpcIInv
<1> QED BY <1>1, <1>2, PTL DEF MultiRpcSpec

(* ERROR EVENTS ALONE HARDLY EXHAUST THE POOL: callWithRetry gives up, for *)
(* one bad endpoint, only after as many events as it takes to rotate the   *)
(* pool all the way round after every try but the last.                    *)
THEOREM MultiRpcExhaustion == MultiRpcSpec => []ExhaustedByStraysOnly
<1>1. MultiRpcIInv => ExhaustedByStraysOnly
  BY DEF MultiRpcIInv, StraysOK, Owed, ExhaustedByStraysOnly
<1> QED BY <1>1, MultiRpcInductive, PTL

(* THE TYPES OF THE PROVIDERS' POOL: an index in the pool, and no more     *)
(* tries than there are.                                                   *)
THEOREM MultiRpcTypeCorrect == MultiRpcSpec => []MultiRpcTypeOK
<1>1. MultiRpcIInv => MultiRpcTypeOK
  BY DEF MultiRpcIInv
<1> QED BY <1>1, MultiRpcInductive, PTL

-----------------------------------------------------------------------------
(* The services beside one another.  A step of one of them leaves the      *)
(* others as they are, so that each behaves as it does on its own.         *)
LEMMA EachOnItsOwn ==
  ServicesSpec => /\ WindowSpec /\ EnsSpec /\ FaucetSpec /\ SettingsSpec
                  /\ MultiRpcSpec /\ BackfillSpec /\ CommentarySpec /\ UsageSpec
<1>1. ServicesInit => /\ WindowInit /\ EnsInit /\ FaucetInit /\ SettingsInit
                      /\ MultiRpcInit /\ BackfillInit /\ CommentaryInit /\ UsageInit
  BY DEF ServicesInit
<1>2. [ServicesNext]_ServicesVars => [WindowNext]_WindowVars
  BY DEF ServicesNext, ServicesVars, NotWindow
<1>3. [ServicesNext]_ServicesVars => [EnsNext]_EnsVars
  BY DEF ServicesNext, ServicesVars, NotEns
<1>4. [ServicesNext]_ServicesVars => [FaucetNext]_FaucetVars
  BY DEF ServicesNext, ServicesVars, NotFaucet
<1>5. [ServicesNext]_ServicesVars => [SettingsNext]_SettingsVars
  BY DEF ServicesNext, ServicesVars, NotSettings
<1>6. [ServicesNext]_ServicesVars => [MultiRpcNext]_MultiRpcVars
  BY DEF ServicesNext, ServicesVars, NotPool
<1>7. [ServicesNext]_ServicesVars => [BackfillNext]_BackfillVars
  BY DEF ServicesNext, ServicesVars, NotBackfill
<1>8. [ServicesNext]_ServicesVars => [CommentaryNext]_CommentaryVars
  BY DEF ServicesNext, ServicesVars, NotCommentary
<1>9. [ServicesNext]_ServicesVars => [UsageNext]_UsageVars
  BY DEF ServicesNext, ServicesVars, NotUsage
<1> QED BY <1>1, <1>2, <1>3, <1>4, <1>5, <1>6, <1>7, <1>8, <1>9, PTL
        DEF ServicesSpec, WindowSpec, EnsSpec, FaucetSpec, SettingsSpec,
            MultiRpcSpec, BackfillSpec, CommentarySpec, UsageSpec

(* EVERY COMPONENT IS IN A STATE OF ITS TYPES, whichever of them moves.    *)
THEOREM ServicesTypeCorrect == ServicesSpec => []ServicesTypeOK
<1>1. (/\ WindowTypeOK /\ EnsTypeOK /\ FaucetTypeOK /\ SettingsTypeOK
       /\ MultiRpcTypeOK /\ BackfillTypeOK /\ CommentaryTypeOK /\ UsageTypeOK)
      => ServicesTypeOK
  BY DEF ServicesTypeOK
<1> QED BY <1>1, EachOnItsOwn, WindowTypeCorrect, EnsTypeCorrect, FaucetTypeCorrect,
           SettingsTypeCorrect, MultiRpcTypeCorrect, BackfillTypeCorrect,
           CommentaryTypeCorrect, UsageTypeCorrect, PTL

(* EACH KEEPS ITS PROMISE beside the others: what holds of a component on  *)
(* its own holds of it in the whole.                                       *)
THEOREM ServicesKeepPromises ==
  ServicesSpec => /\ [](WindowExact /\ SlotsExact /\ NoUpdateLost /\ ExhaustedByStraysOnly)
                  /\ [](NothingLostSilently /\ StoredOnce /\ CommentaryTrue)
                  /\ [](UsageOrderFree /\ VerifiedNotSuspected)
                  /\ GrantsSpaced /\ MoreUseNeverHurts
BY EachOnItsOwn, RpcWindowExact, EnsSlotsExact, SettingsLoseNoUpdate, MultiRpcExhaustion,
   BackfillLosesNothing, BackfillStoresOnce, CommentaryIsTrue, UsageOrderIndependent,
   UsageVerifiedNotSuspected, FaucetSpacesGrants, UsageMoreNeverHurts, PTL
=============================================================================
