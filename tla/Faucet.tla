------------------------------- MODULE Faucet -------------------------------
(***************************************************************************)
(* The faucet, api/legacy/routes/faucet.ts: tokens for a wallet, once per  *)
(* cooldown and wallet, and once per cooldown and IP address.              *)
(*                                                                         *)
(* The cooldowns are read when a request arrives and written when its      *)
(* transfer is mined, with the time of the arrival.  In between the event  *)
(* loop serves other requests, also for the same wallet, and the later of  *)
(* two writes may carry the earlier time.                                  *)
(***************************************************************************)
EXTENDS Integers

CONSTANTS
  FaucetRequests,  \* requests in flight, each slot used again and again
  Wallets,
  Ips,
  Cooldown,        \* COOLDOWN_MS
  MaxTime          \* bound: the clock stops here

ASSUME FaucetAssumption == Cooldown \in Nat \ {0} /\ MaxTime \in Nat

Never == -1

Times == 0 .. MaxTime

VARIABLES
  clock,
  transfers,        \* the request whose transfer is under way in each slot
  walletCooldown,
  ipCooldown,
  \* observation, since the process was started
  lastWalletGrant,  \* the latest arrival among the requests granted
  lastIpGrant,
  crowded           \* wallets and IPs that had two transfers under way at once

cooldowns  == <<walletCooldown, ipCooldown>>
grants     == <<lastWalletGrant, lastIpGrant>>
FaucetVars == <<clock, transfers, cooldowns, grants, crowded>>

NoTransfer == [at |-> Never]

Transfer == [wallet : Wallets, ip : Ips, at : Times]

Paying == {h \in FaucetRequests : transfers[h] # NoTransfer}

-----------------------------------------------------------------------------
Forgotten(S) == [x \in S |-> Never]

FaucetInit == /\ clock = 0
              /\ transfers = [h \in FaucetRequests |-> NoTransfer]
              /\ walletCooldown = Forgotten(Wallets)
              /\ ipCooldown = Forgotten(Ips)
              /\ lastWalletGrant = Forgotten(Wallets)
              /\ lastIpGrant = Forgotten(Ips)
              /\ crowded = {}

Rested(since) == since = Never \/ clock - since >= Cooldown

(* A request passes both checks and sends its transfer.  One that does not *)
(* is answered with 429 and changes nothing.                               *)
Ask(h, w, i) ==
  /\ transfers[h] = NoTransfer
  /\ Rested(walletCooldown[w])
  /\ Rested(ipCooldown[i])
  /\ transfers' = [transfers EXCEPT ![h] = [wallet |-> w, ip |-> i, at |-> clock]]
  /\ crowded' = crowded \cup {w : o \in {p \in Paying : transfers[p].wallet = w}}
                        \cup {i : o \in {p \in Paying : transfers[p].ip = i}}
  /\ UNCHANGED <<clock, cooldowns, grants>>

Later(a, b) == IF a <= b THEN b ELSE a

\* Mutant: the cooldown of the IP is not set.
GrantMutant(h) ==
  LET t == transfers[h]
  IN /\ t # NoTransfer
     /\ walletCooldown' = [walletCooldown EXCEPT ![t.wallet] = t.at]
     /\ lastWalletGrant' = [lastWalletGrant EXCEPT ![t.wallet] = Later(@, t.at)]
     /\ lastIpGrant' = [lastIpGrant EXCEPT ![t.ip] = Later(@, t.at)]
     /\ transfers' = [transfers EXCEPT ![h] = NoTransfer]
     /\ UNCHANGED <<clock, ipCooldown, crowded>>

(* The transfer is mined.  Both cooldowns start with the request's arrival.*)
Grant(h) ==
  LET t == transfers[h]
  IN /\ t # NoTransfer
     /\ walletCooldown' = [walletCooldown EXCEPT ![t.wallet] = t.at]
     /\ ipCooldown' = [ipCooldown EXCEPT ![t.ip] = t.at]
     /\ lastWalletGrant' = [lastWalletGrant EXCEPT ![t.wallet] = Later(@, t.at)]
     /\ lastIpGrant' = [lastIpGrant EXCEPT ![t.ip] = Later(@, t.at)]
     /\ transfers' = [transfers EXCEPT ![h] = NoTransfer]
     /\ UNCHANGED <<clock, crowded>>

(* The transfer fails: 500 and no cooldown.                                *)
TransferFails(h) == /\ transfers[h] # NoTransfer
                    /\ transfers' = [transfers EXCEPT ![h] = NoTransfer]
                    /\ UNCHANGED <<clock, cooldowns, grants, crowded>>

Tick == /\ clock < MaxTime
        /\ clock' = clock + 1
        /\ UNCHANGED <<transfers, cooldowns, grants, crowded>>

(* The cooldowns are in memory only: a new process knows of none.          *)
FaucetRestart == /\ transfers' = [h \in FaucetRequests |-> NoTransfer]
                 /\ walletCooldown' = Forgotten(Wallets)
                 /\ ipCooldown' = Forgotten(Ips)
                 /\ lastWalletGrant' = Forgotten(Wallets)
                 /\ lastIpGrant' = Forgotten(Ips)
                 /\ crowded' = {}
                 /\ UNCHANGED clock

FaucetNext == \/ \E h \in FaucetRequests : \/ \E w \in Wallets, i \in Ips : Ask(h, w, i)
                                           \/ Grant(h)
                                           \/ TransferFails(h)
              \/ Tick
              \/ FaucetRestart

FaucetSpec == FaucetInit /\ [][FaucetNext]_FaucetVars

-----------------------------------------------------------------------------
FaucetTypeOK ==
  /\ clock \in Times
  /\ transfers \in [FaucetRequests -> Transfer \cup {NoTransfer}]
  /\ walletCooldown \in [Wallets -> Times \cup {Never}]
  /\ ipCooldown \in [Ips -> Times \cup {Never}]
  /\ lastWalletGrant \in [Wallets -> Times \cup {Never}]
  /\ lastIpGrant \in [Ips -> Times \cup {Never}]
  /\ crowded \subseteq Wallets \cup Ips

Spaced(at, last) == last = Never \/ at - last >= Cooldown

(* GRANTS ARE SPACED.  Where a wallet never had two transfers under way at *)
(* once, each of its grants is a whole cooldown after the one before, and  *)
(* so for an IP, although the check was made before the transfer and not   *)
(* when it is recorded.  Of a wallet that had, nothing of the kind is true:*)
(* both may be granted, and the earlier arrival may end the cooldown early.*)
GrantsSpaced ==
  [][\A h \in FaucetRequests :
       Grant(h) =>
         /\ transfers[h].wallet \notin crowded =>
              Spaced(transfers[h].at, lastWalletGrant[transfers[h].wallet])
         /\ transfers[h].ip \notin crowded =>
              Spaced(transfers[h].at, lastIpGrant[transfers[h].ip])]_FaucetVars
=============================================================================
