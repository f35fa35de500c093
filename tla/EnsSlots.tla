------------------------------ MODULE EnsSlots ------------------------------
(***************************************************************************)
(* The resolution of ENS names, services/ensService.ts, over the bounded   *)
(* cache TTLCache of services/cacheService.ts.                             *)
(*                                                                         *)
(* A name that is not cached is resolved over RPC, by a few callers at a   *)
(* time.  The others wait in a queue.  A caller that is done gives its     *)
(* slot back and, in the same turn of the event loop, calls the first of   *)
(* the queue, which takes the slot again.                                  *)
(***************************************************************************)
EXTENDS Integers, Sequences, FiniteSets

CONSTANTS
  EnsCallers,        \* requests in flight, each slot used again and again
  Names,             \* the names asked for, normalized
  EnsMaxConcurrent,  \* ENS_MAX_CONCURRENT, 5 in the code
  EnsMaxEntries      \* ENS_CACHE_MAX_ENTRIES, 5000 in the code

ASSUME EnsAssumption == /\ IsFiniteSet(EnsCallers)
                        /\ Names # {}
                        /\ EnsMaxConcurrent \in Nat \ {0}
                        /\ EnsMaxEntries \in Nat \ {0}

VARIABLES
  rpcUrl,          \* whether RPC_URL_MAINNET is set, fixed in the initial state
  ensPc,           \* where each caller is
  ensName,         \* the name it asks for
  activeResolves,
  resolveQueue,    \* callers waiting for a slot
  ensCache,        \* the cached names, the least recently used first
  ensExpired       \* those whose time is over

slotVars == <<ensPc, ensName, activeResolves, resolveQueue>>
EnsVars  == <<rpcUrl, slotVars, ensCache, ensExpired>>

Cached == {ensCache[i] : i \in DOMAIN ensCache}

(* Map.delete of a key that is there once, or not at all.                  *)
Without(s, n) ==
  IF \A i \in DOMAIN s : s[i] # n THEN s
  ELSE LET at == CHOOSE i \in DOMAIN s : s[i] = n
       IN [i \in 1 .. Len(s) - 1 |-> IF i < at THEN s[i] ELSE s[i + 1]]

-----------------------------------------------------------------------------
EnsInit == /\ rpcUrl \in BOOLEAN
           /\ ensPc = [c \in EnsCallers |-> "idle"]
           /\ ensName \in [EnsCallers -> {CHOOSE n \in Names : TRUE}]
           /\ activeResolves = 0
           /\ resolveQueue = <<>>
           /\ ensCache = <<>>
           /\ ensExpired = {}

(* acquireResolveSlot.                                                     *)
AcquireResolveSlot(c) ==
  \/ /\ activeResolves < EnsMaxConcurrent
     /\ activeResolves' = activeResolves + 1
     /\ ensPc' = [ensPc EXCEPT ![c] = "resolving"]
     /\ UNCHANGED resolveQueue
  \/ /\ activeResolves >= EnsMaxConcurrent
     /\ resolveQueue' = Append(resolveQueue, c)
     /\ ensPc' = [ensPc EXCEPT ![c] = "waiting"]
     /\ UNCHANGED activeResolves

(* TTLCache.get of a fresh entry moves it to the end of the order.         *)
Hit(c, n) == /\ ensPc[c] = "idle"
             /\ n \in Cached \ ensExpired
             /\ ensCache' = Append(Without(ensCache, n), n)
             /\ UNCHANGED <<rpcUrl, slotVars, ensExpired>>

(* TTLCache.get of an expired entry removes it.                            *)
Miss(c, n) == /\ ensPc[c] = "idle"
              /\ n \notin Cached \ ensExpired
              /\ ensCache' = Without(ensCache, n)
              /\ ensExpired' = ensExpired \ {n}
              /\ IF rpcUrl
                 THEN /\ ensName' = [ensName EXCEPT ![c] = n]
                      /\ AcquireResolveSlot(c)
                 ELSE UNCHANGED slotVars    \* rpc_missing
              /\ UNCHANGED rpcUrl

\* Mutants: the slot goes to the newest of the queue; the counter is not
\* taken up again when the slot is handed over.
ReleaseToNewest(c) ==
  IF resolveQueue = <<>>
  THEN /\ ensPc' = [ensPc EXCEPT ![c] = "idle"]
       /\ activeResolves' = activeResolves - 1
       /\ UNCHANGED resolveQueue
  ELSE /\ ensPc' = [ensPc EXCEPT ![c] = "idle",
                                 ![resolveQueue[Len(resolveQueue)]] = "resolving"]
       /\ resolveQueue' = SubSeq(resolveQueue, 1, Len(resolveQueue) - 1)
       /\ UNCHANGED activeResolves

ReleaseUncounted(c) ==
  /\ activeResolves' = IF activeResolves > 0 THEN activeResolves - 1 ELSE 0
  /\ IF resolveQueue = <<>>
     THEN /\ ensPc' = [ensPc EXCEPT ![c] = "idle"]
          /\ UNCHANGED resolveQueue
     ELSE /\ ensPc' = [ensPc EXCEPT ![c] = "idle", ![Head(resolveQueue)] = "resolving"]
          /\ resolveQueue' = Tail(resolveQueue)

(* release: the counter goes down, and the next of the queue puts it up.   *)
Release(c) ==
  LET given == IF activeResolves > 0 THEN activeResolves - 1 ELSE 0
  IN IF resolveQueue = <<>>
     THEN /\ activeResolves' = given
          /\ ensPc' = [ensPc EXCEPT ![c] = "idle"]
          /\ UNCHANGED resolveQueue
     ELSE /\ activeResolves' = given + 1
          /\ ensPc' = [ensPc EXCEPT ![c] = "idle", ![Head(resolveQueue)] = "resolving"]
          /\ resolveQueue' = Tail(resolveQueue)

\* Mutant: nothing makes room.
RememberMutant(n) == /\ ensCache' = Append(Without(ensCache, n), n)
                     /\ ensExpired' = ensExpired \ {n}

(* TTLCache.set: a new entry at the end of the order; the first, the least *)
(* recently used, makes room for it.                                       *)
Remember(n) ==
  LET longer == Append(Without(ensCache, n), n)
  IN /\ ensCache' = IF Len(longer) > EnsMaxEntries THEN Tail(longer) ELSE longer
     /\ ensExpired' = IF Len(longer) > EnsMaxEntries
                      THEN ensExpired \ {n, Head(longer)} ELSE ensExpired \ {n}

(* An address, or none for this name: cached either way.                   *)
Resolved(c) == /\ ensPc[c] = "resolving"
               /\ Release(c)
               /\ Remember(ensName[c])
               /\ UNCHANGED <<rpcUrl, ensName>>

(* resolver_error is answered and not cached.                              *)
ResolverError(c) == /\ ensPc[c] = "resolving"
                    /\ Release(c)
                    /\ UNCHANGED <<rpcUrl, ensName, ensCache, ensExpired>>

(* The time of an entry is over.  Which one's first is left open.          *)
EntryExpires(n) == /\ n \in Cached \ ensExpired
                   /\ ensExpired' = ensExpired \cup {n}
                   /\ UNCHANGED <<rpcUrl, slotVars, ensCache>>

EnsNext == \/ \E c \in EnsCallers : \/ \E n \in Names : Hit(c, n) \/ Miss(c, n)
                                    \/ Resolved(c)
                                    \/ ResolverError(c)
           \/ \E n \in Names : EntryExpires(n)

EnsSpec == EnsInit /\ [][EnsNext]_EnsVars

(* Every lookup ends: ethers gives up on a request of its own accord.      *)
EnsFairness == \A c \in EnsCallers : WF_EnsVars(Resolved(c) \/ ResolverError(c))

-----------------------------------------------------------------------------
Resolving == {c \in EnsCallers : ensPc[c] = "resolving"}

EnsTypeOK ==
  /\ rpcUrl \in BOOLEAN
  /\ ensPc \in [EnsCallers -> {"idle", "waiting", "resolving"}]
  /\ ensName \in [EnsCallers -> Names]
  /\ activeResolves \in 0 .. EnsMaxConcurrent
  /\ resolveQueue \in Seq(EnsCallers)
  /\ ensCache \in Seq(Names)
  /\ Len(ensCache) = Cardinality(Cached)
  /\ Len(ensCache) <= EnsMaxEntries
  /\ ensExpired \subseteq Cached

(* NO SLOT IS LOST OR DOUBLED.  The counter is the number of callers that  *)
(* resolve a name, who wait are in the queue once each, and nobody waits   *)
(* while a slot is free, so that nobody can overtake the queue either.     *)
SlotsExact ==
  /\ activeResolves = Cardinality(Resolving)
  /\ activeResolves <= EnsMaxConcurrent
  /\ \A i, j \in DOMAIN resolveQueue : resolveQueue[i] = resolveQueue[j] => i = j
  /\ \A c \in EnsCallers :
       ensPc[c] = "waiting" <=> \E i \in DOMAIN resolveQueue : resolveQueue[i] = c
  /\ resolveQueue # <<>> => activeResolves = EnsMaxConcurrent

(* EVERY NAME IS ANSWERED, however many callers keep asking.               *)
EveryNameAnswered == \A c \in EnsCallers : ensPc[c] # "idle" ~> ensPc[c] = "idle"
=============================================================================
