------------------------------ MODULE MultiRpc ------------------------------
(***************************************************************************)
(* MultiRpcProvider, the RPC pool of the Sepolia listener.                 *)
(*                                                                         *)
(* The listener makes one call at a time.  A try that fails with a rate    *)
(* limit or a broken connection rotates the pool before the pause.  So     *)
(* does an error event of any provider the pool ever made, also of one it  *)
(* has rotated away from: then it leaves an endpoint that works.           *)
(***************************************************************************)
EXTENDS Integers

CONSTANTS
  RpcUrls,          \* how many endpoints there are, rpcUrls.length
  RpcBehaviours,    \* what they may be like, see RpcBehaviourType
  RpcMaxAttempts,   \* maxAttempts, 5 in the code
  MaxStrays         \* bound: error events of providers during a call

RpcEndpoints == 0 .. RpcUrls - 1

(* An endpoint answers, refuses with an error that rotates the pool, or    *)
(* fails with any other.                                                   *)
RpcBehaviourType == [RpcEndpoints -> {"answers", "refuses", "fails"}]

ASSUME MultiRpcAssumption ==
  /\ RpcUrls \in Nat \ {0}
  /\ RpcBehaviours \subseteq RpcBehaviourType
  /\ RpcMaxAttempts \in Nat \ {0}
  /\ MaxStrays \in Nat

VARIABLES
  rpcBehaviour,   \* fixed in the initial state
  currentIndex,
  made,           \* endpoints a provider was made for
  rpcPc,          \* of the call
  usedIndex,      \* the endpoint of the try
  attempt,        \* tries that have failed
  rpcOutcome,     \* how the last call ended
  \* observation
  strays          \* error events since the call began

callVars     == <<rpcPc, usedIndex, attempt, rpcOutcome>>
MultiRpcVars == <<rpcBehaviour, currentIndex, made, callVars, strays>>

-----------------------------------------------------------------------------
MultiRpcInit == /\ rpcBehaviour \in RpcBehaviours
                /\ currentIndex = 0
                /\ made = {0}
                /\ rpcPc = "idle"
                /\ usedIndex = 0
                /\ attempt = 0
                /\ rpcOutcome = "none"
                /\ strays = 0

(* rotateProvider: the next endpoint, with a new provider.                 *)
RotateProvider == /\ currentIndex' = (currentIndex + 1) % RpcUrls
                  /\ made' = made \cup {currentIndex'}

(* callWithRetry: the try takes the provider that is current now.          *)
Try == /\ usedIndex' = currentIndex
       /\ rpcPc' = "calling"

BeginCall == /\ rpcPc = "idle"
             /\ Try
             /\ attempt' = 0
             /\ rpcOutcome' = "none"
             /\ strays' = 0
             /\ UNCHANGED <<rpcBehaviour, currentIndex, made>>

TrySucceeds == /\ rpcPc = "calling" /\ rpcBehaviour[usedIndex] = "answers"
               /\ rpcPc' = "idle"
               /\ rpcOutcome' = "answered"
               /\ UNCHANGED <<rpcBehaviour, currentIndex, made, usedIndex, attempt, strays>>

\* Mutant: the pool is rotated twice, for the failed try and for its provider.
TryRefusedMutant ==
  /\ rpcPc = "calling" /\ rpcBehaviour[usedIndex] = "refuses"
  /\ currentIndex' = (currentIndex + 2) % RpcUrls
  /\ made' = made \cup {currentIndex'}
  /\ rpcPc' = "sleeping"
  /\ attempt' = attempt + 1
  /\ UNCHANGED <<rpcBehaviour, usedIndex, rpcOutcome, strays>>

TryRefused == /\ rpcPc = "calling" /\ rpcBehaviour[usedIndex] = "refuses"
              /\ RotateProvider
              /\ rpcPc' = "sleeping"
              /\ attempt' = attempt + 1
              /\ UNCHANGED <<rpcBehaviour, usedIndex, rpcOutcome, strays>>

TryFails == /\ rpcPc = "calling" /\ rpcBehaviour[usedIndex] = "fails"
            /\ rpcPc' = "sleeping"
            /\ attempt' = attempt + 1
            /\ UNCHANGED <<rpcBehaviour, currentIndex, made, usedIndex, rpcOutcome, strays>>

(* The pause is over, also the one after the last try.                     *)
WakeUp == /\ rpcPc = "sleeping"
          /\ IF attempt < RpcMaxAttempts
             THEN Try /\ UNCHANGED rpcOutcome
             ELSE rpcPc' = "idle" /\ rpcOutcome' = "exhausted" /\ UNCHANGED usedIndex
          /\ UNCHANGED <<rpcBehaviour, currentIndex, made, attempt, strays>>

(* A provider of an endpoint that does not answer emits an error.          *)
StrayError == /\ rpcPc # "idle"
              /\ strays < MaxStrays
              /\ \E e \in made : rpcBehaviour[e] # "answers"
              /\ strays' = strays + 1
              /\ RotateProvider
              /\ UNCHANGED <<rpcBehaviour, callVars>>

(* The same between two calls.                                             *)
IdleError == /\ rpcPc = "idle"
             /\ \E e \in made : rpcBehaviour[e] # "answers"
             /\ RotateProvider
             /\ UNCHANGED <<rpcBehaviour, callVars, strays>>

MultiRpcNext == \/ BeginCall \/ TrySucceeds \/ TryRefused \/ TryFails \/ WakeUp
                \/ StrayError \/ IdleError

MultiRpcSpec == MultiRpcInit /\ [][MultiRpcNext]_MultiRpcVars

-----------------------------------------------------------------------------
MultiRpcTypeOK ==
  /\ rpcBehaviour \in RpcBehaviourType
  /\ currentIndex \in RpcEndpoints
  /\ made \subseteq RpcEndpoints
  /\ rpcPc \in {"idle", "calling", "sleeping"}
  /\ usedIndex \in RpcEndpoints
  /\ attempt \in 0 .. RpcMaxAttempts
  /\ rpcOutcome \in {"none", "answered", "exhausted"}
  /\ strays \in 0 .. MaxStrays

(* Only endpoint bad does not answer, and it rotates the pool.             *)
OnlyBad(bad) == \A e \in RpcEndpoints :
                  rpcBehaviour[e] = IF e = bad THEN "refuses" ELSE "answers"

(* ERROR EVENTS ALONE HARDLY EXHAUST THE POOL.  With one bad endpoint a    *)
(* call fails only if events rotate the pool all the way round to it after *)
(* each try but the last: that takes one event for every other endpoint,   *)
(* every time.  A double rotation for one failure would break this.        *)
ExhaustedByStraysOnly ==
  rpcOutcome = "exhausted" =>
    \A bad \in RpcEndpoints :
      OnlyBad(bad) => strays >= (RpcMaxAttempts - 1) * (RpcUrls - 1)
=============================================================================
