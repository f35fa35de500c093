--------------------------- MODULE SepoliaProofs ---------------------------
(***************************************************************************)
(* What holds of the Sepolia listeners for every set of listeners, every   *)
(* chain and every bound:                                                  *)
(*   - the variables keep their types;                                     *)
(*   - wherever SEPOLIA_START_BLOCK is set or there is one listener, no    *)
(*     transfer between the start and the cursor is missing without an     *)
(*     explanation, however many listeners overwrite one another's cursor, *)
(*     and the cursor is that of a SharedLedger.                           *)
(*                                                                         *)
(* Without SEPOLIA_START_BLOCK the second does not hold for more than one  *)
(* listener: each chooses its own start.                                   *)
(***************************************************************************)
EXTENDS SepoliaListener, TLAPS

(* The head does not fall below the one the listeners started at.  InitHead *)
(* subtracts from it.                                                      *)
HeadGrown == FirstHead <= head

TypeInv == TypeOK /\ HeadGrown

Alive == {"poll", "refresh", "logs", "store", "persist"}

(* There is one start.  Either it is the start block, or the one listener  *)
(* has taken it from the head, and written it before it was announced.     *)
StartFixed ==
  /\ announced # Nothing => announced > 0
  /\ cursor # NoCursor => cursor > 0 /\ (announced # Nothing => announced <= cursor)
  /\ deployment.startBlock > 0 => /\ announced \in {Nothing, deployment.startBlock}
                                  /\ cursor # NoCursor => announced # Nothing
  /\ deployment.startBlock = 0 => (announced # Nothing => cursor # NoCursor)

(* Who looks for a start has not found any.  A listener that is at a range *)
(* has one that is not empty.                                              *)
Started(p) ==
  /\ pc[p] # "down" => p \in deployment.running
  /\ pc[p] \in {"init", "initPersist"} =>
       deployment.startBlock = 0 /\ announced = Nothing /\ cursor = NoCursor
  /\ pc[p] = "initPersist" => lastProcessedBlock[p] > 0
  /\ pc[p] \in Alive => announced # Nothing /\ announced <= lastProcessedBlock[p]
  /\ pc[p] \in {"logs", "store"} => lastProcessedBlock[p] < currentBlock[p]

OneStart == StartFixed /\ \A p \in Listeners : Started(p)

Accounted(l) == l \in docs \cup reported \cup unseen

(* What a listener believes it has processed is accounted for, and of the  *)
(* range it is at all but what is still pending.                           *)
MemoryBacked ==
  announced # Nothing =>
    \A p \in Listeners :
      /\ pc[p] \in Alive => AccountedTo(lastProcessedBlock[p])
      /\ pc[p] = "store" =>
           \A l \in Range(lastProcessedBlock[p] + 1, currentBlock[p]) \ pending[p] : Accounted(l)

IInv == TypeInv /\ OneStart /\ MemoryBacked /\ NoGap

(* SEPOLIA_START_BLOCK is set, or there is one listener at most.           *)
SafeStart == \A d \in Deployments : d.startBlock > 0 \/ \A p, q \in d.running : p = q

------------------------------------------------------------------------------
LEMMA ChargeType ==
  ASSUME TypeOK, NEW bad \in BOOLEAN, Charge(bad)
  PROVE  faults' \in 0 .. MaxFaults
BY SepoliaAssumption DEF Charge, TypeOK

LEMMA EndpointHeadType ==
  ASSUME TypeInv, NEW h \in EndpointHeads
  PROVE  h \in Nat /\ h - 1 \in Nat
BY SepoliaAssumption DEF EndpointHeads, TypeInv, TypeOK, HeadGrown

LEMMA SetCursorType ==
  ASSUME TypeOK, NEW n \in Nat, NEW ok \in BOOLEAN, SetCursor(n, ok)
  PROVE  cursor' \in {cursor, n} /\ faults' \in 0 .. MaxFaults
<1>1. PICK applied \in BOOLEAN : Charge(~ok) /\ cursor' = IF applied THEN n ELSE cursor
  BY DEF SetCursor
<1> QED
  BY <1>1, ChargeType

(* Moving one listener to another label, with nothing pending, is in type. *)
LEMMA GotoType ==
  ASSUME TypeOK, NEW p \in Listeners, NEW label, Goto(p, label),
         label \in {"down", "dead", "init", "initPersist", "poll", "refresh",
                    "logs", "store", "persist"}
  PROVE  /\ pc' \in [Listeners -> {"down", "dead", "init", "initPersist", "poll", "refresh",
                                   "logs", "store", "persist"}]
         /\ pc'[p] = label
         /\ \A q \in Listeners \ {p} : pc'[q] = pc[q]
BY DEF Goto, TypeOK

LEMMA InitType == Init => TypeInv
BY SepoliaAssumption DEF Init, TypeInv, TypeOK, HeadGrown, NoCursor, Nothing

LEMMA NextType == TypeInv /\ [Next]_vars => TypeInv'
<1> SUFFICES ASSUME TypeInv, [Next]_vars PROVE TypeInv'
  OBVIOUS
<1> USE SepoliaAssumption
<1>0. TypeOK
  BY DEF TypeInv
<1>1. CASE UNCHANGED vars
  BY <1>1 DEF TypeInv, TypeOK, HeadGrown, vars, procVars, obsVars
<1>2. CASE Mine
  BY <1>2 DEF Mine, TypeInv, TypeOK, HeadGrown, procVars, obsVars
<1>3. ASSUME NEW p \in Listeners, Work(p) \/ Fail(p)
      PROVE  TypeInv'
  <2>1. CASE Start(p)
    BY <1>0, <2>1, GotoType DEF Start, Announce, TypeInv, TypeOK, HeadGrown, DeploymentType,
                                NoCursor, Nothing
  <2>2. CASE InitHead(p)
    <3>1. PICK h \in EndpointHeads :
            /\ Charge(h # head)
            /\ lastProcessedBlock' = [lastProcessedBlock EXCEPT ![p] = h - 1]
            /\ currentBlock' = [currentBlock EXCEPT ![p] = h]
      BY <2>2 DEF InitHead
    <3>2. faults' \in 0 .. MaxFaults
      BY <1>0, <3>1, ChargeType
    <3>3. h \in Nat /\ h - 1 \in Nat
      BY <3>1, EndpointHeadType
    <3> QED
      BY <1>0, <2>2, <3>1, <3>2, <3>3, GotoType DEF InitHead, TypeInv, TypeOK, HeadGrown, obsVars
  <2>3. CASE InitPersist(p)
    <3>1. PICK ok \in BOOLEAN :
            /\ SetCursor(lastProcessedBlock[p], ok)
            /\ IF ok THEN Goto(p, "poll") /\ Announce(lastProcessedBlock[p])
                     ELSE Goto(p, "dead") /\ UNCHANGED announced
      BY <2>3 DEF InitPersist
    <3>2. lastProcessedBlock[p] \in Nat
      BY <1>0 DEF TypeOK
    <3>3. cursor' \in {cursor, lastProcessedBlock[p]} /\ faults' \in 0 .. MaxFaults
      BY <1>0, <3>1, <3>2, SetCursorType
    <3> QED
      BY <1>0, <2>3, <3>1, <3>2, <3>3, GotoType
      DEF InitPersist, Announce, TypeInv, TypeOK, HeadGrown
  <2>4. CASE Poll(p)
    <3>1. PICK h \in EndpointHeads :
            Charge(h # head) /\ currentBlock' = [currentBlock EXCEPT ![p] = h]
      BY <2>4 DEF Poll
    <3>2. faults' \in 0 .. MaxFaults
      BY <1>0, <3>1, ChargeType
    <3>3. h \in Nat
      BY <3>1, EndpointHeadType
    <3> QED
      BY <1>0, <2>4, <3>1, <3>2, <3>3, GotoType DEF Poll, TypeInv, TypeOK, HeadGrown, obsVars
  <2>5. CASE Refresh(p)
    <3>1. PICK ok \in BOOLEAN :
            /\ SetCursor(lastProcessedBlock[p], ok)
            /\ Goto(p, IF ok /\ lastProcessedBlock[p] < currentBlock[p] THEN "logs" ELSE "poll")
      BY <2>5 DEF Refresh
    <3>2. cursor' \in {cursor, lastProcessedBlock[p]} /\ faults' \in 0 .. MaxFaults
      BY <1>0, <3>1, SetCursorType DEF TypeOK
    <3> QED
      BY <1>0, <2>5, <3>1, <3>2, GotoType DEF Refresh, TypeInv, TypeOK, HeadGrown, obsVars
  <2>6. CASE GetLogs(p)
    <3>1. PICK h \in EndpointHeads :
            LET have == Range(lastProcessedBlock[p] + 1,
                              IF h < currentBlock[p] THEN h ELSE currentBlock[p])
            IN /\ Charge(h < currentBlock[p])
               /\ pending' = [pending EXCEPT ![p] = have]
               /\ unseen' = unseen \cup
                              (Range(lastProcessedBlock[p] + 1, currentBlock[p]) \ have)
      BY <2>6 DEF GetLogs
    <3>2. faults' \in 0 .. MaxFaults
      BY <1>0, <3>1 DEF Charge, TypeOK
    <3>3. h \in Nat
      BY <3>1, EndpointHeadType
    <3> QED
      BY <1>0, <2>6, <3>1, <3>2, <3>3, GotoType
      DEF GetLogs, Range, LogType, TypeInv, TypeOK, HeadGrown
  <2>7. CASE StoreLog(p)
    <3>1. PICK l \in pending[p], ok, applied \in BOOLEAN :
            /\ Charge(l.valid /\ ~ok)
            /\ Insert(l, applied)
            /\ reported' = IF ok THEN reported ELSE reported \cup {l}
            /\ pending' = [pending EXCEPT ![p] = @ \ {l}]
      BY <2>7 DEF StoreLog
    <3>2. l \in Logs /\ l.valid \in BOOLEAN
      BY <1>0 DEF TypeOK, LogType
    <3>3. faults' \in 0 .. MaxFaults
      BY <1>0, <3>1, <3>2, ChargeType
    <3> QED
      BY <1>0, <2>7, <3>1, <3>2, <3>3 DEF StoreLog, Insert, TypeInv, TypeOK, HeadGrown
  <2>8. CASE FinishRange(p)
    BY <1>0, <2>8, GotoType DEF FinishRange, TypeInv, TypeOK, HeadGrown, obsVars
  <2>9. CASE PersistRange(p)
    <3>1. cursor' \in {cursor, lastProcessedBlock[p]} /\ faults' \in 0 .. MaxFaults
      BY <1>0, <2>9, SetCursorType DEF PersistRange, TypeOK
    <3> QED
      BY <1>0, <2>9, <3>1, GotoType DEF PersistRange, TypeInv, TypeOK, HeadGrown, obsVars
  <2>10. CASE Crash(p)
    BY <1>0, <2>10, GotoType, ChargeType DEF Crash, TypeInv, TypeOK, HeadGrown, obsVars
  <2>11. CASE StartFails(p)
    BY <1>0, <2>11, GotoType, ChargeType DEF StartFails, TypeInv, TypeOK, HeadGrown, obsVars
  <2>12. CASE GetLogsFails(p)
    BY <1>0, <2>12, GotoType, ChargeType DEF GetLogsFails, TypeInv, TypeOK, HeadGrown, obsVars
  <2> QED
    BY <1>3, <2>1, <2>2, <2>3, <2>4, <2>5, <2>6, <2>7, <2>8, <2>9, <2>10,
       <2>11, <2>12 DEF Work, Fail
<1> QED
  BY <1>1, <1>2, <1>3 DEF Next

(* TYPE CORRECTNESS of the Sepolia listeners, whoever runs and whenever.   *)
THEOREM TypeCorrect == Spec => []TypeOK
<1>1. Spec => []TypeInv
  BY InitType, NextType, PTL DEF Spec
<1> QED
  BY <1>1, PTL DEF TypeInv

------------------------------------------------------------------------------
(* What is accounted for stays so; announced does not change once set.     *)
Grows == /\ \A l \in Logs : Accounted(l) => Accounted(l)'
         /\ deployment' = deployment

LEMMA NextGrows == ASSUME TypeInv, [Next]_vars PROVE Grows
<1>1. ASSUME NEW p \in Listeners, Work(p) \/ Fail(p) PROVE Grows
  BY <1>1 DEF Work, Fail, Start, InitHead, InitPersist, Poll, Refresh, GetLogs, StoreLog,
              Insert, FinishRange, PersistRange, Crash, StartFails, GetLogsFails,
              obsVars, Grows, Accounted
<1>2. CASE Mine \/ UNCHANGED vars
  BY <1>2 DEF Mine, vars, obsVars, Grows, Accounted
<1> QED
  BY <1>1, <1>2 DEF Next

(* A step of one listener leaves what the others have in memory alone.     *)
Others(p) == \A q \in Listeners \ {p} :
               /\ pc'[q] = pc[q]
               /\ lastProcessedBlock'[q] = lastProcessedBlock[q]
               /\ currentBlock'[q] = currentBlock[q]
               /\ pending'[q] = pending[q]

LEMMA OthersKept ==
  ASSUME TypeOK, NEW p \in Listeners, Work(p) \/ Fail(p)
  PROVE  Others(p)
BY DEF Work, Fail, Start, InitHead, InitPersist, Poll, Refresh, GetLogs, StoreLog, FinishRange,
       PersistRange, Crash, StartFails, GetLogsFails, Goto, TypeOK, obsVars, Others

(* The cursor is only ever set to what a listener believes.                *)
LEMMA CursorStep ==
  ASSUME TypeOK, NEW p \in Listeners, Work(p) \/ Fail(p), cursor' # cursor
  PROVE  /\ pc[p] \in {"initPersist", "refresh", "persist"}
         /\ cursor' = lastProcessedBlock[p]
<1>1. CASE InitPersist(p) \/ Refresh(p) \/ PersistRange(p)
  BY <1>1, SetCursorType DEF InitPersist, Refresh, PersistRange, TypeOK
<1>2. CASE Start(p) \/ InitHead(p) \/ Poll(p) \/ GetLogs(p) \/ StoreLog(p) \/ FinishRange(p)
           \/ Crash(p) \/ StartFails(p) \/ GetLogsFails(p)
  BY <1>2 DEF Start, InitHead, Poll, GetLogs, StoreLog, FinishRange, Crash, StartFails,
              GetLogsFails
<1> QED
  BY <1>1, <1>2 DEF Work, Fail

LEMMA InitInvariant == Init => IInv
BY InitType DEF Init, IInv, OneStart, StartFixed, Started, MemoryBacked, NoGap, Alive, Nothing, NoCursor

(* With no start block there is nobody but the listener that moves.        *)
LEMMA Alone ==
  ASSUME SafeStart, IInv, NEW p \in Listeners, p \in deployment.running,
         deployment.startBlock = 0
  PROVE  \A q \in Listeners \ {p} : pc[q] = "down"
BY DEF SafeStart, IInv, TypeInv, TypeOK, OneStart, Started

(* Nothing to say of the start and of whom the step is not about.          *)
LEMMA StartedKept ==
  ASSUME IInv, NEW p \in Listeners, Work(p) \/ Fail(p),
         announced' = announced, cursor' = cursor \/ deployment.startBlock > 0
  PROVE  \A q \in Listeners \ {p} : Started(q)'
<1>1. TypeOK /\ Others(p) /\ deployment' = deployment
  BY OthersKept, NextGrows DEF IInv, TypeInv, Grows, Next
<1> QED
  BY <1>1 DEF IInv, OneStart, Started, Others

LEMMA StartKeepsStart ==
  ASSUME SafeStart, IInv, NEW p \in Listeners, Start(p)
  PROVE  OneStart'
<1> DEFINE b == IF cursor # NoCursor THEN cursor ELSE deployment.startBlock
<1>1. /\ TypeOK /\ Others(p) /\ StartFixed /\ deployment' = deployment /\ cursor' = cursor
      /\ deployment.startBlock \in Nat /\ p \in deployment.running
  BY OthersKept, NextGrows, SepoliaAssumption
  DEF IInv, TypeInv, TypeOK, Grows, Next, Work, OneStart, DeploymentType, Start
<1>2. b \in Nat /\ lastProcessedBlock'[p] = b
  BY <1>1 DEF Start, TypeOK, NoCursor
<1>3. CASE b = 0
  <2>1. pc'[p] = "init" /\ announced' = announced
    BY <1>1, <1>3 DEF Start, Goto, TypeOK
  <2>2. cursor = NoCursor /\ deployment.startBlock = 0 /\ announced = Nothing
    BY <1>1, <1>3 DEF StartFixed
  <2>3. Started(p)'
    BY <1>1, <2>1, <2>2 DEF Started, Alive
  <2>4. \A q \in Listeners \ {p} : Started(q)'
    BY <2>1, <1>1, StartedKept DEF Work
  <2> QED
    BY <1>1, <2>1, <2>3, <2>4 DEF OneStart, StartFixed
<1>4. CASE b # 0
  <2>1. pc'[p] = "poll" /\ Announce(b)
    BY <1>1, <1>4 DEF Start, Goto, TypeOK
  <2>2. /\ announced' = IF announced = Nothing THEN b ELSE announced
        /\ announced' # Nothing /\ announced' > 0 /\ announced' <= b
    BY <1>1, <1>2, <1>4, <2>1 DEF Announce, StartFixed, NoCursor, Nothing, TypeOK
  <2>3. Started(p)'
    BY <1>1, <1>2, <2>1, <2>2 DEF Started, Alive
  <2>4. \A q \in Listeners \ {p} : Started(q)'
    <3>1. CASE deployment.startBlock = 0
      BY <1>1, <3>1, Alone DEF Started, Others, Alive
    <3>2. CASE deployment.startBlock > 0
      BY <1>1, <2>2, <3>2 DEF IInv, OneStart, Started, Others, Alive, StartFixed
    <3> QED
      BY <1>1, <3>1, <3>2
  <2>5. StartFixed'
    BY <1>1, <1>2, <2>2 DEF StartFixed, NoCursor, Nothing, TypeOK
  <2> QED
    BY <2>3, <2>4, <2>5 DEF OneStart
<1> QED
  BY <1>3, <1>4

LEMMA InitHeadKeepsStart ==
  ASSUME SafeStart, IInv, NEW p \in Listeners, InitHead(p)
  PROVE  OneStart'
<1>1. /\ TypeOK /\ StartFixed /\ Started(p) /\ deployment' = deployment
      /\ cursor' = cursor /\ announced' = announced
  BY DEF InitHead, IInv, TypeInv, OneStart, obsVars
<1>2. PICK h \in EndpointHeads : lastProcessedBlock' = [lastProcessedBlock EXCEPT ![p] = h - 1]
  BY DEF InitHead
<1>3. h - 1 > 0
  BY SepoliaAssumption DEF EndpointHeads, IInv, TypeInv, TypeOK, HeadGrown
<1>4. Started(p)'
  BY <1>1, <1>2, <1>3 DEF InitHead, Goto, TypeOK, Started, Alive
<1>5. \A q \in Listeners \ {p} : Started(q)'
  BY <1>1, StartedKept DEF Work
<1> QED
  BY <1>1, <1>4, <1>5 DEF OneStart, StartFixed

LEMMA InitPersistKeepsStart ==
  ASSUME SafeStart, IInv, NEW p \in Listeners, InitPersist(p)
  PROVE  OneStart'
<1> DEFINE n == lastProcessedBlock[p]
<1>1. /\ TypeOK /\ Others(p) /\ Started(p) /\ deployment' = deployment
      /\ lastProcessedBlock' = lastProcessedBlock /\ pc[p] = "initPersist"
  BY OthersKept, NextGrows DEF InitPersist, IInv, TypeInv, OneStart, Grows, Next, Work
<1>2. /\ deployment.startBlock = 0 /\ announced = Nothing /\ cursor = NoCursor
      /\ n \in Nat /\ n > 0 /\ p \in deployment.running
  BY <1>1 DEF Started, TypeOK
<1>3. PICK ok \in BOOLEAN :
        /\ \E applied \in BOOLEAN : /\ ok => applied
                                    /\ cursor' = IF applied THEN n ELSE cursor
        /\ IF ok THEN Goto(p, "poll") /\ Announce(n) ELSE Goto(p, "dead") /\ UNCHANGED announced
  BY DEF InitPersist, SetCursor
<1>4. \/ pc'[p] = "poll" /\ announced' = n /\ cursor' = n
      \/ pc'[p] = "dead" /\ announced' = Nothing /\ cursor' \in {NoCursor, n}
  BY <1>1, <1>2, <1>3 DEF Goto, Announce, TypeOK
<1>5. Started(p)'
  BY <1>1, <1>2, <1>4 DEF Started, Alive, Nothing
<1>6. \A q \in Listeners \ {p} : Started(q)'
  BY <1>1, <1>2, Alone DEF Started, Others, Alive
<1>7. StartFixed'
  BY <1>1, <1>2, <1>4 DEF StartFixed, Nothing, NoCursor
<1> QED
  BY <1>5, <1>6, <1>7 DEF OneStart

(* The loop writes only what is past the start.                            *)
LEMMA LoopKeepsStart ==
  ASSUME SafeStart, IInv, NEW p \in Listeners, Refresh(p) \/ PersistRange(p)
  PROVE  OneStart'
<1>1. /\ TypeOK /\ Others(p) /\ Started(p) /\ StartFixed /\ deployment' = deployment
      /\ deployment.startBlock \in Nat
      /\ UNCHANGED <<announced, lastProcessedBlock, currentBlock>>
      /\ pc[p] \in {"refresh", "persist"}
  BY OthersKept, NextGrows, SepoliaAssumption
  DEF Refresh, PersistRange, IInv, TypeInv, TypeOK, DeploymentType, OneStart, Grows, Next, Work,
      obsVars
<1>2. /\ announced # Nothing /\ announced <= lastProcessedBlock[p] /\ announced > 0
      /\ lastProcessedBlock[p] \in Nat /\ announced \in Nat /\ p \in deployment.running
  BY <1>1 DEF Started, StartFixed, Alive, TypeOK, Nothing
<1>3. cursor' \in {cursor, lastProcessedBlock[p]}
  BY <1>1, SetCursorType DEF Refresh, PersistRange, TypeOK
<1>4. /\ pc'[p] \in {"poll", "logs"}
      /\ pc'[p] = "logs" => lastProcessedBlock[p] < currentBlock[p]
  BY <1>1 DEF Refresh, PersistRange, Goto, TypeOK
<1>5. Started(p)'
  BY <1>1, <1>2, <1>4 DEF Started, Alive
<1>6. \A q \in Listeners \ {p} : Started(q)'
  <2>1. CASE deployment.startBlock = 0
    BY <1>1, <1>2, <2>1, Alone DEF Started, Others, Alive
  <2>2. CASE deployment.startBlock > 0
    BY <1>1, <2>2, StartedKept DEF Work
  <2> QED
    BY <1>1, <2>1, <2>2
<1>7. StartFixed'
  BY <1>1, <1>2, <1>3 DEF StartFixed, NoCursor
<1> QED
  BY <1>5, <1>6, <1>7 DEF OneStart

(* The other steps neither write nor announce anything.                    *)
LEMMA QuietKeepsStart ==
  ASSUME SafeStart, IInv, NEW p \in Listeners,
         \/ Poll(p) \/ GetLogs(p) \/ StoreLog(p) \/ FinishRange(p)
         \/ Crash(p) \/ StartFails(p) \/ GetLogsFails(p)
  PROVE  OneStart'
<1>1. /\ TypeOK /\ StartFixed /\ Started(p)
      /\ UNCHANGED <<deployment, cursor, announced>>
  BY DEF Poll, GetLogs, StoreLog, FinishRange, Crash, StartFails, GetLogsFails, obsVars, IInv,
         TypeInv, OneStart
<1>2. \A q \in Listeners \ {p} : Started(q)'
  BY <1>1, StartedKept DEF Work, Fail
<1>3. Started(p)'
  <2>1. CASE Poll(p) \/ GetLogs(p) \/ StoreLog(p)
    BY <1>1, <2>1 DEF Poll, GetLogs, StoreLog, Goto, Started, Alive, TypeOK
  <2>2. CASE FinishRange(p)
    BY <1>1, <2>2 DEF FinishRange, Goto, Started, Alive, TypeOK
  <2>3. CASE Crash(p) \/ StartFails(p) \/ GetLogsFails(p)
    BY <1>1, <2>3 DEF Crash, StartFails, GetLogsFails, Goto, Started, Alive, TypeOK
  <2> QED
    BY <2>1, <2>2, <2>3
<1>4. StartFixed'
  BY <1>1 DEF StartFixed
<1> QED
  BY <1>2, <1>3, <1>4 DEF OneStart

(* There is one start.                                                     *)
LEMMA OneStartStep ==
  ASSUME SafeStart, IInv, [Next]_vars
  PROVE  OneStart'
<1>1. CASE Mine \/ UNCHANGED vars
  BY <1>1 DEF Mine, vars, procVars, obsVars, IInv, OneStart, StartFixed, Started
<1>2. ASSUME NEW p \in Listeners, Work(p) \/ Fail(p)
      PROVE  OneStart'
  BY <1>2, StartKeepsStart, InitHeadKeepsStart, InitPersistKeepsStart, LoopKeepsStart,
     QuietKeepsStart DEF Work, Fail
<1> QED
  BY <1>1, <1>2 DEF Next

(* It is announced once.                                                   *)
LEMMA AnnouncedOnce ==
  ASSUME IInv, [Next]_vars, announced # Nothing
  PROVE  announced' = announced
<1>1. StartFixed /\ TypeOK /\ deployment.startBlock \in Nat
  BY SepoliaAssumption DEF IInv, OneStart, TypeInv, TypeOK, DeploymentType
<1>2. ASSUME NEW p \in Listeners, Start(p) PROVE announced' = announced
  BY <1>1, <1>2 DEF Start, Announce, StartFixed, TypeOK, NoCursor, Nothing
<1>3. ASSUME NEW p \in Listeners, InitPersist(p) PROVE announced' = announced
  BY <1>3 DEF InitPersist, IInv, OneStart, Started
<1>4. ASSUME NEW p \in Listeners,
             \/ InitHead(p) \/ Poll(p) \/ Refresh(p) \/ GetLogs(p) \/ StoreLog(p)
             \/ FinishRange(p) \/ PersistRange(p) \/ Fail(p)
      PROVE  announced' = announced
  BY <1>4 DEF InitHead, Poll, Refresh, GetLogs, StoreLog, FinishRange, PersistRange, Fail, Crash,
              StartFails, GetLogsFails, obsVars
<1>5. CASE Mine \/ UNCHANGED vars
  BY <1>5 DEF Mine, vars, obsVars
<1> QED
  BY <1>2, <1>3, <1>4, <1>5 DEF Next, Work

(* Blocks that are accounted for stay so while the start stays the same.   *)
LEMMA AccountedToStable ==
  ASSUME TypeInv, [Next]_vars, announced' = announced, NEW b, AccountedTo(b)
  PROVE  AccountedTo(b)'
BY NextGrows DEF Grows, AccountedTo, Accounted, Range

(* What the listeners believe.                                             *)
LEMMA MemoryStep ==
  ASSUME SafeStart, IInv, [Next]_vars
  PROVE  MemoryBacked'
<1> SUFFICES ASSUME announced' # Nothing,
                    NEW q \in Listeners
             PROVE  /\ pc'[q] \in Alive => AccountedTo(lastProcessedBlock[q])'
                    /\ pc'[q] = "store" =>
                         \A l \in Range(lastProcessedBlock'[q] + 1, currentBlock'[q]) \ pending'[q] :
                           Accounted(l)'
  BY DEF MemoryBacked, Range
<1>0. /\ TypeInv /\ TypeOK /\ OneStart'
      /\ deployment' = deployment
      /\ deployment.startBlock \in Nat
      /\ \A l \in Logs : Accounted(l) => Accounted(l)'
  BY SepoliaAssumption, OneStartStep, NextGrows
  DEF IInv, TypeInv, TypeOK, DeploymentType, Grows
<1>1. announced # Nothing => announced' = announced
  BY AnnouncedOnce
<1>2. announced # Nothing /\ pc[q] \in Alive => AccountedTo(lastProcessedBlock[q])'
        \/ lastProcessedBlock'[q] # lastProcessedBlock[q]
  <2> SUFFICES ASSUME announced # Nothing, pc[q] \in Alive,
                      lastProcessedBlock'[q] = lastProcessedBlock[q]
               PROVE  AccountedTo(lastProcessedBlock[q])'
    OBVIOUS
  <2>1. AccountedTo(lastProcessedBlock[q])
    BY DEF IInv, MemoryBacked
  <2> QED
    BY <1>0, <1>1, <2>1 DEF AccountedTo, Accounted, Range
<1>3. CASE announced # Nothing /\ UNCHANGED <<pc, lastProcessedBlock, currentBlock, pending>>
  BY <1>0, <1>1, <1>2, <1>3 DEF IInv, MemoryBacked, Range, Alive
<1>4. CASE Mine \/ UNCHANGED vars
  BY <1>3, <1>4 DEF Mine, vars, procVars, obsVars
<1>5. ASSUME NEW p \in Listeners, Work(p) \/ Fail(p), p # q
      PROVE  /\ pc'[q] \in Alive => AccountedTo(lastProcessedBlock[q])'
             /\ pc'[q] = "store" =>
                  \A l \in Range(lastProcessedBlock'[q] + 1, currentBlock'[q]) \ pending'[q] :
                    Accounted(l)'
  <2>1. /\ pc'[q] = pc[q]
        /\ lastProcessedBlock'[q] = lastProcessedBlock[q]
        /\ currentBlock'[q] = currentBlock[q]
        /\ pending'[q] = pending[q]
    BY <1>0, <1>5, OthersKept DEF Others
  <2>2. pc[q] \in Alive => announced # Nothing
    BY DEF IInv, OneStart, Started
  <2> QED
    BY <1>0, <1>2, <2>1, <2>2 DEF IInv, MemoryBacked, Range, Alive
<1>6. CASE Start(q)
  <2>1. /\ pc'[q] \in {"init", "poll"} /\ cursor' = cursor
        /\ lastProcessedBlock'[q] = IF cursor # NoCursor THEN cursor ELSE deployment.startBlock
    BY <1>0, <1>6 DEF Start, Goto, TypeOK
  <2>2. CASE announced # Nothing /\ cursor # NoCursor
    <3>1. AccountedTo(cursor)
      BY <2>2 DEF IInv, NoGap
    <3> QED
      BY <1>0, <1>1, <2>1, <2>2, <3>1 DEF AccountedTo, Accounted, Range, Alive
  <2>3. CASE ~ (announced # Nothing /\ cursor # NoCursor)
    <3>1. pc'[q] = "poll" => lastProcessedBlock'[q] = announced'
      BY <1>0, <1>6, <2>1, <2>3 DEF Start, Goto, Announce, IInv, OneStart, StartFixed, TypeOK, Nothing
    <3>2. announced' \in Nat /\ \A l \in Logs : l.block \in Nat
      BY <1>6, <1>0, SepoliaAssumption DEF Start, Announce, TypeOK, Nothing, NoCursor, LogType
    <3> QED
      BY <2>1, <3>1, <3>2 DEF AccountedTo, Range, Alive
  <2> QED
    BY <2>2, <2>3
<1>7. CASE InitHead(q) \/ InitPersist(q)
  <2>1. announced = Nothing /\ pc'[q] # "store"
    BY <1>0, <1>7 DEF InitHead, InitPersist, Goto, IInv, OneStart, Started, TypeOK
  <2>2. pc'[q] \in Alive => lastProcessedBlock'[q] = announced'
    BY <1>0, <1>7, <2>1 DEF InitHead, InitPersist, Goto, Announce, Alive, TypeOK
  <2>3. lastProcessedBlock'[q] \in Nat /\ \A l \in Logs : l.block \in Nat
    <3>1. TypeOK'
      BY <1>0, NextType DEF TypeInv
    <3> QED
      BY <3>1, SepoliaAssumption DEF TypeOK, LogType
  <2> QED
    BY <2>1, <2>2, <2>3 DEF AccountedTo, Range
<1>8. CASE Poll(q) \/ Refresh(q) \/ PersistRange(q) \/ GetLogsFails(q)
  BY <1>0, <1>1, <1>2, <1>8
  DEF Poll, Refresh, PersistRange, GetLogsFails, Goto, IInv, OneStart, Started, TypeOK, Alive
<1>9. CASE GetLogs(q)
  <2>1. PICK h \in EndpointHeads :
          LET have == Range(lastProcessedBlock[q] + 1,
                            IF h < currentBlock[q] THEN h ELSE currentBlock[q])
          IN /\ pending' = [pending EXCEPT ![q] = have]
             /\ unseen' = unseen \cup
                            (Range(lastProcessedBlock[q] + 1, currentBlock[q]) \ have)
    BY <1>9 DEF GetLogs
  <2>2. announced # Nothing /\ lastProcessedBlock' = lastProcessedBlock /\ pc[q] \in Alive
        /\ currentBlock' = currentBlock
    BY <1>9 DEF GetLogs, IInv, OneStart, Started, Alive
  <2>3. Range(lastProcessedBlock[q] + 1, currentBlock[q]) \ pending'[q] \subseteq unseen'
    BY <1>0, <2>1 DEF TypeOK
  <2> QED
    BY <1>2, <2>2, <2>3 DEF Accounted, Range
<1>10. CASE StoreLog(q)
  <2>1. PICK l \in pending[q], ok, applied \in BOOLEAN :
          /\ ok => applied
          /\ docs' = IF applied THEN docs \cup {l} ELSE docs
          /\ reported' = IF ok THEN reported ELSE reported \cup {l}
          /\ pending' = [pending EXCEPT ![q] = @ \ {l}]
    BY <1>10 DEF StoreLog, Insert
  <2>2. /\ announced # Nothing /\ pc[q] = "store"
        /\ lastProcessedBlock' = lastProcessedBlock /\ currentBlock' = currentBlock
    BY <1>10 DEF StoreLog, IInv, OneStart, Started, Alive
  <2>3. Accounted(l)'
    BY <2>1 DEF Accounted
  <2>4. pending'[q] = pending[q] \ {l}
    BY <1>0, <2>1 DEF TypeOK
  <2> QED
    BY <1>0, <1>2, <2>2, <2>3, <2>4 DEF IInv, MemoryBacked, Range, Alive
<1>11. CASE FinishRange(q)
  <2>1. /\ announced # Nothing /\ pc[q] = "store" /\ pending[q] = {}
        /\ lastProcessedBlock'[q] = currentBlock[q] /\ pc'[q] = "persist"
        /\ lastProcessedBlock[q] \in Nat /\ currentBlock[q] \in Nat
    BY <1>0, <1>11 DEF FinishRange, Goto, IInv, OneStart, Started, Alive, TypeOK
  <2>2. /\ AccountedTo(lastProcessedBlock[q])
        /\ \A l \in Range(lastProcessedBlock[q] + 1, currentBlock[q]) : Accounted(l)
    BY <2>1 DEF IInv, MemoryBacked, Alive
  <2>3. ASSUME NEW l \in Logs, announced + 1 <= l.block, l.block <= currentBlock[q]
        PROVE  Accounted(l)
    <3>1. l.block \in Nat
      BY SepoliaAssumption DEF LogType
    <3> QED
      BY <2>1, <2>2, <2>3, <3>1 DEF AccountedTo, Accounted, Range
  <2> QED
    BY <1>0, <1>1, <2>1, <2>3 DEF AccountedTo, Accounted, Range
<1>12. CASE Crash(q) \/ StartFails(q)
  BY <1>0, <1>12 DEF Crash, StartFails, Goto, TypeOK, Alive
<1> QED
  BY <1>4, <1>5, <1>6, <1>7, <1>8, <1>9, <1>10, <1>11, <1>12 DEF Next, Work, Fail

(* The cursor.                                                             *)
LEMMA NoGapStep ==
  ASSUME SafeStart, IInv, [Next]_vars
  PROVE  NoGap'
<1> SUFFICES ASSUME announced' # Nothing PROVE AccountedTo(cursor)'
  BY DEF NoGap
<1>0. TypeInv /\ TypeOK /\ OneStart'
  BY OneStartStep DEF IInv, TypeInv
<1>1. CASE announced = Nothing
  <2>1. PICK p \in Listeners : Start(p) \/ InitPersist(p)
    BY <1>1 DEF Next, Work, Fail, Mine, vars, obsVars, InitHead, Poll, Refresh, GetLogs, StoreLog,
                FinishRange, PersistRange, Crash, StartFails, GetLogsFails
  <2>2. cursor' \in {NoCursor, announced'} /\ announced' \in Nat
    <3>1. CASE Start(p)
      BY <1>0, <1>1, <3>1, SepoliaAssumption DEF Start, Announce, TypeOK, DeploymentType, NoCursor
    <3>2. CASE InitPersist(p)
      <4>1. cursor = NoCursor /\ lastProcessedBlock[p] \in Nat
        BY <1>0, <3>2 DEF InitPersist, IInv, OneStart, Started, TypeOK
      <4>2. cursor' \in {cursor, lastProcessedBlock[p]}
        BY <1>0, <3>2, <4>1, SetCursorType DEF InitPersist
      <4>3. announced' = lastProcessedBlock[p]
        BY <1>1, <3>2 DEF InitPersist, Announce
      <4> QED
        BY <4>1, <4>2, <4>3
    <3> QED
      BY <2>1, <3>1, <3>2
  <2>3. \A l \in Logs : l.block \in Nat
    BY SepoliaAssumption DEF LogType
  <2> QED
    BY <2>2, <2>3 DEF AccountedTo, Range, NoCursor
<1>2. CASE announced # Nothing
  <2>1. announced' = announced
    BY <1>2, AnnouncedOnce
  <2>2. AccountedTo(cursor')
    <3>1. CASE cursor' = cursor
      BY <1>2, <3>1 DEF IInv, NoGap
    <3>2. CASE cursor' # cursor
      <4>1. PICK p \in Listeners : Work(p) \/ Fail(p)
        BY <3>2 DEF Next, Mine, vars
      <4>2. pc[p] \in {"initPersist", "refresh", "persist"} /\ cursor' = lastProcessedBlock[p]
        BY <1>0, <3>2, <4>1, CursorStep
      <4> QED
        BY <1>2, <4>2 DEF IInv, OneStart, Started, MemoryBacked, Alive
    <3> QED
      BY <3>1, <3>2
  <2> QED
    BY <1>0, <2>1, <2>2, NextGrows DEF Grows, AccountedTo, Accounted, Range
<1> QED
  BY <1>1, <1>2

------------------------------------------------------------------------------
(* Where a start block is set, or there is one listener, the invariant is  *)
(* inductive ...                                                           *)
THEOREM Invariance == ASSUME SafeStart PROVE Spec => []IInv
<1>1. Init => IInv
  BY InitInvariant
<1>2. IInv /\ [Next]_vars => IInv'
  BY NextType, OneStartStep, MemoryStep, NoGapStep DEF IInv
<1> QED
  BY <1>1, <1>2, PTL DEF Spec

(* ... and NO UNEXPLAINED GAP holds, with any number of listeners that     *)
(* overwrite one another's cursor.                                         *)
THEOREM SeveralListenersNoGap == ASSUME SafeStart PROVE Spec => []NoGap
<1>1. IInv => NoGap
  BY DEF IInv
<1> QED
  BY <1>1, Invariance, PTL

(* README.md: "Restart- and reorg-safe".  Of restarts that is so where the *)
(* start is safe: what is not accounted for lies ahead of the cursor, from *)
(* which whoever restarts goes on.                                         *)
THEOREM SafeStartStrandsNothing == ASSUME SafeStart PROVE Spec => []NothingStranded
<1>1. IInv => NothingStranded
  <2> SUFFICES ASSUME IInv, announced # Nothing, NEW l \in Range(announced + 1, head),
                      l \notin docs \cup reported \cup unseen
               PROVE  cursor < l.block
    BY DEF NothingStranded
  <2>1. l \in Logs /\ announced + 1 <= l.block /\ l.block \in Nat /\ cursor \in Nat \cup {NoCursor}
    BY SepoliaAssumption DEF Range, LogType, IInv, TypeInv, TypeOK
  <2>2. ~(l.block <= cursor)
    BY <2>1 DEF IInv, NoGap, AccountedTo, Range
  <2> QED
    BY <2>1, <2>2 DEF NoCursor
<1> QED
  BY <1>1, Invariance, PTL

------------------------------------------------------------------------------
(* What the listeners know of is on the chain, but for a start block that  *)
(* is not there yet.                                                       *)
Known(b) == b <= head \/ b <= announced

BelowHead ==
  /\ Known(cursor)
  /\ \A p \in Listeners :
       /\ currentBlock[p] <= head
       /\ pc[p] \in Alive \cup {"initPersist"} => Known(lastProcessedBlock[p])

LEMMA HeadOfListeners ==
  ASSUME NEW p \in Listeners, Work(p) \/ Fail(p)
  PROVE  head' = head
<1>1. CASE Work(p)
  BY <1>1 DEF Work, Start, InitHead, InitPersist, Poll, Refresh, GetLogs, StoreLog, FinishRange,
              PersistRange
<1>2. CASE Fail(p)
  BY <1>2 DEF Fail, Crash, StartFails, GetLogsFails
<1> QED
  BY <1>1, <1>2

LEMMA HeadRises ==
  ASSUME TypeOK, [Next]_vars
  PROVE  head \in Nat /\ head' \in Nat /\ head <= head'
<1>1. head \in Nat
  BY SepoliaAssumption DEF TypeOK
<1>2. head' \in {head, head + 1}
  BY HeadOfListeners DEF Next, Mine, vars
<1> QED
  BY <1>1, <1>2

LEMMA KnownKept ==
  ASSUME IInv, [Next]_vars, NEW b \in Nat \cup {NoCursor}, Known(b)
  PROVE  Known(b)'
<1>1. TypeOK /\ TypeOK' /\ head <= head'
  BY NextType, HeadRises DEF IInv, TypeInv
<1>2. head \in Nat /\ head' \in Nat
  BY <1>1, HeadRises
<1>3. CASE announced # Nothing
  BY <1>1, <1>2, <1>3, AnnouncedOnce DEF Known, TypeOK, NoCursor
<1>4. CASE announced = Nothing
  BY <1>1, <1>2, <1>4 DEF Known, Nothing, NoCursor
<1> QED
  BY <1>3, <1>4

LEMMA BelowHeadStep ==
  ASSUME SafeStart, IInv, BelowHead, [Next]_vars
  PROVE  BelowHead'
<1>1. TypeOK /\ TypeOK' /\ OneStart /\ OneStart'
  BY NextType, OneStartStep DEF IInv, TypeInv
<1>2. Known(cursor)' \/ cursor' # cursor
  BY <1>1, KnownKept DEF BelowHead, TypeOK
<1>3. CASE Mine \/ UNCHANGED vars
  <2>1. UNCHANGED <<cursor, pc, lastProcessedBlock, currentBlock>>
    BY <1>3 DEF Mine, vars, procVars
  <2>2. head <= head' /\ head \in Nat /\ head' \in Nat
    BY <1>1, HeadRises
  <2>3. ASSUME NEW q \in Listeners, pc[q] \in Alive \cup {"initPersist"}
        PROVE  Known(lastProcessedBlock[q])'
    <3>1. lastProcessedBlock[q] \in Nat /\ Known(lastProcessedBlock[q])
      BY <1>1, <2>3 DEF TypeOK, BelowHead
    <3> QED
      BY <3>1, <2>1, KnownKept
  <2>4. \A q \in Listeners : currentBlock'[q] <= head'
    BY <1>1, <2>1, <2>2 DEF BelowHead, TypeOK
  <2> QED
    BY <1>2, <2>1, <2>3, <2>4 DEF BelowHead
<1>4. ASSUME NEW p \in Listeners, Work(p) \/ Fail(p)
      PROVE  BelowHead'
  <2>1. Others(p) /\ head' = head /\ head \in Nat
    BY <1>1, <1>4, OthersKept, HeadOfListeners, HeadRises
  <2>2. Known(cursor)'
    <3>1. CASE cursor' # cursor
      <4>1. pc[p] \in {"initPersist", "refresh", "persist"} /\ cursor' = lastProcessedBlock[p]
        BY <1>1, <1>4, <3>1, CursorStep
      <4>2. Known(lastProcessedBlock[p]) /\ lastProcessedBlock[p] \in Nat
        BY <1>1, <4>1 DEF BelowHead, Alive, TypeOK
      <4>3. PICK n : n = lastProcessedBlock[p]
        OBVIOUS
      <4>4. Known(n)'
        BY <4>2, <4>3, KnownKept
      <4> QED
        BY <4>1, <4>3, <4>4 DEF Known
    <3> QED
      BY <1>2, <3>1
  <2>3. ASSUME NEW q \in Listeners, pc'[q] \in Alive \cup {"initPersist"},
               pc[q] \in Alive \cup {"initPersist"},
               lastProcessedBlock'[q] = lastProcessedBlock[q]
        PROVE  Known(lastProcessedBlock[q])'
    <3>1. PICK n : n = lastProcessedBlock[q]
      OBVIOUS
    <3>2. Known(n) /\ n \in Nat
      BY <1>1, <2>3, <3>1 DEF BelowHead, TypeOK
    <3>3. Known(n)'
      BY <3>2, KnownKept
    <3> QED
      BY <2>3, <3>1, <3>3 DEF Known
  <2>4. ASSUME NEW q \in Listeners \ {p}
        PROVE  /\ currentBlock'[q] <= head'
               /\ pc'[q] \in Alive \cup {"initPersist"} => Known(lastProcessedBlock[q])'
    BY <2>1, <2>3 DEF Others, BelowHead
  <2>5. currentBlock'[p] <= head'
    <3>1. ASSUME NEW h \in EndpointHeads PROVE h <= head
      BY DEF EndpointHeads
    <3>2. CASE InitHead(p) \/ Poll(p)
      BY <1>1, <2>1, <3>1, <3>2 DEF InitHead, Poll, TypeOK
    <3>3. CASE Crash(p)
      BY <1>1, <2>1, <3>3 DEF Crash, TypeOK
    <3>4. CASE currentBlock' = currentBlock
      BY <2>1, <3>4 DEF BelowHead
    <3> QED
      BY <1>4, <3>2, <3>3, <3>4
      DEF Work, Fail, Start, InitPersist, Refresh, GetLogs, StoreLog, FinishRange, PersistRange,
          StartFails, GetLogsFails
  <2>6. pc'[p] \in Alive \cup {"initPersist"} => Known(lastProcessedBlock[p])'
    <3>1. CASE Start(p)
      <4>1. /\ pc'[p] \in {"init", "poll"} /\ cursor' = cursor
            /\ lastProcessedBlock'[p] = IF cursor # NoCursor THEN cursor ELSE deployment.startBlock
        BY <1>1, <3>1 DEF Start, Goto, TypeOK
      <4>2. CASE cursor # NoCursor
        BY <2>2, <4>1, <4>2 DEF Known
      <4>3. CASE cursor = NoCursor
        <5>1. pc'[p] = "poll" => lastProcessedBlock'[p] = announced'
          BY <1>1, <3>1, <4>1, <4>3
          DEF Start, Goto, Announce, OneStart, StartFixed, TypeOK, Nothing
        <5>2. announced' \in Nat \cup {Nothing}
          BY <1>1 DEF TypeOK
        <5> QED
          BY <4>1, <5>1, <5>2 DEF Known, Alive, Nothing
      <4> QED
        BY <4>2, <4>3
    <3>2. CASE InitHead(p)
      <4>1. PICK h \in EndpointHeads : lastProcessedBlock' = [lastProcessedBlock EXCEPT ![p] = h - 1]
        BY <3>2 DEF InitHead
      <4> QED
        BY <1>1, <2>1, <4>1 DEF EndpointHeads, TypeOK, Known
    <3>3. CASE FinishRange(p)
      <4>1. lastProcessedBlock'[p] = currentBlock[p]
        BY <1>1, <3>3 DEF FinishRange, TypeOK
      <4> QED
        BY <2>1, <4>1 DEF BelowHead, Known
    <3>4. CASE \/ InitPersist(p) \/ Poll(p) \/ Refresh(p) \/ GetLogs(p) \/ StoreLog(p)
               \/ PersistRange(p) \/ GetLogsFails(p)
      <4>1. /\ lastProcessedBlock' = lastProcessedBlock
            /\ pc[p] \in Alive \cup {"initPersist"}
        BY <3>4 DEF InitPersist, Poll, Refresh, GetLogs, StoreLog, PersistRange, GetLogsFails, Alive
      <4> QED
        BY <2>3, <4>1
    <3>5. CASE Crash(p) \/ StartFails(p)
      BY <1>1, <3>5 DEF Crash, StartFails, Goto, Alive, TypeOK
    <3> QED
      BY <1>4, <3>1, <3>2, <3>3, <3>4, <3>5 DEF Work, Fail
  <2> QED
    BY <2>2, <2>4, <2>5, <2>6 DEF BelowHead, Known
<1> QED
  BY <1>3, <1>4 DEF Next

(* A block that is settled stays so, and a write of the cursor or the      *)
(* announcement of a start settles nothing.                                *)
LEMMA SettledGrows ==
  ASSUME IInv, [Next]_vars
  PROVE  /\ Settled \subseteq Settled'
         /\ (cursor' # cursor \/ announced' # announced) => Settled' = Settled
<1>1. Settled \subseteq Settled'
  BY NextGrows DEF IInv, Grows, Accounted, Settled
<1>2. ASSUME cursor' # cursor \/ announced' # announced
      PROVE  UNCHANGED <<docs, reported, unseen>>
  <2>1. PICK p \in Listeners : Work(p) \/ Fail(p)
    BY <1>2 DEF Next, Mine, vars, obsVars
  <2>2. CASE \/ InitHead(p) \/ Poll(p) \/ GetLogs(p) \/ StoreLog(p) \/ FinishRange(p) \/ Fail(p)
    BY <1>2, <2>2 DEF InitHead, Poll, GetLogs, StoreLog, FinishRange, Fail, Crash, StartFails,
                      GetLogsFails, obsVars
  <2>3. CASE Start(p) \/ InitPersist(p) \/ Refresh(p) \/ PersistRange(p)
    BY <2>3 DEF Start, InitPersist, Refresh, PersistRange, obsVars
  <2> QED
    BY <2>1, <2>2, <2>3 DEF Work
<1>3. (cursor' # cursor \/ announced' # announced) => Settled' = Settled
  BY <1>2 DEF Settled
<1> QED
  BY <1>1, <1>3

(* What lies between the start and the cursor is settled.                  *)
LEMMA CursorSettled ==
  ASSUME TypeOK, OneStart, NoGap, Known(cursor), announced # Nothing
  PROVE  \A b \in announced + 1 .. cursor : b \in Settled
<1>1. announced \in Nat /\ cursor \in Nat \cup {NoCursor} /\ head \in Nat /\ head <= MaxBlock
  BY SepoliaAssumption DEF TypeOK, Nothing
<1>2. ASSUME NEW b \in announced + 1 .. cursor, NEW l \in Logs, l.block = b
      PROVE  l \in docs \cup reported \cup unseen
  BY <1>2 DEF NoGap, AccountedTo, Range
<1>3. ASSUME NEW b \in announced + 1 .. cursor PROVE b \in 0 .. MaxBlock
  <2>1. cursor <= head
    BY <1>1, <1>3 DEF Known, NoCursor
  <2> QED
    BY <1>1, <1>3, <2>1, SepoliaAssumption DEF NoCursor
<1> QED
  BY <1>2, <1>3 DEF Settled

LEMMA LedgerStep ==
  ASSUME SafeStart, IInv, IInv', BelowHead', [Next]_vars
  PROVE  [Ledger!SharedNext]_(Ledger!vars)
<1> USE DEF Ledger!vars, Ledger!SharedNext, Ledger!Next
<1>1. /\ TypeOK /\ TypeOK' /\ OneStart /\ OneStart' /\ StartFixed /\ StartFixed'
      /\ Ledger!NoCursor = NoCursor
  BY DEF IInv, TypeInv, OneStart, Ledger!NoCursor, NoCursor
<1>2. CASE UNCHANGED <<cursor, announced>>
  <2>1. Ledger!Settle
    BY <1>2, SettledGrows DEF Ledger!Settle, ClaimBase
  <2> QED
    BY <2>1
<1>3. CASE cursor' # cursor /\ announced # Nothing
  <2>1. announced' = announced /\ Settled' = Settled
    BY <1>3, AnnouncedOnce, SettledGrows
  <2>2. ClaimBase = announced /\ ClaimBase' = announced
    BY <1>3, <2>1 DEF ClaimBase
  <2>3. cursor' \in Nat /\ announced <= cursor'
    <3>1. PICK p \in Listeners : Work(p) \/ Fail(p)
      BY <1>3 DEF Next, Mine, vars
    <3>2. cursor' = lastProcessedBlock[p]
      BY <1>1, <1>3, <3>1, CursorStep
    <3>3. cursor' \in Nat
      BY <1>1, <3>2 DEF TypeOK
    <3> QED
      BY <1>1, <1>3, <2>1, <3>3 DEF StartFixed, NoCursor
  <2>4. \A b \in announced + 1 .. cursor' : b \in Settled'
    <3>1. (TypeOK /\ OneStart /\ NoGap /\ Known(cursor) /\ announced # Nothing
             => \A b \in announced + 1 .. cursor : b \in Settled)'
      BY CursorSettled, PTL
    <3>2. NoGap' /\ Known(cursor)' /\ announced' # Nothing
      BY <1>3, <2>1 DEF IInv, BelowHead
    <3> QED
      BY <1>1, <2>1, <3>1, <3>2
  <2>5. Ledger!Overwrite
    BY <2>1, <2>2, <2>3, <2>4 DEF Ledger!Overwrite
  <2> QED
    BY <2>5
<1>4. CASE cursor' # cursor /\ announced = Nothing
  <2>1. PICK p \in Listeners : Work(p) \/ Fail(p)
    BY <1>4 DEF Next, Mine, vars
  <2>2. pc[p] = "initPersist" /\ cursor' = lastProcessedBlock[p] /\ cursor' \in Nat
    BY <1>1, <1>4, <2>1, CursorStep DEF OneStart, Started, Alive, TypeOK
  <2>3. cursor = NoCursor /\ InitPersist(p)
    BY <1>1, <1>4, <2>1, <2>2
    DEF OneStart, Started, Work, Fail, Start, InitHead, Poll, Refresh, GetLogs, StoreLog,
        FinishRange, PersistRange, Crash, StartFails, GetLogsFails
  <2>4. announced' \in {Nothing, cursor'}
    BY <1>4, <2>2, <2>3 DEF InitPersist, Announce
  <2>5. ClaimBase' = cursor' /\ Settled' = Settled
    BY <1>4, <2>2, <2>4, SettledGrows DEF ClaimBase, NoCursor
  <2>6. Ledger!OpenAtBase
    BY <1>1, <2>2, <2>3, <2>5 DEF Ledger!OpenAtBase
  <2> QED
    BY <2>6
<1>5. CASE cursor' = cursor /\ announced' # announced
  <2>1. announced = Nothing /\ Settled' = Settled
    BY <1>5, AnnouncedOnce, SettledGrows
  <2>2. announced' \in Nat
    BY <1>1, <1>5, <2>1 DEF TypeOK
  <2>3. ClaimBase' = announced'
    BY <1>5, <2>1 DEF ClaimBase
  <2>4. CASE cursor = NoCursor
    <3>1. Ledger!ChooseBase
      BY <1>1, <1>5, <2>1, <2>2, <2>3, <2>4 DEF Ledger!ChooseBase
    <3> QED
      BY <3>1
  <2>5. CASE cursor # NoCursor
    <3>1. PICK p \in Listeners : Start(p)
      <4>1. PICK p \in Listeners : Start(p) \/ InitPersist(p)
        BY <1>5 DEF Next, Work, Fail, Mine, vars, obsVars, InitHead, Poll, Refresh, GetLogs,
                    StoreLog, FinishRange, PersistRange, Crash, StartFails, GetLogsFails
      <4>2. ~ InitPersist(p)
        BY <1>1, <2>5 DEF InitPersist, OneStart, Started
      <4> QED
        BY <4>1, <4>2
    <3>2. announced' = cursor
      BY <1>5, <2>1, <2>5, <3>1 DEF Start, Announce
    <3>3. ClaimBase = cursor
      BY <2>1, <2>5 DEF ClaimBase
    <3> QED
      BY <1>5, <2>1, <2>3, <3>2, <3>3
  <2> QED
    BY <2>4, <2>5
<1> QED
  BY <1>2, <1>3, <1>4, <1>5

(* REFINEMENT: wherever SEPOLIA_START_BLOCK is set or there is one         *)
(* listener, the cursor document is the cursor of a SharedLedger, whatever *)
(* the listeners do to one another's.                                      *)
THEOREM SeveralListenersShareLedger ==
  ASSUME SafeStart
  PROVE  Spec => ImplementsSharedLedger
<1>1. Init => BelowHead
  BY SepoliaAssumption DEF Init, BelowHead, Known, Alive, NoCursor
<1>2. IInv /\ BelowHead /\ [Next]_vars => BelowHead'
  BY BelowHeadStep
<1>3. Init => Ledger!Init
  BY DEF Init, Ledger!Init, Ledger!NoCursor, Settled, ClaimBase, NoCursor, Nothing
<1>4. IInv /\ IInv' /\ BelowHead' /\ [Next]_vars => [Ledger!SharedNext]_(Ledger!vars)
  BY LedgerStep
<1> QED
  BY <1>1, <1>2, <1>3, <1>4, Invariance, PTL DEF Spec, ImplementsSharedLedger, Ledger!SharedSpec
=============================================================================
