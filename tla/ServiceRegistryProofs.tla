----------------------- MODULE ServiceRegistryProofs ------------------------
(***************************************************************************)
(* The registry implements ServiceMap for any threads, keys and services.  *)
(***************************************************************************)
EXTENDS ServiceRegistry, TLAPS

\* What the record of a call holds, by operation.
LEMMA CallShape ==
    ASSUME NEW c \in Calls \cup {Idle}
    PROVE  /\ c.op \in {"idle", "get", "register", "freeze"}
           /\ c.op \in {"get", "register"} => c.key \in Keys
           /\ c.op = "register" => c.service \in Services
           /\ c.op = "idle" <=> c = Idle
BY DEF Calls, Idle

LEMMA InitIInv == Init => IInv
<1> SUFFICES ASSUME Init PROVE IInv
  BY Zenon
<1>1. TypeOK
  BY Zenon DEF Init, TypeOK, Entries, Answers
<1>2. LockInv /\ CallInv /\ NoRacyRead
  BY RegistryAssumption, Zenon DEF Init, LockInv, CallInv, NoRacyRead, Idle
<1> QED
  BY <1>1, <1>2, Zenon DEF IInv

\* One step of a thread keeps the types.
LEMMA StepTypeOK ==
    ASSUME IInv, NEW t \in Threads, Step(t) PROVE TypeOK'
<1> USE DEF IInv, TypeOK, Entries, Go, Returns
<1>0. /\ call[t].op \in {"get", "register"} => call[t].key \in Keys
      /\ call[t].op = "register" => call[t].service \in Services
  <2>1. call[t] \in Calls \cup {Idle}
    BY Zenon
  <2> QED
    BY <2>1, CallShape, Zenon
<1>00. CallInv
  BY Zenon
<1> HIDE DEF IInv
<1> TypeOK
  BY Zenon DEF IInv
<1>1. CASE Call(t)
  BY <1>0, <1>00, <1>1 DEF Call, Answers
<1>2. CASE CheckFrozen(t)
  BY <1>0, <1>00, <1>2, Zenon DEF CheckFrozen
<1>3. CASE FastGet(t)
  BY <1>0, <1>00, <1>3 DEF FastGet, Answers, CallInv
<1>4. CASE LockShared(t)
  BY <1>0, <1>00, <1>4, Zenon DEF LockShared
<1>5. CASE SlowGet(t)
  BY <1>0, <1>00, <1>5 DEF SlowGet, Answers, CallInv
<1>6. CASE Lock(t)
  BY <1>0, <1>00, <1>6, Zenon DEF Lock
<1>7. CASE Register(t)
  BY <1>0, <1>00, <1>7, Zenon DEF Register, Answers
<1>8. CASE FreezeAgain(t)
  BY <1>0, <1>00, <1>8, Zenon DEF FreezeAgain, Answers
<1>9. CASE FreezeStart(t)
  BY <1>0, <1>00, <1>9, Zenon DEF FreezeStart
<1>10. CASE FreezeCopy(t)
  BY <1>0, <1>00, <1>10, Zenon DEF FreezeCopy
<1>11. CASE FreezeEnd(t)
  BY <1>0, <1>00, <1>11, Zenon DEF FreezeEnd, Answers
<1>12. CASE Return(t)
  BY <1>0, <1>00, <1>12, Zenon DEF Return, Answers
<1> QED
  BY <1>1, <1>2, <1>3, <1>4, <1>5, <1>6, <1>7, <1>8, <1>9, <1>10, <1>11, <1>12, Zenon DEF Step

\* One step of a thread keeps the mutex.
LEMMA StepLockInv ==
    ASSUME IInv, NEW t \in Threads, Step(t) PROVE LockInv'
<1> USE RegistryAssumption DEF LockInv, Go, Returns
<1>0. TypeOK /\ LockInv
  BY Zenon DEF IInv
<1>00. pc \in [Threads -> {"idle", "start", "fast", "slow", "read", "lock", "locked", "copy", "return"}]
       /\ readers \subseteq Threads
  BY <1>0, Zenon DEF TypeOK
<1>1. CASE Call(t)
  BY <1>0, <1>00, <1>1, Zenon DEF Call
<1>2. CASE CheckFrozen(t)
  BY <1>0, <1>00, <1>2, Zenon DEF CheckFrozen
<1>3. CASE FastGet(t)
  BY <1>0, <1>00, <1>3, Zenon DEF FastGet
<1>4. CASE LockShared(t)
  BY <1>0, <1>00, <1>4, Zenon DEF LockShared
<1>5. CASE SlowGet(t)
  BY <1>0, <1>00, <1>5, Zenon DEF SlowGet
<1>6. CASE Lock(t)
  BY <1>0, <1>00, <1>6, Zenon DEF Lock
<1>7. CASE Register(t)
  BY <1>0, <1>00, <1>7, Zenon DEF Register
<1>8. CASE FreezeAgain(t)
  BY <1>0, <1>00, <1>8, Zenon DEF FreezeAgain
<1>9. CASE FreezeStart(t)
  BY <1>0, <1>00, <1>9, Zenon DEF FreezeStart
<1>10. CASE FreezeCopy(t)
  BY <1>0, <1>00, <1>10, Zenon DEF FreezeCopy
<1>11. CASE FreezeEnd(t)
  BY <1>0, <1>00, <1>11, Zenon DEF FreezeEnd
<1>12. CASE Return(t)
  BY <1>0, <1>00, <1>12, Zenon DEF Return
<1> QED
  BY <1>1, <1>2, <1>3, <1>4, <1>5, <1>6, <1>7, <1>8, <1>9, <1>10, <1>11, <1>12, Zenon DEF Step

\* One step of a thread keeps each call at its place.
LEMMA StepCallInv ==
    ASSUME IInv, NEW t \in Threads, Step(t) PROVE CallInv'
<1> USE RegistryAssumption DEF CallInv, Go, Returns
<1>0. TypeOK /\ CallInv
  BY Zenon DEF IInv
<1>1a. \A c \in Calls : c # Idle /\ c.op \in {"get", "register", "freeze"}
  BY CallShape, Zenon DEF Calls, Idle
<1>1b. call[t].op = "get" => services_[call[t].key] # "pending" /\ frozen_[call[t].key] # "pending"
  <2>1. call[t] \in Calls \cup {Idle}
    BY <1>0, Zenon DEF TypeOK
  <2>2. call[t].op = "get" => call[t].key \in Keys
    BY <2>1, CallShape, Zenon
  <2> QED
    BY <1>0, <2>2 DEF TypeOK, Entries
<1>00. /\ pc \in [Threads -> {"idle", "start", "fast", "slow", "read", "lock", "locked", "copy", "return"}]
       /\ call \in [Threads -> Calls \cup {Idle}] /\ answer \in [Threads -> Answers]
  BY <1>0, Zenon DEF TypeOK
<1>1. CASE Call(t)
  BY <1>0, <1>00, <1>1a, <1>1b, <1>1 DEF Call
<1>2. CASE CheckFrozen(t)
  BY <1>0, <1>00, <1>1a, <1>1b, <1>2, Zenon DEF CheckFrozen
<1>3. CASE FastGet(t)
  BY <1>0, <1>00, <1>1a, <1>1b, <1>3, Zenon DEF FastGet
<1>4. CASE LockShared(t)
  BY <1>0, <1>00, <1>1a, <1>1b, <1>4, Zenon DEF LockShared
<1>5. CASE SlowGet(t)
  BY <1>0, <1>00, <1>1a, <1>1b, <1>5, Zenon DEF SlowGet
<1>6. CASE Lock(t)
  BY <1>0, <1>00, <1>1a, <1>1b, <1>6, Zenon DEF Lock
<1>7. CASE Register(t)
  BY <1>0, <1>00, <1>1a, <1>1b, <1>7 DEF Register
<1>8. CASE FreezeAgain(t)
  BY <1>0, <1>00, <1>1a, <1>1b, <1>8, Zenon DEF FreezeAgain
<1>9. CASE FreezeStart(t)
  BY <1>0, <1>00, <1>1a, <1>1b, <1>9, Zenon DEF FreezeStart
<1>10. CASE FreezeCopy(t)
  BY <1>0, <1>00, <1>1a, <1>1b, <1>10, Zenon DEF FreezeCopy
<1>11. CASE FreezeEnd(t)
  BY <1>0, <1>00, <1>1a, <1>1b, <1>11, Zenon DEF FreezeEnd
<1>12. CASE Return(t)
  BY <1>0, <1>00, <1>1a, <1>1b, <1>12, Zenon DEF Return
<1> QED
  BY <1>1, <1>2, <1>3, <1>4, <1>5, <1>6, <1>7, <1>8, <1>9, <1>10, <1>11, <1>12, Zenon DEF Step

\* One step of a thread keeps the tables: only the writer changes them, and
\* only before they are announced.
LEMMA StepNoRacyRead ==
    ASSUME IInv, NEW t \in Threads, Step(t) PROVE NoRacyRead'
<1> USE RegistryAssumption DEF NoRacyRead, Go, Returns
<1>0. LockInv /\ CallInv /\ NoRacyRead
  BY Zenon DEF IInv
<1>00. /\ pc \in [Threads -> {"idle", "start", "fast", "slow", "read", "lock", "locked", "copy", "return"}]
       /\ services_ \in Entries /\ frozen_ \in Entries /\ todo \subseteq Keys
  BY Zenon DEF IInv, TypeOK
<1>1. CASE Call(t)
  BY <1>0, <1>00, <1>1, ZenonT(40) DEF Call, LockInv, Entries
<1>2. CASE CheckFrozen(t)
  BY <1>0, <1>00, <1>2, Zenon DEF CheckFrozen, LockInv, Entries
<1>3. CASE FastGet(t)
  BY <1>0, <1>00, <1>3, Zenon DEF FastGet, LockInv, Entries
<1>4. CASE LockShared(t)
  BY <1>0, <1>00, <1>4, Zenon DEF LockShared, LockInv, Entries
<1>5. CASE SlowGet(t)
  BY <1>0, <1>00, <1>5, Zenon DEF SlowGet, LockInv, Entries
<1>6. CASE Lock(t)
  BY <1>0, <1>00, <1>6, Zenon DEF Lock, LockInv, Entries
<1>7. CASE Register(t)
  BY <1>0, <1>00, <1>7, Zenon DEF Register, LockInv, Entries
<1>8. CASE FreezeAgain(t)
  BY <1>0, <1>00, <1>8, Zenon DEF FreezeAgain, LockInv, Entries
<1>9. CASE FreezeStart(t)
  BY <1>0, <1>00, <1>9, Zenon DEF FreezeStart, LockInv, Entries
<1>10. CASE FreezeCopy(t)
  BY <1>0, <1>00, <1>10, Zenon DEF FreezeCopy, LockInv, Entries
<1>11. CASE FreezeEnd(t)
  BY <1>0, <1>00, <1>11 DEF FreezeEnd, LockInv, Entries
<1>12. CASE Return(t)
  BY <1>0, <1>00, <1>12, Zenon DEF Return, LockInv, Entries
<1> QED
  BY <1>1, <1>2, <1>3, <1>4, <1>5, <1>6, <1>7, <1>8, <1>9, <1>10, <1>11, <1>12, Zenon DEF Step

LEMMA NextIInv == IInv /\ [Next]_vars => IInv'
<1> SUFFICES ASSUME IInv, [Next]_vars PROVE IInv'
  BY Zenon
<1>1. CASE UNCHANGED vars
  BY <1>1, Zenon DEF IInv, vars, TypeOK, LockInv, CallInv, NoRacyRead
<1>2. CASE Next
  <2>1. PICK t \in Threads : Step(t)
    BY <1>2, Zenon DEF Next
  <2> QED
    BY <2>1, StepTypeOK, StepLockInv, StepCallInv, StepNoRacyRead, Zenon DEF IInv
<1> QED
  BY <1>1, <1>2, Zenon

\* The places of the threads, the mutex, the calls and the tables of the
\* registry always agree (the locking of ServiceRegistry.h).
THEOREM RegistryInvariant == Spec => []IInv
<1> QED
  BY InitIInv, NextIInv, PTL DEF Spec

\* A lookup without the mutex never meets a table that freeze still writes.
THEOREM LookupsAreSafe == Spec => []NoRacyRead
<1>1. IInv => NoRacyRead
  BY Zenon DEF IInv
<1> QED
  BY RegistryInvariant, <1>1, PTL

\* What a step of a thread is to the callers.
LEMMA StepRefines ==
    ASSUME IInv, NEW t \in Threads, Step(t) PROVE [Abstract!Next]_(Abstract!vars)
<1>0. /\ call \in [Threads -> Calls \cup {Idle}] /\ answer \in [Threads -> Answers]
      /\ pc \in [Threads -> {"idle", "start", "fast", "slow", "read", "lock", "locked", "copy", "return"}]
  BY Zenon DEF IInv, TypeOK
<1>1. CallInv /\ NoRacyRead
  BY Zenon DEF IInv
<1>2. CASE Call(t)
  <2>1. Abstract!Call(t)
    BY <1>0, <1>1, <1>2, Zenon
       DEF Call, Returns, CallInv, Abstract!Call, Abstract!Calls, Calls, Abstract!Idle, Idle
  <2> QED
    BY <2>1, Zenon DEF Abstract!Next
<1>3. CASE CheckFrozen(t) \/ LockShared(t) \/ Lock(t) \/ FreezeStart(t) \/ FreezeCopy(t)
  BY <1>3, Zenon DEF CheckFrozen, LockShared, Lock, FreezeStart, FreezeCopy, Abstract!vars
<1>4. CASE FastGet(t) \/ SlowGet(t)
  <2>1. Abstract!Get(t)
    BY <1>1, <1>4, Zenon
       DEF FastGet, SlowGet, Go, Returns, CallInv, NoRacyRead, Abstract!Get, Abstract!Answer
  <2> QED
    BY <2>1, Zenon DEF Abstract!Next
<1>5. CASE Register(t)
  <2>1. Abstract!Register(t) \/ Abstract!Refuse(t)
    BY <1>1, <1>5, Zenon
       DEF Register, Go, Returns, CallInv, Abstract!Register, Abstract!Refuse, Abstract!Answer
  <2> QED
    BY <2>1, Zenon DEF Abstract!Next
<1>6. CASE FreezeAgain(t) \/ FreezeEnd(t)
  <2>1. Abstract!Freeze(t)
    BY <1>1, <1>6, Zenon
       DEF FreezeAgain, FreezeEnd, Go, Returns, CallInv, Abstract!Freeze, Abstract!Answer
  <2> QED
    BY <2>1, Zenon DEF Abstract!Next
<1>7. CASE Return(t)
  <2>1. Abstract!Return(t)
    BY <1>1, <1>7, Zenon DEF Return, Go, Returns, CallInv, Abstract!Return, Abstract!Idle, Idle
  <2> QED
    BY <2>1, Zenon DEF Abstract!Next
<1> QED
  BY <1>2, <1>3, <1>4, <1>5, <1>6, <1>7, Zenon DEF Step

\* Every operation of the registry takes effect at one moment of its call.
THEOREM RegistryRefines == Spec => Linearizable
<1>1. Init => Abstract!Init
  BY Zenon DEF Init, Abstract!Init, Abstract!Idle, Idle
<1>2. IInv /\ [Next]_vars => [Abstract!Next]_(Abstract!vars)
  <2> SUFFICES ASSUME IInv, [Next]_vars PROVE [Abstract!Next]_(Abstract!vars)
    BY Zenon
  <2>1. CASE UNCHANGED vars
    BY <2>1, Zenon DEF vars, Abstract!vars
  <2>2. CASE Next
    BY <2>2, StepRefines, Zenon DEF Next
  <2> QED
    BY <2>1, <2>2, Zenon
<1> QED
  BY <1>1, <1>2, RegistryInvariant, PTL DEF Spec, Linearizable, Abstract!Spec
=============================================================================
