------------------------ MODULE CircuitBreakerProofs ------------------------
(***************************************************************************)
(* Theorems about the circuit breaker, for every set of callers and every  *)
(* configuration.                                                          *)
(***************************************************************************)
EXTENDS CircuitBreaker, FiniteSetTheorems, TLAPS

\* The inductive invariant: a threshold that was reached is paired with a
\* goroutine that acts on it, and the mutex separates the halves of a change.
IInv == TypeOK /\ MutexOwner /\ TripNotLost /\ ResetNotLost

\* Every action keeps the variables in their types.
LEMMA TypeStep == TypeOK /\ [Next]_vars => TypeOK'
<1> USE BreakerAssumption DEF TypeOK, Goto, Labels, States, counts
<1> SUFFICES ASSUME TypeOK, [Next]_vars PROVE TypeOK'
  OBVIOUS
<1>1. ASSUME NEW c \in Callers, Call(c) PROVE TypeOK'
  BY <1>1 DEF Call, Threads
<1>2. ASSUME NEW c \in Callers, CallerStep(c) PROVE TypeOK'
  <2> c \in Threads
    BY DEF Threads
  <2>1. CASE Ready(c) BY <2>1 DEF Ready
  <2>2. CASE Admit(c) BY <2>2 DEF Admit
  <2>3. CASE Reject(c) BY <2>3 DEF Reject
  <2>4. CASE FnReturns(c) BY <2>4 DEF FnReturns
  <2>5. CASE RecordFailure(c)
    BY <2>5 DEF RecordFailure, CountFailure
  <2>6. CASE FailHalfOpen(c)
    BY <2>6 DEF FailHalfOpen, EnterSetState
  <2>7. CASE FailClosed(c)
    BY <2>7 DEF FailClosed, EnterSetState
  <2>8. CASE RecordSuccess(c)
    BY <2>8 DEF RecordSuccess
  <2>9. CASE SuccHalfOpen(c)
    BY <2>9 DEF SuccHalfOpen
  <2>10. CASE SuccClosed(c) BY <2>10 DEF SuccClosed
  <2> QED
    BY <1>2, <2>1, <2>2, <2>3, <2>4, <2>5, <2>6, <2>7, <2>8, <2>9, <2>10
    DEF CallerStep
<1>3. ASSUME NEW t \in Threads, ThreadStep(t) PROVE TypeOK'
  <2>1. CASE Since(t)
    BY <2>1 DEF Since, EnterSetState
  <2>2. CASE SetStateCheck(t)
    BY <2>2 DEF SetStateCheck, Return
  <2>3. CASE StoreState(t) BY <2>3 DEF StoreState
  <2>4. CASE FinishState(t)
    <3>1. openCount' \in Nat
      BY <2>4 DEF FinishState
    <3>2. Return(t) \in Labels
      BY DEF Return
    <3> QED BY <2>4, <3>1, <3>2 DEF FinishState, ResetCounters
  <2> QED BY <1>3, <2>1, <2>2, <2>3, <2>4 DEF ThreadStep
<1>4. CASE ProbeTick BY <1>4 DEF ProbeTick, Threads
<1>5. CASE Close BY <1>5 DEF Close
<1>6. CASE TimeoutElapses BY <1>6 DEF TimeoutElapses
<1>7. CASE UNCHANGED vars BY <1>7 DEF vars
<1> QED BY <1>1, <1>2, <1>3, <1>4, <1>5, <1>6, <1>7 DEF Next

\* New starts the breaker closed with all counters at zero.
LEMMA TypeInit == Init => TypeOK
<1> SUFFICES ASSUME Init PROVE TypeOK
  OBVIOUS
<1>1. expired \in BOOLEAN /\ probing \in BOOLEAN
  BY Zenon DEF Init
<1>2. /\ pc \in [Threads -> Labels]
      /\ target \in [Threads -> States]
  BY DEF Init, Labels, States
<1> QED BY <1>1, <1>2 DEF Init, TypeOK, States

\* The variables always have their types: the counters are natural numbers and
\* every goroutine is at a label of the code it runs.
THEOREM TypeCorrect == Spec => []TypeOK
BY TypeInit, TypeStep, PTL DEF Spec
-----------------------------------------------------------------------------
\* The mutex passes from goroutine to goroutine only through StoreState and
\* FinishState.
LEMMA MutexStep == TypeOK /\ MutexOwner /\ [Next]_vars => MutexOwner'
<1> USE BreakerAssumption DEF Goto, EnterSetState, counts
<1> SUFFICES ASSUME TypeOK, MutexOwner, [Next]_vars PROVE MutexOwner'
  OBVIOUS
<1>0. pc \in [Threads -> Labels] /\ Callers \subseteq Threads /\ Probe \in Threads
  BY DEF TypeOK, Threads
<1>1. ASSUME NEW c \in Callers,
             Call(c) \/ Ready(c) \/ Admit(c) \/ Reject(c) \/ FnReturns(c)
             \/ RecordFailure(c) \/ RecordSuccess(c) \/ SuccClosed(c)
      PROVE  MutexOwner'
  BY <1>0, <1>1 DEF MutexOwner, TypeOK, States, Call, Ready, Admit, Reject,
     FnReturns, RecordFailure, RecordSuccess, SuccClosed
<1>2. ASSUME NEW c \in Callers, FailHalfOpen(c) PROVE MutexOwner'
  BY <1>0, <1>2 DEF MutexOwner, FailHalfOpen
<1>3. ASSUME NEW c \in Callers, FailClosed(c) PROVE MutexOwner'
  BY <1>0, <1>3 DEF MutexOwner, FailClosed
<1>4. ASSUME NEW c \in Callers, SuccHalfOpen(c) PROVE MutexOwner'
  BY <1>0, <1>4 DEF MutexOwner, SuccHalfOpen
<1>5. ASSUME NEW t \in Threads, Since(t) PROVE MutexOwner'
  BY <1>0, <1>5 DEF MutexOwner, Since
<1>6. ASSUME NEW t \in Threads, SetStateCheck(t) PROVE MutexOwner'
  BY <1>0, <1>6 DEF MutexOwner, SetStateCheck, Return
<1>7. ASSUME NEW t \in Threads, StoreState(t) PROVE MutexOwner'
  BY <1>0, <1>7 DEF MutexOwner, StoreState, Threads
<1>8. ASSUME NEW t \in Threads, FinishState(t) PROVE MutexOwner'
  BY <1>0, <1>8 DEF MutexOwner, FinishState, Return, Threads
<1>9. CASE ProbeTick \/ Close \/ TimeoutElapses \/ UNCHANGED vars
  BY <1>0, <1>9 DEF MutexOwner, ProbeTick, Close, TimeoutElapses, vars
<1> QED
  BY <1>1, <1>2, <1>3, <1>4, <1>5, <1>6, <1>7, <1>8, <1>9
  DEF Next, CallerStep, ThreadStep

\* The goroutine that reaches the failure threshold stays on its way to Open
\* until it, or the change it waits for, has taken effect.
LEMMA TripStep ==
  TypeOK /\ MutexOwner /\ TripNotLost /\ [Next]_vars => TripNotLost'
<1> USE BreakerAssumption DEF Goto, EnterSetState, counts
<1> SUFFICES ASSUME TypeOK, MutexOwner, TripNotLost, [Next]_vars
             PROVE  TripNotLost'
  OBVIOUS
<1>0. /\ pc \in [Threads -> Labels] /\ target \in [Threads -> States]
      /\ failures \in Nat /\ Callers \subseteq Threads /\ Probe \in Threads
  BY DEF TypeOK, Threads
<1> USE DEF TripNotLost, TrippingThreads
<1>1. ASSUME NEW c \in Callers,
             Call(c) \/ Ready(c) \/ Admit(c) \/ Reject(c) \/ FnReturns(c)
             \/ RecordFailure(c) \/ RecordSuccess(c) \/ SuccClosed(c)
      PROVE  TripNotLost'
  BY <1>0, <1>1 DEF TypeOK, States, Call, Ready, Admit, Reject,
     FnReturns, RecordFailure, RecordSuccess, SuccClosed
<1>2. ASSUME NEW c \in Callers, FailHalfOpen(c) PROVE TripNotLost'
  BY <1>0, <1>2 DEF FailHalfOpen
<1>3. ASSUME NEW c \in Callers, FailClosed(c) PROVE TripNotLost'
  BY <1>0, <1>3 DEF FailClosed, Trips
<1>4. ASSUME NEW c \in Callers, SuccHalfOpen(c) PROVE TripNotLost'
  BY <1>0, <1>4 DEF SuccHalfOpen
<1>5. ASSUME NEW t \in Threads, Since(t) PROVE TripNotLost'
  BY <1>0, <1>5 DEF Since
<1>6. ASSUME NEW t \in Threads, SetStateCheck(t) PROVE TripNotLost'
  BY <1>0, <1>6 DEF SetStateCheck, Return
<1>7. ASSUME NEW t \in Threads, StoreState(t) PROVE TripNotLost'
  BY <1>0, <1>7 DEF StoreState, Threads
<1>8. ASSUME NEW t \in Threads, FinishState(t) PROVE TripNotLost'
  BY <1>0, <1>8 DEF FinishState, ResetCounters, Return
<1>9. CASE ProbeTick \/ Close \/ TimeoutElapses \/ UNCHANGED vars
  BY <1>0, <1>9 DEF ProbeTick, Close, TimeoutElapses, vars
<1> QED
  BY <1>1, <1>2, <1>3, <1>4, <1>5, <1>6, <1>7, <1>8, <1>9
  DEF Next, CallerStep, ThreadStep

\* The goroutine that reaches the success threshold runs reset() before the
\* counter can be mistaken for a fresh one.
LEMMA ResetStep ==
  TypeOK /\ MutexOwner /\ ResetNotLost /\ [Next]_vars => ResetNotLost'
<1> USE BreakerAssumption DEF Goto, EnterSetState, counts
<1> SUFFICES ASSUME TypeOK, MutexOwner, ResetNotLost, [Next]_vars
             PROVE  ResetNotLost'
  OBVIOUS
<1>0. /\ pc \in [Threads -> Labels] /\ target \in [Threads -> States]
      /\ successes \in Nat /\ Callers \subseteq Threads /\ Probe \in Threads
  BY DEF TypeOK, Threads
<1> USE DEF ResetNotLost, ResettingThreads
<1>1. ASSUME NEW c \in Callers,
             Call(c) \/ Ready(c) \/ Admit(c) \/ Reject(c) \/ FnReturns(c)
             \/ RecordFailure(c) \/ RecordSuccess(c) \/ SuccClosed(c)
      PROVE  ResetNotLost'
  BY <1>0, <1>1 DEF TypeOK, States, Call, Ready, Admit, Reject,
     FnReturns, RecordFailure, RecordSuccess, SuccClosed
<1>2. ASSUME NEW c \in Callers, FailHalfOpen(c) PROVE ResetNotLost'
  BY <1>0, <1>2 DEF FailHalfOpen
<1>3. ASSUME NEW c \in Callers, FailClosed(c) PROVE ResetNotLost'
  BY <1>0, <1>3 DEF FailClosed
<1>4. ASSUME NEW c \in Callers, SuccHalfOpen(c) PROVE ResetNotLost'
  BY <1>0, <1>4 DEF SuccHalfOpen
<1>5. ASSUME NEW t \in Threads, Since(t) PROVE ResetNotLost'
  BY <1>0, <1>5 DEF Since
<1>6. ASSUME NEW t \in Threads, SetStateCheck(t) PROVE ResetNotLost'
  BY <1>0, <1>6 DEF SetStateCheck
<1>7. ASSUME NEW t \in Threads, StoreState(t) PROVE ResetNotLost'
  BY <1>0, <1>7 DEF StoreState, Threads
<1>8. ASSUME NEW t \in Threads, FinishState(t) PROVE ResetNotLost'
  BY <1>0, <1>8 DEF FinishState, ResetCounters
<1>9. CASE ProbeTick \/ Close \/ TimeoutElapses \/ UNCHANGED vars
  BY <1>0, <1>9 DEF ProbeTick, Close, TimeoutElapses, vars
<1> QED
  BY <1>1, <1>2, <1>3, <1>4, <1>5, <1>6, <1>7, <1>8, <1>9
  DEF Next, CallerStep, ThreadStep

\* IInv holds initially and every step preserves it.
LEMMA IInvInvariant == Spec => []IInv
<1>1. Init => IInv
  <2>1. Init => TypeOK BY TypeInit
  <2>2. Init => MutexOwner BY BreakerAssumption DEF Init, MutexOwner, Threads
  <2>3. Init => TripNotLost /\ ResetNotLost
    BY BreakerAssumption DEF Init, TripNotLost, ResetNotLost
  <2> QED BY <2>1, <2>2, <2>3 DEF IInv
<1>2. IInv /\ [Next]_vars => IInv'
  BY TypeStep, MutexStep, TripStep, ResetStep DEF IInv
<1> QED BY <1>1, <1>2, PTL DEF Spec

\* In every configuration and for any number of callers, a reached threshold
\* always has a goroutine that will open the breaker or run reset() (lines
\* 163-236).
THEOREM ThresholdSafe == Spec => []ThresholdsActedOn
<1>1. IInv => ThresholdsActedOn BY DEF IInv, ThresholdsActedOn
<1> QED BY <1>1, IInvInvariant, PTL

\* With nobody inside, neither threshold is reached: a half-open phase that has
\* not been decided has used fewer than SuccessThreshold + FailureThreshold - 1
\* places of its limit.
THEOREM UseBounded == Spec => []HalfOpenUseBounded
<1>1. IInv => HalfOpenUseBounded
  <2> SUFFICES ASSUME IInv, state = "HalfOpen", \A t \in Threads : pc[t] = "idle"
               PROVE  failures + successes < SuccessThreshold + FailureThreshold - 1
    BY DEF HalfOpenUseBounded
  <2>1. mu = Nobody
    BY DEF IInv, MutexOwner, TypeOK
  <2>2. failures < FailureThreshold
    BY <2>1, BreakerAssumption DEF IInv, TypeOK, TripNotLost, TrippingThreads
  <2>3. successes < SuccessThreshold
    BY <2>1, BreakerAssumption DEF IInv, TypeOK, ResetNotLost, ResettingThreads
  <2> QED
    BY <2>2, <2>3, BreakerAssumption DEF IInv, TypeOK
<1> QED BY <1>1, IInvInvariant, PTL

\* The sizing rule: with a half-open limit of at least SuccessThreshold +
\* FailureThreshold - 1 the breaker is never wedged half-open.
THEOREM SizingRule ==
  ASSUME HalfOpenMaxCalls >= SuccessThreshold + FailureThreshold - 1
  PROVE  Spec => []HalfOpenServes
<1>1. TypeOK /\ HalfOpenUseBounded => HalfOpenServes
  BY BreakerAssumption DEF HalfOpenUseBounded, HalfOpenServes, LimitReached, TypeOK
<1> QED BY <1>1, TypeCorrect, UseBounded, PTL

\* A breaker whose half-open limit is used up with nobody inside stays so: no
\* action leaves Wedged.
THEOREM WedgedForever == Spec => WedgedIsForever
<1>1. ASSUME TypeOK, Wedged, [Next]_vars PROVE Wedged'
  <2> USE BreakerAssumption DEF Goto, counts
  <2>0. /\ pc \in [Threads -> Labels] /\ Probe \in Threads
        /\ Callers \subseteq Threads /\ mu = Nobody /\ state = "HalfOpen"
        /\ LimitReached /\ pc[Probe] = "idle"
        /\ \A t \in Threads : pc[t] \in {"idle", "ready", "admit", "reject"}
    BY <1>1 DEF TypeOK, Wedged, Threads
  <2>1. ASSUME NEW c \in Callers, Call(c) PROVE Wedged'
    BY <2>0, <2>1 DEF Wedged, Call, LimitReached
  <2>2. ASSUME NEW c \in Callers, CallerStep(c) PROVE Wedged'
    <3>1. Ready(c) \/ Admit(c) \/ Reject(c)
      BY <2>0, <2>2 DEF CallerStep, FnReturns, RecordFailure, FailHalfOpen,
         FailClosed, RecordSuccess, SuccHalfOpen, SuccClosed
    <3> QED BY <2>0, <3>1 DEF Wedged, Ready, Admit, Reject, LimitReached
  <2>3. ASSUME NEW t \in Threads, ThreadStep(t) PROVE Wedged'
    BY <2>0, <2>3 DEF ThreadStep, Since, SetStateCheck, StoreState, FinishState
  <2>4. CASE ProbeTick BY <2>0, <2>4 DEF ProbeTick, ProbeDue
  <2>5. CASE Close \/ TimeoutElapses \/ UNCHANGED vars
    BY <2>0, <2>5 DEF Close, TimeoutElapses, vars, Wedged, LimitReached
  <2> QED BY <1>1, <2>1, <2>2, <2>3, <2>4, <2>5 DEF Next
<1> QED BY <1>1, TypeCorrect, PTL DEF Spec, WedgedIsForever
-----------------------------------------------------------------------------
\* A step that keeps every caller on its side of InFlight keeps the sum.
LEMMA SameInFlight ==
  ASSUME CallAccounting, InFlight' = InFlight,
         UNCHANGED <<totalCalls, failedCalls, successCalls>>
  PROVE  CallAccounting'
BY DEF CallAccounting

\* Counting the outcome of one call removes it from InFlight.
LEMMA OneCounted ==
  ASSUME TypeOK, CallAccounting, NEW c \in InFlight,
         InFlight' = InFlight \ {c}, totalCalls' = totalCalls,
         \/ failedCalls' = failedCalls + 1 /\ successCalls' = successCalls
         \/ failedCalls' = failedCalls /\ successCalls' = successCalls + 1
  PROVE  CallAccounting'
<1>1. IsFiniteSet(InFlight)
  BY FS_Subset, BreakerAssumption DEF InFlight
<1>2. Cardinality(InFlight') = Cardinality(InFlight) - 1
  BY <1>1, FS_RemoveElement
<1>3. Cardinality(InFlight) \in Nat
  BY <1>1, FS_CardinalityType
<1> QED BY <1>2, <1>3 DEF CallAccounting, TypeOK

\* Every action either leaves the calls in flight alone, admits one in Call or
\* counts one in Reject, RecordFailure or RecordSuccess.
LEMMA AccountingStep ==
  TypeOK /\ CallAccounting /\ [Next]_vars => CallAccounting'
<1> USE BreakerAssumption DEF Goto, EnterSetState, counts
<1> SUFFICES ASSUME TypeOK, CallAccounting, [Next]_vars PROVE CallAccounting'
  OBVIOUS
<1>0. /\ pc \in [Threads -> Labels] /\ target \in [Threads -> States]
      /\ Callers \subseteq Threads /\ Probe \in Threads /\ Probe \notin Callers
      /\ state \in States
  BY DEF TypeOK, Threads
<1>1. ASSUME NEW c \in Callers, Call(c) PROVE CallAccounting'
  <2>1. c \notin InFlight /\ InFlight' = InFlight \cup {c}
    BY <1>0, <1>1 DEF InFlight, Call
  <2>2. IsFiniteSet(InFlight)
    BY FS_Subset DEF InFlight
  <2>3. Cardinality(InFlight') = Cardinality(InFlight) + 1
    BY <2>1, <2>2, FS_AddElement
  <2>4. Cardinality(InFlight) \in Nat
    BY <2>2, FS_CardinalityType
  <2> QED BY <1>1, <2>3, <2>4 DEF CallAccounting, TypeOK, Call
<1>2. ASSUME NEW c \in Callers, Ready(c) \/ Admit(c) \/ FnReturns(c)
      PROVE  CallAccounting'
  <2>1. InFlight' = InFlight
    BY <1>0, <1>2 DEF InFlight, States, Ready, Admit, FnReturns
  <2> QED BY <1>2, <2>1, SameInFlight DEF Ready, Admit, FnReturns
<1>3. ASSUME NEW c \in Callers, Reject(c) \/ RecordFailure(c) \/ RecordSuccess(c)
      PROVE  CallAccounting'
  <2>1. c \in InFlight /\ InFlight' = InFlight \ {c}
    BY <1>0, <1>3 DEF InFlight, States, Reject, RecordFailure, RecordSuccess
  <2> QED
    BY <1>3, <2>1, OneCounted DEF Reject, RecordFailure, CountFailure, RecordSuccess
<1>4. ASSUME NEW c \in Callers,
             FailHalfOpen(c) \/ FailClosed(c) \/ SuccHalfOpen(c) \/ SuccClosed(c)
      PROVE  CallAccounting'
  <2>1. InFlight' = InFlight
    BY <1>0, <1>4 DEF InFlight, FailHalfOpen, FailClosed, SuccHalfOpen, SuccClosed
  <2> QED BY <1>4, <2>1, SameInFlight
    DEF FailHalfOpen, FailClosed, SuccHalfOpen, SuccClosed
<1>5. ASSUME NEW t \in Threads, ThreadStep(t) PROVE CallAccounting'
  <2>1. CASE Since(t)
    BY <1>0, <2>1, SameInFlight DEF InFlight, Since
  <2>2. CASE SetStateCheck(t)
    BY <1>0, <2>2, SameInFlight DEF InFlight, SetStateCheck, Return
  <2>3. CASE StoreState(t)
    BY <1>0, <2>3, SameInFlight DEF InFlight, StoreState
  <2>4. CASE FinishState(t)
    BY <1>0, <2>4, SameInFlight DEF InFlight, FinishState, Return
  <2> QED BY <1>5, <2>1, <2>2, <2>3, <2>4 DEF ThreadStep
<1>6. CASE ProbeTick
  BY <1>0, <1>6, SameInFlight DEF InFlight, ProbeTick
<1>7. CASE Close \/ TimeoutElapses \/ UNCHANGED vars
  BY <1>0, <1>7, SameInFlight DEF InFlight, Close, TimeoutElapses, vars
<1> QED
  BY <1>1, <1>2, <1>3, <1>4, <1>5, <1>6, <1>7 DEF Next, CallerStep

\* Whatever state changes overlap a call, it is counted exactly once as failed
\* or successful.
THEOREM CallsAccounted == Spec => []CallAccounting
<1>1. Init => CallAccounting
  <2> SUFFICES ASSUME Init PROVE CallAccounting
    OBVIOUS
  <2>1. InFlight = {}
    BY DEF Init, InFlight, Threads
  <2> QED BY <2>1, FS_EmptySet DEF Init, CallAccounting
<1> QED BY <1>1, AccountingStep, TypeCorrect, PTL DEF Spec
=============================================================================
