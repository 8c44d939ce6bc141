--------------------------- MODULE CircuitBreaker ---------------------------
(***************************************************************************)
(* The circuit breaker of internal/circuit/breaker.go.  Every goroutine    *)
(* inside Call is a thread with a program counter; a step of a thread ends *)
(* where the code next touches a word other goroutines write: the atomic   *)
(* state word, the failure/success counters, lastStateChange and the mutex *)
(* mu.  lastStateChange is read without the mutex (lines 143 and 241)      *)
(* while setState writes it after the state word, so the two writes are    *)
(* separate steps.                                                         *)
(***************************************************************************)
EXTENDS Integers, FiniteSets

CONSTANTS Callers,          \* goroutines that use Call
          Probe,            \* the goroutine of probeLoop
          Nobody,           \* "mu is free"
          FailureThreshold, SuccessThreshold, HalfOpenMaxCalls,  \* Config
          MaxCalls          \* bound: calls made in one behaviour

\* New replaces a zero threshold by its default, so none is zero.
ASSUME BreakerAssumption ==
  /\ FailureThreshold \in Nat \ {0}
  /\ SuccessThreshold \in Nat \ {0}
  /\ HalfOpenMaxCalls \in Nat \ {0}
  /\ MaxCalls \in Nat
  /\ Probe \notin Callers /\ Nobody \notin Callers \cup {Probe}
  /\ IsFiniteSet(Callers)

VARIABLES
  state,         \* the atomic word cb.state
  failures, successes,
  totalCalls, failedCalls, successCalls, openCount,
  expired,       \* time.Since(lastStateChange) > config.Timeout
  mu,            \* holder of cb.mu across a setState or reset
  probing,       \* halfOpenTicker has not been stopped
  pc,            \* where each thread is
  target         \* the state a thread inside setState or reset moves to

counts == <<totalCalls, failedCalls, successCalls>>
vars == <<state, failures, successes, counts, openCount, expired, mu, probing,
          pc, target>>

Threads == Callers \cup {Probe}
States == {"Closed", "Open", "HalfOpen"}
Labels == {"idle", "ready", "since", "admit", "reject", "fn",
           "recordFailure", "recordSuccess", "failHalfOpen", "failClosed",
           "succHalfOpen", "succClosed", "setState", "setLock", "setFinish"}

Goto(t, label) == pc' = [pc EXCEPT ![t] = label]

\* A call of setState(s): the check of line 205 comes next.
EnterSetState(t, s) ==
  /\ Goto(t, "setState")
  /\ target' = [target EXCEPT ![t] = s]

\* Where a thread continues after setState or reset returns: a caller whose
\* ready() moved the breaker to half-open goes on to fn, all others are done.
Return(t) == IF t \in Callers /\ target[t] = "HalfOpen" THEN "fn" ELSE "idle"

Init ==
  /\ state = "Closed" /\ failures = 0 /\ successes = 0
  /\ totalCalls = 0 /\ failedCalls = 0 /\ successCalls = 0 /\ openCount = 0
  /\ expired = FALSE /\ mu = Nobody /\ probing = TRUE
  /\ pc = [t \in Threads |-> "idle"]
  /\ target = [t \in Threads |-> "Closed"]
-----------------------------------------------------------------------------
(* Call and ready *)

Call(c) ==
  /\ pc[c] = "idle" /\ totalCalls < MaxCalls
  /\ totalCalls' = totalCalls + 1
  /\ Goto(c, "ready")
  /\ UNCHANGED <<state, failures, successes, failedCalls, successCalls,
                 openCount, expired, mu, probing, target>>

\* The atomic load and the switch of ready().
Ready(c) ==
  /\ pc[c] = "ready"
  /\ Goto(c, CASE state = "Closed" -> "fn"
               [] state = "Open" -> "since"
               [] state = "HalfOpen" -> "admit")
  /\ UNCHANGED <<state, failures, successes, counts, openCount, expired, mu,
                 probing, target>>

\* The unlocked read of lastStateChange, by ready() and by probeLoop.
Since(t) ==
  /\ pc[t] = "since"
  /\ IF expired
     THEN EnterSetState(t, "HalfOpen")
     ELSE Goto(t, IF t = Probe THEN "idle" ELSE "reject") /\ UNCHANGED target
  /\ UNCHANGED <<state, failures, successes, counts, openCount, expired, mu,
                 probing>>

LimitReached == failures + successes >= HalfOpenMaxCalls

Admit(c) ==
  /\ pc[c] = "admit" /\ mu = Nobody
  /\ Goto(c, IF LimitReached THEN "reject" ELSE "fn")
  /\ UNCHANGED <<state, failures, successes, counts, openCount, expired, mu,
                 probing, target>>

Reject(c) ==
  /\ pc[c] = "reject"
  /\ failedCalls' = failedCalls + 1
  /\ Goto(c, "idle")
  /\ UNCHANGED <<state, failures, successes, totalCalls, successCalls,
                 openCount, expired, mu, probing, target>>

\* The user's function returns with or without an error.
FnReturns(c) ==
  /\ pc[c] = "fn"
  /\ \E outcome \in {"recordFailure", "recordSuccess"} : Goto(c, outcome)
  /\ UNCHANGED <<state, failures, successes, counts, openCount, expired, mu,
                 probing, target>>
-----------------------------------------------------------------------------
(* recordFailure and recordSuccess: the state is loaded in one step, the
   counter it selects is updated in a later one. *)

CountFailure == failedCalls + 1

RecordFailure(c) ==
  /\ pc[c] = "recordFailure"
  /\ failedCalls' = CountFailure
  /\ Goto(c, CASE state = "HalfOpen" -> "failHalfOpen"
               [] state = "Closed" -> "failClosed"
               [] state = "Open" -> "idle")
  /\ UNCHANGED <<state, failures, successes, totalCalls, successCalls,
                 openCount, expired, mu, probing, target>>

FailHalfOpen(c) ==
  /\ pc[c] = "failHalfOpen" /\ mu = Nobody
  /\ failures' = failures + 1
  /\ EnterSetState(c, "Open")
  /\ UNCHANGED <<state, successes, counts, openCount, expired, mu, probing>>

\* MUTANT: trips one failure late.
Trips_Late(f) == f > FailureThreshold
Trips(f) == f >= FailureThreshold

FailClosed(c) ==
  /\ pc[c] = "failClosed"
  /\ failures' = failures + 1
  /\ IF Trips(failures + 1)
     THEN EnterSetState(c, "Open")
     ELSE Goto(c, "idle") /\ UNCHANGED target
  /\ UNCHANGED <<state, successes, counts, openCount, expired, mu, probing>>

RecordSuccess(c) ==
  /\ pc[c] = "recordSuccess"
  /\ successCalls' = successCalls + 1
  /\ Goto(c, CASE state = "HalfOpen" -> "succHalfOpen"
               [] state = "Closed" -> "succClosed"
               [] state = "Open" -> "idle")
  /\ UNCHANGED <<state, failures, successes, totalCalls, failedCalls,
                 openCount, expired, mu, probing, target>>

\* The SuccessThreshold-th success calls reset(), which takes the mutex with
\* no check of the current state.
SuccHalfOpen(c) ==
  /\ pc[c] = "succHalfOpen" /\ mu = Nobody
  /\ successes' = successes + 1
  /\ IF successes + 1 >= SuccessThreshold
     THEN Goto(c, "setLock") /\ target' = [target EXCEPT ![c] = "Closed"]
     ELSE Goto(c, "idle") /\ UNCHANGED target
  /\ UNCHANGED <<state, failures, counts, openCount, expired, mu, probing>>

SuccClosed(c) ==
  /\ pc[c] = "succClosed"
  /\ failures' = 0
  /\ Goto(c, "idle")
  /\ UNCHANGED <<state, successes, counts, openCount, expired, mu, probing, target>>
-----------------------------------------------------------------------------
(* setState and reset *)

SetStateCheck(t) ==
  /\ pc[t] = "setState"
  /\ Goto(t, IF state = target[t] THEN Return(t) ELSE "setLock")
  /\ UNCHANGED <<state, failures, successes, counts, openCount, expired, mu,
                 probing, target>>

\* mu.Lock and the store of the state word.
StoreState(t) ==
  /\ pc[t] = "setLock" /\ mu = Nobody
  /\ mu' = t
  /\ state' = target[t]
  /\ Goto(t, "setFinish")
  /\ UNCHANGED <<failures, successes, counts, openCount, expired, probing, target>>

\* MUTANT: the counters of the previous phase survive the transition.
ResetCounters_Dropped == UNCHANGED <<failures, successes>>
ResetCounters == failures' = 0 /\ successes' = 0

\* The rest of the critical section: lastStateChange, the counters, openCount.
FinishState(t) ==
  /\ pc[t] = "setFinish"
  /\ expired' = FALSE
  /\ ResetCounters
  /\ openCount' = openCount + (IF target[t] = "Open" THEN 1 ELSE 0)
  /\ mu' = Nobody
  /\ Goto(t, Return(t))
  /\ UNCHANGED <<state, counts, probing, target>>
-----------------------------------------------------------------------------
(* probeLoop, Close and the passage of time *)

\* MUTANT: the probe looks for the wrong state.
ProbeDue_WrongState == state = "HalfOpen"
ProbeDue == state = "Open"

ProbeTick ==
  /\ probing /\ pc[Probe] = "idle" /\ ProbeDue
  /\ Goto(Probe, "since")
  /\ UNCHANGED <<state, failures, successes, counts, openCount, expired, mu,
                 probing, target>>

Close ==
  /\ probing /\ probing' = FALSE
  /\ UNCHANGED <<state, failures, successes, counts, openCount, expired, mu, pc, target>>

TimeoutElapses ==
  /\ ~expired /\ expired' = TRUE
  /\ UNCHANGED <<state, failures, successes, counts, openCount, mu, probing, pc, target>>

CallerStep(c) ==
  \/ Ready(c) \/ Admit(c) \/ Reject(c) \/ FnReturns(c)
  \/ RecordFailure(c) \/ FailHalfOpen(c) \/ FailClosed(c)
  \/ RecordSuccess(c) \/ SuccHalfOpen(c) \/ SuccClosed(c)

ThreadStep(t) == Since(t) \/ SetStateCheck(t) \/ StoreState(t) \/ FinishState(t)

Next ==
  \/ \E c \in Callers : Call(c) \/ CallerStep(c)
  \/ \E t \in Threads : ThreadStep(t)
  \/ ProbeTick \/ Close \/ TimeoutElapses

Spec == Init /\ [][Next]_vars

\* A goroutine that can run does (the scheduler), the ticker fires, time passes.
Fairness ==
  /\ \A c \in Callers : WF_vars(CallerStep(c))
  /\ \A t \in Threads : WF_vars(Since(t)) /\ WF_vars(SetStateCheck(t))
                        /\ SF_vars(StoreState(t)) /\ WF_vars(FinishState(t))
  /\ WF_vars(ProbeTick) /\ WF_vars(TimeoutElapses)

FairSpec == Spec /\ Fairness
-----------------------------------------------------------------------------
TypeOK ==
  /\ state \in States
  /\ failures \in Nat /\ successes \in Nat
  /\ totalCalls \in Nat /\ failedCalls \in Nat /\ successCalls \in Nat
  /\ openCount \in Nat
  /\ expired \in BOOLEAN /\ probing \in BOOLEAN
  /\ mu \in Threads \cup {Nobody}
  /\ pc \in [Threads -> Labels]
  /\ target \in [Threads -> States]

\* The calls whose outcome has not been counted yet.
InFlight ==
  {c \in Callers :
     \/ pc[c] \in {"ready", "since", "admit", "reject", "fn",
                   "recordFailure", "recordSuccess"}
     \/ pc[c] \in {"setState", "setLock", "setFinish"} /\ target[c] = "HalfOpen"}

\* Every call Call() counts is counted exactly once more, as failed or as
\* successful, whatever state changes overlap it (lines 120-134, 164, 185).
CallAccounting ==
  totalCalls = failedCalls + successCalls + Cardinality(InFlight)

TrippingThreads ==
  {t \in Threads : pc[t] \in {"setState", "setLock"} /\ target[t] = "Open"}

\* A reached failure threshold is never lost: outside a state change, when the
\* breaker is not open and the failures have reached the threshold, some
\* goroutine is on its way to opening it (lines 177-180 against the unlocked
\* stores of lines 199, 212 and 228).
TripNotLost ==
  (state # "Open" /\ mu = Nobody /\ failures >= FailureThreshold)
     => TrippingThreads # {}

\* The mutex is held by exactly the goroutine between the two halves of a
\* state change (lines 209-218 and 226-231).
MutexOwner == \A t \in Threads : mu = t <=> pc[t] = "setFinish"

\* The half-open limit counts recorded results and nothing lowers it inside the
\* phase: with no goroutine inside the breaker past admission, the breaker
\* rejects every call.
Wedged ==
  /\ state = "HalfOpen" /\ mu = Nobody /\ LimitReached
  /\ \A t \in Threads : pc[t] \in {"idle", "ready", "admit", "reject"}
  /\ pc[Probe] = "idle"

\* Once wedged the breaker stays wedged: no timer leaves the half-open state
\* (lines 148-157, 238-246).
WedgedIsForever == [][Wedged => Wedged']_vars

ResettingThreads == {t \in Threads : pc[t] = "setLock" /\ target[t] = "Closed"}

\* A reached success threshold is never lost either: outside a state change
\* some goroutine is about to run reset() (lines 190-194).
ResetNotLost ==
  (mu = Nobody /\ successes >= SuccessThreshold) => ResettingThreads # {}

\* No threshold is reached in vain, whatever counters other goroutines zero
\* meanwhile (lines 163-236).
ThresholdsActedOn == TripNotLost /\ ResetNotLost

\* What a half-open phase can use up of its limit without deciding: when no
\* goroutine is inside the breaker, fewer than SuccessThreshold +
\* FailureThreshold - 1 results are counted.  Late results of calls admitted
\* before the phase count too, so FailureThreshold has its part in the bound
\* although the first failure inside the phase opens the breaker (lines
\* 148-157, 166-196).
HalfOpenUseBounded ==
  (state = "HalfOpen" /\ \A t \in Threads : pc[t] = "idle")
     => failures + successes < SuccessThreshold + FailureThreshold - 1

\* A half-open breaker with no goroutine inside admits the next call (lines
\* 148-157).  It holds of a limit that is not below the bound above.
HalfOpenServes ==
  (state = "HalfOpen" /\ \A t \in Threads : pc[t] = "idle") => ~LimitReached

\* While the probe ticker runs, an open breaker does not stay open: probeLoop
\* moves it on even if nobody calls (lines 238-246).
OpenIsLeft == (state = "Open" /\ probing) ~> (state # "Open" \/ ~probing)
=============================================================================
