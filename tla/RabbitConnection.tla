-------------------------- MODULE RabbitConnection ---------------------------
(***************************************************************************)
(* RabbitMQ of internal/queue/rabbitmq.go: one broker connection, its      *)
(* reconnect loop, the bounded pool of channels, and the mutex mu, which   *)
(* connect keeps from dialling until the pool is filled.  A channel is     *)
(* "live" or "dead"; all channels die with their connection.  The initial  *)
(* state is the one NewRabbitMQ returns.                                   *)
(***************************************************************************)
EXTENDS Naturals, Sequences, FiniteSets

CONSTANTS
  Users,        \* goroutines that use channels
  PoolSize,     \* Config.ChannelPoolSize
  MaxRetry,     \* Config.MaxRetry, which has no default
  MaxDrops      \* bound: connection failures in one behaviour

ASSUME ConnectionAssumption ==
  /\ IsFiniteSet(Users) /\ PoolSize \in Nat \ {0}
  /\ {MaxRetry, MaxDrops} \subseteq Nat

VARIABLES
  open,         \* r.conn is open
  state,        \* ConnectionState
  channels,     \* the pool, a Go channel
  loop,         \* reconnectLoop: place and attempt number
  shut,         \* Shutdown: "no", "begun" (done is closed), "over", "gaveup"
  hold,         \* the channel each user has: "none", "live", "dead"
  crashed,      \* a panic nobody recovers
  drops,        \* number of connection failures
  unwell,       \* history: a health check failed on the current connection
  late          \* history: Shutdown began while an attempt was under way

connVars == <<open, state, channels, loop, shut, hold, crashed, drops, unwell, late>>

ConnInit ==
  /\ open = TRUE /\ state = "connected"
  /\ channels = [i \in 1 .. PoolSize |-> "live"]
  /\ loop = [pc |-> "wait", attempt |-> 0, filled |-> 0]
  /\ shut = "no"
  /\ hold = [u \in Users |-> "none"]
  /\ crashed = FALSE /\ drops = 0 /\ unwell = FALSE /\ late = FALSE

MuFree == loop.pc \notin {"dial", "fill"}
Closed == shut = "over"               \* r.channels is closed

Killed(ch) == IF ch = "live" THEN "dead" ELSE ch
KillChannels ==
  /\ channels' = [i \in DOMAIN channels |-> "dead"]
  /\ hold' = [u \in Users |-> Killed(hold[u])]

\* The connection breaks (external): every channel with it.
ConnectionLost ==
  /\ open /\ drops < MaxDrops
  /\ open' = FALSE /\ drops' = drops + 1
  /\ KillChannels
  /\ UNCHANGED <<state, loop, shut, crashed, unwell, late>>
-----------------------------------------------------------------------------
(* reconnectLoop and connect *)

DoneClosed == shut # "no"

\* An attempt begins, or the loop gives up or finds done closed.
NextAttempt(n) ==
  IF n > MaxRetry \/ DoneClosed
  THEN /\ loop' = [pc |-> "off", attempt |-> 0, filled |-> 0]
       /\ state' = "disconnected"
  ELSE /\ loop' = [pc |-> "backoff", attempt |-> n, filled |-> 0]
       /\ state' = "reconnecting"

\* select on done and notifyClose, which carries no error after Shutdown's own close.
SeeClose ==
  /\ loop.pc = "wait" /\ ~open /\ ~DoneClosed
  /\ NextAttempt(1)
  /\ UNCHANGED <<open, channels, shut, hold, crashed, drops, unwell, late>>

SeeDone ==
  /\ loop.pc \in {"wait", "backoff"} /\ DoneClosed
  /\ loop' = [pc |-> "off", attempt |-> 0, filled |-> 0]
  /\ UNCHANGED <<open, state, channels, shut, hold, crashed, drops, unwell, late>>

\* The timer; when done is closed too, the select may still take the timer.
BackoffEnds ==
  /\ loop.pc = "backoff"
  /\ loop' = [loop EXCEPT !.pc = "connect"]
  /\ UNCHANGED <<open, state, channels, shut, hold, crashed, drops, unwell, late>>

\* connect takes mu.
Connect ==
  /\ loop.pc = "connect"
  /\ loop' = [loop EXCEPT !.pc = "dial"]
  /\ state' = "connecting"
  /\ UNCHANGED <<open, channels, shut, hold, crashed, drops, unwell, late>>

\* MUTANT: a failed dial is retried without counting it.
DialFails_Free == NextAttempt(loop.attempt)

DialFails == NextAttempt(loop.attempt + 1)

\* The dial fails, or the connection is up and counts as connected.
Dial ==
  /\ loop.pc = "dial"
  /\ \/ DialFails /\ UNCHANGED <<open, unwell>>
     \/ /\ open' = TRUE /\ unwell' = FALSE
        /\ state' = "connected"
        /\ loop' = [loop EXCEPT !.pc = "fill"]
  /\ UNCHANGED <<channels, shut, hold, crashed, drops, late>>

\* initChannelPool: one channel more, sent to the pool when there is room; a
\* send on a closed pool panics, and reconnectLoop recovers.
Fill ==
  /\ loop.pc = "fill" /\ loop.filled < PoolSize /\ open
  /\ \/ /\ Closed
        /\ loop' = [pc |-> "off", attempt |-> 0, filled |-> 0] /\ UNCHANGED channels
     \/ /\ ~Closed /\ Len(channels) < PoolSize
        /\ channels' = Append(channels, "live")
        /\ loop' = [loop EXCEPT !.filled = @ + 1]
  /\ UNCHANGED <<open, state, shut, hold, crashed, drops, unwell, late>>

\* Channel() fails when the connection has gone again.
FillFails ==
  /\ loop.pc = "fill" /\ loop.filled < PoolSize /\ ~open
  /\ NextAttempt(loop.attempt + 1)
  /\ UNCHANGED <<open, channels, shut, hold, crashed, drops, unwell, late>>

\* connect returns and has started the next loop.
Connected ==
  /\ loop.pc = "fill" /\ loop.filled = PoolSize
  /\ loop' = [pc |-> "wait", attempt |-> 0, filled |-> 0]
  /\ UNCHANGED <<open, state, channels, shut, hold, crashed, drops, unwell, late>>

LoopStep ==
  SeeClose \/ SeeDone \/ BackoffEnds \/ Connect \/ Dial \/ Fill \/ FillFails \/ Connected
-----------------------------------------------------------------------------
(* Shutdown *)

ShutdownBegins ==
  /\ shut = "no" /\ shut' = "begun"
  /\ late' = (loop.pc \in {"backoff", "connect", "dial", "fill"})
  /\ UNCHANGED <<open, state, channels, loop, hold, crashed, drops, unwell>>

\* MUTANT: the connection is left to the loop.
ClosesConn_Never == FALSE

ClosesConn == open

\* The wait group is never used; only a context that has ended already gives up.
ShutdownEnds ==
  /\ shut = "begun"
  /\ \/ /\ shut' = "gaveup"
        /\ UNCHANGED <<open, state, channels, hold>>
     \/ /\ MuFree
        /\ shut' = "over"
        /\ channels' = <<>>
        /\ open' = (open /\ ~ClosesConn)
        /\ hold' = [u \in Users |-> Killed(hold[u])]
        /\ state' = "disconnected"
  /\ UNCHANGED <<loop, crashed, drops, unwell, late>>
-----------------------------------------------------------------------------
(* What a user does: AcquireChannel, newChannel, ReleaseChannel.  The      *)
(* caller's own step is conjoined by Publisher.                            *)

\* From the pool: a live channel, a dead one to be replaced, or none.  A closed
\* pool yields nil, and asking nil whether it is closed panics.
TakeChannel(u) ==
  /\ \/ /\ Closed
        /\ crashed' = TRUE /\ UNCHANGED <<channels, hold>>
     \/ /\ ~Closed /\ channels # <<>>
        /\ channels' = Tail(channels)
        /\ hold' = [hold EXCEPT ![u] = IF Head(channels) = "live" THEN "live" ELSE "none"]
        /\ UNCHANGED crashed
     \/ /\ ~Closed /\ channels = <<>>
        /\ UNCHANGED <<channels, hold, crashed>>
  /\ UNCHANGED <<open, state, loop, shut, drops, unwell, late>>

\* MUTANT: newChannel reads r.conn without the lock.
GetsConn_Unlocked == TRUE

GetsConn == MuFree

\* newChannel waits for mu.
NewChannel(u) ==
  /\ GetsConn
  /\ hold' = [hold EXCEPT ![u] = IF open THEN "live" ELSE "none"]
  /\ UNCHANGED <<open, state, channels, loop, shut, crashed, drops, unwell, late>>

CloseChannel(u) ==
  /\ hold' = [hold EXCEPT ![u] = Killed(@)]
  /\ UNCHANGED <<open, state, channels, loop, shut, crashed, drops, unwell, late>>

\* Back to the pool, dead or not; closed when the pool is full.
ReleaseChannel(u) ==
  /\ \/ /\ Closed
        /\ crashed' = TRUE /\ UNCHANGED <<channels, hold>>
     \/ /\ ~Closed
        /\ channels' = IF Len(channels) < PoolSize THEN Append(channels, hold[u]) ELSE channels
        /\ hold' = [hold EXCEPT ![u] = "none"]
        /\ UNCHANGED crashed
  /\ UNCHANGED <<open, state, loop, shut, drops, unwell, late>>

\* The declare of HealthCheck fails: the channel is closed by the exception, and
\* the state says disconnected, whatever the connection does.
HealthFails(u) ==
  /\ state' = "disconnected" /\ unwell' = TRUE
  /\ hold' = [hold EXCEPT ![u] = Killed(@)]
  /\ UNCHANGED <<open, channels, loop, shut, crashed, drops, late>>
-----------------------------------------------------------------------------
(* The state tells the truth about an open connection: after Shutdown no   *)
(* connection is open unless a reconnect attempt was already under way     *)
(* when it began (rabbitmq.go:174-186), and a connection reported as down  *)
(* while it is up and nobody reconnects has failed a health check, which   *)
(* nothing takes back (288).                                               *)
StateIsTrue ==
  /\ Closed /\ open => late
  /\ (open /\ loop.pc = "wait" /\ state # "connected") => unwell \/ DoneClosed

(* A lost connection is not waited on for ever: the loop brings it back or *)
(* gives up after MaxRetry attempts, also when dialling and filling the    *)
(* pool keep failing (rabbitmq.go:158-196).                                *)
LossIsAnswered == ~open ~> (open \/ loop.pc = "off" \/ crashed)
=============================================================================
