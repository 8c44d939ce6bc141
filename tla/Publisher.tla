------------------------------ MODULE Publisher ------------------------------
(***************************************************************************)
(* Publisher of internal/queue/publisher.go on the channels of one         *)
(* RabbitMQ: Publish, PublishBatch and PublishWithRetry, plain or with     *)
(* confirms, and HealthCheck, by concurrent users, while the connection    *)
(* breaks, comes back and is shut down.  The broker's side is external: it *)
(* takes a message, refuses it, or never sees it.                          *)
(***************************************************************************)
EXTENDS RabbitConnection

CONSTANT Kinds     \* each user's calls: number of messages (0: HealthCheck), confirms, retries

ASSUME PublisherAssumption ==
  Kinds \in [Users -> SUBSET [n : Nat, confirm : BOOLEAN, retries : Nat]]

VARIABLE call      \* the call each user is in

vars == <<connVars, call>>

Health == [n |-> 0, confirm |-> FALSE, retries |-> 0]

\* item: messages written so far; taken: copies of each at the broker; ambiguous:
\* an attempt failed after the broker had taken a message of it; unsent: a
\* message was written to a connection that broke.
Idle == [pc |-> "idle", kind |-> Health, attempt |-> 0, item |-> 0, err |-> FALSE,
         refused |-> FALSE, taken |-> <<>>, ambiguous |-> FALSE, unsent |-> FALSE]

Init == ConnInit /\ call = [u \in Users |-> Idle]

At(u, pc) == call[u].pc = pc
Go(u, c) == call' = [call EXCEPT ![u] = c]
Moved(u, pc) == [call[u] EXCEPT !.pc = pc]

Publish(u, k) ==
  /\ At(u, "idle") /\ k # Health
  /\ Go(u, [Idle EXCEPT !.pc = "acquire", !.kind = k, !.taken = [i \in 1 .. k.n |-> 0]])
  /\ UNCHANGED connVars

\* HealthCheck asks the state first.
HealthCheck(u) ==
  /\ At(u, "idle") /\ Health \in Kinds[u] /\ state = "connected"
  /\ Go(u, [Idle EXCEPT !.pc = "acquire"])
  /\ UNCHANGED connVars

Using(u) == IF call[u].kind = Health THEN "check" ELSE "send"

AcquireChannel(u) ==
  /\ At(u, "acquire")
  /\ TakeChannel(u)
  /\ Go(u, Moved(u, IF hold'[u] = "live" THEN Using(u) ELSE "new"))

\* The attempt has ended without an error, or is made again while retries are
\* left and the caller's context lasts.
AttemptEnds(u, err) ==
  LET c == call[u] IN
  \/ Go(u, [c EXCEPT !.pc = "done", !.err = err, !.refused = FALSE, !.item = 0])
  \/ /\ err /\ c.attempt < c.kind.retries
     /\ Go(u, [c EXCEPT !.pc = "acquire", !.attempt = @ + 1, !.item = 0,
                        !.err = FALSE, !.refused = FALSE])

GetNewChannel(u) ==
  /\ At(u, "new")
  /\ NewChannel(u)
  /\ IF hold'[u] = "live" THEN Go(u, Moved(u, Using(u))) ELSE AttemptEnds(u, TRUE)

\* The call c has written one more message.
Written(c) ==
  [c EXCEPT !.item = @ + 1,
            !.pc = IF c.item + 1 < c.kind.n THEN "send"
                   ELSE IF c.kind.confirm THEN "confirm" ELSE "release"]

Failed(c) ==
  [c EXCEPT !.pc = "release", !.err = TRUE, !.ambiguous = @ \/ \E i \in 1 .. c.item : c.taken[i] > 0]

Send(u) ==
  LET c == call[u]
      i == c.item + 1
  IN  /\ At(u, "send")
      /\ \/ /\ hold[u] = "dead"
            /\ Go(u, Failed(c))
            /\ UNCHANGED connVars
         \/ /\ hold[u] = "live"
            /\ Go(u, Written([c EXCEPT !.taken[i] = IF @ < 2 THEN @ + 1 ELSE @]))
            /\ UNCHANGED connVars
         \/ /\ hold[u] = "live" /\ c.kind.confirm
            /\ Go(u, Written([c EXCEPT !.refused = TRUE]))
            /\ UNCHANGED connVars
         \/ /\ hold[u] = "live" /\ ConnectionLost
            /\ Go(u, Written([c EXCEPT !.unsent = TRUE]))

\* MUTANT: any confirmation counts as an ack.
Acked_Any(u) == hold[u] = "live"

\* Every confirmation has arrived and is an ack.
Acked(u) == hold[u] = "live" /\ ~call[u].refused

\* Acks; a nack, a closed channel or the end of the context is an error.  The
\* deferred ch.Close runs before the deferred ReleaseChannel.
AwaitConfirms(u) ==
  /\ At(u, "confirm")
  /\ \/ Acked(u) /\ Go(u, Moved(u, "release"))
     \/ Go(u, Failed(call[u]))
  /\ CloseChannel(u)

Release(u) ==
  /\ At(u, "release")
  /\ ReleaseChannel(u)
  /\ AttemptEnds(u, call[u].err)

Check(u) ==
  /\ At(u, "check")
  /\ \/ HealthFails(u)
     \/ UNCHANGED connVars         \* it passes, or its context has ended
  /\ Go(u, Moved(u, "release"))

Return(u) ==
  /\ At(u, "done")
  /\ Go(u, Idle)
  /\ UNCHANGED connVars

UserStep(u) ==
  \/ AcquireChannel(u) \/ GetNewChannel(u) \/ Send(u) \/ AwaitConfirms(u)
  \/ Release(u) \/ Check(u) \/ Return(u)

Next ==
  /\ ~crashed
  /\ \/ \E u \in Users : UserStep(u) \/ HealthCheck(u) \/ \E k \in Kinds[u] : Publish(u, k)
     \/ (LoopStep \/ ConnectionLost \/ ShutdownBegins \/ ShutdownEnds) /\ UNCHANGED call

\* The loop and the calls proceed; dialling ends, one way or the other.
Spec ==
  /\ Init /\ [][Next]_vars
  /\ WF_vars(~crashed /\ LoopStep /\ UNCHANGED call)
-----------------------------------------------------------------------------
\* connect waits, with mu, for room in the pool.
FillBlocked ==
  loop.pc = "fill" /\ open /\ ~Closed /\ loop.filled < PoolSize /\ Len(channels) = PoolSize

(* A reconnect fills the pool while it keeps mu (rabbitmq.go:95, 205), and *)
(* a user whose channel is dead waits for mu (238).  The fill can wait for *)
(* room only because dead channels of the old connection are still in the  *)
(* pool, and on the first reconnect they all wait for each other only if   *)
(* there are fewer users than channels.                                    *)
StandstillNeedsStale ==
  FillBlocked =>
    /\ \E i \in DOMAIN channels : channels[i] = "dead"
    /\ (drops = 1 /\ \A u \in Users : At(u, "new")) => Cardinality(Users) < PoolSize

(* What a publish promises when it returns (publisher.go:92-253): with     *)
(* confirms, no error means the broker took every message; without, a      *)
(* message is missing only if it was written to a connection that broke;   *)
(* and the broker has a message twice only after an attempt that failed    *)
(* when the message was already taken.                                     *)
PublishOutcome ==
  \A u \in Users : At(u, "done") =>
    LET c == call[u] IN
    /\ (~c.err /\ (c.kind.confirm \/ ~c.unsent)) => \A i \in 1 .. c.kind.n : c.taken[i] > 0
    /\ (\E i \in 1 .. c.kind.n : c.taken[i] > 1) => c.ambiguous
=============================================================================
