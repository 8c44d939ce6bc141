--------------------------- MODULE PublisherProofs ---------------------------
(***************************************************************************)
(* Proofs about Publisher and RabbitConnection, for every finite set of    *)
(* users and calls, every pool size and any number of connection failures. *)
(***************************************************************************)
EXTENDS Publisher, FiniteSetTheorems, SequenceTheorems, TLAPS

CallRec ==
  [pc : {"idle", "acquire", "new", "send", "confirm", "check", "release", "done"},
   kind : [n : Nat, confirm : BOOLEAN, retries : Nat], attempt : Nat, item : Nat,
   err : BOOLEAN, refused : BOOLEAN, taken : Seq(0 .. 2), ambiguous : BOOLEAN,
   unsent : BOOLEAN]

ConnType ==
  /\ {open, crashed, unwell, late} \subseteq BOOLEAN
  /\ state \in {"connected", "disconnected", "reconnecting", "connecting"}
  /\ channels \in Seq({"live", "dead"}) /\ Len(channels) <= PoolSize
  /\ loop \in [pc : {"wait", "backoff", "connect", "dial", "fill", "off"},
               attempt : Nat, filled : 0 .. PoolSize]
  /\ shut \in {"no", "begun", "over", "gaveup"}
  /\ hold \in [Users -> {"none", "live", "dead"}]
  /\ drops \in Nat

TypeOK == ConnType /\ call \in [Users -> CallRec]

\* Where the loop is, and what that says of the connection.
LoopTells ==
  /\ (DoneClosed /\ ~late) => loop.pc \in {"wait", "off"}
  /\ (Closed /\ ~late) => ~open
  /\ loop.pc \in {"wait", "fill"} => state = "connected" \/ unwell \/ DoneClosed
  /\ loop.pc \in {"backoff", "connect", "dial"} => ~open
  /\ loop.pc # "fill" => loop.filled = 0
  /\ (drops = 0 /\ ~Closed) => open /\ loop.pc \in {"wait", "off"}
  /\ (drops = 1 /\ loop.pc = "fill" /\ ~Closed) => open
  /\ crashed => Closed

\* A connection that is down has no live channel.
DownIsDead ==
  ~open => /\ \A u \in Users : hold[u] # "live"
           /\ \A i \in 1 .. Len(channels) : channels[i] # "live"

\* A user has a channel exactly while its call uses one.
Holding ==
  ~Closed => \A u \in Users :
    hold[u] # "none" <=> call[u].pc \in {"send", "confirm", "check", "release"}

\* What the call c of a user that has channel h knows of its messages.
CallKnows(c, h) ==
  /\ Len(c.taken) = c.kind.n
  /\ c.refused => c.kind.confirm
  /\ c.pc = "check" => c.kind.n = 0
  /\ c.pc = "confirm" => c.kind.confirm /\ c.kind.n <= c.item
  /\ c.pc \in {"acquire", "new"} => c.item = 0 /\ ~c.refused
  /\ c.pc \in {"acquire", "new", "send", "confirm", "check"} => ~c.err
  /\ \A i \in 1 .. c.kind.n :
       /\ c.taken[i] > 1 => c.ambiguous
       /\ (c.pc \in {"acquire", "new", "send", "confirm"} /\ i > c.item /\ c.taken[i] > 0)
            => c.ambiguous
       /\ (c.pc = "release" /\ c.err /\ c.taken[i] > 0) => c.ambiguous
       /\ (/\ c.pc \in {"send", "confirm"} /\ i <= c.item
           /\ ~c.refused /\ (h = "live" \/ ~c.unsent)) => c.taken[i] > 0
       /\ (c.pc \in {"release", "done"} /\ ~c.err /\ (c.kind.confirm \/ ~c.unsent))
            => c.taken[i] > 0

Known == \A u \in Users : CallKnows(call[u], hold[u])

\* The live channels of the pool and of the users.
LiveIn(s) == {i \in 1 .. Len(s) : s[i] = "live"}
LiveHeld == {u \in Users : hold[u] = "live"}
\* Users that have taken from the pool and have not given back.
Busy == {u \in Users : hold[u] # "none" \/ call[u].pc = "new"}

\* While the pool is filled every live channel comes from the filling, and up
\* to the end of the first reconnect the pool and the users in need of a channel
\* do not outgrow the pool size, or the number of users, by more than that.
Counted ==
  ~Closed =>
    /\ loop.pc = "fill" =>
         Cardinality(LiveIn(channels)) + Cardinality(LiveHeld) <= loop.filled
    /\ (drops <= 1 /\ loop.pc # "off" /\ ~(drops = 1 /\ loop.pc = "wait" /\ open)) =>
         \/ Len(channels) + Cardinality(Busy) <= loop.filled + PoolSize
         \/ Len(channels) + Cardinality(Busy) <= loop.filled + Cardinality(Users)

IInv == TypeOK /\ LoopTells /\ DownIsDead /\ Holding /\ Known /\ Counted
-----------------------------------------------------------------------------
(* The calls *)

\* A user without a call.
LEMMA IdleCall == Idle \in CallRec /\ \A h : CallKnows(Idle, h)
BY DEF Idle, Health, CallRec, CallKnows

\* A failed attempt is ambiguous when the broker has a message of it.
LEMMA FailedKnows ==
  ASSUME NEW c \in CallRec, NEW h, NEW g, CallKnows(c, h), c.pc \in {"send", "confirm"}
  PROVE  Failed(c) \in CallRec /\ CallKnows(Failed(c), g)
<1> DEFINE d == Failed(c)
<1>1. d \in CallRec
  BY DEF Failed, CallRec
<1>2. /\ d.pc = "release" /\ d.err /\ d.kind = c.kind /\ d.taken = c.taken
      /\ d.refused = c.refused
      /\ (c.ambiguous \/ \E i \in 1 .. c.item : c.taken[i] > 0) => d.ambiguous
  BY DEF Failed, CallRec
<1>3. CallKnows(d, g)
  <2> HIDE DEF d
  <2>1. c.kind.n \in Nat /\ c.item \in Nat /\ \A i \in 1 .. c.kind.n : c.taken[i] \in 0 .. 2
    BY DEF CallRec, CallKnows
  <2> QED BY <1>2, <2>1 DEF CallKnows
<1> QED BY <1>1, <1>3

\* A call begins with no copy of its messages at the broker.
LEMMA BeginKnows ==
  ASSUME NEW k \in [n : Nat, confirm : BOOLEAN, retries : Nat], NEW t \in Seq(0 .. 2),
         Len(t) = k.n, \A i \in 1 .. k.n : t[i] = 0, NEW h
  PROVE  LET d == [Idle EXCEPT !.pc = "acquire", !.kind = k, !.taken = t]
         IN  d \in CallRec /\ CallKnows(d, h)
<1> DEFINE d == [Idle EXCEPT !.pc = "acquire", !.kind = k, !.taken = t]
<1>1. d \in CallRec
  BY DEF Idle, Health, CallRec
<1>2. /\ d.pc = "acquire" /\ d.kind = k /\ d.taken = t /\ d.item = 0 /\ ~d.err /\ ~d.refused
  BY DEF Idle, Health
<1> HIDE DEF d
<1>3. CallKnows(d, h)
  BY <1>2 DEF CallKnows
<1> QED BY <1>1, <1>3 DEF d

\* The fields that the proofs compute with.
LEMMA CallFields ==
  ASSUME NEW c \in CallRec, Len(c.taken) = c.kind.n
  PROVE  c.kind.n \in Nat /\ c.item \in Nat /\ \A i \in 1 .. c.kind.n : c.taken[i] \in 0 .. 2
BY DEF CallRec

\* An attempt ends with what it knew, or the next one begins.
LEMMA EndsKnow ==
  ASSUME NEW c \in CallRec, NEW h, NEW g, CallKnows(c, h), NEW d,
         \/ c.pc = "release" /\ d = [c EXCEPT !.pc = "done", !.err = c.err, !.refused = FALSE, !.item = 0]
         \/ c.pc = "new" /\ d = [c EXCEPT !.pc = "done", !.err = TRUE, !.refused = FALSE, !.item = 0]
         \/ /\ c.pc = "new" \/ (c.pc = "release" /\ c.err)
            /\ d = [c EXCEPT !.pc = "acquire", !.attempt = c.attempt + 1, !.item = 0,
                             !.err = FALSE, !.refused = FALSE]
  PROVE  d \in CallRec /\ CallKnows(d, g)
<1>1. c.kind.n \in Nat /\ c.item \in Nat /\ \A i \in 1 .. c.kind.n : c.taken[i] \in 0 .. 2
  BY CallFields DEF CallKnows
<1>2. CASE c.pc = "release" /\ d = [c EXCEPT !.pc = "done", !.err = c.err, !.refused = FALSE, !.item = 0]
  <2>1. d \in CallRec
    BY <1>2 DEF CallRec
  <2>2. /\ d.pc = "done" /\ d.kind = c.kind /\ d.taken = c.taken /\ ~d.refused
        /\ (d.ambiguous <=> c.ambiguous) /\ (d.unsent <=> c.unsent) /\ (d.err <=> c.err)
    BY <1>2 DEF CallRec
  <2> QED BY <1>1, <1>2, <2>1, <2>2 DEF CallKnows
<1>3. CASE c.pc = "new" /\ d = [c EXCEPT !.pc = "done", !.err = TRUE, !.refused = FALSE, !.item = 0]
  <2>1. d \in CallRec
    BY <1>3 DEF CallRec
  <2>2. /\ d.pc = "done" /\ d.kind = c.kind /\ d.taken = c.taken /\ ~d.refused
        /\ (d.ambiguous <=> c.ambiguous) /\ d.err
    BY <1>3 DEF CallRec
  <2> QED BY <1>1, <1>3, <2>1, <2>2 DEF CallKnows
<1>4. CASE /\ c.pc = "new" \/ (c.pc = "release" /\ c.err)
           /\ d = [c EXCEPT !.pc = "acquire", !.attempt = c.attempt + 1, !.item = 0,
                            !.err = FALSE, !.refused = FALSE]
  <2> DEFINE a == c.attempt + 1
  <2>1. a \in Nat
    BY DEF CallRec
  <2>2. d \in CallRec
    <3>1. d = [c EXCEPT !.pc = "acquire", !.attempt = a, !.item = 0, !.err = FALSE, !.refused = FALSE]
      BY <1>4
    <3> HIDE DEF a
    <3> QED BY <2>1, <3>1 DEF CallRec
  <2>3. /\ d.pc = "acquire" /\ d.kind = c.kind /\ d.taken = c.taken /\ ~d.refused /\ ~d.err
        /\ (d.ambiguous <=> c.ambiguous) /\ d.item = 0
    BY <1>4 DEF CallRec
  <2>4. \A i \in 1 .. c.kind.n : c.taken[i] > 0 => c.ambiguous
    BY <1>1, <1>4 DEF CallKnows
  <2> QED BY <1>1, <2>2, <2>3, <2>4 DEF CallKnows
<1> QED BY <1>2, <1>3, <1>4

\* A message is written: the broker takes it, refuses it, or never sees it.
LEMMA SentKnows ==
  ASSUME NEW c \in CallRec, NEW h, NEW g, CallKnows(c, h), c.pc = "send", NEW d,
         \/ d = [c EXCEPT !.taken[c.item + 1] = IF @ < 2 THEN @ + 1 ELSE @] /\ g = h
         \/ d = [c EXCEPT !.refused = TRUE] /\ c.kind.confirm
         \/ d = [c EXCEPT !.unsent = TRUE] /\ g = "dead"
  PROVE  /\ Written(d) \in CallRec /\ CallKnows(Written(d), g)
         /\ Written(d).pc \in {"send", "confirm", "release"}
<1> DEFINE e == Written(d)
           t == [c.taken EXCEPT ![c.item + 1] = IF @ < 2 THEN @ + 1 ELSE @]
<1>1. c.kind.n \in Nat /\ c.item \in Nat /\ \A i \in 1 .. c.kind.n : c.taken[i] \in 0 .. 2
  BY CallFields DEF CallKnows
<1>2. /\ t \in Seq(0 .. 2) /\ Len(t) = Len(c.taken)
      /\ \A i \in 1 .. c.kind.n :
           t[i] = IF i = c.item + 1 /\ c.taken[i] < 2 THEN c.taken[i] + 1 ELSE c.taken[i]
  <2>1. c.taken \in Seq(0 .. 2) /\ Len(c.taken) = c.kind.n
    BY DEF CallRec, CallKnows
  <2>2. CASE c.item + 1 \in 1 .. c.kind.n
    BY <1>1, <2>1, <2>2, ExceptSeq
  <2>3. CASE c.item + 1 \notin 1 .. c.kind.n
    <3>1. c.taken \in [1 .. c.kind.n -> 0 .. 2]
      BY <2>1, LenProperties
    <3>2. t = c.taken
      BY <2>3, <3>1
    <3> QED BY <1>1, <2>1, <2>3, <3>2
  <2> QED BY <2>2, <2>3
<1>3. /\ d \in CallRec /\ d.kind = c.kind /\ d.item = c.item /\ (d.err <=> c.err)
      /\ (d.ambiguous <=> c.ambiguous)
      /\ \/ d.taken = t /\ (d.refused <=> c.refused) /\ (d.unsent <=> c.unsent) /\ g = h
         \/ d.taken = c.taken /\ d.refused /\ c.kind.confirm
         \/ d.taken = c.taken /\ (d.refused <=> c.refused) /\ d.unsent /\ g = "dead"
  <2>1. \/ d = [c EXCEPT !.taken = t] /\ g = h
        \/ d = [c EXCEPT !.refused = TRUE] /\ c.kind.confirm
        \/ d = [c EXCEPT !.unsent = TRUE] /\ g = "dead"
    OBVIOUS
  <2> HIDE DEF t
  <2>2. CASE d = [c EXCEPT !.taken = t] /\ g = h
    BY <1>2, <2>2 DEF CallRec
  <2>3. CASE d = [c EXCEPT !.refused = TRUE] /\ c.kind.confirm
    BY <2>3 DEF CallRec
  <2>4. CASE d = [c EXCEPT !.unsent = TRUE] /\ g = "dead"
    BY <2>4 DEF CallRec
  <2> QED BY <2>1, <2>2, <2>3, <2>4
<1> HIDE DEF t
<1>4. /\ e.kind = d.kind /\ e.item = d.item + 1 /\ (e.err <=> d.err)
      /\ (e.ambiguous <=> d.ambiguous) /\ e.taken = d.taken
      /\ (e.refused <=> d.refused) /\ (e.unsent <=> d.unsent)
      /\ e.pc = IF d.item + 1 < d.kind.n THEN "send"
                ELSE IF d.kind.confirm THEN "confirm" ELSE "release"
  BY <1>3 DEF Written, CallRec
<1>5. e \in CallRec
  <2> DEFINE a == d.item + 1
             q == IF a < d.kind.n THEN "send" ELSE IF d.kind.confirm THEN "confirm" ELSE "release"
  <2>1. a \in Nat /\ q \in {"send", "confirm", "release"}
    BY <1>1, <1>3
  <2>2. e = [d EXCEPT !.item = a, !.pc = q]
    BY DEF Written
  <2> HIDE DEF e, a, q
  <2> QED BY <1>3, <2>1, <2>2 DEF CallRec
<1> HIDE DEF e
<1>6. CallKnows(e, g)
  <2>1. CASE d.taken = t /\ (d.refused <=> c.refused) /\ (d.unsent <=> c.unsent) /\ g = h
    BY <1>1, <1>2, <1>3, <1>4, <2>1, SMTT(20) DEF CallKnows
  <2>2. CASE d.taken = c.taken /\ d.refused /\ c.kind.confirm
    BY <1>1, <1>3, <1>4, <2>2 DEF CallKnows
  <2>3. CASE d.taken = c.taken /\ (d.refused <=> c.refused) /\ d.unsent /\ g = "dead"
    BY <1>1, <1>3, <1>4, <2>3 DEF CallKnows
  <2> QED BY <1>3, <2>1, <2>2, <2>3
<1> QED BY <1>4, <1>5, <1>6 DEF e

\* The death of its channel takes nothing from what a call knows.
LEMMA KilledKnows ==
  ASSUME NEW c, NEW h, NEW g, CallKnows(c, h), g = h \/ g # "live"
  PROVE  CallKnows(c, g)
BY DEF CallKnows

\* A call that moves on with its messages untouched.
LEMMA MovedKnows ==
  ASSUME NEW c \in CallRec, NEW h, NEW g, CallKnows(c, h), NEW q,
         \/ c.pc = "acquire" /\ q = "new"
         \/ c.pc \in {"acquire", "new"} /\ q = "send"
         \/ c.pc \in {"acquire", "new"} /\ q = "check" /\ c.kind = Health
         \/ c.pc = "check" /\ q = "release"
         \/ c.pc = "confirm" /\ q = "release" /\ h = "live" /\ ~c.refused
  PROVE  [c EXCEPT !.pc = q] \in CallRec /\ CallKnows([c EXCEPT !.pc = q], g)
<1> DEFINE d == [c EXCEPT !.pc = q]
<1>1. c.kind.n \in Nat /\ c.item \in Nat /\ \A i \in 1 .. c.kind.n : c.taken[i] \in 0 .. 2
  BY CallFields DEF CallKnows
<1>2. d \in CallRec
  BY DEF CallRec
<1>3. /\ d.pc = q /\ d.kind = c.kind /\ d.taken = c.taken /\ d.item = c.item
      /\ (d.refused <=> c.refused) /\ (d.ambiguous <=> c.ambiguous) /\ (d.unsent <=> c.unsent)
      /\ (d.err <=> c.err) /\ (c.kind = Health => c.kind.n = 0)
  BY DEF CallRec, Health
<1> HIDE DEF d
<1>4. CallKnows(d, g)
  BY <1>1, <1>3 DEF CallKnows
<1> QED BY <1>2, <1>4 DEF d

CallStep(u) == UserStep(u) \/ HealthCheck(u) \/ \E k \in Kinds[u] : Publish(u, k)

\* Every step of a call keeps what the call knows.
LEMMA CallStepKnows ==
  ASSUME TypeOK, Known, NEW u \in Users, CallStep(u)
  PROVE  /\ \E c \in CallRec : call' = [call EXCEPT ![u] = c]
         /\ CallKnows(call'[u], hold'[u])
<1> DEFINE c == call[u]
<1>0. c \in CallRec /\ CallKnows(c, hold[u]) /\ hold \in [Users -> {"none", "live", "dead"}]
      /\ call \in [Users -> CallRec]
  BY DEF TypeOK, ConnType, Known
<1>g. ASSUME NEW d \in CallRec, Go(u, d), CallKnows(d, hold'[u])
      PROVE  /\ \E e \in CallRec : call' = [call EXCEPT ![u] = e]
             /\ CallKnows(call'[u], hold'[u])
  BY <1>0, <1>g DEF Go
<1>1. CASE AcquireChannel(u)
  <2>1. PICK q \in {"check", "send", "new"} : Go(u, Moved(u, q)) /\ (q = "check" => c.kind = Health)
    BY <1>1 DEF AcquireChannel, Using
  <2>2. Moved(u, q) \in CallRec /\ CallKnows(Moved(u, q), hold'[u])
    BY <1>0, <1>1, <2>1, MovedKnows DEF AcquireChannel, At, Moved
  <2> QED BY <1>g, <2>1, <2>2
<1>2. CASE GetNewChannel(u)
  <2>1. CASE AttemptEnds(u, TRUE)
    <3>1. c.pc = "new"
      BY <1>2 DEF GetNewChannel, At
    <3>2. PICK d : /\ Go(u, d)
                   /\ \/ d = [c EXCEPT !.pc = "done", !.err = TRUE, !.refused = FALSE, !.item = 0]
                      \/ d = [c EXCEPT !.pc = "acquire", !.attempt = c.attempt + 1, !.item = 0,
                                       !.err = FALSE, !.refused = FALSE]
      BY <2>1 DEF AttemptEnds
    <3>3. d \in CallRec /\ CallKnows(d, hold'[u])
      <4> HIDE DEF c
      <4>1. CASE d = [c EXCEPT !.pc = "done", !.err = TRUE, !.refused = FALSE, !.item = 0]
        BY <1>0, <3>1, <4>1, EndsKnow
      <4>2. CASE d = [c EXCEPT !.pc = "acquire", !.attempt = c.attempt + 1, !.item = 0,
                               !.err = FALSE, !.refused = FALSE]
        BY <1>0, <3>1, <4>2, EndsKnow
      <4> QED BY <3>2, <4>1, <4>2
    <3> QED BY <1>g, <3>2, <3>3
  <2>2. CASE Go(u, Moved(u, Using(u)))
    <3>1. Moved(u, Using(u)) \in CallRec /\ CallKnows(Moved(u, Using(u)), hold'[u])
      BY <1>0, <1>2, MovedKnows DEF GetNewChannel, At, Moved, Using
    <3> QED BY <1>g, <2>2, <3>1
  <2> QED BY <1>2, <2>1, <2>2 DEF GetNewChannel
<1>3. CASE Send(u)
  <2>0. c.pc = "send"
    BY <1>3 DEF Send, At
  <2>1. CASE Go(u, Failed(c))
    BY <1>0, <1>g, <2>0, <2>1, FailedKnows
  <2>2. CASE /\ Go(u, Written([c EXCEPT !.taken[c.item + 1] = IF @ < 2 THEN @ + 1 ELSE @]))
             /\ UNCHANGED connVars
    <3>1. hold'[u] = hold[u]
      BY <2>2 DEF connVars
    <3> QED BY <1>0, <1>g, <2>0, <2>2, <3>1, SentKnows
  <2>3. CASE Go(u, Written([c EXCEPT !.refused = TRUE])) /\ c.kind.confirm
    BY <1>0, <1>g, <2>0, <2>3, SentKnows
  <2>4. CASE hold[u] = "live" /\ ConnectionLost /\ Go(u, Written([c EXCEPT !.unsent = TRUE]))
    <3>1. hold'[u] = "dead"
      BY <2>4 DEF ConnectionLost, KillChannels, Killed
    <3> QED BY <1>0, <1>g, <2>0, <2>4, <3>1, SentKnows
  <2> QED BY <1>3, <2>1, <2>2, <2>3, <2>4 DEF Send
<1>4. CASE AwaitConfirms(u)
  <2>1. CASE Acked(u) /\ Go(u, Moved(u, "release"))
    <3>1. Moved(u, "release") \in CallRec /\ CallKnows(Moved(u, "release"), hold'[u])
      BY <1>0, <1>4, <2>1, MovedKnows DEF AwaitConfirms, At, Moved, Acked
    <3> QED BY <1>g, <2>1, <3>1
  <2>2. CASE Go(u, Failed(c))
    BY <1>0, <1>4, <1>g, <2>2, FailedKnows DEF AwaitConfirms, At
  <2> QED BY <1>4, <2>1, <2>2 DEF AwaitConfirms
<1>5. CASE Release(u)
  <2>1. c.err \in BOOLEAN /\ c.pc = "release"
    BY <1>0, <1>5 DEF CallRec, Release, At
  <2>2. PICK d : /\ Go(u, d)
                 /\ \/ d = [c EXCEPT !.pc = "done", !.err = c.err, !.refused = FALSE, !.item = 0]
                    \/ /\ d = [c EXCEPT !.pc = "acquire", !.attempt = c.attempt + 1, !.item = 0,
                                        !.err = FALSE, !.refused = FALSE]
                       /\ c.err
    BY <1>5 DEF Release, AttemptEnds
  <2>3. d \in CallRec /\ CallKnows(d, hold'[u])
    BY <1>0, <2>1, <2>2, EndsKnow
  <2> QED BY <1>g, <2>2, <2>3
<1>6. CASE Check(u)
  <2>1. Moved(u, "release") \in CallRec /\ CallKnows(Moved(u, "release"), hold'[u])
    BY <1>0, <1>6, MovedKnows DEF Check, At, Moved
  <2> QED BY <1>6, <1>g, <2>1 DEF Check
<1>7. CASE Return(u)
  BY <1>7, <1>g, IdleCall DEF Return
<1>8. CASE HealthCheck(u)
  <2> DEFINE d == [Idle EXCEPT !.pc = "acquire"]
  <2>1. d \in CallRec
    BY IdleCall DEF CallRec
  <2>2. /\ d.pc = "acquire" /\ d.kind.n = 0 /\ Len(d.taken) = 0 /\ d.item = 0
        /\ ~d.err /\ ~d.refused
    BY DEF Idle, Health
  <2>3. d \in CallRec /\ CallKnows(d, hold'[u])
    BY <2>1, <2>2 DEF CallKnows
  <2> QED BY <1>8, <1>g, <2>3 DEF HealthCheck
<1>9. CASE \E k \in Kinds[u] : Publish(u, k)
  <2> PICK k \in Kinds[u] : Publish(u, k)
    BY <1>9
  <2> DEFINE t == [i \in 1 .. k.n |-> 0]
             d == [Idle EXCEPT !.pc = "acquire", !.kind = k, !.taken = t]
  <2>1. k \in [n : Nat, confirm : BOOLEAN, retries : Nat]
    BY PublisherAssumption
  <2>2. t \in Seq(0 .. 2) /\ Len(t) = k.n /\ \A i \in 1 .. k.n : t[i] = 0
    BY <2>1
  <2> HIDE DEF t
  <2>3. d \in CallRec /\ CallKnows(d, hold'[u])
    BY <2>1, <2>2, BeginKnows
  <2> QED BY <1>g, <2>3 DEF Publish, t
<1> QED BY <1>1, <1>2, <1>3, <1>4, <1>5, <1>6, <1>7, <1>8, <1>9 DEF CallStep, UserStep
-----------------------------------------------------------------------------
(* The connection and its channels *)

\* What a step of the system does to the connection.
LEMMA NextOnConn ==
  ASSUME Next
  PROVE  \/ \E u \in Users : \/ TakeChannel(u) \/ NewChannel(u) \/ CloseChannel(u)
                             \/ ReleaseChannel(u) /\ At(u, "release")
                             \/ HealthFails(u)
         \/ LoopStep \/ ConnectionLost \/ ShutdownBegins \/ ShutdownEnds
         \/ UNCHANGED connVars
BY DEF Next, UserStep, AcquireChannel, GetNewChannel, Send, AwaitConfirms, Release, Check, Return,
       HealthCheck, Publish

\* The types of the connection.
LEMMA ConnTypeKept ==
  ASSUME TypeOK, Holding, [Next]_vars
  PROVE  ConnType'
<1> USE ConnectionAssumption DEF ConnType, TypeOK
<1>1. ASSUME NEW u \in Users, TakeChannel(u) PROVE ConnType'
  <2>1. CASE ~Closed /\ channels # <<>> /\ channels' = Tail(channels)
    <3>1. channels' \in Seq({"live", "dead"}) /\ Len(channels') <= PoolSize
      BY <2>1
    <3> QED BY <1>1, <2>1, <3>1 DEF TakeChannel, Closed
  <2>2. CASE UNCHANGED <<channels, hold>>
    BY <1>1, <2>2 DEF TakeChannel
  <2> QED BY <1>1, <2>1, <2>2 DEF TakeChannel
<1>2. ASSUME NEW u \in Users, NewChannel(u) \/ CloseChannel(u) \/ HealthFails(u) PROVE ConnType'
  BY <1>2 DEF NewChannel, CloseChannel, HealthFails, Killed
<1>3. ASSUME NEW u \in Users, ReleaseChannel(u), At(u, "release") PROVE ConnType'
  <2>1. CASE ~Closed
    <3>1. hold[u] \in {"live", "dead"}
      BY <1>3, <2>1 DEF Holding, At
    <3>2. channels' \in Seq({"live", "dead"}) /\ Len(channels') <= PoolSize
      <4>1. CASE Len(channels) < PoolSize
        <5>1. channels' = Append(channels, hold[u])
          BY <1>3, <2>1, <4>1 DEF ReleaseChannel
        <5>2. channels' \in Seq({"live", "dead"}) /\ Len(channels') = Len(channels) + 1
          BY <3>1, <5>1, AppendProperties
        <5> QED BY <4>1, <5>2
      <4>2. CASE ~(Len(channels) < PoolSize)
        BY <1>3, <2>1, <4>2 DEF ReleaseChannel
      <4> QED BY <4>1, <4>2
    <3> QED BY <1>3, <2>1, <3>2 DEF ReleaseChannel
  <2>2. CASE Closed
    BY <1>3, <2>2 DEF ReleaseChannel
  <2> QED BY <2>1, <2>2
<1>4. CASE LoopStep
  <2>1. CASE SeeClose \/ SeeDone \/ BackoffEnds \/ Connect \/ Connected
    BY <2>1 DEF SeeClose, SeeDone, BackoffEnds, Connect, Connected, NextAttempt
  <2>2. CASE Dial
    <3>1. {open', unwell'} \subseteq BOOLEAN
      BY <2>2 DEF Dial
    <3>2. /\ loop' \in [pc : {"wait", "backoff", "connect", "dial", "fill", "off"},
                        attempt : Nat, filled : 0 .. PoolSize]
          /\ state' \in {"connected", "disconnected", "reconnecting", "connecting"}
      BY <2>2 DEF Dial, DialFails, NextAttempt
    <3>3. UNCHANGED <<channels, shut, hold, crashed, drops, late>>
      BY <2>2 DEF Dial
    <3> QED BY <3>1, <3>2, <3>3
  <2>3. CASE FillFails
    BY <2>3 DEF FillFails, NextAttempt
  <2>4. CASE Fill
    <3>1. channels' \in Seq({"live", "dead"}) /\ Len(channels') <= PoolSize
      BY <2>4, AppendProperties, SMTT(20) DEF Fill
    <3>2. loop' \in [pc : {"wait", "backoff", "connect", "dial", "fill", "off"},
                     attempt : Nat, filled : 0 .. PoolSize]
      BY <2>4, SMTT(20) DEF Fill
    <3> QED BY <2>4, <3>1, <3>2 DEF Fill
  <2> QED BY <1>4, <2>1, <2>2, <2>3, <2>4 DEF LoopStep
<1>5. CASE ConnectionLost
  <2>1. channels' \in Seq({"live", "dead"}) /\ Len(channels') = Len(channels)
    BY <1>5 DEF ConnectionLost, KillChannels
  <2>2. hold' \in [Users -> {"none", "live", "dead"}] /\ drops' \in Nat
    BY <1>5 DEF ConnectionLost, KillChannels, Killed
  <2>3. open' = FALSE /\ UNCHANGED <<state, loop, shut, crashed, unwell, late>>
    BY <1>5 DEF ConnectionLost
  <2> QED BY <2>1, <2>2, <2>3
<1>6. CASE ShutdownBegins
  BY <1>6 DEF ShutdownBegins
<1>7. CASE ShutdownEnds
  <2>1. open' \in BOOLEAN
    BY <1>7 DEF ShutdownEnds
  <2>2. hold' \in [Users -> {"none", "live", "dead"}]
    BY <1>7 DEF ShutdownEnds, Killed
  <2>3. channels' \in Seq({"live", "dead"}) /\ Len(channels') <= PoolSize
    <3>1. channels' = channels \/ channels' = <<>>
      BY <1>7 DEF ShutdownEnds
    <3>2. CASE channels' = <<>>
      <4>1. channels' \in Seq({"live", "dead"}) /\ Len(channels') = 0
        BY <3>2, EmptySeq
      <4> QED BY <4>1
    <3> QED BY <3>1, <3>2
  <2> QED BY <1>7, <2>1, <2>2, <2>3 DEF ShutdownEnds
<1>8. CASE UNCHANGED connVars
  BY <1>8 DEF connVars
<1> QED BY <1>1, <1>2, <1>3, <1>4, <1>5, <1>6, <1>7, <1>8, NextOnConn DEF vars

\* The loop tells the truth.
LEMMA LoopTellsKept ==
  ASSUME TypeOK, LoopTells, [Next]_vars
  PROVE  LoopTells'
<1> USE DEF TypeOK, ConnType, LoopTells, DoneClosed, Closed
<1>1. ASSUME NEW u \in Users,
             TakeChannel(u) \/ NewChannel(u) \/ CloseChannel(u) \/ ReleaseChannel(u) \/ HealthFails(u)
      PROVE  LoopTells'
  BY <1>1 DEF TakeChannel, NewChannel, CloseChannel, ReleaseChannel, HealthFails
<1>2. CASE LoopStep
  <2>1. CASE SeeClose \/ SeeDone \/ BackoffEnds \/ Connect \/ Connected
    BY <2>1 DEF SeeClose, SeeDone, BackoffEnds, Connect, Connected, NextAttempt
  <2>2. CASE Dial
    BY <2>2 DEF Dial, DialFails, NextAttempt
  <2>3. CASE FillFails
    BY <2>3 DEF FillFails, NextAttempt
  <2>4. CASE Fill
    BY <2>4 DEF Fill
  <2> QED BY <1>2, <2>1, <2>2, <2>3, <2>4 DEF LoopStep
<1>3. CASE ConnectionLost
  BY <1>3 DEF ConnectionLost
<1>4. CASE ShutdownBegins
  BY <1>4 DEF ShutdownBegins
<1>5. CASE ShutdownEnds
  BY <1>5 DEF ShutdownEnds, MuFree, ClosesConn
<1>6. CASE UNCHANGED connVars
  BY <1>6 DEF connVars
<1> QED BY <1>1, <1>2, <1>3, <1>4, <1>5, <1>6, NextOnConn DEF vars

\* Channels die with their connection, and none is made on one that is down.
LEMMA DownIsDeadKept ==
  ASSUME TypeOK, LoopTells, DownIsDead, [Next]_vars
  PROVE  DownIsDead'
<1> USE DEF TypeOK, ConnType, DownIsDead
<1>1. ASSUME NEW u \in Users, TakeChannel(u) PROVE DownIsDead'
  <2>1. CASE channels # <<>> /\ channels' = Tail(channels)
    <3>1. \A i \in 1 .. Len(channels') : channels'[i] = channels[i + 1] /\ i + 1 \in 1 .. Len(channels)
      BY <2>1
    <3>2. Head(channels) = channels[1] /\ 1 \in 1 .. Len(channels)
      BY <2>1
    <3> QED BY <1>1, <2>1, <3>1, <3>2 DEF TakeChannel
  <2>2. CASE UNCHANGED <<channels, hold>>
    BY <1>1, <2>2 DEF TakeChannel
  <2> QED BY <1>1, <2>1, <2>2 DEF TakeChannel
<1>2. ASSUME NEW u \in Users, NewChannel(u) \/ CloseChannel(u) \/ HealthFails(u) PROVE DownIsDead'
  BY <1>2 DEF NewChannel, CloseChannel, HealthFails, Killed
<1>3. ASSUME NEW u \in Users, ReleaseChannel(u) PROVE DownIsDead'
  <2>1. CASE channels' = Append(channels, hold[u]) /\ hold' = [hold EXCEPT ![u] = "none"]
    <3>1. \A i \in 1 .. Len(channels') : channels'[i] = IF i <= Len(channels) THEN channels[i] ELSE hold[u]
      BY <2>1
    <3> QED BY <1>3, <2>1, <3>1 DEF ReleaseChannel
  <2>2. CASE channels' = channels
    BY <1>3, <2>2 DEF ReleaseChannel
  <2> QED BY <1>3, <2>1, <2>2 DEF ReleaseChannel
<1>4. CASE LoopStep
  <2>1. CASE SeeClose \/ SeeDone \/ BackoffEnds \/ Connect \/ Connected \/ Dial \/ FillFails
    BY <2>1 DEF SeeClose, SeeDone, BackoffEnds, Connect, Connected, Dial, FillFails
  <2>2. CASE Fill
    BY <2>2 DEF Fill
  <2> QED BY <1>4, <2>1, <2>2 DEF LoopStep
<1>5. CASE ConnectionLost
  BY <1>5 DEF ConnectionLost, KillChannels, Killed
<1>6. CASE ShutdownBegins
  BY <1>6 DEF ShutdownBegins
<1>7. CASE ShutdownEnds
  <2>1. CASE UNCHANGED <<open, state, channels, hold>>
    BY <2>1
  <2>2. CASE channels' = <<>> /\ hold' = [u \in Users |-> Killed(hold[u])]
    BY <2>2 DEF Killed
  <2> QED BY <1>7, <2>1, <2>2 DEF ShutdownEnds
<1>8. CASE UNCHANGED connVars
  BY <1>8 DEF connVars
<1> QED BY <1>1, <1>2, <1>3, <1>4, <1>5, <1>6, <1>7, <1>8, NextOnConn DEF vars

\* What the loop, the broker and Shutdown do.
ConnStep == LoopStep \/ ConnectionLost \/ ShutdownBegins \/ ShutdownEnds

\* A call's step leaves the channels of the other users alone, or kills them.
LEMMA OthersHold ==
  ASSUME TypeOK, NEW u \in Users, CallStep(u), NEW v \in Users \ {u}
  PROVE  hold'[v] = hold[v] \/ hold'[v] = Killed(hold[v])
<1> USE DEF TypeOK, ConnType, connVars
<1>1. CASE AcquireChannel(u)
  BY <1>1 DEF AcquireChannel, TakeChannel
<1>2. CASE GetNewChannel(u)
  BY <1>2 DEF GetNewChannel, NewChannel
<1>3. CASE Send(u)
  BY <1>3 DEF Send, ConnectionLost, KillChannels
<1>4. CASE AwaitConfirms(u)
  BY <1>4 DEF AwaitConfirms, CloseChannel
<1>5. CASE Release(u)
  BY <1>5 DEF Release, ReleaseChannel
<1>6. CASE Check(u)
  BY <1>6 DEF Check, HealthFails
<1>7. CASE Return(u) \/ HealthCheck(u) \/ \E k \in Kinds[u] : Publish(u, k)
  BY <1>7 DEF Return, HealthCheck, Publish
<1> QED BY <1>1, <1>2, <1>3, <1>4, <1>5, <1>6, <1>7 DEF CallStep, UserStep

\* So do the steps of the connection.
LEMMA ConnHolds ==
  ASSUME TypeOK, ConnStep, NEW v \in Users
  PROVE  hold'[v] = hold[v] \/ hold'[v] = Killed(hold[v])
BY DEF TypeOK, ConnType, ConnStep, ConnectionLost, KillChannels, LoopStep, SeeClose, SeeDone,
       BackoffEnds, Connect, Dial, Fill, FillFails, Connected, ShutdownBegins, ShutdownEnds

\* A pool that is closed stays closed.
LEMMA ClosedStays ==
  ASSUME Next, Closed
  PROVE  Closed'
BY DEF Next, UserStep, AcquireChannel, GetNewChannel, Send, AwaitConfirms,
       Release, Check, Return, HealthCheck, Publish, TakeChannel, NewChannel, CloseChannel,
       ReleaseChannel, HealthFails, ConnectionLost, LoopStep, SeeClose, SeeDone, BackoffEnds,
       Connect, Dial, Fill, FillFails, Connected, ShutdownBegins, ShutdownEnds, connVars, Closed

\* A release ends an attempt.
LEMMA ReleasedCall ==
  ASSUME call \in [Users -> CallRec], NEW u \in Users, Release(u)
  PROVE  call'[u].pc \in {"done", "acquire"}
<1>1. PICK c \in {[call[u] EXCEPT !.pc = "done", !.err = call[u].err, !.refused = FALSE, !.item = 0],
                  [call[u] EXCEPT !.pc = "acquire", !.attempt = @ + 1, !.item = 0,
                                  !.err = FALSE, !.refused = FALSE]} :
        call' = [call EXCEPT ![u] = c]
  BY Zenon DEF Release, AttemptEnds, Go
<1>2. c.pc \in {"done", "acquire"}
  BY DEF CallRec
<1> QED BY <1>1, <1>2

\* The call of a user that takes a step has its channel when it should.
LEMMA OwnHold ==
  ASSUME TypeOK, Holding, ~Closed, NEW u \in Users, CallStep(u)
  PROVE  hold'[u] # "none" <=> call'[u].pc \in {"send", "confirm", "check", "release"}
<1>0. /\ hold \in [Users -> {"none", "live", "dead"}] /\ call \in [Users -> CallRec]
      /\ call[u] \in CallRec
      /\ hold[u] # "none" <=> call[u].pc \in {"send", "confirm", "check", "release"}
  BY DEF TypeOK, ConnType, Holding
<1>e. ASSUME NEW err, AttemptEnds(u, err) PROVE call'[u].pc \in {"done", "acquire"}
  <2>1. PICK c \in {[call[u] EXCEPT !.pc = "done", !.err = err, !.refused = FALSE, !.item = 0],
                    [call[u] EXCEPT !.pc = "acquire", !.attempt = @ + 1, !.item = 0,
                                    !.err = FALSE, !.refused = FALSE]} :
          call' = [call EXCEPT ![u] = c]
    BY <1>e, Zenon DEF AttemptEnds, Go
  <2>2. c.pc \in {"done", "acquire"}
    BY <1>0 DEF CallRec
  <2> QED BY <1>0, <2>1, <2>2
<1>m. ASSUME NEW q, Go(u, Moved(u, q)) PROVE call'[u].pc = q
  BY <1>0, <1>m DEF Moved, Go, CallRec
<1>f. ASSUME Go(u, Failed(call[u])) PROVE call'[u].pc = "release"
  BY <1>0, <1>f DEF Failed, Go, CallRec
<1>1. CASE AcquireChannel(u)
  <2>1. PICK q : q = (IF hold'[u] = "live" THEN Using(u) ELSE "new") /\ Go(u, Moved(u, q))
    BY <1>1 DEF AcquireChannel
  <2>2. hold'[u] \in {"none", "live"}
    BY <1>0, <1>1 DEF AcquireChannel, TakeChannel, At
  <2> QED BY <1>m, <2>1, <2>2 DEF Using
<1>2. CASE GetNewChannel(u)
  <2>1. hold'[u] \in {"none", "live"}
    BY <1>0, <1>2 DEF GetNewChannel, NewChannel
  <2>2. CASE hold'[u] = "live"
    BY <1>2, <1>m, <2>2 DEF GetNewChannel, Using
  <2>3. CASE hold'[u] # "live"
    BY <1>2, <1>e, <2>1, <2>3 DEF GetNewChannel
  <2> QED BY <2>2, <2>3
<1>3. CASE Send(u)
  <2>1. hold[u] # "none" /\ hold'[u] # "none"
    BY <1>0, <1>3 DEF Send, ConnectionLost, KillChannels, Killed, connVars, At
  <2>2. call'[u].pc \in {"send", "confirm", "release"}
    <3> DEFINE c == call[u]
    <3>1. CASE Go(u, Failed(c))
      BY <1>f, <3>1
    <3>2. CASE Go(u, Written([c EXCEPT !.taken[c.item + 1] = IF @ < 2 THEN @ + 1 ELSE @]))
      BY <1>0, <3>2 DEF Written, Go, CallRec
    <3>3. CASE Go(u, Written([c EXCEPT !.refused = TRUE]))
      BY <1>0, <3>3 DEF Written, Go, CallRec
    <3>4. CASE Go(u, Written([c EXCEPT !.unsent = TRUE]))
      BY <1>0, <3>4 DEF Written, Go, CallRec
    <3> QED BY <1>3, <3>1, <3>2, <3>3, <3>4 DEF Send
  <2> QED BY <2>1, <2>2
<1>4. CASE AwaitConfirms(u)
  <2>1. hold'[u] # "none"
    BY <1>0, <1>4 DEF AwaitConfirms, CloseChannel, Killed, At
  <2> QED BY <1>4, <1>m, <1>f, <2>1 DEF AwaitConfirms
<1>5. CASE Release(u)
  <2>1. hold'[u] = "none"
    BY <1>0, <1>5 DEF Release, ReleaseChannel
  <2> QED BY <1>5, <1>e, <2>1 DEF Release
<1>6. CASE Check(u)
  <2>1. hold'[u] # "none"
    BY <1>0, <1>6 DEF Check, HealthFails, Killed, At, connVars
  <2> QED BY <1>6, <1>m, <2>1 DEF Check
<1>7. CASE Return(u)
  BY <1>0, <1>7 DEF Return, Go, Idle, At, connVars
<1>8. CASE HealthCheck(u) \/ \E k \in Kinds[u] : Publish(u, k)
  BY <1>0, <1>8, ZenonT(40) DEF HealthCheck, Publish, Go, Idle, At, connVars
<1> QED BY <1>1, <1>2, <1>3, <1>4, <1>5, <1>6, <1>7, <1>8 DEF CallStep, UserStep

\* Each step, or none, keeps the channels with the calls that use them, and
\* what these know.
LEMMA CallsKept ==
  ASSUME TypeOK, Holding, Known, [Next]_vars
  PROVE  call' \in [Users -> CallRec] /\ Holding' /\ Known'
<1>0. call \in [Users -> CallRec]
  BY DEF TypeOK
<1>1. ASSUME NEW u \in Users, CallStep(u), Next PROVE call' \in [Users -> CallRec] /\ Holding' /\ Known'
  <2>1. PICK c \in CallRec : call' = [call EXCEPT ![u] = c] /\ CallKnows(call'[u], hold'[u])
    BY <1>1, CallStepKnows
  <2>2. \A v \in Users \ {u} : call'[v] = call[v] /\ hold'[v] \in {hold[v], Killed(hold[v])}
    BY <1>0, <1>1, <2>1, OthersHold
  <2>3. Known'
    BY <2>1, <2>2, KilledKnows DEF Known, Killed
  <2>4. Holding'
    BY <1>1, <2>2, OwnHold, ClosedStays DEF Holding, Killed
  <2> QED BY <1>0, <2>1, <2>3, <2>4
<1>2. ASSUME ConnStep, Next, UNCHANGED call PROVE call' \in [Users -> CallRec] /\ Holding' /\ Known'
  <2>1. \A v \in Users : hold'[v] \in {hold[v], Killed(hold[v])}
    BY <1>2, ConnHolds
  <2>2. Known'
    BY <1>2, <2>1, KilledKnows DEF Known, Killed
  <2>3. Holding'
    BY <1>2, <2>1, ClosedStays DEF Holding, Killed
  <2> QED BY <1>0, <1>2, <2>2, <2>3
<1>3. CASE UNCHANGED vars
  BY <1>0, <1>3 DEF vars, connVars, Known, Holding, Closed
<1> QED BY <1>1, <1>2, <1>3 DEF Next, CallStep, ConnStep
-----------------------------------------------------------------------------
(* The pool *)

\* The live channels of a pool are finitely many.
LEMMA LiveFinite ==
  ASSUME NEW s \in Seq({"live", "dead"})
  PROVE  /\ IsFiniteSet(LiveIn(s)) /\ Cardinality(LiveIn(s)) \in Nat
         /\ Cardinality(LiveIn(s)) = Len(s) => \A i \in 1 .. Len(s) : s[i] = "live"
<1>1. Len(s) \in Nat
  OBVIOUS
<1>2. IsFiniteSet(1 .. Len(s)) /\ Cardinality(1 .. Len(s)) = Len(s)
  BY <1>1, FS_Interval, SMTT(20)
<1>3. LiveIn(s) \in SUBSET (1 .. Len(s))
  BY DEF LiveIn
<1>4. /\ IsFiniteSet(LiveIn(s))
      /\ Cardinality(1 .. Len(s)) = Cardinality(LiveIn(s)) => 1 .. Len(s) = LiveIn(s)
  BY <1>2, <1>3, FS_Subset
<1>5. Cardinality(LiveIn(s)) \in Nat
  BY <1>4, FS_CardinalityType
<1>6. 1 .. Len(s) = LiveIn(s) => \A i \in 1 .. Len(s) : s[i] = "live"
  BY DEF LiveIn
<1> QED BY <1>2, <1>4, <1>5, <1>6

\* What the head of the pool takes with it.
LEMMA LiveTail ==
  ASSUME NEW s \in Seq({"live", "dead"}), s # <<>>
  PROVE  Cardinality(LiveIn(Tail(s))) <= Cardinality(LiveIn(s)) - (IF Head(s) = "live" THEN 1 ELSE 0)
<1>1. /\ Tail(s) \in Seq({"live", "dead"}) /\ Len(Tail(s)) = Len(s) - 1 /\ Len(s) \in Nat \ {0}
      /\ \A i \in 1 .. Len(Tail(s)) : Tail(s)[i] = s[i + 1]
      /\ Head(s) = s[1]
  OBVIOUS
<1> DEFINE T == LiveIn(s) \ {1}
           f == [i \in LiveIn(Tail(s)) |-> i + 1]
<1>2. IsFiniteSet(T) /\ Cardinality(T) = Cardinality(LiveIn(s)) - (IF 1 \in LiveIn(s) THEN 1 ELSE 0)
  BY LiveFinite, FS_RemoveElement
<1>3. f \in Injection(LiveIn(Tail(s)), T)
  <2>1. \A i \in LiveIn(Tail(s)) : i \in Nat \ {0} /\ i + 1 \in T
    BY <1>1 DEF LiveIn
  <2> QED BY <2>1 DEF Injection, IsInjective
<1>4. Cardinality(LiveIn(Tail(s))) <= Cardinality(T)
  BY <1>2, <1>3, FS_Injection
<1>5. 1 \in LiveIn(s) <=> Head(s) = "live"
  BY <1>1 DEF LiveIn
<1> QED BY <1>2, <1>4, <1>5

\* What a channel adds to the pool.
LEMMA LiveAppend ==
  ASSUME NEW s \in Seq({"live", "dead"}), NEW x \in {"live", "dead"}
  PROVE  Cardinality(LiveIn(Append(s, x))) = Cardinality(LiveIn(s)) + (IF x = "live" THEN 1 ELSE 0)
<1>1. LiveIn(Append(s, x)) = IF x = "live" THEN LiveIn(s) \cup {Len(s) + 1} ELSE LiveIn(s)
  BY DEF LiveIn
<1>2. Len(s) + 1 \notin LiveIn(s)
  BY DEF LiveIn
<1>3. Cardinality(LiveIn(s) \cup {Len(s) + 1}) = Cardinality(LiveIn(s)) + 1
  BY <1>2, LiveFinite, FS_AddElement
<1>4. Cardinality(LiveIn(s)) \in Nat
  BY LiveFinite
<1> QED BY <1>1, <1>3, <1>4

\* The sets of users that the counts are about.
LEMMA UsersFinite ==
  ASSUME NEW S \in SUBSET Users
  PROVE  /\ IsFiniteSet(S) /\ Cardinality(S) \in Nat /\ Cardinality(Users) \in Nat
         /\ Cardinality(S) <= Cardinality(Users)
         /\ \A T \in SUBSET S : Cardinality(T) <= Cardinality(S) /\ Cardinality(T) \in Nat
         /\ \A u \in Users \ S : Cardinality(S \cup {u}) = Cardinality(S) + 1
         /\ \A u \in S : Cardinality(S \ {u}) = Cardinality(S) - 1
<1>1. IsFiniteSet(S) /\ Cardinality(S) <= Cardinality(Users)
  BY ConnectionAssumption, FS_Subset
<1>2. Cardinality(S) \in Nat /\ Cardinality(Users) \in Nat
  BY <1>1, ConnectionAssumption, FS_CardinalityType
<1>3. ASSUME NEW T \in SUBSET S PROVE Cardinality(T) <= Cardinality(S) /\ Cardinality(T) \in Nat
  BY <1>1, FS_Subset, FS_CardinalityType
<1>4. ASSUME NEW u \in Users \ S PROVE Cardinality(S \cup {u}) = Cardinality(S) + 1
  BY <1>1, FS_AddElement
<1>5. ASSUME NEW u \in S PROVE Cardinality(S \ {u}) = Cardinality(S) - 1
  BY <1>1, FS_RemoveElement
<1> QED BY <1>1, <1>2, <1>3, <1>4, <1>5

PoolLoad == Len(channels) + Cardinality(Busy)
LiveLoad == Cardinality(LiveIn(channels)) + Cardinality(LiveHeld)

\* A call adds to neither count, except that a user that finds the pool empty
\* becomes busy and, when connect is not under way, makes a channel.
LEMMA CallCounts ==
  ASSUME TypeOK, Holding, Known, ~Closed', NEW u \in Users, CallStep(u), Next
  PROVE  /\ PoolLoad' <= PoolLoad \/ PoolLoad' <= Cardinality(Users)
         /\ LiveLoad' <= LiveLoad \/ loop.pc # "fill"
         /\ UNCHANGED <<loop, shut>>
         /\ UNCHANGED <<open, drops>> \/ ConnectionLost
<1>0. /\ hold \in [Users -> {"none", "live", "dead"}] /\ call \in [Users -> CallRec]
      /\ channels \in Seq({"live", "dead"}) /\ Len(channels) <= PoolSize /\ Len(channels) \in Nat
      /\ ~Closed
      /\ \A v \in Users : hold[v] # "none" <=> call[v].pc \in {"send", "confirm", "check", "release"}
  BY ClosedStays DEF TypeOK, ConnType, Holding
<1>1. PICK c \in CallRec : call' = [call EXCEPT ![u] = c]
  BY CallStepKnows
<1>2. /\ \A v \in Users \ {u} : call'[v] = call[v] /\ hold'[v] \in {hold[v], Killed(hold[v])}
      /\ call'[u] = c
  BY <1>0, <1>1, OthersHold
<1>3. /\ {Busy, LiveHeld, Busy', LiveHeld'} \subseteq SUBSET Users
      /\ \A v \in Users \ {u} : (v \in Busy' <=> v \in Busy) /\ (v \in LiveHeld' => v \in LiveHeld)
  BY <1>0, <1>2 DEF Busy, LiveHeld, Killed
<1>4. /\ Cardinality(Busy) \in Nat /\ Cardinality(LiveHeld) \in Nat
      /\ Cardinality(Busy') \in Nat /\ Cardinality(LiveHeld') \in Nat
      /\ Cardinality(LiveIn(channels)) \in Nat
  BY <1>0, <1>3, UsersFinite, LiveFinite
<1>5. (u \in Busy \/ u \notin Busy') => Cardinality(Busy') <= Cardinality(Busy)
  <2>1. (u \in Busy \/ u \notin Busy') => Busy' \subseteq Busy
    BY <1>3
  <2> QED BY <1>3, <2>1, UsersFinite
<1>6. (u \in LiveHeld \/ u \notin LiveHeld') => Cardinality(LiveHeld') <= Cardinality(LiveHeld)
  <2>1. (u \in LiveHeld \/ u \notin LiveHeld') => LiveHeld' \subseteq LiveHeld
    BY <1>3
  <2> QED BY <1>3, <2>1, UsersFinite
<1>7. CASE AcquireChannel(u)
  <2>1. call[u].pc = "acquire" /\ hold[u] = "none" /\ u \notin Busy /\ u \notin LiveHeld
    BY <1>0, <1>7 DEF AcquireChannel, At, Busy, LiveHeld
  <2>2. UNCHANGED <<open, loop, shut, drops>>
    BY <1>7 DEF AcquireChannel, TakeChannel
  <2>3. Cardinality(Busy') <= Cardinality(Busy) + 1
    <3>1. Busy' \subseteq Busy \cup {u}
      BY <1>3
    <3>2. Cardinality(Busy \cup {u}) = Cardinality(Busy) + 1 /\ Busy \cup {u} \in SUBSET Users
      BY <1>3, <2>1, UsersFinite
    <3> QED BY <3>1, <3>2, UsersFinite
  <2>4. CASE channels # <<>> /\ channels' = Tail(channels)
             /\ hold' = [hold EXCEPT ![u] = IF Head(channels) = "live" THEN "live" ELSE "none"]
    <3>1. Len(channels') = Len(channels) - 1
      BY <1>0, <2>4
    <3>2. /\ Cardinality(LiveIn(channels')) <= Cardinality(LiveIn(channels)) - (IF Head(channels) = "live" THEN 1 ELSE 0)
          /\ Cardinality(LiveIn(channels')) \in Nat
      <4>1. channels' \in Seq({"live", "dead"})
        BY <1>0, <2>4
      <4> QED BY <1>0, <2>4, <4>1, LiveTail, LiveFinite
    <3>3. Cardinality(LiveHeld') <= Cardinality(LiveHeld) + (IF Head(channels) = "live" THEN 1 ELSE 0)
      <4>1. CASE Head(channels) = "live"
        <5>1. LiveHeld' \subseteq LiveHeld \cup {u}
          BY <1>3
        <5>2. Cardinality(LiveHeld \cup {u}) = Cardinality(LiveHeld) + 1 /\ LiveHeld \cup {u} \in SUBSET Users
          BY <1>3, <2>1, UsersFinite
        <5> QED BY <4>1, <5>1, <5>2, UsersFinite
      <4>2. CASE Head(channels) # "live"
        <5>1. u \notin LiveHeld'
          BY <1>0, <2>4, <4>2 DEF LiveHeld
        <5> QED BY <1>4, <1>6, <4>2, <5>1
      <4> QED BY <4>1, <4>2
    <3>4. LiveLoad' <= LiveLoad
      BY <1>4, <3>2, <3>3 DEF LiveLoad
    <3>5. PoolLoad' <= PoolLoad
      BY <1>0, <1>4, <2>3, <3>1 DEF PoolLoad
    <3> QED BY <2>2, <3>4, <3>5
  <2>5. CASE channels = <<>> /\ UNCHANGED <<channels, hold>>
    <3>1. Len(channels') = 0 /\ LiveHeld' = LiveHeld
      BY <1>0, <2>5 DEF LiveHeld
    <3>2. Cardinality(Busy') <= Cardinality(Users)
      BY <1>3, UsersFinite
    <3> QED BY <1>4, <2>2, <2>5, <3>1, <3>2 DEF PoolLoad, LiveLoad
  <2> QED BY <1>0, <1>7, <2>4, <2>5 DEF AcquireChannel, TakeChannel
<1>8. CASE GetNewChannel(u)
  <2>1. u \in Busy /\ loop.pc # "fill"
    BY <1>8 DEF GetNewChannel, NewChannel, GetsConn, MuFree, Busy, At
  <2>2. UNCHANGED <<open, channels, loop, shut, drops>>
    BY <1>8 DEF GetNewChannel, NewChannel
  <2> QED BY <1>0, <1>4, <1>5, <2>1, <2>2 DEF PoolLoad
<1>9. CASE Release(u)
  <2>1. hold[u] \in {"live", "dead"} /\ u \in Busy
    BY <1>0, <1>9 DEF Release, At, Busy
  <2>2. /\ UNCHANGED <<open, loop, shut, drops>> /\ hold'[u] = "none"
        /\ channels' = IF Len(channels) < PoolSize THEN Append(channels, hold[u]) ELSE channels
    BY <1>0, <1>9 DEF Release, ReleaseChannel
  <2>3. c.pc \notin {"new", "send", "confirm", "check", "release"}
    BY <1>0, <1>2, <1>9, <2>2, OwnHold, ReleasedCall
  <2>4. u \notin Busy' /\ u \notin LiveHeld'
    BY <1>2, <2>2, <2>3 DEF Busy, LiveHeld
  <2>5. Cardinality(Busy') <= Cardinality(Busy) - 1
    <3>1. Busy' \subseteq Busy \ {u} /\ Busy \ {u} \in SUBSET Users
      BY <1>3, <2>4
    <3>2. Cardinality(Busy \ {u}) = Cardinality(Busy) - 1
      BY <1>3, <2>1, UsersFinite
    <3> QED BY <3>1, <3>2, UsersFinite
  <2>6. Cardinality(LiveHeld') <= Cardinality(LiveHeld) - (IF hold[u] = "live" THEN 1 ELSE 0)
    <3>1. CASE hold[u] = "live"
      <4>1. LiveHeld' \subseteq LiveHeld \ {u} /\ LiveHeld \ {u} \in SUBSET Users /\ u \in LiveHeld
        BY <1>3, <2>4, <3>1 DEF LiveHeld
      <4>2. Cardinality(LiveHeld \ {u}) = Cardinality(LiveHeld) - 1
        BY <1>3, <4>1, UsersFinite
      <4> QED BY <3>1, <4>1, <4>2, UsersFinite
    <3>2. CASE hold[u] # "live"
      BY <1>4, <1>6, <2>4, <3>2
    <3> QED BY <3>1, <3>2
  <2>7. /\ Len(channels') <= Len(channels) + 1 /\ Len(channels') \in Nat
        /\ Cardinality(LiveIn(channels')) <= Cardinality(LiveIn(channels)) + (IF hold[u] = "live" THEN 1 ELSE 0)
        /\ Cardinality(LiveIn(channels')) \in Nat
    <3>1. CASE channels' = channels
      BY <1>0, <1>4, <3>1
    <3>2. CASE channels' = Append(channels, hold[u])
      <4>1. Len(channels') = Len(channels) + 1
        BY <1>0, <2>1, <3>2
      <4> QED BY <1>0, <1>4, <2>1, <3>2, <4>1, LiveAppend
    <3> QED BY <2>2, <3>1, <3>2
  <2> QED BY <1>0, <1>4, <2>2, <2>5, <2>6, <2>7, SMTT(20) DEF PoolLoad, LiveLoad
<1>10. CASE Send(u) \/ AwaitConfirms(u) \/ Check(u)
  <2>1. u \in Busy
    BY <1>0, <1>10 DEF Send, AwaitConfirms, Check, At, Busy
  <2>2. UNCHANGED <<loop, shut>> /\ (UNCHANGED <<open, channels, drops>> \/ ConnectionLost)
    BY <1>10 DEF Send, AwaitConfirms, Check, CloseChannel, HealthFails, ConnectionLost, connVars
  <2>3. Len(channels') = Len(channels) /\ LiveIn(channels') \subseteq LiveIn(channels)
    BY <1>0, <2>2 DEF ConnectionLost, KillChannels, LiveIn
  <2>4. Cardinality(LiveIn(channels')) <= Cardinality(LiveIn(channels)) /\ Cardinality(LiveIn(channels')) \in Nat
    BY <1>0, <2>3, LiveFinite, FS_Subset, FS_CardinalityType
  <2>5. u \in LiveHeld \/ u \notin LiveHeld'
    BY <1>0, <1>10 DEF Send, AwaitConfirms, Check, CloseChannel, HealthFails, ConnectionLost,
                       KillChannels, Killed, connVars, LiveHeld
  <2> QED BY <1>0, <1>4, <1>5, <1>6, <2>1, <2>2, <2>3, <2>4, <2>5 DEF PoolLoad, LiveLoad
<1>11. CASE Return(u) \/ HealthCheck(u) \/ \E k \in Kinds[u] : Publish(u, k)
  <2>1. UNCHANGED connVars
    BY <1>11 DEF Return, HealthCheck, Publish
  <2>2. c.pc # "new"
    <3>1. CASE Return(u)
      BY <1>0, <1>2, <3>1 DEF Return, Go, Idle
    <3>2. CASE HealthCheck(u)
      BY <1>0, <1>2, <3>2 DEF HealthCheck, Go, Idle
    <3>3. CASE \E k \in Kinds[u] : Publish(u, k)
      BY <1>0, <1>2, <3>3 DEF Publish, Go, Idle
    <3> QED BY <1>11, <3>1, <3>2, <3>3
  <2>3. (u \in Busy \/ u \notin Busy') /\ (u \in LiveHeld \/ u \notin LiveHeld')
    BY <1>2, <2>1, <2>2 DEF Busy, LiveHeld, connVars
  <2> QED BY <1>0, <1>4, <1>5, <1>6, <2>1, <2>3 DEF PoolLoad, LiveLoad, connVars
<1> QED BY <1>7, <1>8, <1>9, <1>10, <1>11 DEF CallStep, UserStep

\* Up to the end of the first reconnect.
Early == drops <= 1 /\ loop.pc # "off" /\ ~(drops = 1 /\ loop.pc = "wait" /\ open)

\* The counts are natural numbers.
LEMMA Loads ==
  ASSUME TypeOK
  PROVE  /\ LiveLoad \in Nat /\ PoolLoad \in Nat /\ Cardinality(Users) \in Nat
         /\ loop.filled \in Nat /\ PoolSize \in Nat
<1>1. Busy \in SUBSET Users /\ LiveHeld \in SUBSET Users
  BY DEF Busy, LiveHeld
<1>2. Cardinality(Busy) \in Nat /\ Cardinality(LiveHeld) \in Nat /\ Cardinality(Users) \in Nat
  BY <1>1, UsersFinite
<1>3. Cardinality(LiveIn(channels)) \in Nat /\ Len(channels) \in Nat
  BY LiveFinite DEF TypeOK, ConnType
<1>4. loop.filled \in Nat /\ PoolSize \in Nat
  BY ConnectionAssumption DEF TypeOK, ConnType
<1> QED BY <1>2, <1>3, <1>4 DEF LiveLoad, PoolLoad

\* While the connection is down nothing is live.
LEMMA DownCounts ==
  ASSUME TypeOK, DownIsDead, ~open
  PROVE  LiveLoad = 0
<1>1. LiveIn(channels) = {} /\ LiveHeld = {}
  BY DEF DownIsDead, LiveIn, LiveHeld, TypeOK, ConnType
<1> QED BY <1>1, FS_EmptySet DEF LiveLoad

\* What the steps of the connection add to the counts is what they fill in.
LEMMA ConnCounts ==
  ASSUME TypeOK, LoopTells, DownIsDead, TypeOK', DownIsDead', ~Closed, ~Closed',
         ConnStep, UNCHANGED call
  PROVE  /\ loop'.pc = "fill" =>
              \/ LiveLoad' = 0
              \/ loop.pc = "fill" /\ loop'.filled = loop.filled /\ LiveLoad' = LiveLoad
              \/ loop.pc = "fill" /\ loop'.filled = loop.filled + 1 /\ LiveLoad' = LiveLoad + 1
         /\ Early' =>
              \/ Early /\ loop'.filled = loop.filled /\ PoolLoad' = PoolLoad
              \/ Early /\ loop'.filled = loop.filled + 1 /\ PoolLoad' = PoolLoad + 1
<1>0. /\ hold \in [Users -> {"none", "live", "dead"}] /\ drops \in Nat
      /\ channels \in Seq({"live", "dead"}) /\ Len(channels) \in Nat
      /\ loop \in [pc : {"wait", "backoff", "connect", "dial", "fill", "off"},
                   attempt : Nat, filled : 0 .. PoolSize]
      /\ LiveLoad \in Nat /\ PoolLoad \in Nat
  BY Loads DEF TypeOK, ConnType
<1>s. ASSUME UNCHANGED <<channels, hold>> PROVE LiveLoad' = LiveLoad /\ PoolLoad' = PoolLoad
  BY <1>s DEF LiveLoad, PoolLoad, LiveHeld, Busy
<1>1. CASE SeeClose \/ SeeDone \/ BackoffEnds \/ Connect \/ ShutdownBegins
  <2>1. UNCHANGED <<channels, hold, open, drops>>
    BY <1>1 DEF SeeClose, SeeDone, BackoffEnds, Connect, ShutdownBegins
  <2>2. /\ loop'.pc = "fill" => loop.pc = "fill" /\ loop'.filled = loop.filled
        /\ Early' => Early /\ loop'.filled = loop.filled
    <3>1. CASE SeeClose
      BY <1>0, <3>1 DEF SeeClose, NextAttempt, LoopTells, Early
    <3>2. CASE SeeDone
      BY <1>0, <3>2 DEF SeeDone, Early
    <3>3. CASE BackoffEnds \/ Connect
      BY <1>0, <3>3 DEF BackoffEnds, Connect, Early
    <3>4. CASE ShutdownBegins
      BY <1>0, <3>4 DEF ShutdownBegins, Early
    <3> QED BY <1>1, <3>1, <3>2, <3>3, <3>4
  <2> QED BY <1>s, <2>1, <2>2
<1>2. CASE Dial
  <2>1. UNCHANGED <<channels, hold, drops>> /\ loop.pc = "dial" /\ ~open /\ loop.filled = 0
    BY <1>2 DEF Dial, LoopTells
  <2>2. LiveLoad' = LiveLoad /\ PoolLoad' = PoolLoad /\ LiveLoad = 0
    BY <1>s, <2>1, DownCounts
  <2>3. loop'.filled = 0
    BY <1>0, <1>2, <2>1 DEF Dial, DialFails, NextAttempt
  <2>4. Early' => Early
    BY <2>1 DEF Early
  <2> QED BY <2>1, <2>2, <2>3, <2>4
<1>3. CASE Fill
  <2>1. /\ loop.pc = "fill" /\ loop'.pc = "fill" /\ loop'.filled = loop.filled + 1
        /\ channels' = Append(channels, "live") /\ UNCHANGED <<open, drops, hold>>
    BY <1>0, <1>3 DEF Fill
  <2>2. LiveHeld' = LiveHeld /\ Busy' = Busy
    BY <2>1 DEF LiveHeld, Busy
  <2>3. Cardinality(LiveIn(channels')) = Cardinality(LiveIn(channels)) + 1
        /\ Len(channels') = Len(channels) + 1
    BY <1>0, <2>1, LiveAppend, AppendProperties
  <2>4. /\ Cardinality(LiveIn(channels)) \in Nat
        /\ Cardinality(LiveHeld) \in Nat /\ Cardinality(Busy) \in Nat
    <3>1. LiveHeld \in SUBSET Users /\ Busy \in SUBSET Users
      BY DEF LiveHeld, Busy
    <3> QED BY <1>0, <3>1, LiveFinite, UsersFinite
  <2>5. LiveLoad' = LiveLoad + 1 /\ PoolLoad' = PoolLoad + 1
    <3>1. LiveLoad' = Cardinality(LiveIn(channels')) + Cardinality(LiveHeld)
      BY <2>2 DEF LiveLoad
    <3>2. PoolLoad' = Len(channels') + Cardinality(Busy)
      BY <2>2 DEF PoolLoad
    <3>3. Len(channels) \in Nat
      BY <1>0
    <3> QED BY <2>3, <2>4, <3>1, <3>2, <3>3 DEF LiveLoad, PoolLoad
  <2>6. Early' => Early
    BY <2>1 DEF Early
  <2> QED BY <2>1, <2>5, <2>6
<1>4. CASE FillFails \/ Connected
  <2>1. ~Early' /\ loop'.pc # "fill"
    BY <1>0, <1>4 DEF FillFails, Connected, NextAttempt, Early, LoopTells
  <2> QED BY <2>1
<1>5. CASE ConnectionLost
  <2>1. LiveLoad' = 0
    <3>1. ~open'
      BY <1>5 DEF ConnectionLost
    <3>2. LiveIn(channels') = {} /\ LiveHeld' = {}
      BY <3>1 DEF DownIsDead, LiveIn, LiveHeld, TypeOK, ConnType
    <3> QED BY <3>2, FS_EmptySet DEF LiveLoad
  <2>2. Early' => Early
    BY <1>0, <1>5 DEF ConnectionLost, Early
  <2>3. Len(channels') = Len(channels) /\ UNCHANGED loop
    BY <1>0, <1>5 DEF ConnectionLost, KillChannels
  <2>4. Busy' = Busy
    BY <1>0, <1>5 DEF ConnectionLost, KillChannels, Killed, Busy
  <2> QED BY <2>1, <2>2, <2>3, <2>4 DEF PoolLoad
<1>6. CASE ShutdownEnds
  <2>1. UNCHANGED <<channels, hold, open, drops, loop>>
    BY <1>6 DEF ShutdownEnds, Closed
  <2> QED BY <1>s, <2>1 DEF Early
<1> QED BY <1>1, <1>2, <1>3, <1>4, <1>5, <1>6 DEF ConnStep, LoopStep

\* The counts of the pool.
LEMMA CountedKept ==
  ASSUME IInv, [Next]_vars, TypeOK', DownIsDead'
  PROVE  Counted'
<1> DEFINE Within == \/ PoolLoad <= loop.filled + PoolSize
                     \/ PoolLoad <= loop.filled + Cardinality(Users)
<1>1. /\ TypeOK /\ LoopTells /\ DownIsDead /\ Holding /\ Known
      /\ ~Closed => /\ loop.pc = "fill" => LiveLoad <= loop.filled
                    /\ Early => Within
  BY DEF IInv, Counted, LiveLoad, PoolLoad, Early
<1>2. SUFFICES ASSUME ~Closed'
               PROVE  /\ loop'.pc = "fill" => LiveLoad' <= loop'.filled
                      /\ Early' => Within'
  BY DEF Counted, LiveLoad, PoolLoad, Early
<1>3. /\ LiveLoad \in Nat /\ PoolLoad \in Nat /\ Cardinality(Users) \in Nat
      /\ loop.filled \in Nat /\ PoolSize \in Nat /\ drops \in Nat
  BY <1>1, Loads DEF TypeOK, ConnType
<1>4. /\ LiveLoad' \in Nat /\ PoolLoad' \in Nat /\ loop'.filled \in Nat
  <2>1. Busy' \in SUBSET Users /\ LiveHeld' \in SUBSET Users
    BY DEF Busy, LiveHeld
  <2>2. Cardinality(Busy') \in Nat /\ Cardinality(LiveHeld') \in Nat
    BY <2>1, UsersFinite
  <2>3. Cardinality(LiveIn(channels')) \in Nat /\ Len(channels') \in Nat
    BY LiveFinite DEF TypeOK, ConnType
  <2>4. loop'.filled \in Nat
    BY ConnectionAssumption DEF TypeOK, ConnType
  <2> QED BY <2>2, <2>3, <2>4 DEF LiveLoad, PoolLoad
<1>5. ASSUME NEW u \in Users, CallStep(u), Next
      PROVE  /\ loop'.pc = "fill" => LiveLoad' <= loop'.filled
             /\ Early' => Within'
  <2>1. /\ PoolLoad' <= PoolLoad \/ PoolLoad' <= Cardinality(Users)
        /\ LiveLoad' <= LiveLoad \/ loop.pc # "fill"
        /\ UNCHANGED <<loop, shut>> /\ ~Closed
        /\ UNCHANGED <<open, drops>> \/ ConnectionLost
    BY <1>1, <1>2, <1>5, CallCounts, ClosedStays
  <2>2. Early' => Early
    BY <1>1, <1>3, <2>1 DEF Early, ConnectionLost
  <2> QED BY <1>1, <1>3, <1>4, <2>1, <2>2
<1>6. ASSUME ConnStep, Next, UNCHANGED call
      PROVE  /\ loop'.pc = "fill" => LiveLoad' <= loop'.filled
             /\ Early' => Within'
  <2>1. ~Closed
    BY <1>2, <1>6, ClosedStays
  <2>2. /\ loop'.pc = "fill" =>
             \/ LiveLoad' = 0
             \/ loop.pc = "fill" /\ loop'.filled = loop.filled /\ LiveLoad' = LiveLoad
             \/ loop.pc = "fill" /\ loop'.filled = loop.filled + 1 /\ LiveLoad' = LiveLoad + 1
        /\ Early' =>
             \/ Early /\ loop'.filled = loop.filled /\ PoolLoad' = PoolLoad
             \/ Early /\ loop'.filled = loop.filled + 1 /\ PoolLoad' = PoolLoad + 1
    BY <1>1, <1>2, <1>6, <2>1, ConnCounts
  <2> QED BY <1>1, <1>3, <1>4, <2>1, <2>2
<1>7. CASE UNCHANGED vars
  <2>1. UNCHANGED <<LiveLoad, PoolLoad, loop>> /\ (Early' <=> Early) /\ ~Closed
    BY <1>2, <1>7 DEF vars, connVars, LiveLoad, PoolLoad, LiveHeld, Busy, Early, Closed
  <2> QED BY <1>1, <2>1
<1> QED BY <1>5, <1>6, <1>7 DEF Next, CallStep, ConnStep
-----------------------------------------------------------------------------
(* The theorems *)

\* NewRabbitMQ returns with the pool filled, and nobody calls yet.
LEMMA InitInv == Init => IInv
<1> SUFFICES ASSUME Init PROVE IInv
  OBVIOUS
<1> USE ConnectionAssumption DEF Init, ConnInit
<1>1. channels \in Seq({"live", "dead"}) /\ Len(channels) = PoolSize
  OBVIOUS
<1>2. TypeOK
  <2>1. {open, crashed, unwell, late} \subseteq BOOLEAN /\ drops \in Nat
    OBVIOUS
  <2>2. /\ loop \in [pc : {"wait", "backoff", "connect", "dial", "fill", "off"},
                    attempt : Nat, filled : 0 .. PoolSize]
        /\ hold \in [Users -> {"none", "live", "dead"}]
    OBVIOUS
  <2>3. call \in [Users -> CallRec]
    BY IdleCall
  <2> QED BY <1>1, <2>1, <2>2, <2>3 DEF TypeOK, ConnType
<1>3. LoopTells /\ DownIsDead
  BY DEF LoopTells, DownIsDead, DoneClosed, Closed
<1>4. Holding /\ Known
  BY IdleCall DEF Holding, Known, Idle
<1>5. Counted
  <2>1. Busy = {} /\ loop.pc = "wait" /\ loop.filled = 0
    BY DEF Busy, Idle
  <2>2. Cardinality(Busy) = 0
    BY <2>1, FS_EmptySet
  <2> QED BY <1>1, <2>1, <2>2 DEF Counted
<1> QED BY <1>2, <1>3, <1>4, <1>5 DEF IInv

\* Every step keeps the invariant.
LEMMA NextInv == IInv /\ [Next]_vars => IInv'
<1> SUFFICES ASSUME IInv, [Next]_vars PROVE IInv'
  OBVIOUS
<1>1. TypeOK /\ LoopTells /\ DownIsDead /\ Holding /\ Known
  BY DEF IInv
<1>2. call' \in [Users -> CallRec] /\ Holding' /\ Known'
  BY <1>1, CallsKept
<1>3. TypeOK'
  BY <1>1, <1>2, ConnTypeKept DEF TypeOK
<1>4. LoopTells' /\ DownIsDead'
  BY <1>1, LoopTellsKept, DownIsDeadKept
<1>5. Counted'
  BY <1>3, <1>4, CountedKept
<1> QED BY <1>2, <1>3, <1>4, <1>5 DEF IInv

\* The state that GetConnectionState reports is true: after Shutdown a connection is
\* open only through a reconnect that was already under way, and one that is reported
\* down while it is up and nobody reconnects has failed a health check
\* (rabbitmq.go:174-186, 288).
THEOREM StatesAreTrue == Spec => []StateIsTrue
<1>1. IInv => StateIsTrue
  BY DEF IInv, LoopTells, StateIsTrue
<1> QED BY <1>1, InitInv, NextInv, PTL DEF Spec

\* What a publish promises on its return, through any breaks and retries: confirmed
\* and without error, the broker took every message; unconfirmed, only what was
\* written to a broken connection is missing; and a message is there twice only after
\* an attempt that failed when it was taken (publisher.go:92-253).
THEOREM PublishesKeepPromises == Spec => []PublishOutcome
<1>1. IInv => PublishOutcome
  BY DEF IInv, Known, CallKnows, PublishOutcome, At
<1> QED BY <1>1, InitInv, NextInv, PTL DEF Spec

\* connect, with mu held, waits for room in the pool only while dead channels are in
\* it; and on the first reconnect everyone waits for everyone only if there are fewer
\* users than channels (rabbitmq.go:95, 205, 238).
THEOREM StandstillsNeedStale == Spec => []StandstillNeedsStale
<1>1. IInv => StandstillNeedsStale
  <2> SUFFICES ASSUME IInv, FillBlocked
               PROVE  /\ \E i \in DOMAIN channels : channels[i] = "dead"
                      /\ (drops = 1 /\ \A u \in Users : At(u, "new")) => Cardinality(Users) < PoolSize
    BY DEF StandstillNeedsStale
  <2>1. /\ TypeOK /\ ~Closed /\ loop.pc = "fill" /\ loop.filled < PoolSize /\ open
        /\ Len(channels) = PoolSize /\ channels \in Seq({"live", "dead"})
    BY DEF IInv, TypeOK, ConnType, FillBlocked
  <2>2. loop.filled \in Nat /\ Cardinality(Users) \in Nat /\ PoolSize \in Nat
    BY <2>1, Loads
  <2>3. \E i \in DOMAIN channels : channels[i] = "dead"
    <3>1. Cardinality(LiveIn(channels)) <= loop.filled
      <4>1. LiveHeld \in SUBSET Users
        BY DEF LiveHeld
      <4>2. Cardinality(LiveHeld) \in Nat /\ Cardinality(LiveIn(channels)) \in Nat
        BY <2>1, <4>1, UsersFinite, LiveFinite
      <4> QED BY <2>1, <2>2, <4>2 DEF IInv, Counted
    <3>2. SUFFICES ASSUME \A i \in 1 .. Len(channels) : channels[i] = "live" PROVE FALSE
      BY <2>1
    <3>3. LiveIn(channels) = 1 .. Len(channels)
      BY <3>2 DEF LiveIn
    <3>4. Cardinality(1 .. PoolSize) = PoolSize
      BY <2>2, FS_Interval
    <3> QED BY <2>1, <2>2, <3>1, <3>3, <3>4
  <2>4. ASSUME drops = 1, \A u \in Users : At(u, "new") PROVE Cardinality(Users) < PoolSize
    <3>1. Busy = Users
      BY <2>4 DEF Busy, At
    <3>2. \/ Len(channels) + Cardinality(Users) <= loop.filled + PoolSize
          \/ Len(channels) + Cardinality(Users) <= loop.filled + Cardinality(Users)
      BY <2>1, <2>4, <3>1 DEF IInv, Counted
    <3> QED BY <2>1, <2>2, <3>2
  <2> QED BY <2>3, <2>4
<1> QED BY <1>1, InitInv, NextInv, PTL DEF Spec
=============================================================================
