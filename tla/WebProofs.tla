------------------------------ MODULE WebProofs ------------------------------
(***************************************************************************)
(* Proofs about the parts that meet the web: EventNotifier, for any        *)
(* events, webhooks, sizes and number of goroutines; RequestTimeout, for   *)
(* any requests and contexts; the webhook manager and the history behind   *)
(* the deliverer (WebhookDeliveries), for any webhooks, workers and        *)
(* deliveries; and the three limiters (RateLimiter), for any keys and      *)
(* sizes.  The four share no state.                                        *)
(***************************************************************************)
EXTENDS EventNotifier, RequestTimeout, WebhookDeliveries, RateLimiter,
        SequenceTheorems, FiniteSetTheorems, WellFoundedInduction, TLAPS
-----------------------------------------------------------------------------
(* The notifier *)

\* The tasks that can exist: those for all the webhooks of their event.
Copies == {c \in Task : c.hooks = Matching[c.event]}

\* Where the tasks are, and that a goroutine that delivers has one.
InPlace ==
  /\ taskCh \in Seq(Copies) /\ deadLetter \in Seq(Copies)
  /\ IsABag(sending) /\ BagToSet(sending) \subseteq Copies
  /\ pc \in [Threads -> {"off", "select", "deliver", "lastDeliver"}]
  /\ hand \in [Threads -> Seq(Copies)]
  /\ todo \in [Threads -> SUBSET Hooks]
  /\ sent \subseteq Events
  /\ delivered \in [Events -> [Hooks -> Nat]]
  /\ \A t \in Threads : Delivering(t) => hand[t] # <<>>

\* The disjunction of NothingVanishes, for one event and one webhook.
Kept(e, h) ==
  \/ delivered[e][h] > 0
  \/ \E task \in Range(taskCh) \cup BagToSet(sending) \cup Range(deadLetter) : task.event = e
  \/ \E t \in Threads : Holds(t, e, h)

\* All that Holds reads of a goroutine is left alone.
Unmoved(t) == pc'[t] = pc[t] /\ hand'[t] = hand[t] /\ todo'[t] = todo[t]
-----------------------------------------------------------------------------
(* Sequences and bags, as far as what is in them goes. *)

\* Append adds its element and keeps the others.
LEMMA RangeAppend ==
  ASSUME NEW S, NEW s \in Seq(S), NEW x \in S
  PROVE  Append(s, x) \in Seq(S) /\ Range(Append(s, x)) = Range(s) \cup {x}
<1>1. /\ Append(s, x) \in Seq(S) /\ Len(Append(s, x)) = Len(s) + 1
      /\ \A i \in 1 .. Len(s) : Append(s, x)[i] = s[i]
      /\ Append(s, x)[Len(s) + 1] = x
  BY AppendProperties
<1>2. DOMAIN s = 1 .. Len(s) /\ Len(s) \in Nat /\ DOMAIN Append(s, x) = 1 .. Len(s) + 1
  BY <1>1, LenProperties
<1> QED BY <1>1, <1>2 DEF Range

\* A sequence is its head and its tail.
LEMMA RangeTail ==
  ASSUME NEW S, NEW s \in Seq(S), s # <<>>
  PROVE  /\ Head(s) \in S /\ Tail(s) \in Seq(S)
         /\ Range(s) = {Head(s)} \cup Range(Tail(s))
<1>1. /\ Head(s) \in S /\ Head(s) = s[1] /\ Tail(s) \in Seq(S) /\ Len(Tail(s)) = Len(s) - 1
      /\ \A i \in 1 .. Len(Tail(s)) : Tail(s)[i] = s[i + 1]
  BY HeadTailProperties
<1>2. /\ DOMAIN s = 1 .. Len(s) /\ Len(s) \in Nat /\ Len(s) # 0
      /\ DOMAIN Tail(s) = 1 .. Len(s) - 1
  BY <1>1, LenProperties, EmptySeq
<1>3. \A i \in DOMAIN s : s[i] \in {Head(s)} \cup Range(Tail(s))
  <2> TAKE i \in DOMAIN s
  <2>1. CASE i = 1
    BY <2>1, <1>1
  <2>2. CASE i # 1
    <3>1. i - 1 \in DOMAIN Tail(s) /\ Tail(s)[i - 1] = s[i]
      BY <2>2, <1>1, <1>2
    <3> QED BY <3>1 DEF Range
  <2> QED BY <2>1, <2>2
<1>4. \A i \in DOMAIN Tail(s) : Tail(s)[i] \in Range(s)
  BY <1>1, <1>2 DEF Range
<1>5. Head(s) \in Range(s)
  BY <1>1, <1>2 DEF Range
<1>6. Range(s) \subseteq {Head(s)} \cup Range(Tail(s))
  BY <1>3, Zenon DEF Range
<1>7. Range(Tail(s)) \subseteq Range(s)
  BY <1>4, Zenon DEF Range
<1> QED BY <1>1, <1>5, <1>6, <1>7

\* RemoveAt takes out one element and no other.
LEMMA RangeRemoveAt ==
  ASSUME NEW S, NEW s \in Seq(S), NEW i \in DOMAIN s
  PROVE  /\ RemoveAt(s, i) \in Seq(S) /\ s[i] \in S
         /\ Range(s) \subseteq {s[i]} \cup Range(RemoveAt(s, i))
         /\ Range(RemoveAt(s, i)) \subseteq Range(s)
<1> DEFINE a == SubSeq(s, 1, i - 1)
           b == SubSeq(s, i + 1, Len(s))
<1>1. DOMAIN s = 1 .. Len(s) /\ Len(s) \in Nat /\ i \in 1 .. Len(s) /\ s[i] \in S
  BY LenProperties, ElementOfSeq
<1>2. /\ a \in Seq(S) /\ Len(a) = i - 1
      /\ \A j \in 1 .. i - 1 : a[j] = s[j]
  BY <1>1, SMT
<1>3. /\ b \in Seq(S) /\ Len(b) = Len(s) - i
      /\ \A j \in 1 .. Len(s) - i : b[j] = s[i + j]
  BY <1>1, SMT
<1> HIDE DEF a, b
<1> DEFINE c == a \o b
<1>a. /\ c \in Seq(S) /\ Len(c) = Len(a) + Len(b)
      /\ \A j \in 1 .. Len(a) + Len(b) :
           c[j] = IF j <= Len(a) THEN a[j] ELSE b[j - Len(a)]
  BY <1>2, <1>3, ConcatProperties
<1> HIDE DEF c
<1>b. \A j \in 1 .. i - 1 : c[j] = s[j]
  BY <1>1, <1>2, <1>3, <1>a
<1>c. ASSUME NEW j \in i .. Len(s) - 1
      PROVE  c[j] = s[j + 1]
  <2>1. j - (i - 1) \in 1 .. Len(s) - i /\ ~(j <= i - 1) /\ i + (j - (i - 1)) = j + 1
    BY <1>1
  <2>2. c[j] = b[j - (i - 1)]
    <3>1. j \in 1 .. Len(a) + Len(b) /\ ~(j <= Len(a)) /\ Len(a) = i - 1
      BY <2>1, <1>1, <1>2, <1>3
    <3> QED BY <3>1, <1>a
  <2> QED BY <2>1, <2>2, <1>3
<1>4. /\ c \in Seq(S) /\ Len(c) = Len(s) - 1
      /\ \A j \in 1 .. i - 1 : c[j] = s[j]
      /\ \A j \in i .. Len(s) - 1 : c[j] = s[j + 1]
  BY <1>1, <1>2, <1>3, <1>a, <1>b, <1>c
<1>5. RemoveAt(s, i) = c
  BY DEF RemoveAt, a, b, c
<1>6. DOMAIN c = 1 .. Len(s) - 1
  BY <1>4, LenProperties
<1>7. \A j \in DOMAIN s : s[j] \in {s[i]} \cup Range(c)
  <2> TAKE j \in DOMAIN s
  <2>1. CASE j < i
    <3>1. j \in DOMAIN c /\ c[j] = s[j]
      BY <2>1, <1>1, <1>4, <1>6
    <3> QED BY <3>1 DEF Range
  <2>2. CASE j = i
    BY <2>2
  <2>3. CASE j > i
    <3>1. j - 1 \in DOMAIN c /\ c[j - 1] = s[j]
      BY <2>3, <1>1, <1>4, <1>6
    <3> QED BY <3>1 DEF Range
  <2> QED BY <1>1, <2>1, <2>2, <2>3
<1>8. Range(s) \subseteq {s[i]} \cup Range(c)
  BY <1>7, Zenon DEF Range
<1>9. \A j \in DOMAIN c : c[j] \in Range(s)
  <2> TAKE j \in DOMAIN c
  <2>1. CASE j < i
    <3>1. j \in DOMAIN s /\ c[j] = s[j]
      BY <2>1, <1>1, <1>4, <1>6
    <3> QED BY <3>1 DEF Range
  <2>2. CASE ~(j < i)
    <3>1. j + 1 \in DOMAIN s /\ c[j] = s[j + 1]
      BY <2>2, <1>1, <1>4, <1>6
    <3> QED BY <3>1 DEF Range
  <2> QED BY <2>1, <2>2
<1>10. Range(c) \subseteq Range(s)
  BY <1>9, Zenon DEF Range
<1> QED BY <1>1, <1>4, <1>5, <1>8, <1>10

\* The bag sum has the elements of both bags.
LEMMA BagSum ==
  ASSUME NEW B, IsABag(B), NEW C, IsABag(C)
  PROVE  IsABag(B (+) C) /\ BagToSet(B (+) C) = BagToSet(B) \cup BagToSet(C)
<1>1. DOMAIN (B (+) C) = DOMAIN B \cup DOMAIN C
  BY DEF (+)
<1>2. /\ \A x \in DOMAIN B : B[x] \in Nat /\ B[x] > 0
      /\ \A x \in DOMAIN C : C[x] \in Nat /\ C[x] > 0
  BY DEF IsABag
<1>3. ASSUME NEW x \in DOMAIN B \cup DOMAIN C PROVE (B (+) C)[x] \in {n \in Nat : n > 0}
  BY <1>2 DEF (+)
<1>4. B (+) C = [x \in DOMAIN (B (+) C) |-> (B (+) C)[x]]
  BY DEF (+)
<1> QED BY <1>1, <1>3, <1>4 DEF BagToSet, IsABag

\* Adding an element adds it, taking one copy of it away removes no other.
LEMMA BagDomains ==
  ASSUME NEW B, IsABag(B), NEW x
  PROVE  /\ IsABag(B (+) SetToBag({x})) /\ IsABag(B (-) SetToBag({x}))
         /\ BagToSet(B (+) SetToBag({x})) = BagToSet(B) \cup {x}
         /\ BagToSet(B (-) SetToBag({x})) \subseteq BagToSet(B)
         /\ BagToSet(B) \subseteq BagToSet(B (-) SetToBag({x})) \cup {x}
<1>1. IsABag(SetToBag({x})) /\ BagToSet(SetToBag({x})) = {x}
  BY DEF IsABag, SetToBag, BagToSet
<1> DEFINE C == [e \in DOMAIN B |-> IF e \in {x} THEN B[e] - 1 ELSE B[e]]
           E == {d \in DOMAIN B : C[d] > 0}
<1>2. B (-) SetToBag({x}) = [e \in E |-> C[e]]
  BY DEF (-), SetToBag
<1>3. \A e \in DOMAIN B : B[e] \in Nat /\ B[e] > 0
  BY DEF IsABag
<1>4. \A e \in DOMAIN B : C[e] \in Nat /\ (e # x => e \in E)
  BY <1>3
<1>5. [e \in E |-> C[e]] \in [E -> {n \in Nat : n > 0}] /\ E \subseteq DOMAIN B
  BY <1>4
<1>6. DOMAIN B \subseteq E \cup {x}
  BY <1>4
<1> HIDE DEF C, E
<1> QED BY <1>1, <1>2, <1>5, <1>6, BagSum DEF IsABag, BagToSet

\* The dead letters, fresh again, are a bag.
LEMMA RenewedIsBag == ASSUME deadLetter \in Seq(Copies) PROVE IsABag(Renewed)
<1> DEFINE with(c) == {i \in DOMAIN deadLetter : Fresh(deadLetter[i]) = c}
           D == {Fresh(deadLetter[i]) : i \in DOMAIN deadLetter}
<1>1. IsFiniteSet(DOMAIN deadLetter)
  BY LenProperties, FS_Interval
<1>2. ASSUME NEW c \in D PROVE Cardinality(with(c)) \in {n \in Nat : n > 0}
  <2>1. with(c) # {} /\ with(c) \subseteq DOMAIN deadLetter
    OBVIOUS
  <2> HIDE DEF with
  <2>2. IsFiniteSet(with(c))
    BY <1>1, <2>1, FS_Subset
  <2> QED BY <2>1, <2>2, FS_CardinalityType, FS_EmptySet
<1>3. Renewed = [c \in D |-> Cardinality(with(c))]
  BY DEF Renewed
<1> HIDE DEF with, D
<1> QED BY <1>2, <1>3 DEF IsABag
-----------------------------------------------------------------------------
(* What the steps do to the copies of a task. *)

\* A change of a task's retries leaves it a copy for its event's webhooks.
LEMMA CopyFields ==
  ASSUME NEW c \in Copies
  PROVE  /\ c.event \in Events /\ c.hooks = Matching[c.event] /\ c.hooks \subseteq Hooks
         /\ c.retries \in 0 .. MaxRetries
         /\ Fresh(c) \in Copies /\ Fresh(c).event = c.event
         /\ c.retries < MaxRetries =>
              /\ [c EXCEPT !.retries = @ + 1] \in Copies
              /\ [c EXCEPT !.retries = @ + 1].event = c.event
BY NotifierAssumption DEF Copies, Task, Fresh

\* moveToDeadLetter keeps the task, and what it pushes out is discarded.
LEMMA DeadLetterKeeps ==
  ASSUME deadLetter \in Seq(Copies), NEW task \in Copies, MoveToDeadLetter(task)
  PROVE  /\ deadLetter' \in Seq(Copies) /\ discarded \subseteq discarded'
         /\ task \in Range(deadLetter') /\ Range(deadLetter') \subseteq Range(deadLetter) \cup {task}
         /\ \A c \in Range(deadLetter) : c \in Range(deadLetter') \/ c.event \in discarded'
<1>1. CASE Len(deadLetter) >= DeadLetterLimit
  <2>1. deadLetter # <<>>
    BY <1>1, NotifierAssumption, LenProperties, EmptySeq
  <2>2. /\ Head(deadLetter) \in Copies /\ Tail(deadLetter) \in Seq(Copies)
        /\ Range(deadLetter) = {Head(deadLetter)} \cup Range(Tail(deadLetter))
    BY <2>1, RangeTail
  <2>3. PICK rest \in Seq(Copies) : rest = Tail(deadLetter)
    BY <2>2
  <2>4. /\ deadLetter' = Append(rest, task)
        /\ discarded' = discarded \cup {Head(deadLetter).event}
    BY <1>1, <2>3 DEF MoveToDeadLetter
  <2>5. /\ deadLetter' \in Seq(Copies)
        /\ Range(deadLetter') = Range(rest) \cup {task}
    BY <2>4, RangeAppend
  <2> QED BY <2>2, <2>3, <2>4, <2>5
<1>2. CASE ~(Len(deadLetter) >= DeadLetterLimit)
  <2>1. deadLetter' = Append(deadLetter, task) /\ discarded' = discarded
    BY <1>2 DEF MoveToDeadLetter
  <2>2. /\ deadLetter' \in Seq(Copies)
        /\ Range(deadLetter') = Range(deadLetter) \cup {task}
    BY <2>1, RangeAppend
  <2> QED BY <2>1, <2>2
<1> QED BY <1>1, <1>2

\* A goroutine that is not moved holds what it held.
LEMMA UnmovedHolds ==
  ASSUME NEW t, Unmoved(t), NEW e, NEW h, Holds(t, e, h)
  PROVE  Holds(t, e, h)'
BY DEF Unmoved, Holds, Delivering

\* StartPass moves one goroutine, which then holds all the tasks for all their
\* webhooks.
LEMMA PassHolds ==
  ASSUME InPlace, NEW t \in Threads, NEW batch \in Seq(Copies), batch # <<>>,
         NEW label \in {"deliver", "lastDeliver"}, StartPass(t, batch, label)
  PROVE  /\ pc' \in [Threads -> {"off", "select", "deliver", "lastDeliver"}]
         /\ hand' \in [Threads -> Seq(Copies)] /\ todo' \in [Threads -> SUBSET Hooks]
         /\ \A u \in Threads : Delivering(u)' => hand'[u] # <<>>
         /\ \A u \in Threads \ {t} : Unmoved(u)
         /\ \A c \in Range(batch) : \A h \in Matching[c.event] : Holds(t, c.event, h)'
<1>1. Head(batch) \in Copies /\ Head(batch).hooks \subseteq Hooks
  BY RangeTail, CopyFields
<1>2. /\ pc' = [pc EXCEPT ![t] = label] /\ hand' = [hand EXCEPT ![t] = batch]
      /\ todo' = [todo EXCEPT ![t] = Head(batch).hooks]
  BY DEF StartPass
<1>3. /\ pc \in [Threads -> {"off", "select", "deliver", "lastDeliver"}]
      /\ hand \in [Threads -> Seq(Copies)] /\ todo \in [Threads -> SUBSET Hooks]
      /\ \A u \in Threads : Delivering(u) => hand[u] # <<>>
  BY DEF InPlace
<1>4. pc'[t] = label /\ hand'[t] = batch /\ todo'[t] = Head(batch).hooks
  BY <1>2, <1>3
<1>5. \A u \in Threads \ {t} : Unmoved(u)
  BY <1>2, <1>3 DEF Unmoved
<1>6. /\ pc' \in [Threads -> {"off", "select", "deliver", "lastDeliver"}]
      /\ hand' \in [Threads -> Seq(Copies)] /\ todo' \in [Threads -> SUBSET Hooks]
  BY <1>1, <1>2, <1>3
<1>7. \A u \in Threads : Delivering(u)' => hand'[u] # <<>>
  BY <1>3, <1>4, <1>5 DEF Unmoved, Delivering
<1>8. ASSUME NEW c \in Range(batch), NEW h \in Matching[c.event]
      PROVE  Holds(t, c.event, h)'
  <2>1. PICK i \in DOMAIN batch : batch[i] = c
    BY Zenon DEF Range
  <2>2. batch[i] \in Copies /\ c.hooks = Matching[c.event]
    BY <2>1, ElementOfSeq, LenProperties, CopyFields
  <2>3. i > 1 \/ h \in todo'[t]
    <3>1. CASE i = 1
      <4>1. Head(batch) = batch[1]
        BY HeadTailProperties
      <4> QED BY <3>1, <4>1, <2>1, <2>2, <1>4
    <3>2. CASE i # 1
      BY <3>2, LenProperties
    <3> QED BY <3>1, <3>2
  <2> QED BY <2>1, <2>3, <1>4 DEF Holds
<1> QED BY <1>5, <1>6, <1>7, <1>8

\* The turn for webhook h0 moves one goroutine, which goes on holding all but
\* the event it delivered, and that for the other webhooks.
LEMMA ProceedHolds ==
  ASSUME InPlace, NEW t \in Threads, NEW h0 \in todo[t], Delivering(t),
         NEW task \in Copies, task.event = Head(hand[t]).event, Proceed(t, h0, task)
  PROVE  /\ pc' \in [Threads -> {"off", "select", "deliver", "lastDeliver"}]
         /\ hand' \in [Threads -> Seq(Copies)] /\ todo' \in [Threads -> SUBSET Hooks]
         /\ \A u \in Threads : Delivering(u)' => hand'[u] # <<>>
         /\ \A u \in Threads \ {t} : Unmoved(u)
         /\ \A e \in Events : \A h \in Matching[e] :
              Holds(t, e, h) => Holds(t, e, h)' \/ (e = task.event /\ h = h0)
<1>0. /\ pc \in [Threads -> {"off", "select", "deliver", "lastDeliver"}]
      /\ hand \in [Threads -> Seq(Copies)] /\ todo \in [Threads -> SUBSET Hooks]
      /\ \A u \in Threads : Delivering(u) => hand[u] # <<>>
      /\ pc[t] \in {"deliver", "lastDeliver"} /\ hand[t] \in Seq(Copies) /\ hand[t] # <<>>
  BY DEF InPlace, Delivering
<1> PICK s \in Seq(Copies) : s = hand[t]
  BY <1>0
<1>1. /\ Head(s) = s[1] /\ Len(s) \in Nat /\ Len(s) # 0 /\ DOMAIN s = 1 .. Len(s)
      /\ Tail(s) \in Seq(Copies) /\ Len(Tail(s)) = Len(s) - 1
      /\ \A i \in 1 .. Len(s) - 1 : Tail(s)[i] = s[i + 1]
  BY <1>0, HeadTailProperties, LenProperties, EmptySeq
<1> PICK r \in Seq(Copies) : r = Tail(s)
  BY <1>1
<1>2. DOMAIN r = 1 .. Len(s) - 1 /\ Len(r) = Len(s) - 1 /\ \A i \in 1 .. Len(s) - 1 : r[i] = s[i + 1]
  BY <1>1, LenProperties
<1>3. CASE todo[t] # {h0}
  <2>1. PICK q : q = <<task>> \o r
    OBVIOUS
  <2>2. /\ q \in Seq(Copies) /\ Len(q) = Len(s) /\ DOMAIN q = 1 .. Len(s)
        /\ q[1] = task /\ \A i \in 2 .. Len(s) : q[i] = s[i]
    <3>1. /\ q \in Seq(Copies) /\ Len(q) = 1 + Len(r)
          /\ \A i \in 1 .. 1 + Len(r) : q[i] = IF i <= 1 THEN <<task>>[i] ELSE r[i - 1]
      <4>1. <<task>> \in Seq(Copies) /\ Len(<<task>>) = 1
        OBVIOUS
      <4> QED BY <2>1, <4>1, ConcatProperties
    <3> QED BY <3>1, <1>1, <1>2, LenProperties
  <2>3. /\ todo' = [todo EXCEPT ![t] = todo[t] \ {h0}] /\ hand' = [hand EXCEPT ![t] = q]
        /\ pc' = pc
    BY <1>3, <2>1, Zenon DEF Proceed
  <2>4. todo'[t] = todo[t] \ {h0} /\ hand'[t] = q /\ pc'[t] = pc[t] /\ q # <<>>
    BY <2>2, <2>3, <1>0, <1>1, EmptySeq
  <2>5. \A u \in Threads \ {t} : Unmoved(u)
    BY <2>3, <1>0 DEF Unmoved
  <2>6. /\ pc' \in [Threads -> {"off", "select", "deliver", "lastDeliver"}]
        /\ hand' \in [Threads -> Seq(Copies)] /\ todo' \in [Threads -> SUBSET Hooks]
    BY <2>2, <2>3, <1>0
  <2>7. \A u \in Threads : Delivering(u)' => hand'[u] # <<>>
    BY <2>4, <2>5, <1>0 DEF Delivering, Unmoved
  <2>8. ASSUME NEW e \in Events, NEW h \in Matching[e], Holds(t, e, h), ~(e = task.event /\ h = h0)
        PROVE  Holds(t, e, h)'
    <3>1. PICK i \in DOMAIN s : s[i].event = e /\ (i > 1 \/ h \in todo[t])
      BY <2>8, <1>0 DEF Holds, Delivering
    <3>2. CASE i > 1
      <4>1. i \in DOMAIN q /\ q[i].event = e
        BY <3>1, <3>2, <1>1, <2>2
      <4> QED BY <3>2, <4>1, <2>4 DEF Holds
    <3>3. CASE ~(i > 1)
      <4>1. i = 1 /\ e = task.event
        BY <3>1, <3>3, <1>1
      <4>2. 1 \in DOMAIN q /\ q[1].event = e /\ h \in todo'[t]
        BY <4>1, <3>1, <3>3, <2>2, <2>4, <2>8, <1>1
      <4> QED BY <4>2, <2>4 DEF Holds
    <3> QED BY <3>2, <3>3
  <2> QED BY <2>5, <2>6, <2>7, <2>8
<1>4. CASE todo[t] = {h0} /\ Len(s) > 1
  <2>1. StartPass(t, r, pc[t])
    BY <1>4 DEF Proceed
  <2>2. r # <<>>
    <3>1. Len(r) # 0
      BY <1>1, <1>2, <1>4
    <3> QED BY <3>1
  <2>3. \A c \in Range(r) : \A h \in Matching[c.event] : Holds(t, c.event, h)'
    BY <2>1, <2>2, <1>0, PassHolds
  <2>4. ASSUME NEW e \in Events, NEW h \in Matching[e], Holds(t, e, h), ~(e = task.event /\ h = h0)
        PROVE  Holds(t, e, h)'
    <3>1. PICK i \in DOMAIN s : s[i].event = e /\ (i > 1 \/ h \in todo[t])
      BY <2>4, <1>0 DEF Holds, Delivering
    <3>2. i > 1
      BY <3>1, <2>4, <1>1, <1>4
    <3>3. i - 1 \in 1 .. Len(s) - 1 /\ (i - 1) + 1 = i
      BY <3>2, <1>1
    <3>4. i - 1 \in DOMAIN r /\ r[i - 1] = s[i]
      BY <3>3, <1>2
    <3>5. r[i - 1] \in Range(r)
      BY <3>4 DEF Range
    <3> QED BY <3>1, <3>4, <3>5, <2>3
  <2> QED BY <2>1, <2>2, <2>4, <1>0, PassHolds
<1>5. CASE todo[t] = {h0} /\ ~(Len(s) > 1)
  <2>1. /\ pc' = [pc EXCEPT ![t] = IF pc[t] = "deliver" THEN "select" ELSE "off"]
        /\ hand' = [hand EXCEPT ![t] = <<>>] /\ todo' = [todo EXCEPT ![t] = {}]
    BY <1>5 DEF Proceed
  <2>2. /\ pc' \in [Threads -> {"off", "select", "deliver", "lastDeliver"}]
        /\ hand' \in [Threads -> Seq(Copies)] /\ todo' \in [Threads -> SUBSET Hooks]
    BY <2>1, <1>0, EmptySeq
  <2>3. \A u \in Threads \ {t} : Unmoved(u)
    BY <2>1, <1>0 DEF Unmoved
  <2>4. \A u \in Threads : Delivering(u)' => hand'[u] # <<>>
    BY <2>1, <2>3, <1>0 DEF Delivering, Unmoved
  <2>5. ASSUME NEW e \in Events, NEW h \in Matching[e], Holds(t, e, h)
        PROVE  e = task.event /\ h = h0
    <3>1. PICK i \in DOMAIN s : s[i].event = e /\ (i > 1 \/ h \in todo[t])
      BY <2>5, <1>0 DEF Holds, Delivering
    <3>2. i = 1
      BY <3>1, <1>1, <1>5
    <3> QED BY <3>1, <3>2, <1>1, <1>5
  <2> QED BY <2>2, <2>3, <2>4, <2>5
<1> QED BY <1>3, <1>4, <1>5
-----------------------------------------------------------------------------
(* The invariant *)

\* The places of the copies and NothingVanishes are kept together.
LEMMA NothingLost ==
  ASSUME InPlace, NothingVanishes, [Next]_vars
  PROVE  InPlace' /\ NothingVanishes'
<1> DEFINE Left == \A e \in sent \ discarded : \A h \in Matching[e] : Kept(e, h)
<1>0. /\ Left
      /\ taskCh \in Seq(Copies) /\ deadLetter \in Seq(Copies)
      /\ IsABag(sending) /\ BagToSet(sending) \subseteq Copies
      /\ pc \in [Threads -> {"off", "select", "deliver", "lastDeliver"}]
      /\ hand \in [Threads -> Seq(Copies)]
      /\ todo \in [Threads -> SUBSET Hooks]
      /\ sent \subseteq Events
      /\ delivered \in [Events -> [Hooks -> Nat]]
      /\ \A t \in Threads : Delivering(t) => hand[t] # <<>>
      /\ \A e \in Events : Matching[e] \subseteq Hooks
  BY NotifierAssumption DEF InPlace, NothingVanishes, Kept
<1> SUFFICES InPlace' /\ Left'
  BY DEF NothingVanishes, Kept
<1> HIDE DEF Left
<1> USE DEF life, history
<1>1. CASE UNCHANGED vars
  BY <1>1, <1>0 DEF vars, InPlace, Left, Kept, Holds, Delivering
<1>2. CASE Start
  <2>1. /\ pc' = [t \in Threads |-> IF t[1] = starts + 1 THEN "select" ELSE pc[t]]
        /\ UNCHANGED <<taskCh, sending, deadLetter, hand, todo, sent, delivered, discarded>>
    BY <1>2 DEF Start
  <2>2. \A t \in Threads : pc'[t] \in {pc[t], "select"}
    BY <2>1
  <2>3. pc' \in [Threads -> {"off", "select", "deliver", "lastDeliver"}]
    BY <2>1, <1>0
  <2>4. \A t \in Threads : Delivering(t)' => Delivering(t)
    BY <2>2 DEF Delivering
  <2>5. InPlace'
    BY <2>1, <2>3, <2>4, <1>0 DEF InPlace
  <2>6. ASSUME NEW e, NEW h, NEW t \in Threads, Holds(t, e, h)
        PROVE  Holds(t, e, h)'
    BY <2>6, <2>1, <2>4 DEF Holds
  <2> QED BY <2>1, <2>5, <2>6, <1>0 DEF Left, Kept
<1>3. CASE Stop \/ CloseStopCh
  <2>1. UNCHANGED <<taskCh, sending, deadLetter, pc, hand, todo, sent, delivered, discarded>>
    BY <1>3 DEF Stop, CloseStopCh
  <2> QED BY <2>1, <1>0 DEF InPlace, Left, Kept, Holds, Delivering
<1>4. CASE ReplayAllDeadLetter
  <2>1. /\ deadLetter' = <<>> /\ sending' = sending (+) Renewed
        /\ UNCHANGED <<taskCh, pc, hand, todo, sent, delivered, discarded>>
    BY <1>4 DEF ReplayAllDeadLetter
  <2>2. BagToSet(Renewed) = {Fresh(deadLetter[i]) : i \in DOMAIN deadLetter} /\ IsABag(Renewed)
    BY <1>0, RenewedIsBag DEF Renewed, BagToSet
  <2>3. \A i \in DOMAIN deadLetter : deadLetter[i] \in Copies
    BY <1>0, ElementOfSeq, LenProperties
  <2>a. /\ BagToSet(sending') = BagToSet(sending) \cup {Fresh(deadLetter[i]) : i \in DOMAIN deadLetter}
        /\ IsABag(sending')
    BY <1>0, <2>1, <2>2, BagSum, Zenon
  <2>b. \A i \in DOMAIN deadLetter :
          Fresh(deadLetter[i]) \in Copies /\ Fresh(deadLetter[i]).event = deadLetter[i].event
    BY <2>3, CopyFields
  <2>4. \A c \in Range(deadLetter) : \E d \in BagToSet(sending') : d.event = c.event
    <3> TAKE c \in Range(deadLetter)
    <3>1. PICK i \in DOMAIN deadLetter : c = deadLetter[i]
      BY Zenon DEF Range
    <3>2. Fresh(c) \in BagToSet(sending') /\ Fresh(c).event = c.event
      BY <3>1, <2>a, <2>b
    <3> QED BY <3>2
  <2>5. BagToSet(sending) \subseteq BagToSet(sending') /\ BagToSet(sending') \subseteq Copies
    BY <2>a, <2>b, <1>0
  <2>6. InPlace'
    BY <2>1, <2>a, <2>5, <1>0, EmptySeq DEF InPlace, Delivering
  <2>7. \A t \in Threads : Unmoved(t)
    BY <2>1 DEF Unmoved
  <2>8. ASSUME NEW e \in sent \ discarded, NEW h \in Matching[e]
        PROVE  Kept(e, h)'
    <3>1. Kept(e, h)
      BY <1>0 DEF Left
    <3>2. CASE \E c \in Range(deadLetter) : c.event = e
      BY <3>2, <2>4 DEF Kept
    <3> QED BY <3>1, <3>2, <2>1, <2>5, <2>7, UnmovedHolds DEF Kept
  <2> QED BY <2>1, <2>6, <2>8 DEF Left
<1>5. CASE ClearDeadLetter
  <2>1. /\ deadLetter' = <<>> /\ discarded' = discarded \cup {task.event : task \in Range(deadLetter)}
        /\ UNCHANGED <<taskCh, sending, pc, hand, todo, sent, delivered>>
    BY <1>5 DEF ClearDeadLetter
  <2>2. InPlace'
    BY <2>1, <1>0, EmptySeq DEF InPlace, Delivering
  <2>3. \A t \in Threads : Unmoved(t)
    BY <2>1 DEF Unmoved
  <2> QED BY <2>1, <2>2, <2>3, <1>0, UnmovedHolds DEF Left, Kept
<1>6. ASSUME NEW e \in Events, Notify(e)
      PROVE  InPlace' /\ Left'
  <2> PICK c : c = [event |-> e, hooks |-> Matching[e], retries |-> 0]
    OBVIOUS
  <2>1. /\ taskCh' = Append(taskCh, c) /\ sent' = sent \cup {e}
        /\ UNCHANGED <<sending, deadLetter, pc, hand, todo, delivered, discarded>>
    BY <1>6 DEF Notify
  <2>2. c \in Copies /\ c.event = e
    BY <1>0, NotifierAssumption DEF Copies, Task
  <2>3. taskCh' \in Seq(Copies) /\ Range(taskCh') = Range(taskCh) \cup {c}
    BY <2>1, <2>2, <1>0, RangeAppend
  <2>4. InPlace'
    BY <2>1, <2>3, <1>0 DEF InPlace, Delivering
  <2>5. \A t \in Threads : Unmoved(t)
    BY <2>1 DEF Unmoved
  <2> QED BY <2>1, <2>2, <2>3, <2>4, <2>5, <1>0, UnmovedHolds DEF Left, Kept
<1>7. ASSUME NEW i \in DOMAIN deadLetter, ReplayDeadLetter(i)
      PROVE  InPlace' /\ Left'
  <2>1. /\ deadLetter' = RemoveAt(deadLetter, i)
        /\ sending' = sending (+) SetToBag({Fresh(deadLetter[i])})
        /\ UNCHANGED <<taskCh, pc, hand, todo, sent, delivered, discarded>>
    BY <1>7 DEF ReplayDeadLetter
  <2>2. /\ deadLetter' \in Seq(Copies) /\ deadLetter[i] \in Copies
        /\ Range(deadLetter) \subseteq {deadLetter[i]} \cup Range(deadLetter')
    BY <2>1, <1>0, RangeRemoveAt
  <2>3. /\ Fresh(deadLetter[i]) \in Copies /\ Fresh(deadLetter[i]).event = deadLetter[i].event
        /\ IsABag(sending') /\ BagToSet(sending') = BagToSet(sending) \cup {Fresh(deadLetter[i])}
    BY <1>0, <2>1, <2>2, CopyFields, BagDomains
  <2>4. InPlace'
    BY <2>1, <2>2, <2>3, <1>0 DEF InPlace, Delivering
  <2>5. \A t \in Threads : Unmoved(t)
    BY <2>1 DEF Unmoved
  <2> QED BY <2>1, <2>2, <2>3, <2>4, <2>5, <1>0, UnmovedHolds DEF Left, Kept
<1>8. ASSUME NEW c \in BagToSet(sending), Send(c)
      PROVE  InPlace' /\ Left'
  <2>1. /\ sending' = sending (-) SetToBag({c}) /\ UNCHANGED <<pc, hand, todo, sent, delivered>>
        /\ c \in Copies
    BY <1>8, <1>0 DEF Send
  <2>2. /\ IsABag(sending') /\ BagToSet(sending') \subseteq BagToSet(sending)
        /\ BagToSet(sending) \subseteq BagToSet(sending') \cup {c}
    BY <1>0, <2>1, BagDomains
  <2>3. \A t \in Threads : Unmoved(t)
    BY <2>1 DEF Unmoved
  <2>4. CASE taskCh' = Append(taskCh, c) /\ UNCHANGED <<deadLetter, discarded>>
    <3>1. taskCh' \in Seq(Copies) /\ Range(taskCh') = Range(taskCh) \cup {c}
      BY <2>1, <2>4, <1>0, RangeAppend
    <3>2. InPlace'
      BY <2>1, <2>2, <2>4, <3>1, <1>0 DEF InPlace, Delivering
    <3> QED BY <2>1, <2>2, <2>3, <2>4, <3>1, <3>2, <1>0, UnmovedHolds DEF Left, Kept
  <2>5. CASE MoveToDeadLetter(c) /\ UNCHANGED taskCh
    <3>1. /\ deadLetter' \in Seq(Copies) /\ discarded \subseteq discarded'
          /\ c \in Range(deadLetter')
          /\ \A d \in Range(deadLetter) : d \in Range(deadLetter') \/ d.event \in discarded'
      BY <2>1, <2>5, <1>0, DeadLetterKeeps
    <3>2. InPlace'
      BY <2>1, <2>2, <2>5, <3>1, <1>0 DEF InPlace, Delivering
    <3> QED BY <2>1, <2>2, <2>3, <2>5, <3>1, <3>2, <1>0, UnmovedHolds DEF Left, Kept
  <2> QED BY <1>8, <2>4, <2>5 DEF Send, OnFull
<1>9. ASSUME NEW t \in Threads, NEW batch \in Seq(Copies), batch # <<>>,
             NEW label \in {"deliver", "lastDeliver"}, StartPass(t, batch, label),
             Range(hand[t]) \subseteq Range(batch),
             taskCh' \in Seq(Copies), Range(taskCh) \subseteq Range(taskCh') \cup Range(batch),
             UNCHANGED <<sending, deadLetter, sent, delivered, discarded>>
      PROVE  InPlace' /\ Left'
  <2>1. /\ pc' \in [Threads -> {"off", "select", "deliver", "lastDeliver"}]
        /\ hand' \in [Threads -> Seq(Copies)] /\ todo' \in [Threads -> SUBSET Hooks]
        /\ \A u \in Threads : Delivering(u)' => hand'[u] # <<>>
        /\ \A u \in Threads \ {t} : Unmoved(u)
        /\ \A c \in Range(batch) : \A h \in Matching[c.event] : Holds(t, c.event, h)'
    BY <1>9, PassHolds
  <2>2. InPlace'
    BY <2>1, <1>9, <1>0 DEF InPlace
  <2>3. ASSUME NEW e \in sent \ discarded, NEW h \in Matching[e]
        PROVE  Kept(e, h)'
    <3>1. Kept(e, h)
      BY <1>0 DEF Left
    <3>2. CASE delivered[e][h] > 0
      BY <3>2, <1>9 DEF Kept
    <3>3. CASE \E c \in Range(taskCh) \cup BagToSet(sending) \cup Range(deadLetter) : c.event = e
      <4>1. PICK c \in Range(taskCh) \cup BagToSet(sending) \cup Range(deadLetter) : c.event = e
        BY <3>3
      <4>2. \/ c \in Range(taskCh') \cup BagToSet(sending') \cup Range(deadLetter')
            \/ c \in Range(batch)
        BY <4>1, <1>9
      <4> QED BY <4>1, <4>2, <2>1 DEF Kept
    <3>4. CASE \E u \in Threads : Holds(u, e, h)
      <4>1. PICK u \in Threads : Holds(u, e, h)
        BY <3>4
      <4>2. CASE u # t
        BY <4>1, <4>2, <2>1, UnmovedHolds DEF Kept
      <4>3. CASE u = t
        <5>1. PICK i \in DOMAIN hand[t] : hand[t][i].event = e
          BY <4>1, <4>3 DEF Holds
        <5>2. hand[t][i] \in Range(batch)
          BY <5>1, <1>9 DEF Range
        <5> QED BY <5>1, <5>2, <2>1 DEF Kept
      <4> QED BY <4>2, <4>3
    <3> QED BY <3>1, <3>2, <3>3, <3>4 DEF Kept
  <2> QED BY <2>2, <2>3, <1>9 DEF Left
<1>10. ASSUME NEW t \in Threads, Receive(t)
       PROVE  InPlace' /\ Left'
  <2> PICK c : c = Head(taskCh)
    OBVIOUS
  <2> PICK batch : batch = Append(hand[t], c)
    OBVIOUS
  <2>1. /\ c \in Copies /\ taskCh' \in Seq(Copies)
        /\ Range(taskCh) = {c} \cup Range(taskCh')
    BY <1>10, <1>0, RangeTail DEF Receive, Rest
  <2>2. batch \in Seq(Copies) /\ Range(batch) = Range(hand[t]) \cup {c}
    BY <2>1, <1>0, RangeAppend
  <2>3. batch # <<>>
    <3>1. c \in Range(batch)
      BY <2>2
    <3> QED BY <3>1 DEF Range
  <2>4. CASE StartPass(t, batch, "deliver")
    BY <2>1, <2>2, <2>3, <2>4, <1>9, <1>10 DEF Receive
  <2>5. CASE hand' = [hand EXCEPT ![t] = batch] /\ UNCHANGED <<pc, todo>>
    <3>1. UNCHANGED <<sending, deadLetter, sent, delivered, discarded>> /\ pc[t] = "select"
      BY <1>10 DEF Receive
    <3>2. hand'[t] = batch /\ \A u \in Threads \ {t} : Unmoved(u)
      BY <2>5, <1>0 DEF Unmoved
    <3>3. InPlace'
      BY <2>1, <2>2, <2>3, <2>5, <3>1, <3>2, <1>0 DEF InPlace, Delivering, Unmoved
    <3>4. \A d \in Range(batch), h \in Hooks : Holds(t, d.event, h)'
      <4> TAKE d \in Range(batch), h \in Hooks
      <4>1. PICK i \in DOMAIN batch : d = batch[i]
        BY Zenon DEF Range
      <4> QED BY <4>1, <3>1, <3>2, <2>5 DEF Holds, Delivering
    <3>5. \A e, h : Holds(t, e, h) => \E d \in Range(hand[t]) : d.event = e
      BY DEF Holds, Range
    <3>6. ASSUME NEW e \in sent \ discarded, NEW h \in Matching[e]
          PROVE  Kept(e, h)'
      <4>1. Kept(e, h) /\ h \in Hooks
        BY <1>0 DEF Left
      <4> QED BY <4>1, <2>1, <2>2, <3>1, <3>2, <3>4, <3>5, UnmovedHolds DEF Kept
    <3> QED BY <3>1, <3>3, <3>6 DEF Left
  <2> QED BY <1>10, <2>4, <2>5 DEF Receive
<1>11. ASSUME NEW t \in Threads, BatchTick(t)
       PROVE  InPlace' /\ Left'
  BY <1>0, <1>9, <1>11 DEF BatchTick, TickFlushes
<1>12. ASSUME NEW t \in Threads, SeeStop(t)
       PROVE  InPlace' /\ Left'
  <2>1. UNCHANGED <<taskCh, sending, deadLetter, sent, delivered, discarded>>
    BY <1>12 DEF SeeStop
  <2>2. CASE StartPass(t, hand[t], "lastDeliver") /\ hand[t] # <<>>
    BY <1>0, <1>9, <2>1, <2>2
  <2>3. CASE pc' = [pc EXCEPT ![t] = "off"] /\ UNCHANGED <<hand, todo>>
    <3>1. \A u \in Threads : Delivering(u)' => Delivering(u)
      BY <2>3, <1>0 DEF Delivering
    <3>2. InPlace'
      BY <2>1, <2>3, <3>1, <1>0 DEF InPlace
    <3>3. ASSUME NEW e, NEW h, NEW u \in Threads, Holds(u, e, h)
          PROVE  Holds(u, e, h)'
      BY <2>3, <3>1, <3>3 DEF Holds
    <3> QED BY <2>1, <3>2, <3>3, <1>0 DEF Left, Kept
  <2> QED BY <1>12, <2>2, <2>3 DEF SeeStop
<1>13. ASSUME NEW t \in Threads, NEW h0 \in todo[t], Delivering(t), NEW task \in Copies,
              task.event = Head(hand[t]).event, Proceed(t, h0, task), UNCHANGED <<taskCh, sent>>,
              delivered' \in [Events -> [Hooks -> Nat]],
              \A e \in Events, h \in Hooks : delivered[e][h] > 0 => delivered'[e][h] > 0,
              IsABag(sending'), BagToSet(sending') \subseteq Copies,
              BagToSet(sending) \subseteq BagToSet(sending'),
              deadLetter' \in Seq(Copies), discarded \subseteq discarded',
              \A c \in Range(deadLetter) : c \in Range(deadLetter') \/ c.event \in discarded',
              \/ delivered'[task.event][h0] > 0
              \/ \E c \in BagToSet(sending') \cup Range(deadLetter') : c.event = task.event
       PROVE  InPlace' /\ Left'
  <2>1. /\ pc' \in [Threads -> {"off", "select", "deliver", "lastDeliver"}]
        /\ hand' \in [Threads -> Seq(Copies)] /\ todo' \in [Threads -> SUBSET Hooks]
        /\ \A u \in Threads : Delivering(u)' => hand'[u] # <<>>
        /\ \A u \in Threads \ {t} : Unmoved(u)
        /\ \A e \in Events : \A h \in Matching[e] :
             Holds(t, e, h) => Holds(t, e, h)' \/ (e = task.event /\ h = h0)
    BY <1>13, ProceedHolds
  <2>2. InPlace'
    BY <2>1, <1>13, <1>0 DEF InPlace
  <2>3. ASSUME NEW e \in sent' \ discarded', NEW h \in Matching[e]
        PROVE  Kept(e, h)'
    <3>1. Kept(e, h) /\ h \in Hooks /\ e \in Events
      BY <1>0, <1>13 DEF Left
    <3>2. CASE delivered[e][h] > 0
      BY <3>1, <3>2, <1>13 DEF Kept
    <3>3. CASE \E c \in Range(taskCh) \cup BagToSet(sending) \cup Range(deadLetter) : c.event = e
      <4>1. PICK c \in Range(taskCh) \cup BagToSet(sending) \cup Range(deadLetter) : c.event = e
        BY <3>3
      <4>2. c \in Range(taskCh') \cup BagToSet(sending') \cup Range(deadLetter')
        BY <4>1, <2>3, <1>13
      <4> QED BY <4>1, <4>2 DEF Kept
    <3>4. CASE \E u \in Threads : Holds(u, e, h)
      <4>1. PICK u \in Threads : Holds(u, e, h)
        BY <3>4
      <4>2. CASE u # t
        BY <4>1, <4>2, <2>1, UnmovedHolds DEF Kept
      <4>3. CASE u = t
        <5>1. CASE Holds(t, e, h)'
          BY <5>1 DEF Kept
        <5>2. CASE e = task.event /\ h = h0
          BY <5>2, <1>13 DEF Kept
        <5> QED BY <4>1, <4>3, <5>1, <5>2, <2>1, <3>1
      <4> QED BY <4>2, <4>3
    <3> QED BY <3>1, <3>2, <3>3, <3>4 DEF Kept
  <2> QED BY <2>2, <2>3 DEF Left
<1>14. ASSUME NEW t \in Threads, NEW h0 \in Hooks, DeliveryFails(t, h0)
       PROVE  InPlace' /\ Left'
  <2> PICK task : task = Head(hand[t])
    OBVIOUS
  <2>0. \A c : /\ IsABag(sending (+) SetToBag({c}))
               /\ BagToSet(sending (+) SetToBag({c})) = BagToSet(sending) \cup {c}
    BY <1>0, BagDomains
  <2>1. /\ Delivering(t) /\ h0 \in todo[t] /\ UNCHANGED <<taskCh, sent, delivered>>
        /\ task \in Copies
    BY <1>14, <1>0, RangeTail DEF DeliveryFails
  <2>2. CASE task.retries < MaxRetries
    <3> PICK c : c = [task EXCEPT !.retries = @ + 1]
      OBVIOUS
    <3>1. c \in Copies /\ c.event = task.event
      BY <2>1, <2>2, CopyFields
    <3>2. /\ sending' = sending (+) SetToBag({c}) /\ Proceed(t, h0, c)
          /\ UNCHANGED <<deadLetter, discarded>>
      BY <1>14, <2>2 DEF DeliveryFails, Retried
    <3>3. IsABag(sending') /\ BagToSet(sending') = BagToSet(sending) \cup {c}
      BY <2>0, <3>2
    <3> QED BY <2>1, <3>1, <3>2, <3>3, <1>0, <1>13
  <2>3. CASE ~(task.retries < MaxRetries)
    <3>1. MoveToDeadLetter(task) /\ Proceed(t, h0, task) /\ UNCHANGED sending
      BY <1>14, <2>3 DEF DeliveryFails
    <3>2. /\ deadLetter' \in Seq(Copies) /\ discarded \subseteq discarded'
          /\ task \in Range(deadLetter')
          /\ \A c \in Range(deadLetter) : c \in Range(deadLetter') \/ c.event \in discarded'
      BY <2>1, <3>1, <1>0, DeadLetterKeeps
    <3> QED BY <2>1, <3>1, <3>2, <1>0, <1>13
  <2> QED BY <2>2, <2>3
<1>15. ASSUME NEW t \in Threads, NEW h0 \in Hooks, DeliverySucceeds(t, h0)
       PROVE  InPlace' /\ Left'
  <2> PICK task : task = Head(hand[t])
    OBVIOUS
  <2>1. /\ Delivering(t) /\ h0 \in todo[t] /\ Proceed(t, h0, task)
        /\ UNCHANGED <<taskCh, sending, deadLetter, sent, discarded>>
        /\ task \in Copies /\ task.event \in Events
    BY <1>15, <1>0, RangeTail, CopyFields DEF DeliverySucceeds
  <2> PICK n : n = IF delivered[task.event][h0] < 2
                   THEN delivered[task.event][h0] + 1 ELSE delivered[task.event][h0]
    OBVIOUS
  <2>2. n \in Nat /\ n > 0
    <3>1. delivered[task.event][h0] \in Nat
      BY <1>0, <2>1
    <3> QED BY <3>1
  <2>3. delivered' = [delivered EXCEPT ![task.event] = [delivered[task.event] EXCEPT ![h0] = n]]
    BY <1>15 DEF DeliverySucceeds
  <2>4. /\ delivered' \in [Events -> [Hooks -> Nat]] /\ delivered'[task.event][h0] = n
        /\ \A e \in Events, h \in Hooks :
             (e # task.event \/ h # h0) => delivered'[e][h] = delivered[e][h]
    BY <2>1, <2>2, <2>3, <1>0
  <2> QED BY <2>1, <2>2, <2>4, <1>0, <1>13
<1>16. CASE Next
  BY <1>16, <1>2, <1>3, <1>4, <1>5, <1>6, <1>7, <1>8, <1>10, <1>11, <1>12, <1>14, <1>15
     DEF Next, SendStep, ThreadStep
<1> QED BY <1>1, <1>16

\* They hold at first.
LEMMA KeptAtFirst == Init => InPlace /\ NothingVanishes
<1> SUFFICES ASSUME Init PROVE InPlace /\ NothingVanishes
  OBVIOUS
<1>1. IsABag(EmptyBag) /\ BagToSet(EmptyBag) = {}
  BY DEF IsABag, BagToSet, EmptyBag, SetToBag
<1> QED BY <1>1, EmptySeq DEF Init, InPlace, NothingVanishes, Delivering

\* No accepted event vanishes (notifier.go 212-300, 344-436): for any events,
\* webhooks, goroutines, sizes, retries, restarts and replays, each of its
\* webhooks has got it, or a copy of its task is on the channel, with a timer or
\* a replay, with a goroutine or among the dead letters, unless the dead-letter
\* limit or ClearDeadLetter discarded one.
THEOREM EventsAreKept == Spec => []NothingVanishes
<1>1. Init => InPlace /\ NothingVanishes
  BY KeptAtFirst
<1>2. InPlace /\ NothingVanishes /\ [Next]_vars => (InPlace /\ NothingVanishes)'
  BY NothingLost
<1> QED BY <1>1, <1>2, PTL DEF Spec
-----------------------------------------------------------------------------
(* Sums of natural numbers over a finite set, as numbers of tokens *)

\* Element x has the tokens <<x, 1>> .. <<x, f[x]>>.
Tokens(f) == UNION {{x} \X (1 .. f[x]) : x \in DOMAIN f}
SumOf(f) == Cardinality(Tokens(f))

\* What a token is.
LEMMA TokenIs ==
  ASSUME NEW S, NEW f \in [S -> Nat]
  PROVE  \A p : p \in Tokens(f) <=> \E x \in S : \E k \in 1 .. f[x] : p = <<x, k>>
BY DEF Tokens

\* The first n numbers are n.
LEMMA CountTo ==
  ASSUME NEW n \in Nat
  PROVE  IsFiniteSet(1 .. n) /\ Cardinality(1 .. n) = n
<1>1. 1 \in Int /\ n \in Int
  OBVIOUS
<1>2. IsFiniteSet(1 .. n) /\ Cardinality(1 .. n) = IF 1 > n THEN 0 ELSE n - 1 + 1
  BY <1>1, FS_Interval
<1> QED BY <1>2

\* Finitely many numbers have finitely many tokens, and so a sum.
LEMMA TokensFinite ==
  ASSUME NEW S, IsFiniteSet(S), NEW f \in [S -> Nat]
  PROVE  IsFiniteSet(Tokens(f)) /\ SumOf(f) \in Nat
<1> DEFINE g == [x \in S |-> {x} \X (1 .. f[x])]
           T == {g[x] : x \in S}
<1>1. g \in Surjection(S, T)
  BY DEF Surjection
<1>2. ASSUME NEW x \in S PROVE IsFiniteSet(g[x])
  <2>1. IsFiniteSet({x}) /\ Cardinality({x}) = 1
    BY FS_Singleton
  <2>2. IsFiniteSet(1 .. f[x]) /\ Cardinality(1 .. f[x]) = f[x]
    BY CountTo
  <2>3. IsFiniteSet({x} \X (1 .. f[x]))
    BY <2>1, <2>2, FS_Product
  <2> QED BY <2>3
<1>3. Tokens(f) = UNION T
  BY DEF Tokens
<1>4. \A t \in T : IsFiniteSet(t)
  BY <1>2
<1> HIDE DEF g, T
<1>5. IsFiniteSet(T)
  BY <1>1, FS_Surjection
<1>6. IsFiniteSet(UNION T)
  BY <1>4, <1>5, FS_UNION
<1> QED BY <1>3, <1>6, FS_CardinalityType DEF SumOf

\* g extends f by the element x.
Grows(S, f, x, T, g) ==
  /\ IsFiniteSet(S) /\ f \in [S -> Nat] /\ x \notin S
  /\ T = S \cup {x} /\ g \in [T -> Nat] /\ \A y \in S : g[y] = f[y]

\* One element more adds its number.
LEMMA SumPlus ==
  ASSUME NEW S, NEW f, NEW x, NEW T, NEW g, Grows(S, f, x, T, g)
  PROVE  SumOf(g) = SumOf(f) + g[x]
<1>0. /\ IsFiniteSet(S) /\ f \in [S -> Nat] /\ x \notin S
      /\ T = S \cup {x} /\ g \in [T -> Nat] /\ \A y \in S : g[y] = f[y]
  BY DEF Grows
<1>1. PICK P : P = {x} \X (1 .. g[x])
  OBVIOUS
<1>2. IsFiniteSet(P) /\ Cardinality(P) = g[x] /\ g[x] \in Nat
  <2>1. IsFiniteSet({x}) /\ Cardinality({x}) = 1
    BY FS_Singleton
  <2>2. PICK I : I = 1 .. g[x]
    OBVIOUS
  <2>3. IsFiniteSet(I) /\ Cardinality(I) = g[x] /\ g[x] \in Nat
    BY <1>0, <2>2, CountTo
  <2>4. IsFiniteSet(P) /\ Cardinality(P) = Cardinality({x}) * Cardinality(I)
    BY <1>1, <2>1, <2>2, <2>3, FS_Product
  <2> QED BY <2>1, <2>3, <2>4
<1>3. Tokens(g) = Tokens(f) \cup P
  BY <1>0, <1>1 DEF Tokens
<1>4. Tokens(f) \cap P = {}
  BY <1>0, <1>1 DEF Tokens
<1>5. IsFiniteSet(Tokens(f)) /\ Cardinality(Tokens(f)) \in Nat
  BY <1>0, TokensFinite DEF SumOf
<1>6. Cardinality(Tokens(f) \cup P)
        = Cardinality(Tokens(f)) + Cardinality(P) - Cardinality(Tokens(f) \cap P)
  BY <1>2, <1>5, FS_Union
<1>7. Cardinality(Tokens(f) \cap P) = 0
  BY <1>4, FS_EmptySet
<1> QED BY <1>2, <1>3, <1>5, <1>6, <1>7 DEF SumOf

\* Each number of g has, through m, one of f of its own that is no smaller.
Covers(S, f, T, g, m) ==
  /\ IsFiniteSet(S) /\ f \in [S -> Nat] /\ g \in [T -> Nat] /\ m \in [T -> S]
  /\ \A x, y \in T : m[x] = m[y] => x = y
  /\ \A y \in T : g[y] <= f[m[y]]

\* Numbers that others dominate, one by one, have a smaller sum.
LEMMA SumInto ==
  ASSUME NEW S, NEW f, NEW T, NEW g, NEW m, Covers(S, f, T, g, m)
  PROVE  SumOf(g) <= SumOf(f) /\ SumOf(g) \in Nat
<1>0. /\ IsFiniteSet(S) /\ f \in [S -> Nat] /\ g \in [T -> Nat] /\ m \in [T -> S]
      /\ \A x, y \in T : m[x] = m[y] => x = y
      /\ \A y \in T : g[y] <= f[m[y]]
  BY DEF Covers
<1> DEFINE F == Tokens(f)
           G == Tokens(g)
           n == [p \in G |-> <<m[p[1]], p[2]>>]
<1>1. ASSUME NEW p \in G PROVE n[p] \in F /\ p[1] \in T /\ p = <<p[1], p[2]>>
  <2>1. PICK y \in T : \E k \in 1 .. g[y] : p = <<y, k>>
    BY <1>0, TokenIs
  <2>2. PICK k \in 1 .. g[y] : p = <<y, k>>
    BY <2>1
  <2>3. k \in 1 .. f[m[y]] /\ m[y] \in S
    BY <1>0
  <2>4. n[p] = <<m[y], k>>
    BY <2>2
  <2> HIDE DEF n
  <2> QED BY <1>0, <2>2, <2>3, <2>4, TokenIs
<1>2. n \in Injection(G, F)
  <2>1. n \in [G -> F]
    BY <1>1
  <2>2. ASSUME NEW p \in G, NEW q \in G, n[p] = n[q] PROVE p = q
    <3>1. <<m[p[1]], p[2]>> = <<m[q[1]], q[2]>>
      BY <2>2
    <3>a. m[p[1]] = m[q[1]] /\ p[2] = q[2]
      BY <3>1
    <3>2. p[1] = q[1]
      BY <1>0, <1>1, <3>a
    <3> QED BY <1>1, <3>a, <3>2
  <2> QED BY <2>1, <2>2 DEF Injection, IsInjective
<1>3. IsFiniteSet(F)
  BY <1>0, TokensFinite
<1> HIDE DEF F, G, n
<1>4. Cardinality(G) <= Cardinality(F) /\ IsFiniteSet(G)
  BY <1>2, <1>3, FS_Injection
<1> QED BY <1>4, FS_CardinalityType DEF SumOf, F, G

\* A change at one place.
LEMMA SumChange ==
  ASSUME NEW S, IsFiniteSet(S), NEW f \in [S -> Nat], NEW g \in [S -> Nat], NEW x \in S,
         \A y \in S \ {x} : g[y] = f[y]
  PROVE  SumOf(g) + f[x] = SumOf(f) + g[x] /\ SumOf(f) \in Nat /\ SumOf(g) \in Nat
<1>1. PICK R : R = S \ {x}
  OBVIOUS
<1>2. PICK r : r = [y \in R |-> f[y]]
  OBVIOUS
<1>3. IsFiniteSet(R) /\ r \in [R -> Nat] /\ x \notin R /\ S = R \cup {x}
  BY <1>1, <1>2, FS_RemoveElement
<1>5. (\A y \in R : f[y] = r[y]) /\ (\A y \in R : g[y] = r[y])
  BY <1>1, <1>2
<1>6. Grows(R, r, x, S, f) /\ Grows(R, r, x, S, g)
  BY <1>3, <1>5 DEF Grows
<1>7. SumOf(f) = SumOf(r) + f[x] /\ SumOf(g) = SumOf(r) + g[x]
  BY <1>6, SumPlus
<1>8. SumOf(r) \in Nat /\ f[x] \in Nat /\ g[x] \in Nat
  BY <1>3, TokensFinite
<1> QED BY <1>6, <1>7, <1>8

\* Zeros.
LEMMA SumZero ==
  ASSUME NEW S, NEW f \in [S -> Nat], \A x \in S : f[x] = 0
  PROVE  SumOf(f) = 0
<1>1. Tokens(f) = {}
  BY TokenIs
<1> QED BY <1>1, FS_EmptySet DEF SumOf

\* Powers of two, as numbers of subsets.
LEMMA PowersOfTwo ==
  ASSUME NEW n \in Nat
  PROVE  2 ^ n \in Nat /\ 2 ^ n >= 1 /\ 2 ^ (n + 1) = 2 * 2 ^ n
<1> DEFINE S == 1 .. n
           T == 1 .. (n + 1)
<1>1. IsFiniteSet(S) /\ Cardinality(S) = n /\ IsFiniteSet(T) /\ Cardinality(T) = n + 1
  <2>1. n + 1 \in Nat
    OBVIOUS
  <2> QED BY <2>1, CountTo
<1>2. /\ T = S \cup {n + 1} /\ n + 1 \notin S
  OBVIOUS
<1> HIDE DEF S, T
<1>3. /\ IsFiniteSet(SUBSET S) /\ Cardinality(SUBSET S) = 2 ^ n
      /\ IsFiniteSet(SUBSET T) /\ Cardinality(SUBSET T) = 2 ^ (n + 1)
  BY <1>1, FS_SUBSET
<1>4. Cardinality(SUBSET S) \in Nat /\ Cardinality(SUBSET S) # 0
  <2>1. SUBSET S # {}
    OBVIOUS
  <2> QED BY <1>3, <2>1, FS_CardinalityType, FS_EmptySet
<1>5. Cardinality(SUBSET T) = Cardinality(SUBSET S) * 2
  <2> DEFINE P == (SUBSET S) \X (1 .. 2)
             f == [p \in P |-> IF p[2] = 1 THEN p[1] ELSE p[1] \cup {n + 1}]
  <2>1. IsFiniteSet(1 .. 2) /\ Cardinality(1 .. 2) = 2
    BY CountTo
  <2>2. IsFiniteSet(P) /\ Cardinality(P) = Cardinality(SUBSET S) * 2
    BY <1>3, <2>1, FS_Product
  <2>3. f \in Bijection(P, SUBSET T)
    <3>1. f \in [P -> SUBSET T]
      BY <1>2
    <3>2. ASSUME NEW p \in P, NEW q \in P, f[p] = f[q] PROVE p = q
      <4>1. p[2] = q[2]
        BY <1>2, <3>2
      <4>2. p[1] \subseteq S /\ q[1] \subseteq S /\ p = <<p[1], p[2]>> /\ q = <<q[1], q[2]>>
        OBVIOUS
      <4>3. p[1] = q[1] \/ p[1] \cup {n + 1} = q[1] \cup {n + 1}
        BY <3>2, <4>1
      <4>4. p[1] = q[1]
        BY <1>2, <4>2, <4>3
      <4> QED BY <4>1, <4>2, <4>4
    <3>3. ASSUME NEW U \in SUBSET T PROVE \E p \in P : f[p] = U
      <4>1. CASE n + 1 \in U
        <5>1. PICK p : p = <<U \ {n + 1}, 2>>
          OBVIOUS
        <5>2. p \in P /\ f[p] = U
          BY <1>2, <4>1, <5>1
        <5> QED BY <5>2
      <4>2. CASE n + 1 \notin U
        <5>1. PICK p : p = <<U, 1>>
          OBVIOUS
        <5>2. p \in P /\ f[p] = U
          BY <1>2, <4>2, <5>1
        <5> QED BY <5>2
      <4> QED BY <4>1, <4>2
    <3> HIDE DEF f, P
    <3> QED BY <3>1, <3>2, <3>3 DEF Bijection, Injection, IsInjective, Surjection
  <2> HIDE DEF f, P
  <2>4. ExistsBijection(P, SUBSET T)
    BY <2>3 DEF ExistsBijection
  <2> QED BY <2>2, <2>4, FS_Bijection
<1> QED BY <1>3, <1>4, <1>5

\* g is a on S and b on T.
Parted(S, a, T, b, g) ==
  /\ IsFiniteSet(S) /\ IsFiniteSet(T) /\ S \cap T = {}
  /\ a \in [S -> Nat] /\ b \in [T -> Nat] /\ g \in [S \cup T -> Nat]
  /\ (\A x \in S : a[x] = g[x]) /\ \A x \in T : b[x] = g[x]

\* The sum over two disjoint sets is the sum of both.
LEMMA SumParts ==
  ASSUME NEW S, NEW a, NEW T, NEW b, NEW g, Parted(S, a, T, b, g)
  PROVE  SumOf(g) = SumOf(a) + SumOf(b)
<1>0. /\ IsFiniteSet(S) /\ IsFiniteSet(T) /\ S \cap T = {}
      /\ a \in [S -> Nat] /\ b \in [T -> Nat] /\ g \in [S \cup T -> Nat]
  BY DEF Parted
<1>2. /\ IsFiniteSet(Tokens(a)) /\ Cardinality(Tokens(a)) \in Nat
      /\ IsFiniteSet(Tokens(b)) /\ Cardinality(Tokens(b)) \in Nat
  BY <1>0, TokensFinite DEF SumOf
<1>3. \A x \in S : a[x] = g[x]
  BY DEF Parted
<1>4. \A x \in T : b[x] = g[x]
  BY DEF Parted
<1>5. ASSUME NEW p PROVE p \in Tokens(g) <=> p \in Tokens(a) \/ p \in Tokens(b)
  <2>1. p \in Tokens(g) <=> \E x \in S \cup T : \E k \in 1 .. g[x] : p = <<x, k>>
    BY <1>0, TokenIs
  <2>2. p \in Tokens(a) <=> \E x \in S : \E k \in 1 .. a[x] : p = <<x, k>>
    BY <1>0, TokenIs
  <2>3. p \in Tokens(b) <=> \E x \in T : \E k \in 1 .. b[x] : p = <<x, k>>
    BY <1>0, TokenIs
  <2> QED BY <1>3, <1>4, <2>1, <2>2, <2>3
<1>6. Tokens(a) \cap Tokens(b) = {}
  <2> SUFFICES ASSUME NEW p \in Tokens(a), p \in Tokens(b) PROVE FALSE
    OBVIOUS
  <2>1. PICK x \in S : \E k \in 1 .. a[x] : p = <<x, k>>
    BY <1>0, TokenIs
  <2>2. PICK y \in T : \E k \in 1 .. b[y] : p = <<y, k>>
    BY <1>0, TokenIs
  <2> QED BY <1>0, <2>1, <2>2
<1>7. Tokens(g) = Tokens(a) \cup Tokens(b)
  BY <1>5
<1>8. Cardinality(Tokens(a) \cup Tokens(b)) =
        Cardinality(Tokens(a)) + Cardinality(Tokens(b)) - Cardinality(Tokens(a) \cap Tokens(b))
  BY <1>2, FS_Union
<1>9. Cardinality(Tokens(a) \cap Tokens(b)) = 0
  BY <1>6, FS_EmptySet
<1> QED BY <1>2, <1>7, <1>8, <1>9 DEF SumOf

\* The same number at each of some places, and 0 elsewhere.
LEMMA SumSame ==
  ASSUME NEW S, IsFiniteSet(S), NEW E \in SUBSET S, NEW n \in Nat
  PROVE  SumOf([x \in S |-> IF x \in E THEN n ELSE 0]) = Cardinality(E) * n
<1>1. PICK f \in [S -> Nat] : f = [x \in S |-> IF x \in E THEN n ELSE 0]
  OBVIOUS
<1>2. PICK I : I = 1 .. n
  OBVIOUS
<1>3. ASSUME NEW p PROVE p \in Tokens(f) <=> p \in E \X I
  <2>1. p \in Tokens(f) <=> \E x \in S : \E k \in 1 .. f[x] : p = <<x, k>>
    BY TokenIs
  <2>2. \A x \in S : (x \in E => 1 .. f[x] = I) /\ (x \notin E => 1 .. f[x] = {})
    BY <1>1, <1>2
  <2> QED BY <2>1, <2>2
<1>4. Tokens(f) = E \X I
  BY <1>3
<1>5. IsFiniteSet(E) /\ IsFiniteSet(I) /\ Cardinality(I) = n
  BY <1>2, CountTo, FS_Subset
<1>6. Cardinality(E \X I) = Cardinality(E) * Cardinality(I)
  BY <1>5, FS_Product
<1> QED BY <1>1, <1>4, <1>5, <1>6 DEF SumOf
-----------------------------------------------------------------------------
(* What the copies of a task are worth together, in a sequence and in a bag *)

SeqWorth(s, w) == SumOf([i \in DOMAIN s |-> w[s[i]]])
BagWorth(b, w) == SumOf([p \in Tokens(b) |-> w[p[1]]])

\* One number more at the end of a list of numbers.
LEMMA SumNext ==
  ASSUME NEW n \in Nat, NEW f \in [1 .. n -> Nat], NEW g \in [1 .. n + 1 -> Nat],
         \A i \in 1 .. n : g[i] = f[i]
  PROVE  SumOf(g) = SumOf(f) + g[n + 1]
<1>1. PICK A, x, B : A = 1 .. n /\ x = n + 1 /\ B = 1 .. n + 1
  OBVIOUS
<1>2. IsFiniteSet(A) /\ x \notin A /\ B = A \cup {x}
  BY <1>1, CountTo
<1>3. f \in [A -> Nat] /\ g \in [B -> Nat] /\ \A y \in A : g[y] = f[y]
  BY <1>1
<1>4. Grows(A, f, x, B, g)
  BY <1>2, <1>3 DEF Grows
<1>5. SumOf(g) = SumOf(f) + g[x]
  BY <1>4, SumPlus
<1> QED BY <1>1, <1>5

\* The first of a list of numbers and the others.
LEMMA SumFirst ==
  ASSUME NEW n \in Nat, n # 0, NEW f \in [1 .. n -> Nat], NEW g \in [1 .. n - 1 -> Nat],
         \A i \in 1 .. n - 1 : g[i] = f[i + 1]
  PROVE  SumOf(f) = f[1] + SumOf(g) /\ SumOf(g) \in Nat
<1>1. PICK A, B, D, x, h : /\ A = 1 .. n - 1 /\ B = 2 .. n /\ D = 1 .. n /\ x = 1
                           /\ h = [i \in B |-> f[i]]
  OBVIOUS
<1>2. IsFiniteSet(A) /\ IsFiniteSet(B) /\ x \notin B /\ D = B \cup {x}
  <2>1. n - 1 \in Nat
    OBVIOUS
  <2>2. IsFiniteSet(A) /\ IsFiniteSet(D)
    BY <1>1, <2>1, CountTo
  <2>3. x \notin B /\ D = B \cup {x} /\ B \subseteq D
    BY <1>1
  <2> QED BY <2>2, <2>3, FS_Subset
<1>3. g \in [A -> Nat] /\ f \in [D -> Nat]
  BY <1>1
<1>4. h \in [B -> Nat] /\ \A y \in B : f[y] = h[y]
  BY <1>1, <1>2, <1>3
<1>5. SumOf(g) <= SumOf(h) /\ SumOf(g) \in Nat
  <2>1. PICK m : m = [i \in A |-> i + 1]
    OBVIOUS
  <2>2. m \in [A -> B] /\ (\A y, z \in A : m[y] = m[z] => y = z) /\ \A y \in A : g[y] <= h[m[y]]
    <3>1. \A y \in A : m[y] = y + 1 /\ y + 1 \in B /\ y \in Nat
      BY <1>1, <2>1
    <3>2. \A y \in A : g[y] = h[y + 1] /\ g[y] \in Nat
      BY <1>1, <1>3, <1>4, <3>1
    <3>3. m \in [A -> B]
      BY <2>1, <3>1
    <3>4. \A y, z \in A : m[y] = m[z] => y = z
      BY <3>1
    <3> QED BY <3>1, <3>2, <3>3, <3>4
  <2>3. Covers(B, h, A, g, m)
    BY <1>2, <1>3, <1>4, <2>2 DEF Covers
  <2> QED BY <2>3, SumInto
<1>6. SumOf(h) <= SumOf(g) /\ SumOf(h) \in Nat
  <2>1. PICK m : m = [i \in B |-> i - 1]
    OBVIOUS
  <2>2. m \in [B -> A] /\ (\A y, z \in B : m[y] = m[z] => y = z) /\ \A y \in B : h[y] <= g[m[y]]
    <3>1. \A y \in B : m[y] = y - 1 /\ y - 1 \in A /\ (y - 1) + 1 = y /\ y \in Nat
      BY <1>1, <2>1
    <3>2. \A y \in B : h[y] = g[y - 1] /\ h[y] \in Nat
      BY <1>1, <1>3, <1>4, <3>1
    <3>3. m \in [B -> A]
      BY <2>1, <3>1
    <3>4. \A y, z \in B : m[y] = m[z] => y = z
      BY <3>1
    <3> QED BY <3>1, <3>2, <3>3, <3>4
  <2>3. Covers(A, g, B, h, m)
    BY <1>2, <1>3, <1>4, <2>2 DEF Covers
  <2> QED BY <2>3, SumInto
<1>7. SumOf(f) = SumOf(h) + f[x]
  <2>1. Grows(B, h, x, D, f)
    BY <1>2, <1>3, <1>4 DEF Grows
  <2> QED BY <2>1, SumPlus
<1>8. f[x] \in Nat /\ f[x] = f[1]
  BY <1>1, <1>2, <1>3
<1>9. PICK a, b, c : a = SumOf(f) /\ b = SumOf(h) /\ c = SumOf(g)
  OBVIOUS
<1>10. b = c /\ b \in Nat
  BY <1>5, <1>6, <1>9
<1> QED BY ONLY <1>5, <1>7, <1>8, <1>9, <1>10

\* A sequence is worth its head and its tail, and Append adds what is appended.
LEMMA SeqWorths ==
  ASSUME NEW C, NEW w \in [C -> Nat], NEW s \in Seq(C)
  PROVE  /\ SeqWorth(s, w) \in Nat /\ SeqWorth(<<>>, w) = 0
         /\ \A c \in C : SeqWorth(Append(s, c), w) = SeqWorth(s, w) + w[c]
         /\ s # <<>> => /\ Head(s) \in C /\ Tail(s) \in Seq(C) /\ SeqWorth(Tail(s), w) \in Nat
                        /\ SeqWorth(s, w) = w[Head(s)] + SeqWorth(Tail(s), w)
<1>0. PICK n : n = Len(s)
  OBVIOUS
<1>1. n \in Nat /\ DOMAIN s = 1 .. n /\ \A i \in 1 .. n : s[i] \in C
  BY <1>0, LenProperties, ElementOfSeq
<1>2. PICK f : f = [i \in 1 .. n |-> w[s[i]]]
  OBVIOUS
<1>3. f \in [1 .. n -> Nat] /\ SeqWorth(s, w) = SumOf(f) /\ IsFiniteSet(1 .. n)
  BY <1>1, <1>2, CountTo DEF SeqWorth
<1>4. SeqWorth(s, w) \in Nat
  BY <1>3, TokensFinite
<1>5. SeqWorth(<<>>, w) = 0
  <2>1. PICK z : z = [i \in DOMAIN <<>> |-> w[<<>>[i]]]
    OBVIOUS
  <2>2. z \in [{} -> Nat]
    BY <2>1
  <2>3. SumOf(z) = 0
    BY <2>2, SumZero
  <2> QED BY <2>1, <2>3 DEF SeqWorth
<1>6. ASSUME NEW c \in C PROVE SeqWorth(Append(s, c), w) = SeqWorth(s, w) + w[c]
  <2>1. PICK q : q = Append(s, c)
    OBVIOUS
  <2>2. /\ q \in Seq(C) /\ Len(q) = n + 1 /\ q[n + 1] = c
        /\ \A i \in 1 .. n : q[i] = s[i]
    BY <1>0, <2>1, AppendProperties
  <2>3. DOMAIN q = 1 .. n + 1 /\ n + 1 \in 1 .. n + 1 /\ \A i \in 1 .. n + 1 : q[i] \in C
    BY <1>1, <2>2, LenProperties, ElementOfSeq
  <2>4. PICK g : g = [i \in 1 .. n + 1 |-> w[q[i]]]
    OBVIOUS
  <2>5. g \in [1 .. n + 1 -> Nat] /\ g[n + 1] = w[c]
    BY <2>2, <2>3, <2>4
  <2>6. \A i \in 1 .. n : i \in 1 .. n + 1 /\ g[i] = f[i]
    BY <1>1, <1>2, <2>2, <2>4
  <2>7. SumOf(g) = SumOf(f) + g[n + 1]
    BY ONLY <1>1, <1>3, <2>5, <2>6, SumNext
  <2> QED BY <1>3, <2>1, <2>3, <2>4, <2>5, <2>7 DEF SeqWorth
<1>7. ASSUME s # <<>>
      PROVE  /\ Head(s) \in C /\ Tail(s) \in Seq(C) /\ SeqWorth(Tail(s), w) \in Nat
             /\ SeqWorth(s, w) = w[Head(s)] + SeqWorth(Tail(s), w)
  <2>1. PICK q : q = Tail(s)
    OBVIOUS
  <2>2. /\ q \in Seq(C) /\ Len(q) = n - 1 /\ Head(s) = s[1] /\ Head(s) \in C
        /\ \A i \in 1 .. n - 1 : q[i] = s[i + 1]
    BY <1>0, <1>7, <2>1, HeadTailProperties
  <2>3. n # 0 /\ DOMAIN q = 1 .. n - 1 /\ \A i \in 1 .. n - 1 : q[i] \in C
    BY <1>0, <1>1, <1>7, <2>2, LenProperties, EmptySeq, ElementOfSeq
  <2>4. PICK g : g = [i \in 1 .. n - 1 |-> w[q[i]]]
    OBVIOUS
  <2>5. g \in [1 .. n - 1 -> Nat] /\ SeqWorth(q, w) = SumOf(g)
    BY <2>3, <2>4 DEF SeqWorth
  <2>6. \A i \in 1 .. n - 1 : g[i] = f[i + 1]
    <3> TAKE i \in 1 .. n - 1
    <3>1. i + 1 \in 1 .. n
      BY <1>1
    <3> QED BY <1>2, <2>2, <2>4, <3>1
  <2>7. SumOf(f) = f[1] + SumOf(g) /\ SumOf(g) \in Nat
    BY ONLY <1>1, <1>3, <2>3, <2>5, <2>6, SumFirst
  <2>8. f[1] = w[Head(s)]
    BY <1>1, <1>2, <2>2, <2>3
  <2> QED BY <1>3, <2>1, <2>2, <2>5, <2>7, <2>8
<1> QED BY <1>4, <1>5, <1>6, <1>7

\* q is s and then c.
Adds(C, w, s, c, q) == w \in [C -> Nat] /\ s \in Seq(C) /\ c \in C /\ q = Append(s, c)

\* The same for a sequence given by name.
LEMMA AppendWorth ==
  ASSUME NEW C, NEW w, NEW s, NEW c, NEW q, Adds(C, w, s, c, q)
  PROVE  /\ q \in Seq(C) /\ q # <<>>
         /\ SeqWorth(q, w) = SeqWorth(s, w) + w[c] /\ SeqWorth(q, w) \in Nat
<1>0. w \in [C -> Nat] /\ s \in Seq(C) /\ c \in C /\ q = Append(s, c)
  BY DEF Adds
<1>1. q \in Seq(C) /\ Len(q) = Len(s) + 1 /\ Len(s) \in Nat
  BY <1>0, AppendProperties, LenProperties
<1>2. Len(q) # 0
  BY <1>1
<1>3. \A d \in C : SeqWorth(Append(s, d), w) = SeqWorth(s, w) + w[d]
  BY <1>0, SeqWorths
<1>4. SeqWorth(q, w) \in Nat
  BY <1>0, <1>1, SeqWorths
<1> QED BY <1>0, <1>1, <1>2, <1>3, <1>4, EmptySeq

\* A bag has each of its elements at least once.
LEMMA BagTokens ==
  ASSUME NEW b, IsABag(b)
  PROVE  b \in [BagToSet(b) -> Nat] /\ \A c \in BagToSet(b) : b[c] > 0
BY DEF IsABag, BagToSet

\* One copy more.
LEMMA BagWorthPlus ==
  ASSUME NEW C, NEW w \in [C -> Nat], NEW b, IsABag(b), BagToSet(b) \subseteq C,
         IsFiniteSet(Tokens(b)), NEW c \in C
  PROVE  /\ BagWorth(b (+) SetToBag({c}), w) = BagWorth(b, w) + w[c]
         /\ IsFiniteSet(Tokens(b (+) SetToBag({c}))) /\ BagWorth(b, w) \in Nat
<1>1. PICK B : B = b (+) SetToBag({c})
  OBVIOUS
<1>2. PICK n : n = IF c \in DOMAIN b THEN b[c] ELSE 0
  OBVIOUS
<1>3. /\ b \in [DOMAIN b -> Nat] /\ DOMAIN b \subseteq C /\ n \in Nat
  BY <1>2, BagTokens DEF BagToSet
<1>4. /\ DOMAIN B = DOMAIN b \cup {c} /\ B[c] = n + 1
      /\ \A d \in DOMAIN b \ {c} : B[d] = b[d]
  BY <1>1, <1>2, <1>3 DEF (+), SetToBag
<1>5. B \in [DOMAIN B -> Nat]
  <2>1. IsABag(B)
    BY <1>1, BagDomains
  <2> QED BY <2>1, BagTokens DEF BagToSet
<1>6. PICK S, T, x : S = Tokens(b) /\ T = Tokens(B) /\ x = <<c, n + 1>>
  OBVIOUS
<1>7. \A p : p \in S <=> \E d \in DOMAIN b : \E k \in 1 .. b[d] : p = <<d, k>>
  BY <1>3, <1>6, TokenIs
<1>8. \A p : p \in T <=> \E d \in DOMAIN B : \E k \in 1 .. B[d] : p = <<d, k>>
  BY <1>5, <1>6, TokenIs
<1>9. x \notin S
  <2> SUFFICES ASSUME x \in S PROVE FALSE
    OBVIOUS
  <2>1. PICK d \in DOMAIN b : \E k \in 1 .. b[d] : x = <<d, k>>
    BY <1>7
  <2>2. d = c /\ n + 1 \in 1 .. b[d]
    BY <1>6, <2>1
  <2> QED BY <1>2, <1>3, <2>2
<1>10. T = S \cup {x}
  <2>1. ASSUME NEW p \in S PROVE p \in T
    <3>1. PICK d \in DOMAIN b : \E k \in 1 .. b[d] : p = <<d, k>>
      BY <1>7
    <3>2. PICK k \in 1 .. b[d] : p = <<d, k>>
      BY <3>1
    <3>3. d \in DOMAIN B /\ b[d] \in Nat /\ (d = c => b[d] = n) /\ (d # c => B[d] = b[d])
      BY <1>2, <1>3, <1>4
    <3>4. k \in 1 .. B[d]
      BY <1>4, <3>2, <3>3
    <3> QED BY <1>8, <3>2, <3>3, <3>4
  <2>2. x \in T
    <3>1. c \in DOMAIN B /\ n + 1 \in 1 .. B[c]
      BY <1>3, <1>4
    <3> QED BY <1>6, <1>8, <3>1
  <2>3. ASSUME NEW p \in T, p # x PROVE p \in S
    <3>1. PICK d \in DOMAIN B : \E k \in 1 .. B[d] : p = <<d, k>>
      BY <1>8
    <3>2. PICK k \in 1 .. B[d] : p = <<d, k>>
      BY <3>1
    <3>3. CASE d = c
      <4>1. k \in 1 .. n + 1 /\ k # n + 1
        BY <1>4, <1>6, <2>3, <3>2, <3>3
      <4>2. k \in 1 .. n /\ n # 0
        BY <1>3, <4>1
      <4>3. d \in DOMAIN b /\ k \in 1 .. b[d]
        BY <1>2, <3>3, <4>2
      <4> QED BY <1>7, <3>2, <4>3
    <3>4. CASE d # c
      <4>1. d \in DOMAIN b /\ k \in 1 .. b[d]
        BY <1>4, <3>2, <3>4
      <4> QED BY <1>7, <3>2, <4>1
    <3> QED BY <3>3, <3>4
  <2> QED BY <2>1, <2>2, <2>3
<1>11. PICK f, g : f = [p \in S |-> w[p[1]]] /\ g = [p \in T |-> w[p[1]]]
  OBVIOUS
<1>12. \A p \in T : p[1] \in C
  <2> TAKE p \in T
  <2>1. PICK d \in DOMAIN B : \E k \in 1 .. B[d] : p = <<d, k>>
    BY <1>8
  <2>2. PICK k \in 1 .. B[d] : p = <<d, k>>
    BY <2>1
  <2> QED BY <1>3, <1>4, <2>2
<1>13. f \in [S -> Nat] /\ g \in [T -> Nat] /\ \A y \in S : g[y] = f[y]
  BY <1>10, <1>11, <1>12
<1>14. Grows(S, f, x, T, g)
  BY <1>6, <1>9, <1>10, <1>13 DEF Grows
<1>15. SumOf(g) = SumOf(f) + g[x]
  BY <1>14, SumPlus
<1>16. g[x] = w[c]
  BY <1>6, <1>10, <1>11
<1>17. IsFiniteSet(T)
  <2>1. IsFiniteSet(S)
    BY <1>6
  <2>2. IsFiniteSet(S \cup {x})
    BY ONLY <2>1, FS_AddElement
  <2> QED BY <1>10, <2>2
<1>18. SumOf(f) \in Nat
  BY <1>6, <1>13, TokensFinite
<1> QED BY <1>1, <1>6, <1>11, <1>15, <1>16, <1>17, <1>18 DEF BagWorth

\* One copy less.
LEMMA BagWorthMinus ==
  ASSUME NEW C, NEW w \in [C -> Nat], NEW b, IsABag(b), BagToSet(b) \subseteq C,
         IsFiniteSet(Tokens(b)), NEW c \in BagToSet(b)
  PROVE  /\ BagWorth(b, w) = BagWorth(b (-) SetToBag({c}), w) + w[c]
         /\ IsFiniteSet(Tokens(b (-) SetToBag({c}))) /\ BagWorth(b (-) SetToBag({c}), w) \in Nat
<1>1. PICK B : B = b (-) SetToBag({c})
  OBVIOUS
<1>2. b \in [DOMAIN b -> Nat] /\ c \in DOMAIN b /\ c \in C /\ \A d \in DOMAIN b : b[d] > 0
  BY BagTokens DEF BagToSet
<1>3. IsABag(B) /\ BagToSet(B) \subseteq BagToSet(b)
  BY <1>1, BagDomains
<1>4. B (+) SetToBag({c}) = b
  <2>1. PICK A : A = SetToBag({c})
    OBVIOUS
  <2>2. A = [x \in {c} |-> 1]
    BY <2>1 DEF SetToBag
  <2>a. PICK E : E = [d \in DOMAIN b |-> IF d \in DOMAIN A THEN b[d] - A[d] ELSE b[d]]
    OBVIOUS
  <2>3. /\ \A d \in DOMAIN b : E[d] = (IF d = c THEN b[d] - 1 ELSE b[d])
        /\ B = [d \in {d \in DOMAIN b : E[d] > 0} |-> E[d]]
    BY <1>1, <2>1, <2>2, <2>a DEF (-)
  <2>4. \A d \in DOMAIN b \ {c} : d \in DOMAIN B /\ B[d] = b[d]
    BY <1>2, <2>3
  <2>5. IF b[c] = 1 THEN c \notin DOMAIN B ELSE c \in DOMAIN B /\ B[c] = b[c] - 1
    BY <1>2, <2>3
  <2>6. DOMAIN B \subseteq DOMAIN b
    BY <2>3
  <2>7. DOMAIN (B (+) A) = DOMAIN b
    BY <1>2, <2>2, <2>4, <2>6 DEF (+)
  <2>8. \A d \in DOMAIN b : (B (+) A)[d] = b[d]
    <3> TAKE d \in DOMAIN b
    <3>0. (B (+) A)[d] = (IF d \in DOMAIN B THEN B[d] ELSE 0) + (IF d \in DOMAIN A THEN A[d] ELSE 0)
      BY <2>2, <2>4, <2>6, <1>2 DEF (+)
    <3>1. CASE d = c
      BY <1>2, <2>2, <2>5, <3>0, <3>1
    <3>2. CASE d # c
      BY <1>2, <2>2, <2>4, <3>0, <3>2
    <3> QED BY <3>1, <3>2
  <2>9. B (+) A = [d \in DOMAIN (B (+) A) |-> (B (+) A)[d]]
    BY DEF (+)
  <2> QED BY <1>2, <2>1, <2>7, <2>8, <2>9
<1>5. IsFiniteSet(Tokens(B))
  <2>1. B \in [DOMAIN B -> Nat]
    BY <1>3, BagTokens DEF BagToSet
  <2>2. \A p : p \in Tokens(B) => p \in Tokens(b)
    <3> SUFFICES ASSUME NEW p, p \in Tokens(B) PROVE p \in Tokens(b)
      OBVIOUS
    <3>1. PICK d \in DOMAIN B : \E k \in 1 .. B[d] : p = <<d, k>>
      BY <2>1, TokenIs
    <3>2. PICK k \in 1 .. B[d] : p = <<d, k>>
      BY <3>1
    <3>3. d \in DOMAIN b /\ B[d] \in Nat /\ b[d] \in Nat /\ B[d] <= b[d]
      <4>1. d \in DOMAIN b /\ b[d] \in Nat /\ B[d] \in Nat
        BY <1>2, <1>3, <2>1 DEF BagToSet
      <4>2. (B (+) SetToBag({c}))[d] >= B[d]
        <5>1. d \in DOMAIN B \cup DOMAIN SetToBag({c})
          OBVIOUS
        <5>2. (B (+) SetToBag({c}))[d] = B[d] + (IF d = c THEN 1 ELSE 0)
          BY <5>1 DEF (+), SetToBag
        <5> QED BY <4>1, <5>2
      <4> QED BY <1>4, <4>1, <4>2
    <3>4. k \in 1 .. b[d]
      BY <3>3
    <3> QED BY <1>2, <3>2, <3>3, <3>4, TokenIs
  <2> QED BY <2>2, FS_Subset
<1>6. BagToSet(B) \subseteq C
  BY <1>3
<1>7. BagWorth(B (+) SetToBag({c}), w) = BagWorth(B, w) + w[c] /\ BagWorth(B, w) \in Nat
  BY <1>2, <1>3, <1>5, <1>6, BagWorthPlus
<1> QED BY <1>1, <1>4, <1>5, <1>7

\* ReplayAllDeadLetter: what is sent anew is worth at most what the dead letters,
\* fresh again, are.
LEMMA RenewedWorth ==
  ASSUME deadLetter \in Seq(Copies), NEW w \in [Copies -> Nat], IsABag(sending),
         BagToSet(sending) \subseteq Copies, IsFiniteSet(Tokens(sending)),
         NEW f, f = [i \in DOMAIN deadLetter |-> w[Fresh(deadLetter[i])]]
  PROVE  /\ IsFiniteSet(Tokens(sending (+) Renewed))
         /\ BagWorth(sending (+) Renewed, w) <= BagWorth(sending, w) + SumOf(f)
         /\ BagWorth(sending (+) Renewed, w) \in Nat
         /\ BagWorth(sending, w) \in Nat /\ SumOf(f) \in Nat
<1>1. PICK B, b, R, D : B = sending (+) Renewed /\ b = sending /\ R = Renewed /\ D = DOMAIN deadLetter
  OBVIOUS
<1>2. PICK with : with = [c \in DOMAIN R |-> {i \in D : Fresh(deadLetter[i]) = c}]
  OBVIOUS
<1>3. /\ DOMAIN R = {Fresh(deadLetter[i]) : i \in D}
      /\ \A c \in DOMAIN R : R[c] = Cardinality(with[c])
  BY <1>1, <1>2 DEF Renewed
<1>4. IsFiniteSet(D) /\ \A i \in D : deadLetter[i] \in Copies
  <2>1. Len(deadLetter) \in Nat /\ D = 1 .. Len(deadLetter)
    BY <1>1, LenProperties
  <2> QED BY <2>1, CountTo, ElementOfSeq
<1>5. DOMAIN R \subseteq Copies
  BY <1>3, <1>4, CopyFields
<1>6. f \in [D -> Nat] /\ SumOf(f) \in Nat /\ \A i \in D : f[i] = w[Fresh(deadLetter[i])]
  <2>1. \A i \in D : Fresh(deadLetter[i]) \in Copies
    BY <1>4, CopyFields
  <2>2. f \in [D -> Nat]
    BY <1>1, <2>1
  <2> QED BY <1>1, <1>4, <2>2, TokensFinite
<1>7. ASSUME NEW c \in DOMAIN R
      PROVE  R[c] \in Nat /\ \E j : j \in Bijection(1 .. R[c], with[c])
  <2>1. with[c] \subseteq D
    BY <1>2
  <2>2. IsFiniteSet(with[c])
    BY <1>4, <2>1, FS_Subset
  <2>3. Cardinality(with[c]) \in Nat /\ ExistsBijection(1 .. Cardinality(with[c]), with[c])
    BY <2>2, FS_CardinalityType
  <2> QED BY <1>3, <2>3 DEF ExistsBijection
<1>8. PICK J : J = [c \in DOMAIN R |-> CHOOSE j : j \in Bijection(1 .. R[c], with[c])]
  OBVIOUS
<1>9. ASSUME NEW c \in DOMAIN R
      PROVE  /\ \A k \in 1 .. R[c] : J[c][k] \in D /\ Fresh(deadLetter[J[c][k]]) = c
             /\ \A k, l \in 1 .. R[c] : J[c][k] = J[c][l] => k = l
  <2>1. J[c] \in Bijection(1 .. R[c], with[c])
    BY <1>7, <1>8
  <2>2. /\ J[c] \in [1 .. R[c] -> with[c]]
        /\ \A k, l \in 1 .. R[c] : J[c][k] = J[c][l] => k = l
    BY <2>1 DEF Bijection, Injection, IsInjective
  <2>3. \A k \in 1 .. R[c] : J[c][k] \in with[c]
    BY <2>2
  <2> QED BY <1>2, <2>2, <2>3
<1>10. PICK n : n = [c \in Copies |-> IF c \in DOMAIN b THEN b[c] ELSE 0]
  OBVIOUS
<1>11. /\ b \in [DOMAIN b -> Nat] /\ DOMAIN b \subseteq Copies
       /\ \A c \in Copies : n[c] \in Nat
  BY <1>1, <1>10, BagTokens DEF BagToSet
<1>12. /\ DOMAIN B = DOMAIN b \cup DOMAIN R
       /\ \A c \in DOMAIN B : B[c] = n[c] + (IF c \in DOMAIN R THEN R[c] ELSE 0)
  <2>1. DOMAIN B = DOMAIN b \cup DOMAIN R
    BY <1>1 DEF (+)
  <2>2. \A c \in DOMAIN B :
          B[c] = (IF c \in DOMAIN b THEN b[c] ELSE 0) + (IF c \in DOMAIN R THEN R[c] ELSE 0)
    BY <1>1, <2>1 DEF (+)
  <2>3. \A c \in DOMAIN B : n[c] = IF c \in DOMAIN b THEN b[c] ELSE 0
    BY <1>5, <1>10, <1>11, <2>1
  <2> QED BY <2>1, <2>2, <2>3
<1>13. B \in [DOMAIN B -> Nat]
  <2>1. IsABag(Renewed)
    BY RenewedIsBag
  <2>2. IsABag(B)
    BY <1>1, <2>1, BagSum
  <2> QED BY <2>2, BagTokens DEF BagToSet
<1>14. PICK S, T : S = Tokens(b) /\ T = Tokens(B)
  OBVIOUS
<1>15. \A p : p \in S <=> \E d \in DOMAIN b : \E k \in 1 .. b[d] : p = <<d, k>>
  BY <1>11, <1>14, TokenIs
<1>16. \A p : p \in T <=> \E d \in DOMAIN B : \E k \in 1 .. B[d] : p = <<d, k>>
  BY <1>13, <1>14, TokenIs
<1>17. PICK Y : Y = T \ S
  OBVIOUS
<1>18. ASSUME NEW p \in Y
       PROVE  p[1] \in DOMAIN R /\ p[2] - n[p[1]] \in 1 .. R[p[1]] /\ p = <<p[1], p[2]>> /\ p[2] \in Nat
  <2>1. PICK d \in DOMAIN B : \E k \in 1 .. B[d] : p = <<d, k>>
    BY <1>16, <1>17
  <2>2. PICK k \in 1 .. B[d] : p = <<d, k>>
    BY <2>1
  <2>3. d \in Copies /\ n[d] \in Nat
    BY <1>5, <1>11, <1>12
  <2>4. ~(k <= n[d])
    <3> SUFFICES ASSUME k <= n[d] PROVE FALSE
      OBVIOUS
    <3>1. d \in DOMAIN b /\ n[d] = b[d]
      BY <1>10, <2>3
    <3>2. k \in 1 .. b[d]
      BY <2>3, <3>1
    <3> QED BY <1>15, <1>17, <2>2, <3>1, <3>2
  <2>5. d \in DOMAIN R
    BY <1>12, <2>2, <2>3, <2>4
  <2>6. k - n[d] \in 1 .. R[d]
    BY <1>7, <1>12, <2>3, <2>4, <2>5
  <2> QED BY <2>2, <2>5, <2>6
<1>19. PICK m : m = [p \in Y |-> J[p[1]][p[2] - n[p[1]]]]
  OBVIOUS
<1>20. ASSUME NEW p \in Y PROVE m[p] \in D /\ Fresh(deadLetter[m[p]]) = p[1]
  BY <1>9, <1>18, <1>19
<1>21. ASSUME NEW p \in Y, NEW q \in Y, m[p] = m[q] PROVE p = q
  <2>1. p[1] = q[1]
    BY <1>20, <1>21
  <2>2. p[2] - n[p[1]] = q[2] - n[q[1]]
    <3>1. PICK c, k, l : c = p[1] /\ k = p[2] - n[p[1]] /\ l = q[2] - n[q[1]]
      OBVIOUS
    <3>2. c \in DOMAIN R /\ k \in 1 .. R[c] /\ l \in 1 .. R[c] /\ J[c][k] = J[c][l]
      BY <1>18, <1>19, <1>21, <2>1, <3>1
    <3> QED BY <1>9, <3>1, <3>2
  <2>3. n[p[1]] \in Nat /\ p[2] \in Nat /\ q[2] \in Nat
    BY <1>5, <1>11, <1>18
  <2>4. p[2] = q[2]
    BY <2>1, <2>2, <2>3
  <2> QED BY <1>18, <2>1, <2>4
<1>22. PICK g : g = [p \in Y |-> w[p[1]]]
  OBVIOUS
<1>23. g \in [Y -> Nat] /\ \A p \in Y : g[p] <= f[m[p]]
  <2>1. \A p \in Y : p[1] \in Copies /\ w[p[1]] \in Nat
    BY <1>5, <1>18
  <2>2. \A p \in Y : g[p] = f[m[p]]
    BY <1>6, <1>20, <1>22
  <2>3. g \in [Y -> Nat]
    BY <1>22, <2>1
  <2>4. \A p \in Y : g[p] \in Nat
    BY <2>3
  <2>5. ASSUME NEW p \in Y PROVE g[p] <= f[m[p]]
    <3>1. PICK a, b1 : a = g[p] /\ b1 = f[m[p]]
      OBVIOUS
    <3>2. a \in Nat /\ a = b1
      BY <2>2, <2>4, <3>1
    <3> QED BY ONLY <3>1, <3>2
  <2> QED BY <2>3, <2>5
<1>24. m \in [Y -> D]
  BY <1>19, <1>20
<1>25. Covers(D, f, Y, g, m)
  BY <1>4, <1>6, <1>21, <1>23, <1>24 DEF Covers
<1>26. SumOf(g) <= SumOf(f) /\ SumOf(g) \in Nat
  BY <1>25, SumInto
<1>27. IsFiniteSet(Y)
  <2>1. m \in Injection(Y, D)
    BY <1>21, <1>24 DEF Injection, IsInjective
  <2>2. IsFiniteSet(D)
    BY <1>4
  <2> QED BY ONLY <2>1, <2>2, FS_Injection
<1>28. T = S \cup Y /\ S \cap Y = {} /\ IsFiniteSet(S)
  <2>1. ASSUME NEW p \in S PROVE p \in T
    <3>1. PICK d \in DOMAIN b : \E k \in 1 .. b[d] : p = <<d, k>>
      BY <1>15
    <3>2. PICK k \in 1 .. b[d] : p = <<d, k>>
      BY <3>1
    <3>3. d \in DOMAIN B /\ b[d] \in Nat /\ n[d] = b[d] /\ d \in Copies
      BY <1>10, <1>11, <1>12
    <3>4. B[d] = b[d] + (IF d \in DOMAIN R THEN R[d] ELSE 0) /\ (d \in DOMAIN R => R[d] \in Nat)
      BY <1>7, <1>12, <3>3
    <3>5. k \in 1 .. B[d]
      BY <3>2, <3>3, <3>4
    <3> QED BY <1>16, <3>2, <3>3, <3>5
  <2> QED BY <1>1, <1>14, <1>17, <2>1
<1>29. IsFiniteSet(T)
  BY <1>27, <1>28, FS_Union
<1>30. PICK h : h = [p \in T |-> w[p[1]]]
  OBVIOUS
<1>31. \A p \in T : w[p[1]] \in Nat
  <2> TAKE p \in T
  <2>1. PICK d \in DOMAIN B : \E k \in 1 .. B[d] : p = <<d, k>>
    BY <1>16
  <2>2. PICK k \in 1 .. B[d] : p = <<d, k>>
    BY <2>1
  <2>3. p[1] \in Copies
    BY <1>5, <1>11, <1>12, <2>2
  <2> QED BY <2>3
<1>32. h \in [S \cup Y -> Nat]
  BY <1>28, <1>30, <1>31
<1>33. PICK a : a = [x \in S |-> w[x[1]]]
  OBVIOUS
<1>34. a \in [S -> Nat] /\ SumOf(a) \in Nat /\ (\A x \in S : a[x] = h[x]) /\ \A x \in Y : g[x] = h[x]
  <2>1. a \in [S -> Nat]
    BY <1>28, <1>31, <1>33
  <2>2. (\A x \in S : a[x] = h[x]) /\ \A x \in Y : g[x] = h[x]
    BY <1>22, <1>28, <1>30, <1>33
  <2> QED BY <1>28, <2>1, <2>2, TokensFinite
<1>35. Parted(S, a, Y, g, h)
  BY <1>23, <1>27, <1>28, <1>32, <1>34 DEF Parted
<1>36. SumOf(h) = SumOf(a) + SumOf(g)
  BY <1>35, SumParts
<1>37. BagWorth(B, w) = SumOf(h) /\ BagWorth(b, w) = SumOf(a)
  BY <1>14, <1>30, <1>33 DEF BagWorth
<1> QED BY <1>1, <1>6, <1>14, <1>26, <1>29, <1>34, <1>36, <1>37

\* A goroutine in processTask.
Busy(p, t) == p[t] \in {"deliver", "lastDeliver"}

\* What goroutine t holds, when k is left of the pass it is in.
HandWorth(on, s, w, k) == IF on THEN k + SeqWorth(Tail(s), w) ELSE SeqWorth(s, w)
HandsWorth(p, hs, w, v) == SumOf([t \in Threads |-> HandWorth(Busy(p, t), hs[t], w, v[t])])

\* A goroutine that delivers has a task.
Places(p, hs) ==
  /\ p \in [Threads -> {"off", "select", "deliver", "lastDeliver"}]
  /\ hs \in [Threads -> Seq(Copies)]
  /\ \A t \in Threads : Busy(p, t) => hs[t] # <<>>

\* So it is at every moment.
LEMMA PlacesOf == ASSUME InPlace PROVE Places(pc, hand)
BY DEF InPlace, Places, Busy, Delivering

\* The notifier has finitely many goroutines.
LEMMA ThreadsFinite == IsFiniteSet(Threads)
<1>1. MaxExtras + 1 \in Nat /\ WorkerCount \in Nat /\ 0 \in Int
  BY NotifierAssumption
<1>2. IsFiniteSet(1 .. MaxExtras + 1)
  BY <1>1, CountTo
<1>3. IsFiniteSet(0 .. WorkerCount)
  <2>1. 0 .. WorkerCount = (1 .. WorkerCount) \cup {0}
    BY <1>1
  <2>2. IsFiniteSet(1 .. WorkerCount)
    BY <1>1, CountTo
  <2>3. IsFiniteSet((1 .. WorkerCount) \cup {0})
    BY <2>2, FS_AddElement
  <2> QED BY <2>1, <2>3
<1>4. PICK A, B : A = 1 .. MaxExtras + 1 /\ B = 0 .. WorkerCount
  OBVIOUS
<1>5. IsFiniteSet(A \X B)
  BY <1>2, <1>3, <1>4, FS_Product
<1> QED BY <1>4, <1>5 DEF Threads

\* What one goroutine holds: its tasks, and of the one it processes what is left.
LEMMA HandWorths ==
  ASSUME NEW p, NEW hs, Places(p, hs), NEW w \in [Copies -> Nat], NEW v \in [Threads -> Nat],
         NEW t \in Threads
  PROVE  /\ HandWorth(Busy(p, t), hs[t], w, v[t]) \in Nat /\ SeqWorth(hs[t], w) \in Nat
         /\ Busy(p, t) => /\ Tail(hs[t]) \in Seq(Copies) /\ SeqWorth(Tail(hs[t]), w) \in Nat
                          /\ HandWorth(Busy(p, t), hs[t], w, v[t]) = v[t] + SeqWorth(Tail(hs[t]), w)
         /\ ~Busy(p, t) => HandWorth(Busy(p, t), hs[t], w, v[t]) = SeqWorth(hs[t], w)
<1>1. PICK s \in Seq(Copies) : s = hs[t]
  BY DEF Places
<1>2. SeqWorth(s, w) \in Nat /\ (s # <<>> => SeqWorth(Tail(s), w) \in Nat /\ Tail(s) \in Seq(Copies))
  BY SeqWorths
<1>3. Busy(p, t) => s # <<>>
  BY <1>1 DEF Places
<1>4. v[t] \in Nat
  OBVIOUS
<1> QED BY <1>1, <1>2, <1>3, <1>4 DEF HandWorth

\* What all of them hold is worth a number.
LEMMA HandsNat ==
  ASSUME NEW p, NEW hs, Places(p, hs), NEW w \in [Copies -> Nat], NEW v \in [Threads -> Nat]
  PROVE  HandsWorth(p, hs, w, v) \in Nat
<1>1. PICK f : f = [t \in Threads |-> HandWorth(Busy(p, t), hs[t], w, v[t])]
  OBVIOUS
<1>2. \A t \in Threads : HandWorth(Busy(p, t), hs[t], w, v[t]) \in Nat
  BY HandWorths
<1>3. f \in [Threads -> Nat]
  BY <1>1, <1>2
<1>4. SumOf(f) \in Nat
  BY ONLY <1>3, ThreadsFinite, TokensFinite
<1> QED BY <1>1, <1>4 DEF HandsWorth

\* Only goroutine t moves.
OneMoves(p, hs, v, q, js, u, t) ==
  /\ Places(p, hs) /\ Places(q, js) /\ v \in [Threads -> Nat] /\ u \in [Threads -> Nat]
  /\ \A x \in Threads \ {t} : q[x] = p[x] /\ js[x] = hs[x] /\ u[x] = v[x]

\* When one goroutine moves, the worth changes by what it holds.
LEMMA OneHand ==
  ASSUME NEW p, NEW hs, NEW v, NEW q, NEW js, NEW u, NEW t \in Threads,
         OneMoves(p, hs, v, q, js, u, t), NEW w \in [Copies -> Nat]
  PROVE  HandsWorth(q, js, w, u) + HandWorth(Busy(p, t), hs[t], w, v[t])
           = HandsWorth(p, hs, w, v) + HandWorth(Busy(q, t), js[t], w, u[t])
<1>0. /\ Places(p, hs) /\ Places(q, js) /\ v \in [Threads -> Nat] /\ u \in [Threads -> Nat]
      /\ \A x \in Threads \ {t} : q[x] = p[x] /\ js[x] = hs[x] /\ u[x] = v[x]
  BY DEF OneMoves
<1>1. PICK f, g : /\ f = [x \in Threads |-> HandWorth(Busy(p, x), hs[x], w, v[x])]
                  /\ g = [x \in Threads |-> HandWorth(Busy(q, x), js[x], w, u[x])]
  OBVIOUS
<1>2. f \in [Threads -> Nat] /\ g \in [Threads -> Nat]
  <2>1. \A x \in Threads : HandWorth(Busy(p, x), hs[x], w, v[x]) \in Nat
    BY <1>0, HandWorths
  <2>2. \A x \in Threads : HandWorth(Busy(q, x), js[x], w, u[x]) \in Nat
    BY <1>0, HandWorths
  <2> QED BY <1>1, <2>1, <2>2
<1>3. \A y \in Threads \ {t} : g[y] = f[y]
  BY <1>0, <1>1 DEF Busy
<1>4. SumOf(g) + f[t] = SumOf(f) + g[t]
  BY ONLY <1>2, <1>3, t \in Threads, ThreadsFinite, SumChange
<1> QED BY <1>1, <1>4 DEF HandsWorth

\* Nothing that is read moves.
LEMMA NoHand ==
  ASSUME NEW p, NEW hs, NEW q, NEW js, NEW w, NEW v,
         \A x \in Threads : (Busy(q, x) <=> Busy(p, x)) /\ js[x] = hs[x]
  PROVE  HandsWorth(q, js, w, v) = HandsWorth(p, hs, w, v)
<1>1. \A x \in Threads : HandWorth(Busy(q, x), js[x], w, v[x]) = HandWorth(Busy(p, x), hs[x], w, v[x])
  BY DEF HandWorth
<1> QED BY <1>1 DEF HandsWorth

\* Goroutine t begins a pass with the copy c.
Started(t, c) ==
  /\ Busy(pc', t) /\ c = Head(hand'[t]) /\ todo'[t] = c.hooks
  /\ passes' = [passes EXCEPT ![c.event] = @ + 1]

\* Goroutine t begins a pass with the tasks.
LEMMA PassWorth ==
  ASSUME InPlace, NEW t \in Threads, NEW batch \in Seq(Copies), batch # <<>>,
         NEW label \in {"deliver", "lastDeliver"}, StartPass(t, batch, label),
         NEW w \in [Copies -> Nat], NEW v \in [Threads -> Nat], NEW u \in [Threads -> Nat],
         \A x \in Threads \ {t} : u[x] = v[x]
  PROVE  /\ Head(batch) \in Copies /\ Started(t, Head(batch)) /\ SeqWorth(batch, w) \in Nat
         /\ HandsWorth(pc', hand', w, u) \in Nat /\ HandsWorth(pc, hand, w, v) \in Nat
         /\ HandWorth(Busy(pc, t), hand[t], w, v[t]) \in Nat
         /\ HandsWorth(pc', hand', w, u) + HandWorth(Busy(pc, t), hand[t], w, v[t]) + w[Head(batch)]
              = HandsWorth(pc, hand, w, v) + u[t] + SeqWorth(batch, w)
<1>1. Places(pc, hand)
  BY PlacesOf
<1>2. /\ pc' \in [Threads -> {"off", "select", "deliver", "lastDeliver"}]
      /\ hand' \in [Threads -> Seq(Copies)]
      /\ \A x \in Threads : Delivering(x)' => hand'[x] # <<>>
      /\ \A x \in Threads \ {t} : Unmoved(x)
  BY PassHolds
<1>3. Places(pc', hand')
  BY <1>2 DEF Places, Busy, Delivering
<1>4. pc'[t] = label /\ hand'[t] = batch /\ todo'[t] = Head(batch).hooks
  BY DEF StartPass, InPlace
<1>5. passes' = [passes EXCEPT ![Head(batch).event] = @ + 1]
  BY DEF StartPass
<1>6. /\ Head(batch) \in Copies /\ SeqWorth(batch, w) \in Nat /\ SeqWorth(Tail(batch), w) \in Nat
      /\ SeqWorth(batch, w) = w[Head(batch)] + SeqWorth(Tail(batch), w)
  BY SeqWorths
<1>7. \A x \in Threads \ {t} : pc'[x] = pc[x] /\ hand'[x] = hand[x] /\ u[x] = v[x]
  BY <1>2 DEF Unmoved
<1>8. PICK a, b, c, d : /\ a = HandsWorth(pc', hand', w, u) /\ b = HandsWorth(pc, hand, w, v)
                        /\ c = HandWorth(Busy(pc, t), hand[t], w, v[t])
                        /\ d = HandWorth(Busy(pc', t), hand'[t], w, u[t])
  OBVIOUS
<1>9. a \in Nat /\ b \in Nat /\ c \in Nat /\ d \in Nat
  BY <1>1, <1>3, <1>8, HandWorths, HandsNat
<1>10. a + c = b + d
  <2>1. HandsWorth(pc', hand', w, u) + HandWorth(Busy(pc, t), hand[t], w, v[t])
          = HandsWorth(pc, hand, w, v) + HandWorth(Busy(pc', t), hand'[t], w, u[t])
    <3>1. OneMoves(pc, hand, v, pc', hand', u, t)
      BY <1>1, <1>3, <1>7 DEF OneMoves
    <3> QED BY <3>1, OneHand
  <2> QED BY <1>8, <2>1
<1>11. Busy(pc', t)
  BY <1>4 DEF Busy
<1>12. d = u[t] + SeqWorth(Tail(batch), w) /\ u[t] \in Nat /\ w[Head(batch)] \in Nat
  BY <1>4, <1>6, <1>8, <1>11 DEF HandWorth
<1>13. Started(t, Head(batch))
  BY <1>4, <1>5, <1>11 DEF Started
<1>14. PICK k, n, m, l : /\ k = SeqWorth(batch, w) /\ n = w[Head(batch)]
                         /\ m = SeqWorth(Tail(batch), w) /\ l = u[t]
  OBVIOUS
<1>15. k \in Nat /\ n \in Nat /\ m \in Nat /\ l \in Nat /\ k = n + m /\ d = l + m
  BY <1>6, <1>12, <1>14
<1>16. a + c + n = b + l + k
  BY ONLY <1>9, <1>10, <1>15
<1> QED BY <1>6, <1>8, <1>9, <1>13, <1>14, <1>16

\* The head and the tail of a sequence made of them.
LEMMA ConsIs ==
  ASSUME NEW S, NEW c \in S, NEW r \in Seq(S)
  PROVE  <<c>> \o r \in Seq(S) /\ Head(<<c>> \o r) = c /\ Tail(<<c>> \o r) = r /\ <<c>> \o r # <<>>
<1>1. PICK q : q = <<c>> \o r
  OBVIOUS
<1>2. <<c>> \in Seq(S) /\ Len(<<c>>) = 1 /\ <<c>>[1] = c /\ Len(r) \in Nat
  OBVIOUS
<1>3. /\ q \in Seq(S) /\ Len(q) = 1 + Len(r)
      /\ \A i \in 1 .. 1 + Len(r) : q[i] = IF i <= 1 THEN <<c>>[i] ELSE r[i - 1]
  BY <1>1, <1>2, ConcatProperties
<1>4. q # <<>> /\ q[1] = c
  <2>1. Len(q) # 0 /\ 1 \in 1 .. 1 + Len(r)
    BY <1>2, <1>3
  <2> QED BY <1>2, <1>3, <2>1, EmptySeq
<1>5. /\ Head(q) = q[1] /\ Tail(q) \in Seq(S) /\ Len(Tail(q)) = Len(q) - 1
      /\ \A i \in 1 .. Len(Tail(q)) : Tail(q)[i] = q[i + 1]
  BY <1>3, <1>4, HeadTailProperties
<1>6. Len(Tail(q)) = Len(r)
  BY <1>2, <1>3, <1>5
<1>7. \A i \in 1 .. Len(r) : Tail(q)[i] = r[i]
  <2> TAKE i \in 1 .. Len(r)
  <2>1. i + 1 \in 1 .. 1 + Len(r) /\ ~(i + 1 <= 1) /\ (i + 1) - 1 = i
    BY <1>2
  <2> QED BY <1>3, <1>5, <1>6, <2>1
<1>8. Tail(q) = r
  BY <1>5, <1>6, <1>7, SeqEqual
<1> QED BY <1>1, <1>3, <1>4, <1>5, <1>8

\* The turn for webhook h0 is over, and k was left of the pass.
LEMMA ProceedWorth ==
  ASSUME InPlace, NEW t \in Threads, NEW h0 \in todo[t], Delivering(t),
         NEW task \in Copies, task.event = Head(hand[t]).event, Proceed(t, h0, task),
         NEW w \in [Copies -> Nat], NEW v \in [Threads -> Nat], NEW u \in [Threads -> Nat],
         \A x \in Threads \ {t} : u[x] = v[x]
  PROVE  /\ HandsWorth(pc', hand', w, u) \in Nat /\ HandsWorth(pc, hand, w, v) \in Nat
         /\ \/ /\ Busy(pc', t) /\ Head(hand'[t]) = task /\ todo'[t] = todo[t] \ {h0}
               /\ passes' = passes
               /\ HandsWorth(pc', hand', w, u) + v[t] <= HandsWorth(pc, hand, w, v) + u[t]
            \/ \E c \in Copies :
                 /\ Started(t, c)
                 /\ HandsWorth(pc', hand', w, u) + v[t] + w[c] <= HandsWorth(pc, hand, w, v) + u[t]
            \/ /\ ~Busy(pc', t) /\ passes' = passes
               /\ HandsWorth(pc', hand', w, u) + v[t] <= HandsWorth(pc, hand, w, v)
<1>1. Places(pc, hand)
  BY PlacesOf
<1>2. /\ pc' \in [Threads -> {"off", "select", "deliver", "lastDeliver"}]
      /\ hand' \in [Threads -> Seq(Copies)]
      /\ \A x \in Threads : Delivering(x)' => hand'[x] # <<>>
      /\ \A x \in Threads \ {t} : Unmoved(x)
  BY ProceedHolds
<1>3. Places(pc', hand')
  BY <1>2 DEF Places, Busy, Delivering
<1>4. \A x \in Threads \ {t} : pc'[x] = pc[x] /\ hand'[x] = hand[x] /\ u[x] = v[x]
  BY <1>2 DEF Unmoved
<1>5. OneMoves(pc, hand, v, pc', hand', u, t)
  BY <1>1, <1>3, <1>4 DEF OneMoves
<1>6. PICK a, b, c, d : /\ a = HandsWorth(pc', hand', w, u) /\ b = HandsWorth(pc, hand, w, v)
                        /\ c = HandWorth(Busy(pc, t), hand[t], w, v[t])
                        /\ d = HandWorth(Busy(pc', t), hand'[t], w, u[t])
  OBVIOUS
<1>7. a \in Nat /\ b \in Nat /\ c \in Nat /\ d \in Nat
  BY <1>1, <1>3, <1>6, HandWorths, HandsNat
<1>8. a + c = b + d
  <2>1. HandsWorth(pc', hand', w, u) + HandWorth(Busy(pc, t), hand[t], w, v[t])
          = HandsWorth(pc, hand, w, v) + HandWorth(Busy(pc', t), hand'[t], w, u[t])
    BY <1>5, OneHand
  <2> QED BY <1>6, <2>1
<1>9. Busy(pc, t) /\ pc[t] \in {"deliver", "lastDeliver"}
  BY DEF Busy, Delivering
<1>10. PICK s \in Seq(Copies) : s = hand[t]
  BY <1>1 DEF Places
<1>11. s # <<>>
  BY <1>1, <1>9, <1>10 DEF Places
<1>12. PICK r, m, k, l : r = Tail(s) /\ m = SeqWorth(r, w) /\ k = v[t] /\ l = u[t]
  OBVIOUS
<1>13. r \in Seq(Copies) /\ m \in Nat /\ k \in Nat /\ l \in Nat /\ c = k + m
  <2>1. r \in Seq(Copies) /\ m \in Nat
    BY <1>11, <1>12, SeqWorths
  <2>2. c = k + m
    BY <1>6, <1>9, <1>10, <1>12 DEF HandWorth
  <2> QED BY <1>12, <2>1, <2>2
<1>14. /\ hand \in [Threads -> Seq(Copies)] /\ todo \in [Threads -> SUBSET Hooks]
       /\ pc \in [Threads -> {"off", "select", "deliver", "lastDeliver"}]
  BY DEF InPlace
<1>15. CASE todo[t] # {h0}
  <2>1. PICK q : q = <<task>> \o r
    OBVIOUS
  <2>2. Head(q) = task /\ Tail(q) = r
    BY <1>13, <2>1, ConsIs
  <2>3. /\ todo' = [todo EXCEPT ![t] = todo[t] \ {h0}] /\ hand' = [hand EXCEPT ![t] = q]
        /\ pc' = pc /\ passes' = passes
    BY <1>10, <1>12, <1>15, <2>1, Zenon DEF Proceed
  <2>4. todo'[t] = todo[t] \ {h0} /\ hand'[t] = q /\ pc'[t] = pc[t]
    BY <1>14, <2>3
  <2>5. Busy(pc', t)
    BY <1>9, <2>4 DEF Busy
  <2>6. d = l + m
    BY <1>6, <1>12, <2>2, <2>4, <2>5 DEF HandWorth
  <2>7. a + k <= b + l
    BY ONLY <1>7, <1>8, <1>13, <2>6
  <2> QED BY <1>6, <1>7, <1>12, <2>2, <2>3, <2>4, <2>5, <2>7
<1>16. CASE todo[t] = {h0} /\ Len(s) > 1
  <2>1. StartPass(t, r, pc[t])
    BY <1>10, <1>12, <1>16 DEF Proceed
  <2>2. r # <<>>
    <3>1. Len(r) = Len(s) - 1 /\ Len(s) \in Nat
      <4>1. Len(Tail(s)) = Len(s) - 1
        BY <1>11, HeadTailProperties
      <4> QED BY <1>12, <4>1, LenProperties
    <3>2. Len(r) # 0
      <4>1. \A x \in Nat : x > 1 => x - 1 # 0
        OBVIOUS
      <4> QED BY <1>16, <3>1, <4>1
    <3> QED BY <3>2
  <2>3. /\ Head(r) \in Copies /\ Started(t, Head(r))
        /\ HandsWorth(pc', hand', w, u) + HandWorth(Busy(pc, t), hand[t], w, v[t]) + w[Head(r)]
             = HandsWorth(pc, hand, w, v) + u[t] + SeqWorth(r, w)
    BY <1>9, <1>13, <2>1, <2>2, PassWorth
  <2>4. PICK n : n = w[Head(r)]
    OBVIOUS
  <2>5. n \in Nat
    BY <2>3, <2>4
  <2>6. a + c + n = b + l + m
    BY <1>6, <1>12, <2>3, <2>4
  <2>7. a + k + n <= b + l
    <3>1. \A a1, b1, k1, l1, m1, n1 \in Nat :
            a1 + (k1 + m1) + n1 = b1 + l1 + m1 => a1 + k1 + n1 <= b1 + l1
      OBVIOUS
    <3> QED BY <1>7, <1>13, <2>5, <2>6, <3>1
  <2> QED BY <1>6, <1>7, <1>12, <2>3, <2>4, <2>7
<1>17. CASE todo[t] = {h0} /\ ~(Len(s) > 1)
  <2>1. /\ pc' = [pc EXCEPT ![t] = IF pc[t] = "deliver" THEN "select" ELSE "off"]
        /\ hand' = [hand EXCEPT ![t] = <<>>] /\ passes' = passes
    BY <1>10, <1>17 DEF Proceed
  <2>2. hand'[t] = <<>> /\ ~Busy(pc', t)
    BY <1>14, <2>1 DEF Busy
  <2>3. d = 0
    BY <1>6, <1>13, <2>2, SeqWorths DEF HandWorth
  <2>4. a + k <= b
    BY ONLY <1>7, <1>8, <1>13, <2>3
  <2> QED BY <1>6, <1>7, <1>12, <2>1, <2>2, <2>4
<1> QED BY <1>15, <1>16, <1>17

\* A copy of event e may still lead to that many passes, itself included.
Worth(e) == [c \in Copies |-> IF c.event = e THEN 2 ^ (MaxRetries - c.retries) ELSE 0]

\* And to so many more when it is being processed.
LeftOf(p, hs, e) ==
  [t \in Threads |-> IF Busy(p, t) /\ Head(hs[t]).event = e THEN Worth(e)[Head(hs[t])] - 1 ELSE 0]

\* What a copy is worth: 2^MaxRetries when fresh, twice that of its retry.
LEMMA WorthIs ==
  ASSUME NEW e
  PROVE  /\ 2 ^ MaxRetries \in Nat /\ Worth(e) \in [Copies -> Nat]
         /\ \A c \in Copies :
              /\ c.event # e => Worth(e)[c] = 0
              /\ c.event = e =>
                   /\ Worth(e)[c] >= 1
                   /\ c.retries = 0 => Worth(e)[c] = 2 ^ MaxRetries
                   /\ \A d \in Copies : d.event = e /\ c.retries + 1 = d.retries =>
                        Worth(e)[c] = 2 * Worth(e)[d]
<1>1. MaxRetries \in Nat
  BY NotifierAssumption
<1>2. 2 ^ MaxRetries \in Nat
  BY <1>1, PowersOfTwo
<1>3. ASSUME NEW c \in Copies, c.event = e
      PROVE  /\ MaxRetries - c.retries \in Nat /\ c.retries \in Nat
             /\ Worth(e)[c] = 2 ^ (MaxRetries - c.retries) /\ Worth(e)[c] \in Nat /\ Worth(e)[c] >= 1
  <2>1. c.retries \in 0 .. MaxRetries
    BY CopyFields
  <2>2. MaxRetries - c.retries \in Nat /\ c.retries \in Nat
    BY <1>1, <2>1
  <2>3. Worth(e)[c] = 2 ^ (MaxRetries - c.retries)
    BY <1>3 DEF Worth
  <2> QED BY <2>2, <2>3, PowersOfTwo
<1>4. \A c \in Copies : c.event # e => Worth(e)[c] = 0
  BY DEF Worth
<1>5. Worth(e) \in [Copies -> Nat]
  <2>1. \A c \in Copies : Worth(e)[c] \in Nat
    BY <1>3, <1>4
  <2>2. Worth(e) = [c \in Copies |-> Worth(e)[c]]
    BY DEF Worth
  <2> QED BY <2>1, <2>2
<1>6. ASSUME NEW c \in Copies, c.event = e, c.retries = 0
      PROVE  Worth(e)[c] = 2 ^ MaxRetries
  <2>1. MaxRetries - c.retries = MaxRetries
    BY <1>1, <1>6
  <2> QED BY <1>3, <1>6, <2>1
<1>7. ASSUME NEW c \in Copies, c.event = e, NEW d \in Copies, d.event = e, c.retries + 1 = d.retries
      PROVE  Worth(e)[c] = 2 * Worth(e)[d]
  <2>1. PICK n : n = MaxRetries - d.retries
    OBVIOUS
  <2>2. n \in Nat /\ MaxRetries - c.retries = n + 1
    BY <1>1, <1>3, <1>7, <2>1
  <2>3. 2 ^ (n + 1) = 2 * 2 ^ n
    BY <2>2, PowersOfTwo
  <2> QED BY <1>3, <1>7, <2>1, <2>2, <2>3
<1> QED BY <1>2, <1>3, <1>4, <1>5, <1>6, <1>7

\* What is left of a pass under way: its task's worth without the pass itself.
LEMMA LeftIs ==
  ASSUME NEW e, NEW p, NEW hs, Places(p, hs)
  PROVE  /\ LeftOf(p, hs, e) \in [Threads -> Nat]
         /\ \A t \in Threads :
              /\ ~Busy(p, t) => LeftOf(p, hs, e)[t] = 0
              /\ Busy(p, t) =>
                   /\ Head(hs[t]) \in Copies
                   /\ Head(hs[t]).event # e => LeftOf(p, hs, e)[t] = 0
                   /\ Head(hs[t]).event = e => LeftOf(p, hs, e)[t] + 1 = Worth(e)[Head(hs[t])]
<1>1. ASSUME NEW t \in Threads, Busy(p, t) PROVE Head(hs[t]) \in Copies
  <2>1. PICK s \in Seq(Copies) : s = hs[t]
    BY DEF Places
  <2>2. s # <<>>
    BY <1>1, <2>1 DEF Places
  <2> QED BY <2>1, <2>2, RangeTail
<1>2. ASSUME NEW t \in Threads
      PROVE  /\ LeftOf(p, hs, e)[t] \in Nat
             /\ ~Busy(p, t) => LeftOf(p, hs, e)[t] = 0
             /\ Busy(p, t) =>
                  /\ Head(hs[t]).event # e => LeftOf(p, hs, e)[t] = 0
                  /\ Head(hs[t]).event = e => LeftOf(p, hs, e)[t] + 1 = Worth(e)[Head(hs[t])]
  <2>1. CASE Busy(p, t) /\ Head(hs[t]).event = e
    <3>1. LeftOf(p, hs, e)[t] = Worth(e)[Head(hs[t])] - 1
      BY <2>1 DEF LeftOf
    <3>2. Worth(e)[Head(hs[t])] \in Nat /\ Worth(e)[Head(hs[t])] >= 1
      BY <1>1, <2>1, WorthIs
    <3> QED BY <2>1, <3>1, <3>2
  <2>2. CASE ~(Busy(p, t) /\ Head(hs[t]).event = e)
    <3>1. LeftOf(p, hs, e)[t] = 0
      BY <2>2 DEF LeftOf
    <3> QED BY <2>2, <3>1
  <2> QED BY <2>1, <2>2
<1>3. LeftOf(p, hs, e) \in [Threads -> Nat]
  <2>1. LeftOf(p, hs, e) = [t \in Threads |-> LeftOf(p, hs, e)[t]]
    BY DEF LeftOf
  <2> QED BY <1>2, <2>1
<1> QED BY <1>1, <1>2, <1>3

\* A goroutine outside processTask takes tasks, and may begin a pass.
LEMMA TakesWorth ==
  ASSUME InPlace, InPlace', NEW t \in Threads, Receive(t) \/ BatchTick(t) \/ SeeStop(t),
         NEW w \in [Copies -> Nat], NEW v \in [Threads -> Nat], NEW u \in [Threads -> Nat],
         \A x \in Threads \ {t} : u[x] = v[x]
  PROVE  /\ HandsWorth(pc', hand', w, u) \in Nat /\ HandsWorth(pc, hand, w, v) \in Nat
         /\ SeqWorth(taskCh', w) \in Nat /\ SeqWorth(taskCh, w) \in Nat
         /\ \/ /\ ~Busy(pc', t) /\ passes' = passes
               /\ SeqWorth(taskCh', w) + HandsWorth(pc', hand', w, u)
                    = SeqWorth(taskCh, w) + HandsWorth(pc, hand, w, v)
            \/ \E c \in Copies :
                 /\ Started(t, c)
                 /\ SeqWorth(taskCh', w) + HandsWorth(pc', hand', w, u) + w[c]
                      = SeqWorth(taskCh, w) + HandsWorth(pc, hand, w, v) + u[t]
<1>1. /\ taskCh \in Seq(Copies) /\ taskCh' \in Seq(Copies)
      /\ pc \in [Threads -> {"off", "select", "deliver", "lastDeliver"}]
      /\ hand \in [Threads -> Seq(Copies)]
  BY DEF InPlace
<1>2. PICK s \in Seq(Copies) : s = hand[t]
  BY <1>1
<1>3. pc[t] = "select" /\ ~Busy(pc, t)
  BY DEF Receive, BatchTick, SeeStop, Busy
<1>4. Places(pc, hand) /\ Places(pc', hand')
  <2>1. Places(pc, hand)
    BY PlacesOf
  <2>2. Places(pc', hand')
    BY DEF InPlace, Places, Busy, Delivering
  <2> QED BY <2>1, <2>2
<1>5. PICK a, b, i, j, k, l : /\ a = HandsWorth(pc', hand', w, u) /\ b = HandsWorth(pc, hand, w, v)
                              /\ i = SeqWorth(taskCh', w) /\ j = SeqWorth(taskCh, w)
                              /\ k = SeqWorth(s, w) /\ l = u[t]
  OBVIOUS
<1>6. a \in Nat /\ b \in Nat /\ i \in Nat /\ j \in Nat /\ k \in Nat /\ l \in Nat
  BY <1>1, <1>4, <1>5, HandsNat, SeqWorths
<1>7. HandWorth(Busy(pc, t), hand[t], w, v[t]) = k
  BY <1>2, <1>3, <1>5 DEF HandWorth
\* A pass begins with the batch.
<1>8. ASSUME NEW batch \in Seq(Copies), batch # <<>>, NEW label \in {"deliver", "lastDeliver"},
             StartPass(t, batch, label), SeqWorth(batch, w) + i = k + j
      PROVE  \E c \in Copies : Started(t, c) /\ i + a + w[c] = j + b + l
  <2>1. /\ Head(batch) \in Copies /\ Started(t, Head(batch)) /\ SeqWorth(batch, w) \in Nat
        /\ HandsWorth(pc', hand', w, u) + HandWorth(Busy(pc, t), hand[t], w, v[t]) + w[Head(batch)]
             = HandsWorth(pc, hand, w, v) + u[t] + SeqWorth(batch, w)
    BY <1>8, PassWorth
  <2>2. PICK m, n : m = w[Head(batch)] /\ n = SeqWorth(batch, w)
    OBVIOUS
  <2>3. m \in Nat /\ n \in Nat /\ a + k + m = b + l + n /\ n + i = k + j
    BY <1>5, <1>7, <1>8, <2>1, <2>2
  <2>4. i + a + m = j + b + l
    BY ONLY <1>6, <2>3
  <2> QED BY <2>1, <2>2, <2>4
\* A goroutine stays outside.
<1>9. ASSUME NEW q \in Seq(Copies), hand'[t] = q, ~Busy(pc', t), SeqWorth(q, w) + i = k + j,
             \A x \in Threads \ {t} : pc'[x] = pc[x] /\ hand'[x] = hand[x]
      PROVE  i + a = j + b
  <2>1. OneMoves(pc, hand, v, pc', hand', u, t)
    BY <1>4, <1>9 DEF OneMoves
  <2>2. HandsWorth(pc', hand', w, u) + HandWorth(Busy(pc, t), hand[t], w, v[t])
          = HandsWorth(pc, hand, w, v) + HandWorth(Busy(pc', t), hand'[t], w, u[t])
    BY <2>1, OneHand
  <2>3. PICK n : n = SeqWorth(q, w)
    OBVIOUS
  <2>4. HandWorth(Busy(pc', t), hand'[t], w, u[t]) = n /\ n \in Nat
    BY <1>9, <2>3, SeqWorths DEF HandWorth
  <2>5. a + k = b + n /\ n + i = k + j
    BY <1>5, <1>7, <1>9, <2>2, <2>3, <2>4
  <2> QED BY ONLY <1>6, <2>4, <2>5
<1>10. CASE Receive(t)
  <2>1. PICK c : c = Head(taskCh)
    OBVIOUS
  <2>2. /\ taskCh # <<>> /\ taskCh' = Tail(taskCh)
    BY <1>10 DEF Receive, Rest
  <2>3. c \in Copies /\ j = w[c] + i
    BY <1>1, <1>5, <2>1, <2>2, SeqWorths
  <2>4. PICK batch : batch = Append(s, c)
    OBVIOUS
  <2>5. batch \in Seq(Copies) /\ batch # <<>> /\ SeqWorth(batch, w) = k + w[c]
    <3>1. Adds(Copies, w, s, c, batch)
      BY <2>3, <2>4 DEF Adds
    <3>2. batch \in Seq(Copies) /\ batch # <<>> /\ SeqWorth(batch, w) = SeqWorth(s, w) + w[c]
      BY <3>1, AppendWorth
    <3> QED BY <1>5, <3>2
  <2>6. SeqWorth(batch, w) + i = k + j
    <3>1. PICK n : n = w[c]
      OBVIOUS
    <3>2. n \in Nat
      BY <2>3, <3>1
    <3> QED BY <1>6, <2>3, <2>5, <3>1, <3>2
  <2>7. CASE StartPass(t, batch, "deliver")
    <3>1. \E d \in Copies : Started(t, d) /\ i + a + w[d] = j + b + l
      BY <1>8, <2>5, <2>6, <2>7
    <3> QED BY <1>5, <1>6, <3>1
  <2>8. CASE hand' = [hand EXCEPT ![t] = batch] /\ UNCHANGED <<pc, todo, passes>>
    <3>1. /\ hand'[t] = batch /\ ~Busy(pc', t) /\ passes' = passes
          /\ \A x \in Threads \ {t} : pc'[x] = pc[x] /\ hand'[x] = hand[x]
      BY <1>1, <1>3, <2>8 DEF Busy
    <3>2. i + a = j + b
      BY <1>9, <2>5, <2>6, <3>1
    <3> QED BY <1>5, <1>6, <3>1, <3>2
  <2> QED BY <1>2, <1>10, <2>1, <2>4, <2>7, <2>8 DEF Receive
<1>11. CASE BatchTick(t)
  <2>1. taskCh' = taskCh /\ s # <<>> /\ StartPass(t, s, "deliver")
    BY <1>2, <1>11 DEF BatchTick, TickFlushes
  <2>2. SeqWorth(s, w) + i = k + j
    BY <1>5, <2>1
  <2>3. \E d \in Copies : Started(t, d) /\ i + a + w[d] = j + b + l
    BY <1>8, <2>1, <2>2
  <2> QED BY <1>5, <1>6, <2>3
<1>12. CASE SeeStop(t)
  <2>0. taskCh' = taskCh
    BY <1>12 DEF SeeStop
  <2>1. SeqWorth(s, w) + i = k + j
    BY <1>5, <2>0
  <2>2. CASE s # <<>> /\ StartPass(t, s, "lastDeliver")
    <3>1. \E d \in Copies : Started(t, d) /\ i + a + w[d] = j + b + l
      BY <1>8, <2>1, <2>2
    <3> QED BY <1>5, <1>6, <3>1
  <2>3. CASE pc' = [pc EXCEPT ![t] = "off"] /\ UNCHANGED <<hand, todo, passes>>
    <3>1. /\ hand'[t] = s /\ ~Busy(pc', t) /\ passes' = passes
          /\ \A x \in Threads \ {t} : pc'[x] = pc[x] /\ hand'[x] = hand[x]
      BY <1>1, <1>2, <2>3 DEF Busy
    <3>2. i + a = j + b
      BY <1>9, <2>1, <3>1
    <3> QED BY <1>5, <1>6, <3>1, <3>2
  <2> QED BY <1>2, <1>12, <2>2, <2>3 DEF SeeStop
<1> QED BY <1>10, <1>11, <1>12

\* The copies of a bag are counted, and each is worth a number.
Numbered(C, w, b) ==
  /\ w \in [C -> Nat] /\ IsABag(b) /\ BagToSet(b) \subseteq C /\ IsFiniteSet(Tokens(b))

\* A copy more is worth what it is worth.
LEMMA BagGains ==
  ASSUME NEW C, NEW w, NEW b, Numbered(C, w, b), NEW c \in C, NEW B, B = b (+) SetToBag({c})
  PROVE  /\ BagWorth(B, w) = BagWorth(b, w) + w[c] /\ IsFiniteSet(Tokens(B))
<1>1. /\ w \in [C -> Nat] /\ IsABag(b) /\ BagToSet(b) \subseteq C /\ IsFiniteSet(Tokens(b))
  BY DEF Numbered
<1>2. /\ BagWorth(b (+) SetToBag({c}), w) = BagWorth(b, w) + w[c]
      /\ IsFiniteSet(Tokens(b (+) SetToBag({c})))
  BY <1>1, BagWorthPlus
<1> QED BY <1>2

\* The copies of a bag are worth a number.
LEMMA BagNat ==
  ASSUME NEW C, NEW w, NEW b, Numbered(C, w, b)
  PROVE  BagWorth(b, w) \in Nat
<1>1. /\ w \in [C -> Nat] /\ IsABag(b) /\ BagToSet(b) \subseteq C /\ IsFiniteSet(Tokens(b))
  BY DEF Numbered
<1>2. \A p \in Tokens(b) : p[1] \in C
  <2>1. b \in [BagToSet(b) -> Nat]
    BY <1>1, BagTokens
  <2>2. \A q \in Tokens(b) : \E x \in BagToSet(b) : \E k \in 1 .. b[x] : q = <<x, k>>
    BY <2>1, TokenIs
  <2> QED BY <1>1, <2>2
<1>3. PICK f : f = [p \in Tokens(b) |-> w[p[1]]]
  OBVIOUS
<1>4. f \in [Tokens(b) -> Nat]
  BY <1>1, <1>2, <1>3
<1> QED BY <1>1, <1>3, <1>4, TokensFinite DEF BagWorth

\* And a copy less.
LEMMA BagLoses ==
  ASSUME NEW C, NEW w, NEW b, Numbered(C, w, b), NEW c \in BagToSet(b), NEW B, B = b (-) SetToBag({c})
  PROVE  /\ BagWorth(b, w) = BagWorth(B, w) + w[c] /\ IsFiniteSet(Tokens(B)) /\ BagWorth(B, w) \in Nat
<1>1. /\ w \in [C -> Nat] /\ IsABag(b) /\ BagToSet(b) \subseteq C /\ IsFiniteSet(Tokens(b))
  BY DEF Numbered
<1>2. /\ BagWorth(b, w) = BagWorth(b (-) SetToBag({c}), w) + w[c]
      /\ IsFiniteSet(Tokens(b (-) SetToBag({c}))) /\ BagWorth(b (-) SetToBag({c}), w) \in Nat
  BY <1>1, BagWorthMinus
<1> QED BY <1>2

\* Event e, accepted or not.
Admitted(e) == IF e \in sent THEN 1 ELSE 0

\* No more passes than the acceptance and the replays of an event pay for: those
\* made and those that its copies may still lead to.
Turns(e) ==
  passes[e] + SeqWorth(taskCh, Worth(e)) + BagWorth(sending, Worth(e))
    + HandsWorth(pc, hand, Worth(e), LeftOf(pc, hand, e))
    <= 2 ^ MaxRetries * (Admitted(e) + replays[e])

\* A goroutine that no Start has started is off, and what is sent anew or dead
\* failed once.
RepeatsType ==
  /\ IsFiniteSet(Tokens(sending)) /\ passes \in [Events -> Nat] /\ replays \in [Events -> Nat]
  /\ starts \in Nat /\ \A t \in Threads : t[1] > starts => pc[t] = "off"
  /\ \A c \in Range(deadLetter) \cup BagToSet(sending) : c.event \in failed

\* Start wakes no goroutine that is in processTask.
LEMMA StartStill ==
  ASSUME InPlace, RepeatsType, Start
  PROVE  \A x \in Threads : (Busy(pc', x) <=> Busy(pc, x)) /\ hand'[x] = hand[x]
<1> TAKE x \in Threads
<1>1. pc'[x] = (IF x[1] = starts + 1 THEN "select" ELSE pc[x]) /\ hand' = hand
  BY DEF Start
<1>2. x[1] \in Nat /\ starts \in Nat /\ (x[1] > starts => pc[x] = "off")
  BY NotifierAssumption DEF Threads, RepeatsType
<1>3. CASE x[1] = starts + 1
  BY <1>1, <1>2, <1>3 DEF Busy
<1>4. CASE x[1] # starts + 1
  BY <1>1, <1>4 DEF Busy
<1> QED BY <1>1, <1>3, <1>4

\* A goroutine that takes tasks is the only one to move.
LEMMA TakesMove ==
  ASSUME InPlace, NEW t \in Threads, Receive(t) \/ BatchTick(t) \/ SeeStop(t)
  PROVE  \A x \in Threads \ {t} : Unmoved(x)
<1>1. /\ pc \in [Threads -> {"off", "select", "deliver", "lastDeliver"}]
      /\ hand \in [Threads -> Seq(Copies)] /\ todo \in [Threads -> SUBSET Hooks]
  BY DEF InPlace
<1>2. ASSUME NEW batch, NEW label, StartPass(t, batch, label)
      PROVE  \A x \in Threads \ {t} : Unmoved(x)
  BY <1>1, <1>2 DEF StartPass, Unmoved
<1>3. CASE Receive(t)
  <2>1. CASE \E batch, label : StartPass(t, batch, label)
    BY <1>2, <2>1
  <2>2. CASE UNCHANGED <<pc, todo>> /\ \E q : hand' = [hand EXCEPT ![t] = q]
    BY <1>1, <2>2 DEF Unmoved
  <2> QED BY <1>3, <2>1, <2>2 DEF Receive
<1>4. CASE BatchTick(t)
  BY <1>2, <1>4 DEF BatchTick
<1>5. CASE SeeStop(t)
  <2>1. CASE StartPass(t, hand[t], "lastDeliver")
    BY <1>2, <2>1
  <2>2. CASE pc' = [pc EXCEPT ![t] = "off"] /\ UNCHANGED <<hand, todo>>
    BY <1>1, <2>2 DEF Unmoved
  <2> QED BY <1>5, <2>1, <2>2 DEF SeeStop
<1> QED BY <1>3, <1>4, <1>5
-----------------------------------------------------------------------------
\* Every step keeps the account of passes: a pass that fails sends one copy of half
\* its worth and goes on with the other half.
LEMMA TurnsStep ==
  ASSUME InPlace, InPlace', RepeatsType, NEW e \in Events, Turns(e), Next
  PROVE  Turns(e)'
<1> USE DEF life, history
<1>1. PICK w, v, u : w = Worth(e) /\ v = LeftOf(pc, hand, e) /\ u = LeftOf(pc', hand', e)
  OBVIOUS
<1>2. Places(pc, hand) /\ Places(pc', hand')
  <2>1. Places(pc', hand')
    BY DEF InPlace, Places, Busy, Delivering
  <2> QED BY <2>1, PlacesOf
<1>3. w \in [Copies -> Nat] /\ v \in [Threads -> Nat] /\ u \in [Threads -> Nat]
  BY <1>1, <1>2, WorthIs, LeftIs
<1>4. /\ taskCh \in Seq(Copies) /\ IsABag(sending) /\ BagToSet(sending) \subseteq Copies
      /\ deadLetter \in Seq(Copies) /\ IsFiniteSet(Tokens(sending))
      /\ passes \in [Events -> Nat] /\ replays \in [Events -> Nat]
      /\ hand \in [Threads -> Seq(Copies)]
  BY DEF InPlace, RepeatsType
<1>5. PICK p, i, b, a, z, n : /\ p = passes[e] /\ i = SeqWorth(taskCh, w) /\ b = BagWorth(sending, w)
                              /\ a = HandsWorth(pc, hand, w, v) /\ z = 2 ^ MaxRetries
                              /\ n = Admitted(e) + replays[e]
  OBVIOUS
<1>6. p + i + b + a <= z * n
  BY <1>1, <1>5 DEF Turns
<1>7. p \in Nat /\ i \in Nat /\ b \in Nat /\ a \in Nat /\ z \in Nat /\ n \in Nat
  <2>1. a \in Nat
    BY <1>2, <1>3, <1>5, HandsNat
  <2>2. i \in Nat
    BY <1>3, <1>4, <1>5, SeqWorths
  <2>3. b \in Nat
    <3>1. Numbered(Copies, w, sending)
      BY <1>3, <1>4 DEF Numbered
    <3> QED BY <1>5, <3>1, BagNat
  <2>4. z \in Nat
    BY <1>5, WorthIs
  <2>5. p \in Nat /\ n \in Nat
    BY <1>4, <1>5 DEF Admitted
  <2> QED BY <2>1, <2>2, <2>3, <2>4, <2>5
<1>8. PICK p1, i1, b1, a1, n1 :
        /\ p1 = passes'[e] /\ i1 = SeqWorth(taskCh', w) /\ b1 = BagWorth(sending', w)
        /\ a1 = HandsWorth(pc', hand', w, u) /\ n1 = Admitted(e)' + replays'[e]
  OBVIOUS
<1> SUFFICES p1 + i1 + b1 + a1 <= z * n1
  BY <1>1, <1>5, <1>8 DEF Turns
<1>9. ASSUME \A x \in Threads : (Busy(pc', x) <=> Busy(pc, x)) /\ hand'[x] = hand[x]
      PROVE  a1 = a
  <2>1. u = v
    BY <1>1, <1>9 DEF LeftOf
  <2>2. HandsWorth(pc', hand', w, v) = HandsWorth(pc, hand, w, v)
    BY <1>9, NoHand
  <2> QED BY <1>5, <1>8, <2>1, <2>2
<1>a. ASSUME NEW c \in Copies
      PROVE  /\ w[c] \in Nat /\ (c.event # e => w[c] = 0)
             /\ c.event = e => w[c] >= 1 /\ (c.retries = 0 => w[c] = z)
  BY <1>1, <1>3, <1>5, WorthIs
<1>10. CASE Start \/ Stop \/ CloseStopCh \/ ClearDeadLetter
  <2>1. \A x \in Threads : (Busy(pc', x) <=> Busy(pc, x)) /\ hand'[x] = hand[x]
    <3>1. CASE Start
      BY <3>1, StartStill
    <3>2. CASE Stop \/ CloseStopCh \/ ClearDeadLetter
      BY <3>2 DEF Stop, CloseStopCh, ClearDeadLetter, Busy
    <3> QED BY <1>10, <3>1, <3>2
  <2>2. UNCHANGED <<passes, taskCh, sending, sent, replays>>
    BY <1>10 DEF Start, Stop, CloseStopCh, ClearDeadLetter
  <2>3. p1 = p /\ i1 = i /\ b1 = b /\ n1 = n
    BY <1>5, <1>8, <2>2 DEF Admitted
  <2> QED BY <1>6, <1>9, <2>1, <2>3
<1>11. ASSUME NEW e1 \in Events, Notify(e1)
       PROVE  p1 + i1 + b1 + a1 <= z * n1
  <2>1. PICK c : c = [event |-> e1, hooks |-> Matching[e1], retries |-> 0]
    OBVIOUS
  <2>2. /\ taskCh' = Append(taskCh, c) /\ sent' = sent \cup {e1} /\ e1 \notin sent
        /\ UNCHANGED <<sending, pc, hand, passes, replays>>
    BY <1>11, <2>1 DEF Notify
  <2>3. c \in Copies /\ c.event = e1 /\ c.retries = 0
    BY <2>1, NotifierAssumption DEF Copies, Task
  <2>4. Adds(Copies, w, taskCh, c, taskCh')
    BY <1>3, <1>4, <2>2, <2>3 DEF Adds
  <2>5. i1 = i + w[c]
    BY <1>5, <1>8, <2>4, AppendWorth
  <2>6. p1 = p /\ b1 = b /\ a1 = a
    BY <1>5, <1>8, <1>9, <2>2
  <2>7. CASE e1 = e
    <3>1. w[c] = z /\ n1 = n + 1
      <4>1. Admitted(e) = 0 /\ Admitted(e)' = 1 /\ replays'[e] = replays[e] /\ replays[e] \in Nat
        BY <1>4, <2>2, <2>7 DEF Admitted
      <4> QED BY <1>5, <1>8, <1>a, <2>3, <2>7, <4>1
    <3>2. \A x, y \in Nat : x * (y + 1) = x * y + x
      OBVIOUS
    <3>3. z * n1 = z * n + z /\ z * n \in Nat
      BY <1>7, <3>1, <3>2
    <3> QED BY <1>6, <1>7, <2>5, <2>6, <3>1, <3>3
  <2>8. CASE e1 # e
    <3>1. w[c] = 0 /\ n1 = n
      <4>1. Admitted(e)' = Admitted(e) /\ replays'[e] = replays[e]
        BY <2>2, <2>8 DEF Admitted
      <4> QED BY <1>5, <1>8, <1>a, <2>3, <2>8, <4>1
    <3> QED BY <1>6, <1>7, <2>5, <2>6, <3>1
  <2> QED BY <2>7, <2>8
<1>12. ASSUME NEW j \in DOMAIN deadLetter, ReplayDeadLetter(j)
       PROVE  p1 + i1 + b1 + a1 <= z * n1
  <2>1. PICK d, c : d = deadLetter[j] /\ c = Fresh(d)
    OBVIOUS
  <2>2. /\ sending' = sending (+) SetToBag({c})
        /\ replays' = [replays EXCEPT ![d.event] = replays[d.event] + 1]
        /\ UNCHANGED <<taskCh, pc, hand, passes, sent>>
    BY <1>12, <2>1 DEF ReplayDeadLetter
  <2>3. d \in Copies /\ c \in Copies /\ c.event = d.event /\ c.retries = 0 /\ d.event \in Events
    <3>1. d \in Copies
      BY <1>4, <2>1, LenProperties, ElementOfSeq
    <3>2. c.retries = 0
      BY <2>1, <3>1 DEF Fresh, Copies, Task
    <3> QED BY <2>1, <3>1, <3>2, CopyFields
  <2>4. b1 = b + w[c]
    <3>1. Numbered(Copies, w, sending)
      BY <1>3, <1>4 DEF Numbered
    <3>2. BagWorth(sending', w) = BagWorth(sending, w) + w[c]
      BY <2>2, <2>3, <3>1, BagGains
    <3> QED BY <1>5, <1>8, <3>2
  <2>5. p1 = p /\ i1 = i /\ a1 = a /\ Admitted(e)' = Admitted(e)
    BY <1>5, <1>8, <1>9, <2>2 DEF Admitted
  <2>6. CASE d.event = e
    <3>1. w[c] = z /\ n1 = n + 1
      <4>1. replays'[e] = replays[e] + 1 /\ replays[e] \in Nat /\ Admitted(e) \in Nat
        BY <1>4, <2>2, <2>6 DEF Admitted
      <4> QED BY <1>5, <1>8, <1>a, <2>3, <2>5, <2>6, <4>1
    <3>2. \A x, y \in Nat : x * (y + 1) = x * y + x
      OBVIOUS
    <3>3. z * n1 = z * n + z /\ z * n \in Nat
      BY <1>7, <3>1, <3>2
    <3> QED BY <1>6, <1>7, <2>4, <2>5, <3>1, <3>3
  <2>7. CASE d.event # e
    <3>1. w[c] = 0 /\ n1 = n
      <4>1. replays'[e] = replays[e]
        BY <1>4, <2>2, <2>7
      <4> QED BY <1>5, <1>8, <1>a, <2>3, <2>5, <2>7, <4>1
    <3> QED BY <1>6, <1>7, <2>4, <2>5, <3>1
  <2> QED BY <2>6, <2>7
<1>13. CASE ReplayAllDeadLetter
  <2>1. /\ sending' = sending (+) Renewed
        /\ replays' = [x \in Events |-> replays[x] + Cardinality(EntriesOf(x))]
        /\ UNCHANGED <<taskCh, pc, hand, passes, sent>>
    BY <1>13 DEF ReplayAllDeadLetter
  <2>2. PICK f, D, E : /\ f = [j \in DOMAIN deadLetter |-> w[Fresh(deadLetter[j])]]
                       /\ D = DOMAIN deadLetter /\ E = EntriesOf(e)
    OBVIOUS
  <2>3. b1 <= b + SumOf(f) /\ b1 \in Nat /\ SumOf(f) \in Nat
    BY <1>3, <1>4, <1>5, <1>8, <2>1, <2>2, RenewedWorth
  <2>4. p1 = p /\ i1 = i /\ a1 = a /\ Admitted(e)' = Admitted(e)
    BY <1>5, <1>8, <1>9, <2>1 DEF Admitted
  <2>5. E \in SUBSET D /\ \A j \in D : j \in E <=> deadLetter[j].event = e
    BY <2>2 DEF EntriesOf
  <2>6. \A j \in D : w[Fresh(deadLetter[j])] = IF j \in E THEN z ELSE 0
    <3> TAKE j \in D
    <3>1. PICK d, c : d = deadLetter[j] /\ c = Fresh(d)
      OBVIOUS
    <3>2. d \in Copies
      BY <1>4, <2>2, <3>1, LenProperties, ElementOfSeq
    <3>3. c.retries = 0
      BY <3>1, <3>2 DEF Fresh, Copies, Task
    <3>4. c \in Copies /\ c.event = d.event
      BY <3>1, <3>2, CopyFields
    <3> QED BY <1>a, <2>5, <3>1, <3>3, <3>4
  <2>7. f = [j \in D |-> IF j \in E THEN z ELSE 0]
    BY <2>2, <2>6
  <2>8. IsFiniteSet(D) /\ IsFiniteSet(E) /\ Cardinality(E) \in Nat
    <3>1. Len(deadLetter) \in Nat /\ D = 1 .. Len(deadLetter)
      BY <1>4, <2>2, LenProperties
    <3>2. IsFiniteSet(D)
      BY <3>1, CountTo
    <3> QED BY <2>5, <3>2, FS_Subset, FS_CardinalityType
  <2>9. SumOf(f) = Cardinality(E) * z
    BY <1>7, <2>5, <2>7, <2>8, SumSame
  <2>10. PICK k : k = Cardinality(E)
    OBVIOUS
  <2>11. n1 = n + k
    <3>1. replays'[e] = replays[e] + k /\ replays[e] \in Nat /\ Admitted(e) \in Nat /\ k \in Nat
      BY <1>4, <2>1, <2>2, <2>8, <2>10 DEF Admitted
    <3> QED BY <1>5, <1>8, <2>4, <3>1
  <2>12. \A x, y, k1 \in Nat : x * (y + k1) = x * y + k1 * x /\ x * y \in Nat /\ k1 * x \in Nat
    OBVIOUS
  <2>13. z * n1 = z * n + k * z /\ z * n \in Nat /\ k * z \in Nat
    BY <1>7, <2>8, <2>10, <2>11, <2>12
  <2> QED BY <1>6, <1>7, <2>3, <2>4, <2>9, <2>10, <2>13
<1>14. ASSUME NEW c \in BagToSet(sending), Send(c)
       PROVE  p1 + i1 + b1 + a1 <= z * n1
  <2>1. /\ sending' = sending (-) SetToBag({c}) /\ UNCHANGED <<pc, hand, passes, sent, replays>>
        /\ c \in Copies
    BY <1>4, <1>14 DEF Send
  <2>2. b = b1 + w[c] /\ b1 \in Nat /\ w[c] \in Nat
    <3>1. Numbered(Copies, w, sending)
      BY <1>3, <1>4 DEF Numbered
    <3>2. BagWorth(sending, w) = BagWorth(sending', w) + w[c] /\ BagWorth(sending', w) \in Nat
      BY <2>1, <3>1, BagLoses
    <3> QED BY <1>5, <1>8, <1>a, <2>1, <3>2
  <2>3. p1 = p /\ a1 = a /\ n1 = n
    BY <1>5, <1>8, <1>9, <2>1 DEF Admitted
  <2>4. i1 \in Nat /\ i1 <= i + w[c]
    <3>1. CASE taskCh' = Append(taskCh, c)
      <4>1. Adds(Copies, w, taskCh, c, taskCh')
        BY <1>3, <1>4, <2>1, <3>1 DEF Adds
      <4>2. i1 = i + w[c]
        BY <1>5, <1>8, <4>1, AppendWorth
      <4> QED BY <1>7, <2>2, <4>2
    <3>2. CASE taskCh' = taskCh
      <4>1. i1 = i
        BY <1>5, <1>8, <3>2
      <4> QED BY <1>7, <2>2, <4>1
    <3> QED BY <1>14, <3>1, <3>2 DEF Send
  <2>5. PICK k : k = w[c]
    OBVIOUS
  <2>6. z * n \in Nat
    BY <1>7
  <2> QED BY <1>6, <1>7, <2>2, <2>3, <2>4, <2>5, <2>6
\* The goroutines that t leaves alone have as much left as before.
<1>15. ASSUME NEW t \in Threads, \A x \in Threads \ {t} : Unmoved(x)
       PROVE  \A x \in Threads \ {t} : u[x] = v[x]
  BY <1>1, <1>15 DEF LeftOf, Unmoved, Busy
\* A pass that begins is paid for by its task.
<1>16. ASSUME NEW t \in Threads, NEW c \in Copies, Started(t, c)
       PROVE  p1 + u[t] = p + w[c] /\ p1 \in Nat
  <2>1. /\ Busy(pc', t) /\ c = Head(hand'[t])
        /\ passes' = [passes EXCEPT ![c.event] = passes[c.event] + 1] /\ c.event \in Events
    BY <1>16, CopyFields DEF Started
  <2>2. u[t] \in Nat /\ w[c] \in Nat
    BY <1>3, <1>a
  <2>3. CASE c.event = e
    <3>1. p1 = p + 1
      BY <1>4, <1>5, <1>8, <2>1, <2>3
    <3>2. u[t] + 1 = w[c]
      BY <1>1, <1>2, <2>1, <2>3, LeftIs
    <3> QED BY <1>7, <2>2, <3>1, <3>2
  <2>4. CASE c.event # e
    <3>1. p1 = p
      BY <1>4, <1>5, <1>8, <2>1, <2>4
    <3>2. u[t] = 0 /\ w[c] = 0
      BY <1>1, <1>2, <1>a, <2>1, <2>4, LeftIs
    <3> QED BY <1>7, <3>1, <3>2
  <2> QED BY <2>3, <2>4
<1>b. z * n \in Nat
  BY <1>7
<1>17. ASSUME NEW t \in Threads, Receive(t) \/ BatchTick(t) \/ SeeStop(t)
       PROVE  p1 + i1 + b1 + a1 <= z * n1
  <2>1. UNCHANGED <<sending, sent, replays>>
    BY <1>17 DEF Receive, BatchTick, SeeStop
  <2>2. b1 = b /\ n1 = n
    BY <1>5, <1>8, <2>1 DEF Admitted
  <2>3. \A x \in Threads \ {t} : u[x] = v[x]
    BY <1>15, <1>17, TakesMove
  <2>4. /\ a1 \in Nat /\ i1 \in Nat
        /\ \/ ~Busy(pc', t) /\ passes' = passes /\ i1 + a1 = i + a
           \/ \E c \in Copies : Started(t, c) /\ i1 + a1 + w[c] = i + a + u[t]
    BY <1>3, <1>5, <1>8, <1>17, <2>3, TakesWorth
  <2>5. CASE passes' = passes /\ i1 + a1 = i + a
    <3>1. p1 = p
      BY <1>5, <1>8, <2>5
    <3> QED BY <1>6, <1>7, <1>b, <2>2, <2>4, <2>5, <3>1
  <2>6. ASSUME NEW c \in Copies, Started(t, c), i1 + a1 + w[c] = i + a + u[t]
        PROVE  p1 + i1 + b1 + a1 <= z * n1
    <3>1. p1 + u[t] = p + w[c] /\ p1 \in Nat
      BY <1>16, <2>6
    <3>2. PICK k, l : k = w[c] /\ l = u[t]
      OBVIOUS
    <3>3. k \in Nat /\ l \in Nat /\ p1 + l = p + k /\ i1 + a1 + k = i + a + l
      BY <1>3, <1>a, <2>6, <3>1, <3>2
    <3>4. p1 + i1 + b + a1 = p + i + b + a
      BY ONLY <1>7, <2>4, <3>1, <3>3
    <3> QED BY <1>6, <2>2, <3>4
  <2> QED BY <2>4, <2>5, <2>6
\* A turn is over, and what it sends anew is paid for by what was left.
<1>18. ASSUME NEW t \in Threads, NEW h0 \in todo[t], Delivering(t), NEW task \in Copies,
              task.event = Head(hand[t]).event, Proceed(t, h0, task),
              UNCHANGED <<taskCh, sent, replays>>, NEW g \in Nat, b1 = b + g, g <= v[t],
              (Busy(pc', t) /\ Head(hand'[t]) = task) => g + u[t] <= v[t]
       PROVE  p1 + i1 + b1 + a1 <= z * n1
  <2>1. \A x \in Threads \ {t} : u[x] = v[x]
    BY <1>15, <1>18, ProceedHolds
  <2>2. i1 = i /\ n1 = n
    BY <1>5, <1>8, <1>18 DEF Admitted
  <2>3. PICK k, l : k = v[t] /\ l = u[t]
    OBVIOUS
  <2>4. /\ a1 \in Nat
        /\ \/ Busy(pc', t) /\ Head(hand'[t]) = task /\ passes' = passes /\ a1 + k <= a + l
           \/ \E c \in Copies : Started(t, c) /\ a1 + k + w[c] <= a + l
           \/ passes' = passes /\ a1 + k <= a
    BY <1>3, <1>5, <1>8, <1>18, <2>1, <2>3, ProceedWorth
  <2>5. k \in Nat /\ l \in Nat /\ g <= k
    BY <1>3, <1>18, <2>3
  <2>6. CASE Busy(pc', t) /\ Head(hand'[t]) = task /\ passes' = passes /\ a1 + k <= a + l
    <3>1. p1 = p /\ g + l <= k
      BY <1>5, <1>8, <1>18, <2>3, <2>6
    <3>2. p1 + i + (b + g) + a1 <= p + i + b + a
      BY ONLY <1>7, <1>18, <2>4, <2>5, <2>6, <3>1
    <3> QED BY <1>6, <1>7, <1>18, <1>b, <2>2, <2>4, <3>1, <3>2
  <2>7. ASSUME NEW c \in Copies, Started(t, c), a1 + k + w[c] <= a + l
        PROVE  p1 + i1 + b1 + a1 <= z * n1
    <3>1. PICK m : m = w[c]
      OBVIOUS
    <3>2. m \in Nat /\ p1 \in Nat /\ p1 + l = p + m /\ a1 + k + m <= a + l
      BY <1>16, <1>a, <2>3, <2>7, <3>1
    <3>3. p1 + i + (b + g) + a1 <= p + i + b + a
      BY ONLY <1>7, <1>18, <2>4, <2>5, <3>2
    <3> QED BY <1>6, <1>7, <1>18, <1>b, <2>2, <2>4, <3>2, <3>3
  <2>8. CASE passes' = passes /\ a1 + k <= a
    <3>1. p1 = p
      BY <1>5, <1>8, <2>8
    <3>2. p1 + i + (b + g) + a1 <= p + i + b + a
      BY ONLY <1>7, <1>18, <2>4, <2>5, <2>8, <3>1
    <3> QED BY <1>6, <1>7, <1>18, <1>b, <2>2, <2>4, <3>1, <3>2
  <2> QED BY <2>4, <2>6, <2>7, <2>8
\* What a goroutine in processTask has left.
<1>19. ASSUME NEW t \in Threads, Delivering(t)
       PROVE  /\ Head(hand[t]) \in Copies /\ v[t] \in Nat
              /\ Head(hand[t]).event # e => v[t] = 0
              /\ Head(hand[t]).event = e => v[t] + 1 = w[Head(hand[t])]
  <2>1. Busy(pc, t)
    BY <1>19 DEF Busy, Delivering
  <2> QED BY <1>1, <1>2, <1>3, <2>1, LeftIs
<1>20. ASSUME NEW t \in Threads, NEW task \in Copies, Busy(pc', t), Head(hand'[t]) = task
       PROVE  /\ task.event # e => u[t] = 0
              /\ task.event = e => u[t] + 1 = w[task]
  BY <1>1, <1>2, <1>20, LeftIs
<1>21. ASSUME NEW t \in Threads, NEW h0 \in Hooks, DeliveryFails(t, h0)
       PROVE  p1 + i1 + b1 + a1 <= z * n1
  <2>1. PICK task : task = Head(hand[t])
    OBVIOUS
  <2>2. Delivering(t) /\ h0 \in todo[t] /\ UNCHANGED <<taskCh, sent, replays>>
    BY <1>21 DEF DeliveryFails
  <2>3. task \in Copies /\ v[t] \in Nat
    BY <1>19, <2>1, <2>2
  <2>4. CASE task.retries < MaxRetries
    <3>1. PICK c : c = [task EXCEPT !.retries = @ + 1]
      OBVIOUS
    <3>2. c \in Copies /\ c.event = task.event /\ task.retries + 1 = c.retries
      <4>1. c.retries = task.retries + 1
        BY <2>3, <3>1 DEF Copies, Task
      <4> QED BY <2>3, <2>4, <3>1, <4>1, CopyFields
    <3>3. sending' = sending (+) SetToBag({c}) /\ Proceed(t, h0, c)
      BY <1>21, <2>1, <2>4, <3>1 DEF DeliveryFails, Retried
    <3>4. b1 = b + w[c] /\ w[c] \in Nat
      <4>1. Numbered(Copies, w, sending)
        BY <1>3, <1>4 DEF Numbered
      <4>2. BagWorth(sending', w) = BagWorth(sending, w) + w[c]
        BY <3>2, <3>3, <4>1, BagGains
      <4> QED BY <1>5, <1>8, <1>a, <3>2, <4>2
    <3>5. task.event = e => w[task] = 2 * w[c] /\ w[c] >= 1 /\ w[task] \in Nat
      BY <1>1, <1>a, <2>3, <3>2, WorthIs
    <3>6. w[c] <= v[t]
      <4>1. CASE task.event = e
        BY <1>19, <2>1, <2>2, <2>3, <3>4, <3>5, <4>1
      <4>2. CASE task.event # e
        BY <1>19, <1>a, <2>1, <2>2, <3>2, <4>2
      <4> QED BY <4>1, <4>2
    <3>7. ASSUME Busy(pc', t), Head(hand'[t]) = c PROVE w[c] + u[t] <= v[t]
      <4>0. u[t] \in Nat
        BY <1>3
      <4>1. CASE task.event = e
        <5>1. u[t] + 1 = w[c] /\ v[t] + 1 = w[task] /\ w[task] = 2 * w[c]
          BY <1>19, <1>20, <2>1, <2>2, <3>2, <3>5, <3>7, <4>1
        <5> QED BY <2>3, <3>4, <4>0, <5>1
      <4>2. CASE task.event # e
        BY <1>20, <1>a, <2>3, <3>2, <3>6, <3>7, <4>0, <4>2
      <4> QED BY <4>1, <4>2
    <3> QED BY <1>18, <2>1, <2>2, <3>2, <3>3, <3>4, <3>6, <3>7
  <2>5. CASE ~(task.retries < MaxRetries)
    <3>1. Proceed(t, h0, task) /\ sending' = sending
      BY <1>21, <2>1, <2>5 DEF DeliveryFails
    <3>2. PICK g : g = 0
      OBVIOUS
    <3>3. b1 = b + g /\ g \in Nat /\ g <= v[t]
      BY <1>5, <1>7, <1>8, <2>3, <3>1, <3>2
    <3>4. ASSUME Busy(pc', t), Head(hand'[t]) = task PROVE g + u[t] <= v[t]
      <4>0. u[t] \in Nat
        BY <1>3
      <4>1. u[t] = v[t]
        <5>1. CASE task.event = e
          BY <1>19, <1>20, <2>1, <2>2, <2>3, <3>4, <4>0, <5>1
        <5>2. CASE task.event # e
          BY <1>19, <1>20, <2>1, <2>2, <2>3, <3>4, <5>2
        <5> QED BY <5>1, <5>2
      <4> QED BY <2>3, <3>2, <4>0, <4>1
    <3> QED BY <1>18, <2>1, <2>2, <2>3, <3>1, <3>3, <3>4
  <2> QED BY <2>4, <2>5
<1>22. ASSUME NEW t \in Threads, NEW h0 \in Hooks, DeliverySucceeds(t, h0)
       PROVE  p1 + i1 + b1 + a1 <= z * n1
  <2>1. PICK task : task = Head(hand[t])
    OBVIOUS
  <2>2. /\ Delivering(t) /\ h0 \in todo[t] /\ UNCHANGED <<taskCh, sent, replays, sending>>
        /\ Proceed(t, h0, task)
    BY <1>22, <2>1 DEF DeliverySucceeds
  <2>3. task \in Copies /\ v[t] \in Nat
    BY <1>19, <2>1, <2>2
  <2>4. PICK g : g = 0
    OBVIOUS
  <2>5. b1 = b + g /\ g \in Nat /\ g <= v[t]
    BY <1>5, <1>7, <1>8, <2>2, <2>3, <2>4
  <2>6. ASSUME Busy(pc', t), Head(hand'[t]) = task PROVE g + u[t] <= v[t]
    <3>0. u[t] \in Nat
      BY <1>3
    <3>1. u[t] = v[t]
      <4>1. CASE task.event = e
        BY <1>19, <1>20, <2>1, <2>2, <2>3, <2>6, <3>0, <4>1
      <4>2. CASE task.event # e
        BY <1>19, <1>20, <2>1, <2>2, <2>3, <2>6, <4>2
      <4> QED BY <4>1, <4>2
    <3> QED BY <2>3, <2>4, <3>0, <3>1
  <2> QED BY <1>18, <2>1, <2>2, <2>3, <2>5, <2>6
<1> QED BY <1>10, <1>11, <1>12, <1>13, <1>14, <1>17, <1>21, <1>22 DEF Next, SendStep, ThreadStep

\* A copy of event e brings it to webhook h once: while it waits, and while
\* goroutine t has h left to do of it.
One(e) == [c \in Copies |-> IF c.event = e THEN 1 ELSE 0]
DueTo(p, hs, td, e, h) ==
  [t \in Threads |-> IF Busy(p, t) /\ Head(hs[t]).event = e /\ h \in td[t] THEN 1 ELSE 0]

\* While event e has not failed, its one copy brings it to webhook h once.
Once(e, h) ==
  e \notin failed =>
    delivered[e][h] + SeqWorth(taskCh, One(e))
      + HandsWorth(pc, hand, One(e), DueTo(pc, hand, todo, e, h)) <= Admitted(e)

\* The values of One and DueTo.
LEMMA OnesAre ==
  ASSUME NEW e, NEW h, NEW p, NEW hs, NEW td
  PROVE  /\ One(e) \in [Copies -> Nat]
         /\ \A c \in Copies : One(e)[c] = IF c.event = e THEN 1 ELSE 0
         /\ DueTo(p, hs, td, e, h) \in [Threads -> Nat]
         /\ \A t \in Threads : DueTo(p, hs, td, e, h)[t]
              = IF Busy(p, t) /\ Head(hs[t]).event = e /\ h \in td[t] THEN 1 ELSE 0
BY DEF One, DueTo

\* Every step keeps the account of deliveries of an event that has not failed.
LEMMA OnceStep ==
  ASSUME InPlace, InPlace', RepeatsType, NEW e \in Events, NEW h \in Hooks, Once(e, h), Next
  PROVE  Once(e, h)'
<1> USE DEF life, history
<1> SUFFICES ASSUME e \notin failed' PROVE Once(e, h)'
  BY DEF Once
<1>0. e \notin failed
  BY DEF Next, SendStep, ThreadStep, Start, Stop, CloseStopCh, ReplayAllDeadLetter, ClearDeadLetter,
         Notify, ReplayDeadLetter, Send, Receive, BatchTick, SeeStop, DeliveryFails, DeliverySucceeds
<1>1. PICK w, v, u : /\ w = One(e) /\ v = DueTo(pc, hand, todo, e, h)
                     /\ u = DueTo(pc', hand', todo', e, h)
  OBVIOUS
<1>2. Places(pc, hand) /\ Places(pc', hand')
  <2>1. Places(pc', hand')
    BY DEF InPlace, Places, Busy, Delivering
  <2> QED BY <2>1, PlacesOf
<1>3. /\ w \in [Copies -> Nat] /\ v \in [Threads -> Nat] /\ u \in [Threads -> Nat]
      /\ \A c \in Copies : w[c] = IF c.event = e THEN 1 ELSE 0
      /\ \A t \in Threads :
           /\ v[t] = IF Busy(pc, t) /\ Head(hand[t]).event = e /\ h \in todo[t] THEN 1 ELSE 0
           /\ u[t] = IF Busy(pc', t) /\ Head(hand'[t]).event = e /\ h \in todo'[t] THEN 1 ELSE 0
  BY <1>1, OnesAre
<1>4. /\ taskCh \in Seq(Copies) /\ BagToSet(sending) \subseteq Copies
      /\ delivered \in [Events -> [Hooks -> Nat]] /\ hand \in [Threads -> Seq(Copies)]
      /\ delivered' \in [Events -> [Hooks -> Nat]]
      /\ \A c \in BagToSet(sending) : c.event \in failed
  BY DEF InPlace, RepeatsType
<1>5. PICK p, i, a, n : /\ p = delivered[e][h] /\ i = SeqWorth(taskCh, w)
                        /\ a = HandsWorth(pc, hand, w, v) /\ n = Admitted(e)
  OBVIOUS
<1>6. p + i + a <= n
  BY <1>0, <1>1, <1>5 DEF Once
<1>7. p \in Nat /\ i \in Nat /\ a \in Nat /\ n \in Nat
  <2>1. a \in Nat
    BY <1>2, <1>3, <1>5, HandsNat
  <2>2. i \in Nat
    BY <1>3, <1>4, <1>5, SeqWorths
  <2>3. p \in Nat /\ n \in Nat
    BY <1>4, <1>5 DEF Admitted
  <2> QED BY <2>1, <2>2, <2>3
<1>8. PICK p1, i1, a1, n1 :
        /\ p1 = delivered'[e][h] /\ i1 = SeqWorth(taskCh', w)
        /\ a1 = HandsWorth(pc', hand', w, u) /\ n1 = Admitted(e)'
  OBVIOUS
<1> SUFFICES p1 + i1 + a1 <= n1
  BY <1>1, <1>8 DEF Once
<1>9. ASSUME \A x \in Threads : (Busy(pc', x) <=> Busy(pc, x)) /\ hand'[x] = hand[x], todo' = todo
      PROVE  a1 = a
  <2>1. u = v
    BY <1>1, <1>9 DEF DueTo
  <2>2. HandsWorth(pc', hand', w, v) = HandsWorth(pc, hand, w, v)
    BY <1>9, NoHand
  <2> QED BY <1>5, <1>8, <2>1, <2>2
<1>10. CASE Start \/ Stop \/ CloseStopCh \/ ClearDeadLetter \/ ReplayAllDeadLetter
              \/ \E j \in DOMAIN deadLetter : ReplayDeadLetter(j)
  <2>1. \A x \in Threads : (Busy(pc', x) <=> Busy(pc, x)) /\ hand'[x] = hand[x]
    <3>1. CASE Start
      BY <3>1, StartStill
    <3>2. CASE pc' = pc /\ hand' = hand
      BY <3>2 DEF Busy
    <3> QED BY <1>10, <3>1, <3>2
          DEF Stop, CloseStopCh, ClearDeadLetter, ReplayAllDeadLetter, ReplayDeadLetter
  <2>2. UNCHANGED <<delivered, taskCh, sent, todo>>
    BY <1>10 DEF Start, Stop, CloseStopCh, ClearDeadLetter, ReplayAllDeadLetter, ReplayDeadLetter
  <2>3. p1 = p /\ i1 = i /\ n1 = n
    BY <1>5, <1>8, <2>2 DEF Admitted
  <2> QED BY <1>6, <1>9, <2>1, <2>2, <2>3
<1>11. ASSUME NEW e1 \in Events, Notify(e1) PROVE p1 + i1 + a1 <= n1
  <2>1. PICK c : c = [event |-> e1, hooks |-> Matching[e1], retries |-> 0]
    OBVIOUS
  <2>2. /\ taskCh' = Append(taskCh, c) /\ sent' = sent \cup {e1} /\ e1 \notin sent
        /\ UNCHANGED <<pc, hand, todo, delivered>>
    BY <1>11, <2>1 DEF Notify
  <2>3. c \in Copies /\ c.event = e1
    BY <2>1, NotifierAssumption DEF Copies, Task
  <2>4. Adds(Copies, w, taskCh, c, taskCh')
    BY <1>3, <1>4, <2>2, <2>3 DEF Adds
  <2>5. i1 = i + w[c]
    BY <1>5, <1>8, <2>4, AppendWorth
  <2>6. p1 = p /\ a1 = a
    BY <1>5, <1>8, <1>9, <2>2
  <2>7. CASE e1 = e
    <3>1. w[c] = 1 /\ n1 = n + 1
      BY <1>3, <1>5, <1>8, <2>2, <2>3, <2>7 DEF Admitted
    <3> QED BY <1>6, <1>7, <2>5, <2>6, <3>1
  <2>8. CASE e1 # e
    <3>1. w[c] = 0 /\ n1 = n
      BY <1>3, <1>5, <1>8, <2>2, <2>3, <2>8 DEF Admitted
    <3> QED BY <1>6, <1>7, <2>5, <2>6, <3>1
  <2> QED BY <2>7, <2>8
<1>12. ASSUME NEW c \in BagToSet(sending), Send(c) PROVE p1 + i1 + a1 <= n1
  <2>1. UNCHANGED <<pc, hand, todo, delivered, sent>> /\ c \in Copies /\ w[c] = 0
    <3>1. c \in Copies /\ w[c] = 0
      BY <1>0, <1>3, <1>4
    <3> QED BY <1>12, <3>1 DEF Send
  <2>2. p1 = p /\ a1 = a /\ n1 = n
    BY <1>5, <1>8, <1>9, <2>1 DEF Admitted
  <2>3. i1 = i
    <3>1. CASE taskCh' = Append(taskCh, c)
      <4>1. Adds(Copies, w, taskCh, c, taskCh')
        BY <1>3, <1>4, <2>1, <3>1 DEF Adds
      <4>2. i1 = i + w[c]
        BY <1>5, <1>8, <4>1, AppendWorth
      <4> QED BY <1>7, <2>1, <4>2
    <3>2. CASE taskCh' = taskCh
      BY <1>5, <1>8, <3>2
    <3> QED BY <1>12, <3>1, <3>2 DEF Send
  <2> QED BY <1>6, <2>2, <2>3
<1>13. ASSUME NEW t \in Threads, \A x \in Threads \ {t} : Unmoved(x)
       PROVE  \A x \in Threads \ {t} : u[x] = v[x]
  BY <1>1, <1>13 DEF DueTo, Unmoved, Busy
<1>14. ASSUME NEW t \in Threads, NEW c \in Copies, Started(t, c)
       PROVE  u[t] \in Nat /\ w[c] \in Nat /\ u[t] <= w[c]
  <2>1. c = Head(hand'[t])
    BY <1>14 DEF Started
  <2> QED BY <1>3, <2>1
<1>15. ASSUME NEW t \in Threads, Receive(t) \/ BatchTick(t) \/ SeeStop(t) PROVE p1 + i1 + a1 <= n1
  <2>1. UNCHANGED <<delivered, sent>>
    BY <1>15 DEF Receive, BatchTick, SeeStop
  <2>2. p1 = p /\ n1 = n
    BY <1>5, <1>8, <2>1 DEF Admitted
  <2>3. \A x \in Threads \ {t} : u[x] = v[x]
    BY <1>13, <1>15, TakesMove
  <2>4. /\ a1 \in Nat /\ i1 \in Nat
        /\ \/ ~Busy(pc', t) /\ passes' = passes /\ i1 + a1 = i + a
           \/ \E c \in Copies : Started(t, c) /\ i1 + a1 + w[c] = i + a + u[t]
    BY <1>3, <1>5, <1>8, <1>15, <2>3, TakesWorth
  <2>5. CASE i1 + a1 = i + a
    BY ONLY <1>6, <1>7, <2>2, <2>4, <2>5
  <2>6. ASSUME NEW c \in Copies, Started(t, c), i1 + a1 + w[c] = i + a + u[t]
        PROVE  p1 + i1 + a1 <= n1
    <3>1. PICK k, l : k = w[c] /\ l = u[t]
      OBVIOUS
    <3>2. k \in Nat /\ l \in Nat /\ l <= k /\ i1 + a1 + k = i + a + l
      BY <1>14, <2>6, <3>1
    <3> QED BY ONLY <1>6, <1>7, <2>2, <2>4, <3>2
  <2> QED BY <2>4, <2>5, <2>6
\* A turn is over, and what it delivers is paid for by what was due.
<1>16. ASSUME NEW t \in Threads, NEW h0 \in todo[t], Delivering(t), NEW task \in Copies,
              task.event = Head(hand[t]).event, Proceed(t, h0, task),
              UNCHANGED <<taskCh, sent>>, NEW g \in Nat, p1 \in Nat, p1 <= p + g, g <= v[t],
              (Busy(pc', t) /\ Head(hand'[t]) = task /\ todo'[t] = todo[t] \ {h0}) => g + u[t] <= v[t]
       PROVE  p1 + i1 + a1 <= n1
  <2>1. \A x \in Threads \ {t} : u[x] = v[x]
    BY <1>13, <1>16, ProceedHolds
  <2>2. i1 = i /\ n1 = n
    BY <1>5, <1>8, <1>16 DEF Admitted
  <2>3. PICK k, l : k = v[t] /\ l = u[t]
    OBVIOUS
  <2>4. /\ a1 \in Nat
        /\ \/ /\ Busy(pc', t) /\ Head(hand'[t]) = task /\ todo'[t] = todo[t] \ {h0}
              /\ a1 + k <= a + l
           \/ \E c \in Copies : Started(t, c) /\ a1 + k + w[c] <= a + l
           \/ a1 + k <= a
    BY <1>3, <1>5, <1>8, <1>16, <2>1, <2>3, ProceedWorth
  <2>5. k \in Nat /\ l \in Nat /\ g <= k
    BY <1>3, <1>16, <2>3
  <2>6. CASE Busy(pc', t) /\ Head(hand'[t]) = task /\ todo'[t] = todo[t] \ {h0} /\ a1 + k <= a + l
    <3>1. g + l <= k
      BY <1>16, <2>3, <2>6
    <3> QED BY ONLY <1>6, <1>7, <1>16, <2>2, <2>4, <2>5, <2>6, <3>1
  <2>7. ASSUME NEW c \in Copies, Started(t, c), a1 + k + w[c] <= a + l
        PROVE  p1 + i1 + a1 <= n1
    <3>1. PICK m : m = w[c]
      OBVIOUS
    <3>2. m \in Nat /\ l <= m /\ a1 + k + m <= a + l
      BY <1>14, <2>3, <2>7, <3>1
    <3> QED BY ONLY <1>6, <1>7, <1>16, <2>2, <2>4, <2>5, <3>2
  <2>8. CASE a1 + k <= a
    BY ONLY <1>6, <1>7, <1>16, <2>2, <2>4, <2>5, <2>8
  <2> QED BY <2>4, <2>6, <2>7, <2>8
<1>17. ASSUME NEW t \in Threads, Delivering(t)
       PROVE  Busy(pc, t) /\ Head(hand[t]) \in Copies
  <2>1. Busy(pc, t)
    BY <1>17 DEF Busy, Delivering
  <2> QED BY <1>2, <2>1, LeftIs
<1>18. ASSUME NEW t \in Threads, NEW h0 \in Hooks, DeliveryFails(t, h0) PROVE p1 + i1 + a1 <= n1
  <2>1. PICK task : task = Head(hand[t])
    OBVIOUS
  <2>2. /\ Delivering(t) /\ h0 \in todo[t] /\ UNCHANGED <<taskCh, sent, delivered>>
        /\ task.event \in failed'
    BY <1>18, <2>1 DEF DeliveryFails
  <2>3. task \in Copies /\ task.event # e
    BY <1>17, <2>1, <2>2
  <2>4. PICK c \in Copies : c.event = task.event /\ Proceed(t, h0, c)
    <3>1. CASE task.retries < MaxRetries
      <4>1. PICK c : c = [task EXCEPT !.retries = @ + 1]
        OBVIOUS
      <4>2. c \in Copies /\ c.event = task.event
        BY <2>3, <3>1, <4>1, CopyFields
      <4>3. Proceed(t, h0, c)
        BY <1>18, <2>1, <3>1, <4>1 DEF DeliveryFails, Retried
      <4> QED BY <4>2, <4>3
    <3>2. CASE ~(task.retries < MaxRetries)
      BY <1>18, <2>1, <2>3, <3>2 DEF DeliveryFails
    <3> QED BY <3>1, <3>2
  <2>5. PICK g : g = 0
    OBVIOUS
  <2>6. g \in Nat /\ p1 \in Nat /\ p1 <= p + g /\ g <= v[t]
    BY <1>3, <1>5, <1>7, <1>8, <2>2, <2>5
  <2>7. ASSUME Busy(pc', t), Head(hand'[t]) = c PROVE g + u[t] <= v[t]
    <3>1. u[t] = 0
      BY <1>3, <2>3, <2>4, <2>7
    <3> QED BY <1>3, <2>5, <3>1
  <2> QED BY <1>16, <2>1, <2>2, <2>4, <2>6, <2>7
<1>19. ASSUME NEW t \in Threads, NEW h0 \in Hooks, DeliverySucceeds(t, h0) PROVE p1 + i1 + a1 <= n1
  <2>1. PICK task : task = Head(hand[t])
    OBVIOUS
  <2>2. /\ Delivering(t) /\ h0 \in todo[t] /\ UNCHANGED <<taskCh, sent>> /\ Proceed(t, h0, task)
        /\ delivered' = [delivered EXCEPT ![task.event][h0] = IF @ < 2 THEN @ + 1 ELSE @]
    BY <1>19, <2>1 DEF DeliverySucceeds
  <2>3. task \in Copies /\ task.event \in Events /\ Busy(pc, t)
    BY <1>17, <2>1, <2>2, CopyFields
  <2>4. PICK g : g = IF task.event = e /\ h0 = h THEN 1 ELSE 0
    OBVIOUS
  <2>5. p1 \in Nat /\ g \in Nat /\ p1 <= p + g
    <3>1. p1 \in Nat /\ g \in Nat
      BY <1>4, <1>8, <2>4
    <3>2. CASE task.event = e /\ h0 = h
      <4>1. delivered'[e][h] = IF delivered[e][h] < 2 THEN delivered[e][h] + 1 ELSE delivered[e][h]
        BY <1>4, <2>2, <3>2
      <4> QED BY <1>5, <1>7, <1>8, <2>4, <3>2, <4>1
    <3>3. CASE ~(task.event = e /\ h0 = h)
      <4>1. delivered'[e][h] = delivered[e][h]
        BY <1>4, <2>2, <2>3, <3>3
      <4> QED BY <1>5, <1>7, <1>8, <2>4, <3>3, <4>1
    <3> QED BY <3>1, <3>2, <3>3
  <2>6. g <= v[t]
    BY <1>3, <2>1, <2>2, <2>3, <2>4
  <2>7. ASSUME Busy(pc', t), Head(hand'[t]) = task, todo'[t] = todo[t] \ {h0} PROVE g + u[t] <= v[t]
    <3>1. v[t] = IF task.event = e /\ h \in todo[t] THEN 1 ELSE 0
      BY <1>3, <2>1, <2>3
    <3>2. u[t] = IF task.event = e /\ h \in todo[t] \ {h0} THEN 1 ELSE 0
      BY <1>3, <2>7
    <3> QED BY <2>2, <2>4, <3>1, <3>2
  <2> QED BY <1>16, <2>1, <2>2, <2>3, <2>5, <2>6, <2>7
<1> QED BY <1>10, <1>11, <1>12, <1>15, <1>18, <1>19 DEF Next, SendStep, ThreadStep

\* A pass that begins is counted, and any other step leaves the counts.
Counts(t) == passes' = passes \/ \E c \in Copies : Started(t, c)

\* The counts of passes stay numbers.
LEMMA CountsKept ==
  ASSUME NEW t, Counts(t), passes \in [Events -> Nat]
  PROVE  passes' \in [Events -> Nat]
<1>1. CASE passes' = passes
  BY <1>1
<1>2. ASSUME NEW c \in Copies, Started(t, c) PROVE passes' \in [Events -> Nat]
  <2>1. passes' = [passes EXCEPT ![c.event] = passes[c.event] + 1] /\ c.event \in Events
    BY <1>2, CopyFields DEF Started
  <2> QED BY <2>1
<1> QED BY <1>1, <1>2 DEF Counts

\* Every step keeps the types, and that only failed events are sent anew or dead.
LEMMA RepeatsTypeStep ==
  ASSUME InPlace, InPlace', RepeatsType, Next
  PROVE  RepeatsType'
<1> USE DEF life, history
<1>1. /\ taskCh \in Seq(Copies) /\ IsABag(sending) /\ BagToSet(sending) \subseteq Copies
      /\ deadLetter \in Seq(Copies) /\ IsFiniteSet(Tokens(sending))
      /\ passes \in [Events -> Nat] /\ replays \in [Events -> Nat]
      /\ pc \in [Threads -> {"off", "select", "deliver", "lastDeliver"}]
      /\ starts \in Nat /\ (\A t \in Threads : t[1] > starts => pc[t] = "off")
      /\ \A c \in Range(deadLetter) \cup BagToSet(sending) : c.event \in failed
  BY DEF InPlace, RepeatsType
<1>2. PICK w, z : w \in [Copies -> Nat] /\ z \in [Threads -> Nat]
  <2>1. [c \in Copies |-> 0] \in [Copies -> Nat] /\ [t \in Threads |-> 0] \in [Threads -> Nat]
    OBVIOUS
  <2> QED BY <2>1
<1>3. Numbered(Copies, w, sending)
  BY <1>1, <1>2 DEF Numbered
<1>4. CASE Start
  <2>1. /\ starts' = starts + 1 /\ UNCHANGED <<sending, passes, replays, deadLetter, failed>>
        /\ pc' = [t \in Threads |-> IF t[1] = starts + 1 THEN "select" ELSE pc[t]]
    BY <1>4 DEF Start
  <2>2. ASSUME NEW t \in Threads, t[1] > starts' PROVE pc'[t] = "off"
    <3>1. t[1] \in Nat
      BY NotifierAssumption DEF Threads
    <3> QED BY <1>1, <2>1, <2>2, <3>1
  <2> QED BY <1>1, <2>1, <2>2 DEF RepeatsType
<1>5. CASE Stop \/ CloseStopCh
  BY <1>1, <1>5 DEF Stop, CloseStopCh, RepeatsType
<1>6. CASE ClearDeadLetter
  <2>1. deadLetter' = <<>> /\ UNCHANGED <<starts, pc, sending, passes, replays, failed>>
    BY <1>6 DEF ClearDeadLetter
  <2>2. Range(deadLetter') = {}
    BY <2>1 DEF Range
  <2> QED BY <1>1, <2>1, <2>2 DEF RepeatsType
<1>7. ASSUME NEW e1 \in Events, Notify(e1) PROVE RepeatsType'
  BY <1>1, <1>7 DEF Notify, RepeatsType
<1>8. ASSUME NEW j \in DOMAIN deadLetter, ReplayDeadLetter(j) PROVE RepeatsType'
  <2>1. PICK d, c : d = deadLetter[j] /\ c = Fresh(d)
    OBVIOUS
  <2>2. /\ sending' = sending (+) SetToBag({c}) /\ deadLetter' = RemoveAt(deadLetter, j)
        /\ replays' = [replays EXCEPT ![d.event] = replays[d.event] + 1]
        /\ UNCHANGED <<starts, pc, passes, failed>>
    BY <1>8, <2>1 DEF ReplayDeadLetter
  <2>3. /\ d \in Copies /\ c \in Copies /\ c.event = d.event /\ d.event \in Events
        /\ d \in Range(deadLetter)
    <3>1. d \in Copies
      BY <1>1, <2>1, LenProperties, ElementOfSeq
    <3>2. d \in Range(deadLetter)
      BY <2>1 DEF Range
    <3> QED BY <2>1, <3>1, <3>2, CopyFields
  <2>4. IsFiniteSet(Tokens(sending'))
    BY <1>3, <2>2, <2>3, BagGains
  <2>5. Range(deadLetter') \subseteq Range(deadLetter)
    BY <1>1, <2>2, RangeRemoveAt
  <2>6. BagToSet(sending') = BagToSet(sending) \cup {c}
    BY <1>1, <2>2, BagDomains
  <2>7. replays' \in [Events -> Nat]
    BY <1>1, <2>2, <2>3
  <2> QED BY <1>1, <2>2, <2>3, <2>4, <2>5, <2>6, <2>7 DEF RepeatsType
<1>9. CASE ReplayAllDeadLetter
  <2>1. /\ sending' = sending (+) Renewed /\ deadLetter' = <<>>
        /\ replays' = [x \in Events |-> replays[x] + Cardinality(EntriesOf(x))]
        /\ UNCHANGED <<starts, pc, passes, failed>>
    BY <1>9 DEF ReplayAllDeadLetter
  <2>2. Range(deadLetter') = {}
    BY <2>1 DEF Range
  <2>3. PICK f : f = [i \in DOMAIN deadLetter |-> w[Fresh(deadLetter[i])]]
    OBVIOUS
  <2>4. IsFiniteSet(Tokens(sending (+) Renewed))
    BY <1>1, <1>2, <2>3, RenewedWorth
  <2>5. BagToSet(sending') = BagToSet(sending) \cup BagToSet(Renewed)
    BY <1>1, <2>1, RenewedIsBag, BagSum
  <2>6. \A c \in BagToSet(Renewed) : c.event \in failed
    <3> TAKE c \in BagToSet(Renewed)
    <3>1. PICK i \in DOMAIN deadLetter : c = Fresh(deadLetter[i])
      BY DEF Renewed, BagToSet
    <3>2. deadLetter[i] \in Copies /\ deadLetter[i] \in Range(deadLetter)
      <4>1. deadLetter[i] \in Range(deadLetter)
        BY DEF Range
      <4> QED BY <1>1, <4>1, LenProperties, ElementOfSeq
    <3> QED BY <1>1, <3>1, <3>2, CopyFields
  <2>7. \A x \in Events : Cardinality(EntriesOf(x)) \in Nat
    <3> TAKE x \in Events
    <3>1. EntriesOf(x) \subseteq DOMAIN deadLetter
      BY DEF EntriesOf
    <3>2. Len(deadLetter) \in Nat /\ DOMAIN deadLetter = 1 .. Len(deadLetter)
      BY <1>1, LenProperties
    <3>3. IsFiniteSet(DOMAIN deadLetter)
      BY <3>2, CountTo
    <3> QED BY <3>1, <3>3, FS_Subset, FS_CardinalityType
  <2>8. replays' \in [Events -> Nat]
    BY <1>1, <2>1, <2>7
  <2> QED BY <1>1, <2>1, <2>2, <2>4, <2>5, <2>6, <2>8 DEF RepeatsType
<1>10. ASSUME NEW c \in BagToSet(sending), Send(c) PROVE RepeatsType'
  <2>1. sending' = sending (-) SetToBag({c}) /\ UNCHANGED <<starts, pc, passes, replays, failed>>
    BY <1>10 DEF Send
  <2>2. IsFiniteSet(Tokens(sending'))
    BY <1>3, <2>1, BagLoses
  <2>3. BagToSet(sending') \subseteq BagToSet(sending)
    BY <1>1, <2>1, BagDomains
  <2>4. Range(deadLetter') \subseteq Range(deadLetter) \cup {c}
    <3>1. CASE deadLetter' = deadLetter
      BY <3>1
    <3>2. CASE MoveToDeadLetter(c)
      BY <1>1, <3>2, DeadLetterKeeps
    <3> QED BY <1>10, <3>1, <3>2 DEF Send, OnFull
  <2> QED BY <1>1, <2>1, <2>2, <2>3, <2>4 DEF RepeatsType
<1>11. ASSUME NEW t \in Threads, pc[t] # "off", \A x \in Threads \ {t} : Unmoved(x)
       PROVE  \A x \in Threads : x[1] > starts => pc'[x] = "off"
  BY <1>1, <1>11 DEF Unmoved
<1>12. ASSUME NEW t \in Threads, Receive(t) \/ BatchTick(t) \/ SeeStop(t) PROVE RepeatsType'
  <2>1. UNCHANGED <<starts, sending, deadLetter, replays, failed>> /\ pc[t] = "select"
    BY <1>12 DEF Receive, BatchTick, SeeStop
  <2>2. \A x \in Threads : x[1] > starts => pc'[x] = "off"
    BY <1>11, <1>12, <2>1, TakesMove
  <2>3. Counts(t)
    BY <1>2, <1>12, TakesWorth DEF Counts
  <2>4. passes' \in [Events -> Nat]
    BY <1>1, <2>3, CountsKept
  <2> QED BY <1>1, <2>1, <2>2, <2>4 DEF RepeatsType
<1>13. ASSUME NEW t \in Threads, NEW h0 \in todo[t], Delivering(t), NEW task \in Copies,
              task.event = Head(hand[t]).event, Proceed(t, h0, task)
       PROVE  /\ passes' \in [Events -> Nat]
              /\ \A x \in Threads : x[1] > starts => pc'[x] = "off"
  <2>1. Counts(t)
    BY <1>2, <1>13, ProceedWorth DEF Counts
  <2>2. passes' \in [Events -> Nat]
    BY <1>1, <2>1, CountsKept
  <2>3. \A x \in Threads \ {t} : Unmoved(x)
    BY <1>13, ProceedHolds
  <2>4. pc[t] # "off"
    BY <1>13 DEF Delivering
  <2> QED BY <1>11, <2>2, <2>3, <2>4
<1>14. ASSUME NEW t \in Threads, Delivering(t) PROVE Head(hand[t]) \in Copies
  <2>1. Busy(pc, t)
    BY <1>14 DEF Busy, Delivering
  <2> QED BY <2>1, PlacesOf, LeftIs
<1>15. ASSUME NEW t \in Threads, NEW h0 \in Hooks, DeliveryFails(t, h0) PROVE RepeatsType'
  <2>1. PICK task : task = Head(hand[t])
    OBVIOUS
  <2>2. /\ Delivering(t) /\ h0 \in todo[t] /\ UNCHANGED <<starts, replays>>
        /\ failed' = failed \cup {task.event}
    BY <1>15, <2>1 DEF DeliveryFails
  <2>3. task \in Copies
    BY <1>14, <2>1, <2>2
  <2>4. CASE task.retries < MaxRetries
    <3>1. PICK c : c = [task EXCEPT !.retries = @ + 1]
      OBVIOUS
    <3>2. c \in Copies /\ c.event = task.event
      BY <2>3, <2>4, <3>1, CopyFields
    <3>3. sending' = sending (+) SetToBag({c}) /\ Proceed(t, h0, c) /\ deadLetter' = deadLetter
      BY <1>15, <2>1, <2>4, <3>1 DEF DeliveryFails, Retried
    <3>4. IsFiniteSet(Tokens(sending'))
      BY <1>3, <3>2, <3>3, BagGains
    <3>5. BagToSet(sending') = BagToSet(sending) \cup {c}
      BY <1>1, <3>3, BagDomains
    <3>6. passes' \in [Events -> Nat] /\ \A x \in Threads : x[1] > starts => pc'[x] = "off"
      BY <1>13, <2>1, <2>2, <3>2, <3>3
    <3> QED BY <1>1, <2>2, <3>2, <3>3, <3>4, <3>5, <3>6 DEF RepeatsType
  <2>5. CASE ~(task.retries < MaxRetries)
    <3>1. Proceed(t, h0, task) /\ sending' = sending /\ MoveToDeadLetter(task)
      BY <1>15, <2>1, <2>5 DEF DeliveryFails
    <3>2. Range(deadLetter') \subseteq Range(deadLetter) \cup {task}
      BY <1>1, <2>3, <3>1, DeadLetterKeeps
    <3>3. passes' \in [Events -> Nat] /\ \A x \in Threads : x[1] > starts => pc'[x] = "off"
      BY <1>13, <2>1, <2>2, <2>3, <3>1
    <3> QED BY <1>1, <2>2, <3>1, <3>2, <3>3 DEF RepeatsType
  <2> QED BY <2>4, <2>5
<1>16. ASSUME NEW t \in Threads, NEW h0 \in Hooks, DeliverySucceeds(t, h0) PROVE RepeatsType'
  <2>1. PICK task : task = Head(hand[t])
    OBVIOUS
  <2>2. /\ Delivering(t) /\ h0 \in todo[t] /\ Proceed(t, h0, task)
        /\ UNCHANGED <<starts, replays, sending, deadLetter, failed>>
    BY <1>16, <2>1 DEF DeliverySucceeds
  <2>3. passes' \in [Events -> Nat] /\ \A x \in Threads : x[1] > starts => pc'[x] = "off"
    BY <1>13, <1>14, <2>1, <2>2
  <2> QED BY <1>1, <2>2, <2>3 DEF RepeatsType
<1> QED BY <1>4, <1>5, <1>6, <1>7, <1>8, <1>9, <1>10, <1>12, <1>15, <1>16
        DEF Next, SendStep, ThreadStep

\* What the copies may still lead to, for every event and webhook.
RepeatsInv ==
  /\ RepeatsType
  /\ \A e \in Events : Turns(e) /\ \A h \in Hooks : Once(e, h)

\* Every step keeps the accounts.
LEMMA RepeatsStep ==
  ASSUME InPlace, InPlace', RepeatsInv, [Next]_vars
  PROVE  RepeatsInv'
<1>1. RepeatsType /\ \A e \in Events : Turns(e) /\ \A h \in Hooks : Once(e, h)
  BY DEF RepeatsInv
<1>2. CASE UNCHANGED vars
  <2>1. UNCHANGED <<taskCh, sending, deadLetter, pc, hand, todo, sent, passes, delivered, failed,
                    replays, starts>>
    BY <1>2 DEF vars, life, history
  <2>2. RepeatsType'
    BY <1>1, <2>1 DEF RepeatsType
  <2>3. ASSUME NEW e \in Events PROVE Turns(e)'
    <3>1. Turns(e)
      BY <1>1
    <3> QED BY <2>1, <3>1 DEF Turns, Admitted
  <2>4. ASSUME NEW e \in Events, NEW h \in Hooks PROVE Once(e, h)'
    <3>1. Once(e, h)
      BY <1>1
    <3> QED BY <2>1, <3>1 DEF Once, Admitted
  <2> QED BY <2>2, <2>3, <2>4 DEF RepeatsInv
<1>3. CASE Next
  <2>1. RepeatsType'
    BY <1>1, <1>3, RepeatsTypeStep
  <2>2. ASSUME NEW e \in Events PROVE Turns(e)'
    BY <1>1, <1>3, TurnsStep
  <2>3. ASSUME NEW e \in Events, NEW h \in Hooks PROVE Once(e, h)'
    BY <1>1, <1>3, OnceStep
  <2> QED BY <2>1, <2>2, <2>3 DEF RepeatsInv
<1> QED BY <1>2, <1>3

\* They hold at first, when there is no copy.
LEMMA RepeatsInit == Init => RepeatsInv
<1> SUFFICES ASSUME Init PROVE RepeatsInv
  OBVIOUS
<1>1. /\ taskCh = <<>> /\ sending = EmptyBag /\ deadLetter = <<>> /\ starts = 0
      /\ pc = [t \in Threads |-> "off"] /\ hand = [t \in Threads |-> <<>>]
      /\ todo = [t \in Threads |-> {}] /\ sent = {} /\ failed = {}
      /\ passes = [e \in Events |-> 0] /\ replays = [e \in Events |-> 0]
      /\ delivered = [e \in Events |-> [h \in Hooks |-> 0]]
  BY DEF Init
<1>2. DOMAIN taskCh = {} /\ Range(deadLetter) = {}
  BY <1>1 DEF Range
<1>3. Tokens(sending) = {} /\ BagToSet(sending) = {}
  BY <1>1 DEF EmptyBag, SetToBag, Tokens, BagToSet
<1>4. IsFiniteSet({}) /\ Cardinality({}) = 0
  BY FS_EmptySet
<1>5. \A f : DOMAIN f = {} => SumOf(f) = 0
  BY <1>4 DEF SumOf, Tokens
<1>6. \A w : SeqWorth(taskCh, w) = 0 /\ BagWorth(sending, w) = 0
  BY <1>2, <1>3, <1>5 DEF SeqWorth, BagWorth
<1>7. ASSUME NEW w, NEW v \in [Threads -> Nat] PROVE HandsWorth(pc, hand, w, v) = 0
  <2>1. PICK f : f = [t \in Threads |-> HandWorth(Busy(pc, t), hand[t], w, v[t])]
    OBVIOUS
  <2>2. ASSUME NEW t \in Threads PROVE HandWorth(Busy(pc, t), hand[t], w, v[t]) = 0
    <3>1. ~Busy(pc, t) /\ hand[t] = taskCh
      BY <1>1 DEF Busy
    <3> QED BY <1>6, <3>1 DEF HandWorth
  <2>3. f \in [Threads -> Nat] /\ \A t \in Threads : f[t] = 0
    BY <2>1, <2>2
  <2>4. SumOf(f) = 0
    BY <2>3, ThreadsFinite, SumZero
  <2> QED BY <2>1, <2>4 DEF HandsWorth
<1>8. RepeatsType
  BY <1>1, <1>2, <1>3, <1>4 DEF RepeatsType
<1>9. ASSUME NEW e \in Events PROVE Turns(e)
  <2>1. LeftOf(pc, hand, e) \in [Threads -> Nat]
    <3>1. Places(pc, hand)
      BY <1>1, EmptySeq DEF Places, Busy
    <3> QED BY <3>1, LeftIs
  <2>2. HandsWorth(pc, hand, Worth(e), LeftOf(pc, hand, e)) = 0
    BY <1>7, <2>1
  <2>3. PICK z : z = 2 ^ MaxRetries
    OBVIOUS
  <2>4. z \in Nat
    BY <2>3, WorthIs
  <2>5. passes[e] = 0 /\ Admitted(e) + replays[e] = 0
    BY <1>1 DEF Admitted
  <2>6. z * 0 = 0
    BY <2>4
  <2> QED BY <1>6, <2>2, <2>3, <2>5, <2>6 DEF Turns
<1>10. ASSUME NEW e \in Events, NEW h \in Hooks PROVE Once(e, h)
  <2>1. DueTo(pc, hand, todo, e, h) \in [Threads -> Nat]
    BY OnesAre
  <2>2. HandsWorth(pc, hand, One(e), DueTo(pc, hand, todo, e, h)) = 0
    BY <1>7, <2>1
  <2>3. delivered[e][h] = 0 /\ Admitted(e) = 0
    BY <1>1 DEF Admitted
  <2> QED BY <1>6, <2>2, <2>3 DEF Once
<1> QED BY <1>8, <1>9, <1>10 DEF RepeatsInv

\* The accounts imply the bound.
LEMMA RepeatsFollow ==
  ASSUME InPlace, RepeatsInv
  PROVE  RepeatsBounded
<1>1. RepeatsType /\ \A e \in Events : Turns(e) /\ \A h \in Hooks : Once(e, h)
  BY DEF RepeatsInv
<1>2. /\ taskCh \in Seq(Copies) /\ delivered \in [Events -> [Hooks -> Nat]]
      /\ IsABag(sending) /\ BagToSet(sending) \subseteq Copies /\ IsFiniteSet(Tokens(sending))
      /\ passes \in [Events -> Nat] /\ replays \in [Events -> Nat] /\ Places(pc, hand)
  BY <1>1, PlacesOf DEF InPlace, RepeatsType
<1>3. ASSUME NEW e \in Events PROVE passes[e] <= 2 ^ MaxRetries * (1 + replays[e])
  <2>1. PICK w, v, p, i, b, a, z, n, r :
          /\ w = Worth(e) /\ v = LeftOf(pc, hand, e)
          /\ p = passes[e] /\ i = SeqWorth(taskCh, w) /\ b = BagWorth(sending, w)
          /\ a = HandsWorth(pc, hand, w, v) /\ z = 2 ^ MaxRetries
          /\ n = Admitted(e) /\ r = replays[e]
    OBVIOUS
  <2>2. p + i + b + a <= z * (n + r)
    <3>1. Turns(e)
      BY <1>1
    <3> QED BY <2>1, <3>1 DEF Turns
  <2>3. w \in [Copies -> Nat] /\ v \in [Threads -> Nat] /\ z \in Nat
    BY <1>2, <2>1, WorthIs, LeftIs
  <2>4. i \in Nat /\ a \in Nat
    BY <1>2, <2>1, <2>3, SeqWorths, HandsNat
  <2>5. b \in Nat
    <3>1. Numbered(Copies, w, sending)
      BY <1>2, <2>3 DEF Numbered
    <3> QED BY <2>1, <3>1, BagNat
  <2>6. p \in Nat /\ r \in Nat /\ n \in {0, 1}
    BY <1>2, <2>1 DEF Admitted
  <2>7. \A x, y, k \in Nat : k \in {0, 1} => x * (k + y) <= x * (1 + y) /\ x * (k + y) \in Nat
    <3> SUFFICES ASSUME NEW x \in Nat, NEW y \in Nat
                 PROVE  /\ x * (0 + y) <= x * (1 + y) /\ x * (0 + y) \in Nat
                        /\ x * (1 + y) \in Nat
      OBVIOUS
    <3>1. x * (1 + y) = x + x * y /\ x * y \in Nat /\ 0 + y = y
      OBVIOUS
    <3> QED BY <3>1
  <2>8. z * (n + r) <= z * (1 + r) /\ z * (n + r) \in Nat /\ z * (1 + r) \in Nat
    BY <2>3, <2>6, <2>7
  <2>9. p <= z * (1 + r)
    <3>1. \A x, y \in Nat : p + i + b + a <= x /\ x <= y => p <= y
      BY ONLY <2>4, <2>5, <2>6
    <3> QED BY <2>2, <2>8, <3>1
  <2> QED BY <2>1, <2>9
<1>4. ASSUME NEW e \in Events, NEW h \in Hooks, delivered[e][h] > 1 PROVE e \in failed
  <2> SUFFICES ASSUME e \notin failed PROVE FALSE
    OBVIOUS
  <2>1. PICK w, v, p, i, a, n :
          /\ w = One(e) /\ v = DueTo(pc, hand, todo, e, h)
          /\ p = delivered[e][h] /\ i = SeqWorth(taskCh, w)
          /\ a = HandsWorth(pc, hand, w, v) /\ n = Admitted(e)
    OBVIOUS
  <2>2. p + i + a <= n
    <3>1. Once(e, h)
      BY <1>1
    <3> QED BY <2>1, <3>1 DEF Once
  <2>3. w \in [Copies -> Nat] /\ v \in [Threads -> Nat]
    BY <2>1, OnesAre
  <2>4. i \in Nat /\ a \in Nat
    BY <1>2, <2>1, <2>3, SeqWorths, HandsNat
  <2>5. p \in Nat /\ p > 1 /\ n \in {0, 1}
    BY <1>2, <1>4, <2>1 DEF Admitted
  <2> QED BY ONLY <2>2, <2>4, <2>5
<1> QED BY <1>3, <1>4 DEF RepeatsBounded

\* Repeats are bounded (notifier.go 216-275), for any events, webhooks, goroutines,
\* sizes, retries, restarts and replays: a webhook gets an event twice only if some
\* webhook of the event failed, and one acceptance or replay of an event leads to at
\* most 2^MaxRetries passes, however the copies multiply.
THEOREM RepeatsStayBounded == Spec => []RepeatsBounded
<1>1. Init => InPlace /\ NothingVanishes /\ RepeatsInv
  <2>1. Init => InPlace /\ NothingVanishes
    BY KeptAtFirst
  <2> QED BY <2>1, RepeatsInit
<1>2. (InPlace /\ NothingVanishes /\ RepeatsInv) /\ [Next]_vars
        => (InPlace /\ NothingVanishes /\ RepeatsInv)'
  BY NothingLost, RepeatsStep
<1>3. InPlace /\ RepeatsInv => RepeatsBounded
  BY RepeatsFollow
<1> QED BY <1>1, <1>2, <1>3, PTL DEF Spec
-----------------------------------------------------------------------------
(* The request time-out *)

Answer == [who : {"handler", "recovery", "timeout"}, request : Requests]

TimeoutType ==
  /\ serves \in [Contexts -> Requests \cup {Nobody}]
  /\ using \in [Requests -> Contexts \cup {Nobody}]
  /\ context \in [Requests -> {"live", "deadline", "canceled"}]
  /\ handler \in [Requests -> {"none", "runs", "answered", "done", "panicked"}]
  /\ middleware \in [Requests -> {"none", "select", "returned"}]
  /\ answers \in [Contexts -> SUBSET Answer]

\* How far a request is: its gin.Context is its own while the middleware waits,
\* and the middleware leaves before the handler only when the context has ended.
InTurn ==
  \A q \in Requests :
    /\ middleware[q] = "none" => handler[q] = "none"
    /\ middleware[q] # "none" => using[q] \in Contexts
    /\ middleware[q] = "select" => serves[using[q]] = q
    /\ (middleware[q] = "returned" /\ context[q] = "live") => handler[q] \in {"done", "panicked"}

\* Who can have answered through a gin.Context: a request it was given to, and
\* with a live context only one whose handler answered or whose panic is over.
Answered ==
  \A c \in Contexts : \A a \in answers[c] :
    /\ using[a.request] = c /\ middleware[a.request] # "none"
    /\ context[a.request] = "live" =>
         \/ handler[a.request] \in {"answered", "done"}
         \/ handler[a.request] = "panicked" /\ middleware[a.request] = "returned"

TimeoutInv == TimeoutType /\ InTurn /\ Answered /\ MixedNeedsTimeout

\* What a write leaves: one more answer in the request's gin.Context.
LEMMA WritesOne ==
  ASSUME TimeoutType, NEW q \in Requests, using[q] \in Contexts,
         NEW who \in {"handler", "recovery", "timeout"}, Writes(who, q)
  PROVE  \E a \in Answer :
           /\ a.request = q /\ answers' \in [Contexts -> SUBSET Answer]
           /\ answers'[using[q]] = answers[using[q]] \cup {a}
           /\ \A c \in Contexts : c # using[q] => answers'[c] = answers[c]
<1> DEFINE a == [who |-> who, request |-> q]
<1>1. a \in Answer /\ a.request = q
  BY DEF Answer
<1>2. answers' = [answers EXCEPT ![using[q]] = answers[using[q]] \cup {a}]
  BY DEF Writes
<1> HIDE DEF a
<1> QED BY <1>1, <1>2 DEF TimeoutType

\* The steps that answer through the gin.Context of q: a write by a request whose
\* context is live finds no answer of it, and the gin.Context still its own.
LEMMA AnswersOne ==
  ASSUME TimeoutInv, NEW q \in Requests, using[q] \in Contexts,
         NEW who \in {"handler", "recovery", "timeout"}, Writes(who, q),
         UNCHANGED <<serves, using, context>>,
         handler' \in [Requests -> {"none", "runs", "answered", "done", "panicked"}],
         middleware' \in [Requests -> {"none", "select", "returned"}],
         \A p \in Requests \ {q} : handler'[p] = handler[p] /\ middleware'[p] = middleware[p],
         middleware'[q] # "none", InTurn',
         context[q] = "live" =>
           /\ serves[using[q]] = q
           /\ ~(\/ handler[q] \in {"answered", "done"}
                \/ handler[q] = "panicked" /\ middleware[q] = "returned")
           /\ \/ handler'[q] \in {"answered", "done"}
              \/ handler'[q] = "panicked" /\ middleware'[q] = "returned"
  PROVE  TimeoutInv'
<1>0. TimeoutType /\ InTurn /\ Answered /\ MixedNeedsTimeout
  BY DEF TimeoutInv
<1>1. PICK a \in Answer :
        /\ a.request = q /\ answers' \in [Contexts -> SUBSET Answer]
        /\ answers'[using[q]] = answers[using[q]] \cup {a}
        /\ \A c \in Contexts : c # using[q] => answers'[c] = answers[c]
  BY <1>0, WritesOne
<1>2. TimeoutType'
  BY <1>0, <1>1 DEF TimeoutType
<1>3. \A c \in Contexts : \A b \in answers'[c] : b.request \in Requests
  BY <1>1 DEF Answer
<1>4. ASSUME NEW c \in Contexts, NEW b \in answers[c]
      PROVE  /\ b.request \in Requests /\ using[b.request] = c
             /\ b.request = q => context[q] # "live"
  BY <1>0 DEF TimeoutType, Answer, Answered
<1>5. Answered'
  <2> SUFFICES ASSUME NEW c \in Contexts, NEW b \in answers'[c]
               PROVE  /\ using[b.request] = c /\ middleware'[b.request] # "none"
                      /\ context[b.request] = "live" =>
                           \/ handler'[b.request] \in {"answered", "done"}
                           \/ handler'[b.request] = "panicked" /\ middleware'[b.request] = "returned"
    BY DEF Answered
  <2>1. CASE b.request = q
    <3>1. c = using[q]
      BY <2>1, <1>1, <1>4
    <3> QED BY <2>1, <3>1
  <2>2. CASE b.request # q
    <3>1. b \in answers[c] /\ b.request \in Requests
      BY <2>2, <1>1, <1>3
    <3> QED BY <2>2, <3>1, <1>0 DEF Answered
  <2> QED BY <2>1, <2>2
<1>6. MixedNeedsTimeout'
  <2> SUFFICES ASSUME NEW c \in Contexts
               PROVE  \/ answers'[c] = {}
                      \/ \E b \in answers'[c] : answers'[c] = {b} /\ b.request = serves[c]
                      \/ \E b \in answers'[c] : context[b.request] # "live"
    BY DEF MixedNeedsTimeout
  <2>0. \/ answers[c] = {}
        \/ \E b \in answers[c] : answers[c] = {b} /\ b.request = serves[c]
        \/ \E b \in answers[c] : context[b.request] # "live"
    BY <1>0 DEF MixedNeedsTimeout
  <2>1. CASE c # using[q]
    BY <2>0, <2>1, <1>1
  <2>2. CASE c = using[q] /\ context[q] # "live"
    BY <2>2, <1>1
  <2>3. CASE c = using[q] /\ context[q] = "live"
    <3>1. serves[c] = q
      BY <2>3
    <3>2. \A b \in answers[c] : b.request # serves[c]
      BY <2>3, <3>1, <1>4
    <3>3. CASE answers[c] = {}
      BY <2>3, <3>1, <3>3, <1>1
    <3>4. CASE \E b \in answers[c] : context[b.request] # "live"
      BY <2>3, <3>4, <1>1
    <3> QED BY <2>0, <3>2, <3>3, <3>4
  <2> QED BY <2>1, <2>2, <2>3
<1> QED BY <1>2, <1>5, <1>6 DEF TimeoutInv

\* Every step keeps the invariant.
LEMMA TimeoutStep ==
  ASSUME TimeoutInv, [TimeoutNext]_timeoutVars
  PROVE  TimeoutInv'
<1>0. /\ TimeoutType /\ InTurn /\ Answered /\ MixedNeedsTimeout
      /\ \A c \in Contexts : \A a \in answers[c] : a.request \in Requests
  BY DEF TimeoutInv, TimeoutType, Answer
<1>1. CASE UNCHANGED timeoutVars
  BY <1>1, <1>0 DEF timeoutVars, TimeoutInv, TimeoutType, InTurn, Answered, MixedNeedsTimeout
<1>2. ASSUME NEW q \in Requests, NEW c \in Contexts, Serve(q, c)
      PROVE  TimeoutInv'
  <2>1. /\ serves'[c] = q /\ \A d \in Contexts \ {c} : serves'[d] = serves[d]
        /\ using'[q] = c /\ answers'[c] = {}
        /\ \A d \in Contexts \ {c} : answers'[d] = answers[d]
        /\ handler'[q] = "runs" /\ middleware'[q] = "select" /\ middleware[q] = "none"
        /\ context' = context
        /\ \A p \in Requests \ {q} :
             using'[p] = using[p] /\ handler'[p] = handler[p] /\ middleware'[p] = middleware[p]
    BY <1>0, <1>2 DEF Serve, TimeoutType
  <2>2. TimeoutType'
    BY <1>0, <1>2 DEF Serve, TimeoutType
  <2>3. \A p \in Requests : using[p] = c => middleware[p] = "returned"
    BY <1>2 DEF Serve, Free
  <2>4. InTurn'
    <3> SUFFICES ASSUME NEW p \in Requests
                 PROVE  /\ middleware'[p] = "none" => handler'[p] = "none"
                        /\ middleware'[p] # "none" => using'[p] \in Contexts
                        /\ middleware'[p] = "select" => serves'[using'[p]] = p
                        /\ (middleware'[p] = "returned" /\ context'[p] = "live")
                             => handler'[p] \in {"done", "panicked"}
      BY DEF InTurn
    <3>1. CASE p = q
      BY <3>1, <2>1
    <3>2. CASE p # q
      BY <3>2, <2>1, <2>3, <1>0 DEF InTurn
    <3> QED BY <3>1, <3>2
  <2>5. \A d \in Contexts : \A a \in answers'[d] : d # c /\ a \in answers[d] /\ a.request # q
    BY <2>1, <1>0 DEF Answered
  <2>6. Answered'
    BY <2>1, <2>5, <1>0 DEF Answered
  <2>7. MixedNeedsTimeout'
    BY <2>1, <1>0 DEF MixedNeedsTimeout
  <2> QED BY <2>2, <2>4, <2>6, <2>7 DEF TimeoutInv
<1>3. ASSUME NEW q \in Requests, HandlerAnswers(q)
      PROVE  TimeoutInv'
  <2>1. /\ handler[q] = "runs" /\ handler' = [handler EXCEPT ![q] = "answered"]
        /\ Writes("handler", q) /\ UNCHANGED <<serves, using, context, middleware>>
    BY <1>3 DEF HandlerAnswers
  <2>2. /\ using[q] \in Contexts /\ middleware[q] # "none"
        /\ context[q] = "live" => middleware[q] = "select" /\ serves[using[q]] = q
    BY <2>1, <1>0 DEF InTurn, TimeoutType
  <2>3. /\ handler'[q] = "answered" /\ \A p \in Requests \ {q} : handler'[p] = handler[p]
        /\ handler' \in [Requests -> {"none", "runs", "answered", "done", "panicked"}]
    BY <2>1, <1>0 DEF TimeoutType
  <2>4. InTurn'
    BY <2>1, <2>2, <2>3, <1>0 DEF InTurn
  <2>5. middleware' \in [Requests -> {"none", "select", "returned"}]
    BY <2>1, <1>0 DEF TimeoutType
  <2> QED BY <2>1, <2>2, <2>3, <2>4, <2>5, AnswersOne
<1>4. ASSUME NEW q \in Requests, HandlerEnds(q)
      PROVE  TimeoutInv'
  <2>1. /\ UNCHANGED <<serves, using, context, middleware, answers>>
        /\ \A p \in Requests \ {q} : handler'[p] = handler[p]
        /\ handler' \in [Requests -> {"none", "runs", "answered", "done", "panicked"}]
        /\ \/ handler[q] = "answered" /\ handler'[q] = "done"
           \/ handler[q] = "runs" /\ handler'[q] = "panicked"
    BY <1>4, <1>0 DEF HandlerEnds, TimeoutType
  <2>2. TimeoutType' /\ MixedNeedsTimeout'
    BY <2>1, <1>0 DEF TimeoutType, MixedNeedsTimeout
  <2>3. InTurn'
    BY <2>1, <1>0 DEF InTurn
  <2>4. Answered'
    BY <2>1, <1>0 DEF Answered
  <2> QED BY <2>2, <2>3, <2>4 DEF TimeoutInv
<1>5. ASSUME NEW q \in Requests, NEW how \in {"deadline", "canceled"}, ContextEnds(q, how)
      PROVE  TimeoutInv'
  <2>1. /\ UNCHANGED <<serves, using, handler, middleware, answers>>
        /\ context' \in [Requests -> {"live", "deadline", "canceled"}]
        /\ \A p \in Requests : context'[p] = "live" => context[p] = "live"
    BY <1>5, <1>0 DEF ContextEnds, TimeoutType
  <2>2. TimeoutType' /\ InTurn'
    BY <2>1, <1>0 DEF TimeoutType, InTurn
  <2>3. Answered' /\ MixedNeedsTimeout'
    BY <2>1, <1>0 DEF Answered, MixedNeedsTimeout
  <2> QED BY <2>2, <2>3 DEF TimeoutInv
<1>6. ASSUME NEW q \in Requests, Selects(q)
      PROVE  TimeoutInv'
  <2>1. /\ UNCHANGED <<serves, using, context, handler>>
        /\ middleware[q] = "select" /\ middleware'[q] = "returned"
        /\ \A p \in Requests \ {q} : middleware'[p] = middleware[p]
        /\ middleware' \in [Requests -> {"none", "select", "returned"}]
        /\ using[q] \in Contexts /\ serves[using[q]] = q
    BY <1>6, <1>0 DEF Selects, SelectDone, SelectPanic, SelectContext, Returns, TimeoutType, InTurn
  <2>2. handler[q] \in {"done", "panicked"} \/ context[q] # "live"
    BY <1>6 DEF Selects, SelectDone, SelectPanic, SelectContext, Done, Ended
  <2>3. InTurn'
    BY <2>1, <2>2, <1>0 DEF InTurn
  <2>4. CASE UNCHANGED answers
    BY <2>1, <2>3, <2>4, <1>0 DEF TimeoutInv, TimeoutType, Answered, MixedNeedsTimeout
  <2>5. handler' \in [Requests -> {"none", "runs", "answered", "done", "panicked"}]
    BY <2>1, <1>0 DEF TimeoutType
  <2>6. CASE handler[q] = "panicked" /\ Writes("recovery", q)
    BY <2>1, <2>3, <2>5, <2>6, AnswersOne
  <2>7. CASE context[q] # "live" /\ Writes("timeout", q)
    BY <2>1, <2>3, <2>5, <2>7, AnswersOne
  <2> QED BY <1>6, <2>4, <2>6, <2>7 DEF Selects, SelectDone, SelectPanic, SelectContext, Ended
<1> QED BY <1>1, <1>2, <1>3, <1>4, <1>5, <1>6 DEF TimeoutNext

\* For any requests and any pool of contexts, answers mix in a gin.Context only
\* through a request whose own context ended before its handler did
\* (timeout.go 87-105).
THEOREM MixesNeedTimeouts ==
  TimeoutInit /\ [][TimeoutNext]_timeoutVars => []MixedNeedsTimeout
<1>1. TimeoutInit => TimeoutInv
  BY DEF TimeoutInit, TimeoutInv, TimeoutType, InTurn, Answered, MixedNeedsTimeout, Nobody
<1>2. TimeoutInv /\ [TimeoutNext]_timeoutVars => TimeoutInv'
  BY TimeoutStep
<1>3. TimeoutInv => MixedNeedsTimeout
  BY DEF TimeoutInv
<1> QED BY <1>1, <1>2, <1>3, PTL
-----------------------------------------------------------------------------
(* The webhook manager *)

Webhook == [st : {"new", "live", "deleted"}, active : BOOLEAN, events : [EventTypes -> Nat]]
Route == [n : Nat, active : BOOLEAN]

\* What the routes of the webhook wh, whose flag is known to have stayed up or not,
\* may say of an event: its count, and the flag when nobody ever put it down.
RouteFits(r, wh, e, wasPaused) ==
  /\ r.n = IF wh.st = "live" THEN wh.events[e] ELSE 0
  /\ ~wasPaused /\ wh.st = "live" => wh.active /\ (r.n > 0 => r.active)

RoutesInv ==
  /\ webhooks \in [HookIds -> Webhook]
  /\ eventRoutes \in [EventTypes -> [HookIds -> Route]]
  /\ \A e \in EventTypes, h \in HookIds :
       RouteFits(eventRoutes[e][h], webhooks[h], e, h \in paused)

\* No webhook, no route.
LEMMA InitRoutesInv == ManagerInit => RoutesInv
BY DEF ManagerInit, RoutesInv, RouteFits, Webhook, Route, NoRoute, NoEvents

\* indexEventRoutes gives a webhook the routes it should have.
LEMMA RouteOfFits ==
  ASSUME NEW wh \in Webhook, NEW e \in EventTypes, NEW p \in BOOLEAN,
         ~p /\ wh.st = "live" => wh.active
  PROVE  RouteOf(wh, e) \in Route /\ RouteFits(RouteOf(wh, e), wh, e, p)
BY DEF RouteOf, Route, RouteFits, Webhook, NoRoute

\* Any edit that rebuilds the routes, or leaves the event list alone, keeps them.
LEMMA EditFits ==
  ASSUME RoutesInv, NEW h \in HookIds, NEW wh \in Webhook, NEW rebuild \in BOOLEAN,
         EditWebhook(h, wh, rebuild),
         ~rebuild => wh.st = webhooks[h].st /\ wh.events = webhooks[h].events
  PROVE  RoutesInv'
<1>1. webhooks' \in [HookIds -> Webhook] /\ webhooks'[h] = wh /\ webhooks[h].st = "live"
  BY DEF RoutesInv, EditWebhook, Exists
<1>2. ASSUME NEW x \in HookIds, x # h PROVE webhooks'[x] = webhooks[x] /\ (x \in paused' <=> x \in paused)
  BY <1>2 DEF RoutesInv, EditWebhook
<1>3. wh.active \/ h \in paused'
  BY DEF EditWebhook
<1>3a. h \in paused => h \in paused'
  BY DEF EditWebhook
<1>4. CASE rebuild
  <2>1. eventRoutes' = [e \in EventTypes |-> [x \in HookIds |-> RouteOf(webhooks'[x], e)]]
    BY <1>4 DEF EditWebhook, Rebuilt
  <2>2. ASSUME NEW e \in EventTypes, NEW x \in HookIds
        PROVE  /\ RouteOf(webhooks'[x], e) \in Route
               /\ RouteFits(RouteOf(webhooks'[x], e), webhooks'[x], e, x \in paused')
    <3>1. x \notin paused' /\ webhooks'[x].st = "live" => webhooks'[x].active
      <4>1. CASE x = h
        BY <1>1, <1>3, <4>1
      <4>2. CASE x # h
        BY <1>2, <4>2 DEF RoutesInv, RouteFits
      <4> QED BY <4>1, <4>2
    <3>2. webhooks'[x] \in Webhook /\ (x \in paused') \in BOOLEAN
      BY <1>1
    <3> QED BY <3>1, <3>2, RouteOfFits
  <2>3. ASSUME NEW e \in EventTypes, NEW x \in HookIds PROVE eventRoutes'[e][x] = RouteOf(webhooks'[x], e)
    BY <2>1
  <2>4. eventRoutes' \in [EventTypes -> [HookIds -> Route]]
    BY <2>1, <2>2
  <2> QED BY <1>1, <2>2, <2>3, <2>4 DEF RoutesInv
<1>5. CASE ~rebuild
  <2>1. eventRoutes' = eventRoutes
    BY <1>5 DEF EditWebhook
  <2>2. ASSUME NEW e \in EventTypes, NEW x \in HookIds
        PROVE  RouteFits(eventRoutes[e][x], webhooks'[x], e, x \in paused')
    <3>0. RouteFits(eventRoutes[e][x], webhooks[x], e, x \in paused)
      BY DEF RoutesInv
    <3>1. CASE x = h
      BY <1>1, <1>3, <1>3a, <1>5, <3>0, <3>1 DEF RouteFits
    <3>2. CASE x # h
      BY <1>2, <3>0, <3>2
    <3> QED BY <3>1, <3>2
  <2> QED BY <1>1, <2>1, <2>2 DEF RoutesInv
<1> QED BY <1>4, <1>5

\* A new webhook is indexed alone, the others keep their routes.
LEMMA RegisterFits ==
  ASSUME RoutesInv, NEW list \in EventLists, RegisterWebhook(list)
  PROVE  RoutesInv'
<1> DEFINE fresh == {x \in HookIds : webhooks[x].st = "new"}
           h == CHOOSE x \in fresh : TRUE
           wh == [st |-> "live", active |-> TRUE, events |-> list]
<1>1. h \in HookIds
  BY DEF RegisterWebhook
<1>2. wh \in Webhook
  BY ManagerAssumption DEF Webhook
<1>3. /\ webhooks' = [webhooks EXCEPT ![h] = wh] /\ paused' = paused
      /\ eventRoutes' = [e \in EventTypes |-> [eventRoutes[e] EXCEPT ![h] = RouteOf(webhooks'[h], e)]]
  BY DEF RegisterWebhook
<1> HIDE DEF h, wh, fresh
<1>4. webhooks' \in [HookIds -> Webhook] /\ webhooks'[h] = wh
  BY <1>1, <1>2, <1>3 DEF RoutesInv
<1>5. ASSUME NEW e \in EventTypes
      PROVE  RouteOf(wh, e) \in Route /\ RouteFits(RouteOf(wh, e), wh, e, h \in paused)
  <2>1. wh.active /\ (h \in paused) \in BOOLEAN
    BY DEF wh
  <2> QED BY <1>2, <2>1, RouteOfFits, Zenon
<1>6. eventRoutes' \in [EventTypes -> [HookIds -> Route]]
  BY <1>1, <1>3, <1>4, <1>5 DEF RoutesInv
<1>7. ASSUME NEW e \in EventTypes, NEW x \in HookIds
      PROVE  RouteFits(eventRoutes'[e][x], webhooks'[x], e, x \in paused')
  <2>1. eventRoutes'[e] = [eventRoutes[e] EXCEPT ![h] = RouteOf(wh, e)]
    BY <1>3, <1>4
  <2>2. eventRoutes[e] \in [HookIds -> Route]
    BY DEF RoutesInv
  <2>3. CASE x = h
    BY <1>1, <1>3, <1>4, <1>5, <2>1, <2>2, <2>3
  <2>4. CASE x # h
    <3>1. eventRoutes'[e][x] = eventRoutes[e][x] /\ webhooks'[x] = webhooks[x]
      BY <1>1, <1>3, <2>1, <2>2, <2>4 DEF RoutesInv
    <3> QED BY <1>3, <3>1 DEF RoutesInv
  <2> QED BY <2>3, <2>4
<1> QED BY <1>4, <1>6, <1>7 DEF RoutesInv

\* Every operation of the manager keeps the routes; the other steps do not touch them.
LEMMA StepRoutesInv == RoutesInv /\ [DeliveriesNext]_deliveriesVars => RoutesInv'
<1> SUFFICES ASSUME RoutesInv, [DeliveriesNext]_deliveriesVars PROVE RoutesInv'
  OBVIOUS
<1>0. ASSUME UNCHANGED <<webhooks, eventRoutes, paused>> PROVE RoutesInv'
  BY <1>0 DEF RoutesInv
<1>1. ASSUME NEW list \in EventLists, RegisterWebhook(list) PROVE RoutesInv'
  BY <1>1, RegisterFits
<1>2. ASSUME NEW h \in HookIds PROVE webhooks[h] \in Webhook
  BY DEF RoutesInv
<1>3. ASSUME NEW h \in HookIds, NEW active \in BOOLEAN, NEW list \in EventLists, UpdateWebhook(h, active, list)
      PROVE  RoutesInv'
  <2>1. [webhooks[h] EXCEPT !.active = active, !.events = list] \in Webhook
    BY <1>2, ManagerAssumption DEF Webhook
  <2> QED BY <1>3, <2>1, EditFits DEF UpdateWebhook
<1>4. ASSUME NEW h \in HookIds, NEW active \in BOOLEAN, SetWebhookStatus(h, active) PROVE RoutesInv'
  <2> DEFINE wh == [webhooks[h] EXCEPT !.active = active]
  <2>1. wh \in Webhook /\ wh.st = webhooks[h].st /\ wh.events = webhooks[h].events
    BY <1>2 DEF Webhook
  <2>2. EditWebhook(h, wh, FALSE)
    BY <1>4 DEF SetWebhookStatus
  <2> HIDE DEF wh
  <2> QED BY <2>1, <2>2, EditFits
<1>5. ASSUME NEW h \in HookIds, NEW e \in EventTypes,
             AddEventSubscription(h, e) \/ RemoveEventSubscription(h, e)
      PROVE  RoutesInv'
  <2>1. /\ [webhooks[h] EXCEPT !.events[e] = 1] \in Webhook
        /\ [webhooks[h] EXCEPT !.events[e] = 0] \in Webhook
    BY <1>2 DEF Webhook
  <2>2. CASE AddEventSubscription(h, e)
    <3>1. EditWebhook(h, [webhooks[h] EXCEPT !.events[e] = 1], TRUE)
      BY <2>2 DEF AddEventSubscription
    <3> QED BY <2>1, <3>1, EditFits
  <2>3. CASE RemoveEventSubscription(h, e)
    <3>1. EditWebhook(h, [webhooks[h] EXCEPT !.events[e] = 0], TRUE)
      BY <2>3 DEF RemoveEventSubscription
    <3> QED BY <2>1, <3>1, EditFits
  <2> QED BY <1>5, <2>2, <2>3
<1>6. ASSUME NEW h \in HookIds, DeleteWebhook(h) PROVE RoutesInv'
  <2>1. [webhooks[h] EXCEPT !.st = "deleted"] \in Webhook
    BY <1>2 DEF Webhook
  <2> QED BY <1>6, <2>1, EditFits DEF DeleteWebhook
<1>7. CASE ManagerNext
  BY <1>1, <1>3, <1>4, <1>5, <1>6, <1>7 DEF ManagerNext
<1>8. ASSUME NEW e \in EventTypes, NotifyMatching(e) PROVE RoutesInv'
  BY <1>0, <1>8 DEF NotifyMatching
<1>9. ASSUME NEW w \in Workers, WorkerStep(w) PROVE RoutesInv'
  BY <1>0, <1>9 DEF WorkerStep, TakeTask, NextHook, Record, SendAttempt, Report, managerVars
<1>10. CASE Housekeeping
  BY <1>0, <1>10 DEF Housekeeping, managerVars
<1>11. CASE UNCHANGED deliveriesVars
  BY <1>0, <1>11 DEF deliveriesVars, managerVars
<1> QED BY <1>7, <1>8, <1>9, <1>10, <1>11 DEF DeliveriesNext

\* SubscriberCount counts what HasSubscribers asks for.
LEMMA CountsSubscribers ==
  ASSUME RoutesInv, NEW e \in EventTypes
  PROVE  HasSubscribers(e) <=> SubscriberCount(e) > 0
<1> DEFINE P(h) == {h} \X (1 .. Matches(e, h))
           All == UNION {P(h) : h \in HookIds}
<1>1. ASSUME NEW h \in HookIds PROVE Matches(e, h) \in Nat
  BY DEF RoutesInv, Matches, Route
<1>2. ASSUME NEW h \in HookIds PROVE IsFiniteSet(P(h)) /\ (P(h) # {} <=> Matches(e, h) > 0)
  <2> DEFINE m == Matches(e, h)
  <2>1. m \in Nat
    BY <1>1
  <2> HIDE DEF m
  <2>2. IsFiniteSet(1 .. m)
    BY <2>1, FS_Interval
  <2>3. IsFiniteSet({h})
    BY FS_Singleton, Zenon
  <2>4. IsFiniteSet({h} \X (1 .. m))
    BY <2>2, <2>3, FS_Product, Zenon
  <2>5. m > 0 <=> 1 .. m # {}
    BY <2>1
  <2>6. {h} \X (1 .. m) # {} <=> 1 .. m # {}
    <3>1. ASSUME NEW i \in 1 .. m PROVE <<h, i>> \in {h} \X (1 .. m)
      OBVIOUS
    <3>2. ASSUME NEW c \in {h} \X (1 .. m) PROVE c[2] \in 1 .. m
      OBVIOUS
    <3> QED BY <3>1, <3>2
  <2> QED BY <2>4, <2>5, <2>6 DEF m
<1> HIDE DEF P
<1>3. IsFiniteSet({P(h) : h \in HookIds})
  <2> DEFINE f == [h \in HookIds |-> P(h)]
  <2>1. f \in Surjection(HookIds, {P(h) : h \in HookIds})
    BY DEF Surjection
  <2> HIDE DEF f
  <2> QED BY <2>1, ManagerAssumption, FS_Surjection
<1>4. IsFiniteSet(All)
  BY <1>2, <1>3, FS_UNION
<1>5. Cardinality(All) \in Nat /\ (Cardinality(All) = 0 <=> All = {})
  BY <1>4, FS_CardinalityType, FS_EmptySet
<1>6. All # {} <=> \E h \in HookIds : P(h) # {}
  OBVIOUS
<1>7. SubscriberCount(e) = Cardinality(All)
  BY DEF SubscriberCount, P
<1> QED BY <1>2, <1>5, <1>6, <1>7 DEF HasSubscribers

\* The invariant says what the property does.
LEMMA RoutesInvImplies == RoutesInv => RoutesFollowWebhooks
<1> SUFFICES ASSUME RoutesInv, NEW e \in EventTypes, NEW h \in HookIds
             PROVE  /\ eventRoutes[e][h].n = IF Exists(h) THEN webhooks[h].events[e] ELSE 0
                    /\ Matches(e, h) \in {Subscribed(e, h)} \cup {0 : x \in paused \cap {h}}
  BY CountsSubscribers DEF RoutesFollowWebhooks
<1>1. /\ RouteFits(eventRoutes[e][h], webhooks[h], e, h \in paused)
      /\ webhooks[h] \in Webhook /\ eventRoutes[e][h] \in Route
  BY DEF RoutesInv
<1>2. eventRoutes[e][h].n = IF Exists(h) THEN webhooks[h].events[e] ELSE 0
  BY <1>1 DEF RouteFits, Exists
<1>3. CASE h \in paused
  <2>1. Matches(e, h) \in {Subscribed(e, h), 0}
    BY <1>1, <1>2 DEF Matches, Subscribed, Exists
  <2> QED BY <1>2, <1>3, <2>1
<1>4. CASE h \notin paused
  <2>1. Matches(e, h) = Subscribed(e, h)
    BY <1>1, <1>2, <1>4 DEF Matches, Subscribed, Exists, RouteFits, Route, Webhook
  <2> QED BY <1>2, <2>1
<1> QED BY <1>3, <1>4

(* Routing follows the webhooks (manager.go:253-273, 396-413), for any     *)
(* webhooks, events and event lists, through any sequence of edits: the    *)
(* index holds exactly the event lists of the webhooks there are, and only *)
(* a webhook that was inactive once can be missed.                         *)
THEOREM RoutesFollow == DeliveriesSpec => []RoutesFollowWebhooks
<1>1. DeliveriesInit => RoutesInv
  BY InitRoutesInv DEF DeliveriesInit
<1> QED BY <1>1, StepRoutesInv, RoutesInvImplies, PTL DEF DeliveriesSpec
-----------------------------------------------------------------------------
(* The history *)

\* Bags of webhooks.
HookBag == UNION {[D -> Nat \ {0}] : D \in SUBSET HookIds}

Pass == [pc : {"idle", "next", "record", "send", "report"}, hooks : HookBag, todo : HookBag,
         retries : Nat, h : HookIds \cup {"none"}, d : Nat, attempt : Nat, ok : BOOLEAN]

Entry == [hook : HookIds \cup {"none"}, status : Counted \cup {"delivering"}]

\* A worker is about to report on the delivery d.
Underway(d) == \E w \in Workers : worker[w].d = d /\ worker[w].pc \in {"send", "report"}

HistoryInv ==
  /\ worker \in [Workers -> Pass]
  /\ BagToSet(tasks) \subseteq [hooks : HookBag, retries : Nat]
  /\ entries \in Seq(Nat) /\ byID = Range(entries)
  /\ delivery \in [byID -> Entry]
  /\ \A d \in byID : delivery[d].status \in Counted \/ Underway(d)

\* Removing one copy of a webhook leaves a bag of webhooks.
LEMMA HookBagLess ==
  ASSUME NEW B \in HookBag, NEW h
  PROVE  B (-) SetToBag({h}) \in HookBag
<1>1. PICK D \in SUBSET HookIds : B \in [D -> Nat \ {0}]
  BY DEF HookBag
<1> DEFINE C == [e \in D |-> IF e \in {h} THEN B[e] - 1 ELSE B[e]]
           E == {d \in D : C[d] > 0}
<1>2. B (-) SetToBag({h}) = [e \in E |-> C[e]]
  <2>1. DOMAIN B = D
    BY <1>1
  <2> QED BY <2>1 DEF (-), SetToBag
<1>3. \A e \in E : C[e] \in Nat \ {0}
  BY <1>1
<1>4. [e \in E |-> C[e]] \in [E -> Nat \ {0}] /\ E \in SUBSET HookIds
  BY <1>3
<1> HIDE DEF E, C
<1> QED BY <1>2, <1>4 DEF HookBag

\* Every set of natural numbers that has one has a least one.
Less == OpToRel(<, Nat)
LEMMA LeastNat ==
  ASSUME NEW T, T \subseteq Nat, T # {}
  PROVE  \E n \in T : \A m \in T : n <= m
<1>1. IsWellFoundedOn(Less, Nat)
  BY NatLessThanWellFounded, Zenon DEF Less
<1>2. Less = {ss \in Nat \X Nat : ss[1] < ss[2]}
  BY Zenon DEF Less, OpToRel
<1>3. PICK n \in T : \A m \in T : ~(<<m, n>> \in Less)
  BY <1>1, WFMin
<1>4. \A m \in T : ~(m < n)
  BY <1>2, <1>3
<1> QED BY <1>4

\* So a set that has 0 and with each number the next has them all.
LEMMA NatIn ==
  ASSUME NEW T, 0 \in T, \A n \in Nat : n \in T => n + 1 \in T
  PROVE  Nat \subseteq T
<1> DEFINE U == Nat \ T
<1> SUFFICES ASSUME U # {} PROVE FALSE
  OBVIOUS
<1>1. PICK n \in U : \A m \in U : n <= m
  BY LeastNat
<1>2. n \in Nat /\ n # 0 /\ n - 1 \in T
  BY <1>1
<1> QED BY <1>1, <1>2

Taken(list, d, cutoff) == IF d > cutoff THEN Append(list, d) ELSE list
Young(g, k, cutoff) == g = [i \in 0 .. k |-> IF i = 0 THEN <<>> ELSE Taken(g[i - 1], entries[i], cutoff)]

\* The loop of enforceRetention has a result for every length of the list.
LEMMA YoungExists ==
  ASSUME NEW cutoff, NEW n \in Nat
  PROVE  \E g : Young(g, n, cutoff)
<1> DEFINE T == {k \in Nat : \E g : Young(g, k, cutoff)}
<1>1. 0 \in T
  <2> DEFINE g == [i \in 0 .. 0 |-> <<>>]
  <2>1. Young(g, 0, cutoff)
    BY DEF Young
  <2> HIDE DEF g
  <2> QED BY <2>1
<1>2. ASSUME NEW k \in Nat, NEW g, Young(g, k, cutoff) PROVE \E h : Young(h, k + 1, cutoff)
  <2> DEFINE h == [i \in 0 .. k + 1 |-> IF i <= k THEN g[i] ELSE Taken(g[k], entries[k + 1], cutoff)]
  <2>0. \A i \in 0 .. k : g[i] = IF i = 0 THEN <<>> ELSE Taken(g[i - 1], entries[i], cutoff)
    BY <1>2 DEF Young
  <2>1. \A i \in 0 .. k : h[i] = g[i]
    OBVIOUS
  <2>2. h[k + 1] = Taken(h[k], entries[k + 1], cutoff)
    BY <2>1
  <2>3. \A i \in 0 .. k + 1 : h[i] = IF i = 0 THEN <<>> ELSE Taken(h[i - 1], entries[i], cutoff)
    <3> TAKE i \in 0 .. k + 1
    <3> HIDE DEF h
    <3>1. CASE i = k + 1
      BY <2>2, <3>1
    <3>2. CASE i \in 0 .. k
      BY <2>0, <2>1, <3>2
    <3> QED BY <3>1, <3>2
  <2>4. Young(h, k + 1, cutoff)
    BY <2>3 DEF Young
  <2> HIDE DEF h
  <2> QED BY <2>4
<1>3. \A k \in Nat : k \in T => k + 1 \in T
  BY <1>2
<1> HIDE DEF T
<1>4. n \in T
  BY <1>1, <1>3, NatIn
<1> QED BY <1>4 DEF T

\* It takes nothing that is not in the list.
LEMMA YoungerKept ==
  ASSUME NEW cutoff, entries \in Seq(Nat)
  PROVE  Younger(cutoff) \in Seq(Nat) /\ Range(Younger(cutoff)) \subseteq Range(entries)
<1> DEFINE n == Len(entries)
<1>0. n \in Nat /\ \A i \in 1 .. n : entries[i] \in Range(entries)
  BY DEF Range
<1>1. PICK f : Young(f, n, cutoff) /\ Younger(cutoff) = f[n]
  <2> DEFINE young == CHOOSE g : Young(g, n, cutoff)
  <2>1. Young(young, n, cutoff)
    <3> HIDE DEF n
    <3> QED BY <1>0, YoungExists
  <2>2. Younger(cutoff) = young[n]
    BY DEF Younger, Young, Taken
  <2> HIDE DEF young, n
  <2> QED BY <2>1, <2>2
<1> HIDE DEF n
<1>2. f[0] = <<>> /\ \A i \in 1 .. n : f[i] = Taken(f[i - 1], entries[i], cutoff)
  BY <1>0, <1>1 DEF Young
<1> DEFINE T == {i \in Nat : i <= n => f[i] \in Seq(Range(entries))}
<1>3. 0 \in T
  <2> DEFINE S == Range(entries)
  <2>1. <<>> \in Seq(S)
    <3> HIDE DEF S
    <3> QED OBVIOUS
  <2> QED BY <1>2, <2>1
<1>4. ASSUME NEW i \in Nat, i \in T PROVE i + 1 \in T
  <2> SUFFICES ASSUME i + 1 <= n PROVE f[i + 1] \in Seq(Range(entries))
    OBVIOUS
  <2>1. f[i] \in Seq(Range(entries)) /\ entries[i + 1] \in Range(entries)
    BY <1>0, <1>4
  <2>2. f[i + 1] = Taken(f[i], entries[i + 1], cutoff)
    BY <1>0, <1>2
  <2> QED BY <2>1, <2>2, AppendProperties DEF Taken
<1> HIDE DEF T
<1>5. n \in T
  BY <1>0, <1>3, <1>4, NatIn
<1>6. f[n] \in Seq(Range(entries))
  BY <1>0, <1>5 DEF T
<1>7. Range(f[n]) \subseteq Range(entries)
  <2> DEFINE S == Range(entries)
             s == f[n]
  <2>1. s \in Seq(S)
    BY <1>6
  <2> HIDE DEF s, S
  <2>2. Range(s) \subseteq S
    BY <2>1 DEF Range
  <2> QED BY <2>2 DEF s, S
<1>8. Range(entries) \subseteq Nat
  BY DEF Range
<1>9. f[n] \in Seq(Nat)
  BY <1>6, <1>8
<1> QED BY <1>1, <1>7, <1>9

\* Removing entries keeps the history's invariant.
LEMMA KeepHistoryInv ==
  ASSUME HistoryInv, NEW list \in Seq(Nat), Range(list) \subseteq byID, Keep(list),
         UNCHANGED <<worker, tasks>>
  PROVE  HistoryInv'
<1>1. entries' = list /\ byID' = Range(list) /\ delivery' = [d \in Range(list) |-> delivery[d]]
  BY DEF Keep, IndexOf, Restrict
<1>2. delivery' \in [byID' -> Entry]
  BY <1>1 DEF HistoryInv
<1>3. \A d : Underway(d)' <=> Underway(d)
  BY DEF Underway
<1>4. ASSUME NEW d \in byID' PROVE delivery'[d].status \in Counted' \/ Underway(d)'
  <2>1. delivery'[d] = delivery[d] /\ d \in byID
    BY <1>1
  <2> QED BY <1>3, <2>1 DEF HistoryInv, Counted
<1> QED BY <1>1, <1>2, <1>4 DEF HistoryInv

LEMMA InitHistoryInv == DeliveriesInit => HistoryInv
<1> SUFFICES ASSUME DeliveriesInit PROVE HistoryInv
  OBVIOUS
<1>1. EmptyBag \in HookBag /\ BagToSet(EmptyBag) = {}
  <2>1. EmptyBag = [e \in {} |-> 1] /\ {} \in SUBSET HookIds
    BY DEF EmptyBag, SetToBag
  <2>2. EmptyBag \in [{} -> Nat \ {0}]
    BY <2>1
  <2> HIDE DEF EmptyBag
  <2> QED BY <2>1, <2>2 DEF HookBag, BagToSet
<1>2. worker \in [Workers -> Pass]
  BY <1>1 DEF DeliveriesInit, NoPass, Pass
<1>3. entries = <<>> /\ byID = {} /\ delivery = [d \in {} |-> 0] /\ tasks = EmptyBag
  BY DEF DeliveriesInit, HistoryInit
<1>4. entries \in Seq(Nat) /\ Range(entries) = {}
  BY <1>3 DEF Range
<1> QED BY <1>1, <1>2, <1>3, <1>4 DEF HistoryInv

\* Every step keeps it.
LEMMA StepHistoryInv == HistoryInv /\ RoutesInv /\ [DeliveriesNext]_deliveriesVars => HistoryInv'
<1> SUFFICES ASSUME HistoryInv, RoutesInv, [DeliveriesNext]_deliveriesVars PROVE HistoryInv'
  OBVIOUS
<1>0. ASSUME UNCHANGED <<historyVars, worker, tasks>> PROVE HistoryInv'
  <2>1. \A d : Underway(d)' <=> Underway(d)
    BY <1>0 DEF Underway
  <2> QED BY <1>0, <2>1 DEF HistoryInv, historyVars
<1>0a. ASSUME NEW t \in [hooks : HookBag, retries : Nat]
       PROVE  /\ BagToSet(tasks (+) SetToBag({t})) \subseteq [hooks : HookBag, retries : Nat]
              /\ BagToSet(tasks (+) SetToBag({})) \subseteq [hooks : HookBag, retries : Nat]
  BY DEF HistoryInv, BagToSet, (+), SetToBag
<1>1. ASSUME NEW e \in EventTypes, NotifyMatching(e) PROVE HistoryInv'
  <2> DEFINE matched == [h \in {x \in HookIds : Matches(e, x) > 0} |-> Matches(e, h)]
  <2>1. \A h \in HookIds : Matches(e, h) \in Nat
    BY DEF RoutesInv, Matches, Route
  <2>2. matched \in HookBag
    <3> DEFINE D == {x \in HookIds : Matches(e, x) > 0}
    <3>1. matched \in [D -> Nat \ {0}] /\ D \in SUBSET HookIds
      BY <2>1
    <3> HIDE DEF matched, D
    <3> QED BY <3>1 DEF HookBag
  <2>3. /\ tasks' = tasks (+) SetToBag({[hooks |-> matched, retries |-> 0]})
        /\ UNCHANGED <<historyVars, worker>>
    BY <1>1 DEF NotifyMatching
  <2> HIDE DEF matched
  <2>4. [hooks |-> matched, retries |-> 0] \in [hooks : HookBag, retries : Nat]
    BY <2>2
  <2>5. BagToSet(tasks') \subseteq [hooks : HookBag, retries : Nat]
    BY <1>0a, <2>3, <2>4
  <2>6. \A d : Underway(d)' <=> Underway(d)
    BY <2>3 DEF Underway
  <2> QED BY <2>3, <2>5, <2>6 DEF HistoryInv, historyVars
<1>2. ASSUME NEW w \in Workers, TakeTask(w) PROVE HistoryInv'
  <2>1. PICK t \in BagToSet(tasks) :
          /\ tasks' = tasks (-) SetToBag({t})
          /\ worker' = [worker EXCEPT ![w] = [NoPass EXCEPT !.pc = "next", !.hooks = t.hooks,
                                              !.todo = t.hooks, !.retries = t.retries]]
    BY <1>2 DEF TakeTask
  <2>2. t \in [hooks : HookBag, retries : Nat]
    BY DEF HistoryInv
  <2>3. BagToSet(tasks') \subseteq BagToSet(tasks)
    BY <2>1 DEF BagToSet, (-)
  <2>4. worker' \in [Workers -> Pass]
    BY <2>1, <2>2 DEF HistoryInv, Pass, NoPass
  <2>5. worker[w].pc = "idle" /\ UNCHANGED historyVars
    BY <1>2 DEF TakeTask
  <2>6. \A x \in Workers : x # w => worker'[x] = worker[x]
    BY <2>1 DEF HistoryInv
  <2>7. \A d : Underway(d) => Underway(d)'
    BY <2>5, <2>6 DEF Underway
  <2> QED BY <2>3, <2>4, <2>5, <2>7 DEF HistoryInv, historyVars
<1>3. ASSUME NEW w \in Workers, NextHook(w) PROVE HistoryInv'
  <2>1. worker[w].pc = "next" /\ UNCHANGED <<historyVars, tasks>>
    BY <1>3 DEF NextHook
  <2>2. /\ worker' \in [Workers -> Pass]
        /\ \A x \in Workers : x # w => worker'[x] = worker[x]
    <3>1. CASE worker' = [worker EXCEPT ![w] = NoPass]
      <4>1. NoPass \in Pass
        <5>1. EmptyBag = [e \in {} |-> 1] /\ {} \in SUBSET HookIds
          BY DEF EmptyBag, SetToBag
        <5>2. EmptyBag \in [{} -> Nat \ {0}]
          BY <5>1
        <5>3. EmptyBag \in HookBag
          BY <5>1, <5>2 DEF HookBag
        <5> HIDE DEF EmptyBag
        <5> QED BY <5>3 DEF NoPass, Pass
      <4> QED BY <3>1, <4>1 DEF HistoryInv
    <3>2. ASSUME NEW h \in BagToSet(worker[w].todo), created + 1 \in Deliveries,
                 worker' = [worker EXCEPT ![w].pc = "record", ![w].h = h, ![w].d = created + 1,
                                          ![w].todo = @ (-) SetToBag({h})]
          PROVE  /\ worker' \in [Workers -> Pass]
                 /\ \A x \in Workers : x # w => worker'[x] = worker[x]
      <4>1. worker[w] \in Pass /\ worker[w].todo \in HookBag
        BY DEF HistoryInv, Pass
      <4>2. h \in HookIds
        BY <4>1 DEF HookBag, BagToSet
      <4>3. worker[w].todo (-) SetToBag({h}) \in HookBag
        BY <4>1, HookBagLess
      <4>4. created + 1 \in Nat
        BY <3>2, HistoryAssumption
      <4> QED BY <3>2, <4>1, <4>2, <4>3, <4>4 DEF HistoryInv, Pass
    <3> QED BY <1>3, <3>1, <3>2 DEF NextHook
  <2>3. \A d : Underway(d) => Underway(d)'
    BY <2>1, <2>2 DEF Underway
  <2> QED BY <2>1, <2>2, <2>3 DEF HistoryInv, historyVars
<1>4. ASSUME NEW w \in Workers, Record(w) PROVE HistoryInv'
  <2>0. PICK d, h : d = worker[w].d /\ h = worker[w].h
    OBVIOUS
  <2>1. /\ worker[w].pc = "record" /\ tasks' = tasks
        /\ worker' = [worker EXCEPT ![w].pc = "send", ![w].attempt = 1]
        /\ entries' = Append(entries, d) /\ byID' = byID \cup {d}
        /\ delivery' = [i \in DOMAIN delivery \cup {d} |->
              IF i = d THEN [hook |-> h, status |-> "delivering"] ELSE delivery[i]]
    BY <1>4, <2>0 DEF Record, RecordDelivery
  <2>2. worker[w] \in Pass /\ d \in Nat /\ h \in HookIds \cup {"none"}
    BY <2>0 DEF HistoryInv, Pass
  <2>3. /\ worker' \in [Workers -> Pass]
        /\ \A x \in Workers : x # w => worker'[x] = worker[x]
        /\ worker'[w].d = d /\ worker'[w].pc = "send"
    BY <2>0, <2>1, <2>2 DEF HistoryInv, Pass
  <2>4. entries' \in Seq(Nat) /\ byID' = Range(entries')
    BY <2>1, <2>2, RangeAppend DEF HistoryInv
  <2>5. delivery' \in [byID' -> Entry]
    <3>1. [hook |-> h, status |-> "delivering"] \in Entry /\ DOMAIN delivery = byID
      BY <2>2 DEF Entry, HistoryInv
    <3>2. Entry' = Entry
      BY DEF Entry, Counted
    <3> HIDE DEF Entry
    <3> QED BY <2>1, <3>1, <3>2 DEF HistoryInv
  <2>6. \A i : Underway(i) => Underway(i)'
    BY <2>1, <2>3 DEF Underway
  <2>7. Underway(d)'
    BY <2>3 DEF Underway
  <2>8. ASSUME NEW i \in byID' PROVE delivery'[i].status \in Counted' \/ Underway(i)'
    <3>1. CASE i = d
      BY <2>7, <3>1
    <3>2. CASE i # d
      <4>1. delivery'[i] = delivery[i] /\ i \in byID
        BY <2>1, <3>2 DEF HistoryInv
      <4> QED BY <2>6, <4>1 DEF HistoryInv, Counted
    <3> QED BY <3>1, <3>2
  <2> QED BY <2>1, <2>3, <2>4, <2>5, <2>8 DEF HistoryInv
<1>5. ASSUME NEW w \in Workers, SendAttempt(w) PROVE HistoryInv'
  <2>1. worker[w].pc = "send" /\ UNCHANGED <<historyVars, tasks>> /\ worker[w] \in Pass
    BY <1>5 DEF SendAttempt, HistoryInv
  <2>2. /\ worker' \in [Workers -> Pass]
        /\ \A x \in Workers : x # w => worker'[x] = worker[x]
        /\ worker'[w].d = worker[w].d /\ worker'[w].pc \in {"send", "report"}
    <3>1. ASSUME NEW p \in Pass, worker' = [worker EXCEPT ![w] = p],
                 p.d = worker[w].d, p.pc \in {"send", "report"}
          PROVE  /\ worker' \in [Workers -> Pass]
                 /\ \A x \in Workers : x # w => worker'[x] = worker[x]
                 /\ worker'[w].d = worker[w].d /\ worker'[w].pc \in {"send", "report"}
      BY <3>1 DEF HistoryInv
    <3>2. \A b \in BOOLEAN : [worker[w] EXCEPT !.pc = "report", !.ok = b] \in Pass
      BY <2>1 DEF Pass
    <3>3. [worker[w] EXCEPT !.attempt = @ + 1] \in Pass
      BY <2>1 DEF Pass
    <3>4. CASE \E b \in BOOLEAN : worker' = [worker EXCEPT ![w].pc = "report", ![w].ok = b]
      <4>1. PICK b \in BOOLEAN : worker' = [worker EXCEPT ![w] = [worker[w] EXCEPT !.pc = "report", !.ok = b]]
        BY <3>4 DEF HistoryInv
      <4>2. PICK p : p = [worker[w] EXCEPT !.pc = "report", !.ok = b]
        OBVIOUS
      <4>3. p \in Pass /\ p.d = worker[w].d /\ p.pc = "report"
        BY <2>1, <3>2, <4>2 DEF Pass
      <4> QED BY <3>1, <4>1, <4>2, <4>3
    <3>5. CASE worker' = [worker EXCEPT ![w].attempt = @ + 1]
      <4>1. PICK p : p = [worker[w] EXCEPT !.attempt = @ + 1]
        OBVIOUS
      <4>2. p \in Pass /\ p.d = worker[w].d /\ p.pc = "send"
        BY <2>1, <3>3, <4>1 DEF Pass
      <4> QED BY <3>1, <3>5, <4>1, <4>2
    <3> QED BY <1>5, <3>4, <3>5 DEF SendAttempt
  <2>3. \A d : Underway(d) => Underway(d)'
    BY <2>2 DEF Underway
  <2> QED BY <2>1, <2>2, <2>3 DEF HistoryInv, historyVars
<1>6. ASSUME NEW w \in Workers, Report(w) PROVE HistoryInv'
  <2> DEFINE again == ~worker[w].ok /\ worker[w].retries < TaskRetries
             n == worker[w].retries + 1
  <2>0. PICK d : d = worker[w].d
    OBVIOUS
  <2>1. /\ worker[w].pc = "report"
        /\ UpdateDeliveryStatus(d, Status(w))
        /\ tasks' = tasks (+) SetToBag(IF again THEN {[hooks |-> worker[w].hooks, retries |-> n]} ELSE {})
        /\ worker' = [worker EXCEPT ![w] = [NoPass EXCEPT
                      !.pc = "next", !.hooks = worker[w].hooks, !.todo = worker[w].todo,
                      !.retries = IF again THEN n ELSE worker[w].retries]]
    BY <1>6, <2>0 DEF Report, ReportStatus
  <2>2. worker[w] \in Pass /\ n \in Nat /\ worker[w].hooks \in HookBag
    BY DEF HistoryInv, Pass
  <2>3. /\ worker' \in [Workers -> Pass]
        /\ \A x \in Workers : x # w => worker'[x] = worker[x]
    <3>1. PICK p : p = [NoPass EXCEPT !.pc = "next", !.hooks = worker[w].hooks, !.todo = worker[w].todo,
                                      !.retries = IF again THEN n ELSE worker[w].retries]
      OBVIOUS
    <3>2. p \in Pass
      BY <2>2, <3>1 DEF Pass, NoPass
    <3>3. worker' = [worker EXCEPT ![w] = p]
      BY <2>1, <3>1
    <3> QED BY <3>2, <3>3 DEF HistoryInv
  <2>4. BagToSet(tasks') \subseteq [hooks : HookBag, retries : Nat]
    <3> DEFINE t == [hooks |-> worker[w].hooks, retries |-> n]
    <3>1. t \in [hooks : HookBag, retries : Nat]
      BY <2>2
    <3>2. tasks' \in {tasks (+) SetToBag({t}), tasks (+) SetToBag({})}
      BY <2>1
    <3> HIDE DEF t
    <3> QED BY <1>0a, <3>1, <3>2
  <2>5. Status(w) \in Counted
    BY DEF Status, Counted
  <2> HIDE DEF again, n
  <2>6. /\ entries' = entries /\ byID' = byID
        /\ delivery' = IF d \in byID THEN [delivery EXCEPT ![d].status = Status(w)] ELSE delivery
    BY <2>1 DEF UpdateDeliveryStatus
  <2>7. /\ delivery' \in [byID -> Entry]
        /\ \A i \in byID : delivery'[i].status = IF i = d THEN Status(w) ELSE delivery[i].status
    BY <2>5, <2>6 DEF HistoryInv, Entry
  <2>8. ASSUME NEW i \in byID PROVE delivery'[i].status \in Counted' \/ Underway(i)'
    <3>1. CASE i = d
      BY <2>5, <2>7, <3>1 DEF Counted
    <3>2. CASE i # d
      <4>1. ASSUME Underway(i) PROVE Underway(i)'
        <5>1. PICK x \in Workers : worker[x].d = i /\ worker[x].pc \in {"send", "report"}
          BY <4>1 DEF Underway
        <5>2. x # w
          BY <2>0, <3>2, <5>1
        <5> QED BY <2>3, <5>1, <5>2 DEF Underway
      <4> QED BY <2>7, <3>2, <4>1 DEF HistoryInv, Counted
    <3> QED BY <3>1, <3>2
  <2> QED BY <2>3, <2>4, <2>6, <2>7, <2>8 DEF HistoryInv
<1>7. CASE Housekeeping
  <2>0. UNCHANGED <<worker, tasks>> /\ entries \in Seq(Nat) /\ byID = Range(entries)
    BY <1>7 DEF Housekeeping, workVars, HistoryInv
  <2>1. ASSUME NEW cutoff \in 0 .. created, EnforceRetention(cutoff) PROVE HistoryInv'
    <3> DEFINE young == Younger(cutoff)
               m == IF Len(young) < MaxHistory THEN Len(young) ELSE MaxHistory
               kept == SubSeq(young, 1, m)
    <3>1. young \in Seq(Nat) /\ Range(young) \subseteq Range(entries)
      BY <2>0, YoungerKept
    <3>2. Keep(kept)
      BY <2>1 DEF EnforceRetention
    <3> HIDE DEF young
    <3>3. m \in Nat /\ m <= Len(young)
      BY <3>1, HistoryAssumption
    <3> HIDE DEF m
    <3>4. kept \in Seq(Nat) /\ Len(kept) = m /\ \A i \in 1 .. m : kept[i] = young[i]
      BY <3>1, <3>3, SubSeqProperties
    <3> HIDE DEF kept
    <3>5. Range(kept) \subseteq Range(young)
      <4> SUFFICES ASSUME NEW x \in Range(kept) PROVE x \in Range(young)
        OBVIOUS
      <4>1. PICK i \in DOMAIN kept : x = kept[i]
        BY Zenon DEF Range
      <4>2. DOMAIN kept = 1 .. m /\ DOMAIN young = 1 .. Len(young) /\ Len(young) \in Nat
        BY <3>1, <3>4, LenProperties
      <4>3. i \in DOMAIN young /\ x = young[i]
        BY <3>3, <3>4, <4>1, <4>2
      <4> QED BY <4>3, Zenon DEF Range
    <3> QED BY <2>0, <3>1, <3>2, <3>4, <3>5, KeepHistoryInv
  <2>2. CASE Clear
    <3>1. Keep(<<>>) /\ <<>> \in Seq(Nat) /\ Range(<<>>) \subseteq byID
      BY <2>2 DEF Clear, Range
    <3> QED BY <2>0, <3>1, KeepHistoryInv
  <2> QED BY <1>7, <2>1, <2>2 DEF Housekeeping
<1>8. CASE ManagerNext /\ UNCHANGED <<historyVars, workVars>>
  BY <1>0, <1>8 DEF workVars
<1>9. CASE UNCHANGED deliveriesVars
  BY <1>0, <1>9 DEF deliveriesVars, workVars
<1>10. ASSUME NEW w \in Workers, WorkerStep(w) PROVE HistoryInv'
  BY <1>2, <1>3, <1>4, <1>5, <1>6, <1>10 DEF WorkerStep
<1> QED BY <1>1, <1>7, <1>8, <1>9, <1>10 DEF DeliveriesNext

(* Whatever is kept of an ended delivery shows its outcome (history.go:100, *)
(* 322-338, 387-398), for any number of workers, webhooks and deliveries:   *)
(* however retention, Clear and the workers interleave, the list and the    *)
(* map agree and only a delivery under way has no outcome.                  *)
THEOREM OutcomesTold == DeliveriesSpec => []HistoryTellsOutcomes
<1>1. DeliveriesInit => RoutesInv /\ HistoryInv
  BY InitRoutesInv, InitHistoryInv DEF DeliveriesInit
<1>2. RoutesInv /\ HistoryInv /\ [DeliveriesNext]_deliveriesVars => (RoutesInv /\ HistoryInv)'
  BY StepRoutesInv, StepHistoryInv
<1>3. HistoryInv => HistoryTellsOutcomes
  BY DEF HistoryInv, HistoryTellsOutcomes, Underway
<1> QED BY <1>1, <1>2, <1>3, PTL DEF DeliveriesSpec
-----------------------------------------------------------------------------
(* The limiters *)

Request == [pc : {"idle", "find", "refill", "store", "check", "load", "take"},
            chain : Seq(Keys), b : Ids \cup {0}, at : Nat, tok : Int]

RateType ==
  /\ now \in Nat
  /\ bucket \in [Ids -> [tokens : Int, last : Nat]]
  /\ table \in [Keys -> Ids \cup {0}]
  /\ req \in [Slots -> Request]
  /\ passed \in [Keys -> Int]

\* The tokens that p requests took and those left in a bucket come from its burst
\* and the time up to its last refill.
Backed(p, tokens, last) == tokens >= 0 /\ last <= now /\ p + tokens <= Burst + Rate * last

\* What key k got is backed by its bucket or, when the bucket went, by time alone.
KeyBacked(k) ==
  passed[k] # Excused =>
    /\ table[k] = 0 => passed[k] <= Rate * now
    /\ table[k] # 0 => Backed(passed[k], bucket[table[k]].tokens, bucket[table[k]].last)

\* Two keys have two buckets.
Apart == \A k, l \in Keys : table[k] = table[l] /\ table[k] # 0 => k = l

\* Request s uses the bucket of its key, alone, and what it has loaded is good.
Alone(s) ==
  /\ table[Key(s)] = req[s].b
  /\ \A x \in Slots \ {s} : Inside(x) => Key(x) # Key(s)
  /\ req[s].pc = "store" => Backed(passed[Key(s)], req[s].tok, req[s].at)
  /\ req[s].pc = "load" => Bucket(s).tokens >= 1
  /\ req[s].pc = "take" => req[s].tok = Bucket(s).tokens /\ req[s].tok >= 1

\* A request holds a bucket, which no other key has, exactly while it is inside.
Holding(s) ==
  /\ req[s].pc # "idle" => req[s].chain # <<>>
  /\ ~Inside(s) => req[s].b = 0
  /\ Inside(s) => req[s].b # 0 /\ \A k \in Keys \ {Key(s)} : table[k] # req[s].b
  /\ Inside(s) /\ passed[Key(s)] # Excused => Alone(s)

BucketInv ==
  /\ RateType /\ Apart
  /\ \A k \in Keys : KeyBacked(k)
  /\ \A s \in Slots : Holding(s)

\* What has been admitted in the present window, the last of all.
Recently == IF entry.count < Most THEN entry.count ELSE Most

\* allow: the present visit is more than a window after what was admitted before.
VisitInv ==
  /\ entry.count = 0 => \A i \in 1 .. Len(admitted) : admitted[i] + Window < now
  /\ entry.count # 0 =>
       /\ Recently <= Len(admitted)
       /\ \A i \in 1 .. Len(admitted) : admitted[i] <= entry.since
       /\ \A i \in 1 .. Len(admitted) - Recently :
            \A j \in Len(admitted) - Recently + 1 .. Len(admitted) : admitted[j] > admitted[i] + Window

\* CheckRateLimit: what was admitted before the present window is before it, and
\* all but one window's worth of that by more than a window.
WindowInv ==
  /\ entry.count = 0 => admitted = <<>>
  /\ entry.count # 0 =>
       /\ Recently <= Len(admitted)
       /\ \A i \in 1 .. Len(admitted) : admitted[i] <= entry.since + Window
       /\ \A i \in Len(admitted) - Recently + 1 .. Len(admitted) : admitted[i] >= entry.since
       /\ \A i \in 1 .. Len(admitted) - Recently : admitted[i] < entry.since
       /\ \A i \in 1 .. Len(admitted) - Recently - Most : admitted[i] + Window < entry.since

Spaced(n) == \A i \in 1 .. Len(admitted) - n : admitted[i + n] > admitted[i] + Window

CountInv ==
  /\ kind \in {"bucket", "visitors", "window"} /\ now \in Nat
  /\ entry \in [count : Nat, since : Nat] /\ entry.since <= now
  /\ admitted \in Seq(Nat) 
  /\ kind = "bucket" => admitted = <<>>
  /\ kind = "visitors" => VisitInv /\ Spaced(Most)
  /\ kind = "window" => WindowInv /\ Spaced(2 * Most)

LEMMA RateConstants ==
  /\ Burst \in Nat /\ Rate \in Nat /\ Interval \in Nat /\ Limit \in Nat /\ Window \in Nat
  /\ Most \in Nat /\ Most >= 1 /\ Limit <= Most
BY RateAssumption DEF Most

\* An admission is added at the end.
LEMMA AdmittedAppend ==
  ASSUME NEW s \in Seq(Nat), NEW t \in Nat
  PROVE  /\ Append(s, t) \in Seq(Nat) /\ Len(s) \in Nat /\ Len(Append(s, t)) = Len(s) + 1
         /\ Append(s, t)[Len(s) + 1] = t
         /\ \A i \in 1 .. Len(s) : Append(s, t)[i] = s[i] /\ s[i] \in Nat
BY AppendProperties, ElementOfSeq

\* A request that begins a visit, or is one more of it.
LEMMA AllowCounts ==
  ASSUME CountInv, Allow
  PROVE  CountInv'
<1>0. /\ kind = "visitors" /\ kind' = kind /\ now' = now /\ now \in Nat
      /\ entry \in [count : Nat, since : Nat] /\ entry.since <= now
      /\ admitted \in Seq(Nat) /\ VisitInv /\ Spaced(Most)
  BY DEF CountInv, Allow, Admit
<1>a. PICK L : L = Len(admitted)
  OBVIOUS
<1>1. /\ Append(admitted, now) \in Seq(Nat) /\ L \in Nat /\ Len(Append(admitted, now)) = L + 1
      /\ Append(admitted, now)[L + 1] = now
      /\ \A i \in 1 .. L : Append(admitted, now)[i] = admitted[i] /\ admitted[i] \in Nat
  BY <1>0, <1>a, AdmittedAppend
<1>2. CASE Over /\ Admit(Begun, TRUE)
  <2>1. /\ entry' = Begun /\ admitted' = Append(admitted, now)
        /\ Begun.count = 1 /\ Begun.since = now /\ Begun \in [count : Nat, since : Nat]
    BY <1>0, <1>2 DEF Admit, Begun
  <2>2. \A i \in 1 .. L : admitted[i] + Window < now
    BY <1>0, <1>1, <1>2, RateConstants DEF Over, VisitInv
  <2>3. Recently' = 1
    BY <2>1, RateConstants DEF Recently, Most
  <2>4. \A i \in 1 .. L : admitted'[i] = admitted[i] /\ admitted'[i] <= now
    BY <1>1, <2>1, <2>2, RateConstants
  <2>5. Len(admitted') = L + 1 /\ admitted'[L + 1] = now
    BY <1>1, <2>1
  <2>6. VisitInv'
    BY <1>0, <1>1, <2>1, <2>2, <2>3, <2>4, <2>5, <1>a DEF VisitInv
  <2>7. Spaced(Most)'
    <3> SUFFICES ASSUME NEW i \in 1 .. L + 1 - Most PROVE admitted'[i + Most] > admitted'[i] + Window
      BY <1>1, <2>5, RateConstants DEF Spaced
    <3>1. i \in 1 .. L
      BY <1>1, RateConstants
    <3>2. CASE i + Most = L + 1
      <4>1. admitted'[i + Most] = now /\ admitted'[i] = admitted[i]
        BY <2>4, <2>5, <3>1, <3>2
      <4> QED BY <2>2, <3>1, <4>1
    <3>3. CASE i + Most # L + 1
      <4>1. i + Most \in 1 .. L /\ i \in 1 .. L - Most
        BY <1>1, <3>1, <3>3, RateConstants
      <4> QED BY <1>0, <2>4, <3>1, <4>1, <1>a DEF Spaced
    <3> QED BY <3>2, <3>3
  <2> QED BY <1>0, <1>1, <2>1, <2>6, <2>7 DEF CountInv
<1>3. CASE /\ ~Over /\ Admit([count |-> entry.count + 1, since |-> now], entry.count + 1 <= Limit)
           /\ entry.count + 1 <= Limit
  <2>1. /\ entry' = [count |-> entry.count + 1, since |-> now] /\ admitted' = Append(admitted, now)
        /\ entry'.count = entry.count + 1 /\ entry'.since = now
        /\ entry' \in [count : Nat, since : Nat] /\ entry.count # 0 /\ entry.count \in Nat
    BY <1>0, <1>3 DEF Admit, Over
  <2>2. Recently = entry.count /\ Recently' = entry.count + 1 /\ entry.count + 1 <= Most
    BY <1>3, <2>1, RateConstants DEF Recently, Most
  <2>3. /\ entry.count <= L
        /\ \A i \in 1 .. L : admitted[i] <= now
        /\ \A i \in 1 .. L - entry.count :
             \A j \in L - entry.count + 1 .. L : admitted[j] > admitted[i] + Window
    BY <1>0, <1>1, <2>1, <2>2, <1>a DEF VisitInv
  <2>4. \A i \in 1 .. L : admitted'[i] = admitted[i]
    BY <1>1, <2>1
  <2>5. Len(admitted') = L + 1 /\ admitted'[L + 1] = now
    BY <1>1, <2>1
  <2>6. \A i \in 1 .. L - entry.count : now > admitted[i] + Window
    <3> TAKE i \in 1 .. L - entry.count
    <3>0. \A l, m \in Nat : \A j \in 1 .. l - m :
            m # 0 => j \in 1 .. l /\ l \in l - m + 1 .. l /\ l \in 1 .. l
      OBVIOUS
    <3>1. i \in 1 .. L /\ L \in L - entry.count + 1 .. L /\ L \in 1 .. L
      BY <1>1, <2>1, <3>0
    <3>2. admitted[L] > admitted[i] + Window /\ admitted[L] <= now
      BY <2>3, <3>1
    <3>3. admitted[L] \in Nat /\ admitted[i] \in Nat
      BY <1>1, <3>1
    <3>4. \A a, b, c, d \in Nat : a > b + c /\ a <= d => d > b + c
      OBVIOUS
    <3> QED BY <1>0, <3>2, <3>3, <3>4, RateConstants
  <2>7. VisitInv'
    <3>1. \A i \in 1 .. L + 1 : admitted'[i] <= now
      BY <1>0, <1>1, <2>3, <2>4, <2>5
    <3>2. ASSUME NEW i \in 1 .. (L + 1) - (entry.count + 1),
                 NEW j \in (L + 1) - (entry.count + 1) + 1 .. L + 1
          PROVE  admitted'[j] > admitted'[i] + Window
      <4>0. \A l, m \in Nat : \A k \in 1 .. (l + 1) - (m + 1) : k \in 1 .. l - m /\ k \in 1 .. l
        OBVIOUS
      <4>1. i \in 1 .. L - entry.count /\ i \in 1 .. L
        BY <1>1, <2>1, <4>0
      <4>2. CASE j = L + 1
        BY <2>4, <2>5, <2>6, <4>1, <4>2
      <4>3. CASE j # L + 1
        <5>1. j \in L - entry.count + 1 .. L /\ j \in 1 .. L
          <6>1. entry.count \in Nat /\ entry.count <= L
            BY <2>1, <2>3
          <6>2. \A l, c \in Nat : \A m \in (l + 1) - (c + 1) + 1 .. l + 1 :
                  c <= l /\ m # l + 1 => m \in l - c + 1 .. l /\ m \in 1 .. l
            OBVIOUS
          <6> QED BY <1>1, <4>3, <6>1, <6>2
        <5> QED BY <2>3, <2>4, <4>1, <5>1
      <4> QED BY <4>2, <4>3
    <3>3. entry.count + 1 <= L + 1
      BY <1>1, <2>1, <2>3
    <3>4. PICK n, l : n = entry.count + 1 /\ l = L + 1
      OBVIOUS
    <3>5. /\ entry'.count # 0 /\ entry'.since = now /\ now' = now
          /\ Recently' = n /\ Len(admitted') = l /\ n <= l
      BY <1>0, <2>1, <2>2, <2>5, <3>3, <3>4
    <3>6. /\ \A i \in 1 .. l : admitted'[i] <= now
          /\ \A i \in 1 .. l - n : \A j \in l - n + 1 .. l : admitted'[j] > admitted'[i] + Window
      BY <3>1, <3>2, <3>4
    <3> QED BY ONLY <3>5, <3>6 DEF VisitInv
  <2>8. Spaced(Most)'
    <3> SUFFICES ASSUME NEW i \in 1 .. L + 1 - Most PROVE admitted'[i + Most] > admitted'[i] + Window
      BY <1>1, <2>5, RateConstants DEF Spaced
    <3>1. i \in 1 .. L
      BY <1>1, RateConstants
    <3>2. CASE i + Most = L + 1
      <4>1. i \in 1 .. L - entry.count
        BY <1>1, <2>1, <2>2, <3>1, <3>2, RateConstants
      <4>2. admitted'[i + Most] = now /\ admitted'[i] = admitted[i]
        BY <2>4, <2>5, <3>1, <3>2
      <4> QED BY <2>6, <4>1, <4>2
    <3>3. CASE i + Most # L + 1
      <4>1. i + Most \in 1 .. L /\ i \in 1 .. L - Most
        BY <1>1, <3>1, <3>3, RateConstants
      <4> QED BY <1>0, <2>4, <3>1, <4>1, <1>a DEF Spaced
    <3> QED BY <3>2, <3>3
  <2> QED BY <1>0, <1>1, <2>1, <2>7, <2>8 DEF CountInv
<1>4. CASE /\ ~Over /\ Admit([count |-> entry.count + 1, since |-> now], entry.count + 1 <= Limit)
           /\ ~(entry.count + 1 <= Limit)
  <2>1. /\ entry' = [count |-> entry.count + 1, since |-> now] /\ admitted' = admitted
        /\ entry'.count = entry.count + 1 /\ entry'.since = now
        /\ entry' \in [count : Nat, since : Nat] /\ entry.count # 0 /\ entry.count \in Nat
    BY <1>0, <1>4 DEF Admit, Over
  <2>2. Recently' = Recently
    BY <1>4, <2>1, RateConstants DEF Recently, Most
  <2>3. VisitInv'
    BY <1>0, <1>1, <2>1, <2>2, <1>a DEF VisitInv
  <2>4. Spaced(Most)'
    BY <1>0, <2>1 DEF Spaced, Most
  <2> QED BY <1>0, <2>1, <2>3, <2>4 DEF CountInv
<1> QED BY <1>2, <1>3, <1>4 DEF Allow

\* A request that opens a window, or is one more of it.
LEMMA CheckCounts ==
  ASSUME CountInv, CheckRateLimit
  PROVE  CountInv'
<1>0. /\ kind = "window" /\ kind' = kind /\ now' = now /\ now \in Nat
      /\ entry \in [count : Nat, since : Nat] /\ entry.since <= now
      /\ admitted \in Seq(Nat) /\ WindowInv /\ Spaced(2 * Most)
  BY DEF CountInv, CheckRateLimit, Admit
<1>a. PICK L, c, b : L = Len(admitted) /\ c = entry.count /\ b = entry.since
  OBVIOUS
<1>b. PICK n : n = 2 * Most
  OBVIOUS
<1>1. /\ Append(admitted, now) \in Seq(Nat) /\ L \in Nat /\ Len(Append(admitted, now)) = L + 1
      /\ Append(admitted, now)[L + 1] = now
      /\ \A i \in 1 .. L : Append(admitted, now)[i] = admitted[i] /\ admitted[i] \in Nat
  BY <1>0, <1>a, AdmittedAppend
<1>c. c \in Nat /\ b \in Nat /\ b <= now /\ n \in Nat /\ n >= 2 /\ n = Most + Most
  BY <1>0, <1>a, <1>b, RateConstants
<1>d. ASSUME admitted' = Append(admitted, now), \A i \in 1 .. L + 1 - n : admitted[i] + Window < now
      PROVE  Spaced(2 * Most)'
  <2>1. Len(admitted') = L + 1 /\ admitted'[L + 1] = now /\ \A i \in 1 .. L : admitted'[i] = admitted[i]
    BY <1>1, <1>d
  <2> SUFFICES ASSUME NEW i \in 1 .. L + 1 - n PROVE admitted'[i + n] > admitted'[i] + Window
    BY <1>1, <1>b, <1>c, <2>1 DEF Spaced
  <2>2. i \in 1 .. L
    BY <1>1, <1>c
  <2>3. CASE i + n = L + 1
    <3>1. admitted'[i + n] = now /\ admitted'[i] = admitted[i] /\ admitted[i] + Window < now
      BY <1>d, <2>1, <2>2, <2>3
    <3> QED BY <3>1
  <2>4. CASE i + n # L + 1
    <3>0. \A l, m \in Nat : \A j \in 1 .. l + 1 - m :
            m >= 2 /\ j + m # l + 1 => j + m \in 1 .. l /\ j \in 1 .. l - m
      OBVIOUS
    <3>1. i + n \in 1 .. L /\ i \in 1 .. L - n
      BY <1>1, <1>c, <2>4, <3>0
    <3>2. admitted[i + n] > admitted[i] + Window
      BY <1>0, <1>a, <1>b, <3>1 DEF Spaced
    <3> QED BY <2>1, <2>2, <3>1, <3>2
  <2> QED BY <2>3, <2>4
<1>2. CASE Over /\ Admit(Begun, TRUE)
  <2>1. /\ entry' = Begun /\ admitted' = Append(admitted, now)
        /\ Begun.count = 1 /\ Begun.since = now /\ Begun \in [count : Nat, since : Nat]
    BY <1>0, <1>2 DEF Admit, Begun
  <2>2. Recently' = 1
    BY <2>1, RateConstants DEF Recently, Most
  <2>3. Len(admitted') = L + 1 /\ admitted'[L + 1] = now /\ \A i \in 1 .. L : admitted'[i] = admitted[i]
    BY <1>1, <2>1
  <2>4. /\ \A i \in 1 .. L : admitted[i] < now
        /\ \A i \in 1 .. L - Most : admitted[i] + Window < now
    <3>1. CASE c = 0
      <4>1. L = 0
        BY <1>0, <1>a, <3>1 DEF WindowInv
      <4> QED BY <4>1, RateConstants
    <3>2. CASE c # 0
      <4>1. now - b > Window
        BY <1>2, <1>a, <3>2 DEF Over
      <4>2. /\ \A i \in 1 .. L : admitted[i] <= b + Window
            /\ \A i \in 1 .. L - Recently : admitted[i] < b
        BY <1>0, <1>a, <3>2 DEF WindowInv
      <4>3. Recently \in Nat /\ Recently <= Most
        BY <1>a, <1>c, RateConstants DEF Recently
      <4>4. \A i \in 1 .. L : admitted[i] < now
        BY <1>0, <1>1, <1>c, <4>1, <4>2, RateConstants
      <4>5. ASSUME NEW i \in 1 .. L - Most PROVE admitted[i] + Window < now
        <5>1. i \in 1 .. L - Recently /\ i \in 1 .. L
          BY <1>1, <4>3, RateConstants
        <5>2. admitted[i] < b /\ admitted[i] \in Nat
          BY <1>1, <4>2, <5>1
        <5> QED BY <1>0, <1>c, <4>1, <5>2, RateConstants
      <4> QED BY <4>4, <4>5
    <3> QED BY <3>1, <3>2
  <2>5. WindowInv'
    <3>0. PICK r : r = 1
      OBVIOUS
    <3>1. \A i \in 1 .. L + 1 : admitted'[i] <= now + Window
      <4> TAKE i \in 1 .. L + 1
      <4>1. CASE i = L + 1
        BY <1>0, <2>3, <4>1, RateConstants
      <4>2. CASE i \in 1 .. L
        <5>1. admitted'[i] \in Nat /\ admitted'[i] < now
          BY <1>1, <2>3, <2>4, <4>2
        <5> QED BY <1>0, <5>1, RateConstants
      <4> QED BY <1>1, <4>1, <4>2
    <3>2. \A i \in (L + 1) - r + 1 .. L + 1 : admitted'[i] >= now
      <4> TAKE i \in (L + 1) - r + 1 .. L + 1
      <4>1. i = L + 1
        BY <1>1, <3>0
      <4> QED BY <1>0, <2>3, <4>1
    <3>3. \A i \in 1 .. (L + 1) - r : admitted'[i] < now
      BY <1>1, <2>3, <2>4, <3>0
    <3>4. \A i \in 1 .. (L + 1) - r - Most : admitted'[i] + Window < now
      <4> TAKE i \in 1 .. (L + 1) - r - Most
      <4>1. i \in 1 .. L - Most /\ i \in 1 .. L
        BY <1>1, <3>0, RateConstants
      <4> QED BY <2>3, <2>4, <4>1
    <3>5. r <= L + 1 /\ Recently' = r
      BY <1>1, <2>2, <3>0
    <3>6. entry'.count = 1 /\ entry'.since = now /\ Window' = Window /\ Most' = Most
      BY <2>1
    <3> QED BY <2>3, <3>1, <3>2, <3>3, <3>4, <3>5, <3>6 DEF WindowInv
  <2>6. \A i \in 1 .. L + 1 - n : admitted[i] + Window < now
    <3> TAKE i \in 1 .. L + 1 - n
    <3>1. i \in 1 .. L - Most
      BY <1>1, <1>c, RateConstants
    <3> QED BY <2>4, <3>1
  <2> QED BY <1>0, <1>1, <1>d, <2>1, <2>5, <2>6 DEF CountInv
<1>3. CASE ~Over /\ Admit([entry EXCEPT !.count = @ + 1], entry.count + 1 <= Limit)
  <2>1. /\ entry'.count = c + 1 /\ entry'.since = b
        /\ entry' \in [count : Nat, since : Nat] /\ c # 0 /\ now <= b + Window
    <3>1. entry' = [entry EXCEPT !.count = @ + 1] /\ c # 0 /\ ~(now - b > Window)
      BY <1>3, <1>a DEF Admit, Over
    <3>a. \A x, y, z \in Nat : ~(x - y > z) => x <= y + z
      OBVIOUS
    <3>2. now <= b + Window
      BY <1>0, <1>c, <3>1, <3>a, RateConstants
    <3>3. entry' \in [count : Nat, since : Nat] /\ entry'.count = entry.count + 1 /\ entry'.since = entry.since
      BY <1>0, <3>1
    <3> QED BY <1>a, <3>1, <3>2, <3>3
  <2>2. /\ Recently <= L
        /\ \A i \in 1 .. L : admitted[i] <= b + Window
        /\ \A i \in L - Recently + 1 .. L : admitted[i] >= b
        /\ \A i \in 1 .. L - Recently : admitted[i] < b
        /\ \A i \in 1 .. L - Recently - Most : admitted[i] + Window < b
    BY <1>0, <1>a, <2>1 DEF WindowInv
  <2>3. CASE c + 1 <= Limit
    <3>1. admitted' = Append(admitted, now)
      BY <1>3, <1>a, <2>3 DEF Admit
    <3>2. Recently = c /\ Recently' = c + 1 /\ c + 1 <= Most
      BY <1>a, <1>c, <2>1, <2>3, RateConstants DEF Recently, Most
    <3>3. Len(admitted') = L + 1 /\ admitted'[L + 1] = now /\ \A i \in 1 .. L : admitted'[i] = admitted[i]
      BY <1>1, <3>1
    <3>4. WindowInv'
      <4>1. \A i \in 1 .. L + 1 : admitted'[i] <= b + Window
        <5> TAKE i \in 1 .. L + 1
        <5>1. CASE i = L + 1
          BY <2>1, <3>3, <5>1
        <5>2. CASE i \in 1 .. L
          BY <2>2, <3>3, <5>2
        <5> QED BY <1>1, <5>1, <5>2
      <4>2. \A i \in (L + 1) - (c + 1) + 1 .. L + 1 : admitted'[i] >= b
        <5> TAKE i \in (L + 1) - (c + 1) + 1 .. L + 1
        <5>1. CASE i = L + 1
          BY <1>0, <1>c, <3>3, <5>1
        <5>2. CASE i # L + 1
          <6>1. i \in L - c + 1 .. L /\ i \in 1 .. L
            BY <1>1, <1>c, <2>2, <3>2, <5>2
          <6> QED BY <2>2, <3>2, <3>3, <6>1
        <5> QED BY <5>1, <5>2
      <4>3. \A i \in 1 .. (L + 1) - (c + 1) : admitted'[i] < b
        <5> TAKE i \in 1 .. (L + 1) - (c + 1)
        <5>1. i \in 1 .. L - c /\ i \in 1 .. L
          BY <1>1, <1>c
        <5> QED BY <2>2, <3>2, <3>3, <5>1
      <4>4. \A i \in 1 .. (L + 1) - (c + 1) - Most : admitted'[i] + Window < b
        <5> TAKE i \in 1 .. (L + 1) - (c + 1) - Most
        <5>1. i \in 1 .. L - c - Most /\ i \in 1 .. L
          BY <1>1, <1>c, RateConstants
        <5> QED BY <2>2, <3>2, <3>3, <5>1
      <4>5. c + 1 <= L + 1
        BY <1>1, <1>c, <2>2, <3>2
      <4>6. c + 1 # 0
        BY <1>c
      <4> QED BY <2>1, <3>2, <3>3, <4>1, <4>2, <4>3, <4>4, <4>5, <4>6 DEF WindowInv
    <3>5. \A i \in 1 .. L + 1 - n : admitted[i] + Window < now
      <4> TAKE i \in 1 .. L + 1 - n
      <4>1. i \in 1 .. L - c - Most /\ i \in 1 .. L
        BY <1>1, <1>c, <3>2, RateConstants
      <4>2. admitted[i] + Window < b /\ admitted[i] \in Nat
        BY <1>1, <2>2, <3>2, <4>1
      <4> QED BY <1>0, <1>c, <4>2, RateConstants
    <3> QED BY <1>0, <1>1, <1>c, <1>d, <2>1, <3>1, <3>4, <3>5 DEF CountInv
  <2>4. CASE ~(c + 1 <= Limit)
    <3>1. admitted' = admitted
      BY <1>3, <1>a, <2>4 DEF Admit
    <3>2. Recently' = Recently
      BY <1>a, <1>c, <2>1, <2>4, RateConstants DEF Recently, Most
    <3>3. c + 1 # 0
      BY <1>c
    <3>4. WindowInv'
      BY <1>a, <2>1, <2>2, <3>1, <3>2, <3>3 DEF WindowInv
    <3>5. Spaced(2 * Most)'
      BY <1>0, <3>1 DEF Spaced
    <3> QED BY <1>0, <1>c, <2>1, <3>1, <3>4, <3>5 DEF CountInv
  <2> QED BY <2>3, <2>4
<1> QED BY <1>2, <1>3 DEF CheckRateLimit

\* Nothing is admitted when time passes, or when a visitor is forgotten.
LEMMA OthersCount ==
  ASSUME CountInv, kind' = kind, now' \in Nat, now <= now', admitted' = admitted,
         entry' = entry \/ (kind = "visitors" /\ entry' = None /\ now - entry.since > 2 * Window)
  PROVE  CountInv'
<1>0. /\ now \in Nat /\ entry \in [count : Nat, since : Nat] /\ entry.since <= now
      /\ entry.since \in Nat /\ admitted \in Seq(Nat) /\ Len(admitted) \in Nat
      /\ \A i \in 1 .. Len(admitted) : admitted[i] \in Nat
  BY ElementOfSeq, LenProperties DEF CountInv
<1>1. \A n : Spaced(n) => Spaced(n)'
  BY DEF Spaced
<1>2. CASE entry' = entry
  <2>1. entry'.since <= now'
    BY <1>0, <1>2
  <2>2. Recently' = Recently
    BY <1>2 DEF Recently, Most
  <2>3. VisitInv => VisitInv'
    <3>1. ASSUME NEW i \in 1 .. Len(admitted), admitted[i] + Window < now PROVE admitted[i] + Window < now'
      BY <1>0, <3>1, RateConstants
    <3> QED BY <1>2, <2>2, <3>1 DEF VisitInv
  <2>4. WindowInv => WindowInv'
    BY <1>2, <2>2 DEF WindowInv
  <2> QED BY <1>0, <1>1, <1>2, <2>1, <2>3, <2>4 DEF CountInv
<1>3. CASE kind = "visitors" /\ entry' = None /\ now - entry.since > 2 * Window
  <2>1. entry' \in [count : Nat, since : Nat] /\ entry'.count = 0 /\ entry'.since = 0
    BY <1>3 DEF None
  <2>2. ASSUME NEW i \in 1 .. Len(admitted) PROVE admitted[i] + Window < now'
    <3>1. VisitInv
      BY <1>3 DEF CountInv
    <3>2. CASE entry.count = 0
      BY <1>0, <3>1, <3>2, RateConstants DEF VisitInv
    <3>3. CASE entry.count # 0
      <4>1. admitted[i] <= entry.since
        BY <3>1, <3>3 DEF VisitInv
      <4>2. \A a, b, w, t \in Nat : a <= b /\ t - b > 2 * w => a + w < t
        OBVIOUS
      <4> QED BY <1>0, <1>3, <4>1, <4>2, RateConstants
    <3> QED BY <3>2, <3>3
  <2>3. VisitInv'
    BY <2>1, <2>2 DEF VisitInv
  <2> QED BY <1>0, <1>1, <1>3, <2>1, <2>3 DEF CountInv
<1> QED BY <1>2, <1>3

LEMMA StepCountInv == CountInv /\ [LimitNext]_limitVars => CountInv'
<1> SUFFICES ASSUME CountInv, [LimitNext]_limitVars PROVE CountInv'
  OBVIOUS
<1>0. now \in Nat
  BY DEF CountInv
<1>1. ASSUME UNCHANGED <<kind, now, entry, admitted>> PROVE CountInv'
  BY <1>0, <1>1, OthersCount
<1>2. CASE Tick
  BY <1>0, <1>2, OthersCount DEF Tick
<1>3. CASE CleanupVisitors
  BY <1>0, <1>3, OthersCount DEF CleanupVisitors, Admit
<1>4. CASE Allow \/ CheckRateLimit
  BY <1>4, AllowCounts, CheckCounts
<1>5. ASSUME NEW s \in Slots, NEW c \in Chains, Arrive(s, c) PROVE CountInv'
  BY <1>1, <1>5 DEF Arrive
<1>6. ASSUME NEW s \in Slots, \/ Find(s) \/ RefillLoads(s) \/ RefillStores(s)
                              \/ Check(s) \/ TakeLoads(s) \/ TakeStores(s)
      PROVE  CountInv'
  BY <1>1, <1>6 DEF Find, RefillLoads, RefillStores, Check, TakeLoads, TakeStores, Goes
<1>7. ASSUME NEW k \in Keys, ResetBucket(k) PROVE CountInv'
  BY <1>1, <1>7 DEF ResetBucket
<1>8. CASE UNCHANGED limitVars
  BY <1>1, <1>8 DEF limitVars
<1> QED BY <1>2, <1>3, <1>4, <1>5, <1>6, <1>7, <1>8 DEF LimitNext

LEMMA InitCountInv == LimitInit => CountInv
<1> SUFFICES ASSUME LimitInit PROVE CountInv
  OBVIOUS
<1>1. /\ admitted = <<>> /\ admitted \in Seq(Nat) /\ Len(admitted) = 0
      /\ entry \in [count : Nat, since : Nat] /\ entry.count = 0 /\ entry.since = 0
  BY EmptySeq DEF LimitInit, None
<1>2. VisitInv /\ WindowInv
  BY <1>1 DEF VisitInv, WindowInv
<1>3. Spaced(Most) /\ Spaced(2 * Most)
  BY <1>1, RateConstants DEF Spaced
<1> QED BY <1>1, <1>2, <1>3 DEF LimitInit, CountInv

\* Time is worth its tokens.
LEMMA RateTimes ==
  ASSUME NEW a \in Nat, NEW b \in Nat, b <= a
  PROVE  /\ Rate * a \in Nat /\ Rate * b \in Nat /\ Rate * (a - b) \in Nat
         /\ Rate * (a - b) = Rate * a - Rate * b /\ Rate * b <= Rate * a
<1>1. Rate \in Nat
  BY RateConstants
<1>2. a - b \in Nat
  OBVIOUS
<1>3. Rate * a \in Nat /\ Rate * b \in Nat /\ Rate * (a - b) \in Nat
  BY <1>1, <1>2
<1>4. Rate * (a - b) = Rate * a - Rate * b
  BY <1>1
<1> QED BY <1>3, <1>4

\* The ids in use leave one free.
LEMMA FreeIdIs ==
  ASSUME RateType, NEW k \in Keys, table[k] = 0
  PROVE  FreeId \in Ids /\ FreeId \notin Range(table) /\ FreeId \notin Held
<1> DEFINE m == Cardinality(Keys)
           n == Cardinality(Slots)
           R == Range(table)
           H == Held
<1>1. m \in Nat /\ n \in Nat
  BY RateAssumption, FS_CardinalityType
<1>2. IsFiniteSet(R) /\ Cardinality(R) <= m
  <2>1. table \in Surjection(Keys, R)
    BY DEF RateType, Surjection, Range
  <2> HIDE DEF R
  <2> QED BY <2>1, RateAssumption, FS_Surjection
<1>3. IsFiniteSet(H) /\ Cardinality(H) <= n
  <2> DEFINE f == [s \in Slots |-> req[s].b]
  <2>1. f \in Surjection(Slots, H)
    BY DEF Surjection, Held
  <2> HIDE DEF f, H
  <2> QED BY <2>1, RateAssumption, FS_Surjection
<1>4. 0 \in R
  BY DEF RateType, Range
<1>5. \E i \in Ids : i \notin R \cup H
  <2> SUFFICES ASSUME Ids \subseteq R \cup H PROVE FALSE
    OBVIOUS
  <2> DEFINE all == 0 .. (m + n)
  <2>1. all \subseteq R \cup H
    BY <1>1, <1>4 DEF Ids
  <2>2. IsFiniteSet(R \cup H) /\ Cardinality(R \cup H) <= Cardinality(R) + Cardinality(H)
    <3> HIDE DEF R, H
    <3>1. /\ IsFiniteSet(R \cup H) /\ IsFiniteSet(R \cap H)
          /\ Cardinality(R \cup H) = Cardinality(R) + Cardinality(H) - Cardinality(R \cap H)
      BY <1>2, <1>3, FS_Union, FS_Intersection
    <3>2. Cardinality(R \cap H) \in Nat /\ Cardinality(R) \in Nat /\ Cardinality(H) \in Nat
      BY <1>2, <1>3, <3>1, FS_CardinalityType
    <3> QED BY <3>1, <3>2
  <2>3. Cardinality(all) = m + n + 1
    <3> HIDE DEF m, n
    <3>1. 0 \in Int /\ m + n \in Int /\ ~(0 > m + n)
      BY <1>1
    <3>2. Cardinality(all) = (m + n) - 0 + 1
      BY <3>1, FS_Interval
    <3> QED BY <1>1, <3>2
  <2> HIDE DEF all, R, H
  <2>4. Cardinality(all) <= Cardinality(R \cup H)
    BY <2>1, <2>2, FS_Subset
  <2>5. Cardinality(R) \in Nat /\ Cardinality(H) \in Nat /\ Cardinality(R \cup H) \in Nat
    BY <1>2, <1>3, <2>2, FS_CardinalityType
  <2> HIDE DEF m, n
  <2> QED BY <1>1, <1>2, <1>3, <2>2, <2>3, <2>4, <2>5
<1> QED BY <1>5, Zenon DEF FreeId

\* The key of a request on its way.
LEMMA KeyOf ==
  ASSUME BucketInv, NEW s \in Slots, req[s].pc # "idle"
  PROVE  Key(s) \in Keys /\ req[s].chain \in Seq(Keys) /\ req[s].chain # <<>>
<1>1. req[s].chain \in Seq(Keys) /\ req[s].chain # <<>>
  BY DEF BucketInv, RateType, Request, Holding
<1> QED BY <1>1, HeadTailProperties DEF Key

\* A request inside takes a step that moves it, writes to its own bucket and adds
\* to what its key got.
LEMMA MovesInside ==
  ASSUME BucketInv, NEW s \in Slots, Inside(s), NEW r \in Request,
         NEW nb \in [tokens : Int, last : Nat], NEW p \in Int,
         UNCHANGED <<now, table>>, bucket' = [bucket EXCEPT ![req[s].b] = nb],
         passed' = [passed EXCEPT ![Key(s)] = p], req' = [req EXCEPT ![s] = r],
         passed[Key(s)] = Excused => p = Excused,
         \/ r.pc \in {"idle", "find"} /\ r.b = 0 /\ (r.pc = "find" => r.chain # <<>>)
         \/ r.pc \notin {"idle", "find"} /\ r.chain = req[s].chain /\ r.b = req[s].b,
         passed[Key(s)] # Excused =>
           /\ Backed(p, nb.tokens, nb.last)
           /\ r.pc = "store" => Backed(p, r.tok, r.at)
           /\ r.pc = "load" => nb.tokens >= 1
           /\ r.pc = "take" => r.tok = nb.tokens /\ r.tok >= 1
  PROVE  BucketInv'
<1>0. PICK k0, b0 : k0 = Key(s) /\ b0 = req[s].b
  OBVIOUS
<1>1. /\ RateType /\ Apart /\ Holding(s) /\ b0 # 0 /\ b0 \in Ids
      /\ \A k \in Keys \ {k0} : table[k] # b0
      /\ passed[k0] # Excused => Alone(s)
  BY <1>0 DEF BucketInv, Holding, RateType, Request
<1>2. k0 \in Keys /\ req[s].chain \in Seq(Keys) /\ req[s].chain # <<>>
  BY <1>0, KeyOf DEF Inside
<1>3. /\ RateType'
      /\ \A i \in Ids : i # b0 => bucket'[i] = bucket[i]
      /\ \A k \in Keys : k # k0 => passed'[k] = passed[k]
      /\ \A x \in Slots : x # s => req'[x] = req[x]
      /\ bucket'[b0] = nb /\ passed'[k0] = p /\ req'[s] = r
  BY <1>0, <1>1, <1>2 DEF RateType
<1>4. \A q, t, l : Backed(q, t, l)' <=> Backed(q, t, l)
  BY DEF Backed
<1>5. Excused' = Excused
  BY DEF Excused
<1>6. ASSUME NEW k \in Keys PROVE KeyBacked(k)'
  <2>1. CASE k # k0
    <3>1. KeyBacked(k) /\ table[k] # b0 /\ passed'[k] = passed[k] /\ table[k] \in Ids \cup {0}
      BY <1>1, <1>3, <2>1 DEF BucketInv, RateType
    <3>2. table[k] # 0 => bucket'[table[k]] = bucket[table[k]]
      BY <1>3, <3>1
    <3> QED BY <1>4, <1>5, <3>1, <3>2 DEF KeyBacked
  <2>2. CASE k = k0
    <3> SUFFICES ASSUME passed'[k0] # Excused
                 PROVE  table[k0] = b0 /\ Backed(p, nb.tokens, nb.last)
      BY <1>1, <1>3, <1>4, <1>5, <2>2 DEF KeyBacked
    <3>1. passed[k0] # Excused
      BY <1>0, <1>3
    <3> QED BY <1>0, <1>1, <3>1 DEF Alone
  <2> QED BY <2>1, <2>2
<1>7. ASSUME NEW x \in Slots, x # s PROVE Holding(x)'
  <2>1. Holding(x) /\ req'[x] = req[x] /\ (Inside(x)' <=> Inside(x)) /\ Key(x)' = Key(x)
    BY <1>3, <1>7 DEF BucketInv, Inside, Key
  <2> SUFFICES ASSUME Inside(x), passed'[Key(x)] # Excused PROVE Alone(x)'
    BY <1>5, <2>1 DEF Holding
  <2>2. Key(x) # k0
    <3> SUFFICES ASSUME Key(x) = k0 PROVE FALSE
      OBVIOUS
    <3>1. passed[k0] # Excused
      BY <1>0, <1>3
    <3> QED BY <1>0, <1>1, <1>7, <3>1 DEF Alone
  <2>3. Key(x) \in Keys
    BY KeyOf DEF Inside
  <2>4. passed'[Key(x)] = passed[Key(x)] /\ Alone(x)
    BY <1>3, <2>1, <2>2, <2>3 DEF Holding
  <2>5. req[x].b = table[Key(x)] /\ req[x].b # b0 /\ req[x].b \in Ids
    <3>1. req[x].b # 0 /\ req[x].b \in Ids \cup {0}
      BY <2>1, <1>1 DEF Holding, RateType, Request
    <3> QED BY <1>1, <2>2, <2>3, <2>4, <3>1 DEF Alone
  <2>6. Bucket(x)' = Bucket(x)
    BY <1>3, <2>1, <2>5 DEF Bucket
  <2>7. ASSUME NEW y \in Slots \ {x}, Inside(y)' PROVE Key(y)' # Key(x)
    <3>1. CASE y = s
      <4>1. Key(s)' = k0
        BY <1>0, <1>3, <2>7, <3>1 DEF Key, Inside
      <4> QED BY <2>2, <3>1, <4>1
    <3>2. CASE y # s
      <4>1. Inside(y) /\ Key(y)' = Key(y)
        BY <1>3, <2>7, <3>2 DEF Inside, Key
      <4> QED BY <2>4, <4>1 DEF Alone
    <3> QED BY <3>1, <3>2
  <2> QED BY <1>4, <2>1, <2>4, <2>6, <2>7 DEF Alone
<1>8. Holding(s)'
  <2>1. CASE r.pc \in {"idle", "find"}
    BY <1>3, <2>1 DEF Holding, Inside
  <2>2. CASE r.pc \notin {"idle", "find"}
    <3>1. /\ r.chain = req[s].chain /\ r.b = b0 /\ Key(s)' = k0 /\ Inside(s)'
      BY <1>0, <1>3, <2>2 DEF Key, Inside
    <3> SUFFICES ASSUME p # Excused PROVE Alone(s)'
      BY <1>1, <1>2, <1>3, <1>5, <3>1 DEF Holding
    <3>2. passed[k0] # Excused /\ Alone(s)
      BY <1>0, <1>1
    <3>3. Bucket(s)' = nb
      BY <1>3, <3>1 DEF Bucket
    <3>4. ASSUME NEW y \in Slots \ {s}, Inside(y)' PROVE Key(y)' # k0
      <4>1. Inside(y) /\ Key(y)' = Key(y)
        BY <1>3, <3>4 DEF Inside, Key
      <4> QED BY <1>0, <3>2, <4>1 DEF Alone
    <3>5. table[k0] = b0
      BY <1>0, <3>2 DEF Alone
    <3> QED BY <1>0, <1>3, <1>4, <3>1, <3>2, <3>3, <3>4, <3>5 DEF Alone
  <2> QED BY <2>1, <2>2
<1>9. Apart'
  BY <1>1 DEF Apart
<1> QED BY <1>3, <1>6, <1>7, <1>8, <1>9 DEF BucketInv

\* A request that stays as it is, or that arrives.
Enters(q, r) == r = q \/ (q.pc = "idle" /\ r.pc = "find" /\ r.b = 0 /\ r.chain # <<>>)

\* Buckets leave the table: one that is in use excuses its key, another has been
\* idle for so long that time alone backs what its key got.
LEMMA BucketsGo ==
  ASSUME BucketInv, NEW gone \in SUBSET Keys, NEW ex \in SUBSET gone,
         UNCHANGED <<now, bucket>>,
         table' = [k \in Keys |-> IF k \in gone THEN 0 ELSE table[k]],
         passed' = [k \in Keys |-> IF k \in ex THEN Excused ELSE passed[k]],
         \A k \in gone \ ex : table[k] \notin Held /\ (passed[k] # Excused => passed[k] <= Rate * now),
         req' \in [Slots -> Request],
         \A x \in Slots : Enters(req[x], req'[x])
  PROVE  BucketInv'
<1>1. RateType /\ RateType' /\ Excused' = Excused
  BY DEF BucketInv, RateType, Excused
<1>2. \A q, t, l : Backed(q, t, l)' <=> Backed(q, t, l)
  BY DEF Backed
<1>3. ASSUME NEW k \in Keys PROVE KeyBacked(k)'
  <2>1. KeyBacked(k)
    BY DEF BucketInv
  <2>2. CASE k \in gone
    BY <1>1, <2>1, <2>2 DEF KeyBacked
  <2>3. CASE k \notin gone
    BY <1>1, <1>2, <2>1, <2>3 DEF KeyBacked
  <2> QED BY <2>2, <2>3
<1>4. Apart'
  BY <1>1 DEF BucketInv, Apart
<1>5. ASSUME NEW x \in Slots PROVE Holding(x)'
  <2>1. Holding(x) /\ (Inside(x)' <=> Inside(x)) /\ (Inside(x) => req'[x] = req[x])
    BY DEF BucketInv, Inside, Enters
  <2>2. CASE ~Inside(x)
    BY <2>1, <2>2 DEF Holding, Inside, Enters
  <2>3. CASE Inside(x)
    <3>1. Key(x)' = Key(x) /\ Key(x) \in Keys /\ req[x].b # 0 /\ req'[x] = req[x]
      BY <2>1, <2>3, KeyOf DEF Key, Holding, Inside
    <3>2. \A k \in Keys \ {Key(x)} : table'[k] # req[x].b
      BY <2>1, <2>3, <3>1 DEF Holding
    <3> SUFFICES ASSUME passed'[Key(x)] # Excused PROVE Alone(x)'
      BY <1>1, <2>1, <2>3, <3>1, <3>2 DEF Holding
    <3>3. Key(x) \notin ex /\ passed'[Key(x)] = passed[Key(x)] /\ Alone(x)
      BY <2>1, <2>3, <3>1 DEF Holding
    <3>4. Key(x) \notin gone
      <4>1. table[Key(x)] \in Held
        BY <3>3 DEF Alone, Held
      <4> QED BY <3>3, <4>1
    <3>5. table'[Key(x)] = req[x].b
      BY <3>1, <3>3, <3>4 DEF Alone
    <3>6. Bucket(x)' = Bucket(x)
      BY <3>1 DEF Bucket
    <3>7. ASSUME NEW y \in Slots \ {x}, Inside(y)' PROVE Key(y)' # Key(x)
      <4>1. Inside(y) /\ Key(y)' = Key(y)
        BY <3>7 DEF Inside, Key, Enters
      <4> QED BY <3>3, <4>1 DEF Alone
    <3> QED BY <1>2, <3>1, <3>3, <3>5, <3>6, <3>7 DEF Alone
  <2> QED BY <2>2, <2>3
<1> QED BY <1>1, <1>3, <1>4, <1>5 DEF BucketInv

\* A new request, and the clean-up it may find due.
LEMMA ArriveKeeps ==
  ASSUME BucketInv, NEW s \in Slots, NEW chain \in Chains, Arrive(s, chain)
  PROVE  BucketInv'
<1>0. RateType /\ now \in Nat
  BY DEF BucketInv, RateType
<1>1. chain \in Seq(Keys) /\ chain # <<>>
  BY RateAssumption
<1>2. PICK r : r = [Idle EXCEPT !.pc = "find", !.chain = chain]
  OBVIOUS
<1>3. r \in Request /\ r.pc = "find" /\ r.b = 0 /\ r.chain # <<>>
  <2>1. r = [pc |-> "find", chain |-> chain, b |-> 0, at |-> 0, tok |-> 0]
    BY <1>2 DEF Idle
  <2> QED BY <1>1, <2>1 DEF Request
<1>4. /\ req[s].pc = "idle" /\ req' = [req EXCEPT ![s] = r] /\ UNCHANGED <<now, bucket>>
  <2>1. req[s] = Idle /\ Idle.pc = "idle"
    BY DEF Arrive, Idle
  <2>2. req' = [req EXCEPT ![s] = r] /\ UNCHANGED <<now, bucket>>
    BY <1>2 DEF Arrive
  <2> QED BY <2>1, <2>2
<1>5. /\ req' \in [Slots -> Request]
      /\ \A x \in Slots : Enters(req[x], req'[x])
  BY <1>0, <1>3, <1>4 DEF RateType, Enters
<1>6. CASE UNCHANGED <<table, passed>>
  <2>1. /\ table' = [k \in Keys |-> IF k \in {} THEN 0 ELSE table[k]]
        /\ passed' = [k \in Keys |-> IF k \in {} THEN Excused ELSE passed[k]]
    BY <1>0, <1>6 DEF RateType
  <2>2. {} \in SUBSET Keys /\ {} \in SUBSET {}
    OBVIOUS
  <2> QED BY <1>4, <1>5, <2>1, <2>2, BucketsGo
<1>7. CASE ~(UNCHANGED <<table, passed>>)
  <2>1. PICK gone : gone = {k \in Keys \ {"global"} : table[k] # 0 /\ Stale(k)}
    OBVIOUS
  <2>2. PICK ex : ex = {k \in gone : table[k] \in Held}
    OBVIOUS
  <2>3. /\ table' = [k \in Keys |-> IF k \in gone THEN 0 ELSE table[k]]
        /\ passed' = [k \in Keys |-> IF k \in ex THEN Excused ELSE passed[k]]
    BY <1>7, <2>1, <2>2 DEF Arrive, Cleanup, Excuse
  <2>4. ASSUME NEW k \in gone \ ex
        PROVE  table[k] \notin Held /\ (passed[k] # Excused => passed[k] <= Rate * now)
    <3>1. /\ k \in Keys /\ table[k] # 0 /\ Stale(k) /\ table[k] \notin Held
          /\ table[k] \in Ids
      BY <1>0, <2>1, <2>2, <2>4 DEF RateType
    <3> SUFFICES ASSUME passed[k] # Excused PROVE passed[k] <= Rate * now
      BY <3>1
    <3>2. PICK t, l : t = bucket[table[k]].tokens /\ l = bucket[table[k]].last
      OBVIOUS
    <3>3. /\ t \in Int /\ l \in Nat /\ passed[k] \in Int /\ t >= 0
          /\ passed[k] + t <= Burst + Rate * l /\ l < now - 2 * Interval
      BY <1>0, <3>1, <3>2 DEF RateType, BucketInv, KeyBacked, Backed, Stale
    <3>4. PICK u : u = l + 2 * Interval
      OBVIOUS
    <3>5. u \in Nat /\ u <= now /\ l <= u /\ u - l = 2 * Interval
      BY <1>0, <3>3, <3>4, RateConstants
    <3>6. Rate * u <= Rate * now /\ Rate * (u - l) = Rate * u - Rate * l
      BY <1>0, <3>3, <3>5, RateTimes
    <3>7. Rate * (2 * Interval) >= Burst
      <4>1. Rate * (2 * Interval) = Rate * 2 * Interval
        BY RateConstants
      <4> QED BY <4>1, RateAssumption
    <3>8. Rate * l \in Nat /\ Rate * u \in Nat /\ Rate * now \in Nat /\ Burst \in Nat
      BY <1>0, <3>3, <3>5, RateConstants
    <3>9. Rate * u - Rate * l >= Burst
      BY <3>5, <3>6, <3>7
    <3>10. \A a \in Int, c, d, e, f, g \in Nat :
             a + c <= d + e /\ f - e >= d /\ f <= g => a <= g
      OBVIOUS
    <3>11. t \in Nat
      BY <3>3
    <3> QED BY <3>3, <3>6, <3>8, <3>9, <3>10, <3>11
  <2>5. gone \in SUBSET Keys /\ ex \in SUBSET gone
    BY <2>1, <2>2
  <2> QED BY <1>4, <1>5, <2>3, <2>4, <2>5, BucketsGo
<1> QED BY <1>6, <1>7

\* A reset excuses the key.
LEMMA ResetKeeps ==
  ASSUME BucketInv, NEW k \in Keys, ResetBucket(k)
  PROVE  BucketInv'
<1>0. RateType
  BY DEF BucketInv
<1>1. /\ table' = [l \in Keys |-> IF l \in {k} THEN 0 ELSE table[l]]
      /\ passed' = [l \in Keys |-> IF l \in {k} THEN Excused ELSE passed[l]]
      /\ UNCHANGED <<now, bucket, req>>
  BY <1>0 DEF ResetBucket, Excuse, RateType
<1>2. {k} \in SUBSET Keys /\ {k} \in SUBSET {k} /\ {k} \ {k} = {}
  OBVIOUS
<1>3. req' \in [Slots -> Request] /\ \A x \in Slots : Enters(req[x], req'[x])
  BY <1>0, <1>1 DEF RateType, Enters
<1> QED BY <1>1, <1>2, <1>3, BucketsGo

\* Time only adds tokens.
LEMMA TickKeeps == ASSUME BucketInv, Tick PROVE BucketInv'
<1>0. RateType /\ now \in Nat /\ now' = now + 1 /\ UNCHANGED <<bucket, table, req, passed>>
  BY DEF BucketInv, RateType, Tick, bucketVars
<1>1. ASSUME NEW q, NEW t, NEW l \in Nat, Backed(q, t, l) PROVE Backed(q, t, l)'
  BY <1>0, <1>1 DEF Backed
<1>2. RateType'
  BY <1>0 DEF RateType
<1>3. ASSUME NEW k \in Keys PROVE KeyBacked(k)'
  <2>1. KeyBacked(k) /\ passed[k] \in Int /\ table[k] \in Ids \cup {0}
    BY <1>0 DEF BucketInv, RateType
  <2>2. Rate * now <= Rate * now' /\ Rate * now \in Nat /\ Rate * now' \in Nat
    <3>1. now' \in Nat /\ now <= now'
      BY <1>0
    <3> QED BY <1>0, <3>1, RateTimes
  <2>3. table[k] # 0 => bucket[table[k]].last \in Nat
    BY <1>0, <2>1 DEF RateType
  <2>4. passed[k] <= Rate * now => passed[k] <= Rate * now'
    BY <2>1, <2>2
  <2> QED BY <1>0, <1>1, <2>1, <2>3, <2>4 DEF KeyBacked, Excused
<1>4. ASSUME NEW s \in Slots PROVE Holding(s)'
  <2>1. Holding(s) /\ req[s].at \in Nat
    BY <1>0 DEF BucketInv, RateType, Request
  <2>2. Alone(s) => Alone(s)'
    BY <1>0, <1>1, <2>1 DEF Alone, Key, Inside, Bucket
  <2> QED BY <1>0, <2>1, <2>2 DEF Holding, Inside, Key, Excused
<1>5. Apart'
  BY <1>0 DEF BucketInv, Apart
<1> QED BY <1>2, <1>3, <1>4, <1>5 DEF BucketInv

\* A request finds the bucket of its key, or gives it a full one.
LEMMA FindKeeps ==
  ASSUME BucketInv, NEW s \in Slots, Find(s)
  PROVE  BucketInv'
<1>0. PICK k0, b0 : k0 = Key(s) /\ b0 = IF table[k0] = 0 THEN FreeId ELSE table[k0]
  OBVIOUS
<1>1. RateType /\ Apart /\ req[s].pc = "find" /\ now \in Nat /\ now' = now
  BY DEF BucketInv, RateType, Find
<1>2. k0 \in Keys /\ req[s].chain \in Seq(Keys) /\ req[s].chain # <<>>
  BY <1>0, <1>1, KeyOf
<1>3. b0 \in Ids /\ b0 # 0 /\ (table[k0] = 0 => b0 \notin Held) /\ \A k \in Keys \ {k0} : table[k] # b0
  <2>1. CASE table[k0] = 0
    <3>1. b0 \in Ids /\ b0 \notin Range(table) /\ b0 \notin Held
      BY <1>0, <1>1, <1>2, <2>1, FreeIdIs
    <3>2. \A k \in Keys : table[k] \in Range(table)
      BY <1>1 DEF RateType, Range
    <3> QED BY <3>1, <3>2 DEF Ids
  <2>2. CASE table[k0] # 0
    BY <1>0, <1>1, <1>2, <2>2 DEF Apart, RateType
  <2> QED BY <2>1, <2>2
<1>4. PICK r : r = [req[s] EXCEPT !.pc = "refill", !.b = b0]
  OBVIOUS
<1>5. r \in Request /\ r.pc = "refill" /\ r.b = b0 /\ r.chain = req[s].chain
  BY <1>1, <1>3, <1>4 DEF RateType, Request
<1>6. PICK ex : ex = IF \E x \in Slots \ {s} : Inside(x) /\ Key(x) = k0 THEN {k0} ELSE {}
  OBVIOUS
<1>7. /\ bucket' = IF table[k0] = 0 THEN [bucket EXCEPT ![b0] = Full] ELSE bucket
      /\ table' = [table EXCEPT ![k0] = b0]
      /\ passed' = [k \in Keys |-> IF k \in ex THEN Excused ELSE passed[k]]
  BY <1>0, <1>6 DEF Find, Excuse
<1>8. req' = [req EXCEPT ![s] = r]
  BY <1>0, <1>4 DEF Find
<1>9. Full = [tokens |-> Burst, last |-> now] /\ Full \in [tokens : Int, last : Nat]
  BY <1>1, RateConstants DEF Full
<1>10. /\ RateType'
       /\ \A i \in Ids : i # b0 => bucket'[i] = bucket[i]
       /\ \A k \in Keys : k # k0 => table'[k] = table[k] /\ passed'[k] = passed[k]
       /\ \A x \in Slots : x # s => req'[x] = req[x]
       /\ table'[k0] = b0 /\ req'[s] = r
       /\ bucket'[b0] = IF table[k0] = 0 THEN [tokens |-> Burst, last |-> now] ELSE bucket[b0]
  <2>1. ex \subseteq {k0} /\ Excused \in Int
    BY <1>6 DEF Excused
  <2>2. bucket' \in [Ids -> [tokens : Int, last : Nat]]
    BY <1>1, <1>3, <1>7, <1>9 DEF RateType
  <2>3. table' \in [Keys -> Ids \cup {0}] /\ passed' \in [Keys -> Int] /\ req' \in [Slots -> Request]
    BY <1>1, <1>3, <1>5, <1>7, <1>8, <2>1 DEF RateType
  <2>4. RateType'
    BY <1>1, <2>2, <2>3 DEF RateType
  <2>5. \A i \in Ids : i # b0 => bucket'[i] = bucket[i]
    BY <1>1, <1>3, <1>7 DEF RateType
  <2>6. bucket'[b0] = IF table[k0] = 0 THEN [tokens |-> Burst, last |-> now] ELSE bucket[b0]
    BY <1>1, <1>3, <1>7, <1>9 DEF RateType
  <2>7. /\ \A k \in Keys : k # k0 => table'[k] = table[k] /\ passed'[k] = passed[k]
        /\ \A x \in Slots : x # s => req'[x] = req[x]
        /\ table'[k0] = b0 /\ req'[s] = r
    BY <1>1, <1>2, <1>7, <1>8, <2>1 DEF RateType
  <2> QED BY <2>4, <2>5, <2>6, <2>7
<1>11. passed'[k0] # Excused => /\ passed'[k0] = passed[k0]
                                /\ \A x \in Slots \ {s} : ~(Inside(x) /\ Key(x) = k0)
  BY <1>2, <1>6, <1>7
<1>12. (\A q, t, l : Backed(q, t, l)' <=> Backed(q, t, l)) /\ Excused' = Excused
  BY <1>1 DEF Backed, Excused
<1>13. ASSUME NEW k \in Keys PROVE KeyBacked(k)'
  <2>1. CASE k # k0
    <3>1. KeyBacked(k) /\ table[k] # b0 /\ table'[k] = table[k] /\ passed'[k] = passed[k]
      BY <1>3, <1>10, <2>1 DEF BucketInv
    <3>2. table[k] # 0 => bucket'[table[k]] = bucket[table[k]]
      BY <1>1, <1>10, <3>1 DEF RateType
    <3> QED BY <1>1, <1>12, <3>1, <3>2 DEF KeyBacked
  <2>2. CASE k = k0
    <3> SUFFICES ASSUME passed'[k0] # Excused
                 PROVE  Backed(passed[k0], bucket'[b0].tokens, bucket'[b0].last)
      BY <1>3, <1>10, <1>11, <1>12, <2>2 DEF KeyBacked
    <3>1. passed[k0] # Excused /\ KeyBacked(k0)
      BY <1>2, <1>11 DEF BucketInv
    <3>2. CASE table[k0] # 0
      BY <1>0, <1>10, <3>1, <3>2 DEF KeyBacked
    <3>3. CASE table[k0] = 0
      <4>1. passed[k0] <= Rate * now /\ passed[k0] \in Int /\ Rate * now \in Nat
        BY <1>1, <1>2, <3>1, <3>3, RateTimes DEF KeyBacked, RateType
      <4>2. bucket'[b0].tokens = Burst /\ bucket'[b0].last = now
        BY <1>10, <3>3
      <4> QED BY <1>1, <4>1, <4>2, RateConstants DEF Backed
    <3> QED BY <3>2, <3>3
  <2> QED BY <2>1, <2>2
<1>14. ASSUME NEW x \in Slots, x # s PROVE Holding(x)'
  <2>1. Holding(x) /\ req'[x] = req[x] /\ (Inside(x)' <=> Inside(x)) /\ Key(x)' = Key(x)
    BY <1>10, <1>14 DEF BucketInv, Inside, Key
  <2>2. CASE ~Inside(x)
    BY <2>1, <2>2 DEF Holding
  <2>3. CASE Inside(x)
    <3>1. Key(x) \in Keys /\ req[x].b # 0 /\ req[x].b \in Ids /\ req[x].b \in Held
      BY <1>1, <2>1, <2>3, KeyOf DEF Holding, Inside, RateType, Request, Held
    <3>2. \A k \in Keys \ {Key(x)} : table[k] # req[x].b
      BY <2>1, <2>3 DEF Holding
    <3>3. Key(x) # k0 => req[x].b # b0
      BY <1>0, <1>2, <1>3, <3>1, <3>2
    <3>4. \A k \in Keys \ {Key(x)} : table'[k] # req[x].b
      BY <1>10, <3>2, <3>3
    <3> SUFFICES ASSUME passed'[Key(x)] # Excused PROVE Alone(x)'
      BY <1>12, <2>1, <2>3, <3>1, <3>4 DEF Holding
    <3>5. Key(x) # k0 /\ passed'[Key(x)] = passed[Key(x)]
      BY <1>10, <1>11, <1>14, <2>3, <3>1
    <3>6. Alone(x) /\ table'[Key(x)] = req[x].b
      BY <1>10, <2>1, <2>3, <3>1, <3>5 DEF Holding, Alone
    <3>7. Bucket(x)' = Bucket(x)
      BY <1>10, <2>1, <3>1, <3>3, <3>5 DEF Bucket
    <3>8. ASSUME NEW y \in Slots \ {x}, Inside(y)' PROVE Key(y)' # Key(x)
      <4>1. CASE y = s
        BY <1>0, <1>5, <1>10, <3>5, <4>1 DEF Key
      <4>2. CASE y # s
        <5>1. Inside(y) /\ Key(y)' = Key(y)
          BY <1>10, <3>8, <4>2 DEF Inside, Key
        <5> QED BY <3>6, <5>1 DEF Alone
      <4> QED BY <4>1, <4>2
    <3> QED BY <1>12, <2>1, <3>5, <3>6, <3>7, <3>8 DEF Alone
  <2> QED BY <2>2, <2>3
<1>15. Holding(s)'
  <2>1. Key(s)' = k0 /\ Inside(s)' /\ req'[s] = r
    BY <1>0, <1>5, <1>10 DEF Key, Inside
  <2>2. \A k \in Keys \ {k0} : table'[k] # b0
    BY <1>3, <1>10
  <2> SUFFICES ASSUME passed'[k0] # Excused PROVE Alone(s)'
    BY <1>2, <1>3, <1>5, <1>12, <2>1, <2>2 DEF Holding
  <2>3. ASSUME NEW y \in Slots \ {s}, Inside(y)' PROVE Key(y)' # k0
    <3>1. Inside(y) /\ Key(y)' = Key(y)
      BY <1>10, <2>3 DEF Inside, Key
    <3> QED BY <1>11, <3>1
  <2> QED BY <1>5, <1>10, <2>1, <2>3 DEF Alone
<1>16. Apart'
  <2> SUFFICES ASSUME NEW k \in Keys, NEW l \in Keys, table'[k] = table'[l], table'[k] # 0
               PROVE  k = l
    BY DEF Apart
  <2> QED BY <1>1, <1>3, <1>10 DEF Apart
<1> QED BY <1>10, <1>13, <1>14, <1>15, <1>16 DEF BucketInv

\* The smaller of two numbers.
LEMMA LesserOf ==
  ASSUME NEW a \in Int, NEW b \in Int
  PROVE  Min({a, b}) = IF a <= b THEN a ELSE b
<1>1. \E x \in {a, b} : \A y \in {a, b} : x <= y
  OBVIOUS
<1>2. Min({a, b}) \in {a, b} /\ \A y \in {a, b} : Min({a, b}) <= y
  <2>1. PICK x \in {a, b} : \A y \in {a, b} : x <= y
    BY <1>1
  <2>2. Min({a, b}) = CHOOSE z \in {a, b} : \A y \in {a, b} : z <= y
    BY DEF Min
  <2> QED BY <2>1, <2>2
<1> QED BY <1>2

\* A request inside goes on, and leaves its bucket and its key alone.
LEMMA GoesInside ==
  ASSUME BucketInv, NEW s \in Slots, Inside(s), NEW to \in {"store", "check", "load", "take"},
         NEW at \in Nat, NEW tok \in Int, Goes(s, to, at, tok), UNCHANGED <<bucket, passed>>,
         passed[Key(s)] # Excused =>
           /\ to = "store" => Backed(passed[Key(s)], tok, at)
           /\ to = "load" => Bucket(s).tokens >= 1
           /\ to = "take" => tok = Bucket(s).tokens /\ tok >= 1
  PROVE  BucketInv'
<1>1. RateType /\ Holding(s) /\ Key(s) \in Keys /\ req[s].b \in Ids
  BY KeyOf DEF BucketInv, Holding, RateType, Request, Inside
<1>2. PICK r : r = [req[s] EXCEPT !.pc = to, !.at = at, !.tok = tok]
  OBVIOUS
<1>3. /\ r \in Request /\ r.pc = to /\ r.at = at /\ r.tok = tok
      /\ r.chain = req[s].chain /\ r.b = req[s].b
  <2>1. req[s] \in Request
    BY <1>1 DEF RateType
  <2> QED BY <1>2, <2>1 DEF Request
<1>4. req' = [req EXCEPT ![s] = r] /\ UNCHANGED <<now, table>>
  BY <1>2 DEF Goes
<1>5. PICK nb, p : nb = Bucket(s) /\ p = passed[Key(s)]
  OBVIOUS
<1>6. nb \in [tokens : Int, last : Nat] /\ p \in Int
  BY <1>1, <1>5 DEF RateType, Bucket
<1>7. bucket' = [bucket EXCEPT ![req[s].b] = nb] /\ passed' = [passed EXCEPT ![Key(s)] = p]
  BY <1>1, <1>5 DEF RateType, Bucket
<1>8. p # Excused => Backed(p, nb.tokens, nb.last)
  BY <1>1, <1>5 DEF BucketInv, Holding, Alone, KeyBacked, Bucket, Inside
<1>9. /\ passed[Key(s)] = Excused => p = Excused
      /\ \/ r.pc \in {"idle", "find"} /\ r.b = 0 /\ (r.pc = "find" => r.chain # <<>>)
         \/ r.pc \notin {"idle", "find"} /\ r.chain = req[s].chain /\ r.b = req[s].b
      /\ passed[Key(s)] # Excused =>
           /\ Backed(p, nb.tokens, nb.last)
           /\ r.pc = "store" => Backed(p, r.tok, r.at)
           /\ r.pc = "load" => nb.tokens >= 1
           /\ r.pc = "take" => r.tok = nb.tokens /\ r.tok >= 1
  BY <1>3, <1>5, <1>8
<1>10. r \in Request
  BY <1>3
<1> QED BY <1>4, <1>6, <1>7, <1>9, <1>10, MovesInside

\* What a refill loads is backed by the time at which it looks.
LEMMA RefillLoadsKeeps ==
  ASSUME BucketInv, NEW s \in Slots, RefillLoads(s)
  PROVE  BucketInv'
<1>0. PICK t, l : t = Bucket(s).tokens /\ l = Bucket(s).last
  OBVIOUS
<1>1. RateType /\ now \in Nat /\ Inside(s) /\ Holding(s) /\ Key(s) \in Keys /\ req[s].b \in Ids
  BY KeyOf DEF BucketInv, Holding, RateType, Request, Inside, RefillLoads
<1>2. t \in Int /\ l \in Nat /\ passed[Key(s)] \in Int
  BY <1>0, <1>1 DEF RateType, Bucket
<1>3. PICK c : c = Rate * (now - l)
  OBVIOUS
<1>4. c \in Int /\ Burst \in Int /\ Burst >= 0
  BY <1>1, <1>2, <1>3, RateConstants
<1>5. PICK tok : tok = Min({Burst, t + c})
  OBVIOUS
<1>6. tok = IF Burst <= t + c THEN Burst ELSE t + c
  BY <1>2, <1>4, <1>5, LesserOf
<1>7. tok \in Int
  BY <1>2, <1>4, <1>6
<1>8. Goes(s, "store", now, tok) /\ UNCHANGED <<bucket, passed>>
  BY <1>0, <1>3, <1>5 DEF RefillLoads
<1>9. passed[Key(s)] # Excused => Backed(passed[Key(s)], tok, now)
  <2> SUFFICES ASSUME passed[Key(s)] # Excused PROVE Backed(passed[Key(s)], tok, now)
    OBVIOUS
  <2>1. Backed(passed[Key(s)], t, l)
    BY <1>0, <1>1 DEF BucketInv, Holding, Alone, KeyBacked, Bucket
  <2>2. /\ c \in Nat /\ c = Rate * now - Rate * l
        /\ Rate * now \in Nat /\ Rate * l \in Nat
    BY <1>1, <1>2, <1>3, <2>1, RateTimes DEF Backed
  <2> QED BY <1>1, <1>2, <1>4, <1>6, <2>1, <2>2 DEF Backed
<1>10. "store" \in {"store", "check", "load", "take"}
  OBVIOUS
<1> QED BY <1>1, <1>7, <1>8, <1>9, <1>10, GoesInside

LEMMA RefillStoresKeeps ==
  ASSUME BucketInv, NEW s \in Slots, RefillStores(s)
  PROVE  BucketInv'
<1>1. RateType /\ Inside(s) /\ Holding(s) /\ Key(s) \in Keys /\ req[s].b \in Ids /\ req[s].pc = "store"
  BY KeyOf DEF BucketInv, Holding, RateType, Request, Inside, RefillStores
<1>2. PICK r : r = [req[s] EXCEPT !.pc = "check", !.at = 0, !.tok = 0]
  OBVIOUS
<1>3. r \in Request /\ r.pc = "check" /\ r.chain = req[s].chain /\ r.b = req[s].b
  <2>1. req[s] \in Request
    BY <1>1 DEF RateType
  <2>2. PICK zero \in Nat : zero = 0
    OBVIOUS
  <2>3. r = [req[s] EXCEPT !.pc = "check", !.at = zero, !.tok = zero]
    BY <1>2, <2>2
  <2>4. zero \in Int
    BY <2>2
  <2> HIDE <2>2
  <2> QED BY <2>1, <2>3, <2>4 DEF Request
<1>4. PICK nb, p : nb = [tokens |-> req[s].tok, last |-> req[s].at] /\ p = passed[Key(s)]
  OBVIOUS
<1>5. nb \in [tokens : Int, last : Nat] /\ p \in Int /\ nb.tokens = req[s].tok /\ nb.last = req[s].at
  BY <1>1, <1>4 DEF RateType, Request
<1>6. /\ UNCHANGED <<now, table>> /\ req' = [req EXCEPT ![s] = r]
      /\ bucket' = [bucket EXCEPT ![req[s].b] = nb]
  BY <1>2, <1>4 DEF RefillStores, Goes, LastRefill
<1>7. passed' = [passed EXCEPT ![Key(s)] = p]
  BY <1>1, <1>4 DEF RefillStores, RateType
<1>8. p # Excused => Backed(p, nb.tokens, nb.last)
  BY <1>1, <1>4, <1>5 DEF Holding, Alone
<1> QED BY <1>1, <1>3, <1>4, <1>5, <1>6, <1>7, <1>8, MovesInside

\* A bucket without a token turns the request away.
LEMMA CheckKeeps ==
  ASSUME BucketInv, NEW s \in Slots, Check(s)
  PROVE  BucketInv'
<1>1. RateType /\ Inside(s) /\ Holding(s) /\ Key(s) \in Keys /\ req[s].b \in Ids /\ req[s].pc = "check"
  BY KeyOf DEF BucketInv, Holding, RateType, Request, Inside, Check
<1>2. CASE Bucket(s).tokens >= 1 /\ Goes(s, "load", 0, 0)
  <2>1. UNCHANGED <<bucket, passed>> /\ 0 \in Nat /\ 0 \in Int
    BY DEF Check
  <2>2. "load" \in {"store", "check", "load", "take"} /\ "load" # "store" /\ "load" # "take"
    OBVIOUS
  <2> QED BY <1>1, <1>2, <2>1, <2>2, GoesInside
<1>3. CASE req' = [req EXCEPT ![s] = Idle] /\ UNCHANGED <<now, table, bucket, passed>>
  <2>1. PICK nb, p, r : nb = Bucket(s) /\ p = passed[Key(s)] /\ r = Idle
    OBVIOUS
  <2>2. r \in Request /\ r.pc = "idle" /\ r.b = 0
    BY <2>1, EmptySeq DEF Idle, Request
  <2>3. nb \in [tokens : Int, last : Nat] /\ p \in Int
    BY <1>1, <2>1 DEF RateType, Bucket
  <2>4. bucket' = [bucket EXCEPT ![req[s].b] = nb] /\ passed' = [passed EXCEPT ![Key(s)] = p]
    BY <1>1, <1>3, <2>1 DEF RateType, Bucket
  <2>5. p # Excused => Backed(p, nb.tokens, nb.last)
    BY <1>1, <2>1 DEF BucketInv, Holding, Alone, KeyBacked, Bucket
  <2> QED BY <1>1, <1>3, <2>1, <2>2, <2>3, <2>4, <2>5, MovesInside
<1> QED BY <1>2, <1>3 DEF Check

LEMMA TakeLoadsKeeps ==
  ASSUME BucketInv, NEW s \in Slots, TakeLoads(s)
  PROVE  BucketInv'
<1>1. RateType /\ Inside(s) /\ Holding(s) /\ Key(s) \in Keys /\ req[s].b \in Ids /\ req[s].pc = "load"
  BY KeyOf DEF BucketInv, Holding, RateType, Request, Inside, TakeLoads
<1>2. PICK tok : tok = Bucket(s).tokens
  OBVIOUS
<1>3. tok \in Int /\ 0 \in Nat
  BY <1>1, <1>2 DEF RateType, Bucket
<1>4. Goes(s, "take", 0, tok) /\ UNCHANGED <<bucket, passed>>
  BY <1>2 DEF TakeLoads
<1>5. passed[Key(s)] # Excused => tok = Bucket(s).tokens /\ tok >= 1
  BY <1>1, <1>2 DEF Holding, Alone
<1>6. "take" \in {"store", "check", "load", "take"} /\ "take" # "store" /\ "take" # "load"
  OBVIOUS
<1> QED BY <1>1, <1>3, <1>4, <1>5, <1>6, GoesInside

\* The token that is taken was there.
LEMMA TakeStoresKeeps ==
  ASSUME BucketInv, NEW s \in Slots, TakeStores(s)
  PROVE  BucketInv'
<1>1. RateType /\ Inside(s) /\ Holding(s) /\ Key(s) \in Keys /\ req[s].b \in Ids /\ req[s].pc = "take"
  BY KeyOf DEF BucketInv, Holding, RateType, Request, Inside, TakeStores
<1>2. PICK c : c = req[s].chain
  OBVIOUS
<1>3. c \in Seq(Keys) /\ c # <<>>
  BY <1>1, <1>2, KeyOf
<1>4. PICK r : r = IF Len(c) = 1 THEN Idle ELSE [Idle EXCEPT !.pc = "find", !.chain = Tail(c)]
  OBVIOUS
<1>5. r \in Request /\ r.pc \in {"idle", "find"} /\ r.b = 0 /\ (r.pc = "find" => r.chain # <<>>)
  <2>1. CASE Len(c) = 1
    BY <1>4, <2>1, EmptySeq DEF Idle, Request
  <2>2. CASE Len(c) # 1
    <3>1. r = [pc |-> "find", chain |-> Tail(c), b |-> 0, at |-> 0, tok |-> 0]
      BY <1>4, <2>2 DEF Idle
    <3>2. Tail(c) \in Seq(Keys) /\ Len(Tail(c)) = Len(c) - 1 /\ Len(c) \in Nat
      BY <1>3, HeadTailProperties, LenProperties
    <3>3. Tail(c) # <<>>
      <4>1. Len(c) # 0
        BY <1>3, EmptySeq
      <4>2. \A n \in Nat : n # 0 /\ n # 1 => n - 1 # 0
        OBVIOUS
      <4>3. Len(Tail(c)) # 0
        BY <2>2, <3>2, <4>1, <4>2
      <4> QED BY <4>3, EmptySeq, Zenon
    <3> QED BY <3>1, <3>2, <3>3 DEF Request
  <2> QED BY <2>1, <2>2
<1>6. PICK nb : nb = [bucket[req[s].b] EXCEPT !.tokens = req[s].tok - 1]
  OBVIOUS
<1>7. PICK p : p = IF passed[Key(s)] = Excused THEN Excused ELSE passed[Key(s)] + 1
  OBVIOUS
<1>8. /\ nb \in [tokens : Int, last : Nat] /\ nb.tokens = req[s].tok - 1 /\ nb.last = Bucket(s).last
  <2>1. bucket[req[s].b] \in [tokens : Int, last : Nat] /\ req[s].tok \in Int
    BY <1>1 DEF RateType, Request
  <2> QED BY <1>6, <2>1 DEF Bucket
<1>9. p \in Int
  BY <1>1, <1>7 DEF RateType, Excused
<1>10. bucket' = [bucket EXCEPT ![req[s].b] = nb] /\ UNCHANGED <<now, table>>
  BY <1>6 DEF TakeStores
<1>11. passed' = [passed EXCEPT ![Key(s)] = p]
  BY <1>7 DEF TakeStores
<1>12. req' = [req EXCEPT ![s] = r]
  BY <1>2, <1>4 DEF TakeStores
<1>13. passed[Key(s)] # Excused => Backed(p, nb.tokens, nb.last)
  <2> SUFFICES ASSUME passed[Key(s)] # Excused PROVE Backed(p, nb.tokens, nb.last)
    OBVIOUS
  <2>1. /\ Backed(passed[Key(s)], Bucket(s).tokens, Bucket(s).last)
        /\ req[s].tok = Bucket(s).tokens /\ req[s].tok >= 1
    BY <1>1 DEF BucketInv, Holding, Alone, KeyBacked, Bucket
  <2>2. p = passed[Key(s)] + 1
    BY <1>7
  <2>3. /\ Bucket(s).tokens \in Int /\ Bucket(s).last \in Nat /\ passed[Key(s)] \in Int
        /\ Rate * Bucket(s).last \in Nat
    BY <1>1, RateTimes DEF RateType, Bucket
  <2> QED BY <1>8, <2>1, <2>2, <2>3, RateConstants DEF Backed
<1> QED BY <1>1, <1>5, <1>7, <1>8, <1>9, <1>10, <1>11, <1>12, <1>13, MovesInside

\* The other two limiters leave the buckets alone.
LEMMA StepBucketInv ==
  ASSUME BucketInv, [LimitNext]_limitVars
  PROVE  BucketInv'
<1>1. CASE UNCHANGED <<now, bucketVars>>
  BY <1>1 DEF bucketVars, BucketInv, RateType, Apart, KeyBacked, Backed, Holding, Alone, Inside,
              Key, Bucket, Excused
<1>2. CASE Tick
  BY <1>2, TickKeeps
<1>3. CASE \E s \in Slots : \/ \E c \in Chains : Arrive(s, c)
                            \/ Find(s) \/ RefillLoads(s) \/ RefillStores(s)
                            \/ Check(s) \/ TakeLoads(s) \/ TakeStores(s)
  BY <1>3, ArriveKeeps, FindKeeps, RefillLoadsKeeps, RefillStoresKeeps, CheckKeeps,
     TakeLoadsKeeps, TakeStoresKeeps
<1>4. CASE \E k \in Keys : ResetBucket(k)
  BY <1>4, ResetKeeps
<1>5. CASE Allow \/ CleanupVisitors \/ CheckRateLimit
  BY <1>1, <1>5 DEF Allow, CleanupVisitors, CheckRateLimit, Admit
<1>6. CASE UNCHANGED limitVars
  BY <1>1, <1>6 DEF limitVars
<1> QED BY <1>2, <1>3, <1>4, <1>5, <1>6 DEF LimitNext

LEMMA InitBucketInv == ASSUME LimitInit PROVE BucketInv
<1>1. Cardinality(Keys) \in Nat /\ Cardinality(Slots) \in Nat
  BY RateAssumption, FS_CardinalityType
<1>2. "global" \in Keys => 1 \in Ids
  <2> SUFFICES ASSUME "global" \in Keys PROVE Cardinality(Keys) # 0
    BY <1>1 DEF Ids
  <2> QED BY RateAssumption, FS_EmptySet
<1>3. Idle \in Request
  BY EmptySeq DEF Idle, Request
<1>4. RateType
  BY <1>2, <1>3, RateConstants DEF LimitInit, RateType
<1>5. Apart
  BY DEF LimitInit, Apart
<1>6. ASSUME NEW k \in Keys PROVE KeyBacked(k)
  <2>1. Rate * 0 = 0 /\ Burst \in Nat /\ now = 0 /\ passed[k] = 0
    BY RateConstants DEF LimitInit
  <2>2. table[k] # 0 => bucket[table[k]] = [tokens |-> Burst, last |-> 0]
    BY <1>2 DEF LimitInit
  <2> QED BY <2>1, <2>2 DEF KeyBacked, Backed
<1>7. ASSUME NEW s \in Slots PROVE Holding(s)
  BY DEF LimitInit, Holding, Inside, Idle
<1> QED BY <1>4, <1>5, <1>6, <1>7 DEF BucketInv

\* The limiters, of either kind, admit no more than their limits allow: buckets that
\* no two requests use at once, across the clean-up of the table (ratelimit.go:88-94,
\* 246-270), the visits of allow (api/middleware.go:121-144) and the windows of
\* CheckRateLimit (apikey.go:239-259).
THEOREM LimitsHold == LimitInit /\ [][LimitNext]_limitVars => []AdmitsWithinLimits
<1>1. LimitInit => BucketInv /\ CountInv
  BY InitBucketInv, InitCountInv
<1>2. BucketInv /\ CountInv /\ [LimitNext]_limitVars => BucketInv' /\ CountInv'
  BY StepBucketInv, StepCountInv
<1>3. BucketInv /\ CountInv => AdmitsWithinLimits
  <2> SUFFICES ASSUME BucketInv, CountInv PROVE AdmitsWithinLimits
    OBVIOUS
  <2>1. ASSUME NEW k \in Keys PROVE passed[k] <= Burst + Rate * now
    <3>1. /\ KeyBacked(k) /\ RateType /\ passed[k] \in Int /\ now \in Nat
          /\ table[k] \in Ids \cup {0} /\ Burst \in Nat /\ Rate * now \in Nat
      BY RateConstants, RateTimes DEF BucketInv, RateType
    <3>2. CASE passed[k] = Excused
      BY <3>1, <3>2 DEF Excused
    <3>3. CASE passed[k] # Excused /\ table[k] = 0
      BY <3>1, <3>3 DEF KeyBacked
    <3>4. CASE passed[k] # Excused /\ table[k] # 0
      <4>1. PICK t, l : t = bucket[table[k]].tokens /\ l = bucket[table[k]].last
        OBVIOUS
      <4>2. t \in Int /\ l \in Nat /\ Backed(passed[k], t, l)
        BY <3>1, <3>4, <4>1 DEF KeyBacked, RateType
      <4>3. Rate * l <= Rate * now /\ Rate * l \in Nat
        BY <3>1, <4>2, RateTimes DEF Backed
      <4> QED BY <3>1, <4>2, <4>3 DEF Backed
    <3> QED BY <3>2, <3>3, <3>4
  <2>2. PICK n : n = IF kind = "window" THEN 2 * Most ELSE Most
    OBVIOUS
  <2>3. \A i \in 1 .. Len(admitted) - n : admitted[i + n] > admitted[i] + Window
    <3>1. CASE kind = "bucket"
      <4>1. admitted = <<>> /\ Len(admitted) = 0 /\ n \in Nat
        BY <2>2, <3>1, EmptySeq, RateConstants DEF CountInv
      <4> QED BY <4>1
    <3>2. CASE kind # "bucket"
      BY <2>2, <3>2 DEF CountInv, Spaced
    <3> QED BY <3>1, <3>2
  <2> QED BY <2>1, <2>2, <2>3 DEF AdmitsWithinLimits
<1> QED BY <1>1, <1>2, <1>3, PTL
==============================================================================
