--------------------------- MODULE JobQueueProofs ---------------------------
(***************************************************************************)
(* Theorems about JobQueue, for any number of workers and jobs.  The first *)
(* lemmas say what the operations on the broker's lists do to the set of   *)
(* messages in a list and to their distinctness; with them every step of   *)
(* the queue is a movement of one message, or of one channel's messages,   *)
(* between disjoint sets.                                                  *)
(***************************************************************************)
EXTENDS JobQueue, SequenceTheorems, TLAPS

\* A message that is appended joins the list, once if it was not there.
LEMMA AppendedOnce ==
  ASSUME NEW S, NEW s \in Seq(S), NEW x \in S
  PROVE  /\ Append(s, x) \in Seq(S)
         /\ Range(Append(s, x)) = Range(s) \cup {x}
         /\ IsInjective(s) /\ x \notin Range(s) => IsInjective(Append(s, x))
         /\ s # <<>> => Append(s, x) # <<>> /\ Head(Append(s, x)) = Head(s)
<1> DEFINE t == Append(s, x)
<1>1. /\ t \in Seq(S) /\ Len(t) = Len(s) + 1 /\ Len(s) \in Nat
      /\ \A i \in 1 .. Len(s) : t[i] = s[i]
      /\ t[Len(s) + 1] = x
  BY AppendProperties, LenProperties
<1>2. DOMAIN t = 1 .. Len(s) + 1 /\ DOMAIN s = 1 .. Len(s)
  BY <1>1, LenProperties
<1>3. 1 .. Len(s) + 1 = (1 .. Len(s)) \cup {Len(s) + 1}
  BY <1>1
<1> HIDE DEF t
<1>4. Range(t) = Range(s) \cup {x}
  BY <1>1, <1>2, <1>3 DEF Range
<1>5. IsInjective(s) /\ x \notin Range(s) => IsInjective(t)
  BY <1>1, <1>2, <1>3 DEF Range, IsInjective
<1>6. s # <<>> => t # <<>> /\ Head(t) = Head(s)
  <2> SUFFICES ASSUME s # <<>> PROVE t # <<>> /\ Head(t) = Head(s)
    OBVIOUS
  <2>1. 1 \in 1 .. Len(s)
    BY <1>1, EmptySeq
  <2> QED
    BY <1>1, <2>1
<1> QED
  BY <1>1, <1>4, <1>5, <1>6 DEF t

\* Taking the head away removes exactly that message from a list without
\* duplicates.
LEMMA HeadLeaves ==
  ASSUME NEW S, NEW s \in Seq(S), s # <<>>
  PROVE  /\ Tail(s) \in Seq(S) /\ Head(s) \in Range(s)
         /\ IsInjective(s) => /\ IsInjective(Tail(s))
                              /\ Range(Tail(s)) = Range(s) \ {Head(s)}
<1> DEFINE t == Tail(s)
<1>1. /\ t \in Seq(S) /\ Len(t) = Len(s) - 1 /\ Len(s) \in Nat \ {0}
      /\ \A i \in 1 .. Len(t) : t[i] = s[i + 1]
      /\ Head(s) = s[1]
  BY HeadTailProperties, EmptySeq
<1>2. DOMAIN t = 1 .. Len(s) - 1 /\ DOMAIN s = 1 .. Len(s)
  BY <1>1, LenProperties
<1> HIDE DEF t
<1>3. Head(s) \in Range(s)
  BY <1>1, <1>2 DEF Range
<1>4. ASSUME IsInjective(s)
      PROVE  IsInjective(t) /\ Range(t) = Range(s) \ {Head(s)}
  <2>1. \A i \in DOMAIN t : t[i] = s[i + 1] /\ i + 1 \in DOMAIN s /\ i + 1 # 1
    BY <1>1, <1>2
  <2>2. \A i \in DOMAIN s : i # 1 => i - 1 \in DOMAIN t /\ t[i - 1] = s[i]
    BY <1>1, <1>2
  <2>3. IsInjective(t)
    <3> SUFFICES ASSUME NEW i \in DOMAIN t, NEW j \in DOMAIN t, t[i] = t[j]
                 PROVE  i = j
      BY DEF IsInjective
    <3>1. i + 1 = j + 1
      BY <1>4, <2>1 DEF IsInjective
    <3> QED
      BY <1>2, <3>1
  <2>4. Range(t) \subseteq Range(s) \ {Head(s)}
    BY <1>1, <1>2, <1>4, <2>1 DEF Range, IsInjective
  <2>5. Range(s) \ {Head(s)} \subseteq Range(t)
    BY <1>1, <2>2 DEF Range
  <2> QED
    BY <2>3, <2>4, <2>5
<1> QED
  BY <1>1, <1>3, <1>4 DEF t

\* Two lists without duplicates or common messages keep that in one list.
LEMMA JoinedOnce ==
  ASSUME NEW S, NEW s \in Seq(S), NEW t \in Seq(S)
  PROVE  /\ s \o t \in Seq(S)
         /\ Range(s \o t) = Range(s) \cup Range(t)
         /\ IsInjective(s) /\ IsInjective(t) /\ Range(s) \cap Range(t) = {}
              => IsInjective(s \o t)
<1> DEFINE u == s \o t
<1>1. /\ u \in Seq(S) /\ Len(u) = Len(s) + Len(t)
      /\ \A i \in 1 .. Len(s) + Len(t) :
           u[i] = IF i <= Len(s) THEN s[i] ELSE t[i - Len(s)]
  BY ConcatProperties
<1>2. /\ Len(s) \in Nat /\ Len(t) \in Nat
      /\ DOMAIN s = 1 .. Len(s) /\ DOMAIN t = 1 .. Len(t)
      /\ DOMAIN u = 1 .. Len(s) + Len(t)
  BY <1>1, LenProperties
<1>3. Range(u) = Range(s) \cup Range(t)
  BY RangeConcatenation
<1> HIDE DEF u
<1>4. ASSUME IsInjective(s), IsInjective(t), Range(s) \cap Range(t) = {}
      PROVE  IsInjective(u)
  <2> SUFFICES ASSUME NEW i \in DOMAIN u, NEW j \in DOMAIN u, u[i] = u[j]
               PROVE  i = j
    BY DEF IsInjective
  <2>1. \A k \in DOMAIN u :
          \/ k \in DOMAIN s /\ u[k] = s[k] /\ u[k] \in Range(s)
          \/ k - Len(s) \in DOMAIN t /\ u[k] = t[k - Len(s)] /\ u[k] \in Range(t)
    BY <1>1, <1>2 DEF Range
  <2>2. \/ i \in DOMAIN s /\ j \in DOMAIN s /\ s[i] = s[j]
        \/ /\ i - Len(s) \in DOMAIN t /\ j - Len(s) \in DOMAIN t
           /\ t[i - Len(s)] = t[j - Len(s)]
    BY <1>4, <2>1
  <2>3. i = j \/ i - Len(s) = j - Len(s)
    BY <1>4, <2>2 DEF IsInjective
  <2> QED
    BY <1>2, <2>3
<1> QED
  BY <1>1, <1>3, <1>4 DEF u

-----------------------------------------------------------------------------
\* The broker's lists and fates stay in their domains.
LEMMA QueueTypeStep ==
  ASSUME QueueTypeOK, AnswersItsHand, [QueueNext]_queueVars
  PROVE  QueueTypeOK'
<1> USE QueueAssumption DEF QueueTypeOK, QueueAssumption
<1>1. ASSUME NEW m \in Message, Publish(m)
      PROVE  QueueTypeOK'
  BY <1>1, AppendedOnce DEF Publish
<1>2. ASSUME NEW c \in Consumer, Subscribe(c)
      PROVE  QueueTypeOK'
  BY <1>2 DEF Subscribe
<1>3. ASSUME NEW c \in Consumer, Deliver(c)
      PROVE  QueueTypeOK'
  <2>1. ready # <<>> /\ Head(ready) \in Message /\ Tail(ready) \in Seq(Message)
    BY <1>3, HeadTailProperties DEF Deliver
  <2>2. Append(unacked[c], Head(ready)) \in Seq(Message)
    BY <2>1, AppendedOnce
  <2> QED
    BY <1>3, <2>1, <2>2 DEF Deliver
<1>4. ASSUME NEW c \in Consumer, Receives(c)
      PROVE  Head(unacked[c]) \in Message /\ Tail(unacked[c]) \in Seq(Message)
  BY <1>4, HeadTailProperties DEF Receives
<1>5. ASSUME NEW c \in Consumer, Take(c)
      PROVE  QueueTypeOK'
  BY <1>4, <1>5 DEF Take
<1>6. ASSUME NEW c \in Consumer, Drop(c)
      PROVE  QueueTypeOK'
  BY <1>4, <1>6 DEF Drop
<1>7. ASSUME NEW c \in Consumer, channel[c] = "open", hand[c] # Nothing
      PROVE  Tail(unacked[c]) \in Seq(Message)
  BY <1>7, HeadTailProperties DEF AnswersItsHand
<1>8. ASSUME NEW c \in Consumer, Ack(c)
      PROVE  QueueTypeOK'
  <2>1. hand' \in [Consumer -> (Message \ Malformed) \cup {Nothing}]
    BY <1>8 DEF Ack
  <2>2. CASE channel[c] = "open" /\ ~ Stale(c)
    <3>1. /\ unacked' = [unacked EXCEPT ![c] = Tail(@)]
          /\ fate' = [fate EXCEPT ![hand[c]] = "acked"]
          /\ ready' = ready /\ channel' = channel
      BY <1>8, <2>2 DEF Ack
    <3>2. Tail(unacked[c]) \in Seq(Message)
      BY <1>7, <1>8, <2>2 DEF Ack
    <3> QED
      BY <2>1, <3>1, <3>2
  <2>3. CASE Stale(c)
    BY <1>8, <2>1, <2>3 DEF Ack, Stale
  <2> QED
    BY <1>8, <2>2, <2>3 DEF Ack
<1>9. ASSUME NEW c \in Consumer, Requeue(c)
      PROVE  QueueTypeOK'
  <2>1. <<hand[c]>> \o ready \in Seq(Message)
    BY <1>9, JoinedOnce DEF Requeue
  <2> QED
    BY <1>7, <1>9, <2>1 DEF Requeue, Stale
<1>10. ASSUME NEW c \in Consumer
       PROVE  unacked[c] \o ready \in Seq(Message)
  BY JoinedOnce
<1>11. ASSUME NEW c \in Consumer, ChannelLost(c)
       PROVE  QueueTypeOK'
  BY <1>10, <1>11 DEF ChannelLost, Return
<1>12. ASSUME NEW c \in Consumer, Exit(c)
       PROVE  QueueTypeOK'
  BY <1>10, <1>12 DEF Exit, Return
<1>13. CASE UNCHANGED queueVars
  BY <1>13 DEF queueVars
<1> QED
  BY <1>1, <1>2, <1>3, <1>5, <1>6, <1>8, <1>9, <1>11, <1>12, <1>13 DEF QueueNext

-----------------------------------------------------------------------------
\* A channel that is not open owes nothing, and a process that is not running
\* has nothing in hand.
DeadIsEmpty ==
  \A c \in Consumer :
    /\ channel[c] # "open" => unacked[c] = <<>>
    /\ channel[c] = "none" => hand[c] = Nothing

\* The inductive invariant of the queue.
QueueInv == QueueTypeOK /\ OnePlace /\ AnswersItsHand /\ DeadIsEmpty

\* OnePlace as a statement about each message and each channel, the form in
\* which the steps use it.
LEMMA WhereQueued ==
  ASSUME QueueTypeOK, OnePlace
  PROVE  /\ \A m \in Message : m \in Waiting => fate[m] = "queued"
         /\ \A m \in Message, c \in Consumer : m \in Owed(c) => fate[m] = "queued"
         /\ Waiting \subseteq Message /\ \A c \in Consumer : Owed(c) \subseteq Message
<1>1. Waiting \subseteq Message /\ \A c \in Consumer : Owed(c) \subseteq Message
  BY RangeOfSeq DEF QueueTypeOK, Waiting, Owed
<1> QED
  BY <1>1 DEF OnePlace

\* One message enters the queue: it was nowhere before.
LEMMA PublishKeepsPlaces ==
  ASSUME QueueTypeOK, OnePlace, NEW m \in Message, Publish(m)
  PROVE  OnePlace'
<1>1. /\ Waiting' = Waiting \cup {m} /\ IsInjective(ready')
      /\ \A c \in Consumer : Owed(c)' = Owed(c) /\ unacked'[c] = unacked[c]
  <2>1. m \notin Waiting
    BY WhereQueued DEF Publish
  <2> QED
    BY <2>1, AppendedOnce DEF Publish, Waiting, Owed, OnePlace, QueueTypeOK
<1>2. \A c \in Consumer : m \notin Owed(c)
  BY WhereQueued DEF Publish
<1>3. {x \in Message : fate'[x] = "queued"} = {x \in Message : fate[x] = "queued"} \cup {m}
  BY DEF Publish, QueueTypeOK
<1> QED
  BY <1>1, <1>2, <1>3 DEF OnePlace

\* One message moves from the queue to a channel.
LEMMA DeliverKeepsPlaces ==
  ASSUME QueueTypeOK, OnePlace, NEW c \in Consumer, Deliver(c)
  PROVE  OnePlace'
<1> DEFINE m == Head(ready)
<1>1. /\ m \in Message /\ m \in Waiting
      /\ Waiting' = Waiting \ {m} /\ IsInjective(ready')
  BY HeadLeaves, HeadTailProperties DEF Deliver, Waiting, OnePlace, QueueTypeOK
<1>2. \A d \in Consumer : m \notin Owed(d)
  BY <1>1 DEF OnePlace
<1>3. Owed(c)' = Owed(c) \cup {m} /\ IsInjective(unacked'[c])
  <2>1. unacked'[c] = Append(unacked[c], m)
    BY DEF Deliver, QueueTypeOK
  <2> QED
    BY <1>1, <1>2, <2>1, AppendedOnce DEF Owed, OnePlace, QueueTypeOK
<1>4. \A d \in Consumer \ {c} : Owed(d)' = Owed(d) /\ unacked'[d] = unacked[d]
  BY DEF Deliver, QueueTypeOK, Owed
<1>5. fate' = fate
  BY DEF Deliver
<1> HIDE DEF m
<1> QED
  BY <1>1, <1>2, <1>3, <1>4, <1>5 DEF OnePlace

\* The head of a channel leaves: its message has another fate, or goes back.
LEMMA SettleKeepsPlaces ==
  ASSUME QueueTypeOK, OnePlace, NEW c \in Consumer, unacked[c] # <<>>,
         unacked' = [unacked EXCEPT ![c] = Tail(@)],
         \/ /\ ready' = ready
            /\ \E f \in {"acked", "dropped"} :
                 fate' = [fate EXCEPT ![Head(unacked[c])] = f]
         \/ ready' = <<Head(unacked[c])>> \o ready /\ fate' = fate
  PROVE  OnePlace'
<1> DEFINE m == Head(unacked[c])
<1>1. /\ m \in Message /\ m \in Owed(c)
      /\ Owed(c)' = Owed(c) \ {m} /\ IsInjective(unacked'[c])
  <2>1. unacked'[c] = Tail(unacked[c])
    BY DEF QueueTypeOK
  <2> QED
    BY <2>1, HeadLeaves, HeadTailProperties DEF Owed, OnePlace, QueueTypeOK
<1>2. \A d \in Consumer \ {c} : Owed(d)' = Owed(d) /\ unacked'[d] = unacked[d]
  BY DEF QueueTypeOK, Owed
<1>3. m \notin Waiting /\ \A d \in Consumer \ {c} : m \notin Owed(d)
  BY <1>1 DEF OnePlace
<1>4. CASE /\ ready' = ready
           /\ \E f \in {"acked", "dropped"} : fate' = [fate EXCEPT ![m] = f]
  <2>1. {x \in Message : fate'[x] = "queued"} =
          {x \in Message : fate[x] = "queued"} \ {m}
    BY <1>1, <1>4 DEF QueueTypeOK
  <2>2. Waiting' = Waiting
    BY <1>4 DEF Waiting
  <2> HIDE DEF m
  <2> QED
    BY <1>1, <1>2, <1>3, <1>4, <2>1, <2>2 DEF OnePlace
<1>5. CASE ready' = <<m>> \o ready /\ fate' = fate
  <2>1. /\ <<m>> \in Seq(Message) /\ Range(<<m>>) = {m} /\ IsInjective(<<m>>)
    BY <1>1 DEF Range, IsInjective
  <2>2. Waiting' = Waiting \cup {m} /\ IsInjective(ready')
    <3>1. IsInjective(ready) /\ ready \in Seq(Message) /\ {m} \cap Range(ready) = {}
      BY <1>3 DEF Waiting, OnePlace, QueueTypeOK
    <3>2. /\ Range(<<m>> \o ready) = Range(<<m>>) \cup Range(ready)
          /\ IsInjective(<<m>> \o ready)
      <4> DEFINE one == <<m>>
      <4>1. /\ one \in Seq(Message) /\ IsInjective(one)
            /\ Range(one) \cap Range(ready) = {}
        BY <2>1, <3>1
      <4> HIDE DEF one
      <4>2. Range(one \o ready) = Range(one) \cup Range(ready) /\ IsInjective(one \o ready)
        BY <3>1, <4>1, JoinedOnce
      <4> QED
        BY <4>2 DEF one
    <3> QED
      BY <1>5, <2>1, <3>2 DEF Waiting
  <2> HIDE DEF m
  <2> QED
    BY <1>1, <1>2, <1>3, <1>5, <2>2 DEF OnePlace
<1> QED
  BY <1>4, <1>5

\* All messages of a channel go back to the queue at once.
LEMMA ReturnKeepsPlaces ==
  ASSUME QueueTypeOK, OnePlace, NEW c \in Consumer, Return(c)
  PROVE  OnePlace'
<1>1. Waiting' = Owed(c) \cup Waiting /\ IsInjective(ready')
  BY JoinedOnce DEF Return, Waiting, Owed, OnePlace, QueueTypeOK
<1>2. Owed(c)' = {} /\ IsInjective(unacked'[c])
  <2>1. unacked'[c] = <<>>
    BY DEF Return, QueueTypeOK
  <2> QED
    BY <2>1 DEF Owed, Range, IsInjective
<1>3. \A d \in Consumer \ {c} : Owed(d)' = Owed(d) /\ unacked'[d] = unacked[d]
  BY DEF Return, QueueTypeOK, Owed
<1>4. fate' = fate
  BY DEF Return
<1> QED
  BY <1>1, <1>2, <1>3, <1>4 DEF OnePlace

\* No step of broker or worker loses or doubles a message.
LEMMA OnePlaceStep ==
  ASSUME QueueInv, [QueueNext]_queueVars
  PROVE  OnePlace'
<1> USE DEF QueueInv
<1>1. ASSUME UNCHANGED <<ready, unacked, fate>>
      PROVE  OnePlace'
  BY <1>1 DEF OnePlace, Waiting, Owed
<1>2. ASSUME NEW c \in Consumer, Drop(c)
      PROVE  OnePlace'
  BY <1>2, SettleKeepsPlaces DEF Drop, Receives
<1>3. ASSUME NEW c \in Consumer, Ack(c)
      PROVE  OnePlace'
  <2>1. CASE channel[c] = "open"
    BY <1>3, <2>1, SettleKeepsPlaces DEF Ack, Stale, AnswersItsHand
  <2>2. CASE channel[c] # "open"
    BY <1>1, <1>3, <2>2 DEF Ack, Stale
  <2> QED
    BY <2>1, <2>2
<1>4. ASSUME NEW c \in Consumer, Requeue(c)
      PROVE  OnePlace'
  <2>1. CASE channel[c] = "open"
    BY <1>4, <2>1, SettleKeepsPlaces DEF Requeue, Stale, AnswersItsHand
  <2>2. CASE channel[c] # "open"
    BY <1>1, <1>4, <2>2 DEF Requeue, Stale
  <2> QED
    BY <2>1, <2>2
<1>5. ASSUME NEW c \in Consumer, Subscribe(c) \/ Take(c)
      PROVE  OnePlace'
  BY <1>1, <1>5 DEF Subscribe, Take
<1>6. ASSUME NEW c \in Consumer, ChannelLost(c) \/ Exit(c)
      PROVE  OnePlace'
  BY <1>6, ReturnKeepsPlaces DEF ChannelLost, Exit
<1>7. CASE UNCHANGED queueVars
  BY <1>1, <1>7 DEF queueVars
<1> QED
  BY <1>2, <1>3, <1>4, <1>5, <1>6, <1>7, PublishKeepsPlaces, DeliverKeepsPlaces
  DEF QueueNext

\* A worker with a live channel always settles the message it handles, and dead
\* channels stay empty.
LEMMA HandStep ==
  ASSUME QueueInv, [QueueNext]_queueVars, NEW d \in Consumer
  PROVE  /\ channel'[d] = "open" /\ hand'[d] # Nothing =>
              unacked'[d] # <<>> /\ Head(unacked'[d]) = hand'[d]
         /\ channel'[d] # "open" => unacked'[d] = <<>>
         /\ channel'[d] = "none" => hand'[d] = Nothing
<1> USE DEF QueueInv, QueueTypeOK
<1>0. /\ channel[d] = "open" /\ hand[d] # Nothing =>
           unacked[d] # <<>> /\ Head(unacked[d]) = hand[d]
      /\ channel[d] # "open" => unacked[d] = <<>>
      /\ channel[d] = "none" => hand[d] = Nothing
  BY DEF AnswersItsHand, DeadIsEmpty
<1> DEFINE Goal == /\ channel'[d] = "open" /\ hand'[d] # Nothing =>
                        unacked'[d] # <<>> /\ Head(unacked'[d]) = hand'[d]
                   /\ channel'[d] # "open" => unacked'[d] = <<>>
                   /\ channel'[d] = "none" => hand'[d] = Nothing
<1>1. ASSUME channel'[d] = channel[d], hand'[d] = hand[d], unacked'[d] = unacked[d]
      PROVE  Goal
  BY <1>0, <1>1
<1>2. ASSUME NEW m \in Message, Publish(m)
      PROVE  Goal
  BY <1>1, <1>2 DEF Publish
<1>3. ASSUME NEW c \in Consumer, c # d,
             \/ Subscribe(c) \/ Deliver(c) \/ Take(c) \/ Drop(c) \/ Ack(c)
             \/ Requeue(c) \/ ChannelLost(c) \/ Exit(c)
      PROVE  Goal
  <2>1. /\ channel'[d] = channel[d] /\ hand'[d] = hand[d]
        /\ unacked'[d] = unacked[d]
    BY <1>3
    DEF Subscribe, Deliver, Take, Drop, Ack, Requeue, ChannelLost, Exit, Return, Stale
  <2> QED
    BY <1>1, <2>1
<1>4. ASSUME Subscribe(d)
      PROVE  Goal
  BY <1>0, <1>4 DEF Subscribe
<1>5. ASSUME Deliver(d)
      PROVE  Goal
  <2>1. Head(ready) \in Message /\ unacked'[d] = Append(unacked[d], Head(ready))
    BY <1>5, HeadTailProperties DEF Deliver
  <2>2. unacked[d] # <<>> =>
          unacked'[d] # <<>> /\ Head(unacked'[d]) = Head(unacked[d])
    BY <2>1, AppendedOnce
  <2>3. channel'[d] = "open" /\ channel[d] = "open" /\ hand'[d] = hand[d]
    BY <1>5 DEF Deliver
  <2> QED
    BY <1>0, <2>2, <2>3
<1>6. ASSUME Take(d)
      PROVE  Goal
  BY <1>6 DEF Take, Receives
<1>7. ASSUME Drop(d)
      PROVE  Goal
  BY <1>7 DEF Drop, Receives
<1>8. ASSUME Ack(d) \/ Requeue(d)
      PROVE  Goal
  BY <1>0, <1>8 DEF Ack, Requeue, Stale
<1>9. ASSUME ChannelLost(d) \/ Exit(d)
      PROVE  Goal
  BY <1>9 DEF ChannelLost, Exit, Return
<1>10. CASE UNCHANGED queueVars
  BY <1>1, <1>10 DEF queueVars
<1> QED
  BY <1>2, <1>3, <1>4, <1>5, <1>6, <1>7, <1>8, <1>9, <1>10 DEF QueueNext

\* The invariant holds of every queue.
LEMMA QueueInvHolds == QueueSpec => []QueueInv
<1>1. QueueInit => QueueInv
  <2> SUFFICES ASSUME QueueInit PROVE QueueInv
    OBVIOUS
  <2>1. QueueTypeOK /\ AnswersItsHand /\ DeadIsEmpty
    BY DEF QueueInit, QueueTypeOK, AnswersItsHand, DeadIsEmpty
  <2>2. Waiting = {} /\ \A c \in Consumer : Owed(c) = {}
    BY DEF QueueInit, Waiting, Owed, Range
  <2>3. IsInjective(ready) /\ \A c \in Consumer : IsInjective(unacked[c])
    BY DEF QueueInit, IsInjective
  <2>4. {m \in Message : fate[m] = "queued"} = {}
    BY DEF QueueInit
  <2> QED
    BY <2>1, <2>2, <2>3, <2>4 DEF QueueInv, OnePlace
<1>2. QueueInv /\ [QueueNext]_queueVars => QueueInv'
  <2> SUFFICES ASSUME QueueInv, [QueueNext]_queueVars PROVE QueueInv'
    OBVIOUS
  <2>1. QueueTypeOK'
    BY QueueTypeStep DEF QueueInv
  <2>2. OnePlace'
    BY OnePlaceStep
  <2>3. AnswersItsHand' /\ DeadIsEmpty'
    BY HandStep DEF AnswersItsHand, DeadIsEmpty
  <2> QED
    BY <2>1, <2>2, <2>3 DEF QueueInv
<1> QED
  BY <1>1, <1>2, PTL DEF QueueSpec

\* Every state of the queue is well typed.
THEOREM QueueTypeCorrect == QueueSpec => []QueueTypeOK
<1>1. QueueInv => QueueTypeOK
  BY DEF QueueInv
<1> QED
  BY <1>1, QueueInvHolds, PTL

\* No message is lost or doubled, for any number of workers that lose their
\* channels or die at any moment.
THEOREM NothingLostOrDoubled == QueueSpec => []OnePlace
<1>1. QueueInv => OnePlace
  BY DEF QueueInv
<1> QED
  BY <1>1, QueueInvHolds, PTL

\* Every answer of a worker settles the message the worker has handled.
THEOREM AnswerSettlesHand == QueueSpec => []AnswersItsHand
<1>1. QueueInv => AnswersItsHand
  BY DEF QueueInv
<1> QED
  BY <1>1, QueueInvHolds, PTL

\* Between live channels every job is exclusive: both workers would owe the
\* broker an answer for the same message.
THEOREM LiveHandlersExclusive == QueueSpec => []OneLiveHandler
<1>1. QueueInv => OneLiveHandler
  <2> SUFFICES ASSUME QueueInv, NEW c \in Consumer, NEW d \in Consumer, c # d,
                      hand[c] = hand[d], hand[c] # Nothing,
                      channel[c] = "open", channel[d] = "open"
               PROVE  FALSE
    BY DEF OneLiveHandler
  <2>1. /\ unacked[c] # <<>> /\ Head(unacked[c]) = hand[c]
        /\ unacked[d] # <<>> /\ Head(unacked[d]) = hand[c]
    BY DEF QueueInv, AnswersItsHand
  <2>2. hand[c] \in Owed(c) /\ hand[c] \in Owed(d)
    BY <2>1, HeadLeaves DEF Owed, QueueInv, QueueTypeOK
  <2> QED
    BY <2>2 DEF QueueInv, OnePlace
<1> QED
  BY <1>1, QueueInvHolds, PTL
=============================================================================
