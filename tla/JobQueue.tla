------------------------------ MODULE JobQueue ------------------------------
(***************************************************************************)
(* The queue payments.process: PublishPayment and ConsumePayments of       *)
(* internal/queue/rabbit.go and as much of RabbitMQ as they rely on.       *)
(*                                                                         *)
(* A consumer is one worker process with its one channel.  The broker      *)
(* pushes messages into the open channels without limit (no Qos is set),   *)
(* the process handles them one by one, in the order of delivery, and      *)
(* settles each after its handler returns.  What was delivered and not     *)
(* settled goes back to the head of the queue when the channel dies.  The  *)
(* queue is durable and the messages persistent, so a restart of the       *)
(* broker is the loss of every channel, one after the other.               *)
(***************************************************************************)
EXTENDS Naturals, Sequences, Functions

CONSTANTS
  Message,      \* messages published, each once
  Malformed,    \* those whose body is not the JSON of a PaymentJob
  Consumer,     \* worker processes
  Nothing       \* the hand of a consumer between two deliveries

ASSUME QueueAssumption == Malformed \subseteq Message /\ Nothing \notin Message

VARIABLES
  ready,        \* messages waiting in the broker, head first
  unacked,      \* messages delivered on each channel and not settled
  channel,      \* "none": no process, "open", or "closed" under a live process
  hand,         \* the delivery each process is handling
  fate          \* what became of each message

queueVars == <<ready, unacked, channel, hand, fate>>

QueueInit ==
  /\ ready = <<>>
  /\ unacked = [c \in Consumer |-> <<>>]
  /\ channel = [c \in Consumer |-> "none"]
  /\ hand = [c \in Consumer |-> Nothing]
  /\ fate = [m \in Message |-> "unsent"]
-----------------------------------------------------------------------------
\* A mutant: a publish that is repeated sends the message twice.
PublishTwice(m) ==
  /\ fate[m] = "unsent"
  /\ ready' = ready \o <<m, m>>
  /\ fate' = [fate EXCEPT ![m] = "queued"]
  /\ UNCHANGED <<unacked, channel, hand>>

Publish(m) ==
  /\ fate[m] = "unsent"
  /\ ready' = Append(ready, m)
  /\ fate' = [fate EXCEPT ![m] = "queued"]
  /\ UNCHANGED <<unacked, channel, hand>>

\* NewConsumer and the call of Consume that follows it in ConsumePayments.
Subscribe(c) ==
  /\ channel[c] = "none"
  /\ channel' = [channel EXCEPT ![c] = "open"]
  /\ UNCHANGED <<ready, unacked, hand, fate>>

Deliver(c) ==
  /\ channel[c] = "open" /\ ready # <<>>
  /\ ready' = Tail(ready)
  /\ unacked' = [unacked EXCEPT ![c] = Append(@, Head(ready))]
  /\ UNCHANGED <<channel, hand, fate>>

\* The next delivery comes out of the Go channel.
Receives(c) == channel[c] = "open" /\ hand[c] = Nothing /\ unacked[c] # <<>>

\* A mutant: the error of Unmarshal is not looked at.
TakeUnparsed(c) ==
  /\ Receives(c)
  /\ hand' = [hand EXCEPT ![c] = Head(unacked[c])]
  /\ UNCHANGED <<ready, unacked, channel, fate>>

Take(c) ==
  /\ Receives(c) /\ Head(unacked[c]) \notin Malformed
  /\ hand' = [hand EXCEPT ![c] = Head(unacked[c])]
  /\ UNCHANGED <<ready, unacked, channel, fate>>

\* A body that does not parse: Nack without requeue, no handler.
Drop(c) ==
  /\ Receives(c) /\ Head(unacked[c]) \in Malformed
  /\ unacked' = [unacked EXCEPT ![c] = Tail(@)]
  /\ fate' = [fate EXCEPT ![Head(unacked[c])] = "dropped"]
  /\ UNCHANGED <<ready, channel, hand>>

\* The broker knows nothing of a delivery whose channel has died: settling it
\* returns an error, which ConsumePayments ignores.
Stale(c) == channel[c] # "open" /\ UNCHANGED <<ready, unacked, fate>>

\* The handler returned nil.
Ack(c) ==
  /\ hand[c] # Nothing
  /\ hand' = [hand EXCEPT ![c] = Nothing]
  /\ \/ /\ channel[c] = "open"
        /\ unacked' = [unacked EXCEPT ![c] = Tail(@)]
        /\ fate' = [fate EXCEPT ![hand[c]] = "acked"]
        /\ UNCHANGED ready
     \/ Stale(c)
  /\ UNCHANGED channel

\* A mutant: Nack(false, false), which discards what the handler refused.
DiscardInstead(c) ==
  /\ hand[c] # Nothing
  /\ hand' = [hand EXCEPT ![c] = Nothing]
  /\ unacked' = [unacked EXCEPT ![c] = IF @ = <<>> THEN @ ELSE Tail(@)]
  /\ UNCHANGED <<ready, channel, fate>>

\* A mutant: the Nack is sent while the handler is still at work.
RequeueEarly(c) ==
  /\ hand[c] # Nothing /\ channel[c] = "open" /\ unacked[c] # <<>>
  /\ unacked' = [unacked EXCEPT ![c] = Tail(@)]
  /\ ready' = <<hand[c]>> \o ready
  /\ UNCHANGED <<channel, hand, fate>>

\* The handler failed: after two seconds, Nack with requeue.
Requeue(c) ==
  /\ hand[c] # Nothing
  /\ hand' = [hand EXCEPT ![c] = Nothing]
  /\ \/ /\ channel[c] = "open"
        /\ unacked' = [unacked EXCEPT ![c] = Tail(@)]
        /\ ready' = <<hand[c]>> \o ready
        /\ UNCHANGED fate
     \/ Stale(c)
  /\ UNCHANGED channel

Return(c) ==
  /\ ready' = unacked[c] \o ready
  /\ unacked' = [unacked EXCEPT ![c] = <<>>]
  /\ UNCHANGED fate

\* The connection breaks or the broker closes it.  What is in hand stays in
\* hand; from then on Consume fails every three seconds on the same channel,
\* because nothing opens another one.
ChannelLost(c) ==
  /\ channel[c] = "open"
  /\ channel' = [channel EXCEPT ![c] = "closed"]
  /\ Return(c)
  /\ UNCHANGED hand

\* The process ends, with its channel if that was still open.
Exit(c) ==
  /\ channel[c] # "none"
  /\ channel' = [channel EXCEPT ![c] = "none"]
  /\ hand' = [hand EXCEPT ![c] = Nothing]
  /\ Return(c)

QueueNext ==
  \/ \E m \in Message : Publish(m)
  \/ \E c \in Consumer :
       \/ Subscribe(c) \/ Deliver(c) \/ Take(c) \/ Drop(c)
       \/ Ack(c) \/ Requeue(c) \/ ChannelLost(c) \/ Exit(c)

QueueSpec == QueueInit /\ [][QueueNext]_queueVars
-----------------------------------------------------------------------------
\* What waits in the broker, and what a channel owes an answer for.
Waiting == Range(ready)
Owed(c) == Range(unacked[c])
-----------------------------------------------------------------------------
\* The broker's lists hold messages, a hand holds at most one well-formed job.
QueueTypeOK ==
  /\ ready \in Seq(Message)
  /\ unacked \in [Consumer -> Seq(Message)]
  /\ channel \in [Consumer -> {"none", "open", "closed"}]
  /\ hand \in [Consumer -> (Message \ Malformed) \cup {Nothing}]
  /\ fate \in [Message -> {"unsent", "queued", "acked", "dropped"}]

\* A message is never lost and never doubled: until it is acknowledged, or
\* dropped as malformed, it is at exactly one place, once in the queue or once
\* on one channel, whatever channels and processes die in between; and before
\* and after that it is at no place.
OnePlace ==
  /\ IsInjective(ready) /\ \A c \in Consumer : IsInjective(unacked[c])
  /\ \A c \in Consumer : Waiting \cap Owed(c) = {}
  /\ \A c, d \in Consumer : c # d => Owed(c) \cap Owed(d) = {}
  /\ {m \in Message : fate[m] = "queued"} =
       Waiting \cup UNION {Owed(c) : c \in Consumer}

\* What a process with a live channel works on is the first message its channel
\* still owes an answer for: the answer it gives next settles that message and
\* no other.
AnswersItsHand ==
  \A c \in Consumer :
    channel[c] = "open" /\ hand[c] # Nothing =>
      unacked[c] # <<>> /\ Head(unacked[c]) = hand[c]

\* Two workers have the same job in hand only when one of them has lost its
\* channel since it took it: between live channels a job is exclusive.
OneLiveHandler ==
  \A c, d \in Consumer :
    c # d /\ hand[c] = hand[d] /\ hand[c] # Nothing =>
      channel[c] # "open" \/ channel[d] # "open"
=============================================================================
