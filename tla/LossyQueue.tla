----------------------------- MODULE LossyQueue -----------------------------
(***************************************************************************)
(* What a channel promises its two clients (sections 1 and 8 of the        *)
(* specification), without slots, links or flags: a queue of the messages  *)
(* put and not yet taken.  The consumer takes the oldest one, or skips some *)
(* of them; when the producer forces a message into a full queue the       *)
(* oldest unread ones are discarded.  Messages are numbered as they are    *)
(* put.  The channel has Capacity slots: one is the producer's, one the    *)
(* consumer's from its first message on, the others hold what is pending.  *)
(***************************************************************************)
EXTENDS Naturals, Sequences, SequencesExt

CONSTANTS
    MaxMsgs,    \* the producer stops after this many messages
    Capacity,   \* the number of slots of the channel
    Discards,   \* the producer uses force_put
    Skips       \* the consumer uses fetch_head

ASSUME /\ MaxMsgs \in Nat \ {0}
       /\ Capacity \in Nat \ {0, 1, 2}
       /\ Discards \in BOOLEAN
       /\ Skips \in BOOLEAN

VARIABLES
    count,      \* number of messages put so far
    pending,    \* the messages put, not discarded and not yet taken
    held        \* the message the consumer took last, 0 before the first

vars == <<count, pending, held>>

TypeOK ==
    /\ count \in 0 .. MaxMsgs
    /\ pending \in Seq(1 .. MaxMsgs)
    /\ held \in 0 .. MaxMsgs

Init ==
    /\ count = 0
    /\ pending = <<>>
    /\ held = 0

\* The slots the consumer keeps from the producer: the one of the message
\* it holds.  A fetch_head in progress has let go of it.
Kept == IF held = 0 \/ Skips THEN 0 ELSE 1

\* No slot would be left for the producer after a put: try_put refuses.
Full == Len(pending) + Kept >= Capacity - 1

\* try_put or force_put makes the next message available: try_put when a
\* slot is left for the producer afterwards, force_put in any case.
Put ==
    /\ count < MaxMsgs
    /\ IF Discards THEN Len(pending) + Kept < Capacity ELSE ~Full
    /\ count' = count + 1
    /\ pending' = Append(pending, count + 1)
    /\ UNCHANGED held

\* force_put gives up the oldest message nobody has taken, and with it the
\* next one when a fetch_head in progress has claimed the oldest: that one is
\* the consumer's, and is never handed out.  It does so only when no slot is
\* left for the producer.
Discard ==
    /\ Discards
    /\ Len(pending) + Kept >= Capacity - (IF Skips THEN 1 ELSE 0)
    /\ \E k \in 1 .. (IF Skips THEN 2 ELSE 1) :
          /\ k <= Len(pending)
          /\ pending' = SubSeq(pending, k + 1, Len(pending))
    /\ UNCHANGED <<count, held>>

\* fetch_tail hands out the oldest message.
Take ==
    /\ pending # <<>>
    /\ held' = Head(pending)
    /\ pending' = Tail(pending)
    /\ UNCHANGED count

\* fetch_head hands out a later message and passes over the ones before it.
\* Which one it is depends on where the producer stands in its put: a
\* message is in the queue as soon as it is linked, head names it a step
\* later.
Skip ==
    /\ Skips
    /\ \E k \in 2 .. Len(pending) :
          /\ held' = pending[k]
          /\ pending' = SubSeq(pending, k + 1, Len(pending))
    /\ UNCHANGED count

Next == Put \/ Discard \/ Take \/ Skip

Spec == Init /\ [][Next]_vars

=============================================================================
