---------------------------- MODULE ChannelData ----------------------------
(***************************************************************************)
(* The messages that travel through a channel: the slot array `msgs` of    *)
(* channel.rs and the typed handles Producer<T> and Consumer<T> of lib.rs  *)
(* on top of the index protocol of module Channel.                         *)
(*                                                                         *)
(* A message is the number of its publish: the client fills the current    *)
(* slot with message sent + 1 and calls force_put or try_put; a fetch that *)
(* reports a message reads the slot `current` then names.  A try_put that  *)
(* is refused leaves the message in the slot, and the client offers it     *)
(* again.  0 is the content of a slot never written (fresh shared memory). *)
(***************************************************************************)
EXTENDS Channel

CONSTANT MaxMsgs    \* the client stops after this many messages

ASSUME MaxMsgs \in Nat \ {0}

VARIABLES
    msgs,   \* msgs[i]: the message in slot i
    sent,   \* number of messages linked into the chain so far
    last,   \* the message the consumer was handed last, 0 before the first
    floor,  \* history: the message head named when the running fetch began
    stale   \* history: fetch_head has loaded head inside a publish

dvars == <<msgs, sent, last, floor, stale>>
allvars == <<vars, dvars>>

Message == 0 .. MaxMsgs

DataTypeOK ==
    /\ TypeOK
    /\ msgs \in [Slots -> Message]
    /\ sent \in Message
    /\ last \in Message
    /\ floor \in Message
    /\ stale \in BOOLEAN

DataInit ==
    /\ Init
    /\ msgs = [i \in Slots |-> 0]
    /\ sent = 0
    /\ last = 0
    /\ floor = 0
    /\ stale = FALSE

-----------------------------------------------------------------------------

\* Producer::msg() and the call of a put: the slot `current` is filled.
Write ==
    /\ sent < MaxMsgs
    /\ PutBegin
    /\ msgs' = [msgs EXCEPT ![prod.current] = sent + 1]
    /\ UNCHANGED <<sent, last, floor, stale>>

\* The store of enqueue_msg that makes the slot reachable from tail.
Publish ==
    /\ EnqLink
    /\ sent' = sent + 1
    /\ UNCHANGED <<msgs, last, floor, stale>>

\* The other steps of a put leave the messages alone.
Settle ==
    /\ EnqTerminate \/ EnqHead \/ ForcePutTail \/ MoveTail \/ Overrun
       \/ Requeue
    /\ UNCHANGED dvars

\* Consumer::msg() is Some: `current` names a slot.
HasMessage(c) == c.current \in Slots

\* This step returns Some(message) from Consumer::fetch_tail or
\* Consumer::fetch_head: the channel call reports New or true, and msg()
\* finds a slot.
Delivers ==
    /\ Consumer
    /\ cons'.pc = "idle"
    /\ cons'.ret \in {"New", "true"}
    /\ HasMessage(cons')

\* The head_load of fetch_head falls between the store of enqueue_msg that
\* makes the new slot reachable (tail_store or queue_store) and its
\* head_store: the head it reads is the one about to be replaced.
LoadsStaleHead == FetchHeadLoad /\ head # prod.head

\* Consumer::fetch_tail and Consumer::fetch_head: every step of the channel
\* call, and the read of the slot when the call hands out a message.
Fetch ==
    /\ Consumer
    /\ last' = IF Delivers THEN msgs[cons'.current] ELSE last
    /\ floor' = IF cons.pc = "idle"
                THEN (IF head \in Slots THEN msgs[head] ELSE 0)
                ELSE floor
    /\ stale' = (stale \/ LoadsStaleHead)
    /\ UNCHANGED <<msgs, sent>>

DataNext == Write \/ Publish \/ Settle \/ Fetch

DataSpec == DataInit /\ [][DataNext]_allvars

\* Both threads keep being scheduled, the consumer keeps polling, and the
\* producer keeps offering its message until MaxMsgs are out.
FairDataSpec ==
    DataSpec /\ WF_allvars(Write \/ Publish \/ Settle) /\ WF_allvars(Fetch)

-----------------------------------------------------------------------------
(* The channel as a queue.                                                 *)

\* The messages the consumer has still to get: those in the slots from tail
\* to the end of the chain that are newer than the one it was handed last.
Unread ==
    LET chain == Chain(SlotOf(tail), QueueLen)
    IN  SelectSeq([k \in DOMAIN chain |-> msgs[chain[k]]],
                  LAMBDA m : m > last)

Queue ==
    INSTANCE LossyQueue
    WITH Capacity <- QueueLen,
         count <- sent, pending <- Unread, held <- last,
         Discards <- "force_put" \in ProducerOps,
         Skips <- "fetch_head" \in ConsumerOps

-----------------------------------------------------------------------------
(* Properties.                                                             *)

\* The channel implements the queue of module LossyQueue: enqueue_msg puts
\* one message, fetch_tail takes the oldest unread one, fetch_head a later
\* one (the one head named when it was loaded), and a message is passed
\* over only by fetch_head or when force_put moved tail (move_tail,
\* overrun) to make room; with try_put and fetch_tail alone nothing is
\* passed over.  No step of either side does anything else to the unread
\* messages, at whatever point of the other side's call it falls.
ImplementsQueue == Queue!Spec

\* fetch_tail never hands out a message twice nor one older than the last
\* (section 8 property 5), and fetch_head never goes back behind it: tail
\* only moves forward along the chain, whoever moves it.
DeliveryOrder ==
    [][Delivers =>
          IF cons'.ret = "New" THEN last' > last ELSE last' >= last]_allvars

\* try_put never takes a message away from the consumer: an unread message
\* leaves the channel only by being handed out or in a force_put.  With
\* try_put alone every message therefore arrives, exactly once and in
\* order (section 8 property 4), however the two sides interleave and also
\* when try_put finds an overrun slot of an earlier force_put to requeue.
TryPutNeverDiscards ==
    [][Range(Unread) \ Range(Unread') \subseteq {last'}
          \/ "force_put" \in {prod.op, prod'.op}]_allvars

\* The message the consumer holds is one that was published, and it stays
\* as it was read: the producer does not fill a slot through Producer::msg()
\* while Consumer::msg() still shows it.
HeldIntact ==
    ConsumerReads =>
        /\ HasMessage(cons)
        /\ msgs[cons.current] = last
        /\ last \in 1 .. sent

\* The slots that are not free for the producer: its own, the unread ones
\* and the one the consumer keeps.
SlotsInUse == 1 + Len(Unread) + Queue!Kept

\* When a put has returned the producer has a slot to fill and the ring is
\* not over its size: force_put has discarded what it had to, through
\* move_tail or overrun, whatever the consumer did in between.
RoomAfterPut == prod.pc = "idle" => SlotsInUse <= QueueLen

\* try_put refuses exactly when the ring is full (scenario S4; section 8
\* property 4 counts on it): it publishes if a slot is left for the
\* producer afterwards, also when that slot is an overrun slot the consumer
\* has just released, and it refuses only if none is.
RefusesOnlyWhenFull ==
    [][TryPutBegin => (prod'.pc = "enq_term" <=> SlotsInUse < QueueLen)]_allvars

\* fetch_head hands out a message at least as new as the one head named
\* when the call began (section 8 property 6).
FetchHeadIsRecent ==
    [][Delivers /\ cons'.ret = "true" => last' >= floor]_allvars

\* fetch_head returns once the producer leaves tail alone: a round of its
\* loop is lost only to a force_put that has moved tail since the fetch_or,
\* and the next round starts from the tail found then (the loop is
\* lock-free, though not wait-free).  The client here stops after MaxMsgs
\* messages, at any point of the consumer's call.
FetchHeadReturnsAfterPuts ==
    WF_allvars(Fetch) =>
        (cons.pc \in {"fh_or", "fh_head", "fh_cas"} ~> cons.pc = "idle")

\* A consumer that keeps polling sees the last message put, whatever was
\* discarded before it (section 8 property 5, "once it catches up").
LatestArrives == <>[](last = MaxMsgs)

-----------------------------------------------------------------------------
(* With fetch_head in use.  The head_load of fetch_head is not ordered     *)
(* against enqueue_msg, and a head loaded inside a publish (LoadsStaleHead) *)
(* takes tail back behind what was handed out: DeliveryOrder, HeldIntact   *)
(* and the refinement are then lost.  The properties below say that this   *)
(* load is the only way to lose them: they hold in every behaviour of the  *)
(* code up to the first such load, with all four calls interleaved.        *)

\* Up to the first stale head load the consumer's message stays intact
\* although force_put overruns the consumer and fetch_head jumps tail at
\* the same time: move_tail, overrun and the requeue never hand the
\* producer the slot that fetch_tail or fetch_head has handed out.
HeldIntactUntilStale == stale \/ HeldIntact

\* Up to the first stale head load the channel implements the queue with
\* discards and skips: a fetch_head that wins its exchange against
\* move_tail and overrun takes a message of the queue and passes over the
\* ones before it, and force_put gives up at most the two oldest.
ImplementsQueueUntilStale ==
    Queue!Init /\ [][stale' \/ Queue!Next]_(Queue!vars)

\* The only step that makes a fetch hand out an older message, or
\* fetch_tail the same one twice, is one that follows a stale head load:
\* neither an overrun that races the consumer's exchange nor a requeued
\* slot does.
DeliveryOrderUntilStale ==
    [][stale' \/
       (Delivers =>
           IF cons'.ret = "New" THEN last' > last ELSE last' >= last)]_allvars

\* When both threads keep being scheduled and the consumer polls with
\* fetch_tail and fetch_head in any mix, the last message arrives unless a
\* head was loaded stale on the way: an overrun slot is requeued and the
\* last link is followed whichever fetch comes last.
LatestArrivesUntilStale ==
    WF_allvars(Write \/ Publish \/ Settle) /\ WF_allvars(Fetch) =>
        <>stale \/ LatestArrives

=============================================================================
