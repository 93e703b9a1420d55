------------------------------ MODULE Channel ------------------------------
(***************************************************************************)
(* The index protocol of one rtipc channel (src/rust/src/channel.rs): a    *)
(* single producer and a single consumer that share `head`, `tail` and the *)
(* link array `queue` in mapped memory and agree, through atomic loads,    *)
(* stores, fetch_or and compare_exchange alone, on who owns which slot.    *)
(*                                                                         *)
(* Granularity.  Every access to a word the OTHER side may write is one    *)
(* step: the consumer writes only `tail`, the producer writes `tail`,      *)
(* `head` and `queue`.  A producer load of `queue` therefore reads the     *)
(* producer's own last store and is folded into the step that uses it; a   *)
(* consumer load of `queue` or `head` is a step of its own.                *)
(*                                                                         *)
(* The payload of the slots is not part of this module (see ChannelData).  *)
(***************************************************************************)
EXTENDS Naturals, Sequences, SequencesExt, Functions

CONSTANTS
    QueueLen,       \* N = MIN_MSGS + add_msgs, the number of slots
    IndexBits,      \* width of Index in bits (32 in the code, small here)
    ProducerOps,    \* the calls the producing client makes
    ConsumerOps     \* the calls the consuming client makes

MIN_MSGS == 3

INVALID_INDEX == 2^IndexBits - 1
CONSUMED_FLAG == INVALID_INDEX - (INVALID_INDEX \div 2)
INDEX_MASK    == INVALID_INDEX - CONSUMED_FLAG

ASSUME /\ IndexBits \in Nat \ {0, 1}
       /\ QueueLen \in MIN_MSGS .. INDEX_MASK
       /\ ProducerOps \subseteq {"force_put", "try_put"}
       /\ ConsumerOps \subseteq {"fetch_tail", "fetch_head"}

Index == 0 .. INVALID_INDEX
Slots == 0 .. (QueueLen - 1)

\* idx & CONSUMED_FLAG != 0, idx | CONSUMED_FLAG and idx & INDEX_MASK on
\* IndexBits-wide unsigned words, whose top bit is CONSUMED_FLAG.
Consumed(idx) == idx >= CONSUMED_FLAG
FlaggedByAdd(idx) == idx + CONSUMED_FLAG    \* a fault: + for |
Flagged(idx)  == IF Consumed(idx) THEN idx ELSE idx + CONSUMED_FLAG
SlotOf(idx)   == idx % CONSUMED_FLAG

VARIABLES
    head,   \* shared: last published slot, or INVALID_INDEX
    tail,   \* shared: oldest unread slot, CONSUMED_FLAG set while it is read
    queue,  \* shared: queue[i] is the slot that follows slot i
    prod,   \* ProducerChannel: its fields, and the locals of the call it is in
    cons    \* ConsumerChannel: its field, and the locals of the call it is in

vars == <<head, tail, queue, prod, cons>>

\* ProducerChannel: head, current and overrun, with the place the running
\* call has reached (pc), the call (op) and its locals next, tail and the
\* result it will return.
ProducerChannel ==
    [pc : {"idle", "enq_term", "enq_link", "enq_head", "fp_tail",
           "move_tail", "overrun", "requeue"},
     op : ProducerOps \cup {"none"},
     head : Index, current : Index, overrun : Index,
     next : Index, tail : Index, ret : BOOLEAN]

\* ConsumerChannel: current, with the place the running call has reached,
\* its locals tail, next and head, the result of the last call, and whether
\* a call has handed out a message yet (got, a history flag).
ConsumerChannel ==
    [pc : {"idle", "ft_next", "ft_cas", "ft_retry",
           "fh_or", "fh_head", "fh_cas"},
     current : Index, tail : Index, next : Index, head : Index,
     got : BOOLEAN, ret : {"None", "Same", "New", "true", "false"}]

TypeOK ==
    /\ head \in Index
    /\ tail \in Index
    /\ queue \in [Slots -> Index]
    /\ prod \in ProducerChannel
    /\ cons \in ConsumerChannel

-----------------------------------------------------------------------------
(* Channel::init on the creator's side, and the fields both handles start  *)
(* with.                                                                   *)

Init ==
    /\ head = INVALID_INDEX
    /\ tail = INVALID_INDEX
    /\ queue = [i \in Slots |-> (i + 1) % QueueLen]
    /\ prod = [pc |-> "idle", op |-> "none", head |-> INVALID_INDEX,
               current |-> 0, overrun |-> INVALID_INDEX,
               next |-> INVALID_INDEX, tail |-> INVALID_INDEX, ret |-> FALSE]
    /\ cons = [pc |-> "idle", current |-> 0, tail |-> INVALID_INDEX,
               next |-> INVALID_INDEX, head |-> INVALID_INDEX,
               got |-> FALSE, ret |-> "None"]

-----------------------------------------------------------------------------
(* How a call ends.                                                        *)

\* The call returns r with `current` and `overrun` as given; its locals die.
ProducerReturns(r, current, overrun) ==
    [prod EXCEPT !.pc = "idle", !.op = "none", !.ret = r,
                 !.current = current, !.overrun = overrun,
                 !.next = INVALID_INDEX, !.tail = INVALID_INDEX]

\* The call returns r, with `current` moved to slot when r is a message.
ConsumerReturns(r, slot) ==
    [cons EXCEPT !.pc = "idle", !.ret = r,
                 !.current = IF r \in {"New", "true"} THEN slot ELSE @,
                 !.got = @ \/ r \in {"New", "true"},
                 !.tail = INVALID_INDEX, !.next = INVALID_INDEX,
                 !.head = INVALID_INDEX]

-----------------------------------------------------------------------------
(* The atomic accesses of Channel, all SeqCst: the word each leaves.  A     *)
(* load is the variable; the caller of a fetch_or or a compare_exchange     *)
(* sees the old word in the same step.                                      *)
(*                                                                         *)
(* Faults.  An operator marked `a fault` is the definition that follows    *)
(* it with one plausible slip in it.  None is part of Next: a fault takes  *)
(* the place of that definition to show that a property tells the code     *)
(* from the slip (PROJECT.json, "mutants").                                *)

TailStore(val) == tail' = val

\* tail_fetch_or(CONSUMED_FLAG)
TailFetchOr == tail' = Flagged(tail)

\* A fault: the new word is stored without comparing the old one.
TailExchange(current, new) == tail' = new

TailCompareExchange(current, new) ==
    tail' = IF tail = current THEN new ELSE tail

HeadStore(val) == head' = val

QueueStore(idx, val) == queue' = [queue EXCEPT ![idx] = val]

-----------------------------------------------------------------------------
(* Producer.                                                               *)

\* force_put: remember the link of current, then publish unconditionally.
ForcePutBegin ==
    /\ prod.pc = "idle"
    /\ "force_put" \in ProducerOps
    /\ prod' = [prod EXCEPT !.pc = "enq_term", !.op = "force_put",
                            !.next = queue[prod.current]]
    /\ UNCHANGED <<head, tail, queue, cons>>

\* A fault: with an overrun pending `consumed` is not looked at.
TryPutAcceptsUnreleased(next) ==
    prod.overrun # INVALID_INDEX \/ next # SlotOf(tail)

\* A fault: with no overrun pending `full` is not looked at.
TryPutAcceptsFull(next) == prod.overrun # INVALID_INDEX => Consumed(tail)

\* try_put publishes only into a released overrun slot or, with no overrun
\* pending, into a ring that is not full.
TryPutAccepts(next) ==
    IF prod.overrun # INVALID_INDEX THEN Consumed(tail)
                                    ELSE next # SlotOf(tail)

\* try_put up to its decision; refused, it returns false at once.
TryPutBegin ==
    /\ prod.pc = "idle"
    /\ "try_put" \in ProducerOps
    /\ LET next == queue[prod.current]
       IN  prod' = IF TryPutAccepts(next)
                   THEN [prod EXCEPT !.pc = "enq_term", !.op = "try_put",
                                     !.next = next]
                   ELSE ProducerReturns(FALSE, prod.current, prod.overrun)
    /\ UNCHANGED <<head, tail, queue, cons>>

\* enqueue_msg, first store: end the chain at the slot being published.
EnqTerminate ==
    /\ prod.pc = "enq_term"
    /\ QueueStore(prod.current, INVALID_INDEX)
    /\ prod' = [prod EXCEPT !.pc = "enq_link"]
    /\ UNCHANGED <<head, tail, cons>>

\* A fault: self.head is set before the link is written.
LinkedBehindItself == prod.current

\* The slot a new one is linked behind: the head the producer remembers.
LinkedBehind == prod.head

\* enqueue_msg, second store: the first publish ever sets tail, every later
\* one links the slot behind the previous head.
EnqLink ==
    /\ prod.pc = "enq_link"
    /\ IF prod.head = INVALID_INDEX
       THEN TailStore(prod.current) /\ UNCHANGED queue
       ELSE QueueStore(LinkedBehind, prod.current) /\ UNCHANGED tail
    /\ prod' = [prod EXCEPT !.pc = "enq_head", !.head = prod.current]
    /\ UNCHANGED <<head, cons>>

\* enqueue_msg, third store, and what the caller does next without touching
\* shared memory: try_put with no overrun pending moves on to next.
EnqHead ==
    /\ prod.pc = "enq_head"
    /\ HeadStore(prod.head)
    /\ \/ /\ prod.op = "force_put"
          /\ prod' = [prod EXCEPT !.pc = "fp_tail"]
       \/ /\ prod.op = "try_put"
          /\ prod.overrun # INVALID_INDEX
          /\ prod' = [prod EXCEPT !.pc = "requeue", !.ret = TRUE]
       \/ /\ prod.op = "try_put"
          /\ prod.overrun = INVALID_INDEX
          /\ prod' = ProducerReturns(TRUE, prod.next, INVALID_INDEX)
    /\ UNCHANGED <<tail, queue, cons>>

\* force_put after the publish: load tail and choose the slot to write next.
ForcePutTail ==
    /\ prod.pc = "fp_tail"
    /\ LET pending == prod.overrun # INVALID_INDEX
           full    == prod.next = SlotOf(tail)
       IN  \/ /\ pending /\ Consumed(tail)
              /\ prod' = [prod EXCEPT !.pc = "requeue", !.ret = FALSE]
           \/ /\ \/ pending /\ ~Consumed(tail)
                 \/ ~pending /\ full /\ ~Consumed(tail)
              /\ prod' = [prod EXCEPT !.pc = "move_tail", !.tail = tail]
           \/ /\ ~pending /\ ~full
              /\ prod' = ProducerReturns(FALSE, prod.next, INVALID_INDEX)
           \/ /\ ~pending /\ full /\ Consumed(tail)
              /\ prod' = [prod EXCEPT !.pc = "overrun", !.tail = tail]
    /\ UNCHANGED <<head, tail, queue, cons>>

\* force_put when move_tail has won: with an overrun pending the old tail
\* slot becomes current; without one, next does (and `discarded` keeps its
\* initial false).
MoveTailWon ==
    IF prod.overrun # INVALID_INDEX
    THEN ProducerReturns(TRUE, SlotOf(prod.tail), prod.overrun)
    ELSE ProducerReturns(FALSE, prod.next, INVALID_INDEX)

\* A fault: the exchange is tried again with the tail expected before.
MoveTailLostRetries == prod

\* force_put when move_tail has lost: the consumer has flagged tail in
\* between, so a pending overrun slot is released, and with none pending
\* the flagged tail is to be jumped over.
MoveTailLost ==
    IF prod.overrun # INVALID_INDEX
    THEN [prod EXCEPT !.pc = "requeue", !.ret = FALSE]
    ELSE [prod EXCEPT !.pc = "overrun", !.tail = Flagged(prod.tail)]

\* move_tail: tail goes one link on, unless it is no longer what was loaded.
MoveTail ==
    /\ prod.pc = "move_tail"
    /\ TailCompareExchange(prod.tail, queue[SlotOf(prod.tail)])
    /\ prod' = IF tail = prod.tail THEN MoveTailWon ELSE MoveTailLost
    /\ UNCHANGED <<head, queue, cons>>

\* overrun: the slot the producer takes, one link past the tail slot ...
NewCurrent(t) == queue[SlotOf(t)]

\* A fault: tail is moved onto the slot the producer takes.
NewTailOneLink(t) == NewCurrent(t)

\* ... and the tail it asks for, two links past it.
NewTail(t) == queue[NewCurrent(t)]

\* overrun: jump tail past the slot the consumer holds and past the one the
\* producer takes; if the consumer let go first, take its slot.
Overrun ==
    /\ prod.pc = "overrun"
    /\ TailCompareExchange(prod.tail, NewTail(prod.tail))
    /\ prod' = IF tail = prod.tail
               THEN ProducerReturns(TRUE, NewCurrent(prod.tail),
                                    SlotOf(prod.tail))
               ELSE ProducerReturns(FALSE, SlotOf(prod.tail), INVALID_INDEX)
    /\ UNCHANGED <<head, queue, cons>>

\* A fault: the released overrun slot is not linked in front of next.
RequeueUnlinked ==
    /\ prod.pc = "requeue"
    /\ prod' = ProducerReturns(prod.ret, prod.overrun, INVALID_INDEX)
    /\ UNCHANGED <<head, tail, queue, cons>>

\* The consumer released the overrun slot: link it in front of next and
\* write it next.
Requeue ==
    /\ prod.pc = "requeue"
    /\ QueueStore(prod.overrun, prod.next)
    /\ prod' = ProducerReturns(prod.ret, prod.overrun, INVALID_INDEX)
    /\ UNCHANGED <<head, tail, cons>>

PutBegin == ForcePutBegin \/ TryPutBegin

Producer ==
    \/ PutBegin
    \/ EnqTerminate \/ EnqLink \/ EnqHead
    \/ ForcePutTail \/ MoveTail \/ Overrun \/ Requeue

-----------------------------------------------------------------------------
(* Consumer.                                                               *)

\* fetch_tail, first access: flag tail.  Nothing published yet, or a tail
\* the producer has put there (flag clear) which is taken as it is, or the
\* consumer's own flagged tail, from which it will try to step on.
FetchTailOr ==
    /\ cons.pc = "idle"
    /\ "fetch_tail" \in ConsumerOps
    /\ TailFetchOr
    /\ \/ /\ tail = INVALID_INDEX
          /\ cons' = ConsumerReturns("None", cons.current)
       \/ /\ tail # INVALID_INDEX /\ Consumed(tail)
          /\ cons' = [cons EXCEPT !.pc = "ft_next", !.tail = tail]
       \/ /\ ~Consumed(tail)
          /\ cons' = ConsumerReturns("New", tail)
    /\ UNCHANGED <<head, queue, prod>>

\* A fault: the link is not checked for INVALID_INDEX.
FetchTailNextUnchecked ==
    /\ cons.pc = "ft_next"
    /\ cons' = [cons EXCEPT !.pc = "ft_cas", !.next = queue[cons.current]]
    /\ UNCHANGED <<head, tail, queue, prod>>

\* fetch_tail: the link of the slot held; none means nothing new.
FetchTailNext ==
    /\ cons.pc = "ft_next"
    /\ LET next == queue[cons.current]
       IN  \/ /\ next = INVALID_INDEX
              /\ cons' = ConsumerReturns("Same", cons.current)
           \/ /\ next # INVALID_INDEX
              /\ cons' = [cons EXCEPT !.pc = "ft_cas", !.next = next]
    /\ UNCHANGED <<head, tail, queue, prod>>

\* A fault: the exchange is tried again with the tail found, as the loop of
\* fetch_head does.
FetchTailLostRetries == [cons EXCEPT !.tail = tail]

\* fetch_tail when its exchange has lost: the producer moved tail, and
\* what it put there is taken next.
FetchTailLost == [cons EXCEPT !.pc = "ft_retry"]

\* fetch_tail: step tail to the next slot unless the producer moved it.
FetchTailCas ==
    /\ cons.pc = "ft_cas"
    /\ TailCompareExchange(cons.tail, Flagged(cons.next))
    /\ cons' = IF tail = cons.tail THEN ConsumerReturns("New", cons.next)
                                   ELSE FetchTailLost
    /\ UNCHANGED <<head, queue, prod>>

\* fetch_tail: the producer moved tail; flag and take what it put there.
FetchTailRetry ==
    /\ cons.pc = "ft_retry"
    /\ TailFetchOr
    /\ cons' = ConsumerReturns("New", tail)
    /\ UNCHANGED <<head, queue, prod>>

\* fetch_head, top of its loop: flag tail; nothing published returns false.
FetchHeadOr ==
    /\ \/ /\ cons.pc = "idle"
          /\ "fetch_head" \in ConsumerOps
       \/ cons.pc = "fh_or"
    /\ TailFetchOr
    /\ \/ /\ tail = INVALID_INDEX
          /\ cons' = ConsumerReturns("false", cons.current)
       \/ /\ tail # INVALID_INDEX
          /\ cons' = [cons EXCEPT !.pc = "fh_head", !.tail = tail]
    /\ UNCHANGED <<head, queue, prod>>

\* fetch_head: load head, whatever the producer is doing: the load may
\* fall between the two stores of enqueue_msg, when the new slot is linked
\* and stored in tail (first publish) and head is still the old one.
FetchHeadLoad ==
    /\ cons.pc = "fh_head"
    /\ cons' = [cons EXCEPT !.pc = "fh_cas", !.head = head]
    /\ UNCHANGED <<head, tail, queue, prod>>

\* A fault: the slot of the old tail stays current.
FetchHeadWonKeepsTail == ConsumerReturns("true", SlotOf(cons.tail))

\* fetch_head when its exchange has won: head is the slot handed out.
FetchHeadWon == ConsumerReturns("true", cons.head)

\* A fault: the next round starts at the exchange, with the tail flagged
\* in the round before.
FetchHeadLostRetriesStale == cons

\* fetch_head when its exchange has lost: the loop starts over.
FetchHeadLost == [cons EXCEPT !.pc = "fh_or"]

\* fetch_head: jump tail to the head loaded, unless the producer moved tail
\* since it was flagged.
FetchHeadCas ==
    /\ cons.pc = "fh_cas"
    /\ TailCompareExchange(Flagged(cons.tail), Flagged(cons.head))
    /\ cons' = IF tail = Flagged(cons.tail) THEN FetchHeadWon
                                            ELSE FetchHeadLost
    /\ UNCHANGED <<head, queue, prod>>

Consumer ==
    \/ FetchTailOr \/ FetchTailNext \/ FetchTailCas \/ FetchTailRetry
    \/ FetchHeadOr \/ FetchHeadLoad \/ FetchHeadCas

-----------------------------------------------------------------------------

Next == Producer \/ Consumer

Spec == Init /\ [][Next]_vars

\* The consumer's thread is scheduled again and again, and the producer
\* finishes a publish it has begun; the producer need not call again.
ConsumerFairSpec == Spec /\ WF_vars(Consumer) /\ WF_vars(EnqHead)

-----------------------------------------------------------------------------
(* Properties.                                                             *)

\* The slots reached from slot `from` by following queue[], in order, up to
\* the end of the chain (at most `fuel` of them).
RECURSIVE Chain(_, _)
Chain(from, fuel) ==
    IF from \notin Slots \/ fuel = 0
    THEN <<>>
    ELSE <<from>> \o Chain(queue[from], fuel - 1)

\* The indices the next step of either side uses to address queue[] or the
\* slot array.
IndicesInUse ==
    {prod.current}
    \cup ({prod.head, prod.overrun} \ {INVALID_INDEX})
    \cup (IF prod.pc \in {"move_tail", "overrun"}
          THEN {SlotOf(prod.tail)} ELSE {})
    \cup (IF prod.pc = "overrun" /\ SlotOf(prod.tail) \in Slots
          THEN {queue[SlotOf(prod.tail)]} ELSE {})
    \cup (IF cons.got \/ cons.pc \in {"ft_next"} THEN {cons.current} ELSE {})

\* Every index either side is about to use addresses one of the N slots:
\* queue[idx] in Channel::queue and msgs.get(current).unwrap() in
\* ProducerChannel::current panic otherwise, and a fetch that reports a
\* message must leave ConsumerChannel::current on a slot.
IndexInBounds == IndicesInUse \subseteq Slots

\* The consumer reads the slot a fetch has handed out until its next call
\* (fetch_tail and fetch_head take the handle by &mut, msg() by &).
ConsumerReads == cons.got /\ cons.pc = "idle"

\* Between two puts the links form one chain without repetition that leads
\* from the producer's current slot through tail to head and holds every
\* slot but a pending overrun slot; the consumer's slot is that overrun
\* slot or lies on the chain, after current and not beyond tail.  (No slot
\* is lost or entered twice by enqueue_msg, move_tail, overrun or the
\* requeue in force_put and try_put.)
RingIntact ==
    prod.pc = "idle" /\ prod.head # INVALID_INDEX =>
        LET chain   == Chain(prod.current, QueueLen + 1)
            pos(i)  == CHOOSE k \in DOMAIN chain : chain[k] = i
        IN  /\ IsInjective(chain)
            /\ Range(chain) = Slots \ {prod.overrun}
            /\ Last(chain) = prod.head
            /\ SlotOf(tail) \in Range(chain) \ {prod.current}
            /\ ConsumerReads =>
                  \/ cons.current = prod.overrun
                  \/ /\ cons.current \in Range(chain) \ {prod.current}
                     /\ pos(cons.current) <= pos(SlotOf(tail))

\* fetch_tail answers Same only when the consumer holds the slot linked
\* last by enqueue_msg: a message that is linked is never reported absent.
SameMeansCaughtUp ==
    [][cons.pc = "ft_next" /\ cons'.pc = "idle" /\ cons'.ret = "Same"
          => cons.current = prod.head]_vars

\* A force_put or try_put whose thread is scheduled returns, whatever the
\* consumer does or fails to do in between: enqueue_msg, move_tail and
\* overrun have no loop, and an exchange that fails is not tried again
\* (wait-freedom of the producer, section 8 property 7).
PutReturns ==
    WF_vars(Producer) => (prod.pc # "idle" ~> prod.pc = "idle")

\* A fetch_tail whose thread is scheduled returns, however often the
\* producer moves tail in between: after one failed exchange it takes the
\* tail the producer has put there (wait-freedom of fetch_tail, section 8
\* property 7).
FetchTailReturns ==
    WF_vars(Consumer) =>
        (cons.pc \in {"ft_next", "ft_cas", "ft_retry"} ~> cons.pc = "idle")

\* A fetch_head that is scheduled returns, whatever the producer does
\* (wait-freedom, section 8 property 7 of the specification).
FetchHeadReturns ==
    cons.pc \in {"fh_or", "fh_head", "fh_cas"} ~> cons.pc = "idle"

\* force_put reports `discarded` whenever it takes an unread message away
\* from the consumer by moving tail (section 4.5.2 (b) and scenario S2).
DiscardReported ==
    [][Producer /\ tail # INVALID_INDEX /\ tail' # tail => prod'.ret]_vars

=============================================================================
