# rtipc in TLA+

A model-checking development of `rtipc`, the shared-memory message transport
in `src/rust/`. Two processes map one region and exchange fixed-size messages
through single-producer / single-consumer channels; the datapath is atomic
loads, stores, `fetch_or` and `compare_exchange` on three kinds of word
(`head`, `tail`, `queue[i]`) and nothing else. The modules here say what the
code does, step by step, and TLC checks what the specification (`spec.md`)
promises of it.

## 1. The system

| Part | Source | State | Operations | Talks to |
|---|---|---|---|---|
| Channel protocol | `channel.rs` 143-402 | shared `head`, `tail`, `queue[N]`; producer-local `head`, `current`, `overrun`; consumer-local `current` | `force_put`, `try_put` (`enqueue_msg`, `move_tail`, `overrun`), `fetch_tail`, `fetch_head`, `init` | the other side, only through the shared words |
| Typed handles, slots | `lib.rs` 60-130, `channel.rs` 175, 343 | the slot array `msgs[N]` | `Producer::msg`, `force_put`, `try_put`; `Consumer::msg`, `fetch_tail`, `fetch_head` | Channel protocol |
| Layout | `cache.rs`, `lib.rs` 37-58, 139-179, `channel.rs` 38-78 | the static `CLS` of `max_cacheline_size` | `max_cacheline_size`, `mem_align`, `cacheline_aligned`, `data_size`, `queue_size`, `size`, `calc_shm_size`, `calc_offset_channels`, the pointers of `Channel::new` | used by table and facade |
| ChannelTable | `table.rs` | the table words in the region | `new`, `write`, `write_entry`, `read_entry`, `from_chunk` | Layout, region |
| Header | `header.rs` | the header in the region | `new`, `write`, `from_chunk` | region |
| SharedMemory, Chunk | `shm.rs` | fd, mapping, size, path | `new_anon`, `new_named`, `init`, `new`, `from_fd`, `alloc`, `get_ptr`, `get_span_ptr`, `drop` | the OS |
| RtIpc facade | `lib.rs` 132-305 | `producers`, `consumers`: vectors of `Option` | `new_anon_shm`, `new_named_shm`, `new`, `construct`, `from_fd`, `from_shm`, `take_producer`, `take_consumer` | all of the above |
| Errors | `error.rs` | none | four enums that wrap one another, the `From` conversions `?` applies | all |
| rpc example | `examples/rpc.rs` | a server and a client thread, three channels | `Client::run`, `Server::run`, `send_events`, `div` | the facade and the typed handles |

What makes it hard:

* **The channel.** Producer and consumer run in different processes with no
  lock. `enqueue_msg` publishes in three stores; `force_put` decides on a
  `tail` it loaded earlier; `overrun` and `fetch_tail` race with
  `compare_exchange` on the same word and the loser has to adopt what the
  winner left; a slot taken out of the ring by `overrun` must come back
  exactly once, many calls later; every exchange can fail, and the call must
  end all the same; `fetch_head` loops.
* **Creation and attach.** The creator writes header, table and channels in
  that order into a region a peer may already be able to open; every value
  crosses the region as raw words, with the roles of the two sides reversed in
  three places that must agree; all sizes are sums of roundings.
* **Handing out handles.** A take is two steps, and the second can fail.
* **Lifetime.** The mapping, and with it the path of a named segment, lives
  as long as the `RtIpc` or any handle taken from it; a creation that fails
  half way has made things nobody owns.
* **The example.** Client and server synchronise by sleeping. What they can
  rely on is only what the channels give under any timing.

The properties that matter follow from `spec.md` section 8: nothing is
delivered twice or out of order, nothing is lost with `try_put`, the slot the
consumer reads is never written, the ring never loses a slot, the last
message arrives, an attach mirrors the creator, a channel has one producer and
one consumer; and from section 3, a named segment goes when its owner goes.

## 2. Modules

| Module | Models | Instantiated by |
|---|---|---|
| `Channel` | the index protocol of one channel | `MCChannel` |
| `ChannelData` | `Channel` plus the slots and the typed handles | `MCChannelData` |
| `LossyQueue` | what a channel promises: a bounded queue that may drop and skip | `ChannelData` (`Queue`), `Rpc` (`Cmd`, `Rsp`, `Evt`) |
| `Layout` | the arithmetic of sizes, offsets and bounds | `RtIpc` |
| `RtIpc` | creator, attacher, region, takes and drops | `MCRtIpc` |
| `Rpc` | the two threads of `examples/rpc.rs` over three queues | `MCRpc` |

### Channel

Variables `head`, `tail`, `queue` are the shared words; `prod` and `cons` are
the fields of `ProducerChannel` and `ConsumerChannel` together with a program
counter, the values a call holds in locals between two accesses, and the value
it returns. `Init` is the memory after `Channel::init` and the two `new`.

All atomics in `channel.rs` are `SeqCst`, so a behaviour of the code is an
interleaving of its accesses. Every access to a word the other side may write
is one action; what a thread does on its own data before the next such access
belongs to the same action. The consumer writes only `tail`, so a producer
load of `queue` or `head` reads the producer's own last store and is folded
into the action that uses it.

| Action | Code |
|---|---|
| `ForcePutBegin`, `TryPutBegin` | entry of the call up to `enqueue_msg`; `try_put` loads `tail` and may refuse twice |
| `EnqTerminate`, `EnqLink`, `EnqHead` | the three stores of `enqueue_msg` |
| `ForcePutTail` | `tail_load` and every branch of `force_put` decided on it |
| `MoveTail`, `Overrun` | the `compare_exchange` of `move_tail` and `overrun`, with both outcomes |
| `Requeue` | `queue_store(overrun, next)` when the consumer has left the overrun slot |
| `FetchTailOr`, `FetchTailNext`, `FetchTailCas`, `FetchTailRetry` | `fetch_or`, `queue_load`, `compare_exchange` and the second `fetch_or` of `fetch_tail` |
| `FetchHeadOr`, `FetchHeadLoad`, `FetchHeadCas` | one round of the loop of `fetch_head` |

The accessors of `Channel` are operators of their own (`TailStore`,
`TailFetchOr`, `TailCompareExchange`, `HeadStore`, `QueueStore`): each says
what the access leaves in the word, and the action that calls it reads the
old word in the same step. What a call does after an exchange has its own
name where the code branches on the result (`MoveTailWon`, `MoveTailLost`,
`FetchTailLost`, `FetchHeadWon`, `FetchHeadLost`), as have the decision of
`try_put` (`TryPutAccepts`) and the two loads of `overrun` (`NewCurrent`,
`NewTail`).

`Index` is `IndexBits` wide instead of 32: `INVALID_INDEX`, `CONSUMED_FLAG`
and `INDEX_MASK` are computed from the width exactly as in the code, so the
flag is still the top bit, `INVALID_INDEX` is still all ones, and
`INVALID_INDEX | CONSUMED_FLAG = INVALID_INDEX` still holds.

`ProducerOps` and `ConsumerOps` say which calls the clients make; nothing
else selects behaviours. `FetchHeadLoad` is the `head_load` of
`channel.rs:357` and is enabled whenever the consumer has reached it, also
between the two stores of `enqueue_msg` (finding 1).

### ChannelData

Adds `msgs` (the slots), and four history variables: `sent` (messages
linked), `last` (the message handed out last), `floor` (the message `head`
named when the running fetch began) and `stale` (a `fetch_head` has loaded
`head` inside a publish, `LoadsStaleHead`). History variables are written
and never read by an action: they constrain no behaviour. A message is the number of its publish.
`Write` is `Producer::msg()` followed by the call of a put, `Publish` is
`EnqLink` (the store that makes the slot reachable from `tail`), `Fetch` is
any consumer step; `Delivers` says that the step returns `Some(message)`.

`Unread` is the refinement mapping to `LossyQueue`: the messages newer than
`last` in the slots on the chain from `tail`. `ImplementsQueue` is
`Queue!Spec`, the abstract specification with `pending <- Unread`,
`held <- last`, `count <- sent`, `Capacity <- QueueLen`, and `Discards` and
`Skips` according to the calls in use.

`SlotsInUse` counts the slots the producer cannot have: its own, the unread
ones and the one the consumer holds. `RoomAfterPut` and
`RefusesOnlyWhenFull` say that the puts count the same way: after any put
the ring is not over its size, and `try_put` refuses exactly when no slot
would be left. `TryPutNeverDiscards` says that an unread message leaves the
channel only by delivery or in a `force_put`; together with
`ImplementsQueue` that is section 8 property 4 (with `try_put` alone every
message arrives once and in order), stated so that it can be checked while
`force_put` is in use too.

With `fetch_head` in use the code loses the order of delivery, the held
message and the refinement through the stale load of finding 1. The
properties `HeldIntactUntilStale`, `ImplementsQueueUntilStale`,
`DeliveryOrderUntilStale` and `LatestArrivesUntilStale` say that this load
is the only cause: each is the property without the suffix, required of
every behaviour of the code up to the first step in which `stale` becomes
true, and of nothing after it. They say nothing about a consumer that does
load a stale head; `DeliveryOrder` in run `stale_head` does.

### LossyQueue

`Put` appends, `Take` removes the oldest, `Discard` (producer uses
`force_put`) drops the oldest, `Skip` (consumer uses `fetch_head`) hands out a
later message and drops those before it. The queue has the channel's number
of slots as `Capacity`: one slot is the producer's, one the consumer's from
its first message on (`Kept`), the rest hold what is pending. `try_put` puts
only if a slot is left afterwards (`~Full`); `force_put` puts first and
discards afterwards, and only when the queue is over its capacity.

What the refinement taught the abstract specification: `fetch_head` does not
always hand out the newest message, because a message is in the queue from
`EnqLink` and in `head` only from `EnqHead`; one `overrun` drops two messages
when a `fetch_head` in progress has flagged `tail` without taking its
message; and with `fetch_head` in use the count of slots is off by one while
a call is in progress (it has let go of the slot it held and claimed the one
at `tail`), so the guards are one slot looser there. With `fetch_tail` alone
the count is exact and a `force_put` drops exactly one message.

### Layout

Operators only. `MemAlign` is the expression of `mem_align`, with the mask
from the community module `Bitwise` and `!(alignment - 1)` taken in
`UsizeBits` bits. `MaxCachelineSize(cls, lines)` is `max_cacheline_size`:
the value of the static `CLS` if it is set, else the largest of
`align_of::<f64>()` and the data cache lines of level 1 and 2, where a line
of 0 is a level for which `cache_line_size` returns `None`. A *build* is a
record `[version, cacheline_size, atomic_size]`: what a process compiled from
some release and run on some host computes with for `RTIC_VERSION`,
`max_cacheline_size()` and `size_of::<Index>()`.
`AsWord` is the cast `as u32` of `write_entry`, `WordBits` wide.
`IndexSpans` and `MsgSpans` are the places of the pointers `Channel::new`
derives, `Fits` the bounds check of `alloc`, `get_ptr` and `get_span_ptr`.

### RtIpc

`mem` is the shared memory object: whether its path exists, its size, the
header, the words of the table, and the channels `Channel::init` has run on
(by offset). `cre` and `att` are the two processes with their program
counters; `args` holds what they are called with; `opts` the `Option`s of the
two `RtIpc` values; `handles` the bag of typed handles handed out.

A creator or attacher is given as `[version, cache_lines, atomic_size]`: the
release it is compiled from and the host it runs on. `cre.cls` and `att.cls`
are the static `CLS` of the two processes: 0 until the process asks for the
cache line size for the first time (`calc_shm_size` in the creator, unless
it is called with no channel; `Header::from_chunk` in the attacher), the
value found from then on. `CreBuild` and `AttBuild` are the builds the two
compute with, through `MaxCachelineSize` and the static.

An error is the tuple of the variant and what it wraps, as in `error.rs`:
`<<"Mem", "Size">>` is `CreateError::Mem(MemError::Size)`, `<<"Header",
"Cookie">>` is `CreateError::Header(HeaderError::Cookie)`, `<<"Index">>` is
`ChannelError::Index`. The five `From` conversions are operators
(`CreateFromMem`, `CreateFromHeader`, `CreateFromErrno`, `ChannelFromMem`,
and `HeaderFromMem`, which turns any `MemError` into `HeaderError::Size`),
used where the code has a `?` that converts. `TakeResult` is what a take
returns: `Mem(Index)` for an index past the vector, `Index` for an `Option`
that is `None`, `Mem(Size)` for a type larger than the slot.

| Action | Code |
|---|---|
| `CalcSizes` | `new_*_shm` up to `calc_shm_size`, with `CreateError::Argument` |
| `ShmOpen`, `ShmInit` | `memfd_create` / `shm_open`; `ftruncate` and the seals |
| `NewRtIpc` | `SharedMemory::new`, then `RtIpc::new` up to `header.write` |
| `WriteHeader` | `Header::write`, one machine word of the header a step, in any order |
| `OsFails` | any system call of the creation fails |
| `WriteTableWord` | one `write_u32` of `ChannelTable::write` |
| `CreateChannel` | one turn of a loop of `construct(init = true)` |
| `FromFd`, `FromFdFails` | `SharedMemory::from_fd`: `fstat`, the refusal of size 0, `mmap` |
| `ReadHeader` | the read of `Header::from_chunk`, a word a step in any order; with the last word its checks and `from_shm` up to `chunk_table` |
| `ReadTableWord` | one `read_u32` of `ChannelTable::from_chunk`, with `MemError::Value` |
| `AttachChannels` | `construct(init = false)` |
| `Take`, `TakeRefused` | `take_producer`, `take_consumer` with `Producer::new`, `Consumer::new`; which of the two happens, and with what result, is `TakeResult` |
| `DropRtIpc`, `DropHandle` | the `RtIpc` or a typed handle goes out of scope; with the last of them `Drop for SharedMemory` (`DropShm`): `munmap`, and `shm_unlink` for the creator of a named segment |

Every store to and load from the region is a step, so an attach can run in
the middle of a creation. The attacher has a descriptor when creation has
returned (`RtIpc::get_fd`) or, for a named segment, from `shm_open` on: the
path is public from that moment, and opening it is all a peer needs to call
`from_fd`. `att.late` records that the attach began after creation returned.
`Channel::init` is one step here; `Channel` starts from its result.

`Header` is `repr(C)` and 20 bytes; `ptr::write` and `ptr::read` of it are
not atomic. The model copies it in the three 8-byte words it occupies
(`HeaderWords`: magic, version and cookie; the two counts; cache line and
atomic size), in whatever order, on both sides. A creation that fails after
`SharedMemory::new` drops the mapping and unlinks; one that fails before it
(`OsFails`) has nothing to drop.

### Rpc

The server thread (`run_server`, `Server::new`, `Server::run`,
`send_events`, `div`) and the client thread (`run_client`, `Client::new`,
`Client::run`) with a program counter each. The three channels are three
instances of `LossyQueue` with the capacities the example's `add_msgs` give;
the data-level runs of `ChannelData` are what entitles `Rpc` to use the
queue in place of the channel: `ImplementsQueue` for the steps,
`RoomAfterPut` and `RefusesOnlyWhenFull` for when a put discards or refuses.

| Action | Code |
|---|---|
| `RunServer` | `Server::new` and the send of the descriptor |
| `RunClient` | the receive of the descriptor and `Client::new` |
| `ClientPut`, `ClientPutTail` | `command.force_put()`: the put, then the discard if the queue is over its capacity |
| `ClientFetchResponse`, `ClientFetchEvent` | one `fetch_tail` of the two loops of `Client::run`; `None` ends the loop |
| `ServerFetch` | `command.fetch_tail()` and the `match`: result, data, `run` |
| `SendEvents`, `SendEventsTail` | one pass of the loop of `send_events`, with `force_put` or `try_put` |
| `ServerRespond`, `ServerRespondTail` | `response.force_put()`, then the loop condition |

A message is the number of its put; `rspLog` and `evtLog` record what each
response and event said. The response slot is recycled memory: `id` and
`result` are written for every command, `data` only for `Div`, so for the
others `data` is any value an earlier response had there (`StaleData`). The
pauses (`thread::sleep`) order nothing and are left out: the threads
interleave freely.

## 3. Runs

Passing runs (TLC explores all states and finds no error):

| Run | Configuration | Shows | States |
|---|---|---|---|
| `channel_returns` | N = 3, all four calls, any number of messages | `TypeOK`, `PutReturns`, `FetchTailReturns` | 47,404 |
| `data_fetch_tail` | N = 5, both puts, `fetch_tail` only, 12 messages | `DataTypeOK`, `IndexInBounds`, `RingIntact`, `HeldIntact`, `RoomAfterPut`, `SameMeansCaughtUp`, `ImplementsQueue`, `RefusesOnlyWhenFull`, `TryPutNeverDiscards`, `LatestArrives` | 206,514 |
| `data_all_calls` | N = 3, all four calls, 8 messages | `RoomAfterPut`, `FetchHeadIsRecent`, `FetchHeadReturnsAfterPuts`, `HeldIntactUntilStale`, `ImplementsQueueUntilStale`, `DeliveryOrderUntilStale`, `LatestArrivesUntilStale` | 419,970 |
| `rtipc_setup` | up to 1 consumer and 2 producers of two kinds, cache lines of 64 and 128 bytes, 4 creators that differ in release or host, 2 cookies, named or anonymous, creation, attach, takes and drops | `TypeOK`, `LayoutFits`, `ValidationOrder`, `AttachMirrorsCreator`, `OneProducerOneConsumer`, `PathGoesWithMapping` | 577,900 |
| `rpc_example` | the six commands, twenty events a `SendEvent`, an event channel of thirteen slots: the program's own numbers | `TypeOK`, `ResultCountsEvents`, `Terminates` | 313,707 |

Runs in which TLC finds the property violated by what the code does:

| Run | Property | Finding |
|---|---|---|
| `stale_head` | `DeliveryOrder` | 1 |
| `discard_reported` | `DiscardReported` | 2 |
| `fetch_head_wait_free` | `FetchHeadReturns` | 3 |
| `attach_race` | `AttachedChannelsInitialised` | 4 |
| `take_refused` | `NoneMeansHandedOut` | 5 |
| `path_leak` | `PathHasOwner` | 6 |
| `truncated_entry` | `AttachMirrorsCreator` | 7 |

Every run takes the code as it is: a configuration chooses the size of the
ring, the calls the two clients make and the number of messages, and nothing
else. A consumer that only calls `fetch_tail` never loads `head`, and for it
`data_fetch_tail` shows the channel to be the queue of `LossyQueue` without
any condition. With `fetch_head` in use that is no longer so (finding 1);
`data_all_calls` shows what still holds without condition (`RoomAfterPut`,
`FetchHeadIsRecent`, `FetchHeadReturnsAfterPuts`) and what holds up to the
first stale load (the properties named `...UntilStale`): a mistake elsewhere
in the protocol, in `move_tail`, `overrun`, the requeue or the exchange of
`fetch_head`, would break them before any stale load.

`PutReturns` and `FetchTailReturns` are section 8 property 7 (wait-freedom)
for `force_put`, `try_put` and `fetch_tail`: a call whose own thread keeps
being scheduled returns, whatever the other side does or does not do. Each
carries its fairness as its premise (`WF_vars(Producer) => ...`,
`WF_vars(Consumer) => ...`), so the run's specification assumes nothing of
either thread and the other side may stop, or move `tail` in every step. The
same statement for `fetch_head` is `FetchHeadReturns`, which does not hold
(finding 3). What does hold of `fetch_head` is `FetchHeadReturnsAfterPuts`,
checked in `data_all_calls`: the call returns once
the producer leaves `tail` alone, at whatever point of the call the last put
ends. A round of the loop is lost only to a put that has moved `tail`, and
the next round starts from the `tail` it finds; a loop that tried the
exchange again with the `tail` of the round before would never leave. The
same run shows that `force_put` and `try_put` keep their count of the slots
(`RoomAfterPut`) although `fetch_head` can move `tail` back (finding 1).

For every property of a passing run PROJECT.json names a fault: an operator
that is a definition of the model with one plausible slip in it (a dropped
check, `+` for `|`, an exchange that does not compare, one link instead of
two, a failed exchange tried again, a check in the wrong order, a path kept
at drop, a `try_put` where the code forces). A fault stands directly before
the definition it is a slip of. With the fault in the place of the
definition TLC finds the property violated under the same configuration, so
the property tells the code from the slip.

## 4. Findings

1. **`fetch_head` can go back** (`channel.rs:357`). `enqueue_msg` makes a
   slot reachable (line 187 or 189) before it stores `head` (194). A consumer
   that takes the new slot with `fetch_tail` and then calls `fetch_head`
   loads the old `head`; its `compare_exchange` succeeds, because the
   producer has not moved `tail`, and `tail` and `current` go back to a slot
   behind the one handed out. An older message is delivered again; the
   producer may be writing that slot; if the publish was the first,
   `INVALID_INDEX` ends up in `tail` for good. When the consumer uses
   `fetch_head`, `DeliveryOrder`, `HeldIntact`, `IndexInBounds`,
   `RingIntact`, `SameMeansCaughtUp`, `ImplementsQueue` and `LatestArrives`
   are all violated; with `fetch_tail` alone they hold (`data_fetch_tail`),
   and with `fetch_head` they hold up to the first stale load
   (`data_all_calls`).
2. **A discard is not always reported** (`channel.rs:267`). On a full ring
   whose `tail` is not flagged, `force_put` moves `tail` one link on and
   returns `false`.
3. **`fetch_head` is lock-free, not wait-free** (`channel.rs:349`). A
   producer that moves `tail` in every round keeps the loop going; when the
   producer stops, the call returns (`FetchHeadReturnsAfterPuts`).
4. **An attach can succeed on a region that is not complete**
   (`lib.rs:253`). The header is the first thing written, not the last. A
   peer that opens a named segment during creation passes every check of the
   header and gets channels whose `head` and `tail` are 0, which the creator
   re-initialises under it; if it reads an entry of the table between the two
   stores of `write_entry`, it lays out different channels. The copy of the
   header itself is not atomic either; in the words the model copies it by,
   a reader that gets some of them and zeros for the rest is refused by one
   of the checks or for a count of zero channels, so the header alone lets
   nobody in early, and `ValidationOrder` and `AttachMirrorsCreator` hold
   with it.
5. **A refused take loses the channel** (`lib.rs:298`). `take()` empties the
   `Option` before the size of `T` is checked; after `MemError::Size` every
   take of that index fails as already taken, and no handle exists.
6. **A failed `new_named` leaves the path behind** (`shm.rs:129`). The name
   exists from `shm_open`; `init` and the mapping can still fail, and the
   `SharedMemory` whose `drop` would unlink is not constructed yet, so the
   error return closes the descriptor and nothing removes the name: the next
   creation with that path fails on `O_EXCL`, and a peer can open a segment
   nobody will ever fill. On Linux `init` fails every time: `F_ADD_SEALS` is
   refused (`EPERM`) for a file of `shm_open`, which is not created with
   sealing allowed. Once `SharedMemory::new` has returned the path is in good
   hands: after a creation that succeeded it exists exactly as long as the
   `RtIpc` or one of its handles does (`PathGoesWithMapping`), and a
   creation that fails in `RtIpc::new` drops the mapping and unlinks.
7. **A parameter beyond 32 bits is stored truncated** (`table.rs:88`).
   `write_entry` casts `add_msgs` and `msg_size` with `as u32`; the creator
   sizes the region and lays out its channels from the `usize` values. A
   creation with a parameter of 2^32 or more succeeds, and the attacher
   reads back another parameter: its attach succeeds with slots of another
   size at other offsets, so the two sides write and read different bytes
   (or it fails with `MemError::Value` when the low word of `msg_size` is
   zero). Section 8 property 8 says the table is read back exactly; nothing
   refuses the parameter. With parameters that fit the word
   `AttachMirrorsCreator` holds (`rtipc_setup`).

What the model of the example shows, and the example does not claim
otherwise: all three channels are written with `force_put` (the events with
`try_put` where the command says so), so a command, a response or an event
is lost when the reader lags by more than the channel holds; the client
prints what it finds and does not miss what it does not find. What holds
under every timing is that the last command, `Stop`, reaches the server and
both threads end (`Terminates`, which a client that used `try_put` would
break), that the result of `SendEvent` is the number of events that went out
(`ResultCountsEvents`). The data of a response is written in the `Div` arm
only; the data of any other response is whatever the slot held before
(`StaleData`), and no property is stated of it: the program promises
nothing about it.

Also seen, and not made a run:

* Section 3 of `spec.md` names the header field `num_channels` as
  `[consumers, producers]` from the attacher's view, while `Header::new`
  stores the creator's consumers first and `from_shm` reads them as the
  attacher's producers.
* `Consumer::msg()` before the first fetch (`channel.rs:331`) returns slot
  0, the slot the producer fills first; the specification says `None`.
  `Consumer<T>::msg` of `lib.rs` is public and passes it on. The fetches
  read a message only after the channel reported one, and the models follow
  them.
* `write_entry` stores `add_msgs` and `msg_size` as `u32` (`table.rs:88`);
  the creator lays out its channels from the `usize` values. With a value
  beyond 32 bits the two sides would lay out different channels. `Layout`
  models the truncation; no run has such a parameter.

## 5. Bounds

* `IndexBits = 4` (flag 8, mask 7, invalid 15). The protocol uses an index
  only through `| FLAG`, `& MASK`, `& FLAG` and comparison with
  `INVALID_INDEX`; the width matters only in that `N` fits the mask, which
  the module assumes (`Channel::new` does not check it).
* `QueueLen` 3 and 5. With the minimum of 3 the ring is full after two unread
  messages, so `move_tail`, `overrun`, the requeue and both refusals of
  `try_put` happen within a few calls; 5 slots show that nothing depends on
  the minimum. Every action of `Channel` fires in the passing runs.
* `MaxMsgs` 8 on three slots (5 in `stale_head`, whose counterexample
  needs two messages), 12 on five: more than twice the ring, so every slot
  is reused and an overrun slot is requeued and overrun again. It bounds
  `sent`; the clients call for ever. `channel_returns` has no such bound:
  the index protocol alone has 47,404 states.
* `truncated_entry`: words of the table of 8 bits under a `usize` of 16,
  and a message size of 264, which is stored as 8: the cast of
  `write_entry` with the widths scaled down, `AsWord` being `% 2^WordBits`.
* `rtipc_setup`: sizes like those of the rpc example. The parameters are
  `(add_msgs 0, msg_size 12)` and `(13, 8)`; the hosts report no line for
  level 1 and 64 bytes for level 2, or 64 and 128 (cache lines of 64 and 128
  bytes, by the fall-through and by the maximum of `max_cacheline_size`);
  `atomic_size` is 4 and 8; one cookie is the example's `0x13579BDF`. With 13
  additional slots the 16 links of a channel fill a line of 64 bytes, and
  head and tail take the index block into the next line: a layout that
  forgets them is a line short. (With the example's 10 additional slots the
  rounding hides those two words, and `LayoutFits` could not tell.)
  `UsizeBits = WordBits = 16`, wide enough for every value of the run.
  Empty parameter lists are included (`CreateError::Argument`). The header
  has three words, so every partial copy of it occurs.
* `LayoutFits` is stated of the state in which the table has been laid out;
  table and size do not change afterwards.
* `rpc_example`: the six commands of `MCCommands` are the example's list
  (`Hello`, `SendEvent` not forced and forced, `Div`, `Div` by zero, `Stop`
  last) with its arguments: a `SendEvent` asks for 20 events on an event
  channel of 13 slots (`EventAddMsgs = 10`), so `try_put` is refused and
  `force_put` discards. Command and response channel have the example's 3
  slots. Nothing is scaled down.

## 6. Fairness

`FairDataSpec` assumes weak fairness of the producer's steps and of the
consumer's steps: both threads keep being scheduled, the clients keep calling
(`LatestArrives` is about a consumer that polls). Neither side ever waits for
the other, so every enabled step stays enabled until it is taken, and weak
fairness is all a scheduler has to give. `ConsumerFairSpec`, used for
`FetchHeadReturns`, is fair to the consumer and to the producer's `EnqHead`
only: the producer need not call again, and the counterexample is a producer
that does. `channel_returns` runs the specification without any fairness;
`PutReturns` assumes weak fairness of the producer's steps and nothing of
the consumer, `FetchTailReturns` the other way round, each as the premise of
the property itself. That is the fairness wait-freedom is about: the calling
thread runs, the peer may be descheduled for ever or run at any speed.
`FetchHeadReturnsAfterPuts` has the weak fairness of the consumer's steps as
its premise in the same way; that the producer stops is not an assumption of
fairness but the bound `MaxMsgs` of the run, after which no put begins.
`LatestArrivesUntilStale` is checked in the same run, whose specification
`DataSpec` is not fair, and has the weak fairness of both threads as its
premise.

`Rpc`'s `FairSpec` is weakly fair to each of the two threads, for the same
reason: the example's threads are two `std::thread`s that only sleep for a
bounded time and never wait for each other. The program ends, so
`rpc_example` does not check deadlock; `Terminates` says that it ends where
it should, with both threads done. `RtIpc` has no liveness property; creation
and attach end, its clients may drop everything, and the runs do not check
deadlock.

## 7. Not modelled

* `Display` for the errors and the `log` calls; what the example prints.
* Two threads of one process racing through the first call of
  `max_cacheline_size`: both find the same value and store it with a relaxed
  store, and a process of the model has one thread that sets up.
* Arithmetic beyond the width of `usize`: `Layout` computes in the naturals
  (the mask of `mem_align` apart), and the runs take parameters whose sizes
  fit. The code adds and multiplies the caller's `add_msgs` and `msg_size`
  unchecked, which panics in a debug build and wraps in a release build.
* `CreateError::Unknown` and `MemError::Alignment`, which the code never
  makes.
* A second attach to a region, by another peer or by one that was started
  again: the region records no owner, so the handles of the second start
  from `current = 0` and `head = INVALID_INDEX` on a ring in use. The
  specification leaves one owner per half to the caller and names restarts
  a non-goal; the model has one creator and one attacher.
* The content of messages beyond their identity; alignment of `T`.
* `Channel::init` store by store (one step of the creator).
* Weaker memory orderings: the code uses `SeqCst` throughout.
* The lengths of the example's pauses: `Rpc` allows every interleaving, of
  which the timed ones are some.
* The system calls below `SharedMemory` beyond success and failure.

## 8. Plan

Done: `Channel` over the accessors of the code, with wait-freedom of the
puts and of `fetch_tail` and the lock-freedom of `fetch_head`,
`ChannelData`, `LossyQueue` with the refinement and the count of slots,
`Layout` with `max_cacheline_size`, `RtIpc` with the header copied word by
word, the drops, the errors as the code nests them and the static of the
cache line size, `Rpc` composed of three queues at the size of the program,
and the twelve runs above.

Next, in this order:

1. `Channel` started from the memory an early attacher finds (`head = tail =
   0`, all links 0) and with `Channel::init` running store by store beside a
   peer: what finding 4 does to the protocol.
2. `Layout` in arithmetic of `UsizeBits` bits with parameters whose sizes
   wrap (`lib.rs:45`).
3. A repair of finding 1 (for instance `head` stored before the slot is
   linked, or `tail` compared again after the load of `head`), once the
   code has one: the properties named `...UntilStale` then have to hold
   without their condition.
4. `Rpc` over `ChannelData` itself for one of its channels, in place of the
   queue.
5. `RtIpc` with a second attacher, and `Channel` with a producer that
   starts again on a ring in use (`channel.rs:160`).

## 9. Running

    tlc -workers 2 -config Channel_returns.cfg MCChannel
    tlc -workers 2 -config ChannelData_fetch_tail.cfg MCChannelData
    tlc -workers 2 -config RtIpc_setup.cfg MCRtIpc
    tlc -workers 2 -config Rpc_example.cfg MCRpc

PROJECT.json lists every run with its module and configuration, the map from
definitions to source lines, the faults, the findings and the hazards.
