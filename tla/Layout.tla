------------------------------- MODULE Layout -------------------------------
(***************************************************************************)
(* Where things lie in the shared region: the arithmetic of cache.rs,      *)
(* ChannelParam (lib.rs), ChannelTable (table.rs), the size and offset     *)
(* helpers of RtIpc (lib.rs), the bounds checks of shm.rs and the pointers *)
(* Channel::new (channel.rs) derives from a chunk.                         *)
(*                                                                         *)
(*     [0, sizeof(Header))           header                                *)
(*     [sizeof(Header), + 8 * n)     table: two words for each channel     *)
(*     [aligned, ...)                the channels, one after the other:    *)
(*                                   head, tail, queue[N], padding,        *)
(*                                   N slots of an aligned message         *)
(*                                                                         *)
(* A build is what a process compiled and run on some host computes with:  *)
(* [version, cacheline_size, atomic_size].  A ChannelParam is              *)
(* [add_msgs, msg_size], a Span [offset, size], a table entry              *)
(* [param, span].  Sizes are bytes.  A definition marked Fault is what a   *)
(* plausible slip in the code would compute; the model does not use it.    *)
(***************************************************************************)
EXTENDS Naturals, Sequences, SequencesExt, Bitwise

CONSTANTS
    UsizeBits,  \* width of usize
    WordBits    \* width of a word of the table (u32)

ASSUME /\ UsizeBits \in Nat \ {0}
       /\ WordBits \in 1 .. UsizeBits

MIN_MSGS == 3
SizeOfHeader == 2 + 2 + 4 + 2 * 4 + 2 + 2
SizeOfWord == 4

-----------------------------------------------------------------------------
(* cache.rs and ChannelParam.                                              *)

\* align_of::<f64>()
AlignOfF64 == 8

\* max_cacheline_size: what the static CLS of the process holds, or, when
\* that is still 0, the largest of the alignment of f64 and the data cache
\* lines of level 1 and 2 of the host; a line of 0 is a level that reports
\* none.  The caller stores the result in CLS.
MaxCachelineSize(cls, lines) ==
    IF cls # 0 THEN cls
    ELSE FoldLeft(LAMBDA max, s : IF s > max THEN s ELSE max,
                  AlignOfF64, lines)

\* size rounded up to a multiple of alignment, a power of two;
\* !(alignment - 1) is the usize with the low bits clear.
MemAlign(size, alignment) ==
    (size + alignment - 1) & (2 ^ UsizeBits - alignment)

CachelineAligned(b, size) == MemAlign(size, b.cacheline_size)

DataSize(b, p) == (MIN_MSGS + p.add_msgs) * CachelineAligned(b, p.msg_size)

\* Fault: no room for head and tail.
QueueSizeOfLinks(b, p) ==
    CachelineAligned(b, (MIN_MSGS + p.add_msgs) * b.atomic_size)

QueueSize(b, p) ==
    CachelineAligned(b, (2 + MIN_MSGS + p.add_msgs) * b.atomic_size)

ParamSize(b, p) == QueueSize(b, p) + DataSize(b, p)

\* The bytes the channels of params take together.
SizeOfAll(b, params) ==
    FoldLeft(LAMBDA size, p : size + ParamSize(b, p), 0, params)

-----------------------------------------------------------------------------
(* shm.rs: a span is handed out only if it lies in the region or chunk.    *)

Span(offset, size) == [offset |-> offset, size |-> size]

Fits(span, size) == span.offset + span.size <= size

-----------------------------------------------------------------------------
(* table.rs and the offsets of lib.rs.                                     *)

CalcOffset(idx) == idx * (2 * SizeOfWord)

CalcSize(num_channels) == CalcOffset(num_channels)

CalcOffsetChannels(b, num_channels) ==
    CachelineAligned(b, SizeOfHeader + CalcSize(num_channels))

\* 0 stands for the error CreateError::Argument.
CalcShmSize(b, consumers, producers) ==
    IF Len(consumers) + Len(producers) = 0
    THEN 0
    ELSE CalcOffsetChannels(b, Len(consumers) + Len(producers))
         + SizeOfAll(b, consumers) + SizeOfAll(b, producers)

SpanHeader == Span(0, SizeOfHeader)

SpanTable(num_channels) == Span(SizeOfHeader, CalcSize(num_channels))

\* One loop of ChannelTable::new or ChannelTable::from_chunk: the entries
\* of params, one behind the other from offset on.
Entries(b, params, offset) ==
    [i \in DOMAIN params |->
        [param |-> params[i],
         span |-> Span(offset + SizeOfAll(b, SubSeq(params, 1, i - 1)),
                       ParamSize(b, params[i]))]]

\* ChannelTable::new lays out the consumers, then the producers.
TableNew(b, consumers, producers, offset) ==
    [consumers |-> Entries(b, consumers, offset),
     producers |-> Entries(b, producers, offset + SizeOfAll(b, consumers))]

\* A usize as ChannelTable::write_entry stores it (`as u32`).
AsWord(value) == value % 2 ^ WordBits

\* ChannelTable::write: the words of the table, the consumers' entries
\* first, add_msgs before msg_size.
TableWords(table) ==
    FlattenSeq([i \in 1 .. Len(table.consumers) + Len(table.producers) |->
        LET all == table.consumers \o table.producers
        IN  <<AsWord(all[i].param.add_msgs), AsWord(all[i].param.msg_size)>>])

\* ChannelTable::read_entry on the words read from the chunk.
ReadEntry(words, idx) ==
    [add_msgs |-> words[2 * idx + 1], msg_size |-> words[2 * idx + 2]]

\* Fault: the entries are read in the order they were written in, with no
\* turn of the roles.
TableFromChunkAsWritten(b, words, num_consumers, num_producers, offset) ==
    LET consumers == [i \in 1 .. num_consumers |-> ReadEntry(words, i - 1)]
        producers == [i \in 1 .. num_producers |->
                         ReadEntry(words, num_consumers + i - 1)]
    IN  [consumers |-> Entries(b, consumers, offset),
         producers |-> Entries(b, producers,
                               offset + SizeOfAll(b, consumers))]

\* ChannelTable::from_chunk: the first entries are this side's producers,
\* and they come first in the region.
TableFromChunk(b, words, num_consumers, num_producers, offset) ==
    LET producers == [i \in 1 .. num_producers |-> ReadEntry(words, i - 1)]
        consumers == [i \in 1 .. num_consumers |->
                         ReadEntry(words, num_producers + i - 1)]
    IN  [producers |-> Entries(b, producers, offset),
         consumers |-> Entries(b, consumers,
                               offset + SizeOfAll(b, producers))]

-----------------------------------------------------------------------------
(* Channel::new: the spans behind the pointers of a channel in its chunk.  *)

QueueLenOf(p) == p.add_msgs + MIN_MSGS

\* head, tail and the links, one index each from the start of the chunk.
IndexSpans(b, p) ==
    [i \in 1 .. 2 + QueueLenOf(p) |->
        Span((i - 1) * b.atomic_size, b.atomic_size)]

\* The slots, behind the aligned index block.
MsgSpans(b, p) ==
    LET msg_size == CachelineAligned(b, p.msg_size)
        offset_msg == CachelineAligned(b, (2 + QueueLenOf(p)) * b.atomic_size)
    IN  [i \in 1 .. QueueLenOf(p) |->
            Span(offset_msg + (i - 1) * msg_size, msg_size)]

\* Channel::new succeeds on a chunk of this size: no get_ptr and no
\* get_span_ptr is refused.
ChannelNewOk(b, size, p) ==
    \A span \in Range(IndexSpans(b, p)) \cup Range(MsgSpans(b, p)) :
        Fits(span, size)

\* One turn of a loop of RtIpc::construct: SharedMemory::alloc, then
\* Channel::new on the chunk.
ConstructOk(b, shm_size, entry) ==
    /\ Fits(entry.span, shm_size)
    /\ ChannelNewOk(b, entry.span.size, entry.param)

=============================================================================
