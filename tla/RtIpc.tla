-------------------------------- MODULE RtIpc --------------------------------
(***************************************************************************)
(* The facade of lib.rs with the region it works on: a creator process     *)
(* makes the shared memory and fills it (RtIpc::new_anon_shm,              *)
(* RtIpc::new_named_shm), an attacher maps it and rebuilds the channels    *)
(* from what it reads there (RtIpc::from_fd), and both hand out their      *)
(* producers and consumers (take_producer, take_consumer).                 *)
(*                                                                         *)
(* Each store to and each load from the region is a step, so the attacher  *)
(* may read while the creator writes; the work on private data between two *)
(* of them belongs to the step before.  Of a channel's memory the model    *)
(* keeps whether Channel::init has run on it: module Channel says what     *)
(* happens there afterwards.  The creator gives the descriptor to its peer *)
(* when creation has returned; a named segment can be opened by its path   *)
(* from shm_open on.  A process maps the region until it has dropped its   *)
(* RtIpc and every handle it took from it; the path of a named segment     *)
(* goes with the creator's mapping.                                        *)
(***************************************************************************)
EXTENDS Layout, FiniteSets, Bags

CONSTANTS
    Params,         \* the ChannelParams a creator may be called with
    MaxConsumers,   \* at most this many of them for its consumers
    MaxProducers,   \* and for its producers
    Cookies,        \* the cookies the two sides may use
    Builds,         \* the creator as built and run on some host:
                    \* [version, cache_lines, atomic_size]
    ThisBuild,      \* the attacher, likewise
    TypeSizes       \* size_of::<T>() of the types handles are taken for

RTIC_MAGIC == 7948      \* 0x1f0c
RTIC_VERSION == 1

ASSUME /\ \A p \in Params : p.add_msgs \in Nat /\ p.msg_size \in Nat \ {0}
       /\ \A b \in Builds \cup {ThisBuild} :
             /\ \E k \in 0 .. UsizeBits - 1 :
                   MaxCachelineSize(0, b.cache_lines) = 2 ^ k
             /\ b.atomic_size \in Nat \ {0}
       /\ ThisBuild.version = RTIC_VERSION
       /\ TypeSizes \subseteq Nat

Sides == {"creator", "attacher"}
Roles == {"consumers", "producers"}
MaxEntries == MaxConsumers + MaxProducers

VARIABLES
    args,       \* what the two processes are called with, and their builds
    mem,        \* the shared memory object and what is in it
    cre,        \* the creator: where it is in RtIpc::new_*_shm
    att,        \* the attacher: where it is in RtIpc::from_fd
    opts,       \* opts[s][r]: the indices of RtIpc.consumers or .producers
                \* of side s that are still Some
    handles     \* the bag of typed handles handed out

vars == <<args, mem, cre, att, opts, handles>>

\* What a process on this host computes with when its static CLS holds
\* cls: every cacheline_aligned and both constructors of Header ask
\* max_cacheline_size.
BuildOf(host, cls) ==
    [version |-> host.version, atomic_size |-> host.atomic_size,
     cacheline_size |-> MaxCachelineSize(cls, host.cache_lines)]

CreBuild == BuildOf(args.build, cre.cls)
AttBuild == BuildOf(ThisBuild, att.cls)

\* Header::new.
HeaderNew(b, num_consumers, num_producers, cookie) ==
    [magic |-> RTIC_MAGIC, version |-> b.version, cookie |-> cookie,
     num_channels |-> <<num_consumers, num_producers>>,
     cacheline_size |-> b.cacheline_size, atomic_size |-> b.atomic_size]

\* The bytes of a header in memory fresh from ftruncate.
ZeroHeader ==
    [magic |-> 0, version |-> 0, cookie |-> 0, num_channels |-> <<0, 0>>,
     cacheline_size |-> 0, atomic_size |-> 0]

\* The header as the machine words it is copied in: struct Header is
\* repr(C), and neither ptr::write nor ptr::read of it is one access.
HeaderWords ==
    <<{"magic", "version", "cookie"}, {"num_channels"},
      {"cacheline_size", "atomic_size"}>>

\* Header `old` with word k taken from `new`.
WithHeaderWord(old, new, k) ==
    [f \in DOMAIN old |-> IF f \in HeaderWords[k] THEN new[f] ELSE old[f]]

NoTable == [consumers |-> <<>>, producers |-> <<>>]

-----------------------------------------------------------------------------
(* error.rs: an error is the tuple of the variant and what it wraps.       *)

MemError == {"Size", "Alignment", "Value", "Index"}

HeaderError ==
    {"Size", "Magic", "Version", "Cookie", "CachelineSize", "AtomicSize"}

\* The errno of a system call that fails is "Os" here; EBADFD is the one
\* SharedMemory::new makes itself.  Unknown is never made.
Errno == {"Os", "EBADFD"}

CreateError ==
    {<<"Argument">>} \cup ({"Mem"} \X MemError)
        \cup ({"Header"} \X HeaderError) \cup ({"Errno"} \X Errno)

ChannelError == {<<"Index">>} \cup ({"Mem"} \X MemError)

\* No error: the Ok of a Result.
Ok == <<>>

\* The conversions `?` applies.  A MemError met while the header is read
\* loses its kind.
ChannelFromMem(e) == <<"Mem", e>>
HeaderFromMem(e) == "Size"
CreateFromMem(e) == <<"Mem", e>>
CreateFromErrno(errno) == <<"Errno", errno>>
CreateFromHeader(field) == <<"Header", field>>

-----------------------------------------------------------------------------

Init ==
    /\ args \in [named : BOOLEAN,
                 consumers : BoundedSeq(Params, MaxConsumers),
                 producers : BoundedSeq(Params, MaxProducers),
                 cookie : Cookies,
                 build : Builds,
                 peer_cookie : Cookies]
    /\ mem = [visible |-> FALSE, size |-> 0, header |-> ZeroHeader,
              words |-> [k \in 1 .. 2 * MaxEntries |-> 0], inited |-> {}]
    /\ cre = [pc |-> "start", cls |-> 0, size |-> 0, table |-> NoTable,
              stored |-> {}, next |-> 0, err |-> Ok]
    /\ att = [pc |-> "start", cls |-> 0, late |-> FALSE, size |-> 0,
              loaded |-> {}, header |-> ZeroHeader, words |-> <<>>,
              table |-> NoTable, err |-> Ok]
    /\ opts = [s \in Sides |-> [r \in Roles |-> {}]]
    /\ handles = EmptyBag

-----------------------------------------------------------------------------
(* The creator.                                                            *)

Fail(proc, err) == [proc EXCEPT !.pc = "failed", !.err = err]

\* A drop that leaves the path of a named segment where it is.
DropShmKeepsPath(s) == mem

\* Drop for SharedMemory in process s: munmap, and shm_unlink if the
\* mapping has a path, which the one made by new_named has.
DropShm(s) ==
    IF s = "creator" THEN [mem EXCEPT !.visible = FALSE] ELSE mem

\* A vector of Some of this length, by its indices.
AllSome(entries) == 0 .. Len(entries) - 1

\* RtIpc::new_anon_shm and RtIpc::new_named_shm begin: calc_shm_size,
\* which is the first to ask for the cache line size unless it is called
\* with no channel.
CalcSizes ==
    /\ cre.pc = "start"
    /\ LET size == CalcShmSize(CreBuild, args.consumers, args.producers)
       IN  cre' = IF size = 0
                  THEN Fail(cre, <<"Argument">>)
                  ELSE [cre EXCEPT !.pc = "open", !.size = size,
                                   !.cls = CreBuild.cacheline_size]
    /\ UNCHANGED <<args, mem, att, opts, handles>>

\* memfd_create, or shm_open, after which the path exists.
ShmOpen ==
    /\ cre.pc = "open"
    /\ mem' = [mem EXCEPT !.visible = args.named]
    /\ cre' = [cre EXCEPT !.pc = "init"]
    /\ UNCHANGED <<args, att, opts, handles>>

\* SharedMemory::init: ftruncate gives the object its size, zero-filled,
\* and the seals fix it.
ShmInit ==
    /\ cre.pc = "init"
    /\ mem' = [mem EXCEPT !.size = cre.size]
    /\ cre' = [cre EXCEPT !.pc = "map"]
    /\ UNCHANGED <<args, att, opts, handles>>

\* SharedMemory::new, then RtIpc::new up to header.write: the table is laid
\* out, the chunks of header and table are allocated.
NewRtIpc ==
    /\ cre.pc = "map"
    /\ LET n == Len(args.consumers) + Len(args.producers)
           table == TableNew(CreBuild, args.consumers, args.producers,
                             CalcOffsetChannels(CreBuild, n))
       IN  IF Fits(SpanHeader, mem.size) /\ Fits(SpanTable(n), mem.size)
           THEN /\ cre' = [cre EXCEPT !.pc = "header", !.table = table]
                /\ UNCHANGED mem
           ELSE /\ cre' = Fail(cre, CreateFromMem("Size"))
                /\ mem' = DropShm("creator")
    /\ UNCHANGED <<args, att, opts, handles>>

\* Header::write: the header is copied into the region, a word a step in
\* the order the build has chosen.
WriteHeader ==
    /\ cre.pc = "header"
    /\ \E k \in DOMAIN HeaderWords \ cre.stored :
          /\ mem' = [mem EXCEPT !.header =
                        WithHeaderWord(@, HeaderNew(CreBuild,
                                                    Len(args.consumers),
                                                    Len(args.producers),
                                                    args.cookie), k)]
          /\ cre' = IF cre.stored \cup {k} = DOMAIN HeaderWords
                    THEN [cre EXCEPT !.pc = "table", !.stored = {}]
                    ELSE [cre EXCEPT !.stored = @ \cup {k}]
    /\ UNCHANGED <<args, att, opts, handles>>

\* A system call of the creation fails (memfd_create or shm_open, ftruncate
\* or fcntl in SharedMemory::init, fstat or mmap in SharedMemory::new): the
\* error is passed on by `?`.  Nothing is undone: no SharedMemory exists yet
\* whose drop would unlink the path.
OsFails ==
    /\ cre.pc \in {"open", "init", "map"}
    /\ cre' = Fail(cre, CreateFromErrno("Os"))
    /\ UNCHANGED <<args, mem, att, opts, handles>>

\* ChannelTable::write, one write_u32 a step.
WriteTableWord ==
    /\ cre.pc = "table"
    /\ LET words == TableWords(cre.table)
           k == cre.next + 1
       IN  /\ mem' = [mem EXCEPT !.words[k] = words[k]]
           /\ cre' = IF k = Len(words)
                      THEN [cre EXCEPT !.pc = "construct", !.next = 0]
                      ELSE [cre EXCEPT !.next = k]
    /\ UNCHANGED <<args, att, opts, handles>>

\* One turn of a loop of RtIpc::construct(init = true), consumers first:
\* alloc, Channel::new and Channel::init; after the last one RtIpc::new
\* returns.
CreateChannel ==
    /\ cre.pc = "construct"
    /\ LET all == cre.table.consumers \o cre.table.producers
           k == cre.next + 1
       IN  IF ConstructOk(CreBuild, mem.size, all[k])
           THEN /\ mem' = [mem EXCEPT
                              !.inited = @ \cup {all[k].span.offset}]
                /\ cre' = IF k = Len(all)
                           THEN [cre EXCEPT !.pc = "ready"]
                           ELSE [cre EXCEPT !.next = k]
                /\ opts' = IF k = Len(all)
                            THEN [opts EXCEPT !["creator"] =
                                    [r \in Roles |-> AllSome(cre.table[r])]]
                            ELSE opts
           ELSE /\ cre' = Fail(cre, CreateFromMem("Size"))
                /\ mem' = DropShm("creator")
                /\ UNCHANGED opts
    /\ UNCHANGED <<args, att, handles>>

Creator ==
    \/ CalcSizes \/ ShmOpen \/ ShmInit \/ NewRtIpc \/ WriteHeader \/ OsFails
    \/ WriteTableWord \/ CreateChannel

-----------------------------------------------------------------------------
(* The attacher.                                                           *)

\* Fault: the cookie is looked at first.
FromChunkCookieFirst(header, cookie, b) ==
    IF header.cookie # cookie THEN "Cookie"
    ELSE IF header.magic # RTIC_MAGIC THEN "Magic"
    ELSE IF header.version # RTIC_VERSION THEN "Version"
    ELSE IF header.cacheline_size # b.cacheline_size THEN "CachelineSize"
    ELSE IF header.atomic_size # b.atomic_size THEN "AtomicSize"
    ELSE "None"

\* Header::from_chunk on the chunk of chunk_header: get_ptr, then the
\* first check that fails names the error; "None" is Ok(header).
FromChunk(header, cookie, b) ==
    IF ~Fits(SpanHeader, SpanHeader.size) THEN HeaderFromMem("Size")
    ELSE IF header.magic # RTIC_MAGIC THEN "Magic"
    ELSE IF header.version # RTIC_VERSION THEN "Version"
    ELSE IF header.cookie # cookie THEN "Cookie"
    ELSE IF header.cacheline_size # b.cacheline_size THEN "CachelineSize"
    ELSE IF header.atomic_size # b.atomic_size THEN "AtomicSize"
    ELSE "None"

\* The peer has a descriptor of the region: it got it from the creator, or
\* it opened the path of a named segment.
Created == cre.pc \in {"ready", "dropped"}

HasFd == Created \/ mem.visible

\* RtIpc::from_fd begins: SharedMemory::from_fd maps what fstat reports,
\* and refuses an object without size.
FromFd ==
    /\ att.pc = "start"
    /\ HasFd
    /\ att' = IF mem.size = 0
              THEN Fail(att, CreateFromErrno("EBADFD"))
              ELSE [att EXCEPT !.pc = "header", !.size = mem.size,
                               !.late = Created]
    /\ UNCHANGED <<args, mem, cre, opts, handles>>

\* fstat or mmap fails.
FromFdFails ==
    /\ att.pc = "start"
    /\ HasFd
    /\ att' = Fail(att, CreateFromErrno("Os"))
    /\ UNCHANGED <<args, mem, cre, opts, handles>>

\* from_shm up to chunk_table: the header is copied out of the region, a
\* word a step, and then checked; the counts are taken from it with the
\* roles reversed and the table's chunk is allocated.
ReadHeader ==
    /\ att.pc = "header"
    /\ \E k \in DOMAIN HeaderWords \ att.loaded :
          LET header == WithHeaderWord(att.header, mem.header, k)
              asked == [att EXCEPT !.header = header,
                                   !.cls = AttBuild.cacheline_size]
              read == [asked EXCEPT !.loaded = {}]
              err == FromChunk(header, args.peer_cookie, AttBuild)
              n == header.num_channels[1] + header.num_channels[2]
          IN  att' =
                IF ~Fits(SpanHeader, att.size)
                THEN Fail(att, CreateFromMem("Size"))
                ELSE IF att.loaded \cup {k} # DOMAIN HeaderWords
                THEN [asked EXCEPT !.loaded = @ \cup {k}]
                ELSE IF err # "None" THEN Fail(read, CreateFromHeader(err))
                ELSE IF n = 0 THEN Fail(read, <<"Argument">>)
                ELSE IF ~Fits(SpanTable(n), att.size)
                THEN Fail(read, CreateFromMem("Size"))
                ELSE [read EXCEPT !.pc = "table"]
    /\ UNCHANGED <<args, mem, cre, opts, handles>>

\* The attacher with these words read: behind the last entry
\* ChannelTable::from_chunk has the spans.
WithWords(words) ==
    LET num_producers == att.header.num_channels[1]
        num_consumers == att.header.num_channels[2]
    IN  IF Len(words) < 2 * (num_producers + num_consumers)
        THEN [att EXCEPT !.words = words]
        ELSE [att EXCEPT
                !.pc = "construct", !.words = words,
                !.table = TableFromChunk(
                    AttBuild, words, num_consumers, num_producers,
                    CalcOffsetChannels(AttBuild,
                                       num_producers + num_consumers))]

\* Fault: a msg_size of 0 is taken as it is.
ReadTableWordUnchecked ==
    /\ att.pc = "table"
    /\ att' = WithWords(Append(att.words, mem.words[Len(att.words) + 1]))
    /\ UNCHANGED <<args, mem, cre, opts, handles>>

\* ChannelTable::from_chunk, one read_u32 a step: add_msgs, then msg_size,
\* which must not be 0.
ReadTableWord ==
    /\ att.pc = "table"
    /\ LET words == Append(att.words, mem.words[Len(att.words) + 1])
       IN  att' = IF Len(words) % 2 = 0 /\ Last(words) = 0
                  THEN Fail(att, CreateFromMem("Value"))
                  ELSE WithWords(words)
    /\ UNCHANGED <<args, mem, cre, opts, handles>>

\* RtIpc::construct(init = false): alloc and Channel::new for every entry;
\* the memory of the channels is taken as it is.
AttachChannels ==
    /\ att.pc = "construct"
    /\ LET all == att.table.consumers \o att.table.producers
       IN  IF \A k \in DOMAIN all : ConstructOk(AttBuild, att.size, all[k])
           THEN /\ att' = [att EXCEPT !.pc = "ready"]
                /\ opts' = [opts EXCEPT !["attacher"] =
                              [r \in Roles |-> AllSome(att.table[r])]]
           ELSE /\ att' = Fail(att, CreateFromMem("Size"))
                /\ UNCHANGED opts
    /\ UNCHANGED <<args, mem, cre, handles>>

Attacher ==
    FromFd \/ FromFdFails \/ ReadHeader \/ ReadTableWord \/ AttachChannels

-----------------------------------------------------------------------------
(* take_consumer and take_producer.                                        *)

TableOf(s) == IF s = "creator" THEN cre.table ELSE att.table

IsReady(s) == IF s = "creator" THEN cre.pc = "ready" ELSE att.pc = "ready"

Handle(s, r, index) ==
    [side |-> s, role |-> r, index |-> index,
     span |-> TableOf(s)[r][index + 1].span]

\* Fault: the Option stays Some.
TakeKeepsOption(s, r, index, size) ==
    /\ IsReady(s)
    /\ index \in opts[s][r]
    /\ size <= TableOf(s)[r][index + 1].param.msg_size
    /\ handles' = handles (+) SetToBag({Handle(s, r, index)})
    /\ UNCHANGED <<args, mem, cre, att, opts>>

\* What take_consumer::<T> or take_producer::<T> returns for a T of this
\* size: the index is past the vector, or its Option is None, or
\* Producer::<T>::new or Consumer::<T>::new finds T larger than msg_size.
TakeResult(s, r, index, size) ==
    IF index >= Len(TableOf(s)[r]) THEN ChannelFromMem("Index")
    ELSE IF index \notin opts[s][r] THEN <<"Index">>
    ELSE IF size > TableOf(s)[r][index + 1].param.msg_size
    THEN ChannelFromMem("Size")
    ELSE Ok

\* The Option is taken out of the vector, then the size of T is checked.
Take(s, r, index, size) ==
    /\ IsReady(s)
    /\ index \in opts[s][r]
    /\ opts' = [opts EXCEPT ![s][r] = @ \ {index}]
    /\ handles' = IF TakeResult(s, r, index, size) = Ok
                  THEN handles (+) SetToBag({Handle(s, r, index)})
                  ELSE handles
    /\ UNCHANGED <<args, mem, cre, att>>

\* The two errors of the index: nothing changes.
TakeRefused(s, r, index) ==
    /\ IsReady(s)
    /\ \E size \in TypeSizes :
          TakeResult(s, r, index, size) \in {ChannelFromMem("Index"),
                                            <<"Index">>}
    /\ UNCHANGED vars

\* The handles process s has taken and not dropped: each holds the
\* channel's Chunk, and the Chunk the SharedMemory.
HandlesOf(s) == {h \in BagToSet(handles) : h.side = s}

\* The RtIpc of process s is dropped, and with it the channels nobody took.
\* The SharedMemory goes with it if no handle is left.
DropRtIpc(s) ==
    /\ IsReady(s)
    /\ IF s = "creator"
       THEN cre' = [cre EXCEPT !.pc = "dropped"] /\ UNCHANGED att
       ELSE att' = [att EXCEPT !.pc = "dropped"] /\ UNCHANGED cre
    /\ opts' = [opts EXCEPT ![s] = [r \in Roles |-> {}]]
    /\ mem' = IF HandlesOf(s) = {} THEN DropShm(s) ELSE mem
    /\ UNCHANGED <<args, handles>>

\* A Producer<T> or Consumer<T> is dropped: the last one of a process whose
\* RtIpc is gone takes the SharedMemory with it.
DropHandle(h) ==
    /\ h \in BagToSet(handles)
    /\ handles' = handles (-) SetToBag({h})
    /\ mem' = IF ~IsReady(h.side) /\ HandlesOf(h.side) = {h}
              THEN DropShm(h.side) ELSE mem
    /\ UNCHANGED <<args, cre, att, opts>>

Client ==
    \/ \E s \in Sides, r \in Roles, index \in 0 .. MaxEntries :
          \/ \E size \in TypeSizes : Take(s, r, index, size)
          \/ TakeRefused(s, r, index)
    \/ \E s \in Sides : DropRtIpc(s)
    \/ \E h \in BagToSet(handles) : DropHandle(h)

Next == Creator \/ Attacher \/ Client

Spec == Init /\ [][Next]_vars

-----------------------------------------------------------------------------
(* Properties.                                                             *)

Header ==
    [magic : {0, RTIC_MAGIC}, version : Nat, cookie : Cookies \cup {0},
     num_channels : Nat \X Nat, cacheline_size : Nat, atomic_size : Nat]

ChannelParam == [add_msgs : Nat, msg_size : Nat \ {0}]

ChannelEntry ==
    [param : ChannelParam, span : [offset : Nat, size : Nat \ {0}]]

ChannelTable ==
    [consumers : Seq(ChannelEntry), producers : Seq(ChannelEntry)]

TypeOK ==
    /\ args \in [named : BOOLEAN, consumers : Seq(Params),
                 producers : Seq(Params), cookie : Cookies, build : Builds,
                 peer_cookie : Cookies]
    /\ mem \in [visible : BOOLEAN, size : Nat, header : Header,
                words : [1 .. 2 * MaxEntries -> Nat], inited : SUBSET Nat]
    /\ cre \in [pc : {"start", "open", "init", "map", "header", "table",
                      "construct", "ready", "dropped", "failed"},
                cls : Nat, size : Nat, table : ChannelTable,
                stored : SUBSET DOMAIN HeaderWords, next : Nat,
                err : CreateError \cup {Ok}]
    /\ att \in [pc : {"start", "header", "table", "construct", "ready",
                      "dropped", "failed"},
                cls : Nat, late : BOOLEAN, size : Nat,
                loaded : SUBSET DOMAIN HeaderWords, header : Header,
                words : Seq(Nat), table : ChannelTable,
                err : CreateError \cup {Ok}]
    /\ opts \in [Sides -> [Roles -> SUBSET (0 .. MaxEntries - 1)]]
    /\ IsABag(handles)
    /\ \A h \in BagToSet(handles) :
          h.side \in Sides /\ h.role \in Roles /\ h.index \in Nat

Disjoint(a, b) ==
    a.offset + a.size <= b.offset \/ b.offset + b.size <= a.offset

PairwiseDisjoint(spans) ==
    \A i, j \in DOMAIN spans : i # j => Disjoint(spans[i], spans[j])

\* The table has just been laid out; neither it nor the size of the region
\* changes afterwards.
LaidOut == cre.pc = "table" /\ cre.next = 0

\* Creation lays out a region in which everything has its own place
\* (calc_shm_size, calc_offset_channels, ChannelTable::new, ChannelParam
\* and Channel::new agree): the channels start on a cache line behind the
\* table, lie in the region and apart from each other; in a channel head,
\* tail, the links and the slots lie in its span and apart from each other,
\* and a slot holds a message.  So RtIpc::construct never refuses what
\* RtIpc::new laid out.
LayoutFits ==
    /\ cre.err # CreateFromMem("Size")
    /\ LaidOut =>
          LET b == CreBuild
              all == cre.table.consumers \o cre.table.producers
          IN  /\ PairwiseDisjoint([k \in DOMAIN all |-> all[k].span])
              /\ \A k \in DOMAIN all :
                    LET span == all[k].span
                        slots == MsgSpans(b, all[k].param)
                        inner == IndexSpans(b, all[k].param) \o slots
                    IN  /\ span.offset % b.cacheline_size = 0
                        /\ span.offset >= SizeOfHeader + CalcSize(Len(all))
                        /\ Fits(span, cre.size)
                        /\ PairwiseDisjoint(inner)
                        /\ \A i \in DOMAIN inner : Fits(inner[i], span.size)
                        /\ \A i \in DOMAIN slots :
                              /\ slots[i].size >= all[k].param.msg_size
                              /\ slots[i].offset % b.cacheline_size = 0

\* The order in which an attach looks at the fields of the header (section
\* 8 property 2 of the specification).
Priority == <<"Magic", "Version", "Cookie", "CachelineSize", "AtomicSize">>

Mismatch(kind) ==
    CASE kind = "Magic" -> att.header.magic # RTIC_MAGIC
      [] kind = "Version" -> att.header.version # RTIC_VERSION
      [] kind = "Cookie" -> att.header.cookie # args.peer_cookie
      [] kind = "CachelineSize" ->
            att.header.cacheline_size # AttBuild.cacheline_size
      [] kind = "AtomicSize" ->
            att.header.atomic_size # AttBuild.atomic_size

\* An attach that finds several things wrong in the header reports the one
\* that comes first in the order magic, version, cookie, cache line size,
\* atomic size, and one that goes on to the table has found nothing wrong
\* (Header::from_chunk, and the use RtIpc::from_shm makes of it).
ValidationOrder ==
    /\ \A k \in DOMAIN Priority :
          att.err = CreateFromHeader(Priority[k]) =>
              /\ Mismatch(Priority[k])
              /\ \A j \in 1 .. k - 1 : ~Mismatch(Priority[j])
    /\ att.pc \in {"table", "construct", "ready"} =>
          \A k \in DOMAIN Priority : ~Mismatch(Priority[k])

\* An attach that begins when creation has returned fails only for what the
\* two sides disagree on, and when it succeeds the attacher has the
\* creator's channels with the roles reversed: its producers are the
\* creator's consumers, with the same parameters at the same place, and its
\* consumers the creator's producers (Header::new and RtIpc::from_shm,
\* ChannelTable::write and ChannelTable::from_chunk, which each turn the
\* order round).
AttachMirrorsCreator ==
    att.late =>
        /\ att.err \in {Ok} \cup ({"Errno"} \X Errno)
                \cup ({"Header"} \X (HeaderError \ {"Size", "Magic"}))
        /\ att.pc = "ready" =>
              /\ att.table.producers = cre.table.consumers
              /\ att.table.consumers = cre.table.producers

\* A channel has one producer and one consumer: no handle is handed out
\* twice, two handles of a process are on channels apart from each other,
\* and a handle of the attacher shares memory only with the creator's
\* handle of the other role on the same channel (take_producer and
\* take_consumer on both sides, on tables that mirror each other).  Module
\* Channel relies on it.
OneProducerOneConsumer ==
    \A g, h \in BagToSet(handles) :
        /\ CopiesIn(h, handles) = 1
        /\ g # h /\ g.side = h.side => Disjoint(g.span, h.span)
        /\ g.side # h.side /\ att.late /\ ~Disjoint(g.span, h.span) =>
              g.span = h.span /\ g.role # h.role

\* Process s maps the region: it is making it, or has its RtIpc or a handle
\* taken from it.
Maps(s) ==
    \/ IsReady(s)
    \/ HandlesOf(s) # {}
    \/ s = "creator" /\ cre.pc \in {"header", "table", "construct"}

\* Once creation has returned, the path of a named segment is there as long
\* as the creator maps the segment and no longer: a handle that outlives
\* the RtIpc it was taken from keeps the segment (Chunk holds the
\* SharedMemory), and the drop of the last of them unlinks the path (Drop
\* for SharedMemory), in whatever order they are dropped.
PathGoesWithMapping ==
    Created /\ args.named => (mem.visible <=> Maps("creator"))

\* The path of a named segment exists only while the creator makes or maps
\* the segment ("on destruction unmaps and, if named, unlinks", section 3;
\* "on drop the path is unlinked", section 4.2).  new_named passes on an
\* error of SharedMemory::init or SharedMemory::new after shm_open has made
\* the path, and no SharedMemory exists then to unlink it.
PathHasOwner ==
    mem.visible => Maps("creator") \/ cre.pc \in {"init", "map"}

\* An attach that succeeds finds channels that Channel::init has set up
\* ("trust existing in-memory state", section 4.6).  RtIpc::new stores the
\* header before the table and before it initialises the channels, so a
\* valid header does not tell that the region is complete.
AttachedChannelsInitialised ==
    att.pc = "ready" =>
        \A e \in Range(att.table.consumers \o att.table.producers) :
            e.span.offset \in mem.inited

\* An index is unavailable only when its handle was handed out ("each index
\* is takeable once", section 6; "already taken", section 7).
\* take_producer and take_consumer take the Option before the typed handle
\* checks the size of T.
NoneMeansHandedOut ==
    \A s \in Sides, r \in Roles :
        IsReady(s) =>
            \A index \in AllSome(TableOf(s)[r]) \ opts[s][r] :
                \E h \in BagToSet(handles) :
                    h.side = s /\ h.role = r /\ h.index = index

=============================================================================
