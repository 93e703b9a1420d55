------------------------------- MODULE MCRtIpc -------------------------------
(***************************************************************************)
(* RtIpc for model checking, at sizes like those of the rpc example: two    *)
(* kinds of channel (12 bytes and no additional slot; 8 bytes and 13, so   *)
(* that the 16 links fill a cache line of 64 bytes and head and tail take  *)
(* the index block into the next), up to one consumer and two producers on *)
(* the creator's side, cache lines of 64 and 128 bytes, and creators that  *)
(* differ from the attacher in one field of the header each; level 1 of    *)
(* the attacher's host reports no cache line.                              *)
(***************************************************************************)
EXTENDS RtIpc

SmallParams ==
    {[add_msgs |-> 0, msg_size |-> 12], [add_msgs |-> 13, msg_size |-> 8]}

HostBuild == [version |-> 1, cache_lines |-> <<0, 64>>, atomic_size |-> 4]

\* A message size beyond a word of the table, for a table of 8-bit words.
WideParams == {[add_msgs |-> 0, msg_size |-> 264]}

SomeBuilds ==
    {HostBuild,
     [HostBuild EXCEPT !.version = 2],
     [HostBuild EXCEPT !.cache_lines = <<64, 128>>],
     [HostBuild EXCEPT !.atomic_size = 8]}

=============================================================================
