--------------------------- MODULE MCChannelData ---------------------------
(***************************************************************************)
(* Module ChannelData for TLC: the clients a model may have.               *)
(***************************************************************************)
EXTENDS ChannelData

ForcePutOnly  == {"force_put"}
TryPutOnly    == {"try_put"}
BothPuts      == {"force_put", "try_put"}

FetchTailOnly == {"fetch_tail"}
FetchHeadOnly == {"fetch_head"}
BothFetches   == {"fetch_tail", "fetch_head"}

=============================================================================
