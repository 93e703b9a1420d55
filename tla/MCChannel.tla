----------------------------- MODULE MCChannel -----------------------------
(***************************************************************************)
(* Module Channel for TLC: the clients a model may have.                   *)
(***************************************************************************)
EXTENDS Channel

ForcePutOnly  == {"force_put"}
TryPutOnly    == {"try_put"}
BothPuts      == {"force_put", "try_put"}

FetchTailOnly == {"fetch_tail"}
FetchHeadOnly == {"fetch_head"}
BothFetches   == {"fetch_tail", "fetch_head"}

=============================================================================
