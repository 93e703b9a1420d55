------------------------------- MODULE MCRpc -------------------------------
(***************************************************************************)
(* The example for TLC, at its own size: the six commands of run_client,   *)
(* twenty events a SendEvent, on an event channel of thirteen slots        *)
(* (Rpc_example.cfg sets EventAddMsgs to the 10 of the program), so that a *)
(* SendEvent asks for more events than the channel holds.                  *)
(***************************************************************************)
EXTENDS Rpc

MCCommands ==
    << [id |-> "Hello", args |-> <<1, 2, 0>>],
       [id |-> "SendEvent", args |-> <<11, 20, 0>>],
       [id |-> "SendEvent", args |-> <<12, 20, 1>>],
       [id |-> "Div", args |-> <<100, 7, 0>>],
       [id |-> "Div", args |-> <<100, 0, 0>>],
       [id |-> "Stop", args |-> <<0, 0, 0>>] >>

=============================================================================
