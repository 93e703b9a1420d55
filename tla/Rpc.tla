-------------------------------- MODULE Rpc --------------------------------
(***************************************************************************)
(* The example of examples/rpc.rs: a server thread and a client thread     *)
(* that talk over three channels of one RtIpc object, the command channel  *)
(* from client to server, the response and the event channel back.         *)
(*                                                                         *)
(* Each channel is the queue of module LossyQueue, which module            *)
(* ChannelData shows the channel to implement for a producer that calls    *)
(* force_put and try_put and a consumer that calls fetch_tail, as both     *)
(* threads here do.  A message of a channel is the number of its put; what *)
(* it says is kept in rspLog and evtLog, and for a command in Commands.    *)
(* The pauses of both loops (thread::sleep) order nothing, so the threads  *)
(* interleave freely.                                                      *)
(***************************************************************************)
EXTENDS Integers, Sequences, FiniteSets, SequencesExt

CONSTANTS
    Commands,       \* the commands run_client sends, in order
    EventAddMsgs    \* add_msgs of the event channel (10 in the example)

\* enum CommandId
CommandId == {"Hello", "Stop", "SendEvent", "Div", "Unknown"}

\* struct MsgCommand: args is [event id, number of events, force] for
\* SendEvent and [dividend, divisor, unused] for Div.
MsgCommand == [id : CommandId, args : Int \X Int \X Int]

ASSUME /\ Commands \in Seq(MsgCommand)
       /\ EventAddMsgs \in Nat

\* How many events the commands ask for at most.
MaxEvents ==
    FoldSeq(LAMBDA c, n : n + (IF c.id = "SendEvent" THEN c.args[2] ELSE 0),
            0, Commands)

\* struct MsgResponse; cmd is the number of the command it answers, which
\* the program does not send.
MsgResponse ==
    [cmd : DOMAIN Commands, id : CommandId, result : Int, data : Int]

\* struct MsgEvent
MsgEvent == [id : Int, nr : Nat]

\* CLIENT2SERVER_CHANNELS and SERVER2CLIENT_CHANNELS: add_msgs of the
\* command channel, and of the response and the event channel.
CLIENT2SERVER_CHANNELS == <<0>>
SERVER2CLIENT_CHANNELS == <<0, EventAddMsgs>>

\* The slots of a channel with this add_msgs (MIN_MSGS is 3).
QueueLenOf(add_msgs) == add_msgs + 3

VARIABLES
    cmdCount, cmdPending, cmdHeld,  \* the command channel
    rspCount, rspPending, rspHeld,  \* the response channel
    evtCount, evtPending, evtHeld,  \* the event channel
    rspLog,     \* history: rspLog[n] is the n-th response put
    evtLog,     \* history: evtLog[n] is the n-th event put
    fd,         \* the server has sent the descriptor to the client
    client,     \* [pc, n]: n is the number of the command it is at
    server      \* [pc, cmd, i, run, result, data]: the locals of Server::run
                \* and send_events, and the response slot being filled

cmdVars == <<cmdCount, cmdPending, cmdHeld>>
rspVars == <<rspCount, rspPending, rspHeld, rspLog>>
evtVars == <<evtCount, evtPending, evtHeld, evtLog>>
vars == <<cmdVars, rspVars, evtVars, fd, client, server>>

Cmd ==
    INSTANCE LossyQueue
    WITH MaxMsgs <- Len(Commands),
         Capacity <- QueueLenOf(CLIENT2SERVER_CHANNELS[1]),
         Discards <- TRUE, Skips <- FALSE,
         count <- cmdCount, pending <- cmdPending, held <- cmdHeld

Rsp ==
    INSTANCE LossyQueue
    WITH MaxMsgs <- Len(Commands),
         Capacity <- QueueLenOf(SERVER2CLIENT_CHANNELS[1]),
         Discards <- TRUE, Skips <- FALSE,
         count <- rspCount, pending <- rspPending, held <- rspHeld

Evt ==
    INSTANCE LossyQueue
    WITH MaxMsgs <- MaxEvents,
         Capacity <- QueueLenOf(SERVER2CLIENT_CHANNELS[2]),
         Discards <- TRUE, Skips <- FALSE,
         count <- evtCount, pending <- evtPending, held <- evtHeld

ClientPc == {"recv", "put", "put_tail", "responses", "events", "done"}
ServerPc ==
    {"new", "fetch", "events", "events_tail", "respond", "respond_tail",
     "done"}

TypeOK ==
    /\ Cmd!TypeOK /\ Rsp!TypeOK /\ Evt!TypeOK
    /\ rspLog \in Seq(MsgResponse) /\ Len(rspLog) = rspCount
    /\ evtLog \in Seq(MsgEvent) /\ Len(evtLog) = evtCount
    /\ fd \in BOOLEAN
    /\ client \in [pc : ClientPc, n : 1 .. Len(Commands)]
    /\ server \in [pc : ServerPc, cmd : 0 .. Len(Commands), i : Nat,
                   run : BOOLEAN, result : Int, data : Int]

Init ==
    /\ Cmd!Init /\ Rsp!Init /\ Evt!Init
    /\ rspLog = <<>>
    /\ evtLog = <<>>
    /\ fd = FALSE
    /\ client = [pc |-> "recv", n |-> 1]
    /\ server = [pc |-> "new", cmd |-> 0, i |-> 0, run |-> TRUE,
                 result |-> 0, data |-> 0]

-----------------------------------------------------------------------------
(* The client thread.                                                      *)

\* run_client up to Client::new: it waits for the descriptor, attaches and
\* takes its three handles.
RunClient ==
    /\ client.pc = "recv"
    /\ fd
    /\ client' = [client EXCEPT !.pc = "put"]
    /\ UNCHANGED <<cmdVars, rspVars, evtVars, fd, server>>

\* A client that offers its command with try_put, and goes on when it is
\* refused.
ClientPutByTryPut ==
    /\ client.pc = "put"
    /\ \/ /\ ~Cmd!Full
          /\ Cmd!Put
       \/ /\ Cmd!Full
          /\ UNCHANGED cmdVars
    /\ client' = [client EXCEPT !.pc = "put_tail"]
    /\ UNCHANGED <<rspVars, evtVars, fd, server>>

\* Client::run: the next command is written and force_put makes it
\* available...
ClientPut ==
    /\ client.pc = "put"
    /\ Cmd!Put
    /\ client' = [client EXCEPT !.pc = "put_tail"]
    /\ UNCHANGED <<rspVars, evtVars, fd, server>>

\* ... and discards the oldest command if the server has left no slot.
ClientPutTail ==
    /\ client.pc = "put_tail"
    /\ Cmd!Discard \/ (~ENABLED Cmd!Discard /\ UNCHANGED cmdVars)
    /\ client' = [client EXCEPT !.pc = "responses"]
    /\ UNCHANGED <<rspVars, evtVars, fd, server>>

\* The first loop of Client::run: responses are fetched until there is none.
ClientFetchResponse ==
    /\ client.pc = "responses"
    /\ \/ /\ Rsp!Take
          /\ UNCHANGED client
       \/ /\ rspPending = <<>>
          /\ client' = [client EXCEPT !.pc = "events"]
          /\ UNCHANGED <<rspCount, rspPending, rspHeld>>
    /\ UNCHANGED <<cmdVars, rspLog, evtVars, fd, server>>

\* A loop over the commands that does not end with the list.
NextCommandPastEnd(n) == [pc |-> "put", n |-> n + 1]

\* The for loop of Client::run: the command after command n, or the end.
NextCommand(n) ==
    IF n < Len(Commands) THEN [pc |-> "put", n |-> n + 1]
    ELSE [pc |-> "done", n |-> n]

\* The second loop: events are fetched until there is none; then the next
\* command, or the end of the list.
ClientFetchEvent ==
    /\ client.pc = "events"
    /\ \/ /\ Evt!Take
          /\ UNCHANGED client
       \/ /\ evtPending = <<>>
          /\ client' = NextCommand(client.n)
          /\ UNCHANGED <<evtCount, evtPending, evtHeld>>
    /\ UNCHANGED <<cmdVars, rspVars, evtLog, fd, server>>

ClientNext ==
    \/ RunClient
    \/ ClientPut
    \/ ClientPutTail
    \/ ClientFetchResponse
    \/ ClientFetchEvent

-----------------------------------------------------------------------------
(* The server thread.                                                      *)

\* run_server up to Server::new: the shared memory is created, the handles
\* are taken and the descriptor is sent.
RunServer ==
    /\ server.pc = "new"
    /\ fd' = TRUE
    /\ server' = [server EXCEPT !.pc = "fetch"]
    /\ UNCHANGED <<cmdVars, rspVars, evtVars, client>>

\* Server::div: the error and the quotient.
Div(a, b) == IF b = 0 THEN <<-1, 0>> ELSE <<0, a \div b>>

\* What the data field of the response slot can hold when the server does
\* not write it: zero or what an earlier response left there.
StaleData == {0} \union {rspLog[n].data : n \in DOMAIN rspLog}

\* The data of the response to command c: only Div writes it.
ResponseData(c) ==
    IF c.id = "Div" THEN {Div(c.args[1], c.args[2])[2]} ELSE StaleData

\* The result of the response to a command that sends no events.
Result(c) ==
    CASE c.id \in {"Hello", "Stop"} -> 0
      [] c.id = "Div" -> Div(c.args[1], c.args[2])[1]
      [] OTHER -> -1

\* The loop of Server::run up to the match: no command, and the server
\* pauses and asks again; or a command, whose answer is prepared.  Stop ends
\* the loop after its response, SendEvent goes through send_events first.
ServerFetch ==
    /\ server.pc = "fetch"
    /\ \/ /\ cmdPending = <<>>
          /\ UNCHANGED <<cmdVars, server>>
       \/ /\ Cmd!Take
          /\ LET c == Commands[Head(cmdPending)]
             IN  \E d \in ResponseData(c) :
                    server' =
                        [pc |-> IF c.id = "SendEvent" THEN "events"
                                ELSE "respond",
                         cmd |-> Head(cmdPending),
                         i |-> 0,
                         run |-> c.id # "Stop",
                         result |-> Result(c),
                         data |-> d]
    /\ UNCHANGED <<rspVars, evtVars, fd, client>>

\* A send_events that counts the refused event.
RefusedAtCountsRefused(i) == i + 1

\* What send_events returns when try_put has refused event number i.
RefusedAt(i) == i

\* Server::send_events: one pass of its loop.  The event is put by
\* force_put, or offered by try_put, which ends the loop when it refuses;
\* after the last event the number asked for is returned.
SendEvents ==
    /\ server.pc = "events"
    /\ LET c == Commands[server.cmd]
           room == ~Evt!Full
           put == /\ Evt!Put
                  /\ evtLog' =
                         Append(evtLog, [id |-> c.args[1], nr |-> server.i])
       IN  \/ /\ server.i < c.args[2]
              /\ c.args[3] # 0
              /\ put
              /\ server' = [server EXCEPT !.pc = "events_tail"]
           \/ /\ server.i < c.args[2]
              /\ c.args[3] = 0
              /\ room
              /\ put
              /\ server' = [server EXCEPT !.i = @ + 1]
           \/ /\ server.i < c.args[2]
              /\ c.args[3] = 0
              /\ ~room
              /\ server' = [server EXCEPT !.pc = "respond",
                                          !.result = RefusedAt(server.i)]
              /\ UNCHANGED evtVars
           \/ /\ server.i >= c.args[2]
              /\ server' = [server EXCEPT !.pc = "respond",
                                          !.result = c.args[2]]
              /\ UNCHANGED evtVars
    /\ UNCHANGED <<cmdVars, rspVars, fd, client>>

\* The end of force_put on the event channel: the oldest event is
\* discarded if the client has left no slot.
SendEventsTail ==
    /\ server.pc = "events_tail"
    /\ \/ Evt!Discard
       \/ ~ENABLED Evt!Discard /\ UNCHANGED <<evtCount, evtPending, evtHeld>>
    /\ server' = [server EXCEPT !.pc = "events", !.i = @ + 1]
    /\ UNCHANGED <<cmdVars, rspVars, evtLog, fd, client>>

\* The response is put with force_put...
ServerRespond ==
    /\ server.pc = "respond"
    /\ Rsp!Put
    /\ rspLog' = Append(rspLog, [cmd |-> server.cmd,
                                 id |-> Commands[server.cmd].id,
                                 result |-> server.result,
                                 data |-> server.data])
    /\ server' = [server EXCEPT !.pc = "respond_tail"]
    /\ UNCHANGED <<cmdVars, evtVars, fd, client>>

\* ... which discards the oldest response if the client has left no slot;
\* then the loop goes on, or ends after Stop.
ServerRespondTail ==
    /\ server.pc = "respond_tail"
    /\ \/ Rsp!Discard
       \/ ~ENABLED Rsp!Discard /\ UNCHANGED <<rspCount, rspPending, rspHeld>>
    /\ server' = [server EXCEPT !.pc = IF server.run THEN "fetch" ELSE "done"]
    /\ UNCHANGED <<cmdVars, rspLog, evtVars, fd, client>>

ServerNext ==
    \/ RunServer
    \/ ServerFetch
    \/ SendEvents
    \/ SendEventsTail
    \/ ServerRespond
    \/ ServerRespondTail

-----------------------------------------------------------------------------

Next == ClientNext \/ ServerNext

Spec == Init /\ [][Next]_vars

\* Both threads are scheduled again and again: main has spawned both and
\* waits for both, and the pauses they take are finite.
FairSpec == Spec /\ WF_vars(ClientNext) /\ WF_vars(ServerNext)

-----------------------------------------------------------------------------
(* Properties.                                                             *)

\* The program ends: main's two joins return.  The client's force_put may
\* discard a command the server has not fetched yet, and the server's a
\* response the client has not fetched, but Stop is the last command, so no
\* later one pushes it out, and the loop of Server::run sees it; the two
\* loops of Client::run end because the server puts a bounded number of
\* messages.
Terminates == <>[](client.pc = "done" /\ server.pc = "done")

\* The result of a response to SendEvent is the number of events of that
\* command in the event channel's history, at any later time: send_events
\* counts what try_put accepted, not the event it refused, and the response
\* is put after the last event.
ResultCountsEvents ==
    \A n \in DOMAIN rspLog :
        LET r == rspLog[n]
            c == Commands[r.cmd]
        IN  r.id = "SendEvent" =>
                r.result = Cardinality({k \in DOMAIN evtLog :
                                           evtLog[k].id = c.args[1]})

=============================================================================
