----------------------------- MODULE FileServer -----------------------------
(***************************************************************************)
(* Connections of the concurrent file access system (sys03, server.c and   *)
(* client.c).  A client writes its request to the server's FIFO; the       *)
(* server answers on the client's response FIFO and, if there is a place,  *)
(* forks a handler, which from then on takes commands from the client's    *)
(* request FIFO and answers each on its response FIFO.  Every message has  *)
(* an open and a close of its own, at both ends.  What a command does to   *)
(* the files is the business of module FileStore.                          *)
(*                                                                         *)
(* FIFOs are modelled as the system implements them: an open blocks until  *)
(* the other end is open, and a reader blocked in open already counts as   *)
(* one; a write without a reader kills the writer (SIGPIPE); what is in a  *)
(* FIFO is gone when its last end is closed.  A write and the close after  *)
(* it are separate only where somebody can notice.  SIGINT comes from the  *)
(* killServer command alone, not from a terminal.                          *)
(*                                                                         *)
(* A definition marked `Defect' is no part of the specification: it is a   *)
(* slip the code could have had in the definition it stands before, kept   *)
(* to show that the properties notice it.                                  *)
(***************************************************************************)
EXTENDS Naturals, Sequences, FiniteSets

CONSTANTS Clients,       \* client processes, each with a handler to be
          Arguments,     \* values max_client_count may be given
          Nobody

ASSUME ClientsAssumption == IsFiniteSet(Clients) /\ Nobody \notin Clients
ASSUME PlacesAssumption  == Arguments \subseteq Nat \ {0}

(* Commands with an answer; those the handler refuses ("Invalid command"); *)
(* quit and the empty line, after which it ends without a word.            *)
Commands == {"ask", "invalid", "quit", "killServer"}
Replies  == {"ok", "refused"}

VARIABLES
    max_client_count,   \* set once, by main (554)
    spc, sreq,       \* where the server is, and whose request it has read
    active,          \* the server's active_clients
    clientPids,      \* client_pids[0..active-1], as a set
    pipe, writers,   \* the server's FIFO: its content, clients that have it open
    doomed, shutDown,   \* SIGINT sent, to clients and to the server
    cpc, asked,      \* where each client is, and its last command
    connected,       \* clients that have read an OK
    leaked,          \* clients that still have the response FIFO open (149)
    request,         \* request FIFOs: "empty", "open", "data", or "eof"
    answer,          \* response FIFOs: what is in them, or "none"
    hpc, hcmd,       \* where each handler is, and the command it has read
    knows            \* each handler's copy of client_pids

places      == <<max_client_count, active, clientPids>>
serverVars  == <<spc, sreq, places>>
fifoVars    == <<pipe, writers, request, answer>>
signalVars  == <<doomed, shutDown>>
clientVars  == <<cpc, asked, connected, leaked>>
handlerVars == <<hpc, hcmd, knows>>
vars == <<serverVars, fifoVars, signalVars, clientVars, handlerVars>>

Init == /\ max_client_count \in Arguments
        /\ spc = "idle" /\ sreq = Nobody
        /\ active = 0 /\ clientPids = {}
        /\ pipe = <<>> /\ writers = {}
        /\ doomed = {} /\ shutDown = FALSE
        /\ cpc = [c \in Clients |-> "start"] /\ asked = [c \in Clients |-> "ask"]
        /\ connected = {} /\ leaked = {}
        /\ request = [c \in Clients |-> "empty"]
        /\ answer = [c \in Clients |-> "none"]
        /\ hpc = [c \in Clients |-> "none"]
        /\ hcmd = [c \in Clients |-> "none"]
        /\ knows = [c \in Clients |-> {}]
-----------------------------------------------------------------------------
(* The server's main loop.                                                 *)

ServerReads == spc \in {"opening", "closing"}    \* has its FIFO open

OpenServerFifo ==
    /\ spc = "idle"
    /\ spc' = "opening"
    /\ UNCHANGED <<sreq, places, fifoVars, signalVars, clientVars,
                   handlerVars>>

(* Defect: the request is looked at and stays in the FIFO.                 *)
ReadConnectionAgain ==
    /\ spc = "opening" /\ pipe # <<>>
    /\ sreq' = Head(pipe)
    /\ spc' = "closing"
    /\ UNCHANGED <<places, fifoVars, signalVars, clientVars, handlerVars>>

ReadConnection ==
    /\ spc = "opening" /\ pipe # <<>>
    /\ sreq' = Head(pipe)
    /\ pipe' = Tail(pipe)
    /\ spc' = "closing"
    /\ UNCHANGED <<places, writers, request, answer, signalVars, clientVars,
                   handlerVars>>

CloseServerFifo ==
    /\ spc = "closing"
    /\ pipe' = IF writers = {} THEN <<>> ELSE pipe
    /\ spc' = "reply"
    /\ UNCHANGED <<sreq, places, writers, request, answer, signalVars,
                   clientVars, handlerVars>>

(* sendResponse of the server: the open, and the write and close.          *)
ReplyOpen ==
    /\ spc = "reply" /\ cpc[sreq] = "blocked"
    /\ cpc' = [cpc EXCEPT ![sreq] = "reading"]
    /\ spc' = "write"
    /\ UNCHANGED <<sreq, places, fifoVars, signalVars, asked, connected,
                   leaked, handlerVars>>

(* Defect: one client too many.                                            *)
HasPlaceForOneMore == active <= max_client_count

HasPlace == active < max_client_count

Reply ==
    /\ spc = "write"
    /\ answer' = [answer EXCEPT ![sreq] = IF HasPlace THEN "ok" ELSE "refused"]
    /\ spc' = IF HasPlace THEN "fork" ELSE "idle"
    /\ UNCHANGED <<sreq, places, pipe, writers, request, signalVars,
                   clientVars, handlerVars>>

(* The handler gets its own copy of the counter and the array.             *)
Fork ==
    /\ spc = "fork"
    /\ clientPids' = clientPids \cup {sreq}
    /\ active' = active + 1
    /\ hpc' = [hpc EXCEPT ![sreq] = "start"]
    /\ knows' = [knows EXCEPT ![sreq] = clientPids']
    /\ spc' = "idle"
    /\ UNCHANGED <<max_client_count, sreq, fifoVars, signalVars, clientVars,
                   hcmd>>

(* The server's sigint_handler, anywhere: the FIFO is unlinked and closed. *)
ShutDown ==
    /\ shutDown /\ spc # "dead"
    /\ spc' = "dead"
    /\ pipe' = IF writers = {} THEN <<>> ELSE pipe
    /\ UNCHANGED <<sreq, places, writers, request, answer, signalVars,
                   clientVars, handlerVars>>
-----------------------------------------------------------------------------
(* A client: connecting.                                                   *)

Ended(c) == cpc[c] \in {"end", "killed", "broken"}

Enter(c) ==
    /\ cpc[c] = "start"
    /\ cpc' = [cpc EXCEPT ![c] = IF spc = "dead" THEN "end" ELSE "connecting"]
    /\ UNCHANGED <<serverVars, fifoVars, signalVars, asked, connected, leaked,
                   handlerVars>>

OpenConnection(c) ==
    /\ cpc[c] = "connecting" /\ ServerReads
    /\ writers' = writers \cup {c}
    /\ cpc' = [cpc EXCEPT ![c] = "writing"]
    /\ UNCHANGED <<serverVars, pipe, request, answer, signalVars, asked,
                   connected, leaked, handlerVars>>

WriteConnection(c) ==
    /\ cpc[c] = "writing"
    /\ \/ /\ ServerReads
          /\ pipe' = Append(pipe, c)
          /\ cpc' = [cpc EXCEPT ![c] = "written"]
          /\ UNCHANGED writers
       \/ /\ ~ServerReads
          /\ cpc' = [cpc EXCEPT ![c] = "broken"]
          /\ writers' = writers \ {c}
          /\ pipe' = IF writers' = {} THEN <<>> ELSE pipe
    /\ UNCHANGED <<serverVars, request, answer, signalVars, asked, connected,
                   leaked, handlerVars>>

CloseConnection(c) ==
    /\ cpc[c] = "written"
    /\ writers' = writers \ {c}
    /\ pipe' = IF writers' = {} /\ ~ServerReads THEN <<>> ELSE pipe
    /\ cpc' = [cpc EXCEPT ![c] = "openres"]
    /\ UNCHANGED <<serverVars, request, answer, signalVars, asked, connected,
                   leaked, handlerVars>>
-----------------------------------------------------------------------------
(* A client: the response FIFO, and the prompt.                            *)

(* open for reading returns at once only if a handler has it open just now *)
OpenResponse(c) ==
    /\ cpc[c] = "openres"
    /\ cpc' = [cpc EXCEPT ![c] = IF hpc[c] \in {"write", "close"} THEN "reading"
                                                                 ELSE "blocked"]
    /\ UNCHANGED <<serverVars, fifoVars, signalVars, asked, connected, leaked,
                   handlerVars>>

(* Defect: the descriptor of the first answer stays open as well.          *)
ReadReplyLeaking(c) ==
    /\ cpc[c] = "reading" /\ c \notin connected /\ answer[c] \in Replies
    /\ connected' = IF answer[c] = "ok" THEN connected \cup {c} ELSE connected
    /\ cpc' = [cpc EXCEPT ![c] = IF answer[c] = "ok" THEN "prompt" ELSE "end"]
    /\ answer' = [answer EXCEPT ![c] = "none"]
    /\ leaked' = leaked \cup {c}
    /\ UNCHANGED <<serverVars, pipe, writers, request, signalVars, asked,
                   handlerVars>>

(* The answer to the connection; the descriptor is closed.  If the server  *)
(* died between open and write, res is whatever the stack held.            *)
ReadReply(c) ==
    /\ cpc[c] = "reading" /\ c \notin connected
    /\ \E r \in Replies :
          /\ answer[c] = r \/ (answer[c] = "none" /\ spc = "dead")
          /\ connected' = IF r = "ok" THEN connected \cup {c} ELSE connected
          /\ cpc' = [cpc EXCEPT ![c] = IF r = "ok" THEN "prompt" ELSE "end"]
    /\ answer' = [answer EXCEPT ![c] = "none"]
    /\ UNCHANGED <<serverVars, pipe, writers, request, signalVars, asked,
                   leaked, handlerVars>>

(* The answer to a command; the descriptor stays open.  No answer is the   *)
(* "Goodbye!" that would end the loop.                                     *)
ReadAnswer(c) ==
    /\ cpc[c] = "reading" /\ c \in connected /\ answer[c] # "none"
    /\ answer' = [answer EXCEPT ![c] = "none"]
    /\ leaked' = leaked \cup {c}
    /\ cpc' = [cpc EXCEPT ![c] = "prompt"]
    /\ UNCHANGED <<serverVars, pipe, writers, request, signalVars, asked,
                   connected, handlerVars>>

(* The user types a command, or ends the input.                            *)
TypeCommand(c) ==
    /\ cpc[c] = "prompt"
    /\ \E k \in Commands : asked' = [asked EXCEPT ![c] = k]
    /\ cpc' = [cpc EXCEPT ![c] = "openreq"]
    /\ UNCHANGED <<serverVars, fifoVars, signalVars, connected, leaked,
                   handlerVars>>

EndOfInput(c) ==
    /\ cpc[c] = "prompt"
    /\ cpc' = [cpc EXCEPT ![c] = "end"]
    /\ leaked' = leaked \ {c}
    /\ UNCHANGED <<serverVars, fifoVars, signalVars, asked, connected,
                   handlerVars>>

OpenRequest(c) ==
    /\ cpc[c] = "openreq" /\ hpc[c] = "opening"
    /\ request' = [request EXCEPT ![c] = "open"]
    /\ cpc' = [cpc EXCEPT ![c] = "writereq"]
    /\ UNCHANGED <<serverVars, pipe, writers, answer, signalVars, asked,
                   connected, leaked, handlerVars>>

WriteRequest(c) ==
    /\ cpc[c] = "writereq"
    /\ request' = [request EXCEPT ![c] = "data"]
    /\ cpc' = [cpc EXCEPT ![c] = "openres"]
    /\ UNCHANGED <<serverVars, pipe, writers, answer, signalVars, asked,
                   connected, leaked, handlerVars>>

(* The client's sigint_handler unlinks its FIFOs and kills the process.    *)
Killed(c) ==
    /\ c \in doomed /\ ~Ended(c)
    /\ cpc' = [cpc EXCEPT ![c] = "killed"]
    /\ request' = [request EXCEPT ![c] = IF @ = "open" THEN "eof" ELSE @]
    /\ answer' = [answer EXCEPT ![c] = "none"]
    /\ leaked' = leaked \ {c}
    /\ UNCHANGED <<serverVars, pipe, writers, signalVars, asked, connected,
                   handlerVars>>
-----------------------------------------------------------------------------
(* handleClient.                                                           *)

(* open for reading blocks, or fails when the FIFOs have been unlinked.    *)
AwaitCommand(c) ==
    /\ hpc[c] = "start"
    /\ hpc' = [hpc EXCEPT ![c] = IF Ended(c) THEN "gone" ELSE "opening"]
    /\ UNCHANGED <<serverVars, fifoVars, signalVars, clientVars, hcmd, knows>>

(* At end of file req holds what it held: whatever the stack did, or the   *)
(* first word of the last command, which may lack its arguments now.       *)
LeftInReq(c) == IF hcmd[c] = "none" THEN Commands ELSE {hcmd[c], "invalid"}

ReadCommand(c) ==
    /\ hpc[c] = "opening" /\ request[c] \in {"data", "eof"}
    /\ \E k \in IF request[c] = "data" THEN {asked[c]} ELSE LeftInReq(c) :
          hcmd' = [hcmd EXCEPT ![c] = k]
    /\ request' = [request EXCEPT ![c] = "empty"]
    /\ hpc' = [hpc EXCEPT ![c] = "serve"]
    /\ UNCHANGED <<serverVars, pipe, writers, answer, signalVars, clientVars,
                   knows>>

(* kill_server signals the clients this handler knows of, and the server.  *)
Serve(c) ==
    /\ hpc[c] = "serve"
    /\ hpc' = [hpc EXCEPT ![c] = IF hcmd[c] = "quit" THEN "gone" ELSE "answer"]
    /\ IF hcmd[c] = "killServer"
       THEN doomed' = doomed \cup knows[c] /\ shutDown' = TRUE
       ELSE UNCHANGED signalVars
    /\ UNCHANGED <<serverVars, fifoVars, clientVars, hcmd, knows>>

(* What follows an answer.                                                 *)
NextRound(c) == IF hcmd[c] = "killServer" THEN "gone" ELSE "start"

(* sendResponse: the open finds the FIFO and waits for a reader, or fails. *)
FindResponse(c) ==
    /\ hpc[c] = "answer"
    /\ hpc' = [hpc EXCEPT ![c] = IF Ended(c) THEN NextRound(c) ELSE "wait"]
    /\ UNCHANGED <<serverVars, fifoVars, signalVars, clientVars, hcmd, knows>>

MeetReader(c) ==
    /\ hpc[c] = "wait"
    /\ cpc[c] = "blocked" \/ c \in leaked
    /\ cpc' = [cpc EXCEPT ![c] = IF @ = "blocked" THEN "reading" ELSE @]
    /\ hpc' = [hpc EXCEPT ![c] = "write"]
    /\ UNCHANGED <<serverVars, fifoVars, signalVars, asked, connected, leaked,
                   hcmd, knows>>

Answer(c) ==
    /\ hpc[c] = "write"
    /\ IF Ended(c)
       THEN hpc' = [hpc EXCEPT ![c] = "gone"] /\ UNCHANGED answer
       ELSE /\ answer' = [answer EXCEPT ![c] = hcmd[c]]
            /\ hpc' = [hpc EXCEPT ![c] = "close"]
    /\ UNCHANGED <<serverVars, pipe, writers, request, signalVars, clientVars,
                   hcmd, knows>>

(* Defect: the branches of "Invalid command" go on to the common answer.   *)
CloseAnswerTwice(c) ==
    /\ hpc[c] = "close"
    /\ hpc' = [hpc EXCEPT ![c] = IF hcmd[c] = "invalid" THEN "answer"
                                                       ELSE NextRound(c)]
    /\ hcmd' = [hcmd EXCEPT ![c] = IF @ = "invalid" THEN "ask" ELSE @]
    /\ UNCHANGED <<serverVars, fifoVars, signalVars, clientVars, knows>>

CloseAnswer(c) ==
    /\ hpc[c] = "close"
    /\ hpc' = [hpc EXCEPT ![c] = NextRound(c)]
    /\ UNCHANGED <<serverVars, fifoVars, signalVars, clientVars, hcmd, knows>>
-----------------------------------------------------------------------------
ServerStep == \/ OpenServerFifo \/ ReadConnection \/ CloseServerFifo
              \/ ReplyOpen \/ Reply \/ Fork

ClientStep(c) == \/ Enter(c) \/ OpenConnection(c) \/ WriteConnection(c)
                 \/ CloseConnection(c) \/ OpenResponse(c) \/ ReadReply(c)
                 \/ ReadAnswer(c) \/ OpenRequest(c) \/ WriteRequest(c)

User(c) == TypeCommand(c) \/ EndOfInput(c)

HandlerStep(c) == \/ AwaitCommand(c) \/ ReadCommand(c) \/ Serve(c)
                  \/ FindResponse(c) \/ MeetReader(c) \/ Answer(c)
                  \/ CloseAnswer(c)

Next == \/ ServerStep \/ ShutDown
        \/ \E c \in Clients : ClientStep(c) \/ User(c) \/ Killed(c) \/ HandlerStep(c)

(* Every process that can run does, and signals arrive; users need not     *)
(* type.                                                                   *)
Fairness == /\ WF_vars(ServerStep) /\ WF_vars(ShutDown)
            /\ \A c \in Clients : /\ WF_vars(ClientStep(c)) /\ WF_vars(Killed(c))
                                  /\ WF_vars(HandlerStep(c))

Spec == Init /\ [][Next]_vars /\ Fairness
-----------------------------------------------------------------------------
(* What must hold.                                                         *)

(* Client and handler stay in step though every message has its own open   *)
(* and close, and though the client never closes the response FIFO again   *)
(* (149): at the prompt nothing is left in either FIFO and the handler is  *)
(* not about to say more, and the answer read is the command's own.        *)
InStep ==
    \A c \in connected :
       /\ cpc[c] \in {"prompt", "openreq", "writereq"} =>
             /\ request[c] \in {"empty", "open"} /\ answer[c] = "none"
             /\ hpc[c] \in {"none", "start", "opening", "close", "gone"}
       /\ cpc[c] = "reading" /\ answer[c] # "none" => answer[c] = asked[c]

(* A client is told OK only for a place of its own: the handlers there     *)
(* have been, and the one being made, are never more than max_client_count *)
(* (632-653).                                                              *)
PlacesSuffice ==
    /\ Cardinality({c \in Clients : hpc[c] # "none"}) = active
    /\ active <= max_client_count
    /\ spc = "fork" => active < max_client_count /\ hpc[sreq] = "none"

(* The server waits for one client at a time, in the open of its response  *)
(* FIFO, and no client can keep it, and all who come later, waiting for    *)
(* ever: whoever asked is on its way to that FIFO, and nobody kills it.    *)
ServerMovesOn == spc = "reply" ~> spc # "reply"

(* The first command of a client is answered: both ends open the response  *)
(* FIFO once, and whoever comes first waits for the other.                 *)
FirstCommandAnswered ==
    \A c \in Clients :
       (cpc[c] = "writereq" /\ hcmd[c] = "none" /\ asked[c] \in {"ask", "invalid"})
          ~> cpc[c] \in {"prompt", "killed"}
-----------------------------------------------------------------------------
(* What the code says of itself and does not keep.                         *)

(* client.c:148: "open res fifo to get response": there is a response to   *)
(* every command but quit.                                                 *)
EveryCommandAnswered ==
    \A c \in Clients : (cpc[c] = "writereq" /\ asked[c] \in {"ask", "invalid"})
                          ~> cpc[c] \in {"prompt", "killed"}
=============================================================================
