-------------------------- MODULE FileServer_proofs --------------------------
(***************************************************************************)
(* Theorems about FileServer, for any number of clients: places suffice,   *)
(* and client and handler stay in step.                                    *)
(***************************************************************************)
EXTENDS FileServer, FiniteSetTheorems, TLAPS

(* What the variables of the protocol hold.                                *)
ServerPCs  == {"idle", "opening", "closing", "reply", "write", "fork", "dead"}
Early      == {"start", "connecting", "writing"}
ClientPCs  == Early \cup {"written", "openres", "blocked", "reading", "prompt", "openreq",
                          "writereq", "end", "killed", "broken"}
HandlerPCs == {"none", "start", "opening", "serve", "answer", "wait", "write", "close", "gone"}

(* The server is on a request it has taken out of its FIFO.                *)
Busy == {"closing", "reply", "write", "fork"}

Typed ==
    /\ max_client_count \in Nat \ {0} /\ active \in Nat
    /\ spc \in ServerPCs /\ sreq \in Clients \cup {Nobody}
    /\ spc \in Busy => sreq \in Clients
    /\ pipe \in Seq(Clients)
    /\ cpc \in [Clients -> ClientPCs] /\ asked \in [Clients -> Commands]
    /\ request \in [Clients -> {"empty", "open", "data", "eof"}]
    /\ answer \in [Clients -> Commands \cup Replies \cup {"none"}]
    /\ hpc \in [Clients -> HandlerPCs] /\ hcmd \in [Clients -> Commands \cup {"none"}]
    /\ connected \subseteq Clients

(* Where a request can be: in the server's FIFO, or in the server's hands. *)
Has(p, c)  == \E i \in 1..Len(p) : p[i] = c
NoTwice(p) == \A i, j \in 1..Len(p) : p[i] = p[j] => i = j
Unheard(c) == Has(pipe, c) \/ (sreq = c /\ spc \in {"closing", "reply"})
Meets(c)   == sreq = c /\ spc = "write"
Waits(c)   == Unheard(c) \/ Meets(c)
Forking(c) == sreq = c /\ spc = "fork"

(* A client has one request, made once, and no handler before it is        *)
(* granted.                                                                *)
OneRequest(c) ==
    /\ Waits(c) => c \notin connected
    /\ Waits(c) \/ Forking(c) => hpc[c] = "none" /\ cpc[c] \notin Early
    /\ cpc[c] \in Early => hpc[c] = "none" /\ c \notin connected

QueueInv == /\ NoTwice(pipe)
            /\ spc \in Busy => ~Has(pipe, sreq)
            /\ \A c \in Clients : OneRequest(c)

(* The phases of a connection.  Before the client has read an OK:          *)
Connecting(c) ==
    /\ c \notin connected /\ request[c] = "empty"
    /\ hpc[c] \in {"none", "start", "opening"}
    /\ cpc[c] \in Early \cup {"written", "openres", "blocked", "reading"}
    /\ answer[c] # "none" => answer[c] \in Replies /\ cpc[c] = "reading" /\ ~Waits(c)
    /\ cpc[c] = "reading" => ~Unheard(c)
    /\ Meets(c) => cpc[c] = "reading"

(* at the prompt, or on the way from it;                                   *)
AtPrompt(c) ==
    /\ c \in connected /\ request[c] = "empty" /\ answer[c] = "none"
    /\ hpc[c] \in {"none", "start", "opening", "close", "gone"}
    /\ cpc[c] \in {"prompt", "openreq"}

(* both ends of the request FIFO open;                                     *)
Meeting(c) ==
    /\ c \in connected /\ request[c] = "open" /\ answer[c] = "none"
    /\ hpc[c] = "opening" /\ cpc[c] = "writereq"

(* the command written and not read;                                       *)
Sent(c) ==
    /\ c \in connected /\ request[c] = "data" /\ answer[c] = "none"
    /\ hpc[c] = "opening" /\ cpc[c] \in {"openres", "blocked"}

(* the handler at it, or gone without a word;                              *)
Serving(c) ==
    /\ c \in connected /\ request[c] = "empty" /\ answer[c] = "none"
    /\ cpc[c] \in {"openres", "blocked", "reading"}
    /\ \/ hpc[c] = "gone"
       \/ hpc[c] \in {"serve", "answer", "wait", "write"} /\ hcmd[c] = asked[c]

(* the answer written and not read.                                        *)
Answered(c) ==
    /\ c \in connected /\ request[c] = "empty" /\ answer[c] = asked[c]
    /\ cpc[c] \in {"openres", "blocked", "reading"}
    /\ hpc[c] \in {"start", "opening", "close", "gone"}

Phase(c) == \/ Ended(c) \/ Connecting(c) \/ AtPrompt(c)
            \/ Meeting(c) \/ Sent(c) \/ Serving(c) \/ Answered(c)

-----------------------------------------------------------------------------
(* Requests in a FIFO.                                                     *)

(* A request written comes last, and is there once if it was not there.    *)
LEMMA Written ==
    ASSUME NEW p \in Seq(Clients), NEW c \in Clients
    PROVE  /\ Append(p, c) \in Seq(Clients)
           /\ \A d \in Clients : Has(Append(p, c), d) <=> Has(p, d) \/ d = c
           /\ NoTwice(p) /\ ~Has(p, c) => NoTwice(Append(p, c))
<1> DEFINE q == Append(p, c)
<1>1. /\ q \in Seq(Clients) /\ Len(q) = Len(p) + 1 /\ Len(p) \in Nat
      /\ q[Len(p) + 1] = c /\ \A i \in 1..Len(p) : q[i] = p[i]
  OBVIOUS
<1> HIDE DEF q
<1>2. \A i \in 1..(Len(p) + 1) : i = Len(p) + 1 \/ i \in 1..Len(p)
  BY <1>1
<1>3. \A d \in Clients : Has(q, d) <=> Has(p, d) \/ d = c
  BY <1>1, <1>2 DEF Has
<1>4. ASSUME NoTwice(p), ~Has(p, c) PROVE NoTwice(q)
  BY <1>1, <1>2, <1>4 DEF NoTwice, Has
<1> QED
  BY <1>1, <1>3, <1>4 DEF q

(* A request read is no longer there, if it was there once.                *)
LEMMA Read ==
    ASSUME NEW p \in Seq(Clients), p # <<>>
    PROVE  /\ Tail(p) \in Seq(Clients) /\ Head(p) \in Clients /\ Has(p, Head(p))
           /\ \A d : Has(Tail(p), d) => Has(p, d)
           /\ NoTwice(p) => NoTwice(Tail(p)) /\ ~Has(Tail(p), Head(p))
<1> DEFINE q == Tail(p)
<1>1. /\ q \in Seq(Clients) /\ Len(q) = Len(p) - 1 /\ Len(p) \in Nat /\ Len(p) # 0
      /\ Head(p) = p[1] /\ Head(p) \in Clients /\ \A i \in 1..Len(q) : q[i] = p[i + 1]
  OBVIOUS
<1> HIDE DEF q
<1>2. 1 \in 1..Len(p) /\ \A i \in 1..Len(q) : i + 1 \in 1..Len(p) /\ i + 1 # 1
  BY <1>1
<1>3. Has(p, Head(p)) /\ \A d : Has(q, d) => Has(p, d)
  BY <1>1, <1>2 DEF Has
<1>4. ASSUME NoTwice(p) PROVE NoTwice(q) /\ ~Has(q, Head(p))
  <2>1. \A i, j \in 1..Len(q) : q[i] = q[j] => i = j
    <3> SUFFICES ASSUME NEW i \in 1..Len(q), NEW j \in 1..Len(q), q[i] = q[j] PROVE i = j
      OBVIOUS
    <3>1. i + 1 = j + 1
      BY <1>1, <1>2, <1>4 DEF NoTwice
    <3> QED
      BY <3>1
  <2>2. ASSUME NEW i \in 1..Len(q) PROVE q[i] # Head(p)
    BY <1>1, <1>2, <1>4 DEF NoTwice
  <2> QED
    BY <2>1, <2>2 DEF NoTwice, Has
<1> QED
  BY <1>1, <1>3, <1>4 DEF q

(* An empty FIFO holds no request.                                         *)
LEMMA Emptied == <<>> \in Seq(Clients) /\ NoTwice(<<>>) /\ \A c : ~Has(<<>>, c)
  BY DEF NoTwice, Has
-----------------------------------------------------------------------------
(* The type invariant of the protocol.                                     *)

(* The variables begin with values of their types.                         *)
LEMMA InitTyped == Init => Typed
  BY PlacesAssumption, Emptied
     DEF Init, Typed, ServerPCs, ClientPCs, HandlerPCs, Early, Busy, Commands

(* Every step of server, client and handler keeps the types.               *)
LEMMA StepTyped == Typed /\ [Next]_vars => Typed'
<1> SUFFICES ASSUME Typed, [Next]_vars PROVE Typed'
  OBVIOUS
<1> USE DEF Typed, ServerPCs, ClientPCs, HandlerPCs, Early, Busy, Commands, Replies,
            serverVars, places, fifoVars, signalVars, clientVars, handlerVars
<1>1. CASE ServerStep
  <2>1. CASE OpenServerFifo
    BY <2>1 DEF OpenServerFifo
  <2>2. CASE ReadConnection
    BY <2>2, Read DEF ReadConnection
  <2>3. CASE CloseServerFifo
    BY <2>3, Emptied DEF CloseServerFifo
  <2>4. CASE ReplyOpen
    BY <2>4 DEF ReplyOpen
  <2>5. CASE Reply
    BY <2>5 DEF Reply
  <2>6. CASE Fork
    BY <2>6 DEF Fork
  <2> QED
    BY <1>1, <2>1, <2>2, <2>3, <2>4, <2>5, <2>6 DEF ServerStep
<1>2. CASE ShutDown
  BY <1>2, Emptied DEF ShutDown
<1>3. ASSUME NEW c \in Clients, ClientStep(c) PROVE Typed'
  <2>1. CASE Enter(c)
    BY <2>1 DEF Enter
  <2>2. CASE OpenConnection(c)
    BY <2>2 DEF OpenConnection
  <2>3. CASE WriteConnection(c)
    <3>1. Append(pipe, c) \in Seq(Clients) /\ <<>> \in Seq(Clients)
      BY Written, Emptied
    <3> QED
      BY <2>3, <3>1 DEF WriteConnection
  <2>4. CASE CloseConnection(c)
    BY <2>4, Emptied DEF CloseConnection
  <2>5. CASE OpenResponse(c)
    BY <2>5 DEF OpenResponse
  <2>6. CASE ReadReply(c)
    BY <2>6 DEF ReadReply
  <2>7. CASE ReadAnswer(c)
    BY <2>7 DEF ReadAnswer
  <2>8. CASE OpenRequest(c)
    BY <2>8 DEF OpenRequest
  <2>9. CASE WriteRequest(c)
    BY <2>9 DEF WriteRequest
  <2> QED
    BY <1>3, <2>1, <2>2, <2>3, <2>4, <2>5, <2>6, <2>7, <2>8, <2>9 DEF ClientStep
<1>4. ASSUME NEW c \in Clients, User(c) \/ Killed(c) PROVE Typed'
  <2>1. CASE TypeCommand(c)
    BY <2>1 DEF TypeCommand
  <2>2. CASE EndOfInput(c)
    BY <2>2 DEF EndOfInput
  <2>3. CASE Killed(c)
    BY <2>3 DEF Killed
  <2> QED
    BY <1>4, <2>1, <2>2, <2>3 DEF User
<1>5. ASSUME NEW c \in Clients, HandlerStep(c) PROVE Typed'
  <2>1. CASE AwaitCommand(c)
    BY <2>1 DEF AwaitCommand
  <2>2. CASE ReadCommand(c)
    BY <2>2 DEF ReadCommand, LeftInReq
  <2>3. CASE Serve(c)
    BY <2>3 DEF Serve
  <2>4. CASE FindResponse(c)
    BY <2>4 DEF FindResponse, NextRound
  <2>5. CASE MeetReader(c)
    BY <2>5 DEF MeetReader
  <2>6. CASE Answer(c)
    BY <2>6 DEF Answer
  <2>7. CASE CloseAnswer(c)
    BY <2>7 DEF CloseAnswer, NextRound
  <2> QED
    BY <1>5, <2>1, <2>2, <2>3, <2>4, <2>5, <2>6, <2>7 DEF HandlerStep
<1>6. CASE UNCHANGED vars
  BY <1>6 DEF vars
<1> QED
  BY <1>1, <1>2, <1>3, <1>4, <1>5, <1>6 DEF Next
-----------------------------------------------------------------------------
(* Requests: what a step that neither makes nor grants one leaves alone.   *)

Quiet(c) ==
    /\ Waits(c)' => Waits(c)
    /\ Forking(c)' => Waits(c) \/ Forking(c)
    /\ hpc'[c] = "none" <=> hpc[c] = "none"
    /\ cpc'[c] \in Early => cpc[c] \in Early
    /\ c \in connected' => c \in connected

(* Such a step keeps what is said of a client's one request.               *)
LEMMA OneRequestKept ==
    ASSUME NEW c \in Clients, OneRequest(c), Quiet(c) PROVE OneRequest(c)'
  BY DEF OneRequest, Quiet

(* The client and the handler act and the server's side is as it was.      *)
LEMMA StillServer ==
    ASSUME QueueInv, UNCHANGED <<pipe, sreq, spc>>,
           \A c \in Clients : /\ hpc'[c] = "none" <=> hpc[c] = "none"
                              /\ cpc'[c] \in Early => cpc[c] \in Early
                              /\ c \in connected' => c \in connected
    PROVE  QueueInv'
<1>1. \A c \in Clients : Quiet(c)
  BY DEF Quiet, Waits, Meets, Unheard, Forking
<1>2. \A c \in Clients : OneRequest(c)'
  BY <1>1, OneRequestKept DEF QueueInv
<1> QED
  BY <1>2 DEF QueueInv

(* At the start nobody has asked.                                          *)
LEMMA InitQueue == Init => QueueInv
  BY Emptied DEF Init, QueueInv, OneRequest, Waits, Meets, Unheard, Forking, Early, Busy

(* A handler makes no request and ends none.                               *)
LEMMA HandlerQueue ==
    ASSUME Typed, QueueInv, NEW c \in Clients, HandlerStep(c) PROVE QueueInv'
<1>1. UNCHANGED <<pipe, sreq, spc, connected>>
  BY DEF HandlerStep, AwaitCommand, ReadCommand, Serve, FindResponse, MeetReader, Answer,
         CloseAnswer, serverVars, places, fifoVars, clientVars
<1>2. hpc[c] # "none"
  BY DEF HandlerStep, AwaitCommand, ReadCommand, Serve, FindResponse, MeetReader, Answer,
         CloseAnswer
<1>3. \E s \in HandlerPCs \ {"none"} : hpc' = [hpc EXCEPT ![c] = s]
  BY DEF HandlerStep, AwaitCommand, ReadCommand, Serve, FindResponse, MeetReader, Answer,
         CloseAnswer, NextRound, HandlerPCs
<1>4. \A d \in Clients : hpc'[d] = "none" <=> hpc[d] = "none"
  BY <1>2, <1>3 DEF Typed
<1>5. \A d \in Clients : cpc'[d] \in Early => cpc[d] \in Early
  BY DEF Typed, HandlerStep, AwaitCommand, ReadCommand, Serve, FindResponse, MeetReader, Answer,
         CloseAnswer, Early, clientVars
<1> QED
  BY <1>1, <1>4, <1>5, StillServer

(* The server's steps pass a request on, and Fork ends it with a handler.  *)
LEMMA ServerQueue ==
    ASSUME Typed, QueueInv, ServerStep \/ ShutDown PROVE QueueInv'
<1>1. NoTwice(pipe) /\ (spc \in Busy => ~Has(pipe, sreq)) /\ \A c \in Clients : OneRequest(c)
  BY DEF QueueInv
<1>2. CASE OpenServerFifo \/ ShutDown
  <2>1. /\ pipe' = pipe \/ pipe' = <<>>
        /\ spc' \notin Busy /\ UNCHANGED <<hpc, cpc, connected>>
    BY <1>2 DEF OpenServerFifo, ShutDown, Busy, fifoVars, clientVars, handlerVars
  <2>2. NoTwice(pipe') /\ \A c \in Clients : Has(pipe', c) => Has(pipe, c)
    BY <1>1, <2>1, Emptied
  <2>3. \A c \in Clients : Quiet(c)
    BY <2>1, <2>2 DEF Quiet, Waits, Meets, Unheard, Forking, Busy
  <2> QED
    BY <1>1, <2>1, <2>2, <2>3, OneRequestKept DEF QueueInv
<1>3. CASE ReadConnection
  <2>1. /\ pipe # <<>> /\ pipe \in Seq(Clients) /\ pipe' = Tail(pipe)
        /\ sreq' = Head(pipe) /\ spc' = "closing" /\ UNCHANGED <<hpc, cpc, connected>>
    BY <1>3 DEF ReadConnection, Typed, clientVars, handlerVars
  <2>2. /\ NoTwice(pipe') /\ ~Has(pipe', sreq')
        /\ Has(pipe, sreq') /\ \A c \in Clients : Has(pipe', c) => Has(pipe, c)
    BY <1>1, <2>1, Read
  <2>3. \A c \in Clients : Quiet(c)
    BY <2>1, <2>2 DEF Quiet, Waits, Meets, Unheard, Forking
  <2> QED
    BY <1>1, <2>1, <2>2, <2>3, OneRequestKept DEF QueueInv
<1>4. CASE CloseServerFifo \/ ReplyOpen \/ Reply
  <2>1. /\ pipe' = pipe \/ pipe' = <<>>
        /\ sreq' = sreq /\ UNCHANGED <<hpc, connected>> /\ spc \in Busy
        /\ \/ spc = "closing" /\ spc' = "reply"
           \/ spc = "reply" /\ spc' = "write"
           \/ spc = "write" /\ spc' \in {"fork", "idle"}
    BY <1>4 DEF CloseServerFifo, ReplyOpen, Reply, Busy, fifoVars, clientVars, handlerVars
  <2>2. \A c \in Clients : cpc'[c] \in Early => cpc[c] \in Early
    BY <1>4 DEF CloseServerFifo, ReplyOpen, Reply, Early, clientVars, Typed
  <2>3. NoTwice(pipe') /\ \A c : Has(pipe', c) => Has(pipe, c)
    BY <1>1, <2>1, Emptied
  <2>4. \A c \in Clients : Quiet(c)
    BY <2>1, <2>2, <2>3 DEF Quiet, Waits, Meets, Unheard, Forking
  <2> QED
    BY <1>1, <2>1, <2>3, <2>4, OneRequestKept DEF QueueInv
<1>5. CASE Fork
  <2>1. /\ spc = "fork" /\ spc' = "idle" /\ spc \in Busy
        /\ UNCHANGED <<pipe, sreq, cpc, connected>>
        /\ hpc' = [hpc EXCEPT ![sreq] = "start"]
    BY <1>5 DEF Fork, Busy, fifoVars, clientVars
  <2>2. \A c \in Clients : c # sreq => hpc'[c] = hpc[c]
    BY <2>1 DEF Typed
  <2>3. \A c \in Clients : c # sreq => OneRequest(c)'
    <3>1. \A c \in Clients : c # sreq => Quiet(c)
      BY <2>1, <2>2 DEF Quiet, Waits, Meets, Unheard, Forking
    <3> QED
      BY <1>1, <3>1, OneRequestKept
  <2>4. sreq \in Clients => OneRequest(sreq)'
    BY <1>1, <2>1 DEF OneRequest, Waits, Meets, Unheard, Forking
  <2> QED
    BY <1>1, <2>1, <2>3, <2>4 DEF QueueInv, Busy
<1> QED
  BY <1>2, <1>3, <1>4, <1>5 DEF ServerStep

(* A client makes its request once, and reads an answer only when the      *)
(* request is out of the server's hands.                                   *)
LEMMA ClientQueue ==
    ASSUME Typed, QueueInv, NEW c \in Clients, Phase(c),
           ClientStep(c) \/ User(c) \/ Killed(c)
    PROVE  QueueInv'
<1>1. NoTwice(pipe) /\ (spc \in Busy => ~Has(pipe, sreq)) /\ \A d \in Clients : OneRequest(d)
  BY DEF QueueInv
<1>2. UNCHANGED <<spc, sreq, hpc>>
  BY DEF ClientStep, User, Killed, Enter, OpenConnection, WriteConnection, CloseConnection,
         OpenResponse, ReadReply, ReadAnswer, OpenRequest, WriteRequest, TypeCommand,
         EndOfInput, serverVars, handlerVars
<1>3. CASE \/ Enter(c) \/ OpenConnection(c) \/ OpenResponse(c) \/ ReadAnswer(c)
           \/ OpenRequest(c) \/ WriteRequest(c) \/ TypeCommand(c) \/ EndOfInput(c) \/ Killed(c)
  <2>1. UNCHANGED <<pipe, connected>>
    BY <1>3 DEF Enter, OpenConnection, OpenResponse, ReadAnswer, OpenRequest, WriteRequest,
                TypeCommand, EndOfInput, Killed, fifoVars
  <2>2. \A d \in Clients : cpc'[d] \in Early => cpc[d] \in Early
    BY <1>3 DEF Typed, Early, Enter, OpenConnection, OpenResponse, ReadAnswer, OpenRequest,
                WriteRequest, TypeCommand, EndOfInput, Killed
  <2> QED
    BY <1>2, <2>1, <2>2, StillServer
<1>4. CASE CloseConnection(c)
  <2>1. /\ pipe' = pipe \/ pipe' = <<>>
        /\ connected' = connected /\ cpc' = [cpc EXCEPT ![c] = "openres"]
    BY <1>4 DEF CloseConnection
  <2>2. NoTwice(pipe') /\ \A d : Has(pipe', d) => Has(pipe, d)
    BY <1>1, <2>1, Emptied
  <2>3. \A d \in Clients : cpc'[d] \in Early => cpc[d] \in Early
    BY <2>1 DEF Typed, Early
  <2>4. \A d \in Clients : Quiet(d)
    BY <1>2, <2>1, <2>2, <2>3 DEF Quiet, Waits, Meets, Unheard, Forking
  <2> QED
    BY <1>1, <1>2, <2>2, <2>4, OneRequestKept DEF QueueInv
<1>5. CASE WriteConnection(c)
  <2>1. /\ cpc[c] = "writing" /\ connected' = connected
        /\ cpc[c] \in Early /\ "written" \notin Early /\ "broken" \notin Early
    BY <1>5 DEF WriteConnection, Early
  <2>2. ~Waits(c) /\ ~Forking(c) /\ hpc[c] = "none" /\ c \notin connected
    BY <1>1, <2>1 DEF OneRequest
  <2>3. /\ cpc'[c] \in {"written", "broken"}
        /\ \A d \in Clients : d # c => cpc'[d] = cpc[d]
    BY <1>5 DEF WriteConnection, Typed
  <2>4. /\ pipe \in Seq(Clients)
        /\ pipe' = Append(pipe, c) \/ pipe' = <<>> \/ pipe' = pipe
    <3>1. pipe \in Seq(Clients)
      BY DEF Typed
    <3>2. pipe' = Append(pipe, c) \/ pipe' = IF writers' = {} THEN <<>> ELSE pipe
      BY <1>5 DEF WriteConnection
    <3> QED
      BY <3>1, <3>2
  <2>5. ~Has(pipe, c) /\ (spc \in Busy => sreq # c)
    BY <2>2 DEF Waits, Meets, Unheard, Forking, Busy
  <2>6. NoTwice(pipe') /\ \A d \in Clients : Has(pipe', d) => Has(pipe, d) \/ d = c
    <3>1. CASE pipe' = Append(pipe, c)
      BY <1>1, <2>4, <2>5, <3>1, Written
    <3>2. CASE pipe' = <<>>
      BY <3>2, Emptied
    <3>3. CASE pipe' = pipe
      BY <1>1, <3>3
    <3> QED
      BY <2>4, <3>1, <3>2, <3>3
  <2>7. \A d \in Clients : d # c => Quiet(d)
    BY <1>2, <2>1, <2>3, <2>6 DEF Quiet, Waits, Meets, Unheard, Forking
  <2>8. OneRequest(c)'
    BY <1>2, <2>1, <2>2, <2>3 DEF OneRequest
  <2>9. spc' \in Busy => ~Has(pipe', sreq')
    BY <1>1, <1>2, <2>5, <2>6 DEF Typed
  <2> QED
    BY <1>1, <2>6, <2>7, <2>8, <2>9, OneRequestKept DEF QueueInv
<1>6. CASE ReadReply(c)
  <2>1. /\ UNCHANGED pipe /\ cpc[c] = "reading" /\ c \notin connected
        /\ connected' \subseteq connected \cup {c}
        /\ cpc'[c] \in {"prompt", "end"} /\ \A d \in Clients : d # c => cpc'[d] = cpc[d]
        /\ answer[c] \in Replies \/ spc = "dead"
    BY <1>6 DEF ReadReply, Typed
  <2>2. Connecting(c)
    BY <2>1 DEF Phase, Ended, Connecting, AtPrompt, Meeting, Sent, Serving, Answered
  <2>3. ~Waits(c)
    BY <2>1, <2>2 DEF Connecting, Waits, Meets, Replies
  <2>4. cpc[c] \notin Early /\ cpc'[c] \notin Early
    BY <2>1 DEF Early
  <2>5. \A d \in Clients : d # c => Quiet(d)
    BY <1>2, <2>1 DEF Quiet, Waits, Meets, Unheard, Forking
  <2>6. ~Waits(c)' /\ Forking(c)' = Forking(c)
    BY <1>2, <2>1, <2>3 DEF Waits, Meets, Unheard, Forking
  <2>7. OneRequest(c)'
    BY <1>1, <1>2, <2>4, <2>6 DEF OneRequest
  <2> QED
    BY <1>1, <1>2, <2>1, <2>5, <2>7, OneRequestKept DEF QueueInv
<1> QED
  BY <1>3, <1>4, <1>5, <1>6 DEF ClientStep, User
-----------------------------------------------------------------------------
(* The phases: a step of others leaves a client in the phase it is in.     *)

(* A client's phase depends on its own values alone, and on whether the    *)
(* server still has its request.                                           *)
LEMMA PhaseKept ==
    ASSUME NEW c \in Clients, Phase(c),
           UNCHANGED <<cpc[c], hpc[c], request[c], answer[c], asked[c], hcmd[c]>>,
           c \in connected' <=> c \in connected,
           Meets(c)' => Meets(c), Unheard(c)' => Unheard(c)
    PROVE  Phase(c)'
  BY DEF Phase, Ended, Connecting, AtPrompt, Meeting, Sent, Serving, Answered, Waits

(* Every client begins by connecting.                                      *)
LEMMA InitPhase == Init => \A c \in Clients : Phase(c)
  BY DEF Init, Phase, Connecting, Early, Meets

(* The server's steps keep every client in a phase: its answer goes to a   *)
(* client that reads and has not been told yet.                            *)
LEMMA ServerPhase ==
    ASSUME Typed, QueueInv, NEW c \in Clients, Phase(c), ServerStep \/ ShutDown
    PROVE  Phase(c)'
<1>1. UNCHANGED <<request, asked, connected, hcmd>>
  BY DEF ServerStep, ShutDown, OpenServerFifo, ReadConnection, CloseServerFifo, ReplyOpen, Reply,
         Fork, fifoVars, clientVars, handlerVars
<1>2. OneRequest(c)
  BY DEF QueueInv
<1>3. CASE OpenServerFifo \/ ReadConnection \/ CloseServerFifo \/ ShutDown
  <2>1. UNCHANGED <<cpc, hpc, answer>>
    BY <1>3 DEF OpenServerFifo, ReadConnection, CloseServerFifo, ShutDown, fifoVars, clientVars,
                handlerVars
  <2>2. (Meets(c)' => Meets(c)) /\ (Unheard(c)' => Unheard(c))
    <3>1. CASE ReadConnection
      <4>1. /\ pipe # <<>> /\ pipe \in Seq(Clients) /\ pipe' = Tail(pipe)
            /\ sreq' = Head(pipe) /\ spc' = "closing"
        BY <3>1 DEF ReadConnection, Typed
      <4>2. Has(pipe, sreq') /\ (Has(pipe', c) => Has(pipe, c))
        BY <4>1, Read
      <4> QED
        BY <4>1, <4>2 DEF Meets, Unheard
    <3>2. CASE OpenServerFifo \/ CloseServerFifo \/ ShutDown
      <4>1. /\ pipe' = pipe \/ pipe' = <<>>
            /\ sreq' = sreq
            /\ spc' \in {"opening", "dead"} \/ (spc = "closing" /\ spc' = "reply")
        BY <3>2 DEF OpenServerFifo, CloseServerFifo, ShutDown, fifoVars
      <4>2. Has(pipe', c) => Has(pipe, c)
        BY <4>1, Emptied
      <4> QED
        BY <4>1, <4>2 DEF Meets, Unheard
    <3> QED
      BY <1>3, <3>1, <3>2
  <2> QED
    BY <1>1, <2>1, <2>2, PhaseKept
<1>4. CASE ReplyOpen
  <2>1. /\ spc = "reply" /\ spc' = "write" /\ cpc[sreq] = "blocked"
        /\ cpc' = [cpc EXCEPT ![sreq] = "reading"]
        /\ UNCHANGED <<sreq, pipe, hpc, answer>>
    BY <1>4 DEF ReplyOpen, fifoVars, handlerVars
  <2>2. c # sreq => (Meets(c)' => Meets(c)) /\ (Unheard(c)' => Unheard(c))
    BY <2>1 DEF Meets, Unheard
  <2>3. CASE c # sreq
    BY <1>1, <2>1, <2>2, <2>3, PhaseKept DEF Typed
  <2>4. CASE c = sreq
    <3>1. Waits(c) /\ Unheard(c) /\ cpc'[c] = "reading" /\ cpc[c] = "blocked"
      BY <2>1, <2>4 DEF Waits, Unheard, Typed
    <3>2. Connecting(c) /\ answer[c] = "none"
      BY <1>2, <3>1 DEF OneRequest, Phase, Ended, Connecting, AtPrompt, Meeting, Sent, Serving,
                        Answered
    <3>3. ~Has(pipe, c) /\ ~Unheard(c)'
      BY <2>1, <2>4 DEF QueueInv, Busy, Unheard
    <3>4. Connecting(c)'
      BY <1>1, <2>1, <3>1, <3>2, <3>3 DEF Connecting
    <3> QED
      BY <3>4 DEF Phase
  <2> QED
    BY <2>3, <2>4
<1>5. CASE Reply
  <2>1. /\ spc = "write" /\ spc' \in {"fork", "idle"}
        /\ \E r \in Replies : answer' = [answer EXCEPT ![sreq] = r]
        /\ UNCHANGED <<sreq, pipe, hpc, cpc>>
    BY <1>5 DEF Reply, clientVars, handlerVars, Replies
  <2>2. (Meets(c)' => Meets(c)) /\ (Unheard(c)' => Unheard(c))
    BY <2>1 DEF Meets, Unheard
  <2>3. CASE c # sreq
    BY <1>1, <2>1, <2>2, <2>3, PhaseKept DEF Typed
  <2>4. CASE c = sreq
    <3>1. Meets(c) /\ Waits(c) /\ answer'[c] \in Replies
      BY <2>1, <2>4 DEF Meets, Waits, Typed
    <3>2. Ended(c) \/ Connecting(c)
      BY <1>2, <3>1 DEF OneRequest, Phase, Connecting, AtPrompt, Meeting, Sent, Serving, Answered
    <3>3. ~Has(pipe, c) /\ ~Unheard(c)' /\ ~Waits(c)' /\ ~Meets(c)'
      BY <2>1, <2>4 DEF QueueInv, Busy, Unheard, Waits, Meets
    <3>4. CASE Ended(c)
      BY <2>1, <3>4 DEF Phase, Ended
    <3>5. CASE Connecting(c)
      <4>1. cpc[c] = "reading"
        BY <3>1, <3>5 DEF Connecting
      <4>2. Connecting(c)'
        BY <1>1, <2>1, <3>1, <3>3, <3>5, <4>1 DEF Connecting
      <4> QED
        BY <4>2 DEF Phase
    <3> QED
      BY <3>2, <3>4, <3>5
  <2> QED
    BY <2>3, <2>4
<1>6. CASE Fork
  <2>1. /\ spc = "fork" /\ spc' = "idle" /\ sreq \in Clients
        /\ hpc' = [hpc EXCEPT ![sreq] = "start"]
        /\ UNCHANGED <<sreq, pipe, cpc, answer>>
    BY <1>6 DEF Fork, fifoVars, clientVars, Typed, Busy
  <2>2. (Meets(c)' => Meets(c)) /\ (Unheard(c)' => Unheard(c))
    BY <2>1 DEF Meets, Unheard
  <2>3. CASE c # sreq
    BY <1>1, <2>1, <2>2, <2>3, PhaseKept DEF Typed
  <2>4. CASE c = sreq
    <3>1. hpc[c] = "none" /\ hpc'[c] = "start"
      BY <1>2, <2>1, <2>4 DEF OneRequest, Forking, Typed
    <3>2. Ended(c) \/ Connecting(c) \/ AtPrompt(c)
      BY <3>1 DEF Phase, Meeting, Sent, Serving, Answered
    <3>3. CASE Ended(c)
      BY <2>1, <3>3 DEF Phase, Ended
    <3>4. CASE Connecting(c)
      <4>1. Connecting(c)'
        BY <1>1, <2>1, <2>2, <3>1, <3>4 DEF Connecting, Waits
      <4> QED
        BY <4>1 DEF Phase
    <3>5. CASE AtPrompt(c)
      BY <1>1, <2>1, <3>1, <3>5 DEF Phase, AtPrompt
    <3> QED
      BY <3>2, <3>3, <3>4, <3>5
  <2> QED
    BY <2>3, <2>4
<1> QED
  BY <1>3, <1>4, <1>5, <1>6 DEF ServerStep

(* What a step of client c changes belongs to c.                           *)
LEMMA OthersStay ==
    ASSUME Typed, NEW c \in Clients, NEW d \in Clients, d # c, Phase(d),
           ClientStep(c) \/ User(c) \/ Killed(c)
    PROVE  Phase(d)'
<1>1. UNCHANGED <<spc, sreq, hpc, hcmd>>
  BY DEF ClientStep, User, Killed, Enter, OpenConnection, WriteConnection, CloseConnection,
         OpenResponse, ReadReply, ReadAnswer, OpenRequest, WriteRequest, TypeCommand,
         EndOfInput, serverVars, handlerVars
<1>2. cpc'[d] = cpc[d] /\ asked'[d] = asked[d]
  BY DEF ClientStep, User, Killed, Enter, OpenConnection, WriteConnection, CloseConnection,
         OpenResponse, ReadReply, ReadAnswer, OpenRequest, WriteRequest, TypeCommand,
         EndOfInput, Typed
<1>3. request'[d] = request[d] /\ answer'[d] = answer[d]
  BY DEF ClientStep, User, Killed, Enter, OpenConnection, WriteConnection, CloseConnection,
         OpenResponse, ReadReply, ReadAnswer, OpenRequest, WriteRequest, TypeCommand,
         EndOfInput, Typed, fifoVars
<1>4. d \in connected' <=> d \in connected
  BY DEF ClientStep, User, Killed, Enter, OpenConnection, WriteConnection, CloseConnection,
         OpenResponse, ReadReply, ReadAnswer, OpenRequest, WriteRequest, TypeCommand,
         EndOfInput
<1>5. Has(pipe', d) => Has(pipe, d)
  <2>1. \/ pipe' = pipe \/ pipe' = <<>>
        \/ pipe' = Append(pipe, c)
    BY DEF ClientStep, User, Killed, Enter, OpenConnection, WriteConnection, CloseConnection,
           OpenResponse, ReadReply, ReadAnswer, OpenRequest, WriteRequest, TypeCommand,
           EndOfInput, fifoVars
  <2>2. pipe \in Seq(Clients)
    BY DEF Typed
  <2>3. CASE pipe' = pipe \/ pipe' = <<>>
    BY <2>3, Emptied
  <2>4. CASE pipe' = Append(pipe, c)
    BY <2>2, <2>4, Written
  <2> QED
    BY <2>1, <2>3, <2>4
<1>6. (Meets(d)' => Meets(d)) /\ (Unheard(d)' => Unheard(d))
  BY <1>1, <1>5 DEF Meets, Unheard
<1> QED
  BY <1>1, <1>2, <1>3, <1>4, <1>6, PhaseKept

(* A client's own step takes it from a phase to a phase.                   *)
LEMMA ClientPhase ==
    ASSUME Typed, QueueInv, NEW c \in Clients, Phase(c),
           ClientStep(c) \/ User(c) \/ Killed(c)
    PROVE  Phase(c)'
<1> USE DEF Typed
<1>1. UNCHANGED <<spc, sreq, hpc, hcmd>>
  BY DEF ClientStep, User, Killed, Enter, OpenConnection, WriteConnection, CloseConnection,
         OpenResponse, ReadReply, ReadAnswer, OpenRequest, WriteRequest, TypeCommand,
         EndOfInput, serverVars, handlerVars
<1>2. CASE Killed(c)
  BY <1>2 DEF Killed, Phase, Ended
<1>3. CASE Enter(c) \/ OpenConnection(c) \/ WriteConnection(c) \/ CloseConnection(c)
  <2>1. /\ UNCHANGED <<request, answer, connected>>
        /\ cpc[c] \in Early \cup {"written"}
        /\ cpc'[c] \in {"connecting", "end", "writing", "written", "broken", "openres"}
    BY <1>3 DEF Enter, OpenConnection, WriteConnection, CloseConnection, fifoVars, Early
  <2>2. Connecting(c)
    BY <2>1 DEF Phase, Ended, Connecting, AtPrompt, Meeting, Sent, Serving, Answered, Early
  <2>3. answer[c] = "none" /\ ~Meets(c)
    BY <2>1, <2>2 DEF Connecting, Early
  <2>4. CASE Ended(c)'
    BY <2>4 DEF Phase
  <2>5. CASE ~Ended(c)'
    <3>1. Connecting(c)'
      BY <1>1, <2>1, <2>2, <2>3, <2>5 DEF Connecting, Meets, Ended, Early
    <3> QED
      BY <3>1 DEF Phase
  <2> QED
    BY <2>4, <2>5
<1>4. CASE OpenResponse(c)
  <2>1. /\ UNCHANGED <<pipe, request, answer, connected, asked>> /\ cpc[c] = "openres"
        /\ cpc'[c] = IF hpc[c] \in {"write", "close"} THEN "reading" ELSE "blocked"
    BY <1>4 DEF OpenResponse, fifoVars
  <2>2. Connecting(c) \/ Sent(c) \/ Serving(c) \/ Answered(c)
    BY <2>1 DEF Phase, Ended, AtPrompt, Meeting
  <2>3. CASE Connecting(c)
    <3>1. cpc'[c] = "blocked" /\ answer[c] = "none" /\ ~Meets(c)
      BY <2>1, <2>3 DEF Connecting
    <3>2. Connecting(c)'
      BY <1>1, <2>1, <2>3, <3>1 DEF Connecting, Meets, Early
    <3> QED
      BY <3>2 DEF Phase
  <2>4. CASE Sent(c)
    BY <1>1, <2>1, <2>4 DEF Phase, Sent
  <2>5. CASE Serving(c)
    BY <1>1, <2>1, <2>5 DEF Phase, Serving
  <2>6. CASE Answered(c)
    BY <1>1, <2>1, <2>6 DEF Phase, Answered
  <2> QED
    BY <2>2, <2>3, <2>4, <2>5, <2>6
<1>5. CASE ReadReply(c)
  <2>1. /\ cpc[c] = "reading" /\ c \notin connected /\ UNCHANGED request
        /\ answer'[c] = "none"
        /\ \/ cpc'[c] = "prompt" /\ c \in connected'
           \/ cpc'[c] = "end"
    BY <1>5 DEF ReadReply
  <2>2. Connecting(c)
    BY <2>1 DEF Phase, Ended, AtPrompt, Meeting, Sent, Serving, Answered
  <2>3. CASE cpc'[c] = "end"
    BY <2>3 DEF Phase, Ended
  <2>4. CASE cpc'[c] = "prompt" /\ c \in connected'
    BY <1>1, <2>1, <2>2, <2>4 DEF Phase, Connecting, AtPrompt
  <2> QED
    BY <2>1, <2>3, <2>4
<1>6. CASE ReadAnswer(c)
  <2>1. /\ cpc[c] = "reading" /\ c \in connected /\ answer[c] # "none" /\ cpc'[c] = "prompt"
        /\ UNCHANGED <<request, connected>> /\ answer'[c] = "none"
    BY <1>6 DEF ReadAnswer
  <2>2. Answered(c)
    BY <2>1 DEF Phase, Ended, Connecting, AtPrompt, Meeting, Sent, Serving
  <2> QED
    BY <1>1, <2>1, <2>2 DEF Phase, AtPrompt, Answered
<1>7. CASE OpenRequest(c)
  <2>1. /\ cpc[c] = "openreq" /\ hpc[c] = "opening" /\ cpc'[c] = "writereq"
        /\ UNCHANGED <<answer, connected>> /\ request'[c] = "open"
    BY <1>7 DEF OpenRequest
  <2>2. AtPrompt(c)
    BY <2>1 DEF Phase, Ended, Connecting, Meeting, Sent, Serving, Answered, Early
  <2> QED
    BY <1>1, <2>1, <2>2 DEF Phase, AtPrompt, Meeting
<1>8. CASE WriteRequest(c)
  <2>1. /\ cpc[c] = "writereq" /\ cpc'[c] = "openres"
        /\ UNCHANGED <<answer, connected>> /\ request'[c] = "data"
    BY <1>8 DEF WriteRequest
  <2>2. Meeting(c)
    BY <2>1 DEF Phase, Ended, Connecting, AtPrompt, Sent, Serving, Answered, Early
  <2> QED
    BY <1>1, <2>1, <2>2 DEF Phase, Meeting, Sent
<1>9. CASE TypeCommand(c)
  <2>1. /\ cpc[c] = "prompt" /\ cpc'[c] = "openreq"
        /\ UNCHANGED <<answer, connected, request>>
    BY <1>9 DEF TypeCommand, fifoVars
  <2>2. AtPrompt(c)
    BY <2>1 DEF Phase, Ended, Connecting, Meeting, Sent, Serving, Answered, Early
  <2> QED
    BY <1>1, <2>1, <2>2 DEF Phase, AtPrompt
<1>10. CASE EndOfInput(c)
  BY <1>10 DEF EndOfInput, Phase, Ended
<1> QED
  BY <1>2, <1>3, <1>4, <1>5, <1>6, <1>7, <1>8, <1>9, <1>10 DEF ClientStep, User

(* A handler's step takes its client from a phase to a phase, and no other *)
(* client.                                                                 *)
LEMMA HandlerPhase ==
    ASSUME Typed, NEW c \in Clients, NEW d \in Clients, Phase(d), HandlerStep(c)
    PROVE  Phase(d)'
<1> USE DEF Typed
<1>1. UNCHANGED <<spc, sreq, pipe, connected, asked>>
  BY DEF HandlerStep, AwaitCommand, ReadCommand, Serve, FindResponse, MeetReader, Answer,
         CloseAnswer, serverVars, fifoVars, clientVars
<1>2. (Meets(d)' => Meets(d)) /\ (Unheard(d)' => Unheard(d))
  BY <1>1 DEF Meets, Unheard
<1>3. ASSUME d # c PROVE Phase(d)'
  <2>1. cpc'[d] = cpc[d] /\ answer'[d] = answer[d] /\ request'[d] = request[d]
    BY <1>3 DEF HandlerStep, AwaitCommand, ReadCommand, Serve, FindResponse, MeetReader, Answer,
                CloseAnswer, fifoVars, clientVars
  <2>2. hpc'[d] = hpc[d] /\ hcmd'[d] = hcmd[d]
    BY <1>3 DEF HandlerStep, AwaitCommand, ReadCommand, Serve, FindResponse, MeetReader, Answer,
                CloseAnswer
  <2> QED
    BY <1>1, <1>2, <2>1, <2>2, PhaseKept
<1>4. ASSUME Ended(c), d = c PROVE Phase(c)'
  <2>1. cpc'[c] = cpc[c]
    BY <1>4 DEF HandlerStep, AwaitCommand, ReadCommand, Serve, FindResponse, MeetReader, Answer,
                CloseAnswer, clientVars, Ended
  <2> QED
    BY <1>4, <2>1 DEF Phase, Ended
<1>5. ASSUME ~Ended(c), d = c PROVE Phase(c)'
  <2> USE <1>1, <1>5
  <2>1. CASE AwaitCommand(c)
    <3>1. /\ hpc[c] = "start" /\ hpc'[c] = "opening"
          /\ UNCHANGED <<cpc, answer, request, hcmd>>
      BY <2>1 DEF AwaitCommand, fifoVars, clientVars
    <3>2. CASE Connecting(c)
      <4>1. Connecting(c)'
        BY <1>2, <3>1, <3>2 DEF Connecting, Waits
      <4> QED
        BY <4>1 DEF Phase
    <3>3. CASE AtPrompt(c)
      BY <3>1, <3>3 DEF Phase, AtPrompt
    <3>4. CASE Answered(c)
      BY <3>1, <3>4 DEF Phase, Answered
    <3> QED
      BY <3>1, <3>2, <3>3, <3>4 DEF Phase, Meeting, Sent, Serving
  <2>2. CASE ReadCommand(c)
    <3>1. /\ hpc[c] = "opening" /\ request[c] \in {"data", "eof"} /\ hpc'[c] = "serve"
          /\ UNCHANGED <<cpc, answer>> /\ request'[c] = "empty"
          /\ request[c] = "data" => hcmd'[c] = asked[c]
      BY <2>2 DEF ReadCommand, fifoVars, clientVars
    <3>2. Sent(c)
      BY <3>1 DEF Phase, Connecting, AtPrompt, Meeting, Serving, Answered
    <3> QED
      BY <3>1, <3>2 DEF Phase, Sent, Serving
  <2>3. CASE Serve(c) \/ FindResponse(c)
    <3>1. /\ hpc[c] \in {"serve", "answer"} /\ hpc'[c] \in {"gone", "answer", "wait"}
          /\ UNCHANGED <<cpc, answer, request, hcmd>>
      BY <2>3 DEF Serve, FindResponse, fifoVars, clientVars
    <3>2. Serving(c)
      BY <3>1 DEF Phase, Connecting, AtPrompt, Meeting, Sent, Answered
    <3> QED
      BY <3>1, <3>2 DEF Phase, Serving
  <2>4. CASE MeetReader(c)
    <3>1. /\ hpc[c] = "wait" /\ hpc'[c] = "write"
          /\ cpc'[c] = cpc[c] \/ cpc'[c] = "reading"
          /\ UNCHANGED <<answer, request, hcmd>>
      BY <2>4 DEF MeetReader, fifoVars
    <3>2. Serving(c)
      BY <3>1 DEF Phase, Connecting, AtPrompt, Meeting, Sent, Answered
    <3> QED
      BY <3>1, <3>2 DEF Phase, Serving
  <2>5. CASE Answer(c)
    <3>1. /\ hpc[c] = "write" /\ hpc'[c] = "close" /\ answer'[c] = hcmd[c]
          /\ UNCHANGED <<cpc, request, hcmd>>
      BY <2>5 DEF Answer, clientVars
    <3>2. Serving(c)
      BY <3>1 DEF Phase, Connecting, AtPrompt, Meeting, Sent, Answered
    <3> QED
      BY <3>1, <3>2 DEF Phase, Serving, Answered
  <2>6. CASE CloseAnswer(c)
    <3>1. /\ hpc[c] = "close" /\ hpc'[c] \in {"gone", "start"}
          /\ UNCHANGED <<cpc, answer, request, hcmd>>
      BY <2>6 DEF CloseAnswer, NextRound, fifoVars, clientVars
    <3>2. CASE AtPrompt(c)
      BY <3>1, <3>2 DEF Phase, AtPrompt
    <3>3. CASE Answered(c)
      BY <3>1, <3>3 DEF Phase, Answered
    <3> QED
      BY <3>1, <3>2, <3>3 DEF Phase, Connecting, Meeting, Sent, Serving
  <2> QED
    BY <2>1, <2>2, <2>3, <2>4, <2>5, <2>6 DEF HandlerStep
<1> QED
  BY <1>3, <1>4, <1>5
-----------------------------------------------------------------------------
(* Places: the handlers there have been.                                   *)

Handled(f) == {c \in Clients : f[c] # "none"}

(* A handler forked is one more.                                           *)
LEMMA OneHandlerMore ==
    ASSUME NEW f, NEW g, NEW c \in Clients, f[c] = "none", g[c] # "none",
           \A d \in Clients : d # c => g[d] = f[d]
    PROVE  Cardinality(Handled(g)) = Cardinality(Handled(f)) + 1
<1>1. Handled(g) = Handled(f) \cup {c} /\ c \notin Handled(f)
  BY DEF Handled
<1>2. IsFiniteSet(Handled(f))
  BY ClientsAssumption, FS_Subset DEF Handled
<1> QED
  BY <1>1, <1>2, FS_AddElement

(* Handlers that end still count, as active_clients counts them.           *)
LEMMA SameHandlers ==
    ASSUME NEW f, NEW g, \A d \in Clients : f[d] = "none" <=> g[d] = "none"
    PROVE  Handled(g) = Handled(f)
  BY DEF Handled

(* No place is taken at the start.                                         *)
LEMMA InitPlaces == Init => PlacesSuffice
<1> SUFFICES ASSUME Init PROVE PlacesSuffice
  OBVIOUS
<1>1. Handled(hpc) = {} /\ active = 0 /\ spc = "idle" /\ max_client_count \in Nat
  BY PlacesAssumption DEF Init, Handled
<1> QED
  BY <1>1, FS_EmptySet DEF PlacesSuffice, Handled

(* No step takes a place that is not there: the test of Reply still holds  *)
(* at Fork, because nothing but Fork takes places.                         *)
LEMMA StepPlaces ==
    ASSUME Typed, QueueInv, PlacesSuffice, [Next]_vars PROVE PlacesSuffice'
<1>1. /\ Cardinality(Handled(hpc)) = active /\ active <= max_client_count
      /\ spc = "fork" => active < max_client_count /\ hpc[sreq] = "none"
  BY DEF PlacesSuffice, Handled
<1>2. SUFFICES /\ Cardinality(Handled(hpc')) = active' /\ active' <= max_client_count'
               /\ spc' = "fork" => active' < max_client_count' /\ hpc'[sreq'] = "none"
  BY DEF PlacesSuffice, Handled
<1>3. CASE Fork
  <2>1. /\ spc = "fork" /\ spc' = "idle" /\ sreq \in Clients
        /\ hpc' = [hpc EXCEPT ![sreq] = "start"] /\ active' = active + 1
        /\ UNCHANGED max_client_count
    BY <1>3 DEF Fork, Typed, Busy
  <2>2. hpc[sreq] = "none" /\ hpc'[sreq] # "none" /\ \A d \in Clients : d # sreq => hpc'[d] = hpc[d]
    BY <1>1, <2>1 DEF Typed
  <2>3. Cardinality(Handled(hpc')) = active'
    BY <1>1, <2>1, <2>2, OneHandlerMore
  <2> QED
    BY <1>1, <2>1, <2>3 DEF Typed
<1>4. CASE Reply
  <2>1. /\ spc = "write" /\ spc' = IF HasPlace THEN "fork" ELSE "idle"
        /\ UNCHANGED <<sreq, active, max_client_count, hpc>>
    BY <1>4 DEF Reply, places, handlerVars
  <2>2. sreq \in Clients /\ Meets(sreq)
    BY <2>1 DEF Typed, Busy, Meets
  <2>3. hpc[sreq] = "none"
    BY <2>2 DEF QueueInv, OneRequest, Waits
  <2> QED
    BY <1>1, <2>1, <2>3 DEF HasPlace
<1>5. CASE OpenServerFifo \/ ReadConnection \/ CloseServerFifo \/ ReplyOpen \/ ShutDown
  <2>1. UNCHANGED <<active, max_client_count, hpc>> /\ spc' # "fork"
    BY <1>5 DEF OpenServerFifo, ReadConnection, CloseServerFifo, ReplyOpen, ShutDown, places,
                handlerVars
  <2> QED
    BY <1>1, <2>1
<1>6. ASSUME NEW c \in Clients, ClientStep(c) \/ User(c) \/ Killed(c)
      PROVE  UNCHANGED <<serverVars, hpc>>
  BY <1>6 DEF ClientStep, User, Killed, Enter, OpenConnection, WriteConnection, CloseConnection,
         OpenResponse, ReadReply, ReadAnswer, OpenRequest, WriteRequest, TypeCommand,
         EndOfInput, handlerVars
<1>7. ASSUME NEW c \in Clients, HandlerStep(c)
      PROVE  /\ UNCHANGED <<spc, sreq, active, max_client_count>>
             /\ Handled(hpc') = Handled(hpc)
             /\ sreq \in Clients /\ hpc[sreq] = "none" => hpc'[sreq] = "none"
  <2>1. UNCHANGED <<spc, sreq, active, max_client_count>>
    BY <1>7 DEF HandlerStep, AwaitCommand, ReadCommand, Serve, FindResponse, MeetReader, Answer,
           CloseAnswer, serverVars, places
  <2>2. hpc[c] # "none"
    BY <1>7 DEF HandlerStep, AwaitCommand, ReadCommand, Serve, FindResponse, MeetReader, Answer,
           CloseAnswer
  <2>3. \E s \in HandlerPCs \ {"none"} : hpc' = [hpc EXCEPT ![c] = s]
    BY <1>7 DEF HandlerStep, AwaitCommand, ReadCommand, Serve, FindResponse, MeetReader, Answer,
           CloseAnswer, NextRound, HandlerPCs
  <2>4. \A d \in Clients : hpc[d] = "none" <=> hpc'[d] = "none"
    BY <2>2, <2>3 DEF Typed
  <2> QED
    BY <2>1, <2>4, SameHandlers
<1>8. CASE UNCHANGED <<serverVars, hpc>>
  BY <1>1, <1>8 DEF serverVars, places
<1>9. ASSUME NEW c \in Clients, HandlerStep(c)
      PROVE  /\ Cardinality(Handled(hpc')) = active' /\ active' <= max_client_count'
             /\ spc' = "fork" => active' < max_client_count' /\ hpc'[sreq'] = "none"
  <2>1. spc = "fork" => sreq \in Clients
    BY DEF Typed, Busy
  <2> QED
    BY <1>1, <1>7, <1>9, <2>1
<1>10. CASE UNCHANGED vars
  BY <1>8, <1>10 DEF vars, handlerVars
<1> QED
  BY <1>3, <1>4, <1>5, <1>6, <1>8, <1>9, <1>10 DEF Next, ServerStep
-----------------------------------------------------------------------------
(* The invariant, and the theorems.                                        *)

IInv == Typed /\ QueueInv /\ PlacesSuffice /\ \A c \in Clients : Phase(c)

(* Requests, places and the phase of every connection, at every moment of  *)
(* a run with any number of clients: the invariant that each step of the   *)
(* server (main, 607-673), of a client and of a handler keeps.             *)
THEOREM Invariance == Spec => []IInv
<1>1. Init => IInv
  BY InitTyped, InitQueue, InitPlaces, InitPhase DEF IInv
<1>2. IInv /\ [Next]_vars => IInv'
  <2> SUFFICES ASSUME IInv, [Next]_vars PROVE IInv'
    OBVIOUS
  <2>1. Typed /\ QueueInv /\ PlacesSuffice /\ \A c \in Clients : Phase(c)
    BY DEF IInv
  <2>2. CASE UNCHANGED vars
    <3>1. UNCHANGED <<spc, sreq, pipe, hpc, cpc, connected, request, answer, asked, hcmd>>
      BY <2>2 DEF vars, serverVars, fifoVars, clientVars, handlerVars
    <3>2. QueueInv'
      BY <2>1, <3>1, StillServer
    <3>3. \A c \in Clients : Phase(c)'
      BY <2>1, <3>1, PhaseKept DEF Meets, Unheard
    <3> QED
      BY <2>1, <3>2, <3>3, StepTyped, StepPlaces DEF IInv
  <2>3. CASE ServerStep \/ ShutDown
    BY <2>1, <2>3, StepTyped, StepPlaces, ServerQueue, ServerPhase DEF IInv
  <2>4. ASSUME NEW c \in Clients, ClientStep(c) \/ User(c) \/ Killed(c) PROVE IInv'
    <3>1. \A d \in Clients : Phase(d)'
      BY <2>1, <2>4, OthersStay, ClientPhase
    <3> QED
      BY <2>1, <2>4, <3>1, StepTyped, StepPlaces, ClientQueue DEF IInv
  <2>5. ASSUME NEW c \in Clients, HandlerStep(c) PROVE IInv'
    <3>1. \A d \in Clients : Phase(d)'
      BY <2>1, <2>5, HandlerPhase
    <3> QED
      BY <2>1, <2>5, <3>1, StepTyped, StepPlaces, HandlerQueue DEF IInv
  <2> QED
    BY <2>2, <2>3, <2>4, <2>5 DEF Next
<1> QED
  BY <1>1, <1>2, PTL DEF Spec

(* A client is told OK only for a place of its own (server.c:632-653), for *)
(* any number of clients and any max_client_count.                         *)
THEOREM EveryOkHasAPlace == Spec => []PlacesSuffice
<1>1. IInv => PlacesSuffice
  BY DEF IInv
<1> QED
  BY <1>1, Invariance, PTL

(* Client and handler stay in step (client.c:117-166, server.c:389-527),   *)
(* whatever the interleaving: nothing is left over at the prompt, and the  *)
(* answer read is the answer to the command asked.                         *)
THEOREM AnswersMatchCommands == Spec => []InStep
<1>1. IInv => InStep
  <2> SUFFICES ASSUME IInv, NEW c \in connected
               PROVE  /\ cpc[c] \in {"prompt", "openreq", "writereq"} =>
                            /\ request[c] \in {"empty", "open"} /\ answer[c] = "none"
                            /\ hpc[c] \in {"none", "start", "opening", "close", "gone"}
                      /\ cpc[c] = "reading" /\ answer[c] # "none" => answer[c] = asked[c]
    BY DEF InStep
  <2>1. Phase(c)
    BY DEF IInv, Typed
  <2> QED
    BY <2>1 DEF Phase, Ended, Connecting, AtPrompt, Meeting, Sent, Serving, Answered
<1> QED
  BY <1>1, Invariance, PTL
=============================================================================
