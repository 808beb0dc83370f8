------------------------------ MODULE PideShop ------------------------------
(***************************************************************************)
(* The pide shop server (sys07, server.c) with its customers (client.c).   *)
(* A generator opens one connection it keeps, the generator socket, then a *)
(* connection per customer, over which it sends the order.  The server's   *)
(* main thread accepts; a handler thread per connection reads it, appends  *)
(* the order and closes; cooks prepare orders and delivery persons carry   *)
(* them, all around the array orders[], one mutex and one condition        *)
(* variable.  When the delivered orders equal the orders received so far   *)
(* the server tells client_gen_socket and starts a new session.            *)
(*                                                                         *)
(* Descriptor numbers are modelled because the code depends on them: a     *)
(* socket number of 0 means `no generator', accept returns the lowest free *)
(* number, and a number may be closed by several threads.  Each section    *)
(* under orders_mutex is one action.                                       *)
(*                                                                         *)
(* A definition marked `Defect' is no part of the specification: it is a   *)
(* slip the code could have had in the definition it stands before, kept   *)
(* to show that the properties notice it.                                  *)
(***************************************************************************)
EXTENDS Naturals, Sequences, FiniteSets

CONSTANTS Generators,    \* client processes
          Customers,     \* orders each generator sends
          Cooks, Drivers,
          MaxOrders,     \* MAX_ORDERS
          Capacity,      \* MAX_DELIVERY_CAPACITY
          Nobody,        \* no connection; the sender of an order nobody sent
          StdIn          \* the server's standard input, number 0 at first

ASSUME PoolAssumption  == /\ IsFiniteSet(Generators)
                          /\ IsFiniteSet(Cooks) /\ IsFiniteSet(Drivers)
                          /\ Cooks \cap Drivers = {}
ASSUME LimitAssumption == /\ Customers \in Nat /\ MaxOrders \in Nat \ {0}
                          /\ Capacity \in Nat \ {0}

(* Connection <<g, 0>> is generator g's own, <<g, i>> its i-th customer's. *)
Conns == Generators \X (0..Customers)
ASSUME NobodyAssumption == {Nobody, StdIn} \cap Conns = {} /\ Nobody # StdIn

Slots == 0..(MaxOrders - 1)
FdNumbers == 0..Cardinality(Conns)

VARIABLES
    gpc, next,     \* where each generator is, and the customer its loop is at
    backlog,       \* connections established and not yet accepted
    inbox,         \* [Conns -> what the server's next read finds]
    reply,         \* connections "All orders delivered" was written to
    fdTable,       \* [FdNumbers -> Conns \cup {StdIn, Nobody}]
    client_gen_socket,
    hpc, sock,     \* handler threads: where each is, its socket number,
    source,        \*   the connection its read is on,
    got,           \*   and whose order it read (Nobody: none)
    orders, order_count, delivered_count,
    waiting,       \* cooks and drivers blocked on orders_cond
    cooking,       \* [Cooks -> slot being prepared, or None]
    carrying,      \* [Drivers -> slots still to deliver, in order]
    busy           \* drivers between taking orders and coming back

clientVars  == <<gpc, next>>
handlerVars == <<hpc, sock, source, got>>
netVars     == <<backlog, inbox, reply, fdTable, client_gen_socket>>
orderVars   == <<orders, order_count, delivered_count>>
staffVars   == <<cooking, carrying, busy>>
vars == <<clientVars, handlerVars, netVars, orderVars, waiting, staffVars>>

None == MaxOrders
Staff == Cooks \cup Drivers

Init == /\ gpc = [g \in Generators |-> "start"] /\ next = [g \in Generators |-> 1]
        /\ backlog = <<>>
        /\ inbox = [c \in Conns |-> "nothing"]
        /\ reply = {}
        /\ fdTable = [n \in FdNumbers |-> IF n = 0 THEN StdIn ELSE Nobody]
        /\ client_gen_socket = 0
        /\ hpc = [c \in Conns |-> "none"] /\ sock = [c \in Conns |-> 0]
        /\ source = [c \in Conns |-> Nobody] /\ got = [c \in Conns |-> Nobody]
        /\ orders = [i \in Slots |-> [status |-> "new", from |-> Nobody]]
        /\ order_count = 0 /\ delivered_count = 0
        /\ waiting = {}
        /\ cooking = [c \in Cooks |-> None]
        /\ carrying = [d \in Drivers |-> <<>>] /\ busy = {}
-----------------------------------------------------------------------------
(* client.c: the generator's connection, the loop over the customers, each *)
(* of which connects, writes one order and closes, and the wait.           *)

ServerVars == <<handlerVars, orderVars, waiting, staffVars, reply, fdTable,
                client_gen_socket>>

AfterCustomer(i) == IF i > Customers THEN "wait" ELSE "connect"

Connect(g) ==
    /\ gpc[g] = "start"
    /\ backlog' = Append(backlog, <<g, 0>>)
    /\ gpc' = [gpc EXCEPT ![g] = AfterCustomer(1)]
    /\ UNCHANGED <<next, inbox, ServerVars>>

ConnectCustomer(g) ==
    /\ gpc[g] = "connect"
    /\ backlog' = Append(backlog, <<g, next[g]>>)
    /\ gpc' = [gpc EXCEPT ![g] = "send"]
    /\ UNCHANGED <<next, inbox, ServerVars>>

SendOrder(g) ==
    /\ gpc[g] = "send"
    /\ inbox' = [inbox EXCEPT ![<<g, next[g]>>] = "order"]
    /\ next' = [next EXCEPT ![g] = @ + 1]
    /\ gpc' = [gpc EXCEPT ![g] = AfterCustomer(next[g] + 1)]
    /\ UNCHANGED <<backlog, ServerVars>>

(* The completion message, or end of file once no thread of the server has *)
(* the generator's connection open; either way the generator exits.        *)
Dropped(c) == /\ hpc[c] # "none"
              /\ \A n \in FdNumbers : fdTable[n] # c
              /\ \A h \in Conns : hpc[h] = "reading" => source[h] # c

HearBack(g) ==
    /\ gpc[g] = "wait"
    /\ \/ <<g, 0>> \in reply /\ gpc' = [gpc EXCEPT ![g] = "served"]
       \/ <<g, 0>> \notin reply /\ Dropped(<<g, 0>>) /\ gpc' = [gpc EXCEPT ![g] = "gone"]
    /\ inbox' = [inbox EXCEPT ![<<g, 0>>] = "eof"]
    /\ UNCHANGED <<next, backlog, ServerVars>>
-----------------------------------------------------------------------------
(* main: accept gives the connection the lowest free number; the first one *)
(* to come while client_gen_socket is 0 is taken for the generator's.      *)

FreeFd == CHOOSE n \in FdNumbers : /\ fdTable[n] = Nobody
                                   /\ \A m \in 0..(n - 1) : fdTable[m] # Nobody

Accept ==
    /\ backlog # <<>>
    /\ LET c == Head(backlog)
       IN /\ fdTable' = [fdTable EXCEPT ![FreeFd] = c]
          /\ sock' = [sock EXCEPT ![c] = FreeFd]
          /\ hpc' = [hpc EXCEPT ![c] = "start"]
    /\ backlog' = Tail(backlog)
    /\ client_gen_socket' = IF client_gen_socket = 0 THEN FreeFd ELSE client_gen_socket
    /\ UNCHANGED <<clientVars, inbox, reply, source, got, orderVars, waiting, staffVars>>
-----------------------------------------------------------------------------
(* client_handler and handle_client.                                       *)

(* read enters the kernel: the number means what the table says now.  On a *)
(* closed number it fails at once and the buffer stays empty.              *)
ReadStart(h) ==
    /\ hpc[h] = "start"
    /\ source' = [source EXCEPT ![h] = fdTable[sock[h]]]
    /\ hpc' = [hpc EXCEPT ![h] = IF source'[h] \in Conns THEN "reading" ELSE "append"]
    /\ UNCHANGED <<clientVars, sock, got, netVars, orderVars, waiting, staffVars>>

ReadReturns(h) ==
    /\ hpc[h] = "reading"
    /\ LET c == source[h]
       IN /\ inbox[c] # "nothing"
          /\ got' = [got EXCEPT ![h] = IF inbox[c] = "order" THEN c ELSE Nobody]
          /\ inbox' = [inbox EXCEPT ![c] = "eof"]
    /\ hpc' = [hpc EXCEPT ![h] = "append"]
    /\ UNCHANGED <<clientVars, sock, source, backlog, reply, fdTable,
                   client_gen_socket, orderVars, waiting, staffVars>>

(* pthread_cond_signal wakes one waiter, whether cook or driver.           *)
Signal == \/ waiting = {} /\ UNCHANGED waiting
          \/ \E s \in waiting : waiting' = waiting \ {s}

BroadcastForgotten == UNCHANGED waiting    \* Defect: nobody is notified

Broadcast == waiting' = {}

RoomUpToLimit == order_count <= MaxOrders    \* Defect: one order too many

Room == order_count < MaxOrders

(* The section under the mutex.  Nothing tells a message from an empty     *)
(* buffer: what sscanf cannot read is an order for location (0, 0).        *)
AppendOrder(h) ==
    /\ hpc[h] = "append"
    /\ \/ /\ Room
          /\ orders' = [orders EXCEPT ![order_count] = [status |-> "new", from |-> got[h]]]
          /\ order_count' = order_count + 1
          /\ Signal
       \/ /\ ~Room
          /\ UNCHANGED <<orders, order_count, waiting>>
    /\ hpc' = [hpc EXCEPT ![h] = "close"]
    /\ UNCHANGED <<clientVars, sock, source, got, netVars, delivered_count,
                   staffVars>>

(* handle_client closes the socket, and client_handler closes it again.    *)
CloseSocket(h) ==
    /\ hpc[h] \in {"close", "again"}
    /\ fdTable' = [fdTable EXCEPT ![sock[h]] = Nobody]
    /\ hpc' = [hpc EXCEPT ![h] = IF @ = "close" THEN "again" ELSE "done"]
    /\ UNCHANGED <<clientVars, sock, source, got, backlog, inbox, reply,
                   client_gen_socket, orderVars, waiting, staffVars>>
-----------------------------------------------------------------------------
(* Cooks.                                                                  *)

Received == 0..(order_count - 1)

(* Defect: orders already being prepared are taken once more.              *)
ToCookAgain == {i \in Received : orders[i].status \in {"new", "preparing"}}

ToCook  == {i \in Received : orders[i].status = "new"}
ToCarry == {i \in Received : orders[i].status = "ready"}

Idle(c) == cooking[c] = None /\ c \notin waiting

StartCooking(c) ==
    /\ Idle(c)
    /\ \E i \in ToCook :
          /\ \A j \in ToCook : i <= j
          /\ orders' = [orders EXCEPT ![i].status = "preparing"]
          /\ cooking' = [cooking EXCEPT ![c] = i]
    /\ UNCHANGED <<clientVars, handlerVars, netVars, order_count, delivered_count,
                   waiting, carrying, busy>>

CookWaits(c) ==
    /\ Idle(c) /\ ToCook = {}
    /\ waiting' = waiting \cup {c}
    /\ UNCHANGED <<clientVars, handlerVars, netVars, orderVars, staffVars>>

FinishCooking(c) ==
    /\ cooking[c] # None
    /\ orders' = [orders EXCEPT ![cooking[c]].status = "ready"]
    /\ cooking' = [cooking EXCEPT ![c] = None]
    /\ Broadcast
    /\ UNCHANGED <<clientVars, handlerVars, netVars, order_count, delivered_count,
                   carrying, busy>>
-----------------------------------------------------------------------------
(* Delivery persons.                                                       *)

AtCounter(d) == d \notin busy \cup waiting

(* The first orders that are ready, at most Capacity of them, in order.    *)
IsLoad(s) == /\ \A k \in DOMAIN s : s[k] \in ToCarry
             /\ \A j, k \in DOMAIN s : j < k => s[j] < s[k]
             /\ \A i \in ToCarry : (\E k \in DOMAIN s : s[k] = i)
                                   \/ (Len(s) = Capacity /\ \A k \in DOMAIN s : s[k] < i)
             /\ Len(s) <= Capacity

TakeOrders(d) ==
    /\ AtCounter(d) /\ ToCarry # {}
    /\ \E n \in 1..Capacity : \E s \in [1..n -> ToCarry] :
          /\ IsLoad(s)
          /\ carrying' = [carrying EXCEPT ![d] = s]
          /\ orders' = [i \in Slots |-> IF \E k \in 1..n : s[k] = i
                                        THEN [orders[i] EXCEPT !.status = "carried"]
                                        ELSE orders[i]]
    /\ busy' = busy \cup {d}
    /\ UNCHANGED <<clientVars, handlerVars, netVars, order_count, delivered_count,
                   waiting, cooking>>

DriverWaits(d) ==
    /\ AtCounter(d) /\ ToCarry = {}
    /\ waiting' = waiting \cup {d}
    /\ UNCHANGED <<clientVars, handlerVars, netVars, orderVars, staffVars>>

SessionOverEarly(count) == count + 1 >= order_count    \* Defect: off by one

SessionOver(count) == count = order_count

(* Defect: the new session inherits the count of the old one.              *)
CheckAllDeliveredKeeping(count) ==
    /\ delivered_count' = count
    /\ IF SessionOver(count)
       THEN /\ reply' = reply \cup ({fdTable[client_gen_socket]} \cap Conns)
            /\ fdTable' = [fdTable EXCEPT ![client_gen_socket] = Nobody]
            /\ client_gen_socket' = 0
            /\ order_count' = 0
       ELSE UNCHANGED <<reply, fdTable, client_gen_socket, order_count>>

(* check_and_notify_all_delivered: tell and close whatever the number      *)
(* client_gen_socket stands for, and start a new session.                  *)
CheckAllDelivered(count) ==
    IF SessionOver(count)
    THEN /\ reply' = reply \cup ({fdTable[client_gen_socket]} \cap Conns)
         /\ fdTable' = [fdTable EXCEPT ![client_gen_socket] = Nobody]
         /\ client_gen_socket' = 0
         /\ delivered_count' = 0
         /\ order_count' = 0
    ELSE /\ delivered_count' = count
         /\ UNCHANGED <<reply, fdTable, client_gen_socket, order_count>>

Deliver(d) ==
    /\ carrying[d] # <<>>
    /\ orders' = [orders EXCEPT ![Head(carrying[d])].status = "delivered"]
    /\ carrying' = [carrying EXCEPT ![d] = Tail(@)]
    /\ CheckAllDelivered(delivered_count + 1)
    /\ UNCHANGED <<clientVars, handlerVars, backlog, inbox, waiting, cooking, busy>>

ComeBack(d) ==
    /\ d \in busy /\ carrying[d] = <<>>
    /\ busy' = busy \ {d}
    /\ Broadcast
    /\ UNCHANGED <<clientVars, handlerVars, netVars, orderVars, cooking, carrying>>
-----------------------------------------------------------------------------
SpuriousWakeup ==
    /\ \E s \in waiting : waiting' = waiting \ {s}
    /\ UNCHANGED <<clientVars, handlerVars, netVars, orderVars, staffVars>>

ClientStep(g)  == Connect(g) \/ ConnectCustomer(g) \/ SendOrder(g) \/ HearBack(g)
HandlerStep(h) == ReadStart(h) \/ ReadReturns(h) \/ AppendOrder(h) \/ CloseSocket(h)
CookStep(c)    == StartCooking(c) \/ CookWaits(c) \/ FinishCooking(c)
DriverStep(d)  == TakeOrders(d) \/ DriverWaits(d) \/ Deliver(d) \/ ComeBack(d)

Next == \/ \E g \in Generators : ClientStep(g)
        \/ Accept
        \/ \E h \in Conns : HandlerStep(h)
        \/ \E c \in Cooks : CookStep(c)
        \/ \E d \in Drivers : DriverStep(d)
        \/ SpuriousWakeup

(* Every thread and process that can run does; the sleeps that stand for   *)
(* cooking and driving end.  Nothing makes a wakeup happen spuriously.     *)
Fairness == /\ WF_vars(Accept)
            /\ \A g \in Generators : WF_vars(ClientStep(g))
            /\ \A h \in Conns : WF_vars(HandlerStep(h))
            /\ \A c \in Cooks : WF_vars(CookStep(c))
            /\ \A d \in Drivers : WF_vars(DriverStep(d))

Spec == Init /\ [][Next]_vars /\ Fairness
-----------------------------------------------------------------------------
(* What must hold.                                                         *)

Statuses == {"new", "preparing", "ready", "carried", "delivered"}

(* Every variable stays in its range; in particular order_count never      *)
(* passes MAX_ORDERS and every slot a cook or driver holds is one of the   *)
(* array's.                                                                *)
TypeOK ==
    /\ gpc \in [Generators -> {"start", "connect", "send", "wait", "served", "gone"}]
    /\ next \in [Generators -> 1..(Customers + 1)]
    /\ backlog \in Seq(Conns)
    /\ inbox \in [Conns -> {"nothing", "order", "eof"}]
    /\ reply \subseteq Conns
    /\ fdTable \in [FdNumbers -> Conns \cup {StdIn, Nobody}]
    /\ client_gen_socket \in FdNumbers
    /\ hpc \in [Conns -> {"none", "start", "reading", "append", "close", "again", "done"}]
    /\ sock \in [Conns -> FdNumbers]
    /\ source \in [Conns -> Conns \cup {StdIn, Nobody}]
    /\ got \in [Conns -> Conns \cup {Nobody}]
    /\ orders \in [Slots -> [status : Statuses, from : Conns \cup {Nobody}]]
    /\ order_count \in 0..MaxOrders /\ delivered_count \in 0..MaxOrders
    /\ waiting \subseteq Staff
    /\ cooking \in [Cooks -> Slots \cup {None}]
    /\ carrying \in [Drivers -> Seq(Slots)]
    /\ busy \subseteq Drivers

(* The counter the whole shop's session turns on counts exactly the        *)
(* delivered orders of the session, so `delivered_count == order_count'    *)
(* (357) really means that no order received is undelivered.               *)
CountIsDelivered ==
    delivered_count = Cardinality({i \in Received : orders[i].status = "delivered"})

(* Cooks and drivers keep array indices across unlocked sections and the   *)
(* session reset makes the slots reusable: every index held is still a     *)
(* slot of the session, in the state its holder left it in, and held by    *)
(* nobody else (cook_function 245-264, delivery_function 286-313).         *)
Carried(d) == {carrying[d][k] : k \in DOMAIN carrying[d]}
HoldersOwnTheirSlots ==
    /\ \A c \in Cooks : cooking[c] # None =>
          /\ cooking[c] \in Received
          /\ orders[cooking[c]].status = "preparing"
          /\ \A e \in Cooks : cooking[e] = cooking[c] => e = c
    /\ \A d \in Drivers :
          /\ \A i \in Carried(d) : i \in Received /\ orders[i].status = "carried"
          /\ \A e \in Drivers : e # d => Carried(e) \cap Carried(d) = {}
          /\ \A j, k \in DOMAIN carrying[d] : carrying[d][j] = carrying[d][k] => j = k
    /\ \A i \in Received :
          /\ orders[i].status = "preparing" => \E c \in Cooks : cooking[c] = i
          /\ orders[i].status = "carried" => \E d \in Drivers : i \in Carried(d)

(* Once received, an order is neither dropped nor replaced before it is    *)
(* delivered, and its state only moves forward, across the resets of       *)
(* order_count and the appends into the slots they free.                   *)
Rank(s) == CASE s = "new" -> 1 [] s = "preparing" -> 2 [] s = "ready" -> 3
             [] s = "carried" -> 4 [] s = "delivered" -> 5
NoOrderDropped ==
    [][\A i \in Received :
          \/ order_count' = 0 /\ orders'[i].status = "delivered"
          \/ /\ i < order_count'
             /\ orders'[i].from = orders[i].from
             /\ Rank(orders'[i].status) \in {Rank(orders[i].status), Rank(orders[i].status) + 1}]_vars

(* An order a cook has begun is finished, carried and delivered.           *)
BegunIsDelivered ==
    \A i \in Slots : (i \in Received /\ orders[i].status \in {"preparing", "ready", "carried"})
                        ~> (i \in Received => orders[i].status \in {"delivered", "new"})
-----------------------------------------------------------------------------
(* What the code says of itself and does not keep.                         *)

(* client.c:85: "Listen for the completion message from the server": the   *)
(* generator's wait ends.                                                  *)
EveryWaitEnds == \A g \in Generators : gpc[g] = "wait" ~> gpc[g] \in {"served", "gone"}
=============================================================================
