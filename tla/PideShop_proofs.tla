--------------------------- MODULE PideShop_proofs ---------------------------
(***************************************************************************)
(* The pide shop, for any number of generators, customers, cooks, drivers  *)
(* and order slots.  The proof falls in two: who holds which slot of       *)
(* orders[], and so what delivered_count counts; and the connections,      *)
(* where accept must always find a free number.                            *)
(***************************************************************************)
EXTENDS PideShop, FiniteSetTheorems, TLAPS

-----------------------------------------------------------------------------
(* Slots and who holds them.                                               *)

(* The orders of the session that are delivered.                           *)
Delivered(o, n) == {i \in 0..(n - 1) : o[i].status = "delivered"}

(* Only a driver on the road carries anything.                             *)
EmptyHanded == \A d \in Drivers : d \notin busy => carrying[d] = <<>>

OrdersInv == CountIsDelivered /\ HoldersOwnTheirSlots /\ EmptyHanded

OrdersTyped == /\ orders \in [Slots -> [status : Statuses, from : Conns \cup {Nobody}]]
               /\ order_count \in 0..MaxOrders
               /\ cooking \in [Cooks -> Slots \cup {None}]
               /\ carrying \in [Drivers -> Seq(Slots)]
               /\ busy \subseteq Drivers

(* The parts of HoldersOwnTheirSlots, and a name for what a driver has.    *)
CooksOwn == \A c \in Cooks : cooking[c] # None =>
    /\ cooking[c] \in Received /\ orders[cooking[c]].status = "preparing"
    /\ \A e \in Cooks : cooking[e] = cooking[c] => e = c
DriversOwn == \A d \in Drivers :
    /\ \A i \in Carried(d) : i \in Received /\ orders[i].status = "carried"
    /\ \A e \in Drivers : e # d => Carried(e) \cap Carried(d) = {}
NoneTwice(s) == \A j, k \in DOMAIN s : s[j] = s[k] => j = k
AllOwned == \A i \in Received :
    /\ orders[i].status = "preparing" => \E c \in Cooks : cooking[c] = i
    /\ orders[i].status = "carried" => \E d \in Drivers : i \in Carried(d)

(* HoldersOwnTheirSlots, part by part.                                     *)
LEMMA OwnParts ==
    HoldersOwnTheirSlots <=> /\ CooksOwn /\ DriversOwn /\ AllOwned
                             /\ \A d \in Drivers : NoneTwice(carrying[d])
  BY DEF HoldersOwnTheirSlots, CooksOwn, DriversOwn, AllOwned, NoneTwice

(* The orders received are in slots of the array, and None is no slot.     *)
LEMMA SlotRange ==
    /\ MaxOrders \in Nat \ {0} /\ Capacity \in Nat \ {0} /\ None \notin Slots
    /\ \A n \in 0..MaxOrders : 0..(n - 1) \subseteq Slots
  BY LimitAssumption DEF Slots, None

(* Setting the status of one order.                                        *)
LEMMA SetStatus ==
    ASSUME NEW o \in [Slots -> [status : Statuses, from : Conns \cup {Nobody}]],
           NEW i \in Slots, NEW s \in Statuses
    PROVE  LET p == [o EXCEPT ![i].status = s]
           IN  /\ p \in [Slots -> [status : Statuses, from : Conns \cup {Nobody}]]
               /\ p[i].status = s /\ p[i].from = o[i].from
               /\ \A j \in Slots : j # i => p[j] = o[j]
<1> DEFINE p == [o EXCEPT ![i].status = s]
<1>1. p[i] = [o[i] EXCEPT !.status = s] /\ \A j \in Slots : j # i => p[j] = o[j]
  OBVIOUS
<1>2. o[i] \in [status : Statuses, from : Conns \cup {Nobody}]
  OBVIOUS
<1>3. [o[i] EXCEPT !.status = s] = [status |-> s, from |-> o[i].from]
  BY <1>2
<1>4. p[i] \in [status : Statuses, from : Conns \cup {Nobody}]
  BY <1>1, <1>2, <1>3
<1>5. p \in [Slots -> [status : Statuses, from : Conns \cup {Nobody}]]
  <2>1. p = [j \in Slots |-> p[j]]
    OBVIOUS
  <2>2. \A j \in Slots : p[j] \in [status : Statuses, from : Conns \cup {Nobody}]
    BY <1>1, <1>4
  <2> HIDE DEF p
  <2> QED
    BY <2>1, <2>2
<1> QED
  BY <1>1, <1>3, <1>5

(* What taking the first element leaves.                                   *)
LEMMA LoadShrinks ==
    ASSUME NEW S, NEW s \in Seq(S), s # <<>>, NoneTwice(s)
    PROVE  /\ Tail(s) \in Seq(S) /\ NoneTwice(Tail(s)) /\ Head(s) \in S
           /\ Head(s) \in {s[k] : k \in DOMAIN s}
           /\ {Tail(s)[k] : k \in DOMAIN Tail(s)} = {s[k] : k \in DOMAIN s} \ {Head(s)}
<1> DEFINE n == Len(s)
           t == Tail(s)
<1>1. /\ t \in Seq(S) /\ DOMAIN t = 1..(n - 1) /\ Head(s) = s[1] /\ Head(s) \in S
      /\ \A i \in 1..(n - 1) : t[i] = s[i + 1]
      /\ DOMAIN s = 1..n /\ n \in Nat \ {0}
  OBVIOUS
<1> HIDE DEF n, t
<1>2. \A i \in 1..(n - 1) : i + 1 \in 1..n /\ i + 1 # 1 /\ t[i] = s[i + 1]
  BY <1>1
<1>3. \A i \in 1..n : i # 1 => i - 1 \in 1..(n - 1) /\ (i - 1) + 1 = i
  BY <1>1
<1>4. 1 \in 1..n
  BY <1>1
<1>5. NoneTwice(t)
  <2> SUFFICES ASSUME NEW j \in 1..(n - 1), NEW k \in 1..(n - 1), t[j] = t[k] PROVE j = k
    BY <1>1 DEF NoneTwice
  <2>1. j + 1 \in 1..n /\ k + 1 \in 1..n /\ s[j + 1] = s[k + 1]
    BY <1>2
  <2>2. j + 1 = k + 1
    BY <1>1, <2>1 DEF NoneTwice
  <2> QED
    BY <1>1, <2>2
<1>6. ASSUME NEW x \in {t[k] : k \in DOMAIN t} PROVE x \in {s[k] : k \in DOMAIN s} \ {s[1]}
  <2>1. PICK k \in 1..(n - 1) : x = t[k]
    BY <1>1
  <2>2. x = s[k + 1] /\ k + 1 \in 1..n /\ k + 1 # 1
    BY <1>2, <2>1
  <2>3. x # s[1]
    BY <1>1, <1>4, <2>2 DEF NoneTwice
  <2> QED
    BY <1>1, <2>2, <2>3
<1>7. ASSUME NEW x \in {s[k] : k \in DOMAIN s} \ {s[1]} PROVE x \in {t[k] : k \in DOMAIN t}
  <2>1. PICK k \in 1..n : x = s[k] /\ k # 1
    BY <1>1
  <2>2. k - 1 \in 1..(n - 1) /\ t[k - 1] = x
    BY <1>1, <1>3, <2>1
  <2> QED
    BY <1>1, <2>2
<1>8. {t[k] : k \in DOMAIN t} = {s[k] : k \in DOMAIN s} \ {s[1]}
  BY <1>6, <1>7
<1> QED
  BY <1>1, <1>4, <1>5, <1>8 DEF t

(* A step that leaves the orders and the staff alone.                      *)
LEMMA QuietOrders ==
    ASSUME OrdersInv, UNCHANGED <<orderVars, staffVars>> PROVE OrdersInv'
<1>1. UNCHANGED <<orders, order_count, delivered_count, cooking, carrying, busy>>
  BY DEF orderVars, staffVars
<1>2. Received' = Received /\ \A d \in Drivers : Carried(d)' = Carried(d)
  BY <1>1 DEF Received, Carried
<1>3. CountIsDelivered'
  BY <1>1, <1>2 DEF OrdersInv, CountIsDelivered
<1>4. HoldersOwnTheirSlots'
  BY <1>1, <1>2 DEF OrdersInv, HoldersOwnTheirSlots
<1>5. EmptyHanded'
  BY <1>1 DEF OrdersInv, EmptyHanded
<1> QED
  BY <1>3, <1>4, <1>5 DEF OrdersInv

(* An order appended is new: it is in nobody's hands.                      *)
LEMMA AppendOrders ==
    ASSUME OrdersTyped, OrdersInv, NEW h \in Conns, AppendOrder(h) PROVE OrdersInv'
<1>1. UNCHANGED <<delivered_count, cooking, carrying, busy>>
  BY DEF AppendOrder, staffVars
<1>2. CASE ~Room
  BY <1>1, <1>2, QuietOrders DEF AppendOrder, orderVars, staffVars
<1>3. CASE Room
  <2>1. /\ order_count \in Slots /\ order_count \in Nat /\ order_count' = order_count + 1
        /\ orders'[order_count].status = "new"
        /\ \A j \in Slots : j # order_count => orders'[j] = orders[j]
    <3>1. /\ order_count' = order_count + 1
          /\ orders' = [orders EXCEPT ![order_count] = [status |-> "new", from |-> got[h]]]
      BY <1>3 DEF AppendOrder
    <3>2. order_count \in Slots /\ order_count \in Nat
      BY <1>3, SlotRange DEF Room, OrdersTyped, Slots
    <3>3. DOMAIN orders = Slots
      BY DEF OrdersTyped
    <3> QED
      BY <3>1, <3>2, <3>3
  <2>2. Received' = Received \cup {order_count} /\ order_count \notin Received
        /\ Received \subseteq Slots
    <3>1. Received \subseteq Slots
      BY SlotRange DEF Received, OrdersTyped
    <3>2. order_count \in Nat /\ order_count' = order_count + 1
      BY <2>1
    <3> QED
      BY <3>1, <3>2 DEF Received
  <2>3. \A i \in Received : i # order_count /\ orders'[i] = orders[i]
    BY <2>1, <2>2
  <2>4. CountIsDelivered'
    <3>1. {i \in Received' : orders'[i].status = "delivered"}
             = {i \in Received : orders[i].status = "delivered"}
      BY <2>1, <2>2, <2>3
    <3> QED
      BY <1>1, <3>1 DEF CountIsDelivered, OrdersInv
  <2>5. \A d \in Drivers : Carried(d)' = Carried(d)
    BY <1>1 DEF Carried
  <2>6. CooksOwn' /\ DriversOwn' /\ AllOwned'
    <3>1. CooksOwn /\ DriversOwn /\ AllOwned
      BY OwnParts DEF OrdersInv
    <3>2. CooksOwn'
      BY <1>1, <2>2, <2>3, <3>1 DEF CooksOwn
    <3>3. DriversOwn'
      BY <2>2, <2>3, <2>5, <3>1 DEF DriversOwn
    <3>4. AllOwned'
      BY <1>1, <2>1, <2>2, <2>3, <2>5, <3>1 DEF AllOwned
    <3> QED
      BY <3>2, <3>3, <3>4
  <2>7. \A d \in Drivers : NoneTwice(carrying'[d])
    BY <1>1, OwnParts DEF OrdersInv
  <2>8. HoldersOwnTheirSlots'
    BY <2>6, <2>7 DEF HoldersOwnTheirSlots, CooksOwn, DriversOwn, AllOwned, NoneTwice
  <2> QED
    BY <1>1, <2>4, <2>8 DEF OrdersInv, EmptyHanded
<1> QED
  BY <1>2, <1>3

(* A cook takes a new order, or leaves it ready.                           *)
LEMMA CookOrders ==
    ASSUME OrdersTyped, OrdersInv, NEW c \in Cooks, StartCooking(c) \/ FinishCooking(c)
    PROVE  OrdersInv'
<1>1. /\ CooksOwn /\ DriversOwn /\ AllOwned /\ \A d \in Drivers : NoneTwice(carrying[d])
      /\ CountIsDelivered /\ EmptyHanded
  BY OwnParts DEF OrdersInv
<1>2. PICK i \in Received : /\ \/ /\ orders[i].status = "new" /\ orders'[i].status = "preparing"
                                  /\ cooking[c] = None /\ cooking' = [cooking EXCEPT ![c] = i]
                               \/ /\ cooking[c] = i /\ i # None
                                  /\ orders[i].status = "preparing" /\ orders'[i].status = "ready"
                                  /\ cooking' = [cooking EXCEPT ![c] = None]
                            /\ \A j \in Received : j # i => orders'[j] = orders[j]
  <2>1. Received \subseteq Slots
    BY SlotRange DEF Received, OrdersTyped
  <2>2. CASE StartCooking(c)
    <3>1. PICK i \in ToCook : /\ orders' = [orders EXCEPT ![i].status = "preparing"]
                              /\ cooking' = [cooking EXCEPT ![c] = i]
      BY <2>2 DEF StartCooking
    <3>2. i \in Received /\ i \in Slots /\ orders[i].status = "new" /\ cooking[c] = None
      BY <2>1, <2>2, <3>1 DEF ToCook, StartCooking, Idle
    <3>3. orders'[i].status = "preparing" /\ \A j \in Slots : j # i => orders'[j] = orders[j]
      BY <3>1, <3>2, SetStatus DEF OrdersTyped, Statuses
    <3> QED
      BY <2>1, <3>1, <3>2, <3>3
  <2>3. CASE FinishCooking(c)
    <3> DEFINE i == cooking[c]
    <3>1. /\ i # None /\ orders' = [orders EXCEPT ![i].status = "ready"]
          /\ cooking' = [cooking EXCEPT ![c] = None]
      BY <2>3 DEF FinishCooking
    <3>2. i \in Received /\ i \in Slots /\ orders[i].status = "preparing"
      BY <1>1, <2>1, <3>1 DEF CooksOwn
    <3>3. orders'[i].status = "ready" /\ \A j \in Slots : j # i => orders'[j] = orders[j]
      BY <3>1, <3>2, SetStatus DEF OrdersTyped, Statuses
    <3> QED
      BY <2>1, <3>1, <3>2, <3>3
  <2> QED
    BY <2>2, <2>3
<1>3. UNCHANGED <<order_count, delivered_count, carrying, busy>>
  BY DEF StartCooking, FinishCooking
<1>4. Received' = Received /\ (\A d \in Drivers : Carried(d)' = Carried(d)) /\ None \notin Received
  BY <1>3, SlotRange DEF Received, Carried, OrdersTyped
<1>5. CountIsDelivered'
  <2>1. {j \in Received' : orders'[j].status = "delivered"}
           = {j \in Received : orders[j].status = "delivered"}
    BY <1>2, <1>4
  <2> QED
    BY <1>1, <1>3, <2>1 DEF CountIsDelivered
<1>6. /\ \A e \in Cooks : e # c => cooking'[e] = cooking[e] /\ cooking[e] # i
      /\ \/ cooking'[c] = i /\ orders'[i].status = "preparing"
         \/ cooking'[c] = None /\ orders'[i].status = "ready"
  <2>1. cooking \in [Cooks -> Slots \cup {None}]
    BY DEF OrdersTyped
  <2>2. \A e \in Cooks : e # c => cooking'[e] = cooking[e]
    BY <1>2, <2>1
  <2>3. \/ cooking'[c] = i /\ orders'[i].status = "preparing"
        \/ cooking'[c] = None /\ orders'[i].status = "ready"
    <3>1. c \in DOMAIN cooking
      BY <2>1
    <3>2. \A x : cooking' = [cooking EXCEPT ![c] = x] => cooking'[c] = x
      BY <3>1
    <3>3. \/ cooking' = [cooking EXCEPT ![c] = i] /\ orders'[i].status = "preparing"
          \/ cooking' = [cooking EXCEPT ![c] = None] /\ orders'[i].status = "ready"
      BY <1>2
    <3> QED
      BY <3>2, <3>3
  <2>4. ASSUME NEW e \in Cooks, e # c, cooking[e] = i PROVE FALSE
    <3>1. orders[i].status = "preparing" /\ cooking[c] # i
      BY <1>1, <1>4, <2>4 DEF CooksOwn
    <3> QED
      BY <1>2, <3>1
  <2> QED
    BY <2>2, <2>3, <2>4
<1>7. CooksOwn'
  BY <1>1, <1>2, <1>4, <1>6 DEF CooksOwn
<1>8. \A d \in Drivers : i \notin Carried(d)
  BY <1>1, <1>2 DEF DriversOwn
<1>9. DriversOwn'
  BY <1>1, <1>2, <1>4, <1>8 DEF DriversOwn
<1>10. AllOwned'
  <2> SUFFICES ASSUME NEW j \in Received
               PROVE  /\ orders'[j].status = "preparing" => \E e \in Cooks : cooking'[e] = j
                      /\ orders'[j].status = "carried" => \E d \in Drivers : j \in Carried(d)
    BY <1>4 DEF AllOwned
  <2>1. CASE j = i
    BY <1>6, <2>1
  <2>2. CASE j # i
    <3>1. orders'[j] = orders[j] /\ cooking[c] # j
      BY <1>2, <1>4, <2>2
    <3> QED
      BY <1>1, <1>6, <3>1 DEF AllOwned
  <2> QED
    BY <2>1, <2>2
<1> QED
  BY <1>1, <1>3, <1>5, <1>7, <1>9, <1>10
     DEF OrdersInv, HoldersOwnTheirSlots, CooksOwn, DriversOwn, AllOwned, NoneTwice, EmptyHanded

(* A driver takes orders that are ready, which nobody holds.               *)
LEMMA LoadOrders ==
    ASSUME OrdersTyped, OrdersInv, NEW d \in Drivers, TakeOrders(d) PROVE OrdersInv'
<1>1. /\ CooksOwn /\ DriversOwn /\ AllOwned /\ \A e \in Drivers : NoneTwice(carrying[e])
      /\ CountIsDelivered /\ EmptyHanded
  BY OwnParts DEF OrdersInv
<1> DEFINE Loads(n, s) ==
         /\ IsLoad(s) /\ carrying' = [carrying EXCEPT ![d] = s]
         /\ orders' = [i \in Slots |-> IF \E k \in 1..n : s[k] = i
                                       THEN [orders[i] EXCEPT !.status = "carried"]
                                       ELSE orders[i]]
<1>0. PICK n \in 1..Capacity : \E s \in [1..n -> ToCarry] : Loads(n, s)
  BY DEF TakeOrders
<1>2. PICK s \in [1..n -> ToCarry] : Loads(n, s)
  BY <1>0
<1>3. UNCHANGED <<order_count, delivered_count, cooking>> /\ busy' = busy \cup {d}
      /\ d \notin busy
  BY DEF TakeOrders, AtCounter
<1>4. Received' = Received /\ Received \subseteq Slots /\ ToCarry \subseteq Received
  BY <1>3, SlotRange DEF Received, OrdersTyped, ToCarry
<1> DEFINE L == {s[k] : k \in 1..n}
<1>5. L \subseteq ToCarry
  OBVIOUS
<1>6. /\ \A i \in L : orders[i].status = "ready" /\ orders'[i].status = "carried"
      /\ \A i \in Received : i \notin L => orders'[i] = orders[i]
  <2>1. ASSUME NEW i \in L PROVE orders[i].status = "ready" /\ orders'[i].status = "carried"
    <3>1. orders[i] \in [status : Statuses, from : Conns \cup {Nobody}] /\ i \in Slots
          /\ orders[i].status = "ready"
      BY <1>4, <1>5 DEF OrdersTyped, ToCarry
    <3>2. orders'[i] = [orders[i] EXCEPT !.status = "carried"]
      BY <1>2, <3>1
    <3> QED
      BY <3>1, <3>2
  <2>2. ASSUME NEW i \in Received, i \notin L PROVE orders'[i] = orders[i]
    BY <1>2, <1>4, <2>2
  <2> QED
    BY <2>1, <2>2
<1>7. /\ Carried(d) = {} /\ Carried(d)' = L /\ NoneTwice(carrying'[d])
      /\ \A e \in Drivers : e # d => Carried(e)' = Carried(e) /\ carrying'[e] = carrying[e]
  <2>1. Carried(d) = {}
    BY <1>1, <1>3 DEF EmptyHanded, Carried
  <2>2. carrying'[d] = s /\ \A e \in Drivers : e # d => carrying'[e] = carrying[e]
    BY <1>2 DEF OrdersTyped
  <2>3. DOMAIN s = 1..n
    OBVIOUS
  <2>4. NoneTwice(s)
    <3> SUFFICES ASSUME NEW j \in 1..n, NEW k \in 1..n, s[j] = s[k] PROVE j = k
      BY <2>3 DEF NoneTwice
    <3>1. \A x, y \in 1..n : x < y => s[x] < s[y]
      <4>1. IsLoad(s)
        BY <1>2
      <4> QED
        BY <2>3, <4>1 DEF IsLoad
    <3>2. s[j] \in Nat /\ s[k] \in Nat /\ j \in Nat /\ k \in Nat
      <4>1. s[j] \in Slots /\ s[k] \in Slots
        BY <1>4
      <4>2. \A x \in Slots : x \in Nat
        BY SlotRange DEF Slots
      <4>3. n \in Nat
        BY SlotRange
      <4>4. j \in Nat /\ k \in Nat
        BY <4>3
      <4> QED
        BY <4>1, <4>2, <4>4
    <3> QED
      BY <3>1, <3>2
  <2> HIDE DEF L
  <2>5. Carried(d)' = L
    BY <2>2, <2>3 DEF Carried, L
  <2> QED
    BY <2>1, <2>2, <2>4, <2>5 DEF Carried
<1> HIDE DEF L
<1>8. CountIsDelivered'
  <2>1. {j \in Received' : orders'[j].status = "delivered"}
           = {j \in Received : orders[j].status = "delivered"}
    BY <1>4, <1>6
  <2> QED
    BY <1>1, <1>3, <2>1 DEF CountIsDelivered
<1>9. \A i \in L : i \in Received /\ orders[i].status = "ready"
  BY <1>4, <1>5, <1>6
<1>10. CooksOwn'
  BY <1>1, <1>3, <1>4, <1>6, <1>9 DEF CooksOwn
<1>11. \A e \in Drivers : Carried(e) \cap L = {}
  BY <1>1, <1>9 DEF DriversOwn
<1>12. DriversOwn'
  <2> SUFFICES ASSUME NEW e \in Drivers
               PROVE  /\ \A i \in Carried(e)' : i \in Received' /\ orders'[i].status = "carried"
                      /\ \A f \in Drivers : f # e => Carried(f)' \cap Carried(e)' = {}
    BY DEF DriversOwn
  <2>1. CASE e = d
    BY <1>4, <1>6, <1>7, <1>9, <1>11, <2>1
  <2>2. CASE e # d
    BY <1>1, <1>4, <1>6, <1>7, <1>11, <2>2 DEF DriversOwn
  <2> QED
    BY <2>1, <2>2
<1>13. AllOwned'
  <2> SUFFICES ASSUME NEW i \in Received
               PROVE  /\ orders'[i].status = "preparing" => \E c \in Cooks : cooking'[c] = i
                      /\ orders'[i].status = "carried" => \E e \in Drivers : i \in Carried(e)'
    BY <1>4 DEF AllOwned
  <2>1. CASE i \in L
    BY <1>6, <1>7, <2>1
  <2>2. CASE i \notin L
    <3>1. orders'[i] = orders[i]
      BY <1>6, <2>2
    <3>2. orders[i].status = "carried" => \E e \in Drivers : e # d /\ i \in Carried(e)
      BY <1>1, <1>7 DEF AllOwned
    <3> QED
      BY <1>1, <1>3, <1>7, <3>1, <3>2 DEF AllOwned
  <2> QED
    BY <2>1, <2>2
<1>14. EmptyHanded' /\ \A e \in Drivers : NoneTwice(carrying'[e])
  BY <1>1, <1>3, <1>7 DEF EmptyHanded
<1> QED
  BY <1>8, <1>10, <1>12, <1>13, <1>14
     DEF OrdersInv, HoldersOwnTheirSlots, CooksOwn, DriversOwn, AllOwned, NoneTwice

(* What a delivery changes, the counters apart: one order carried is now   *)
(* delivered, so the count after it equals order_count only when every     *)
(* order received is delivered.                                            *)
LEMMA DeliverEffect ==
    ASSUME OrdersTyped, OrdersInv, NEW d \in Drivers, Deliver(d)
    PROVE  \E i \in Received :
              /\ orders[i].status = "carried" /\ orders'[i].status = "delivered"
              /\ orders'[i].from = orders[i].from
              /\ \A j \in Received : j # i => orders'[j] = orders[j]
              /\ i \in Carried(d) /\ Carried(d)' = Carried(d) \ {i}
              /\ \A e \in Drivers : e # d => Carried(e)' = Carried(e)
              /\ \A e \in Drivers : NoneTwice(carrying'[e]) /\ (carrying[e] = <<>> => carrying'[e] = <<>>)
              /\ delivered_count + 1 =
                    Cardinality({j \in Received : orders'[j].status = "delivered"})
              /\ delivered_count + 1 \in 0..order_count
              /\ delivered_count + 1 = order_count =>
                    \A j \in Received : orders'[j].status = "delivered"
<1> DEFINE s == carrying[d]
           i == Head(s)
<1>1. /\ DriversOwn /\ \A e \in Drivers : NoneTwice(carrying[e])
      /\ CountIsDelivered
  BY OwnParts DEF OrdersInv
<1>2. /\ s # <<>> /\ s \in Seq(Slots) /\ NoneTwice(s)
      /\ orders' = [orders EXCEPT ![i].status = "delivered"]
      /\ carrying' = [carrying EXCEPT ![d] = Tail(s)]
      /\ DOMAIN carrying = Drivers
  BY <1>1 DEF Deliver, OrdersTyped
<1> HIDE DEF s
<1>3. /\ NoneTwice(Tail(s)) /\ i \in Slots /\ i \in {s[k] : k \in DOMAIN s}
      /\ {Tail(s)[k] : k \in DOMAIN Tail(s)} = {s[k] : k \in DOMAIN s} \ {i}
  BY <1>2, LoadShrinks
<1> HIDE DEF i
<1>4. carrying'[d] = Tail(s) /\ \A e \in Drivers : e # d => carrying'[e] = carrying[e]
  BY <1>2
<1>5. /\ i \in Carried(d) /\ Carried(d)' = Carried(d) \ {i}
      /\ \A e \in Drivers : e # d => Carried(e)' = Carried(e)
  BY <1>3, <1>4 DEF Carried, s
<1>6. i \in Received /\ orders[i].status = "carried" /\ Received \subseteq Slots
  BY <1>1, <1>5, SlotRange DEF DriversOwn, Received, OrdersTyped
<1>7. /\ orders'[i].status = "delivered" /\ orders'[i].from = orders[i].from
      /\ \A j \in Slots : j # i => orders'[j] = orders[j]
  <2>1. /\ [orders EXCEPT ![i].status = "delivered"][i].status = "delivered"
        /\ [orders EXCEPT ![i].status = "delivered"][i].from = orders[i].from
        /\ \A j \in Slots : j # i => [orders EXCEPT ![i].status = "delivered"][j] = orders[j]
    BY <1>3, SetStatus DEF OrdersTyped, Statuses
  <2> QED
    BY <1>2, <2>1
<1>8. \A e \in Drivers : NoneTwice(carrying'[e]) /\ (carrying[e] = <<>> => carrying'[e] = <<>>)
  BY <1>1, <1>2, <1>3, <1>4 DEF s
<1> DEFINE D == {j \in Received : orders[j].status = "delivered"}
           E == {j \in Received : orders'[j].status = "delivered"}
<1>9. E = D \cup {i} /\ i \notin D
  BY <1>6, <1>7
<1>10. IsFiniteSet(Received) /\ Cardinality(Received) = order_count /\ order_count \in Nat
  <2>1. order_count \in Nat /\ order_count - 1 \in Int /\ 0 \in Int
    BY SlotRange DEF OrdersTyped
  <2> QED
    BY <2>1, FS_Interval DEF Received
<1>11. IsFiniteSet(D) /\ Cardinality(D) = delivered_count /\ delivered_count \in Nat
  BY <1>1, <1>10, FS_Subset, FS_CardinalityType DEF CountIsDelivered
<1>12. E \subseteq Received
  OBVIOUS
<1> HIDE DEF D, E
<1>13. Cardinality(E) = delivered_count + 1
  BY <1>9, <1>11, FS_AddElement
<1>14. delivered_count + 1 <= order_count /\ (delivered_count + 1 = order_count => E = Received)
  <2>1. Cardinality(E) <= Cardinality(Received) /\ (Cardinality(Received) = Cardinality(E) => E = Received)
    BY <1>10, <1>12, FS_Subset
  <2> QED
    BY <1>10, <1>13, <2>1
<1>15. delivered_count + 1 \in 0..order_count
  BY <1>10, <1>11, <1>14
<1>16. delivered_count + 1 = order_count => \A j \in Received : orders'[j].status = "delivered"
  BY <1>14 DEF E
<1> QED
  BY <1>5, <1>6, <1>7, <1>8, <1>13, <1>15, <1>16 DEF E

(* A delivery, with the reset it may bring about, keeps the orders'        *)
(* invariant.                                                              *)
LEMMA DeliverOrders ==
    ASSUME OrdersTyped, OrdersInv, NEW d \in Drivers, Deliver(d) PROVE OrdersInv'
<1>1. /\ CooksOwn /\ DriversOwn /\ AllOwned /\ CountIsDelivered /\ EmptyHanded
  BY OwnParts DEF OrdersInv
<1>2. PICK i \in Received :
              /\ orders[i].status = "carried" /\ orders'[i].status = "delivered"
              /\ \A j \in Received : j # i => orders'[j] = orders[j]
              /\ i \in Carried(d) /\ Carried(d)' = Carried(d) \ {i}
              /\ \A e \in Drivers : e # d => Carried(e)' = Carried(e)
              /\ \A e \in Drivers : NoneTwice(carrying'[e]) /\ (carrying[e] = <<>> => carrying'[e] = <<>>)
              /\ delivered_count + 1 =
                    Cardinality({j \in Received : orders'[j].status = "delivered"})
              /\ delivered_count + 1 = order_count =>
                    \A j \in Received : orders'[j].status = "delivered"
  BY DeliverEffect
<1>3. /\ UNCHANGED <<cooking, busy>>
      /\ SessionOver(delivered_count + 1) => order_count' = 0 /\ delivered_count' = 0
      /\ ~SessionOver(delivered_count + 1) => /\ order_count' = order_count
                                              /\ delivered_count' = delivered_count + 1
  BY DEF Deliver, CheckAllDelivered
<1>4. EmptyHanded' /\ \A e \in Drivers : NoneTwice(carrying'[e])
  BY <1>1, <1>2, <1>3 DEF EmptyHanded
<1>5. \A c \in Cooks : cooking[c] # None =>
         /\ cooking[c] \in Received /\ cooking[c] # i /\ orders'[cooking[c]].status = "preparing"
         /\ \A e \in Cooks : cooking[e] = cooking[c] => e = c
  BY <1>1, <1>2 DEF CooksOwn
<1>6. \A e \in Drivers : i \in Carried(e) => e = d
  BY <1>1, <1>2 DEF DriversOwn
<1>7. ASSUME NEW e \in Drivers
      PROVE  /\ \A j \in Carried(e)' : j \in Received /\ j # i /\ orders'[j].status = "carried"
             /\ \A f \in Drivers : f # e => Carried(f)' \cap Carried(e)' = {}
  <2>1. /\ \A f \in Drivers : Carried(f)' \subseteq Carried(f)
        /\ i \notin Carried(e)'
    BY <1>2, <1>6
  <2> QED
    BY <1>1, <1>2, <2>1 DEF DriversOwn
<1>8. CASE SessionOver(delivered_count + 1)
  <2>1. \A j \in Received : orders'[j].status = "delivered"
    BY <1>2, <1>8 DEF SessionOver
  <2>2. Received' = {} /\ order_count' = 0 /\ delivered_count' = 0
    BY <1>3, <1>8 DEF Received
  <2>3. /\ \A c \in Cooks : cooking'[c] = None
        /\ \A e \in Drivers : Carried(e)' = {}
    BY <1>3, <1>5, <1>7, <2>1
  <2>4. CountIsDelivered'
    <3>1. {j \in Received' : orders'[j].status = "delivered"} = {}
      BY <2>2
    <3> QED
      BY <2>2, <3>1, FS_EmptySet DEF CountIsDelivered
  <2>5. CooksOwn' /\ DriversOwn' /\ AllOwned'
    BY <2>2, <2>3 DEF CooksOwn, DriversOwn, AllOwned
  <2> QED
    BY <1>4, <2>4, <2>5 DEF OrdersInv, HoldersOwnTheirSlots, CooksOwn, DriversOwn, AllOwned, NoneTwice
<1>9. CASE ~SessionOver(delivered_count + 1)
  <2>1. Received' = Received
    BY <1>3, <1>9 DEF Received
  <2>2. CountIsDelivered'
    BY <1>2, <1>3, <1>9, <2>1 DEF CountIsDelivered
  <2>3. CooksOwn'
    BY <1>3, <1>5, <2>1 DEF CooksOwn
  <2>4. DriversOwn'
    BY <1>7, <2>1 DEF DriversOwn
  <2>5. AllOwned'
    <3> SUFFICES ASSUME NEW j \in Received
                 PROVE  /\ orders'[j].status = "preparing" => \E c \in Cooks : cooking'[c] = j
                        /\ orders'[j].status = "carried" => \E e \in Drivers : j \in Carried(e)'
      BY <2>1 DEF AllOwned
    <3>1. CASE j = i
      BY <1>2, <3>1
    <3>2. CASE j # i
      <4>1. orders'[j] = orders[j] /\ \A e \in Drivers : j \in Carried(e) => j \in Carried(e)'
        BY <1>2, <3>2
      <4> QED
        BY <1>1, <1>3, <4>1 DEF AllOwned
    <3> QED
      BY <3>1, <3>2
  <2> QED
    BY <1>4, <2>2, <2>3, <2>4, <2>5
       DEF OrdersInv, HoldersOwnTheirSlots, CooksOwn, DriversOwn, AllOwned, NoneTwice
<1> QED
  BY <1>8, <1>9

(* A driver that comes back has delivered all it carried.                  *)
LEMMA ComeBackOrders ==
    ASSUME OrdersTyped, OrdersInv, NEW d \in Drivers, ComeBack(d) PROVE OrdersInv'
<1>1. UNCHANGED <<orders, order_count, delivered_count, cooking, carrying>>
      /\ busy' = busy \ {d} /\ carrying[d] = <<>>
  BY DEF ComeBack, orderVars
<1>2. Received' = Received /\ \A e \in Drivers : Carried(e)' = Carried(e)
  BY <1>1 DEF Received, Carried
<1>3. CountIsDelivered' /\ EmptyHanded'
  BY <1>1, <1>2 DEF OrdersInv, CountIsDelivered, EmptyHanded
<1>4. HoldersOwnTheirSlots'
  BY <1>1, <1>2 DEF OrdersInv, HoldersOwnTheirSlots
<1> QED
  BY <1>3, <1>4 DEF OrdersInv

(* Every step keeps the orders' invariant.                                 *)
LEMMA OrdersStep ==
    ASSUME OrdersTyped, OrdersInv, [Next]_vars PROVE OrdersInv'
<1>1. CASE UNCHANGED vars
  BY <1>1, QuietOrders DEF vars
<1>2. ASSUME NEW g \in Generators, ClientStep(g) PROVE OrdersInv'
  BY <1>2, QuietOrders DEF ClientStep, Connect, ConnectCustomer, SendOrder, HearBack, ServerVars
<1>3. CASE Accept \/ SpuriousWakeup
  BY <1>3, QuietOrders DEF Accept, SpuriousWakeup
<1>4. ASSUME NEW h \in Conns, HandlerStep(h) PROVE OrdersInv'
  BY <1>4, QuietOrders, AppendOrders DEF HandlerStep, ReadStart, ReadReturns, CloseSocket
<1>5. ASSUME NEW c \in Cooks, CookStep(c) PROVE OrdersInv'
  BY <1>5, QuietOrders, CookOrders DEF CookStep, CookWaits
<1>6. ASSUME NEW d \in Drivers, DriverStep(d) PROVE OrdersInv'
  BY <1>6, QuietOrders, LoadOrders, DeliverOrders, ComeBackOrders DEF DriverStep, DriverWaits
<1> QED
  BY <1>1, <1>2, <1>3, <1>4, <1>5, <1>6 DEF Next
-----------------------------------------------------------------------------
(* Connections and descriptor numbers.                                     *)

(* The connections waiting to be accepted, and those a client has made.    *)
Elements(s) == {s[k] : k \in DOMAIN s}
Pending  == Elements(backlog)
Begun(c) == IF c[2] = 0 THEN gpc[c[1]] # "start"
            ELSE c[2] < next[c[1]] \/ (c[2] = next[c[1]] /\ gpc[c[1]] = "send")

(* No two numbers stand for the same thing, a number stands only for a     *)
(* connection that was accepted, none waits twice or after it was          *)
(* accepted, and each was made by its client.                              *)
NumbersDiffer  == \A m, n \in FdNumbers : fdTable[m] = fdTable[n] /\ fdTable[m] # Nobody => m = n
OpenIsAccepted == \A n \in FdNumbers : fdTable[n] \in Conns => hpc[fdTable[n]] # "none"
PendingIsNew   == NoneTwice(backlog) /\ \A c \in Pending : hpc[c] = "none"
KnownIsBegun   == \A c \in Conns : hpc[c] # "none" \/ c \in Pending => Begun(c)
LoopInRange    == \A g \in Generators : /\ gpc[g] = "start" => next[g] = 1
                                        /\ gpc[g] \in {"connect", "send"} => next[g] <= Customers
ReadersRead    == \A h \in Conns : hpc[h] = "reading" => source[h] \in Conns

NetInv == NumbersDiffer /\ OpenIsAccepted /\ PendingIsNew /\ KnownIsBegun /\ LoopInRange /\ ReadersRead

NetTyped == /\ gpc \in [Generators -> {"start", "connect", "send", "wait", "served", "gone"}]
            /\ next \in [Generators -> 1..(Customers + 1)]
            /\ backlog \in Seq(Conns)
            /\ inbox \in [Conns -> {"nothing", "order", "eof"}]
            /\ reply \subseteq Conns
            /\ fdTable \in [FdNumbers -> Conns \cup {StdIn, Nobody}]
            /\ client_gen_socket \in FdNumbers
            /\ hpc \in [Conns -> {"none", "start", "reading", "append", "close", "again", "done"}]
            /\ sock \in [Conns -> FdNumbers]
            /\ source \in [Conns -> Conns \cup {StdIn, Nobody}]
            /\ got \in [Conns -> Conns \cup {Nobody}]

(* There are finitely many connections, and a descriptor number more than  *)
(* connections.                                                            *)
LEMMA ConnsFinite ==
    /\ IsFiniteSet(Conns) /\ Cardinality(Conns) \in Nat
    /\ IsFiniteSet(FdNumbers) /\ Cardinality(FdNumbers) = Cardinality(Conns) + 1
    /\ 0 \in FdNumbers
<1>1. IsFiniteSet(0..Customers)
  BY LimitAssumption, FS_Interval
<1>2. IsFiniteSet(Conns) /\ Cardinality(Conns) \in Nat
  BY <1>1, PoolAssumption, FS_Product, FS_CardinalityType DEF Conns
<1>3. IsFiniteSet(FdNumbers) /\ Cardinality(FdNumbers) = Cardinality(Conns) + 1 /\ 0 \in FdNumbers
  BY <1>2, FS_Interval DEF FdNumbers
<1> QED
  BY <1>2, <1>3

(* accept finds a free number: every number in use stands for standard     *)
(* input or for another connection than the one it takes.                  *)
LEMMA AFreeNumber ==
    ASSUME NetTyped, NetInv, NEW c \in Pending PROVE \E n \in FdNumbers : fdTable[n] = Nobody
<1> SUFFICES ASSUME \A n \in FdNumbers : fdTable[n] # Nobody PROVE FALSE
  OBVIOUS
<1> DEFINE T == (Conns \ {c}) \cup {StdIn}
<1>1. c \in Conns /\ hpc[c] = "none"
  BY DEF NetInv, PendingIsNew, NetTyped, Pending, Elements
<1>2. fdTable \in [FdNumbers -> T]
  BY <1>1 DEF NetTyped, NetInv, OpenIsAccepted
<1>3. IsFiniteSet(T) /\ Cardinality(T) < Cardinality(FdNumbers)
  <2>1. IsFiniteSet(Conns \ {c}) /\ Cardinality(Conns \ {c}) = Cardinality(Conns) - 1
    BY <1>1, ConnsFinite, FS_RemoveElement
  <2>2. IsFiniteSet(T) /\ Cardinality(T) <= Cardinality(Conns)
    <3>1. StdIn \notin Conns
      BY NobodyAssumption
    <3>2. IsFiniteSet(T) /\ Cardinality(T) = Cardinality(Conns \ {c}) + 1
      BY <2>1, <3>1, FS_AddElement
    <3> QED
      BY <2>1, <3>2, ConnsFinite
  <2> QED
    BY <2>2, ConnsFinite, FS_CardinalityType
<1> HIDE DEF T
<1>4. PICK m \in FdNumbers, n \in FdNumbers : m # n /\ fdTable[m] = fdTable[n]
  BY <1>2, <1>3, ConnsFinite, FS_PigeonHole
<1> QED
  BY <1>4 DEF NetInv, NumbersDiffer

(* The number accept returns belongs to nobody.                            *)
LEMMA FreeFdIsFree ==
    ASSUME NetTyped, NetInv, backlog # <<>>
    PROVE  FreeFd \in FdNumbers /\ fdTable[FreeFd] = Nobody
<1> DEFINE F == {n \in FdNumbers : fdTable[n] = Nobody}
           R == {ss \in Nat \X Nat : ss[1] < ss[2]}
<1>1. F # {}
  <2>1. Head(backlog) \in Pending
    BY DEF NetTyped, Pending, Elements
  <2> QED
    BY <2>1, AFreeNumber
<1>2. F \subseteq Nat
  BY DEF FdNumbers
<1>3. IsWellFoundedOn(R, Nat)
  BY NatLessThanWellFounded DEF OpToRel
<1> HIDE DEF R, F
<1>4. PICK n \in F : \A m \in F : ~(<<m, n>> \in R)
  BY <1>1, <1>2, <1>3, WFMin
<1>5. n \in FdNumbers /\ fdTable[n] = Nobody
  BY <1>4 DEF F
<1>6. ASSUME NEW m \in 0..(n - 1), fdTable[m] = Nobody PROVE FALSE
  <2>1. m \in FdNumbers /\ m \in Nat /\ n \in Nat /\ m < n
    BY <1>5, ConnsFinite DEF FdNumbers
  <2>2. m \in F
    BY <1>6, <2>1 DEF F
  <2> QED
    BY <1>4, <2>1, <2>2 DEF R
<1> QED
  BY <1>5, <1>6 DEF FreeFd

(* A new connection at the end of the backlog.                             *)
LEMMA AppendBack ==
    ASSUME NEW S, NEW s \in Seq(S), NEW x \in S
    PROVE  /\ Append(s, x) \in Seq(S)
           /\ Elements(Append(s, x)) = Elements(s) \cup {x}
           /\ NoneTwice(s) /\ x \notin Elements(s) => NoneTwice(Append(s, x))
<1> DEFINE n == Len(s)
           t == Append(s, x)
<1>1. /\ t \in Seq(S) /\ n \in Nat /\ DOMAIN s = 1..n /\ DOMAIN t = 1..(n + 1)
      /\ t[n + 1] = x /\ \A k \in 1..n : t[k] = s[k]
  OBVIOUS
<1> HIDE DEF n, t
<1>2. 1..(n + 1) = 1..n \cup {n + 1} /\ n + 1 \notin 1..n
  BY <1>1
<1>3. Elements(t) = Elements(s) \cup {x}
  BY <1>1, <1>2 DEF Elements
<1>4. ASSUME NoneTwice(s), x \notin Elements(s) PROVE NoneTwice(t)
  <2> SUFFICES ASSUME NEW j \in 1..(n + 1), NEW k \in 1..(n + 1), t[j] = t[k] PROVE j = k
    BY <1>1 DEF NoneTwice
  <2>1. CASE j = n + 1 /\ k = n + 1
    BY <2>1
  <2>2. CASE j \in 1..n /\ k \in 1..n
    BY <1>1, <1>4, <2>2 DEF NoneTwice
  <2>3. ASSUME NEW i \in 1..n PROVE t[i] # t[n + 1]
    BY <1>1, <1>4 DEF Elements
  <2> QED
    BY <1>2, <2>1, <2>2, <2>3
<1> QED
  BY <1>1, <1>3, <1>4 DEF t

(* A connection is a pair of a generator and a number.                     *)
LEMMA ConnTuples ==
    /\ \A c \in Conns : c[1] \in Generators /\ c[2] \in 0..Customers /\ c[2] \in Nat
                        /\ c = <<c[1], c[2]>>
    /\ \A g \in Generators, i \in 0..Customers :
          <<g, i>> \in Conns /\ <<g, i>>[1] = g /\ <<g, i>>[2] = i
  BY LimitAssumption DEF Conns

(* A client's steps: what has begun stays begun, a connection joins the    *)
(* backlog only when it begins.                                            *)
LEMMA ClientNet ==
    ASSUME NetTyped, NetInv, NEW g \in Generators, ClientStep(g) PROVE NetInv' /\ NetTyped'
<1>1. UNCHANGED <<hpc, sock, source, got, reply, fdTable, client_gen_socket>>
  BY DEF ClientStep, Connect, ConnectCustomer, SendOrder, HearBack, ServerVars, handlerVars
<1>2. NumbersDiffer' /\ OpenIsAccepted' /\ ReadersRead'
  BY <1>1 DEF NetInv, NumbersDiffer, OpenIsAccepted, ReadersRead
<1>3. /\ Customers \in Nat /\ next[g] \in Nat /\ next[g] \in 1..(Customers + 1)
      /\ gpc \in [Generators -> {"start", "connect", "send", "wait", "served", "gone"}]
      /\ next \in [Generators -> 1..(Customers + 1)] /\ backlog \in Seq(Conns)
      /\ inbox \in [Conns -> {"nothing", "order", "eof"}]
      /\ gpc[g] \in {"connect", "send"} => next[g] <= Customers
      /\ gpc[g] = "start" => next[g] = 1
  <2>1. next \in [Generators -> 1..(Customers + 1)] /\ Customers \in Nat
    BY LimitAssumption DEF NetTyped
  <2>2. next[g] \in 1..(Customers + 1)
    BY <2>1
  <2>3. next[g] \in Nat
    BY <2>1, <2>2
  <2>4. /\ gpc[g] \in {"connect", "send"} => next[g] <= Customers
        /\ gpc[g] = "start" => next[g] = 1
    <3>1. LoopInRange
      BY DEF NetInv
    <3> QED
      BY <3>1 DEF LoopInRange
  <2> QED
    BY <2>1, <2>2, <2>3, <2>4 DEF NetTyped
<1>4. ASSUME NEW i \in 0..Customers, NEW x \in {"connect", "send", "wait"},
             backlog' = Append(backlog, <<g, i>>), gpc' = [gpc EXCEPT ![g] = x],
             UNCHANGED <<next, inbox>>, ~Begun(<<g, i>>),
             \/ i = 0 /\ x \in {"connect", "wait"} /\ gpc[g] = "start"
             \/ i # 0 /\ i = next[g] /\ x = "send" /\ gpc[g] = "connect",
             x = "connect" => next[g] <= Customers
      PROVE  NetInv' /\ NetTyped'
  <2> DEFINE c == <<g, i>>
  <2>1. c \in Conns /\ c \notin Pending /\ hpc[c] = "none"
    BY <1>4, ConnTuples DEF NetInv, KnownIsBegun
  <2>2. backlog' \in Seq(Conns) /\ Pending' = Pending \cup {c} /\ NoneTwice(backlog')
    <3>1. NoneTwice(backlog)
      BY DEF NetInv, PendingIsNew
    <3> HIDE DEF c
    <3>2. backlog' = Append(backlog, c)
      BY <1>4 DEF c
    <3>3. /\ Append(backlog, c) \in Seq(Conns)
          /\ Elements(Append(backlog, c)) = Pending \cup {c}
          /\ NoneTwice(Append(backlog, c))
      BY <1>3, <2>1, <3>1, AppendBack DEF Pending
    <3> QED
      BY <3>2, <3>3 DEF Pending
  <2>3. PendingIsNew'
    BY <1>1, <2>1, <2>2 DEF NetInv, PendingIsNew, NoneTwice
  <2>4. gpc'[g] = x /\ \A f \in Generators : f # g => gpc'[f] = gpc[f]
    BY <1>3, <1>4
  <2>5. Begun(c)'
    <3>1. c[1] = g /\ c[2] = i
      BY ConnTuples
    <3>2. i = 0 => x # "start"
      BY <1>4
    <3>3. i # 0 => i = next[g] /\ x = "send"
      BY <1>4
    <3> QED
      BY <1>4, <2>4, <3>1, <3>2, <3>3 DEF Begun
  <2>6. \A b \in Conns : Begun(b) => Begun(b)'
    BY <1>3, <1>4, <2>4, ConnTuples DEF Begun
  <2>7. KnownIsBegun'
    BY <1>1, <2>2, <2>5, <2>6 DEF NetInv, KnownIsBegun
  <2>8. LoopInRange'
    BY <1>3, <1>4, <2>4 DEF NetInv, LoopInRange
  <2>9. gpc' \in [Generators -> {"start", "connect", "send", "wait", "served", "gone"}]
    BY <1>3, <1>4
  <2> QED
    BY <1>1, <1>2, <1>4, <2>2, <2>3, <2>7, <2>8, <2>9 DEF NetInv, NetTyped
<1>5. CASE Connect(g)
  <2>1. /\ backlog' = Append(backlog, <<g, 0>>) /\ UNCHANGED <<next, inbox>> /\ gpc[g] = "start"
        /\ gpc' = [gpc EXCEPT ![g] = AfterCustomer(1)]
    BY <1>5 DEF Connect
  <2>2. /\ AfterCustomer(1) \in {"connect", "wait"}
        /\ AfterCustomer(1) = "connect" => next[g] <= Customers
    BY <1>3, <2>1 DEF AfterCustomer
  <2>3. ~Begun(<<g, 0>>) /\ 0 \in 0..Customers
    BY <1>3, <2>1, ConnTuples DEF Begun
  <2> QED
    BY <1>4, <2>1, <2>2, <2>3
<1>6. CASE ConnectCustomer(g)
  <2> DEFINE i == next[g]
  <2>1. /\ backlog' = Append(backlog, <<g, i>>) /\ UNCHANGED <<next, inbox>> /\ gpc[g] = "connect"
        /\ gpc' = [gpc EXCEPT ![g] = "send"]
    BY <1>6 DEF ConnectCustomer
  <2>2. i \in 0..Customers /\ i # 0
    BY <1>3, <2>1
  <2>3. ~Begun(<<g, i>>)
    BY <1>3, <2>1, <2>2, ConnTuples DEF Begun
  <2> QED
    BY <1>4, <2>1, <2>2, <2>3
<1>7. CASE SendOrder(g)
  <2>1. /\ gpc[g] = "send" /\ backlog' = backlog
        /\ inbox' = [inbox EXCEPT ![<<g, next[g]>>] = "order"]
        /\ next' = [next EXCEPT ![g] = next[g] + 1]
        /\ gpc' = [gpc EXCEPT ![g] = AfterCustomer(next[g] + 1)]
    BY <1>7 DEF SendOrder
  <2>2. /\ AfterCustomer(next[g] + 1) \in {"connect", "wait"}
        /\ AfterCustomer(next[g] + 1) = "connect" => next[g] + 1 <= Customers
    BY <1>3 DEF AfterCustomer
  <2>3. /\ next'[g] = next[g] + 1 /\ gpc'[g] = AfterCustomer(next[g] + 1)
        /\ \A f \in Generators : f # g => next'[f] = next[f] /\ gpc'[f] = gpc[f]
        /\ next' \in [Generators -> 1..(Customers + 1)]
        /\ gpc' \in [Generators -> {"start", "connect", "send", "wait", "served", "gone"}]
    BY <1>3, <2>1, <2>2
  <2>4. inbox' \in [Conns -> {"nothing", "order", "eof"}]
    BY <1>3, <2>1
  <2>5. \A b \in Conns : Begun(b) => Begun(b)'
    <3> SUFFICES ASSUME NEW b \in Conns, Begun(b) PROVE Begun(b)'
      OBVIOUS
    <3>1. CASE b[1] # g
      BY <2>3, <3>1, ConnTuples DEF Begun
    <3>2. CASE b[1] = g
      BY <1>3, <2>1, <2>2, <2>3, <3>2, ConnTuples DEF Begun
    <3> QED
      BY <3>1, <3>2
  <2>6. Pending' = Pending
    BY <2>1 DEF Pending
  <2>7. PendingIsNew' /\ KnownIsBegun'
    BY <1>1, <2>1, <2>5, <2>6 DEF NetInv, PendingIsNew, NoneTwice, KnownIsBegun
  <2>8. LoopInRange'
    BY <1>3, <2>2, <2>3 DEF NetInv, LoopInRange
  <2> QED
    BY <1>1, <1>2, <1>3, <2>1, <2>3, <2>4, <2>7, <2>8 DEF NetInv, NetTyped
<1>8. CASE HearBack(g)
  <2>1. /\ gpc[g] = "wait" /\ UNCHANGED <<next, backlog>>
        /\ inbox' = [inbox EXCEPT ![<<g, 0>>] = "eof"]
        /\ \/ gpc' = [gpc EXCEPT ![g] = "served"]
           \/ gpc' = [gpc EXCEPT ![g] = "gone"]
    BY <1>8 DEF HearBack
  <2>2. /\ gpc'[g] \in {"served", "gone"} /\ \A f \in Generators : f # g => gpc'[f] = gpc[f]
        /\ gpc' \in [Generators -> {"start", "connect", "send", "wait", "served", "gone"}]
    BY <1>3, <2>1
  <2>3. inbox' \in [Conns -> {"nothing", "order", "eof"}]
    BY <1>3, <2>1
  <2>4. \A b \in Conns : Begun(b) => Begun(b)'
    BY <2>1, <2>2, ConnTuples DEF Begun
  <2>5. Pending' = Pending
    BY <2>1 DEF Pending
  <2>6. PendingIsNew' /\ KnownIsBegun' /\ LoopInRange'
    BY <1>1, <2>1, <2>2, <2>4, <2>5
       DEF NetInv, PendingIsNew, NoneTwice, KnownIsBegun, LoopInRange
  <2> QED
    BY <1>1, <1>2, <1>3, <2>1, <2>2, <2>3, <2>6 DEF NetInv, NetTyped
<1> QED
  BY <1>5, <1>6, <1>7, <1>8 DEF ClientStep

(* accept keeps the invariant of the connections: the socket it returns is *)
(* new.                                                                    *)
LEMMA AcceptNet == ASSUME NetTyped, NetInv, Accept PROVE NetInv' /\ NetTyped'
<1> DEFINE c == Head(backlog)
           n == FreeFd
<1>1. /\ backlog # <<>> /\ backlog' = Tail(backlog)
      /\ fdTable' = [fdTable EXCEPT ![n] = c]
      /\ sock' = [sock EXCEPT ![c] = n]
      /\ hpc' = [hpc EXCEPT ![c] = "start"]
      /\ client_gen_socket' = IF client_gen_socket = 0 THEN n ELSE client_gen_socket
      /\ UNCHANGED <<gpc, next, inbox, reply, source, got>>
  BY DEF Accept, clientVars
<1>2. n \in FdNumbers /\ fdTable[n] = Nobody
  BY <1>1, FreeFdIsFree
<1>3. /\ backlog' \in Seq(Conns) /\ NoneTwice(backlog') /\ c \in Conns
      /\ c \in Pending /\ Pending' = Pending \ {c}
  <2>1. backlog \in Seq(Conns) /\ NoneTwice(backlog)
    BY DEF NetTyped, NetInv, PendingIsNew
  <2>2. /\ Tail(backlog) \in Seq(Conns) /\ NoneTwice(Tail(backlog)) /\ c \in Conns
        /\ c \in Elements(backlog) /\ Elements(Tail(backlog)) = Elements(backlog) \ {c}
    BY <1>1, <2>1, LoadShrinks DEF Elements
  <2> QED
    BY <1>1, <2>2 DEF Pending
<1>4. hpc[c] = "none" /\ c # Nobody /\ Pending \subseteq Conns
  BY <1>3, NobodyAssumption DEF NetInv, PendingIsNew, NetTyped, Pending, Elements
<1> HIDE DEF c, n
<1>5. /\ fdTable'[n] = c /\ \A m \in FdNumbers : m # n => fdTable'[m] = fdTable[m]
      /\ hpc'[c] = "start" /\ \A b \in Conns : b # c => hpc'[b] = hpc[b]
  BY <1>1, <1>2, <1>3 DEF NetTyped
<1>6. \A m \in FdNumbers : fdTable[m] # c
  BY <1>3, <1>4 DEF NetInv, OpenIsAccepted
<1>7. NumbersDiffer'
  <2> SUFFICES ASSUME NEW m \in FdNumbers, NEW k \in FdNumbers,
                      fdTable'[m] = fdTable'[k], fdTable'[m] # Nobody
               PROVE  m = k
    BY DEF NumbersDiffer
  <2>1. CASE m # n /\ k # n
    BY <1>5, <2>1 DEF NetInv, NumbersDiffer
  <2> QED
    BY <1>5, <1>6, <2>1
<1>8. OpenIsAccepted'
  <2> SUFFICES ASSUME NEW m \in FdNumbers, fdTable'[m] \in Conns PROVE hpc'[fdTable'[m]] # "none"
    BY DEF OpenIsAccepted
  <2>1. CASE m = n
    BY <1>5, <2>1
  <2>2. CASE m # n
    <3>1. fdTable'[m] = fdTable[m] /\ fdTable[m] # c /\ hpc[fdTable[m]] # "none"
      BY <1>5, <1>6, <2>2 DEF NetInv, OpenIsAccepted
    <3> QED
      BY <1>5, <3>1
  <2> QED
    BY <2>1, <2>2
<1>9. PendingIsNew'
  BY <1>3, <1>4, <1>5 DEF NetInv, PendingIsNew, NoneTwice
<1>10. KnownIsBegun'
  <2>1. \A b \in Conns : Begun(b)' = Begun(b)
    BY <1>1 DEF Begun
  <2>2. Begun(c)
    BY <1>3 DEF NetInv, KnownIsBegun
  <2> QED
    BY <1>3, <1>5, <2>1, <2>2 DEF NetInv, KnownIsBegun
<1>11. LoopInRange' /\ ReadersRead'
  <2>1. LoopInRange'
    BY <1>1 DEF NetInv, LoopInRange
  <2>2. ReadersRead'
    BY <1>1, <1>5 DEF NetInv, ReadersRead
  <2> QED
    BY <2>1, <2>2
<1>12. NetTyped'
  BY <1>1, <1>2, <1>3 DEF NetTyped
<1> QED
  BY <1>7, <1>8, <1>9, <1>10, <1>11, <1>12 DEF NetInv

(* A handler moves on, and a number may be closed.                         *)
LEMMA HandlerMoves ==
    ASSUME NetTyped, NetInv, NEW h \in Conns, hpc[h] # "none",
           NEW x \in {"reading", "append", "close", "again", "done"},
           hpc' = [hpc EXCEPT ![h] = x], x = "reading" => source'[h] \in Conns,
           \A b \in Conns : b # h => source'[b] = source[b],
           \A m \in FdNumbers : fdTable'[m] \in {fdTable[m], Nobody},
           UNCHANGED <<gpc, next, backlog>>
    PROVE  NetInv'
<1>1. hpc'[h] = x /\ \A b \in Conns : b # h => hpc'[b] = hpc[b]
  BY DEF NetTyped
<1>2. \A b \in Conns : hpc'[b] = "none" <=> hpc[b] = "none"
  BY <1>1
<1>3. NumbersDiffer'
  BY DEF NetInv, NumbersDiffer
<1>4. OpenIsAccepted'
  BY <1>2, NobodyAssumption DEF NetInv, OpenIsAccepted
<1>5. Pending' = Pending /\ Pending \subseteq Conns /\ \A b \in Conns : Begun(b)' = Begun(b)
  BY DEF Pending, Elements, Begun, NetTyped
<1>6. PendingIsNew'
  BY <1>2, <1>5 DEF NetInv, PendingIsNew, NoneTwice
<1>7. KnownIsBegun'
  BY <1>2, <1>5 DEF NetInv, KnownIsBegun
<1>8. LoopInRange'
  BY DEF NetInv, LoopInRange
<1>9. ReadersRead'
  BY <1>1 DEF NetInv, ReadersRead
<1> QED
  BY <1>3, <1>4, <1>6, <1>7, <1>8, <1>9 DEF NetInv

(* So does each step of a handler thread, closing a socket twice included. *)
LEMMA HandlerNet ==
    ASSUME NetTyped, NetInv, NEW h \in Conns, HandlerStep(h) PROVE NetInv' /\ NetTyped'
<1>1. CASE ReadStart(h)
  <2> DEFINE x == IF fdTable[sock[h]] \in Conns THEN "reading" ELSE "append"
  <2>1. fdTable[sock[h]] \in Conns \cup {StdIn, Nobody}
    BY DEF NetTyped
  <2>2. /\ source' = [source EXCEPT ![h] = fdTable[sock[h]]]
        /\ UNCHANGED <<gpc, next, sock, got, backlog, inbox, reply, fdTable, client_gen_socket>>
        /\ hpc[h] = "start" /\ hpc' = [hpc EXCEPT ![h] = IF source'[h] \in Conns THEN "reading" ELSE "append"]
    BY <1>1 DEF ReadStart, clientVars, netVars
  <2>3. source'[h] = fdTable[sock[h]] /\ \A b \in Conns : b # h => source'[b] = source[b]
    BY <2>2 DEF NetTyped
  <2>4. hpc' = [hpc EXCEPT ![h] = x] /\ (x = "reading" => source'[h] \in Conns)
        /\ x \in {"reading", "append"}
    BY <2>2, <2>3
  <2> HIDE DEF x
  <2>5. NetInv'
    BY <2>2, <2>3, <2>4, HandlerMoves
  <2>6. NetTyped'
    BY <2>1, <2>2, <2>4 DEF NetTyped
  <2> QED
    BY <2>5, <2>6
<1>2. CASE ReadReturns(h)
  <2> DEFINE c == source[h]
  <2>1. /\ hpc[h] = "reading" /\ hpc' = [hpc EXCEPT ![h] = "append"]
        /\ got' = [got EXCEPT ![h] = IF inbox[c] = "order" THEN c ELSE Nobody]
        /\ inbox' = [inbox EXCEPT ![c] = "eof"]
        /\ UNCHANGED <<gpc, next, sock, source, backlog, reply, fdTable, client_gen_socket>>
    BY <1>2 DEF ReadReturns, clientVars
  <2>2. c \in Conns
    BY <2>1 DEF NetInv, ReadersRead
  <2>3. NetInv'
    BY <2>1, HandlerMoves
  <2> HIDE DEF c
  <2>4. (IF inbox[c] = "order" THEN c ELSE Nobody) \in Conns \cup {Nobody}
    BY <2>2
  <2>5. NetTyped'
    BY <2>1, <2>2, <2>4 DEF NetTyped
  <2> QED
    BY <2>3, <2>5
<1>3. CASE AppendOrder(h)
  <2>1. /\ hpc[h] = "append" /\ hpc' = [hpc EXCEPT ![h] = "close"]
        /\ UNCHANGED <<gpc, next, sock, source, got, backlog, inbox, reply, fdTable, client_gen_socket>>
    BY <1>3 DEF AppendOrder, clientVars, netVars
  <2>2. NetInv'
    BY <2>1, HandlerMoves
  <2>3. NetTyped'
    BY <2>1 DEF NetTyped
  <2> QED
    BY <2>2, <2>3
<1>4. CASE CloseSocket(h)
  <2> DEFINE x == IF hpc[h] = "close" THEN "again" ELSE "done"
             n == sock[h]
  <2>1. /\ hpc[h] \in {"close", "again"} /\ hpc' = [hpc EXCEPT ![h] = x]
        /\ fdTable' = [fdTable EXCEPT ![n] = Nobody]
        /\ UNCHANGED <<gpc, next, sock, source, got, backlog, inbox, reply, client_gen_socket>>
    BY <1>4 DEF CloseSocket, clientVars
  <2>2. n \in FdNumbers /\ x \in {"again", "done"}
    BY DEF NetTyped
  <2> HIDE DEF x, n
  <2>3. \A m \in FdNumbers : fdTable'[m] \in {fdTable[m], Nobody}
    BY <2>1, <2>2 DEF NetTyped
  <2>4. NetInv'
    BY <2>1, <2>2, <2>3, HandlerMoves
  <2>5. NetTyped'
    BY <2>1, <2>2 DEF NetTyped
  <2> QED
    BY <2>4, <2>5
<1> QED
  BY <1>1, <1>2, <1>3, <1>4 DEF HandlerStep

(* The end of a session closes whatever client_gen_socket stands for.      *)
LEMMA DeliverNet ==
    ASSUME NetTyped, NetInv, NEW d \in Drivers, Deliver(d) PROVE NetInv' /\ NetTyped'
<1>1. UNCHANGED <<gpc, next, hpc, sock, source, got, backlog, inbox>>
  BY DEF Deliver, clientVars, handlerVars
<1>2. \/ UNCHANGED <<reply, fdTable, client_gen_socket>>
      \/ /\ reply' = reply \cup ({fdTable[client_gen_socket]} \cap Conns)
         /\ fdTable' = [fdTable EXCEPT ![client_gen_socket] = Nobody]
         /\ client_gen_socket' = 0
  BY DEF Deliver, CheckAllDelivered
<1>3. \A m \in FdNumbers : fdTable'[m] \in {fdTable[m], Nobody}
  BY <1>2 DEF NetTyped
<1>4. NetTyped'
  BY <1>1, <1>2, ConnsFinite DEF NetTyped
<1>5. NumbersDiffer' /\ OpenIsAccepted'
  BY <1>1, <1>3, NobodyAssumption DEF NetInv, NumbersDiffer, OpenIsAccepted
<1>6. Pending' = Pending /\ \A b \in Conns : Begun(b)' = Begun(b)
  BY <1>1 DEF Pending, Begun
<1>7. PendingIsNew' /\ KnownIsBegun' /\ LoopInRange' /\ ReadersRead'
  BY <1>1, <1>6 DEF NetInv, PendingIsNew, NoneTwice, KnownIsBegun, LoopInRange, ReadersRead
<1> QED
  BY <1>4, <1>5, <1>7 DEF NetInv

(* Steps of cooks and drivers leave the connections alone.                 *)
LEMMA QuietNet ==
    ASSUME NetTyped, NetInv, UNCHANGED <<clientVars, handlerVars, netVars>> PROVE NetInv' /\ NetTyped'
<1>1. UNCHANGED <<gpc, next, hpc, sock, source, got, backlog, inbox, reply, fdTable, client_gen_socket>>
  BY DEF clientVars, handlerVars, netVars
<1>2. Pending' = Pending /\ \A b \in Conns : Begun(b)' = Begun(b)
  BY <1>1 DEF Pending, Begun
<1>3. NetTyped'
  BY <1>1 DEF NetTyped
<1>4. NetInv'
  BY <1>1, <1>2 DEF NetInv, NumbersDiffer, OpenIsAccepted, PendingIsNew, NoneTwice, KnownIsBegun,
                    LoopInRange, ReadersRead
<1> QED
  BY <1>3, <1>4

(* Every step keeps the invariant of the connections.                      *)
LEMMA NetStep == ASSUME NetTyped, NetInv, [Next]_vars PROVE NetInv' /\ NetTyped'
<1>1. CASE UNCHANGED vars \/ SpuriousWakeup
  BY <1>1, QuietNet DEF vars, SpuriousWakeup
<1>2. ASSUME NEW c \in Cooks, CookStep(c) PROVE NetInv' /\ NetTyped'
  BY <1>2, QuietNet DEF CookStep, StartCooking, CookWaits, FinishCooking
<1>3. ASSUME NEW d \in Drivers, DriverStep(d) PROVE NetInv' /\ NetTyped'
  BY <1>3, QuietNet, DeliverNet DEF DriverStep, TakeOrders, DriverWaits, ComeBack
<1> QED
  BY <1>1, <1>2, <1>3, ClientNet, AcceptNet, HandlerNet DEF Next
-----------------------------------------------------------------------------
(* The whole invariant.                                                    *)

IInv == TypeOK /\ NetInv /\ OrdersInv

(* TypeOK is the type of the connections and the type of the orders.       *)
LEMMA TypeParts ==
    TypeOK <=> NetTyped /\ OrdersTyped /\ delivered_count \in 0..MaxOrders /\ waiting \subseteq Staff
  BY DEF TypeOK, NetTyped, OrdersTyped

(* Setting the status of one order keeps the array's type.                 *)
LEMMA SetStatusTyped ==
    ASSUME NEW o \in [Slots -> [status : Statuses, from : Conns \cup {Nobody}]],
           NEW i \in Slots, NEW s \in Statuses
    PROVE  [o EXCEPT ![i].status = s] \in [Slots -> [status : Statuses, from : Conns \cup {Nobody}]]
  BY SetStatus

(* The five statuses.                                                      *)
LEMMA EveryStatus ==
    "new" \in Statuses /\ "preparing" \in Statuses /\ "ready" \in Statuses
    /\ "carried" \in Statuses /\ "delivered" \in Statuses
  BY DEF Statuses

(* Every step keeps the type of the orders; an index used is one of the    *)
(* array.                                                                  *)
LEMMA OrdersTypedStep ==
    ASSUME TypeOK, OrdersInv, [Next]_vars
    PROVE  OrdersTyped' /\ delivered_count' \in 0..MaxOrders
<1> DEFINE R == [status : Statuses, from : Conns \cup {Nobody}]
<1>1. /\ orders \in [Slots -> R] /\ order_count \in 0..MaxOrders /\ delivered_count \in 0..MaxOrders
      /\ cooking \in [Cooks -> Slots \cup {None}] /\ carrying \in [Drivers -> Seq(Slots)]
      /\ busy \subseteq Drivers /\ Received \subseteq Slots /\ got \in [Conns -> Conns \cup {Nobody}]
  BY SlotRange DEF TypeOK, Received
<1>2. OrdersTyped
  BY TypeParts
<1>3. ASSUME UNCHANGED <<orderVars, staffVars>> PROVE OrdersTyped' /\ delivered_count' \in 0..MaxOrders
  BY <1>1, <1>3 DEF OrdersTyped, orderVars, staffVars
<1>4. ASSUME NEW h \in Conns, AppendOrder(h) PROVE OrdersTyped' /\ delivered_count' \in 0..MaxOrders
  <2>1. UNCHANGED <<delivered_count, cooking, carrying, busy>>
    BY <1>4 DEF AppendOrder, staffVars
  <2>2. CASE ~Room
    BY <1>3, <1>4, <2>1, <2>2 DEF AppendOrder, orderVars, staffVars
  <2>3. CASE Room
    <3>1. /\ orders' = [orders EXCEPT ![order_count] = [status |-> "new", from |-> got[h]]]
          /\ order_count' = order_count + 1
      BY <1>4, <2>3 DEF AppendOrder
    <3>2. [status |-> "new", from |-> got[h]] \in R
      BY <1>1 DEF Statuses
    <3> HIDE DEF R
    <3>3. orders' \in [Slots -> R]
      BY <1>1, <3>1, <3>2
    <3>4. order_count' \in 0..MaxOrders
      BY <1>1, <2>3, <3>1, SlotRange DEF Room
    <3> QED
      BY <1>1, <2>1, <3>3, <3>4 DEF OrdersTyped, R
  <2> QED
    BY <2>2, <2>3
<1>5. ASSUME NEW c \in Cooks, StartCooking(c) \/ FinishCooking(c)
      PROVE  OrdersTyped' /\ delivered_count' \in 0..MaxOrders
  <2>1. UNCHANGED <<order_count, delivered_count, carrying, busy>>
    BY <1>5 DEF StartCooking, FinishCooking
  <2>2. CASE StartCooking(c)
    <3>1. PICK i \in ToCook : /\ orders' = [orders EXCEPT ![i].status = "preparing"]
                              /\ cooking' = [cooking EXCEPT ![c] = i]
      BY <2>2 DEF StartCooking
    <3>2. i \in Slots
      BY <1>1 DEF ToCook
    <3>3. [orders EXCEPT ![i].status = "preparing"] \in [Slots -> R]
      BY <1>1, <3>2, SetStatusTyped, EveryStatus
    <3> HIDE DEF R
    <3>4. cooking' \in [Cooks -> Slots \cup {None}]
      BY <1>1, <3>1, <3>2
    <3> QED
      BY <1>1, <2>1, <3>1, <3>3, <3>4 DEF OrdersTyped, R
  <2>3. CASE FinishCooking(c)
    <3>1. /\ orders' = [orders EXCEPT ![cooking[c]].status = "ready"]
          /\ cooking' = [cooking EXCEPT ![c] = None] /\ cooking[c] # None
      BY <2>3 DEF FinishCooking
    <3>2. cooking[c] \in Slots
      BY <1>1, <3>1
    <3>3. [orders EXCEPT ![cooking[c]].status = "ready"] \in [Slots -> R]
      BY <1>1, <3>2, SetStatusTyped, EveryStatus
    <3> HIDE DEF R
    <3>4. cooking' \in [Cooks -> Slots \cup {None}]
      BY <1>1, <3>1
    <3> QED
      BY <1>1, <2>1, <3>1, <3>3, <3>4 DEF OrdersTyped, R
  <2> QED
    BY <1>5, <2>2, <2>3
<1>6. ASSUME NEW d \in Drivers, TakeOrders(d)
      PROVE  OrdersTyped' /\ delivered_count' \in 0..MaxOrders
  <2>1. UNCHANGED <<order_count, delivered_count, cooking>> /\ busy' = busy \cup {d}
    BY <1>6 DEF TakeOrders
  <2>2. \E n \in 1..Capacity : \E s \in [1..n -> ToCarry] :
           /\ carrying' = [carrying EXCEPT ![d] = s]
           /\ orders' = [i \in Slots |-> IF \E k \in 1..n : s[k] = i
                                         THEN [orders[i] EXCEPT !.status = "carried"]
                                         ELSE orders[i]]
    BY <1>6 DEF TakeOrders
  <2>3. ASSUME NEW n \in 1..Capacity, NEW s \in [1..n -> ToCarry],
               carrying' = [carrying EXCEPT ![d] = s],
               orders' = [i \in Slots |-> IF \E k \in 1..n : s[k] = i
                                          THEN [orders[i] EXCEPT !.status = "carried"]
                                          ELSE orders[i]]
        PROVE  orders' \in [Slots -> R] /\ carrying' \in [Drivers -> Seq(Slots)]
    <3>1. s \in Seq(Slots)
      <4>1. n \in Nat /\ ToCarry \subseteq Slots
        BY <1>1, SlotRange DEF ToCarry
      <4>2. s \in [1..n -> Slots]
        BY <4>1
      <4> QED
        BY <4>1, <4>2
    <3>2. carrying' \in [Drivers -> Seq(Slots)]
      BY <1>1, <2>3, <3>1
    <3>3. ASSUME NEW i \in Slots PROVE [orders[i] EXCEPT !.status = "carried"] \in R
      <4>1. orders[i] \in R
        BY <1>1
      <4> QED
        BY <4>1 DEF Statuses
    <3>4. \A i \in Slots : orders[i] \in R
      BY <1>1
    <3> HIDE DEF R
    <3>5. orders' \in [Slots -> R]
      BY <2>3, <3>3, <3>4
    <3> QED
      BY <3>2, <3>5
  <2>4. orders' \in [Slots -> R] /\ carrying' \in [Drivers -> Seq(Slots)]
    BY <2>2, <2>3
  <2> QED
    BY <1>1, <2>1, <2>4 DEF OrdersTyped
<1>7. ASSUME NEW d \in Drivers, Deliver(d)
      PROVE  OrdersTyped' /\ delivered_count' \in 0..MaxOrders
  <2> DEFINE i == Head(carrying[d])
  <2>1. /\ UNCHANGED <<cooking, busy>> /\ carrying[d] # <<>>
        /\ orders' = [orders EXCEPT ![i].status = "delivered"]
        /\ carrying' = [carrying EXCEPT ![d] = Tail(carrying[d])]
        /\ \/ order_count' = 0 /\ delivered_count' = 0
           \/ order_count' = order_count /\ delivered_count' = delivered_count + 1
    BY <1>7 DEF Deliver, CheckAllDelivered
  <2>2. i \in Slots /\ Tail(carrying[d]) \in Seq(Slots)
    <3>1. carrying[d] \in Seq(Slots)
      BY <1>1
    <3> QED
      BY <2>1, <3>1
  <2> HIDE DEF i
  <2>3. [orders EXCEPT ![i].status = "delivered"] \in [Slots -> R]
    <3>1. "delivered" \in Statuses
      BY DEF Statuses
    <3> QED
      BY <1>1, <2>2, <3>1, SetStatus
  <2> HIDE DEF R
  <2>4. orders' \in [Slots -> R] /\ carrying' \in [Drivers -> Seq(Slots)]
    BY <1>1, <2>1, <2>2, <2>3
  <2>5. delivered_count + 1 \in 0..order_count
    BY <1>2, <1>7, DeliverEffect
  <2>6. order_count' \in 0..MaxOrders /\ delivered_count' \in 0..MaxOrders
    BY <1>1, <2>1, <2>5, SlotRange
  <2> QED
    BY <1>1, <2>1, <2>4, <2>6 DEF OrdersTyped, R
<1>8. ASSUME NEW d \in Drivers, ComeBack(d)
      PROVE  OrdersTyped' /\ delivered_count' \in 0..MaxOrders
  BY <1>1, <1>8 DEF ComeBack, orderVars, OrdersTyped
<1> HIDE DEF R
<1>9. CASE UNCHANGED vars \/ SpuriousWakeup \/ Accept
  BY <1>3, <1>9 DEF vars, SpuriousWakeup, Accept
<1>10. ASSUME NEW g \in Generators, ClientStep(g) PROVE UNCHANGED <<orderVars, staffVars>>
  BY <1>10 DEF ClientStep, Connect, ConnectCustomer, SendOrder, HearBack, ServerVars
<1>11. ASSUME NEW h \in Conns, HandlerStep(h), ~AppendOrder(h) PROVE UNCHANGED <<orderVars, staffVars>>
  BY <1>11 DEF HandlerStep, ReadStart, ReadReturns, CloseSocket
<1>12. ASSUME NEW c \in Cooks, CookWaits(c) PROVE UNCHANGED <<orderVars, staffVars>>
  BY <1>12 DEF CookWaits
<1>13. ASSUME NEW d \in Drivers, DriverWaits(d) PROVE UNCHANGED <<orderVars, staffVars>>
  BY <1>13 DEF DriverWaits
<1> QED
  BY <1>3, <1>4, <1>5, <1>6, <1>7, <1>8, <1>9, <1>10, <1>11, <1>12, <1>13
     DEF Next, CookStep, DriverStep

(* Only cooks and drivers ever wait for orders.                            *)
LEMMA WaitingStep ==
    ASSUME waiting \subseteq Staff, [Next]_vars PROVE waiting' \subseteq Staff
<1>1. ASSUME NEW g \in Generators, ClientStep(g) PROVE waiting' = waiting
  BY <1>1 DEF ClientStep, Connect, ConnectCustomer, SendOrder, HearBack, ServerVars
<1>2. ASSUME NEW h \in Conns, HandlerStep(h) PROVE waiting' \subseteq waiting
  BY <1>2 DEF HandlerStep, ReadStart, ReadReturns, CloseSocket, AppendOrder, Signal
<1>3. ASSUME NEW c \in Cooks, CookStep(c) PROVE waiting' \subseteq waiting \cup {c}
  BY <1>3 DEF CookStep, StartCooking, CookWaits, FinishCooking, Broadcast
<1>4. ASSUME NEW d \in Drivers, DriverStep(d) PROVE waiting' \subseteq waiting \cup {d}
  BY <1>4 DEF DriverStep, TakeOrders, DriverWaits, Deliver, ComeBack, Broadcast
<1>5. CASE UNCHANGED vars \/ SpuriousWakeup \/ Accept
  BY <1>5 DEF vars, SpuriousWakeup, Accept
<1> QED
  BY <1>1, <1>2, <1>3, <1>4, <1>5 DEF Next, Staff

(* The shop opens in the invariant.                                        *)
LEMMA InitInv == Init => IInv
<1> SUFFICES ASSUME Init PROVE IInv
  OBVIOUS
<1>1. NetTyped
  BY ConnsFinite, LimitAssumption DEF Init, NetTyped
<1>2. OrdersTyped /\ delivered_count \in 0..MaxOrders /\ waiting \subseteq Staff
  <2>1. [status |-> "new", from |-> Nobody] \in [status : Statuses, from : Conns \cup {Nobody}]
    BY DEF Statuses
  <2>2. orders \in [Slots -> [status : Statuses, from : Conns \cup {Nobody}]]
    BY <2>1 DEF Init
  <2>3. carrying \in [Drivers -> Seq(Slots)]
    BY DEF Init
  <2> QED
    BY <2>2, <2>3, LimitAssumption DEF Init, OrdersTyped, Staff
<1>3. Pending = {} /\ Received = {} /\ \A d \in Drivers : Carried(d) = {}
  BY DEF Init, Pending, Elements, Received, Carried
<1>4. NetInv
  <2>1. NumbersDiffer /\ OpenIsAccepted
    BY NobodyAssumption DEF Init, NumbersDiffer, OpenIsAccepted
  <2>2. PendingIsNew /\ KnownIsBegun
    BY <1>3 DEF Init, PendingIsNew, KnownIsBegun, NoneTwice
  <2>3. LoopInRange /\ ReadersRead
    BY DEF Init, LoopInRange, ReadersRead
  <2> QED
    BY <2>1, <2>2, <2>3 DEF NetInv
<1>5. OrdersInv
  <2>1. CountIsDelivered
    <3>1. {i \in Received : orders[i].status = "delivered"} = {}
      BY <1>3
    <3> QED
      BY <3>1, FS_EmptySet DEF Init, CountIsDelivered
  <2>2. HoldersOwnTheirSlots /\ EmptyHanded
    BY <1>3 DEF Init, HoldersOwnTheirSlots, EmptyHanded
  <2> QED
    BY <2>1, <2>2 DEF OrdersInv
<1> QED
  BY <1>1, <1>2, <1>4, <1>5, TypeParts DEF IInv

(* Every step of generators, server, handlers, cooks and drivers keeps it. *)
LEMMA NextInv == IInv /\ [Next]_vars => IInv'
<1> SUFFICES ASSUME IInv, [Next]_vars PROVE IInv'
  OBVIOUS
<1>1. /\ TypeOK /\ NetTyped /\ OrdersTyped /\ waiting \subseteq Staff /\ NetInv /\ OrdersInv
  BY TypeParts DEF IInv
<1>2. NetInv' /\ NetTyped' /\ OrdersInv'
  BY <1>1, NetStep, OrdersStep
<1>3. OrdersTyped' /\ delivered_count' \in 0..MaxOrders /\ waiting' \subseteq Staff
  BY <1>1, OrdersTypedStep, WaitingStep
<1>4. TypeOK'
  BY <1>2, <1>3 DEF TypeOK, NetTyped, OrdersTyped
<1> QED
  BY <1>2, <1>4 DEF IInv

(* For any generators, customers, cooks, drivers and slots, types,         *)
(* connections (accept, close) and orders keep their invariants in every   *)
(* run (server.c 149-375).                                                 *)
THEOREM Invariance == Spec => []IInv
  BY InitInv, NextInv, PTL DEF Spec

(* Every variable in its range; in particular accept always finds a free   *)
(* number and no index leaves orders[].                                    *)
THEOREM TypeCorrect == Spec => []TypeOK
<1>1. IInv => TypeOK
  BY DEF IInv
<1> QED
  BY Invariance, <1>1, PTL

(* delivered_count counts the delivered orders of the session (357).       *)
THEOREM TheCountIsRight == Spec => []CountIsDelivered
<1>1. IInv => CountIsDelivered
  BY DEF IInv, OrdersInv
<1> QED
  BY Invariance, <1>1, PTL

(* The index a cook or driver keeps across unlocked sections stays its own *)
(* through every append and every reset of the session.                    *)
THEOREM SlotsAreOwned == Spec => []HoldersOwnTheirSlots
<1>1. IInv => HoldersOwnTheirSlots
  BY DEF IInv, OrdersInv
<1> QED
  BY Invariance, <1>1, PTL

(* An order that keeps its sender and moves at most one state forward.     *)
Forward(r, q) == q.from = r.from /\ Rank(q.status) \in {Rank(r.status), Rank(r.status) + 1}

(* An order that stays as it is has not gone back.                         *)
LEMMA NoMove ==
    ASSUME NEW r, r.status \in Statuses PROVE Forward(r, r)
  BY DEF Forward

(* Nor has one whose status takes its next value.                          *)
LEMMA OneMove ==
    ASSUME NEW r, NEW q, q.from = r.from,
           \/ r.status = "new" /\ q.status = "preparing"
           \/ r.status = "preparing" /\ q.status = "ready"
           \/ r.status = "ready" /\ q.status = "carried"
           \/ r.status = "carried" /\ q.status = "delivered"
    PROVE  Forward(r, q)
<1>1. /\ Rank("new") = 1 /\ Rank("preparing") = 2 /\ Rank("ready") = 3
      /\ Rank("carried") = 4 /\ Rank("delivered") = 5
  BY DEF Rank
<1>2. Rank(q.status) = Rank(r.status) + 1
  BY <1>1
<1> QED
  BY <1>2 DEF Forward

(* No step takes an order back or drops one that is not delivered.         *)
LEMMA EveryOrderForward ==
    ASSUME TypeOK, OrdersInv, [Next]_vars, NEW i \in Received
    PROVE  \/ order_count' = 0 /\ orders'[i].status = "delivered"
           \/ i < order_count' /\ Forward(orders[i], orders'[i])
<1>1. /\ orders \in [Slots -> [status : Statuses, from : Conns \cup {Nobody}]]
      /\ order_count \in 0..MaxOrders /\ i \in Slots /\ i \in Nat /\ i < order_count
  <2>1. /\ orders \in [Slots -> [status : Statuses, from : Conns \cup {Nobody}]]
        /\ order_count \in 0..MaxOrders
    BY DEF TypeOK
  <2>2. i \in 0..order_count - 1
    BY DEF Received
  <2> QED
    BY <2>1, <2>2, SlotRange
<1>2. orders[i].status \in Statuses /\ Forward(orders[i], orders[i])
  BY <1>1, NoMove
<1>3. ASSUME UNCHANGED <<orders, order_count>>
      PROVE  i < order_count' /\ Forward(orders[i], orders'[i])
  BY <1>1, <1>2, <1>3
<1>4. ASSUME NEW h \in Conns, AppendOrder(h)
      PROVE  i < order_count' /\ Forward(orders[i], orders'[i])
  <2>1. CASE ~Room
    BY <1>3, <1>4, <2>1 DEF AppendOrder
  <2>2. CASE Room
    <3>1. orders'[i] = orders[i] /\ order_count' = order_count + 1
      BY <1>1, <1>4, <2>2 DEF AppendOrder
    <3>2. i < order_count'
      BY <1>1, <3>1
    <3> QED
      BY <1>2, <3>1, <3>2
  <2> QED
    BY <2>1, <2>2
<1>5. ASSUME NEW j \in Slots, NEW t \in Statuses, orders' = [orders EXCEPT ![j].status = t],
             order_count' = order_count,
             \/ orders[j].status = "new" /\ t = "preparing"
             \/ orders[j].status = "preparing" /\ t = "ready"
      PROVE  i < order_count' /\ Forward(orders[i], orders'[i])
  <2>1. /\ orders'[j].status = t /\ orders'[j].from = orders[j].from
        /\ i # j => orders'[i] = orders[i]
    BY <1>1, <1>5, SetStatus
  <2>2. Forward(orders[j], orders'[j])
    BY <1>5, <2>1, OneMove
  <2> QED
    BY <1>1, <1>2, <1>5, <2>1, <2>2
<1>6. ASSUME NEW c \in Cooks, StartCooking(c)
      PROVE  i < order_count' /\ Forward(orders[i], orders'[i])
  <2>1. PICK j \in ToCook : orders' = [orders EXCEPT ![j].status = "preparing"]
    BY <1>6 DEF StartCooking
  <2>2. j \in Slots /\ orders[j].status = "new" /\ order_count' = order_count
    BY <1>1, <1>6, SlotRange DEF ToCook, Received, StartCooking
  <2> QED
    BY <1>5, <2>1, <2>2 DEF Statuses
<1>7. ASSUME NEW c \in Cooks, FinishCooking(c)
      PROVE  i < order_count' /\ Forward(orders[i], orders'[i])
  <2>1. /\ orders' = [orders EXCEPT ![cooking[c]].status = "ready"] /\ cooking[c] # None
        /\ order_count' = order_count
    BY <1>7 DEF FinishCooking
  <2>2. cooking[c] \in Slots /\ orders[cooking[c]].status = "preparing"
    BY <1>1, <2>1, SlotRange DEF OrdersInv, HoldersOwnTheirSlots, Received
  <2> QED
    BY <1>5, <2>1, <2>2 DEF Statuses
<1>8. ASSUME NEW d \in Drivers, TakeOrders(d)
      PROVE  i < order_count' /\ Forward(orders[i], orders'[i])
  <2>1. order_count' = order_count
    BY <1>8 DEF TakeOrders
  <2>2. \/ orders'[i] = orders[i]
        \/ i \in ToCarry /\ orders'[i] = [orders[i] EXCEPT !.status = "carried"]
    BY <1>1, <1>8 DEF TakeOrders
  <2>3. CASE i \in ToCarry /\ orders'[i] = [orders[i] EXCEPT !.status = "carried"]
    <3>1. orders[i] \in [status : Statuses, from : Conns \cup {Nobody}] /\ orders[i].status = "ready"
      BY <1>1, <2>3 DEF ToCarry
    <3>2. orders'[i].status = "carried" /\ orders'[i].from = orders[i].from
      BY <2>3, <3>1
    <3> QED
      BY <1>1, <2>1, <3>1, <3>2, OneMove
  <2> QED
    BY <1>1, <1>2, <2>1, <2>2, <2>3
<1>9. ASSUME NEW d \in Drivers, Deliver(d)
      PROVE  \/ order_count' = 0 /\ orders'[i].status = "delivered"
             \/ i < order_count' /\ Forward(orders[i], orders'[i])
  <2>1. OrdersTyped
    BY TypeParts
  <2>2. /\ \/ orders'[i] = orders[i]
           \/ /\ orders[i].status = "carried" /\ orders'[i].status = "delivered"
              /\ orders'[i].from = orders[i].from
        /\ delivered_count + 1 = order_count => orders'[i].status = "delivered"
    BY <1>9, <2>1, DeliverEffect
  <2>3. Forward(orders[i], orders'[i])
    BY <1>2, <2>2, OneMove
  <2>4. \/ delivered_count + 1 = order_count /\ order_count' = 0
        \/ order_count' = order_count
    BY <1>9 DEF Deliver, CheckAllDelivered, SessionOver
  <2> QED
    BY <1>1, <2>2, <2>3, <2>4
<1>10. CASE UNCHANGED vars \/ SpuriousWakeup \/ Accept
  BY <1>3, <1>10 DEF vars, orderVars, SpuriousWakeup, Accept
<1>11. ASSUME NEW g \in Generators, ClientStep(g) PROVE UNCHANGED <<orders, order_count>>
  BY <1>11 DEF ClientStep, Connect, ConnectCustomer, SendOrder, HearBack, ServerVars, orderVars
<1>12. ASSUME NEW h \in Conns, HandlerStep(h), ~AppendOrder(h) PROVE UNCHANGED <<orders, order_count>>
  BY <1>12 DEF HandlerStep, ReadStart, ReadReturns, CloseSocket, orderVars
<1>13. ASSUME NEW c \in Cooks, CookWaits(c) PROVE UNCHANGED <<orders, order_count>>
  BY <1>13 DEF CookWaits, orderVars
<1>14. ASSUME NEW d \in Drivers, DriverWaits(d) \/ ComeBack(d) PROVE UNCHANGED <<orders, order_count>>
  BY <1>14 DEF DriverWaits, ComeBack, orderVars
<1> QED
  BY <1>3, <1>4, <1>6, <1>7, <1>8, <1>9, <1>10, <1>11, <1>12, <1>13, <1>14
     DEF Next, CookStep, DriverStep

(* No order received is dropped, replaced or moved back before it is       *)
(* delivered, whatever resets and appends come in between.                 *)
THEOREM OrdersOnlyMoveForward == Spec => NoOrderDropped
<1>1. ASSUME IInv, Next
      PROVE  \A i \in Received :
                \/ order_count' = 0 /\ orders'[i].status = "delivered"
                \/ /\ i < order_count'
                   /\ orders'[i].from = orders[i].from
                   /\ Rank(orders'[i].status) \in {Rank(orders[i].status), Rank(orders[i].status) + 1}
  BY <1>1, EveryOrderForward DEF IInv, Forward
<1> QED
  BY Invariance, <1>1, PTL DEF Spec, NoOrderDropped
=============================================================================
