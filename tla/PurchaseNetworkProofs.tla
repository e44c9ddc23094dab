------------------------ MODULE PurchaseNetworkProofs ------------------------
(***************************************************************************)
(* The stores of the network keep their types, and a purchase that its     *)
(* store has confirmed is on record at every store that contributes to it, *)
(* for any stores, customers, links and losses.                            *)
(*                                                                         *)
(* Types are not inductive alone: a task takes the share it asks for from  *)
(* the plan on record, and a store that accepts to contribute replaces its *)
(* record of the purchase.  That a record with a plan is never replaced    *)
(* follows from who owns a purchase: one store, the only one that sends    *)
(* messages about it.                                                      *)
(***************************************************************************)
EXTENDS PurchaseNetwork, StoreActorProofs, SequenceTheorems

-----------------------------------------------------------------------------
\* The inductive invariant.

Message ==
  [type : {"Update"}, stock : HashMap(Product, Nat)]
    \cup [type : {"Ask"}, id : TxId, share : HashMap(Product, Nat)]
    \cup [type : {"Response"}, id : TxId, ok : BOOLEAN]
    \cup [type : Decision, id : TxId]

Channels == [Node -> [Node -> Seq(Message)]]

\* A store is not linked with itself.
LinksInv ==
  /\ chan \in Channels
  /\ linked \in [Node -> SUBSET Node]
  /\ \A n \in Node : n \notin linked[n] /\ chan[n][n] = <<>>
  /\ DOMAIN snap = Node /\ \A n \in Node : \A s \in snap[n] : IsStock(s)

TasksInv ==
  /\ pc \in [Conn -> {"idle", "planned", "asking", "waiting"} \cup Decision]
  /\ request \in [Conn -> TxId \cup {None}]
  /\ todo \in [Conn -> SUBSET Node]
  /\ peer \in [Conn -> Node \cup {None}]
  /\ refused \in [Conn -> BOOLEAN]
  /\ told \in [Conn -> SUBSET TxId]
  /\ \A k \in Conn : /\ pc[k] = "waiting" <=> peer[k] # None
                     /\ pc[k] = "idle" => request[k] = None /\ todo[k] = {}

\* n planned purchase id.
Owned(n, id) == id \in DOMAIN txs[n] /\ txs[n][id].involved_stock # Empty

OneOwner ==
  \A m, n \in Node, id \in TxId : Owned(m, id) /\ Owned(n, id) => m = n

\* Only the store that planned a purchase asks for it and decides on it.
OwnerSpeaks ==
  \A m, n \in Node : \A msg \in Range(chan[m][n]) :
    msg.type \in {"Ask"} \cup Decision => Owned(m, msg.id)

\* No other store does; this much is true of stores that forget, too.
OthersSilent ==
  \A m, n \in Node : \A msg \in Range(chan[m][n]) :
    msg.type \in {"Ask"} \cup Decision =>
      \A r \in Node : Owned(r, msg.id) => r = m

TaskOwns(k) ==
  /\ pc[k] # "idle" => /\ Owned(home[k], request[k])
                       /\ todo[k] \subseteq Targets(k)
  /\ \A id \in told[k] : Owned(home[k], id)

TypeInv ==
  /\ StoreInv
  /\ LinksInv
  /\ TasksInv
  /\ OneOwner
  /\ OthersSilent
  /\ \A k \in Conn : TaskOwns(k)

\* A store that reserved has the purchase on record, unless its record is one
\* of lost: pairs <<m, id>>, empty where no store forgets.
Reserved(lost, m, id) == id \in DOMAIN txs[m] \/ <<m, id>> \in lost

\* Every store of the plan of id at n has reserved its share.
OnRecord(lost, n, id) ==
  \A m \in DOMAIN txs[n][id].involved_stock : Reserved(lost, m, id)

PromisesHold(lost) ==
  \A n \in Node : \A id \in DOMAIN txs[n] :
    txs[n][id].state \in Promised => OnRecord(lost, n, id)

\* So has a store that answered Confirm.
AnswersHold(lost) ==
  \A m, n \in Node : \A msg \in Range(chan[m][n]) :
    msg.type = "Response" /\ msg.ok => Reserved(lost, m, msg.id)

\* So have the stores a task has asked, unless one refused; and all stores of
\* what is confirmed.
TaskKnows(lost, k) ==
  /\ pc[k] \in {"planned", "asking", "waiting"} =>
       \/ refused[k]
       \/ \A m \in DOMAIN Plan(k) \ (todo[k] \cup {peer[k]}) :
            Reserved(lost, m, request[k])
  /\ pc[k] = "Confirm" => OnRecord(lost, home[k], request[k])
  /\ \A id \in told[k] : OnRecord(lost, home[k], id)

ReserveInv(lost) ==
  /\ TypeInv
  /\ PromisesHold(lost)
  /\ AnswersHold(lost)
  /\ \A k \in Conn : TaskKnows(lost, k)

-----------------------------------------------------------------------------
\* Messages and channels.

LEMMA StockIsMap == \A s : IsStock(s) => s \in HashMap(Product, Nat)
  BY DEF IsStock, HashMap

LEMMA MapIsStock == \A s \in HashMap(Product, Nat) : IsStock(s)
  BY DEF IsStock, HashMap

LEMMA MessagesAre == \A msg \in Message : IsMessage(msg)
<1> SUFFICES ASSUME NEW msg \in Message PROVE IsMessage(msg)
  OBVIOUS
<1>1. CASE msg \in [type : {"Update"}, stock : HashMap(Product, Nat)]
  BY <1>1, MapIsStock DEF IsMessage, Announcement
<1>2. CASE msg \in [type : {"Ask"}, id : TxId, share : HashMap(Product, Nat)]
  BY <1>2, MapIsStock DEF IsMessage, AskMessage
<1>3. CASE msg \in [type : {"Response"}, id : TxId, ok : BOOLEAN]
  BY <1>3 DEF IsMessage, Response
<1>4. CASE msg \in [type : Decision, id : TxId]
  BY <1>4 DEF IsMessage, Notice, Decision
<1>5. QED
  BY <1>1, <1>2, <1>3, <1>4 DEF Message

LEMMA IsAnnouncement ==
  ASSUME NEW s, IsStock(s)
  PROVE  Announcement(s) \in Message
  BY StockIsMap DEF Message, Announcement

LEMMA IsAskMessage ==
  ASSUME NEW id \in TxId, NEW d, IsStock(d)
  PROVE  AskMessage(id, d) \in Message
  BY StockIsMap DEF Message, AskMessage

LEMMA IsResponse ==
  ASSUME NEW id \in TxId, NEW ok \in BOOLEAN
  PROVE  Response(id, ok) \in Message
  BY DEF Message, Response

LEMMA IsNotice ==
  ASSUME NEW decision \in Decision, NEW id \in TxId
  PROVE  Notice(decision, id) \in Message
  BY DEF Message, Notice

LEMMA Appended ==
  ASSUME NEW S, NEW s \in Seq(S), NEW e \in S
  PROVE  /\ Append(s, e) \in Seq(S)
         /\ \A x \in Range(Append(s, e)) : x \in Range(s) \/ x = e
  BY DEF Range

LEMMA Dropped ==
  ASSUME NEW S, NEW s \in Seq(S), NEW i \in 1 .. Len(s)
  PROVE  /\ SubSeq(s, i + 1, Len(s)) \in Seq(S)
         /\ Range(SubSeq(s, i + 1, Len(s))) \subseteq Range(s)
  BY DEF Range

LEMMA HeadAndTail ==
  ASSUME NEW S, NEW s \in Seq(S), s # <<>>
  PROVE  /\ Head(s) \in S /\ Head(s) \in Range(s)
         /\ Tail(s) \in Seq(S)
         /\ Range(Tail(s)) \subseteq Range(s)
  BY DEF Range

\* Whatever is read, or lost, what is left was there before.
Fewer(c) ==
  /\ c \in Channels
  /\ \A m, n \in Node : Range(c[m][n]) \subseteq Range(chan[m][n])
  /\ \A n \in Node : c[n][n] = <<>>

\* All messages of c are there already, or are msg from n.
Sent(c, n, msg) ==
  /\ c \in Channels
  /\ \A a, b \in Node : \A x \in Range(c[a][b]) :
       x \in Range(chan[a][b]) \/ (a = n /\ x = msg)
  /\ \A a \in Node : c[a][a] = <<>>

LEMMA PostedIsSent ==
  ASSUME LinksInv, NEW c, Fewer(c), NEW n \in Node, NEW S, NEW msg \in Message
  PROVE  Sent(Posted(c, n, S, msg), n, msg)
<1> DEFINE new == [m \in Node |-> IF m \in S /\ n \in linked[m]
                                 THEN Append(c[n][m], msg) ELSE c[n][m]]
<1>1. \A m \in Node : /\ new[m] \in Seq(Message)
                      /\ \A x \in Range(new[m]) : x \in Range(c[n][m]) \/ x = msg
  BY Appended DEF Fewer, Channels
<1>2. new[n] = <<>>
  BY DEF Fewer, LinksInv
<1>3. Posted(c, n, S, msg) = [c EXCEPT ![n] = new]
  BY DEF Posted, Fewer, Channels
<1>4. new \in [Node -> Seq(Message)]
  BY <1>1
<1> HIDE DEF new
<1>5. [c EXCEPT ![n] = new] \in Channels
  BY <1>4 DEF Fewer, Channels
<1>6. ASSUME NEW a \in Node
      PROVE  [c EXCEPT ![n] = new][a] = IF a = n THEN new ELSE c[a]
  BY DEF Fewer, Channels
<1>7. QED
  BY <1>1, <1>2, <1>3, <1>5, <1>6 DEF Fewer, Sent

LEMMA RestsAreFewer ==
  ASSUME LinksInv, NEW m \in Node, NEW n \in Node, NEW s \in Seq(Message),
         Range(s) \subseteq Range(chan[m][n]), m # n
  PROVE  Fewer([chan EXCEPT ![m][n] = s])
<1>1. /\ chan \in Channels
      /\ \A a \in Node : chan[a][a] = <<>>
  BY DEF LinksInv
<1>2. [chan EXCEPT ![m][n] = s] \in Channels
  BY <1>1 DEF Channels
<1>3. ASSUME NEW a \in Node, NEW b \in Node
      PROVE  [chan EXCEPT ![m][n] = s][a][b] = IF a = m /\ b = n THEN s ELSE chan[a][b]
  BY <1>1 DEF Channels
<1>4. QED
  BY <1>1, <1>2, <1>3 DEF Fewer

LEMMA Unread ==
  ASSUME LinksInv
  PROVE  Fewer(chan)
  BY DEF LinksInv, Fewer

-----------------------------------------------------------------------------
\* Plans.

\* Of id, n knows what it knew, its plan included.
PlanKept(n, id) ==
  /\ Owned(n, id)' <=> Owned(n, id)
  /\ Owned(n, id) => txs'[n][id].involved_stock = txs[n][id].involved_stock
  /\ id \in DOMAIN txs[n] => id \in DOMAIN txs'[n]

PlansKept == \A n \in Node, id \in TxId : PlanKept(n, id)

LEMMA UnchangedKeeps ==
  ASSUME txs' = txs
  PROVE  PlansKept
  BY DEF PlansKept, PlanKept, Owned

LEMMA MarkedKeeps ==
  ASSUME StoreInv, NEW n \in Node, NEW id \in TxId, NEW s, txs' = Marked(n, id, s)
  PROVE  PlansKept
<1>1. CASE id \notin DOMAIN txs[n]
  BY <1>1, UnchangedKeeps DEF Marked
<1>2. CASE id \in DOMAIN txs[n]
  <2>1. /\ txs'[n] = Insert(txs[n], id, Transaction(s, txs[n][id].involved_stock))
        /\ \A m \in Node : m # n => txs'[m] = txs[m]
    BY <1>2 DEF StoreInv, TypesOfRecords, Marked
  <2>2. /\ DOMAIN txs'[n] = DOMAIN txs[n]
        /\ \A i \in DOMAIN txs[n] :
             txs'[n][i].involved_stock = txs[n][i].involved_stock
    BY <1>2, <2>1 DEF Insert, Transaction
  <2>3. QED
    BY <2>1, <2>2 DEF PlansKept, PlanKept, Owned
<1>3. QED
  BY <1>1, <1>2

LEMMA DecisionsKeep ==
  ASSUME StoreInv, NEW n \in Node, NEW id \in TxId,
         Confirm(n, id) \/ Commit(n, id) \/ Cancel(n, id)
  PROVE  PlansKept
<1>1. \/ txs' = txs
      \/ \E s \in TransactionState : txs' = Marked(n, id, s)
  BY DEF Confirm, Commit, Cancel, CancelKnown, CancelUnknown, CancelPanics, storeVars,
         TransactionState
<1>2. QED
  BY <1>1, UnchangedKeeps, MarkedKeeps

LEMMA AskKeeps ==
  ASSUME StoreInv, NEW n \in Node, NEW id \in TxId, NEW d, AskAccepted(n, id, d),
         ~Owned(n, id)
  PROVE  PlansKept /\ id \in DOMAIN txs'[n]
<1>1. /\ txs'[n] = Insert(txs[n], id, Transaction("AwaitingConfirmation", Empty))
      /\ \A m \in Node : m # n => txs'[m] = txs[m]
  BY DEF StoreInv, TypesOfRecords, AskAccepted
<1>2. /\ DOMAIN txs'[n] = DOMAIN txs[n] \cup {id}
      /\ txs'[n][id].involved_stock = Empty
      /\ \A i \in DOMAIN txs[n] : i # id => txs'[n][i] = txs[n][i]
  BY <1>1 DEF Insert, Transaction
<1>3. QED
  BY <1>1, <1>2 DEF PlansKept, PlanKept, Owned

\* A purchase that is planned has a plan.
LEMMA RequestPlans ==
  ASSUME StoreInv, NEW n \in Node, NEW id \in TxId, NEW p \in Product, NEW q \in Nat,
         Fresh(id), Request(n, id, p, q)
  PROVE  /\ Owned(n, id)'
         /\ txs'[n][id].state = "AwaitingConfirmation"
         /\ IsPlan(txs'[n][id].involved_stock)
         /\ \A m \in Node, i \in TxId : m # n \/ i # id => PlanKept(m, i)
         /\ \A m \in Node : \A i \in DOMAIN txs'[m] : m # n \/ i # id =>
              i \in DOMAIN txs[m] /\ txs'[m][i] = txs[m][i]
<1>1. PICK plan \in Plans(n, p, q) :
        txs' = [txs EXCEPT ![n] =
                  Insert(@, id, Transaction("AwaitingConfirmation", plan))]
  BY DEF Request
<1>2. IsPlan(plan)
  BY PlanFacts, InvariantImplies
<1>3. plan # Empty
  <2>1. CASE CoveredLocally(n, p, q)
    BY <2>1 DEF Plans, One, Empty
  <2>2. CASE ~CoveredLocally(n, p, q)
    <3>1. PICK m \in Suppliers(n, p, q) : plan = RemotePlan(n, p, q, m)
      BY <2>2 DEF Plans
    <3>2. m \in DOMAIN plan
      BY <3>1 DEF RemotePlan, Suppliers
    <3>3. QED
      BY <3>2 DEF Empty
  <2>3. QED
    BY <2>1, <2>2
<1>4. /\ txs'[n] = Insert(txs[n], id, Transaction("AwaitingConfirmation", plan))
      /\ \A m \in Node : m # n => txs'[m] = txs[m]
  BY <1>1 DEF StoreInv, TypesOfRecords
<1>5. /\ DOMAIN txs'[n] = DOMAIN txs[n] \cup {id}
      /\ txs'[n][id] = Transaction("AwaitingConfirmation", plan)
      /\ \A i \in DOMAIN txs[n] : i # id => txs'[n][i] = txs[n][i]
  BY <1>4 DEF Insert
<1>6. QED
  BY <1>2, <1>3, <1>4, <1>5 DEF PlanKept, Owned, Transaction

LEMMA IdOfMessage ==
  ASSUME LinksInv, NEW m \in Node, NEW n \in Node, NEW msg \in Range(chan[m][n]),
         msg.type \in {"Ask"} \cup Decision
  PROVE  msg.id \in TxId
<1>1. chan[m][n] \in Seq(Message)
  BY DEF LinksInv, Channels
<1>2. msg \in Message
  BY <1>1 DEF Range
<1>3. QED
  BY <1>2 DEF Message, Decision

\* Who owns a purchase, and who may speak of it, does not change.
LEMMA OneOwnerKept ==
  ASSUME OneOwner, PlansKept
  PROVE  OneOwner'
  BY DEF OneOwner, PlansKept, PlanKept

\* Only an owner sends what an owner may send.
OwnerSends ==
  \A m, n \in Node : \A msg \in Range(chan'[m][n]) :
    \/ msg \in Range(chan[m][n])
    \/ msg.type \notin {"Ask"} \cup Decision
    \/ Owned(m, msg.id)

LEMMA OthersSilentKept ==
  ASSUME OneOwner, OthersSilent, LinksInv', PlansKept, OwnerSends
  PROVE  OthersSilent'
<1> SUFFICES ASSUME NEW m \in Node, NEW n \in Node, NEW msg \in Range(chan'[m][n]),
                    msg.type \in {"Ask"} \cup Decision,
                    NEW r \in Node, Owned(r, msg.id)'
             PROVE  r = m
  BY DEF OthersSilent
<1>1. msg.id \in TxId
  <2>1. chan'[m][n] \in Seq(Message)
    BY DEF LinksInv, Channels
  <2>2. msg \in Message
    BY <2>1 DEF Range
  <2>3. QED
    BY <2>2 DEF Message, Decision
<1>2. Owned(r, msg.id)
  BY <1>1 DEF PlansKept, PlanKept
<1>3. QED
  BY <1>1, <1>2 DEF OwnerSends, OthersSilent, OneOwner

LEMMA OwnerSpeaksKept ==
  ASSUME OwnerSpeaks, LinksInv', PlansKept, OwnerSends
  PROVE  OwnerSpeaks'
<1> SUFFICES ASSUME NEW m \in Node, NEW n \in Node, NEW msg \in Range(chan'[m][n]),
                    msg.type \in {"Ask"} \cup Decision
             PROVE  Owned(m, msg.id)'
  BY DEF OwnerSpeaks
<1>1. Owned(m, msg.id)
  BY DEF OwnerSpeaks, OwnerSends
<1>2. msg \in Message
  <2>1. chan'[m][n] \in Seq(Message)
    BY DEF LinksInv, Channels
  <2>2. QED
    BY <2>1 DEF Range
<1>3. msg.id \in TxId
  BY <1>2 DEF Message, Decision
<1>4. QED
  BY <1>1, <1>3 DEF PlansKept, PlanKept

\* The task of k goes on with its purchase or ends.
GoesOn(k) ==
  /\ \/ pc'[k] = "idle"
     \/ pc[k] # "idle" /\ request'[k] = request[k] /\ todo'[k] \subseteq todo[k]
  /\ \A id \in told'[k] : id \in told[k] \/ (pc[k] # "idle" /\ id = request[k])

LEMMA TaskOwnsKept ==
  ASSUME TypeInv, PlansKept, NEW k \in Conn, GoesOn(k)
  PROVE  TaskOwns(k)'
<1>1. home[k] \in Node
  BY HomeAssumption
<1>2. request[k] \in TxId \cup {None} /\ told[k] \subseteq TxId
  BY DEF TypeInv, TasksInv
<1>3. TaskOwns(k)
  BY DEF TypeInv
<1>4. pc[k] # "idle" => request[k] \in TxId
  BY <1>1, <1>3 DEF TaskOwns, Owned, TypeInv, StoreInv, TypesOfRecords
<1>5. \A id \in told'[k] : Owned(home[k], id)'
  BY <1>1, <1>2, <1>3, <1>4 DEF GoesOn, TaskOwns, PlansKept, PlanKept
<1>6. ASSUME pc'[k] # "idle"
      PROVE  Owned(home[k], request[k])' /\ (todo[k] \subseteq Targets(k))'
  <2>1. /\ Owned(home[k], request[k]) /\ todo[k] \subseteq Targets(k)
        /\ request'[k] = request[k] /\ todo'[k] \subseteq todo[k]
    BY <1>3, <1>6 DEF GoesOn, TaskOwns
  <2>2. request[k] \in TxId
    BY <1>4, <1>6 DEF GoesOn
  <2>3. PlanKept(home[k], request[k])
    BY <1>1, <2>2 DEF PlansKept
  <2>4. Owned(home[k], request[k])' /\ Plan(k)' = Plan(k)
    BY <2>1, <2>3 DEF PlanKept, Owned, Plan
  <2>5. Targets(k)' = Targets(k)
    BY <2>4 DEF Targets
  <2>6. QED
    BY <2>1, <2>4, <2>5
<1>7. QED
  BY <1>5, <1>6 DEF TaskOwns

-----------------------------------------------------------------------------
\* Frames: what a step that leaves a part of the state alone keeps.

\* Only owners send, so that only owners speak if only they did before.
TypesKept == TypeInv' /\ OwnerSends /\ (OwnerSpeaks => OwnerSpeaks')

LEMMA TypeInvKept ==
  ASSUME TypeInv, StoreInv', LinksInv', TasksInv', PlansKept, OwnerSends,
         \A k \in Conn : GoesOn(k)
  PROVE  TypesKept
<1>1. OneOwner' /\ OthersSilent' /\ (OwnerSpeaks => OwnerSpeaks')
  BY OneOwnerKept, OthersSilentKept, OwnerSpeaksKept DEF TypeInv
<1>2. \A k \in Conn : TaskOwns(k)'
  BY TaskOwnsKept
<1>3. QED
  BY <1>1, <1>2 DEF TypeInv, TypesKept

LEMMA SentLinks ==
  ASSUME LinksInv, NEW n \in Node, NEW msg, Sent(chan', n, msg), linked' = linked,
         DOMAIN snap' = Node, \A m \in Node : \A s \in snap'[m] : IsStock(s),
         msg.type \notin {"Ask"} \cup Decision \/ Owned(n, msg.id)
  PROVE  LinksInv' /\ OwnerSends
  BY DEF LinksInv, Sent, OwnerSends

LEMMA FewerLinks ==
  ASSUME LinksInv, Fewer(chan'), linked' \in [Node -> SUBSET Node],
         \A n \in Node : linked'[n] \subseteq linked[n], snap' = snap
  PROVE  LinksInv' /\ OwnerSends
  BY DEF LinksInv, Fewer, OwnerSends

LEMMA LinksUnchanged ==
  ASSUME LinksInv, UNCHANGED linkVars
  PROVE  LinksInv' /\ OwnerSends
  BY DEF LinksInv, OwnerSends, linkVars

LEMMA TasksUnchanged ==
  ASSUME TasksInv, UNCHANGED connVars
  PROVE  TasksInv' /\ \A k \in Conn : GoesOn(k)
  BY DEF TasksInv, GoesOn, connVars

\* All tasks but that of k are left alone.
OnlyTask(k) ==
  \A j \in Conn \ {k} :
    /\ pc'[j] = pc[j] /\ request'[j] = request[j] /\ todo'[j] = todo[j]
    /\ peer'[j] = peer[j] /\ refused'[j] = refused[j] /\ told'[j] = told[j]

LEMMA Rested ==
  ASSUME TasksInv, NEW k \in Conn, Rest(k), told' \in [Conn -> SUBSET TxId],
         \A j \in Conn \ {k} : told'[j] = told[j]
  PROVE  TasksInv' /\ OnlyTask(k) /\ pc'[k] = "idle"
  BY DEF TasksInv, Rest, OnlyTask

LEMMA Closed ==
  ASSUME TasksInv, NEW k \in Conn, Close(k)
  PROVE  TasksInv' /\ \A j \in Conn : GoesOn(j)
<1>1. told' \in [Conn -> SUBSET TxId] /\ told'[k] = {}
      /\ \A j \in Conn \ {k} : told'[j] = told[j]
  BY DEF Close, TasksInv
<1>2. TasksInv' /\ OnlyTask(k) /\ pc'[k] = "idle"
  BY <1>1, Rested DEF Close
<1>3. QED
  BY <1>1, <1>2 DEF OnlyTask, GoesOn

LEMMA StoreQuiet ==
  ASSUME StoreInv, UNCHANGED storeVars
  PROVE  StoreInv' /\ PlansKept
  BY StoreUnchanged, UnchangedKeeps DEF storeVars

\* What a task that is at work knows of its purchase.
LEMMA AtWork ==
  ASSUME TypeInv, NEW k \in Conn, pc[k] # "idle"
  PROVE  /\ home[k] \in Node /\ request[k] \in TxId
         /\ Owned(home[k], request[k])
         /\ IsPlan(Plan(k))
         /\ todo[k] \subseteq Targets(k)
         /\ Targets(k) \subseteq Node \ {home[k]}
<1>1. home[k] \in Node
  BY HomeAssumption
<1>2. Owned(home[k], request[k]) /\ todo[k] \subseteq Targets(k)
  BY DEF TypeInv, TaskOwns
<1>3. request[k] \in DOMAIN txs[home[k]]
  BY <1>2 DEF Owned
<1>4. request[k] \in TxId /\ IsTransaction(txs[home[k]][request[k]])
  BY <1>1, <1>3 DEF TypeInv, StoreInv, TypesOfRecords
<1>5. IsPlan(Plan(k))
  BY <1>4 DEF IsTransaction, Plan
<1>6. Targets(k) \subseteq Node \ {home[k]}
  BY <1>5 DEF Targets, IsPlan
<1>7. QED
  BY <1>1, <1>2, <1>4, <1>5, <1>6

-----------------------------------------------------------------------------
\* Each action of a customer's task keeps the types.

\* No message is about a purchase that is yet to be planned.
NewsIsNone(k) ==
  \A m, n \in Node : \A msg \in Range(chan[m][n]) :
    msg.type \in {"Ask"} \cup Decision => msg.id # request'[k]

LEMMA OnOrderTypes ==
  ASSUME TypeInv, NEW k \in Conn, NEW p \in Product, NEW q \in Qty, OnOrder(k, p, q),
         NewsIsNone(k)
  PROVE  TypesKept
<1>1. PICK id \in TxId :
        /\ Fresh(id)
        /\ Request(home[k], id, p, q)
        /\ request' = [request EXCEPT ![k] = id]
        /\ todo' = [todo EXCEPT ![k] =
                      DOMAIN txs'[home[k]][id].involved_stock \ {home[k]}]
  BY DEF OnOrder
<1>2. home[k] \in Node /\ q \in Nat
  BY HomeAssumption, QtyAssumption
<1>3. StoreInv'
  BY <1>1, <1>2, RequestTypes DEF TypeInv
<1>4. /\ Owned(home[k], id)'
      /\ IsPlan(txs'[home[k]][id].involved_stock)
      /\ \A m \in Node, i \in TxId : m # home[k] \/ i # id => PlanKept(m, i)
  BY <1>1, <1>2, RequestPlans DEF TypeInv
<1>5. LinksInv' /\ chan' = chan
  BY DEF OnOrder, linkVars, TypeInv, LinksInv
<1>6. /\ pc[k] = "idle" /\ pc'[k] = "planned" /\ request'[k] = id
      /\ todo'[k] = DOMAIN txs'[home[k]][id].involved_stock \ {home[k]}
      /\ OnlyTask(k) /\ told' = told
  BY <1>1 DEF OnOrder, OnlyTask, TypeInv, TasksInv
<1>7. TasksInv'
  <2>1. todo' \in [Conn -> SUBSET Node] /\ request' \in [Conn -> TxId \cup {None}]
    BY <1>1, <1>4 DEF IsPlan, TypeInv, TasksInv
  <2>2. QED
    BY <1>6, <2>1 DEF OnOrder, OnlyTask, TypeInv, TasksInv
<1>8. \A m \in Node : id \notin DOMAIN txs[m]
  BY <1>1 DEF Fresh
<1>9. OneOwner'
  BY <1>2, <1>4, <1>8, <1>3 DEF OneOwner, TypeInv, Owned, PlanKept
<1>10. ASSUME NEW m \in Node, NEW i \in TxId, Owned(m, i)
       PROVE  PlanKept(m, i) /\ Owned(m, i)'
  BY <1>4, <1>8, <1>10 DEF Owned, PlanKept
<1>11. OthersSilent' /\ (OwnerSpeaks => OwnerSpeaks')
  <2>1. ASSUME NEW m \in Node, NEW n \in Node, NEW msg \in Range(chan[m][n]),
               msg.type \in {"Ask"} \cup Decision
        PROVE  \A r \in Node : PlanKept(r, msg.id)
    <3>1. msg.id \in TxId
      BY <2>1, IdOfMessage DEF TypeInv
    <3>2. msg.id # id
      BY <1>6, <2>1 DEF NewsIsNone
    <3>3. QED
      BY <1>4, <3>1, <3>2
  <2>2. OthersSilent'
    BY <1>5, <2>1 DEF TypeInv, OthersSilent, PlanKept
  <2>3. OwnerSpeaks => OwnerSpeaks'
    BY <1>5, <2>1 DEF OwnerSpeaks, PlanKept
  <2>4. QED
    BY <2>2, <2>3
<1>12. ASSUME NEW j \in Conn
       PROVE  TaskOwns(j)'
  <2>1. home[j] \in Node /\ told[j] \subseteq TxId
    BY HomeAssumption DEF TypeInv, TasksInv
  <2>2. \A i \in told'[j] : Owned(home[j], i)'
    BY <1>6, <1>10, <2>1 DEF TypeInv, TaskOwns
  <2>3. CASE j = k
    BY <1>4, <1>6, <2>2, <2>3 DEF TaskOwns, Targets, Plan
  <2>4. CASE j # k
    <3>1. pc'[j] = pc[j] /\ request'[j] = request[j] /\ todo'[j] = todo[j]
      BY <1>6, <2>4 DEF OnlyTask
    <3>2. ASSUME pc[j] # "idle"
          PROVE  Owned(home[j], request[j])' /\ Plan(j)' = Plan(j)
      <4>1. PlanKept(home[j], request[j]) /\ Owned(home[j], request[j])
        BY <1>10, <3>2, AtWork
      <4>2. QED
        BY <3>1, <4>1 DEF PlanKept, Owned, Plan
    <3>3. QED
      BY <2>2, <3>1, <3>2 DEF TypeInv, TaskOwns, Targets
  <2>5. QED
    BY <2>3, <2>4
<1>13. OwnerSends
  BY <1>5 DEF OwnerSends
<1>14. QED
  BY <1>3, <1>5, <1>7, <1>9, <1>11, <1>12, <1>13 DEF TypeInv, TypesKept

LEMMA BeginTypes ==
  ASSUME TypeInv, NEW k \in Conn, Begin(k)
  PROVE  TypesKept
<1>1. StoreInv' /\ PlansKept
  BY StoreQuiet DEF Begin, TypeInv
<1>2. LinksInv' /\ OwnerSends
  BY LinksUnchanged DEF Begin, TypeInv
<1>3. TasksInv' /\ \A j \in Conn : GoesOn(j)
  BY DEF Begin, TypeInv, TasksInv, GoesOn
<1>4. QED
  BY <1>1, <1>2, <1>3, TypeInvKept

LEMMA AskTaskTypes ==
  ASSUME TypeInv, NEW k \in Conn, Ask(k)
  PROVE  TypesKept
<1>1. PICK m \in todo[k] \cap linked[home[k]] :
        /\ chan' = Posted(chan, home[k], {m}, AskMessage(request[k], Plan(k)[m]))
        /\ todo' = [todo EXCEPT ![k] = @ \ {m}]
        /\ peer' = [peer EXCEPT ![k] = m]
  BY DEF Ask
<1>2. pc[k] # "idle" /\ m \in Node
  BY <1>1 DEF Ask, TypeInv, TasksInv
<1>3. StoreInv' /\ PlansKept
  BY StoreQuiet DEF Ask, TypeInv
<1>4. LinksInv' /\ OwnerSends
  <2>1. IsStock(Plan(k)[m])
    BY <1>1, <1>2, AtWork DEF IsPlan, Targets
  <2>2. AskMessage(request[k], Plan(k)[m]) \in Message
    BY <1>2, <2>1, AtWork, IsAskMessage
  <2>3. Sent(chan', home[k], AskMessage(request[k], Plan(k)[m]))
    BY <1>1, <1>2, <2>2, AtWork, Unread, PostedIsSent DEF TypeInv
  <2>4. Owned(home[k], AskMessage(request[k], Plan(k)[m]).id)
    BY <1>2, AtWork DEF AskMessage
  <2> DEFINE msg == AskMessage(request[k], Plan(k)[m])
  <2> HIDE DEF msg
  <2>5. Sent(chan', home[k], msg) /\ Owned(home[k], msg.id) /\ home[k] \in Node
    BY <1>2, <2>3, <2>4, AtWork DEF msg
  <2>6. QED
    BY <2>5, SentLinks DEF Ask, TypeInv, LinksInv
<1>5. TasksInv' /\ \A j \in Conn : GoesOn(j)
  <2>1. m # None
    BY <1>2, NoneAssumption
  <2>2. QED
    BY <1>1, <1>2, <2>1 DEF Ask, TypeInv, TasksInv, GoesOn
<1>6. QED
  BY <1>3, <1>4, <1>5, TypeInvKept

LEMMA CloseTypes ==
  ASSUME TypeInv, NEW k \in Conn, Close(k), UNCHANGED <<storeVars, linkVars>>
  PROVE  TypesKept
<1>1. StoreInv' /\ PlansKept
  BY StoreQuiet DEF TypeInv
<1>2. LinksInv' /\ OwnerSends
  BY LinksUnchanged DEF TypeInv
<1>3. TasksInv' /\ \A j \in Conn : GoesOn(j)
  BY Closed DEF TypeInv
<1>4. QED
  BY <1>1, <1>2, <1>3, TypeInvKept

\* The actor panics over a Cancel: nothing but its end happens to the store.
LEMMA PanicTypes ==
  ASSUME TypeInv, NEW k \in Conn,
         AbortPanics(k) \/ \E id \in TxId : OnCancelPanics(k, id)
  PROVE  TypesKept
<1>1. home[k] \in Node
  BY HomeAssumption
<1>2. PICK id \in TxId : CancelFails(k, id)
  BY AtWork DEF AbortPanics, OnCancelPanics
<1>3. StoreInv' /\ PlansKept
  BY <1>1, <1>2, CancelTypes, DecisionsKeep DEF CancelFails, Cancel, TypeInv
<1>4. LinksInv' /\ OwnerSends
  BY <1>2, LinksUnchanged DEF CancelFails, TypeInv
<1>5. TasksInv' /\ \A j \in Conn : GoesOn(j)
  BY <1>2, Closed DEF CancelFails, TypeInv
<1>6. QED
  BY <1>3, <1>4, <1>5, TypeInvKept

LEMMA ConcludeTypes ==
  ASSUME TypeInv, NEW k \in Conn, Agree(k) \/ Abort(k)
  PROVE  TypesKept
<1>1. /\ pc[k] = "asking"
      /\ Confirm(home[k], request[k]) \/ Cancel(home[k], request[k])
  BY DEF Agree, Abort, Cancel
<1>2. StoreInv' /\ PlansKept
  BY <1>1, AtWork, ConfirmTypes, CancelTypes, DecisionsKeep DEF TypeInv
<1>3. LinksInv' /\ OwnerSends
  BY LinksUnchanged DEF Agree, Abort, TypeInv
<1>4. TasksInv' /\ \A j \in Conn : GoesOn(j)
  <2>1. PICK d \in Decision : pc' = [pc EXCEPT ![k] = d]
    BY DEF Agree, Abort, Decision
  <2>2. UNCHANGED <<request, todo, peer, refused, told>>
    BY DEF Agree, Abort
  <2>3. QED
    BY <1>1, <2>1, <2>2 DEF TypeInv, TasksInv, GoesOn, Decision
<1>5. QED
  BY <1>2, <1>3, <1>4, TypeInvKept

LEMMA NotifyTypes ==
  ASSUME TypeInv, NEW k \in Conn, Notify(k) \/ NotifyFails(k)
  PROVE  TypesKept
<1>1. pc[k] \in Decision /\ pc[k] # "idle"
  BY DEF Notify, NotifyFails, Decision
<1>2. StoreInv' /\ PlansKept
  BY StoreQuiet DEF Notify, NotifyFails, TypeInv
<1>3. LinksInv' /\ OwnerSends
  <2> DEFINE msg == Notice(pc[k], request[k])
  <2>1. msg \in Message /\ Owned(home[k], msg.id) /\ home[k] \in Node
    BY <1>1, AtWork, IsNotice DEF Notice
  <2>2. \E S : chan' = Posted(chan, home[k], S, msg)
    BY DEF Notify, NotifyFails
  <2> HIDE DEF msg
  <2>3. Sent(chan', home[k], msg)
    BY <2>1, <2>2, Unread, PostedIsSent DEF TypeInv
  <2>4. QED
    BY <2>1, <2>3, SentLinks DEF Notify, NotifyFails, TypeInv, LinksInv
<1>4. CASE NotifyFails(k)
  BY <1>2, <1>3, <1>4, Closed, TypeInvKept DEF NotifyFails, TypeInv
<1>5. CASE Notify(k)
  <2>1. /\ told' \in [Conn -> SUBSET TxId]
        /\ \A i \in told'[k] : i \in told[k] \/ i = request[k]
        /\ \A j \in Conn \ {k} : told'[j] = told[j]
    BY <1>1, <1>5, AtWork DEF Notify, TypeInv, TasksInv
  <2>2. TasksInv' /\ OnlyTask(k) /\ pc'[k] = "idle"
    BY <1>5, <2>1, Rested DEF Notify, TypeInv
  <2>3. \A j \in Conn : GoesOn(j)
    BY <1>1, <2>1, <2>2 DEF OnlyTask, GoesOn
  <2>4. QED
    BY <1>2, <1>3, <2>2, <2>3, TypeInvKept
<1>6. QED
  BY <1>4, <1>5

LEMMA DecisionTypes ==
  ASSUME TypeInv, NEW k \in Conn, NEW id \in TxId, OnCommit(k, id) \/ OnCancel(k, id)
  PROVE  TypesKept
<1>1. PICK d \in Decision : OnDecision(k, id, d)
  BY DEF OnCommit, OnCancel, Decision
<1>2. home[k] \in Node /\ Owned(home[k], id)
  BY <1>1, HomeAssumption DEF OnDecision, TypeInv, TaskOwns
<1>3. StoreInv' /\ PlansKept
  BY <1>2, CommitTypes, CancelTypes, DecisionsKeep DEF OnCommit, OnCancel, Cancel, TypeInv
<1>4. LinksInv' /\ OwnerSends
  BY <1>1, LinksUnchanged DEF OnDecision, TypeInv
<1>5. TasksInv' /\ OnlyTask(k) /\ todo'[k] = {} /\ told'[k] \subseteq told[k]
      /\ request'[k] = id
  BY <1>1 DEF OnDecision, OnlyTask, TypeInv, TasksInv, Decision
<1>6. ASSUME NEW j \in Conn
      PROVE  TaskOwns(j)'
  <2>1. CASE j # k
    BY <1>3, <1>5, <2>1, TaskOwnsKept DEF OnlyTask, GoesOn
  <2>2. CASE j = k
    <3>1. Owned(home[k], id)'
      BY <1>2, <1>3 DEF PlansKept, PlanKept
    <3>2. told[k] \subseteq TxId /\ \A i \in told[k] : Owned(home[k], i)
      BY DEF TypeInv, TasksInv, TaskOwns
    <3>3. \A i \in told'[k] : Owned(home[k], i)'
      BY <1>2, <1>3, <1>5, <3>2 DEF PlansKept, PlanKept
    <3>4. QED
      BY <1>5, <2>2, <3>1, <3>3 DEF TaskOwns
  <2>3. QED
    BY <2>1, <2>2
<1>7. OneOwner' /\ OthersSilent' /\ (OwnerSpeaks => OwnerSpeaks')
  BY <1>3, <1>4, OneOwnerKept, OthersSilentKept, OwnerSpeaksKept DEF TypeInv
<1>8. QED
  BY <1>3, <1>4, <1>5, <1>6, <1>7 DEF TypeInv, TypesKept

-----------------------------------------------------------------------------
\* So does each action of the operators, the updaters and the readers.

LEMMA OperatorTypes ==
  ASSUME TypeInv, NEW n \in Node, Operator(n)
  PROVE  TypesKept
<1>1. StoreInv'
  BY AddStockTypes, LocalRequestTypes DEF Operator, TypeInv
<1>2. txs' = txs
  BY DEF Operator, AddStock, LocalRequest
<1>3. LinksInv' /\ OwnerSends
  BY LinksUnchanged DEF Operator, TypeInv
<1>4. TasksInv' /\ \A k \in Conn : GoesOn(k)
  BY TasksUnchanged DEF Operator, TypeInv
<1>5. QED
  BY <1>1, <1>2, <1>3, <1>4, UnchangedKeeps, TypeInvKept

LEMMA UpdaterTypes ==
  ASSUME TypeInv, NEW n \in Node, Snapshot(n) \/ Broadcast(n)
  PROVE  TypesKept
<1>1. StoreInv' /\ PlansKept
  BY StoreQuiet DEF Snapshot, Broadcast, TypeInv
<1>2. TasksInv' /\ \A k \in Conn : GoesOn(k)
  BY TasksUnchanged DEF Snapshot, Broadcast, TypeInv
<1>3. CASE Snapshot(n)
  <2>1. IsStock(stock[n])
    BY DEF TypeInv, StoreInv, TypesOfUnits
  <2>2. LinksInv' /\ OwnerSends
    BY <1>3, <2>1 DEF Snapshot, TypeInv, LinksInv, OwnerSends
  <2>3. QED
    BY <1>1, <1>2, <2>2, TypeInvKept
<1>4. CASE Broadcast(n)
  <2>1. PICK s \in snap[n] : chan' = Posted(chan, n, linked[n], Announcement(s))
    BY <1>4 DEF Broadcast
  <2> DEFINE msg == Announcement(s)
  <2>2. msg \in Message /\ msg.type \notin {"Ask"} \cup Decision
    BY <2>1, IsAnnouncement DEF TypeInv, LinksInv, Announcement, Decision
  <2> HIDE DEF msg
  <2>3. chan' = Posted(chan, n, linked[n], msg)
    BY <2>1 DEF msg
  <2>4. Sent(chan', n, msg)
    BY <2>2, <2>3, Unread, PostedIsSent DEF TypeInv
  <2>5. LinksInv' /\ OwnerSends
    <3>1. DOMAIN snap' = Node /\ \A m \in Node : \A x \in snap'[m] : IsStock(x)
      BY <1>4 DEF Broadcast, TypeInv, LinksInv
    <3>2. QED
      BY <1>4, <2>2, <2>4, <3>1, SentLinks DEF Broadcast, TypeInv
  <2>6. QED
    BY <1>1, <1>2, <2>5, TypeInvKept
<1>5. QED
  BY <1>3, <1>4

\* What a reader finds at the head of a channel, and what it leaves.
LEMMA Read ==
  ASSUME TypeInv, NEW m \in Node, NEW n \in Node, chan[m][n] # <<>>
  PROVE  /\ m # n
         /\ Head(chan[m][n]) \in Message
         /\ Head(chan[m][n]) \in Range(chan[m][n])
         /\ Fewer(Rests(m, n))
<1>1. m # n /\ chan[m][n] \in Seq(Message) /\ chan \in Channels
  BY DEF TypeInv, LinksInv, Channels
<1>2. /\ Head(chan[m][n]) \in Message
      /\ Head(chan[m][n]) \in Range(chan[m][n])
      /\ Tail(chan[m][n]) \in Seq(Message)
      /\ Range(Tail(chan[m][n])) \subseteq Range(chan[m][n])
  BY <1>1, HeadAndTail
<1>3. Rests(m, n) = [chan EXCEPT ![m][n] = Tail(chan[m][n])]
  BY <1>1 DEF Rests, Channels
<1> DEFINE tail == Tail(chan[m][n])
<1> HIDE DEF tail
<1>4. Fewer([chan EXCEPT ![m][n] = tail])
  BY <1>1, <1>2, RestsAreFewer DEF TypeInv, tail
<1>5. QED
  BY <1>1, <1>2, <1>3, <1>4 DEF tail

LEMMA ReceiveUpdateTypes ==
  ASSUME TypeInv, NEW m \in Node, NEW n \in Node, ReceiveUpdate(m, n)
  PROVE  TypesKept
<1> DEFINE msg == Head(chan[m][n])
<1>1. m # n /\ msg \in Message /\ Fewer(chan') /\ msg.type = "Update"
  BY Read DEF ReceiveUpdate, Arrives
<1>2. IsStock(msg.stock)
  BY <1>1, MapIsStock DEF Message, Decision
<1>3. StoreInv'
  BY <1>1, <1>2, UpdateTypes DEF ReceiveUpdate, TypeInv
<1>4. PlansKept
  BY UnchangedKeeps DEF ReceiveUpdate, Update
<1>5. LinksInv' /\ OwnerSends
  BY <1>1, FewerLinks DEF ReceiveUpdate, TypeInv, LinksInv
<1>6. TasksInv' /\ \A k \in Conn : GoesOn(k)
  BY TasksUnchanged DEF ReceiveUpdate, TypeInv
<1>7. QED
  BY <1>3, <1>4, <1>5, <1>6, TypeInvKept

\* A store is asked by the owner, and so is not the owner itself.
LEMMA AskedIsNotOwner ==
  ASSUME TypeInv, NEW m \in Node, NEW n \in Node, chan[m][n] # <<>>,
         Head(chan[m][n]).type \in {"Ask"} \cup Decision
  PROVE  Head(chan[m][n]).id \in TxId /\ ~Owned(n, Head(chan[m][n]).id)
<1> DEFINE msg == Head(chan[m][n])
<1>1. m # n /\ msg \in Message /\ msg \in Range(chan[m][n])
  BY Read
<1>2. msg.id \in TxId
  BY <1>1 DEF Message, Decision
<1>3. QED
  BY <1>1, <1>2 DEF TypeInv, OthersSilent

LEMMA ReceiveAskTypes ==
  ASSUME TypeInv, NEW m \in Node, NEW n \in Node, ReceiveAsk(m, n)
  PROVE  TypesKept
<1> DEFINE msg == Head(chan[m][n])
<1>1. msg.type = "Ask" /\ chan[m][n] # <<>>
  BY DEF ReceiveAsk, Arrives
<1>2. msg \in Message /\ Fewer(Rests(m, n)) /\ msg.id \in TxId /\ ~Owned(n, msg.id)
  BY <1>1, Read, AskedIsNotOwner
<1>3. IsStock(msg.share)
  BY <1>1, <1>2, MapIsStock DEF Message, Decision
<1>4. PICK ok \in BOOLEAN :
        /\ IF ok THEN AskAccepted(n, msg.id, msg.share) ELSE AskRefused(n, msg.share)
        /\ chan' = Posted(Rests(m, n), n, {m} \cap linked[n], Response(msg.id, ok))
  BY DEF ReceiveAsk
<1>5. StoreInv' /\ PlansKept
  <2>1. CASE ok
    BY <1>2, <1>3, <1>4, <2>1, AskTypes, AskKeeps DEF TypeInv
  <2>2. CASE ~ok
    BY <1>4, <2>2, StoreQuiet DEF AskRefused, TypeInv
  <2>3. QED
    BY <2>1, <2>2
<1>6. LinksInv' /\ OwnerSends
  <2> DEFINE answer == Response(msg.id, ok)
  <2>1. answer \in Message /\ answer.type \notin {"Ask"} \cup Decision
    BY <1>2, IsResponse DEF Response, Decision
  <2>2. chan' = Posted(Rests(m, n), n, {m} \cap linked[n], answer)
    BY <1>4
  <2> HIDE DEF answer
  <2>3. Sent(chan', n, answer)
    BY <1>2, <2>1, <2>2, PostedIsSent DEF TypeInv
  <2>4. QED
    BY <2>1, <2>3, SentLinks DEF ReceiveAsk, TypeInv, LinksInv
<1>7. TasksInv' /\ \A k \in Conn : GoesOn(k)
  BY TasksUnchanged DEF ReceiveAsk, TypeInv
<1>8. QED
  BY <1>5, <1>6, <1>7, TypeInvKept

LEMMA ReceiveNoticeTypes ==
  ASSUME TypeInv, NEW m \in Node, NEW n \in Node, ReceiveNotice(m, n)
  PROVE  TypesKept
<1> DEFINE msg == Head(chan[m][n])
<1>1. /\ chan[m][n] # <<>> /\ msg.type \in {"Ask"} \cup Decision
      /\ Confirm(n, msg.id) \/ Commit(n, msg.id) \/ Cancel(n, msg.id)
  BY DEF ReceiveNotice, Arrives, Decision
<1>2. Fewer(chan') /\ msg.id \in TxId
  BY <1>1, Read, AskedIsNotOwner DEF ReceiveNotice
<1>3. StoreInv' /\ PlansKept
  BY <1>1, <1>2, ConfirmTypes, CommitTypes, CancelTypes, DecisionsKeep DEF TypeInv
<1>4. LinksInv' /\ OwnerSends
  BY <1>2, FewerLinks DEF ReceiveNotice, TypeInv, LinksInv
<1>5. TasksInv' /\ \A k \in Conn : GoesOn(k)
  BY TasksUnchanged DEF ReceiveNotice, TypeInv
<1>6. QED
  BY <1>3, <1>4, <1>5, TypeInvKept

LEMMA ReceiveResponseTypes ==
  ASSUME TypeInv, NEW m \in Node, NEW n \in Node, ReceiveResponse(m, n)
  PROVE  TypesKept
<1> DEFINE msg == Head(chan[m][n])
           woken == Awaiting(m, n, msg.id)
<1>1. chan[m][n] # <<>> /\ msg.type = "Response"
  BY DEF ReceiveResponse, Arrives
<1>2. Fewer(chan') /\ msg \in Message
  BY <1>1, Read DEF ReceiveResponse
<1>3. msg.ok \in BOOLEAN
  BY <1>1, <1>2 DEF Message, Decision
<1>4. StoreInv' /\ PlansKept
  BY StoreQuiet DEF ReceiveResponse, TypeInv
<1>5. LinksInv' /\ OwnerSends
  BY <1>2, FewerLinks DEF ReceiveResponse, TypeInv, LinksInv
<1>6. /\ pc' = [k \in Conn |-> IF k \in woken THEN "asking" ELSE pc[k]]
      /\ peer' = [k \in Conn |-> IF k \in woken THEN None ELSE peer[k]]
      /\ refused' = [k \in Conn |-> refused[k] \/ (k \in woken /\ ~msg.ok)]
      /\ UNCHANGED <<request, todo, told>>
      /\ \A k \in woken : pc[k] = "waiting"
  BY DEF ReceiveResponse, Awaiting
<1> HIDE DEF woken, msg
<1>7. refused' \in [Conn -> BOOLEAN]
  BY <1>3, <1>6
<1>8. TasksInv' /\ \A k \in Conn : GoesOn(k)
  BY <1>6, <1>7 DEF TypeInv, TasksInv, GoesOn
<1>9. QED
  BY <1>4, <1>5, <1>8, TypeInvKept

LEMMA CoalescedTypes ==
  ASSUME TypeInv, NEW m \in Node, NEW n \in Node, Coalesced(m, n)
  PROVE  TypesKept
<1>1. PICK i \in 2 .. Len(chan[m][n]) :
        chan' = [chan EXCEPT ![m][n] = SubSeq(@, i + 1, Len(@))]
  BY DEF Coalesced
<1>2. chan \in Channels /\ chan[m][n] \in Seq(Message)
  BY DEF TypeInv, LinksInv, Channels
<1> DEFINE left == SubSeq(chan[m][n], i + 1, Len(chan[m][n]))
<1>3. left \in Seq(Message) /\ Range(left) \subseteq Range(chan[m][n])
  BY <1>2, Dropped
<1>4. m # n
  BY <1>1, <1>2 DEF TypeInv, LinksInv
<1>5. chan' = [chan EXCEPT ![m][n] = left]
  BY <1>1, <1>2 DEF Channels
<1> HIDE DEF left
<1>6. Fewer(chan')
  BY <1>3, <1>4, <1>5, RestsAreFewer DEF TypeInv
<1>7. StoreInv' /\ PlansKept
  BY StoreQuiet DEF Coalesced, TypeInv
<1>8. LinksInv' /\ OwnerSends
  BY <1>6, FewerLinks DEF Coalesced, TypeInv, LinksInv
<1>9. TasksInv' /\ \A k \in Conn : GoesOn(k)
  BY TasksUnchanged DEF Coalesced, TypeInv
<1>10. QED
  BY <1>7, <1>8, <1>9, TypeInvKept

LEMMA LinkLostTypes ==
  ASSUME TypeInv, NEW n \in Node, NEW m \in Node, LinkLost(n, m)
  PROVE  TypesKept
<1>1. m # n /\ chan' = [chan EXCEPT ![m][n] = <<>>]
  BY DEF LinkLost, TypeInv, LinksInv
<1>2. Fewer(chan')
  <2>1. <<>> \in Seq(Message)
    OBVIOUS
  <2>2. Range(<<>>) \subseteq Range(chan[m][n])
    BY DEF Range
  <2>3. QED
    BY <1>1, <2>1, <2>2, RestsAreFewer DEF TypeInv
<1>3. StoreInv'
  BY ShutdownTypes DEF LinkLost, TypeInv
<1>4. PlansKept
  BY UnchangedKeeps DEF LinkLost, Shutdown
<1>5. /\ linked' \in [Node -> SUBSET Node]
      /\ \A a \in Node : linked'[a] \subseteq linked[a]
  BY DEF LinkLost, TypeInv, LinksInv
<1>6. LinksInv' /\ OwnerSends
  BY <1>2, <1>5, FewerLinks DEF LinkLost, TypeInv
<1>7. TasksInv' /\ \A k \in Conn : GoesOn(k)
  BY TasksUnchanged DEF LinkLost, TypeInv
<1>8. QED
  BY <1>3, <1>4, <1>6, <1>7, TypeInvKept

-----------------------------------------------------------------------------
\* Types.

OwnedInv == TypeInv /\ OwnerSpeaks

LEMMA InitialTypes == Init => OwnedInv
<1> SUFFICES ASSUME Init PROVE OwnedInv
  OBVIOUS
<1>1. StoreInv
  BY StoreInitially DEF Init
<1>2. LinksInv
  <2>1. chan \in Channels
    BY DEF Init, Channels
  <2>2. linked \in [Node -> SUBSET Node] /\ \A n \in Node : n \notin linked[n]
    BY LinksAssumption DEF Init
  <2>3. QED
    BY <2>1, <2>2 DEF Init, LinksInv
<1>3. TasksInv
  BY DEF Init, TasksInv
<1>4. \A n \in Node, id \in TxId : ~Owned(n, id)
  BY DEF Init, StoreInit, Owned, Empty
<1>5. OneOwner
  BY <1>4 DEF OneOwner
<1>6. OwnerSpeaks /\ OthersSilent
  BY DEF Init, OwnerSpeaks, OthersSilent, Range
<1>7. \A k \in Conn : TaskOwns(k)
  BY DEF Init, TaskOwns
<1>8. QED
  BY <1>1, <1>2, <1>3, <1>5, <1>6, <1>7 DEF TypeInv, OwnedInv

\* What D does changes nothing but who holds a lock.
StandsStill == UNCHANGED <<storeVars, linkVars, connVars>>

LEMMA DownStandsStill ==
  ASSUME UNCHANGED vars \/ \E n \in Node : NetDown(n) \/ NetIsDown(n)
  PROVE  StandsStill
  BY DEF StandsStill, vars, NetDown, NetIsDown

LEMMA TypesStutter ==
  ASSUME TypeInv, StandsStill
  PROVE  TypesKept
<1>1. StoreInv' /\ PlansKept
  BY StoreQuiet DEF StandsStill, TypeInv
<1>2. LinksInv' /\ OwnerSends
  BY LinksUnchanged DEF StandsStill, TypeInv
<1>3. TasksInv' /\ \A k \in Conn : GoesOn(k)
  BY TasksUnchanged DEF StandsStill, TypeInv
<1>4. QED
  BY <1>1, <1>2, <1>3, TypeInvKept

LEMMA OnlyOrdersPlan ==
  ASSUME TypeInv, Next, NEW k \in Conn, pc[k] = "idle", pc'[k] = "planned"
  PROVE  \E p \in Product, q \in Qty : OnOrder(k, p, q)
<1> SUFFICES ASSUME ~\E p \in Product, q \in Qty : OnOrder(k, p, q)
             PROVE  FALSE
  OBVIOUS
<1>0. pc \in [Conn -> {"idle", "planned", "asking", "waiting"} \cup Decision]
  BY DEF TypeInv, TasksInv
<1>1. ASSUME NEW j \in Conn, Serve(j)
      PROVE  FALSE
  BY <1>0, <1>1 DEF Serve, Begin, Ask, AskFails, Timeout, Agree, Abort, AbortPanics, CancelFails,
                    Notify, NotifyFails, Close, Rest, Decision
<1>2. ASSUME NEW j \in Conn, Customer(j)
      PROVE  FALSE
  BY <1>0, <1>2 DEF Customer, OnOrder, OrderRefused, OnCommit, OnCancel, OnCancelPanics,
                    CancelFails, OnDecision, Hangup, Close, Rest, vars, connVars
<1>3. ASSUME UNCHANGED connVars
      PROVE  FALSE
  BY <1>3 DEF connVars
<1>4. ASSUME NEW m \in Node, NEW n \in Node, ReceiveResponse(m, n)
      PROVE  FALSE
  BY <1>4 DEF ReceiveResponse
<1>5. QED
  BY <1>1, <1>2, <1>3, <1>4 DEF Next, Operator, Updater, Snapshot, Broadcast, NetDown, NetIsDown,
     Receive, ReceiveUpdate, ReceiveAsk, ReceiveNotice, Lose, Coalesced, LinkLost

\* A task ends before its time, and the records of its store stay as they are.
LeavesOff(k) ==
  \/ AskFails(k) \/ Timeout(k) \/ Hangup(k) \/ AbortPanics(k)
  \/ \E id \in TxId : OnCancelPanics(k, id)

LEMMA LeftOff ==
  ASSUME NEW k \in Conn, LeavesOff(k)
  PROVE  Close(k) /\ UNCHANGED <<stock, txs, supply>> /\ UNCHANGED linkVars
  BY DEF LeavesOff, AskFails, Timeout, Hangup, AbortPanics, OnCancelPanics, CancelFails,
         CancelPanics, storeVars

\* A step that plans no purchase anybody has heard of.
PlansNews == \A k \in Conn : pc[k] = "idle" /\ pc'[k] = "planned" => NewsIsNone(k)

LEMMA StepsKeepTypes ==
  ASSUME TypeInv, Next, PlansNews
  PROVE  TypesKept
<1>1. ASSUME NEW k \in Conn, Serve(k)
      PROVE  TypesKept
  <2>1. CASE AskFails(k) \/ Timeout(k)
    BY <2>1, CloseTypes DEF AskFails, Timeout
  <2>2. QED
    BY <1>1, <2>1, BeginTypes, AskTaskTypes, ConcludeTypes, PanicTypes, NotifyTypes DEF Serve
<1>2. ASSUME NEW k \in Conn, Customer(k)
      PROVE  TypesKept
  <2>1. ASSUME NEW p \in Product, NEW q \in Qty, OnOrder(k, p, q)
        PROVE  TypesKept
    <3>1. NewsIsNone(k)
      BY <2>1 DEF OnOrder, PlansNews, TypeInv, TasksInv
    <3>2. QED
      BY <2>1, <3>1, OnOrderTypes
  <2>2. ASSUME NEW p \in Product, NEW q \in Qty, OrderRefused(k, p, q)
        PROVE  TypesKept
    BY <2>2, DownStandsStill, TypesStutter DEF OrderRefused
  <2>3. CASE Hangup(k)
    BY <2>3, CloseTypes DEF Hangup
  <2>4. QED
    BY <1>2, <2>1, <2>2, <2>3, DecisionTypes, PanicTypes DEF Customer
<1>3. ASSUME NEW n \in Node, Operator(n) \/ Updater(n) \/ NetDown(n) \/ NetIsDown(n)
      PROVE  TypesKept
  BY <1>3, OperatorTypes, UpdaterTypes, DownStandsStill, TypesStutter DEF Updater
<1>4. ASSUME NEW m \in Node, NEW n \in Node, Receive(m, n)
      PROVE  TypesKept
  BY <1>4, ReceiveUpdateTypes, ReceiveAskTypes, ReceiveNoticeTypes, ReceiveResponseTypes
  DEF Receive
<1>5. ASSUME NEW m \in Node, NEW n \in Node, Lose(m, n)
      PROVE  TypesKept
  BY <1>5, CoalescedTypes, LinkLostTypes DEF Lose
<1>6. QED
  BY <1>1, <1>2, <1>3, <1>4, <1>5 DEF Next

\* What no store has met is not spoken of, where all that is spoken of is owned.
LEMMA FreshIsNews ==
  ASSUME OwnedInv, Next
  PROVE  PlansNews
<1> SUFFICES ASSUME NEW k \in Conn, pc[k] = "idle", pc'[k] = "planned",
                    NEW m \in Node, NEW n \in Node, NEW msg \in Range(chan[m][n]),
                    msg.type \in {"Ask"} \cup Decision
             PROVE  msg.id # request'[k]
  BY DEF PlansNews, NewsIsNone
<1>1. PICK p \in Product, q \in Qty : OnOrder(k, p, q)
  BY OnlyOrdersPlan DEF OwnedInv
<1>2. PICK id \in TxId : Fresh(id) /\ request' = [request EXCEPT ![k] = id]
  BY <1>1 DEF OnOrder
<1>3. Owned(m, msg.id) /\ request'[k] = id
  BY <1>2 DEF OwnedInv, OwnerSpeaks, TypeInv, TasksInv
<1>4. QED
  BY <1>2, <1>3 DEF Fresh, Owned

LEMMA TypesInductive == OwnedInv /\ [Next]_vars => OwnedInv'
<1> SUFFICES ASSUME OwnedInv, [Next]_vars PROVE OwnedInv'
  OBVIOUS
<1>1. CASE UNCHANGED vars
  BY <1>1, DownStandsStill, TypesStutter DEF OwnedInv, TypesKept
<1>2. CASE Next
  BY <1>2, FreshIsNews, StepsKeepTypes DEF OwnedInv, TypesKept
<1>3. QED
  BY <1>1, <1>2

\* Only an operator that gives D holds a lock.
LEMMA HeldInductive == held \subseteq Node /\ [Next]_vars => (held \subseteq Node)'
  BY DownerAssumption DEF Next, Serve, Customer, Operator, Updater, NetDown, NetIsDown, Receive,
     Lose, vars

LEMMA TypesFollow == TypeInv /\ held \subseteq Node => TypeOK
<1> SUFFICES ASSUME TypeInv, held \subseteq Node PROVE TypeOK
  OBVIOUS
<1>1. StoreTypeOK
  BY InvariantImplies DEF TypeInv
<1>2. /\ DOMAIN chan = Node
      /\ \A m \in Node :
           /\ DOMAIN chan[m] = Node
           /\ \A n \in Node : \A i \in DOMAIN chan[m][n] : IsMessage(chan[m][n][i])
  <2>1. ASSUME NEW m \in Node, NEW n \in Node, NEW i \in DOMAIN chan[m][n]
        PROVE  IsMessage(chan[m][n][i])
    <3>1. chan[m][n] \in Seq(Message)
      BY DEF TypeInv, LinksInv, Channels
    <3>2. chan[m][n][i] \in Message
      BY <3>1
    <3>3. QED
      BY <3>2, MessagesAre
  <2>2. QED
    BY <2>1 DEF TypeInv, LinksInv, Channels
<1>3. \A k \in Conn : pc[k] # "idle" => request[k] \in DOMAIN txs[home[k]]
  BY DEF TypeInv, TaskOwns, Owned
<1>4. QED
  BY <1>1, <1>2, <1>3 DEF TypeInv, LinksInv, TasksInv, TypeOK

\* Stores, messages and tasks keep their types: no quantity of any store
\* underflows, and a task always works on a purchase its store has on record,
\* whatever is lost, late or dropped.
THEOREM NetworkTypes == Spec => []TypeOK
<1>1. OwnedInv /\ held \subseteq Node => TypeOK
  BY TypesFollow DEF OwnedInv
<1>2. Init => held \subseteq Node
  BY DEF Init
<1>3. QED
  BY <1>1, <1>2, InitialTypes, TypesInductive, HeldInductive, PTL DEF Spec

-----------------------------------------------------------------------------
\* Reservations: what a step has to respect to keep them.

Working == {"planned", "asking", "waiting"}

\* A purchase is promised by its owner only when all have it on record.
PromisesFounded(lost) ==
  \A n \in Node : \A id \in DOMAIN txs'[n] :
    Owned(n, id) /\ txs'[n][id].state \in Promised =>
      txs[n][id].state \in Promised \/ OnRecord(lost, n, id)

AnswersFounded ==
  \A m, n \in Node : \A msg \in Range(chan'[m][n]) :
    msg.type = "Response" /\ msg.ok =>
      msg \in Range(chan[m][n]) \/ msg.id \in DOMAIN txs'[m]

\* The task of k takes a store for asked only if that store has answered.
Learns(lost, k) ==
  /\ pc'[k] \in Working =>
       /\ pc[k] \in Working /\ request'[k] = request[k]
       /\ \/ refused'[k]
          \/ ~refused[k] /\ \A m \in Node \ (todo'[k] \cup {peer'[k]}) :
               m \notin todo[k] \cup {peer[k]} \/ Reserved(lost, m, request[k])
  /\ pc'[k] = "Confirm" =>
       /\ pc[k] # "idle" /\ request'[k] = request[k]
       /\ pc[k] = "Confirm" \/ OnRecord(lost, home[k], request[k])
  /\ \A id \in told'[k] : id \in told[k] \/ (pc[k] = "Confirm" /\ id = request[k])

\* What is owned is kept, though something new may come to be owned.
OwnedKept ==
  \A n \in Node, id \in TxId : Owned(n, id) => \A m \in Node : PlanKept(m, id)

LEMMA ReservedKept ==
  ASSUME NEW lost, TypeInv, NEW m \in Node, NEW id, Reserved(lost, m, id),
         \A i \in TxId : i = id => PlanKept(m, i)
  PROVE  Reserved(lost, m, id)'
<1>1. CASE id \in DOMAIN txs[m]
  BY <1>1 DEF TypeInv, StoreInv, TypesOfRecords, PlanKept, Reserved
<1>2. CASE <<m, id>> \in lost
  BY <1>2 DEF Reserved
<1>3. QED
  BY <1>1, <1>2 DEF Reserved

LEMMA OnRecordKept ==
  ASSUME NEW lost, TypeInv', NEW n \in Node, NEW id \in TxId, \A m \in Node : PlanKept(m, id),
         id \in DOMAIN txs'[n], Owned(n, id) => OnRecord(lost, n, id)
  PROVE  OnRecord(lost, n, id)'
<1>1. PlanKept(n, id)
  OBVIOUS
<1>2. CASE ~Owned(n, id)
  BY <1>1, <1>2 DEF PlanKept, Owned, OnRecord, Empty
<1>3. CASE Owned(n, id)
  <2>1. txs'[n][id].involved_stock = txs[n][id].involved_stock
    BY <1>1, <1>3 DEF PlanKept
  <2>2. DOMAIN txs'[n][id].involved_stock \subseteq Node
    BY DEF TypeInv, StoreInv, TypesOfRecords, IsTransaction, IsPlan
  <2>3. QED
    BY <1>3, <2>1, <2>2 DEF OnRecord, Reserved, PlanKept
<1>4. QED
  BY <1>2, <1>3

LEMMA ConfirmedKept ==
  ASSUME NEW lost, ReserveInv(lost), TypeInv', PlansKept, PromisesFounded(lost)
  PROVE  PromisesHold(lost)'
<1> SUFFICES ASSUME NEW n \in Node, NEW id \in DOMAIN txs'[n],
                    txs'[n][id].state \in Promised
             PROVE  OnRecord(lost, n, id)'
  BY DEF PromisesHold, OnRecord
<1>1. id \in TxId
  BY DEF TypeInv, StoreInv, TypesOfRecords
<1>2. Owned(n, id) => OnRecord(lost, n, id)
  BY DEF PromisesFounded, ReserveInv, PromisesHold, OnRecord, Owned
<1>3. QED
  BY <1>1, <1>2, OnRecordKept DEF PlansKept

LEMMA AnswersKept ==
  ASSUME NEW lost, ReserveInv(lost), TypeInv', PlansKept, AnswersFounded
  PROVE  AnswersHold(lost)'
<1> SUFFICES ASSUME NEW m \in Node, NEW n \in Node, NEW msg \in Range(chan'[m][n]),
                    msg.type = "Response", msg.ok
             PROVE  Reserved(lost, m, msg.id)'
  BY DEF AnswersHold
<1>1. CASE msg.id \in DOMAIN txs'[m]
  BY <1>1 DEF Reserved
<1>2. CASE msg \in Range(chan[m][n])
  <2>1. Reserved(lost, m, msg.id)
    BY <1>2 DEF ReserveInv, AnswersHold
  <2>2. QED
    BY <2>1, ReservedKept DEF PlansKept, ReserveInv
<1>3. QED
  BY <1>1, <1>2 DEF AnswersFounded

LEMMA TaskKnowsKept ==
  ASSUME NEW lost, ReserveInv(lost), TypeInv', OwnedKept, NEW k \in Conn, Learns(lost, k)
  PROVE  TaskKnows(lost, k)'
<1>1. home[k] \in Node /\ told[k] \subseteq TxId /\ TaskKnows(lost, k) /\ TypeInv
      /\ TaskOwns(k)
  BY HomeAssumption DEF ReserveInv, TypeInv, TasksInv
<1>2. ASSUME pc'[k] \in Working, ~refused'[k],
             NEW m \in (DOMAIN Plan(k) \ (todo[k] \cup {peer[k]}))'
      PROVE  Reserved(lost, m, request[k])'
  <2>1. pc[k] \in Working /\ pc[k] # "idle" /\ request'[k] = request[k]
    BY <1>2 DEF Learns, Working
  <2>2. request[k] \in TxId /\ Owned(home[k], request[k]) /\ IsPlan(Plan(k))
    BY <1>1, <2>1, AtWork
  <2>3. Plan(k)' = Plan(k)
    <3>1. PlanKept(home[k], request[k])
      BY <1>1, <2>2 DEF OwnedKept
    <3>2. QED
      BY <2>1, <2>2, <3>1 DEF PlanKept, Plan
  <2>4. /\ m \in DOMAIN Plan(k) /\ m \in Node
        /\ m \notin todo'[k] \cup {peer'[k]}
    BY <1>2, <2>2, <2>3 DEF IsPlan
  <2>5. Reserved(lost, m, request[k])
    BY <1>1, <1>2, <2>1, <2>4 DEF Learns, TaskKnows, Working
  <2>6. PlanKept(m, request[k])
    BY <1>1, <2>2, <2>4 DEF OwnedKept
  <2>7. QED
    BY <1>1, <2>1, <2>4, <2>5, <2>6 DEF Reserved, PlanKept
<1>3. ASSUME NEW id, Owned(home[k], id), OnRecord(lost, home[k], id)
      PROVE  OnRecord(lost, home[k], id)'
  <2>1. id \in TxId /\ id \in DOMAIN txs[home[k]]
    BY <1>1, <1>3 DEF Owned, TypeInv, StoreInv, TypesOfRecords
  <2>2. \A m \in Node : PlanKept(m, id)
    BY <1>1, <1>3, <2>1 DEF OwnedKept
  <2>3. id \in DOMAIN txs'[home[k]]
    BY <1>1, <2>1, <2>2 DEF PlanKept
  <2>4. QED
    BY <1>1, <1>3, <2>1, <2>2, <2>3, OnRecordKept
<1>4. ASSUME pc'[k] = "Confirm"
      PROVE  OnRecord(lost, home[k], request[k])'
  <2>1. /\ request'[k] = request[k] /\ Owned(home[k], request[k])
        /\ OnRecord(lost, home[k], request[k])
    BY <1>1, <1>4, AtWork DEF Learns, TaskKnows
  <2>2. OnRecord(lost, home[k], request'[k])
    BY <2>1
  <2>3. QED
    BY <1>3, <2>1 DEF OnRecord
<1>5. ASSUME NEW id \in told'[k]
      PROVE  OnRecord(lost, home[k], id)'
  BY <1>1, <1>3, <1>5, AtWork DEF Learns, TaskKnows, TaskOwns
<1>6. QED
  BY <1>2, <1>4, <1>5 DEF TaskKnows, Working

LEMMA ReserveKept ==
  ASSUME NEW lost, ReserveInv(lost), TypeInv', PlansKept,
         PromisesFounded(lost), AnswersFounded, \A k \in Conn : Learns(lost, k)
  PROVE  ReserveInv(lost)'
<1>1. \A k \in Conn : TaskKnows(lost, k)'
  BY TaskKnowsKept DEF OwnedKept, PlansKept
<1>2. PromisesHold(lost)' /\ AnswersHold(lost)'
  BY ConfirmedKept, AnswersKept
<1>3. QED
  BY <1>1, <1>2 DEF ReserveInv

-----------------------------------------------------------------------------
\* Frames for reservations.

LEMMA PromisesQuiet ==
  ASSUME NEW lost, txs' = txs
  PROVE  PlansKept /\ PromisesFounded(lost)
  BY UnchangedKeeps DEF PromisesFounded

\* A decision on id at n touches no other record.
LEMMA PromisesMarked ==
  ASSUME NEW lost, TypeInv, NEW n \in Node, NEW id \in TxId, NEW s, txs' = Marked(n, id, s),
         s \notin Promised \/ ~Owned(n, id) \/ OnRecord(lost, n, id)
  PROVE  PromisesFounded(lost)
<1>1. CASE id \notin DOMAIN txs[n]
  BY <1>1, PromisesQuiet DEF Marked
<1>2. CASE id \in DOMAIN txs[n]
  <2>1. /\ txs'[n] = Insert(txs[n], id, Transaction(s, txs[n][id].involved_stock))
        /\ \A m \in Node : m # n => txs'[m] = txs[m]
    BY <1>2 DEF TypeInv, StoreInv, TypesOfRecords, Marked
  <2>2. /\ DOMAIN txs'[n] = DOMAIN txs[n] /\ txs'[n][id].state = s
        /\ \A i \in DOMAIN txs[n] : i # id => txs'[n][i] = txs[n][i]
    BY <1>2, <2>1 DEF Insert, Transaction
  <2>3. QED
    BY <2>1, <2>2 DEF PromisesFounded
<1>3. QED
  BY <1>1, <1>2

LEMMA PromisesDecided ==
  ASSUME NEW lost, TypeInv, NEW n \in Node, NEW id \in TxId,
         Confirm(n, id) \/ Commit(n, id) \/ Cancel(n, id),
         ~Owned(n, id) \/ OnRecord(lost, n, id) \/ Cancel(n, id)
  PROVE  PlansKept /\ PromisesFounded(lost)
<1>1. PlansKept
  BY DecisionsKeep DEF TypeInv
<1>2. CASE txs' = txs
  BY <1>2, PromisesQuiet
<1>3. CASE CancelKnown(n, id)
  BY <1>1, <1>3, PromisesMarked DEF CancelKnown, Promised
<1>4. CASE ~Owned(n, id) \/ OnRecord(lost, n, id)
  <2>1. txs' = txs \/ \E s \in TransactionState : txs' = Marked(n, id, s)
    BY DEF Confirm, Commit, Cancel, CancelKnown, CancelUnknown, CancelPanics, storeVars,
           TransactionState
  <2>2. QED
    BY <1>1, <1>2, <1>4, <2>1, PromisesMarked
<1>5. QED
  BY <1>2, <1>3, <1>4 DEF Cancel, CancelUnknown, CancelPanics, storeVars

LEMMA AnswersFewer ==
  ASSUME Fewer(chan')
  PROVE  AnswersFounded
  BY DEF Fewer, AnswersFounded

LEMMA AnswersUnchanged ==
  ASSUME chan' = chan
  PROVE  AnswersFounded
  BY DEF AnswersFounded

LEMMA AnswersSent ==
  ASSUME NEW n \in Node, NEW msg, Sent(chan', n, msg),
         msg.type # "Response" \/ ~msg.ok \/ msg.id \in DOMAIN txs'[n]
  PROVE  AnswersFounded
  BY DEF Sent, AnswersFounded

LEMMA IdleLearns ==
  ASSUME NEW lost, UNCHANGED connVars, TypeInv
  PROVE  \A k \in Conn : Learns(lost, k)
  BY DEF connVars, Learns, Working, TypeInv, TasksInv

LEMMA OthersLearn ==
  ASSUME NEW lost, TypeInv, NEW k \in Conn, OnlyTask(k), NEW j \in Conn \ {k}
  PROVE  Learns(lost, j)
  BY DEF OnlyTask, Learns, Working, TypeInv, TasksInv

LEMMA RestLearns ==
  ASSUME NEW lost, TypeInv, NEW k \in Conn, Rest(k), told' \in [Conn -> SUBSET TxId],
         \A j \in Conn \ {k} : told'[j] = told[j],
         \A id \in told'[k] : id \in told[k] \/ (pc[k] = "Confirm" /\ id = request[k])
  PROVE  \A j \in Conn : Learns(lost, j)
<1>1. OnlyTask(k) /\ pc'[k] = "idle"
  BY Rested DEF TypeInv
<1>2. Learns(lost, k)
  BY <1>1 DEF Learns, Working
<1>3. QED
  BY <1>1, <1>2, OthersLearn

LEMMA CloseLearns ==
  ASSUME NEW lost, TypeInv, NEW k \in Conn, Close(k)
  PROVE  \A j \in Conn : Learns(lost, j)
<1>1. told' \in [Conn -> SUBSET TxId] /\ told'[k] = {}
      /\ \A j \in Conn \ {k} : told'[j] = told[j]
  BY DEF Close, TypeInv, TasksInv
<1>2. QED
  BY <1>1, RestLearns DEF Close

-----------------------------------------------------------------------------
\* Each action of a customer's task keeps the reservations.

LEMMA OnOrderReserves ==
  ASSUME NEW lost, ReserveInv(lost), TypeInv',
         NEW k \in Conn, NEW p \in Product, NEW q \in Qty, OnOrder(k, p, q)
  PROVE  ReserveInv(lost)'
<1>1. PICK id \in TxId :
        /\ Fresh(id)
        /\ Request(home[k], id, p, q)
        /\ request' = [request EXCEPT ![k] = id]
        /\ todo' = [todo EXCEPT ![k] =
                      DOMAIN txs'[home[k]][id].involved_stock \ {home[k]}]
  BY DEF OnOrder
<1>2. home[k] \in Node /\ q \in Nat /\ TypeInv /\ StoreInv
  BY HomeAssumption, QtyAssumption DEF ReserveInv, TypeInv
<1>3. /\ Owned(home[k], id)'
      /\ txs'[home[k]][id].state = "AwaitingConfirmation"
      /\ \A m \in Node, i \in TxId : m # home[k] \/ i # id => PlanKept(m, i)
      /\ \A m \in Node : \A i \in DOMAIN txs'[m] : m # home[k] \/ i # id =>
           i \in DOMAIN txs[m] /\ txs'[m][i] = txs[m][i]
  BY <1>1, <1>2, RequestPlans
<1>4. \A m \in Node : id \notin DOMAIN txs[m]
  BY <1>1 DEF Fresh
<1>5. OwnedKept
  BY <1>3, <1>4 DEF OwnedKept, Owned
<1>6. PromisesHold(lost)'
  <2> SUFFICES ASSUME NEW n \in Node, NEW i \in DOMAIN txs'[n],
                      txs'[n][i].state \in Promised
               PROVE  OnRecord(lost, n, i)'
    BY DEF PromisesHold, OnRecord
  <2>1. n # home[k] \/ i # id
    BY <1>3 DEF Promised
  <2>2. i \in DOMAIN txs[n] /\ txs'[n][i] = txs[n][i]
    BY <1>3, <2>1
  <2>3. i # id /\ i \in TxId
    BY <1>2, <1>4, <2>2 DEF StoreInv, TypesOfRecords
  <2>4. \A m \in Node : PlanKept(m, i)
    BY <1>3, <2>3
  <2>5. OnRecord(lost, n, i)
    BY <2>2 DEF ReserveInv, PromisesHold, OnRecord
  <2>6. QED
    BY <2>3, <2>4, <2>5, OnRecordKept
<1>7. AnswersHold(lost)'
  <2> SUFFICES ASSUME NEW m \in Node, NEW n \in Node, NEW msg \in Range(chan[m][n]),
                      msg.type = "Response", msg.ok
               PROVE  Reserved(lost, m, msg.id)'
    BY DEF OnOrder, linkVars, AnswersHold
  <2>1. Reserved(lost, m, msg.id)
    BY DEF ReserveInv, AnswersHold
  <2>2. \A i \in DOMAIN txs[m] : i \in TxId /\ i # id
    BY <1>2, <1>4 DEF StoreInv, TypesOfRecords
  <2>3. QED
    BY <1>3, <2>1, <2>2 DEF PlanKept, Reserved
<1>8. /\ pc'[k] = "planned" /\ request'[k] = id
      /\ todo'[k] = DOMAIN txs'[home[k]][id].involved_stock \ {home[k]}
      /\ OnlyTask(k) /\ told' = told
  BY <1>1, <1>2 DEF OnOrder, OnlyTask, TypeInv, TasksInv
<1>9. \A j \in Conn \ {k} : TaskKnows(lost, j)'
  BY <1>2, <1>5, <1>8, OthersLearn, TaskKnowsKept
<1>10. TaskKnows(lost, k)'
  <2>1. \A m \in (DOMAIN Plan(k) \ (todo[k] \cup {peer[k]}))' :
          Reserved(lost, m, request[k])'
    BY <1>3, <1>8 DEF Plan, Owned, Reserved
  <2>2. ASSUME NEW i \in told'[k]
        PROVE  OnRecord(lost, home[k], i)'
    <3>1. i \in TxId /\ Owned(home[k], i) /\ OnRecord(lost, home[k], i)
      BY <1>2, <1>8, <2>2 DEF ReserveInv, TaskKnows, TypeInv, TasksInv, TaskOwns
    <3>2. \A m \in Node : PlanKept(m, i)
      BY <1>2, <1>5, <3>1 DEF OwnedKept
    <3>3. i \in DOMAIN txs'[home[k]]
      BY <1>2, <3>1, <3>2 DEF PlanKept, Owned
    <3>4. QED
      BY <1>2, <3>1, <3>2, <3>3, OnRecordKept
  <2>3. QED
    BY <1>8, <2>1, <2>2 DEF TaskKnows
<1>11. QED
  BY <1>6, <1>7, <1>9, <1>10 DEF ReserveInv

LEMMA BeginReserves ==
  ASSUME NEW lost, ReserveInv(lost), TypeInv', NEW k \in Conn, Begin(k)
  PROVE  ReserveInv(lost)'
<1>1. TypeInv
  BY DEF ReserveInv
<1>2. PlansKept /\ PromisesFounded(lost) /\ AnswersFounded
  BY PromisesQuiet, AnswersUnchanged DEF Begin, storeVars, linkVars
<1>3. \A j \in Conn : Learns(lost, j)
  BY <1>1 DEF Begin, Learns, Working, TypeInv, TasksInv
<1>4. QED
  BY <1>2, <1>3, ReserveKept

LEMMA AskTaskReserves ==
  ASSUME NEW lost, ReserveInv(lost), TypeInv', NEW k \in Conn, Ask(k)
  PROVE  ReserveInv(lost)'
<1>1. PICK m \in todo[k] \cap linked[home[k]] :
        /\ chan' = Posted(chan, home[k], {m}, AskMessage(request[k], Plan(k)[m]))
        /\ todo' = [todo EXCEPT ![k] = @ \ {m}]
        /\ peer' = [peer EXCEPT ![k] = m]
  BY DEF Ask
<1>2. TypeInv /\ pc[k] = "asking" /\ pc[k] # "idle" /\ m \in Node
  BY <1>1 DEF ReserveInv, Ask, TypeInv, TasksInv
<1>3. PlansKept /\ PromisesFounded(lost)
  BY PromisesQuiet DEF Ask, storeVars
<1>4. AnswersFounded
  <2> DEFINE msg == AskMessage(request[k], Plan(k)[m])
  <2>1. IsStock(Plan(k)[m])
    BY <1>1, <1>2, AtWork DEF IsPlan, Targets
  <2>2. msg \in Message /\ msg.type # "Response" /\ home[k] \in Node
    BY <1>2, <2>1, AtWork, IsAskMessage DEF AskMessage
  <2>3. chan' = Posted(chan, home[k], {m}, msg)
    BY <1>1
  <2> HIDE DEF msg
  <2>4. Sent(chan', home[k], msg)
    BY <1>2, <2>2, <2>3, Unread, PostedIsSent DEF TypeInv
  <2>5. QED
    BY <2>2, <2>4, AnswersSent
<1>5. OnlyTask(k)
  BY <1>1, <1>2 DEF Ask, OnlyTask, TypeInv, TasksInv
<1>6. Learns(lost, k)
  <2>1. peer[k] = None /\ m # None
    BY <1>2, NoneAssumption DEF TypeInv, TasksInv
  <2>2. /\ pc'[k] = "waiting" /\ request'[k] = request[k] /\ todo'[k] = todo[k] \ {m}
        /\ peer'[k] = m /\ refused'[k] = refused[k] /\ told'[k] = told[k]
    BY <1>1, <1>2 DEF Ask, TypeInv, TasksInv
  <2>3. refused[k] \in BOOLEAN
    BY <1>2 DEF TypeInv, TasksInv
  <2>4. QED
    BY <1>2, <2>1, <2>2, <2>3, NoneAssumption DEF Learns, Working
<1>7. QED
  BY <1>2, <1>3, <1>4, <1>5, <1>6, OthersLearn, ReserveKept

LEMMA CloseReserves ==
  ASSUME NEW lost, ReserveInv(lost), TypeInv', NEW k \in Conn, Close(k),
         UNCHANGED <<txs, linkVars>>
  PROVE  ReserveInv(lost)'
<1>1. PlansKept /\ PromisesFounded(lost) /\ AnswersFounded
  BY PromisesQuiet, AnswersUnchanged DEF linkVars
<1>2. QED
  BY <1>1, CloseLearns, ReserveKept DEF ReserveInv

\* A task that agrees has asked every store of the plan, and none refused.
LEMMA AgreeReserves ==
  ASSUME NEW lost, ReserveInv(lost), TypeInv', NEW k \in Conn, Agree(k)
  PROVE  ReserveInv(lost)'
<1>1. /\ TypeInv /\ pc[k] = "asking" /\ pc[k] # "idle" /\ todo[k] = {} /\ ~refused[k]
      /\ Confirm(home[k], request[k])
  BY DEF Agree, ReserveInv
<1>2. home[k] \in Node /\ request[k] \in TxId /\ IsPlan(Plan(k))
  BY <1>1, AtWork
<1>3. OnRecord(lost, home[k], request[k])
  <2>1. peer[k] = None
    BY <1>1 DEF TypeInv, TasksInv
  <2>2. \A m \in DOMAIN Plan(k) : m \in Node /\ m # None
    BY <1>2, NoneAssumption DEF IsPlan
  <2>3. TaskKnows(lost, k)
    BY DEF ReserveInv
  <2>4. QED
    BY <1>1, <2>1, <2>2, <2>3 DEF TaskKnows, OnRecord, Plan
<1>4. PlansKept /\ PromisesFounded(lost)
  BY <1>1, <1>2, <1>3, PromisesDecided
<1>5. AnswersFounded
  BY AnswersUnchanged DEF Agree, linkVars
<1>6. \A j \in Conn : Learns(lost, j)
  BY <1>1, <1>3 DEF Agree, Learns, Working, TypeInv, TasksInv
<1>7. QED
  BY <1>4, <1>5, <1>6, ReserveKept

LEMMA AbortReserves ==
  ASSUME NEW lost, ReserveInv(lost), TypeInv', NEW k \in Conn, Abort(k)
  PROVE  ReserveInv(lost)'
<1>1. TypeInv /\ pc[k] # "idle" /\ Cancel(home[k], request[k])
  BY DEF Abort, Cancel, ReserveInv
<1>2. PlansKept /\ PromisesFounded(lost)
  BY <1>1, AtWork, PromisesDecided
<1>3. AnswersFounded
  BY AnswersUnchanged DEF Abort, linkVars
<1>4. \A j \in Conn : Learns(lost, j)
  BY <1>1 DEF Abort, Learns, Working, TypeInv, TasksInv
<1>5. QED
  BY <1>2, <1>3, <1>4, ReserveKept

\* The customer is told Confirm only while every store has the purchase.
LEMMA NotifyReserves ==
  ASSUME NEW lost, ReserveInv(lost), TypeInv', NEW k \in Conn, Notify(k) \/ NotifyFails(k)
  PROVE  ReserveInv(lost)'
<1>1. TypeInv /\ pc[k] \in Decision /\ pc[k] # "idle"
  BY DEF Notify, NotifyFails, Decision, ReserveInv
<1>2. PlansKept /\ PromisesFounded(lost)
  BY PromisesQuiet DEF Notify, NotifyFails, storeVars
<1>3. AnswersFounded
  <2> DEFINE msg == Notice(pc[k], request[k])
  <2>1. msg \in Message /\ msg.type # "Response" /\ home[k] \in Node
    BY <1>1, AtWork, IsNotice DEF Notice, Decision
  <2>2. \E S : chan' = Posted(chan, home[k], S, msg)
    BY DEF Notify, NotifyFails
  <2> HIDE DEF msg
  <2>3. Sent(chan', home[k], msg)
    BY <1>1, <2>1, <2>2, Unread, PostedIsSent DEF TypeInv
  <2>4. QED
    BY <2>1, <2>3, AnswersSent
<1>4. CASE NotifyFails(k)
  BY <1>1, <1>2, <1>3, <1>4, CloseLearns, ReserveKept DEF NotifyFails
<1>5. CASE Notify(k)
  <2>1. /\ told' \in [Conn -> SUBSET TxId]
        /\ \A i \in told'[k] : i \in told[k] \/ (pc[k] = "Confirm" /\ i = request[k])
        /\ \A j \in Conn \ {k} : told'[j] = told[j]
    BY <1>1, <1>5, AtWork DEF Notify, TypeInv, TasksInv
  <2>2. \A j \in Conn : Learns(lost, j)
    BY <1>1, <1>5, <2>1, RestLearns DEF Notify
  <2>3. QED
    BY <1>2, <1>3, <2>2, ReserveKept
<1>6. QED
  BY <1>4, <1>5

LEMMA DecisionReserves ==
  ASSUME NEW lost, ReserveInv(lost), TypeInv', NEW k \in Conn, NEW id \in TxId,
         OnCommit(k, id) \/ OnCancel(k, id)
  PROVE  ReserveInv(lost)'
<1>1. PICK d \in {"Commit", "Cancel"} : OnDecision(k, id, d)
  BY DEF OnCommit, OnCancel
<1>2. TypeInv /\ home[k] \in Node /\ OnRecord(lost, home[k], id)
  BY <1>1, HomeAssumption DEF OnDecision, ReserveInv, TaskKnows
<1>3. PlansKept /\ PromisesFounded(lost)
  BY <1>2, PromisesDecided DEF OnCommit, OnCancel, Cancel
<1>4. AnswersFounded
  BY <1>1, AnswersUnchanged DEF OnDecision, linkVars
<1>5. OnlyTask(k) /\ pc'[k] = d /\ told'[k] \subseteq told[k]
  BY <1>1, <1>2 DEF OnDecision, OnlyTask, TypeInv, TasksInv
<1>6. Learns(lost, k)
  BY <1>5 DEF Learns, Working
<1>7. QED
  BY <1>2, <1>3, <1>4, <1>5, <1>6, OthersLearn, ReserveKept

-----------------------------------------------------------------------------
\* So does each action of the operators, the updaters and the readers.

LEMMA OperatorReserves ==
  ASSUME NEW lost, ReserveInv(lost), TypeInv', NEW n \in Node, Operator(n)
  PROVE  ReserveInv(lost)'
<1>1. PlansKept /\ PromisesFounded(lost)
  BY PromisesQuiet DEF Operator, AddStock, LocalRequest
<1>2. AnswersFounded
  BY AnswersUnchanged DEF Operator, linkVars
<1>3. \A k \in Conn : Learns(lost, k)
  BY IdleLearns DEF Operator, ReserveInv
<1>4. QED
  BY <1>1, <1>2, <1>3, ReserveKept

LEMMA UpdaterReserves ==
  ASSUME NEW lost, ReserveInv(lost), TypeInv', NEW n \in Node, Snapshot(n) \/ Broadcast(n)
  PROVE  ReserveInv(lost)'
<1>1. TypeInv
  BY DEF ReserveInv
<1>2. PlansKept /\ PromisesFounded(lost)
  BY PromisesQuiet DEF Snapshot, Broadcast, storeVars
<1>3. \A k \in Conn : Learns(lost, k)
  BY <1>1, IdleLearns DEF Snapshot, Broadcast
<1>4. CASE Snapshot(n)
  BY <1>2, <1>3, <1>4, AnswersUnchanged, ReserveKept DEF Snapshot
<1>5. CASE Broadcast(n)
  <2>1. PICK s \in snap[n] : chan' = Posted(chan, n, linked[n], Announcement(s))
    BY <1>5 DEF Broadcast
  <2> DEFINE msg == Announcement(s)
  <2>2. msg \in Message /\ msg.type # "Response"
    BY <1>1, <2>1, IsAnnouncement DEF TypeInv, LinksInv, Announcement
  <2>3. chan' = Posted(chan, n, linked[n], msg)
    BY <2>1
  <2> HIDE DEF msg
  <2>4. Sent(chan', n, msg)
    BY <1>1, <2>2, <2>3, Unread, PostedIsSent DEF TypeInv
  <2>5. QED
    BY <1>2, <1>3, <2>2, <2>4, AnswersSent, ReserveKept
<1>6. QED
  BY <1>4, <1>5

LEMMA ReceiveUpdateReserves ==
  ASSUME NEW lost, ReserveInv(lost), TypeInv', NEW m \in Node, NEW n \in Node,
         ReceiveUpdate(m, n)
  PROVE  ReserveInv(lost)'
<1>1. TypeInv
  BY DEF ReserveInv
<1>2. AnswersFounded
  BY <1>1, Read, AnswersFewer DEF ReceiveUpdate, Arrives
<1>3. PlansKept /\ PromisesFounded(lost)
  BY PromisesQuiet DEF ReceiveUpdate, Update
<1>4. \A k \in Conn : Learns(lost, k)
  BY <1>1, IdleLearns DEF ReceiveUpdate
<1>5. QED
  BY <1>2, <1>3, <1>4, ReserveKept

\* A store that accepts has the purchase on record before it answers.
LEMMA ReceiveAskReserves ==
  ASSUME NEW lost, ReserveInv(lost), TypeInv', NEW m \in Node, NEW n \in Node,
         ReceiveAsk(m, n)
  PROVE  ReserveInv(lost)'
<1> DEFINE msg == Head(chan[m][n])
<1>1. TypeInv /\ msg.type = "Ask" /\ chan[m][n] # <<>>
  BY DEF ReceiveAsk, Arrives, ReserveInv
<1>2. msg \in Message /\ Fewer(Rests(m, n)) /\ msg.id \in TxId /\ ~Owned(n, msg.id)
  BY <1>1, Read, AskedIsNotOwner
<1>3. PICK ok \in BOOLEAN :
        /\ IF ok THEN AskAccepted(n, msg.id, msg.share) ELSE AskRefused(n, msg.share)
        /\ chan' = Posted(Rests(m, n), n, {m} \cap linked[n], Response(msg.id, ok))
  BY DEF ReceiveAsk
<1>4. PlansKept /\ PromisesFounded(lost) /\ (ok => msg.id \in DOMAIN txs'[n])
  <2>1. CASE ok
    <3>1. PlansKept /\ msg.id \in DOMAIN txs'[n]
      BY <1>1, <1>2, <1>3, <2>1, AskKeeps DEF TypeInv
    <3>2. \A a \in Node : \A i \in DOMAIN txs'[a] :
            a # n \/ i # msg.id => txs'[a][i] = txs[a][i]
      BY <1>1, <1>3, <2>1 DEF AskAccepted, Insert, TypeInv, StoreInv, TypesOfRecords
    <3>3. PromisesFounded(lost)
      BY <1>2, <3>2 DEF PromisesFounded
    <3>4. QED
      BY <3>1, <3>3
  <2>2. CASE ~ok
    BY <1>3, <2>2, PromisesQuiet DEF AskRefused, storeVars
  <2>3. QED
    BY <2>1, <2>2
<1>5. AnswersFounded
  <2> DEFINE answer == Response(msg.id, ok)
  <2>1. answer \in Message /\ (~answer.ok \/ answer.id \in DOMAIN txs'[n])
    BY <1>2, <1>4, IsResponse DEF Response
  <2>2. chan' = Posted(Rests(m, n), n, {m} \cap linked[n], answer)
    BY <1>3
  <2> HIDE DEF answer
  <2>3. Sent(chan', n, answer)
    BY <1>1, <1>2, <2>1, <2>2, PostedIsSent DEF TypeInv
  <2>4. QED
    BY <2>1, <2>3, AnswersSent
<1>6. \A k \in Conn : Learns(lost, k)
  BY <1>1, IdleLearns DEF ReceiveAsk
<1>7. QED
  BY <1>4, <1>5, <1>6, ReserveKept

\* What another store decides promises nothing of the store's own.
LEMMA ReceiveNoticeReserves ==
  ASSUME NEW lost, ReserveInv(lost), TypeInv', NEW m \in Node, NEW n \in Node,
         ReceiveNotice(m, n)
  PROVE  ReserveInv(lost)'
<1> DEFINE msg == Head(chan[m][n])
<1>1. /\ chan[m][n] # <<>> /\ msg.type \in {"Ask"} \cup Decision
      /\ Confirm(n, msg.id) \/ Commit(n, msg.id) \/ Cancel(n, msg.id)
  BY DEF ReceiveNotice, Arrives, Decision
<1>2. TypeInv
  BY DEF ReserveInv
<1>3. Fewer(chan') /\ msg.id \in TxId /\ ~Owned(n, msg.id)
  BY <1>1, <1>2, Read, AskedIsNotOwner DEF ReceiveNotice
<1>4. PlansKept /\ PromisesFounded(lost)
  BY <1>1, <1>2, <1>3, PromisesDecided
<1>5. \A k \in Conn : Learns(lost, k)
  BY <1>2, IdleLearns DEF ReceiveNotice
<1>6. QED
  BY <1>3, <1>4, <1>5, AnswersFewer, ReserveKept

\* An answer Confirm means that the store has the purchase on record.
LEMMA ReceiveResponseReserves ==
  ASSUME NEW lost, ReserveInv(lost), TypeInv', NEW m \in Node, NEW n \in Node,
         ReceiveResponse(m, n)
  PROVE  ReserveInv(lost)'
<1> DEFINE msg == Head(chan[m][n])
           woken == Awaiting(m, n, msg.id)
<1>1. TypeInv /\ chan[m][n] # <<>> /\ msg.type = "Response"
  BY DEF ReceiveResponse, Arrives, ReserveInv
<1>2. Fewer(chan') /\ msg \in Range(chan[m][n])
  BY <1>1, Read DEF ReceiveResponse
<1>3. PlansKept /\ PromisesFounded(lost) /\ AnswersFounded
  BY <1>2, PromisesQuiet, AnswersFewer DEF ReceiveResponse, storeVars
<1>4. msg.ok => Reserved(lost, m, msg.id)
  BY <1>1, <1>2 DEF ReserveInv, AnswersHold
<1>5. /\ pc' = [k \in Conn |-> IF k \in woken THEN "asking" ELSE pc[k]]
      /\ peer' = [k \in Conn |-> IF k \in woken THEN None ELSE peer[k]]
      /\ refused' = [k \in Conn |-> refused[k] \/ (k \in woken /\ ~msg.ok)]
      /\ UNCHANGED <<request, todo, told>>
      /\ \A k \in woken : pc[k] = "waiting" /\ request[k] = msg.id /\ peer[k] = m
  BY DEF ReceiveResponse, Awaiting
<1> HIDE DEF woken, msg
<1>6. ASSUME NEW k \in Conn
      PROVE  Learns(lost, k)
  <2>1. refused[k] \in BOOLEAN
    BY <1>1 DEF TypeInv, TasksInv
  <2>2. CASE k \in woken
    <3>1. /\ pc[k] = "waiting" /\ request[k] = msg.id /\ peer[k] = m
          /\ pc'[k] = "asking" /\ request'[k] = request[k] /\ todo'[k] = todo[k]
          /\ peer'[k] = None /\ told'[k] = told[k]
          /\ refused'[k] = (refused[k] \/ ~msg.ok)
      BY <1>5, <2>2
    <3>2. QED
      BY <1>4, <2>1, <3>1 DEF Learns, Working
  <2>3. CASE k \notin woken
    <3>1. /\ pc'[k] = pc[k] /\ request'[k] = request[k] /\ todo'[k] = todo[k]
          /\ peer'[k] = peer[k] /\ told'[k] = told[k] /\ refused'[k] = refused[k]
      BY <1>5, <2>1, <2>3
    <3>2. QED
      BY <2>1, <3>1 DEF Learns, Working
  <2>4. QED
    BY <2>2, <2>3
<1>7. QED
  BY <1>3, <1>6, ReserveKept

\* Losses keep them too.
LEMMA LossReserves ==
  ASSUME NEW lost, ReserveInv(lost), TypeInv', NEW m \in Node, NEW n \in Node,
         Coalesced(m, n) \/ LinkLost(n, m)
  PROVE  ReserveInv(lost)'
<1>1. TypeInv
  BY DEF ReserveInv
<1>2. AnswersFounded
  <2>1. chan \in Channels /\ chan[m][n] \in Seq(Message)
    BY <1>1 DEF TypeInv, LinksInv, Channels
  <2>2. PICK left \in Seq(Message) :
          Range(left) \subseteq Range(chan[m][n]) /\ chan' = [chan EXCEPT ![m][n] = left]
    <3>1. CASE Coalesced(m, n)
      <4>1. PICK i \in 2 .. Len(chan[m][n]) :
              chan' = [chan EXCEPT ![m][n] = SubSeq(@, i + 1, Len(@))]
        BY <3>1 DEF Coalesced
      <4> DEFINE rest == SubSeq(chan[m][n], i + 1, Len(chan[m][n]))
      <4>2. rest \in Seq(Message) /\ Range(rest) \subseteq Range(chan[m][n])
        BY <2>1, Dropped
      <4>3. chan' = [chan EXCEPT ![m][n] = rest]
        BY <2>1, <4>1 DEF Channels
      <4> HIDE DEF rest
      <4>4. QED
        BY <4>2, <4>3
    <3>2. CASE LinkLost(n, m)
      <4>1. <<>> \in Seq(Message) /\ Range(<<>>) \subseteq Range(chan[m][n])
        BY DEF Range
      <4>2. QED
        BY <3>2, <4>1 DEF LinkLost
    <3>3. QED
      BY <3>1, <3>2
  <2>3. m # n
    BY <1>1 DEF Coalesced, LinkLost, TypeInv, LinksInv
  <2>4. QED
    BY <1>1, <2>2, <2>3, RestsAreFewer, AnswersFewer DEF TypeInv
<1>3. PlansKept /\ PromisesFounded(lost)
  BY PromisesQuiet DEF Coalesced, LinkLost, Shutdown, storeVars
<1>4. \A k \in Conn : Learns(lost, k)
  BY <1>1, IdleLearns DEF Coalesced, LinkLost
<1>5. QED
  BY <1>2, <1>3, <1>4, ReserveKept

-----------------------------------------------------------------------------
\* Reservations.

LEMMA InitialReservations ==
  ASSUME NEW lost, Init
  PROVE  ReserveInv(lost)
<1>1. PromisesHold(lost)
  BY DEF Init, StoreInit, Empty, PromisesHold
<1>2. AnswersHold(lost)
  BY DEF Init, AnswersHold, Range
<1>3. \A k \in Conn : TaskKnows(lost, k)
  BY DEF Init, TaskKnows
<1>4. QED
  BY <1>1, <1>2, <1>3, InitialTypes DEF OwnedInv, ReserveInv

LEMMA ReservationsStutter ==
  ASSUME NEW lost, ReserveInv(lost), TypeInv', StandsStill
  PROVE  ReserveInv(lost)'
<1>1. PlansKept /\ PromisesFounded(lost) /\ AnswersFounded
  BY PromisesQuiet, AnswersUnchanged DEF StandsStill, storeVars, linkVars
<1>2. \A k \in Conn : Learns(lost, k)
  BY IdleLearns DEF StandsStill, ReserveInv
<1>3. QED
  BY <1>1, <1>2, ReserveKept

LEMMA StepsReserve ==
  ASSUME NEW lost, ReserveInv(lost), TypeInv', Next
  PROVE  ReserveInv(lost)'
<1>1. ASSUME NEW k \in Conn, Serve(k)
      PROVE  ReserveInv(lost)'
  <2>1. CASE AskFails(k) \/ Timeout(k) \/ AbortPanics(k)
    BY <2>1, LeftOff, CloseReserves DEF LeavesOff
  <2>2. QED
    BY <1>1, <2>1, BeginReserves, AskTaskReserves, AgreeReserves, AbortReserves,
       NotifyReserves DEF Serve
<1>2. ASSUME NEW k \in Conn, Customer(k)
      PROVE  ReserveInv(lost)'
  <2>1. ASSUME NEW p \in Product, NEW q \in Qty, OnOrder(k, p, q) \/ OrderRefused(k, p, q)
        PROVE  ReserveInv(lost)'
    BY <2>1, OnOrderReserves, DownStandsStill, ReservationsStutter DEF OrderRefused
  <2>2. CASE Hangup(k) \/ \E id \in TxId : OnCancelPanics(k, id)
    BY <2>2, LeftOff, CloseReserves DEF LeavesOff
  <2>3. QED
    BY <1>2, <2>1, <2>2, DecisionReserves DEF Customer
<1>3. ASSUME NEW n \in Node, Operator(n) \/ Updater(n) \/ NetDown(n) \/ NetIsDown(n)
      PROVE  ReserveInv(lost)'
  BY <1>3, OperatorReserves, UpdaterReserves, DownStandsStill, ReservationsStutter DEF Updater
<1>4. ASSUME NEW m \in Node, NEW n \in Node, Receive(m, n)
      PROVE  ReserveInv(lost)'
  BY <1>4, ReceiveUpdateReserves, ReceiveAskReserves, ReceiveNoticeReserves,
     ReceiveResponseReserves DEF Receive
<1>5. ASSUME NEW m \in Node, NEW n \in Node, Lose(m, n)
      PROVE  ReserveInv(lost)'
  BY <1>5, LossReserves DEF Lose
<1>6. QED
  BY <1>1, <1>2, <1>3, <1>4, <1>5 DEF Next

\* The records of all stores are relied on where none restarts.
LEMMA ReservationsInductive ==
  OwnedInv /\ ReserveInv({}) /\ [Next]_vars => ReserveInv({})'
<1> SUFFICES ASSUME OwnedInv, ReserveInv({}), [Next]_vars PROVE ReserveInv({})'
  OBVIOUS
<1>1. TypeInv'
  BY TypesInductive DEF OwnedInv
<1>2. QED
  BY <1>1, DownStandsStill, ReservationsStutter, StepsReserve

\* A purchase that its store has confirmed is on record at every store that
\* contributes to it, for any stores, customers and links, whatever answers
\* are lost, late, refused or dropped: no customer is told Confirm on the
\* strength of another purchase's answers, or of some of its own.
THEOREM ConfirmedReserved == Spec => []ConfirmedIsReserved
<1>1. ReserveInv({}) => ConfirmedIsReserved
  BY DEF ReserveInv, PromisesHold, OnRecord, Reserved, ConfirmedIsReserved
<1>2. Init => ReserveInv({})
  BY InitialReservations
<1>3. QED
  BY <1>1, <1>2, InitialTypes, TypesInductive, ReservationsInductive, PTL DEF Spec
=============================================================================
