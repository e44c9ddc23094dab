--------------------------- MODULE PurchaseNetwork ---------------------------
(***************************************************************************)
(* The stores of the network buying from each other.  A customer's         *)
(* connection at a store (ecommerce/network/connection.rs, `serve') has    *)
(* the store's actor plan a purchase, asks every other store of the plan   *)
(* for its share, confirms or cancels, tells the stores and the customer,  *)
(* and later relays the customer's own decision.  Messages between stores  *)
(* travel over TCP (local/node_comm/node_communication.rs), are turned     *)
(* into messages of the actor (local/protocol/store_glue.rs), and every    *)
(* store announces its stock periodically (ecommerce/sysctl/listener.rs).  *)
(* The operator's command D takes a store down: it waits for the tasks of  *)
(* its customers, with the lock held that they need to reach other stores. *)
(*                                                                         *)
(* The runtime is single-threaded: tasks interleave at their awaits, which *)
(* is where one action ends and the next begins.                           *)
(***************************************************************************)
EXTENDS StoreActor

CONSTANTS
  Conn,      \* customers' connections
  home,      \* home[k]: the store that connection k is made to
  None,      \* no request, no peer
  MaxQueue,  \* bound on the messages in a channel when a stock is announced
  Links,     \* the pairs <<n, m>> of stores that are connected, both ways
  Fragile,   \* the ends <<n, m>> of those connections that may break
  Announcer, \* the stores whose announcements are explored; in the code, all
  Downer     \* the stores whose operator gives D; in the code, any

ASSUME HomeAssumption == home \in [Conn -> Node]
ASSUME NoneAssumption == None \notin Node \cup TxId
ASSUME MaxQueueAssumption == MaxQueue \in Nat
ASSUME LinksAssumption ==
  Links \subseteq {l \in Node \X Node : l[1] # l[2]}
ASSUME FragileAssumption == Fragile \subseteq Links
ASSUME AnnouncerAssumption == Announcer \subseteq Node
ASSUME DownerAssumption == Downer \subseteq Node

VARIABLES
  chan,     \* chan[m][n]: bytes sent by m that n has not read, by message
  linked,   \* linked[n]: the stores n reads from and has a writer for
  snap,     \* snap[n]: the state n's updater has read and not yet broadcast
  pc,       \* pc[k]: where the task serving connection k is
  request,  \* request[k]: the purchase it is working on
  todo,     \* todo[k]: the stores of the plan it has still to ask
  peer,     \* peer[k]: the store whose answer it waits for
  refused,  \* refused[k]: some store has answered Cancel
  told,     \* told[k]: purchases whose customer was told Confirm, undecided
  held      \* the stores whose D holds the lock of their NodeListener

linkVars == <<chan, linked, snap>>
connVars == <<pc, request, todo, peer, refused, told>>
vars == <<storeVars, linkVars, connVars, held>>

-----------------------------------------------------------------------------
\* Messages between stores.

Decision == {"Confirm", "Commit", "Cancel"}

AskMessage(id, d) == [type |-> "Ask", id |-> id, share |-> d]
Response(id, ok) == [type |-> "Response", id |-> id, ok |-> ok]
Notice(decision, id) == [type |-> decision, id |-> id]
Announcement(s) == [type |-> "Update", stock |-> s]

\* Channels c after n wrote msg to the stores of S; what is written to a
\* store that no longer reads from n is lost.
Posted(c, n, S, msg) ==
  [c EXCEPT ![n] = [m \in Node |-> IF m \in S /\ n \in linked[m]
                                   THEN Append(@[m], msg) ELSE @[m]]]

\* Writing to m fails at n: its writer is gone or the other end is closed.
Broken(n, m) == m \notin linked[n] \/ n \notin linked[m]

-----------------------------------------------------------------------------
\* Serving a customer.

Plan(k) == txs[home[k]][request[k]].involved_stock

Targets(k) == DOMAIN Plan(k) \ {home[k]}

\* A task waits for an answer with the store's NodeListener locked, and D
\* waits for every task with it locked: no other task of that store sends
\* anything meanwhile.
Locked(n) == n \in held \/ \E k \in Conn : home[k] = n /\ pc[k] = "waiting"

\* Mutant of Fresh: ids are numbers that each store counts for itself.
FreshSomewhere(id) == \E n \in Node : id \notin DOMAIN txs[n]

\* Ids are random 128-bit numbers: no store has met this one.
Fresh(id) == \A n \in Node : id \notin DOMAIN txs[n]

\* The task is back at its select, or it ended and the listener has accepted
\* another connection in its place.
Rest(k) ==
  /\ pc' = [pc EXCEPT ![k] = "idle"]
  /\ request' = [request EXCEPT ![k] = None]
  /\ todo' = [todo EXCEPT ![k] = {}]
  /\ peer' = [peer EXCEPT ![k] = None]
  /\ refused' = [refused EXCEPT ![k] = FALSE]

Close(k) == Rest(k) /\ told' = [told EXCEPT ![k] = {}]

\* The actor panics over the Cancel of a task: the task gets an error for an
\* answer and ends.
CancelFails(k, id) == CancelPanics(home[k], id) /\ Close(k) /\ UNCHANGED linkVars

OnOrder(k, p, q) ==
  /\ pc[k] = "idle"
  /\ \E id \in TxId :
       /\ Fresh(id)
       /\ Request(home[k], id, p, q)
       /\ request' = [request EXCEPT ![k] = id]
       /\ todo' = [todo EXCEPT ![k] =
                     DOMAIN txs'[home[k]][id].involved_stock \ {home[k]}]
  /\ pc' = [pc EXCEPT ![k] = "planned"]
  /\ UNCHANGED <<linkVars, peer, refused, told>>

\* No plan: the customer is answered Cancel and nothing was recorded.
OrderRefused(k, p, q) ==
  /\ pc[k] = "idle"
  /\ Plans(home[k], p, q) = {}
  /\ UNCHANGED vars

\* The task takes the lock once to learn the id of its store.
Begin(k) ==
  /\ pc[k] = "planned"
  /\ ~Locked(home[k])
  /\ pc' = [pc EXCEPT ![k] = "asking"]
  /\ UNCHANGED <<storeVars, linkVars, request, todo, peer, refused, told>>

\* Ask the next store, in the order of a HashMap.
Ask(k) ==
  /\ pc[k] = "asking"
  /\ ~Locked(home[k])
  /\ \E m \in todo[k] \cap linked[home[k]] :
       /\ chan' = Posted(chan, home[k], {m}, AskMessage(request[k], Plan(k)[m]))
       /\ todo' = [todo EXCEPT ![k] = @ \ {m}]
       /\ peer' = [peer EXCEPT ![k] = m]
  /\ pc' = [pc EXCEPT ![k] = "waiting"]
  /\ UNCHANGED <<storeVars, linked, snap, request, refused, told>>

\* The store to ask cannot be written to: the task ends with an error.
AskFails(k) ==
  /\ pc[k] = "asking"
  /\ ~Locked(home[k])
  /\ \E m \in todo[k] : Broken(home[k], m)
  /\ Close(k)
  /\ UNCHANGED <<storeVars, linkVars>>

\* Mutant of Timeout: only a lost connection ends the wait.
TimeoutIfUnlinked(k) ==
  /\ pc[k] = "waiting"
  /\ peer[k] \notin linked[home[k]]
  /\ Close(k)
  /\ UNCHANGED <<storeVars, linkVars>>

\* No answer within a second: the task ends with an error, and nobody hears.
Timeout(k) ==
  /\ pc[k] = "waiting"
  /\ Close(k)
  /\ UNCHANGED <<storeVars, linkVars>>

\* Mutant of Agree: answers are counted, not read.
AgreeAnyway(k) ==
  /\ pc[k] = "asking"
  /\ todo[k] = {}
  /\ Confirm(home[k], request[k])
  /\ pc' = [pc EXCEPT ![k] = "Confirm"]
  /\ UNCHANGED <<linkVars, request, todo, peer, refused, told>>

\* Every store has answered.  The own actor is told first.
Agree(k) ==
  /\ pc[k] = "asking"
  /\ todo[k] = {}
  /\ ~refused[k]
  /\ Confirm(home[k], request[k])
  /\ pc' = [pc EXCEPT ![k] = "Confirm"]
  /\ UNCHANGED <<linkVars, request, todo, peer, refused, told>>

Abort(k) ==
  /\ pc[k] = "asking"
  /\ todo[k] = {}
  /\ refused[k]
  /\ CancelKnown(home[k], request[k])
  /\ pc' = [pc EXCEPT ![k] = "Cancel"]
  /\ UNCHANGED <<linkVars, request, todo, peer, refused, told>>

AbortPanics(k) ==
  /\ pc[k] = "asking"
  /\ todo[k] = {}
  /\ refused[k]
  /\ CancelFails(k, request[k])

\* Then the other stores of the plan, then the customer.
Notify(k) ==
  /\ pc[k] \in Decision
  /\ ~Locked(home[k])
  /\ Targets(k) \subseteq linked[home[k]]
  /\ chan' = Posted(chan, home[k], Targets(k), Notice(pc[k], request[k]))
  /\ told' = IF pc[k] = "Confirm"
             THEN [told EXCEPT ![k] = @ \cup {request[k]}] ELSE told
  /\ Rest(k)
  /\ UNCHANGED <<storeVars, linked, snap>>

\* One of them cannot be written to: those after it, and the customer, are
\* never told.
NotifyFails(k) ==
  /\ pc[k] \in Decision
  /\ ~Locked(home[k])
  /\ \E m \in Targets(k) : \E S \in SUBSET ((Targets(k) \cap linked[home[k]]) \ {m}) :
       /\ Broken(home[k], m)
       /\ chan' = Posted(chan, home[k], S, Notice(pc[k], request[k]))
  /\ Close(k)
  /\ UNCHANGED <<storeVars, linked, snap>>

\* Mutant of OnDecision: a purchase may be decided on again.
OnDecisionAgain(k, id, decision) ==
  /\ pc[k] = "idle"
  /\ id \in told[k]
  /\ request' = [request EXCEPT ![k] = id]
  /\ pc' = [pc EXCEPT ![k] = decision]
  /\ UNCHANGED <<linkVars, todo, peer, refused, told>>

\* The customer decides, once, on a purchase it was told is confirmed.
OnDecision(k, id, decision) ==
  /\ pc[k] = "idle"
  /\ id \in told[k]
  /\ told' = [told EXCEPT ![k] = @ \ {id}]
  /\ request' = [request EXCEPT ![k] = id]
  /\ pc' = [pc EXCEPT ![k] = decision]
  /\ UNCHANGED <<linkVars, todo, peer, refused>>

OnCommit(k, id) == OnDecision(k, id, "Commit") /\ Commit(home[k], id)

OnCancel(k, id) == OnDecision(k, id, "Cancel") /\ CancelKnown(home[k], id)

OnCancelPanics(k, id) ==
  /\ pc[k] = "idle"
  /\ id \in told[k]
  /\ CancelFails(k, id)

\* The customer goes away, or the operator takes the network down.
Hangup(k) ==
  /\ pc[k] = "idle"
  /\ told[k] # {}
  /\ Close(k)
  /\ UNCHANGED <<storeVars, linkVars>>

-----------------------------------------------------------------------------
\* The operator's D.  It tells the tasks to end and waits for all of them; a
\* task hears it only while it waits for its customer.

NetDown(n) ==
  /\ n \in Downer \ held
  /\ ~Locked(n)
  /\ held' = held \cup {n}
  /\ UNCHANGED <<storeVars, linkVars, connVars>>

\* Every task has ended.  The connections that D then closes are LinkLost.
NetIsDown(n) ==
  /\ n \in held
  /\ \A k \in Conn : home[k] = n => pc[k] = "idle" /\ told[k] = {}
  /\ held' = held \ {n}
  /\ UNCHANGED <<storeVars, linkVars, connVars>>

-----------------------------------------------------------------------------
\* The updater: the state is read, then the lock is awaited, then all hear.

\* Mutant of Snapshot: products that ran out are not announced.
SnapshotOfAvailable(n) ==
  /\ n \in Announcer
  /\ snap[n] = {}
  /\ snap' = [snap EXCEPT ![n] =
                {Restrict(stock[n], {p \in DOMAIN stock[n] : stock[n][p] > 0})}]
  /\ UNCHANGED <<storeVars, chan, linked, connVars>>

Snapshot(n) ==
  /\ n \in Announcer
  /\ snap[n] = {}
  /\ snap' = [snap EXCEPT ![n] = {stock[n]}]
  /\ UNCHANGED <<storeVars, chan, linked, connVars>>

Broadcast(n) ==
  /\ ~Locked(n)
  /\ \A m \in linked[n] : Len(chan[n][m]) < MaxQueue
  /\ \E s \in snap[n] : chan' = Posted(chan, n, linked[n], Announcement(s))
  /\ snap' = [snap EXCEPT ![n] = {}]
  /\ UNCHANGED <<storeVars, linked, connVars>>

-----------------------------------------------------------------------------
\* Reading what another store sent.  A read that returns exactly one message
\* is parsed and handled.

Arrives(m, n, type) == chan[m][n] # <<>> /\ Head(chan[m][n]).type = type

Rests(m, n) == [chan EXCEPT ![m][n] = Tail(@)]

ReceiveUpdate(m, n) ==
  /\ Arrives(m, n, "Update")
  /\ Update(n, m, Head(chan[m][n]).stock)
  /\ chan' = Rests(m, n)
  /\ UNCHANGED <<linked, snap, connVars>>

ReceiveAsk(m, n) ==
  /\ Arrives(m, n, "Ask")
  /\ LET msg == Head(chan[m][n])
         Reply(ok) == Posted(Rests(m, n), n, {m} \cap linked[n], Response(msg.id, ok))
     IN \/ AskAccepted(n, msg.id, msg.share) /\ chan' = Reply(TRUE)
        \/ AskRefused(n, msg.share) /\ chan' = Reply(FALSE)
  /\ UNCHANGED <<linked, snap, connVars>>

\* Mutant of ReceiveNotice: messages are handled by tasks of their own, in
\* any order.
ReceiveNoticeUnordered(m, n) ==
  \E i \in DOMAIN chan[m][n] :
    /\ LET msg == chan[m][n][i] IN
       \/ msg.type = "Confirm" /\ Confirm(n, msg.id)
       \/ msg.type = "Commit" /\ Commit(n, msg.id)
       \/ msg.type = "Cancel" /\ Cancel(n, msg.id)
    /\ chan' = [chan EXCEPT ![m][n] = SubSeq(@, 1, i - 1) \o SubSeq(@, i + 1, Len(@))]
    /\ UNCHANGED <<linked, snap, connVars>>

ReceiveNotice(m, n) ==
  /\ LET id == Head(chan[m][n]).id IN
     \/ Arrives(m, n, "Confirm") /\ Confirm(n, id)
     \/ Arrives(m, n, "Commit") /\ Commit(n, id)
     \/ Arrives(m, n, "Cancel") /\ Cancel(n, id)
  /\ chan' = Rests(m, n)
  /\ UNCHANGED <<linked, snap, connVars>>

\* The task an answer is for.  After its timeout there is none.
Awaiting(m, n, id) ==
  {k \in Conn : home[k] = n /\ pc[k] = "waiting" /\ request[k] = id /\ peer[k] = m}

ReceiveResponse(m, n) ==
  /\ Arrives(m, n, "Response")
  /\ LET msg == Head(chan[m][n])
         woken == Awaiting(m, n, msg.id)
     IN /\ pc' = [k \in Conn |-> IF k \in woken THEN "asking" ELSE pc[k]]
        /\ peer' = [k \in Conn |-> IF k \in woken THEN None ELSE peer[k]]
        /\ refused' = [k \in Conn |-> refused[k] \/ (k \in woken /\ ~msg.ok)]
  /\ chan' = Rests(m, n)
  /\ UNCHANGED <<storeVars, linked, snap, request, todo, told>>

\* A read that returns several messages does not parse: all are dropped.
Coalesced(m, n) ==
  /\ \E i \in 2 .. Len(chan[m][n]) :
       chan' = [chan EXCEPT ![m][n] = SubSeq(@, i + 1, Len(@))]
  /\ UNCHANGED <<storeVars, linked, snap, connVars>>

\* The connection with m ends at n: m goes offline and its writer goes away.
LinkLost(n, m) ==
  /\ <<n, m>> \in Fragile
  /\ m \in linked[n]
  /\ Shutdown(n, m)
  /\ linked' = [linked EXCEPT ![n] = @ \ {m}]
  /\ chan' = [chan EXCEPT ![m][n] = <<>>]
  /\ UNCHANGED <<snap, connVars>>

-----------------------------------------------------------------------------

Init ==
  /\ StoreInit
  /\ chan = [m \in Node |-> [n \in Node |-> <<>>]]
  /\ linked = [n \in Node |-> {m \in Node : <<n, m>> \in Links}]
  /\ snap = [n \in Node |-> {}]
  /\ pc = [k \in Conn |-> "idle"]
  /\ request = [k \in Conn |-> None]
  /\ todo = [k \in Conn |-> {}]
  /\ peer = [k \in Conn |-> None]
  /\ refused = [k \in Conn |-> FALSE]
  /\ told = [k \in Conn |-> {}]
  /\ held = {}

\* What the task of connection k does without its customer.
Serve(k) ==
  /\ \/ Begin(k) \/ Ask(k) \/ AskFails(k) \/ Timeout(k) \/ Agree(k)
     \/ Abort(k) \/ AbortPanics(k) \/ Notify(k) \/ NotifyFails(k)
  /\ UNCHANGED held

Customer(k) ==
  /\ \/ \E p \in Product, q \in Qty : OnOrder(k, p, q) \/ OrderRefused(k, p, q)
     \/ \E id \in TxId : OnCommit(k, id) \/ OnCancel(k, id) \/ OnCancelPanics(k, id)
     \/ Hangup(k)
  /\ UNCHANGED held

\* The operator's other commands.  The one reader of commands is in D as long
\* as D holds the lock.
Operator(n) ==
  /\ n \notin held
  /\ \/ \E p \in Product, q \in Qty : AddStock(n, p, q)
     \/ \E orders \in LocalOrders : LocalRequest(n, orders)
  /\ UNCHANGED <<linkVars, connVars, held>>

Updater(n) == (Snapshot(n) \/ Broadcast(n)) /\ UNCHANGED held

Receive(m, n) ==
  /\ \/ ReceiveUpdate(m, n) \/ ReceiveAsk(m, n)
     \/ ReceiveNotice(m, n) \/ ReceiveResponse(m, n)
  /\ UNCHANGED held

Lose(m, n) == (Coalesced(m, n) \/ LinkLost(m, n)) /\ UNCHANGED held

Next ==
  \/ \E k \in Conn : Serve(k) \/ Customer(k)
  \/ \E n \in Node : Operator(n) \/ Updater(n) \/ NetDown(n) \/ NetIsDown(n)
  \/ \E m \in Node, n \in Node : Receive(m, n) \/ Lose(m, n)

Spec == Init /\ [][Next]_vars

\* The runtime runs every task that can go on, timers included; customers,
\* operators and broken links owe nothing, and D may wait for ever.
Fairness ==
  /\ \A k \in Conn : WF_vars(Serve(k))
  /\ \A n \in Node : WF_vars(Updater(n))
  /\ \A m \in Node, n \in Node : WF_vars(Receive(m, n))

FairSpec == Spec /\ Fairness
-----------------------------------------------------------------------------
\* Properties.

IsMessage(msg) ==
  \/ msg.type = "Update" /\ msg = Announcement(msg.stock) /\ IsStock(msg.stock)
  \/ /\ msg.type = "Ask" /\ msg = AskMessage(msg.id, msg.share)
     /\ msg.id \in TxId /\ IsStock(msg.share)
  \/ /\ msg.type = "Response" /\ msg = Response(msg.id, msg.ok)
     /\ msg.id \in TxId /\ msg.ok \in BOOLEAN
  \/ msg.type \in Decision /\ msg = Notice(msg.type, msg.id) /\ msg.id \in TxId

\* The fields of the store, the messages and the tasks have their types; a
\* task that works on a purchase has one, and only one that waits has a peer.
TypeOK ==
  /\ StoreTypeOK
  /\ DOMAIN chan = Node
  /\ \A m \in Node :
       /\ DOMAIN chan[m] = Node
       /\ \A n \in Node : \A i \in DOMAIN chan[m][n] : IsMessage(chan[m][n][i])
  /\ linked \in [Node -> SUBSET Node]
  /\ DOMAIN snap = Node /\ \A n \in Node : \A s \in snap[n] : IsStock(s)
  /\ pc \in [Conn -> {"idle", "planned", "asking", "waiting"} \cup Decision]
  /\ request \in [Conn -> TxId \cup {None}]
  /\ \A k \in Conn : pc[k] # "idle" => request[k] \in DOMAIN txs[home[k]]
  /\ todo \in [Conn -> SUBSET Node]
  /\ peer \in [Conn -> Node \cup {None}]
  /\ \A k \in Conn : pc[k] = "waiting" <=> peer[k] # None
  /\ refused \in [Conn -> BOOLEAN]
  /\ told \in [Conn -> SUBSET TxId]
  /\ held \subseteq Node

\* The actor of no store panics: by the time a purchase is cancelled, the
\* products of its plan are still in what its store believes of each store of
\* the plan, however stale or reordered by losses the announcements are
\* (store.rs:287 indexes the map).
NeverPanics == \A n \in Node : alive[n]

Promised == {"NodeConfirmed", "Finalized"}

\* A purchase that its store has confirmed is on record at every store that
\* contributes to it, whatever answers were lost, late or refused: a Confirm
\* never goes out on the strength of another purchase's answers, or of some
\* of its own (connection.rs:145-182).
ConfirmedIsReserved ==
  \A n \in Node : \A id \in DOMAIN txs[n] :
    txs[n][id].state \in Promised =>
      \A m \in DOMAIN txs[n][id].involved_stock : id \in DOMAIN txs[m]

UnitsPlanned(t, p) ==
  SumFunction([m \in DOMAIN t.involved_stock |-> Units(t.involved_stock[m], p)])

\* Units of p in the purchases that customers of n were promised.
UnitsPromised(n, p) ==
  SumFunction([id \in {i \in DOMAIN txs[n] : txs[n][i].state \in Promised} |->
           UnitsPlanned(txs[n][id], p)])

\* What is in stock anywhere and what customers were promised anywhere never
\* exceed what the operators put on sale: no unit is sold twice, although
\* plans are drawn from stale copies of other stores' stocks.
NoOversell ==
  \A p \in Product :
    SumFunction([n \in Node |-> Units(stock[n], p) + UnitsPromised(n, p)])
      <= SumFunction([n \in Node |-> supply[n][p]])

\* A customer waiting for an answer gets one or sees the connection close,
\* whatever answers are late, lost or refusals and whichever links are dead
\* (connection.rs:118-183, 208-226); a task waits for ever only for the lock
\* of a D that keeps it for ever (sysctl/listener.rs:52-73).  That the lock
\* passes between the tasks of a store, and what keeps a D from its end, is
\* NodeLifecycle's.
PurchaseSettles ==
  \A k \in Conn : pc[k] # "idle" ~> (pc[k] = "idle" \/ [](home[k] \in held))

\* The atomic purchase that the stores implement.  The store that serves the
\* customer is the one whose record holds a plan; a contributor's is empty.
Owners(id) ==
  {n \in Node : id \in DOMAIN txs[n] /\ txs[n][id].involved_stock # Empty}

OwnerOf(id) == IF Owners(id) = {} THEN None ELSE CHOOSE n \in Owners(id) : TRUE

PartiesOf(id) ==
  UNION {DOMAIN txs[n][id].involved_stock \ {n} : n \in Owners(id)}

RecordAt(id, n) == IF id \in DOMAIN txs[n] THEN txs[n][id].state ELSE "Unknown"

Atomic == INSTANCE AtomicPurchase WITH
  owner <- [id \in TxId |-> OwnerOf(id)],
  parties <- [id \in TxId |-> PartiesOf(id)],
  record <- [id \in TxId |-> [n \in Node |-> RecordAt(id, n)]]

\* Every behaviour of the stores, with lost, late and dropped messages, dead
\* links, timeouts and concurrent customers, is one of the atomic purchase:
\* no purchase is partly bought, no store finishes what another cancels.
PurchasesAreAtomic == Atomic!Spec
=============================================================================
