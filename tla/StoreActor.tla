----------------------------- MODULE StoreActor -----------------------------
(***************************************************************************)
(* The actor that owns the stock of one store (ecommerce/purchases/        *)
(* store.rs).  Every change of a store's stock, of its transactions and of *)
(* what it believes of the other stores is one message in the actor's      *)
(* mailbox; a handler runs to its end before the next message is taken, so *)
(* each handler is one action.  All variables are indexed by the store     *)
(* whose actor they belong to.                                             *)
(*                                                                         *)
(* The code keeps the store's own record and its record of each peer in    *)
(* one HashMap, `stores'; here the own record is `stock' and `txs' and the *)
(* others are `peers'.  The transactions a peer announces are never read   *)
(* and are left out.                                                       *)
(***************************************************************************)
EXTENDS Naturals, Sequences, FiniteSets, Functions

CONSTANTS
  Node,         \* the stores (StoreID)
  Product,      \* product ids
  TxId,         \* request ids the random generator may return
  Qty,          \* quantities that orders and added stock may carry
  LocalOrders,  \* batches of orders the operator may sell (`O' and `F')
  MaxSupply     \* MaxSupply[n]: bound on the units of a product put on sale in n

Order == [product : Product, qty : Qty]

ASSUME NodeAssumption == IsFiniteSet(Node)
ASSUME QtyAssumption == Qty \subseteq Nat
ASSUME LocalOrdersAssumption == LocalOrders \subseteq Seq(Order)
ASSUME MaxSupplyAssumption == MaxSupply \in [Node -> Nat]

VARIABLES
  stock,   \* stock[n]: the HashMap product -> quantity that n owns
  txs,     \* txs[n]: the HashMap request id -> transaction of n
  peers,   \* peers[n]: the HashMap store id -> what n believes of that store
  alive,   \* alive[n]: n's actor has not panicked
  supply   \* history: units the operator of n added, less those n sold itself

storeVars == <<stock, txs, peers, alive, supply>>

-----------------------------------------------------------------------------
\* Hash maps: functions whose domain is the set of keys.

HashMap(K, V) == UNION {[S -> V] : S \in SUBSET K}

Empty == [x \in {} |-> x]

Insert(map, key, value) ==
  [x \in DOMAIN map \cup {key} |-> IF x = key THEN value ELSE map[x]]

IsStock(s) == DOMAIN s \subseteq Product /\ s \in [DOMAIN s -> Nat]

\* involved_stock, the plan of a purchase: the share each store contributes.
IsPlan(plan) ==
  /\ DOMAIN plan \subseteq Node
  /\ plan = [m \in DOMAIN plan |-> plan[m]]
  /\ \A m \in DOMAIN plan : IsStock(plan[m])

TransactionState ==
  {"Cancelled", "AwaitingConfirmation", "NodeConfirmed", "Finalized"}

Transaction(s, plan) == [state |-> s, involved_stock |-> plan]

IsTransaction(t) ==
  /\ t = Transaction(t.state, t.involved_stock)
  /\ t.state \in TransactionState
  /\ IsPlan(t.involved_stock)

StoreInformation(s, online) == [stock |-> s, is_online |-> online]

IsStoreInformation(i) ==
  /\ i = StoreInformation(i.stock, i.is_online)
  /\ IsStock(i.stock)
  /\ i.is_online \in BOOLEAN

Share(plan, m) == IF m \in DOMAIN plan THEN plan[m] ELSE Empty

One(p, q) == [x \in {p} |-> q]

\* s holds every quantity of d.
Covers(s, d) == \A p \in DOMAIN d : p \in DOMAIN s /\ d[p] <= s[p]

Take(s, d) == [p \in DOMAIN s |-> IF p \in DOMAIN d THEN s[p] - d[p] ELSE s[p]]

Give(s, d) == [p \in DOMAIN s |-> IF p \in DOMAIN d THEN s[p] + d[p] ELSE s[p]]

-----------------------------------------------------------------------------
\* The plan of a purchase.

Online(n) == {m \in DOMAIN peers[n] : peers[n][m].is_online}

CoveredLocally(n, p, q) == p \in DOMAIN stock[n] /\ q <= stock[n][p]

\* Mutant of Shortfall: the peer is asked for the whole order.
WholeOrder(n, p, q) == q

\* What n still needs once it has used all it has.
Shortfall(n, p, q) == IF p \in DOMAIN stock[n] THEN q - stock[n][p] ELSE q

\* Stores that, as far as n knows, can supply the whole shortfall.
Suppliers(n, p, q) ==
  {m \in Online(n) : Covers(peers[n][m].stock, One(p, Shortfall(n, p, q)))}

\* Every store that is online gets an entry in the plan, and so does n when
\* it knows the product; all but the supplier's and n's are empty.
RemotePlan(n, p, q, supplier) ==
  [m \in Online(n) \cup {x \in {n} : p \in DOMAIN stock[n]} |->
     IF m = supplier THEN One(p, Shortfall(n, p, q))
     ELSE IF m = n /\ stock[n][p] # 0 THEN One(p, stock[n][p])
     ELSE Empty]

\* The plans n may choose; the supplier is the first that fits in the
\* iteration order of a HashMap, that is any one.
Plans(n, p, q) ==
  IF CoveredLocally(n, p, q)
  THEN { One(n, One(p, q)) }
  ELSE { RemotePlan(n, p, q, m) : m \in Suppliers(n, p, q) }

-----------------------------------------------------------------------------
\* The handlers.

\* n's beliefs after d was taken from (or given back to) each store of plan.
TakeFromPeers(n, plan) ==
  [m \in DOMAIN peers[n] |->
     StoreInformation(Take(peers[n][m].stock, Share(plan, m)),
                      peers[n][m].is_online)]

GiveToPeers(n, plan) ==
  [m \in DOMAIN peers[n] |->
     StoreInformation(Give(peers[n][m].stock, Share(plan, m)),
                      peers[n][m].is_online)]

\* Mutant of Request: the copy whose stock was reduced is not stored.
RequestNotStored(n, id, p, q) ==
  /\ alive[n]
  /\ \E plan \in Plans(n, p, q) :
       /\ peers' = [peers EXCEPT ![n] = TakeFromPeers(n, plan)]
       /\ txs' = [txs EXCEPT ![n] =
                    Insert(@, id, Transaction("AwaitingConfirmation", plan))]
  /\ UNCHANGED <<stock, alive, supply>>

\* Request: a purchase of q units of p for a customer of n.  The accepted
\* plan is recorded and its own share leaves the stock; the caller gets it.
\* Without a plan the handler answers Cancelled and changes nothing.
Request(n, id, p, q) ==
  /\ alive[n]
  /\ \E plan \in Plans(n, p, q) :
       /\ stock' = [stock EXCEPT ![n] = Take(@, Share(plan, n))]
       /\ peers' = [peers EXCEPT ![n] = TakeFromPeers(n, plan)]
       /\ txs' = [txs EXCEPT ![n] =
                    Insert(@, id, Transaction("AwaitingConfirmation", plan))]
  /\ UNCHANGED <<alive, supply>>

\* Mutants of AskAccepted: the share is not checked; it is not taken.
AskUnchecked(n, id, d) ==
  /\ alive[n]
  /\ stock' = [stock EXCEPT ![n] = Take(@, d)]
  /\ txs' = [txs EXCEPT ![n] =
               Insert(@, id, Transaction("AwaitingConfirmation", Empty))]
  /\ UNCHANGED <<peers, alive, supply>>

AskNotStored(n, id, d) ==
  /\ alive[n]
  /\ Covers(stock[n], d)
  /\ txs' = [txs EXCEPT ![n] =
               Insert(@, id, Transaction("AwaitingConfirmation", Empty))]
  /\ UNCHANGED <<stock, peers, alive, supply>>

\* Ask: another store wants the share d for purchase id.  All of it or
\* nothing; the recorded transaction does not say what was taken.
AskAccepted(n, id, d) ==
  /\ alive[n]
  /\ Covers(stock[n], d)
  /\ stock' = [stock EXCEPT ![n] = Take(@, d)]
  /\ txs' = [txs EXCEPT ![n] =
               Insert(@, id, Transaction("AwaitingConfirmation", Empty))]
  /\ UNCHANGED <<peers, alive, supply>>

AskRefused(n, d) ==
  /\ alive[n]
  /\ ~Covers(stock[n], d)
  /\ UNCHANGED storeVars

\* The transaction map of n once id, if n knows it, is in state s.
Marked(n, id, s) ==
  IF id \in DOMAIN txs[n]
  THEN [txs EXCEPT ![n] =
          Insert(@, id, Transaction(s, txs[n][id].involved_stock))]
  ELSE txs

Confirm(n, id) ==
  /\ alive[n]
  /\ txs' = Marked(n, id, "NodeConfirmed")
  /\ UNCHANGED <<stock, peers, alive, supply>>

Commit(n, id) ==
  /\ alive[n]
  /\ txs' = Marked(n, id, "Finalized")
  /\ UNCHANGED <<stock, peers, alive, supply>>

\* Cancelling indexes the current stock of every store of the plan it knows:
\* a product that is missing there panics.
Indexable(n, id) ==
  LET plan == txs[n][id].involved_stock IN
  /\ DOMAIN Share(plan, n) \subseteq DOMAIN stock[n]
  /\ \A m \in DOMAIN peers[n] :
       DOMAIN Share(plan, m) \subseteq DOMAIN peers[n][m].stock

\* Mutant of CancelKnown: every cancellation gives n's own share back.
CancelGivesBack(n, id) ==
  /\ alive[n]
  /\ id \in DOMAIN txs[n]
  /\ Indexable(n, id)
  /\ stock' = [stock EXCEPT ![n] = Give(@, Share(txs[n][id].involved_stock, n))]
  /\ peers' = [peers EXCEPT ![n] = GiveToPeers(n, txs[n][id].involved_stock)]
  /\ txs' = Marked(n, id, "Cancelled")
  /\ UNCHANGED <<alive, supply>>

\* Cancel: the shares go back to n's record of each store, but n's own record
\* is then replaced by the copy made when the handler started, so that the
\* units n gave itself back are lost.
CancelKnown(n, id) ==
  /\ alive[n]
  /\ id \in DOMAIN txs[n]
  /\ Indexable(n, id)
  /\ peers' = [peers EXCEPT ![n] = GiveToPeers(n, txs[n][id].involved_stock)]
  /\ txs' = Marked(n, id, "Cancelled")
  /\ UNCHANGED <<stock, alive, supply>>

CancelUnknown(n, id) ==
  /\ alive[n]
  /\ id \notin DOMAIN txs[n]
  /\ UNCHANGED storeVars

CancelPanics(n, id) ==
  /\ alive[n]
  /\ id \in DOMAIN txs[n]
  /\ ~Indexable(n, id)
  /\ alive' = [alive EXCEPT ![n] = FALSE]
  /\ UNCHANGED <<stock, txs, peers, supply>>

Cancel(n, id) == CancelKnown(n, id) \/ CancelUnknown(n, id) \/ CancelPanics(n, id)

\* LocalRequest: the operator sells a batch of orders.  Each order is checked
\* alone against the stock; the quantities are then kept by product, where a
\* later order of the same product replaces an earlier one.
Sellable(s, orders) ==
  \A i \in DOMAIN orders : Covers(s, One(orders[i].product, orders[i].qty))

LastWins(orders, d) ==
  \A p \in DOMAIN d : \E i \in DOMAIN orders :
    /\ orders[i] = [product |-> p, qty |-> d[p]]
    /\ \A j \in DOMAIN orders : j > i => orders[j].product # p

LocalRequest(n, orders) ==
  /\ alive[n]
  /\ Sellable(stock[n], orders)
  /\ \E d \in [{orders[i].product : i \in DOMAIN orders} -> Qty] :
       /\ LastWins(orders, d)
       /\ stock' = [stock EXCEPT ![n] = Take(@, d)]
       /\ supply' = [supply EXCEPT ![n] = Take(@, d)]
  /\ UNCHANGED <<txs, peers, alive>>

\* AddStock: the operator puts q more units of p on sale.  MaxSupply bounds
\* how many; the code's bound is that of a u64.
AddStock(n, p, q) ==
  /\ alive[n]
  /\ supply[n][p] + q <= MaxSupply[n]
  /\ stock' = [stock EXCEPT ![n] =
                 Insert(@, p, (IF p \in DOMAIN @ THEN @[p] ELSE 0) + q)]
  /\ supply' = [supply EXCEPT ![n][p] = @ + q]
  /\ UNCHANGED <<txs, peers, alive>>

\* Update: store m announced its stock, which replaces what n believed.
Update(n, m, s) ==
  /\ alive[n]
  /\ peers' = [peers EXCEPT ![n] = Insert(@, m, StoreInformation(s, TRUE))]
  /\ UNCHANGED <<stock, txs, alive, supply>>

\* Shutdown: the connection with m ended.
Shutdown(n, m) ==
  /\ alive[n]
  /\ peers' = IF m \in DOMAIN peers[n]
              THEN [peers EXCEPT ![n] =
                      Insert(@, m, StoreInformation(@[m].stock, FALSE))]
              ELSE peers
  /\ UNCHANGED <<stock, txs, alive, supply>>

-----------------------------------------------------------------------------
\* One actor in an open environment: any message may arrive at any time, so a
\* purchase may be confirmed, committed and cancelled in any order and more
\* than once.  Ids are fresh, as random 128-bit numbers are taken to be.

StoreInit ==
  /\ stock = [n \in Node |-> Empty]
  /\ txs = [n \in Node |-> Empty]
  /\ peers = [n \in Node |-> Empty]
  /\ alive = [n \in Node |-> TRUE]
  /\ supply = [n \in Node |-> [p \in Product |-> 0]]

Announced == HashMap(Product, Qty)

StoreStep(n) ==
  \/ \E p \in Product, q \in Qty : AddStock(n, p, q)
  \/ \E orders \in LocalOrders : LocalRequest(n, orders)
  \/ \E m \in Node \ {n}, s \in Announced : Update(n, m, s)
  \/ \E m \in Node \ {n} : Shutdown(n, m)
  \/ \E id \in TxId, p \in Product, q \in Qty :
       id \notin DOMAIN txs[n] /\ Request(n, id, p, q)
  \/ \E id \in TxId, d \in Announced :
       id \notin DOMAIN txs[n] /\ AskAccepted(n, id, d)
  \/ \E d \in Announced : AskRefused(n, d)
  \/ \E id \in TxId : Confirm(n, id)
  \/ \E id \in TxId : Commit(n, id)
  \/ \E id \in TxId : Cancel(n, id)

StoreNext == \E n \in Node : StoreStep(n)

StoreSpec == StoreInit /\ [][StoreNext]_storeVars

-----------------------------------------------------------------------------
\* Properties.

\* Every variable has the type of the Rust field it stands for; quantities
\* are unsigned, so a step that made one negative would be an underflow.
StoreTypeOK ==
  /\ DOMAIN stock = Node /\ \A n \in Node : IsStock(stock[n])
  /\ DOMAIN txs = Node
  /\ \A n \in Node : /\ DOMAIN txs[n] \subseteq TxId
                     /\ \A id \in DOMAIN txs[n] : IsTransaction(txs[n][id])
  /\ DOMAIN peers = Node
  /\ \A n \in Node : /\ DOMAIN peers[n] \subseteq Node \ {n}
                     /\ \A m \in DOMAIN peers[n] : IsStoreInformation(peers[n][m])
  /\ alive \in [Node -> BOOLEAN]
  /\ supply \in [Node -> [Product -> Nat]]

\* No sequence of messages, repeated or contradictory ones included, makes a
\* store hold more of a product than its operator put on sale and has not
\* sold: a unit handed back twice would show here.
StockWithinSupply ==
  \A n \in Node : \A p \in DOMAIN stock[n] : stock[n][p] <= supply[n][p]

Units(s, p) == IF p \in DOMAIN s THEN s[p] ELSE 0

\* Units of p that n's own purchases took from n and have not been cancelled.
UnitsHeld(n, p) ==
  LET held == {id \in DOMAIN txs[n] : txs[n][id].state # "Cancelled"} IN
  SumFunctionOnSet(
    [id \in held |-> Units(Share(txs[n][id].involved_stock, n), p)], held)

\* What a store still has and what its own live purchases hold never exceed
\* what its operator put on sale, whatever order the confirmations, commits
\* and cancellations of those purchases came in: no unit is promised twice.
NoUnitPromisedTwice ==
  \A n \in Node, p \in Product :
    Units(stock[n], p) + UnitsHeld(n, p) <= supply[n][p]

\* A plan for q units is for q units in all, uses up the store's own stock
\* before any peer's, and asks no peer for more than it is believed to have
\* (store.rs:139-229).
PlanServesOrder ==
  \A n \in Node, p \in Product, q \in Qty : \A plan \in Plans(n, p, q) :
    /\ SumFunction([m \in DOMAIN plan |-> Units(plan[m], p)]) = q
    /\ \A m \in DOMAIN plan \ {n} :
         /\ Covers(peers[n][m].stock, plan[m])
         /\ Units(plan[m], p) > 0 => Units(Share(plan, n), p) = Units(stock[n], p)
=============================================================================
