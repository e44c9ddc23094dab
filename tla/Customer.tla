------------------------------ MODULE Customer ------------------------------
(***************************************************************************)
(* The e-commerce program (bin/ecommerce.rs).  It takes the stores of its  *)
(* list one after the other, in any order, and sends all its orders to     *)
(* each: one task per order, which share one connection behind a lock.     *)
(* Orders whose task ends with an error are repeated at the next store.    *)
(*                                                                         *)
(* tokio's Mutex is fair: `lock' is the queue of the tasks that asked for  *)
(* the connection, and its head holds it.  A task that has written asks    *)
(* for the lock again in the same poll.  The store is what `serve' in      *)
(* ecommerce/network/connection.rs is to a customer: it takes messages in  *)
(* order and answers each, or the connection ends.                         *)
(***************************************************************************)
EXTENDS Naturals, Sequences, FiniteSets, Functions

CONSTANTS
  Store,   \* the stores of the customer's list
  Orders,  \* the orders of its file
  None     \* no store, no message

Requests == {"Order", "Commit", "Cancel"}

ASSUME NoneAssumption ==
  None \notin Store /\ None \notin Requests /\ None \notin [kind : Requests, order : Orders]

VARIABLES
  phase,     \* "choosing" a store, "trading" with it, or "ended"
  ports,     \* stores that were not tried
  orders,    \* orders not done
  at,        \* the store it is connected to
  lock,      \* the tasks that asked for the connection, the holder first
  pc,        \* pc[o]: what the task of order o does
  decision,  \* decision[o]: what it told the store about its purchase
  result,    \* result[o]: how manage_purchase returned
  open,      \* the store has the connection open
  toStore,   \* messages written that the store has not read
  serving,   \* the message the store is dealing with
  toClient,  \* answers that the customer has not read
  bought,    \* history: bought[o], the stores where o was committed
  unsure     \* history: unsure[o], stores whose answer to a Commit was lost

clientVars == <<phase, ports, orders, at>>
taskVars == <<lock, pc, decision, result>>
storeVars == <<open, toStore, serving, toClient>>
vars == <<clientVars, taskVars, storeVars, bought, unsure>>

-----------------------------------------------------------------------------
Message(kind, o) == [kind |-> kind, order |-> o]

Holds(o) == lock # <<>> /\ Head(lock) = o

Release == lock' = Tail(lock)

\* The lock is released and asked for again: the task goes last.
Requeue(o) == lock' = Append(Tail(lock), o)

Goes(o, where) == pc' = [pc EXCEPT ![o] = where]

\* A task returns what manage_purchase returned.
Returns(o, r) == Goes(o, "done") /\ result' = [result EXCEPT ![o] = r]

-----------------------------------------------------------------------------
\* The main loop.

\* A store that cannot be reached is dropped from the list.
ConnectFails(s) ==
  /\ phase = "choosing" /\ orders # {} /\ s \in ports
  /\ ports' = ports \ {s}
  /\ UNCHANGED <<phase, orders, at, taskVars, storeVars, bought, unsure>>

Connect(s) ==
  /\ phase = "choosing" /\ orders # {} /\ s \in ports
  /\ ports' = ports \ {s}
  /\ at' = s /\ phase' = "trading"
  /\ pc' = [o \in Orders |-> IF o \in orders THEN "spawned" ELSE "done"]
  /\ open' = TRUE /\ toStore' = <<>> /\ serving' = None /\ toClient' = <<>>
  /\ UNCHANGED <<orders, lock, decision, result, bought, unsure>>

Joined == phase = "trading" /\ \A o \in Orders : pc[o] = "done"

\* Mutant of NextStore: all orders are tried again.
NextStoreAll ==
  /\ Joined
  /\ phase' = "choosing" /\ at' = None
  /\ open' = FALSE /\ toStore' = <<>> /\ toClient' = <<>>
  /\ decision' = [o \in Orders |-> None]
  /\ UNCHANGED <<ports, orders, lock, pc, result, serving, bought, unsure>>

\* Mutant of NextStore: the first error is enough to go on.
NextStoreAtError ==
  /\ phase = "trading" /\ \E o \in orders : pc[o] = "done" /\ result[o] = "error"
  /\ orders' = {o \in orders : result[o] = "error"}
  /\ phase' = "choosing" /\ at' = None
  /\ open' = FALSE /\ toStore' = <<>> /\ toClient' = <<>>
  /\ decision' = [o \in Orders |-> None]
  /\ UNCHANGED <<ports, lock, pc, result, serving, bought, unsure>>

\* All tasks have returned; the connection is dropped, and the orders whose
\* tasks had an error are left.
NextStore ==
  /\ Joined
  /\ orders' = {o \in orders : result[o] = "error"}
  /\ phase' = "choosing" /\ at' = None
  /\ open' = FALSE /\ toStore' = <<>> /\ toClient' = <<>>
  /\ decision' = [o \in Orders |-> None]
  /\ UNCHANGED <<ports, lock, pc, result, serving, bought, unsure>>

Finish ==
  /\ phase = "choosing" /\ (ports = {} \/ orders = {})
  /\ phase' = "ended"
  /\ UNCHANGED <<ports, orders, at, taskVars, storeVars, bought, unsure>>

-----------------------------------------------------------------------------
\* manage_purchase.

Start(o) ==
  /\ pc[o] = "spawned"
  /\ Goes(o, "order")
  /\ lock' = Append(lock, o)
  /\ UNCHANGED <<clientVars, decision, result, storeVars, bought, unsure>>

\* What is written to a connection that the store has closed is lost.
Write(o, msg) ==
  /\ Holds(o)
  /\ toStore' = IF open THEN Append(toStore, msg) ELSE toStore
  /\ Requeue(o)
  /\ UNCHANGED <<clientVars, decision, result, open, serving, toClient, bought, unsure>>

WriteOrder(o) ==
  pc[o] = "order" /\ Goes(o, "answer") /\ Write(o, Message("Order", o))

WriteDecision(o) ==
  pc[o] = "decide" /\ Goes(o, "outcome") /\ Write(o, Message(decision[o], o))

WriteFails(o) ==
  /\ pc[o] \in {"order", "decide"} /\ Holds(o)
  /\ ~open
  /\ Returns(o, "error")
  /\ Release
  /\ UNCHANGED <<clientVars, decision, storeVars, bought, unsure>>

Answer == Head(toClient).kind

\* One random number in ten cancels a purchase that the store has confirmed.
Decide(o, d) ==
  /\ Goes(o, "decide")
  /\ decision' = [decision EXCEPT ![o] = d]
  /\ Requeue(o)
  /\ UNCHANGED result

\* Mutant of ReadAnswer: reading does not need the lock.
ReadAnswerUnlocked(o) ==
  /\ pc[o] = "answer" /\ toClient # <<>>
  /\ toClient' = Tail(toClient)
  /\ \/ /\ Answer = "Confirm"
        /\ Goes(o, "decide")
        /\ \E d \in {"Commit", "Cancel"} : decision' = [decision EXCEPT ![o] = d]
        /\ lock' = Append(SelectSeq(lock, LAMBDA x : x # o), o)
        /\ UNCHANGED result
     \/ /\ Answer # "Confirm"
        /\ Returns(o, IF Answer = "Commit" THEN "bought" ELSE "cancelled")
        /\ lock' = SelectSeq(lock, LAMBDA x : x # o)
        /\ UNCHANGED decision
  /\ UNCHANGED <<clientVars, open, toStore, serving, bought, unsure>>

\* The answer to an order.  The lock is held until it is there.
ReadAnswer(o) ==
  /\ pc[o] = "answer" /\ Holds(o) /\ toClient # <<>>
  /\ toClient' = Tail(toClient)
  /\ \/ Answer = "Confirm" /\ \E d \in {"Commit", "Cancel"} : Decide(o, d)
     \/ /\ Answer # "Confirm"
        /\ Returns(o, IF Answer = "Commit" THEN "bought" ELSE "cancelled")
        /\ Release
        /\ UNCHANGED decision
  /\ UNCHANGED <<clientVars, open, toStore, serving, bought, unsure>>

\* The answer to a decision.
ReadOutcome(o) ==
  /\ pc[o] = "outcome" /\ Holds(o) /\ toClient # <<>>
  /\ toClient' = Tail(toClient)
  /\ Returns(o, IF Answer = "Commit" THEN "bought" ELSE "cancelled")
  /\ Release
  /\ UNCHANGED <<clientVars, decision, open, toStore, serving, bought, unsure>>

\* Mutant of ReadFails: the end of the stream is noticed while ordering only.
ReadFailsUndecided(o) ==
  /\ pc[o] = "answer" /\ Holds(o)
  /\ ~open /\ toClient = <<>>
  /\ Returns(o, "error")
  /\ Release
  /\ UNCHANGED <<clientVars, decision, storeVars, bought, unsure>>

\* The store has closed the connection.
ReadFails(o) ==
  /\ pc[o] \in {"answer", "outcome"} /\ Holds(o)
  /\ ~open /\ toClient = <<>>
  /\ Returns(o, "error")
  /\ Release
  /\ unsure' = IF decision[o] = "Commit"
               THEN [unsure EXCEPT ![o] = @ \cup {at}] ELSE unsure
  /\ UNCHANGED <<clientVars, decision, storeVars, bought>>

-----------------------------------------------------------------------------
\* The store, as its customer sees it (PurchaseNetwork has the rest).

\* A Commit is recorded by the actor before anything else is tried.
Take ==
  /\ open /\ serving = None /\ toStore # <<>>
  /\ serving' = Head(toStore)
  /\ toStore' = Tail(toStore)
  /\ bought' = IF Head(toStore).kind = "Commit"
               THEN [bought EXCEPT ![Head(toStore).order] = @ \cup {at}] ELSE bought
  /\ UNCHANGED <<clientVars, taskVars, open, toClient, unsure>>

Reply ==
  /\ open /\ serving # None
  /\ \E kind \in IF serving.kind = "Order" THEN {"Confirm", "Cancel"} ELSE {serving.kind} :
       toClient' = Append(toClient, Message(kind, serving.order))
  /\ serving' = None
  /\ UNCHANGED <<clientVars, taskVars, open, toStore, bought, unsure>>

\* The task serving the connection ends, with an error of the purchase it is
\* working on or because the store goes down: what it has not read or not
\* answered is lost, and answers on their way may be.
StoreCloses ==
  /\ open /\ phase = "trading"
  /\ open' = FALSE /\ serving' = None /\ toStore' = <<>>
  /\ \E i \in 0 .. Len(toClient) : toClient' = SubSeq(toClient, 1, i)
  /\ UNCHANGED <<clientVars, taskVars, bought, unsure>>

-----------------------------------------------------------------------------

Init ==
  /\ phase = "choosing" /\ ports = Store /\ orders = Orders /\ at = None
  /\ lock = <<>> /\ pc = [o \in Orders |-> "done"]
  /\ decision = [o \in Orders |-> None] /\ result = [o \in Orders |-> "error"]
  /\ open = FALSE /\ toStore = <<>> /\ serving = None /\ toClient = <<>>
  /\ bought = [o \in Orders |-> {}] /\ unsure = [o \in Orders |-> {}]

Main == NextStore \/ Finish \/ \E s \in Store : Connect(s) \/ ConnectFails(s)

Task(o) ==
  \/ Start(o) \/ WriteOrder(o) \/ WriteDecision(o) \/ WriteFails(o)
  \/ ReadAnswer(o) \/ ReadOutcome(o) \/ ReadFails(o)

Serve == Take \/ Reply

Next == Main \/ (\E o \in Orders : Task(o)) \/ Serve \/ StoreCloses

Spec == Init /\ [][Next]_vars

\* The runtime runs the customer's tasks.  The store owes nothing: it may
\* neither answer nor close, as one whose D waits for itself.
FairSpec == Spec /\ WF_vars(Main) /\ \A o \in Orders : WF_vars(Task(o))
-----------------------------------------------------------------------------
\* Properties.

IsMessage(msg, kinds) == msg.kind \in kinds /\ msg.order \in Orders

\* The fields have their types, and a task is in the lock's queue, once,
\* exactly while it reads or writes.
TypeOK ==
  /\ phase \in {"choosing", "trading", "ended"}
  /\ ports \subseteq Store /\ orders \subseteq Orders /\ at \in Store \cup {None}
  /\ lock \in Seq(Orders)
  /\ pc \in [Orders -> {"spawned", "order", "answer", "decide", "outcome", "done"}]
  /\ \A o \in Orders :
       pc[o] \notin {"spawned", "done"} <=> Cardinality({i \in DOMAIN lock : lock[i] = o}) = 1
  /\ decision \in [Orders -> {"Commit", "Cancel", None}]
  /\ result \in [Orders -> {"error", "bought", "cancelled"}]
  /\ open \in BOOLEAN
  /\ \A i \in DOMAIN toStore : IsMessage(toStore[i], Requests)
  /\ serving # None => IsMessage(serving, Requests)
  /\ \A i \in DOMAIN toClient : IsMessage(toClient[i], {"Confirm", "Commit", "Cancel"})
  /\ bought \in [Orders -> SUBSET Store] /\ unsure \in [Orders -> SUBSET Store]

\* The tasks that wait for an answer.
Reading == {o \in Orders : pc[o] \in {"answer", "outcome"}}

\* The messages the customer has no answer to, in the order of the answers.
Expected ==
  toClient \o (IF serving = None THEN <<>> ELSE <<serving>>) \o toStore

Ahead(s, o, q) == \E i, j \in DOMAIN s : i < j /\ s[i] = o /\ s[j] = q

\* Answers carry no mark of the order they are for, yet each task reads its
\* own: one answer at most is on its way to a task that waits for one, and the
\* answers come in the order in which those tasks get the lock, so that none
\* gets it before one whose answer is not to come
\* (bin/ecommerce.rs:93-106, connection.rs:254-275).
AnswersInOrder ==
  LET to == [i \in DOMAIN Expected |-> Expected[i].order] IN
  /\ IsInjective(to)
  /\ Range(to) \subseteq Reading
  /\ \A o, q \in Reading :
       Ahead(lock, o, q) /\ q \in Range(to) => Ahead(to, o, q)

\* What the customer takes a purchase for is what it is: a purchase that is
\* reported as completed was committed; an order is committed twice, or
\* committed and reported as cancelled, only if the connection to the first
\* store ended before its answer to the Commit (bin/ecommerce.rs:53-70).
ReportsAreTrue ==
  \A o \in Orders :
    /\ Cardinality(bought[o] \ unsure[o]) <= 1
    /\ result[o] = "bought" => bought[o] \ unsure[o] # {}
    /\ result[o] = "cancelled" => bought[o] \subseteq unsure[o]

\* The store has a message of the customer that it has not answered.
Owes == open /\ (serving # None \/ toStore # <<>>)

\* The program ends, whichever stores close the connection, and when: but for
\* a store that keeps the connection open and a message unanswered for ever,
\* since no read has a timeout (bin/ecommerce.rs:93-106), the tasks that share
\* the lock and the connection never wait for each other.
Ends == <>(phase = "ended") \/ <>[]Owes
=============================================================================
