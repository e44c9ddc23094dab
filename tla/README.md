# Rust-Stock-Management in TLA+

A network of stores (`bin/local.rs`) that sell their stock over the counter and
to e-commerce customers (`bin/ecommerce.rs`), and use each other's stock when
their own does not suffice. Paths below are relative to `src/src/` unless they
begin with `README`.

## 1. The system

| Component | State | Operations | Talks to |
|---|---|---|---|
| Store actor, `ecommerce/purchases/store.rs` | per store: stock, transactions, online flag; of itself and of each peer | `Update`, `Request`, `Ask`, `Confirm`, `Commit`, `Cancel`, `LocalRequest`, `AddStock`, `CurrentState`, `Shutdown`, one mailbox, one message at a time | answers whoever sent the message |
| Customer's connection, `ecommerce/network/connection.rs` | one task per connection: the purchase it works on | read an order or a decision; plan, ask, confirm or cancel, notify, answer | the actor (messages), the `NodeListener` (a shared lock), the customer (TCP) |
| Messages between stores, `local/node_comm/node_communication.rs` | writers by store, waits for answers by correlation id, a mailbox of `PeerMessage`s | `commmunicate` (1 s timeout), `send_message`, `broadcast`; one reading task per connection, which introduces its peer (`PeerUp`) and takes leave of it (`PeerDown`) | peers (TCP), the protocol |
| Store protocol, `local/protocol/store_glue.rs`, `messages.rs` | none | network messages to actor messages, answers to `Ask` | the actor |
| Operator and updater, `ecommerce/sysctl/listener.rs` | the joined listening tasks | commands S, U, D, O, F, A; every second: read the stock, broadcast it | the actor, both listeners, the lock of the `NodeListener` |
| Listener for customers, `ecommerce/network/listen.rs` | Waiting or Listening, a cancellation token, the tasks of its customers | Start, Down, Shutdown; accept, join | the customers' tasks |
| Listener for stores, `local/node_comm/node_listener.rs` | the handle of a run, its token | connect to the list, bind, accept, restart, shutdown | `NodeCommunication`, peers |
| Customer, `bin/ecommerce.rs` | orders not done, stores not tried, one shared socket | one task per order: order, answer, decision, answer; failed orders go to another store | one store at a time |

Each program runs on actix's single-threaded runtime: tasks interleave only at
their awaits. What is hard is not data races but what happens between two awaits:
the state read before one and used after it, the lock held across one, the error
that leaves a task in the middle of a protocol through `?`, and a network
without message boundaries, acknowledgements or retries.

What makes each component correct:

* **Store actor**: quantities never underflow; no unit is handed back or promised
  twice whatever order (and however often) `Confirm`, `Commit` and `Cancel` come
  in; a plan adds up to its order and uses the own stock first; a cancellation
  gives back what was taken.
* **Connections and network together**: no unit of the network is sold twice; a
  purchase that was confirmed is reserved at every contributor; no store finishes
  what another cancels; a customer gets an answer or sees the connection close.
* **Life of a store**: a command of the operator ends; whoever is served is served
  by a listener that is up; a network that was taken down, and a program that has
  ended, leave nobody behind; the shared lock gets round.
* **Connections between stores**: a writer never outlives its connection unnoticed; a
  store is online only while there is a connection with it; both ends end; those who
  are connected get to know each other.
* **Restarts**: a store that comes back with nothing makes no unit sellable twice and
  contradicts no decision.
* **Customer**: each task reads its own answers; what is reported is what was bought;
  the program ends.

## 2. The modules

| Module | Models |
|---|---|
| `StoreActor` | the actor, one action per message; `StoreSpec` puts it in an environment that sends any message at any time |
| `PurchaseNetwork` (extends `StoreActor`) | the customers' connections, the channels between stores, the updaters and the operators; calls the actor's actions |
| `AtomicPurchase` | what a purchase promises, without stock, messages or tasks: an owner, the other stores of its plan, a record at each. `PurchaseNetwork` implements it |
| `PurchaseRestart` (extends `PurchaseNetwork`) | the same with stores that end at any point and are started again with nothing |
| `NodeLifecycle` | one store's life: operator, listener for customers, their tasks, the `NodeListener` and its lock, the updater |
| `PeerLink` | the connections between stores, end by end: coming up, introduction, loss, going down, crash, coming back |
| `Customer` | the e-commerce program and what it sees of its stores |
| `...Proofs` | theorems about the module of that name; those about `PurchaseNetwork` are in `PurchaseNetworkProofs` (types, reservations) and `PurchaseProtocolProofs` (panics, refinement, overselling), which extends it |
| `MC...` | instances for TLC |

The modules divide what they know. `PurchaseNetwork` has the purchase protocol in full and
takes connections for given but for their loss. `PeerLink` has the connections and
of the traffic only what changes who is connected. `NodeLifecycle` has the tasks, the
lock and the tokens of one store, and of a purchase only its awaits and errors.
`Customer` sees a store as something that answers in order or closes.

### StoreActor

`stock[n]` and `txs[n]` are the actor's record of itself, `peers[n]` its records of
the others (one `HashMap`, `stores`, in the code). HashMaps are functions on
their keys, quantities natural numbers. `alive[n]` becomes FALSE when a handler
indexes a missing key; `supply[n]` is a history variable for the properties.

* `Request` carries one order, as `serve` always sends. Its plan is `CoveredLocally`
  or `RemotePlan`: the whole shortfall from *one* peer, every other peer that is
  online with an empty entry. The supplier is the first that fits in the iteration
  order of a HashMap, modelled as any that fits.
* `CancelKnown` leaves `stock[n]` as it was. The code gives the units back to
  `self.stores` and then stores a clone made before that (store.rs:273, 301).
* `AskAccepted` records an *empty* plan (446), so a contributor's `Cancel` gives
  nothing back.
* `Suppliers`, `Plans` etc. are operators of the current state; the action
  chooses from them.

### PurchaseNetwork

| In the code | In the module |
|---|---|
| `serve`, between two awaits | one action: `OnOrder`, `Begin`, `Ask`, `Agree`/`Abort`, `Notify`, ... ; `pc[k]` is the await the task of connection `k` is at |
| holding the `NodeListener` lock across `commmunicate` | `pc[k] = "waiting"`; `Locked(n)` stops the other tasks and the updater of `n` |
| `commmunicate` + `get_response` | `Ask`, then `ReceiveResponse` or `Timeout`; correlation ids are unique per request and peer, so that they are the pair |
| TCP from `m` to `n` | `chan[m][n]`, a sequence; `Coalesced` drops a prefix of two or more messages (one `read` that returned them together does not parse) |
| `peers_writer` and the reading task | `linked[n]`; `LinkLost(n, m)` is the end of the reading task: what is unread is lost, the writer is removed, the peer is marked offline |
| `setup_updater` | `Snapshot`, then `Broadcast` when the lock is free |
| the command D, which joins the customers' tasks with the lock in its hand | `NetDown`, `NetIsDown`; `held` are the stores whose D waits, for ever if a task waits for that lock |
| an error through `?` | `AskFails`, `NotifyFails`, `Timeout`: the task ends (`Close`) in the middle of the protocol |

Merged into one action where nothing the model distinguishes can happen in
between: a response and its way through the queue of `PeerMessage`s; the two
messages that end a reading task (`ActorLifetime::Shutdown`, `PeerDown`); writing
to the customer and returning to the select. The operator's commands take the
lock but only to send a message to the actor, so that they are not guarded by it.
A `read` that returns part of a message (messages above 64 KiB) is not modelled.
A task whose own `Cancel` panics its actor ends with an error (`AbortPanics`,
`OnCancelPanics`). Without restarts `NeverPanics` holds, so that they are never enabled;
`PurchaseRestart` has them, and `Deserted` for a task that finds its actor gone. Of D,
`PurchaseNetwork` has what it does to the lock; the connections it closes are
`LinkLost`, the customers it sends away `Hangup`, and who keeps it waiting is the
subject of `NodeLifecycle`.

A purchase's id is a random 128-bit number: `Fresh` takes it to be one that no
store has met. A customer decides once on each purchase it was told is
confirmed, as `manage_purchase` does.

### AtomicPurchase

The refinement mapping (`Atomic` in `PurchaseNetwork`): the owner of a purchase is
the store whose record of it has a plan, `parties` are the plan's other stores,
`record` the state of the transaction at each store. Losing a message, a timeout
or a dead link are stutters: they may leave a purchase for ever in an
intermediate state, but not in a contradictory one.

### PurchaseRestart

Nothing is persisted: `Restart` empties the stock, the records, the beliefs and the tasks of a
store, and leaves what it had sent to the others in their channels. Its peers keep
their records of purchases with it; each reads on until the end of the stream
(`LinkLost`), or notices it later (`Noticed`), and only then can be connected
again (`Join`). `alive` is TRUE again. `Deserted` and `Unheard` are what becomes of
customers and messages of a store whose actor has panicked. `used` keeps ids
random: what was drawn before a restart is not drawn after it. `forgotten` is a history
variable: the pairs of a store and an id that its restarts took off record. With it
`ConfirmedUnlessRestarted` excuses that one record and not the store: a store that
restarted *before* it was asked is held to its reservation like any other.

### NodeLifecycle

| In the code | In the module |
|---|---|
| `Arc<Mutex<NodeListener>>` | `lock`, the queue of a fair mutex; its head is the holder |
| what `listen_commands` awaits | `op`: a line, the lock (the command's letter), the listening tasks (`joining` for D, with the lock; `leaving` for S, without) |
| `start_listener`, a task of its own that sends `Start` | `spawned`, then `mailbox`: U's Start can be overtaken by the next command |
| `Listener`: `current_state`, its token, `start_listening` | `state`, `cancelled`, `listening` |
| a customer's task | `pc[k]`: between messages, or waiting for the lock to learn its id, to ask the next store, to notify; `waiting` for an answer *with* the lock |
| `NodeListener::run` | `run[g]` for each run that may overlap; `current` is the one there is a handle of |

`shutdown` does not await the run (node_listener.rs:178), so runs overlap: `Bind` fails
while another has the port, and the handle of the failed run stays, so that
`is_running` is true. An error of `accept` drops the handles of the tasks (`AcceptFails`):
they are then `orphans`, which nothing cancels or joins.
A task looks at its token between two messages only (`Close`).
`Pasted` says whether commands can be typed before the last one has taken effect.

### PeerLink

An end of a connection is a tuple *(store, its run, peer, the peer's run)*: a store
connects to its list before it accepts, so that two runs have at most one
connection. `reader[e]` is the reading task of the end, `half[e]` its writer, which
travels: it is with the task until the peer is known, then in the mailbox
(`PeerUp`), then in `writer[n][m]`. When the task ends it sends `PeerDown(m)`, which
removes *whatever* writer is registered for `m`. The other end sees the end of the
stream only when both halves are dropped (`EndOfFile`). `Coalesced` loses messages
that are read together, a Hello among them; an announcement introduces a peer as well as a
Hello does (`MaybeNew`). `Down` forgets the mailbox and the table of the run, `Release` drops
what its tasks leave, `Crash` ends the program.

### Customer

`Connect` spawns a task for each order not done, `Write`/`Read...` follow `manage_purchase`.
All tasks share one connection behind a fair lock, and a task keeps it while it awaits an
answer. The store is `Take` (a Commit is recorded by the actor first), `Reply` and
`StoreCloses`, which loses what is unread and possibly answers on their way.
`unsure[o]` are the stores whose answer to a Commit was lost: without it no property
about buying twice could hold, with it the properties say exactly when it may happen.

## 3. What is checked

| Run | Instance | Checks |
|---|---|---|
| `store_actor` | the actor of n1 with two peers, 1 product, 2 purchases, quantities 1-2, supply 2 | `StoreTypeOK`, `StockWithinSupply`, `NoUnitPromisedTwice`, `PlanServesOrder` |
| `net_two` | 2 stores, a customer at each, 2 purchases of 1-2 units, one unit at each store, link fragile at both ends | `TypeOK`, `NeverPanics`, `ConfirmedIsReserved`, `NoOversell`, `PurchasesAreAtomic` |
| `net_three` | 3 stores in a star around n1, whose operators also sell, the link to n3 fragile, n1's operator gives D any number of times, fairness | `NoOversell`, `PurchasesAreAtomic`, `PurchaseSettles` |
| `atomic` | 2 purchases, 3 stores | `TypeOK`, `AllOrNothing`, `Agreement`, `RecordsOnlyAdvance` |
| `net_restart` | 2 stores that each restart once and lose their link at either end, a customer at each, 2 purchases of 1-2 units, one unit at each store | `RestartTypeOK`, `DecisionsAgree`, `ConfirmedUnlessRestarted`, `PanicsAfterRestart`, `NoOversell` |
| `life_all` | 2 customers with up to 1 other store in a purchase, every command, typed ahead too, 2 runs, accepting may fail | `TypeOK`, `ServedWhileListening`, `EndsClean`, `NetDownIsClean` |
| `life_serving` | 2 customers with up to 2 other stores in a purchase, every command, one at a time, 3 runs, fairness | `LockPasses`, `ShutdownEnds`, `OnlyWaitersKeepDown`, `NetworkUp` |
| `link_all` | 2 stores, one of which lists the other, 2 runs each, n2 may crash, n1 may lose the connection, fairness | `TypeOK`, `NoDeadWriter`, `OnlineIsConnected`, `EndsTogether` |
| `link_meets` | 2 stores that list each other, one run each, up to 3 unread messages, n2 may crash, fairness | `PeersMeet`, `EntersNetwork` |
| `customer_all` | 3 orders, 2 stores, fairness | `TypeOK`, `AnswersInOrder`, `ReportsAreTrue`, `Ends` |

Bounds. `MaxSupply` is the number of units the operator may add: one unit per store
makes stores compete, and with an order for two forces a purchase from both
stocks. `MaxQueue` = 1 lets an announcement be posted only to an empty
channel; the purchase protocol's own messages are not bounded, so that
announcements still coalesce with decisions. `TxId` bounds the purchases, `Announcer`
and `Fragile` the stores whose announcements and links are explored: the stores
are symmetric but for their customers. `net_two` has two concurrent purchases because
every hazard listed is between two actors; `net_three` has three stores because
one refusal, timeout or dead link among *two* peers is what leaves a purchase
half done. `Downer` (n1 in `net_three`, nobody elsewhere) is where D is explored; to a purchase
D is a lock that may not come back, which only `PurchaseSettles` is about. Two
customers that contend for one lock are in `life_serving` (`LockPasses`). `BoundedBelief` (`store_actor`) stops at inflated beliefs: repeating a
`Cancel` adds to what is believed of the peers without end.
In `life_*`, two customers are enough for one that holds the lock and one that waits
for it, besides the operator and the updater; `MaxPeers` is how often a task
comes back for the lock; `MaxPending` = 2 lets a command meet the Start before it.
Two runs suffice for a new one to meet an old one, `life_serving` has three, so
that U always finds one that has ended. Typed-ahead commands multiply the states, so
that `life_all` has them with one peer, and `life_serving` the second peer without them.
In `link_all`, `MaxRuns` = 2 gives an old and a new connection with one store; what a
connection is exposed to involves two stores only, since tables and mailboxes are by store. With `MaxQueue` = 1 an announcement waits for
an empty channel; 3 lets it be read together with a Hello, or two of them together
(`link_meets`). In `customer_all` a third order waits while one task reads and one writes.

Deadlock checking is off where the system may really stop: a panicked actor
(`store_actor`), a finished purchase (`atomic`), a program that has ended or whose
operator gives no command (`life_*`), stores that are down and have used up their runs
(`link_*`), a customer that is done (`customer_all`).

Fairness (`FairSpec`). Weak fairness of every task's own steps, the reading tasks, and
the updater: tokio polls every task that is ready, and the sleep in
`get_response` fires. None for customers, operators and broken links. `Timeout` is
enabled as soon as a task waits; that is an abstraction of time, under which
an answer may always come too late. None for `NetIsDown` either: a D that joins
a task which waits for its lock never returns (`life_down`), so that `PurchaseSettles` excepts
a store whose D keeps the lock for ever. `OnlyWaitersKeepDown` says that this is the only
reason a D has.

`NodeLifecycle`: weak fairness of the tasks of the store itself, timeouts included;
customers, the operator, errors and peers' answers owe nothing. Strong fairness of
`Close`: `select!` takes a random ready branch, so that a customer who always has
another message does not keep a cancelled token from being seen. `PeerLink`: weak fairness
of every task (`FairSpec`, enough for `EndsTogether`); `TimelySpec` adds strong fairness of
`Read` for `link_meets`: a task reads one message by itself again and again, and is not for
ever late by the second that separates two announcements.
`Customer`: its own tasks only. A store owes it nothing: one whose D waits for itself neither
answers nor closes, and no read of the customer has a timeout. So `Ends` says that the program
ends or that a store keeps the connection open and a message unanswered for ever (`Owes`):
nothing in the program itself, its lock, its shared connection or its repetition, keeps it
from its end.

### Where the code does something else than it says

Two of them are runs that TLC must find violated, with the quoted line in `PROJECT.json`:

* `life_down`: D joins the listening tasks with the lock of the `NodeListener` in its
  hand; a customer's task that waits for that lock is what it waits for. Nothing of the
  store goes on, S included (sysctl/listener.rs:71-73). `OnlyWaitersKeepDown` says that
  nothing else keeps a D from its end.
* `net_panic`: a store that was started again has announced an empty stock; cancelling a
  purchase with it indexes what is not there (store.rs:287) and the actor panics.
  `PanicsAfterRestart` says that nothing else makes it panic.

The others are in the models as the code has them; the properties are stated around them:

* two orders of one batch for the same product, each within the stock, are both sold; only
  the last is deducted (store.rs:325-335);
* a cancellation loses the store's own share (store.rs:273-301; the comment says "Return
  stock"), and a contributor gives nothing back (store.rs:446; README.md:56);
* after a refusal, a timeout on the next store ends the task before those that accepted
  are told (connection.rs:149), and a refused purchase is not tried again with other
  stores (connection.rs:159; README.md:54);
* a `Commit` that is read together with an announcement is lost, and nothing repeats it
  (node_communication.rs:298; README.md:56);
* U and S in one read of stdin: the Shutdown overtakes the Start, and the program waits for
  ever for a listener that nobody stops (sysctl/listener.rs:63): `ShutdownEnds` is checked
  for commands given one at a time. U right after D in one read: the new run cannot
  bind the port of the old one, fails, and counts as running (node_listener.rs:178-195): so
  is `NetworkUp`;
* after an error of `accept` the tasks already spawned are neither cancelled nor joined
  (listen.rs:126): the clean ends are clean but for these;
* two stores that start together find each other's ports closed and do not try again
  (node_listener.rs:118; README.md:29): `EntersNetwork` is about a store whose peer
  accepts already;
* the `PeerDown` of an old connection removes the writer of a new one, and ends it
  (node_communication.rs:110; README.md:31): `EntersNetwork` is checked for first runs. To
  ignore a stale `PeerDown` would not be enough: a Hello of the old connection that is
  handled late replaces the new writer just so;
* a purchase that was not confirmed is not tried at another store (bin/ecommerce.rs:122).

A consequence to keep in mind: units are *lost* by these, never duplicated. `NoOversell`
and `NoUnitPromisedTwice` hold in part because cancellation returns nothing; a
repair of `Cancel` that does not check the state it cancels from (the mutant
`CancelGivesBack`) violates `StockWithinSupply`.

## 4. What is proved

With TLAPS, for any sets of stores, products, ids and quantities.

* `StoreActorProofs`: `StoreTypes` (`StoreSpec => []StoreTypeOK`) and `StoreWithinSupply`
  (`StoreSpec => []StockWithinSupply`), from `QtyAssumption`, `LocalOrdersAssumption`,
  `MaxSupplyAssumption`. `StockWithinSupply` is not needed for the types, but the
  types alone are not enough for it: `StoreInv` is their conjunction, split into
  `TypesOfRecords` and `TypesOfUnits`, with one lemma per handler that any module
  which calls the handler can cite (`AskTypes` takes any share, as the network does).
  `UnitsPromisedOnce` (`NoUnitPromisedTwice`) and `PlansServeOrders` (`PlanServesOrder`)
  are about sums over finite sets. What they use of a sum (it is a natural number, grows with
  its terms, splits at one of them, adds termwise, two sums exchange) is proved once at the head
  of the module, from the community modules' definition by folding: a smallest set for which it
  is false has an element, and is false without it too. The stores a plan is summed over are
  finite by `NodeAssumption`, the purchases of a store because every step adds one at most
  (`UnitsInv`). `UnitsMove` says what every handler does: what leaves the stock is what a new
  record holds, or less is on sale.
* `AtomicPurchaseProofs`: `AtomicTypes`, `NothingPartly` (`AllOrNothing`),
  `PurchasesAreConsistent` (`Agreement`) and `RecordsAdvance`. `IInv` is
  `TypeOK /\ AllOrNothing /\ Agreement`: `Agreement` alone is not inductive, because
  `LearnOutcome` copies the owner's record and needs that no purchase has an outcome
  without an owner; `AllOrNothing` needs that records never go back to `Unknown`.

* `PurchaseNetworkProofs`: `NetworkTypes` (`Spec => []TypeOK`) and `ConfirmedReserved`
  (`Spec => []ConfirmedIsReserved`), for any stores, links and customers, from the
  assumptions above, `HomeAssumption`, `NoneAssumption`, `LinksAssumption` and `DownerAssumption`.
  A D changes nothing that the invariants are about (`StandsStill`), and a task that ends before its
  time, be it by its own actor's panic, leaves records and channels alone (`LeavesOff`).
  *Types* need to know who may speak of a purchase: accepting an `Ask` replaces
  the record of that id (store.rs:444-449), and if this could happen at the store
  that planned it, a task would find its plan gone. So `TypeInv` adds that a purchase
  has one owner (`OneOwner`, from fresh ids), that nobody else sends `Ask`s and
  decisions about it (`OthersSilent`), and that a task works on what its store
  owns (`TaskOwns`). Fresh ids are `PlansNews`, that nothing on its way is about the purchase: without
  restarts from `OwnerSpeaks`, that whatever is spoken of has an owner. Then a plan on record is never replaced (`PlansKept`), which is
  all that later steps need of the stores.
  *Reservations* follow an answer back to its cause: an answer Confirm in a channel,
  however late, means that its sender has the purchase on record (`AnswersHold`);
  a task that no store has refused knows the same of every store of the plan it
  does not have to ask any more (`TaskKnows`), and records are never removed. All of it is
  stated with a set `lost` of records that are excused, pairs of a store and a purchase, empty
  here (see `PurchaseRestartProofs`).
  Each action has one lemma for types and one for reservations; the lemmas under
  *Frames* say what a step has to leave alone for the invariants to carry over.

* `PurchaseProtocolProofs`: `NobodyPanics` (`NeverPanics`), `StoresImplementAtomic` (the
  refinement, `PurchasesAreAtomic`) and `NothingOversold` (`NoOversell`), from the same
  assumptions and `NodeAssumption`. The inductive invariant is built in layers, each of which
  rests on those before it:
  * `CancelInv`: `Cancel` indexes the products of a plan in what is believed of its stores.
    Nothing is ever taken off sale, and channels keep their order whatever is lost of them
    (`Shifted`), so that belief, announcements on the way, what the updater has read and the stock
    itself only gain products in this order. That is why nobody panics.
  * `HandlersInv`: a purchase is in the hands of one task, whose place in the code is the state its
    store has on record; once the task lets go of it the record never changes again.
  * `AgreementInv`: whatever a contributor has on record or is being told is backed by the record
    of the owner, and a `Confirm` is heard before the outcome or not at all.
  * `AsksInv`: a store is asked once, while the owner waits, and a refusal on its way, or taken by
    the task, is of a store that has nothing on record: an owner that aborts does so
    because somebody did not reserve.
  * `TakenInv`: what a store took for a purchase is its share in the *owner's* plan. Contributors
    record an empty plan (store.rs:446), so that only this, and `OneOwner`, says that what is promised
    at one store was taken at all of its plan. The purchases that a store took units for are its
    `Ledger`, those on record there (or in `lost`, see below); its stock and the sum of its shares
    over the ledger are within its supply (`Balanced`). What a store is asked for is its share of the
    plan, if the plan is still known (`AsksFit`). This layer rests on the types and
    reservations only, not on `AgreementInv` and `AsksInv`. `SoldOnce` exchanges the sum over
    purchases and stores.

  The simulation has one lemma for each step of `AtomicPurchase` and its causes; losses, timeouts,
  announcements and dead links map to stutters.
* `NodeLifecycleProofs`: `LifecycleTypes`, `ServedOnlyWhileListening`, `ShutdownIsClean` and
  `NetDownClean`, for any customers, runs, commands and bounds. `IInv` is *Fields* (the types
  but for the queue, and what keeps the countdown of peers above zero), *Queue* (the
  lock's queue is exactly those who wait, each once, which is part of `TypeOK`, and a D
  that joins is its head), *Tasks* (the
  Listener is Waiting exactly when no `start_listening` runs, which then has no tasks, and
  who is served is one of its tasks or an orphan) and *Ended*. The queue is what
  `EndsClean` needs: nobody that waits means an empty queue. One lemma for each thing that
  is done to a queue (enqueue, release, requeue, nothing).
* `PeerLinkProofs`: `LinkTypes`, `NoDeadWriters`, `OnlineAreConnected`, for any stores, lists,
  runs, crashes and lost connections. `IInv` is *Fields*, *Once* (a connection is made
  once: an end has no task before both runs, nor while the store that
  connects has still to try the other), `OnlineIsConnected` and *Followed*: wherever
  a writer is that was handed over, in the mailbox or in the table, if its reading task
  has ended the `PeerDown` for its store is behind it. No writer is in both places or
  twice in one, which is what keeps the handling of one message from dropping a
  writer that is still on its way.

* `CustomerProofs`: `TasksReadTheirOwn` (`AnswersInOrder`), `CustomerTypes` and `CustomerKnows`
  (`ReportsAreTrue`), for any stores and orders, from `NoneAssumption`. `ShareInv` relates the
  lock's queue to the messages: while the store listens, exactly the tasks that wait for an answer
  have one to come (`AnswersCome`), in the order in which they queue; a task that writes goes last
  in both, one that reads is first in both. The lemmas about it are about values (`InOrder`
  of a queue, a set of readers and a sequence of answers), one for each thing that happens to
  them. `ReportInv` follows what a message says and whether a Commit is on record from the
  task to the store and back (`Carried`), which needs that no two messages are about one order.
  `AnswersInOrder` speaks of positions, where one would select the readers from the
  queue: the provers do not expand `SelectSeq`.

* `PurchaseRestartProofs`: `RestartTypes` (`RestartTypeOK`), `PromisesOutlive`
  (`ConfirmedUnlessRestarted`), `OnlyRestartsPanic` (`PanicsAfterRestart`), `RestartsAgree`
  (`DecisionsAgree`) and `RestartsSellOnce` (`NoOversell`), for any number of stores that restart, from the assumptions of
  `PurchaseNetworkProofs`, `NodeAssumption` and `MaxRestartsAssumption`. No invariant of the
  network survives a restart as it is: an owner forgets its purchase while messages about it
  go on, and a contributor its reservation. So `TypeInv` only says that nobody *else* speaks of
  a purchase that has an owner (`OthersSilent`); that a purchase spoken of has one (`OwnerSpeaks`)
  is a conjunct of its own, for a network without restarts. `CancelInv(gone)` holds of all stores but
  those of `gone`, and `RestartInv` asks for it for *every* set that contains the stores that
  restarted so far: at a restart that set grows, and what is asked for is asked of fewer sets. The
  lemmas about the steps of the network are the same as without restarts, where `gone` is empty.
  Reservations and units taken cannot be excused by store: a store that came back has taken
  nothing that it knows of, while customers were promised what it took, and it may reserve and
  take again. `LedgerInv` says that `ReserveInv(lost)` and `TakenInv(lost)` hold of the history
  variable `forgotten`, the records that restarts have lost. At a restart all records of the store
  move there (`Loses`), so that its ledger is the same before and after; its stock is empty and
  the plans that it owned are forgotten, so that shares only shrink (`ForgetsTaken`).
  `UsedInv` (ids on record or on their way were drawn) is what makes a new purchase new although
  its id may be on record nowhere: no forgotten record is about it either.
  For `DecisionsAgree` the layers `HandlersInv` and `AgreementInv` are of no use, as both compare
  with the owner's record, which may be lost. `DecideOnce` does without it: of no purchase are
  both verdicts *seen*, on record, in a channel or at a task; none is seen of one that a task may
  still decide on (`Undecided`), and two tasks never handle the same. A step sees at
  most one new verdict (`OnlySeen`), that of the task which then can decide no more.

Only model-checked: liveness (outside the prover's reach, as is `ENABLED`). Every invariant that a
passing run checks is stated by a theorem.

## 5. Not modelled, and the plan

Left out for good:

* parsing of commands, arguments, orders and messages, reading the order file (pure conversions with unit
  tests), logging;
* the transactions a peer announces (stored, never read);
* the queue of 256 `PeerMessage`s as a bound, and the backpressure of TCP: both stop a task only as
  long as the actor or the peer is slow;
* a `read` that returns part of a message (messages above 64 KiB);
* the width of quantities (u64): sums stay far below 2^64 unless an operator types
  such a number;
* the end of stdin, at which `listen_commands` reads empty lines without end.

Left to do: nothing of the plan; liveness stays with TLC.
