---------------------------- MODULE NodeLifecycle ----------------------------
(***************************************************************************)
(* The life of one store: its operator's commands (ecommerce/sysctl/       *)
(* listener.rs), the listener for customers with the tasks that serve them *)
(* (ecommerce/network/listen.rs, connection.rs), the listener for other    *)
(* stores (local/node_comm/node_listener.rs) and the updater, all of which *)
(* share one lock, that of the NodeListener.                               *)
(*                                                                         *)
(* tokio's Mutex is fair: `lock' is the queue of those who asked for it,   *)
(* and its head holds it.  Purchases are reduced to the awaits and errors  *)
(* that PurchaseNetwork gives them; a task that asks the actor and then    *)
(* for the lock does both in one action, since the actor always answers.   *)
(***************************************************************************)
EXTENDS Naturals, Sequences, Functions

CONSTANTS
  Conn,           \* connections of customers that may be open at once
  Generation,     \* runs of the NodeListener that may overlap
  Commands,       \* the commands that the operator gives
  Pasted,         \* commands may be in one read of stdin, typed ahead
  AcceptMayFail,  \* accept and bind may return an error
  MaxPeers,       \* bound on the other stores of a purchase
  MaxPending,     \* bound on the messages for the Listener on their way
  None            \* no run of the NodeListener

\* "O" stands for all commands that only take the lock: O, A and any line
\* that is not a command.
ASSUME CommandsAssumption == Commands \subseteq {"S", "U", "D", "F", "O"}
ASSUME PastedAssumption == Pasted \in BOOLEAN
ASSUME AcceptMayFailAssumption == AcceptMayFail \in BOOLEAN
ASSUME BoundsAssumption == MaxPeers \in Nat /\ MaxPending \in Nat
ASSUME GenerationAssumption == None \notin Generation
ASSUME ConnAssumption == Conn \cap {"op", "updater"} = {}

VARIABLES
  op,         \* what the operator's loop awaits: a line, the lock to carry out
              \* a command, the listening tasks (D: "joining", S: "leaving")
  lock,       \* who asked for the NodeListener, the holder first
  spawned,    \* start_listener tasks that have not sent their Start
  mailbox,    \* messages the Listener actor has not handled
  state,      \* current_state of the Listener actor
  listening,  \* start_listening: not running, in its loop, joining its tasks
  cancelled,  \* its token is cancelled
  tasks,      \* the tasks it has to join
  orphans,    \* connections whose tasks nobody has the handles of
  closing,    \* connections whose token is cancelled
  pc,         \* pc[k]: what the task serving k awaits
  parties,    \* parties[k]: other stores of the purchase it works on
  left,       \* left[k]: those it has still to ask
  updater,    \* what the updater awaits
  run,        \* run[g]: where NodeListener::run is
  current     \* the run that the NodeListener has a handle of

opVars == <<op, spawned>>
listenerVars == <<mailbox, state, listening, cancelled>>
connVars == <<tasks, orphans, closing, pc, parties, left>>
nodeVars == <<run, current>>
vars == <<opVars, lock, listenerVars, connVars, updater, nodeVars>>

-----------------------------------------------------------------------------
\* The program has not returned from main, which ends all its tasks.
Alive == op \notin {"ended", "failed"}

Holds(x) == lock # <<>> /\ Head(lock) = x

Enqueue(x) == lock' = Append(lock, x)

Release == lock' = Tail(lock)

\* The holder releases the lock and asks for it again: it goes last.
Requeue(x) == lock' = Append(Tail(lock), x)

-----------------------------------------------------------------------------
\* The operator.

\* All that the commands so far have set off has happened.
Settled ==
  /\ spawned = 0 /\ mailbox = <<>>
  /\ (listening = "off" \/ (listening = "accepting" /\ ~cancelled))
  /\ \A g \in Generation :
       IF g = current THEN run[g] # "connecting" ELSE run[g] \in {"off", "failed"}

ReadCommand(c) ==
  /\ op = "reading"
  /\ Pasted \/ Settled
  /\ spawned + Len(mailbox) < MaxPending
  /\ op' = c
  /\ Enqueue("op")
  /\ UNCHANGED <<spawned, listenerVars, connVars, updater, nodeVars>>

Given(c) == Alive /\ op = c /\ Holds("op")

\* U: a start_listener task is spawned; the NodeListener is started if it has
\* no handle of an earlier run.
Up ==
  /\ Given("U")
  /\ spawned' = spawned + 1
  /\ IF current = None
     THEN \E g \in {g \in Generation : run[g] \in {"off", "failed"}} :
            current' = g /\ run' = [run EXCEPT ![g] = "connecting"]
     ELSE UNCHANGED nodeVars
  /\ op' = "reading"
  /\ Release
  /\ UNCHANGED <<listenerVars, connVars, updater>>

\* D: the Listener is told, and its tasks are joined with the lock held.
Down ==
  /\ Given("D")
  /\ mailbox' = Append(mailbox, "Down")
  /\ op' = "joining"
  /\ UNCHANGED <<spawned, lock, state, listening, cancelled, connVars, updater, nodeVars>>

\* Every start_listener task has had the answer to its Start: an ignored one
\* at once, the other when start_listening returns.
Joined == spawned = 0 /\ "Start" \notin Range(mailbox) /\ listening = "off"

\* The NodeListener is cancelled, its run not awaited: shutdown only locks the
\* mutex around the handle (node_listener.rs:178).
DownJoined ==
  /\ op = "joining"
  /\ Joined
  /\ current' = None
  /\ op' = "reading"
  /\ Release
  /\ UNCHANGED <<spawned, listenerVars, connVars, updater, run>>

\* S: the updater's token is cancelled too, the lock is given back, and then
\* all tasks are joined.
Shutdown ==
  /\ Given("S")
  /\ mailbox' = Append(mailbox, "Shutdown")
  /\ current' = None
  /\ op' = "leaving"
  /\ Release
  /\ UNCHANGED <<spawned, state, listening, cancelled, connVars, updater, run>>

\* Mutant of Leave: the updater is cancelled but not awaited.
LeaveUpdater ==
  /\ op = "leaving"
  /\ Joined
  /\ op' = "ended"
  /\ UNCHANGED <<spawned, lock, listenerVars, connVars, updater, nodeVars>>

Leave ==
  /\ op = "leaving"
  /\ Joined
  /\ updater = "ended"
  /\ op' = "ended"
  /\ UNCHANGED <<spawned, lock, listenerVars, connVars, updater, nodeVars>>

\* O, A, F: one message for the actor.
Sell ==
  /\ Given("O") \/ Given("F")
  /\ op' = "reading"
  /\ Release
  /\ UNCHANGED <<spawned, listenerVars, connVars, updater, nodeVars>>

\* F: a file that cannot be read ends the program.
FileFails ==
  /\ Given("F")
  /\ op' = "failed"
  /\ Release
  /\ UNCHANGED <<spawned, listenerVars, connVars, updater, nodeVars>>

-----------------------------------------------------------------------------
\* The Listener actor.

SendStart ==
  /\ Alive /\ spawned > 0
  /\ spawned' = spawned - 1
  /\ mailbox' = Append(mailbox, "Start")
  /\ UNCHANGED <<op, lock, state, listening, cancelled, connVars, updater, nodeVars>>

\* Mutant of HandleStart: the token of the last time is used again.
HandleStartOldToken ==
  /\ Alive /\ mailbox # <<>> /\ Head(mailbox) = "Start"
  /\ mailbox' = Tail(mailbox)
  /\ IF state = "Waiting"
     THEN state' = "Listening" /\ listening' = "accepting"
     ELSE UNCHANGED <<state, listening>>
  /\ UNCHANGED <<opVars, lock, cancelled, connVars, updater, nodeVars>>

\* The token is renewed at every Start, and stays cancelled until the next.
HandleStart ==
  /\ Alive /\ mailbox # <<>> /\ Head(mailbox) = "Start"
  /\ mailbox' = Tail(mailbox)
  /\ IF state = "Waiting"
     THEN state' = "Listening" /\ listening' = "accepting" /\ cancelled' = FALSE
     ELSE UNCHANGED <<state, listening, cancelled>>
  /\ UNCHANGED <<opVars, lock, connVars, updater, nodeVars>>

\* Mutant of HandleStop: the actor is Waiting as soon as it has cancelled.
HandleStopEarly ==
  /\ Alive /\ mailbox # <<>> /\ Head(mailbox) \in {"Down", "Shutdown"}
  /\ mailbox' = Tail(mailbox)
  /\ cancelled' = (cancelled \/ state = "Listening")
  /\ state' = "Waiting"
  /\ UNCHANGED <<opVars, lock, listening, connVars, updater, nodeVars>>

\* Mutant of HandleStop: only Shutdown cancels.
HandleShutdown ==
  /\ Alive /\ mailbox # <<>> /\ Head(mailbox) \in {"Down", "Shutdown"}
  /\ mailbox' = Tail(mailbox)
  /\ cancelled' = (cancelled \/ (state = "Listening" /\ Head(mailbox) = "Shutdown"))
  /\ UNCHANGED <<opVars, lock, state, listening, connVars, updater, nodeVars>>

\* Down and Shutdown are ignored by an actor that is Waiting.
HandleStop ==
  /\ Alive /\ mailbox # <<>> /\ Head(mailbox) \in {"Down", "Shutdown"}
  /\ mailbox' = Tail(mailbox)
  /\ cancelled' = (cancelled \/ state = "Listening")
  /\ UNCHANGED <<opVars, lock, state, listening, connVars, updater, nodeVars>>

\* start_listening leaves its loop and cancels every connection.
StopAccepting ==
  /\ Alive /\ listening = "accepting" /\ cancelled
  /\ listening' = "joining"
  /\ closing' = closing \cup tasks
  /\ UNCHANGED <<opVars, lock, mailbox, state, cancelled, tasks, orphans, pc, parties, left,
                 updater, nodeVars>>

\* Mutant of StopListening: the tasks are told to close and not joined.
StopListeningAtOnce ==
  /\ Alive /\ listening = "joining"
  /\ listening' = "off" /\ state' = "Waiting"
  /\ tasks' = {}
  /\ UNCHANGED <<opVars, lock, mailbox, cancelled, orphans, closing, pc, parties, left, updater, nodeVars>>

StopListening ==
  /\ Alive /\ listening = "joining" /\ tasks = {}
  /\ listening' = "off" /\ state' = "Waiting"
  /\ UNCHANGED <<opVars, lock, mailbox, cancelled, connVars, updater, nodeVars>>

\* An error of bind or accept ends start_listening where it is: the tasks it
\* has spawned go on, and nobody has their handles.
AcceptFails ==
  /\ Alive /\ AcceptMayFail /\ listening = "accepting"
  /\ listening' = "off" /\ state' = "Waiting"
  /\ tasks' = {} /\ orphans' = orphans \cup tasks
  /\ UNCHANGED <<opVars, lock, mailbox, cancelled, closing, pc, parties, left, updater, nodeVars>>

-----------------------------------------------------------------------------
\* Serving a customer: what PurchaseNetwork says of one connection, as far as
\* the lock, the NodeListener and the token are concerned.

Connect(k) ==
  /\ Alive /\ listening = "accepting" /\ pc[k] = "free"
  /\ pc' = [pc EXCEPT ![k] = "idle"]
  /\ tasks' = tasks \cup {k}
  /\ UNCHANGED <<opVars, lock, listenerVars, orphans, closing, parties, left, updater, nodeVars>>

\* The task returns, for good or with an error.
End(k) ==
  /\ pc' = [pc EXCEPT ![k] = "free"]
  /\ tasks' = tasks \ {k}
  /\ orphans' = orphans \ {k}
  /\ closing' = closing \ {k}
  /\ parties' = [parties EXCEPT ![k] = 0]
  /\ left' = [left EXCEPT ![k] = 0]

\* An order for which there is a plan, with m other stores.
Order(k, m) ==
  /\ Alive /\ pc[k] = "idle"
  /\ pc' = [pc EXCEPT ![k] = "learning"]
  /\ parties' = [parties EXCEPT ![k] = m]
  /\ left' = [left EXCEPT ![k] = m]
  /\ Enqueue(k)
  /\ UNCHANGED <<opVars, listenerVars, tasks, orphans, closing, updater, nodeVars>>

\* The customer's Commit or Cancel of a purchase with m other stores.
Decide(k, m) ==
  /\ Alive /\ pc[k] = "idle"
  /\ pc' = [pc EXCEPT ![k] = "notifying"]
  /\ parties' = [parties EXCEPT ![k] = m]
  /\ Enqueue(k)
  /\ UNCHANGED <<opVars, listenerVars, tasks, orphans, closing, left, updater, nodeVars>>

\* Mutant of Proceed: the loop over the plan has no end.
ProceedAsking(k) ==
  /\ pc' = [pc EXCEPT ![k] = "asking"]
  /\ Requeue(k)
  /\ UNCHANGED <<opVars, listenerVars, tasks, orphans, closing, parties, left, updater, nodeVars>>

\* The lock is released for the next store of the plan, or, after the last,
\* to notify all.
Proceed(k) ==
  /\ pc' = [pc EXCEPT ![k] = IF left[k] = 0 THEN "notifying" ELSE "asking"]
  /\ Requeue(k)
  /\ UNCHANGED <<opVars, listenerVars, tasks, orphans, closing, parties, left, updater, nodeVars>>

\* The lock is taken to read the store's own id.  The plan's entry for the
\* store itself, which takes and releases the lock the same way, is merged.
LearnMe(k) == Alive /\ pc[k] = "learning" /\ Holds(k) /\ Proceed(k)

\* The lock is kept while the answer is awaited.
Ask(k) ==
  /\ Alive /\ pc[k] = "asking" /\ Holds(k)
  /\ current # None
  /\ pc' = [pc EXCEPT ![k] = "waiting"]
  /\ left' = [left EXCEPT ![k] = @ - 1]
  /\ UNCHANGED <<opVars, lock, listenerVars, tasks, orphans, closing, parties, updater, nodeVars>>

\* The NodeListener is down, or has no writer for the store.
AskFails(k) ==
  /\ Alive /\ pc[k] = "asking" /\ Holds(k)
  /\ End(k) /\ Release
  /\ UNCHANGED <<opVars, listenerVars, updater, nodeVars>>

Answered(k) == Alive /\ pc[k] = "waiting" /\ Holds(k) /\ Proceed(k)

\* Mutant of Timeout: the wait ends with the NodeListener only.
TimeoutIfDown(k) ==
  /\ Alive /\ pc[k] = "waiting" /\ Holds(k)
  /\ current = None
  /\ End(k) /\ Release
  /\ UNCHANGED <<opVars, listenerVars, updater, nodeVars>>

Timeout(k) ==
  /\ Alive /\ pc[k] = "waiting" /\ Holds(k)
  /\ End(k) /\ Release
  /\ UNCHANGED <<opVars, listenerVars, updater, nodeVars>>

Notify(k) ==
  /\ Alive /\ pc[k] = "notifying" /\ Holds(k)
  /\ parties[k] = 0 \/ current # None
  /\ pc' = [pc EXCEPT ![k] = "idle"]
  /\ parties' = [parties EXCEPT ![k] = 0]
  /\ Release
  /\ UNCHANGED <<opVars, listenerVars, tasks, orphans, closing, left, updater, nodeVars>>

NotifyFails(k) ==
  /\ Alive /\ pc[k] = "notifying" /\ Holds(k)
  /\ parties[k] > 0
  /\ End(k) /\ Release
  /\ UNCHANGED <<opVars, listenerVars, updater, nodeVars>>

\* The token is looked at between two messages of the customer only.
Close(k) ==
  /\ Alive /\ pc[k] = "idle" /\ k \in closing
  /\ End(k)
  /\ UNCHANGED <<opVars, lock, listenerVars, updater, nodeVars>>

Hangup(k) ==
  /\ Alive /\ pc[k] = "idle"
  /\ End(k)
  /\ UNCHANGED <<opVars, lock, listenerVars, updater, nodeVars>>

-----------------------------------------------------------------------------
\* The updater.

\* Mutant of Wake: the updater does not look at its token.
WakeUncancelled ==
  /\ Alive /\ updater = "sleeping"
  /\ updater' = "locking" /\ Enqueue("updater")
  /\ UNCHANGED <<opVars, listenerVars, connVars, nodeVars>>

\* A second has passed: it ends, or reads the stock and asks for the lock.
Wake ==
  /\ Alive /\ updater = "sleeping"
  /\ IF op = "leaving"
     THEN updater' = "ended" /\ UNCHANGED lock
     ELSE updater' = "locking" /\ Enqueue("updater")
  /\ UNCHANGED <<opVars, listenerVars, connVars, nodeVars>>

Broadcast ==
  /\ Alive /\ updater = "locking" /\ Holds("updater")
  /\ updater' = "sleeping"
  /\ Release
  /\ UNCHANGED <<opVars, listenerVars, connVars, nodeVars>>

-----------------------------------------------------------------------------
\* NodeListener::run.  A run is cancelled when the handle of it is dropped.

\* The connections to the listed stores were tried; then the port is bound,
\* which fails while an earlier run has it: that run has its listener until
\* it has joined its connections.
Bind(g) ==
  /\ Alive /\ run[g] = "connecting"
  /\ run' = [run EXCEPT ![g] =
               IF \E h \in Generation : run[h] \in {"accepting", "ending"}
               THEN "failed" ELSE "accepting"]
  /\ UNCHANGED <<opVars, lock, listenerVars, connVars, updater, current>>

SeeCancel(g) ==
  /\ Alive /\ run[g] = "accepting" /\ g # current
  /\ run' = [run EXCEPT ![g] = "ending"]
  /\ UNCHANGED <<opVars, lock, listenerVars, connVars, updater, current>>

\* Its connections, which have the same token, have ended.
Finish(g) ==
  /\ Alive /\ run[g] = "ending"
  /\ run' = [run EXCEPT ![g] = "off"]
  /\ UNCHANGED <<opVars, lock, listenerVars, connVars, updater, current>>

\* The handle of a run that ended with an error is kept.
RunFails(g) ==
  /\ Alive /\ AcceptMayFail /\ run[g] = "accepting"
  /\ run' = [run EXCEPT ![g] = "failed"]
  /\ UNCHANGED <<opVars, lock, listenerVars, connVars, updater, current>>

-----------------------------------------------------------------------------

\* bin/local.rs has started the NodeListener, and listen_commands the updater
\* and a first start_listener task.
Init ==
  /\ op = "reading" /\ spawned = 1
  /\ lock = <<>>
  /\ mailbox = <<>> /\ state = "Waiting" /\ listening = "off" /\ cancelled = FALSE
  /\ tasks = {} /\ orphans = {} /\ closing = {}
  /\ pc = [k \in Conn |-> "free"]
  /\ parties = [k \in Conn |-> 0] /\ left = [k \in Conn |-> 0]
  /\ updater = "sleeping"
  /\ current \in Generation
  /\ run = [g \in Generation |-> IF g = current THEN "connecting" ELSE "off"]

Operator ==
  Up \/ Down \/ DownJoined \/ Shutdown \/ Leave \/ Sell \/ FileFails

Listener ==
  SendStart \/ HandleStart \/ HandleStop \/ StopAccepting \/ StopListening

\* What the task of k does when its turn comes.
Serve(k) ==
  LearnMe(k) \/ Ask(k) \/ AskFails(k) \/ Timeout(k) \/ Notify(k) \/ NotifyFails(k)

Customer(k) ==
  \/ Connect(k) \/ Hangup(k)
  \/ \E m \in 0 .. MaxPeers : Order(k, m) \/ Decide(k, m)

Updater == Wake \/ Broadcast

NodeListener(g) == Bind(g) \/ SeeCancel(g) \/ Finish(g)

Next ==
  \/ \E c \in Commands : ReadCommand(c)
  \/ Operator \/ Listener \/ AcceptFails \/ Updater
  \/ \E k \in Conn : Serve(k) \/ Answered(k) \/ Close(k) \/ Customer(k)
  \/ \E g \in Generation : NodeListener(g) \/ RunFails(g)

Spec == Init /\ [][Next]_vars

\* The runtime polls every task that can go on, timers included.  A select
\* takes one of its ready branches at random, so that a cancelled token is
\* seen although the customer always has another message (SF of Close).
\* Customers, the operator, peers that answer and failures owe nothing.
Fairness ==
  /\ WF_vars(Operator) /\ WF_vars(Listener) /\ WF_vars(Updater)
  /\ \A k \in Conn : WF_vars(Serve(k)) /\ SF_vars(Close(k))
  /\ \A g \in Generation : WF_vars(NodeListener(g))

FairSpec == Spec /\ Fairness
-----------------------------------------------------------------------------
\* Properties.

Busy == {"learning", "asking", "waiting", "notifying"}

\* Who has asked for the lock and not given it back.
Waiters ==
  {k \in Conn : pc[k] \in Busy}
    \cup (IF op \in Commands \cup {"joining"} THEN {"op"} ELSE {})
    \cup (IF updater = "locking" THEN {"updater"} ELSE {})

\* The fields have their types: in particular, the lock's queue holds those
\* who have asked for it and not given it back, each once, and the countdown
\* of the stores of a plan that are still to be asked never passes zero.
TypeOK ==
  /\ op \in {"reading", "joining", "leaving", "ended", "failed"} \cup Commands
  /\ lock \in Seq(Conn \cup {"op", "updater"})
  /\ Range(lock) = Waiters /\ IsInjective(lock)
  /\ spawned \in Nat
  /\ mailbox \in Seq({"Start", "Down", "Shutdown"})
  /\ state \in {"Waiting", "Listening"}
  /\ listening \in {"off", "accepting", "joining"}
  /\ cancelled \in BOOLEAN
  /\ tasks \subseteq Conn /\ orphans \subseteq Conn /\ closing \subseteq Conn
  /\ pc \in [Conn -> {"free", "idle", "learning", "asking", "waiting", "notifying"}]
  /\ parties \in [Conn -> Nat] /\ left \in [Conn -> Nat]
  /\ updater \in {"sleeping", "locking", "ended"}
  /\ run \in [Generation -> {"off", "connecting", "accepting", "ending", "failed"}]
  /\ current \in Generation \cup {None}

\* Nobody is served but by tasks that an error of accept has left alone.
OnlyOrphans == \A k \in Conn : pc[k] # "free" => k \in orphans

\* Whoever is served is served by a listener that is up: a Listener that would
\* accept a Start has no task left of an earlier one, whatever commands raced
\* with the connections (listen.rs:66-107), but for those it lost to an error.
ServedWhileListening == state = "Waiting" => OnlyOrphans

\* When the operator has taken the network down, every connection is closed
\* that the listener still has the handle of, and the listener will not come
\* up by itself (sysctl/listener.rs:71-72: "Will block until all
\* disconnections happened").
NetDownIsClean ==
  [][ (op = "joining" /\ op' = "reading") =>
        OnlyOrphans /\ state = "Waiting" /\ spawned = 0 /\ "Start" \notin Range(mailbox) ]_vars

\* The program ends by S when no purchase is in progress and no one has or
\* wants the lock, the updater included (sysctl/listener.rs:122-125), again
\* but for lost tasks.
EndsClean == op = "ended" => OnlyOrphans /\ Range(lock) \subseteq orphans

\* Everyone who asks for the NodeListener gets it, unless the program ends or
\* D has it: a store that does not answer, or whose connection is lost, keeps
\* it from the others for a while only (node_communication.rs:209-217).
LockPasses ==
  \A x \in Conn \cup {"op", "updater"} :
    x \in Range(lock) ~> (x \notin Range(lock) \/ ~Alive \/ op = "joining")

\* S ends the program, customers in the middle of a purchase or not
\* (sysctl/listener.rs:150: "For shutting down the whole application").
ShutdownEnds == op = "S" ~> op = "ended"

\* D comes to an end (sysctl/listener.rs:71-81).
NetDownEnds == op = "D" ~> op = "reading"

\* What keeps a D from its end is only a task that it joins and that waits
\* for the lock behind it.
Entangled == op = "joining" /\ tasks \cap Range(lock) # {}

OnlyWaitersKeepDown == op = "D" ~> op = "reading" \/ Entangled

\* After U the store serves customers and other stores (sysctl/listener.rs:
\* 151: "To get the Network Up"), unless another command came.
NetworkUp ==
  op = "U" ~> ( \/ state = "Listening" /\ current # None /\ run[current] = "accepting"
                \/ op \in {"D", "S"} )
=============================================================================
