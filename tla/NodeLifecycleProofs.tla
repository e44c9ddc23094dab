------------------------- MODULE NodeLifecycleProofs -------------------------
(***************************************************************************)
(* The life of a store, for any number of connections and of runs of the   *)
(* NodeListener and any commands: whoever is served is served by a         *)
(* listener that is up, a network that was taken down is clean, and a      *)
(* program that has ended leaves nobody with the lock.                     *)
(*                                                                         *)
(* The lock is a queue, and so the argument about it is one about queues:  *)
(* those who wait are in it, each once, and the operator, when it joins    *)
(* the listening tasks, is its head.                                       *)
(***************************************************************************)
EXTENDS NodeLifecycle, TLAPS

Asker == Conn \cup {"op", "updater"}

Queue ==
  /\ lock \in Seq(Asker)
  /\ \A i \in 1 .. Len(lock) : lock[i] \in Waiters
  /\ \A x \in Waiters : \E i \in 1 .. Len(lock) : lock[i] = x
  /\ \A i, j \in 1 .. Len(lock) : lock[i] = lock[j] => i = j
  /\ op = "joining" => Holds("op")

\* The Listener is Waiting when no start_listening runs, which then has no
\* tasks; those, and the ones lost to errors of accept, are all there are.
Tasks ==
  /\ state = "Waiting" <=> listening = "off"
  /\ listening = "off" => tasks = {}
  /\ \A k \in Conn : pc[k] # "free" => k \in tasks \cup orphans

\* All that TypeOK says but for the queue, and what keeps the countdown.
Fields ==
  /\ op \in {"reading", "joining", "leaving", "ended", "failed"} \cup Commands
  /\ spawned \in Nat
  /\ mailbox \in Seq({"Start", "Down", "Shutdown"})
  /\ state \in {"Waiting", "Listening"}
  /\ listening \in {"off", "accepting", "joining"}
  /\ cancelled \in BOOLEAN
  /\ tasks \subseteq Conn /\ orphans \subseteq Conn /\ closing \subseteq Conn
  /\ pc \in [Conn -> {"free", "idle", "learning", "asking", "waiting", "notifying"}]
  /\ parties \in [Conn -> Nat] /\ left \in [Conn -> Nat]
  /\ updater \in {"sleeping", "locking", "ended"}
  /\ run \in [Generation -> {"off", "connecting", "accepting", "ending", "failed"}]
  /\ current \in Generation \cup {None}
  /\ \A k \in Conn : pc[k] = "asking" => left[k] > 0

\* A program that has ended has ended all its tasks.
Ended == op = "ended" => listening = "off" /\ updater = "ended"

IInv == Fields /\ Queue /\ Tasks /\ Ended

-----------------------------------------------------------------------------
\* The queue.

LEMMA AskersDiffer ==
  /\ "op" # "updater" /\ "op" \notin Conn /\ "updater" \notin Conn
  /\ Commands \cap {"reading", "joining", "leaving", "ended", "failed"} = {}
  BY ConnAssumption, CommandsAssumption

LEMMA UnchangedQueue ==
  ASSUME Queue, UNCHANGED lock, Waiters' = Waiters,
         op' = "joining" => Holds("op")
  PROVE  Queue'
  BY DEF Queue, Holds

LEMMA EnqueueQueue ==
  ASSUME Queue, NEW x \in Asker, Enqueue(x),
         x \notin Waiters, Waiters' = Waiters \cup {x},
         op' = "joining" => op = "joining"
  PROVE  Queue'
<1>1. /\ lock' \in Seq(Asker) /\ Len(lock') = Len(lock) + 1
      /\ lock'[Len(lock) + 1] = x
      /\ \A i \in 1 .. Len(lock) : lock'[i] = lock[i]
  BY DEF Queue, Enqueue
<1>2. \A i \in 1 .. Len(lock) : lock[i] \in Asker /\ lock[i] # x
  BY DEF Queue
<1>3. \A i \in 1 .. Len(lock') : lock'[i] \in Waiters'
  BY <1>1, <1>2 DEF Queue
<1>4. \A i, j \in 1 .. Len(lock') : lock'[i] = lock'[j] => i = j
  BY <1>1, <1>2 DEF Queue
<1>5. op' = "joining" => Holds("op")'
  BY <1>1 DEF Queue, Holds
<1>6. QED
  BY <1>1, <1>3, <1>4, <1>5 DEF Queue

\* The rest of a queue whose head goes.
LEMMA TailOfQueue ==
  ASSUME Queue, NEW x, Holds(x)
  PROVE  /\ lock # <<>> /\ lock[1] = x
         /\ Tail(lock) \in Seq(Asker) /\ Len(Tail(lock)) = Len(lock) - 1
         /\ Len(lock) \in Nat \ {0}
         /\ \A i \in 1 .. Len(Tail(lock)) :
              /\ Tail(lock)[i] = lock[i + 1]
              /\ Tail(lock)[i] \in Asker
              /\ Tail(lock)[i] # x
              /\ Tail(lock)[i] \in Waiters
         /\ \A w \in Waiters \ {x} : \E i \in 1 .. Len(Tail(lock)) : Tail(lock)[i] = w
         /\ \A i, j \in 1 .. Len(Tail(lock)) : Tail(lock)[i] = Tail(lock)[j] => i = j
<1>1. lock # <<>> /\ lock[1] = x /\ lock \in Seq(Asker)
  BY DEF Queue, Holds
<1>2. /\ Tail(lock) \in Seq(Asker) /\ Len(Tail(lock)) = Len(lock) - 1
      /\ Len(lock) \in Nat \ {0}
  BY <1>1
<1>3. \A i \in 1 .. Len(Tail(lock)) : Tail(lock)[i] = lock[i + 1]
  BY <1>1
<1>4. ASSUME NEW w \in Waiters \ {x}
      PROVE  \E i \in 1 .. Len(Tail(lock)) : Tail(lock)[i] = w
  <2>1. PICK i \in 1 .. Len(lock) : lock[i] = w
    BY DEF Queue
  <2>2. i - 1 \in 1 .. Len(Tail(lock)) /\ Tail(lock)[i - 1] = w
    BY <1>1, <1>2, <1>3, <2>1
  <2>3. QED
    BY <2>2
<1>5. QED
  BY <1>1, <1>2, <1>3, <1>4 DEF Queue

LEMMA ReleaseQueue ==
  ASSUME Queue, NEW x, Holds(x), Release,
         Waiters' = Waiters \ {x},
         op' = "joining" => (op = "joining" /\ x # "op")
  PROVE  Queue'
<1>1. op' # "joining"
  BY DEF Queue, Holds
<1>2. QED
  BY <1>1, TailOfQueue DEF Queue, Release

LEMMA RequeueQueue ==
  ASSUME Queue, NEW x \in Conn, Holds(x), Requeue(x), UNCHANGED op,
         Waiters' = Waiters
  PROVE  Queue'
<1>1. op' # "joining"
  BY AskersDiffer DEF Queue, Holds
<1>. DEFINE rest == Tail(lock)
<1>2. /\ rest \in Seq(Asker) /\ Len(rest) \in Nat
      /\ \A i \in 1 .. Len(rest) : /\ rest[i] \in Asker /\ rest[i] # x
                                   /\ rest[i] \in Waiters
      /\ \A w \in Waiters \ {x} : \E i \in 1 .. Len(rest) : rest[i] = w
      /\ \A i, j \in 1 .. Len(rest) : rest[i] = rest[j] => i = j
  BY TailOfQueue
<1>3. x \in Asker /\ x \in Waiters
  BY TailOfQueue DEF Asker, Queue
<1>4. /\ lock' \in Seq(Asker) /\ Len(lock') = Len(rest) + 1
      /\ lock'[Len(rest) + 1] = x
      /\ \A i \in 1 .. Len(rest) : lock'[i] = rest[i]
  BY <1>2, <1>3 DEF Requeue
<1>. HIDE DEF rest
<1>5. \A i \in 1 .. Len(lock') : lock'[i] \in Waiters'
  BY <1>2, <1>3, <1>4
<1>6. \A i, j \in 1 .. Len(lock') : lock'[i] = lock'[j] => i = j
  BY <1>2, <1>4
<1>7. \A w \in Waiters' : \E i \in 1 .. Len(lock') : lock'[i] = w
  BY <1>2, <1>4
<1>8. QED
  BY <1>1, <1>4, <1>5, <1>6, <1>7 DEF Queue
-----------------------------------------------------------------------------
\* The fields.

LEMMA FieldsStep ==
  ASSUME Fields, [Next]_vars
  PROVE  Fields'
<1>1. ASSUME NEW c \in Commands, ReadCommand(c) PROVE Fields'
  BY BoundsAssumption, <1>1 DEF Fields, ReadCommand, opVars, listenerVars, connVars, nodeVars
<1>2. ASSUME Up PROVE Fields'
  BY BoundsAssumption, <1>2 DEF Fields, Up, Given, Release, nodeVars, opVars, listenerVars, connVars, nodeVars
<1>3. ASSUME Down PROVE Fields'
  BY BoundsAssumption, <1>3 DEF Fields, Down, Given, opVars, listenerVars, connVars, nodeVars
<1>4. ASSUME DownJoined PROVE Fields'
  BY BoundsAssumption, <1>4 DEF Fields, DownJoined, opVars, listenerVars, connVars, nodeVars
<1>5. ASSUME Shutdown PROVE Fields'
  BY BoundsAssumption, <1>5 DEF Fields, Shutdown, Given, opVars, listenerVars, connVars, nodeVars
<1>6. ASSUME Leave PROVE Fields'
  BY BoundsAssumption, <1>6 DEF Fields, Leave, opVars, listenerVars, connVars, nodeVars
<1>7. ASSUME Sell PROVE Fields'
  BY BoundsAssumption, <1>7 DEF Fields, Sell, Given, opVars, listenerVars, connVars, nodeVars
<1>8. ASSUME FileFails PROVE Fields'
  BY BoundsAssumption, <1>8 DEF Fields, FileFails, Given, opVars, listenerVars, connVars, nodeVars
<1>9. ASSUME SendStart PROVE Fields'
  BY BoundsAssumption, <1>9 DEF Fields, SendStart, opVars, listenerVars, connVars, nodeVars
<1>10. ASSUME HandleStart PROVE Fields'
  <2>1. mailbox' \in Seq({"Start", "Down", "Shutdown"})
    BY <1>10 DEF Fields, HandleStart
  <2>2. CASE state = "Waiting"
    BY <1>10, <2>1, <2>2 DEF Fields, HandleStart, opVars, listenerVars, connVars, nodeVars
  <2>3. CASE state # "Waiting"
    BY <1>10, <2>1, <2>3 DEF Fields, HandleStart, opVars, listenerVars, connVars, nodeVars
  <2>4. QED
    BY <2>2, <2>3
<1>11. ASSUME HandleStop PROVE Fields'
  BY BoundsAssumption, <1>11 DEF Fields, HandleStop, opVars, listenerVars, connVars, nodeVars
<1>12. ASSUME StopAccepting PROVE Fields'
  BY BoundsAssumption, <1>12 DEF Fields, StopAccepting, opVars, listenerVars, connVars, nodeVars
<1>13. ASSUME StopListening PROVE Fields'
  BY BoundsAssumption, <1>13 DEF Fields, StopListening, opVars, listenerVars, connVars, nodeVars
<1>14. ASSUME AcceptFails PROVE Fields'
  BY BoundsAssumption, <1>14 DEF Fields, AcceptFails, opVars, listenerVars, connVars, nodeVars
<1>15. ASSUME Wake PROVE Fields'
  BY BoundsAssumption, <1>15 DEF Fields, Wake, opVars, listenerVars, connVars, nodeVars
<1>16. ASSUME Broadcast PROVE Fields'
  BY BoundsAssumption, <1>16 DEF Fields, Broadcast, opVars, listenerVars, connVars, nodeVars
<1>17. ASSUME NEW k \in Conn, Connect(k) PROVE Fields'
  BY BoundsAssumption, <1>17 DEF Fields, Connect, opVars, listenerVars, connVars, nodeVars
<1>18. ASSUME NEW k \in Conn, LearnMe(k) PROVE Fields'
  BY BoundsAssumption, <1>18 DEF Fields, LearnMe, Proceed, opVars, listenerVars, connVars, nodeVars
<1>19. ASSUME NEW k \in Conn, Ask(k) PROVE Fields'
  BY BoundsAssumption, <1>19 DEF Fields, Ask, opVars, listenerVars, connVars, nodeVars
<1>20. ASSUME NEW k \in Conn, AskFails(k) PROVE Fields'
  BY BoundsAssumption, <1>20 DEF Fields, AskFails, End, opVars, listenerVars, connVars, nodeVars
<1>21. ASSUME NEW k \in Conn, Answered(k) PROVE Fields'
  BY BoundsAssumption, <1>21 DEF Fields, Answered, Proceed, opVars, listenerVars, connVars, nodeVars
<1>22. ASSUME NEW k \in Conn, Timeout(k) PROVE Fields'
  BY BoundsAssumption, <1>22 DEF Fields, Timeout, End, opVars, listenerVars, connVars, nodeVars
<1>23. ASSUME NEW k \in Conn, Notify(k) PROVE Fields'
  BY BoundsAssumption, <1>23 DEF Fields, Notify, opVars, listenerVars, connVars, nodeVars
<1>24. ASSUME NEW k \in Conn, NotifyFails(k) PROVE Fields'
  BY BoundsAssumption, <1>24 DEF Fields, NotifyFails, End, opVars, listenerVars, connVars, nodeVars
<1>25. ASSUME NEW k \in Conn, Close(k) PROVE Fields'
  BY BoundsAssumption, <1>25 DEF Fields, Close, End, opVars, listenerVars, connVars, nodeVars
<1>26. ASSUME NEW k \in Conn, Hangup(k) PROVE Fields'
  BY BoundsAssumption, <1>26 DEF Fields, Hangup, End, opVars, listenerVars, connVars, nodeVars
<1>27. ASSUME NEW k \in Conn, NEW m \in 0 .. MaxPeers, Order(k, m) PROVE Fields'
  BY BoundsAssumption, <1>27 DEF Fields, Order, opVars, listenerVars, connVars, nodeVars
<1>28. ASSUME NEW k \in Conn, NEW m \in 0 .. MaxPeers, Decide(k, m) PROVE Fields'
  BY BoundsAssumption, <1>28 DEF Fields, Decide, opVars, listenerVars, connVars, nodeVars
<1>29. ASSUME NEW g \in Generation, Bind(g) PROVE Fields'
  BY BoundsAssumption, <1>29 DEF Fields, Bind, opVars, listenerVars, connVars, nodeVars
<1>30. ASSUME NEW g \in Generation, SeeCancel(g) PROVE Fields'
  BY BoundsAssumption, <1>30 DEF Fields, SeeCancel, opVars, listenerVars, connVars, nodeVars
<1>31. ASSUME NEW g \in Generation, Finish(g) PROVE Fields'
  BY BoundsAssumption, <1>31 DEF Fields, Finish, opVars, listenerVars, connVars, nodeVars
<1>32. ASSUME NEW g \in Generation, RunFails(g) PROVE Fields'
  BY BoundsAssumption, <1>32 DEF Fields, RunFails, opVars, listenerVars, connVars, nodeVars
<1>33. ASSUME UNCHANGED vars PROVE Fields'
  BY BoundsAssumption, <1>33 DEF Fields, vars, opVars, listenerVars, connVars, nodeVars
<1>. QED
  BY <1>1, <1>2, <1>3, <1>4, <1>5, <1>6, <1>7, <1>8, <1>9, <1>10, <1>11, <1>12, <1>13, <1>14, <1>15, <1>16, <1>17, <1>18, <1>19, <1>20, <1>21, <1>22, <1>23, <1>24, <1>25, <1>26, <1>27, <1>28, <1>29, <1>30, <1>31, <1>32, <1>33 DEF Next, Operator, Listener, Serve, Customer, Updater, NodeListener

-----------------------------------------------------------------------------
\* The tasks of the Listener.

LEMMA TasksStep ==
  ASSUME Fields, Tasks, [Next]_vars
  PROVE  Tasks'
<1>1. ASSUME NEW c \in Commands, ReadCommand(c) PROVE Tasks'
  BY <1>1 DEF Tasks, Fields, ReadCommand, opVars, listenerVars, connVars, nodeVars
<1>2. ASSUME Up PROVE Tasks'
  BY <1>2 DEF Tasks, Fields, Up, Given, Release, nodeVars, opVars, listenerVars, connVars, nodeVars
<1>3. ASSUME Down PROVE Tasks'
  BY <1>3 DEF Tasks, Fields, Down, Given, opVars, listenerVars, connVars, nodeVars
<1>4. ASSUME DownJoined PROVE Tasks'
  BY <1>4 DEF Tasks, Fields, DownJoined, opVars, listenerVars, connVars, nodeVars
<1>5. ASSUME Shutdown PROVE Tasks'
  BY <1>5 DEF Tasks, Fields, Shutdown, Given, opVars, listenerVars, connVars, nodeVars
<1>6. ASSUME Leave PROVE Tasks'
  BY <1>6 DEF Tasks, Fields, Leave, opVars, listenerVars, connVars, nodeVars
<1>7. ASSUME Sell PROVE Tasks'
  BY <1>7 DEF Tasks, Fields, Sell, Given, opVars, listenerVars, connVars, nodeVars
<1>8. ASSUME FileFails PROVE Tasks'
  BY <1>8 DEF Tasks, Fields, FileFails, Given, opVars, listenerVars, connVars, nodeVars
<1>9. ASSUME SendStart PROVE Tasks'
  BY <1>9 DEF Tasks, Fields, SendStart, opVars, listenerVars, connVars, nodeVars
<1>10. ASSUME HandleStart PROVE Tasks'
  BY <1>10 DEF Tasks, Fields, HandleStart, opVars, listenerVars, connVars, nodeVars
<1>11. ASSUME HandleStop PROVE Tasks'
  BY <1>11 DEF Tasks, Fields, HandleStop, opVars, listenerVars, connVars, nodeVars
<1>12. ASSUME StopAccepting PROVE Tasks'
  BY <1>12 DEF Tasks, Fields, StopAccepting, opVars, listenerVars, connVars, nodeVars
<1>13. ASSUME StopListening PROVE Tasks'
  BY <1>13 DEF Tasks, Fields, StopListening, opVars, listenerVars, connVars, nodeVars
<1>14. ASSUME AcceptFails PROVE Tasks'
  BY <1>14 DEF Tasks, Fields, AcceptFails, opVars, listenerVars, connVars, nodeVars
<1>15. ASSUME Wake PROVE Tasks'
  BY <1>15 DEF Tasks, Fields, Wake, opVars, listenerVars, connVars, nodeVars
<1>16. ASSUME Broadcast PROVE Tasks'
  BY <1>16 DEF Tasks, Fields, Broadcast, opVars, listenerVars, connVars, nodeVars
<1>17. ASSUME NEW k \in Conn, Connect(k) PROVE Tasks'
  BY <1>17 DEF Tasks, Fields, Connect, opVars, listenerVars, connVars, nodeVars
<1>18. ASSUME NEW k \in Conn, LearnMe(k) PROVE Tasks'
  BY <1>18 DEF Tasks, Fields, LearnMe, Proceed, opVars, listenerVars, connVars, nodeVars
<1>19. ASSUME NEW k \in Conn, Ask(k) PROVE Tasks'
  BY <1>19 DEF Tasks, Fields, Ask, opVars, listenerVars, connVars, nodeVars
<1>20. ASSUME NEW k \in Conn, AskFails(k) PROVE Tasks'
  BY <1>20 DEF Tasks, Fields, AskFails, End, opVars, listenerVars, connVars, nodeVars
<1>21. ASSUME NEW k \in Conn, Answered(k) PROVE Tasks'
  BY <1>21 DEF Tasks, Fields, Answered, Proceed, opVars, listenerVars, connVars, nodeVars
<1>22. ASSUME NEW k \in Conn, Timeout(k) PROVE Tasks'
  BY <1>22 DEF Tasks, Fields, Timeout, End, opVars, listenerVars, connVars, nodeVars
<1>23. ASSUME NEW k \in Conn, Notify(k) PROVE Tasks'
  BY <1>23 DEF Tasks, Fields, Notify, opVars, listenerVars, connVars, nodeVars
<1>24. ASSUME NEW k \in Conn, NotifyFails(k) PROVE Tasks'
  BY <1>24 DEF Tasks, Fields, NotifyFails, End, opVars, listenerVars, connVars, nodeVars
<1>25. ASSUME NEW k \in Conn, Close(k) PROVE Tasks'
  BY <1>25 DEF Tasks, Fields, Close, End, opVars, listenerVars, connVars, nodeVars
<1>26. ASSUME NEW k \in Conn, Hangup(k) PROVE Tasks'
  BY <1>26 DEF Tasks, Fields, Hangup, End, opVars, listenerVars, connVars, nodeVars
<1>27. ASSUME NEW k \in Conn, NEW m \in 0 .. MaxPeers, Order(k, m) PROVE Tasks'
  BY <1>27 DEF Tasks, Fields, Order, opVars, listenerVars, connVars, nodeVars
<1>28. ASSUME NEW k \in Conn, NEW m \in 0 .. MaxPeers, Decide(k, m) PROVE Tasks'
  BY <1>28 DEF Tasks, Fields, Decide, opVars, listenerVars, connVars, nodeVars
<1>29. ASSUME NEW g \in Generation, Bind(g) PROVE Tasks'
  BY <1>29 DEF Tasks, Fields, Bind, opVars, listenerVars, connVars, nodeVars
<1>30. ASSUME NEW g \in Generation, SeeCancel(g) PROVE Tasks'
  BY <1>30 DEF Tasks, Fields, SeeCancel, opVars, listenerVars, connVars, nodeVars
<1>31. ASSUME NEW g \in Generation, Finish(g) PROVE Tasks'
  BY <1>31 DEF Tasks, Fields, Finish, opVars, listenerVars, connVars, nodeVars
<1>32. ASSUME NEW g \in Generation, RunFails(g) PROVE Tasks'
  BY <1>32 DEF Tasks, Fields, RunFails, opVars, listenerVars, connVars, nodeVars
<1>33. ASSUME UNCHANGED vars PROVE Tasks'
  BY <1>33 DEF Tasks, Fields, vars, opVars, listenerVars, connVars, nodeVars
<1>. QED
  BY <1>1, <1>2, <1>3, <1>4, <1>5, <1>6, <1>7, <1>8, <1>9, <1>10, <1>11, <1>12, <1>13, <1>14, <1>15, <1>16, <1>17, <1>18, <1>19, <1>20, <1>21, <1>22, <1>23, <1>24, <1>25, <1>26, <1>27, <1>28, <1>29, <1>30, <1>31, <1>32, <1>33 DEF Next, Operator, Listener, Serve, Customer, Updater, NodeListener

LEMMA EndedStep ==
  ASSUME Fields, Ended, [Next]_vars
  PROVE  Ended'
<1>1. ASSUME NEW c \in Commands, ReadCommand(c) PROVE Ended'
  BY AskersDiffer, <1>1 DEF Ended, Fields, Alive, Joined, ReadCommand, opVars, listenerVars, connVars, nodeVars
<1>2. ASSUME Up PROVE Ended'
  BY AskersDiffer, <1>2 DEF Ended, Fields, Alive, Joined, Up, Given, Release, nodeVars, opVars, listenerVars, connVars, nodeVars
<1>3. ASSUME Down PROVE Ended'
  BY AskersDiffer, <1>3 DEF Ended, Fields, Alive, Joined, Down, Given, opVars, listenerVars, connVars, nodeVars
<1>4. ASSUME DownJoined PROVE Ended'
  BY AskersDiffer, <1>4 DEF Ended, Fields, Alive, Joined, DownJoined, opVars, listenerVars, connVars, nodeVars
<1>5. ASSUME Shutdown PROVE Ended'
  BY AskersDiffer, <1>5 DEF Ended, Fields, Alive, Joined, Shutdown, Given, opVars, listenerVars, connVars, nodeVars
<1>6. ASSUME Leave PROVE Ended'
  BY AskersDiffer, <1>6 DEF Ended, Fields, Alive, Joined, Leave, opVars, listenerVars, connVars, nodeVars
<1>7. ASSUME Sell PROVE Ended'
  BY AskersDiffer, <1>7 DEF Ended, Fields, Alive, Joined, Sell, Given, opVars, listenerVars, connVars, nodeVars
<1>8. ASSUME FileFails PROVE Ended'
  BY AskersDiffer, <1>8 DEF Ended, Fields, Alive, Joined, FileFails, Given, opVars, listenerVars, connVars, nodeVars
<1>9. ASSUME SendStart PROVE Ended'
  BY AskersDiffer, <1>9 DEF Ended, Fields, Alive, Joined, SendStart, opVars, listenerVars, connVars, nodeVars
<1>10. ASSUME HandleStart PROVE Ended'
  BY AskersDiffer, <1>10 DEF Ended, Fields, Alive, Joined, HandleStart, opVars, listenerVars, connVars, nodeVars
<1>11. ASSUME HandleStop PROVE Ended'
  BY AskersDiffer, <1>11 DEF Ended, Fields, Alive, Joined, HandleStop, opVars, listenerVars, connVars, nodeVars
<1>12. ASSUME StopAccepting PROVE Ended'
  BY AskersDiffer, <1>12 DEF Ended, Fields, Alive, Joined, StopAccepting, opVars, listenerVars, connVars, nodeVars
<1>13. ASSUME StopListening PROVE Ended'
  BY AskersDiffer, <1>13 DEF Ended, Fields, Alive, Joined, StopListening, opVars, listenerVars, connVars, nodeVars
<1>14. ASSUME AcceptFails PROVE Ended'
  BY AskersDiffer, <1>14 DEF Ended, Fields, Alive, Joined, AcceptFails, opVars, listenerVars, connVars, nodeVars
<1>15. ASSUME Wake PROVE Ended'
  BY AskersDiffer, <1>15 DEF Ended, Fields, Alive, Joined, Wake, opVars, listenerVars, connVars, nodeVars
<1>16. ASSUME Broadcast PROVE Ended'
  BY AskersDiffer, <1>16 DEF Ended, Fields, Alive, Joined, Broadcast, opVars, listenerVars, connVars, nodeVars
<1>17. ASSUME NEW k \in Conn, Connect(k) PROVE Ended'
  BY AskersDiffer, <1>17 DEF Ended, Fields, Alive, Joined, Connect, opVars, listenerVars, connVars, nodeVars
<1>18. ASSUME NEW k \in Conn, LearnMe(k) PROVE Ended'
  BY AskersDiffer, <1>18 DEF Ended, Fields, Alive, Joined, LearnMe, Proceed, opVars, listenerVars, connVars, nodeVars
<1>19. ASSUME NEW k \in Conn, Ask(k) PROVE Ended'
  BY AskersDiffer, <1>19 DEF Ended, Fields, Alive, Joined, Ask, opVars, listenerVars, connVars, nodeVars
<1>20. ASSUME NEW k \in Conn, AskFails(k) PROVE Ended'
  BY AskersDiffer, <1>20 DEF Ended, Fields, Alive, Joined, AskFails, End, opVars, listenerVars, connVars, nodeVars
<1>21. ASSUME NEW k \in Conn, Answered(k) PROVE Ended'
  BY AskersDiffer, <1>21 DEF Ended, Fields, Alive, Joined, Answered, Proceed, opVars, listenerVars, connVars, nodeVars
<1>22. ASSUME NEW k \in Conn, Timeout(k) PROVE Ended'
  BY AskersDiffer, <1>22 DEF Ended, Fields, Alive, Joined, Timeout, End, opVars, listenerVars, connVars, nodeVars
<1>23. ASSUME NEW k \in Conn, Notify(k) PROVE Ended'
  BY AskersDiffer, <1>23 DEF Ended, Fields, Alive, Joined, Notify, opVars, listenerVars, connVars, nodeVars
<1>24. ASSUME NEW k \in Conn, NotifyFails(k) PROVE Ended'
  BY AskersDiffer, <1>24 DEF Ended, Fields, Alive, Joined, NotifyFails, End, opVars, listenerVars, connVars, nodeVars
<1>25. ASSUME NEW k \in Conn, Close(k) PROVE Ended'
  BY AskersDiffer, <1>25 DEF Ended, Fields, Alive, Joined, Close, End, opVars, listenerVars, connVars, nodeVars
<1>26. ASSUME NEW k \in Conn, Hangup(k) PROVE Ended'
  BY AskersDiffer, <1>26 DEF Ended, Fields, Alive, Joined, Hangup, End, opVars, listenerVars, connVars, nodeVars
<1>27. ASSUME NEW k \in Conn, NEW m \in 0 .. MaxPeers, Order(k, m) PROVE Ended'
  BY AskersDiffer, <1>27 DEF Ended, Fields, Alive, Joined, Order, opVars, listenerVars, connVars, nodeVars
<1>28. ASSUME NEW k \in Conn, NEW m \in 0 .. MaxPeers, Decide(k, m) PROVE Ended'
  BY AskersDiffer, <1>28 DEF Ended, Fields, Alive, Joined, Decide, opVars, listenerVars, connVars, nodeVars
<1>29. ASSUME NEW g \in Generation, Bind(g) PROVE Ended'
  BY AskersDiffer, <1>29 DEF Ended, Fields, Alive, Joined, Bind, opVars, listenerVars, connVars, nodeVars
<1>30. ASSUME NEW g \in Generation, SeeCancel(g) PROVE Ended'
  BY AskersDiffer, <1>30 DEF Ended, Fields, Alive, Joined, SeeCancel, opVars, listenerVars, connVars, nodeVars
<1>31. ASSUME NEW g \in Generation, Finish(g) PROVE Ended'
  BY AskersDiffer, <1>31 DEF Ended, Fields, Alive, Joined, Finish, opVars, listenerVars, connVars, nodeVars
<1>32. ASSUME NEW g \in Generation, RunFails(g) PROVE Ended'
  BY AskersDiffer, <1>32 DEF Ended, Fields, Alive, Joined, RunFails, opVars, listenerVars, connVars, nodeVars
<1>33. ASSUME UNCHANGED vars PROVE Ended'
  BY AskersDiffer, <1>33 DEF Ended, Fields, Alive, Joined, vars, opVars, listenerVars, connVars, nodeVars
<1>. QED
  BY <1>1, <1>2, <1>3, <1>4, <1>5, <1>6, <1>7, <1>8, <1>9, <1>10, <1>11, <1>12, <1>13, <1>14, <1>15, <1>16, <1>17, <1>18, <1>19, <1>20, <1>21, <1>22, <1>23, <1>24, <1>25, <1>26, <1>27, <1>28, <1>29, <1>30, <1>31, <1>32, <1>33 DEF Next, Operator, Listener, Serve, Customer, Updater, NodeListener

-----------------------------------------------------------------------------
\* Who waits for the lock is in its queue once.

LEMMA QueueStep ==
  ASSUME Fields, Queue, [Next]_vars
  PROVE  Queue'
<1>1. ASSUME NEW c \in Commands, ReadCommand(c) PROVE Queue'
  <2>1. Enqueue("op") /\ (op' = "joining" => op = "joining")
    BY <1>1, AskersDiffer DEF ReadCommand, opVars
  <2>2. "op" \notin Waiters /\ Waiters' = Waiters \cup {"op"}
    BY <1>1, AskersDiffer DEF Waiters, Fields, Busy, ReadCommand, opVars, listenerVars, connVars, nodeVars
  <2>3. QED
    BY <2>1, <2>2, EnqueueQueue DEF Asker
<1>2. ASSUME Up PROVE Queue'
  <2>1. Holds("op") /\ Release /\ op' # "joining"
    BY <1>2, AskersDiffer DEF Queue, Holds, Fields, Up, Given, opVars
  <2>2. Waiters' = Waiters \ {"op"}
    BY <1>2, AskersDiffer DEF Waiters, Fields, Busy, Up, Given, Release, nodeVars, opVars, listenerVars, connVars, nodeVars
  <2>3. QED
    BY <2>1, <2>2, ReleaseQueue
<1>3. ASSUME Down PROVE Queue'
  <2>1. UNCHANGED lock /\ (op' = "joining" => Holds("op"))
    BY <1>3 DEF Queue, Down, Given, opVars
  <2>2. Waiters' = Waiters
    BY <1>3, AskersDiffer DEF Waiters, Fields, Busy, Down, Given, opVars, listenerVars, connVars, nodeVars
  <2>3. QED
    BY <2>1, <2>2, UnchangedQueue
<1>4. ASSUME DownJoined PROVE Queue'
  <2>1. Holds("op") /\ Release /\ op' # "joining"
    BY <1>4, AskersDiffer DEF Queue, Holds, Fields, DownJoined, opVars
  <2>2. Waiters' = Waiters \ {"op"}
    BY <1>4, AskersDiffer DEF Waiters, Fields, Busy, DownJoined, opVars, listenerVars, connVars, nodeVars
  <2>3. QED
    BY <2>1, <2>2, ReleaseQueue
<1>5. ASSUME Shutdown PROVE Queue'
  <2>1. Holds("op") /\ Release /\ op' # "joining"
    BY <1>5, AskersDiffer DEF Queue, Holds, Fields, Shutdown, Given, opVars
  <2>2. Waiters' = Waiters \ {"op"}
    BY <1>5, AskersDiffer DEF Waiters, Fields, Busy, Shutdown, Given, opVars, listenerVars, connVars, nodeVars
  <2>3. QED
    BY <2>1, <2>2, ReleaseQueue
<1>6. ASSUME Leave PROVE Queue'
  <2>1. UNCHANGED lock /\ (op' = "joining" => Holds("op"))
    BY <1>6 DEF Queue, Leave, opVars
  <2>2. Waiters' = Waiters
    BY <1>6, AskersDiffer DEF Waiters, Fields, Busy, Leave, opVars, listenerVars, connVars, nodeVars
  <2>3. QED
    BY <2>1, <2>2, UnchangedQueue
<1>7. ASSUME Sell PROVE Queue'
  <2>1. Holds("op") /\ Release /\ op' # "joining"
    BY <1>7, AskersDiffer DEF Queue, Holds, Fields, Sell, Given, opVars
  <2>2. Waiters' = Waiters \ {"op"}
    BY <1>7, AskersDiffer DEF Waiters, Fields, Busy, Sell, Given, opVars, listenerVars, connVars, nodeVars
  <2>3. QED
    BY <2>1, <2>2, ReleaseQueue
<1>8. ASSUME FileFails PROVE Queue'
  <2>1. Holds("op") /\ Release /\ op' # "joining"
    BY <1>8, AskersDiffer DEF Queue, Holds, Fields, FileFails, Given, opVars
  <2>2. Waiters' = Waiters \ {"op"}
    BY <1>8, AskersDiffer DEF Waiters, Fields, Busy, FileFails, Given, opVars, listenerVars, connVars, nodeVars
  <2>3. QED
    BY <2>1, <2>2, ReleaseQueue
<1>9. ASSUME SendStart PROVE Queue'
  <2>1. UNCHANGED lock /\ (op' = "joining" => Holds("op"))
    BY <1>9 DEF Queue, SendStart, opVars
  <2>2. Waiters' = Waiters
    BY <1>9, AskersDiffer DEF Waiters, Fields, Busy, SendStart, opVars, listenerVars, connVars, nodeVars
  <2>3. QED
    BY <2>1, <2>2, UnchangedQueue
<1>10. ASSUME HandleStart PROVE Queue'
  <2>1. UNCHANGED lock /\ (op' = "joining" => Holds("op"))
    BY <1>10 DEF Queue, HandleStart, opVars
  <2>2. Waiters' = Waiters
    BY <1>10, AskersDiffer DEF Waiters, Fields, Busy, HandleStart, opVars, listenerVars, connVars, nodeVars
  <2>3. QED
    BY <2>1, <2>2, UnchangedQueue
<1>11. ASSUME HandleStop PROVE Queue'
  <2>1. UNCHANGED lock /\ (op' = "joining" => Holds("op"))
    BY <1>11 DEF Queue, HandleStop, opVars
  <2>2. Waiters' = Waiters
    BY <1>11, AskersDiffer DEF Waiters, Fields, Busy, HandleStop, opVars, listenerVars, connVars, nodeVars
  <2>3. QED
    BY <2>1, <2>2, UnchangedQueue
<1>12. ASSUME StopAccepting PROVE Queue'
  <2>1. UNCHANGED lock /\ (op' = "joining" => Holds("op"))
    BY <1>12 DEF Queue, StopAccepting, opVars
  <2>2. Waiters' = Waiters
    BY <1>12, AskersDiffer DEF Waiters, Fields, Busy, StopAccepting, opVars, listenerVars, connVars, nodeVars
  <2>3. QED
    BY <2>1, <2>2, UnchangedQueue
<1>13. ASSUME StopListening PROVE Queue'
  <2>1. UNCHANGED lock /\ (op' = "joining" => Holds("op"))
    BY <1>13 DEF Queue, StopListening, opVars
  <2>2. Waiters' = Waiters
    BY <1>13, AskersDiffer DEF Waiters, Fields, Busy, StopListening, opVars, listenerVars, connVars, nodeVars
  <2>3. QED
    BY <2>1, <2>2, UnchangedQueue
<1>14. ASSUME AcceptFails PROVE Queue'
  <2>1. UNCHANGED lock /\ (op' = "joining" => Holds("op"))
    BY <1>14 DEF Queue, AcceptFails, opVars
  <2>2. Waiters' = Waiters
    BY <1>14, AskersDiffer DEF Waiters, Fields, Busy, AcceptFails, opVars, listenerVars, connVars, nodeVars
  <2>3. QED
    BY <2>1, <2>2, UnchangedQueue
<1>15. ASSUME Wake PROVE Queue'
  <2>1. CASE op = "leaving"
    BY <1>15, <2>1, UnchangedQueue, AskersDiffer DEF Wake, opVars, connVars, Waiters
  <2>2. CASE op # "leaving"
    <3>1. "updater" \notin Waiters /\ Waiters' = Waiters \cup {"updater"}
      BY <1>15, <2>2, AskersDiffer DEF Wake, opVars, connVars, Waiters
    <3>2. Enqueue("updater") /\ UNCHANGED op
      BY <1>15, <2>2 DEF Wake, opVars
    <3>3. QED
      BY <3>1, <3>2, EnqueueQueue DEF Asker
  <2>3. QED
    BY <2>1, <2>2
<1>16. ASSUME Broadcast PROVE Queue'
  <2>1. Holds("updater") /\ Release /\ op' # "joining"
    BY <1>16, AskersDiffer DEF Queue, Holds, Fields, Broadcast, opVars
  <2>2. Waiters' = Waiters \ {"updater"}
    BY <1>16, AskersDiffer DEF Waiters, Fields, Busy, Broadcast, opVars, listenerVars, connVars, nodeVars
  <2>3. QED
    BY <2>1, <2>2, ReleaseQueue
<1>17. ASSUME NEW k \in Conn, Connect(k) PROVE Queue'
  <2>1. UNCHANGED lock /\ (op' = "joining" => Holds("op"))
    BY <1>17 DEF Queue, Connect, opVars
  <2>2. Waiters' = Waiters
    BY <1>17, AskersDiffer DEF Waiters, Fields, Busy, Connect, opVars, listenerVars, connVars, nodeVars
  <2>3. QED
    BY <2>1, <2>2, UnchangedQueue
<1>18. ASSUME NEW k \in Conn, LearnMe(k) PROVE Queue'
  <2>1. Holds(k) /\ Requeue(k) /\ UNCHANGED op
    BY <1>18 DEF LearnMe, Proceed, opVars
  <2>2. Waiters' = Waiters
    BY <1>18, AskersDiffer DEF Waiters, Fields, Busy, LearnMe, Proceed, opVars, listenerVars, connVars, nodeVars
  <2>3. QED
    BY <2>1, <2>2, RequeueQueue
<1>19. ASSUME NEW k \in Conn, Ask(k) PROVE Queue'
  <2>1. UNCHANGED lock /\ (op' = "joining" => Holds("op"))
    BY <1>19 DEF Queue, Ask, opVars
  <2>2. Waiters' = Waiters
    BY <1>19, AskersDiffer DEF Waiters, Fields, Busy, Ask, opVars, listenerVars, connVars, nodeVars
  <2>3. QED
    BY <2>1, <2>2, UnchangedQueue
<1>20. ASSUME NEW k \in Conn, AskFails(k) PROVE Queue'
  <2>1. Holds(k) /\ Release /\ op' # "joining"
    BY <1>20, AskersDiffer DEF Queue, Holds, Fields, AskFails, opVars
  <2>2. Waiters' = Waiters \ {k}
    BY <1>20, AskersDiffer DEF Waiters, Fields, Busy, AskFails, End, opVars, listenerVars, connVars, nodeVars
  <2>3. QED
    BY <2>1, <2>2, ReleaseQueue
<1>21. ASSUME NEW k \in Conn, Answered(k) PROVE Queue'
  <2>1. Holds(k) /\ Requeue(k) /\ UNCHANGED op
    BY <1>21 DEF Answered, Proceed, opVars
  <2>2. Waiters' = Waiters
    BY <1>21, AskersDiffer DEF Waiters, Fields, Busy, Answered, Proceed, opVars, listenerVars, connVars, nodeVars
  <2>3. QED
    BY <2>1, <2>2, RequeueQueue
<1>22. ASSUME NEW k \in Conn, Timeout(k) PROVE Queue'
  <2>1. Holds(k) /\ Release /\ op' # "joining"
    BY <1>22, AskersDiffer DEF Queue, Holds, Fields, Timeout, opVars
  <2>2. Waiters' = Waiters \ {k}
    BY <1>22, AskersDiffer DEF Waiters, Fields, Busy, Timeout, End, opVars, listenerVars, connVars, nodeVars
  <2>3. QED
    BY <2>1, <2>2, ReleaseQueue
<1>23. ASSUME NEW k \in Conn, Notify(k) PROVE Queue'
  <2>1. Holds(k) /\ Release /\ op' # "joining"
    BY <1>23, AskersDiffer DEF Queue, Holds, Fields, Notify, opVars
  <2>2. Waiters' = Waiters \ {k}
    BY <1>23, AskersDiffer DEF Waiters, Fields, Busy, Notify, opVars, listenerVars, connVars, nodeVars
  <2>3. QED
    BY <2>1, <2>2, ReleaseQueue
<1>24. ASSUME NEW k \in Conn, NotifyFails(k) PROVE Queue'
  <2>1. Holds(k) /\ Release /\ op' # "joining"
    BY <1>24, AskersDiffer DEF Queue, Holds, Fields, NotifyFails, opVars
  <2>2. Waiters' = Waiters \ {k}
    BY <1>24, AskersDiffer DEF Waiters, Fields, Busy, NotifyFails, End, opVars, listenerVars, connVars, nodeVars
  <2>3. QED
    BY <2>1, <2>2, ReleaseQueue
<1>25. ASSUME NEW k \in Conn, Close(k) PROVE Queue'
  <2>1. UNCHANGED lock /\ (op' = "joining" => Holds("op"))
    BY <1>25 DEF Queue, Close, End, opVars
  <2>2. Waiters' = Waiters
    BY <1>25, AskersDiffer DEF Waiters, Fields, Busy, Close, End, opVars, listenerVars, connVars, nodeVars
  <2>3. QED
    BY <2>1, <2>2, UnchangedQueue
<1>26. ASSUME NEW k \in Conn, Hangup(k) PROVE Queue'
  <2>1. UNCHANGED lock /\ (op' = "joining" => Holds("op"))
    BY <1>26 DEF Queue, Hangup, End, opVars
  <2>2. Waiters' = Waiters
    BY <1>26, AskersDiffer DEF Waiters, Fields, Busy, Hangup, End, opVars, listenerVars, connVars, nodeVars
  <2>3. QED
    BY <2>1, <2>2, UnchangedQueue
<1>27. ASSUME NEW k \in Conn, NEW m \in 0 .. MaxPeers, Order(k, m) PROVE Queue'
  <2>1. Enqueue(k) /\ (op' = "joining" => op = "joining")
    BY <1>27, AskersDiffer DEF Order, opVars
  <2>2. k \notin Waiters /\ Waiters' = Waiters \cup {k}
    BY <1>27, AskersDiffer DEF Waiters, Fields, Busy, Order, opVars, listenerVars, connVars, nodeVars
  <2>3. QED
    BY <2>1, <2>2, EnqueueQueue DEF Asker
<1>28. ASSUME NEW k \in Conn, NEW m \in 0 .. MaxPeers, Decide(k, m) PROVE Queue'
  <2>1. Enqueue(k) /\ (op' = "joining" => op = "joining")
    BY <1>28, AskersDiffer DEF Decide, opVars
  <2>2. k \notin Waiters /\ Waiters' = Waiters \cup {k}
    BY <1>28, AskersDiffer DEF Waiters, Fields, Busy, Decide, opVars, listenerVars, connVars, nodeVars
  <2>3. QED
    BY <2>1, <2>2, EnqueueQueue DEF Asker
<1>29. ASSUME NEW g \in Generation, Bind(g) PROVE Queue'
  <2>1. UNCHANGED lock /\ (op' = "joining" => Holds("op"))
    BY <1>29 DEF Queue, Bind, opVars
  <2>2. Waiters' = Waiters
    BY <1>29, AskersDiffer DEF Waiters, Fields, Busy, Bind, opVars, listenerVars, connVars, nodeVars
  <2>3. QED
    BY <2>1, <2>2, UnchangedQueue
<1>30. ASSUME NEW g \in Generation, SeeCancel(g) PROVE Queue'
  <2>1. UNCHANGED lock /\ (op' = "joining" => Holds("op"))
    BY <1>30 DEF Queue, SeeCancel, opVars
  <2>2. Waiters' = Waiters
    BY <1>30, AskersDiffer DEF Waiters, Fields, Busy, SeeCancel, opVars, listenerVars, connVars, nodeVars
  <2>3. QED
    BY <2>1, <2>2, UnchangedQueue
<1>31. ASSUME NEW g \in Generation, Finish(g) PROVE Queue'
  <2>1. UNCHANGED lock /\ (op' = "joining" => Holds("op"))
    BY <1>31 DEF Queue, Finish, opVars
  <2>2. Waiters' = Waiters
    BY <1>31, AskersDiffer DEF Waiters, Fields, Busy, Finish, opVars, listenerVars, connVars, nodeVars
  <2>3. QED
    BY <2>1, <2>2, UnchangedQueue
<1>32. ASSUME NEW g \in Generation, RunFails(g) PROVE Queue'
  <2>1. UNCHANGED lock /\ (op' = "joining" => Holds("op"))
    BY <1>32 DEF Queue, RunFails, opVars
  <2>2. Waiters' = Waiters
    BY <1>32, AskersDiffer DEF Waiters, Fields, Busy, RunFails, opVars, listenerVars, connVars, nodeVars
  <2>3. QED
    BY <2>1, <2>2, UnchangedQueue
<1>33. ASSUME UNCHANGED vars PROVE Queue'
  <2>1. UNCHANGED lock /\ (op' = "joining" => Holds("op"))
    BY <1>33 DEF Queue, vars, opVars
  <2>2. Waiters' = Waiters
    BY <1>33, AskersDiffer DEF Waiters, Fields, Busy, vars, opVars, listenerVars, connVars, nodeVars
  <2>3. QED
    BY <2>1, <2>2, UnchangedQueue
<1>. QED
  BY <1>1, <1>2, <1>3, <1>4, <1>5, <1>6, <1>7, <1>8, <1>9, <1>10, <1>11, <1>12, <1>13, <1>14, <1>15, <1>16, <1>17, <1>18, <1>19, <1>20, <1>21, <1>22, <1>23, <1>24, <1>25, <1>26, <1>27, <1>28, <1>29, <1>30, <1>31, <1>32, <1>33 DEF Next, Operator, Listener, Serve, Customer, Updater, NodeListener

-----------------------------------------------------------------------------
\* The invariant, and what follows from it.

LEMMA InitInv == Init => IInv
<1>1. SUFFICES ASSUME Init PROVE IInv
  OBVIOUS
<1>2. Fields
  <2>1. mailbox \in Seq({"Start", "Down", "Shutdown"})
    BY <1>1 DEF Init
  <2>2. run \in [Generation -> {"off", "connecting", "accepting", "ending", "failed"}]
    BY <1>1 DEF Init
  <2>3. pc \in [Conn -> {"free", "idle", "learning", "asking", "waiting", "notifying"}]
    BY <1>1 DEF Init
  <2>4. parties \in [Conn -> Nat] /\ left \in [Conn -> Nat]
    BY <1>1 DEF Init
  <2>5. \A k \in Conn : pc[k] = "asking" => left[k] > 0
    BY <1>1 DEF Init
  <2>6. QED
    BY <1>1, <2>1, <2>2, <2>3, <2>4, <2>5 DEF Init, Fields
<1>3. Queue
  <2>1. Waiters = {}
    BY <1>1, AskersDiffer DEF Init, Waiters, Busy
  <2>2. QED
    BY <1>1, <2>1, AskersDiffer DEF Init, Queue
<1>4. Tasks /\ Ended
  BY <1>1 DEF Init, Tasks, Ended
<1>5. QED
  BY <1>2, <1>3, <1>4 DEF IInv

LEMMA StepInv == IInv /\ [Next]_vars => IInv'
  BY FieldsStep, QueueStep, TasksStep, EndedStep DEF IInv

LEMMA Invariance == Spec => []IInv
  BY InitInv, StepInv, PTL DEF Spec

\* All fields keep their types: the lock's queue holds those who have asked
\* for it and not given it back, each once, and the countdown of the stores of
\* a plan never passes zero (connection.rs:146-158).
THEOREM LifecycleTypes == Spec => []TypeOK
<1>1. Queue => lock \in Seq(Asker) /\ Range(lock) = Waiters /\ IsInjective(lock)
  <2> SUFFICES ASSUME Queue
               PROVE  lock \in Seq(Asker) /\ Range(lock) = Waiters /\ IsInjective(lock)
    OBVIOUS
  <2>1. lock \in Seq(Asker) /\ DOMAIN lock = 1 .. Len(lock)
    BY DEF Queue
  <2>2. Range(lock) = Waiters
    BY <2>1 DEF Queue, Range
  <2>3. IsInjective(lock)
    BY <2>1 DEF Queue, IsInjective
  <2>4. QED
    BY <2>1, <2>2, <2>3
<1>2. IInv => TypeOK
  BY <1>1 DEF IInv, Fields, Asker, TypeOK
<1>3. QED
  BY <1>2, Invariance, PTL

\* A Listener that would accept a Start serves nobody, but for tasks that an
\* error of accept has left alone (listen.rs:66-107, 125-128).
THEOREM ServedOnlyWhileListening == Spec => []ServedWhileListening
<1>1. IInv => ServedWhileListening
  BY DEF IInv, Tasks, ServedWhileListening, OnlyOrphans
<1>2. QED
  BY <1>1, Invariance, PTL

\* A program that S has ended serves nobody, and nobody has or wants the lock,
\* but for such tasks (sysctl/listener.rs:122-125).
THEOREM ShutdownIsClean == Spec => []EndsClean
<1>1. ASSUME IInv, op = "ended" PROVE OnlyOrphans /\ Range(lock) \subseteq orphans
  <2>1. OnlyOrphans
    BY <1>1 DEF IInv, Ended, Tasks, OnlyOrphans
  <2>2. Waiters \subseteq orphans
    BY <1>1, <2>1, AskersDiffer DEF IInv, Ended, Waiters, Busy, OnlyOrphans
  <2>3. lock \in Seq(Asker) /\ \A i \in 1 .. Len(lock) : lock[i] \in Waiters
    BY <1>1 DEF IInv, Queue
  <2>4. Range(lock) \subseteq orphans
    BY <2>2, <2>3 DEF Range
  <2>5. QED
    BY <2>1, <2>4
<1>2. IInv => EndsClean
  BY <1>1 DEF EndsClean
<1>3. QED
  BY <1>2, Invariance, PTL

\* When D returns, every connection that the listener has the handle of is
\* closed, and no Start is on its way (sysctl/listener.rs:71-81).
THEOREM NetDownClean == Spec => NetDownIsClean
<1>. DEFINE Clean ==
       (op = "joining" /\ op' = "reading") =>
         OnlyOrphans /\ state = "Waiting" /\ spawned = 0 /\ "Start" \notin Range(mailbox)
<1>1. ASSUME IInv, Next, op = "joining", op' = "reading" PROVE DownJoined
  BY <1>1, AskersDiffer
  DEF Next, Operator, Listener, Serve, Customer, Updater, NodeListener, ReadCommand, Up, Down,
      Given, Shutdown, Leave, Sell, FileFails, SendStart, HandleStart, HandleStop, StopAccepting,
      StopListening, AcceptFails, Wake, Broadcast, Connect, LearnMe, Ask, AskFails, Answered,
      Timeout, Notify, NotifyFails, Close, Hangup, Proceed, Order, Decide, Bind, SeeCancel, Finish,
      RunFails, opVars
<1>2. IInv /\ [Next]_vars => [Clean]_vars
  <2>1. ASSUME IInv, Next, op = "joining", op' = "reading"
        PROVE  OnlyOrphans /\ state = "Waiting" /\ spawned = 0 /\ "Start" \notin Range(mailbox)
    BY <1>1, <2>1 DEF DownJoined, Joined, IInv, Tasks, OnlyOrphans
  <2>2. QED
    BY <2>1
<1>3. QED
  BY <1>2, Invariance, PTL DEF Spec, NetDownIsClean
=============================================================================
