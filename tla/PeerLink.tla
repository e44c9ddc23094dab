------------------------------ MODULE PeerLink ------------------------------
(***************************************************************************)
(* The connections between stores (local/node_comm/node_listener.rs and    *)
(* node_communication.rs): how a store that comes up connects to those of  *)
(* its list, how the two ends get to know each other, and how connections  *)
(* end and come back when a store goes down, crashes or loses one.         *)
(*                                                                         *)
(* A connection ties one run of a store to one run of another, and is two  *)
(* ends, each with a reading task and a writer. An end is a tuple <<n, i,  *)
(* m, j>>, the end that run i of n has of its connection with run j of m:  *)
(* a store connects to its list before it accepts, so that two runs never  *)
(* have more than one connection. Requests and answers, which do not       *)
(* change who is connected, are left to PurchaseNetwork.                   *)
(***************************************************************************)
EXTENDS Naturals, Sequences, Functions

CONSTANTS
  Node,      \* the stores
  list,      \* list[n]: the stores whose ports n is given at its start
  Fragile,   \* the pairs <<n, m>> such that n may lose its connection with m
  MayCrash,  \* stores that may end without closing anything properly
  MaxRuns,   \* bound on the times a store is started
  MaxQueue,  \* bound on the unread messages of an end that is announced to
  None       \* no writer

ASSUME ListAssumption == list \in [Node -> SUBSET Node]
ASSUME FragileAssumption == Fragile \subseteq Node \X Node
ASSUME MayCrashAssumption == MayCrash \subseteq Node
ASSUME BoundsAssumption == MaxRuns \in Nat /\ MaxQueue \in Nat

Run == 1 .. MaxRuns

End == {e \in Node \X Run \X Node \X Run : e[1] # e[3]}

ASSUME NoneAssumption == None \notin End

VARIABLES
  runs,     \* runs[n]: how often n was started
  phase,    \* phase[n]: "down", "connecting" to its list, or "accepting"
  todo,     \* todo[n]: stores of its list that it has not tried
  reader,   \* reader[e]: the reading task; "unknown" until it learns who is
            \* at the other end and hands over the writer, then "known"
  half,     \* half[e]: the writer of e: "open" wherever it is, or "dropped"
  bytes,    \* bytes[e]: what was sent to e and not read
  mailbox,  \* mailbox[n]: the channel of PeerMessages
  writer,   \* writer[n][m]: peers_writer, whose end it is that n writes m to
  online    \* online[n]: the stores that n's actor takes to be online

vars == <<runs, phase, todo, reader, half, bytes, mailbox, writer, online>>

-----------------------------------------------------------------------------
Me(e) == e[1]
Peer(e) == e[3]
Other(e) == <<e[3], e[4], e[1], e[2]>>

Open(e) == reader[e] \in {"unknown", "known"}

\* The run that e belongs to is the present one of its store: what its task
\* puts into the mailbox is handled.
Current(e) == e[2] = runs[Me(e)] /\ phase[Me(e)] # "down"

PeerUp(e) == [type |-> "PeerUp", end |-> e]
PeerDown(m) == [type |-> "PeerDown", peer |-> m]

Posted(e, msg) ==
  IF Current(e) THEN [mailbox EXCEPT ![Me(e)] = Append(@, msg)] ELSE mailbox

-----------------------------------------------------------------------------
\* Coming up.

\* The operator's U, or the start of the program: a new NodeCommunication.
Up(n) ==
  /\ phase[n] = "down" /\ runs[n] < MaxRuns
  /\ runs' = [runs EXCEPT ![n] = @ + 1]
  /\ phase' = [phase EXCEPT ![n] = "connecting"]
  /\ todo' = [todo EXCEPT ![n] = list[n] \ {n}]
  /\ UNCHANGED <<reader, half, bytes, mailbox, writer, online>>

\* Both ends of a new connection have a task, which first says Hello.
Connect(n, m) ==
  /\ phase[n] = "connecting" /\ m \in todo[n]
  /\ todo' = [todo EXCEPT ![n] = @ \ {m}]
  /\ phase[m] = "accepting"
  /\ LET e == <<n, runs[n], m, runs[m]>> IN
       /\ reader' = [reader EXCEPT ![e] = "unknown", ![Other(e)] = "unknown"]
       /\ half' = [half EXCEPT ![e] = "open", ![Other(e)] = "open"]
       /\ bytes' = [bytes EXCEPT ![e] = <<"Hello">>, ![Other(e)] = <<"Hello">>]
  /\ UNCHANGED <<runs, phase, mailbox, writer, online>>

\* Nobody listens there: the store is not tried again.
ConnectFails(n, m) ==
  /\ phase[n] = "connecting" /\ m \in todo[n]
  /\ todo' = [todo EXCEPT ![n] = @ \ {m}]
  /\ phase[m] # "accepting"
  /\ UNCHANGED <<runs, phase, reader, half, bytes, mailbox, writer, online>>

\* All were tried; the port is free once the tasks of the run before have
\* ended (what happens if they have not is NodeLifecycle's).
Bind(n) ==
  /\ phase[n] = "connecting" /\ todo[n] = {}
  /\ \A e \in End : Me(e) = n /\ Open(e) => Current(e)
  /\ phase' = [phase EXCEPT ![n] = "accepting"]
  /\ UNCHANGED <<runs, todo, reader, half, bytes, mailbox, writer, online>>

-----------------------------------------------------------------------------
\* The reading task.

\* The task learns whom it reads from, and hands its writer over.
Introduced(e) ==
  IF reader[e] = "unknown"
  THEN /\ reader' = [reader EXCEPT ![e] = "known"]
       /\ mailbox' = Posted(e, PeerUp(e))
  ELSE UNCHANGED <<reader, mailbox>>

ReadHello(e) ==
  /\ Open(e) /\ bytes[e] # <<>> /\ Head(bytes[e]) = "Hello"
  /\ bytes' = [bytes EXCEPT ![e] = Tail(@)]
  /\ Introduced(e)
  /\ UNCHANGED <<runs, phase, todo, half, writer, online>>

\* Mutant of ReadUpdate: a peer is only introduced by its Hello.
ReadUpdateOnly(e) ==
  /\ Open(e) /\ bytes[e] # <<>> /\ Head(bytes[e]) = "Update"
  /\ bytes' = [bytes EXCEPT ![e] = Tail(@)]
  /\ online' = [online EXCEPT ![Me(e)] = @ \cup {Peer(e)}]
  /\ UNCHANGED <<runs, phase, todo, reader, half, mailbox, writer>>

\* The actor answers an announcement with MaybeNew: as good as a Hello.
ReadUpdate(e) ==
  /\ Open(e) /\ bytes[e] # <<>> /\ Head(bytes[e]) = "Update"
  /\ bytes' = [bytes EXCEPT ![e] = Tail(@)]
  /\ online' = [online EXCEPT ![Me(e)] = @ \cup {Peer(e)}]
  /\ Introduced(e)
  /\ UNCHANGED <<runs, phase, todo, half, writer>>

\* One read returns several messages, which do not parse: they are dropped.
Coalesced(e) ==
  /\ Open(e)
  /\ \E i \in 2 .. Len(bytes[e]) :
       bytes' = [bytes EXCEPT ![e] = SubSeq(@, i + 1, Len(@))]
  /\ UNCHANGED <<runs, phase, todo, reader, half, mailbox, writer, online>>

\* Mutant of Ends: the actor is told, the table of writers is not.
EndsForActor(e) ==
  /\ reader' = [reader EXCEPT ![e] = "ended"]
  /\ bytes' = [bytes EXCEPT ![e] = <<>>]
  /\ IF reader[e] = "known"
     THEN online' = [online EXCEPT ![Me(e)] = @ \ {Peer(e)}] /\ UNCHANGED half
     ELSE half' = [half EXCEPT ![e] = "dropped"] /\ UNCHANGED online
  /\ UNCHANGED <<runs, phase, todo, mailbox, writer>>

\* Mutant of Ends: the table of writers is told, the actor is not.
EndsForTable(e) ==
  /\ reader' = [reader EXCEPT ![e] = "ended"]
  /\ bytes' = [bytes EXCEPT ![e] = <<>>]
  /\ IF reader[e] = "known"
     THEN mailbox' = Posted(e, PeerDown(Peer(e))) /\ UNCHANGED half
     ELSE half' = [half EXCEPT ![e] = "dropped"] /\ UNCHANGED mailbox
  /\ UNCHANGED <<runs, phase, todo, writer, online>>

\* The task ends: the peer, if known, goes offline and its writer is to be
\* removed; otherwise the task still has the writer, and drops it.
Ends(e) ==
  /\ reader' = [reader EXCEPT ![e] = "ended"]
  /\ bytes' = [bytes EXCEPT ![e] = <<>>]
  /\ IF reader[e] = "known"
     THEN /\ online' = [online EXCEPT ![Me(e)] = @ \ {Peer(e)}]
          /\ mailbox' = Posted(e, PeerDown(Peer(e)))
          /\ UNCHANGED half
     ELSE /\ half' = [half EXCEPT ![e] = "dropped"]
          /\ UNCHANGED <<online, mailbox>>
  /\ UNCHANGED <<runs, phase, todo, writer>>

\* All was read, and the other end has dropped its writer.
EndOfFile(e) ==
  /\ Open(e) /\ bytes[e] = <<>> /\ half[Other(e)] = "dropped"
  /\ Ends(e)

\* The token of the run is cancelled.
Cancelled(e) == Open(e) /\ ~Current(e) /\ Ends(e)

\* The network breaks the connection at this end.
Break(e) == <<Me(e), Peer(e)>> \in Fragile /\ Open(e) /\ Ends(e)

-----------------------------------------------------------------------------
\* NodeCommunication::run and broadcast.

\* The writer that is replaced, if any, is dropped.
HandlePeerUp(n) ==
  /\ mailbox[n] # <<>> /\ Head(mailbox[n]).type = "PeerUp"
  /\ LET e == Head(mailbox[n]).end
         old == writer[n][Peer(e)]
     IN /\ writer' = [writer EXCEPT ![n][Peer(e)] = e]
        /\ half' = IF old = None THEN half ELSE [half EXCEPT ![old] = "dropped"]
  /\ mailbox' = [mailbox EXCEPT ![n] = Tail(@)]
  /\ UNCHANGED <<runs, phase, todo, reader, bytes, online>>

\* Whatever connection it is about, the writer for that store is dropped.
HandlePeerDown(n) ==
  /\ mailbox[n] # <<>> /\ Head(mailbox[n]).type = "PeerDown"
  /\ LET m == Head(mailbox[n]).peer
         old == writer[n][m]
     IN /\ writer' = [writer EXCEPT ![n][m] = None]
        /\ half' = IF old = None THEN half ELSE [half EXCEPT ![old] = "dropped"]
  /\ mailbox' = [mailbox EXCEPT ![n] = Tail(@)]
  /\ UNCHANGED <<runs, phase, todo, reader, bytes, online>>

\* The updater announces the stock to every store there is a writer for.
Broadcast(n) ==
  /\ phase[n] # "down"
  /\ LET to == {writer[n][m] : m \in Node} \ {None} IN
       /\ \E e \in to : Open(Other(e))
       /\ \A e \in to : Len(bytes[Other(e)]) < MaxQueue
       /\ bytes' = [e \in End |-> IF Other(e) \in to /\ Open(e)
                                  THEN Append(bytes[e], "Update") ELSE bytes[e]]
  /\ UNCHANGED <<runs, phase, todo, reader, half, mailbox, writer, online>>

-----------------------------------------------------------------------------
\* Going down.

\* Mutant of Down: the table of the earlier run is still used.
DownKeepingWriters(n) ==
  /\ phase[n] = "accepting"
  /\ phase' = [phase EXCEPT ![n] = "down"]
  /\ mailbox' = [mailbox EXCEPT ![n] = <<>>]
  /\ UNCHANGED <<runs, todo, reader, half, bytes, writer, online>>

\* The operator's D: the NodeListener forgets its NodeCommunication.
Down(n) ==
  /\ phase[n] = "accepting"
  /\ phase' = [phase EXCEPT ![n] = "down"]
  /\ mailbox' = [mailbox EXCEPT ![n] = <<>>]
  /\ writer' = [writer EXCEPT ![n] = [m \in Node |-> None]]
  /\ UNCHANGED <<runs, todo, reader, half, bytes, online>>

\* Nobody has the NodeCommunication of an earlier run any more: the writers
\* it had are dropped.
Release(n) ==
  LET old == {e \in End : Me(e) = n /\ ~Current(e)} IN
  /\ \A e \in old : ~Open(e)
  /\ \E e \in old : half[e] = "open"
  /\ half' = [e \in End |-> IF e \in old /\ half[e] = "open" THEN "dropped" ELSE half[e]]
  /\ UNCHANGED <<runs, phase, todo, reader, bytes, mailbox, writer, online>>

\* The program ends, by S or otherwise, and with it all it knew.
Crash(n) ==
  /\ n \in MayCrash
  /\ phase[n] # "down"
  /\ phase' = [phase EXCEPT ![n] = "down"]
  /\ todo' = [todo EXCEPT ![n] = {}]
  /\ reader' = [e \in End |-> IF Me(e) = n /\ Open(e) THEN "ended" ELSE reader[e]]
  /\ half' = [e \in End |-> IF Me(e) = n /\ half[e] = "open" THEN "dropped" ELSE half[e]]
  /\ bytes' = [e \in End |-> IF Me(e) = n THEN <<>> ELSE bytes[e]]
  /\ mailbox' = [mailbox EXCEPT ![n] = <<>>]
  /\ writer' = [writer EXCEPT ![n] = [m \in Node |-> None]]
  /\ online' = [online EXCEPT ![n] = {}]
  /\ UNCHANGED runs

-----------------------------------------------------------------------------

Init ==
  /\ runs = [n \in Node |-> 0]
  /\ phase = [n \in Node |-> "down"]
  /\ todo = [n \in Node |-> {}]
  /\ reader = [e \in End |-> "none"]
  /\ half = [e \in End |-> "none"]
  /\ bytes = [e \in End |-> <<>>]
  /\ mailbox = [n \in Node |-> <<>>]
  /\ writer = [n \in Node |-> [m \in Node |-> None]]
  /\ online = [n \in Node |-> {}]

Read(e) == ReadHello(e) \/ ReadUpdate(e)

Start(n) == Bind(n) \/ \E m \in Node : Connect(n, m) \/ ConnectFails(n, m)

Handle(n) == HandlePeerUp(n) \/ HandlePeerDown(n)

Next ==
  \/ \E n \in Node : \/ Up(n) \/ Start(n) \/ Handle(n) \/ Broadcast(n)
                     \/ Down(n) \/ Release(n) \/ Crash(n)
  \/ \E e \in End : \/ Read(e) \/ Coalesced(e)
                    \/ EndOfFile(e) \/ Cancelled(e) \/ Break(e)

Spec == Init /\ [][Next]_vars

\* The runtime runs the tasks; the updater announces every second.
Fairness ==
  /\ \A n \in Node : /\ WF_vars(Start(n)) /\ WF_vars(Handle(n))
                     /\ WF_vars(Broadcast(n)) /\ WF_vars(Release(n))
  /\ \A e \in End : WF_vars(Read(e)) /\ WF_vars(EndOfFile(e)) /\ WF_vars(Cancelled(e))

FairSpec == Spec /\ Fairness

\* A task is not for ever a second late, which is what makes two announcements
\* one read: again and again it reads a message by itself.
TimelySpec == FairSpec /\ \A e \in End : SF_vars(Read(e))
-----------------------------------------------------------------------------
\* Properties.

IsPeerMessage(n, msg) ==
  \/ msg.type = "PeerUp" /\ msg = PeerUp(msg.end) /\ msg.end \in End /\ Me(msg.end) = n
  \/ msg.type = "PeerDown" /\ msg = PeerDown(msg.peer) /\ msg.peer \in Node \ {n}

\* The fields have their types, and the writer registered for a store is one
\* of a connection of the present run with that store, not yet dropped.
TypeOK ==
  /\ runs \in [Node -> 0 .. MaxRuns]
  /\ phase \in [Node -> {"down", "connecting", "accepting"}]
  /\ todo \in [Node -> SUBSET Node]
  /\ reader \in [End -> {"none", "unknown", "known", "ended"}]
  /\ half \in [End -> {"none", "open", "dropped"}]
  /\ bytes \in [End -> Seq({"Hello", "Update"})]
  /\ DOMAIN mailbox = Node
  /\ \A n \in Node : \A i \in DOMAIN mailbox[n] : IsPeerMessage(n, mailbox[n][i])
  /\ writer \in [Node -> [Node -> End \cup {None}]]
  /\ \A n, m \in Node :
       LET e == writer[n][m] IN
       e # None => Me(e) = n /\ Peer(e) = m /\ Current(e) /\ half[e] = "open"
  /\ online \in [Node -> SUBSET Node]

\* No writer outlives its connection unnoticed: what a store writes a message
\* to is a connection it still reads from, or its removal is on the way, in
\* whatever order two connections with the same store come and go
\* (node_communication.rs:106-111, 386-389).
NoDeadWriter ==
  \A n, m \in Node : writer[n][m] # None =>
    Open(writer[n][m]) \/ PeerDown(m) \in Range(mailbox[n])

\* A store is taken to be online only while there is a connection on which it
\* could still announce itself: nobody plans with the stock of a store that
\* has been gone for longer than it takes to notice (store.rs:495-498).
OnlineIsConnected ==
  \A n \in Node : \A m \in online[n] :
    \E e \in End : Me(e) = n /\ Peer(e) = m /\ reader[e] = "known"

\* When one end of a connection ends, so does the other: no store writes for
\* ever to one that has stopped reading.
EndsTogether ==
  \A e \in End : reader[e] = "ended" ~> reader[Other(e)] = "ended"

Met(n, m) == m \in online[n] /\ n \in online[m]

\* Two stores that are connected come to know each other's stock, although
\* the Hello of one of them may be lost, unless the connection ends.
PeersMeet ==
  \A e \in End :
    Open(e) /\ Open(Other(e)) ~>
      Met(Me(e), Peer(e)) \/ ~Open(e) \/ ~Open(Other(e))

\* A store that enters the network while a store of its list is up gets to
\* know it, unless one of them goes down meanwhile (README.md:31: "Una vez que
\* un nodo entro en la red, este informara a los demas nodos la informacion
\* de su stock").
Entered(n, m) == phase[n] = "connecting" /\ m \in todo[n] /\ phase[m] = "accepting"

EntersNetwork ==
  \A n, m \in Node :
    Entered(n, m) ~> Met(n, m) \/ phase[n] = "down" \/ phase[m] = "down"
=============================================================================
