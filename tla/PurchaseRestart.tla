--------------------------- MODULE PurchaseRestart ---------------------------
(***************************************************************************)
(* PurchaseNetwork with stores that end and are started again.  Nothing is *)
(* persisted: a store that comes back has no stock, no purchases and no    *)
(* beliefs, while purchases with it are on record elsewhere and messages   *)
(* of its earlier life are on their way.                                   *)
(*                                                                         *)
(* How connections come back is PeerLink's; here a store that starts is    *)
(* connected to each store of its links, once that store has noticed the   *)
(* end of the connection before.                                           *)
(***************************************************************************)
EXTENDS PurchaseNetwork

CONSTANTS
  Restarter,   \* the stores that restart
  MaxRestarts  \* bound on the restarts of each

ASSUME RestarterAssumption == Restarter \subseteq Node
ASSUME MaxRestartsAssumption == MaxRestarts \in Nat

VARIABLES
  restarts,  \* restarts[n]: how often n was started again
  joining,   \* joining[n]: the stores that n, started again, has to connect to
  used,      \* history: request ids that were ever drawn
  forgotten  \* history: the <<n, id>> of records that n's restarts have lost

restartVars == <<restarts, joining, used, forgotten>>

-----------------------------------------------------------------------------

\* The program of n ends and is started again: bin/local.rs makes new actors
\* and listeners.  Its peers read what n had sent, and then the end of the
\* stream (LinkLost); the tasks of its customers are gone.
Restart(n) ==
  /\ n \in Restarter /\ restarts[n] < MaxRestarts
  /\ restarts' = [restarts EXCEPT ![n] = @ + 1]
  /\ joining' = [joining EXCEPT ![n] = {m \in Node : <<n, m>> \in Links}]
  /\ stock' = [stock EXCEPT ![n] = Empty]
  /\ txs' = [txs EXCEPT ![n] = Empty]
  /\ peers' = [peers EXCEPT ![n] = Empty]
  /\ alive' = [alive EXCEPT ![n] = TRUE]
  /\ linked' = [linked EXCEPT ![n] = {}]
  /\ chan' = [m \in Node |-> [chan[m] EXCEPT ![n] = <<>>]]
  /\ snap' = [snap EXCEPT ![n] = {}]
  /\ LET gone == {k \in Conn : home[k] = n} IN
       /\ pc' = [k \in Conn |-> IF k \in gone THEN "idle" ELSE pc[k]]
       /\ request' = [k \in Conn |-> IF k \in gone THEN None ELSE request[k]]
       /\ todo' = [k \in Conn |-> IF k \in gone THEN {} ELSE todo[k]]
       /\ peer' = [k \in Conn |-> IF k \in gone THEN None ELSE peer[k]]
       /\ refused' = [k \in Conn |-> refused[k] /\ k \notin gone]
       /\ told' = [k \in Conn |-> IF k \in gone THEN {} ELSE told[k]]
  /\ held' = held \ {n}
  /\ forgotten' = forgotten \cup {<<n, id>> : id \in DOMAIN txs[n]}
  /\ UNCHANGED <<supply, used>>

Join(n, m) ==
  /\ m \in joining[n]
  /\ n \notin linked[m]
  /\ joining' = [joining EXCEPT ![n] = @ \ {m}]
  /\ linked' = [linked EXCEPT ![n] = @ \cup {m}, ![m] = @ \cup {n}]
  /\ chan' = [chan EXCEPT ![n][m] = <<>>, ![m][n] = <<>>]
  /\ UNCHANGED <<storeVars, snap, connVars, held, restarts, used, forgotten>>

\* n reads the end of the stream of a store that was started again.
Noticed(n, m) ==
  /\ m \in linked[n] /\ n \notin linked[m]
  /\ chan[m][n] = <<>>
  /\ Shutdown(n, m)
  /\ linked' = [linked EXCEPT ![n] = @ \ {m}]
  /\ UNCHANGED <<chan, snap, connVars, held, restartVars>>

\* The actor of the store has panicked: a task that sends it a message gets
\* an error and ends.
Deserted(k) ==
  /\ ~alive[home[k]]
  /\ pc[k] = "idle" \/ (pc[k] = "asking" /\ todo[k] = {})
  /\ Close(k)
  /\ UNCHANGED <<storeVars, linkVars, held, restartVars>>

\* What other stores ask of it, or tell it, is read and has no effect.
Unheard(m, n) ==
  /\ ~alive[n]
  /\ chan[m][n] # <<>> /\ Head(chan[m][n]).type # "Response"
  /\ chan' = Rests(m, n)
  /\ UNCHANGED <<storeVars, linked, snap, connVars, held, restartVars>>

-----------------------------------------------------------------------------

RestartInit ==
  /\ Init
  /\ restarts = [n \in Node |-> 0] /\ joining = [n \in Node |-> {}]
  /\ used = {} /\ forgotten = {}

Drawn == UNION {DOMAIN txs'[n] : n \in Node}

\* A step of the network.  Ids are random: none is drawn again after the
\* stores that knew it were restarted.
NetworkStep ==
  /\ Next
  /\ \A k \in Conn :
       (request[k] = None /\ pc'[k] = "planned") => request'[k] \notin used
  /\ used' = used \cup Drawn
  /\ UNCHANGED <<restarts, joining, forgotten>>

RestartNext ==
  \/ NetworkStep
  \/ \E n \in Node : Restart(n)
  \/ \E n \in Node, m \in Node : Join(n, m) \/ Noticed(n, m) \/ Unheard(n, m)
  \/ \E k \in Conn : Deserted(k)

RestartSpec == RestartInit /\ [][RestartNext]_<<vars, restartVars>>
-----------------------------------------------------------------------------
\* Properties.  NoOversell is that of PurchaseNetwork: a restart loses units
\* and the purchases they are in, and never makes a unit sellable twice.

RestartTypeOK ==
  /\ TypeOK
  /\ restarts \in [Node -> 0 .. MaxRestarts]
  /\ joining \in [Node -> SUBSET Node]
  /\ used \subseteq TxId /\ \A n \in Node : DOMAIN txs[n] \subseteq used
  /\ forgotten \subseteq {n \in Node : restarts[n] > 0} \X used

\* No store finishes a purchase that another store cancels, although messages
\* of before a restart are handled after it (connection.rs:197-230,
\* store.rs:246-303).
DecisionsAgree ==
  \A id \in TxId, n \in Node, m \in Node :
    ~(RecordAt(id, n) = "Finalized" /\ RecordAt(id, m) = "Cancelled")

\* A purchase that its store has confirmed was reserved by every store that
\* contributes to it, restarted before or not: it is on record there still,
\* or the store had it on record and was started again since, whatever became
\* of the others (connection.rs:145-182, store.rs:397-452).
ConfirmedUnlessRestarted ==
  \A n, m \in Node : \A id \in DOMAIN txs[n] :
    (txs[n][id].state \in Promised /\ m \in DOMAIN txs[n][id].involved_stock)
      => id \in DOMAIN txs[m] \/ <<m, id>> \in forgotten

\* An actor panics only on account of another store that was started again.
PanicsAfterRestart ==
  \A n \in Node : alive[n] \/ \E m \in Node \ {n} : restarts[m] > 0
=============================================================================
