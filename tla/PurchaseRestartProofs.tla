------------------------ MODULE PurchaseRestartProofs -------------------------
(***************************************************************************)
(* Stores that end and are started again: types are kept, an actor panics  *)
(* and a promise outlives a reservation only on account of a store that    *)
(* was started again, no store finishes what another cancels, and nothing  *)
(* is sold twice.                                                          *)
(*                                                                         *)
(* Which stores were never started again changes, and they are the fewer   *)
(* the more restarts there are.  What is known of a plan (CancelInv) holds *)
(* of these stores only: it is stated for every set gone of stores that    *)
(* contains all that restarted, so that the same set serves before and     *)
(* after a restart.  What is reserved and taken is kept in a ledger of     *)
(* what is on record or was lost with it: a restart moves all records of   *)
(* its store to the set forgotten, and changes nothing in the ledger.      *)
(***************************************************************************)
EXTENDS PurchaseRestart, PurchaseProtocolProofs

-----------------------------------------------------------------------------
\* The inductive invariant.

Gone == {n \in Node : restarts[n] > 0}

\* What ids the stores and the messages between them know.
UsedInv ==
  /\ used \subseteq TxId
  /\ \A n \in Node : DOMAIN txs[n] \subseteq used
  /\ \A m, n \in Node : \A msg \in Range(chan[m][n]) :
       msg.type \in {"Ask"} \cup Decision => msg.id \in used

RestartsInv ==
  /\ restarts \in [Node -> 0 .. MaxRestarts]
  /\ joining \in [Node -> SUBSET Node]
  /\ \A n \in Node : \A m \in joining[n] : <<n, m>> \in Links
  /\ held \subseteq Node
  /\ UsedInv

\* What restarted stores have forgotten was reserved, and took units.  (The
\* lemmas are about a constant set lost, which this one is at each step.)
LedgerInv ==
  \E lost \in {forgotten} :
    lost \subseteq Gone \X used /\ ReserveInv(lost) /\ TakenInv(lost)

RestartInv ==
  /\ TypeInv
  /\ RestartsInv
  /\ \A gone \in SUBSET Node : Gone \subseteq gone => CancelInv(gone)
  /\ LedgerInv

\* A verdict on a purchase is seen on record, on its way or at a task.
Verdict == {"Commit", "Cancel"}

Outcome(d) == IF d = "Commit" THEN "Finalized" ELSE "Cancelled"

SeenOnRecord(id, d) ==
  \E n \in Node : id \in DOMAIN txs[n] /\ txs[n][id].state = Outcome(d)

SeenOnItsWay(id, d) ==
  \E m, n \in Node : \E msg \in Range(chan[m][n]) : msg.type = d /\ msg.id = id

SeenAtTask(id, d) == \E k \in Conn : pc[k] = d /\ request[k] = id

Seen(id, d) == SeenOnRecord(id, d) \/ SeenOnItsWay(id, d) \/ SeenAtTask(id, d)

\* The purchases on which the task of k may still decide.
Undecided(k) ==
  told[k] \cup {id \in {request[k]} : pc[k] \in Working \cup {"Confirm"}}

DecideOnce ==
  /\ \A j, k \in Conn : j # k => Handles(j) \cap Handles(k) = {}
  /\ \A k \in Conn : pc[k] # "idle" => request[k] \notin told[k]
  /\ \A k \in Conn : \A id \in Undecided(k) : \A d \in Verdict : ~Seen(id, d)
  /\ \A id \in TxId : ~(Seen(id, "Commit") /\ Seen(id, "Cancel"))

LEMMA NobodyGone ==
  ASSUME RestartInit
  PROVE  RestartInv
<1>1. Init
  BY DEF RestartInit
<1>2. TypeInv
  BY <1>1, InitialTypes DEF OwnedInv
<1>3. RestartsInv
  BY MaxRestartsAssumption
  DEF RestartInit, Init, StoreInit, RestartsInv, UsedInv, Empty, Range
<1>4. \A gone : CancelInv(gone)
  BY <1>1, InitialCancels
<1>5. LedgerInv
  <2>1. PICK lost : lost = {}
    OBVIOUS
  <2>2. ReserveInv(lost) /\ TakenInv(lost)
    BY <1>1, <2>1, InitialReservations, InitialTaken
  <2>3. QED
    BY <2>1, <2>2 DEF LedgerInv, RestartInit
<1>6. QED
  BY <1>2, <1>3, <1>4, <1>5 DEF RestartInv

\* What is left when the invariants of the network are kept for each set.
LEMMA RestartKept ==
  ASSUME RestartInv, TypeInv', RestartsInv', UNCHANGED <<restarts, forgotten>>,
         used \subseteq used',
         \A gone \in SUBSET Node : CancelInv(gone) => CancelInv(gone)',
         \A lost \in SUBSET (Gone \X used) : ReserveInv(lost) /\ TakenInv(lost) =>
           ReserveInv(lost)' /\ TakenInv(lost)'
  PROVE  RestartInv'
<1>1. Gone' = Gone
  BY DEF Gone
<1>2. LedgerInv'
  <2>1. PICK lost \in {forgotten} :
          lost \subseteq Gone \X used /\ ReserveInv(lost) /\ TakenInv(lost)
    BY DEF RestartInv, LedgerInv
  <2>2. lost \in {forgotten'} /\ lost \subseteq Gone' \X used'
    BY <1>1, <2>1
  <2>3. QED
    BY <2>1, <2>2 DEF LedgerInv
<1>3. QED
  BY <1>1, <1>2 DEF RestartInv

-----------------------------------------------------------------------------
\* A step of the network.

LEMMA NetworkKeepsRestarts ==
  ASSUME RestartInv, NetworkStep
  PROVE  TypeInv' /\ RestartsInv' /\ PlansNews
<1>1. TypeInv /\ RestartsInv /\ UsedInv /\ Next
  BY DEF RestartInv, RestartsInv, NetworkStep
<1>2. PlansNews
  <2> SUFFICES ASSUME NEW k \in Conn, pc[k] = "idle", pc'[k] = "planned",
                      NEW m \in Node, NEW n \in Node, NEW msg \in Range(chan[m][n]),
                      msg.type \in {"Ask"} \cup Decision
               PROVE  msg.id # request'[k]
    BY DEF PlansNews, NewsIsNone
  <2>1. request[k] = None
    BY <1>1 DEF TypeInv, TasksInv
  <2>2. request'[k] \notin used
    BY <2>1 DEF NetworkStep
  <2>3. QED
    BY <1>1, <2>2 DEF UsedInv
<1>3. TypeInv' /\ OwnerSends
  BY <1>1, <1>2, StepsKeepTypes DEF TypesKept
<1>4. \A n \in Node : DOMAIN txs'[n] \subseteq TxId
  BY <1>3 DEF TypeInv, StoreInv, TypesOfRecords
<1>5. /\ used' \subseteq TxId /\ used \subseteq used'
      /\ \A n \in Node : DOMAIN txs'[n] \subseteq used'
  BY <1>1, <1>4 DEF NetworkStep, Drawn, UsedInv
<1>6. ASSUME NEW m \in Node, NEW n \in Node, NEW msg \in Range(chan'[m][n]),
             msg.type \in {"Ask"} \cup Decision
      PROVE  msg.id \in used'
  <2>1. CASE msg \in Range(chan[m][n])
    BY <1>1, <1>5, <1>6, <2>1 DEF UsedInv
  <2>2. CASE Owned(m, msg.id)
    BY <1>1, <1>5, <2>2 DEF UsedInv, Owned
  <2>3. QED
    BY <1>3, <1>6, <2>1, <2>2 DEF OwnerSends
<1>7. RestartsInv'
  <2>1. (held \subseteq Node)'
    BY <1>1, HeldInductive DEF RestartsInv
  <2>2. QED
    BY <1>1, <1>5, <1>6, <2>1 DEF RestartsInv, UsedInv, NetworkStep
<1>8. QED
  BY <1>2, <1>3, <1>7

LEMMA NetworkRestarts ==
  ASSUME RestartInv, NetworkStep
  PROVE  RestartInv'
<1>1. TypeInv /\ TypeInv' /\ RestartsInv' /\ Next /\ UNCHANGED <<restarts, forgotten>>
  BY NetworkKeepsRestarts DEF RestartInv, NetworkStep
<1>2. \A gone \in SUBSET Node : CancelInv(gone) => CancelInv(gone)'
  BY <1>1, StepsCancel
<1>3. ASSUME NEW lost \in SUBSET (Gone \X used), ReserveInv(lost), TakenInv(lost)
      PROVE  ReserveInv(lost)' /\ TakenInv(lost)'
  <2>1. DrawsNews(lost)
    <3> SUFFICES ASSUME NEW k \in Conn, pc[k] = "idle", pc'[k] = "planned"
                 PROVE  request'[k] \notin used
      BY DEF DrawsNews
    <3>1. request[k] = None
      BY <1>1 DEF TypeInv, TasksInv
    <3>2. QED
      BY <3>1 DEF NetworkStep
  <2>2. PlansNews
    BY NetworkKeepsRestarts
  <2>3. QED
    BY <1>1, <1>3, <2>1, <2>2, StepsReserve, StepsTake
<1>4. used \subseteq used'
  BY DEF NetworkStep
<1>5. QED
  BY <1>1, <1>2, <1>3, <1>4, RestartKept

-----------------------------------------------------------------------------
\* Steps of the connections.

\* Where messages only get fewer and no task or record changes.
LEMMA LinksRestart ==
  ASSUME RestartInv, Fewer(chan'), LinksInv', StoreInv', StocksGrow, BeliefsKept,
         txs' = txs, alive' = alive, UNCHANGED <<stock, supply, snap, connVars, held>>,
         UNCHANGED <<restarts, used, forgotten>>,
         joining' \in [Node -> SUBSET Node],
         \A n \in Node : joining'[n] \subseteq joining[n],
         NEW r \in Node, Moved(r, {}, 0)
  PROVE  RestartInv'
<1>1. TypeInv /\ RestartsInv
  BY DEF RestartInv
<1>2. PlansKept /\ OwnerSends
  BY UnchangedKeeps DEF Fewer, OwnerSends
<1>3. TypeInv'
  BY <1>1, <1>2, TasksUnchanged, TypeInvKept DEF TypeInv, TypesKept
<1>4. RestartsInv'
  BY <1>1 DEF RestartsInv, UsedInv, Fewer
<1>5. ASSUME NEW gone \in SUBSET Node, CancelInv(gone)
      PROVE  CancelInv(gone)'
  <2>1. \A n \in Node : Lives(gone, n)'
    BY <1>5 DEF CancelInv, Lives
  <2>2. QED
    BY <1>1, <1>2, <1>3, <1>5, <2>1, CancelKept
<1>6. ASSUME NEW lost, ReserveInv(lost), TakenInv(lost)
      PROVE  ReserveInv(lost)' /\ TakenInv(lost)'
  <2>1. PromisesFounded(lost) /\ AnswersFounded /\ \A k \in Conn : Learns(lost, k)
    BY <1>1, PromisesQuiet, AnswersFewer, IdleLearns
  <2>2. ReserveInv(lost)'
    BY <1>2, <1>3, <1>6, <2>1, ReserveKept
  <2>3. AsksPlanned
    BY DEF AsksPlanned, Fewer
  <2>4. TakenInv(lost)'
    BY <1>1, <1>3, <1>6, <2>3, QuietTaken
  <2>5. QED
    BY <2>2, <2>4
<1>7. QED
  BY <1>3, <1>4, <1>5, <1>6, RestartKept

LEMMA NoticedRestarts ==
  ASSUME RestartInv, NEW n \in Node, NEW m \in Node, Noticed(n, m)
  PROVE  RestartInv'
<1>1. TypeInv /\ LinksInv /\ StoreInv /\ RestartsInv
  BY DEF RestartInv, TypeInv
<1>2. /\ StocksGrow /\ BeliefsKept /\ StoreInv'
  BY <1>1, HandlersKeepBeliefs, ShutdownTypes DEF Noticed
<1>3. Fewer(chan') /\ Moved(n, {}, 0)
  BY <1>1, Unread, UnmovedChannels DEF Noticed
<1>4. LinksInv'
  <2>1. /\ linked' \in [Node -> SUBSET Node]
        /\ \A a \in Node : linked'[a] \subseteq linked[a]
    BY <1>1 DEF Noticed, LinksInv
  <2>2. QED
    BY <1>1, <1>3, <2>1, FewerLinks DEF Noticed
<1>5. QED
  BY <1>1, <1>2, <1>3, <1>4, LinksRestart DEF Noticed, Shutdown, restartVars, RestartsInv

LEMMA UnheardRestarts ==
  ASSUME RestartInv, NEW m \in Node, NEW n \in Node, Unheard(m, n)
  PROVE  RestartInv'
<1>1. TypeInv /\ LinksInv /\ StoreInv /\ RestartsInv /\ chan[m][n] \in Seq(Message)
  BY DEF RestartInv, TypeInv, LinksInv, Channels
<1>2. StocksGrow /\ BeliefsKept /\ StoreInv'
  BY <1>1, QuietStore, StoreQuiet DEF Unheard, storeVars
<1>3. m # n
  BY <1>1 DEF Unheard, LinksInv
<1>4. Fewer(chan')
  <2>1. chan' = [chan EXCEPT ![m][n] = Tail(chan[m][n])]
    BY <1>1 DEF Unheard, Rests, LinksInv, Channels
  <2>2. Tail(chan[m][n]) \in Seq(Message) /\ Range(Tail(chan[m][n])) \subseteq Range(chan[m][n])
    BY <1>1, HeadAndTail DEF Unheard
  <2>3. QED
    BY <1>1, <1>3, <2>1, <2>2, RestsAreFewer
<1>5. LinksInv' /\ Moved(n, {}, 0)
  BY <1>1, <1>4, FewerLinks, ReadMoves DEF Unheard, LinksInv
<1>6. QED
  BY <1>1, <1>2, <1>4, <1>5, LinksRestart DEF Unheard, storeVars, restartVars, RestartsInv

LEMMA Emptied ==
  ASSUME NEW c \in Channels, NEW m \in Node, NEW n \in Node
  PROVE  /\ [c EXCEPT ![m][n] = <<>>] \in Channels
         /\ \A a, b \in Node :
              [c EXCEPT ![m][n] = <<>>][a][b] = IF a = m /\ b = n THEN <<>> ELSE c[a][b]
  BY DEF Channels

LEMMA JoinRestarts ==
  ASSUME RestartInv, NEW n \in Node, NEW m \in Node, Join(n, m)
  PROVE  RestartInv'
<1>1. TypeInv /\ LinksInv /\ StoreInv /\ RestartsInv
  BY DEF RestartInv, TypeInv
<1>2. StocksGrow /\ BeliefsKept /\ StoreInv'
  BY <1>1, QuietStore, StoreQuiet DEF Join, storeVars
<1>3. m # n
  BY <1>1, LinksAssumption DEF Join, RestartsInv
<1>4. chan \in Channels
  BY <1>1 DEF LinksInv
<1> DEFINE c == [chan EXCEPT ![n][m] = <<>>]
<1>5. /\ chan' \in Channels
      /\ \A a, b \in Node : chan'[a][b] = <<>> \/ chan'[a][b] = chan[a][b]
  <2>1. /\ c \in Channels
        /\ \A a, b \in Node : c[a][b] = IF a = n /\ b = m THEN <<>> ELSE chan[a][b]
    BY <1>4, Emptied
  <2>2. chan' = [c EXCEPT ![m][n] = <<>>]
    BY DEF Join
  <2> HIDE DEF c
  <2>3. /\ chan' \in Channels
        /\ \A a, b \in Node : chan'[a][b] = IF a = m /\ b = n THEN <<>> ELSE c[a][b]
    <3>1. /\ [c EXCEPT ![m][n] = <<>>] \in Channels
          /\ \A a, b \in Node : [c EXCEPT ![m][n] = <<>>][a][b] =
                                IF a = m /\ b = n THEN <<>> ELSE c[a][b]
      BY <2>1, Emptied
    <3>2. QED
      BY <2>2, <3>1
  <2>4. QED
    BY <2>1, <2>3
<1>6. Fewer(chan')
  <2>1. Range(<<>>) = {}
    BY DEF Range
  <2>2. QED
    BY <1>1, <1>5, <2>1 DEF Fewer, LinksInv
<1>7. LinksInv'
  <2>1. linked \in [Node -> SUBSET Node] /\ \A a \in Node : a \notin linked[a]
    BY <1>1 DEF LinksInv
  <2>2. linked' \in [Node -> SUBSET Node] /\ \A a \in Node : a \notin linked'[a]
    BY <1>3, <2>1 DEF Join
  <2>3. QED
    BY <1>1, <1>6, <2>2 DEF Join, LinksInv, Fewer
<1>8. Moved(n, {}, 0)
  <2> SUFFICES ASSUME NEW a \in Node, NEW b \in Node
               PROVE  Shifted(chan'[a][b], chan[a][b], IF a = n /\ b \in {} THEN {0} ELSE {})
    BY DEF Moved
  <2>1. chan[a][b] \in Seq(Message)
    BY <1>1 DEF LinksInv, Channels
  <2>2. QED
    BY <1>5, <2>1, KeptShifts, EmptyShifts
<1>9. /\ joining' \in [Node -> SUBSET Node]
      /\ \A a \in Node : joining'[a] \subseteq joining[a]
  BY <1>1 DEF Join, RestartsInv
<1>10. QED
  BY <1>1, <1>2, <1>6, <1>7, <1>8, <1>9, LinksRestart DEF Join, storeVars

LEMMA DesertedRestarts ==
  ASSUME RestartInv, NEW k \in Conn, Deserted(k)
  PROVE  RestartInv'
<1>1. TypeInv /\ RestartsInv /\ home[k] \in Node
  BY HomeAssumption DEF RestartInv
<1>2. TypeInv'
  BY <1>1, CloseTypes DEF Deserted, TypesKept
<1>3. RestartsInv'
  BY <1>1 DEF Deserted, RestartsInv, UsedInv, storeVars, linkVars, restartVars
<1>4. Moved(home[k], {}, 0)
  BY <1>1, UnmovedChannels DEF Deserted, linkVars, TypeInv
<1>5. ASSUME NEW gone \in SUBSET Node, CancelInv(gone)
      PROVE  CancelInv(gone)'
  BY <1>1, <1>2, <1>4, <1>5, QuietCancels DEF Deserted, linkVars
<1>6. ASSUME NEW lost, ReserveInv(lost), TakenInv(lost)
      PROVE  ReserveInv(lost)' /\ TakenInv(lost)'
  <2>1. AsksPlanned
    BY DEF Deserted, AsksPlanned, linkVars
  <2>2. TakenInv(lost)'
    BY <1>1, <1>2, <1>6, <2>1, QuietTaken DEF Deserted, storeVars
  <2>3. QED
    BY <1>2, <1>6, <2>2, CloseReserves DEF Deserted, storeVars
<1>7. QED
  BY <1>2, <1>3, <1>5, <1>6, RestartKept DEF Deserted, restartVars

-----------------------------------------------------------------------------
\* A store is started again: it has nothing, and what it had sent is on its way.

\* Of the others, and of the tasks of the others, all is as it was.
Forgets(n) ==
  /\ \A a \in Node \ {n} : /\ txs'[a] = txs[a] /\ stock'[a] = stock[a]
                            /\ peers'[a] = peers[a] /\ alive'[a] = alive[a]
                            /\ snap'[a] = snap[a]
  /\ txs'[n] = Empty /\ stock'[n] = Empty /\ peers'[n] = Empty
  /\ alive'[n] = TRUE /\ snap'[n] = {}
  /\ \A a, b \in Node : chan'[a][b] = IF b = n THEN <<>> ELSE chan[a][b]
  /\ \A k \in Conn :
       IF home[k] = n
       THEN pc'[k] = "idle" /\ request'[k] = None /\ todo'[k] = {} /\ told'[k] = {}
            /\ peer'[k] = None /\ refused'[k] = FALSE
       ELSE pc'[k] = pc[k] /\ request'[k] = request[k] /\ todo'[k] = todo[k]
            /\ told'[k] = told[k] /\ peer'[k] = peer[k] /\ refused'[k] = refused[k]

LEMMA RestartForgets ==
  ASSUME TypeInv, NEW n \in Node, Restart(n)
  PROVE  /\ Forgets(n)
         /\ StoreInv' /\ LinksInv' /\ TasksInv'
<1>1. StoreInv /\ LinksInv /\ TasksInv
  BY DEF TypeInv
<1>2. /\ \A a \in Node \ {n} : /\ txs'[a] = txs[a] /\ stock'[a] = stock[a]
                               /\ peers'[a] = peers[a] /\ alive'[a] = alive[a]
                               /\ snap'[a] = snap[a]
      /\ txs'[n] = Empty /\ stock'[n] = Empty /\ peers'[n] = Empty
      /\ alive'[n] = TRUE /\ snap'[n] = {}
  BY <1>1 DEF Restart, StoreInv, TypesOfRecords, TypesOfUnits, LinksInv
<1>3. /\ chan' \in Channels
      /\ \A a, b \in Node : chan'[a][b] = IF b = n THEN <<>> ELSE chan[a][b]
  BY <1>1 DEF Restart, LinksInv, Channels
<1>4. \A k \in Conn :
        IF home[k] = n
        THEN pc'[k] = "idle" /\ request'[k] = None /\ todo'[k] = {} /\ told'[k] = {}
             /\ peer'[k] = None /\ refused'[k] = FALSE
        ELSE pc'[k] = pc[k] /\ request'[k] = request[k] /\ todo'[k] = todo[k]
             /\ told'[k] = told[k] /\ peer'[k] = peer[k] /\ refused'[k] = refused[k]
  BY <1>1 DEF Restart, TasksInv
<1>5. StoreInv'
  <2>1. TypesOfRecords'
    BY <1>1 DEF Restart, StoreInv, TypesOfRecords, Empty
  <2>2. TypesOfUnits'
    <3>1. /\ DOMAIN stock' = Node /\ supply' = supply
          /\ \A a \in Node : stock'[a] = Empty \/ stock'[a] = stock[a]
      BY <1>1, <1>2 DEF Restart, StoreInv, TypesOfUnits
    <3>2. IsStock(Empty) /\ DOMAIN Empty = {}
      BY EmptyIsStock DEF Empty
    <3>3. \A a \in Node : IsStock(stock'[a])
      BY <1>1, <3>1, <3>2 DEF StoreInv, TypesOfUnits
    <3>4. StockWithinSupply'
      BY <1>1, <3>1, <3>2 DEF StoreInv, TypesOfUnits, StockWithinSupply
    <3>5. QED
      BY <1>1, <3>1, <3>3, <3>4 DEF StoreInv, TypesOfUnits
  <2>3. QED
    BY <2>1, <2>2 DEF StoreInv
<1>6. LinksInv'
  BY <1>1, <1>3 DEF Restart, LinksInv
<1>7. TasksInv'
  BY <1>1, <1>4 DEF Restart, TasksInv
<1>8. QED
  BY <1>2, <1>3, <1>4, <1>5, <1>6, <1>7 DEF Forgets

LEMMA ForgetsTypes ==
  ASSUME TypeInv, NEW n \in Node, Forgets(n), StoreInv', LinksInv', TasksInv'
  PROVE  TypeInv' /\ Fewer(chan')
<1>1. \A a \in Node, id \in TxId : Owned(a, id)' => Owned(a, id) /\ a # n
  BY DEF Forgets, Owned, Empty
<1>2. Fewer(chan')
  <2>1. Range(<<>>) = {}
    BY DEF Range
  <2>2. QED
    BY <2>1 DEF Forgets, Fewer, LinksInv, TypeInv
<1>3. OneOwner'
  BY <1>1 DEF OneOwner, TypeInv
<1>4. OthersSilent'
  <2> SUFFICES ASSUME NEW a \in Node, NEW b \in Node, NEW msg \in Range(chan'[a][b]),
                      msg.type \in {"Ask"} \cup Decision, NEW r \in Node, Owned(r, msg.id)'
               PROVE  r = a
    BY DEF OthersSilent
  <2>1. msg \in Range(chan[a][b]) /\ msg.id \in TxId
    BY <1>2, IdOfMessage DEF Fewer, TypeInv
  <2>2. QED
    BY <1>1, <2>1 DEF OthersSilent, TypeInv
<1>5. ASSUME NEW k \in Conn
      PROVE  TaskOwns(k)'
  <2>1. CASE home[k] = n
    BY <2>1 DEF Forgets, TaskOwns
  <2>2. CASE home[k] # n
    <3>1. txs'[home[k]] = txs[home[k]]
      BY <2>2, HomeAssumption DEF Forgets
    <3>2. QED
      BY <2>2, <3>1 DEF Forgets, TypeInv, TaskOwns, Owned, Targets, Plan
  <2>3. QED
    BY <2>1, <2>2
<1>6. QED
  BY <1>2, <1>3, <1>4, <1>5 DEF TypeInv

\* What n loses more.
Loses(n, lost, more) == more = lost \cup {<<n, id>> : id \in DOMAIN txs[n]}

LEMMA ForgetsReserves ==
  ASSUME NEW n \in Node, NEW lost, NEW more, Loses(n, lost, more), ReserveInv(lost),
         Forgets(n), TypeInv', Fewer(chan')
  PROVE  ReserveInv(more)'
<1>1. TypeInv
  BY DEF ReserveInv
<1>0. ASSUME NEW m \in Node, NEW id, Reserved(lost, m, id)
      PROVE  Reserved(more, m, id)'
  BY <1>0 DEF Reserved, Loses, Forgets
<1>2. ASSUME NEW a \in Node \ {n}, NEW id \in DOMAIN txs[a], OnRecord(lost, a, id)
      PROVE  OnRecord(more, a, id)'
  <2>1. txs'[a] = txs[a] /\ DOMAIN txs[a][id].involved_stock \subseteq Node
    BY <1>1, <1>2 DEF Forgets, TypeInv, StoreInv, TypesOfRecords, IsTransaction, IsPlan
  <2>2. QED
    BY <1>0, <1>2, <2>1 DEF OnRecord
<1>3. PromisesHold(more)'
  <2> SUFFICES ASSUME NEW a \in Node, NEW id \in DOMAIN txs'[a],
                      txs'[a][id].state \in Promised
               PROVE  OnRecord(more, a, id)'
    BY DEF PromisesHold, OnRecord
  <2>1. a # n /\ txs'[a] = txs[a]
    BY DEF Forgets, Empty
  <2>2. QED
    BY <1>2, <2>1 DEF ReserveInv, PromisesHold
<1>4. AnswersHold(more)'
  BY <1>0 DEF ReserveInv, AnswersHold, Fewer
<1>5. ASSUME NEW k \in Conn
      PROVE  TaskKnows(more, k)'
  <2>1. CASE home[k] = n
    BY <2>1 DEF Forgets, TaskKnows
  <2>2. CASE home[k] # n
    <3>1. /\ TaskKnows(lost, k) /\ TaskOwns(k) /\ home[k] \in Node \ {n}
          /\ txs'[home[k]] = txs[home[k]]
      BY <1>1, <2>2, HomeAssumption DEF ReserveInv, TypeInv, Forgets
    <3>2. /\ pc'[k] = pc[k] /\ request'[k] = request[k] /\ todo'[k] = todo[k]
          /\ told'[k] = told[k] /\ peer'[k] = peer[k] /\ refused'[k] = refused[k]
      BY <2>2 DEF Forgets
    <3>3. ASSUME NEW id, Owned(home[k], id), OnRecord(lost, home[k], id)
          PROVE  OnRecord(more, home[k], id)'
      BY <1>2, <3>1, <3>3 DEF Owned
    <3>4. ASSUME pc[k] \in {"planned", "asking", "waiting"}, ~refused[k],
                 NEW m \in DOMAIN Plan(k) \ (todo[k] \cup {peer[k]})
          PROVE  Reserved(more, m, request[k])'
      <4>1. PICK id : id = request[k]
        OBVIOUS
      <4>2. m \in Node /\ Reserved(lost, m, id)
        BY <1>1, <3>1, <3>4, <4>1, AtWork DEF TaskKnows, IsPlan
      <4>3. Reserved(more, m, id)'
        BY <1>0, <4>2
      <4>4. QED
        BY <3>2, <4>1, <4>3
    <3>5. Plan(k)' = Plan(k)
      BY <3>1, <3>2 DEF Plan
    <3>6. ASSUME pc[k] = "Confirm"
          PROVE  OnRecord(more, home[k], request[k])'
      <4>1. PICK id : id = request[k]
        OBVIOUS
      <4>2. Owned(home[k], id) /\ OnRecord(lost, home[k], id)
        BY <3>1, <3>6, <4>1 DEF TaskKnows, TaskOwns
      <4>3. OnRecord(more, home[k], id)'
        BY <3>3, <4>2
      <4>4. QED
        BY <3>2, <4>1, <4>3 DEF OnRecord
    <3>7. \A id \in told[k] : OnRecord(more, home[k], id)'
      BY <3>1, <3>3 DEF TaskKnows, TaskOwns
    <3>8. QED
      BY <3>2, <3>4, <3>5, <3>6, <3>7 DEF TaskKnows
  <2>3. QED
    BY <2>1, <2>2
<1>6. QED
  BY <1>3, <1>4, <1>5 DEF ReserveInv

\* The units that n had are gone, and so are those of its own plans elsewhere.
LEMMA ForgetsTaken ==
  ASSUME NEW n \in Node, NEW lost, NEW more, Loses(n, lost, more), TypeInv, TypeInv',
         TakenInv(lost), Forgets(n), supply' = supply, Fewer(chan')
  PROVE  TakenInv(more)'
<1>1. StoreInv /\ StoreInv' /\ LinksInv /\ OneOwner
  BY DEF TypeInv
<1>2. ASSUME NEW a \in Node
      PROVE  Ledger(more, a)' = Ledger(lost, a) /\ Ledger(lost, a) \subseteq TxId
  <2>1. CASE a = n
    BY <2>1 DEF Ledger, Reserved, Loses, Forgets, Empty
  <2>2. CASE a # n
    BY <2>2 DEF Ledger, Reserved, Loses, Forgets
  <2>3. QED
    BY <2>1, <2>2
<1>3. ASSUME NEW id \in TxId
      PROVE  PlanOf(id)' \in {PlanOf(id), Empty}
  <2>1. Owners(id)' = Owners(id) \ {n}
    BY DEF Owners, Forgets, Empty
  <2>2. CASE n \in Owners(id)
    <3>1. Owners(id)' = {}
      BY <1>1, <2>1, <2>2 DEF OneOwner, Owned, Owners
    <3>2. QED
      BY <3>1 DEF PlanOf
  <2>3. CASE n \notin Owners(id)
    <3>1. Owners(id)' = Owners(id)
      BY <2>1, <2>3
    <3>2. OwnerOf(id)' = OwnerOf(id)
      BY <3>1 DEF OwnerOf
    <3>3. Owners(id) # {} => OwnerOf(id) \in Node \ {n}
      BY <2>3 DEF OwnerOf, Owners
    <3>4. QED
      BY <3>1, <3>2, <3>3 DEF PlanOf, Forgets
  <2>4. QED
    BY <2>2, <2>3
<1>4. ASSUME NEW id \in TxId, NEW a \in Node
      PROVE  Share(PlanOf(id)', a) \in {Share(PlanOf(id), a), Empty}
  <2>1. Share(Empty, a) = Empty
    BY DEF Share, Empty
  <2>2. QED
    BY <1>3, <2>1
<1>5. ASSUME NEW a \in Node, NEW p \in Product
      PROVE  Balanced(more, a, p)'
  <2>1. IsFiniteSet(Ledger(lost, a)) /\ Balanced(lost, a, p)
    BY DEF TakenInv
  <2>2. Units(stock'[a], p) + supply[a][p] <= Units(stock[a], p) + supply'[a][p]
    <3>1. Units(stock[a], p) \in Nat /\ supply[a][p] \in Nat /\ supply'[a][p] = supply[a][p]
      BY <1>1, UnitsAreNat DEF StoreInv, TypesOfUnits
    <3>2. Units(stock'[a], p) \in {Units(stock[a], p), 0}
      BY DEF Forgets, Units, Empty
    <3>3. QED
      BY <3>1, <3>2
  <2>3. \A id \in Ledger(lost, a) : Share(PlanOf(id)', a) \in {Share(PlanOf(id), a), Empty}
    BY <1>2, <1>4
  <2>4. QED
    BY <1>1, <1>2, <2>1, <2>2, <2>3, BalanceStays
<1>6. AsksFit'
  <2> SUFFICES ASSUME NEW a \in Node, NEW b \in Node, NEW msg \in Range(chan'[a][b]),
                      msg.type = "Ask"
               PROVE  Share(PlanOf(msg.id)', b) \in {msg.share, Empty}
    BY DEF AsksFit
  <2>1. msg \in Range(chan[a][b]) /\ msg.id \in TxId
    BY <1>1, IdOfMessage DEF Fewer
  <2>2. Share(PlanOf(msg.id), b) \in {msg.share, Empty}
    BY <2>1 DEF TakenInv, AsksFit
  <2>3. QED
    BY <1>4, <2>1, <2>2
<1>7. QED
  BY <1>2, <1>5, <1>6 DEF TakenInv

LEMMA ForgetsCancels ==
  ASSUME NEW n \in Node, NEW gone, n \in gone, CancelInv(gone), Forgets(n), TypeInv
  PROVE  CancelInv(gone)'
<1>1. \A a \in Node : Lives(gone, a)'
  BY DEF Forgets, CancelInv, Lives
<1>2. ASSUME NEW m \in Node \ gone, NEW a \in Node
      PROVE  NewsInOrder(m, a)'
  <2>1. /\ NewsInOrder(m, a)
        /\ stock'[m] = stock[m] /\ snap'[m] = snap[m]
    BY DEF CancelInv, Forgets
  <2>2. CASE a = n
    BY <2>1, <2>2 DEF NewsInOrder, Believed, Forgets, Empty
  <2>3. CASE a # n
    BY <2>1, <2>3 DEF NewsInOrder, Believed, Forgets
  <2>4. QED
    BY <2>2, <2>3
<1>3. ASSUME NEW a \in Node, NEW id \in DOMAIN txs'[a]
      PROVE  PlanFits(gone, a, id)'
  BY DEF Forgets, CancelInv, PlanFits, Empty
<1>4. QED
  BY <1>1, <1>2, <1>3 DEF CancelInv

LEMMA RestartRestarts ==
  ASSUME RestartInv, NEW n \in Node, Restart(n)
  PROVE  RestartInv'
<1>1. TypeInv /\ RestartsInv
  BY DEF RestartInv
<1>2. Forgets(n) /\ TypeInv' /\ Fewer(chan')
  BY <1>1, RestartForgets, ForgetsTypes
<1>3. /\ restarts' \in [Node -> 0 .. MaxRestarts]
      /\ restarts'[n] > 0
      /\ \A m \in Node : restarts[m] > 0 => restarts'[m] > 0
  BY <1>1, MaxRestartsAssumption DEF Restart, RestartsInv
<1>4. RestartsInv'
  <2>1. used' = used /\ UsedInv
    BY <1>1 DEF Restart, RestartsInv
  <2>2. \A a \in Node : DOMAIN txs'[a] \subseteq DOMAIN txs[a]
    BY <1>2 DEF Forgets, Empty
  <2>3. UsedInv'
    BY <1>2, <2>1, <2>2 DEF UsedInv, Fewer
  <2>4. QED
    BY <1>1, <1>3, <2>3 DEF Restart, RestartsInv
<1>5. n \in Gone' /\ Gone \subseteq Gone'
  BY <1>3 DEF Gone
<1>6. ASSUME NEW gone \in SUBSET Node, Gone' \subseteq gone
      PROVE  CancelInv(gone)'
  <2>1. CancelInv(gone) /\ n \in gone
    BY <1>5, <1>6 DEF RestartInv
  <2>2. QED
    BY <1>1, <1>2, <2>1, ForgetsCancels
<1>7. LedgerInv'
  <2>1. PICK lost \in {forgotten} :
          lost \subseteq Gone \X used /\ ReserveInv(lost) /\ TakenInv(lost)
    BY DEF RestartInv, LedgerInv
  <2>2. PICK more : Loses(n, lost, more)
    BY DEF Loses
  <2>3. ReserveInv(more)' /\ TakenInv(more)'
    BY <1>1, <1>2, <2>1, <2>2, ForgetsReserves, ForgetsTaken DEF Restart
  <2>4. more \in {forgotten'} /\ more \subseteq Gone' \X used'
    BY <1>1, <1>5, <2>1, <2>2 DEF Loses, RestartsInv, UsedInv, Restart
  <2>5. QED
    BY <2>3, <2>4 DEF LedgerInv
<1>8. QED
  BY <1>2, <1>4, <1>6, <1>7 DEF RestartInv

-----------------------------------------------------------------------------
\* What holds however stores are started again.

LEMMA RestartInductive == RestartInv /\ [RestartNext]_<<vars, restartVars>> => RestartInv'
<1> SUFFICES ASSUME RestartInv, [RestartNext]_<<vars, restartVars>> PROVE RestartInv'
  OBVIOUS
<1>1. CASE UNCHANGED <<vars, restartVars>>
  <2>1. UNCHANGED vars /\ UNCHANGED restartVars /\ TypeInv /\ RestartsInv
    BY <1>1 DEF RestartInv
  <2>2. TypeInv'
    BY <2>1, DownStandsStill, TypesStutter DEF TypesKept
  <2>3. RestartsInv'
    BY <2>1 DEF vars, storeVars, linkVars, restartVars, RestartsInv, UsedInv
  <2>4. QED
    BY <2>1, <2>2, <2>3, DownStandsStill, ReservationsStutter, TakenStutters, CancelsStutter,
       RestartKept DEF restartVars
<1>2. CASE RestartNext
  BY <1>2, NetworkRestarts, RestartRestarts, JoinRestarts, NoticedRestarts, UnheardRestarts,
     DesertedRestarts DEF RestartNext
<1>3. QED
  BY <1>1, <1>2

\* Stores, messages and tasks keep their types although a store that is
\* started again has lost its records while messages of its earlier life, and
\* purchases with it, go on; what is on record was drawn, and what is
\* forgotten is so by a store that was started again.
THEOREM RestartTypes == RestartSpec => []RestartTypeOK
<1>1. RestartInv => RestartTypeOK
  <2> SUFFICES ASSUME RestartInv PROVE RestartTypeOK
    OBVIOUS
  <2>1. TypeOK
    BY TypesFollow DEF RestartInv, RestartsInv
  <2>2. QED
    BY <2>1 DEF RestartInv, RestartsInv, UsedInv, LedgerInv, Gone, RestartTypeOK
<1>2. QED
  BY <1>1, NobodyGone, RestartInductive, PTL DEF RestartSpec

\* A purchase that its store has confirmed was reserved by every store that
\* contributes to it: it is on record there still, or that very record was
\* forgotten when the store was started again.
THEOREM PromisesOutlive == RestartSpec => []ConfirmedUnlessRestarted
<1>1. RestartInv => ConfirmedUnlessRestarted
  <2> SUFFICES ASSUME RestartInv, NEW n \in Node, NEW m \in Node, NEW id \in DOMAIN txs[n],
                      txs[n][id].state \in Promised,
                      m \in DOMAIN txs[n][id].involved_stock
               PROVE  id \in DOMAIN txs[m] \/ <<m, id>> \in forgotten
    BY DEF ConfirmedUnlessRestarted
  <2>1. PICK lost \in {forgotten} : ReserveInv(lost)
    BY DEF RestartInv, LedgerInv
  <2>2. QED
    BY <2>1 DEF ReserveInv, PromisesHold, OnRecord, Reserved
<1>2. QED
  BY <1>1, NobodyGone, RestartInductive, PTL DEF RestartSpec

\* A restart loses units and the purchases they are in, and never makes a unit
\* sellable twice: what is in stock and what customers were promised, anywhere,
\* is no more than the operators put on sale, although a store that is started
\* again does not know what it reserved for the purchases of others.
THEOREM RestartsSellOnce == RestartSpec => []NoOversell
<1>1. RestartInv => NoOversell
  BY SoldOnce DEF RestartInv, LedgerInv
<1>2. QED
  BY <1>1, NobodyGone, RestartInductive, PTL DEF RestartSpec

\* An actor panics only on account of another store that was started again:
\* a store that comes back announces a stock that lacks products it had.
THEOREM OnlyRestartsPanic == RestartSpec => []PanicsAfterRestart
<1>1. RestartInv => PanicsAfterRestart
  <2> SUFFICES ASSUME RestartInv, NEW n \in Node
               PROVE  alive[n] \/ \E m \in Node \ {n} : restarts[m] > 0
    BY DEF PanicsAfterRestart
  <2>1. Gone \in SUBSET Node
    BY DEF Gone
  <2>2. Lives(Gone, n)
    BY <2>1 DEF RestartInv, CancelInv
  <2>3. QED
    BY <2>2 DEF Lives, Gone
<1>2. QED
  BY <1>1, NobodyGone, RestartInductive, PTL DEF RestartSpec

-----------------------------------------------------------------------------
\* No store finishes what another cancels: a verdict is passed by the task
\* that handles the purchase, which passes no other.

\* The task of k takes up nothing, and none of what it has decided on again.
Stays(k) ==
  /\ Handles(k)' \subseteq Handles(k) /\ Undecided(k)' \subseteq Undecided(k)
  /\ pc'[k] # "idle" => request'[k] \notin told'[k]

\* No verdict is seen that was not seen before, but for d on id.
OnlySeen(id, d) ==
  \A i \in TxId, e \in Verdict : Seen(i, e)' => Seen(i, e) \/ (i = id /\ e = d)

NothingSeen == \A i \in TxId, e \in Verdict : Seen(i, e)' => Seen(i, e)

LEMMA UndecidedAreHandled ==
  ASSUME TypeInv, NEW k \in Conn
  PROVE  Undecided(k) \subseteq Handles(k) /\ Handles(k) \subseteq TxId
<1>1. Undecided(k) \subseteq Handles(k)
  BY DEF Undecided, Handles, Working
<1>2. Handles(k) \subseteq TxId
  BY HandledIsOwned
<1>3. QED
  BY <1>1, <1>2

LEMMA QuietDecides ==
  ASSUME TypeInv, DecideOnce, \A k \in Conn : Stays(k), NothingSeen
  PROVE  DecideOnce'
<1>1. \A k \in Conn : Undecided(k) \subseteq TxId
  BY UndecidedAreHandled
<1>2. \A k \in Conn : \A id \in Undecided(k)' : \A d \in Verdict : ~Seen(id, d)'
  BY <1>1 DEF DecideOnce, Stays, NothingSeen
<1>3. \A j, k \in Conn : j # k => Handles(j)' \cap Handles(k)' = {}
  BY DEF DecideOnce, Stays
<1>4. \A id \in TxId : ~(Seen(id, "Commit")' /\ Seen(id, "Cancel")')
  BY DEF DecideOnce, NothingSeen, Verdict
<1>5. QED
  BY <1>2, <1>3, <1>4 DEF DecideOnce, Stays

LEMMA VerdictDecides ==
  ASSUME TypeInv, DecideOnce, \A j \in Conn : Stays(j),
         NEW k \in Conn, NEW id \in Undecided(k), id \notin Undecided(k)',
         NEW d \in Verdict, OnlySeen(id, d)
  PROVE  DecideOnce'
<1>1. \A j \in Conn : Undecided(j) \subseteq Handles(j) /\ Handles(j) \subseteq TxId
  BY UndecidedAreHandled
<1>2. ASSUME NEW j \in Conn, NEW i \in Undecided(j)', NEW e \in Verdict
      PROVE  ~Seen(i, e)'
  <2>1. i \in Undecided(j) /\ i \in Handles(j) /\ i \in TxId /\ id \in Handles(k)
    BY <1>1 DEF Stays
  <2>2. i # id
    BY <1>2, <2>1 DEF DecideOnce
  <2>3. QED
    BY <2>1, <2>2 DEF DecideOnce, OnlySeen
<1>3. \A j, l \in Conn : j # l => Handles(j)' \cap Handles(l)' = {}
  BY DEF DecideOnce, Stays
<1>4. ASSUME NEW i \in TxId, Seen(i, "Commit")', Seen(i, "Cancel")'
      PROVE  FALSE
  <2>1. CASE i = id
    BY <1>4, <2>1 DEF DecideOnce, OnlySeen, Verdict
  <2>2. CASE i # id
    BY <1>4, <2>2 DEF DecideOnce, OnlySeen, Verdict
  <2>3. QED
    BY <2>1, <2>2
<1>5. QED
  BY <1>2, <1>3, <1>4 DEF DecideOnce, Stays

-----------------------------------------------------------------------------
\* Where a verdict may come to be seen.

LEMMA SameRecordsSeen ==
  ASSUME txs' = txs
  PROVE  \A i, e : SeenOnRecord(i, e)' => SeenOnRecord(i, e)
  BY DEF SeenOnRecord

LEMMA OneRecordSeen ==
  ASSUME TypeInv', NEW n \in Node, NEW id \in TxId, OnlyRecord(n, id)
  PROVE  \A i, e : SeenOnRecord(i, e)' =>
           \/ SeenOnRecord(i, e)
           \/ i = id /\ id \in DOMAIN txs'[n] /\ txs'[n][id].state = Outcome(e)
<1> SUFFICES ASSUME NEW i, NEW e, NEW a \in Node, i \in DOMAIN txs'[a],
                    txs'[a][i].state = Outcome(e), a # n \/ i # id
             PROVE  SeenOnRecord(i, e)
  BY DEF SeenOnRecord
<1>1. i \in TxId
  BY DEF TypeInv, StoreInv, TypesOfRecords
<1>2. QED
  BY <1>1 DEF OnlyRecord, SeenOnRecord

Decides(n, id, d) ==
  \/ d = "Confirm" /\ Confirm(n, id)
  \/ d = "Commit" /\ Commit(n, id)
  \/ d = "Cancel" /\ Cancel(n, id)

LEMMA DecidedSeen ==
  ASSUME TypeInv, TypeInv', NEW n \in Node, NEW id \in TxId, NEW d, Decides(n, id, d)
  PROVE  \A i, e : e \in Verdict /\ SeenOnRecord(i, e)' =>
           SeenOnRecord(i, e) \/ (i = id /\ e = d)
<1>1. CASE txs' = txs
  BY <1>1, SameRecordsSeen
<1>2. ASSUME NEW s, txs' = Marked(n, id, s), \A e \in Verdict : s = Outcome(e) => e = d
      PROVE  \A i, e : e \in Verdict /\ SeenOnRecord(i, e)' =>
               SeenOnRecord(i, e) \/ (i = id /\ e = d)
  <2>1. CASE id \notin DOMAIN txs[n]
    BY <1>1, <1>2, <2>1 DEF Marked
  <2>2. CASE id \in DOMAIN txs[n]
    <3>1. /\ OnlyRecord(n, id)
          /\ txs'[n][id] = Transaction(s, txs[n][id].involved_stock)
      BY <1>2, <2>2, MarkedAt DEF TypeInv
    <3>2. txs'[n][id].state = s
      BY <3>1 DEF Transaction
    <3>3. QED
      BY <1>2, <3>1, <3>2, OneRecordSeen
  <2>3. QED
    BY <2>1, <2>2
<1>3. CASE d = "Confirm" /\ Confirm(n, id)
  BY <1>2, <1>3 DEF Confirm, Verdict, Outcome
<1>4. CASE d = "Commit" /\ Commit(n, id)
  BY <1>2, <1>4 DEF Commit, Verdict, Outcome
<1>5. CASE d = "Cancel" /\ Cancel(n, id)
  <2>1. txs' = txs \/ txs' = Marked(n, id, "Cancelled")
    BY <1>5 DEF Cancel, CancelKnown, CancelUnknown, CancelPanics, storeVars
  <2>2. QED
    BY <1>1, <1>2, <1>5, <2>1 DEF Verdict, Outcome
<1>6. QED
  BY <1>3, <1>4, <1>5 DEF Decides

LEMMA FewerSeen ==
  ASSUME Fewer(chan')
  PROVE  \A i, e : SeenOnItsWay(i, e)' => SeenOnItsWay(i, e)
  BY DEF Fewer, SeenOnItsWay

LEMMA MovedSeen ==
  ASSUME TypeInv', NEW r \in Node, NEW S, NEW msg, Moved(r, S, msg)
  PROVE  \A i, e : SeenOnItsWay(i, e)' =>
           SeenOnItsWay(i, e) \/ (S # {} /\ msg.type = e /\ msg.id = i)
<1> SUFFICES ASSUME NEW i, NEW e, NEW a \in Node, NEW b \in Node,
                    NEW x \in Range(chan'[a][b]), x.type = e, x.id = i
             PROVE  SeenOnItsWay(i, e) \/ (S # {} /\ msg.type = e /\ msg.id = i)
  BY DEF SeenOnItsWay
<1>1. x \in Range(chan[a][b]) \/ (b \in S /\ x = msg)
  BY MovedFrom DEF TypeInv, Range
<1>2. QED
  BY <1>1 DEF SeenOnItsWay

LEMMA SameTasksSeen ==
  ASSUME UNCHANGED connVars
  PROVE  \A i, e : SeenAtTask(i, e)' => SeenAtTask(i, e)
  BY DEF connVars, SeenAtTask

LEMMA OneTaskSeen ==
  ASSUME NEW k \in Conn, OnlyTask(k)
  PROVE  \A i, e : SeenAtTask(i, e)' =>
           SeenAtTask(i, e) \/ (pc'[k] = e /\ request'[k] = i)
  BY DEF OnlyTask, SeenAtTask

-----------------------------------------------------------------------------
\* What a task goes on with.

LEMMA OthersStayed ==
  ASSUME DecideOnce, NEW k \in Conn, OnlyTask(k), NEW j \in Conn \ {k}
  PROVE  Stays(j)
  BY DEF OnlyTask, Stays, Handles, Undecided, DecideOnce

LEMMA AllStayed ==
  ASSUME DecideOnce, UNCHANGED connVars
  PROVE  \A k \in Conn : Stays(k)
  BY DEF connVars, Stays, Handles, Undecided, DecideOnce

LEMMA RestStays ==
  ASSUME TypeInv, DecideOnce, NEW k \in Conn, Rest(k), told' \in [Conn -> SUBSET TxId],
         \A j \in Conn \ {k} : told'[j] = told[j],
         \A id \in told'[k] : id \in told[k] \/ (pc[k] = "Confirm" /\ id = request[k])
  PROVE  /\ \A j \in Conn : Stays(j)
         /\ \A i, e : e \in Verdict /\ SeenAtTask(i, e)' => SeenAtTask(i, e)
<1>1. OnlyTask(k) /\ pc'[k] = "idle"
  BY Rested DEF TypeInv
<1>2. Stays(k)
  BY <1>1 DEF Stays, Handles, Undecided, Working
<1>3. QED
  BY <1>1, <1>2, OthersStayed, OneTaskSeen DEF Verdict

LEMMA CloseStays ==
  ASSUME TypeInv, DecideOnce, NEW k \in Conn, Close(k)
  PROVE  /\ \A j \in Conn : Stays(j)
         /\ \A i, e : e \in Verdict /\ SeenAtTask(i, e)' => SeenAtTask(i, e)
<1>1. told' \in [Conn -> SUBSET TxId] /\ told'[k] = {}
      /\ \A j \in Conn \ {k} : told'[j] = told[j]
  BY DEF Close, TypeInv, TasksInv
<1>2. QED
  BY <1>1, RestStays DEF Close

\* A task between its order and its verdict.
LEMMA WorkStays ==
  ASSUME DecideOnce, NEW k \in Conn, OnlyTask(k), pc[k] \in Working, pc'[k] \in Working,
         request'[k] = request[k], told'[k] = told[k]
  PROVE  /\ \A j \in Conn : Stays(j)
         /\ \A i, e : e \in Verdict /\ SeenAtTask(i, e)' => SeenAtTask(i, e)
<1>1. Stays(k)
  BY DEF Stays, Handles, Undecided, Working, DecideOnce
<1>2. QED
  BY <1>1, OthersStayed, OneTaskSeen DEF Verdict, Working

-----------------------------------------------------------------------------
\* Each action of a customer's task passes one verdict at most.

LEMMA TaskPasses ==
  ASSUME TypeInv, TypeInv', DecideOnce, NEW k \in Conn, NEW id \in Undecided(k), NEW d \in Decision,
         Decides(home[k], id, d), chan' = chan, OnlyTask(k),
         pc'[k] = d, request'[k] = id, told'[k] = told[k] \ {id}
  PROVE  DecideOnce'
<1>1. home[k] \in Node /\ id \in TxId /\ id \in Handles(k)
  BY UndecidedAreHandled, HomeAssumption
<1>2. /\ \A i, e : e \in Verdict /\ SeenOnRecord(i, e)' =>
           SeenOnRecord(i, e) \/ (i = id /\ e = d)
      /\ \A i, e : SeenAtTask(i, e)' => SeenAtTask(i, e) \/ (i = id /\ e = d)
      /\ \A i, e : SeenOnItsWay(i, e)' => SeenOnItsWay(i, e)
  BY <1>1, DecidedSeen, OneTaskSeen DEF SeenOnItsWay
<1>3. OnlySeen(id, d)
  BY <1>2 DEF OnlySeen, Seen
<1>4. Stays(k)
  <2>1. Handles(k)' = told[k] \cup {id} /\ Undecided(k)' \subseteq told[k] \cup {id}
    BY DEF Handles, Undecided, Decision, Working
  <2>2. told[k] \subseteq Undecided(k) /\ told[k] \subseteq Handles(k)
    BY DEF Handles, Undecided
  <2>3. QED
    BY <1>1, <2>1, <2>2 DEF Stays
<1>5. \A j \in Conn : Stays(j)
  BY <1>4, OthersStayed
<1>6. CASE d = "Confirm"
  BY <1>3, <1>5, <1>6, QuietDecides DEF OnlySeen, NothingSeen, Verdict
<1>7. CASE d \in Verdict
  <2>1. id \notin Undecided(k)'
    BY <1>7 DEF Undecided, Working, Verdict
  <2>2. QED
    BY <1>3, <1>5, <1>7, <2>1, VerdictDecides
<1>8. QED
  BY <1>6, <1>7 DEF Decision, Verdict

LEMMA ConcludeDecides ==
  ASSUME TypeInv, TypeInv', DecideOnce, NEW k \in Conn, Agree(k) \/ Abort(k)
  PROVE  DecideOnce'
<1>1. PICK id : id = request[k]
  OBVIOUS
<1>2. /\ pc[k] = "asking" /\ id \in Undecided(k) /\ told'[k] = told[k] \ {id}
      /\ OnlyTask(k) /\ request'[k] = id /\ chan' = chan
  BY <1>1 DEF Agree, Abort, Undecided, Working, OnlyTask, linkVars, TypeInv, TasksInv, DecideOnce
<1>3. CASE Agree(k)
  BY <1>1, <1>2, <1>3, TaskPasses DEF Agree, Decides, Decision, TypeInv, TasksInv
<1>4. CASE Abort(k)
  BY <1>1, <1>2, <1>4, TaskPasses DEF Abort, Cancel, Decides, Decision, TypeInv, TasksInv
<1>5. QED
  BY <1>3, <1>4

LEMMA CustomerDecides ==
  ASSUME TypeInv, TypeInv', DecideOnce, NEW k \in Conn, NEW id \in TxId,
         OnCommit(k, id) \/ OnCancel(k, id)
  PROVE  DecideOnce'
<1>1. PICK d \in Verdict : OnDecision(k, id, d) /\ Decides(home[k], id, d)
  BY DEF OnCommit, OnCancel, Cancel, Decides, Verdict
<1>2. /\ id \in Undecided(k) /\ told'[k] = told[k] \ {id}
      /\ OnlyTask(k) /\ pc'[k] = d /\ request'[k] = id /\ chan' = chan
  BY <1>1 DEF OnDecision, Undecided, OnlyTask, linkVars, TypeInv, TasksInv
<1>3. QED
  BY <1>1, <1>2, TaskPasses DEF Verdict, Decision

LEMMA NotifyDecides ==
  ASSUME TypeInv, TypeInv', DecideOnce, NEW k \in Conn, Notify(k) \/ NotifyFails(k)
  PROVE  DecideOnce'
<1>1. PICK S : chan' = Posted(chan, home[k], S, Notice(pc[k], request[k]))
  BY DEF Notify, NotifyFails
<1>2. home[k] \in Node /\ txs' = txs
  BY HomeAssumption DEF Notify, NotifyFails, storeVars
<1>3. Moved(home[k], S, Notice(pc[k], request[k]))
  BY <1>1, <1>2, PostMoves DEF TypeInv
<1>4. \A i, e : SeenOnItsWay(i, e)' => SeenOnItsWay(i, e) \/ SeenAtTask(i, e)
  BY <1>2, <1>3, MovedSeen DEF Notice, SeenAtTask
<1>5. /\ \A j \in Conn : Stays(j)
      /\ \A i, e : e \in Verdict /\ SeenAtTask(i, e)' => SeenAtTask(i, e)
  <2>1. CASE Notify(k)
    <3>1. /\ Rest(k)
          /\ told' = IF pc[k] = "Confirm"
                     THEN [told EXCEPT ![k] = @ \cup {request[k]}] ELSE told
          /\ request[k] \in TxId
      BY <2>1, AtWork DEF Notify, Decision
    <3>2. told' \in [Conn -> SUBSET TxId] /\ \A j \in Conn \ {k} : told'[j] = told[j]
      BY <3>1 DEF TypeInv, TasksInv
    <3>3. \A id \in told'[k] : id \in told[k] \/ (pc[k] = "Confirm" /\ id = request[k])
      BY <3>1 DEF TypeInv, TasksInv
    <3>4. QED
      BY <3>1, <3>2, <3>3, RestStays
  <2>2. CASE NotifyFails(k)
    BY <2>2, CloseStays DEF NotifyFails
  <2>3. QED
    BY <2>1, <2>2
<1>6. NothingSeen
  BY <1>2, <1>4, <1>5, SameRecordsSeen DEF NothingSeen, Seen
<1>7. QED
  BY <1>5, <1>6, QuietDecides

LEMMA CloseDecides ==
  ASSUME TypeInv, DecideOnce, NEW k \in Conn, Close(k), UNCHANGED <<txs, linkVars>>
  PROVE  DecideOnce'
<1>1. txs' = txs /\ chan' = chan
  BY DEF linkVars
<1>2. NothingSeen
  BY <1>1, CloseStays, SameRecordsSeen DEF NothingSeen, Seen, SeenOnItsWay
<1>3. QED
  BY <1>2, CloseStays, QuietDecides

LEMMA ServeDecides ==
  ASSUME TypeInv, TypeInv', DecideOnce, NEW k \in Conn, Serve(k)
  PROVE  DecideOnce'
<1>1. CASE Begin(k)
  <2>1. /\ pc[k] \in Working /\ pc'[k] \in Working /\ OnlyTask(k)
        /\ request'[k] = request[k] /\ told'[k] = told[k]
    BY <1>1 DEF Begin, Working, OnlyTask, TypeInv, TasksInv
  <2>2. txs' = txs /\ chan' = chan
    BY <1>1 DEF Begin, storeVars, linkVars
  <2>3. NothingSeen
    BY <2>1, <2>2, WorkStays, SameRecordsSeen DEF NothingSeen, Seen, SeenOnItsWay
  <2>4. QED
    BY <2>1, <2>3, WorkStays, QuietDecides
<1>2. CASE Ask(k)
  <2>1. /\ pc[k] \in Working /\ pc'[k] \in Working /\ OnlyTask(k)
        /\ request'[k] = request[k] /\ told'[k] = told[k]
    BY <1>2 DEF Ask, Working, OnlyTask, TypeInv, TasksInv
  <2>2. PICK m : chan' = Posted(chan, home[k], {m}, AskMessage(request[k], Plan(k)[m]))
    BY <1>2 DEF Ask
  <2>3. home[k] \in Node /\ txs' = txs
    BY <1>2, HomeAssumption DEF Ask, storeVars
  <2>4. Moved(home[k], {m}, AskMessage(request[k], Plan(k)[m]))
    BY <2>2, <2>3, PostMoves DEF TypeInv
  <2>5. \A i, e : e \in Verdict /\ SeenOnItsWay(i, e)' => SeenOnItsWay(i, e)
    BY <2>3, <2>4, MovedSeen DEF AskMessage, Verdict
  <2>6. NothingSeen
    BY <2>1, <2>3, <2>5, WorkStays, SameRecordsSeen DEF NothingSeen, Seen
  <2>7. QED
    BY <2>1, <2>6, WorkStays, QuietDecides
<1>3. CASE AskFails(k) \/ Timeout(k) \/ AbortPanics(k)
  BY <1>3, LeftOff, CloseDecides DEF LeavesOff
<1>4. QED
  BY <1>1, <1>2, <1>3, ConcludeDecides, NotifyDecides DEF Serve

-----------------------------------------------------------------------------
\* An order draws an id that nothing is known of.

LEMMA UnusedIsUnseen ==
  ASSUME TypeInv, UsedInv, NEW id \in TxId \ used
  PROVE  /\ \A e \in Verdict : ~Seen(id, e)
         /\ \A k \in Conn : id \notin Handles(k)
<1>1. \A k \in Conn : id \notin Handles(k)
  BY HandledIsOwned DEF UsedInv
<1>2. \A e \in Verdict : ~SeenAtTask(id, e)
  BY <1>1 DEF SeenAtTask, Handles, Verdict
<1>3. \A e \in Verdict : ~SeenOnItsWay(id, e) /\ ~SeenOnRecord(id, e)
  BY DEF SeenOnItsWay, SeenOnRecord, Verdict, Decision, UsedInv
<1>4. QED
  BY <1>1, <1>2, <1>3 DEF Seen

LEMMA OrderDecides ==
  ASSUME RestartInv, TypeInv', DecideOnce, NetworkStep,
         NEW k \in Conn, NEW p \in Product, NEW q \in Qty, OnOrder(k, p, q)
  PROVE  DecideOnce'
<1>1. TypeInv /\ UsedInv /\ home[k] \in Node
  BY HomeAssumption DEF RestartInv, RestartsInv
<1>2. PICK id \in TxId :
        /\ txs'[home[k]][id].state = "AwaitingConfirmation"
        /\ OnlyRecord(home[k], id) /\ OnlyTask(k)
        /\ pc[k] = "idle" /\ pc'[k] = "planned" /\ request'[k] = id /\ told'[k] = told[k]
  BY <1>1, PlannedAt
<1>3. request[k] = None
  BY <1>1, <1>2 DEF TypeInv, TasksInv
<1>4. id \notin used
  BY <1>2, <1>3 DEF NetworkStep
<1>5. /\ \A e \in Verdict : ~Seen(id, e)
      /\ \A j \in Conn : id \notin Handles(j)
  BY <1>1, <1>4, UnusedIsUnseen
<1>6. NothingSeen
  <2>1. \A i, e : e \in Verdict /\ SeenOnRecord(i, e)' => SeenOnRecord(i, e)
    BY <1>1, <1>2, OneRecordSeen DEF Outcome
  <2>2. \A i, e : e \in Verdict /\ SeenAtTask(i, e)' => SeenAtTask(i, e)
    BY <1>2, OneTaskSeen DEF Verdict
  <2>3. chan' = chan
    BY DEF OnOrder, linkVars
  <2>4. QED
    BY <2>1, <2>2, <2>3 DEF NothingSeen, Seen, SeenOnItsWay
<1>7. /\ Handles(k)' = told[k] \cup {id} /\ Undecided(k)' = told[k] \cup {id}
      /\ Handles(k) = told[k] /\ Undecided(k) = told[k]
  BY <1>2 DEF Handles, Undecided, Working
<1>8. \A j \in Conn \ {k} : Stays(j)
  BY <1>2, OthersStayed
<1>9. \A i, j \in Conn : i # j => Handles(i)' \cap Handles(j)' = {}
  BY <1>5, <1>7, <1>8 DEF DecideOnce, Stays
<1>10. \A j \in Conn : pc'[j] # "idle" => request'[j] \notin told'[j]
  BY <1>2, <1>5, <1>7, <1>8 DEF Stays
<1>11. ASSUME NEW j \in Conn, NEW i \in Undecided(j)', NEW e \in Verdict
       PROVE  ~Seen(i, e)'
  <2>1. i \in Undecided(j) \/ i = id
    BY <1>7, <1>8, <1>11 DEF Stays
  <2>2. i \in TxId
    BY <1>1, <2>1, UndecidedAreHandled
  <2>3. ~Seen(i, e)
    BY <1>5, <2>1 DEF DecideOnce
  <2>4. QED
    BY <1>6, <2>2, <2>3 DEF NothingSeen
<1>12. \A i \in TxId : ~(Seen(i, "Commit")' /\ Seen(i, "Cancel")')
  BY <1>6 DEF DecideOnce, NothingSeen, Verdict
<1>13. QED
  BY <1>9, <1>10, <1>11, <1>12 DEF DecideOnce

\* Where no record and no task changes and no verdict is sent.
LEMMA SilentDecides ==
  ASSUME TypeInv, TypeInv', DecideOnce, txs' = txs, UNCHANGED connVars,
         NEW r \in Node, NEW S, NEW msg, Moved(r, S, msg), S = {} \/ msg.type \notin Verdict
  PROVE  DecideOnce'
<1>1. \A i, e : e \in Verdict /\ SeenOnItsWay(i, e)' => SeenOnItsWay(i, e)
  BY MovedSeen
<1>2. NothingSeen
  BY <1>1, SameRecordsSeen, SameTasksSeen DEF NothingSeen, Seen
<1>3. QED
  BY <1>2, AllStayed, QuietDecides

\* Where messages, if anything, get fewer.
LEMMA LessDecides ==
  ASSUME TypeInv, DecideOnce, txs' = txs, UNCHANGED connVars, Fewer(chan')
  PROVE  DecideOnce'
<1>1. NothingSeen
  BY SameRecordsSeen, SameTasksSeen, FewerSeen DEF NothingSeen, Seen
<1>2. QED
  BY <1>1, AllStayed, QuietDecides

-----------------------------------------------------------------------------
\* Stores pass the verdicts on that they hear.

LEMMA OperatorDecides ==
  ASSUME TypeInv, TypeInv', DecideOnce, NEW n \in Node,
         Operator(n) \/ Snapshot(n) \/ Broadcast(n)
  PROVE  DecideOnce'
<1>1. txs' = txs /\ UNCHANGED connVars /\ LinksInv
  BY DEF Operator, AddStock, LocalRequest, Snapshot, Broadcast, storeVars, TypeInv
<1>2. CASE Operator(n) \/ Snapshot(n)
  BY <1>1, <1>2, Unread, LessDecides DEF Operator, Snapshot, linkVars
<1>3. CASE Broadcast(n)
  <2>1. PICK s : chan' = Posted(chan, n, linked[n], Announcement(s))
    BY <1>3 DEF Broadcast
  <2>2. Moved(n, linked[n], Announcement(s)) /\ Announcement(s).type \notin Verdict
    BY <1>1, <2>1, PostMoves DEF Announcement, Verdict
  <2>3. QED
    BY <1>1, <2>2, SilentDecides
<1>4. QED
  BY <1>2, <1>3

LEMMA AskDecides ==
  ASSUME TypeInv, TypeInv', DecideOnce, NEW m \in Node, NEW n \in Node, ReceiveAsk(m, n)
  PROVE  DecideOnce'
<1>1. PICK msg, id : msg = Head(chan[m][n]) /\ id = msg.id
  OBVIOUS
<1>2. chan[m][n] # <<>> /\ msg.type = "Ask" /\ LinksInv /\ StoreInv /\ UNCHANGED connVars
  BY <1>1 DEF ReceiveAsk, Arrives, TypeInv
<1>3. id \in TxId
  BY <1>1, <1>2, Read, IdOfMessage
<1>4. PICK ok \in BOOLEAN :
        /\ IF ok THEN AskAccepted(n, id, msg.share) ELSE AskRefused(n, msg.share)
        /\ chan' = Posted(Rests(m, n), n, {m} \cap linked[n], Response(id, ok))
  BY <1>1 DEF ReceiveAsk
<1>5. Moved(n, {m}, Response(id, ok)) /\ Response(id, ok).type = "Response"
  BY <1>2, <1>4, ReplyMoves DEF Response
<1>6. \A i, e : e \in Verdict /\ SeenOnItsWay(i, e)' => SeenOnItsWay(i, e)
  BY <1>5, MovedSeen DEF Verdict
<1>7. \A i, e : e \in Verdict /\ SeenOnRecord(i, e)' => SeenOnRecord(i, e)
  <2>1. CASE ok
    <3>1. OnlyRecord(n, id) /\ txs'[n][id].state = "AwaitingConfirmation"
      BY <1>2, <1>3, <1>4, <2>1, AcceptedAt DEF Transaction
    <3>2. QED
      BY <1>3, <3>1, OneRecordSeen DEF Outcome
  <2>2. CASE ~ok
    BY <1>4, <2>2, SameRecordsSeen DEF AskRefused, storeVars
  <2>3. QED
    BY <2>1, <2>2
<1>8. NothingSeen
  BY <1>2, <1>6, <1>7, SameTasksSeen DEF NothingSeen, Seen
<1>9. QED
  BY <1>2, <1>8, AllStayed, QuietDecides

LEMMA NoticeDecides ==
  ASSUME TypeInv, TypeInv', DecideOnce, NEW m \in Node, NEW n \in Node, ReceiveNotice(m, n)
  PROVE  DecideOnce'
<1>1. PICK msg, id, d : msg = Head(chan[m][n]) /\ id = msg.id /\ d = msg.type
  OBVIOUS
<1>2. /\ chan[m][n] # <<>> /\ d \in Decision /\ Decides(n, id, d)
      /\ chan' = Rests(m, n) /\ UNCHANGED connVars
  BY <1>1 DEF ReceiveNotice, Arrives, Decision, Decides
<1>3. msg \in Range(chan[m][n]) /\ Fewer(chan')
  BY <1>1, <1>2, Read
<1>4. id \in TxId
  BY <1>1, <1>2, <1>3, IdOfMessage DEF TypeInv
<1>5. \A i, e : e \in Verdict /\ SeenOnRecord(i, e)' =>
        SeenOnRecord(i, e) \/ (i = id /\ e = d)
  BY <1>2, <1>4, DecidedSeen
<1>6. SeenOnItsWay(id, d)
  BY <1>1, <1>3 DEF SeenOnItsWay
<1>7. NothingSeen
  BY <1>2, <1>3, <1>5, <1>6, FewerSeen, SameTasksSeen DEF NothingSeen, Seen
<1>8. QED
  BY <1>2, <1>7, AllStayed, QuietDecides

LEMMA ResponseDecides ==
  ASSUME TypeInv, DecideOnce, NEW m \in Node, NEW n \in Node, ReceiveResponse(m, n)
  PROVE  DecideOnce'
<1>1. chan[m][n] # <<>> /\ chan' = Rests(m, n) /\ txs' = txs
  BY DEF ReceiveResponse, Arrives, storeVars
<1>2. Fewer(chan')
  BY <1>1, Read
<1>3. ASSUME NEW k \in Conn
      PROVE  /\ request'[k] = request[k] /\ told'[k] = told[k]
             /\ \/ pc'[k] = pc[k]
                \/ pc[k] = "waiting" /\ pc'[k] = "asking"
  BY DEF ReceiveResponse, Awaiting
<1>4. \A k \in Conn : Stays(k)
  BY <1>3 DEF Stays, Handles, Undecided, Working, DecideOnce
<1>5. \A i, e : e \in Verdict /\ SeenAtTask(i, e)' => SeenAtTask(i, e)
  BY <1>3 DEF SeenAtTask, Verdict
<1>6. NothingSeen
  BY <1>1, <1>2, <1>5, SameRecordsSeen, FewerSeen DEF NothingSeen, Seen
<1>7. QED
  BY <1>4, <1>6, QuietDecides

LEMMA ReceiveDecides ==
  ASSUME TypeInv, TypeInv', DecideOnce, NEW m \in Node, NEW n \in Node,
         Receive(m, n) \/ Coalesced(m, n) \/ LinkLost(n, m)
  PROVE  DecideOnce'
<1>1. ASSUME Moved(n, {}, 0), txs' = txs, UNCHANGED connVars
      PROVE  DecideOnce'
  BY <1>1, SilentDecides
<1>2. CASE ReceiveUpdate(m, n)
  <2>1. chan[m][n] # <<>> /\ chan' = Rests(m, n) /\ txs' = txs /\ LinksInv
    BY <1>2 DEF ReceiveUpdate, Update, Arrives, TypeInv
  <2>2. QED
    BY <1>1, <1>2, <2>1, ReadMoves DEF ReceiveUpdate
<1>3. CASE Coalesced(m, n) \/ LinkLost(n, m)
  BY <1>1, <1>3, LossMoves DEF Coalesced, LinkLost, Shutdown, storeVars, TypeInv
<1>4. QED
  BY <1>2, <1>3, AskDecides, NoticeDecides, ResponseDecides DEF Receive

LEMMA CustomersDecide ==
  ASSUME RestartInv, TypeInv', DecideOnce, NetworkStep, NEW k \in Conn, Customer(k)
  PROVE  DecideOnce'
<1>1. TypeInv
  BY DEF RestartInv
<1>2. CASE \E p \in Product, q \in Qty : OnOrder(k, p, q) \/ OrderRefused(k, p, q)
  <2>1. PICK p \in Product, q \in Qty : OnOrder(k, p, q) \/ OrderRefused(k, p, q)
    BY <1>2
  <2>2. CASE OnOrder(k, p, q)
    BY <2>2, OrderDecides
  <2>3. CASE OrderRefused(k, p, q)
    BY <1>1, <2>3, Unread, LessDecides
    DEF OrderRefused, vars, storeVars, linkVars, TypeInv
  <2>4. QED
    BY <2>1, <2>2, <2>3
<1>3. CASE \E id \in TxId : OnCommit(k, id) \/ OnCancel(k, id)
  BY <1>1, <1>3, CustomerDecides
<1>4. CASE Hangup(k) \/ \E id \in TxId : OnCancelPanics(k, id)
  BY <1>1, <1>4, LeftOff, CloseDecides DEF LeavesOff
<1>5. QED
  BY <1>2, <1>3, <1>4 DEF Customer

LEMMA NetworkDecides ==
  ASSUME RestartInv, TypeInv', DecideOnce, NetworkStep
  PROVE  DecideOnce'
<1>1. TypeInv /\ Next
  BY DEF RestartInv, NetworkStep
<1>2. CASE \E k \in Conn : Serve(k) \/ Customer(k)
  BY <1>1, <1>2, ServeDecides, CustomersDecide
<1>3. CASE \E n \in Node : Operator(n) \/ Snapshot(n) \/ Broadcast(n)
  BY <1>1, <1>3, OperatorDecides
<1>4. CASE \E m \in Node, n \in Node : Receive(m, n) \/ Coalesced(m, n) \/ LinkLost(m, n)
  BY <1>1, <1>4, ReceiveDecides
<1>5. CASE StandsStill
  BY <1>1, <1>5, Unread, LessDecides DEF StandsStill, storeVars, linkVars, TypeInv
<1>6. QED
  BY <1>1, <1>2, <1>3, <1>4, <1>5, DownStandsStill DEF Next, Updater, Lose

-----------------------------------------------------------------------------
\* A store that is started again forgets verdicts, and passes none.

LEMMA RestartDecides ==
  ASSUME TypeInv, DecideOnce, NEW n \in Node, Forgets(n), Fewer(chan')
  PROVE  DecideOnce'
<1>1. \A i, e : SeenOnRecord(i, e)' => SeenOnRecord(i, e)
  BY DEF Forgets, SeenOnRecord, Empty
<1>2. \A i, e : e \in Verdict /\ SeenAtTask(i, e)' => SeenAtTask(i, e)
  BY DEF Forgets, SeenAtTask, Verdict
<1>3. NothingSeen
  BY <1>1, <1>2, FewerSeen DEF NothingSeen, Seen
<1>4. ASSUME NEW k \in Conn
      PROVE  Stays(k)
  <2>1. CASE home[k] = n
    BY <2>1 DEF Forgets, Stays, Handles, Undecided, Working
  <2>2. CASE home[k] # n
    BY <2>2 DEF Forgets, Stays, Handles, Undecided, DecideOnce
  <2>3. QED
    BY <2>1, <2>2
<1>5. QED
  BY <1>3, <1>4, QuietDecides

DecideInv == RestartInv /\ DecideOnce

LEMMA NobodyDecided == RestartInit => DecideInv
<1> SUFFICES ASSUME RestartInit PROVE DecideInv
  OBVIOUS
<1>1. \A i, e : ~SeenOnRecord(i, e) /\ ~SeenOnItsWay(i, e)
  BY DEF RestartInit, Init, StoreInit, SeenOnRecord, SeenOnItsWay, Empty, Range
<1>2. \A i, e : e \in Verdict => ~SeenAtTask(i, e)
  BY DEF RestartInit, Init, SeenAtTask, Verdict
<1>3. \A k \in Conn : Handles(k) = {} /\ Undecided(k) = {}
  BY DEF RestartInit, Init, Handles, Undecided, Working
<1>4. DecideOnce
  BY <1>1, <1>2, <1>3 DEF DecideOnce, Seen, RestartInit, Init, Verdict
<1>5. QED
  BY <1>4, NobodyGone DEF DecideInv

LEMMA DecideInductive == DecideInv /\ [RestartNext]_<<vars, restartVars>> => DecideInv'
<1> SUFFICES ASSUME DecideInv, [RestartNext]_<<vars, restartVars>> PROVE DecideInv'
  OBVIOUS
<1>1. RestartInv /\ RestartInv' /\ DecideOnce /\ TypeInv /\ TypeInv' /\ LinksInv
  <2>1. RestartInv /\ RestartInv' /\ DecideOnce
    BY RestartInductive DEF DecideInv
  <2>2. QED
    BY <2>1 DEF RestartInv, TypeInv
<1>2. ASSUME NEW n \in Node, NEW m \in Node, Join(n, m) \/ Noticed(n, m) \/ Unheard(n, m)
      PROVE  DecideOnce'
  <2>1. txs' = txs /\ UNCHANGED connVars
    BY <1>2 DEF Join, Noticed, Unheard, Shutdown, storeVars
  <2>2. CASE Join(n, m)
    <3>1. chan \in Channels
      BY <1>1 DEF LinksInv
    <3>2. \A a, b \in Node : chan'[a][b] = <<>> \/ chan'[a][b] = chan[a][b]
      BY <2>2, <3>1 DEF Join, Channels
    <3>3. \A i, e : SeenOnItsWay(i, e)' => SeenOnItsWay(i, e)
      BY <3>2 DEF SeenOnItsWay, Range
    <3>4. NothingSeen
      BY <2>1, <3>3, SameRecordsSeen, SameTasksSeen DEF NothingSeen, Seen
    <3>5. QED
      BY <1>1, <2>1, <3>4, AllStayed, QuietDecides
  <2>3. CASE Noticed(n, m)
    BY <1>1, <2>1, <2>3, Unread, LessDecides DEF Noticed
  <2>4. CASE Unheard(n, m)
    BY <1>1, <2>1, <2>4, Read, LessDecides DEF Unheard
  <2>5. QED
    BY <1>2, <2>2, <2>3, <2>4
<1>3. ASSUME NEW k \in Conn, Deserted(k)
      PROVE  DecideOnce'
  BY <1>1, <1>3, CloseDecides DEF Deserted, storeVars
<1>4. ASSUME NEW n \in Node, Restart(n)
      PROVE  DecideOnce'
  <2>1. Forgets(n) /\ Fewer(chan')
    BY <1>1, <1>4, RestartForgets, ForgetsTypes
  <2>2. QED
    BY <1>1, <2>1, RestartDecides
<1>5. ASSUME UNCHANGED <<vars, restartVars>>
      PROVE  DecideOnce'
  BY <1>1, <1>5, Unread, LessDecides DEF vars, storeVars, linkVars
<1>6. DecideOnce'
  BY <1>1, <1>2, <1>3, <1>4, <1>5, NetworkDecides DEF RestartNext
<1>7. QED
  BY <1>1, <1>6 DEF DecideInv

\* No store finishes a purchase that another store cancels, although messages
\* of before a restart are handled after it: the task that decides on a
\* purchase is the only one that ever could, and a store that is started again
\* takes with it what it had not decided.
THEOREM RestartsAgree == RestartSpec => []DecisionsAgree
<1>1. DecideInv => DecisionsAgree
  <2> SUFFICES ASSUME DecideInv, NEW id \in TxId, NEW n \in Node, NEW m \in Node,
                      RecordAt(id, n) = "Finalized", RecordAt(id, m) = "Cancelled"
               PROVE  FALSE
    BY DEF DecisionsAgree
  <2>1. SeenOnRecord(id, "Commit") /\ SeenOnRecord(id, "Cancel")
    BY DEF RecordAt, SeenOnRecord, Outcome
  <2>2. QED
    BY <2>1 DEF DecideInv, DecideOnce, Seen
<1>2. QED
  BY <1>1, NobodyDecided, DecideInductive, PTL DEF RestartSpec
=============================================================================
