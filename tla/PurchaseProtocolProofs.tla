----------------------- MODULE PurchaseProtocolProofs ------------------------
(***************************************************************************)
(* What the order of messages guarantees, for any stores, customers, links *)
(* and losses: no actor panics, every purchase is atomic, and nothing is   *)
(* sold twice anywhere.                                                    *)
(***************************************************************************)
EXTENDS PurchaseNetworkProofs

-----------------------------------------------------------------------------
\* Channels in order.

\* new is what is left of old once its first messages are read or lost, with
\* at most one message of sent after it.
Shifted(new, old, sent) ==
  \E d \in Nat : \A i \in DOMAIN new :
    \/ i + d \in DOMAIN old /\ new[i] = old[i + d]
    \/ i = Len(new) /\ new[i] \in sent

\* Every channel is shifted; n may have sent msg to stores of S.
Moved(n, S, msg) ==
  \A a, b \in Node :
    Shifted(chan'[a][b], chan[a][b], IF a = n /\ b \in S THEN {msg} ELSE {})

LEMMA KeptShifts ==
  ASSUME NEW T, NEW s \in Seq(T), NEW sent
  PROVE  Shifted(s, s, sent)
<1>1. \A i \in DOMAIN s : i + 0 \in DOMAIN s /\ s[i] = s[i + 0]
  OBVIOUS
<1>2. QED
  BY <1>1 DEF Shifted

LEMMA DroppedShifts ==
  ASSUME NEW T, NEW s \in Seq(T), NEW d \in 0 .. Len(s), NEW sent
  PROVE  Shifted(SubSeq(s, d + 1, Len(s)), s, sent)
<1> DEFINE new == SubSeq(s, d + 1, Len(s))
<1>1. \A i \in DOMAIN new : i + d \in DOMAIN s /\ new[i] = s[i + d]
  OBVIOUS
<1> HIDE DEF new
<1>2. Shifted(new, s, sent)
  BY <1>1 DEF Shifted
<1>3. QED
  BY <1>2 DEF new

LEMMA TailShifts ==
  ASSUME NEW T, NEW s \in Seq(T), s # <<>>, NEW sent
  PROVE  /\ Shifted(Tail(s), s, sent)
         /\ \A i \in DOMAIN Tail(s) : i + 1 \in DOMAIN s /\ Tail(s)[i] = s[i + 1]
<1>1. \A i \in DOMAIN Tail(s) : i + 1 \in DOMAIN s /\ Tail(s)[i] = s[i + 1]
  OBVIOUS
<1>2. QED
  BY <1>1 DEF Shifted

LEMMA EmptyShifts ==
  ASSUME NEW s, NEW sent
  PROVE  Shifted(<<>>, s, sent)
  BY DEF Shifted

LEMMA AppendedShifts ==
  ASSUME NEW T, NEW s \in Seq(T), NEW e
  PROVE  Shifted(Append(s, e), s, {e})
<1> DEFINE new == Append(s, e)
<1>1. /\ DOMAIN new = 1 .. Len(s) + 1 /\ DOMAIN s = 1 .. Len(s) /\ Len(s) \in Nat
      /\ \A i \in 1 .. Len(s) : new[i] = s[i]
      /\ new[Len(s) + 1] = e /\ Len(new) = Len(s) + 1
  OBVIOUS
<1> HIDE DEF new
<1>2. \A i \in DOMAIN new :
        (i + 0 \in DOMAIN s /\ new[i] = s[i + 0]) \/ (i = Len(new) /\ new[i] \in {e})
  BY <1>1
<1>3. Shifted(new, s, {e})
  BY <1>2 DEF Shifted
<1>4. QED
  BY <1>3 DEF new

LEMMA PostedAt ==
  ASSUME NEW c \in Channels, NEW n \in Node, NEW S, NEW msg, NEW a \in Node, NEW b \in Node
  PROVE  Posted(c, n, S, msg)[a][b] =
           IF a = n /\ b \in S /\ n \in linked[b] THEN Append(c[a][b], msg) ELSE c[a][b]
  BY DEF Channels, Posted

LEMMA RestsAt ==
  ASSUME chan \in Channels, NEW m \in Node, NEW n \in Node, NEW a \in Node, NEW b \in Node
  PROVE  Rests(m, n)[a][b] = IF a = m /\ b = n THEN Tail(chan[m][n]) ELSE chan[a][b]
  BY DEF Channels, Rests

LEMMA UnmovedChannels ==
  ASSUME LinksInv, chan' = chan, NEW n, NEW S, NEW msg
  PROVE  Moved(n, S, msg)
  BY KeptShifts DEF LinksInv, Channels, Moved

LEMMA PostMoves ==
  ASSUME LinksInv, NEW n \in Node, NEW S, NEW msg, chan' = Posted(chan, n, S, msg)
  PROVE  Moved(n, S, msg)
<1> SUFFICES ASSUME NEW a \in Node, NEW b \in Node
             PROVE  Shifted(chan'[a][b], chan[a][b], IF a = n /\ b \in S THEN {msg} ELSE {})
  BY DEF Moved
<1>1. chan \in Channels /\ chan[a][b] \in Seq(Message)
  BY DEF LinksInv, Channels
<1>2. chan'[a][b] = IF a = n /\ b \in S /\ n \in linked[b]
                    THEN Append(chan[a][b], msg) ELSE chan[a][b]
  BY <1>1, PostedAt
<1>3. CASE a = n /\ b \in S /\ n \in linked[b]
  BY <1>1, <1>2, <1>3, AppendedShifts
<1>4. CASE ~(a = n /\ b \in S /\ n \in linked[b])
  BY <1>1, <1>2, <1>4, KeptShifts
<1>5. QED
  BY <1>3, <1>4

LEMMA ReadMoves ==
  ASSUME LinksInv, NEW m \in Node, NEW n \in Node, chan[m][n] # <<>>,
         chan' = Rests(m, n), NEW r, NEW S, NEW msg
  PROVE  Moved(r, S, msg)
<1> SUFFICES ASSUME NEW a \in Node, NEW b \in Node, NEW sent
             PROVE  Shifted(chan'[a][b], chan[a][b], sent)
  BY DEF Moved
<1>1. chan \in Channels /\ chan[a][b] \in Seq(Message)
  BY DEF LinksInv, Channels
<1>2. chan'[a][b] = IF a = m /\ b = n THEN Tail(chan[a][b]) ELSE chan[a][b]
  BY <1>1, RestsAt
<1>3. QED
  BY <1>1, <1>2, TailShifts, KeptShifts

\* A store that reads from m may answer it.
LEMMA ReplyMoves ==
  ASSUME LinksInv, NEW m \in Node, NEW n \in Node, chan[m][n] # <<>>, NEW msg,
         chan' = Posted(Rests(m, n), n, {m} \cap linked[n], msg)
  PROVE  Moved(n, {m}, msg) /\ chan'[m][n] = Tail(chan[m][n])
<1>1. m # n /\ chan \in Channels /\ Rests(m, n) \in Channels
  <2>1. m # n /\ chan \in Channels /\ chan[m][n] \in Seq(Message)
    BY DEF LinksInv, Channels
  <2>2. Tail(chan[m][n]) \in Seq(Message)
    BY <2>1, HeadAndTail
  <2>3. QED
    BY <2>1, <2>2 DEF Rests, Channels
<1> DEFINE sends(a, b) == a = n /\ b = m /\ m \in linked[n] /\ n \in linked[m]
           reads(a, b) == a = m /\ b = n
<1>2. ASSUME NEW a \in Node, NEW b \in Node
      PROVE  chan'[a][b] = IF sends(a, b) THEN Append(chan[a][b], msg)
                           ELSE IF reads(a, b) THEN Tail(chan[a][b]) ELSE chan[a][b]
  BY <1>1, PostedAt, RestsAt
<1>3. ASSUME NEW a \in Node, NEW b \in Node
      PROVE  Shifted(chan'[a][b], chan[a][b], IF a = n /\ b \in {m} THEN {msg} ELSE {})
  <2> DEFINE sent == IF a = n /\ b \in {m} THEN {msg} ELSE {}
  <2>1. /\ chan[a][b] \in Seq(Message)
        /\ sends(a, b) => sent = {msg}
        /\ reads(a, b) => ~sends(a, b) /\ chan[a][b] # <<>>
    BY <1>1 DEF Channels
  <2> HIDE DEF sent, sends, reads
  <2>2. CASE sends(a, b)
    <3>1. chan'[a][b] = Append(chan[a][b], msg)
      BY <1>2, <2>2
    <3>2. Shifted(Append(chan[a][b], msg), chan[a][b], {msg})
      BY <2>1, AppendedShifts
    <3>3. QED
      BY <2>1, <2>2, <3>1, <3>2 DEF sent
  <2>3. CASE reads(a, b)
    <3>1. chan'[a][b] = Tail(chan[a][b])
      BY <1>2, <2>1, <2>3
    <3>2. Shifted(Tail(chan[a][b]), chan[a][b], sent)
      BY <2>1, <2>3, TailShifts
    <3>3. QED
      BY <3>1, <3>2 DEF sent
  <2>4. CASE ~sends(a, b) /\ ~reads(a, b)
    <3>1. chan'[a][b] = chan[a][b]
      BY <1>2, <2>4
    <3>2. QED
      BY <2>1, <3>1, KeptShifts DEF sent
  <2>5. QED
    BY <2>2, <2>3, <2>4
<1>4. chan'[m][n] = Tail(chan[m][n])
  BY <1>1, <1>2
<1>5. QED
  BY <1>3, <1>4 DEF Moved

LEMMA LossMoves ==
  ASSUME LinksInv, NEW m \in Node, NEW n \in Node, Coalesced(m, n) \/ LinkLost(n, m),
         NEW r, NEW S, NEW msg
  PROVE  Moved(r, S, msg)
<1> SUFFICES ASSUME NEW a \in Node, NEW b \in Node, NEW sent
             PROVE  Shifted(chan'[a][b], chan[a][b], sent)
  BY DEF Moved
<1>1. /\ chan \in Channels /\ chan[a][b] \in Seq(Message)
      /\ chan[m][n] \in Seq(Message)
  BY DEF LinksInv, Channels
<1>2. CASE LinkLost(n, m)
  <2>1. chan'[a][b] = IF a = m /\ b = n THEN <<>> ELSE chan[a][b]
    BY <1>1, <1>2 DEF LinkLost, Channels
  <2>2. QED
    BY <1>1, <2>1, KeptShifts, EmptyShifts
<1>3. CASE Coalesced(m, n)
  <2>1. PICK i \in 2 .. Len(chan[m][n]) :
          chan' = [chan EXCEPT ![m][n] = SubSeq(@, i + 1, Len(@))]
    BY <1>3 DEF Coalesced
  <2>2. chan'[a][b] = IF a = m /\ b = n
                      THEN SubSeq(chan[m][n], i + 1, Len(chan[m][n])) ELSE chan[a][b]
    BY <1>1, <2>1 DEF Channels
  <2>3. i \in 0 .. Len(chan[m][n])
    BY <1>1
  <2>4. QED
    BY <1>1, <2>2, <2>3, KeptShifts, DroppedShifts
<1>4. QED
  BY <1>2, <1>3

\* Where a message was, and which came last.
LEMMA MovedFrom ==
  ASSUME LinksInv', NEW r \in Node, NEW S, NEW msg, Moved(r, S, msg),
         NEW a \in Node, NEW b \in Node
  PROVE  \E d \in Nat : \A i \in DOMAIN chan'[a][b] :
           /\ i \in Nat
           /\ \/ i + d \in DOMAIN chan[a][b] /\ chan'[a][b][i] = chan[a][b][i + d]
              \/ /\ a = r /\ b \in S /\ chan'[a][b][i] = msg
                 /\ \A j \in DOMAIN chan'[a][b] : j <= i
<1>1. PICK d \in Nat : \A i \in DOMAIN chan'[a][b] :
        \/ i + d \in DOMAIN chan[a][b] /\ chan'[a][b][i] = chan[a][b][i + d]
        \/ /\ i = Len(chan'[a][b])
           /\ chan'[a][b][i] \in IF a = r /\ b \in S THEN {msg} ELSE {}
  BY DEF Moved, Shifted
<1>2. chan'[a][b] \in Seq(Message)
  BY DEF LinksInv, Channels
<1>3. \A i \in DOMAIN chan'[a][b] : i \in Nat /\ i <= Len(chan'[a][b])
  BY <1>2
<1>4. QED
  BY <1>1, <1>3

-----------------------------------------------------------------------------
\* No actor panics.  A store indexes what it believes of the stores of a plan
\* by the products of the plan.  Nothing is ever taken off sale, and of one
\* store the others hear in order, so that what is believed of a store, what
\* was announced, what is about to be and what it has only gain products.

Knows(s, t) == DOMAIN s \subseteq DOMAIN t

Believed(n, m, t) == m \in DOMAIN peers[n] => Knows(peers[n][m].stock, t)

NewsInOrder(m, n) ==
  /\ Believed(n, m, stock[m])
  /\ \A s \in snap[m] : Knows(s, stock[m]) /\ Believed(n, m, s)
  /\ \A i \in DOMAIN chan[m][n] : chan[m][n][i].type = "Update" =>
       /\ Knows(chan[m][n][i].stock, stock[m])
       /\ \A s \in snap[m] : Knows(chan[m][n][i].stock, s)
       /\ Believed(n, m, chan[m][n][i].stock)
       /\ \A j \in DOMAIN chan[m][n] :
            i < j /\ chan[m][n][j].type = "Update" =>
              Knows(chan[m][n][i].stock, chan[m][n][j].stock)

\* All this holds of the stores but those of gone, which may come back with
\* less than they had.

PlanFits(gone, n, id) ==
  /\ Knows(Share(txs[n][id].involved_stock, n), stock[n])
  /\ \A m \in DOMAIN txs[n][id].involved_stock \ ({n} \cup gone) :
       m \in DOMAIN peers[n] /\ Knows(txs[n][id].involved_stock[m], peers[n][m].stock)

Lives(gone, n) == alive[n] \/ gone \ {n} # {}

CancelInv(gone) ==
  /\ \A n \in Node : Lives(gone, n)
  /\ \A m \in Node \ gone, n \in Node : NewsInOrder(m, n)
  /\ \A n \in Node : \A id \in DOMAIN txs[n] : PlanFits(gone, n, id)

LEMMA FittingIsIndexable ==
  ASSUME NEW gone, StoreInv, CancelInv(gone), NEW n \in Node, NEW id \in DOMAIN txs[n],
         gone \subseteq {n}
  PROVE  Indexable(n, id)
<1>1. PlanFits(gone, n, id) /\ n \notin DOMAIN peers[n]
  BY DEF CancelInv, StoreInv, TypesOfRecords
<1>2. QED
  BY <1>1 DEF PlanFits, Knows, Indexable, Share, Empty

\* What is known only grows, for the store's own stock and for its beliefs.
StocksGrow == \A n \in Node : Knows(stock[n], stock'[n])

BeliefsKept ==
  \A n \in Node :
    /\ DOMAIN peers'[n] = DOMAIN peers[n]
    /\ \A m \in DOMAIN peers[n] : DOMAIN peers'[n][m].stock = DOMAIN peers[n][m].stock

BeliefsGrow(gone) ==
  \A n \in Node : \A m \in DOMAIN peers[n] \ gone :
    m \in DOMAIN peers'[n] /\ Knows(peers[n][m].stock, peers'[n][m].stock)

LEMMA QuietStore ==
  ASSUME UNCHANGED <<stock, peers>>
  PROVE  StocksGrow /\ BeliefsKept
  BY DEF StocksGrow, BeliefsKept, Knows

LEMMA HandlersKeepBeliefs ==
  ASSUME StoreInv, NEW n \in Node, NEW id, NEW p, NEW q, NEW d, NEW m \in Node,
         NEW orders,
         \/ Request(n, id, p, q) \/ AskAccepted(n, id, d) \/ AskRefused(n, d)
         \/ Confirm(n, id) \/ Commit(n, id) \/ Cancel(n, id)
         \/ LocalRequest(n, orders) \/ AddStock(n, p, q) \/ Shutdown(n, m)
  PROVE  StocksGrow /\ BeliefsKept
<1>1. DOMAIN stock = Node /\ DOMAIN peers = Node
  BY DEF StoreInv, TypesOfRecords, TypesOfUnits
<1>2. CASE Request(n, id, p, q)
  BY <1>1, <1>2 DEF Request, Take, TakeFromPeers, StoreInformation, StocksGrow, BeliefsKept, Knows
<1>3. CASE AskAccepted(n, id, d)
  BY <1>1, <1>3 DEF AskAccepted, Take, StocksGrow, BeliefsKept, Knows
<1>4. CASE AskRefused(n, d)
  BY <1>4, QuietStore DEF AskRefused, storeVars
<1>5. CASE Confirm(n, id) \/ Commit(n, id) \/ CancelUnknown(n, id) \/ CancelPanics(n, id)
  BY <1>5, QuietStore DEF Confirm, Commit, CancelUnknown, CancelPanics, storeVars
<1>6. CASE CancelKnown(n, id)
  BY <1>1, <1>6 DEF CancelKnown, Give, GiveToPeers, StoreInformation, StocksGrow, BeliefsKept, Knows
<1>7. CASE LocalRequest(n, orders)
  BY <1>1, <1>7 DEF LocalRequest, Take, StocksGrow, BeliefsKept, Knows
<1>8. CASE AddStock(n, p, q)
  BY <1>1, <1>8 DEF AddStock, Insert, StocksGrow, BeliefsKept, Knows
<1>9. CASE Shutdown(n, m)
  BY <1>1, <1>9 DEF Shutdown, Insert, StoreInformation, StocksGrow, BeliefsKept, Knows
<1>10. QED
  BY <1>2, <1>3, <1>4, <1>5, <1>6, <1>7, <1>8, <1>9 DEF Cancel

LEMMA FitsKept ==
  ASSUME NEW gone, CancelInv(gone), StocksGrow, BeliefsGrow(gone), NEW n \in Node, NEW id \in TxId,
         PlanKept(n, id), id \in DOMAIN txs'[n], StoreInv
  PROVE  PlanFits(gone, n, id)'
<1>1. CASE ~Owned(n, id)
  <2>1. txs'[n][id].involved_stock = Empty
    BY <1>1 DEF PlanKept, Owned
  <2>2. QED
    BY <2>1 DEF PlanFits, Share, Empty, Knows
<1>2. CASE Owned(n, id)
  <2>1. txs'[n][id].involved_stock = txs[n][id].involved_stock /\ id \in DOMAIN txs[n]
    BY <1>2 DEF PlanKept, Owned
  <2>2. PlanFits(gone, n, id)
    BY <2>1 DEF CancelInv
  <2>3. QED
    BY <2>1, <2>2 DEF PlanFits, StocksGrow, BeliefsGrow, Knows
<1>3. QED
  BY <1>1, <1>2

LEMMA BelievedKept ==
  ASSUME BeliefsKept, NEW n \in Node, NEW m, NEW s, Believed(n, m, s)
  PROVE  m \in DOMAIN peers'[n] => Knows(peers'[n][m].stock, s)
  BY DEF Believed, Knows, BeliefsKept

\* Where no announcement is sent or read.
LEMMA NewsKept ==
  ASSUME NEW gone, CancelInv(gone), LinksInv', StocksGrow, BeliefsKept, snap' = snap,
         NEW r \in Node, NEW S, NEW msg, Moved(r, S, msg), S # {} => msg.type # "Update"
  PROVE  \A m \in Node \ gone, n \in Node : NewsInOrder(m, n)'
<1> SUFFICES ASSUME NEW m \in Node \ gone, NEW n \in Node
             PROVE  NewsInOrder(m, n)'
  OBVIOUS
<1> DEFINE believes(s) == m \in DOMAIN peers'[n] => Knows(peers'[n][m].stock, s)
<1>1. NewsInOrder(m, n)
  BY DEF CancelInv
<1>2. \A s : Believed(n, m, s) => believes(s)
  BY BelievedKept
<1>3. \A s : Knows(s, stock[m]) => Knows(s, stock'[m])
  BY DEF StocksGrow, Knows
<1>4. PICK d \in Nat : \A i \in DOMAIN chan'[m][n] :
        /\ i \in Nat
        /\ \/ i + d \in DOMAIN chan[m][n] /\ chan'[m][n][i] = chan[m][n][i + d]
           \/ chan'[m][n][i].type # "Update"
  BY MovedFrom
<1>5. believes(stock'[m]) /\ \A s \in snap'[m] : Knows(s, stock'[m]) /\ believes(s)
  <2>1. believes(stock[m]) /\ Knows(stock[m], stock'[m])
    BY <1>1, <1>2 DEF NewsInOrder, StocksGrow
  <2>2. believes(stock'[m])
    BY <2>1 DEF Knows
  <2>3. QED
    BY <1>1, <1>2, <1>3, <2>2 DEF NewsInOrder
<1>6. ASSUME NEW i \in DOMAIN chan'[m][n], chan'[m][n][i].type = "Update"
      PROVE  /\ Knows(chan'[m][n][i].stock, stock'[m])
             /\ \A s \in snap'[m] : Knows(chan'[m][n][i].stock, s)
             /\ believes(chan'[m][n][i].stock)
             /\ \A j \in DOMAIN chan'[m][n] :
                  i < j /\ chan'[m][n][j].type = "Update" =>
                    Knows(chan'[m][n][i].stock, chan'[m][n][j].stock)
  <2>1. i \in Nat /\ i + d \in DOMAIN chan[m][n] /\ chan'[m][n][i] = chan[m][n][i + d]
    BY <1>4, <1>6
  <2>2. /\ Knows(chan[m][n][i + d].stock, stock'[m])
        /\ \A s \in snap'[m] : Knows(chan[m][n][i + d].stock, s)
        /\ believes(chan[m][n][i + d].stock)
    BY <1>1, <1>2, <1>3, <1>6, <2>1 DEF NewsInOrder
  <2>3. ASSUME NEW j \in DOMAIN chan'[m][n], i < j, chan'[m][n][j].type = "Update"
        PROVE  Knows(chan'[m][n][i].stock, chan'[m][n][j].stock)
    <3>1. j \in Nat /\ j + d \in DOMAIN chan[m][n] /\ chan'[m][n][j] = chan[m][n][j + d]
      BY <1>4, <2>3
    <3>2. i + d < j + d
      BY <2>1, <2>3, <3>1
    <3>3. QED
      BY <1>1, <1>6, <2>1, <2>3, <3>1, <3>2 DEF NewsInOrder
  <2>4. QED
    BY <2>1, <2>2, <2>3
<1>7. QED
  BY <1>5, <1>6 DEF NewsInOrder, Believed

LEMMA CancelKept ==
  ASSUME NEW gone, TypeInv, CancelInv(gone), TypeInv', StocksGrow, BeliefsKept,
         snap' = snap, PlansKept,
         NEW r \in Node, NEW S, NEW msg, Moved(r, S, msg), S # {} => msg.type # "Update",
         \A n \in Node : Lives(gone, n)'
  PROVE  CancelInv(gone)'
<1>1. \A m \in Node \ gone, n \in Node : NewsInOrder(m, n)'
  BY NewsKept DEF TypeInv
<1>2. BeliefsGrow(gone)
  BY DEF BeliefsKept, BeliefsGrow, Knows
<1>3. ASSUME NEW n \in Node, NEW id \in DOMAIN txs'[n]
      PROVE  PlanFits(gone, n, id)'
  <2>1. id \in TxId
    BY DEF TypeInv, StoreInv, TypesOfRecords
  <2>2. PlanKept(n, id)
    BY <2>1 DEF PlansKept
  <2>3. QED
    BY <1>2, <2>1, <2>2, FitsKept DEF TypeInv
<1>4. QED
  BY <1>1, <1>3 DEF CancelInv

\* A new plan fits what the planner has and what it believes.
LEMMA OnOrderFits ==
  ASSUME NEW gone, TypeInv, CancelInv(gone), TypeInv',
         NEW k \in Conn, NEW p \in Product, NEW q \in Qty, OnOrder(k, p, q)
  PROVE  CancelInv(gone)'
<1> DEFINE n == home[k]
<1>1. PICK id \in TxId : Fresh(id) /\ Request(n, id, p, q)
  BY DEF OnOrder
<1>2. n \in Node /\ q \in Nat /\ StoreInv /\ LinksInv
  BY HomeAssumption, QtyAssumption DEF TypeInv
<1>3. PICK plan \in Plans(n, p, q) :
        txs' = [txs EXCEPT ![n] = Insert(@, id, Transaction("AwaitingConfirmation", plan))]
  BY <1>1 DEF Request
<1>4. /\ DOMAIN plan \subseteq DOMAIN peers[n] \cup {n}
      /\ Covers(stock[n], Share(plan, n))
      /\ \A m \in DOMAIN peers[n] : Covers(peers[n][m].stock, Share(plan, m))
  BY <1>2, PlanFacts, InvariantImplies
<1>5. StocksGrow /\ BeliefsKept
  BY <1>1, <1>2, HandlersKeepBeliefs
<1>6. BeliefsGrow(gone)
  BY <1>5 DEF BeliefsKept, BeliefsGrow, Knows
<1>7. \A m \in Node, i \in TxId : m # n \/ i # id => PlanKept(m, i)
  BY <1>1, <1>2, RequestPlans
<1>8. txs'[n][id].involved_stock = plan
  <2>1. txs'[n] = Insert(txs[n], id, Transaction("AwaitingConfirmation", plan))
    BY <1>2, <1>3 DEF StoreInv, TypesOfRecords
  <2>2. QED
    BY <2>1 DEF Insert, Transaction
<1>9. PlanFits(gone, n, id)'
  <2>1. Knows(Share(plan, n), stock'[n])
    BY <1>2, <1>4, <1>5 DEF Covers, Knows, StocksGrow
  <2>2. ASSUME NEW m \in DOMAIN plan \ {n}
        PROVE  m \in DOMAIN peers'[n] /\ Knows(plan[m], peers'[n][m].stock)
    <3>1. m \in DOMAIN peers[n] /\ Covers(peers[n][m].stock, plan[m])
      BY <1>4 DEF Share
    <3>2. QED
      BY <1>2, <1>5, <3>1 DEF Covers, Knows, BeliefsKept
  <2>3. QED
    BY <1>8, <2>1, <2>2 DEF PlanFits
<1>10. ASSUME NEW m \in Node, NEW i \in DOMAIN txs'[m]
       PROVE  PlanFits(gone, m, i)'
  <2>1. i \in TxId
    BY DEF TypeInv, StoreInv, TypesOfRecords
  <2>2. QED
    BY <1>2, <1>5, <1>6, <1>7, <1>9, <2>1, FitsKept
<1>11. \A m \in Node \ gone, r \in Node : NewsInOrder(m, r)'
  <2>1. chan' = chan /\ snap' = snap
    BY DEF OnOrder, linkVars
  <2>2. Moved(n, {}, 0) /\ LinksInv'
    BY <1>2, <2>1, UnmovedChannels DEF TypeInv
  <2>3. QED
    BY <1>2, <1>5, <2>1, <2>2, NewsKept
<1>12. QED
  BY <1>1, <1>10, <1>11 DEF CancelInv, Request, Lives

\* Where no store's record changes.
LEMMA QuietCancels ==
  ASSUME NEW gone, TypeInv, CancelInv(gone), TypeInv', UNCHANGED storeVars, snap' = snap,
         NEW r \in Node, NEW S, NEW msg, Moved(r, S, msg), S # {} => msg.type # "Update"
  PROVE  CancelInv(gone)'
<1>1. StocksGrow /\ BeliefsKept
  BY QuietStore DEF storeVars
<1>2. PlansKept /\ \A n \in Node : Lives(gone, n)'
  BY UnchangedKeeps DEF storeVars, CancelInv, Lives
<1>3. QED
  BY <1>1, <1>2, CancelKept

\* A cancellation finds every product of the plan.
LEMMA DecisionsDoNotPanic ==
  ASSUME NEW gone, StoreInv, CancelInv(gone), NEW n \in Node, NEW id \in TxId,
         Confirm(n, id) \/ Commit(n, id) \/ Cancel(n, id)
  PROVE  \A m \in Node : Lives(gone, m)'
<1>1. CASE alive' = alive
  BY <1>1 DEF CancelInv, Lives
<1>2. CASE CancelPanics(n, id)
  <2>1. ~(gone \subseteq {n})
    BY <1>2, FittingIsIndexable DEF CancelPanics
  <2>2. \A m \in Node \ {n} : alive'[m] = alive[m]
    BY <1>2 DEF CancelPanics, StoreInv, TypesOfRecords
  <2>3. QED
    BY <2>1, <2>2 DEF CancelInv, Lives
<1>3. QED
  BY <1>1, <1>2 DEF Confirm, Commit, Cancel, CancelKnown, CancelUnknown, storeVars

LEMMA DecisionsCancel ==
  ASSUME NEW gone, TypeInv, CancelInv(gone), TypeInv', NEW n \in Node, NEW id \in TxId,
         Confirm(n, id) \/ Commit(n, id) \/ Cancel(n, id), snap' = snap,
         NEW r \in Node, NEW S, NEW msg, Moved(r, S, msg), S # {} => msg.type # "Update"
  PROVE  CancelInv(gone)'
<1>1. StocksGrow /\ BeliefsKept
  BY HandlersKeepBeliefs DEF TypeInv
<1>2. PlansKept /\ \A m \in Node : Lives(gone, m)'
  BY DecisionsKeep, DecisionsDoNotPanic DEF TypeInv
<1>3. QED
  BY <1>1, <1>2, CancelKept

\* What the task of k sends.
LEMMA TaskMoves ==
  ASSUME TypeInv, NEW k \in Conn, Ask(k) \/ Notify(k) \/ NotifyFails(k)
  PROVE  \E S : \E msg : Moved(home[k], S, msg) /\ msg.type # "Update"
<1>1. home[k] \in Node /\ LinksInv
  BY HomeAssumption DEF TypeInv
<1>2. CASE Ask(k)
  <2>1. PICK m : chan' = Posted(chan, home[k], {m}, AskMessage(request[k], Plan(k)[m]))
    BY <1>2 DEF Ask
  <2>2. AskMessage(request[k], Plan(k)[m]).type # "Update"
    BY DEF AskMessage
  <2>3. QED
    BY <1>1, <2>1, <2>2, PostMoves
<1>3. CASE Notify(k) \/ NotifyFails(k)
  <2>1. PICK S : chan' = Posted(chan, home[k], S, Notice(pc[k], request[k]))
    BY <1>3 DEF Notify, NotifyFails
  <2>2. Notice(pc[k], request[k]).type # "Update"
    BY <1>3 DEF Notify, NotifyFails, Notice, Decision
  <2>3. QED
    BY <1>1, <2>1, <2>2, PostMoves
<1>4. QED
  BY <1>2, <1>3

LEMMA TaskCancels ==
  ASSUME NEW gone, TypeInv, CancelInv(gone), TypeInv', NEW k \in Conn,
         \/ Serve(k) \/ Hangup(k)
         \/ \E id \in TxId : OnCommit(k, id) \/ OnCancel(k, id) \/ OnCancelPanics(k, id)
  PROVE  CancelInv(gone)'
<1>1. home[k] \in Node /\ LinksInv
  BY HomeAssumption DEF TypeInv
<1>2. chan' = chan => Moved(home[k], {}, 0)
  BY <1>1, UnmovedChannels
<1>3. CASE Begin(k) \/ AskFails(k) \/ Timeout(k) \/ Hangup(k)
  BY <1>1, <1>2, <1>3, QuietCancels DEF Begin, AskFails, Timeout, Hangup, linkVars
<1>4. CASE Ask(k) \/ Notify(k) \/ NotifyFails(k)
  <2>1. PICK S, msg : Moved(home[k], S, msg) /\ msg.type # "Update"
    BY <1>4, TaskMoves
  <2>2. UNCHANGED storeVars /\ snap' = snap
    BY <1>4 DEF Ask, Notify, NotifyFails
  <2>3. QED
    BY <1>1, <2>1, <2>2, QuietCancels
<1>5. CASE Agree(k) \/ Abort(k)
  <2>1. request[k] \in TxId
    BY <1>5, AtWork DEF Agree, Abort
  <2>2. QED
    BY <1>1, <1>2, <1>5, <2>1, DecisionsCancel DEF Agree, Abort, Cancel, linkVars
<1>6. CASE \E id \in TxId : OnCommit(k, id) \/ OnCancel(k, id)
  BY <1>1, <1>2, <1>6, DecisionsCancel DEF OnCommit, OnCancel, OnDecision, Cancel, linkVars
<1>7. CASE AbortPanics(k) \/ \E id \in TxId : OnCancelPanics(k, id)
  <2>1. PICK id \in TxId : CancelFails(k, id)
    BY <1>7, AtWork DEF AbortPanics, OnCancelPanics
  <2>2. QED
    BY <1>1, <1>2, <2>1, DecisionsCancel DEF CancelFails, Cancel, linkVars
<1>8. QED
  BY <1>3, <1>4, <1>5, <1>6, <1>7 DEF Serve

LEMMA OperatorCancels ==
  ASSUME NEW gone, TypeInv, CancelInv(gone), TypeInv', NEW n \in Node, Operator(n)
  PROVE  CancelInv(gone)'
<1>1. StocksGrow /\ BeliefsKept
  BY HandlersKeepBeliefs DEF Operator, TypeInv
<1>2. PlansKept /\ \A m \in Node : Lives(gone, m)'
  BY UnchangedKeeps DEF Operator, AddStock, LocalRequest, CancelInv, Lives
<1>3. Moved(n, {}, 0) /\ snap' = snap
  BY UnmovedChannels DEF Operator, linkVars, TypeInv
<1>4. QED
  BY <1>1, <1>2, <1>3, CancelKept

\* What is read last from the own stock is what is announced last.
LEMMA SnapshotCancels ==
  ASSUME NEW gone, TypeInv, CancelInv(gone), TypeInv', NEW n \in Node, Snapshot(n)
  PROVE  CancelInv(gone)'
<1>1. /\ chan' = chan /\ UNCHANGED storeVars
      /\ \A m \in Node : snap'[m] = IF m = n THEN {stock[n]} ELSE snap[m]
  BY DEF Snapshot, TypeInv, LinksInv
<1>2. ASSUME NEW m \in Node \ gone, NEW r \in Node
      PROVE  NewsInOrder(m, r)'
  <2>1. NewsInOrder(m, r) /\ Knows(stock[n], stock[n])
    BY DEF CancelInv, Knows
  <2>2. snap'[m] = IF m = n THEN {stock[n]} ELSE snap[m]
    BY <1>1
  <2>3. \A s \in snap'[m] : s \in snap[m] \/ s = stock[m]
    BY <2>2
  <2>4. QED
    BY <1>1, <2>1, <2>3 DEF NewsInOrder, Believed, storeVars, Knows
<1>3. \A m \in Node : \A id \in DOMAIN txs'[m] : PlanFits(gone, m, id)'
  BY <1>1 DEF CancelInv, PlanFits, storeVars
<1>4. QED
  BY <1>1, <1>2, <1>3 DEF CancelInv, storeVars, Lives

\* What is announced last has all that was announced before.
LEMMA BroadcastCancels ==
  ASSUME NEW gone, TypeInv, CancelInv(gone), TypeInv', NEW n \in Node, Broadcast(n)
  PROVE  CancelInv(gone)'
<1>1. PICK s \in snap[n] : chan' = Posted(chan, n, linked[n], Announcement(s))
  BY DEF Broadcast
<1>2. /\ UNCHANGED storeVars /\ chan \in Channels
      /\ \A m \in Node : snap'[m] \subseteq snap[m] /\ (m = n => snap'[m] = {})
  BY DEF Broadcast, TypeInv, LinksInv
<1>3. ASSUME NEW m \in Node \ gone, NEW r \in Node
      PROVE  NewsInOrder(m, r)'
  <2> DEFINE old == chan[m][r]
             new == chan'[m][r]
             believes(x) == m \in DOMAIN peers[r] => Knows(peers[r][m].stock, x)
  <2>1. NewsInOrder(m, r) /\ old \in Seq(Message) /\ new \in Seq(Message)
    BY <1>2 DEF CancelInv, TypeInv, LinksInv, Channels
  <2>2. /\ believes(stock[m])
        /\ \A x \in snap[m] : Knows(x, stock[m]) /\ believes(x)
        /\ \A i \in DOMAIN old : old[i].type = "Update" =>
             /\ Knows(old[i].stock, stock[m])
             /\ \A x \in snap[m] : Knows(old[i].stock, x)
             /\ believes(old[i].stock)
             /\ \A j \in DOMAIN old : i < j /\ old[j].type = "Update" =>
                  Knows(old[i].stock, old[j].stock)
    BY <2>1 DEF NewsInOrder, Believed
  <2>3. \/ new = old
        \/ m = n /\ new = Append(old, Announcement(s))
    <3>1. Posted(chan, n, linked[n], Announcement(s))[m][r] =
            IF m = n /\ r \in linked[n] /\ n \in linked[r]
            THEN Append(old, Announcement(s)) ELSE old
      BY <1>2, PostedAt
    <3>2. QED
      BY <1>1, <3>1
  <2>4. Announcement(s).type = "Update" /\ Announcement(s).stock = s
    BY DEF Announcement
  <2> DEFINE msg == Announcement(s)
  <2>5. CASE new = old
    BY <1>2, <2>2, <2>5 DEF NewsInOrder, Believed, storeVars
  <2>6. CASE m = n /\ new = Append(old, msg)
    <3>1. /\ DOMAIN old = 1 .. Len(old) /\ Len(old) \in Nat
          /\ DOMAIN new = 1 .. Len(old) + 1 /\ new[Len(old) + 1] = msg
          /\ \A i \in DOMAIN old : new[i] = old[i]
      BY <2>1, <2>6
    <3> HIDE DEF old, new, msg
    <3>2. snap'[m] = {} /\ s \in snap[m]
      BY <1>2, <2>6
    <3>3. ASSUME NEW i \in DOMAIN new, new[i].type = "Update"
          PROVE  /\ Knows(new[i].stock, stock[m]) /\ believes(new[i].stock)
                 /\ \A j \in DOMAIN new : i < j /\ new[j].type = "Update" =>
                      Knows(new[i].stock, new[j].stock)
      <4>1. CASE i = Len(old) + 1
        <5>1. new[i].stock = s /\ \A j \in DOMAIN new : ~(i < j)
          BY <2>4, <3>1, <4>1 DEF msg
        <5>2. QED
          BY <2>2, <3>2, <5>1
      <4>2. CASE i # Len(old) + 1
        <5>1. i \in DOMAIN old /\ new[i] = old[i]
          BY <3>1, <4>2
        <5>2. Knows(old[i].stock, s)
          BY <2>2, <3>2, <3>3, <5>1
        <5>3. \A j \in DOMAIN new : j \in DOMAIN old \/ new[j].stock = s
          BY <2>4, <3>1 DEF msg
        <5>4. QED
          BY <2>2, <3>1, <3>3, <5>1, <5>2, <5>3
      <4>3. QED
        BY <4>1, <4>2
    <3>4. QED
      BY <1>2, <2>2, <3>2, <3>3 DEF NewsInOrder, Believed, storeVars, new
  <2>7. QED
    BY <2>3, <2>5, <2>6
<1>4. \A m \in Node : \A id \in DOMAIN txs'[m] : PlanFits(gone, m, id)'
  BY <1>2 DEF CancelInv, PlanFits, storeVars
<1>5. QED
  BY <1>2, <1>3, <1>4 DEF CancelInv, storeVars, Lives

\* What is read is newer than what was believed.
LEMMA ReceiveUpdateCancels ==
  ASSUME NEW gone, TypeInv, CancelInv(gone), TypeInv', NEW m \in Node, NEW n \in Node,
         ReceiveUpdate(m, n)
  PROVE  CancelInv(gone)'
<1> DEFINE old == chan[m][n]
           s == Head(old).stock
<1>1. old # <<>> /\ Head(old).type = "Update" /\ chan' = Rests(m, n)
  BY DEF ReceiveUpdate, Arrives
<1>2. /\ old \in Seq(Message) /\ chan \in Channels /\ m # n
      /\ DOMAIN peers = Node
  BY <1>1 DEF TypeInv, LinksInv, Channels, StoreInv, TypesOfRecords
<1>3. /\ UNCHANGED <<stock, txs, alive, snap>>
      /\ peers'[n] = Insert(peers[n], m, StoreInformation(s, TRUE))
      /\ \A r \in Node : r # n => peers'[r] = peers[r]
  BY <1>2 DEF ReceiveUpdate, Update
<1>4. /\ m \in DOMAIN peers'[n] /\ peers'[n][m].stock = s
      /\ \A r \in Node \ {m} : /\ r \in DOMAIN peers'[n] <=> r \in DOMAIN peers[n]
                               /\ r \in DOMAIN peers[n] => peers'[n][r] = peers[n][r]
  BY <1>3 DEF Insert, StoreInformation
<1>5. 1 \in DOMAIN old /\ old[1] = Head(old)
  BY <1>1, <1>2
<1>6. m \notin gone => NewsInOrder(m, n)
  BY DEF CancelInv
<1>7. BeliefsGrow(gone)
  <2>1. m \in DOMAIN peers[n] \ gone => Knows(peers[n][m].stock, s)
    BY <1>1, <1>5, <1>6 DEF NewsInOrder, Believed
  <2>2. DOMAIN peers[n] \subseteq Node
    BY DEF TypeInv, StoreInv, TypesOfRecords
  <2>3. \A r \in DOMAIN peers[n] \ gone :
          r \in DOMAIN peers'[n] /\ Knows(peers[n][r].stock, peers'[n][r].stock)
    BY <1>4, <2>1, <2>2 DEF Knows
  <2>4. QED
    BY <1>3, <2>3 DEF BeliefsGrow, Knows
<1>8. StocksGrow /\ PlansKept
  BY <1>3, UnchangedKeeps DEF StocksGrow, Knows
<1>9. ASSUME m \notin gone
      PROVE  NewsInOrder(m, n)'
  <2> DEFINE new == chan'[m][n]
  <2>1. /\ new \in Seq(Message)
        /\ \A i \in DOMAIN new : i \in Nat /\ i + 1 \in DOMAIN old /\ new[i] = old[i + 1]
    <3>1. new = Tail(old)
      BY <1>1, <1>2, RestsAt
    <3>2. new \in Seq(Message)
      BY <1>1, <1>2, <3>1, HeadAndTail
    <3>3. \A i \in DOMAIN Tail(old) : i + 1 \in DOMAIN old /\ Tail(old)[i] = old[i + 1]
      BY <1>1, <1>2, TailShifts
    <3> HIDE DEF old, new
    <3>4. \A i \in DOMAIN new : i \in Nat
      BY <3>2
    <3>5. QED
      BY <3>1, <3>2, <3>3, <3>4
  <2>2. /\ Knows(s, stock[m]) /\ \A x \in snap[m] : Knows(s, x)
        /\ \A i \in DOMAIN old : 1 < i /\ old[i].type = "Update" => Knows(s, old[i].stock)
    BY <1>1, <1>5, <1>6, <1>9 DEF NewsInOrder
  <2>3. \A i \in DOMAIN new : 1 < i + 1
    BY <2>1
  <2> HIDE DEF new, old, s
  <2>4. \A i \in DOMAIN new : new[i].type = "Update" =>
          /\ Knows(s, new[i].stock)
          /\ Knows(new[i].stock, stock[m])
          /\ \A x \in snap[m] : Knows(new[i].stock, x)
    BY <1>6, <1>9, <2>1, <2>2, <2>3 DEF NewsInOrder, old
  <2>5. ASSUME NEW i \in DOMAIN new, new[i].type = "Update",
               NEW j \in DOMAIN new, i < j, new[j].type = "Update"
        PROVE  Knows(new[i].stock, new[j].stock)
    <3>1. i + 1 < j + 1
      BY <2>1, <2>5
    <3>2. QED
      BY <1>6, <1>9, <2>1, <2>5, <3>1 DEF NewsInOrder, old
  <2>6. \A x \in snap[m] : Knows(x, stock[m])
    BY <1>6, <1>9 DEF NewsInOrder
  <2>7. QED
    BY <1>3, <1>4, <2>2, <2>4, <2>5, <2>6 DEF NewsInOrder, Believed, new
<1>10. ASSUME NEW a \in Node \ gone, NEW b \in Node, a # m \/ b # n
       PROVE  NewsInOrder(a, b)'
  <2>1. chan'[a][b] = chan[a][b]
    BY <1>1, <1>2, <1>10, RestsAt
  <2>2. NewsInOrder(a, b)
    BY DEF CancelInv
  <2>3. /\ a \in DOMAIN peers'[b] <=> a \in DOMAIN peers[b]
        /\ a \in DOMAIN peers[b] => peers'[b][a] = peers[b][a]
    BY <1>3, <1>4, <1>10
  <2>4. QED
    BY <1>3, <2>1, <2>2, <2>3 DEF NewsInOrder, Believed
<1>11. ASSUME NEW r \in Node, NEW id \in DOMAIN txs'[r]
       PROVE  PlanFits(gone, r, id)'
  <2>1. id \in TxId /\ PlanKept(r, id) /\ StoreInv
    BY <1>8 DEF TypeInv, StoreInv, TypesOfRecords, PlansKept
  <2>2. QED
    BY <1>7, <1>8, <2>1, FitsKept
<1>12. QED
  BY <1>3, <1>9, <1>10, <1>11 DEF CancelInv, Lives

\* The other readers, and losses, leave what is believed as it is.
LEMMA ReadersCancel ==
  ASSUME NEW gone, TypeInv, CancelInv(gone), TypeInv', NEW m \in Node, NEW n \in Node,
         ReceiveNotice(m, n) \/ ReceiveResponse(m, n) \/ ReceiveAsk(m, n)
  PROVE  CancelInv(gone)'
<1> DEFINE msg == Head(chan[m][n])
<1>1. chan[m][n] # <<>> /\ LinksInv /\ snap' = snap
  BY DEF ReceiveNotice, ReceiveResponse, ReceiveAsk, Arrives, TypeInv
<1>2. CASE ReceiveNotice(m, n)
  <2>1. /\ msg.type \in {"Ask"} \cup Decision
        /\ Confirm(n, msg.id) \/ Commit(n, msg.id) \/ Cancel(n, msg.id)
        /\ chan' = Rests(m, n)
    BY <1>2 DEF ReceiveNotice, Arrives, Decision
  <2>2. msg.id \in TxId
    BY <1>1, <2>1, AskedIsNotOwner
  <2>3. Moved(n, {}, 0)
    BY <1>1, <2>1, ReadMoves
  <2>4. QED
    BY <1>1, <2>1, <2>2, <2>3, DecisionsCancel
<1>3. CASE ReceiveResponse(m, n)
  <2>1. UNCHANGED storeVars /\ chan' = Rests(m, n)
    BY <1>3 DEF ReceiveResponse
  <2>2. Moved(n, {}, 0)
    BY <1>1, <2>1, ReadMoves
  <2>3. QED
    BY <1>1, <2>1, <2>2, QuietCancels
<1>4. CASE ReceiveAsk(m, n)
  <2>1. msg.type \in {"Ask"} \cup Decision
    BY <1>4 DEF ReceiveAsk, Arrives
  <2>2. msg.id \in TxId /\ ~Owned(n, msg.id)
    BY <1>1, <2>1, AskedIsNotOwner
  <2>3. PICK ok \in BOOLEAN :
          /\ IF ok THEN AskAccepted(n, msg.id, msg.share) ELSE AskRefused(n, msg.share)
          /\ chan' = Posted(Rests(m, n), n, {m} \cap linked[n], Response(msg.id, ok))
    BY <1>4 DEF ReceiveAsk
  <2>4. Moved(n, {m}, Response(msg.id, ok)) /\ Response(msg.id, ok).type # "Update"
    BY <1>1, <2>3, ReplyMoves DEF Response
  <2>5. CASE ok
    <3>1. StocksGrow /\ BeliefsKept /\ PlansKept
      BY <2>2, <2>3, <2>5, HandlersKeepBeliefs, AskKeeps DEF TypeInv
    <3>2. \A r \in Node : Lives(gone, r)'
      BY <2>3, <2>5 DEF AskAccepted, CancelInv, Lives
    <3>3. QED
      BY <1>1, <2>4, <3>1, <3>2, CancelKept
  <2>6. CASE ~ok
    BY <1>1, <2>3, <2>4, <2>6, QuietCancels DEF AskRefused
  <2>7. QED
    BY <2>5, <2>6
<1>5. QED
  BY <1>2, <1>3, <1>4

LEMMA LossCancels ==
  ASSUME NEW gone, TypeInv, CancelInv(gone), TypeInv', NEW m \in Node, NEW n \in Node,
         Coalesced(m, n) \/ LinkLost(n, m)
  PROVE  CancelInv(gone)'
<1>1. Moved(n, {}, 0) /\ snap' = snap
  BY LossMoves DEF TypeInv, Coalesced, LinkLost
<1>2. CASE Coalesced(m, n)
  BY <1>1, <1>2, QuietCancels DEF Coalesced
<1>3. CASE LinkLost(n, m)
  <2>1. StocksGrow /\ BeliefsKept
    BY <1>3, HandlersKeepBeliefs DEF LinkLost, TypeInv
  <2>2. PlansKept /\ \A r \in Node : Lives(gone, r)'
    BY <1>3, UnchangedKeeps DEF LinkLost, Shutdown, CancelInv, Lives
  <2>3. QED
    BY <1>1, <2>1, <2>2, CancelKept
<1>4. QED
  BY <1>2, <1>3

LEMMA InitialCancels ==
  ASSUME NEW gone, Init
  PROVE  CancelInv(gone)
  BY DEF Init, StoreInit, Empty, CancelInv, Lives, NewsInOrder, Believed

LEMMA CancelsStutter ==
  ASSUME NEW gone, CancelInv(gone), StandsStill
  PROVE  CancelInv(gone)'
  BY DEF StandsStill, storeVars, linkVars, CancelInv, Lives, NewsInOrder, Believed, PlanFits

LEMMA StepsCancel ==
  ASSUME NEW gone, TypeInv, CancelInv(gone), TypeInv', Next
  PROVE  CancelInv(gone)'
<1>1. ASSUME NEW k \in Conn, Serve(k) \/ Customer(k)
      PROVE  CancelInv(gone)'
  <2>1. ASSUME NEW p \in Product, NEW q \in Qty, OnOrder(k, p, q)
        PROVE  CancelInv(gone)'
    BY <2>1, OnOrderFits
  <2>2. ASSUME NEW p \in Product, NEW q \in Qty, OrderRefused(k, p, q)
        PROVE  StandsStill
    BY <2>2, DownStandsStill DEF OrderRefused
  <2>3. QED
    BY <1>1, <2>1, <2>2, TaskCancels, CancelsStutter DEF Customer
<1>2. ASSUME NEW n \in Node, Operator(n) \/ Snapshot(n) \/ Broadcast(n)
      PROVE  CancelInv(gone)'
  BY <1>2, OperatorCancels, SnapshotCancels, BroadcastCancels
<1>3. ASSUME NEW m \in Node, NEW n \in Node,
             Receive(m, n) \/ Coalesced(m, n) \/ LinkLost(n, m)
      PROVE  CancelInv(gone)'
  BY <1>3, ReceiveUpdateCancels, ReadersCancel, LossCancels DEF Receive
<1>4. QED
  BY <1>1, <1>2, <1>3, DownStandsStill, CancelsStutter DEF Next, Updater, Lose

LEMMA CancelsInductive == OwnedInv /\ CancelInv({}) /\ [Next]_vars => CancelInv({})'
<1> SUFFICES ASSUME OwnedInv, CancelInv({}), [Next]_vars PROVE CancelInv({})'
  OBVIOUS
<1>1. TypeInv /\ TypeInv'
  BY TypesInductive DEF OwnedInv
<1>2. QED
  BY <1>1, DownStandsStill, CancelsStutter, StepsCancel

\* No actor panics, however stale what its store believes of the others and
\* whatever announcements are lost, late or dropped: by the time a purchase
\* is cancelled, every product of its plan is still in what the store has and
\* in what it believes of each store of the plan (store.rs:287).
THEOREM NobodyPanics == Spec => []NeverPanics
<1>1. CancelInv({}) => NeverPanics
  BY DEF CancelInv, Lives, NeverPanics
<1>2. Init => CancelInv({})
  BY InitialCancels
<1>3. QED
  BY <1>1, <1>2, InitialTypes, TypesInductive, CancelsInductive, PTL DEF Spec

-----------------------------------------------------------------------------
\* Who handles a purchase.  Once planned, a purchase is in the hands of one
\* task, whose place in the code tells the state its store has on record;
\* when the task lets go of it, that record never changes again.

Handles(k) == told[k] \cup {id \in {request[k]} : pc[k] # "idle"}

Stage(k) ==
  /\ pc[k] # "idle" => request[k] \notin told[k]
  /\ pc[k] \in Working => txs[home[k]][request[k]].state = "AwaitingConfirmation"
  /\ pc[k] = "Confirm" => txs[home[k]][request[k]].state = "NodeConfirmed"
  /\ pc[k] = "Commit" => txs[home[k]][request[k]].state = "Finalized"
  /\ pc[k] = "Cancel" => txs[home[k]][request[k]].state = "Cancelled"
  /\ \A id \in told[k] : txs[home[k]][id].state = "NodeConfirmed"

HandlersInv ==
  /\ \A j, k \in Conn : j # k => Handles(j) \cap Handles(k) = {}
  /\ \A k \in Conn : Stage(k)

\* At most n's record of id is new or changes.
OnlyRecord(n, id) ==
  \A a \in Node, i \in TxId : a # n \/ i # id =>
    /\ i \in DOMAIN txs'[a] <=> i \in DOMAIN txs[a]
    /\ i \in DOMAIN txs[a] => txs'[a][i] = txs[a][i]

LEMMA HandledIsOwned ==
  ASSUME TypeInv, NEW k \in Conn, NEW id \in Handles(k)
  PROVE  home[k] \in Node /\ id \in TxId /\ Owned(home[k], id) /\ id \in DOMAIN txs[home[k]]
<1>1. home[k] \in Node /\ told[k] \subseteq TxId /\ TaskOwns(k)
  BY HomeAssumption DEF TypeInv, TasksInv
<1>2. CASE id \in told[k]
  BY <1>1, <1>2 DEF TaskOwns, Owned
<1>3. CASE id = request[k] /\ pc[k] # "idle"
  BY <1>3, AtWork DEF Owned
<1>4. QED
  BY <1>2, <1>3 DEF Handles

LEMMA MarkedAt ==
  ASSUME StoreInv, NEW n \in Node, NEW id \in TxId, NEW s, txs' = Marked(n, id, s)
  PROVE  /\ OnlyRecord(n, id)
         /\ \A a \in Node : DOMAIN txs'[a] = DOMAIN txs[a]
         /\ id \in DOMAIN txs[n] =>
              txs'[n][id] = Transaction(s, txs[n][id].involved_stock)
<1>1. CASE id \notin DOMAIN txs[n]
  BY <1>1 DEF Marked, OnlyRecord
<1>2. CASE id \in DOMAIN txs[n]
  <2>1. /\ txs'[n] = Insert(txs[n], id, Transaction(s, txs[n][id].involved_stock))
        /\ \A m \in Node : m # n => txs'[m] = txs[m]
    BY <1>2 DEF StoreInv, TypesOfRecords, Marked
  <2>2. /\ DOMAIN txs'[n] = DOMAIN txs[n]
        /\ txs'[n][id] = Transaction(s, txs[n][id].involved_stock)
        /\ \A i \in DOMAIN txs[n] : i # id => txs'[n][i] = txs[n][i]
    BY <1>2, <2>1 DEF Insert
  <2>3. QED
    BY <2>1, <2>2 DEF OnlyRecord
<1>3. QED
  BY <1>1, <1>2

LEMMA AcceptedAt ==
  ASSUME StoreInv, NEW n \in Node, NEW id \in TxId, NEW d, AskAccepted(n, id, d)
  PROVE  /\ OnlyRecord(n, id)
         /\ id \in DOMAIN txs'[n]
         /\ txs'[n][id] = Transaction("AwaitingConfirmation", Empty)
<1>1. /\ txs'[n] = Insert(txs[n], id, Transaction("AwaitingConfirmation", Empty))
      /\ \A m \in Node : m # n => txs'[m] = txs[m]
  BY DEF StoreInv, TypesOfRecords, AskAccepted
<1>2. /\ DOMAIN txs'[n] = DOMAIN txs[n] \cup {id}
      /\ txs'[n][id] = Transaction("AwaitingConfirmation", Empty)
      /\ \A i \in DOMAIN txs[n] : i # id => txs'[n][i] = txs[n][i]
  BY <1>1 DEF Insert
<1>3. QED
  BY <1>1, <1>2 DEF OnlyRecord

LEMMA PlannedAt ==
  ASSUME TypeInv, NEW k \in Conn, NEW p \in Product, NEW q \in Qty, OnOrder(k, p, q)
  PROVE  \E id \in TxId :
           /\ Fresh(id)
           /\ Owned(home[k], id)'
           /\ txs'[home[k]][id].state = "AwaitingConfirmation"
           /\ OnlyRecord(home[k], id)
           /\ OnlyTask(k)
           /\ pc[k] = "idle" /\ pc'[k] = "planned" /\ request'[k] = id
           /\ told'[k] = told[k] /\ refused'[k] = refused[k] /\ peer'[k] = peer[k]
           /\ todo'[k] = DOMAIN txs'[home[k]][id].involved_stock \ {home[k]}
<1>1. PICK id \in TxId :
        /\ Fresh(id)
        /\ Request(home[k], id, p, q)
        /\ request' = [request EXCEPT ![k] = id]
        /\ todo' = [todo EXCEPT ![k] =
                      DOMAIN txs'[home[k]][id].involved_stock \ {home[k]}]
  BY DEF OnOrder
<1>2. home[k] \in Node /\ q \in Nat /\ StoreInv
  BY HomeAssumption, QtyAssumption DEF TypeInv
<1>3. Owned(home[k], id)' /\ txs'[home[k]][id].state = "AwaitingConfirmation"
  BY <1>1, <1>2, RequestPlans
<1>4. OnlyRecord(home[k], id)
  <2>1. PICK t : txs' = [txs EXCEPT ![home[k]] = Insert(@, id, t)]
    BY <1>1 DEF Request
  <2>2. /\ txs'[home[k]] = Insert(txs[home[k]], id, t)
        /\ \A m \in Node : m # home[k] => txs'[m] = txs[m]
    BY <1>2, <2>1 DEF StoreInv, TypesOfRecords
  <2>3. /\ DOMAIN txs'[home[k]] = DOMAIN txs[home[k]] \cup {id}
        /\ \A i \in DOMAIN txs[home[k]] : i # id => txs'[home[k]][i] = txs[home[k]][i]
    BY <2>2 DEF Insert
  <2>4. QED
    BY <2>2, <2>3 DEF OnlyRecord
<1>5. /\ pc[k] = "idle" /\ pc'[k] = "planned" /\ request'[k] = id
      /\ todo'[k] = DOMAIN txs'[home[k]][id].involved_stock \ {home[k]}
      /\ OnlyTask(k)
      /\ told'[k] = told[k] /\ refused'[k] = refused[k] /\ peer'[k] = peer[k]
  BY <1>1 DEF OnOrder, OnlyTask, TypeInv, TasksInv
<1>6. QED
  BY <1>1, <1>3, <1>4, <1>5

\* The task of k goes on with what it has, or lets go of it.
Keeps(k) ==
  /\ told'[k] \subseteq told[k]
  /\ \/ pc'[k] = "idle"
     \/ /\ pc[k] # "idle" /\ request'[k] = request[k]
        /\ pc'[k] = pc[k] \/ (pc[k] \in Working /\ pc'[k] \in Working)

Untouched(k) ==
  \A id \in Handles(k) : txs'[home[k]][id].state = txs[home[k]][id].state

LEMMA OthersUntouched ==
  ASSUME TypeInv, NEW n, NEW id, OnlyRecord(n, id), NEW j \in Conn,
         home[j] # n \/ id \notin Handles(j)
  PROVE  Untouched(j)
<1> SUFFICES ASSUME NEW i \in Handles(j)
             PROVE  txs'[home[j]][i] = txs[home[j]][i]
  BY DEF Untouched
<1>1. home[j] \in Node /\ i \in TxId /\ i \in DOMAIN txs[home[j]]
  BY HandledIsOwned
<1>2. QED
  BY <1>1 DEF OnlyRecord

\* What is not the store's own purchase is in no task's hands.
LEMMA AllUntouched ==
  ASSUME TypeInv, NEW n \in Node, NEW id \in TxId, OnlyRecord(n, id), ~Owned(n, id)
  PROVE  \A j \in Conn : Untouched(j)
<1>1. ASSUME NEW j \in Conn
      PROVE  home[j] # n \/ id \notin Handles(j)
  BY HandledIsOwned
<1>2. QED
  BY <1>1, OthersUntouched

LEMMA StageKept ==
  ASSUME HandlersInv, NEW k \in Conn, Keeps(k), Untouched(k)
  PROVE  Stage(k)' /\ Handles(k)' \subseteq Handles(k)
<1>1. Stage(k)
  BY DEF HandlersInv
<1>2. told'[k] \subseteq told[k] /\ told[k] \subseteq Handles(k)
  BY DEF Keeps, Handles
<1>3. CASE pc'[k] = "idle"
  BY <1>1, <1>2, <1>3 DEF Stage, Handles, Untouched, Working
<1>4. CASE pc'[k] # "idle"
  <2>1. /\ pc[k] # "idle" /\ request'[k] = request[k] /\ request[k] \in Handles(k)
        /\ pc'[k] = pc[k] \/ (pc[k] \in Working /\ pc'[k] \in Working)
    BY <1>4 DEF Keeps, Handles
  <2>2. Handles(k)' \subseteq Handles(k)
    BY <1>2, <2>1 DEF Handles
  <2>3. Stage(k)'
    BY <1>1, <1>2, <2>1 DEF Stage, Untouched, Working
  <2>4. QED
    BY <2>2, <2>3
<1>5. QED
  BY <1>3, <1>4

LEMMA HandlersKept ==
  ASSUME HandlersInv, NEW k \in Conn, Stage(k)',
         \A j \in Conn \ {k} :
           Keeps(j) /\ Untouched(j) /\ Handles(j) \cap Handles(k)' = {}
  PROVE  HandlersInv'
<1>1. \A j \in Conn \ {k} : Stage(j)' /\ Handles(j)' \subseteq Handles(j)
  BY StageKept
<1>2. QED
  BY <1>1 DEF HandlersInv

LEMMA AllHandlersKept ==
  ASSUME HandlersInv, \A j \in Conn : Keeps(j) /\ Untouched(j)
  PROVE  HandlersInv'
<1>1. \A j \in Conn : Stage(j)' /\ Handles(j)' \subseteq Handles(j)
  BY StageKept
<1>2. QED
  BY <1>1 DEF HandlersInv

LEMMA CancelMarks ==
  ASSUME StoreInv, CancelInv({}), NEW n \in Node, NEW id \in TxId, Cancel(n, id)
  PROVE  txs' = Marked(n, id, "Cancelled")
  BY FittingIsIndexable
  DEF Cancel, CancelKnown, CancelUnknown, CancelPanics, Marked, storeVars

LEMMA QuietUntouched ==
  ASSUME txs' = txs
  PROVE  \A j \in Conn : Untouched(j)
  BY DEF Untouched

LEMMA OthersKeep ==
  ASSUME NEW k \in Conn, OnlyTask(k)
  PROVE  \A j \in Conn \ {k} : Keeps(j)
  BY DEF OnlyTask, Keeps

LEMMA IdleKeeps ==
  ASSUME UNCHANGED connVars
  PROVE  \A j \in Conn : Keeps(j)
  BY DEF connVars, Keeps

\* What the task does about a purchase in its hands concerns no other task.
LEMMA OwnRecordTouched ==
  ASSUME TypeInv, HandlersInv, NEW k \in Conn, NEW id \in Handles(k),
         OnlyRecord(home[k], id)
  PROVE  \A j \in Conn \ {k} : Untouched(j)
<1>1. ASSUME NEW j \in Conn \ {k}
      PROVE  id \notin Handles(j)
  BY DEF HandlersInv
<1>2. QED
  BY <1>1, OthersUntouched

\* The task of k marks a purchase in its hands and goes where the mark says.
LEMMA MarkHandled ==
  ASSUME TypeInv, HandlersInv, NEW k \in Conn, NEW id \in Handles(k), NEW s,
         txs' = Marked(home[k], id, s), OnlyTask(k),
         request'[k] = id, id \notin told'[k], told'[k] \subseteq told[k],
         \/ pc'[k] = "Confirm" /\ s = "NodeConfirmed"
         \/ pc'[k] = "Commit" /\ s = "Finalized"
         \/ pc'[k] = "Cancel" /\ s = "Cancelled"
  PROVE  HandlersInv'
<1>1. /\ home[k] \in Node /\ id \in TxId /\ id \in DOMAIN txs[home[k]]
      /\ \A i \in told[k] : i \in TxId /\ i \in DOMAIN txs[home[k]]
  BY HandledIsOwned DEF Handles
<1>2. OnlyRecord(home[k], id) /\ txs'[home[k]][id].state = s
  <2>1. StoreInv
    BY DEF TypeInv
  <2>2. OnlyRecord(home[k], id) /\ txs'[home[k]][id] = Transaction(s, txs[home[k]][id].involved_stock)
    BY <1>1, <2>1, MarkedAt
  <2>3. QED
    BY <2>2 DEF Transaction
<1>3. \A j \in Conn \ {k} : Keeps(j) /\ Untouched(j)
  BY <1>2, OthersKeep, OwnRecordTouched
<1>4. \A j \in Conn \ {k} : Handles(j) \cap Handles(k)' = {}
  <2>1. Handles(k)' \subseteq Handles(k)
    BY DEF Handles
  <2>2. QED
    BY <2>1 DEF HandlersInv
<1>5. Stage(k)'
  <2>1. \A i \in told'[k] : txs'[home[k]][i].state = "NodeConfirmed"
    <3>1. \A i \in told'[k] : i # id /\ txs[home[k]][i].state = "NodeConfirmed"
      BY DEF HandlersInv, Stage
    <3>2. QED
      BY <1>1, <1>2, <3>1 DEF OnlyRecord
  <2>2. pc'[k] \notin Working
    BY DEF Decision, Working
  <2>3. QED
    BY <1>2, <2>1, <2>2 DEF Stage, Decision
<1>6. QED
  BY <1>3, <1>4, <1>5, HandlersKept

LEMMA OnOrderHandles ==
  ASSUME TypeInv, HandlersInv, NEW k \in Conn, NEW p \in Product, NEW q \in Qty,
         OnOrder(k, p, q)
  PROVE  HandlersInv'
<1>1. PICK id \in TxId :
        /\ Fresh(id)
        /\ txs'[home[k]][id].state = "AwaitingConfirmation"
        /\ OnlyRecord(home[k], id)
        /\ OnlyTask(k)
        /\ pc[k] = "idle" /\ pc'[k] = "planned" /\ request'[k] = id
        /\ told'[k] = told[k]
  BY PlannedAt
<1>2. \A j \in Conn : id \notin Handles(j)
  BY <1>1, HandledIsOwned DEF Fresh
<1>3. \A j \in Conn : Untouched(j)
  BY <1>1, <1>2, OthersUntouched
<1>4. \A j \in Conn \ {k} : Handles(j) \cap Handles(k)' = {}
  <2>1. Handles(k)' \subseteq Handles(k) \cup {id}
    BY <1>1 DEF Handles
  <2>2. QED
    BY <1>2, <2>1 DEF HandlersInv
<1>5. Stage(k)'
  <2>1. \A i \in told[k] : txs'[home[k]][i].state = "NodeConfirmed"
    BY <1>3 DEF HandlersInv, Stage, Untouched, Handles
  <2>2. id \notin told[k]
    BY <1>2 DEF Handles
  <2>3. QED
    BY <1>1, <2>1, <2>2 DEF Stage
<1>6. \A j \in Conn \ {k} : Keeps(j)
  BY <1>1, OthersKeep
<1>7. QED
  BY <1>3, <1>4, <1>5, <1>6, HandlersKept

LEMMA NotifyHandles ==
  ASSUME TypeInv, HandlersInv, NEW k \in Conn, Notify(k)
  PROVE  HandlersInv'
<1>1. /\ pc[k] \in Decision /\ pc[k] # "idle" /\ Rest(k) /\ txs' = txs
      /\ told' = IF pc[k] = "Confirm"
                 THEN [told EXCEPT ![k] = @ \cup {request[k]}] ELSE told
  BY DEF Notify, Decision, storeVars
<1>2. /\ request[k] \in TxId /\ TasksInv
      /\ told' \in [Conn -> SUBSET TxId]
      /\ \A j \in Conn \ {k} : told'[j] = told[j]
      /\ \A i \in told'[k] : i \in told[k] \/ (pc[k] = "Confirm" /\ i = request[k])
  BY <1>1, AtWork DEF TypeInv, TasksInv
<1>3. OnlyTask(k) /\ pc'[k] = "idle"
  BY <1>1, <1>2, Rested
<1>4. \A j \in Conn \ {k} : Handles(j) \cap Handles(k)' = {}
  <2>1. Handles(k)' \subseteq Handles(k)
    BY <1>1, <1>2, <1>3 DEF Handles
  <2>2. QED
    BY <2>1 DEF HandlersInv
<1>5. Stage(k)'
  BY <1>1, <1>2, <1>3 DEF HandlersInv, Stage, Working
<1>6. \A j \in Conn \ {k} : Keeps(j) /\ Untouched(j)
  BY <1>1, <1>3, OthersKeep, QuietUntouched
<1>7. QED
  BY <1>4, <1>5, <1>6, HandlersKept

LEMMA TaskHandles ==
  ASSUME TypeInv, CancelInv({}), HandlersInv, NEW k \in Conn,
         \/ Serve(k) \/ Hangup(k)
         \/ \E id \in TxId : OnCommit(k, id) \/ OnCancel(k, id) \/ OnCancelPanics(k, id)
  PROVE  HandlersInv'
<1>1. home[k] \in Node /\ StoreInv
  BY HomeAssumption DEF TypeInv
<1>2. CASE Begin(k) \/ Ask(k)
  <2>1. \A j \in Conn : Keeps(j)
    BY <1>2 DEF Begin, Ask, Keeps, Working, TypeInv, TasksInv
  <2>2. txs' = txs
    BY <1>2 DEF Begin, Ask, storeVars
  <2>3. QED
    BY <2>1, <2>2, QuietUntouched, AllHandlersKept
<1>3. CASE LeavesOff(k) \/ NotifyFails(k)
  <2>1. Close(k) /\ txs' = txs
    BY <1>3, LeftOff DEF NotifyFails, storeVars
  <2>2. told' \in [Conn -> SUBSET TxId] /\ told'[k] = {}
        /\ \A j \in Conn \ {k} : told'[j] = told[j]
    BY <2>1 DEF Close, TypeInv, TasksInv
  <2>3. OnlyTask(k) /\ pc'[k] = "idle"
    BY <2>1, <2>2, Rested DEF Close, TypeInv
  <2>4. Keeps(k)
    BY <2>2, <2>3 DEF Keeps
  <2>5. QED
    BY <2>1, <2>3, <2>4, OthersKeep, QuietUntouched, AllHandlersKept
<1>4. CASE Agree(k) \/ Abort(k)
  <2>1. pc[k] = "asking" /\ request[k] \in Handles(k) /\ request[k] \in TxId
    BY <1>4, AtWork DEF Agree, Abort, Handles
  <2>2. /\ OnlyTask(k) /\ request'[k] = request[k] /\ told'[k] = told[k]
        /\ \/ pc'[k] = "Confirm" /\ txs' = Marked(home[k], request[k], "NodeConfirmed")
           \/ pc'[k] = "Cancel" /\ txs' = Marked(home[k], request[k], "Cancelled")
    BY <1>1, <1>4, <2>1, CancelMarks
    DEF Agree, Abort, Confirm, Cancel, OnlyTask, TypeInv, TasksInv
  <2>3. request[k] \notin told'[k]
    BY <2>1, <2>2 DEF HandlersInv, Stage
  <2>4. QED
    BY <2>1, <2>2, <2>3, MarkHandled DEF Decision
<1>5. ASSUME NEW id \in TxId, OnCommit(k, id) \/ OnCancel(k, id)
      PROVE  HandlersInv'
  <2>1. id \in told[k] /\ id \in Handles(k)
    BY <1>5 DEF OnCommit, OnCancel, OnDecision, Handles
  <2>2. /\ OnlyTask(k) /\ request'[k] = id /\ told'[k] = told[k] \ {id}
        /\ \/ pc'[k] = "Commit" /\ txs' = Marked(home[k], id, "Finalized")
           \/ pc'[k] = "Cancel" /\ txs' = Marked(home[k], id, "Cancelled")
    BY <1>1, <1>5, CancelMarks
    DEF OnCommit, OnCancel, OnDecision, Commit, Cancel, OnlyTask, TypeInv, TasksInv
  <2>3. QED
    BY <2>1, <2>2, MarkHandled DEF Decision
<1>6. QED
  BY <1>2, <1>3, <1>4, <1>5, NotifyHandles DEF Serve, LeavesOff

\* What the stores hear from each other is not about their own purchases.
LEMMA ReceiveHandles ==
  ASSUME TypeInv, CancelInv({}), HandlersInv, NEW m \in Node, NEW n \in Node, Receive(m, n)
  PROVE  HandlersInv'
<1> DEFINE msg == Head(chan[m][n])
<1>1. CASE ReceiveUpdate(m, n)
  BY <1>1, IdleKeeps, QuietUntouched, AllHandlersKept DEF ReceiveUpdate, Update
<1>2. CASE ReceiveResponse(m, n)
  <2>1. \A j \in Conn : Keeps(j)
    BY <1>2 DEF ReceiveResponse, Awaiting, Keeps, Working
  <2>2. QED
    BY <1>2, <2>1, QuietUntouched, AllHandlersKept DEF ReceiveResponse, storeVars
<1>3. CASE ReceiveAsk(m, n) \/ ReceiveNotice(m, n)
  <2>1. chan[m][n] # <<>> /\ msg.type \in {"Ask"} \cup Decision /\ StoreInv
    BY <1>3 DEF ReceiveAsk, ReceiveNotice, Arrives, Decision, TypeInv
  <2>2. msg.id \in TxId /\ ~Owned(n, msg.id)
    BY <2>1, AskedIsNotOwner
  <2>3. \/ txs' = txs
        \/ AskAccepted(n, msg.id, msg.share)
        \/ \E s : txs' = Marked(n, msg.id, s)
    BY <1>3, <2>1, <2>2, CancelMarks
    DEF ReceiveAsk, AskRefused, storeVars, ReceiveNotice, Confirm, Commit
  <2>4. \A j \in Conn : Untouched(j)
    BY <2>1, <2>2, <2>3, QuietUntouched, AcceptedAt, MarkedAt, AllUntouched
  <2>5. \A j \in Conn : Keeps(j)
    BY <1>3, IdleKeeps DEF ReceiveAsk, ReceiveNotice
  <2>6. QED
    BY <2>4, <2>5, AllHandlersKept
<1>4. QED
  BY <1>1, <1>2, <1>3 DEF Receive

LEMMA InitialHandlers == Init => HandlersInv
  BY DEF Init, HandlersInv, Handles, Stage, Working

LEMMA HandlersInductive == TypeInv /\ CancelInv({}) /\ HandlersInv /\ [Next]_vars => HandlersInv'
<1> SUFFICES ASSUME TypeInv, CancelInv({}), HandlersInv, [Next]_vars PROVE HandlersInv'
  OBVIOUS
<1>1. ASSUME UNCHANGED connVars, txs' = txs
      PROVE  HandlersInv'
  BY <1>1, IdleKeeps, QuietUntouched, AllHandlersKept
<1>2. CASE StandsStill
  BY <1>1, <1>2 DEF StandsStill, storeVars
<1>3. ASSUME NEW k \in Conn, Serve(k) \/ Customer(k)
      PROVE  HandlersInv'
  <2>1. ASSUME NEW p \in Product, NEW q \in Qty, OnOrder(k, p, q) \/ OrderRefused(k, p, q)
        PROVE  HandlersInv'
    BY <1>1, <2>1, OnOrderHandles DEF OrderRefused, vars, storeVars
  <2>2. QED
    BY <1>3, <2>1, TaskHandles DEF Customer
<1>4. ASSUME NEW n \in Node, Operator(n) \/ Snapshot(n) \/ Broadcast(n)
      PROVE  HandlersInv'
  BY <1>1, <1>4 DEF Operator, AddStock, LocalRequest, Snapshot, Broadcast, storeVars
<1>5. ASSUME NEW m \in Node, NEW n \in Node, Receive(m, n)
      PROVE  HandlersInv'
  BY <1>5, ReceiveHandles
<1>6. ASSUME NEW m \in Node, NEW n \in Node, Coalesced(m, n) \/ LinkLost(n, m)
      PROVE  HandlersInv'
  BY <1>1, <1>6 DEF Coalesced, LinkLost, Shutdown, storeVars
<1>7. QED
  BY <1>2, <1>3, <1>4, <1>5, <1>6, DownStandsStill DEF Next, Updater, Lose

-----------------------------------------------------------------------------
\* What the other stores of a plan have on record, and are being told, is
\* backed by the record of the purchase's owner.

Ended == {"Finalized", "Cancelled"}

\* The record that a message about a purchase leads to.
Meaning(type) ==
  IF type = "Confirm" THEN "NodeConfirmed"
  ELSE IF type = "Commit" THEN "Finalized"
  ELSE IF type = "Cancel" THEN "Cancelled"
  ELSE "AwaitingConfirmation"

\* m's record of its purchase id backs n's having it in state s.
Backs(m, n, id, s) ==
  /\ n \in DOMAIN txs[m][id].involved_stock
  /\ s = "NodeConfirmed" =>
       txs[m][id].state # "AwaitingConfirmation" /\ OnRecord({}, m, id)
  /\ s \in Ended => txs[m][id].state = s

RecordsBacked ==
  \A n \in Node : \A id \in DOMAIN txs[n] : ~Owned(n, id) =>
    \E m \in Node : Owned(m, id) /\ Backs(m, n, id, txs[n][id].state)

NoticesBacked ==
  \A m, n \in Node : \A msg \in Range(chan[m][n]) :
    msg.type \in {"Ask"} \cup Decision => Backs(m, n, msg.id, Meaning(msg.type))

Ends(msg, id) == msg.type \in {"Commit", "Cancel"} /\ msg.id = id

\* A store hears of the agreement before it hears of the outcome, or never.
ConfirmsFirst ==
  \A m, n \in Node : \A i \in DOMAIN chan[m][n] : chan[m][n][i].type = "Confirm" =>
    /\ chan[m][n][i].id \in DOMAIN txs[n] => txs[n][chan[m][n][i].id].state \notin Ended
    /\ \A j \in DOMAIN chan[m][n] : j < i => ~Ends(chan[m][n][j], chan[m][n][i].id)

AgreementInv == RecordsBacked /\ NoticesBacked /\ ConfirmsFirst

\* An owner's record goes from planned to agreed to its end, and stays there.
OwnersAdvance ==
  \A m \in Node, id \in TxId : Owned(m, id) =>
    /\ txs[m][id].state # "AwaitingConfirmation" =>
         txs'[m][id].state # "AwaitingConfirmation"
    /\ txs[m][id].state \in Ended => txs'[m][id].state = txs[m][id].state

\* Another store's record is new or changes only as the owner's says.
RecordsHeard ==
  \A n \in Node : \A id \in DOMAIN txs'[n] :
    \/ txs'[n][id].involved_stock # Empty
    \/ /\ id \in DOMAIN txs[n] /\ ~Owned(n, id)
       /\ txs'[n][id].state = txs[n][id].state
    \/ \E m \in Node : Owned(m, id) /\ Backs(m, n, id, txs'[n][id].state)

\* What r may send to the stores of S.
MaySend(r, S, msg) ==
  \A b \in S :
    /\ msg.type \in {"Ask"} \cup Decision =>
         Owned(r, msg.id) /\ Backs(r, b, msg.id, Meaning(msg.type))
    /\ msg.type = "Confirm" =>
         /\ txs[r][msg.id].state = "NodeConfirmed"
         /\ msg.id \in DOMAIN txs[b] => txs[b][msg.id].state \notin Ended

\* No record ends while a Confirm is on its way.
ConfirmsAwaited ==
  \A m, n \in Node : \A x \in Range(chan'[m][n]) :
    x.type = "Confirm" /\ x.id \in DOMAIN txs'[n] =>
      \/ x.id \in DOMAIN txs[n] /\ txs'[n][x.id].state = txs[n][x.id].state
      \/ txs'[n][x.id].state \notin Ended

LEMMA BacksKept ==
  ASSUME TypeInv, TypeInv', OwnersAdvance, NEW m \in Node, NEW n, NEW id, NEW s,
         \A a \in Node : PlanKept(a, id), Owned(m, id), Backs(m, n, id, s)
  PROVE  Backs(m, n, id, s)'
<1>1. id \in TxId /\ id \in DOMAIN txs[m] /\ PlanKept(m, id)
  BY DEF Owned, TypeInv, StoreInv, TypesOfRecords
<1>2. /\ txs'[m][id].involved_stock = txs[m][id].involved_stock
      /\ id \in DOMAIN txs'[m]
  BY <1>1 DEF PlanKept
<1>3. n \in DOMAIN txs'[m][id].involved_stock
  BY <1>2 DEF Backs
<1>4. s \in Ended => txs'[m][id].state = s
  BY <1>1 DEF Backs, OwnersAdvance
<1>5. ASSUME s = "NodeConfirmed"
      PROVE  txs'[m][id].state # "AwaitingConfirmation" /\ OnRecord({}, m, id)'
  <2>1. txs[m][id].state # "AwaitingConfirmation" /\ OnRecord({}, m, id)
    BY <1>5 DEF Backs
  <2>2. OnRecord({}, m, id)'
    BY <1>1, <1>2, <2>1, OnRecordKept
  <2>3. QED
    BY <1>1, <2>1, <2>2 DEF OwnersAdvance
<1>6. QED
  BY <1>3, <1>4, <1>5 DEF Backs

LEMMA RecordsKept ==
  ASSUME TypeInv, TypeInv', OwnersAdvance, OwnedKept, RecordsBacked, RecordsHeard
  PROVE  RecordsBacked'
<1> SUFFICES ASSUME NEW n \in Node, NEW id \in DOMAIN txs'[n], ~Owned(n, id)'
             PROVE  \E m \in Node :
                      Owned(m, id)' /\ Backs(m, n, id, txs[n][id].state)'
  BY DEF RecordsBacked
<1>0. PICK s : s = txs'[n][id].state
  OBVIOUS
<1>1. id \in TxId /\ txs'[n][id].involved_stock = Empty
  BY DEF TypeInv, StoreInv, TypesOfRecords, Owned
<1>2. PICK m \in Node : Owned(m, id) /\ Backs(m, n, id, s)
  BY <1>0, <1>1 DEF RecordsBacked, RecordsHeard
<1>4. \A a \in Node : PlanKept(a, id)
  BY <1>1, <1>2 DEF OwnedKept
<1>5. Owned(m, id)'
  BY <1>2, <1>4 DEF PlanKept
<1>6. Backs(m, n, id, s)'
  BY <1>2, <1>4, BacksKept
<1>7. Backs(m, n, id, txs[n][id].state)'
  BY <1>0, <1>6 DEF Backs
<1>8. QED
  BY <1>5, <1>7

LEMMA NoticesKept ==
  ASSUME TypeInv, OwnerSpeaks, TypeInv', OwnersAdvance, OwnedKept, NoticesBacked,
         NEW r \in Node, NEW S, NEW msg, Moved(r, S, msg), MaySend(r, S, msg)
  PROVE  NoticesBacked'
<1> SUFFICES ASSUME NEW m \in Node, NEW n \in Node, NEW x \in Range(chan'[m][n]),
                    x.type \in {"Ask"} \cup Decision
             PROVE  Backs(m, n, x.id, Meaning(x.type))'
  BY DEF NoticesBacked
<1>1. PICK i \in DOMAIN chan'[m][n] : x = chan'[m][n][i]
  BY DEF Range
<1>2. \/ x \in Range(chan[m][n])
      \/ m = r /\ n \in S /\ x = msg
  BY <1>1, MovedFrom DEF TypeInv, Range
<1>3. Owned(m, x.id) /\ Backs(m, n, x.id, Meaning(x.type))
  BY <1>2 DEF NoticesBacked, OwnerSpeaks, MaySend
<1>4. x.id \in TxId
  BY <1>3 DEF Owned, TypeInv, StoreInv, TypesOfRecords
<1> DEFINE s == Meaning(x.type)
           id == x.id
<1> HIDE DEF s, id
<1>5. Owned(m, id) /\ Backs(m, n, id, s) /\ \A a \in Node : PlanKept(a, id)
  BY <1>3, <1>4 DEF s, id, OwnedKept
<1>6. Backs(m, n, id, s)'
  BY <1>5, BacksKept
<1>7. QED
  BY <1>6 DEF s, id

LEMMA ConfirmsKept ==
  ASSUME TypeInv, TypeInv', NoticesBacked, ConfirmsFirst,
         NEW r \in Node, NEW S, NEW msg, Moved(r, S, msg), MaySend(r, S, msg),
         ConfirmsAwaited
  PROVE  ConfirmsFirst'
<1> SUFFICES ASSUME NEW m \in Node, NEW n \in Node, NEW i \in DOMAIN chan'[m][n],
                    chan'[m][n][i].type = "Confirm"
             PROVE  /\ chan'[m][n][i].id \in DOMAIN txs'[n] =>
                         txs'[n][chan'[m][n][i].id].state \notin Ended
                    /\ \A j \in DOMAIN chan'[m][n] : j < i =>
                         ~Ends(chan'[m][n][j], chan'[m][n][i].id)
  BY DEF ConfirmsFirst
<1> DEFINE x == chan'[m][n][i]
<1>1. PICK d \in Nat : \A j \in DOMAIN chan'[m][n] :
        /\ j \in Nat
        /\ \/ j + d \in DOMAIN chan[m][n] /\ chan'[m][n][j] = chan[m][n][j + d]
           \/ /\ m = r /\ n \in S /\ chan'[m][n][j] = msg
              /\ \A l \in DOMAIN chan'[m][n] : l <= j
  BY MovedFrom DEF TypeInv
<1>2. x \in Range(chan'[m][n])
  BY DEF Range
<1>3. CASE i + d \in DOMAIN chan[m][n] /\ x = chan[m][n][i + d]
  <2>1. /\ x.id \in DOMAIN txs[n] => txs[n][x.id].state \notin Ended
        /\ \A j \in DOMAIN chan[m][n] : j < i + d => ~Ends(chan[m][n][j], x.id)
    BY <1>3 DEF ConfirmsFirst
  <2>2. x.id \in DOMAIN txs'[n] => txs'[n][x.id].state \notin Ended
    BY <1>2, <2>1 DEF ConfirmsAwaited
  <2>3. ASSUME NEW j \in DOMAIN chan'[m][n], j < i
        PROVE  ~Ends(chan'[m][n][j], x.id)
    <3>1. i \in Nat /\ j \in Nat /\ ~(i <= j)
      BY <1>1, <2>3
    <3>2. j + d \in DOMAIN chan[m][n] /\ chan'[m][n][j] = chan[m][n][j + d]
      BY <1>1, <3>1
    <3>3. j + d < i + d
      BY <2>3, <3>1
    <3>4. QED
      BY <2>1, <3>2, <3>3
  <2>4. QED
    BY <2>2, <2>3
<1>4. CASE m = r /\ n \in S /\ x = msg
  <2>1. /\ txs[r][x.id].state = "NodeConfirmed"
        /\ x.id \in DOMAIN txs[n] => txs[n][x.id].state \notin Ended
    BY <1>4 DEF MaySend
  <2>2. x.id \in DOMAIN txs'[n] => txs'[n][x.id].state \notin Ended
    BY <1>2, <2>1 DEF ConfirmsAwaited
  <2>3. ASSUME NEW j \in DOMAIN chan'[m][n], Ends(chan'[m][n][j], x.id)
        PROVE  FALSE
    <3> DEFINE y == chan'[m][n][j]
    <3>1. y.type \in {"Commit", "Cancel"} /\ y.id = x.id
      BY <2>3 DEF Ends
    <3>2. y # msg
      BY <1>4, <3>1
    <3>3. y \in Range(chan[m][n])
      BY <1>1, <3>2 DEF Range
    <3>4. Backs(m, n, y.id, Meaning(y.type)) /\ Meaning(y.type) \in Ended
      BY <3>1, <3>3 DEF NoticesBacked, Decision, Meaning, Ended
    <3>5. txs[m][x.id].state \in Ended
      BY <3>1, <3>4 DEF Backs
    <3>6. QED
      BY <1>4, <2>1, <3>5 DEF Ended
  <2>4. QED
    BY <2>2, <2>3
<1>5. QED
  BY <1>1, <1>3, <1>4

LEMMA AgreementKept ==
  ASSUME TypeInv, OwnerSpeaks, TypeInv', AgreementInv, OwnersAdvance, OwnedKept, RecordsHeard,
         ConfirmsAwaited,
         NEW r \in Node, NEW S, NEW msg, Moved(r, S, msg), MaySend(r, S, msg)
  PROVE  AgreementInv'
  BY RecordsKept, NoticesKept, ConfirmsKept DEF AgreementInv

LEMMA SilentMaySend == \A r, msg : MaySend(r, {}, msg)
  BY DEF MaySend

\* Where no record changes.
LEMMA QuietAgrees ==
  ASSUME TypeInv, OwnerSpeaks, TypeInv', AgreementInv, txs' = txs,
         NEW r \in Node, NEW S, NEW msg, Moved(r, S, msg), MaySend(r, S, msg)
  PROVE  AgreementInv'
<1>1. OwnersAdvance /\ OwnedKept
  BY UnchangedKeeps DEF OwnersAdvance, OwnedKept, PlansKept
<1>2. RecordsHeard /\ ConfirmsAwaited
  BY DEF RecordsHeard, ConfirmsAwaited, Owned
<1>3. QED
  BY <1>1, <1>2, AgreementKept

LEMMA OnOrderAgrees ==
  ASSUME TypeInv, OwnerSpeaks, TypeInv', AgreementInv, NEW k \in Conn, NEW p \in Product, NEW q \in Qty,
         OnOrder(k, p, q)
  PROVE  AgreementInv'
<1>1. PICK id \in TxId :
        Fresh(id) /\ Owned(home[k], id)' /\ OnlyRecord(home[k], id)
  BY PlannedAt
<1>2. home[k] \in Node /\ chan' = chan /\ LinksInv
  BY HomeAssumption DEF OnOrder, linkVars, TypeInv
<1>3. \A m \in Node : id \notin DOMAIN txs[m]
  BY <1>1 DEF Fresh
<1>4. \A m \in Node, i \in TxId : i # id => PlanKept(m, i)
  BY <1>1 DEF OnlyRecord, PlanKept, Owned
<1>5. OwnedKept
  BY <1>3, <1>4 DEF OwnedKept, Owned
<1>6. OwnersAdvance
  BY <1>1, <1>3 DEF OwnersAdvance, Owned, OnlyRecord
<1>7. \A m \in Node : \A i \in DOMAIN txs'[m] :
        i \in TxId /\ (m # home[k] \/ i # id => i \in DOMAIN txs[m] /\ txs'[m][i] = txs[m][i])
  BY <1>1 DEF OnlyRecord, TypeInv, StoreInv, TypesOfRecords
<1>8. RecordsHeard
  BY <1>1, <1>7 DEF RecordsHeard, Owned
<1>9. ConfirmsAwaited
  <2> SUFFICES ASSUME NEW m \in Node, NEW n \in Node, NEW x \in Range(chan[m][n]),
                      x.type = "Confirm", x.id \in DOMAIN txs'[n]
               PROVE  x.id \in DOMAIN txs[n] /\ txs'[n][x.id].state = txs[n][x.id].state
    BY <1>2 DEF ConfirmsAwaited
  <2>1. Owned(m, x.id)
    BY DEF OwnerSpeaks, Decision
  <2>2. x.id # id
    BY <1>3, <2>1 DEF Owned
  <2>3. QED
    BY <1>7, <2>2
<1>10. Moved(home[k], {}, 0)
  BY <1>2, UnmovedChannels
<1>11. QED
  BY <1>2, <1>5, <1>6, <1>8, <1>9, <1>10, SilentMaySend, AgreementKept

\* An owner's decision on its purchase.
OwnerMarks(k) ==
  \E id \in Handles(k), s \in TransactionState :
    /\ txs' = Marked(home[k], id, s)
    /\ \/ /\ pc[k] = "asking" /\ todo[k] = {} /\ id = request[k]
          /\ \/ s = "NodeConfirmed" /\ ~refused[k]
             \/ s = "Cancelled" /\ refused[k]
       \/ s \in Ended /\ id \in told[k]

LEMMA DecisionsMark ==
  ASSUME TypeInv, CancelInv({}), NEW k \in Conn,
         Agree(k) \/ Abort(k) \/ \E id \in TxId : OnCommit(k, id) \/ OnCancel(k, id)
  PROVE  OwnerMarks(k) /\ chan' = chan
<1>1. home[k] \in Node /\ StoreInv
  BY HomeAssumption DEF TypeInv
<1>2. CASE Agree(k) \/ Abort(k)
  <2>1. pc[k] = "asking" /\ request[k] \in Handles(k) /\ request[k] \in TxId
    BY <1>2, AtWork DEF Agree, Abort, Handles
  <2>2. CASE Agree(k)
    BY <2>1, <2>2 DEF Agree, Confirm, OwnerMarks, linkVars, TransactionState
  <2>3. CASE Abort(k)
    <3>1. txs' = Marked(home[k], request[k], "Cancelled")
      BY <1>1, <2>1, <2>3, CancelMarks DEF Abort, Cancel
    <3>2. QED
      BY <2>1, <2>3, <3>1 DEF Abort, OwnerMarks, linkVars, TransactionState
  <2>4. QED
    BY <1>2, <2>2, <2>3
<1>3. ASSUME NEW id \in TxId, OnCommit(k, id) \/ OnCancel(k, id)
      PROVE  OwnerMarks(k) /\ chan' = chan
  <2>1. id \in told[k] /\ id \in Handles(k) /\ chan' = chan
    BY <1>3 DEF OnCommit, OnCancel, OnDecision, Handles, linkVars
  <2>2. PICK s \in Ended : txs' = Marked(home[k], id, s)
    BY <1>1, <1>3, CancelMarks DEF OnCommit, OnCancel, Commit, Cancel, Ended
  <2>3. QED
    BY <2>1, <2>2 DEF OwnerMarks, Ended, TransactionState
<1>4. QED
  BY <1>2, <1>3

\* The record that a decision changes, from what to what.
LEMMA MarkOfOwner ==
  ASSUME TypeInv, HandlersInv, NEW k \in Conn, NEW id \in Handles(k), NEW s,
         txs' = Marked(home[k], id, s),
         \/ pc[k] = "asking" /\ id = request[k]
         \/ s \in Ended /\ id \in told[k],
         s \in {"NodeConfirmed", "Finalized", "Cancelled"}
  PROVE  /\ home[k] \in Node /\ id \in TxId
         /\ Owned(home[k], id) /\ id \in DOMAIN txs[home[k]]
         /\ OnlyRecord(home[k], id) /\ PlansKept
         /\ \A a \in Node : DOMAIN txs'[a] = DOMAIN txs[a]
         /\ txs[home[k]][id].state \notin Ended
         /\ txs[home[k]][id].state =
              IF id \in told[k] THEN "NodeConfirmed" ELSE "AwaitingConfirmation"
         /\ txs'[home[k]][id] = Transaction(s, txs[home[k]][id].involved_stock)
         /\ txs'[home[k]][id].state = s
<1>1. /\ home[k] \in Node /\ id \in TxId /\ Owned(home[k], id)
      /\ id \in DOMAIN txs[home[k]] /\ StoreInv
  BY HandledIsOwned DEF TypeInv
<1>2. /\ OnlyRecord(home[k], id) /\ \A a \in Node : DOMAIN txs'[a] = DOMAIN txs[a]
      /\ txs'[home[k]][id] = Transaction(s, txs[home[k]][id].involved_stock)
  BY <1>1, MarkedAt
<1>3. PlansKept
  BY <1>1, MarkedKeeps
<1>4. Stage(k)
  BY DEF HandlersInv
<1>5. txs[home[k]][id].state =
        IF id \in told[k] THEN "NodeConfirmed" ELSE "AwaitingConfirmation"
  BY <1>4 DEF Stage, Working
<1>6. txs'[home[k]][id].state = s
  BY <1>2 DEF Transaction
<1>7. txs[home[k]][id].state \notin Ended
  BY <1>5 DEF Ended
<1>8. QED
  BY <1>1, <1>2, <1>3, <1>5, <1>6, <1>7

LEMMA OwnerAgrees ==
  ASSUME TypeInv, OwnerSpeaks, TypeInv', HandlersInv, AgreementInv, NEW k \in Conn,
         OwnerMarks(k), chan' = chan
  PROVE  AgreementInv'
<1>1. PICK id \in Handles(k), s \in {"NodeConfirmed", "Finalized", "Cancelled"} :
        /\ txs' = Marked(home[k], id, s)
        /\ \/ pc[k] = "asking" /\ id = request[k]
           \/ s \in Ended /\ id \in told[k]
  BY DEF OwnerMarks, Ended
<1>2. /\ home[k] \in Node /\ id \in TxId /\ Owned(home[k], id)
      /\ OnlyRecord(home[k], id) /\ PlansKept
      /\ \A a \in Node : DOMAIN txs'[a] = DOMAIN txs[a]
      /\ txs[home[k]][id].state \notin Ended
      /\ txs'[home[k]][id].state = s
  BY <1>1, MarkOfOwner
<1>3. OwnedKept
  BY <1>2 DEF OwnedKept, PlansKept
<1>4. \A a \in Node : \A i \in DOMAIN txs'[a] :
        i \in TxId /\ i \in DOMAIN txs[a] /\ (a # home[k] \/ i # id => txs'[a][i] = txs[a][i])
  BY <1>2 DEF OnlyRecord, TypeInv, StoreInv, TypesOfRecords
<1>5. OwnersAdvance
  BY <1>1, <1>2, <1>4 DEF OwnersAdvance, Owned
<1>6. RecordsHeard
  <2>1. txs'[home[k]][id].involved_stock # Empty
    BY <1>2 DEF PlansKept, PlanKept, Owned
  <2>2. QED
    BY <1>4, <2>1 DEF RecordsHeard, Owned
<1>7. ConfirmsAwaited
  <2> SUFFICES ASSUME NEW m \in Node, NEW n \in Node, NEW x \in Range(chan[m][n]),
                      x.type = "Confirm", x.id \in DOMAIN txs'[n]
               PROVE  x.id \in DOMAIN txs[n] /\ txs'[n][x.id].state = txs[n][x.id].state
    BY DEF ConfirmsAwaited
  <2>1. Owned(m, x.id)
    BY DEF OwnerSpeaks, Decision
  <2>2. m # n
    BY DEF TypeInv, LinksInv, Range
  <2>3. n # home[k] \/ x.id # id
    BY <1>2, <2>1, <2>2 DEF TypeInv, OneOwner
  <2>4. QED
    BY <1>4, <2>3
<1>8. Moved(home[k], {}, 0)
  BY <1>2, UnmovedChannels DEF TypeInv
<1>9. QED
  BY <1>2, <1>3, <1>5, <1>6, <1>7, <1>8, SilentMaySend, AgreementKept

\* The task tells the other stores of a plan what its store has on record.
LEMMA TaskMaySend ==
  ASSUME ReserveInv({}), HandlersInv, AgreementInv, NEW k \in Conn,
         Ask(k) \/ Notify(k) \/ NotifyFails(k)
  PROVE  \E S : \E msg : Moved(home[k], S, msg) /\ MaySend(home[k], S, msg)
<1> DEFINE n == home[k]
           id == request[k]
<1>1. pc[k] # "idle" /\ TypeInv /\ LinksInv
  BY DEF Ask, Notify, NotifyFails, Decision, ReserveInv, TypeInv
<1>2. /\ n \in Node /\ id \in TxId /\ Owned(n, id) /\ todo[k] \subseteq Targets(k)
      /\ Targets(k) \subseteq Node \ {n}
  BY <1>1, AtWork
<1>3. \A b \in Targets(k) : b \in DOMAIN txs[n][id].involved_stock
  BY DEF Targets, Plan
<1>4. CASE Ask(k)
  <2>1. PICK m \in todo[k] : chan' = Posted(chan, n, {m}, AskMessage(id, Plan(k)[m]))
    BY <1>4 DEF Ask
  <2> DEFINE msg == AskMessage(id, Plan(k)[m])
  <2>2. msg.type = "Ask" /\ msg.id = id
    BY DEF AskMessage
  <2> HIDE DEF msg
  <2>3. Moved(n, {m}, msg)
    BY <1>1, <1>2, <2>1, PostMoves DEF msg
  <2>4. Backs(n, m, id, Meaning("Ask"))
    BY <1>2, <1>3 DEF Backs, Meaning, Ended
  <2>5. MaySend(n, {m}, msg)
    BY <1>2, <2>2, <2>4 DEF MaySend
  <2>6. QED
    BY <2>3, <2>5
<1>5. CASE Notify(k) \/ NotifyFails(k)
  <2>1. PICK S \in SUBSET Targets(k) : chan' = Posted(chan, n, S, Notice(pc[k], id))
    BY <1>5 DEF Notify, NotifyFails
  <2> DEFINE msg == Notice(pc[k], id)
  <2>2. msg.type = pc[k] /\ msg.id = id /\ pc[k] \in Decision
    BY <1>5 DEF Notice, Notify, NotifyFails
  <2> HIDE DEF msg
  <2>3. Moved(n, S, msg)
    BY <1>1, <1>2, <2>1, PostMoves DEF msg
  <2>4. /\ pc[k] = "Confirm" => txs[n][id].state = "NodeConfirmed" /\ OnRecord({}, n, id)
        /\ pc[k] = "Commit" => txs[n][id].state = "Finalized"
        /\ pc[k] = "Cancel" => txs[n][id].state = "Cancelled"
    BY DEF HandlersInv, Stage, ReserveInv, TaskKnows
  <2>5. ASSUME NEW b \in S
        PROVE  Backs(n, b, id, Meaning(pc[k]))
    BY <1>3, <2>2, <2>4 DEF Backs, Meaning, Ended, Decision
  <2>6. ASSUME NEW b \in S, pc[k] = "Confirm", id \in DOMAIN txs[b]
        PROVE  txs[b][id].state \notin Ended
    <3>1. b \in Node /\ ~Owned(b, id)
      BY <1>1, <1>2 DEF TypeInv, OneOwner
    <3>2. PICK m \in Node : Owned(m, id) /\ Backs(m, b, id, txs[b][id].state)
      BY <2>6, <3>1 DEF AgreementInv, RecordsBacked
    <3>3. m = n
      BY <1>1, <1>2, <3>2 DEF TypeInv, OneOwner
    <3>4. QED
      BY <2>4, <2>6, <3>2, <3>3 DEF Backs, Ended
  <2>7. MaySend(n, S, msg)
    BY <1>2, <2>2, <2>4, <2>5, <2>6 DEF MaySend
  <2>8. QED
    BY <2>3, <2>7
<1>6. QED
  BY <1>4, <1>5

LEMMA TaskAgrees ==
  ASSUME ReserveInv({}), OwnerSpeaks, TypeInv', CancelInv({}), HandlersInv, AgreementInv, NEW k \in Conn,
         \/ Serve(k) \/ Hangup(k)
         \/ \E id \in TxId : OnCommit(k, id) \/ OnCancel(k, id) \/ OnCancelPanics(k, id)
  PROVE  AgreementInv'
<1>1. home[k] \in Node /\ LinksInv /\ TypeInv
  BY HomeAssumption DEF ReserveInv, TypeInv
<1>2. CASE Begin(k) \/ LeavesOff(k)
  <2>1. chan' = chan /\ txs' = txs
    BY <1>2, LeftOff DEF Begin, linkVars, storeVars
  <2>2. Moved(home[k], {}, 0)
    BY <1>1, <2>1, UnmovedChannels
  <2>3. QED
    BY <1>1, <2>1, <2>2, SilentMaySend, QuietAgrees
<1>3. CASE Ask(k) \/ Notify(k) \/ NotifyFails(k)
  <2>1. PICK S, msg : Moved(home[k], S, msg) /\ MaySend(home[k], S, msg)
    BY <1>3, TaskMaySend
  <2>2. txs' = txs
    BY <1>3 DEF Ask, Notify, NotifyFails, storeVars
  <2>3. QED
    BY <1>1, <2>1, <2>2, QuietAgrees
<1>4. CASE Agree(k) \/ Abort(k) \/ \E id \in TxId : OnCommit(k, id) \/ OnCancel(k, id)
  BY <1>1, <1>4, DecisionsMark, OwnerAgrees
<1>5. QED
  BY <1>2, <1>3, <1>4 DEF Serve, LeavesOff

LEMMA UpdaterAgrees ==
  ASSUME TypeInv, OwnerSpeaks, TypeInv', AgreementInv, NEW n \in Node,
         Operator(n) \/ Snapshot(n) \/ Broadcast(n)
  PROVE  AgreementInv'
<1>1. txs' = txs /\ LinksInv
  BY DEF Operator, AddStock, LocalRequest, Snapshot, Broadcast, storeVars, TypeInv
<1>2. CASE Operator(n) \/ Snapshot(n)
  <2>1. Moved(n, {}, 0)
    BY <1>1, <1>2, UnmovedChannels DEF Operator, Snapshot, linkVars
  <2>2. QED
    BY <1>1, <2>1, SilentMaySend, QuietAgrees
<1>3. CASE Broadcast(n)
  <2>1. PICK s : chan' = Posted(chan, n, linked[n], Announcement(s))
    BY <1>3 DEF Broadcast
  <2> DEFINE msg == Announcement(s)
  <2>2. msg.type = "Update"
    BY DEF Announcement
  <2> HIDE DEF msg
  <2>3. Moved(n, linked[n], msg)
    BY <1>1, <2>1, PostMoves DEF msg
  <2>4. MaySend(n, linked[n], msg)
    BY <2>2 DEF MaySend, Decision
  <2>5. QED
    BY <1>1, <2>3, <2>4, QuietAgrees
<1>4. QED
  BY <1>2, <1>3

\* Where a store changes a record that is not of its own purchase.
LEMMA OthersAdvance ==
  ASSUME TypeInv, NEW n \in Node, NEW id \in TxId, OnlyRecord(n, id), ~Owned(n, id)
  PROVE  OwnersAdvance
<1>1. ASSUME NEW m \in Node, NEW i \in TxId, Owned(m, i)
      PROVE  txs'[m][i] = txs[m][i]
  BY <1>1 DEF OnlyRecord, Owned
<1>2. QED
  BY <1>1 DEF OwnersAdvance

\* A store hears how the purchase of another goes on.
LEMMA ReceiveNoticeAgrees ==
  ASSUME TypeInv, OwnerSpeaks, TypeInv', CancelInv({}), AgreementInv, NEW m \in Node, NEW n \in Node,
         ReceiveNotice(m, n)
  PROVE  AgreementInv'
<1> DEFINE msg == Head(chan[m][n])
           id == msg.id
           s == Meaning(msg.type)
<1>1. /\ chan[m][n] # <<>> /\ msg.type \in Decision
      /\ msg.type \in {"Ask"} \cup Decision
      /\ chan' = Rests(m, n)
      /\ LinksInv /\ StoreInv /\ chan \in Channels
  BY DEF ReceiveNotice, Arrives, Decision, TypeInv, LinksInv
<1>2. id \in TxId /\ ~Owned(n, id) /\ msg \in Range(chan[m][n])
  BY <1>1, AskedIsNotOwner, Read
<1>3. Owned(m, id) /\ Backs(m, n, id, s)
  BY <1>1, <1>2 DEF OwnerSpeaks, AgreementInv, NoticesBacked
<1>4. txs' = Marked(n, id, s)
  BY <1>1, <1>2, CancelMarks DEF ReceiveNotice, Arrives, Confirm, Commit, Meaning
<1> HIDE DEF s, id, msg
<1>5. /\ OnlyRecord(n, id) /\ \A a \in Node : DOMAIN txs'[a] = DOMAIN txs[a]
      /\ id \in DOMAIN txs[n] => txs'[n][id].state = s
  <2>1. /\ OnlyRecord(n, id) /\ \A a \in Node : DOMAIN txs'[a] = DOMAIN txs[a]
        /\ id \in DOMAIN txs[n] =>
             txs'[n][id] = Transaction(s, txs[n][id].involved_stock)
    BY <1>1, <1>2, <1>4, MarkedAt
  <2>2. QED
    BY <2>1 DEF Transaction
<1>6. OwnedKept /\ OwnersAdvance
  BY <1>1, <1>2, <1>4, <1>5, MarkedKeeps, OthersAdvance DEF OwnedKept, PlansKept
<1>7. \A a \in Node : \A i \in DOMAIN txs'[a] :
        i \in TxId /\ i \in DOMAIN txs[a] /\ (a # n \/ i # id => txs'[a][i] = txs[a][i])
  BY <1>5 DEF OnlyRecord, TypeInv, StoreInv, TypesOfRecords
<1>8. RecordsHeard
  BY <1>3, <1>5, <1>7 DEF RecordsHeard, Owned
<1>9. ConfirmsAwaited
  <2> SUFFICES ASSUME NEW a \in Node, NEW b \in Node, NEW x \in Range(chan'[a][b]),
                      x.type = "Confirm", x.id \in DOMAIN txs'[b]
               PROVE  \/ x.id \in DOMAIN txs[b] /\ txs'[b][x.id].state = txs[b][x.id].state
                      \/ txs'[b][x.id].state \notin Ended
    BY DEF ConfirmsAwaited
  <2>1. CASE b # n \/ x.id # id
    BY <1>7, <2>1
  <2>2. CASE b = n /\ x.id = id
    <3>1. SUFFICES ASSUME s \in Ended
                   PROVE  FALSE
      BY <1>5, <1>7, <2>2
    <3>2. a = m
      <4>1. x \in Range(chan[a][b])
        BY <1>1, Read DEF Fewer
      <4>2. Owned(a, x.id)
        BY <4>1 DEF OwnerSpeaks, Decision
      <4>3. QED
        BY <1>2, <1>3, <2>2, <4>2 DEF TypeInv, OneOwner
    <3> DEFINE old == chan[m][n]
    <3>3. old \in Seq(Message) /\ chan'[m][n] = Tail(old)
      <4>1. old \in Seq(Message)
        BY <1>1 DEF Channels
      <4>2. QED
        BY <1>1, <4>1, RestsAt
    <3>4. PICK i \in DOMAIN chan'[m][n] : x = chan'[m][n][i]
      BY <2>2, <3>2 DEF Range
    <3>5. i + 1 \in DOMAIN old /\ x = old[i + 1] /\ i \in 1 .. Len(Tail(old))
      BY <1>1, <3>3, <3>4, TailShifts
    <3>6. 1 \in DOMAIN old /\ old[1] = msg /\ 1 < i + 1
      BY <1>1, <3>3, <3>5 DEF msg
    <3>7. Ends(msg, x.id)
      BY <1>1, <2>2, <3>1 DEF Ends, s, id, Meaning, Ended, Decision
    <3>8. QED
      BY <3>5, <3>6, <3>7 DEF AgreementInv, ConfirmsFirst
  <2>3. QED
    BY <2>1, <2>2
<1>10. Moved(n, {}, 0)
  BY <1>1, ReadMoves DEF msg
<1>11. QED
  BY <1>6, <1>8, <1>9, <1>10, SilentMaySend, AgreementKept

LEMMA ReceiveAskAgrees ==
  ASSUME TypeInv, OwnerSpeaks, TypeInv', AgreementInv, NEW m \in Node, NEW n \in Node, ReceiveAsk(m, n)
  PROVE  AgreementInv'
<1> DEFINE msg == Head(chan[m][n])
           id == msg.id
<1>1. chan[m][n] # <<>> /\ msg.type = "Ask" /\ msg.type \in {"Ask"} \cup Decision
      /\ LinksInv /\ StoreInv
  BY DEF ReceiveAsk, Arrives, TypeInv
<1>2. id \in TxId /\ ~Owned(n, id) /\ msg \in Range(chan[m][n])
  BY <1>1, AskedIsNotOwner, Read
<1>3. Owned(m, id) /\ Backs(m, n, id, "AwaitingConfirmation")
  BY <1>1, <1>2 DEF OwnerSpeaks, AgreementInv, NoticesBacked, Meaning
<1>4. PICK ok \in BOOLEAN :
        /\ IF ok THEN AskAccepted(n, id, msg.share) ELSE AskRefused(n, msg.share)
        /\ chan' = Posted(Rests(m, n), n, {m} \cap linked[n], Response(id, ok))
  BY DEF ReceiveAsk
<1> HIDE DEF id
<1> DEFINE answer == Response(id, ok)
<1>5. Moved(n, {m}, answer) /\ answer.type = "Response"
  BY <1>1, <1>4, ReplyMoves DEF Response
<1> HIDE DEF answer
<1>6. MaySend(n, {m}, answer)
  BY <1>5 DEF MaySend, Decision
<1>7. CASE ok
  <2>1. /\ OnlyRecord(n, id) /\ id \in DOMAIN txs'[n]
        /\ txs'[n][id].state = "AwaitingConfirmation"
    BY <1>1, <1>2, <1>4, <1>7, AcceptedAt DEF Transaction
  <2>2. OwnedKept /\ OwnersAdvance
    BY <1>1, <1>2, <1>4, <1>7, <2>1, AskKeeps, OthersAdvance DEF OwnedKept, PlansKept
  <2>3. \A a \in Node : \A i \in DOMAIN txs'[a] :
          a # n \/ i # id => i \in DOMAIN txs[a] /\ txs'[a][i] = txs[a][i]
    BY <2>1 DEF OnlyRecord, TypeInv, StoreInv, TypesOfRecords
  <2>4. RecordsHeard
    BY <1>3, <2>1, <2>3 DEF RecordsHeard, Owned
  <2>5. ConfirmsAwaited
    BY <2>1, <2>3 DEF ConfirmsAwaited, Ended
  <2>6. QED
    BY <1>5, <1>6, <2>2, <2>4, <2>5, AgreementKept
<1>8. CASE ~ok
  BY <1>4, <1>5, <1>6, <1>8, QuietAgrees DEF AskRefused, storeVars
<1>9. QED
  BY <1>7, <1>8

LEMMA ReceiveAgrees ==
  ASSUME TypeInv, OwnerSpeaks, TypeInv', CancelInv({}), AgreementInv, NEW m \in Node, NEW n \in Node,
         Receive(m, n) \/ Coalesced(m, n) \/ LinkLost(n, m)
  PROVE  AgreementInv'
<1>1. ASSUME Moved(n, {}, 0), txs' = txs
      PROVE  AgreementInv'
  BY <1>1, SilentMaySend, QuietAgrees
<1>2. CASE ReceiveUpdate(m, n) \/ ReceiveResponse(m, n)
  <2>1. chan[m][n] # <<>> /\ chan' = Rests(m, n) /\ txs' = txs /\ LinksInv
    BY <1>2 DEF ReceiveUpdate, Update, ReceiveResponse, Arrives, storeVars, TypeInv
  <2>2. QED
    BY <1>1, <2>1, ReadMoves
<1>3. CASE Coalesced(m, n) \/ LinkLost(n, m)
  BY <1>1, <1>3, LossMoves DEF Coalesced, LinkLost, Shutdown, storeVars, TypeInv
<1>4. QED
  BY <1>2, <1>3, ReceiveAskAgrees, ReceiveNoticeAgrees DEF Receive

LEMMA InitialAgreement == Init => AgreementInv
  BY DEF Init, StoreInit, Empty, AgreementInv, RecordsBacked, NoticesBacked,
         ConfirmsFirst, Range

\* What is known of the protocol so far is known after every step.
ServedInv == OwnerSpeaks /\ ReserveInv({}) /\ CancelInv({}) /\ HandlersInv /\ AgreementInv

LEMMA InitialServed == Init => ServedInv
  BY InitialTypes, InitialReservations, InitialCancels, InitialHandlers, InitialAgreement
  DEF ServedInv, OwnedInv

LEMMA ServedInductive == ServedInv /\ [Next]_vars => ServedInv'
<1> SUFFICES ASSUME ServedInv, [Next]_vars PROVE ServedInv'
  OBVIOUS
<1>1. /\ ReserveInv({}) /\ CancelInv({}) /\ HandlersInv /\ AgreementInv
      /\ TypeInv /\ OwnerSpeaks
  BY DEF ServedInv, ReserveInv
<1>2. /\ ReserveInv({})' /\ TypeInv' /\ CancelInv({})' /\ HandlersInv'
      /\ OwnerSpeaks'
  BY <1>1, ReservationsInductive, TypesInductive, CancelsInductive, HandlersInductive
  DEF OwnedInv
<1>3. ASSUME StandsStill
      PROVE  AgreementInv'
  <2>1. txs' = txs /\ chan' = chan
    BY <1>3 DEF StandsStill, storeVars, linkVars
  <2>2. RecordsBacked'
    BY <1>1, <2>1 DEF AgreementInv, RecordsBacked, Owned, Backs, OnRecord, Reserved
  <2>3. NoticesBacked'
    BY <1>1, <2>1 DEF AgreementInv, NoticesBacked, Backs, OnRecord, Reserved
  <2>4. ConfirmsFirst'
    BY <1>1, <2>1 DEF AgreementInv, ConfirmsFirst
  <2>5. QED
    BY <2>2, <2>3, <2>4 DEF AgreementInv
<1>4. ASSUME NEW k \in Conn, Serve(k) \/ Customer(k)
      PROVE  AgreementInv'
  <2>1. ASSUME NEW p \in Product, NEW q \in Qty, OnOrder(k, p, q)
        PROVE  AgreementInv'
    BY <1>1, <1>2, <2>1, OnOrderAgrees
  <2>2. ASSUME NEW p \in Product, NEW q \in Qty, OrderRefused(k, p, q)
        PROVE  StandsStill
    BY <2>2, DownStandsStill DEF OrderRefused
  <2>3. QED
    BY <1>1, <1>2, <1>3, <1>4, <2>1, <2>2, TaskAgrees DEF Customer, ServedInv
<1>5. ASSUME NEW n \in Node, Operator(n) \/ Snapshot(n) \/ Broadcast(n)
      PROVE  AgreementInv'
  BY <1>1, <1>2, <1>5, UpdaterAgrees
<1>6. ASSUME NEW m \in Node, NEW n \in Node,
             Receive(m, n) \/ Coalesced(m, n) \/ LinkLost(n, m)
      PROVE  AgreementInv'
  BY <1>1, <1>2, <1>6, ReceiveAgrees
<1>7. AgreementInv'
  BY <1>3, <1>4, <1>5, <1>6, DownStandsStill DEF Next, Updater, Lose
<1>8. QED
  BY <1>2, <1>7 DEF ServedInv

-----------------------------------------------------------------------------
\* A store is asked once about a purchase, while its owner waits, and refuses
\* only what it does not have on record.

AsksFor(x, id) == x.type = "Ask" /\ x.id = id

Answers(x, id) == x.type = "Response" /\ x.id = id

\* What is so while x is on its way from m to n.
Asked(m, n, x) ==
  /\ txs[m][x.id].state = "AwaitingConfirmation"
  /\ x.share = txs[m][x.id].involved_stock[n]
  /\ x.id \notin DOMAIN txs[n]
  /\ \A y \in Range(chan[n][m]) : ~Answers(y, x.id)

AsksPending ==
  \A m, n \in Node : \A i \in DOMAIN chan[m][n] : chan[m][n][i].type = "Ask" =>
    /\ Asked(m, n, chan[m][n][i])
    /\ \A j \in DOMAIN chan[m][n] : AsksFor(chan[m][n][j], chan[m][n][i].id) => j = i

AnswersPending ==
  \A m, n \in Node : \A x \in Range(chan[n][m]) : x.type = "Response" =>
    Owned(m, x.id) /\ (~x.ok => x.id \notin DOMAIN txs[n])

\* A task has still to ask who was never asked, waits for one answer at most,
\* and took no refusal from a store that has the purchase on record.
AskTask(k) ==
  /\ pc[k] = "idle" => ~refused[k]
  /\ pc[k] \in Working =>
       /\ \A n \in todo[k] :
            /\ request[k] \notin DOMAIN txs[n]
            /\ \A x \in Range(chan[n][home[k]]) : ~Answers(x, request[k])
       /\ \A n \in Node \ {peer[k]} : \A x \in Range(chan[home[k]][n]) :
            ~AsksFor(x, request[k])
       /\ pc[k] = "waiting" => peer[k] \in Targets(k) \ todo[k]
       /\ refused[k] =>
            \E n \in Targets(k) \ (todo[k] \cup {peer[k]}) : request[k] \notin DOMAIN txs[n]

AsksInv == AsksPending /\ AnswersPending /\ \A k \in Conn : AskTask(k)

\* No purchase stops being planned while a store is being asked about it.
AskedWait ==
  \A m, n \in Node : \A x \in Range(chan[m][n]) : x.type = "Ask" =>
    txs'[m][x.id].state = "AwaitingConfirmation"

\* Who was asked, or refused, and is still to be heard has nothing on record.
StillUnrecorded ==
  \A m, n \in Node : \A x \in Range(chan[m][n]) :
    /\ x.type = "Ask" /\ x \in Range(chan'[m][n]) => x.id \notin DOMAIN txs'[n]
    /\ x.type = "Response" /\ ~x.ok => x.id \notin DOMAIN txs'[m]

\* What r may ask of the stores of S or answer to them.
MayAsk(r, S, msg) ==
  \A b \in S :
    /\ msg.type = "Ask" =>
         /\ Owned(r, msg.id)
         /\ txs'[r][msg.id].state = "AwaitingConfirmation"
         /\ msg.share = txs[r][msg.id].involved_stock[b]
         /\ msg.id \notin DOMAIN txs'[b]
         /\ \A x \in Range(chan[r][b]) : ~AsksFor(x, msg.id)
         /\ \A y \in Range(chan'[b][r]) : ~Answers(y, msg.id)
    /\ msg.type = "Response" =>
         /\ Owned(b, msg.id)
         /\ ~msg.ok => msg.id \notin DOMAIN txs'[r]
         /\ \A x \in Range(chan'[b][r]) : ~AsksFor(x, msg.id)

LEMMA AsksPendingKept ==
  ASSUME TypeInv, OwnerSpeaks, TypeInv', OwnedKept, AsksPending, AskedWait, StillUnrecorded,
         NEW r \in Node, NEW S, NEW msg, Moved(r, S, msg), MayAsk(r, S, msg)
  PROVE  AsksPending'
<1> SUFFICES ASSUME NEW m \in Node, NEW n \in Node, NEW i \in DOMAIN chan'[m][n],
                    chan'[m][n][i].type = "Ask"
             PROVE  /\ Asked(m, n, chan[m][n][i])'
                    /\ \A j \in DOMAIN chan'[m][n] :
                         AsksFor(chan'[m][n][j], chan'[m][n][i].id) => j = i
  BY DEF AsksPending
<1>1. PICK x : x = chan'[m][n][i]
  OBVIOUS
<1>2. PICK d \in Nat : \A j \in DOMAIN chan'[m][n] :
        /\ j \in Nat
        /\ \/ j + d \in DOMAIN chan[m][n] /\ chan'[m][n][j] = chan[m][n][j + d]
           \/ /\ m = r /\ n \in S /\ chan'[m][n][j] = msg
              /\ \A l \in DOMAIN chan'[m][n] : l <= j
  BY MovedFrom DEF TypeInv
<1>3. x \in Range(chan'[m][n]) /\ x.type = "Ask"
  BY <1>1 DEF Range
<1>4. \A y \in Range(chan'[n][m]) : y \in Range(chan[n][m]) \/ (n = r /\ m \in S /\ y = msg)
  BY MovedFrom DEF TypeInv, Range
<1>5. x.id \in TxId /\ Owned(m, x.id)'
  <2>1. Owned(m, x.id)
    <3>1. CASE x \in Range(chan[m][n])
      BY <1>3, <3>1 DEF OwnerSpeaks
    <3>2. CASE m = r /\ n \in S /\ x = msg
      BY <1>3, <3>2 DEF MayAsk
    <3>3. QED
      BY <1>1, <1>2, <3>1, <3>2 DEF Range
  <2>2. x.id \in TxId
    BY <2>1 DEF Owned, TypeInv, StoreInv, TypesOfRecords
  <2>3. QED
    BY <2>1, <2>2 DEF Owned, OwnedKept, PlanKept
<1>6. ASSUME Owned(m, x.id)
      PROVE  txs'[m][x.id].involved_stock = txs[m][x.id].involved_stock
  BY <1>5, <1>6 DEF OwnedKept, PlanKept
<1>7. CASE i + d \in DOMAIN chan[m][n] /\ x = chan[m][n][i + d]
  <2>1. x \in Range(chan[m][n]) /\ Asked(m, n, x) /\ Owned(m, x.id)
    BY <1>3, <1>7 DEF AsksPending, Range, OwnerSpeaks
  <2>2. \A j \in DOMAIN chan[m][n] : AsksFor(chan[m][n][j], x.id) => j = i + d
    BY <1>3, <1>7 DEF AsksPending
  <2>3. txs'[m][x.id].state = "AwaitingConfirmation" /\ x.id \notin DOMAIN txs'[n]
    BY <1>3, <2>1 DEF AskedWait, StillUnrecorded
  <2>4. \A y \in Range(chan'[n][m]) : ~Answers(y, x.id)
    BY <1>3, <1>4, <2>1 DEF Asked, MayAsk, AsksFor, Answers
  <2>5. ASSUME NEW j \in DOMAIN chan'[m][n], AsksFor(chan'[m][n][j], x.id)
        PROVE  j = i
    <3>1. j + d \in DOMAIN chan[m][n] /\ chan'[m][n][j] = chan[m][n][j + d]
      BY <1>2, <1>3, <2>1, <2>5 DEF MayAsk, AsksFor
    <3>2. j + d = i + d /\ j \in Nat /\ i \in Nat
      BY <1>2, <2>2, <2>5, <3>1
    <3>3. QED
      BY <3>2
  <2>6. Asked(m, n, x)'
    BY <1>6, <2>1, <2>3, <2>4 DEF Asked
  <2>7. QED
    BY <1>1, <2>5, <2>6 DEF Asked
<1>8. CASE m = r /\ n \in S /\ x = msg /\ \A l \in DOMAIN chan'[m][n] : l <= i
  <2>1. /\ Owned(r, x.id)
        /\ txs'[r][x.id].state = "AwaitingConfirmation"
        /\ x.share = txs[r][x.id].involved_stock[n]
        /\ x.id \notin DOMAIN txs'[n]
        /\ \A y \in Range(chan[r][n]) : ~AsksFor(y, x.id)
        /\ \A y \in Range(chan'[n][r]) : ~Answers(y, x.id)
    BY <1>3, <1>8 DEF MayAsk
  <2>2. Asked(m, n, x)'
    BY <1>6, <1>8, <2>1 DEF Asked
  <2>3. ASSUME NEW j \in DOMAIN chan'[m][n], AsksFor(chan'[m][n][j], x.id)
        PROVE  j = i
    <3>1. ~(j + d \in DOMAIN chan[m][n] /\ chan'[m][n][j] = chan[m][n][j + d])
      BY <1>8, <2>1, <2>3 DEF Range
    <3>2. j \in Nat /\ i \in Nat /\ i <= j
      BY <1>2, <3>1
    <3>3. j <= i
      BY <1>8
    <3>4. QED
      BY <3>2, <3>3
  <2>4. QED
    BY <1>1, <2>2, <2>3 DEF Asked
<1>9. QED
  BY <1>1, <1>2, <1>7, <1>8

LEMMA AnswersPendingKept ==
  ASSUME TypeInv, TypeInv', OwnedKept, AnswersPending, StillUnrecorded,
         NEW r \in Node, NEW S, NEW msg, Moved(r, S, msg), MayAsk(r, S, msg)
  PROVE  AnswersPending'
<1> SUFFICES ASSUME NEW m \in Node, NEW n \in Node, NEW x \in Range(chan'[n][m]),
                    x.type = "Response"
             PROVE  Owned(m, x.id)' /\ (~x.ok => x.id \notin DOMAIN txs'[n])
  BY DEF AnswersPending
<1>1. x \in Range(chan[n][m]) \/ (n = r /\ m \in S /\ x = msg)
  BY MovedFrom DEF TypeInv, Range
<1>2. Owned(m, x.id) /\ (~x.ok => x.id \notin DOMAIN txs'[n])
  BY <1>1 DEF AnswersPending, StillUnrecorded, MayAsk
<1>3. x.id \in TxId
  BY <1>2 DEF Owned, TypeInv, StoreInv, TypesOfRecords
<1>4. QED
  BY <1>2, <1>3 DEF OwnedKept, PlanKept

\* The purchase of k's task, and the stores it has still to hear of, are left
\* alone.
Undisturbed(k) ==
  pc[k] \in Working =>
    /\ \A n \in Node \ {peer[k]} : request[k] \in DOMAIN txs'[n] => request[k] \in DOMAIN txs[n]
    /\ \A n \in Node \ {peer[k]} : \A x \in Range(chan'[home[k]][n]) :
         AsksFor(x, request[k]) => x \in Range(chan[home[k]][n])
    /\ \A n \in todo[k] : \A x \in Range(chan'[n][home[k]]) :
         Answers(x, request[k]) => x \in Range(chan[n][home[k]])

\* The task of k does not move, or ends, or leaves the asking behind.
StaysOrLeaves(k) ==
  /\ pc'[k] = "idle" => ~refused'[k]
  /\ pc'[k] \in Working =>
       /\ pc[k] \in Working
       /\ pc[k] = "waiting" <=> pc'[k] = "waiting"
       /\ request'[k] = request[k] /\ todo'[k] = todo[k] /\ peer'[k] = peer[k]
       /\ refused'[k] = refused[k]

LEMMA PlanIsKept ==
  ASSUME TypeInv, OwnedKept, NEW k \in Conn, pc[k] # "idle", request'[k] = request[k]
  PROVE  Targets(k)' = Targets(k)
<1>1. home[k] \in Node /\ request[k] \in TxId /\ Owned(home[k], request[k])
  BY AtWork
<1>2. txs'[home[k]][request[k]].involved_stock = txs[home[k]][request[k]].involved_stock
  BY <1>1 DEF OwnedKept, PlanKept
<1>3. QED
  BY <1>2 DEF Targets, Plan

LEMMA AskTaskKept ==
  ASSUME TypeInv, OwnedKept, NEW k \in Conn, AskTask(k), Undisturbed(k), StaysOrLeaves(k)
  PROVE  AskTask(k)'
<1> SUFFICES ASSUME pc'[k] \in Working
             PROVE  AskTask(k)'
  BY DEF AskTask, StaysOrLeaves
<1>1. /\ pc[k] \in Working /\ pc[k] # "idle" /\ pc'[k] # "idle"
      /\ pc[k] = "waiting" <=> pc'[k] = "waiting"
      /\ request'[k] = request[k] /\ todo'[k] = todo[k] /\ peer'[k] = peer[k]
      /\ refused'[k] = refused[k]
  BY DEF StaysOrLeaves, Working
<1>2. Targets(k)' = Targets(k) /\ Targets(k) \subseteq Node
  BY <1>1, PlanIsKept, AtWork
<1>3. todo[k] \subseteq Node \ {peer[k]}
  <2>1. todo[k] \subseteq Node /\ (peer[k] # None => pc[k] = "waiting")
    BY DEF TypeInv, TasksInv
  <2>2. QED
    BY <1>1, <2>1, NoneAssumption DEF AskTask
<1>4. ASSUME NEW n \in todo'[k]
      PROVE  /\ request'[k] \notin DOMAIN txs'[n]
             /\ \A x \in Range(chan'[n][home[k]]) : ~Answers(x, request'[k])
  BY <1>1, <1>3, <1>4 DEF Undisturbed, AskTask
<1>5. ASSUME NEW n \in Node \ {peer'[k]}, NEW x \in Range(chan'[home[k]][n])
      PROVE  ~AsksFor(x, request'[k])
  BY <1>1, <1>5 DEF Undisturbed, AskTask
<1>6. pc'[k] = "waiting" => peer'[k] \in Targets(k)' \ todo'[k]
  BY <1>1, <1>2 DEF AskTask
<1>7. refused'[k] =>
        \E n \in Targets(k)' \ (todo'[k] \cup {peer'[k]}) : request'[k] \notin DOMAIN txs'[n]
  BY <1>1, <1>2 DEF Undisturbed, AskTask
<1>8. QED
  BY <1>1, <1>4, <1>5, <1>6, <1>7 DEF AskTask

LEMMA AsksKept ==
  ASSUME TypeInv, OwnerSpeaks, TypeInv', OwnedKept, AsksInv, AskedWait, StillUnrecorded,
         NEW r \in Node, NEW S, NEW msg, Moved(r, S, msg), MayAsk(r, S, msg),
         \A k \in Conn : AskTask(k)'
  PROVE  AsksInv'
  BY AsksPendingKept, AnswersPendingKept DEF AsksInv

\* No store records a purchase that it did not have, unless nobody had it.
NobodyRecords ==
  \A n, m \in Node, id \in TxId :
    Owned(m, id) /\ id \in DOMAIN txs'[n] => id \in DOMAIN txs[n]

LEMMA NobodyUnrecorded ==
  ASSUME TypeInv, OwnerSpeaks, AsksInv, NobodyRecords
  PROVE  StillUnrecorded
<1> SUFFICES ASSUME NEW m \in Node, NEW n \in Node, NEW x \in Range(chan[m][n])
             PROVE  /\ x.type = "Ask" => x.id \notin DOMAIN txs'[n]
                    /\ x.type = "Response" /\ ~x.ok => x.id \notin DOMAIN txs'[m]
  BY DEF StillUnrecorded
<1>1. ASSUME x.type = "Ask"
      PROVE  Owned(m, x.id) /\ x.id \notin DOMAIN txs[n]
  BY <1>1 DEF AsksInv, AsksPending, Asked, Range, OwnerSpeaks
<1>2. ASSUME x.type = "Response", ~x.ok
      PROVE  Owned(n, x.id) /\ x.id \notin DOMAIN txs[m]
  BY <1>2 DEF AsksInv, AnswersPending
<1>3. \A a \in Node : Owned(a, x.id) => x.id \in TxId
  BY DEF Owned, TypeInv, StoreInv, TypesOfRecords
<1>4. QED
  BY <1>1, <1>2, <1>3 DEF NobodyRecords

\* What is not an Ask or an answer may always be sent.
Idles(msg) == msg.type \notin {"Ask", "Response"}

LEMMA IdleMayAsk ==
  /\ \A r, msg : MayAsk(r, {}, msg)
  /\ \A r, S, msg : Idles(msg) => MayAsk(r, S, msg)
  BY DEF MayAsk, Idles

LEMMA IdleUndisturbed ==
  ASSUME TypeInv, TypeInv', NobodyRecords, NEW r \in Node, NEW S, NEW msg,
         Moved(r, S, msg), S = {} \/ Idles(msg)
  PROVE  \A k \in Conn : Undisturbed(k)
<1> SUFFICES ASSUME NEW k \in Conn, pc[k] \in Working
             PROVE  Undisturbed(k)
  BY DEF Undisturbed
<1>1. home[k] \in Node /\ request[k] \in TxId /\ Owned(home[k], request[k])
  BY AtWork DEF Working
<1>2. \A a, b \in Node : \A x \in Range(chan'[a][b]) :
        x.type \in {"Ask", "Response"} => x \in Range(chan[a][b])
  BY MovedFrom DEF TypeInv, Range, Idles
<1>3. todo[k] \subseteq Node
  BY DEF TypeInv, TasksInv
<1>4. QED
  BY <1>1, <1>2, <1>3 DEF Undisturbed, NobodyRecords, AsksFor, Answers

\* Where nobody asks, answers or records.
LEMMA IdleAsks ==
  ASSUME TypeInv, OwnerSpeaks, TypeInv', OwnedKept, AsksInv, AskedWait, NobodyRecords,
         NEW r \in Node, NEW S, NEW msg, Moved(r, S, msg), S = {} \/ Idles(msg),
         \A k \in Conn : StaysOrLeaves(k)
  PROVE  AsksInv'
<1>1. StillUnrecorded
  BY NobodyUnrecorded
<1>2. MayAsk(r, S, msg)
  BY IdleMayAsk
<1>3. \A k \in Conn : AskTask(k)'
  <2> SUFFICES ASSUME NEW k \in Conn
               PROVE  AskTask(k)'
    OBVIOUS
  <2>1. Undisturbed(k)
    BY IdleUndisturbed
  <2>2. QED
    BY <2>1, AskTaskKept DEF AsksInv
<1>4. QED
  BY <1>1, <1>2, <1>3, AsksKept

\* Where no record of a purchase that somebody has planned comes or goes.
LEMMA QuietAsks ==
  ASSUME TypeInv, OwnerSpeaks, TypeInv', AsksInv, txs' = txs,
         NEW r \in Node, NEW S, NEW msg, Moved(r, S, msg), S = {} \/ Idles(msg),
         \A k \in Conn : StaysOrLeaves(k)
  PROVE  AsksInv'
<1>1. OwnedKept /\ NobodyRecords
  BY UnchangedKeeps DEF OwnedKept, PlansKept, NobodyRecords
<1>2. AskedWait
  BY DEF AskedWait, AsksInv, AsksPending, Asked, Range
<1>3. QED
  BY <1>1, <1>2, IdleAsks

LEMMA OthersStay ==
  ASSUME TypeInv, AsksInv, NEW k \in Conn, OnlyTask(k)
  PROVE  \A j \in Conn \ {k} : StaysOrLeaves(j)
  BY DEF OnlyTask, StaysOrLeaves, AsksInv, AskTask

LEMMA AllStay ==
  ASSUME TypeInv, AsksInv, UNCHANGED connVars
  PROVE  \A j \in Conn : StaysOrLeaves(j)
  BY DEF connVars, StaysOrLeaves, AsksInv, AskTask

LEMMA RestLeaves ==
  ASSUME TypeInv, AsksInv, NEW k \in Conn, Rest(k), told' \in [Conn -> SUBSET TxId],
         \A j \in Conn \ {k} : told'[j] = told[j]
  PROVE  \A j \in Conn : StaysOrLeaves(j)
<1>1. OnlyTask(k) /\ pc'[k] = "idle"
  BY Rested DEF TypeInv
<1>2. StaysOrLeaves(k)
  BY <1>1 DEF Rest, StaysOrLeaves, Working, TypeInv, TasksInv
<1>3. QED
  BY <1>1, <1>2, OthersStay

LEMMA CloseLeaves ==
  ASSUME TypeInv, AsksInv, NEW k \in Conn, Close(k)
  PROVE  \A j \in Conn : StaysOrLeaves(j)
<1>1. told' \in [Conn -> SUBSET TxId] /\ \A j \in Conn \ {k} : told'[j] = told[j]
  BY DEF Close, TypeInv, TasksInv
<1>2. QED
  BY <1>1, RestLeaves DEF Close

\* A purchase that nobody has met is planned.
LEMMA OnOrderAsks ==
  ASSUME TypeInv, OwnerSpeaks, TypeInv', AsksInv, NEW k \in Conn, NEW p \in Product, NEW q \in Qty,
         OnOrder(k, p, q)
  PROVE  AsksInv'
<1>1. PICK id \in TxId :
        /\ Fresh(id) /\ Owned(home[k], id)'
        /\ OnlyRecord(home[k], id) /\ OnlyTask(k)
        /\ pc[k] = "idle" /\ pc'[k] = "planned" /\ request'[k] = id
        /\ refused'[k] = refused[k] /\ peer'[k] = peer[k]
        /\ todo'[k] = DOMAIN txs'[home[k]][id].involved_stock \ {home[k]}
  BY PlannedAt
<1>2. home[k] \in Node /\ chan' = chan /\ LinksInv
  BY HomeAssumption DEF OnOrder, linkVars, TypeInv
<1>3. \A m \in Node : id \notin DOMAIN txs[m] /\ ~Owned(m, id)
  BY <1>1 DEF Fresh, Owned
<1>4. OwnedKept
  <2>1. \A m \in Node, i \in TxId : i # id => PlanKept(m, i)
    BY <1>1 DEF OnlyRecord, PlanKept, Owned
  <2>2. QED
    BY <1>3, <2>1 DEF OwnedKept
<1>5. NobodyRecords
  BY <1>1, <1>3 DEF NobodyRecords, OnlyRecord
<1>6. AskedWait
  <2> SUFFICES ASSUME NEW m \in Node, NEW n \in Node, NEW x \in Range(chan[m][n]), x.type = "Ask"
               PROVE  txs'[m][x.id].state = "AwaitingConfirmation"
    BY DEF AskedWait
  <2>1. txs[m][x.id].state = "AwaitingConfirmation" /\ Owned(m, x.id)
    BY DEF AsksInv, AsksPending, Asked, Range, OwnerSpeaks
  <2>2. x.id # id /\ x.id \in TxId /\ x.id \in DOMAIN txs[m]
    BY <1>3, <2>1 DEF Owned, TypeInv, StoreInv, TypesOfRecords
  <2>3. txs'[m][x.id] = txs[m][x.id]
    BY <1>1, <2>2 DEF OnlyRecord
  <2>4. QED
    BY <2>1, <2>3
<1>7. Moved(home[k], {}, 0)
  BY <1>2, UnmovedChannels
<1>8. StillUnrecorded /\ MayAsk(home[k], {}, 0)
  BY <1>5, NobodyUnrecorded, IdleMayAsk
<1>9. ASSUME NEW j \in Conn \ {k}
      PROVE  AskTask(j)'
  <2>1. StaysOrLeaves(j)
    BY <1>1, OthersStay
  <2>2. Undisturbed(j)
    BY <1>2, <1>5, <1>7, IdleUndisturbed
  <2>3. QED
    BY <1>4, <2>1, <2>2, AskTaskKept DEF AsksInv
<1>10. AskTask(k)'
  <2>1. /\ todo'[k] \subseteq Node \ {home[k]} /\ ~refused'[k]
        /\ pc'[k] # "waiting" /\ pc'[k] # "idle"
    <3>1. todo'[k] \subseteq Node
      BY DEF TypeInv, TasksInv
    <3>2. QED
      BY <1>1, <3>1 DEF AsksInv, AskTask
  <2>2. \A n \in todo'[k] : request'[k] \notin DOMAIN txs'[n]
    BY <1>1, <1>3, <2>1 DEF OnlyRecord
  <2>3. \A n \in Node : \A x \in Range(chan'[n][home[k]]) : ~Answers(x, request'[k])
    BY <1>1, <1>2, <1>3 DEF AsksInv, AnswersPending, Answers
  <2>4. \A n \in Node : \A x \in Range(chan'[home[k]][n]) : ~AsksFor(x, request'[k])
    BY <1>1, <1>2, <1>3 DEF OwnerSpeaks, AsksFor
  <2>5. QED
    BY <2>1, <2>2, <2>3, <2>4 DEF AskTask
<1>11. QED
  BY <1>2, <1>4, <1>6, <1>7, <1>8, <1>9, <1>10, AsksKept

\* The task asks the next store, which it never asked.
LEMMA AskTaskAsks ==
  ASSUME TypeInv, OwnerSpeaks, TypeInv', HandlersInv, AsksInv, NEW k \in Conn, Ask(k)
  PROVE  AsksInv'
<1> DEFINE n == home[k]
           id == request[k]
<1>1. /\ pc[k] = "asking" /\ pc[k] # "idle" /\ pc[k] \in Working /\ txs' = txs /\ LinksInv
      /\ peer[k] = None
  BY DEF Ask, storeVars, TypeInv, TasksInv, Working
<1>2. /\ n \in Node /\ id \in TxId /\ Owned(n, id)
      /\ todo[k] \subseteq Targets(k) /\ Targets(k) \subseteq Node \ {n}
  BY <1>1, AtWork
<1>3. PICK m \in todo[k] :
        /\ chan' = Posted(chan, n, {m}, AskMessage(id, Plan(k)[m]))
        /\ todo' = [todo EXCEPT ![k] = @ \ {m}]
        /\ peer' = [peer EXCEPT ![k] = m]
  BY DEF Ask
<1> DEFINE msg == AskMessage(id, Plan(k)[m])
<1>4. msg.type = "Ask" /\ msg.id = id /\ msg.share = txs[n][id].involved_stock[m]
  BY DEF AskMessage, Plan
<1> HIDE DEF msg
<1>5. m \in Node /\ m # n /\ Moved(n, {m}, msg)
  BY <1>1, <1>2, <1>3, PostMoves DEF msg
<1>6. /\ OnlyTask(k) /\ todo'[k] = todo[k] \ {m} /\ peer'[k] = m /\ pc'[k] = "waiting"
      /\ request'[k] = id /\ refused'[k] = refused[k]
  BY <1>3 DEF Ask, OnlyTask, TypeInv, TasksInv
<1>7. OwnedKept /\ NobodyRecords /\ StillUnrecorded /\ AskedWait
  <2>1. OwnedKept /\ NobodyRecords
    BY <1>1, UnchangedKeeps DEF OwnedKept, PlansKept, NobodyRecords
  <2>2. AskedWait
    BY <1>1 DEF AskedWait, AsksInv, AsksPending, Asked, Range
  <2>3. QED
    BY <2>1, <2>2, NobodyUnrecorded
<1>8. AskTask(k)
  BY DEF AsksInv
<1>9. \A a, b \in Node : \A x \in Range(chan'[a][b]) :
        x \in Range(chan[a][b]) \/ (a = n /\ b = m /\ x = msg)
  BY <1>2, <1>5, MovedFrom DEF TypeInv, Range
<1>10. MayAsk(n, {m}, msg)
  <2>1. txs'[n][id].state = "AwaitingConfirmation" /\ id \notin DOMAIN txs'[m]
    BY <1>1, <1>3, <1>8 DEF AskTask, HandlersInv, Stage
  <2>2. \A x \in Range(chan[n][m]) : ~AsksFor(x, id)
    BY <1>1, <1>5, <1>8, NoneAssumption DEF AskTask
  <2>3. \A y \in Range(chan'[m][n]) : ~Answers(y, id)
    BY <1>1, <1>2, <1>3, <1>5, <1>8, <1>9 DEF AskTask
  <2>4. QED
    BY <1>2, <1>4, <2>1, <2>2, <2>3 DEF MayAsk
<1>11. ASSUME NEW j \in Conn \ {k}
       PROVE  AskTask(j)'
  <2>1. StaysOrLeaves(j)
    BY <1>6, OthersStay
  <2>2. pc[j] \in Working => request[j] # id
    BY <1>1 DEF HandlersInv, Handles, Working
  <2>3. Undisturbed(j)
    <3> SUFFICES ASSUME pc[j] \in Working
                 PROVE  Undisturbed(j)
      BY DEF Undisturbed
    <3>1. home[j] \in Node /\ todo[j] \subseteq Node
      BY HomeAssumption DEF TypeInv, TasksInv
    <3>2. QED
      BY <1>1, <1>4, <1>9, <2>2, <3>1 DEF Undisturbed, AsksFor, Answers
  <2>4. QED
    BY <1>7, <2>1, <2>3, AskTaskKept DEF AsksInv
<1>12. AskTask(k)'
  <2>1. Targets(k)' = Targets(k) /\ m \in Targets(k)
    BY <1>1, <1>2, <1>6, <1>7, PlanIsKept
  <2>2. ASSUME NEW a \in todo[k] \ {m}
        PROVE  id \notin DOMAIN txs[a] /\ \A x \in Range(chan'[a][n]) : ~Answers(x, id)
    BY <1>1, <1>2, <1>4, <1>8, <1>9 DEF AskTask, Answers
  <2>3. ASSUME NEW a \in Node \ {m}, NEW x \in Range(chan'[n][a])
        PROVE  ~AsksFor(x, id)
    <3>1. x \in Range(chan[n][a]) /\ a # None
      BY <1>2, <1>9, <2>3, NoneAssumption
    <3>2. QED
      BY <1>1, <1>8, <3>1 DEF AskTask
  <2>4. refused[k] => \E a \in Targets(k) \ ((todo[k] \ {m}) \cup {m}) : id \notin DOMAIN txs[a]
    BY <1>1, <1>3, <1>8 DEF AskTask
  <2>5. QED
    BY <1>1, <1>6, <2>1, <2>2, <2>3, <2>4 DEF AskTask
<1>13. QED
  BY <1>2, <1>5, <1>7, <1>10, <1>11, <1>12, AsksKept

\* What a store does to a record that is not of its own purchase keeps no
\* other store from waiting.
LEMMA OthersWait ==
  ASSUME TypeInv, OwnerSpeaks, AsksInv, NEW n \in Node, NEW id \in TxId, OnlyRecord(n, id), ~Owned(n, id)
  PROVE  AskedWait
<1> SUFFICES ASSUME NEW a \in Node, NEW b \in Node, NEW x \in Range(chan[a][b]), x.type = "Ask"
             PROVE  txs'[a][x.id].state = "AwaitingConfirmation"
  BY DEF AskedWait
<1>1. txs[a][x.id].state = "AwaitingConfirmation" /\ Owned(a, x.id)
  BY DEF AsksInv, AsksPending, Asked, Range, OwnerSpeaks
<1>2. x.id \in TxId /\ x.id \in DOMAIN txs[a]
  BY <1>1 DEF Owned, TypeInv, StoreInv, TypesOfRecords
<1>3. txs'[a][x.id] = txs[a][x.id]
  BY <1>1, <1>2 DEF OnlyRecord
<1>4. QED
  BY <1>1, <1>3

\* The owner decides once nobody is being asked.
LEMMA OwnerAsks ==
  ASSUME TypeInv, OwnerSpeaks, TypeInv', HandlersInv, AsksInv, NEW k \in Conn,
         OwnerMarks(k), chan' = chan, \A j \in Conn : StaysOrLeaves(j)
  PROVE  AsksInv'
<1>1. PICK id \in Handles(k), s \in {"NodeConfirmed", "Finalized", "Cancelled"} :
        /\ txs' = Marked(home[k], id, s)
        /\ \/ pc[k] = "asking" /\ id = request[k]
           \/ s \in Ended /\ id \in told[k]
  BY DEF OwnerMarks, Ended
<1>2. /\ home[k] \in Node /\ OnlyRecord(home[k], id) /\ PlansKept
      /\ \A a \in Node : DOMAIN txs'[a] = DOMAIN txs[a]
      /\ txs[home[k]][id].state =
           IF id \in told[k] THEN "NodeConfirmed" ELSE "AwaitingConfirmation"
  BY <1>1, MarkOfOwner
<1>3. OwnedKept /\ NobodyRecords
  BY <1>2 DEF OwnedKept, PlansKept, NobodyRecords
<1>4. AskedWait
  <2> SUFFICES ASSUME NEW a \in Node, NEW b \in Node, NEW x \in Range(chan[a][b]), x.type = "Ask"
               PROVE  txs'[a][x.id].state = "AwaitingConfirmation"
    BY DEF AskedWait
  <2>1. txs[a][x.id].state = "AwaitingConfirmation" /\ Owned(a, x.id)
    BY DEF AsksInv, AsksPending, Asked, Range, OwnerSpeaks
  <2>2. x.id \in TxId /\ x.id \in DOMAIN txs[a]
    BY <2>1 DEF Owned, TypeInv, StoreInv, TypesOfRecords
  <2>3. a # home[k] \/ x.id # id
    <3> SUFFICES ASSUME a = home[k], x.id = id
                 PROVE  FALSE
      OBVIOUS
    <3>1. pc[k] = "asking" /\ id = request[k] /\ peer[k] = None
      BY <1>1, <1>2, <2>1 DEF TypeInv, TasksInv
    <3>2. AsksFor(x, request[k]) /\ AskTask(k) /\ b # None
      BY <3>1, NoneAssumption DEF AsksFor, AsksInv
    <3>3. QED
      BY <3>1, <3>2 DEF AskTask, Working
  <2>4. QED
    BY <1>2, <2>1, <2>2, <2>3 DEF OnlyRecord
<1>5. Moved(home[k], {}, 0)
  BY UnmovedChannels DEF TypeInv
<1>6. QED
  BY <1>2, <1>3, <1>4, <1>5, IdleAsks

LEMMA TaskAsks ==
  ASSUME TypeInv, OwnerSpeaks, TypeInv', CancelInv({}), HandlersInv, AsksInv, NEW k \in Conn,
         \/ Serve(k) \/ Hangup(k)
         \/ \E id \in TxId : OnCommit(k, id) \/ OnCancel(k, id) \/ OnCancelPanics(k, id)
  PROVE  AsksInv'
<1>1. home[k] \in Node /\ LinksInv
  BY HomeAssumption DEF TypeInv
<1>2. CASE LeavesOff(k)
  <2>1. Close(k) /\ chan' = chan /\ txs' = txs
    BY <1>2, LeftOff DEF linkVars
  <2>2. Moved(home[k], {}, 0)
    BY <1>1, <2>1, UnmovedChannels
  <2>3. QED
    BY <1>1, <2>1, <2>2, CloseLeaves, QuietAsks
<1>3. CASE Begin(k)
  <2>1. chan' = chan /\ txs' = txs
    BY <1>3 DEF Begin, linkVars, storeVars
  <2>2. Moved(home[k], {}, 0)
    BY <1>1, <2>1, UnmovedChannels
  <2>3. OnlyTask(k) /\ StaysOrLeaves(k)
    BY <1>3 DEF Begin, OnlyTask, StaysOrLeaves, Working, TypeInv, TasksInv
  <2>4. QED
    BY <1>1, <2>1, <2>2, <2>3, OthersStay, QuietAsks
<1>4. CASE Notify(k) \/ NotifyFails(k)
  <2>1. PICK S : chan' = Posted(chan, home[k], S, Notice(pc[k], request[k]))
    BY <1>4 DEF Notify, NotifyFails
  <2> DEFINE msg == Notice(pc[k], request[k])
  <2>2. Idles(msg)
    BY <1>4 DEF Notify, NotifyFails, Notice, Decision, Idles
  <2> HIDE DEF msg
  <2>3. Moved(home[k], S, msg)
    BY <1>1, <2>1, PostMoves DEF msg
  <2>4. \A j \in Conn : StaysOrLeaves(j)
    <3>1. CASE NotifyFails(k)
      BY <3>1, CloseLeaves DEF NotifyFails
    <3>2. CASE Notify(k)
      <4>1. request[k] \in TxId
        BY <3>2, AtWork DEF Notify, Decision
      <4>2. /\ Rest(k) /\ told' \in [Conn -> SUBSET TxId]
            /\ \A j \in Conn \ {k} : told'[j] = told[j]
        BY <3>2, <4>1 DEF Notify, TypeInv, TasksInv
      <4>3. QED
        BY <4>2, RestLeaves
    <3>3. QED
      BY <1>4, <3>1, <3>2
  <2>5. txs' = txs
    BY <1>4 DEF Notify, NotifyFails, storeVars
  <2>6. QED
    BY <1>1, <2>2, <2>3, <2>4, <2>5, QuietAsks
<1>5. CASE Agree(k) \/ Abort(k) \/ \E id \in TxId : OnCommit(k, id) \/ OnCancel(k, id)
  <2>1. OwnerMarks(k) /\ chan' = chan
    BY <1>5, DecisionsMark
  <2>2. OnlyTask(k) /\ StaysOrLeaves(k)
    BY <1>5 DEF Agree, Abort, OnCommit, OnCancel, OnDecision, OnlyTask, StaysOrLeaves, Working,
                TypeInv, TasksInv
  <2>3. QED
    BY <2>1, <2>2, OthersStay, OwnerAsks
<1>6. QED
  BY <1>2, <1>3, <1>4, <1>5, AskTaskAsks DEF Serve, LeavesOff

LEMMA UpdaterAsks ==
  ASSUME TypeInv, OwnerSpeaks, TypeInv', AsksInv, NEW n \in Node,
         Operator(n) \/ Snapshot(n) \/ Broadcast(n)
  PROVE  AsksInv'
<1>1. txs' = txs /\ LinksInv /\ UNCHANGED connVars
  BY DEF Operator, AddStock, LocalRequest, Snapshot, Broadcast, storeVars, TypeInv
<1>2. CASE Operator(n) \/ Snapshot(n)
  <2>1. Moved(n, {}, 0)
    BY <1>1, <1>2, UnmovedChannels DEF Operator, Snapshot, linkVars
  <2>2. QED
    BY <1>1, <2>1, AllStay, QuietAsks
<1>3. CASE Broadcast(n)
  <2>1. PICK s : chan' = Posted(chan, n, linked[n], Announcement(s))
    BY <1>3 DEF Broadcast
  <2> DEFINE msg == Announcement(s)
  <2>2. Idles(msg)
    BY DEF Announcement, Idles
  <2> HIDE DEF msg
  <2>3. Moved(n, linked[n], msg)
    BY <1>1, <2>1, PostMoves DEF msg
  <2>4. QED
    BY <1>1, <2>2, <2>3, AllStay, QuietAsks
<1>4. QED
  BY <1>2, <1>3

LEMMA ReceiveNoticeAsks ==
  ASSUME TypeInv, OwnerSpeaks, TypeInv', CancelInv({}), AsksInv, NEW m \in Node, NEW n \in Node,
         ReceiveNotice(m, n)
  PROVE  AsksInv'
<1> DEFINE id == Head(chan[m][n]).id
<1>1. /\ chan[m][n] # <<>> /\ Head(chan[m][n]).type \in {"Ask"} \cup Decision
      /\ chan' = Rests(m, n) /\ LinksInv /\ StoreInv
  BY DEF ReceiveNotice, Arrives, Decision, TypeInv
<1>2. id \in TxId /\ ~Owned(n, id)
  BY <1>1, AskedIsNotOwner
<1>3. PICK s : txs' = Marked(n, id, s)
  BY <1>1, <1>2, CancelMarks DEF ReceiveNotice, Confirm, Commit
<1>4. OnlyRecord(n, id) /\ PlansKept /\ \A a \in Node : DOMAIN txs'[a] = DOMAIN txs[a]
  BY <1>1, <1>2, <1>3, MarkedAt, MarkedKeeps
<1>5. OwnedKept /\ NobodyRecords /\ AskedWait
  BY <1>2, <1>4, OthersWait DEF OwnedKept, PlansKept, NobodyRecords
<1>6. Moved(n, {}, 0)
  BY <1>1, ReadMoves
<1>7. \A j \in Conn : StaysOrLeaves(j)
  BY AllStay DEF ReceiveNotice
<1>8. QED
  BY <1>5, <1>6, <1>7, IdleAsks

\* An answer wakes the task that waits for it.
LEMMA ReceiveResponseAsks ==
  ASSUME TypeInv, OwnerSpeaks, TypeInv', AsksInv, NEW m \in Node, NEW n \in Node, ReceiveResponse(m, n)
  PROVE  AsksInv'
<1> DEFINE msg == Head(chan[m][n])
           id == msg.id
           woken == Awaiting(m, n, id)
<1>1. /\ chan[m][n] # <<>> /\ msg.type = "Response" /\ LinksInv
      /\ chan' = Rests(m, n) /\ txs' = txs
      /\ request' = request /\ todo' = todo
      /\ \A k \in Conn : /\ pc'[k] = IF k \in woken THEN "asking" ELSE pc[k]
                         /\ peer'[k] = IF k \in woken THEN None ELSE peer[k]
                         /\ refused'[k] <=> refused[k] \/ (k \in woken /\ ~msg.ok)
  BY DEF ReceiveResponse, Arrives, storeVars, TypeInv
<1>2. msg \in Range(chan[m][n]) /\ Fewer(chan')
  BY <1>1, Read
<1>3. Answers(msg, id) /\ Owned(n, id) /\ (~msg.ok => id \notin DOMAIN txs[m])
  BY <1>1, <1>2 DEF Answers, AsksInv, AnswersPending
<1>4. \A k \in woken : home[k] = n /\ pc[k] = "waiting" /\ request[k] = id /\ peer[k] = m
  BY DEF Awaiting
<1> HIDE DEF msg, id, woken
<1>5. Moved(n, {}, 0)
  BY <1>1, ReadMoves
<1>6. OwnedKept /\ NobodyRecords /\ AskedWait
  <2>1. OwnedKept /\ NobodyRecords
    BY <1>1, UnchangedKeeps DEF OwnedKept, PlansKept, NobodyRecords
  <2>2. AskedWait
    BY <1>1 DEF AskedWait, AsksInv, AsksPending, Asked, Range
  <2>3. QED
    BY <2>1, <2>2
<1>7. StillUnrecorded /\ MayAsk(n, {}, 0)
  BY <1>6, NobodyUnrecorded, IdleMayAsk
<1>8. ASSUME NEW k \in Conn
      PROVE  AskTask(k)'
  <2>1. CASE k \notin woken
    <3>1. StaysOrLeaves(k)
      <4>1. refused'[k] \in BOOLEAN /\ refused[k] \in BOOLEAN
        BY DEF TypeInv, TasksInv
      <4>2. pc'[k] = pc[k] /\ peer'[k] = peer[k] /\ refused'[k] = refused[k]
        BY <1>1, <2>1, <4>1
      <4>3. QED
        BY <1>1, <4>2 DEF StaysOrLeaves, AsksInv, AskTask
    <3>2. Undisturbed(k)
      BY <1>5, <1>6, IdleUndisturbed
    <3>3. QED
      BY <1>6, <3>1, <3>2, AskTaskKept DEF AsksInv
  <2>2. CASE k \in woken
    <3>1. /\ home[k] = n /\ pc[k] = "waiting" /\ request[k] = id /\ peer[k] = m
          /\ pc'[k] = "asking" /\ peer'[k] = None /\ request'[k] = id /\ todo'[k] = todo[k]
          /\ refused'[k] => refused[k] \/ ~msg.ok
          /\ pc[k] # "idle" /\ AskTask(k)
      BY <1>1, <1>4, <2>2 DEF AsksInv
    <3>2. Targets(k)' = Targets(k) /\ Targets(k) \subseteq Node /\ todo[k] \subseteq Node
      BY <1>6, <3>1, PlanIsKept, AtWork DEF TypeInv, TasksInv
    <3>3. /\ \A a \in todo[k] : id \notin DOMAIN txs[a]
                                /\ \A x \in Range(chan[a][n]) : ~Answers(x, id)
          /\ \A a \in Node \ {m} : \A x \in Range(chan[n][a]) : ~AsksFor(x, id)
          /\ m \in Targets(k) \ todo[k]
          /\ refused[k] => \E a \in Targets(k) \ (todo[k] \cup {m}) : id \notin DOMAIN txs[a]
      BY <3>1 DEF AskTask, Working
    <3>4. \A x \in Range(chan[n][m]) : ~AsksFor(x, id)
      <4>1. \A x \in Range(chan[n][m]) : x.type = "Ask" => Asked(n, m, x)
        BY DEF AsksInv, AsksPending, Range
      <4>2. QED
        BY <1>2, <1>3, <4>1 DEF Asked, AsksFor
    <3>5. \A a, b \in Node : \A x \in Range(chan'[a][b]) : x \in Range(chan[a][b])
      BY <1>2 DEF Fewer
    <3>6. None \notin Node
      BY NoneAssumption
    <3>7. \A a \in todo'[k] : id \notin DOMAIN txs'[a]
                              /\ \A x \in Range(chan'[a][n]) : ~Answers(x, id)
      BY <1>1, <3>1, <3>2, <3>3, <3>5
    <3>8. \A a \in Node : \A x \in Range(chan'[n][a]) : ~AsksFor(x, id)
      BY <3>3, <3>4, <3>5
    <3>9. refused'[k] => \E a \in Targets(k) \ (todo[k] \cup {None}) : id \notin DOMAIN txs[a]
      BY <1>3, <3>1, <3>2, <3>3, <3>6
    <3>10. QED
      BY <1>1, <3>1, <3>2, <3>7, <3>8, <3>9 DEF AskTask
  <2>3. QED
    BY <2>1, <2>2
<1>9. QED
  BY <1>5, <1>6, <1>7, <1>8, AsksKept

\* A store is asked once about a purchase, by its owner, and its answer is the
\* only one on the way.
LEMMA AskReceived ==
  ASSUME TypeInv, OwnerSpeaks, AsksInv, NEW m \in Node, NEW n \in Node, ReceiveAsk(m, n)
  PROVE  LET msg == Head(chan[m][n])
         IN /\ chan[m][n] # <<>> /\ msg \in Range(chan[m][n]) /\ m # n
            /\ msg.id \in TxId /\ Owned(m, msg.id) /\ ~Owned(n, msg.id)
            /\ AsksFor(msg, msg.id) /\ Asked(m, n, msg)
            /\ \A x \in Range(chan'[m][n]) : ~AsksFor(x, msg.id)
<1> DEFINE msg == Head(chan[m][n])
           id == msg.id
<1>1. /\ chan[m][n] # <<>> /\ msg.type = "Ask" /\ msg.type \in {"Ask"} \cup Decision
      /\ LinksInv
  BY DEF ReceiveAsk, Arrives, TypeInv
<1>2. id \in TxId /\ ~Owned(n, id) /\ msg \in Range(chan[m][n]) /\ m # n
  BY <1>1, AskedIsNotOwner, Read
<1>3. Owned(m, id)
  BY <1>1, <1>2 DEF OwnerSpeaks
<1>4. \A x \in Range(chan[m][n]) : x.type = "Ask" => Asked(m, n, x)
  BY DEF AsksInv, AsksPending, Range
<1>5. PICK ok : chan' = Posted(Rests(m, n), n, {m} \cap linked[n], Response(id, ok))
  BY DEF ReceiveAsk
<1> DEFINE answer == Response(id, ok)
           old == chan[m][n]
<1>6. chan'[m][n] = Tail(old)
  <2> HIDE DEF answer
  <2>1. chan' = Posted(Rests(m, n), n, {m} \cap linked[n], answer)
    BY <1>5 DEF answer
  <2>2. QED
    BY <1>1, <2>1, ReplyMoves
<1>7. ASSUME NEW x \in Range(chan'[m][n]), AsksFor(x, id)
      PROVE  FALSE
  <2>1. PICK i \in DOMAIN Tail(old) : x = Tail(old)[i]
    BY <1>6, <1>7 DEF Range
  <2>2. old \in Seq(Message)
    BY <1>1 DEF LinksInv, Channels
  <2>3. /\ i + 1 \in DOMAIN old /\ x = old[i + 1] /\ i \in 1 .. Len(Tail(old))
        /\ 1 \in DOMAIN old /\ old[1] = msg
    BY <1>1, <2>1, <2>2, TailShifts
  <2>4. old[1].type = "Ask" /\ AsksFor(old[i + 1], old[1].id)
    BY <1>1, <1>7, <2>3
  <2>5. i + 1 = 1
    BY <2>3, <2>4 DEF AsksInv, AsksPending
  <2>6. QED
    BY <2>3, <2>5
<1>8. QED
  BY <1>1, <1>2, <1>3, <1>4, <1>7 DEF AsksFor

LEMMA ReceiveAskAsks ==
  ASSUME TypeInv, OwnerSpeaks, TypeInv', AsksInv, NEW m \in Node, NEW n \in Node, ReceiveAsk(m, n)
  PROVE  AsksInv'
<1> DEFINE msg == Head(chan[m][n])
           id == msg.id
<1>1. /\ chan[m][n] # <<>> /\ msg \in Range(chan[m][n]) /\ m # n
      /\ id \in TxId /\ Owned(m, id) /\ ~Owned(n, id)
      /\ AsksFor(msg, id) /\ Asked(m, n, msg)
      /\ \A x \in Range(chan'[m][n]) : ~AsksFor(x, id)
  BY AskReceived
<1>2. PICK ok \in BOOLEAN :
        /\ IF ok THEN AskAccepted(n, id, msg.share) ELSE AskRefused(n, msg.share)
        /\ chan' = Posted(Rests(m, n), n, {m} \cap linked[n], Response(id, ok))
  BY DEF ReceiveAsk
<1>3. /\ id \notin DOMAIN txs[n] /\ \A y \in Range(chan[n][m]) : ~Answers(y, id)
  BY <1>1 DEF Asked
<1> HIDE DEF id
<1> DEFINE answer == Response(id, ok)
<1>4. answer.type = "Response" /\ answer.id = id /\ answer.ok = ok /\ Moved(n, {m}, answer)
  BY <1>1, <1>2, ReplyMoves DEF Response, TypeInv
<1> HIDE DEF answer
<1>5. \A a \in Node, i \in TxId : i \in DOMAIN txs'[a] =>
        i \in DOMAIN txs[a] \/ (ok /\ a = n /\ i = id)
  <2>1. CASE ok
    BY <1>1, <1>2, <2>1, AcceptedAt DEF OnlyRecord, TypeInv
  <2>2. CASE ~ok
    BY <1>2, <2>2 DEF AskRefused, storeVars
  <2>3. QED
    BY <2>1, <2>2
<1>6. OwnedKept /\ AskedWait
  <2>1. CASE ok
    BY <1>1, <1>2, <2>1, AcceptedAt, AskKeeps, OthersWait DEF TypeInv, OwnedKept, PlansKept
  <2>2. CASE ~ok
    <3>1. txs' = txs
      BY <1>2, <2>2 DEF AskRefused, storeVars
    <3>2. AskedWait
      BY <3>1 DEF AskedWait, AsksInv, AsksPending, Asked, Range
    <3>3. QED
      BY <3>1, <3>2, UnchangedKeeps DEF OwnedKept, PlansKept
  <2>3. QED
    BY <2>1, <2>2
<1>7. \A a \in Node : Owned(a, id) => a = m
  BY <1>1 DEF TypeInv, OneOwner
<1>8. StillUnrecorded
  <2> SUFFICES ASSUME NEW a \in Node, NEW b \in Node, NEW x \in Range(chan[a][b])
               PROVE  /\ x.type = "Ask" /\ x \in Range(chan'[a][b]) => x.id \notin DOMAIN txs'[b]
                      /\ x.type = "Response" /\ ~x.ok => x.id \notin DOMAIN txs'[a]
    BY DEF StillUnrecorded
  <2>1. ASSUME x.type = "Ask", x \in Range(chan'[a][b])
        PROVE  x.id \notin DOMAIN txs'[b]
    <3>1. Owned(a, x.id) /\ x.id \notin DOMAIN txs[b]
      BY <2>1 DEF AsksInv, AsksPending, Asked, Range, OwnerSpeaks
    <3>2. x.id \in TxId
      BY <3>1 DEF Owned, TypeInv, StoreInv, TypesOfRecords
    <3>3. QED
      BY <1>1, <1>5, <1>7, <2>1, <3>1, <3>2 DEF AsksFor
  <2>2. ASSUME x.type = "Response", ~x.ok
        PROVE  x.id \notin DOMAIN txs'[a]
    <3>1. Owned(b, x.id) /\ x.id \notin DOMAIN txs[a]
      BY <2>2 DEF AsksInv, AnswersPending
    <3>2. x.id \in TxId
      BY <3>1 DEF Owned, TypeInv, StoreInv, TypesOfRecords
    <3>3. QED
      BY <1>3, <1>5, <1>7, <2>2, <3>1, <3>2 DEF Answers
  <2>3. QED
    BY <2>1, <2>2
<1>9. MayAsk(n, {m}, answer)
  <2>1. ~answer.ok => answer.id \notin DOMAIN txs'[n]
    BY <1>1, <1>3, <1>4, <1>5
  <2>2. QED
    BY <1>1, <1>4, <2>1 DEF MayAsk
<1>10. ASSUME NEW k \in Conn
       PROVE  AskTask(k)'
  <2>1. StaysOrLeaves(k)
    BY AllStay DEF ReceiveAsk
  <2>2. ASSUME pc[k] \in Working, request[k] = id
        PROVE  home[k] = m /\ peer[k] = n /\ n \notin todo[k]
    <3>1. home[k] \in Node /\ Owned(home[k], id) /\ AskTask(k)
      BY <2>2, AtWork DEF AsksInv, Working
    <3>2. home[k] = m
      BY <1>7, <3>1
    <3>3. peer[k] = n
      BY <1>1, <2>2, <3>1, <3>2 DEF AskTask
    <3>4. pc[k] = "waiting"
      BY <3>3, NoneAssumption DEF TypeInv, TasksInv
    <3>5. QED
      BY <2>2, <3>1, <3>2, <3>3, <3>4 DEF AskTask
  <2>3. Undisturbed(k)
    <3> SUFFICES ASSUME pc[k] \in Working
                 PROVE  Undisturbed(k)
      BY DEF Undisturbed
    <3>1. home[k] \in Node /\ request[k] \in TxId /\ todo[k] \subseteq Node
      BY AtWork DEF Working, TypeInv, TasksInv
    <3>2. \A a, b \in Node : \A x \in Range(chan'[a][b]) :
            x \in Range(chan[a][b]) \/ (a = n /\ b = m /\ x = answer)
      BY <1>4, MovedFrom DEF TypeInv, Range
    <3>3. ASSUME NEW a \in Node \ {peer[k]}, request[k] \in DOMAIN txs'[a]
          PROVE  request[k] \in DOMAIN txs[a]
      BY <1>5, <2>2, <3>1, <3>3
    <3>4. ASSUME NEW a \in Node, NEW x \in Range(chan'[home[k]][a]), AsksFor(x, request[k])
          PROVE  x \in Range(chan[home[k]][a])
      BY <1>4, <3>1, <3>2, <3>4 DEF AsksFor
    <3>5. ASSUME NEW a \in todo[k], NEW x \in Range(chan'[a][home[k]]), Answers(x, request[k])
          PROVE  x \in Range(chan[a][home[k]])
      BY <1>4, <2>2, <3>1, <3>2, <3>5 DEF Answers
    <3>6. QED
      BY <3>3, <3>4, <3>5 DEF Undisturbed
  <2>4. QED
    BY <1>6, <2>1, <2>3, AskTaskKept DEF AsksInv
<1>11. QED
  BY <1>4, <1>6, <1>8, <1>9, <1>10, AsksKept

LEMMA ReceiveAsks ==
  ASSUME TypeInv, OwnerSpeaks, TypeInv', CancelInv({}), AsksInv, NEW m \in Node, NEW n \in Node,
         Receive(m, n) \/ Coalesced(m, n) \/ LinkLost(n, m)
  PROVE  AsksInv'
<1>1. ASSUME Moved(n, {}, 0), txs' = txs, UNCHANGED connVars
      PROVE  AsksInv'
  BY <1>1, AllStay, QuietAsks
<1>2. CASE ReceiveUpdate(m, n)
  <2>1. chan[m][n] # <<>> /\ chan' = Rests(m, n) /\ txs' = txs /\ LinksInv
    BY <1>2 DEF ReceiveUpdate, Update, Arrives, TypeInv
  <2>2. QED
    BY <1>1, <1>2, <2>1, ReadMoves DEF ReceiveUpdate
<1>3. CASE Coalesced(m, n) \/ LinkLost(n, m)
  BY <1>1, <1>3, LossMoves DEF Coalesced, LinkLost, Shutdown, storeVars, TypeInv
<1>4. QED
  BY <1>2, <1>3, ReceiveAskAsks, ReceiveNoticeAsks, ReceiveResponseAsks DEF Receive

\* The protocol's inductive invariant.
ProtocolInv == ServedInv /\ AsksInv

LEMMA InitialProtocol == Init => ProtocolInv
<1>1. Init => AsksInv
  BY DEF Init, AsksInv, AsksPending, AnswersPending, AskTask, Range, Working
<1>2. QED
  BY <1>1, InitialServed DEF ProtocolInv

LEMMA ProtocolInductive == ProtocolInv /\ [Next]_vars => ProtocolInv'
<1> SUFFICES ASSUME ProtocolInv, [Next]_vars PROVE ProtocolInv'
  OBVIOUS
<1>1. /\ ServedInv /\ ReserveInv({}) /\ CancelInv({}) /\ HandlersInv /\ AgreementInv /\ TypeInv
      /\ AsksInv /\ OwnerSpeaks
  BY DEF ProtocolInv, ServedInv, ReserveInv
<1>2. ServedInv' /\ TypeInv'
  BY <1>1, ServedInductive DEF ServedInv, ReserveInv
<1>3. ASSUME StandsStill
      PROVE  AsksInv'
  <2>1. txs' = txs /\ chan' = chan /\ UNCHANGED connVars
    BY <1>3 DEF StandsStill, storeVars, linkVars
  <2>2. AsksPending'
    BY <1>1, <2>1 DEF AsksInv, AsksPending, Asked
  <2>3. AnswersPending'
    BY <1>1, <2>1 DEF AsksInv, AnswersPending, Owned
  <2>4. ASSUME NEW k \in Conn
        PROVE  AskTask(k)'
    BY <1>1, <2>1 DEF AsksInv, AskTask, Targets, Plan, connVars
  <2>5. QED
    BY <2>2, <2>3, <2>4 DEF AsksInv
<1>4. ASSUME NEW k \in Conn, Serve(k) \/ Customer(k)
      PROVE  AsksInv'
  <2>1. ASSUME NEW p \in Product, NEW q \in Qty, OnOrder(k, p, q)
        PROVE  AsksInv'
    BY <1>1, <1>2, <2>1, OnOrderAsks
  <2>2. ASSUME NEW p \in Product, NEW q \in Qty, OrderRefused(k, p, q)
        PROVE  StandsStill
    BY <2>2, DownStandsStill DEF OrderRefused
  <2>3. QED
    BY <1>1, <1>2, <1>3, <1>4, <2>1, <2>2, TaskAsks DEF Customer
<1>5. ASSUME NEW n \in Node, Operator(n) \/ Snapshot(n) \/ Broadcast(n)
      PROVE  AsksInv'
  BY <1>1, <1>2, <1>5, UpdaterAsks
<1>6. ASSUME NEW m \in Node, NEW n \in Node,
             Receive(m, n) \/ Coalesced(m, n) \/ LinkLost(n, m)
      PROVE  AsksInv'
  BY <1>1, <1>2, <1>6, ReceiveAsks
<1>7. AsksInv'
  BY <1>3, <1>4, <1>5, <1>6, DownStandsStill DEF Next, Updater, Lose
<1>8. QED
  BY <1>2, <1>7 DEF ProtocolInv

-----------------------------------------------------------------------------
\* The stores implement the atomic purchase: what they have on record maps to
\* its variables, and each of their steps to one of its steps or to none.

OwnerMap == [id \in TxId |-> OwnerOf(id)]
PartiesMap == [id \in TxId |-> PartiesOf(id)]
RecordMap == [id \in TxId |-> [n \in Node |-> RecordAt(id, n)]]

LEMMA OwnerIs ==
  ASSUME OneOwner, NEW m \in Node, NEW id \in TxId, Owned(m, id)
  PROVE  /\ OwnerOf(id) = m
         /\ PartiesOf(id) = DOMAIN txs[m][id].involved_stock \ {m}
<1>1. Owners(id) = {m}
  BY DEF OneOwner, Owners, Owned
<1>2. QED
  BY <1>1 DEF OwnerOf, PartiesOf

LEMMA Mapped ==
  ASSUME TypeInv, NEW m \in Node, NEW id \in TxId, Owned(m, id)
  PROVE  /\ OwnerMap[id] = m /\ OwnerMap[id] # None
         /\ PartiesMap[id] = DOMAIN txs[m][id].involved_stock \ {m}
         /\ PartiesMap[id] \subseteq Node
         /\ \A n \in Node : RecordMap[id][n] = RecordAt(id, n)
         /\ Atomic!AtOwner(id) = txs[m][id].state
<1>1. OwnerOf(id) = m /\ PartiesOf(id) = DOMAIN txs[m][id].involved_stock \ {m}
  BY OwnerIs DEF TypeInv
<1>2. \A n \in Node : RecordMap[id][n] = RecordAt(id, n)
  BY DEF RecordMap
<1>3. RecordAt(id, m) = txs[m][id].state
  BY DEF RecordAt, Owned
<1>4. DOMAIN txs[m][id].involved_stock \subseteq Node
  BY DEF Owned, TypeInv, StoreInv, TypesOfRecords, IsTransaction, IsPlan
<1>5. Atomic!AtOwner(id) = RecordMap[id][OwnerMap[id]]
  BY DEF Atomic!AtOwner, RecordMap, OwnerMap
<1>6. QED
  BY <1>1, <1>2, <1>3, <1>4, <1>5, NoneAssumption DEF OwnerMap, PartiesMap

LEMMA MapsKept ==
  ASSUME NEW id \in TxId, \A m \in Node : PlanKept(m, id)
  PROVE  OwnerOf(id)' = OwnerOf(id) /\ PartiesOf(id)' = PartiesOf(id)
<1>1. Owners(id)' = Owners(id)
  BY DEF Owners, PlanKept, Owned
<1>2. \A m \in Owners(id) : txs'[m][id].involved_stock = txs[m][id].involved_stock
  BY DEF Owners, PlanKept, Owned
<1>3. PartiesOf(id)' = PartiesOf(id)
  BY <1>1, <1>2 DEF PartiesOf
<1>4. OwnerOf(id)' = OwnerOf(id)
  BY <1>1 DEF OwnerOf
<1>5. QED
  BY <1>3, <1>4

\* A record that changes, of a purchase whose owner stays.
LEMMA RecordChanges ==
  ASSUME PlansKept, NEW n \in Node, NEW id \in TxId, OnlyRecord(n, id)
  PROVE  /\ OwnerMap' = OwnerMap /\ PartiesMap' = PartiesMap
         /\ RecordMap' = [RecordMap EXCEPT ![id][n] = RecordAt(id, n)']
<1>1. OwnerMap' = OwnerMap /\ PartiesMap' = PartiesMap
  BY MapsKept DEF PlansKept, OwnerMap, PartiesMap
<1>2. \A i \in TxId, a \in Node : a # n \/ i # id => RecordAt(i, a)' = RecordAt(i, a)
  BY DEF OnlyRecord, RecordAt
<1>3. RecordMap' = [RecordMap EXCEPT ![id][n] = RecordAt(id, n)']
  BY <1>2 DEF RecordMap
<1>4. QED
  BY <1>1, <1>3

AtomicVars == <<OwnerMap, PartiesMap, RecordMap>>

\* A step of the stores is a step of the atomic purchase, or none.
Maps == Atomic!Next \/ AtomicVars' = AtomicVars

LEMMA QuietMaps ==
  ASSUME txs' = txs
  PROVE  Maps
<1>1. \A id \in TxId : OwnerOf(id)' = OwnerOf(id) /\ PartiesOf(id)' = PartiesOf(id)
  BY MapsKept, UnchangedKeeps DEF PlansKept
<1>2. RecordMap' = RecordMap
  BY DEF RecordMap, RecordAt
<1>3. QED
  BY <1>1, <1>2 DEF Maps, AtomicVars, OwnerMap, PartiesMap

LEMMA OnOrderMaps ==
  ASSUME TypeInv, TypeInv', NEW k \in Conn, NEW p \in Product, NEW q \in Qty, OnOrder(k, p, q)
  PROVE  Maps
<1> DEFINE n == home[k]
<1>1. PICK id \in TxId :
        /\ Fresh(id) /\ Owned(n, id)' /\ OnlyRecord(n, id)
        /\ txs'[n][id].state = "AwaitingConfirmation"
  BY PlannedAt
<1>2. n \in Node /\ DOMAIN txs'[n][id].involved_stock \subseteq Node
  BY <1>1, HomeAssumption
  DEF Owned, TypeInv, StoreInv, TypesOfRecords, IsTransaction, IsPlan
<1> DEFINE S == DOMAIN txs'[n][id].involved_stock \ {n}
<1>3. Owners(id) = {} /\ Owners(id)' = {n}
  <2>1. \A m \in Node : id \notin DOMAIN txs[m]
    BY <1>1 DEF Fresh
  <2>2. \A m \in Node \ {n} : id \notin DOMAIN txs'[m]
    BY <1>1, <2>1 DEF OnlyRecord
  <2>3. QED
    BY <1>1, <1>2, <2>1, <2>2 DEF Owners, Owned
<1>4. OwnerOf(id) = None /\ OwnerOf(id)' = n
  BY <1>3 DEF OwnerOf
<1>5. PartiesOf(id)' = S
  BY <1>3 DEF PartiesOf
<1>6. \A i \in TxId \ {id} : OwnerOf(i)' = OwnerOf(i) /\ PartiesOf(i)' = PartiesOf(i)
  <2>1. \A i \in TxId \ {id}, m \in Node : PlanKept(m, i)
    BY <1>1 DEF OnlyRecord, PlanKept, Owned
  <2>2. QED
    BY <2>1, MapsKept
<1>7. RecordAt(id, n)' = "AwaitingConfirmation"
  BY <1>1 DEF RecordAt, Owned
<1>8. \A i \in TxId, a \in Node : a # n \/ i # id => RecordAt(i, a)' = RecordAt(i, a)
  BY <1>1 DEF OnlyRecord, RecordAt
<1>9. S \in SUBSET (Node \ {n})
  BY <1>2
<1> HIDE DEF n, S
<1>10. /\ OwnerMap[id] = None
       /\ OwnerMap' = [OwnerMap EXCEPT ![id] = n]
       /\ PartiesMap' = [PartiesMap EXCEPT ![id] = S]
       /\ RecordMap' = [RecordMap EXCEPT ![id][n] = "AwaitingConfirmation"]
  BY <1>4, <1>5, <1>6, <1>7, <1>8 DEF OwnerMap, PartiesMap, RecordMap
<1>11. Atomic!Begin(id, n, S)
  BY <1>10 DEF Atomic!Begin, Atomic!Set, OwnerMap, PartiesMap, RecordMap
<1>12. QED
  BY <1>2, <1>9, <1>11 DEF Maps, Atomic!Next

LEMMA TakesState ==
  ASSUME NEW n, NEW id, id \in DOMAIN txs'[n]
  PROVE  RecordAt(id, n)' = txs'[n][id].state
  BY DEF RecordAt

\* The owner's decision.
LEMMA OwnerMaps ==
  ASSUME ReserveInv({}), TypeInv', HandlersInv, AgreementInv, AsksInv, NEW k \in Conn,
         OwnerMarks(k)
  PROVE  Maps
<1> DEFINE n == home[k]
<1>1. PICK id \in Handles(k), s \in {"NodeConfirmed", "Finalized", "Cancelled"} :
        /\ txs' = Marked(n, id, s)
        /\ \/ /\ pc[k] = "asking" /\ todo[k] = {} /\ id = request[k]
              /\ \/ s = "NodeConfirmed" /\ ~refused[k]
                 \/ s = "Cancelled" /\ refused[k]
           \/ s \in Ended /\ id \in told[k]
  BY DEF OwnerMarks, Ended
<1>2. TypeInv
  BY DEF ReserveInv
<1>3. /\ n \in Node /\ id \in TxId /\ Owned(n, id) /\ OnlyRecord(n, id) /\ PlansKept
      /\ \A a \in Node : DOMAIN txs'[a] = DOMAIN txs[a]
      /\ id \in DOMAIN txs[n]
      /\ txs[n][id].state = IF id \in told[k] THEN "NodeConfirmed" ELSE "AwaitingConfirmation"
      /\ txs'[n][id].state = s
  BY <1>1, <1>2, MarkOfOwner
<1> DEFINE plan == txs[n][id].involved_stock
<1>4. /\ OwnerMap[id] = n /\ OwnerMap[id] # None
      /\ PartiesMap[id] = DOMAIN plan \ {n} /\ PartiesMap[id] \subseteq Node
      /\ \A m \in Node : RecordMap[id][m] = RecordAt(id, m)
      /\ Atomic!AtOwner(id) = txs[n][id].state
  BY <1>2, <1>3, Mapped
<1>5. RecordAt(id, n)' = s
  BY <1>3, TakesState
<1>6. /\ OwnerMap' = OwnerMap /\ PartiesMap' = PartiesMap
      /\ RecordMap' = [RecordMap EXCEPT ![id][n] = s]
  BY <1>3, <1>5, RecordChanges
<1>7. CASE s \in Ended /\ id \in told[k]
  <2>1. Atomic!Decide(id, s)
    BY <1>3, <1>4, <1>6, <1>7
    DEF Atomic!Decide, Atomic!Set, OwnerMap, PartiesMap, RecordMap
  <2>2. QED
    BY <1>3, <1>7, <2>1 DEF Maps, Atomic!Next, Atomic!Outcome, Ended
<1>8. CASE pc[k] = "asking" /\ todo[k] = {} /\ id = request[k]
           /\ ((s = "NodeConfirmed" /\ ~refused[k]) \/ (s = "Cancelled" /\ refused[k]))
  <2>1. /\ txs[n][id].state = "AwaitingConfirmation" /\ peer[k] = None
        /\ \A m \in Node : m # None
    BY <1>2, <1>8, NoneAssumption DEF HandlersInv, Stage, Working, TypeInv, TasksInv
  <2>2. CASE s = "NodeConfirmed"
    <3>1. \A m \in DOMAIN plan : id \in DOMAIN txs[m]
      <4>1. TaskKnows({}, k)
        BY DEF ReserveInv
      <4>2. DOMAIN plan \subseteq Node
        BY <1>3, <1>4
      <4>3. QED
        BY <1>8, <2>1, <2>2, <4>1, <4>2 DEF TaskKnows, Plan, Reserved
    <3>2. ASSUME NEW m \in PartiesMap[id]
          PROVE  RecordMap[id][m] = "AwaitingConfirmation"
      <4>1. m \in Node /\ m # n /\ id \in DOMAIN txs[m] /\ ~Owned(m, id)
        BY <1>2, <1>3, <1>4, <3>1, <3>2 DEF TypeInv, OneOwner
      <4>2. PICK a \in Node : Owned(a, id) /\ Backs(a, m, id, txs[m][id].state)
        BY <4>1 DEF AgreementInv, RecordsBacked
      <4>3. a = n
        BY <1>2, <1>3, <4>2 DEF TypeInv, OneOwner
      <4>4. txs[m][id].state \in TransactionState
        BY <1>2, <4>1 DEF TypeInv, StoreInv, TypesOfRecords, IsTransaction
      <4>5. txs[m][id].state = "AwaitingConfirmation"
        BY <2>1, <4>2, <4>3, <4>4 DEF Backs, Ended, TransactionState
      <4>6. QED
        BY <1>4, <4>1, <4>5 DEF RecordAt
    <3>3. Atomic!Agree(id)
      BY <1>4, <1>6, <2>1, <2>2, <3>2
      DEF Atomic!Agree, Atomic!Set, OwnerMap, PartiesMap, RecordMap
    <3>4. QED
      BY <1>3, <3>3 DEF Maps, Atomic!Next
  <2>3. CASE s = "Cancelled"
    <3>1. PICK m \in Targets(k) : id \notin DOMAIN txs[m]
      BY <1>8, <2>3 DEF AsksInv, AskTask, Working
    <3>2. m \in PartiesMap[id] /\ m \in Node
      BY <1>4, <1>8 DEF Targets, Plan
    <3>3. RecordMap[id][m] = "Unknown"
      BY <1>4, <3>1, <3>2 DEF RecordAt
    <3>4. Atomic!Abort(id)
      BY <1>4, <1>6, <2>1, <2>3, <3>2, <3>3
      DEF Atomic!Abort, Atomic!Set, OwnerMap, PartiesMap, RecordMap
    <3>5. QED
      BY <1>3, <3>4 DEF Maps, Atomic!Next
  <2>4. QED
    BY <1>8, <2>2, <2>3
<1>9. QED
  BY <1>1, <1>7, <1>8

\* What a store learns of another's purchase, of which it is a party.
LEMMA PartyMaps ==
  ASSUME TypeInv, NEW m \in Node, NEW n \in Node, NEW id \in TxId,
         Owned(m, id), ~Owned(n, id), n \in DOMAIN txs[m][id].involved_stock,
         PlansKept, OnlyRecord(n, id)
  PROVE  /\ OwnerMap' = OwnerMap /\ PartiesMap' = PartiesMap
         /\ RecordMap' = [RecordMap EXCEPT ![id][n] = RecordAt(id, n)']
         /\ n \in PartiesMap[id] /\ RecordMap[id][n] = RecordAt(id, n)
         /\ Atomic!AtOwner(id) = txs[m][id].state
         /\ \A a \in PartiesMap[id] : RecordMap[id][a] = RecordAt(id, a)
<1>1. /\ PartiesMap[id] = DOMAIN txs[m][id].involved_stock \ {m}
      /\ PartiesMap[id] \subseteq Node
      /\ \A a \in Node : RecordMap[id][a] = RecordAt(id, a)
      /\ Atomic!AtOwner(id) = txs[m][id].state
  BY Mapped
<1>2. QED
  BY <1>1, RecordChanges

LEMMA ReceiveAskMaps ==
  ASSUME TypeInv, OwnerSpeaks, AgreementInv, AsksInv, NEW m \in Node, NEW n \in Node,
         ReceiveAsk(m, n)
  PROVE  Maps
<1>0. PICK msg, id : msg = Head(chan[m][n]) /\ id = msg.id
  OBVIOUS
<1>1. /\ msg \in Range(chan[m][n]) /\ id \in TxId /\ Owned(m, id) /\ ~Owned(n, id)
      /\ AsksFor(msg, id) /\ Asked(m, n, msg)
  BY <1>0, AskReceived
<1>2. \/ AskAccepted(n, id, msg.share)
      \/ txs' = txs
  BY <1>0 DEF ReceiveAsk, AskRefused, storeVars
<1>3. /\ txs[m][id].state = "AwaitingConfirmation" /\ id \notin DOMAIN txs[n]
      /\ Backs(m, n, id, "AwaitingConfirmation")
  BY <1>0, <1>1 DEF Asked, AgreementInv, NoticesBacked, AsksFor, Meaning
<1>4. CASE AskAccepted(n, id, msg.share)
  <2>1. PlansKept /\ OnlyRecord(n, id) /\ id \in DOMAIN txs'[n]
        /\ txs'[n][id] = Transaction("AwaitingConfirmation", Empty)
    BY <1>1, <1>4, AcceptedAt, AskKeeps DEF TypeInv
  <2>2. RecordAt(id, n)' = "AwaitingConfirmation" /\ RecordAt(id, n) = "Unknown"
    <3>1. txs'[n][id].state = "AwaitingConfirmation"
      BY <2>1 DEF Transaction
    <3>2. QED
      BY <1>3, <2>1, <3>1 DEF RecordAt
  <2>3. n \in DOMAIN txs[m][id].involved_stock
    BY <1>3 DEF Backs
  <2>4. /\ OwnerMap' = OwnerMap /\ PartiesMap' = PartiesMap
        /\ RecordMap' = [RecordMap EXCEPT ![id][n] = "AwaitingConfirmation"]
        /\ n \in PartiesMap[id] /\ RecordMap[id][n] = "Unknown"
        /\ Atomic!AtOwner(id) = "AwaitingConfirmation"
    BY <1>1, <1>3, <2>1, <2>2, <2>3, PartyMaps
  <2>5. Atomic!Reserve(id, n)
    BY <2>4 DEF Atomic!Reserve, Atomic!Set, OwnerMap, PartiesMap, RecordMap
  <2>6. QED
    BY <1>1, <2>5 DEF Maps, Atomic!Next
<1>5. QED
  BY <1>2, <1>4, QuietMaps

LEMMA ReceiveNoticeMaps ==
  ASSUME ReserveInv({}), OwnerSpeaks, CancelInv({}), AgreementInv, NEW m \in Node, NEW n \in Node,
         ReceiveNotice(m, n)
  PROVE  Maps
<1>0. PICK msg, id, s : msg = Head(chan[m][n]) /\ id = msg.id /\ s = Meaning(msg.type)
  OBVIOUS
<1>1. /\ chan[m][n] # <<>> /\ msg.type \in Decision
      /\ msg.type \in {"Ask"} \cup Decision
      /\ StoreInv /\ chan \in Channels /\ TypeInv
  BY <1>0 DEF ReceiveNotice, Arrives, Decision, TypeInv, LinksInv, ReserveInv
<1>2. id \in TxId /\ ~Owned(n, id) /\ msg \in Range(chan[m][n])
  BY <1>0, <1>1, AskedIsNotOwner, Read
<1>3. Owned(m, id) /\ Backs(m, n, id, s)
  BY <1>0, <1>1, <1>2 DEF OwnerSpeaks, AgreementInv, NoticesBacked
<1>4. txs' = Marked(n, id, s)
  BY <1>0, <1>1, <1>2, CancelMarks DEF ReceiveNotice, Arrives, Confirm, Commit, Meaning
<1>5. s = "NodeConfirmed" \/ s \in Ended
  BY <1>0, <1>1 DEF Meaning, Decision, Ended
<1>6. s = "NodeConfirmed" /\ id \in DOMAIN txs[n] => txs[n][id].state \notin Ended
  <2> DEFINE old == chan[m][n]
  <2>1. old \in Seq(Message)
    BY <1>1 DEF Channels
  <2>2. 1 \in DOMAIN old /\ old[1] = msg
    BY <1>0, <1>1, <2>1
  <2>3. s = "NodeConfirmed" => msg.type = "Confirm"
    BY <1>0, <1>1 DEF Meaning, Decision
  <2>4. QED
    BY <1>0, <2>2, <2>3 DEF AgreementInv, ConfirmsFirst
<1>7. CASE id \notin DOMAIN txs[n]
  BY <1>4, <1>7, QuietMaps DEF Marked
<1>8. CASE id \in DOMAIN txs[n]
  <2>1. /\ OnlyRecord(n, id) /\ PlansKept
        /\ \A a \in Node : DOMAIN txs'[a] = DOMAIN txs[a]
        /\ txs'[n][id] = Transaction(s, txs[n][id].involved_stock)
    BY <1>1, <1>2, <1>4, <1>8, MarkedAt, MarkedKeeps
  <2>2. RecordAt(id, n)' = s /\ RecordAt(id, n) = txs[n][id].state
    <3>1. txs'[n][id].state = s
      BY <2>1 DEF Transaction
    <3>2. QED
      BY <1>8, <2>1, <3>1 DEF RecordAt
  <2>3. n \in DOMAIN txs[m][id].involved_stock
    BY <1>3 DEF Backs
  <2>4. /\ OwnerMap' = OwnerMap /\ PartiesMap' = PartiesMap
        /\ RecordMap' = [RecordMap EXCEPT ![id][n] = s]
        /\ n \in PartiesMap[id] /\ RecordMap[id][n] = txs[n][id].state
        /\ Atomic!AtOwner(id) = txs[m][id].state
        /\ \A a \in PartiesMap[id] : RecordMap[id][a] = RecordAt(id, a)
        /\ PartiesMap[id] = DOMAIN txs[m][id].involved_stock \ {m}
    BY <1>1, <1>2, <1>3, <2>1, <2>2, <2>3, PartyMaps, Mapped
  <2>5. /\ txs[n][id].state \in TransactionState /\ txs[m][id].state \in TransactionState
        /\ \A a \in Node : id \in DOMAIN txs[a] => txs[a][id].state \in TransactionState
    BY <1>1, <1>3, <1>8 DEF Owned, StoreInv, TypesOfRecords, IsTransaction
  <2>6. Backs(m, n, id, txs[n][id].state)
    BY <1>1, <1>2, <1>3, <1>8 DEF AgreementInv, RecordsBacked, TypeInv, OneOwner
  <2>7. CASE txs[n][id].state = s
    <3>1. RecordMap' = RecordMap
      <4>1. RecordMap = [RecordMap EXCEPT ![id][n] = RecordMap[id][n]]
        BY DEF RecordMap
      <4>2. QED
        BY <2>4, <2>7, <4>1
    <3>2. QED
      BY <2>4, <3>1 DEF Maps, AtomicVars
  <2>8. CASE txs[n][id].state # s /\ s = "NodeConfirmed"
    <3>1. txs[n][id].state = "AwaitingConfirmation"
      BY <1>6, <1>8, <2>5, <2>8 DEF TransactionState, Ended
    <3>2. txs[m][id].state \in {"NodeConfirmed"} \cup Ended /\ OnRecord({}, m, id)
      BY <1>3, <2>5, <2>8 DEF Backs, TransactionState, Ended
    <3>3. \A a \in PartiesMap[id] : RecordMap[id][a] # "Unknown"
      <4>1. DOMAIN txs[m][id].involved_stock \subseteq Node
        BY <1>1, <1>3 DEF Owned, StoreInv, TypesOfRecords, IsTransaction, IsPlan
      <4>2. QED
        BY <2>4, <2>5, <3>2, <4>1 DEF OnRecord, Reserved, RecordAt, TransactionState
    <3>4. Atomic!LearnAgreement(id, n)
      BY <2>4, <2>8, <3>1, <3>2, <3>3
      DEF Atomic!LearnAgreement, Atomic!Set, Atomic!Outcome, Ended,
          OwnerMap, PartiesMap, RecordMap
    <3>5. QED
      BY <1>2, <3>4 DEF Maps, Atomic!Next
  <2>9. CASE txs[n][id].state # s /\ s \in Ended
    <3>1. txs[m][id].state = s
      BY <1>3, <2>9 DEF Backs
    <3>2. txs[n][id].state \in {"AwaitingConfirmation", "NodeConfirmed"}
      BY <2>5, <2>6, <2>9, <3>1 DEF Backs, TransactionState, Ended
    <3>3. Atomic!LearnOutcome(id, n)
      BY <2>4, <2>9, <3>1, <3>2
      DEF Atomic!LearnOutcome, Atomic!Set, Atomic!Outcome, Ended,
          OwnerMap, PartiesMap, RecordMap
    <3>4. QED
      BY <1>2, <3>3 DEF Maps, Atomic!Next
  <2>10. QED
    BY <1>5, <2>7, <2>8, <2>9
<1>9. QED
  BY <1>7, <1>8

LEMMA StepMaps == ProtocolInv /\ ProtocolInv' /\ [Next]_vars => Maps
<1> SUFFICES ASSUME ProtocolInv, ProtocolInv', [Next]_vars PROVE Maps
  OBVIOUS
<1>1. /\ ReserveInv({}) /\ CancelInv({}) /\ HandlersInv /\ AgreementInv /\ TypeInv /\ AsksInv
      /\ OwnerSpeaks /\ TypeInv'
  BY DEF ProtocolInv, ServedInv, ReserveInv
<1>2. CASE StandsStill
  BY <1>2, QuietMaps DEF StandsStill, storeVars
<1>3. ASSUME NEW k \in Conn, Serve(k) \/ Customer(k)
      PROVE  Maps
  <2>1. CASE Begin(k) \/ Ask(k) \/ Notify(k) \/ NotifyFails(k) \/ LeavesOff(k)
    BY <2>1, LeftOff, QuietMaps DEF Begin, Ask, Notify, NotifyFails, storeVars
  <2>2. CASE Agree(k) \/ Abort(k) \/ \E id \in TxId : OnCommit(k, id) \/ OnCancel(k, id)
    BY <1>1, <2>2, DecisionsMark, OwnerMaps
  <2>3. ASSUME NEW p \in Product, NEW q \in Qty, OnOrder(k, p, q) \/ OrderRefused(k, p, q)
        PROVE  Maps
    BY <1>1, <2>3, OnOrderMaps, QuietMaps DEF OrderRefused, vars, storeVars
  <2>4. QED
    BY <1>3, <2>1, <2>2, <2>3 DEF Serve, Customer, LeavesOff
<1>4. ASSUME NEW n \in Node, Operator(n) \/ Snapshot(n) \/ Broadcast(n)
      PROVE  Maps
  BY <1>4, QuietMaps DEF Operator, AddStock, LocalRequest, Snapshot, Broadcast, storeVars
<1>5. ASSUME NEW m \in Node, NEW n \in Node,
             Receive(m, n) \/ Coalesced(m, n) \/ LinkLost(n, m)
      PROVE  Maps
  <2>1. CASE ReceiveAsk(m, n) \/ ReceiveNotice(m, n)
    BY <1>1, <2>1, ReceiveAskMaps, ReceiveNoticeMaps
  <2>2. CASE ReceiveUpdate(m, n) \/ ReceiveResponse(m, n) \/ Coalesced(m, n) \/ LinkLost(n, m)
    BY <2>2, QuietMaps
    DEF ReceiveUpdate, Update, ReceiveResponse, Coalesced, LinkLost, Shutdown, storeVars
  <2>3. QED
    BY <1>5, <2>1, <2>2 DEF Receive
<1>6. QED
  BY <1>2, <1>3, <1>4, <1>5, DownStandsStill DEF Next, Updater, Lose

\* Whatever the customers, operators and links do, the stores do no more than
\* the atomic purchase does: a purchase is agreed to only when every store of
\* its plan has set its share aside and aborted only when one has not, it ends
\* once, as its own store says, and no other store is told otherwise.
THEOREM StoresImplementAtomic == Spec => PurchasesAreAtomic
<1>1. Init => Atomic!Init
  <2> SUFFICES ASSUME Init
               PROVE  Atomic!Init
    OBVIOUS
  <2>1. \A n \in Node : DOMAIN txs[n] = {}
    BY DEF Init, StoreInit, Empty
  <2>2. \A id \in TxId : Owners(id) = {}
    BY <2>1 DEF Owners
  <2>3. \A id \in TxId : OwnerOf(id) = None /\ PartiesOf(id) = {}
    BY <2>2 DEF OwnerOf, PartiesOf
  <2>4. \A id \in TxId, n \in Node : RecordAt(id, n) = "Unknown"
    BY <2>1 DEF RecordAt
  <2>5. QED
    BY <2>3, <2>4 DEF Atomic!Init
<1>2. Maps => [Atomic!Next]_(Atomic!vars)
  BY DEF Maps, AtomicVars, Atomic!vars, OwnerMap, PartiesMap, RecordMap
<1>3. ProtocolInv /\ ProtocolInv' /\ [Next]_vars => [Atomic!Next]_(Atomic!vars)
  BY <1>2, StepMaps
<1>4. QED
  BY <1>1, <1>3, InitialProtocol, ProtocolInductive, PTL
  DEF Spec, PurchasesAreAtomic, Atomic!Spec

-----------------------------------------------------------------------------
\* Nothing is sold twice anywhere.  What a purchase took, or is about to take,
\* from a store is that store's share in the plan of its owner: nobody else
\* writes it down.

PlanOf(id) == IF Owners(id) = {} THEN Empty ELSE txs[OwnerOf(id)][id].involved_stock

\* The purchases that n took units for.
Ledger(lost, n) == {id \in TxId : Reserved(lost, n, id)}

Taken(lost, n, p) == [id \in Ledger(lost, n) |-> Units(Share(PlanOf(id), n), p)]

Balanced(lost, n, p) == Units(stock[n], p) + SumFunction(Taken(lost, n, p)) <= supply[n][p]

\* A store is asked for its share of a plan, if the plan is still known.
AsksFit ==
  \A m, n \in Node : \A msg \in Range(chan[m][n]) :
    msg.type = "Ask" => Share(PlanOf(msg.id), n) \in {msg.share, Empty}

TakenInv(lost) ==
  /\ \A n \in Node : IsFiniteSet(Ledger(lost, n))
  /\ \A n \in Node, p \in Product : Balanced(lost, n, p)
  /\ AsksFit

\* A step asks stores for no more.
AsksPlanned ==
  \A m, n \in Node : \A msg \in Range(chan'[m][n]) :
    \/ msg \in Range(chan[m][n])
    \/ msg.type # "Ask"
    \/ msg.id \in TxId /\ Share(PlanOf(msg.id), n) = msg.share

LEMMA PlanOfOwner ==
  ASSUME OneOwner, NEW m \in Node, NEW id \in TxId, Owned(m, id)
  PROVE  PlanOf(id) = txs[m][id].involved_stock
<1>1. m \in Owners(id)
  BY DEF Owners, Owned
<1>2. QED
  BY <1>1, OwnerIs DEF PlanOf

LEMMA PlanOfIsPlan ==
  ASSUME StoreInv, NEW id \in TxId
  PROVE  /\ IsPlan(PlanOf(id))
         /\ \A n \in Node : IsStock(Share(PlanOf(id), n))
         /\ \A n \in Node : \A p : Units(Share(PlanOf(id), n), p) \in Nat
<1>1. ASSUME Owners(id) = {}
      PROVE  IsPlan(PlanOf(id))
  BY <1>1, EmptyIsStock DEF PlanOf
<1>2. ASSUME Owners(id) # {}
      PROVE  IsPlan(PlanOf(id))
  <2>1. OwnerOf(id) \in Node /\ id \in DOMAIN txs[OwnerOf(id)]
    BY <1>2 DEF OwnerOf, Owners
  <2>2. QED
    BY <1>2, <2>1 DEF PlanOf, StoreInv, TypesOfRecords, IsTransaction
<1>3. IsPlan(PlanOf(id))
  BY <1>1, <1>2
<1>4. QED
  BY <1>3, ShareIsStock, UnitsAreNat

LEMMA PlanOfKept ==
  ASSUME NEW id \in TxId, \A m \in Node : PlanKept(m, id)
  PROVE  PlanOf(id)' = PlanOf(id)
<1>1. Owners(id)' = Owners(id) /\ OwnerOf(id)' = OwnerOf(id)
  BY MapsKept DEF Owners, PlanKept, Owned
<1>2. \A m \in Owners(id) : txs'[m][id].involved_stock = txs[m][id].involved_stock
  BY DEF Owners, PlanKept, Owned
<1>3. Owners(id) # {} => OwnerOf(id) \in Owners(id)
  BY DEF OwnerOf
<1>4. QED
  BY <1>1, <1>2, <1>3 DEF PlanOf

LEMMA TakenAreNat ==
  ASSUME StoreInv, NEW lost, NEW n \in Node, NEW p
  PROVE  /\ DOMAIN Taken(lost, n, p) = Ledger(lost, n)
         /\ Nats(Taken(lost, n, p), Ledger(lost, n))
<1>1. \A id \in Ledger(lost, n) : Units(Share(PlanOf(id), n), p) \in Nat
  BY PlanOfIsPlan DEF Ledger
<1>2. QED
  BY <1>1 DEF Taken, Nats

\* The ledger of n stays, its entries do not grow, and its stock grows by no
\* more than its supply.
LEMMA BalanceStays ==
  ASSUME StoreInv, StoreInv', NEW lost, NEW more, NEW n \in Node, NEW p \in Product,
         IsFiniteSet(Ledger(lost, n)), Balanced(lost, n, p),
         Ledger(more, n)' = Ledger(lost, n),
         \A id \in Ledger(lost, n) : Share(PlanOf(id)', n) \in {Share(PlanOf(id), n), Empty},
         Units(stock'[n], p) + supply[n][p] <= Units(stock[n], p) + supply'[n][p]
  PROVE  Balanced(more, n, p)'
<1> DEFINE f == Taken(lost, n, p)
           g == Taken(more, n, p)'
           S == Ledger(lost, n)
<1>1. /\ DOMAIN f = S /\ Nats(f, S)
      /\ DOMAIN g = S /\ Nats(g, S)
  <2>1. DOMAIN g = Ledger(more, n)'
    BY DEF Taken
  <2>2. S \subseteq TxId
    BY DEF Ledger
  <2>3. \A id \in S : Units(Share(PlanOf(id), n), p) \in Nat /\ Units(Empty, p) \in Nat
    BY <2>2, PlanOfIsPlan DEF Units, Empty
  <2>4. \A id \in S : Units(Share(PlanOf(id)', n), p) \in Nat
    BY <2>3
  <2>5. \A id \in S : g[id] = Units(Share(PlanOf(id)', n), p)
    BY DEF Taken
  <2>6. QED
    BY <2>1, <2>4, <2>5, TakenAreNat DEF Nats
<1>2. \A id \in S : g[id] <= f[id]
  <2>1. ASSUME NEW id \in S
        PROVE  g[id] \in {f[id], 0}
    <3>1. f[id] = Units(Share(PlanOf(id), n), p) /\ g[id] = Units(Share(PlanOf(id)', n), p)
      BY DEF Taken
    <3>2. Units(Empty, p) = 0
      BY DEF Units, Empty
    <3>3. QED
      BY <3>1, <3>2
  <2>2. QED
    BY <1>1, <2>1 DEF Nats
<1>3. Units(stock[n], p) + SumFunctionOnSet(f, S) <= supply[n][p]
  BY <1>1 DEF Balanced, SumFunction
<1>4. Balanced(more, n, p)' <=> Units(stock'[n], p) + SumFunctionOnSet(g, S) <= supply'[n][p]
  BY <1>1 DEF Balanced, SumFunction
<1> HIDE DEF f, g, S
<1>5. /\ SumFunctionOnSet(g, S) <= SumFunctionOnSet(f, S)
      /\ SumFunctionOnSet(g, S) \in Nat /\ SumFunctionOnSet(f, S) \in Nat
  <2>1. IsFiniteSet(S)
    BY DEF S
  <2>2. QED
    BY <1>1, <1>2, <2>1, SumMonotonic, SumIsNat
<1>6. /\ Units(stock[n], p) \in Nat /\ Units(stock'[n], p) \in Nat
      /\ supply[n][p] \in Nat /\ supply'[n][p] \in Nat
  BY UnitsAreNat DEF StoreInv, TypesOfUnits
<1>7. QED
  BY <1>3, <1>4, <1>5, <1>6

\* A store records a purchase and takes d from its stock: at least its share.
LEMMA BalanceRecorded ==
  ASSUME StoreInv, StoreInv', NEW lost, NEW n \in Node, NEW p \in Product,
         IsFiniteSet(Ledger(lost, n)), Balanced(lost, n, p),
         NEW id \in TxId, id \notin Ledger(lost, n),
         Ledger(lost, n)' = Ledger(lost, n) \cup {id},
         \A i \in Ledger(lost, n) : PlanOf(i)' = PlanOf(i),
         NEW d, IsStock(d), Covers(stock[n], d), stock'[n] = Take(stock[n], d),
         supply'[n] = supply[n], NEW share, PlanOf(id)' = share, Share(share, n) \in {d, Empty}
  PROVE  Balanced(lost, n, p)'
<1> DEFINE f == Taken(lost, n, p)
           g == Taken(lost, n, p)'
<1>0. Units(d, p) \in Nat /\ Units(Share(share, n), p) \in {Units(d, p), 0}
  BY UnitsAreNat DEF Units, Empty
<1>1. /\ DOMAIN f = Ledger(lost, n) /\ Nats(f, DOMAIN f)
      /\ DOMAIN g = Ledger(lost, n)'
  BY TakenAreNat DEF Taken
<1>2. g[id] \in {Units(d, p), 0} /\ \A i \in Ledger(lost, n) : g[i] = f[i]
  BY <1>0 DEF Taken
<1>3. Units(stock[n], p) + SumFunction(f) <= supply[n][p]
  BY DEF Balanced
<1>4. Balanced(lost, n, p)' <=> Units(stock'[n], p) + SumFunction(g) <= supply'[n][p]
  BY DEF Balanced
<1> HIDE DEF f, g
<1>5. SumFunction(g) = g[id] + SumFunction(f)
  <2>1. g[id] \in Nat
    BY <1>0, <1>2
  <2>2. QED
    BY <1>1, <1>2, <2>1, SumOfInsert
<1>6. IsStock(stock[n]) /\ supply[n] \in [Product -> Nat]
  BY DEF StoreInv, TypesOfUnits
<1>7. Units(stock'[n], p) + Units(d, p) = Units(stock[n], p)
  BY <1>6, UnitsTaken
<1>8. /\ Units(stock'[n], p) \in Nat /\ Units(stock[n], p) \in Nat
      /\ SumFunction(f) \in Nat /\ supply[n][p] \in Nat
  <2>1. IsStock(stock'[n])
    BY DEF StoreInv, TypesOfUnits
  <2>2. SumFunctionOnSet(f, DOMAIN f) \in Nat
    BY <1>1, SumIsNat
  <2>3. QED
    BY <1>6, <2>1, <2>2, UnitsAreNat DEF SumFunction
<1>9. QED
  BY <1>0, <1>2, <1>3, <1>4, <1>5, <1>7, <1>8

LEMMA AsksFitKept ==
  ASSUME TypeInv, AsksFit, AsksPlanned,
         \A m, n \in Node : \A msg \in Range(chan[m][n]) :
           msg.type = "Ask" => PlanOf(msg.id)' = PlanOf(msg.id),
         PlansKept \/ chan' = chan
  PROVE  AsksFit'
<1> SUFFICES ASSUME NEW m \in Node, NEW n \in Node, NEW msg \in Range(chan'[m][n]),
                    msg.type = "Ask"
             PROVE  Share(PlanOf(msg.id)', n) \in {msg.share, Empty}
  BY DEF AsksFit
<1>1. CASE msg \in Range(chan[m][n])
  BY <1>1 DEF AsksFit
<1>2. CASE msg \notin Range(chan[m][n])
  <2>1. msg.id \in TxId /\ Share(PlanOf(msg.id), n) = msg.share /\ PlansKept
    BY <1>2 DEF AsksPlanned
  <2>2. PlanOf(msg.id)' = PlanOf(msg.id)
    BY <2>1, PlanOfKept DEF PlansKept
  <2>3. QED
    BY <2>1, <2>2
<1>3. QED
  BY <1>1, <1>2

\* Plans stay, what is on record stays, and units come and go with the supply.
LEMMA TakenStays ==
  ASSUME TypeInv, TypeInv', NEW lost, TakenInv(lost), PlansKept, UnitsMove, AsksPlanned,
         \A n \in Node : DOMAIN txs'[n] = DOMAIN txs[n]
  PROVE  TakenInv(lost)'
<1>1. \A id \in TxId : PlanOf(id)' = PlanOf(id)
  BY PlanOfKept DEF PlansKept
<1>2. \A n \in Node : Ledger(lost, n)' = Ledger(lost, n) /\ Ledger(lost, n) \subseteq TxId
  BY DEF Ledger, Reserved
<1>3. StoreInv /\ StoreInv' /\ LinksInv
  BY DEF TypeInv
<1>4. ASSUME NEW n \in Node, NEW p \in Product
      PROVE  Balanced(lost, n, p)'
  <2>1. \A id \in Ledger(lost, n) : PlanOf(id)' = PlanOf(id)
    BY <1>1, <1>2
  <2>2. /\ Units(stock[n], p) \in Nat /\ Units(stock'[n], p) \in Nat
        /\ supply[n][p] \in Nat /\ supply'[n][p] \in Nat
    BY <1>3, UnitsAreNat DEF StoreInv, TypesOfUnits
  <2>3. Units(stock'[n], p) + supply[n][p] <= Units(stock[n], p) + supply'[n][p]
    BY <2>2 DEF UnitsMove
  <2>4. QED
    BY <1>2, <1>3, <2>1, <2>3, BalanceStays DEF TakenInv
<1>5. AsksFit'
  <2>1. \A m, n \in Node : \A msg \in Range(chan[m][n]) :
          msg.type = "Ask" => PlanOf(msg.id)' = PlanOf(msg.id)
    BY <1>1, <1>3, IdOfMessage
  <2>2. QED
    BY <2>1, AsksFitKept DEF TakenInv
<1>6. QED
  BY <1>2, <1>4, <1>5 DEF TakenInv

LEMMA QuietTaken ==
  ASSUME TypeInv, TypeInv', NEW lost, TakenInv(lost), AsksPlanned,
         UNCHANGED <<stock, txs, supply>>
  PROVE  TakenInv(lost)'
<1>1. UnitsMove /\ PlansKept
  BY UnchangedKeeps DEF UnitsMove
<1>2. QED
  BY <1>1, TakenStays

\* A cancelled purchase leaves what was taken for it where it is: nowhere.
LEMMA DecisionTaken ==
  ASSUME TypeInv, TypeInv', NEW lost, TakenInv(lost), AsksPlanned,
         NEW n \in Node, NEW id \in TxId, Confirm(n, id) \/ Commit(n, id) \/ Cancel(n, id)
  PROVE  TakenInv(lost)'
<1>1. stock' = stock /\ supply' = supply /\ StoreInv
  BY DEF Confirm, Commit, Cancel, CancelKnown, CancelUnknown, CancelPanics, storeVars, TypeInv
<1>2. txs' = txs \/ \E s : txs' = Marked(n, id, s)
  BY DEF Confirm, Commit, Cancel, CancelKnown, CancelUnknown, CancelPanics, storeVars
<1>3. \A a \in Node : DOMAIN txs'[a] = DOMAIN txs[a]
  BY <1>1, <1>2, MarkedAt
<1>4. PlansKept /\ UnitsMove
  BY <1>1, DecisionsKeep DEF UnitsMove
<1>5. QED
  BY <1>3, <1>4, TakenStays

\* An order draws an id that no store has lost.
DrawsNews(lost) ==
  \A k \in Conn : pc[k] = "idle" /\ pc'[k] = "planned" =>
    \A m \in Node : <<m, request'[k]>> \notin lost

LEMMA OnOrderTaken ==
  ASSUME TypeInv, TypeInv', NEW lost, TakenInv(lost), AsksPlanned, PlansNews, DrawsNews(lost),
         NEW k \in Conn, NEW p \in Product, NEW q \in Qty, OnOrder(k, p, q)
  PROVE  TakenInv(lost)'
<1>0. PICK n \in Node : n = home[k]
  BY HomeAssumption
<1>1. PICK id \in TxId :
        /\ Fresh(id) /\ Request(n, id, p, q) /\ request' = [request EXCEPT ![k] = id]
  BY <1>0 DEF OnOrder
<1>2. PICK plan \in Plans(n, p, q) :
        /\ stock' = [stock EXCEPT ![n] = Take(@, Share(plan, n))]
        /\ txs' = [txs EXCEPT ![n] =
                     Insert(@, id, Transaction("AwaitingConfirmation", plan))]
  BY <1>1 DEF Request
<1>3. /\ q \in Nat /\ StoreInv /\ StoreInv' /\ LinksInv
      /\ supply' = supply /\ OneOwner' /\ chan' = chan
  BY <1>1, QtyAssumption DEF TypeInv, Request, OnOrder, linkVars
<1>4. IsPlan(plan) /\ Covers(stock[n], Share(plan, n)) /\ IsStock(Share(plan, n))
  BY <1>2, <1>3, PlanFacts, ShareIsStock, InvariantImplies
<1>5. /\ Owned(n, id)'
      /\ \A m \in Node, i \in TxId : m # n \/ i # id => PlanKept(m, i)
  BY <1>1, <1>3, RequestPlans
<1>6. /\ stock'[n] = Take(stock[n], Share(plan, n))
      /\ DOMAIN txs'[n] = DOMAIN txs[n] \cup {id}
      /\ txs'[n][id].involved_stock = plan
      /\ \A m \in Node \ {n} : stock'[m] = stock[m] /\ txs'[m] = txs[m]
  <2> DEFINE t == Transaction("AwaitingConfirmation", plan)
  <2>1. t.involved_stock = plan
    BY DEF Transaction
  <2> HIDE DEF t
  <2>2. /\ stock'[n] = Take(stock[n], Share(plan, n)) /\ txs'[n] = Insert(txs[n], id, t)
        /\ \A m \in Node \ {n} : stock'[m] = stock[m] /\ txs'[m] = txs[m]
    BY <1>2, <1>3 DEF StoreInv, TypesOfRecords, TypesOfUnits, t
  <2>3. QED
    BY <2>1, <2>2 DEF Insert
<1>7. PlanOf(id)' = plan
  <2>1. n \in Owners(id)'
    BY <1>5 DEF Owners, Owned
  <2>2. \A m \in Node \ {n} : id \notin DOMAIN txs'[m]
    BY <1>1, <1>6 DEF Fresh
  <2>3. Owners(id)' = {n}
    BY <2>1, <2>2 DEF Owners
  <2>4. OwnerOf(id)' = n
    BY <2>3 DEF OwnerOf
  <2>5. QED
    BY <1>6, <2>3, <2>4 DEF PlanOf
<1>8. \A i \in TxId : i # id => PlanOf(i)' = PlanOf(i)
  BY <1>5, PlanOfKept
<1>9. pc[k] = "idle" /\ pc'[k] = "planned" /\ request'[k] = id
  BY <1>1 DEF OnOrder, TypeInv, TasksInv
<1>10. \A m \in Node : /\ <<m, id>> \notin lost
                       /\ Ledger(lost, m) \subseteq TxId \ {id}
                       /\ Ledger(lost, m)' =
                            IF m = n THEN Ledger(lost, m) \cup {id} ELSE Ledger(lost, m)
  <2>1. \A m \in Node : <<m, id>> \notin lost
    BY <1>9 DEF DrawsNews
  <2>2. QED
    BY <1>1, <1>6, <2>1 DEF Fresh, Ledger, Reserved
<1>11. ASSUME NEW m \in Node, NEW r \in Product
       PROVE  Balanced(lost, m, r)'
  <2>1. \A i \in Ledger(lost, m) : PlanOf(i)' = PlanOf(i)
    BY <1>8, <1>10
  <2>2. IsFiniteSet(Ledger(lost, m)) /\ Balanced(lost, m, r)
    BY DEF TakenInv
  <2>3. CASE m = n
    <3>1. PICK share, d : share = plan /\ d = Share(plan, n)
      OBVIOUS
    <3>2. /\ IsStock(d) /\ Covers(stock[m], d) /\ stock'[m] = Take(stock[m], d)
          /\ PlanOf(id)' = share /\ Share(share, m) \in {d, Empty} /\ supply'[m] = supply[m]
      BY <1>3, <1>4, <1>6, <1>7, <2>3, <3>1
    <3>3. id \notin Ledger(lost, m) /\ Ledger(lost, m)' = Ledger(lost, m) \cup {id}
      BY <1>10, <2>3
    <3>4. QED
      BY <1>3, <2>1, <2>2, <3>2, <3>3, BalanceRecorded
  <2>4. CASE m # n
    <3>1. /\ Ledger(lost, m)' = Ledger(lost, m)
          /\ stock'[m] = stock[m] /\ supply'[m][r] = supply[m][r]
          /\ Units(stock[m], r) \in Nat /\ supply[m][r] \in Nat
      BY <1>3, <1>6, <1>10, <2>4, UnitsAreNat DEF StoreInv, TypesOfUnits
    <3>2. Units(stock'[m], r) + supply[m][r] <= Units(stock[m], r) + supply'[m][r]
      BY <3>1
    <3>3. QED
      BY <1>3, <2>1, <2>2, <3>1, <3>2, BalanceStays
  <2>5. QED
    BY <2>3, <2>4
<1>12. ASSUME NEW m \in Node
       PROVE  IsFiniteSet(Ledger(lost, m)')
  <2>1. IsFiniteSet(Ledger(lost, m)) /\ IsFiniteSet(Ledger(lost, m) \cup {id})
    BY FS_AddElement DEF TakenInv
  <2>2. QED
    BY <1>10, <2>1
<1>13. AsksFit'
  <2>1. ASSUME NEW m \in Node, NEW a \in Node, NEW msg \in Range(chan[m][a]), msg.type = "Ask"
        PROVE  PlanOf(msg.id)' = PlanOf(msg.id)
    <3>1. msg.id # id /\ msg.id \in TxId
      BY <1>3, <1>9, <2>1, IdOfMessage DEF PlansNews, NewsIsNone
    <3>2. QED
      BY <1>8, <3>1
  <2>2. QED
    BY <1>3, <2>1, AsksFitKept DEF TakenInv
<1>14. QED
  BY <1>11, <1>12, <1>13 DEF TakenInv

\* What a store takes on behalf of another is its share of the plan, and is
\* counted once even if it is taken twice.
LEMMA ReceiveAskTaken ==
  ASSUME TypeInv, TypeInv', NEW lost, TakenInv(lost), AsksPlanned,
         NEW m \in Node, NEW n \in Node, ReceiveAsk(m, n)
  PROVE  TakenInv(lost)'
<1>0. PICK msg, id, d : msg = Head(chan[m][n]) /\ id = msg.id /\ d = msg.share
  OBVIOUS
<1>1. /\ msg \in Range(chan[m][n]) /\ msg \in Message /\ msg.type = "Ask"
      /\ id \in TxId /\ ~Owned(n, id) /\ StoreInv /\ StoreInv' /\ LinksInv
  BY <1>0, Read, AskedIsNotOwner DEF ReceiveAsk, Arrives, TypeInv
<1>2. \/ AskAccepted(n, id, d)
      \/ UNCHANGED <<stock, txs, supply>>
  BY <1>0 DEF ReceiveAsk, AskRefused, storeVars
<1>3. Share(PlanOf(id), n) \in {d, Empty}
  BY <1>0, <1>1 DEF TakenInv, AsksFit
<1>4. IsStock(d)
  <2>1. d \in HashMap(Product, Nat)
    BY <1>0, <1>1 DEF Message, Decision
  <2>2. QED
    BY <2>1, MapIsStock
<1>5. CASE AskAccepted(n, id, d)
  <2>1. /\ Covers(stock[n], d) /\ stock'[n] = Take(stock[n], d) /\ supply' = supply
        /\ DOMAIN txs'[n] = DOMAIN txs[n] \cup {id}
        /\ \A a \in Node \ {n} : stock'[a] = stock[a] /\ txs'[a] = txs[a]
    BY <1>1, <1>5 DEF AskAccepted, StoreInv, TypesOfRecords, TypesOfUnits, Insert
  <2>2. PlansKept /\ \A i \in TxId : PlanOf(i)' = PlanOf(i)
    BY <1>1, <1>5, AskKeeps, PlanOfKept DEF PlansKept
  <2>3. \A a \in Node : /\ Ledger(lost, a) \subseteq TxId
                        /\ Ledger(lost, a)' =
                             IF a = n THEN Ledger(lost, a) \cup {id} ELSE Ledger(lost, a)
    BY <1>1, <2>1 DEF Ledger, Reserved
  <2>4. ASSUME NEW a \in Node, NEW r \in Product
        PROVE  Balanced(lost, a, r)'
    <3>1. \A i \in Ledger(lost, a) : PlanOf(i)' = PlanOf(i)
      BY <2>2, <2>3
    <3>2. IsFiniteSet(Ledger(lost, a)) /\ Balanced(lost, a, r)
      BY DEF TakenInv
    <3>3. CASE a = n /\ id \notin Ledger(lost, n)
      <4>1. PICK share : share = PlanOf(id)
        OBVIOUS
      <4>2. PlanOf(id)' = share /\ Share(share, a) \in {d, Empty} /\ id \notin Ledger(lost, a)
        BY <1>1, <1>3, <2>2, <3>3, <4>1
      <4>3. /\ Covers(stock[a], d) /\ stock'[a] = Take(stock[a], d) /\ supply'[a] = supply[a]
            /\ Ledger(lost, a)' = Ledger(lost, a) \cup {id}
        BY <2>1, <2>3, <3>3
      <4>4. QED
        BY <1>1, <1>4, <3>1, <3>2, <4>2, <4>3, BalanceRecorded
    <3>4. CASE ~(a = n /\ id \notin Ledger(lost, n))
      <4>1. Ledger(lost, a)' = Ledger(lost, a)
        BY <2>3, <3>4
      <4>2. Units(stock'[a], r) + supply[a][r] <= Units(stock[a], r) + supply'[a][r]
        <5>1. /\ Units(stock'[a], r) \in Nat /\ Units(stock[a], r) \in Nat
              /\ Units(d, r) \in Nat /\ supply[a][r] \in Nat /\ IsStock(stock[a])
          BY <1>1, <1>4, UnitsAreNat DEF StoreInv, TypesOfUnits
        <5>2. CASE a = n
          <6>1. Covers(stock[a], d) /\ stock'[a] = Take(stock[a], d)
            BY <2>1, <5>2
          <6>2. Units(stock'[a], r) + Units(d, r) = Units(stock[a], r)
            BY <1>4, <5>1, <6>1, UnitsTaken
          <6>3. QED
            BY <2>1, <5>1, <6>2
        <5>3. QED
          BY <2>1, <5>1, <5>2
      <4>3. QED
        BY <1>1, <3>1, <3>2, <4>1, <4>2, BalanceStays
    <3>5. QED
      BY <3>3, <3>4
  <2>5. ASSUME NEW a \in Node
        PROVE  IsFiniteSet(Ledger(lost, a)')
    <3>1. IsFiniteSet(Ledger(lost, a)) /\ IsFiniteSet(Ledger(lost, a) \cup {id})
      BY FS_AddElement DEF TakenInv
    <3>2. QED
      BY <2>3, <3>1
  <2>6. AsksFit'
    <3>1. \A a, b \in Node : \A x \in Range(chan[a][b]) :
            x.type = "Ask" => PlanOf(x.id)' = PlanOf(x.id)
      BY <1>1, <2>2, IdOfMessage
    <3>2. QED
      BY <2>2, <3>1, AsksFitKept DEF TakenInv
  <2>7. QED
    BY <2>4, <2>5, <2>6 DEF TakenInv
<1>6. QED
  BY <1>2, <1>5, QuietTaken

LEMMA InitialTaken == Init => \A lost : lost = {} => TakenInv(lost)
<1> SUFFICES ASSUME Init, NEW lost, lost = {}
             PROVE  TakenInv(lost)
  OBVIOUS
<1>1. \A n \in Node : Ledger(lost, n) = {}
  BY DEF Init, StoreInit, Empty, Ledger, Reserved
<1>2. ASSUME NEW n \in Node, NEW p \in Product
      PROVE  Balanced(lost, n, p)
  <2>1. DOMAIN Taken(lost, n, p) = {}
    BY <1>1 DEF Taken
  <2>2. SumFunction(Taken(lost, n, p)) = 0
    BY <2>1, SumOfNone DEF SumFunction
  <2>3. Units(stock[n], p) = 0 /\ supply[n][p] = 0
    BY DEF Init, StoreInit, Empty, Units
  <2>4. QED
    BY <2>2, <2>3 DEF Balanced
<1>3. AsksFit
  BY DEF Init, AsksFit, Range
<1>4. QED
  BY <1>1, <1>2, <1>3, FS_EmptySet DEF TakenInv

\* Only a task that serves a customer asks, and it asks for the shares of its plan.
LEMMA QuietAsksNothing ==
  ASSUME TypeInv', NEW r \in Node, NEW S, NEW msg, Moved(r, S, msg), S = {} \/ msg.type # "Ask"
  PROVE  AsksPlanned
<1> SUFFICES ASSUME NEW a \in Node, NEW b \in Node, NEW x \in Range(chan'[a][b])
             PROVE  x \in Range(chan[a][b]) \/ x.type # "Ask"
  BY DEF AsksPlanned
<1>1. x \in Range(chan[a][b]) \/ (b \in S /\ x = msg)
  BY MovedFrom DEF TypeInv, Range
<1>2. QED
  BY <1>1

LEMMA TaskAsksPlan ==
  ASSUME TypeInv, TypeInv', NEW k \in Conn, Ask(k)
  PROVE  AsksPlanned
<1>1. pc[k] # "idle" /\ LinksInv /\ OneOwner
  BY DEF Ask, TypeInv
<1>2. /\ home[k] \in Node /\ request[k] \in TxId /\ Owned(home[k], request[k])
      /\ todo[k] \subseteq Targets(k)
  BY <1>1, AtWork
<1>3. PICK m \in todo[k] :
        chan' = Posted(chan, home[k], {m}, AskMessage(request[k], Plan(k)[m]))
  BY DEF Ask
<1>4. PlanOf(request[k]) = Plan(k) /\ m \in DOMAIN Plan(k)
  BY <1>1, <1>2, PlanOfOwner DEF Plan, Targets
<1>5. PICK msg : msg = AskMessage(request[k], Plan(k)[m])
  OBVIOUS
<1>6. /\ msg.id = request[k] /\ msg.share = Plan(k)[m]
      /\ Share(PlanOf(msg.id), m) = msg.share /\ Moved(home[k], {m}, msg)
  <2>1. msg.id = request[k] /\ msg.share = Plan(k)[m]
    BY <1>5 DEF AskMessage
  <2>2. Moved(home[k], {m}, msg)
    BY <1>1, <1>2, <1>3, <1>5, PostMoves
  <2>3. QED
    BY <1>4, <2>1, <2>2 DEF Share
<1> SUFFICES ASSUME NEW a \in Node, NEW b \in Node, NEW x \in Range(chan'[a][b]),
                    x \notin Range(chan[a][b])
             PROVE  x.id \in TxId /\ Share(PlanOf(x.id), b) = x.share
  BY DEF AsksPlanned
<1>7. b = m /\ x = msg
  BY <1>2, <1>6, MovedFrom DEF TypeInv, Range
<1>8. QED
  BY <1>2, <1>6, <1>7

LEMMA StepsAsk ==
  ASSUME TypeInv, TypeInv', Next
  PROVE  AsksPlanned
<1>0. LinksInv /\ \A k \in Conn : home[k] \in Node
  BY HomeAssumption DEF TypeInv
<1>1. ASSUME chan' = chan
      PROVE  AsksPlanned
  BY <1>1 DEF AsksPlanned
<1>2. ASSUME NEW r \in Node, NEW S, NEW msg, chan' = Posted(chan, r, S, msg), msg.type # "Ask"
      PROVE  AsksPlanned
  BY <1>0, <1>2, PostMoves, QuietAsksNothing
<1>3. ASSUME NEW k \in Conn, Serve(k) \/ Customer(k)
      PROVE  AsksPlanned
  <2>1. CASE Notify(k) \/ NotifyFails(k)
    <3>1. PICK S : chan' = Posted(chan, home[k], S, Notice(pc[k], request[k]))
      BY <2>1 DEF Notify, NotifyFails
    <3>2. Notice(pc[k], request[k]).type # "Ask"
      BY <2>1 DEF Notify, NotifyFails, Notice, Decision
    <3>3. QED
      BY <1>0, <1>2, <3>1, <3>2
  <2>2. CASE Begin(k) \/ Agree(k) \/ Abort(k) \/ LeavesOff(k)
    BY <1>1, <2>2, LeftOff DEF Begin, Agree, Abort, linkVars
  <2>3. CASE Customer(k)
    BY <1>1, <2>2, <2>3
    DEF Customer, LeavesOff, OnOrder, OrderRefused, OnCommit, OnCancel, OnDecision, vars, linkVars
  <2>4. QED
    BY <1>3, <2>1, <2>2, <2>3, TaskAsksPlan DEF Serve, LeavesOff
<1>4. ASSUME NEW n \in Node, Operator(n) \/ Snapshot(n) \/ Broadcast(n)
      PROVE  AsksPlanned
  <2>1. CASE Broadcast(n)
    <3>1. PICK s : chan' = Posted(chan, n, linked[n], Announcement(s))
      BY <2>1 DEF Broadcast
    <3>2. Announcement(s).type # "Ask"
      BY DEF Announcement
    <3>3. QED
      BY <1>2, <3>1, <3>2
  <2>2. QED
    BY <1>1, <1>4, <2>1 DEF Operator, Snapshot, linkVars
<1>5. ASSUME NEW m \in Node, NEW n \in Node, Receive(m, n)
      PROVE  AsksPlanned
  <2>1. CASE ReceiveAsk(m, n)
    <3>1. PICK id, ok : chan' = Posted(Rests(m, n), n, {m} \cap linked[n], Response(id, ok))
      BY <2>1 DEF ReceiveAsk
    <3>2. Response(id, ok).type # "Ask" /\ chan[m][n] # <<>>
      BY <2>1 DEF Response, ReceiveAsk, Arrives
    <3>3. Moved(n, {m}, Response(id, ok))
      BY <1>0, <3>1, <3>2, ReplyMoves
    <3>4. QED
      BY <3>2, <3>3, QuietAsksNothing
  <2>2. CASE ReceiveUpdate(m, n) \/ ReceiveNotice(m, n) \/ ReceiveResponse(m, n)
    <3>1. chan' = Rests(m, n) /\ chan[m][n] # <<>>
      BY <2>2 DEF ReceiveUpdate, ReceiveNotice, ReceiveResponse, Arrives
    <3>2. Moved(n, {}, 0)
      BY <1>0, <3>1, ReadMoves
    <3>3. QED
      BY <3>2, QuietAsksNothing
  <2>3. QED
    BY <1>5, <2>1, <2>2 DEF Receive
<1>6. ASSUME NEW m \in Node, NEW n \in Node, Coalesced(m, n) \/ LinkLost(n, m)
      PROVE  AsksPlanned
  <2>1. Moved(n, {}, 0)
    BY <1>0, <1>6, LossMoves
  <2>2. QED
    BY <2>1, QuietAsksNothing
<1>7. CASE StandsStill
  BY <1>1, <1>7 DEF StandsStill, linkVars
<1>8. QED
  BY <1>3, <1>4, <1>5, <1>6, <1>7, DownStandsStill DEF Next, Updater, Lose

LEMMA StepsTake ==
  ASSUME TypeInv, TypeInv', NEW lost, TakenInv(lost), PlansNews, DrawsNews(lost), Next
  PROVE  TakenInv(lost)'
<1>1. AsksPlanned /\ \A k \in Conn : home[k] \in Node
  BY StepsAsk, HomeAssumption
<1>2. ASSUME UNCHANGED <<stock, txs, supply>>
      PROVE  TakenInv(lost)'
  BY <1>1, <1>2, QuietTaken
<1>3. ASSUME NEW n \in Node, NEW id \in TxId,
             Confirm(n, id) \/ Commit(n, id) \/ Cancel(n, id)
      PROVE  TakenInv(lost)'
  BY <1>1, <1>3, DecisionTaken
<1>4. ASSUME NEW k \in Conn, Serve(k) \/ Customer(k)
      PROVE  TakenInv(lost)'
  <2>1. CASE Begin(k) \/ Ask(k) \/ Notify(k) \/ NotifyFails(k) \/ LeavesOff(k)
    BY <1>2, <2>1, LeftOff DEF Begin, Ask, Notify, NotifyFails, storeVars
  <2>2. CASE Agree(k) \/ Abort(k)
    <3>1. pc[k] # "idle"
      BY <2>2 DEF Agree, Abort
    <3>2. request[k] \in TxId
      BY <3>1, AtWork
    <3>3. QED
      BY <1>1, <1>3, <2>2, <3>2 DEF Agree, Abort, Cancel
  <2>3. ASSUME NEW id \in TxId, OnCommit(k, id) \/ OnCancel(k, id)
        PROVE  TakenInv(lost)'
    BY <1>1, <1>3, <2>3 DEF OnCommit, OnCancel, Cancel
  <2>4. ASSUME NEW p \in Product, NEW q \in Qty, OnOrder(k, p, q) \/ OrderRefused(k, p, q)
        PROVE  TakenInv(lost)'
    BY <1>1, <1>2, <2>4, OnOrderTaken DEF OrderRefused, vars, storeVars
  <2>5. QED
    BY <1>4, <2>1, <2>2, <2>3, <2>4 DEF Serve, Customer, LeavesOff
<1>5. ASSUME NEW n \in Node, Operator(n) \/ Snapshot(n) \/ Broadcast(n)
      PROVE  TakenInv(lost)'
  <2>1. CASE Snapshot(n) \/ Broadcast(n)
    BY <1>2, <2>1 DEF Snapshot, Broadcast, storeVars
  <2>2. CASE Operator(n)
    <3>1. txs' = txs
      BY <2>2 DEF Operator, AddStock, LocalRequest
    <3>2. UnitsMove
      BY <2>2, AddStockMoves, LocalRequestMoves DEF Operator, TypeInv
    <3>3. QED
      BY <1>1, <3>1, <3>2, UnchangedKeeps, TakenStays
  <2>3. QED
    BY <1>5, <2>1, <2>2
<1>6. ASSUME NEW m \in Node, NEW n \in Node,
             Receive(m, n) \/ Coalesced(m, n) \/ LinkLost(n, m)
      PROVE  TakenInv(lost)'
  <2>1. CASE ReceiveAsk(m, n)
    BY <1>1, <2>1, ReceiveAskTaken
  <2>2. CASE ReceiveNotice(m, n)
    <3>1. /\ chan[m][n] # <<>> /\ Head(chan[m][n]).type \in Decision
      BY <2>2 DEF ReceiveNotice, Arrives, Decision
    <3>2. Head(chan[m][n]).id \in TxId
      BY <3>1, AskedIsNotOwner
    <3>3. QED
      BY <1>3, <2>2, <3>2 DEF ReceiveNotice
  <2>3. CASE ReceiveUpdate(m, n) \/ ReceiveResponse(m, n) \/ Coalesced(m, n) \/ LinkLost(n, m)
    BY <1>2, <2>3
    DEF ReceiveUpdate, Update, ReceiveResponse, Coalesced, LinkLost, Shutdown, storeVars
  <2>4. QED
    BY <1>6, <2>1, <2>2, <2>3 DEF Receive
<1>7. CASE StandsStill
  BY <1>2, <1>7 DEF StandsStill, storeVars
<1>8. QED
  BY <1>4, <1>5, <1>6, <1>7, DownStandsStill DEF Next, Updater, Lose

\* Where nothing happens.
LEMMA TakenStutters ==
  ASSUME NEW lost, TypeInv, TypeInv', TakenInv(lost), StandsStill
  PROVE  TakenInv(lost)'
<1>1. AsksPlanned
  BY DEF AsksPlanned, StandsStill, linkVars
<1>2. QED
  BY <1>1, QuietTaken DEF StandsStill, storeVars

\* The whole inductive invariant of what is sold.
SoldInv == OwnedInv /\ ReserveInv({}) /\ TakenInv({})

LEMMA SoldInductive == SoldInv /\ [Next]_vars => SoldInv'
<1> SUFFICES ASSUME SoldInv, [Next]_vars PROVE SoldInv'
  OBVIOUS
<1>1. /\ OwnedInv /\ ReserveInv({}) /\ TakenInv({}) /\ TypeInv /\ TypeInv'
      /\ OwnedInv' /\ ReserveInv({})'
  BY TypesInductive, ReservationsInductive DEF SoldInv, OwnedInv
<1>2. CASE Next
  <2>1. PlansNews /\ DrawsNews({})
    BY <1>1, <1>2, FreshIsNews DEF DrawsNews
  <2>2. TakenInv({})'
    BY <1>1, <1>2, <2>1, StepsTake
  <2>3. QED
    BY <1>1, <2>2 DEF SoldInv
<1>3. CASE UNCHANGED vars
  BY <1>1, <1>3, DownStandsStill, TakenStutters DEF SoldInv
<1>4. QED
  BY <1>2, <1>3

\* What a plan takes in all, counted over all stores.
LEMMA PlannedOverNodes ==
  ASSUME NEW t, IsPlan(t.involved_stock), NEW p
  PROVE  UnitsPlanned(t, p) =
           SumFunctionOnSet([m \in Node |-> Units(Share(t.involved_stock, m), p)], Node)
<1> DEFINE plan == t.involved_stock
           D == DOMAIN plan
           f == [m \in D |-> Units(plan[m], p)]
           g == [m \in Node |-> Units(Share(plan, m), p)]
<1>1. D \in SUBSET Node /\ IsFiniteSet(Node) /\ IsFiniteSet(D)
  BY NodeAssumption, FS_Subset DEF IsPlan
<1>2. UnitsPlanned(t, p) = SumFunctionOnSet(f, D)
  BY DEF UnitsPlanned, SumFunction
<1>3. \A m \in Node : g[m] \in Nat
  BY ShareIsStock, UnitsAreNat
<1>4. /\ \A m \in D : f[m] = g[m]
      /\ \A m \in Node \ D : g[m] = 0
  BY <1>1 DEF Share, Units, Empty
<1> HIDE DEF D, f, g
<1>5. Nats(f, D) /\ Nats(g, Node)
  BY <1>1, <1>3, <1>4 DEF Nats
<1>6. SumFunctionOnSet(f, D) = SumFunctionOnSet(g, D)
  BY <1>1, <1>4, <1>5, SumSame
<1>7. SumFunctionOnSet(g, Node) = SumFunctionOnSet(g, D)
  BY <1>1, <1>4, <1>5, SumExtends
<1>8. QED
  BY <1>2, <1>6, <1>7 DEF g

\* Rows that are no longer in the sum of each column are not longer in all.
LEMMA SumsCompared ==
  ASSUME NEW S, IsFiniteSet(S), NEW T, IsFiniteSet(T), NEW f, NEW g,
         \A x \in S : Nats(f[x], T) /\ Nats(g[x], T),
         \A y \in T : SumFunctionOnSet([x \in S |-> f[x][y]], S)
                        <= SumFunctionOnSet([x \in S |-> g[x][y]], S)
  PROVE  SumFunctionOnSet([x \in S |-> SumFunctionOnSet(f[x], T)], S)
           <= SumFunctionOnSet([x \in S |-> SumFunctionOnSet(g[x], T)], S)
<1> DEFINE F == [y \in T |-> SumFunctionOnSet([x \in S |-> f[x][y]], S)]
           G == [y \in T |-> SumFunctionOnSet([x \in S |-> g[x][y]], S)]
<1>1. /\ SumFunctionOnSet([x \in S |-> SumFunctionOnSet(f[x], T)], S) = SumFunctionOnSet(F, T)
      /\ SumFunctionOnSet([x \in S |-> SumFunctionOnSet(g[x], T)], S) = SumFunctionOnSet(G, T)
  BY SumsExchange
<1>2. ASSUME NEW y \in T
      PROVE  F[y] \in Nat /\ G[y] \in Nat
  <2>1. Nats([x \in S |-> f[x][y]], S) /\ Nats([x \in S |-> g[x][y]], S)
    BY DEF Nats
  <2>2. /\ SumFunctionOnSet([x \in S |-> f[x][y]], S) \in Nat
        /\ SumFunctionOnSet([x \in S |-> g[x][y]], S) \in Nat
    BY <2>1, SumIsNat
  <2>3. QED
    BY <2>2
<1>3. \A y \in T : F[y] <= G[y]
  OBVIOUS
<1> HIDE DEF F, G
<1>4. SumFunctionOnSet(F, T) <= SumFunctionOnSet(G, T)
  BY <1>2, <1>3, SumMonotonic DEF Nats
<1>5. QED
  BY <1>1, <1>4

\* What is promised of purchase id at n, and what was taken there for it.
OwedAt(n, id, p) ==
  IF id \in DOMAIN txs[n] /\ txs[n][id].state \in Promised
  THEN UnitsPlanned(txs[n][id], p) ELSE 0

TakenAt(lost, n, id, p) ==
  IF Reserved(lost, n, id) THEN Units(Share(PlanOf(id), n), p) ELSE 0

LEMMA OwedIsTaken ==
  ASSUME NEW lost, TypeInv, PromisesHold(lost), NEW id \in TxId, NEW p
  PROVE  /\ \A n \in Node : OwedAt(n, id, p) \in Nat /\ TakenAt(lost, n, id, p) \in Nat
         /\ SumFunctionOnSet([n \in Node |-> OwedAt(n, id, p)], Node)
              <= SumFunctionOnSet([n \in Node |-> TakenAt(lost, n, id, p)], Node)
<1> DEFINE f == [n \in Node |-> OwedAt(n, id, p)]
           g == [n \in Node |-> TakenAt(lost, n, id, p)]
<1>1. StoreInv /\ OneOwner /\ IsFiniteSet(Node)
  BY NodeAssumption DEF TypeInv
<1>2. \A n \in Node : TakenAt(lost, n, id, p) \in Nat
  BY <1>1, PlanOfIsPlan DEF TakenAt
<1>3. ASSUME NEW n \in Node, ~Owned(n, id)
      PROVE  OwedAt(n, id, p) = 0
  <2>1. CASE id \in DOMAIN txs[n]
    <3>1. PICK t : t = txs[n][id] /\ t.involved_stock = Empty
      BY <1>3, <2>1 DEF Owned
    <3>2. DOMAIN [m \in DOMAIN t.involved_stock |-> Units(t.involved_stock[m], p)] = {}
      BY <3>1 DEF Empty
    <3>3. UnitsPlanned(t, p) = 0
      BY <3>2, SumOfNone DEF UnitsPlanned, SumFunction
    <3>4. QED
      BY <3>1, <3>3 DEF OwedAt
  <2>2. QED
    BY <2>1 DEF OwedAt
<1>4. Nats(g, Node) /\ SumFunctionOnSet(g, Node) \in Nat
  <2>1. Nats(g, Node)
    BY <1>2 DEF Nats
  <2>2. QED
    BY <1>1, <2>1, SumIsNat
<1>5. CASE \A n \in Node : ~Owned(n, id)
  <2>1. \A n \in Node : f[n] = 0 /\ OwedAt(n, id, p) \in Nat
    BY <1>3, <1>5
  <2> HIDE DEF f, g
  <2>2. SumFunctionOnSet(f, Node) = 0
    BY <1>1, <2>1, SumOfZeros
  <2>3. SumFunctionOnSet(f, Node) <= SumFunctionOnSet(g, Node)
    BY <1>4, <2>2
  <2>4. QED
    BY <1>2, <2>1, <2>3 DEF f, g
<1>6. ASSUME NEW m \in Node, Owned(m, id)
      PROVE  /\ \A n \in Node : OwedAt(n, id, p) \in Nat
             /\ SumFunctionOnSet(f, Node) <= SumFunctionOnSet(g, Node)
  <2> DEFINE plan == txs[m][id].involved_stock
             h == [n \in Node |-> Units(Share(plan, n), p)]
  <2>1. id \in DOMAIN txs[m] /\ IsPlan(plan) /\ PlanOf(id) = plan
    BY <1>1, <1>6, PlanOfOwner DEF Owned, StoreInv, TypesOfRecords, IsTransaction
  <2>2. UnitsPlanned(txs[m][id], p) = SumFunctionOnSet(h, Node)
    BY <2>1, PlannedOverNodes
  <2>3. Nats(h, Node) /\ SumFunctionOnSet(h, Node) \in Nat
    <3>1. Nats(h, Node)
      BY <2>1, ShareIsStock, UnitsAreNat DEF Nats
    <3>2. QED
      BY <1>1, <3>1, SumIsNat
  <2>4. \A n \in Node \ {m} : OwedAt(n, id, p) = 0
    BY <1>1, <1>3, <1>6 DEF OneOwner
  <2>5. OwedAt(m, id, p) \in {0, SumFunctionOnSet(h, Node)}
    BY <2>2 DEF OwedAt
  <2>6. \A n \in Node : f[n] = OwedAt(n, id, p)
    OBVIOUS
  <2>7. OwedAt(m, id, p) <= SumFunctionOnSet(g, Node)
    <3>1. CASE txs[m][id].state \in Promised
      <4>1. \A n \in DOMAIN plan : Reserved(lost, n, id)
        BY <2>1, <3>1 DEF PromisesHold, OnRecord
      <4>2. \A n \in Node : n \in DOMAIN plan => g[n] = h[n]
        BY <2>1, <4>1 DEF TakenAt
      <4>3. \A n \in Node : n \notin DOMAIN plan => h[n] = 0
        BY DEF Share, Units, Empty
      <4> HIDE DEF g, h
      <4>4. \A n \in Node : h[n] <= g[n]
        BY <1>4, <2>3, <4>2, <4>3 DEF Nats
      <4>5. SumFunctionOnSet(h, Node) <= SumFunctionOnSet(g, Node)
        BY <1>1, <1>4, <2>3, <4>4, SumMonotonic
      <4>6. QED
        BY <1>4, <2>5, <4>5
    <3>2. CASE txs[m][id].state \notin Promised
      <4>1. OwedAt(m, id, p) = 0
        BY <3>2 DEF OwedAt
      <4>2. QED
        BY <1>4, <4>1
    <3>3. QED
      BY <3>1, <3>2
  <2> HIDE DEF f, g, h, plan
  <2>8. \A n \in Node : OwedAt(n, id, p) \in Nat
    BY <2>3, <2>4, <2>5
  <2>9. SumFunctionOnSet(f, Node) = f[m]
    BY <1>1, <2>4, <2>6, <2>8, SumOfOne
  <2>10. QED
    BY <2>6, <2>7, <2>8, <2>9
<1>7. QED
  BY <1>2, <1>5, <1>6

LEMMA FiniteUnion ==
  ASSUME NEW S, IsFiniteSet(S), NEW f, \A x \in S : IsFiniteSet(f[x])
  PROVE  IsFiniteSet(UNION {f[x] : x \in S})
<1> DEFINE T == {f[x] : x \in S}
<1>1. PICK n \in Nat : ExistsSurjection(1 .. n, S)
  BY FS_NatSurjection
<1>2. PICK e \in [1 .. n -> S] : \A x \in S : \E i \in 1 .. n : e[i] = x
  BY <1>1 DEF ExistsSurjection, Surjection
<1> DEFINE h == [i \in 1 .. n |-> f[e[i]]]
<1>3. h \in [1 .. n -> T]
  BY <1>2
<1>4. \A t \in T : \E i \in 1 .. n : h[i] = t
  BY <1>2
<1>5. IsFiniteSet(T)
  <2> HIDE DEF h, T
  <2>1. h \in Surjection(1 .. n, T)
    BY <1>3, <1>4 DEF Surjection
  <2>2. ExistsSurjection(1 .. n, T)
    BY <2>1 DEF ExistsSurjection
  <2>3. QED
    BY <2>2, FS_NatSurjection
<1>6. QED
  BY <1>5, FS_UNION

LEMMA SoldOnce ==
  ASSUME NEW lost, ReserveInv(lost), TakenInv(lost)
  PROVE  NoOversell
<1> SUFFICES ASSUME NEW p \in Product
             PROVE  SumFunction([n \in Node |-> Units(stock[n], p) + UnitsPromised(n, p)])
                      <= SumFunction([n \in Node |-> supply[n][p]])
  BY DEF NoOversell
<1>1. /\ TypeInv /\ PromisesHold(lost) /\ StoreInv /\ IsFiniteSet(Node)
      /\ \A n \in Node : /\ Ledger(lost, n) \subseteq TxId
                         /\ DOMAIN txs[n] \subseteq Ledger(lost, n)
  BY NodeAssumption DEF ReserveInv, TypeInv, StoreInv, TypesOfRecords, Ledger, Reserved
<1> DEFINE I == UNION {Ledger(lost, n) : n \in Node}
           owed == [n \in Node |-> [id \in I |-> OwedAt(n, id, p)]]
           taken == [n \in Node |-> [id \in I |-> TakenAt(lost, n, id, p)]]
           left == [n \in Node |-> Units(stock[n], p)]
           promised == [n \in Node |-> UnitsPromised(n, p)]
           kept == [n \in Node |-> SumFunction(Taken(lost, n, p))]
           all == [n \in Node |-> Units(stock[n], p) + UnitsPromised(n, p)]
           put == [n \in Node |-> supply[n][p]]
<1>2. IsFiniteSet(I) /\ I \subseteq TxId
  <2> DEFINE ids == [n \in Node |-> Ledger(lost, n)]
  <2>1. I = UNION {ids[n] : n \in Node} /\ \A n \in Node : IsFiniteSet(ids[n])
    BY <1>1 DEF TakenInv
  <2>2. I \subseteq TxId
    BY <1>1
  <2> HIDE DEF ids, I
  <2>3. IsFiniteSet(UNION {ids[n] : n \in Node})
    BY <1>1, <2>1, FiniteUnion
  <2>4. QED
    BY <2>1, <2>2, <2>3
<1>3. \A n \in Node : Ledger(lost, n) \in SUBSET I
  OBVIOUS
<1>4. \A n \in Node, id \in I : OwedAt(n, id, p) \in Nat /\ TakenAt(lost, n, id, p) \in Nat
  BY <1>1, <1>2, OwedIsTaken
<1> HIDE DEF I
<1>5. ASSUME NEW n \in Node
      PROVE  /\ Nats(owed[n], I) /\ Nats(taken[n], I)
             /\ promised[n] = SumFunctionOnSet(owed[n], I)
             /\ kept[n] = SumFunctionOnSet(taken[n], I)
             /\ promised[n] \in Nat /\ kept[n] \in Nat
  <2> DEFINE due == {i \in DOMAIN txs[n] : txs[n][i].state \in Promised}
             f == [id \in due |-> UnitsPlanned(txs[n][id], p)]
             row == owed[n]
             mine == Taken(lost, n, p)
             other == taken[n]
  <2>1. due \in SUBSET I /\ IsFiniteSet(due) /\ IsFiniteSet(Ledger(lost, n))
    BY <1>1, <1>2, <1>3, FS_Subset DEF TakenInv
  <2>2. Nats(row, I) /\ Nats(other, I)
    BY <1>4 DEF Nats
  <2>3. UnitsPromised(n, p) = SumFunctionOnSet(f, due)
    BY DEF UnitsPromised, SumFunction
  <2>4. /\ \A id \in due : f[id] = row[id]
        /\ \A id \in I \ due : row[id] = 0
    BY <2>1 DEF OwedAt
  <2>5. /\ DOMAIN mine = Ledger(lost, n)
        /\ \A id \in Ledger(lost, n) : mine[id] = other[id]
        /\ \A id \in I \ Ledger(lost, n) : other[id] = 0
    BY <1>2, <1>3 DEF Taken, TakenAt, Ledger
  <2>6. promised[n] = UnitsPromised(n, p) /\ kept[n] = SumFunctionOnSet(mine, DOMAIN mine)
    BY DEF SumFunction
  <2> HIDE DEF due, f, row, mine, other, promised, kept, owed, taken
  <2>7. SumFunctionOnSet(f, due) = SumFunctionOnSet(row, due)
    BY <2>1, <2>2, <2>4, SumSame DEF Nats
  <2>8. SumFunctionOnSet(row, I) = SumFunctionOnSet(row, due)
    BY <1>2, <2>1, <2>2, <2>4, SumExtends
  <2>9. SumFunctionOnSet(mine, Ledger(lost, n)) = SumFunctionOnSet(other, Ledger(lost, n))
    BY <1>3, <2>1, <2>2, <2>5, SumSame DEF Nats
  <2>10. SumFunctionOnSet(other, I) = SumFunctionOnSet(other, Ledger(lost, n))
    BY <1>2, <1>3, <2>2, <2>5, SumExtends
  <2>11. SumFunctionOnSet(row, I) \in Nat /\ SumFunctionOnSet(other, I) \in Nat
    BY <1>2, <2>2, SumIsNat
  <2>12. /\ promised[n] = SumFunctionOnSet(row, I)
         /\ kept[n] = SumFunctionOnSet(other, I)
    BY <2>3, <2>5, <2>6, <2>7, <2>8, <2>9, <2>10
  <2>13. QED
    BY <2>2, <2>11, <2>12 DEF row, other
<1>6. ASSUME NEW id \in I
      PROVE  SumFunctionOnSet([n \in Node |-> owed[n][id]], Node)
               <= SumFunctionOnSet([n \in Node |-> taken[n][id]], Node)
  <2>1. /\ [n \in Node |-> owed[n][id]] = [n \in Node |-> OwedAt(n, id, p)]
        /\ [n \in Node |-> taken[n][id]] = [n \in Node |-> TakenAt(lost, n, id, p)]
    OBVIOUS
  <2>2. id \in TxId
    BY <1>2
  <2>3. QED
    BY <1>1, <2>1, <2>2, OwedIsTaken
<1>7. /\ promised = [n \in Node |-> SumFunctionOnSet(owed[n], I)]
      /\ kept = [n \in Node |-> SumFunctionOnSet(taken[n], I)]
  BY <1>5
<1>8. \A n \in Node : /\ left[n] \in Nat /\ put[n] \in Nat
                      /\ all[n] = left[n] + promised[n]
                      /\ left[n] + kept[n] <= put[n]
  <2>1. \A n \in Node : Units(stock[n], p) \in Nat /\ supply[n][p] \in Nat
    BY <1>1, UnitsAreNat DEF StoreInv, TypesOfUnits
  <2>2. \A n \in Node : Units(stock[n], p) + SumFunction(Taken(lost, n, p)) <= supply[n][p]
    BY DEF TakenInv, Balanced
  <2>3. QED
    BY <2>1, <2>2
<1>9. /\ SumFunction([n \in Node |-> Units(stock[n], p) + UnitsPromised(n, p)])
           = SumFunctionOnSet(all, Node)
      /\ SumFunction([n \in Node |-> supply[n][p]]) = SumFunctionOnSet(put, Node)
  BY DEF SumFunction
<1> DEFINE used == [n \in Node |-> left[n] + kept[n]]
<1>10. \A n \in Node : used[n] = left[n] + kept[n]
  OBVIOUS
<1> HIDE DEF owed, taken, left, promised, kept, all, put, used
<1>11. SumFunctionOnSet(promised, Node) <= SumFunctionOnSet(kept, Node)
  BY <1>1, <1>2, <1>5, <1>6, <1>7, SumsCompared
<1>12. /\ Nats(left, Node) /\ Nats(promised, Node) /\ Nats(kept, Node)
       /\ Nats(put, Node) /\ Nats(used, Node)
  BY <1>5, <1>8, <1>10 DEF Nats
<1>13. /\ SumFunctionOnSet(all, Node)
            = SumFunctionOnSet(left, Node) + SumFunctionOnSet(promised, Node)
       /\ SumFunctionOnSet(used, Node)
            = SumFunctionOnSet(left, Node) + SumFunctionOnSet(kept, Node)
  BY <1>1, <1>8, <1>10, <1>12, SumOfSums
<1>14. SumFunctionOnSet(used, Node) <= SumFunctionOnSet(put, Node)
  BY <1>1, <1>8, <1>10, <1>12, SumMonotonic
<1>15. /\ SumFunctionOnSet(left, Node) \in Nat /\ SumFunctionOnSet(promised, Node) \in Nat
       /\ SumFunctionOnSet(kept, Node) \in Nat /\ SumFunctionOnSet(put, Node) \in Nat
  BY <1>1, <1>12, SumIsNat
<1>16. SumFunctionOnSet(all, Node) <= SumFunctionOnSet(put, Node)
  BY <1>11, <1>13, <1>14, <1>15
<1>17. QED
  BY <1>9, <1>16

\* Stores plan from stale copies of each other's stocks, and answers, notices
\* and whole links are lost; still all that is in stock anywhere and all that
\* customers were promised anywhere is no more than the operators put on sale.
THEOREM NothingOversold == Spec => []NoOversell
<1>1. Init => SoldInv
  BY InitialTypes, InitialReservations, InitialTaken DEF SoldInv
<1>2. SoldInv => NoOversell
  BY SoldOnce DEF SoldInv
<1>3. QED
  BY <1>1, <1>2, SoldInductive, PTL DEF Spec
=============================================================================
