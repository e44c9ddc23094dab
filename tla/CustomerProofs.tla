---------------------------- MODULE CustomerProofs ----------------------------
(***************************************************************************)
(* The customer's program for any list of stores and any orders: the tasks *)
(* that share a connection each read their own answer, and the program     *)
(* reports what happened.                                                  *)
(*                                                                         *)
(* The lock's queue and the messages on the way are invariant together:    *)
(* while the store has the connection open, exactly the tasks that wait    *)
(* for an answer have one to come, in the order in which they queue.  With *)
(* this, what a message says and whether a Commit is on record can be      *)
(* followed from the task to the store and back (Carried), which is what   *)
(* makes reports true.                                                     *)
(***************************************************************************)
EXTENDS Customer, FiniteSetTheorems, TLAPS

-----------------------------------------------------------------------------
\* The inductive invariant.

ToStore == [kind : Requests, order : Orders]
ToClient == [kind : {"Confirm", "Commit", "Cancel"}, order : Orders]

TypesInv ==
  /\ phase \in {"choosing", "trading", "ended"}
  /\ ports \subseteq Store /\ orders \subseteq Orders /\ at \in Store \cup {None}
  /\ lock \in Seq(Orders)
  /\ pc \in [Orders -> {"spawned", "order", "answer", "decide", "outcome", "done"}]
  /\ decision \in [Orders -> {"Commit", "Cancel", None}]
  /\ result \in [Orders -> {"error", "bought", "cancelled"}]
  /\ open \in BOOLEAN
  /\ toStore \in Seq(ToStore)
  /\ serving \in ToStore \cup {None}
  /\ toClient \in Seq(ToClient)
  /\ bought \in [Orders -> SUBSET Store] /\ unsure \in [Orders -> SUBSET Store]

\* A task is in the lock's queue, once, while it reads or writes.
QueueInv ==
  /\ IsInjective(lock)
  /\ \A o \in Orders : pc[o] \notin {"spawned", "done"} <=> o \in Range(lock)

\* Orders are worked on while there is a connection, with a store that was not
\* tried before; a store that closed it does nothing; who has to write a
\* decision has taken one.
PhaseInv ==
  /\ phase # "trading" => ~open /\ toClient = <<>> /\ \A o \in Orders : pc[o] = "done"
  /\ phase = "trading" => at \in Store \ ports
  /\ \A o \in Orders \ orders : pc[o] = "done"
  /\ ~open => serving = None /\ toStore = <<>>
  /\ \A o \in Orders : pc[o] = "decide" => decision[o] # None

To(s) == [i \in DOMAIN s |-> s[i].order]

\* Everybody who waits for an answer of a store that listens has one to come.
AnswersCome == open => Reading \subseteq Range(To(Expected))

ShareInv == TypesInv /\ QueueInv /\ PhaseInv /\ AnswersInOrder /\ AnswersCome

\* What a request says, and what an answer does.
Asks(msg) == msg.kind = IF pc[msg.order] = "answer" THEN "Order" ELSE decision[msg.order]

Tells(msg) ==
  IF pc[msg.order] = "answer" THEN msg.kind \in {"Confirm", "Cancel"}
                              ELSE msg.kind = decision[msg.order]

Committed(o) == at \in bought[o]

\* A Commit is on record once the store has taken it.
Carried ==
  /\ \A i \in DOMAIN toStore : Asks(toStore[i]) /\ ~Committed(toStore[i].order)
  /\ serving # None => /\ Asks(serving)
                       /\ Committed(serving.order) <=> serving.kind = "Commit"
  /\ \A i \in DOMAIN toClient :
       /\ Tells(toClient[i])
       /\ Committed(toClient[i].order) <=> toClient[i].kind = "Commit"

\* What a task that works on order o has done so far.
TaskStage(o) ==
  /\ result[o] = "error"
  /\ decision[o] # None <=> pc[o] \in {"decide", "outcome"}
  /\ Committed(o) => pc[o] = "outcome" /\ decision[o] = "Commit"
  /\ at \notin unsure[o]

\* What one that is done reports of the store.
Reported(o) ==
  /\ result[o] = "bought" => Committed(o) /\ at \notin unsure[o]
  /\ result[o] = "cancelled" => ~Committed(o)
  /\ result[o] = "error" => (Committed(o) => at \in unsure[o])

Truthful(o) ==
  /\ \A s, t \in bought[o] \ unsure[o] : s = t
  /\ result[o] = "bought" => bought[o] \ unsure[o] # {}
  /\ result[o] = "cancelled" => bought[o] \subseteq unsure[o]

\* An order still to be done was committed at no store but this one, unless
\* the customer was left without an answer.
ReportInv ==
  /\ \A o \in Orders : (bought[o] \cup unsure[o]) \cap ports = {}
  /\ \A o \in Orders : Truthful(o)
  /\ \A o \in orders : /\ bought[o] \ {at} \subseteq unsure[o]
                       /\ phase # "trading" =>
                            /\ result[o] = "error" /\ decision[o] = None
                            /\ bought[o] \subseteq unsure[o]
                       /\ phase = "trading" /\ pc[o] # "done" => TaskStage(o)
                       /\ phase = "trading" /\ pc[o] = "done" => Reported(o)
  /\ Carried

CustomerInv == ShareInv /\ ReportInv

-----------------------------------------------------------------------------
\* Sequences of messages.

Whole(c, v, t) == c \o (IF v = None THEN <<>> ELSE <<v>>) \o t

LEMMA WholeIsSeq ==
  ASSUME NEW T, NEW c \in Seq(T), NEW v \in T \cup {None}, NEW t \in Seq(T)
  PROVE  Whole(c, v, t) \in Seq(T)
  BY DEF Whole

LEMMA WholeTaken ==
  ASSUME NEW T, NEW c \in Seq(T), NEW t \in Seq(T), t # <<>>, Head(t) # None
  PROVE  Whole(c, Head(t), Tail(t)) = Whole(c, None, t)
<1>1. Head(t) \in T /\ Head(t) # None /\ Tail(t) \in Seq(T)
  OBVIOUS
<1>2. Whole(c, Head(t), Tail(t)) = c \o <<Head(t)>> \o Tail(t)
  BY <1>1 DEF Whole
<1>3. Whole(c, None, t) = c \o t
  BY DEF Whole
<1>4. <<Head(t)>> \o Tail(t) = t
  OBVIOUS
<1>5. c \o <<Head(t)>> \o Tail(t) = c \o t
  BY <1>1, <1>4
<1>6. QED
  BY <1>2, <1>3, <1>5

LEMMA WholeWritten ==
  ASSUME NEW T, NEW c \in Seq(T), NEW v \in T \cup {None}, NEW t \in Seq(T), NEW m \in T
  PROVE  Whole(c, v, Append(t, m)) = Append(Whole(c, v, t), m)
<1>1. CASE v = None
  <2>1. Whole(c, v, Append(t, m)) = c \o Append(t, m) /\ Whole(c, v, t) = c \o t
    BY <1>1 DEF Whole
  <2>2. QED
    BY <2>1
<1>2. CASE v # None
  <2>0. v \in T
    BY <1>2
  <2> DEFINE d == c \o <<v>>
  <2>1. d \in Seq(T)
    BY <2>0
  <2>2. Whole(c, v, Append(t, m)) = d \o Append(t, m) /\ Whole(c, v, t) = d \o t
    BY <1>2 DEF Whole
  <2> HIDE DEF d
  <2>3. d \o Append(t, m) = Append(d \o t, m)
    BY <2>1
  <2>4. QED
    BY <2>2, <2>3
<1>3. QED
  BY <1>1, <1>2

LEMMA WholeRead ==
  ASSUME NEW T, NEW c \in Seq(T), NEW v \in T \cup {None}, NEW t \in Seq(T), c # <<>>
  PROVE  /\ Whole(c, v, t) # <<>> /\ Head(Whole(c, v, t)) = Head(c)
         /\ Whole(Tail(c), v, t) = Tail(Whole(c, v, t))
<1>1. PICK r \in Seq(T) : \A d \in Seq(T) : Whole(d, v, t) = d \o r
  <2> DEFINE w == IF v = None THEN <<>> ELSE <<v>>
  <2>1. w \in Seq(T)
    OBVIOUS
  <2>2. \A d \in Seq(T) : Whole(d, v, t) = d \o w \o t
    BY DEF Whole
  <2> HIDE DEF w
  <2>3. \A d \in Seq(T) : d \o w \o t = d \o (w \o t) /\ w \o t \in Seq(T)
    BY <2>1
  <2>4. QED
    BY <2>2, <2>3
<1>2. c \o r # <<>> /\ Head(c \o r) = Head(c) /\ Tail(c \o r) = Tail(c) \o r
  OBVIOUS
<1>3. Tail(c) \in Seq(T)
  OBVIOUS
<1>4. QED
  BY <1>1, <1>2, <1>3

LEMMA WholeLost ==
  ASSUME NEW T, NEW c \in Seq(T), NEW v \in T \cup {None}, NEW t \in Seq(T),
         NEW i \in 0 .. Len(c)
  PROVE  Whole(SubSeq(c, 1, i), None, <<>>) = SubSeq(Whole(c, v, t), 1, i)
<1>1. Whole(SubSeq(c, 1, i), None, <<>>) = SubSeq(c, 1, i)
  BY DEF Whole
<1>2. PICK r \in Seq(T) : Whole(c, v, t) = c \o r
  <2> DEFINE w == IF v = None THEN <<>> ELSE <<v>>
  <2>1. w \in Seq(T)
    OBVIOUS
  <2>2. Whole(c, v, t) = c \o w \o t
    BY DEF Whole
  <2> HIDE DEF w
  <2>3. c \o w \o t = c \o (w \o t) /\ w \o t \in Seq(T)
    BY <2>1
  <2>4. QED
    BY <2>2, <2>3
<1>3. SubSeq(c \o r, 1, i) = SubSeq(c, 1, i)
  OBVIOUS
<1>4. QED
  BY <1>1, <1>2, <1>3

\* An answer goes to the order that was asked about.
LEMMA WholeAnswered ==
  ASSUME NEW T, NEW c \in Seq(T), NEW v \in T, v # None, NEW t \in Seq(T),
         NEW a \in T, a.order = v.order
  PROVE  To(Whole(Append(c, a), None, t)) = To(Whole(c, v, t))
<1> DEFINE x == Whole(Append(c, a), None, t)
           y == Whole(c, v, t)
<1>1. x = Append(c, a) \o t /\ y = c \o <<v>> \o t
  BY DEF Whole
<1>2. /\ x \in Seq(T) /\ y \in Seq(T) /\ Len(x) = Len(y)
      /\ \A i \in 1 .. Len(x) : x[i] = IF i = Len(c) + 1 THEN a ELSE y[i]
      /\ y[Len(c) + 1] = v
  BY <1>1
<1> HIDE DEF x, y
<1>3. \A i \in 1 .. Len(x) : x[i].order = y[i].order
  BY <1>2
<1>4. DOMAIN x = 1 .. Len(x) /\ DOMAIN y = 1 .. Len(x)
  BY <1>2
<1>5. To(x) = To(y)
  BY <1>3, <1>4 DEF To
<1>6. QED
  BY <1>5 DEF x, y

LEMMA ToIsSeq ==
  ASSUME NEW T, \A m \in T : m.order \in Orders, NEW s \in Seq(T)
  PROVE  /\ To(s) \in Seq(Orders) /\ Len(To(s)) = Len(s) /\ DOMAIN To(s) = DOMAIN s
         /\ \A i \in DOMAIN s : To(s)[i] = s[i].order
<1>1. \A i \in 1 .. Len(s) : s[i].order \in Orders
  OBVIOUS
<1>2. DOMAIN s = 1 .. Len(s) /\ Len(s) \in Nat
  OBVIOUS
<1>3. To(s) \in [1 .. Len(s) -> Orders]
  BY <1>1, <1>2 DEF To
<1>4. QED
  BY <1>2, <1>3 DEF To

LEMMA SameSeq ==
  ASSUME NEW T, NEW s \in Seq(T), NEW t \in Seq(T), Len(s) = Len(t),
         \A i \in 1 .. Len(s) : s[i] = t[i]
  PROVE  s = t
  OBVIOUS

LEMMA ToMoves ==
  ASSUME NEW T, \A m \in T : m.order \in Orders, NEW s \in Seq(T)
  PROVE  /\ \A m \in T : To(Append(s, m)) = Append(To(s), m.order)
         /\ s # <<>> => To(Tail(s)) = Tail(To(s)) /\ To(s) # <<>> /\ Head(To(s)) = Head(s).order
         /\ \A i \in 0 .. Len(s) : To(SubSeq(s, 1, i)) = SubSeq(To(s), 1, i)
<1>0. PICK u : u = To(s)
  OBVIOUS
<1>u. /\ u \in Seq(Orders) /\ Len(u) = Len(s) /\ Len(s) \in Nat
      /\ \A i \in 1 .. Len(s) : u[i] = s[i].order
  BY <1>0, ToIsSeq
<1>1. ASSUME NEW m \in T
      PROVE  To(Append(s, m)) = Append(To(s), m.order)
  <2>1. PICK o \in Orders : o = m.order
    OBVIOUS
  <2>2. PICK r : r = Append(s, m)
    OBVIOUS
  <2>3. r \in Seq(T) /\ Len(r) = Len(s) + 1 /\ r[Len(s) + 1] = m
        /\ \A i \in 1 .. Len(s) : r[i] = s[i]
    BY <2>2
  <2>4. To(r) \in Seq(Orders) /\ Len(To(r)) = Len(s) + 1
        /\ \A i \in 1 .. Len(s) + 1 : To(r)[i] = r[i].order
    BY <2>3, ToIsSeq
  <2>5. Append(u, o) \in Seq(Orders) /\ Len(Append(u, o)) = Len(s) + 1
        /\ Append(u, o)[Len(s) + 1] = o /\ \A i \in 1 .. Len(s) : Append(u, o)[i] = u[i]
    BY <1>u
  <2>6. \A i \in 1 .. Len(s) + 1 : To(r)[i] = Append(u, o)[i]
    BY <1>u, <2>1, <2>3, <2>4, <2>5
  <2>7. To(r) = Append(u, o)
    BY <2>4, <2>5, <2>6, SameSeq
  <2>8. QED
    BY <1>0, <2>1, <2>2, <2>7
<1>2. ASSUME s # <<>>
      PROVE  To(Tail(s)) = Tail(To(s)) /\ To(s) # <<>> /\ Head(To(s)) = Head(s).order
  <2>1. PICK r : r = Tail(s)
    OBVIOUS
  <2>2. r \in Seq(T) /\ Len(r) = Len(s) - 1 /\ \A i \in 1 .. Len(s) - 1 : r[i] = s[i + 1]
    BY <1>2, <2>1
  <2>3. To(r) \in Seq(Orders) /\ Len(To(r)) = Len(s) - 1
        /\ \A i \in 1 .. Len(s) - 1 : To(r)[i] = r[i].order
    BY <2>2, ToIsSeq
  <2>4. /\ Len(s) # 0 /\ u # <<>> /\ Head(u) = u[1] /\ Head(s) = s[1]
        /\ Tail(u) \in Seq(Orders) /\ Len(Tail(u)) = Len(s) - 1
        /\ \A i \in 1 .. Len(s) - 1 : Tail(u)[i] = u[i + 1]
    BY <1>2, <1>u
  <2>5. \A i \in 1 .. Len(s) - 1 : To(r)[i] = Tail(u)[i]
    <3>1. ASSUME NEW i \in 1 .. Len(s) - 1
          PROVE  To(r)[i] = Tail(u)[i]
      <4>1. i + 1 \in 1 .. Len(s)
        BY <1>u
      <4>2. To(r)[i] = r[i].order /\ r[i] = s[i + 1]
        BY <2>2, <2>3
      <4>3. Tail(u)[i] = u[i + 1]
        BY <2>4
      <4>4. u[i + 1] = s[i + 1].order
        BY <1>u, <4>1
      <4>5. QED
        BY <4>2, <4>3, <4>4
    <3>2. QED
      BY <3>1
  <2>6. To(r) = Tail(u)
    BY <2>3, <2>4, <2>5, SameSeq
  <2>7. Head(u) = Head(s).order
    BY <1>u, <2>4
  <2>8. QED
    BY <1>0, <2>1, <2>4, <2>6, <2>7
<1>3. ASSUME NEW i \in 0 .. Len(s)
      PROVE  To(SubSeq(s, 1, i)) = SubSeq(To(s), 1, i)
  <2>1. PICK r : r = SubSeq(s, 1, i)
    OBVIOUS
  <2>2. r \in Seq(T) /\ Len(r) = i /\ \A j \in 1 .. i : r[j] = s[j]
    BY <2>1
  <2>3. To(r) \in Seq(Orders) /\ Len(To(r)) = i /\ \A j \in 1 .. i : To(r)[j] = r[j].order
    BY <2>2, ToIsSeq
  <2>4. /\ SubSeq(u, 1, i) \in Seq(Orders) /\ Len(SubSeq(u, 1, i)) = i
        /\ \A j \in 1 .. i : SubSeq(u, 1, i)[j] = u[j]
    BY <1>u
  <2>5. \A j \in 1 .. i : To(r)[j] = SubSeq(u, 1, i)[j]
    BY <1>u, <2>2, <2>3, <2>4
  <2>6. To(r) = SubSeq(u, 1, i)
    BY <2>3, <2>4, <2>5, SameSeq
  <2>7. QED
    BY <1>0, <2>1, <2>6
<1>4. QED
  BY <1>1, <1>2, <1>3

-----------------------------------------------------------------------------
\* The lock's queue and the answers to come, as values.

InOrder(l, r, e) ==
  /\ IsInjective(e) /\ Range(e) \subseteq r
  /\ \A o, q \in r : Ahead(l, o, q) /\ q \in Range(e) => Ahead(e, o, q)

\* A queue without repetitions.
Queue(l) == l \in Seq(Orders) /\ IsInjective(l)

LEMMA GoesLast ==
  ASSUME NEW l, Queue(l), NEW x \in Orders, x \notin Range(l)
  PROVE  /\ Queue(Append(l, x)) /\ Range(Append(l, x)) = Range(l) \cup {x}
         /\ \A o, q : Ahead(Append(l, x), o, q) <=> Ahead(l, o, q) \/ (o \in Range(l) /\ q = x)
<1>1. PICK m : m = Append(l, x)
  OBVIOUS
<1>2. /\ l \in Seq(Orders) /\ m \in Seq(Orders) /\ Len(l) \in Nat /\ Len(m) = Len(l) + 1
      /\ DOMAIN l = 1 .. Len(l) /\ DOMAIN m = 1 .. Len(l) + 1
      /\ m[Len(l) + 1] = x /\ \A i \in 1 .. Len(l) : m[i] = l[i]
  BY <1>1 DEF Queue
<1>3. IsInjective(m)
  BY <1>2 DEF Queue, IsInjective, Range
<1>4. Range(m) = Range(l) \cup {x}
  <2>1. Range(m) \subseteq Range(l) \cup {x}
    BY <1>2 DEF Range
  <2>2. Range(l) \subseteq Range(m)
    BY <1>2 DEF Range
  <2>3. x \in Range(m)
    <3>1. Len(l) + 1 \in DOMAIN m
      BY <1>2
    <3>2. QED
      BY <1>2, <3>1 DEF Range
  <2>4. QED
    BY <2>1, <2>2, <2>3
<1>5. ASSUME NEW o, NEW q
      PROVE  Ahead(m, o, q) <=> Ahead(l, o, q) \/ (o \in Range(l) /\ q = x)
  <2>1. ASSUME Ahead(m, o, q)
        PROVE  Ahead(l, o, q) \/ (o \in Range(l) /\ q = x)
    <3>1. PICK i, j \in 1 .. Len(l) + 1 : i < j /\ m[i] = o /\ m[j] = q
      BY <1>2, <2>1 DEF Ahead
    <3>2. i \in 1 .. Len(l) /\ l[i] = o
      BY <1>2, <3>1
    <3>3. CASE j = Len(l) + 1
      BY <1>2, <3>1, <3>2, <3>3 DEF Range
    <3>4. CASE j # Len(l) + 1
      BY <1>2, <3>1, <3>2, <3>4 DEF Ahead
    <3>5. QED
      BY <3>3, <3>4
  <2>2. ASSUME Ahead(l, o, q)
        PROVE  Ahead(m, o, q)
    <3>1. PICK i, j \in 1 .. Len(l) : i < j /\ l[i] = o /\ l[j] = q
      BY <1>2, <2>2 DEF Ahead
    <3>2. i \in DOMAIN m /\ j \in DOMAIN m /\ m[i] = o /\ m[j] = q
      BY <1>2, <3>1
    <3>3. QED
      BY <3>1, <3>2 DEF Ahead
  <2>3. ASSUME o \in Range(l), q = x
        PROVE  Ahead(m, o, q)
    <3>1. PICK i \in 1 .. Len(l) : l[i] = o
      BY <1>2, <2>3 DEF Range
    <3>2. i \in DOMAIN m /\ Len(l) + 1 \in DOMAIN m /\ i < Len(l) + 1 /\ m[i] = o
          /\ m[Len(l) + 1] = q
      BY <1>2, <2>3, <3>1
    <3>3. QED
      BY <3>2 DEF Ahead
  <2>4. QED
    BY <2>1, <2>2, <2>3
<1>6. QED
  BY <1>1, <1>2, <1>3, <1>4, <1>5 DEF Queue

LEMMA FirstLeaves ==
  ASSUME NEW l, Queue(l), l # <<>>
  PROVE  /\ Queue(Tail(l)) /\ Range(Tail(l)) = Range(l) \ {Head(l)}
         /\ Head(l) \in Orders /\ Head(l) \in Range(l)
         /\ \A o, q : Ahead(Tail(l), o, q) <=> Ahead(l, o, q) /\ o # Head(l)
         /\ \A o : ~Ahead(l, o, Head(l))
         /\ \A o \in Range(l) : o # Head(l) => Ahead(l, Head(l), o)
<1>1. PICK m, h : m = Tail(l) /\ h = Head(l)
  OBVIOUS
<1>2. /\ l \in Seq(Orders) /\ m \in Seq(Orders) /\ Len(l) \in Nat /\ Len(l) # 0
      /\ DOMAIN l = 1 .. Len(l) /\ DOMAIN m = 1 .. Len(l) - 1
      /\ l[1] = h /\ h \in Orders /\ \A i \in 1 .. Len(l) - 1 : m[i] = l[i + 1]
  BY <1>1 DEF Queue
<1>3. \A i, j \in 1 .. Len(l) : l[i] = l[j] => i = j
  BY <1>2 DEF Queue, IsInjective
<1>4. \A i \in 1 .. Len(l) : i # 1 => (i - 1 \in 1 .. Len(l) - 1 /\ m[i - 1] = l[i])
  BY <1>2
<1>5. \A i \in 1 .. Len(l) - 1 : i + 1 \in 1 .. Len(l) /\ m[i] = l[i + 1] /\ l[i + 1] # h
  BY <1>2, <1>3
<1>6. IsInjective(m)
  <2>1. ASSUME NEW i \in 1 .. Len(l) - 1, NEW j \in 1 .. Len(l) - 1, m[i] = m[j]
        PROVE  i = j
    <3>1. i + 1 = j + 1
      BY <1>3, <1>5, <2>1
    <3>2. QED
      BY <1>2, <3>1
  <2>2. QED
    BY <1>2, <2>1 DEF IsInjective
<1>7. Range(m) = Range(l) \ {h}
  <2>1. ASSUME NEW x \in Range(m)
        PROVE  x \in Range(l) \ {h}
    <3>1. PICK i \in 1 .. Len(l) - 1 : m[i] = x
      BY <1>2 DEF Range
    <3>2. QED
      BY <1>2, <1>5, <3>1 DEF Range
  <2>2. ASSUME NEW x \in Range(l), x # h
        PROVE  x \in Range(m)
    <3>1. PICK i \in 1 .. Len(l) : l[i] = x
      BY <1>2 DEF Range
    <3>2. i # 1
      BY <1>2, <2>2, <3>1
    <3>3. QED
      BY <1>2, <1>4, <3>1, <3>2 DEF Range
  <2>3. QED
    BY <2>1, <2>2
<1>8. h \in Range(l)
  <2>1. 1 \in 1 .. Len(l)
    BY <1>2
  <2>2. QED
    BY <1>2, <2>1 DEF Range
<1>9. ASSUME NEW o, NEW q
      PROVE  Ahead(m, o, q) <=> Ahead(l, o, q) /\ o # h
  <2>1. ASSUME Ahead(m, o, q)
        PROVE  Ahead(l, o, q) /\ o # h
    <3>1. PICK i, j \in 1 .. Len(l) - 1 : i < j /\ m[i] = o /\ m[j] = q
      BY <1>2, <2>1 DEF Ahead
    <3>2. /\ i + 1 \in DOMAIN l /\ j + 1 \in DOMAIN l /\ i + 1 < j + 1
          /\ l[i + 1] = o /\ l[j + 1] = q /\ o # h
      BY <1>2, <1>5, <3>1
    <3>3. QED
      BY <3>2 DEF Ahead
  <2>2. ASSUME Ahead(l, o, q), o # h
        PROVE  Ahead(m, o, q)
    <3>1. PICK i, j \in 1 .. Len(l) : i < j /\ l[i] = o /\ l[j] = q
      BY <1>2, <2>2 DEF Ahead
    <3>2. i # 1 /\ j # 1
      BY <1>2, <2>2, <3>1
    <3>3. /\ i - 1 \in DOMAIN m /\ j - 1 \in DOMAIN m /\ i - 1 < j - 1
          /\ m[i - 1] = o /\ m[j - 1] = q
      BY <1>2, <1>4, <3>1, <3>2
    <3>4. QED
      BY <3>3 DEF Ahead
  <2>3. QED
    BY <2>1, <2>2
<1>10. ASSUME NEW o, Ahead(l, o, h)
       PROVE  FALSE
  <2>1. PICK i, j \in 1 .. Len(l) : i < j /\ l[i] = o /\ l[j] = h
    BY <1>2, <1>10 DEF Ahead
  <2>2. 1 \in 1 .. Len(l)
    BY <1>2
  <2>3. j = 1
    BY <1>2, <1>3, <2>1, <2>2
  <2>4. QED
    BY <2>1, <2>3
<1>11. ASSUME NEW o \in Range(l), o # h
       PROVE  Ahead(l, h, o)
  <2>1. PICK i \in 1 .. Len(l) : l[i] = o
    BY <1>2 DEF Range
  <2>2. i # 1 /\ 1 \in 1 .. Len(l)
    BY <1>2, <1>11, <2>1
  <2>3. 1 < i
    BY <1>2, <2>2
  <2>4. QED
    BY <1>2, <2>1, <2>2, <2>3 DEF Ahead
<1>12. QED
  BY <1>1, <1>2, <1>6, <1>7, <1>8, <1>9, <1>10, <1>11 DEF Queue

\* The lock is released and asked for again.
LEMMA FirstGoesLast ==
  ASSUME NEW l, Queue(l), l # <<>>
  PROVE  /\ Queue(Append(Tail(l), Head(l))) /\ Range(Append(Tail(l), Head(l))) = Range(l)
         /\ \A o, q : Ahead(Append(Tail(l), Head(l)), o, q)
                        <=> \/ Ahead(l, o, q) /\ o # Head(l)
                            \/ o \in Range(l) \ {Head(l)} /\ q = Head(l)
<1>1. /\ Queue(Tail(l)) /\ Range(Tail(l)) = Range(l) \ {Head(l)}
      /\ Head(l) \in Orders /\ Head(l) \in Range(l)
      /\ \A o, q : Ahead(Tail(l), o, q) <=> Ahead(l, o, q) /\ o # Head(l)
  BY FirstLeaves
<1>2. PICK m, h : m = Tail(l) /\ h = Head(l)
  OBVIOUS
<1>3. /\ Queue(Append(m, h)) /\ Range(Append(m, h)) = Range(m) \cup {h}
      /\ \A o, q : Ahead(Append(m, h), o, q) <=> Ahead(m, o, q) \/ (o \in Range(m) /\ q = h)
  <2>1. Queue(m) /\ h \in Orders /\ h \notin Range(m)
    BY <1>1, <1>2
  <2>2. QED
    BY <2>1, GoesLast
<1>4. /\ Range(m) = Range(l) \ {h} /\ h \in Range(l)
      /\ \A o, q : Ahead(m, o, q) <=> Ahead(l, o, q) /\ o # h
  BY <1>1, <1>2
<1>5. Range(Append(m, h)) = Range(l)
  BY <1>3, <1>4
<1>6. ASSUME NEW o, NEW q
      PROVE  Ahead(Append(m, h), o, q)
               <=> (Ahead(l, o, q) /\ o # h) \/ (o \in Range(l) \ {h} /\ q = h)
  <2>1. Ahead(Append(m, h), o, q) <=> Ahead(m, o, q) \/ (o \in Range(m) /\ q = h)
    BY <1>3
  <2>2. Ahead(m, o, q) <=> Ahead(l, o, q) /\ o # h
    BY <1>4
  <2>3. QED
    BY <1>4, <2>1, <2>2
<1>7. QED
  BY <1>2, <1>3, <1>5, <1>6

LEMMA StarterInOrder ==
  ASSUME NEW l, NEW r, NEW e, InOrder(l, r, e), Queue(l),
         NEW x \in Orders, x \notin Range(l), x \notin r
  PROVE  InOrder(Append(l, x), r, e)
<1>1. \A o, q : Ahead(Append(l, x), o, q) <=> Ahead(l, o, q) \/ (o \in Range(l) /\ q = x)
  BY GoesLast
<1>2. \A o, q \in r : Ahead(Append(l, x), o, q) => Ahead(l, o, q)
  BY <1>1
<1>3. QED
  BY <1>2 DEF InOrder

\* The holder leaves, or goes last, without an answer to come.
LEMMA HolderInOrder ==
  ASSUME NEW l, NEW r, NEW e, InOrder(l, r, e), Queue(l), l # <<>>, Head(l) \notin Range(e),
         NEW l2 \in {Tail(l), Append(Tail(l), Head(l))},
         NEW r2, r2 \subseteq r \cup {Head(l)}, Range(e) \subseteq r2
  PROVE  InOrder(l2, r2, e)
<1>1. ASSUME NEW o, NEW q, q # Head(l), Ahead(l2, o, q)
      PROVE  Ahead(l, o, q) /\ o # Head(l)
  <2>1. CASE l2 = Tail(l)
    <3>1. Ahead(Tail(l), o, q) <=> Ahead(l, o, q) /\ o # Head(l)
      BY FirstLeaves
    <3>2. QED
      BY <1>1, <2>1, <3>1
  <2>2. CASE l2 = Append(Tail(l), Head(l))
    <3>1. Ahead(Append(Tail(l), Head(l)), o, q) => (Ahead(l, o, q) /\ o # Head(l)) \/ q = Head(l)
      BY FirstGoesLast
    <3>2. QED
      BY <1>1, <2>2, <3>1
  <2>3. QED
    BY <2>1, <2>2
<1>2. \A o, q \in r2 : Ahead(l2, o, q) /\ q \in Range(e) =>
        o \in r /\ q \in r /\ Ahead(l, o, q)
  BY <1>1
<1>3. QED
  BY <1>2 DEF InOrder

\* The holder has written, and the store listens.
LEMMA WriterInOrder ==
  ASSUME NEW l, NEW r, NEW e, InOrder(l, r, e), Queue(l), l # <<>>,
         e \in Seq(Orders), Head(l) \notin r, r \subseteq Range(e)
  PROVE  InOrder(Append(Tail(l), Head(l)), r \cup {Head(l)}, Append(e, Head(l)))
<1>1. PICK h, l2 : h = Head(l) /\ l2 = Append(Tail(l), Head(l))
  OBVIOUS
<1>2. h \in Orders /\ h \notin r /\ Queue(e) /\ h \notin Range(e)
  BY <1>1, FirstLeaves DEF Queue, InOrder
<1>3. /\ Queue(Append(e, h)) /\ Range(Append(e, h)) = Range(e) \cup {h}
      /\ \A o, q : Ahead(Append(e, h), o, q) <=> Ahead(e, o, q) \/ (o \in Range(e) /\ q = h)
  BY <1>2, GoesLast
<1>4. \A o, q : Ahead(l2, o, q) <=> \/ Ahead(l, o, q) /\ o # h
                                    \/ o \in Range(l) \ {h} /\ q = h
  BY <1>1, FirstGoesLast
<1>5. \A o : ~Ahead(l, o, h)
  BY <1>1, FirstLeaves
<1>6. ASSUME NEW o \in r \cup {h}, NEW q \in r \cup {h}, Ahead(l2, o, q), q \in Range(Append(e, h))
      PROVE  Ahead(Append(e, h), o, q)
  <2>1. CASE q = h
    BY <1>3, <1>4, <1>5, <1>6, <2>1
  <2>2. CASE q # h
    <3>1. Ahead(l, o, q) /\ o \in r /\ q \in r /\ q \in Range(e)
      BY <1>3, <1>4, <1>6, <2>2
    <3>2. QED
      BY <1>3, <3>1 DEF InOrder
  <2>3. QED
    BY <2>1, <2>2
<1>7. InOrder(l2, r \cup {h}, Append(e, h))
  <2>1. IsInjective(Append(e, h)) /\ Range(Append(e, h)) \subseteq r \cup {h}
    BY <1>3 DEF Queue, InOrder
  <2>2. QED
    BY <1>6, <2>1 DEF InOrder
<1>8. QED
  BY <1>1, <1>7

\* A reader that holds the lock finds its own answer.
LEMMA ReaderInOrder ==
  ASSUME NEW l, NEW r, NEW e, InOrder(l, r, e), Queue(l), l # <<>>,
         e \in Seq(Orders), e # <<>>, Head(l) \in r, r \subseteq Range(l)
  PROVE  /\ Head(e) = Head(l)
         /\ Range(Tail(e)) = Range(e) \ {Head(l)}
         /\ \A l2 \in {Tail(l), Append(Tail(l), Head(l))} :
              InOrder(l2, r \ {Head(l)}, Tail(e))
<1>1. Queue(e)
  BY DEF Queue, InOrder
<1>2. /\ Queue(Tail(e)) /\ Range(Tail(e)) = Range(e) \ {Head(e)} /\ Head(e) \in Range(e)
      /\ \A o, q : Ahead(Tail(e), o, q) <=> Ahead(e, o, q) /\ o # Head(e)
      /\ \A o : ~Ahead(e, o, Head(e))
  BY <1>1, FirstLeaves
<1>3. Head(e) = Head(l)
  <2>1. ASSUME Head(e) # Head(l)
        PROVE  FALSE
    <3>1. Head(e) \in r /\ Head(e) \in Range(l)
      BY <1>2 DEF InOrder
    <3>2. Ahead(l, Head(l), Head(e))
      BY <2>1, <3>1, FirstLeaves
    <3>3. Ahead(e, Head(l), Head(e))
      BY <1>2, <3>1, <3>2 DEF InOrder
    <3>4. QED
      BY <1>2, <3>3
  <2>2. QED
    BY <2>1
<1>4. InOrder(l, r \ {Head(l)}, Tail(e))
  BY <1>2, <1>3 DEF InOrder, Queue
<1>5. ASSUME NEW l2 \in {Tail(l), Append(Tail(l), Head(l))}
      PROVE  InOrder(l2, r \ {Head(l)}, Tail(e))
  <2>1. Head(l) \notin Range(Tail(e)) /\ Range(Tail(e)) \subseteq r \ {Head(l)}
    BY <1>2, <1>3, <1>4 DEF InOrder
  <2>2. QED
    BY <1>4, <2>1, HolderInOrder
<1>6. QED
  BY <1>2, <1>3, <1>5

\* Answers on their way are lost, from some of them on.
LEMMA LossInOrder ==
  ASSUME NEW l, NEW r, NEW e, InOrder(l, r, e), e \in Seq(Orders), NEW n \in 0 .. Len(e)
  PROVE  InOrder(l, r, SubSeq(e, 1, n))
<1>1. PICK s : s = SubSeq(e, 1, n)
  OBVIOUS
<1>2. /\ Len(e) \in Nat /\ DOMAIN e = 1 .. Len(e) /\ DOMAIN s = 1 .. n
      /\ \A i \in 1 .. n : s[i] = e[i] /\ i \in 1 .. Len(e)
  BY <1>1
<1>3. IsInjective(s) /\ Range(s) \subseteq Range(e)
  BY <1>2 DEF InOrder, IsInjective, Range
<1>4. ASSUME NEW o \in r, NEW q \in r, Ahead(l, o, q), q \in Range(s)
      PROVE  Ahead(s, o, q)
  <2>1. Ahead(e, o, q)
    BY <1>3, <1>4 DEF InOrder
  <2>2. PICK i, j \in 1 .. Len(e) : i < j /\ e[i] = o /\ e[j] = q
    BY <1>2, <2>1 DEF Ahead
  <2>3. PICK k \in 1 .. n : s[k] = q
    BY <1>2, <1>4 DEF Range
  <2>4. j = k
    BY <1>2, <2>2, <2>3 DEF InOrder, IsInjective
  <2>5. i \in 1 .. n /\ j \in 1 .. n /\ s[i] = o /\ s[j] = q
    BY <1>2, <2>2, <2>4
  <2>6. QED
    BY <1>2, <2>2, <2>5 DEF Ahead
<1>5. InOrder(l, r, s)
  BY <1>3, <1>4 DEF InOrder
<1>6. QED
  BY <1>1, <1>5

-----------------------------------------------------------------------------
\* Types.

LEMMA TypesStart == Init => TypesInv
<1>1. \A T : <<>> \in Seq(T)
  OBVIOUS
<1>2. QED
  BY <1>1 DEF Init, TypesInv

LEMMA TypesMain ==
  ASSUME TypesInv, Main
  PROVE  TypesInv'
<1>1. ASSUME NEW s \in Store, Connect(s)
      PROVE  TypesInv'
  BY <1>1 DEF TypesInv, Connect, taskVars
<1>2. ASSUME NEW s \in Store, ConnectFails(s)
      PROVE  TypesInv'
  BY <1>2 DEF TypesInv, ConnectFails, taskVars, storeVars
<1>3. ASSUME NextStore
      PROVE  TypesInv'
  <2>1. toStore' \in Seq(ToStore) /\ toClient' \in Seq(ToClient)
    BY <1>3 DEF NextStore
  <2>2. orders' \subseteq Orders /\ decision' \in [Orders -> {"Commit", "Cancel", None}]
    BY <1>3 DEF NextStore, TypesInv
  <2>3. QED
    BY <1>3, <2>1, <2>2 DEF TypesInv, NextStore
<1>4. ASSUME Finish
      PROVE  TypesInv'
  BY <1>4 DEF TypesInv, Finish, taskVars, storeVars
<1>5. QED
  BY <1>1, <1>2, <1>3, <1>4 DEF Main

LEMMA HeldLock ==
  ASSUME lock \in Seq(Orders), NEW o \in Orders, Holds(o)
  PROVE  /\ lock # <<>> /\ Head(lock) = o /\ Tail(lock) \in Seq(Orders)
         /\ Append(Tail(lock), o) \in Seq(Orders)
  BY DEF Holds

LEMMA Answered ==
  ASSUME TypesInv, toClient # <<>>
  PROVE  /\ Tail(toClient) \in Seq(ToClient) /\ Head(toClient) \in ToClient
         /\ Answer \in {"Confirm", "Commit", "Cancel"}
<1>1. Head(toClient) \in ToClient /\ Tail(toClient) \in Seq(ToClient)
  BY DEF TypesInv
<1>2. QED
  BY <1>1 DEF ToClient, Answer

LEMMA Messages ==
  ASSUME NEW o \in Orders
  PROVE  /\ \A k \in Requests : Message(k, o) \in ToStore
         /\ \A k \in {"Confirm", "Commit", "Cancel"} : Message(k, o) \in ToClient
         /\ \A k : Message(k, o).kind = k /\ Message(k, o).order = o
  BY DEF Message, ToStore, ToClient

LEMMA TypesWrite ==
  ASSUME TypesInv, NEW o \in Orders, NEW k \in Requests, NEW w \in {"answer", "outcome"},
         Goes(o, w), Write(o, Message(k, o))
  PROVE  TypesInv'
<1>1. lock' \in Seq(Orders)
  BY HeldLock DEF Write, Requeue, TypesInv
<1>2. toStore' \in Seq(ToStore)
  BY Messages DEF Write, TypesInv
<1>3. pc' \in [Orders -> {"spawned", "order", "answer", "decide", "outcome", "done"}]
  BY DEF Goes, TypesInv
<1>4. QED
  BY <1>1, <1>2, <1>3 DEF TypesInv, Write, clientVars

LEMMA TypesTask ==
  ASSUME TypesInv, PhaseInv, NEW o \in Orders, Task(o)
  PROVE  TypesInv'
<1>1. CASE Start(o)
  BY <1>1 DEF TypesInv, Start, Goes, clientVars, storeVars
<1>2. CASE WriteOrder(o)
  BY <1>2, TypesWrite DEF WriteOrder, Requests
<1>3. CASE WriteDecision(o)
  <2>1. decision[o] \in Requests
    BY <1>3 DEF WriteDecision, TypesInv, PhaseInv, Requests
  <2>2. QED
    BY <1>3, <2>1, TypesWrite DEF WriteDecision
<1>4. ASSUME WriteFails(o)
      PROVE  TypesInv'
  <2>1. lock' \in Seq(Orders)
    BY <1>4, HeldLock DEF WriteFails, Release, TypesInv
  <2>2. QED
    BY <1>4, <2>1 DEF TypesInv, WriteFails, Returns, Goes, clientVars, storeVars
<1>5. ASSUME ReadAnswer(o)
      PROVE  TypesInv'
  <2>1. lock' \in Seq(Orders)
    BY <1>5, HeldLock DEF ReadAnswer, Decide, Requeue, Release, TypesInv
  <2>2. toClient' \in Seq(ToClient)
    BY <1>5, Answered DEF ReadAnswer
  <2>3. /\ pc' \in [Orders -> {"spawned", "order", "answer", "decide", "outcome", "done"}]
        /\ decision' \in [Orders -> {"Commit", "Cancel", None}]
        /\ result' \in [Orders -> {"error", "bought", "cancelled"}]
    BY <1>5 DEF ReadAnswer, Decide, Goes, Returns, TypesInv
  <2>4. QED
    BY <1>5, <2>1, <2>2, <2>3 DEF TypesInv, ReadAnswer, clientVars
<1>6. ASSUME ReadOutcome(o)
      PROVE  TypesInv'
  <2>1. lock' \in Seq(Orders) /\ toClient' \in Seq(ToClient)
    BY <1>6, HeldLock, Answered DEF ReadOutcome, Release, TypesInv
  <2>2. /\ pc' \in [Orders -> {"spawned", "order", "answer", "decide", "outcome", "done"}]
        /\ result' \in [Orders -> {"error", "bought", "cancelled"}]
    BY <1>6 DEF ReadOutcome, Goes, Returns, TypesInv
  <2>3. QED
    BY <1>6, <2>1, <2>2 DEF TypesInv, ReadOutcome, clientVars
<1>7. ASSUME ReadFails(o)
      PROVE  TypesInv'
  <2>1. lock' \in Seq(Orders)
    BY <1>7, HeldLock DEF ReadFails, Release, TypesInv
  <2>2. at \in Store
    BY <1>7 DEF ReadFails, PhaseInv
  <2>3. unsure' \in [Orders -> SUBSET Store]
    BY <1>7, <2>2 DEF ReadFails, TypesInv
  <2>4. /\ pc' \in [Orders -> {"spawned", "order", "answer", "decide", "outcome", "done"}]
        /\ result' \in [Orders -> {"error", "bought", "cancelled"}]
    BY <1>7 DEF ReadFails, Goes, Returns, TypesInv
  <2>5. QED
    BY <1>7, <2>1, <2>3, <2>4 DEF TypesInv, ReadFails, clientVars, storeVars
<1>8. QED
  BY <1>1, <1>2, <1>3, <1>4, <1>5, <1>6, <1>7 DEF Task

LEMMA TypesServe ==
  ASSUME TypesInv, PhaseInv, Serve \/ StoreCloses
  PROVE  TypesInv'
<1>1. ASSUME Take
      PROVE  TypesInv'
  <2>1. PICK m, s : m = Head(toStore) /\ s = Tail(toStore)
    OBVIOUS
  <2>2. m \in ToStore /\ s \in Seq(ToStore)
    BY <1>1, <2>1 DEF Take, TypesInv
  <2>3. open /\ at \in Store
    BY <1>1 DEF Take, PhaseInv
  <2>4. m.order \in Orders
    BY <2>2 DEF ToStore
  <2>5. bought' \in [Orders -> SUBSET Store]
    <3>1. CASE m.kind = "Commit"
      <4>1. bought' = [bought EXCEPT ![m.order] = @ \cup {at}]
        BY <1>1, <2>1, <3>1 DEF Take
      <4>2. QED
        BY <2>3, <2>4, <4>1 DEF TypesInv
    <3>2. CASE m.kind # "Commit"
      <4>1. bought' = bought
        BY <1>1, <2>1, <3>2 DEF Take
      <4>2. QED
        BY <4>1 DEF TypesInv
    <3>3. QED
      BY <3>1, <3>2
  <2>6. serving' = m /\ toStore' = s
    BY <1>1, <2>1 DEF Take
  <2>7. QED
    BY <1>1, <2>2, <2>5, <2>6 DEF TypesInv, Take, clientVars, taskVars
<1>2. ASSUME Reply
      PROVE  TypesInv'
  <2>1. serving \in ToStore
    BY <1>2 DEF Reply, TypesInv
  <2>2. PICK k \in {"Confirm", "Commit", "Cancel"} : toClient' = Append(toClient, Message(k, serving.order))
    BY <1>2, <2>1 DEF Reply, ToStore, Requests
  <2>3. Message(k, serving.order) \in ToClient
    BY <2>1, Messages DEF ToStore
  <2>4. toClient' \in Seq(ToClient)
    BY <2>2, <2>3 DEF TypesInv
  <2>5. QED
    BY <1>2, <2>4 DEF TypesInv, Reply, clientVars, taskVars
<1>3. ASSUME StoreCloses
      PROVE  TypesInv'
  <2>1. PICK i \in 0 .. Len(toClient) : toClient' = SubSeq(toClient, 1, i)
    BY <1>3 DEF StoreCloses
  <2>2. toClient' \in Seq(ToClient) /\ toStore' \in Seq(ToStore)
    BY <1>3, <2>1 DEF StoreCloses, TypesInv
  <2>3. QED
    BY <1>3, <2>2 DEF TypesInv, StoreCloses, clientVars, taskVars
<1>4. QED
  BY <1>1, <1>2, <1>3 DEF Serve

-----------------------------------------------------------------------------
\* The connection is shared.

ToCome == To(Whole(toClient, serving, toStore))

LEMMA ShareValues ==
  /\ AnswersInOrder <=> InOrder(lock, Reading, ToCome)
  /\ AnswersInOrder' <=> InOrder(lock', Reading', ToCome')
  /\ AnswersCome <=> (open => Reading \subseteq Range(ToCome))
  /\ AnswersCome' <=> (open' => Reading' \subseteq Range(ToCome'))
  BY DEF AnswersInOrder, AnswersCome, InOrder, Ahead, ToCome, To, Expected, Whole, Range, IsInjective

\* All messages.
AnyMessage == [kind : {"Order", "Confirm", "Commit", "Cancel"}, order : Orders]

LEMMA MessagesToCome ==
  ASSUME ShareInv
  PROVE  /\ Queue(lock) /\ Reading \subseteq Range(lock) /\ Reading \subseteq Orders
         /\ toClient \in Seq(AnyMessage) /\ toStore \in Seq(AnyMessage)
         /\ serving \in AnyMessage \cup {None}
         /\ \A m \in AnyMessage : m.order \in Orders
         /\ Whole(toClient, serving, toStore) \in Seq(AnyMessage)
         /\ ToCome \in Seq(Orders) /\ Queue(ToCome)
<1>1. Queue(lock)
  BY DEF ShareInv, TypesInv, QueueInv, Queue
<1>2. Reading \subseteq Range(lock) /\ Reading \subseteq Orders
  BY DEF ShareInv, QueueInv, Reading
<1>3. ToStore \subseteq AnyMessage /\ ToClient \subseteq AnyMessage
  BY DEF ToStore, ToClient, AnyMessage, Requests
<1>4. \A S, T : S \subseteq T => Seq(S) \subseteq Seq(T)
  OBVIOUS
<1>5. toClient \in Seq(AnyMessage) /\ toStore \in Seq(AnyMessage)
  BY <1>3, <1>4 DEF ShareInv, TypesInv
<1>6. serving \in AnyMessage \cup {None}
  BY <1>3 DEF ShareInv, TypesInv
<1>7. \A m \in AnyMessage : m.order \in Orders
  BY DEF AnyMessage
<1>8. Whole(toClient, serving, toStore) \in Seq(AnyMessage)
  BY <1>5, <1>6, WholeIsSeq
<1>9. ToCome \in Seq(Orders)
  BY <1>7, <1>8, ToIsSeq DEF ToCome
<1>10. InOrder(lock, Reading, ToCome)
  BY ShareValues DEF ShareInv
<1>11. QED
  BY <1>1, <1>2, <1>5, <1>6, <1>7, <1>8, <1>9, <1>10 DEF Queue, InOrder

\* While nobody works on an order nothing is on its way.
LEMMA NobodyWaits ==
  ASSUME ShareInv, \A o \in Orders : pc[o] = "done"
  PROVE  /\ lock = <<>> /\ Reading = {}
         /\ toClient = <<>> /\ serving = None /\ toStore = <<>>
<1>1. Reading = {}
  BY DEF Reading
<1>2. lock = <<>>
  <2>1. lock \in Seq(Orders) /\ Range(lock) = {}
    BY DEF ShareInv, TypesInv, QueueInv, Range
  <2>2. ASSUME lock # <<>>
        PROVE  FALSE
    BY <2>1, <2>2, FirstLeaves DEF ShareInv, QueueInv, Queue
  <2>3. QED
    BY <2>2
<1>3. Range(ToCome) = {}
  BY <1>1, ShareValues DEF ShareInv, InOrder
<1>4. ToCome = <<>>
  BY <1>3, FirstLeaves, MessagesToCome
<1>5. Len(Whole(toClient, serving, toStore)) = 0
  <2>1. Len(To(Whole(toClient, serving, toStore))) = Len(Whole(toClient, serving, toStore))
    BY MessagesToCome, ToIsSeq
  <2>2. QED
    BY <1>4, <2>1 DEF ToCome
<1>6. PICK c, v, t : c = toClient /\ v = serving /\ t = toStore
  OBVIOUS
<1>7. /\ c \in Seq(AnyMessage) /\ t \in Seq(AnyMessage) /\ v \in AnyMessage \cup {None}
      /\ Len(Whole(c, v, t)) = 0
  BY <1>5, <1>6, MessagesToCome
<1>8. CASE v = None
  <2>1. Len(c \o t) = 0
    BY <1>7, <1>8 DEF Whole
  <2>2. c = <<>> /\ t = <<>>
    BY <1>7, <2>1
  <2>3. QED
    BY <1>1, <1>2, <1>6, <1>8, <2>2
<1>9. CASE v # None
  <2>1. Len(c \o <<v>> \o t) = 0 /\ v \in AnyMessage
    BY <1>7, <1>9 DEF Whole
  <2>2. FALSE
    BY <1>7, <2>1
  <2>3. QED
    BY <2>2
<1>10. QED
  BY <1>8, <1>9

LEMMA ShareStart == Init => ShareInv
<1> SUFFICES ASSUME Init PROVE ShareInv
  OBVIOUS
<1>1. TypesInv
  BY TypesStart
<1>2. Range(lock) = {} /\ IsInjective(lock) /\ Reading = {}
  BY DEF Init, Range, IsInjective, Reading
<1>3. QueueInv /\ PhaseInv
  BY <1>2 DEF Init, QueueInv, PhaseInv
<1>4. ToCome = <<>>
  <2>1. Whole(toClient, serving, toStore) = <<>>
    BY DEF Init, Whole
  <2>2. QED
    BY <2>1 DEF ToCome, To
<1>5. InOrder(lock, Reading, ToCome) /\ ~open
  BY <1>2, <1>4 DEF InOrder, IsInjective, Range, Init
<1>6. AnswersInOrder /\ AnswersCome
  BY <1>5, ShareValues
<1>7. QED
  BY <1>1, <1>3, <1>6 DEF ShareInv

\* The main loop begins and ends a connection while nobody waits.
LEMMA ShareMain ==
  ASSUME ShareInv, Main
  PROVE  ShareInv'
<1>1. TypesInv'
  BY TypesMain DEF ShareInv
<1>2. \A o \in Orders : pc[o] = "done"
  BY DEF Main, Connect, ConnectFails, NextStore, Joined, Finish, ShareInv, PhaseInv
<1>3. /\ lock = <<>> /\ Reading = {}
      /\ toClient = <<>> /\ serving = None /\ toStore = <<>>
  BY <1>2, NobodyWaits
<1>4. /\ lock' = <<>> /\ toClient' = <<>> /\ serving' = None /\ toStore' = <<>>
      /\ \A o \in Orders : pc'[o] \in {"spawned", "done"}
  BY <1>2, <1>3 DEF Main, Connect, ConnectFails, NextStore, Finish, taskVars, storeVars
<1>5. Range(lock') = {} /\ IsInjective(lock') /\ Reading' = {}
  BY <1>4 DEF Range, IsInjective, Reading
<1>6. QueueInv'
  BY <1>4, <1>5 DEF QueueInv
<1>7. ToCome' = <<>>
  <2>1. Whole(toClient', serving', toStore') = <<>>
    BY <1>4 DEF Whole
  <2>2. QED
    BY <2>1 DEF ToCome, To
<1>8. AnswersInOrder' /\ AnswersCome'
  BY <1>5, <1>7, ShareValues DEF InOrder, Range, IsInjective
<1>9. PhaseInv'
  <2>1. ASSUME NEW s \in Store, Connect(s)
        PROVE  PhaseInv'
    BY <1>4, <2>1 DEF Connect, PhaseInv, taskVars
  <2>2. ASSUME NEW s \in Store, ConnectFails(s)
        PROVE  PhaseInv'
    BY <1>2, <2>2 DEF ConnectFails, PhaseInv, ShareInv, taskVars, storeVars
  <2>3. ASSUME NextStore
        PROVE  PhaseInv'
    BY <1>2, <1>4, <2>3 DEF NextStore, PhaseInv, ShareInv
  <2>4. ASSUME Finish
        PROVE  PhaseInv'
    BY <1>2, <2>4 DEF Finish, PhaseInv, ShareInv, taskVars, storeVars
  <2>5. QED
    BY <2>1, <2>2, <2>3, <2>4 DEF Main
<1>10. QED
  BY <1>1, <1>6, <1>8, <1>9 DEF ShareInv

\* What a task does to the lock's queue.
LEMMA LockMoves ==
  ASSUME ShareInv, NEW o \in Orders, NEW w,
         w \in {"spawned", "order", "answer", "decide", "outcome", "done"},
         pc' = [pc EXCEPT ![o] = w],
         \/ pc[o] = "spawned" /\ w \notin {"spawned", "done"} /\ lock' = Append(lock, o)
         \/ Holds(o) /\ w \notin {"spawned", "done"} /\ lock' = Append(Tail(lock), o)
         \/ Holds(o) /\ w = "done" /\ lock' = Tail(lock)
  PROVE  QueueInv'
<1>1. Queue(lock)
  BY MessagesToCome
<1>2. \A p \in Orders : pc'[p] = IF p = o THEN w ELSE pc[p]
  BY DEF ShareInv, TypesInv
<1>3. CASE pc[o] = "spawned" /\ w \notin {"spawned", "done"} /\ lock' = Append(lock, o)
  <2>1. o \notin Range(lock)
    BY <1>3 DEF ShareInv, QueueInv
  <2>2. IsInjective(lock') /\ Range(lock') = Range(lock) \cup {o}
    BY <1>1, <1>3, <2>1, GoesLast DEF Queue
  <2>3. QED
    BY <1>2, <1>3, <2>2 DEF ShareInv, QueueInv
<1>4. CASE Holds(o) /\ w \notin {"spawned", "done"} /\ lock' = Append(Tail(lock), o)
  <2>1. lock # <<>> /\ Head(lock) = o
    BY <1>4 DEF Holds
  <2>2. IsInjective(lock') /\ Range(lock') = Range(lock) /\ o \in Range(lock)
    BY <1>1, <1>4, <2>1, FirstGoesLast, FirstLeaves DEF Queue
  <2>3. QED
    BY <1>2, <1>4, <2>2 DEF ShareInv, QueueInv
<1>5. CASE Holds(o) /\ w = "done" /\ lock' = Tail(lock)
  <2>1. lock # <<>> /\ Head(lock) = o
    BY <1>5 DEF Holds
  <2>2. IsInjective(lock') /\ Range(lock') = Range(lock) \ {o}
    BY <1>1, <1>5, <2>1, FirstLeaves DEF Queue
  <2>3. QED
    BY <1>2, <1>5, <2>2 DEF ShareInv, QueueInv
<1>6. QED
  BY <1>3, <1>4, <1>5

LEMMA Waiting ==
  ASSUME TypesInv, NEW o \in Orders, NEW w, pc' = [pc EXCEPT ![o] = w]
  PROVE  /\ w \in {"answer", "outcome"} => Reading' = Reading \cup {o}
         /\ w \notin {"answer", "outcome"} => Reading' = Reading \ {o}
         /\ o \in Reading <=> pc[o] \in {"answer", "outcome"}
<1>1. \A p \in Orders : pc'[p] = IF p = o THEN w ELSE pc[p]
  BY DEF TypesInv
<1>2. QED
  BY <1>1 DEF Reading

\* The head of the queue, as the lemmas about values name it.
LEMMA Holder ==
  ASSUME ShareInv, NEW o \in Orders, Holds(o)
  PROVE  /\ Queue(lock) /\ lock # <<>> /\ Head(lock) = o /\ o \in Range(lock)
         /\ pc[o] \notin {"spawned", "done"} /\ phase = "trading" /\ o \in orders
<1>1. Queue(lock) /\ lock # <<>> /\ Head(lock) = o
  BY MessagesToCome DEF Holds
<1>2. o \in Range(lock)
  BY <1>1, FirstLeaves
<1>3. pc[o] \notin {"spawned", "done"}
  BY <1>2 DEF ShareInv, QueueInv
<1>4. QED
  BY <1>1, <1>2, <1>3 DEF ShareInv, PhaseInv

LEMMA ShareStarts ==
  ASSUME ShareInv, NEW o \in Orders, Start(o)
  PROVE  ShareInv'
<1>1. TypesInv'
  BY TypesTask DEF ShareInv, Task
<1>2. QueueInv'
  BY LockMoves DEF Start, Goes
<1>3. Reading' = Reading /\ o \notin Reading /\ o \notin Range(lock)
  <2>1. TypesInv /\ pc[o] = "spawned" /\ pc' = [pc EXCEPT ![o] = "order"]
    BY DEF ShareInv, Start, Goes
  <2>0. PICK w : w = "order"
    OBVIOUS
  <2>2. Reading' = Reading \ {o} /\ o \notin Reading
    <3>1. pc' = [pc EXCEPT ![o] = w] /\ w \notin {"answer", "outcome"}
      BY <2>0, <2>1
    <3>2. QED
      BY <2>1, <3>1, Waiting
  <2>3. QED
    BY <2>1, <2>2 DEF ShareInv, QueueInv
<1>4. ToCome' = ToCome
  BY DEF Start, storeVars, ToCome
<1>5. InOrder(lock', Reading', ToCome')
  <2>1. InOrder(lock, Reading, ToCome) /\ Queue(lock)
    BY MessagesToCome, ShareValues DEF ShareInv
  <2>2. InOrder(Append(lock, o), Reading, ToCome)
    BY <1>3, <2>1, StarterInOrder
  <2>3. QED
    BY <1>3, <1>4, <2>2 DEF Start
<1>6. AnswersInOrder' /\ AnswersCome'
  BY <1>3, <1>4, <1>5, ShareValues DEF ShareInv, Start, storeVars
<1>7. PhaseInv'
  BY DEF ShareInv, PhaseInv, TypesInv, Start, Goes, clientVars, storeVars
<1>8. QED
  BY <1>1, <1>2, <1>6, <1>7 DEF ShareInv

LEMMA ShareWrites ==
  ASSUME ShareInv, NEW o \in Orders, WriteOrder(o) \/ WriteDecision(o)
  PROVE  ShareInv'
<1>1. TypesInv'
  BY TypesTask DEF ShareInv, Task
<1>2. PICK k \in Requests, w \in {"answer", "outcome"} : Goes(o, w) /\ Write(o, Message(k, o))
  BY DEF WriteOrder, WriteDecision, Requests, ShareInv, TypesInv, PhaseInv
<1>3. Holds(o) /\ pc' = [pc EXCEPT ![o] = w] /\ lock' = Append(Tail(lock), o)
  BY <1>2 DEF Goes, Write, Requeue
<1>4. QueueInv'
  BY <1>3, LockMoves
<1>5. Reading' = Reading \cup {o} /\ o \notin Reading
  <2>1. pc[o] \notin {"answer", "outcome"}
    BY DEF WriteOrder, WriteDecision
  <2>2. QED
    BY <1>3, <2>1, Waiting DEF ShareInv
<1>6. InOrder(lock, Reading, ToCome)
  BY ShareValues DEF ShareInv
<1>7. InOrder(lock', Reading', ToCome') /\ (open' => Reading' \subseteq Range(ToCome'))
  <2>1. CASE open
    <3>1. ToCome' = Append(ToCome, o)
      <4>1. Message(k, o) \in AnyMessage /\ Message(k, o).order = o
        BY DEF Message, AnyMessage, Requests
      <4>2. toClient' = toClient /\ serving' = serving /\ toStore' = Append(toStore, Message(k, o))
        BY <1>2, <2>1 DEF Write
      <4>3. Whole(toClient', serving', toStore')
              = Append(Whole(toClient, serving, toStore), Message(k, o))
        <5>1. Whole(toClient, serving, Append(toStore, Message(k, o)))
                = Append(Whole(toClient, serving, toStore), Message(k, o))
          <6>1. /\ toClient \in Seq(AnyMessage) /\ toStore \in Seq(AnyMessage)
                /\ serving \in AnyMessage \cup {None}
            BY MessagesToCome
          <6>2. QED
            BY <4>1, <6>1, WholeWritten
        <5>2. QED
          BY <4>2, <5>1
      <4>4. To(Append(Whole(toClient, serving, toStore), Message(k, o)))
              = Append(To(Whole(toClient, serving, toStore)), o)
        BY <4>1, MessagesToCome, ToMoves
      <4>5. QED
        BY <4>3, <4>4 DEF ToCome
    <3>2. Reading \subseteq Range(ToCome)
      BY <2>1, ShareValues DEF ShareInv
    <3>3. InOrder(Append(Tail(lock), o), Reading \cup {o}, Append(ToCome, o))
      BY <1>3, <1>5, <1>6, <3>2, Holder, MessagesToCome, WriterInOrder
    <3>4. Range(Append(ToCome, o)) = Range(ToCome) \cup {o}
      BY <1>5, <1>6, MessagesToCome, GoesLast DEF InOrder
    <3>5. QED
      BY <1>3, <1>5, <3>1, <3>2, <3>3, <3>4
  <2>2. CASE ~open
    <3>1. ToCome' = ToCome /\ open' = open
      BY <1>2, <2>2 DEF Write, ToCome
    <3>2. o \notin Range(ToCome) /\ Range(ToCome) \subseteq Reading \cup {o}
      BY <1>5, <1>6 DEF InOrder
    <3>3. InOrder(Append(Tail(lock), o), Reading \cup {o}, ToCome)
      BY <1>3, <1>6, <3>2, Holder, HolderInOrder
    <3>4. QED
      BY <1>3, <1>5, <2>2, <3>1, <3>3
  <2>3. QED
    BY <2>1, <2>2
<1>8. AnswersInOrder' /\ AnswersCome'
  BY <1>7, ShareValues
<1>9. PhaseInv'
  <2>1. phase = "trading" /\ o \in orders
    BY <1>3, Holder
  <2>2. \A p \in Orders : pc'[p] = IF p = o THEN w ELSE pc[p]
    BY <1>3 DEF ShareInv, TypesInv
  <2>3. ~open => toStore' = toStore
    BY <1>2 DEF Write
  <2>4. QED
    BY <1>2, <2>1, <2>2, <2>3 DEF ShareInv, PhaseInv, Write, clientVars
<1>10. QED
  BY <1>1, <1>4, <1>8, <1>9 DEF ShareInv

LEMMA ShareFails ==
  ASSUME ShareInv, NEW o \in Orders, WriteFails(o) \/ ReadFails(o)
  PROVE  ShareInv'
<1>1. TypesInv'
  BY TypesTask DEF ShareInv, Task
<1>2. /\ Holds(o) /\ pc' = [pc EXCEPT ![o] = "done"] /\ lock' = Tail(lock)
      /\ ~open /\ UNCHANGED <<phase, ports, orders, at, open, toStore, serving, toClient, decision>>
  BY DEF WriteFails, ReadFails, Returns, Goes, Release, clientVars, storeVars
<1>3. QueueInv'
  BY <1>2, LockMoves
<1>4. Reading' = Reading \ {o}
  <2>1. PICK w : w = "done"
    OBVIOUS
  <2>2. TypesInv /\ pc' = [pc EXCEPT ![o] = w] /\ w \notin {"answer", "outcome"}
    BY <1>2, <2>1 DEF ShareInv
  <2>3. QED
    BY <2>2, Waiting
<1>5. ToCome' = ToCome
  BY <1>2 DEF ToCome
<1>6. InOrder(lock, Reading, ToCome)
  BY ShareValues DEF ShareInv
<1>7. o \notin Range(ToCome) /\ Range(ToCome) \subseteq Reading \ {o}
  <2>1. CASE WriteFails(o)
    <3>1. o \notin Reading
      BY <2>1 DEF WriteFails, Reading
    <3>2. QED
      BY <1>6, <3>1 DEF InOrder
  <2>2. CASE ReadFails(o)
    <3>1. toClient = <<>> /\ serving = None /\ toStore = <<>>
      BY <1>2, <2>2 DEF ReadFails, ShareInv, PhaseInv
    <3>2. ToCome = <<>>
      <4>1. Whole(toClient, serving, toStore) = <<>>
        BY <3>1 DEF Whole
      <4>2. QED
        BY <4>1 DEF ToCome, To
    <3>3. QED
      BY <3>2 DEF Range
  <2>3. QED
    BY <2>1, <2>2
<1>8. InOrder(lock', Reading', ToCome')
  <2>1. InOrder(Tail(lock), Reading \ {o}, ToCome)
    BY <1>2, <1>6, <1>7, Holder, HolderInOrder
  <2>2. QED
    BY <1>2, <1>4, <1>5, <2>1
<1>9. AnswersInOrder' /\ AnswersCome'
  BY <1>2, <1>8, ShareValues
<1>10. PhaseInv'
  BY <1>2, Holder DEF ShareInv, TypesInv, PhaseInv
<1>11. QED
  BY <1>1, <1>3, <1>9, <1>10 DEF ShareInv

\* A reader that holds the lock finds the answer to its own message.
LEMMA OwnAnswer ==
  ASSUME ShareInv, NEW o \in Reading, Holds(o), toClient # <<>>
  PROVE  /\ Head(toClient).order = o
         /\ InOrder(Tail(lock), Reading \ {o}, To(Whole(Tail(toClient), serving, toStore)))
         /\ InOrder(Append(Tail(lock), o), Reading \ {o}, To(Whole(Tail(toClient), serving, toStore)))
         /\ Range(To(Whole(Tail(toClient), serving, toStore))) = Range(ToCome) \ {o}
<1>1. o \in Orders /\ Queue(lock) /\ lock # <<>> /\ Head(lock) = o /\ Reading \subseteq Range(lock)
  BY MessagesToCome, Holder
<1>2. PICK e : e = Whole(toClient, serving, toStore)
  OBVIOUS
<1>3. /\ e \in Seq(AnyMessage) /\ e # <<>> /\ Head(e) = Head(toClient)
      /\ Whole(Tail(toClient), serving, toStore) = Tail(e)
  <2>1. /\ toClient \in Seq(AnyMessage) /\ serving \in AnyMessage \cup {None}
        /\ toStore \in Seq(AnyMessage) /\ e \in Seq(AnyMessage)
    BY <1>2, MessagesToCome
  <2>2. /\ Whole(toClient, serving, toStore) # <<>>
        /\ Head(Whole(toClient, serving, toStore)) = Head(toClient)
        /\ Whole(Tail(toClient), serving, toStore) = Tail(Whole(toClient, serving, toStore))
    BY <2>1, WholeRead
  <2>3. QED
    BY <1>2, <2>1, <2>2
<1>4. To(Tail(e)) = Tail(To(e)) /\ To(e) # <<>> /\ Head(To(e)) = Head(e).order
  BY <1>3, MessagesToCome, ToMoves
<1>5. To(e) = ToCome /\ To(e) \in Seq(Orders) /\ InOrder(lock, Reading, To(e))
  BY <1>2, MessagesToCome, ShareValues DEF ToCome, ShareInv
<1>6. /\ Head(To(e)) = Head(lock) /\ Range(Tail(To(e))) = Range(To(e)) \ {Head(lock)}
      /\ \A l2 \in {Tail(lock), Append(Tail(lock), Head(lock))} :
           InOrder(l2, Reading \ {Head(lock)}, Tail(To(e)))
  BY <1>1, <1>4, <1>5, ReaderInOrder
<1>7. QED
  BY <1>1, <1>3, <1>4, <1>5, <1>6

LEMMA ShareReads ==
  ASSUME ShareInv, NEW o \in Orders, ReadAnswer(o) \/ ReadOutcome(o)
  PROVE  ShareInv'
<1>1. TypesInv'
  BY TypesTask DEF ShareInv, Task
<1>2. /\ Holds(o) /\ o \in Reading /\ toClient # <<>> /\ toClient' = Tail(toClient)
      /\ UNCHANGED <<phase, ports, orders, at, open, toStore, serving>>
  BY DEF ReadAnswer, ReadOutcome, Reading, clientVars
<1>3. PICK w \in {"decide", "done"} :
        /\ pc' = [pc EXCEPT ![o] = w]
        /\ w = "decide" => /\ lock' = Append(Tail(lock), o)
                           /\ \E d \in {"Commit", "Cancel"} : decision' = [decision EXCEPT ![o] = d]
        /\ w = "done" => lock' = Tail(lock) /\ decision' = decision
  BY DEF ReadAnswer, ReadOutcome, Decide, Returns, Goes, Requeue, Release
<1>4. QueueInv'
  BY <1>2, <1>3, LockMoves
<1>5. Reading' = Reading \ {o}
  <2>1. TypesInv
    BY DEF ShareInv
  <2>2. QED
    BY <1>3, <2>1, Waiting
<1>6. ToCome' = To(Whole(Tail(toClient), serving, toStore))
  BY <1>2 DEF ToCome
<1>7. InOrder(lock', Reading', ToCome') /\ Range(ToCome') = Range(ToCome) \ {o}
  BY <1>2, <1>3, <1>5, <1>6, OwnAnswer
<1>8. AnswersInOrder' /\ AnswersCome'
  BY <1>2, <1>5, <1>7, ShareValues DEF ShareInv
<1>9. PhaseInv'
  <2>1. phase = "trading" /\ o \in orders
    BY <1>2, Holder
  <2>2. \A p \in Orders : pc'[p] = IF p = o THEN w ELSE pc[p]
    BY <1>3 DEF ShareInv, TypesInv
  <2>3. \A p \in Orders : pc'[p] = "decide" => decision'[p] # None
    <3>1. "Commit" # None /\ "Cancel" # None
      BY NoneAssumption DEF Requests
    <3>2. CASE w = "decide"
      <4>1. PICK d \in {"Commit", "Cancel"} : decision' = [decision EXCEPT ![o] = d]
        BY <1>3, <3>2
      <4>2. \A p \in Orders : decision'[p] = IF p = o THEN d ELSE decision[p]
        BY <4>1 DEF ShareInv, TypesInv
      <4>3. QED
        BY <2>2, <3>1, <3>2, <4>2 DEF ShareInv, PhaseInv
    <3>3. CASE w = "done"
      BY <1>3, <2>2, <3>3 DEF ShareInv, PhaseInv
    <3>4. QED
      BY <3>2, <3>3
  <2>4. QED
    BY <1>2, <2>1, <2>2, <2>3 DEF ShareInv, PhaseInv
<1>10. QED
  BY <1>1, <1>4, <1>8, <1>9 DEF ShareInv

LEMMA ShareTakes ==
  ASSUME ShareInv, Take
  PROVE  ShareInv'
<1>1. TypesInv'
  BY TypesServe DEF ShareInv, Serve
<1>2. UNCHANGED <<phase, ports, orders, at, lock, pc, decision, result, open, toClient>>
  BY DEF Take, clientVars, taskVars
<1>3. Reading' = Reading
  BY <1>2 DEF Reading
<1>4. ToCome' = ToCome
  <2>1. PICK c, t : c = toClient /\ t = toStore
    OBVIOUS
  <2>2. /\ c \in Seq(AnyMessage) /\ t \in Seq(AnyMessage) /\ t # <<>>
        /\ serving = None /\ serving' = Head(t) /\ toClient' = c /\ toStore' = Tail(t)
    BY <2>1, MessagesToCome DEF Take
  <2>3. Head(t) # None
    <3>1. Head(t) \in ToStore
      BY <2>1, <2>2 DEF ShareInv, TypesInv
    <3>2. QED
      BY <3>1, NoneAssumption DEF ToStore
  <2>4. Whole(c, Head(t), Tail(t)) = Whole(c, None, t)
    BY <2>2, <2>3, WholeTaken
  <2>5. QED
    BY <2>1, <2>2, <2>4 DEF ToCome
<1>5. AnswersInOrder' /\ AnswersCome'
  <2>1. InOrder(lock', Reading', ToCome') /\ (open' => Reading' \subseteq Range(ToCome'))
    BY <1>2, <1>3, <1>4, ShareValues DEF ShareInv
  <2>2. QED
    BY <2>1, ShareValues
<1>6. QueueInv' /\ PhaseInv'
  BY <1>2 DEF ShareInv, QueueInv, PhaseInv, Take
<1>7. QED
  BY <1>1, <1>5, <1>6 DEF ShareInv

LEMMA ShareReplies ==
  ASSUME ShareInv, Reply
  PROVE  ShareInv'
<1>1. TypesInv'
  BY TypesServe DEF ShareInv, Serve
<1>2. UNCHANGED <<phase, ports, orders, at, lock, pc, decision, result, open, toStore>>
  BY DEF Reply, clientVars, taskVars
<1>3. Reading' = Reading
  BY <1>2 DEF Reading
<1>4. ToCome' = ToCome
  <2>1. PICK c, v, t : c = toClient /\ v = serving /\ t = toStore
    OBVIOUS
  <2>2. v \in ToStore /\ v \in AnyMessage /\ v # None /\ v.order \in Orders
    BY <2>1, MessagesToCome DEF Reply, ShareInv, TypesInv, AnyMessage
  <2>3. PICK k \in {"Confirm", "Commit", "Cancel"} : toClient' = Append(c, Message(k, v.order))
    BY <2>1, <2>2 DEF Reply, ToStore, Requests
  <2>4. PICK a : a = Message(k, v.order)
    OBVIOUS
  <2>5. a \in AnyMessage /\ a.order = v.order
    BY <2>2, <2>4 DEF AnyMessage, Message
  <2>6. c \in Seq(AnyMessage) /\ t \in Seq(AnyMessage)
    BY <2>1, MessagesToCome
  <2>7. To(Whole(Append(c, a), None, t)) = To(Whole(c, v, t))
    BY <2>2, <2>5, <2>6, WholeAnswered
  <2>8. serving' = None /\ toStore' = t
    BY <2>1 DEF Reply
  <2>9. QED
    BY <2>1, <2>3, <2>4, <2>7, <2>8 DEF ToCome
<1>5. AnswersInOrder' /\ AnswersCome'
  <2>1. InOrder(lock', Reading', ToCome') /\ (open' => Reading' \subseteq Range(ToCome'))
    BY <1>2, <1>3, <1>4, ShareValues DEF ShareInv
  <2>2. QED
    BY <2>1, ShareValues
<1>6. QueueInv' /\ PhaseInv'
  BY <1>2 DEF ShareInv, QueueInv, PhaseInv, Reply
<1>7. QED
  BY <1>1, <1>5, <1>6 DEF ShareInv

LEMMA ShareCloses ==
  ASSUME ShareInv, StoreCloses
  PROVE  ShareInv'
<1>1. TypesInv'
  BY TypesServe DEF ShareInv
<1>2. /\ UNCHANGED <<phase, ports, orders, at, lock, pc, decision, result>>
      /\ open' = FALSE /\ serving' = None /\ toStore' = <<>> /\ phase = "trading"
  BY DEF StoreCloses, clientVars, taskVars
<1>3. Reading' = Reading
  BY <1>2 DEF Reading
<1>4. InOrder(lock, Reading, ToCome')
  <2>1. PICK c, v, t, i : /\ c = toClient /\ v = serving /\ t = toStore
                          /\ i \in 0 .. Len(c) /\ toClient' = SubSeq(c, 1, i)
    BY DEF StoreCloses
  <2>2. PICK e : e = Whole(c, v, t)
    OBVIOUS
  <2>3. /\ c \in Seq(AnyMessage) /\ t \in Seq(AnyMessage) /\ v \in AnyMessage \cup {None}
        /\ e \in Seq(AnyMessage) /\ ToCome = To(e)
    BY <2>1, <2>2, MessagesToCome DEF ToCome
  <2>4. Whole(SubSeq(c, 1, i), None, <<>>) = SubSeq(e, 1, i)
    BY <2>1, <2>2, <2>3, WholeLost
  <2>5. i \in 0 .. Len(e)
    <3>1. Len(SubSeq(c, 1, i)) = i /\ SubSeq(c, 1, i) \in Seq(AnyMessage)
      BY <2>1, <2>3
    <3>2. Len(e) >= Len(c)
      <4>1. CASE v = None
        <5>1. e = c \o t
          BY <2>2, <2>3, <4>1 DEF Whole
        <5>2. QED
          BY <2>3, <5>1
      <4>2. CASE v # None
        <5>1. e = c \o <<v>> \o t /\ v \in AnyMessage
          BY <2>2, <2>3, <4>2 DEF Whole
        <5>2. QED
          BY <2>3, <5>1
      <4>3. QED
        BY <4>1, <4>2
    <3>3. QED
      BY <2>1, <2>3, <3>2
  <2>6. To(SubSeq(e, 1, i)) = SubSeq(To(e), 1, i) /\ Len(To(e)) = Len(e) /\ To(e) \in Seq(Orders)
    BY <2>3, <2>5, MessagesToCome, ToMoves, ToIsSeq
  <2>7. InOrder(lock, Reading, To(e))
    BY <2>3, ShareValues DEF ShareInv
  <2>8. InOrder(lock, Reading, SubSeq(To(e), 1, i))
    BY <2>5, <2>6, <2>7, LossInOrder
  <2>9. ToCome' = SubSeq(To(e), 1, i)
    BY <1>2, <2>1, <2>4, <2>6 DEF ToCome
  <2>10. QED
    BY <2>8, <2>9
<1>5. AnswersInOrder' /\ AnswersCome'
  <2>1. InOrder(lock', Reading', ToCome') /\ ~open'
    BY <1>2, <1>3, <1>4
  <2>2. QED
    BY <2>1, ShareValues
<1>6. QueueInv' /\ PhaseInv'
  BY <1>2 DEF ShareInv, QueueInv, PhaseInv
<1>7. QED
  BY <1>1, <1>5, <1>6 DEF ShareInv

LEMMA ShareStep == ShareInv /\ [Next]_vars => ShareInv'
<1> SUFFICES ASSUME ShareInv, [Next]_vars PROVE ShareInv'
  OBVIOUS
<1>1. ASSUME NEW o \in Orders, Task(o)
      PROVE  ShareInv'
  BY <1>1, ShareStarts, ShareWrites, ShareFails, ShareReads DEF Task
<1>2. CASE UNCHANGED vars
  <2>1. UNCHANGED <<phase, ports, orders, at, lock, pc, decision, result>>
        /\ UNCHANGED <<open, toStore, serving, toClient, bought, unsure>>
    BY <1>2 DEF vars, clientVars, taskVars, storeVars
  <2>2. TypesInv' /\ QueueInv' /\ PhaseInv'
    BY <2>1 DEF ShareInv, TypesInv, QueueInv, PhaseInv
  <2>3. Reading' = Reading /\ ToCome' = ToCome
    BY <2>1 DEF Reading, ToCome
  <2>4. InOrder(lock', Reading', ToCome') /\ (open' => Reading' \subseteq Range(ToCome'))
    BY <2>1, <2>3, ShareValues DEF ShareInv
  <2>5. QED
    BY <2>2, <2>4, ShareValues DEF ShareInv
<1>3. QED
  BY <1>1, <1>2, ShareMain, ShareTakes, ShareReplies, ShareCloses DEF Next, Serve

THEOREM Shared == Spec => []ShareInv
<1>1. ShareInv /\ [Next]_vars => ShareInv'
  BY ShareStep
<1>2. QED
  BY <1>1, ShareStart, PTL DEF Spec

\* Answers carry no mark, yet every task reads the answer to its own message,
\* for any number of orders that share a connection (AnswersInOrder;
\* bin/ecommerce.rs:93-106, connection.rs:254-275).
THEOREM TasksReadTheirOwn == Spec => []AnswersInOrder
<1>1. ShareInv => AnswersInOrder
  BY DEF ShareInv
<1>2. QED
  BY <1>1, Shared, PTL

\* The fields have their types, and the lock's queue holds a task once, exactly
\* while it reads or writes (TypeOK).
THEOREM CustomerTypes == Spec => []TypeOK
<1>1. ShareInv => TypeOK
  <2> SUFFICES ASSUME ShareInv PROVE TypeOK
    OBVIOUS
  <2>1. \A m \in ToStore : IsMessage(m, Requests)
    BY DEF ToStore, IsMessage
  <2>2. \A m \in ToClient : IsMessage(m, {"Confirm", "Commit", "Cancel"})
    BY DEF ToClient, IsMessage
  <2>3. /\ \A i \in DOMAIN toStore : toStore[i] \in ToStore
        /\ \A i \in DOMAIN toClient : toClient[i] \in ToClient
    BY DEF ShareInv, TypesInv
  <2>4. ASSUME NEW o \in Orders
        PROVE  pc[o] \notin {"spawned", "done"} <=> Cardinality({i \in DOMAIN lock : lock[i] = o}) = 1
    <3>1. pc[o] \notin {"spawned", "done"} <=> o \in Range(lock)
      BY DEF ShareInv, QueueInv
    <3>2. CASE o \in Range(lock)
      <4>1. PICK i \in DOMAIN lock : lock[i] = o
        BY <3>2 DEF Range
      <4>2. {j \in DOMAIN lock : lock[j] = o} = {i}
        BY <4>1 DEF ShareInv, QueueInv, IsInjective
      <4>3. QED
        BY <3>1, <3>2, <4>2, FS_Singleton
    <3>3. CASE o \notin Range(lock)
      <4>1. {j \in DOMAIN lock : lock[j] = o} = {}
        BY <3>3 DEF Range
      <4>2. QED
        BY <3>1, <3>3, <4>1, FS_EmptySet
    <3>4. QED
      BY <3>2, <3>3
  <2>5. QED
    BY <2>1, <2>2, <2>3, <2>4 DEF ShareInv, TypesInv, TypeOK
<1>2. QED
  BY <1>1, Shared, PTL

-----------------------------------------------------------------------------
\* What is reported is true.

\* Where the messages of c, v and t are in w.
Placed(c, v, t, w, n) ==
  /\ \A i \in DOMAIN c : i \in DOMAIN w /\ w[i] = c[i]
  /\ v # None => n = 1 /\ Len(c) + 1 \in DOMAIN w /\ w[Len(c) + 1] = v
  /\ \A i \in DOMAIN t : Len(c) + n + i \in DOMAIN w /\ w[Len(c) + n + i] = t[i]

LEMMA Positions ==
  ASSUME NEW T, NEW c \in Seq(T), NEW v \in T \cup {None}, NEW t \in Seq(T)
  PROVE  Placed(c, v, t, Whole(c, v, t), 0) \/ Placed(c, v, t, Whole(c, v, t), 1)
<1>1. CASE v = None
  <2>1. PICK w : w = c \o t
    OBVIOUS
  <2>2. Whole(c, v, t) = w
    BY <1>1, <2>1 DEF Whole
  <2>3. DOMAIN w = 1 .. Len(c) + Len(t) /\ DOMAIN c = 1 .. Len(c) /\ DOMAIN t = 1 .. Len(t)
        /\ Len(c) \in Nat /\ Len(t) \in Nat
    BY <2>1
  <2>4. \A i \in 1 .. Len(c) : i \in DOMAIN w /\ w[i] = c[i]
    BY <2>1, <2>3
  <2>5. \A i \in 1 .. Len(t) : Len(c) + 0 + i \in DOMAIN w /\ w[Len(c) + 0 + i] = t[i]
    BY <2>1, <2>3
  <2>6. Placed(c, v, t, w, 0)
    BY <1>1, <2>3, <2>4, <2>5 DEF Placed
  <2>7. QED
    BY <2>2, <2>6
<1>2. CASE v # None
  <2>1. PICK w : w = c \o <<v>> \o t
    OBVIOUS
  <2>2. Whole(c, v, t) = w /\ v \in T
    BY <1>2, <2>1 DEF Whole
  <2>3. DOMAIN w = 1 .. Len(c) + 1 + Len(t) /\ DOMAIN c = 1 .. Len(c) /\ DOMAIN t = 1 .. Len(t)
        /\ Len(c) \in Nat /\ Len(t) \in Nat
    BY <2>1, <2>2
  <2>4. \A i \in 1 .. Len(c) : i \in DOMAIN w /\ w[i] = c[i]
    BY <2>1, <2>2, <2>3
  <2>5. \A i \in 1 .. Len(t) : Len(c) + 1 + i \in DOMAIN w /\ w[Len(c) + 1 + i] = t[i]
    BY <2>1, <2>2, <2>3
  <2>6. Len(c) + 1 \in DOMAIN w /\ w[Len(c) + 1] = v
    BY <2>1, <2>2, <2>3
  <2>7. Placed(c, v, t, w, 1)
    BY <2>3, <2>4, <2>5, <2>6 DEF Placed
  <2>8. QED
    BY <2>2, <2>7
<1>3. QED
  BY <1>1, <1>2

\* Messages are about orders whose tasks wait, each about one of its own.
LEMMA Apart ==
  ASSUME ShareInv
  PROVE  /\ \A i \in DOMAIN toClient : toClient[i].order \in Reading
         /\ \A i \in DOMAIN toStore : toStore[i].order \in Reading
         /\ serving # None => serving.order \in Reading
         /\ \A i, j \in DOMAIN toClient : toClient[i].order = toClient[j].order => i = j
         /\ \A i, j \in DOMAIN toStore : toStore[i].order = toStore[j].order => i = j
         /\ \A i \in DOMAIN toClient, j \in DOMAIN toStore : toClient[i].order # toStore[j].order
         /\ serving # None => \A i \in DOMAIN toClient : toClient[i].order # serving.order
<1>1. PICK c, v, t, w : c = toClient /\ v = serving /\ t = toStore /\ w = Whole(c, v, t)
  OBVIOUS
<1>2. /\ c \in Seq(AnyMessage) /\ t \in Seq(AnyMessage) /\ v \in AnyMessage \cup {None}
      /\ w \in Seq(AnyMessage) /\ ToCome = To(w)
  BY <1>1, MessagesToCome DEF ToCome
<1>3. DOMAIN To(w) = DOMAIN w /\ \A i \in DOMAIN w : To(w)[i] = w[i].order
  BY <1>2, MessagesToCome, ToIsSeq
<1>4. InOrder(lock, Reading, To(w))
  BY <1>2, ShareValues DEF ShareInv
<1>5. \A i \in DOMAIN w : w[i].order \in Reading
  BY <1>3, <1>4 DEF InOrder, Range
<1>6. \A i, j \in DOMAIN w : w[i].order = w[j].order => i = j
  BY <1>3, <1>4 DEF InOrder, IsInjective
<1>7. PICK n \in {0, 1} : Placed(c, v, t, w, n)
  <2>1. Placed(c, v, t, Whole(c, v, t), 0) \/ Placed(c, v, t, Whole(c, v, t), 1)
    BY <1>2, Positions
  <2>2. QED
    BY <1>1, <2>1
<1> USE DEF Placed
<1>8. DOMAIN c = 1 .. Len(c) /\ DOMAIN t = 1 .. Len(t) /\ Len(c) \in Nat /\ Len(t) \in Nat
  BY <1>2
<1>9. \A i \in DOMAIN c : c[i].order \in Reading
  BY <1>5, <1>7
<1>10. \A i \in DOMAIN t : t[i].order \in Reading
  BY <1>5, <1>7
<1>11. \A i, j \in DOMAIN c : c[i].order = c[j].order => i = j
  BY <1>6, <1>7
<1>12. ASSUME NEW i \in DOMAIN t, NEW j \in DOMAIN t, t[i].order = t[j].order
       PROVE  i = j
  <2>1. Len(c) + n + i = Len(c) + n + j
    BY <1>6, <1>7, <1>12
  <2>2. QED
    BY <1>8, <2>1
<1>13. ASSUME NEW i \in DOMAIN c, NEW j \in DOMAIN t, c[i].order = t[j].order
       PROVE  FALSE
  <2>1. i = Len(c) + n + j
    BY <1>6, <1>7, <1>13
  <2>2. QED
    BY <1>8, <2>1
<1>14. ASSUME v # None, NEW i \in DOMAIN c, c[i].order = v.order
       PROVE  FALSE
  <2>1. i = Len(c) + 1
    BY <1>6, <1>7, <1>14
  <2>2. QED
    BY <1>8, <2>1
<1>15. v # None => v.order \in Reading
  BY <1>5, <1>7
<1>16. QED
  BY <1>1, <1>9, <1>10, <1>11, <1>12, <1>13, <1>14, <1>15

\* A message means what it meant while nothing happens to its order.
LEMMA SameMeaning ==
  ASSUME NEW m, at' = at, pc'[m.order] = pc[m.order], decision'[m.order] = decision[m.order],
         bought'[m.order] = bought[m.order]
  PROVE  (Asks(m)' <=> Asks(m)) /\ (Tells(m)' <=> Tells(m))
         /\ (Committed(m.order)' <=> Committed(m.order))
  BY DEF Asks, Tells, Committed

LEMMA CarriedOthers ==
  ASSUME Carried, ShareInv, NEW o, at' = at, bought' = bought,
         \A p \in Orders \ {o} : pc'[p] = pc[p] /\ decision'[p] = decision[p],
         \A i \in DOMAIN toStore' :
           \/ \E j \in DOMAIN toStore : toStore'[i] = toStore[j] /\ toStore[j].order # o
           \/ (Asks(toStore[i]) /\ ~Committed(toStore[i].order))',
         serving' # None => serving' = serving /\ serving.order # o,
         \A i \in DOMAIN toClient' :
           \E j \in DOMAIN toClient : toClient'[i] = toClient[j] /\ toClient[j].order # o
  PROVE  Carried'
<1>1. ASSUME NEW m, m.order \in Orders, m.order # o
      PROVE  (Asks(m)' <=> Asks(m)) /\ (Tells(m)' <=> Tells(m))
             /\ (Committed(m.order)' <=> Committed(m.order))
  BY <1>1, SameMeaning
<1>2. Reading \subseteq Orders
  BY DEF Reading
<1>3. ASSUME NEW i \in DOMAIN toStore'
      PROVE  (Asks(toStore[i]) /\ ~Committed(toStore[i].order))'
  <2>1. ASSUME NEW j \in DOMAIN toStore, toStore'[i] = toStore[j], toStore[j].order # o
        PROVE  (Asks(toStore[i]) /\ ~Committed(toStore[i].order))'
    <3>1. PICK m : m = toStore[j]
      OBVIOUS
    <3>2. m.order \in Orders /\ m.order # o /\ Asks(m) /\ ~Committed(m.order)
      BY <1>2, <2>1, <3>1, Apart DEF Carried
    <3>3. Asks(m)' /\ ~Committed(m.order)'
      BY <1>1, <3>2
    <3>4. toStore'[i] = m
      BY <2>1, <3>1
    <3>5. QED
      BY <3>3, <3>4
  <2>2. QED
    BY <2>1
<1>4. ASSUME NEW i \in DOMAIN toClient'
      PROVE  (Tells(toClient[i]) /\ (Committed(toClient[i].order) <=> toClient[i].kind = "Commit"))'
  <2>1. PICK j \in DOMAIN toClient : toClient'[i] = toClient[j] /\ toClient[j].order # o
    OBVIOUS
  <2>2. PICK m : m = toClient[j]
    OBVIOUS
  <2>3. m.order \in Orders /\ m.order # o /\ Tells(m) /\ (Committed(m.order) <=> m.kind = "Commit")
    BY <1>2, <2>1, <2>2, Apart DEF Carried
  <2>4. Tells(m)' /\ (Committed(m.order)' <=> m.kind = "Commit")
    BY <1>1, <2>3
  <2>5. toClient'[i] = m
    BY <2>1, <2>2
  <2>6. QED
    BY <2>4, <2>5
<1>5. ASSUME serving' # None
      PROVE  (Asks(serving) /\ (Committed(serving.order) <=> serving.kind = "Commit"))'
  <2>1. PICK m : m = serving
    OBVIOUS
  <2>2. m.order \in Orders /\ m.order # o /\ Asks(m) /\ (Committed(m.order) <=> m.kind = "Commit")
    BY <1>2, <1>5, <2>1, Apart DEF Carried
  <2>3. Asks(m)' /\ (Committed(m.order)' <=> m.kind = "Commit")
    BY <1>1, <2>2
  <2>4. serving' = m
    BY <1>5, <2>1
  <2>5. QED
    BY <2>3, <2>4
<1>6. QED
  BY <1>3, <1>4, <1>5 DEF Carried

\* A step of one task is of no consequence to the others.
LEMMA ReportOthers ==
  ASSUME ReportInv, NEW o \in orders,
         at' = at, ports' = ports, orders' = orders, phase' = phase, bought' = bought,
         phase = "trading", at \notin ports, Carried',
         \A p \in Orders \ {o} : /\ pc'[p] = pc[p] /\ decision'[p] = decision[p]
                                 /\ result'[p] = result[p] /\ unsure'[p] = unsure[p],
         unsure[o] \subseteq unsure'[o], unsure'[o] \subseteq unsure[o] \cup {at},
         orders \subseteq Orders,
         pc'[o] # "done" => TaskStage(o)',
         pc'[o] = "done" => Reported(o)'
  PROVE  ReportInv'
<1>1. \A p \in Orders : (bought'[p] \cup unsure'[p]) \cap ports' = {}
  <2>1. \A p \in Orders : unsure'[p] \subseteq unsure[p] \cup {at}
    OBVIOUS
  <2>2. QED
    BY <2>1 DEF ReportInv
<1>2. \A p \in orders : bought'[p] \ {at'} \subseteq unsure'[p]
  BY DEF ReportInv
<1>3. ASSUME NEW p \in orders, pc'[p] # "done"
      PROVE  TaskStage(p)'
  BY <1>3 DEF ReportInv, TaskStage, Committed
<1>4. ASSUME NEW p \in orders, pc'[p] = "done"
      PROVE  Reported(p)'
  BY <1>4 DEF ReportInv, Reported, Committed
<1>5. ASSUME NEW p \in Orders
      PROVE  Truthful(p)'
  <2>1. CASE p # o
    BY <2>1 DEF ReportInv, Truthful
  <2>2. CASE p = o
    <3>1. \A s, t \in bought'[o] \ unsure'[o] : s = t
      BY DEF ReportInv, Truthful
    <3>2. CASE pc'[o] # "done"
      <4>1. result'[o] = "error"
        BY <3>2 DEF TaskStage
      <4>2. QED
        BY <2>2, <3>1, <4>1 DEF Truthful
    <3>3. CASE pc'[o] = "done"
      <4>1. /\ result'[o] = "bought" => at \in bought'[o] \ unsure'[o]
            /\ result'[o] = "cancelled" => at \notin bought'[o]
        BY <3>3 DEF Reported, Committed
      <4>2. bought'[o] \ {at} \subseteq unsure'[o]
        BY <1>2
      <4>3. QED
        BY <2>2, <3>1, <4>1, <4>2 DEF Truthful
    <3>4. QED
      BY <3>2, <3>3
  <2>3. QED
    BY <2>1, <2>2
<1>6. QED
  BY <1>1, <1>2, <1>3, <1>4, <1>5 DEF ReportInv

\* What holds while a task works.
LEMMA AtWork ==
  ASSUME ShareInv, ReportInv, NEW o \in Orders, pc[o] # "done"
  PROVE  /\ phase = "trading" /\ o \in orders /\ at \in Store /\ at \notin ports
         /\ TaskStage(o) /\ orders \subseteq Orders /\ bought[o] \ {at} \subseteq unsure[o]
<1>1. phase = "trading" /\ o \in orders /\ at \in Store \ ports
  BY DEF ShareInv, PhaseInv
<1>2. orders \subseteq Orders
  BY DEF ShareInv, TypesInv
<1>3. QED
  BY <1>1, <1>2 DEF ReportInv

LEMMA ReportStarts ==
  ASSUME ShareInv, ReportInv, NEW o \in Orders, Start(o)
  PROVE  ReportInv'
<1>1. /\ phase = "trading" /\ o \in orders /\ at \notin ports
      /\ TaskStage(o) /\ orders \subseteq Orders
  BY AtWork DEF Start
<1>2. UNCHANGED <<phase, ports, orders, at, decision, result, open, toStore, serving, toClient, bought, unsure>>
  BY DEF Start, clientVars, storeVars
<1>3. \A p \in Orders : pc'[p] = IF p = o THEN "order" ELSE pc[p]
  BY DEF Start, Goes, ShareInv, TypesInv
<1>4. o \notin Reading
  BY DEF Start, Reading
<1>5. Carried'
  <2>1. Carried
    BY DEF ReportInv
  <2>2. /\ \A i \in DOMAIN toStore : toStore[i].order # o
        /\ \A i \in DOMAIN toClient : toClient[i].order # o
        /\ serving # None => serving.order # o
    BY <1>4, Apart
  <2>3. QED
    BY <1>2, <1>3, <2>1, <2>2, CarriedOthers
<1>6. TaskStage(o)' /\ pc'[o] # "done"
  BY <1>1, <1>2, <1>3 DEF TaskStage, Committed, Start
<1>7. QED
  BY <1>1, <1>2, <1>3, <1>5, <1>6, ReportOthers

LEMMA ReportWrites ==
  ASSUME ShareInv, ReportInv, NEW o \in Orders, WriteOrder(o) \/ WriteDecision(o)
  PROVE  ReportInv'
<1>1. /\ phase = "trading" /\ o \in orders /\ at \notin ports
      /\ TaskStage(o) /\ orders \subseteq Orders
  BY AtWork DEF WriteOrder, WriteDecision
<1>2. PICK k, w : /\ Goes(o, w) /\ Write(o, Message(k, o))
                  /\ \/ pc[o] = "order" /\ k = "Order" /\ w = "answer"
                     \/ pc[o] = "decide" /\ k = decision[o] /\ w = "outcome"
  BY DEF WriteOrder, WriteDecision
<1>3. UNCHANGED <<phase, ports, orders, at, decision, result, serving, toClient, bought, unsure>>
  BY <1>2 DEF Write, clientVars
<1>4. \A p \in Orders : pc'[p] = IF p = o THEN w ELSE pc[p]
  BY <1>2 DEF Goes, ShareInv, TypesInv
<1>5. o \notin Reading
  BY <1>2 DEF Reading
<1>6. ~Committed(o) /\ ~Committed(o)'
  BY <1>1, <1>2, <1>3 DEF TaskStage, Committed
<1>7. ASSUME NEW i \in DOMAIN toStore'
      PROVE  \/ \E j \in DOMAIN toStore : toStore'[i] = toStore[j] /\ toStore[j].order # o
             \/ (Asks(toStore[i]) /\ ~Committed(toStore[i].order))'
  <2>1. CASE i \in DOMAIN toStore /\ toStore'[i] = toStore[i]
    BY <1>5, <2>1, Apart
  <2>2. CASE toStore'[i] = Message(k, o)
    <3>1. PICK m : m = Message(k, o)
      OBVIOUS
    <3>2. m.order = o /\ m.kind = k
      BY <3>1 DEF Message
    <3>3. Asks(m)'
      BY <1>2, <1>3, <1>4, <3>2 DEF Asks
    <3>4. ~Committed(m.order)'
      BY <1>6, <3>2
    <3>5. toStore'[i] = m
      BY <2>2, <3>1
    <3>6. QED
      BY <3>3, <3>4, <3>5
  <2>3. \/ i \in DOMAIN toStore /\ toStore'[i] = toStore[i]
        \/ toStore'[i] = Message(k, o)
    BY <1>2 DEF Write, ShareInv, TypesInv
  <2>4. QED
    BY <2>1, <2>2, <2>3
<1>8. Carried'
  <2>1. Carried
    BY DEF ReportInv
  <2>2. /\ \A i \in DOMAIN toClient : toClient[i].order # o
        /\ serving # None => serving.order # o
    BY <1>5, Apart
  <2>3. QED
    BY <1>3, <1>4, <1>7, <2>1, <2>2, CarriedOthers
<1>9. TaskStage(o)' /\ pc'[o] # "done"
  BY <1>1, <1>2, <1>3, <1>4, <1>6 DEF TaskStage
<1>10. QED
  BY <1>1, <1>3, <1>4, <1>8, <1>9, ReportOthers

LEMMA ReportFails ==
  ASSUME ShareInv, ReportInv, NEW o \in Orders, WriteFails(o) \/ ReadFails(o)
  PROVE  ReportInv'
<1>1. /\ Holds(o) /\ pc[o] # "done"
      /\ pc' = [pc EXCEPT ![o] = "done"] /\ result' = [result EXCEPT ![o] = "error"]
      /\ ~open /\ UNCHANGED <<phase, ports, orders, at, decision, toStore, serving, toClient, bought>>
  BY DEF WriteFails, ReadFails, Returns, Goes, clientVars, storeVars
<1>2. /\ phase = "trading" /\ o \in orders /\ at \in Store /\ at \notin ports
      /\ TaskStage(o) /\ orders \subseteq Orders
  BY <1>1, AtWork
<1>3. \A p \in Orders : /\ pc'[p] = IF p = o THEN "done" ELSE pc[p]
                        /\ result'[p] = IF p = o THEN "error" ELSE result[p]
  BY <1>1 DEF ShareInv, TypesInv
<1>4. /\ \A p \in Orders \ {o} : unsure'[p] = unsure[p]
      /\ unsure[o] \subseteq unsure'[o] /\ unsure'[o] \subseteq unsure[o] \cup {at}
      /\ Committed(o) => at \in unsure'[o]
  <2>1. CASE WriteFails(o)
    <3>1. unsure' = unsure /\ ~Committed(o)
      BY <1>2, <2>1 DEF WriteFails, TaskStage
    <3>2. QED
      BY <3>1
  <2>2. CASE ReadFails(o)
    <3>1. Committed(o) => decision[o] = "Commit"
      BY <1>2 DEF TaskStage
    <3>2. unsure' = IF decision[o] = "Commit" THEN [unsure EXCEPT ![o] = @ \cup {at}] ELSE unsure
      BY <2>2 DEF ReadFails
    <3>3. unsure \in [Orders -> SUBSET Store]
      BY DEF ShareInv, TypesInv
    <3>4. QED
      BY <3>1, <3>2, <3>3
  <2>3. QED
    BY <2>1, <2>2
<1>5. Carried'
  <2>1. /\ \A i \in DOMAIN toStore : toStore[i].order # o
        /\ \A i \in DOMAIN toClient : toClient[i].order # o
        /\ serving # None => serving.order # o
    <3>1. CASE WriteFails(o)
      <4>1. o \notin Reading
        BY <3>1 DEF WriteFails, Reading
      <4>2. QED
        BY <4>1, Apart
    <3>2. CASE ReadFails(o)
      BY <1>1, <3>2 DEF ReadFails, ShareInv, PhaseInv
    <3>3. QED
      BY <3>1, <3>2
  <2>2. Carried
    BY DEF ReportInv
  <2>3. QED
    BY <1>1, <1>3, <2>1, <2>2, CarriedOthers
<1>6. Reported(o)' /\ pc'[o] = "done"
  BY <1>1, <1>2, <1>3, <1>4 DEF Reported, Committed
<1>7. QED
  BY <1>1, <1>2, <1>3, <1>4, <1>5, <1>6, ReportOthers

\* What the answer that a task finds says of its order.
LEMMA AnswerTells ==
  ASSUME ShareInv, ReportInv, NEW o \in Reading, Holds(o), toClient # <<>>
  PROVE  /\ pc[o] = "answer" => Answer \in {"Confirm", "Cancel"}
         /\ pc[o] # "answer" => Answer = decision[o]
         /\ Committed(o) <=> Answer = "Commit"
<1>1. toClient \in Seq(AnyMessage)
  BY MessagesToCome
<1>2. 1 \in DOMAIN toClient /\ toClient[1] = Head(toClient)
  BY <1>1
<1>3. PICK m : m = Head(toClient)
  OBVIOUS
<1>4. Tells(m) /\ (Committed(m.order) <=> m.kind = "Commit")
  BY <1>2, <1>3 DEF ReportInv, Carried
<1>5. m.order = o /\ Answer = m.kind
  BY <1>3, OwnAnswer DEF Answer
<1>6. QED
  BY <1>4, <1>5 DEF Tells

LEMMA ReportReads ==
  ASSUME ShareInv, ReportInv, NEW o \in Orders, ReadAnswer(o) \/ ReadOutcome(o)
  PROVE  ReportInv'
<1>1. /\ Holds(o) /\ o \in Reading /\ pc[o] # "done" /\ toClient # <<>> /\ toClient' = Tail(toClient)
      /\ UNCHANGED <<phase, ports, orders, at, toStore, serving, bought, unsure>>
  BY DEF ReadAnswer, ReadOutcome, Reading, clientVars
<1>2. /\ phase = "trading" /\ o \in orders /\ at \in Store /\ at \notin ports
      /\ TaskStage(o) /\ orders \subseteq Orders
  BY <1>1, AtWork
<1>3. /\ pc[o] = "answer" => Answer \in {"Confirm", "Cancel"}
      /\ pc[o] # "answer" => Answer = decision[o]
      /\ Committed(o) <=> Answer = "Commit"
  BY <1>1, AnswerTells
<1>4. PICK w, d, r :
        /\ pc' = [pc EXCEPT ![o] = w] /\ decision' = [decision EXCEPT ![o] = d]
        /\ result' = [result EXCEPT ![o] = r]
        /\ \/ w = "decide" /\ r = "error" /\ d \in {"Commit", "Cancel"} /\ Answer = "Confirm"
           \/ w = "done" /\ r = (IF Answer = "Commit" THEN "bought" ELSE "cancelled")
  <2>0. /\ decision' = decision => decision' = [decision EXCEPT ![o] = decision[o]]
        /\ result' = result => result' = [result EXCEPT ![o] = result[o]]
    BY DEF ShareInv, TypesInv
  <2>1. CASE ReadAnswer(o) /\ Answer = "Confirm"
    <3>1. PICK d \in {"Commit", "Cancel"} : Decide(o, d)
      BY <2>1 DEF ReadAnswer
    <3>2. result[o] = "error"
      BY <1>2 DEF TaskStage
    <3>3. pc' = [pc EXCEPT ![o] = "decide"] /\ decision' = [decision EXCEPT ![o] = d]
          /\ result' = [result EXCEPT ![o] = "error"]
      BY <2>0, <3>1, <3>2 DEF Decide, Goes
    <3>4. QED
      BY <2>1, <3>3
  <2>2. CASE ReadOutcome(o) \/ (ReadAnswer(o) /\ Answer # "Confirm")
    <3>1. /\ pc' = [pc EXCEPT ![o] = "done"] /\ decision' = decision
          /\ result' = [result EXCEPT ![o] = IF Answer = "Commit" THEN "bought" ELSE "cancelled"]
      BY <2>2 DEF ReadOutcome, ReadAnswer, Returns, Goes
    <3>2. QED
      BY <2>0, <3>1
  <2>3. QED
    BY <2>1, <2>2
<1>5. \A p \in Orders : /\ pc'[p] = IF p = o THEN w ELSE pc[p]
                        /\ decision'[p] = IF p = o THEN d ELSE decision[p]
                        /\ result'[p] = IF p = o THEN r ELSE result[p]
  BY <1>4 DEF ShareInv, TypesInv
<1>6. Carried'
  <2>1. toClient \in Seq(AnyMessage)
    BY MessagesToCome
  <2>2. /\ 1 \in DOMAIN toClient /\ toClient[1].order = o
        /\ \A i \in DOMAIN Tail(toClient) :
             i + 1 \in DOMAIN toClient /\ i + 1 # 1 /\ Tail(toClient)[i] = toClient[i + 1]
    <3>1. Head(toClient) = toClient[1] /\ 1 \in DOMAIN toClient
      BY <1>1, <2>1
    <3>2. \A i \in DOMAIN Tail(toClient) :
            i + 1 \in DOMAIN toClient /\ i + 1 # 1 /\ Tail(toClient)[i] = toClient[i + 1]
      BY <1>1, <2>1
    <3>3. QED
      BY <1>1, <3>1, <3>2, OwnAnswer
  <2>3. /\ \A i \in DOMAIN toStore : toStore[i].order # o
        /\ serving # None => serving.order # o
        /\ \A i \in DOMAIN toClient : i # 1 => toClient[i].order # o
    BY <2>2, Apart
  <2>4. \A i \in DOMAIN toClient' :
          \E j \in DOMAIN toClient : toClient'[i] = toClient[j] /\ toClient[j].order # o
    BY <1>1, <2>2, <2>3
  <2>5. Carried
    BY DEF ReportInv
  <2>6. \A p \in Orders \ {o} : pc'[p] = pc[p] /\ decision'[p] = decision[p]
    BY <1>5
  <2>7. \A i \in DOMAIN toStore' :
          \E j \in DOMAIN toStore : toStore'[i] = toStore[j] /\ toStore[j].order # o
    BY <1>1, <2>3
  <2>8. at' = at /\ bought' = bought /\ (serving' # None => serving' = serving /\ serving.order # o)
    BY <1>1, <2>3
  <2>9. QED
    BY <2>4, <2>5, <2>6, <2>7, <2>8, CarriedOthers
<1>7. pc'[o] # "done" => TaskStage(o)'
  <2>1. "Commit" # None /\ "Cancel" # None
    BY NoneAssumption DEF Requests
  <2>2. QED
    BY <1>1, <1>2, <1>3, <1>4, <1>5, <2>1 DEF TaskStage, Committed
<1>8. pc'[o] = "done" => Reported(o)'
  BY <1>1, <1>2, <1>3, <1>4, <1>5 DEF TaskStage, Reported, Committed
<1>9. QED
  BY <1>1, <1>2, <1>5, <1>6, <1>7, <1>8, ReportOthers

LEMMA ReportTakes ==
  ASSUME ShareInv, ReportInv, Take
  PROVE  ReportInv'
<1>1. PICK m, o, t : m = Head(toStore) /\ o = m.order /\ t = toStore
  OBVIOUS
<1>2. /\ t \in Seq(ToStore) /\ t # <<>> /\ m = t[1] /\ 1 \in DOMAIN t /\ m \in ToStore
      /\ \A i \in DOMAIN Tail(t) : i + 1 \in DOMAIN t /\ i + 1 # 1 /\ Tail(t)[i] = t[i + 1]
  <2>1. t \in Seq(ToStore) /\ t # <<>> /\ m = Head(t)
    BY <1>1 DEF Take, ShareInv, TypesInv
  <2>2. QED
    BY <2>1
<1>3. /\ toStore' = Tail(t) /\ serving' = m /\ serving = None
      /\ UNCHANGED <<phase, ports, orders, at, pc, decision, result, toClient, unsure>>
  BY <1>1 DEF Take, clientVars, taskVars
<1>4. o \in Reading /\ o \in Orders /\ m # None
  <2>1. o \in Reading
    BY <1>1, <1>2, Apart
  <2>2. m # None
    BY <1>2, NoneAssumption DEF ToStore
  <2>3. QED
    BY <2>1, <2>2 DEF Reading
<1>5. /\ phase = "trading" /\ o \in orders /\ at \in Store /\ at \notin ports
      /\ TaskStage(o) /\ orders \subseteq Orders /\ bought[o] \ {at} \subseteq unsure[o]
  BY <1>4, AtWork DEF Reading
<1>6. Asks(m) /\ ~Committed(o)
  BY <1>1, <1>2 DEF ReportInv, Carried
<1>7. m.kind = "Commit" => pc[o] = "outcome" /\ decision[o] = "Commit"
  BY <1>1, <1>4, <1>6 DEF Asks, Reading
<1>8. /\ \A p \in Orders \ {o} : bought'[p] = bought[p]
      /\ bought'[o] = IF m.kind = "Commit" THEN bought[o] \cup {at} ELSE bought[o]
  BY <1>1, <1>4 DEF Take, ShareInv, TypesInv
<1>9. Carried'
  <2>1. ASSUME NEW a, a.order \in Orders, a.order # o
        PROVE  (Asks(a)' <=> Asks(a)) /\ (Tells(a)' <=> Tells(a))
               /\ (Committed(a.order)' <=> Committed(a.order))
    BY <1>3, <1>8, <2>1, SameMeaning
  <2>2. ASSUME NEW i \in DOMAIN toStore'
        PROVE  (Asks(toStore[i]) /\ ~Committed(toStore[i].order))'
    <3>1. i + 1 \in DOMAIN t /\ i + 1 # 1 /\ toStore'[i] = t[i + 1]
      BY <1>2, <1>3, <2>2
    <3>2. PICK a : a = t[i + 1]
      OBVIOUS
    <3>3. a.order # o /\ a.order \in Orders
      BY <1>1, <1>2, <3>1, <3>2, Apart DEF Reading
    <3>4. Asks(a) /\ ~Committed(a.order)
      BY <1>1, <3>1, <3>2 DEF ReportInv, Carried
    <3>5. Asks(a)' /\ ~Committed(a.order)'
      BY <2>1, <3>3, <3>4
    <3>6. toStore'[i] = a
      BY <3>1, <3>2
    <3>7. QED
      BY <3>5, <3>6
  <2>3. ASSUME NEW i \in DOMAIN toClient'
        PROVE  (Tells(toClient[i]) /\ (Committed(toClient[i].order) <=> toClient[i].kind = "Commit"))'
    <3>1. PICK a : a = toClient[i]
      OBVIOUS
    <3>2. i \in DOMAIN toClient /\ toClient'[i] = a
      BY <1>3, <2>3, <3>1
    <3>3. a.order # o /\ a.order \in Orders
      BY <1>1, <1>2, <3>1, <3>2, Apart DEF Reading
    <3>4. Tells(a) /\ (Committed(a.order) <=> a.kind = "Commit")
      BY <3>1, <3>2 DEF ReportInv, Carried
    <3>5. Tells(a)' /\ (Committed(a.order)' <=> a.kind = "Commit")
      BY <2>1, <3>3, <3>4
    <3>6. QED
      BY <3>2, <3>5
  <2>4. (Asks(serving) /\ (Committed(serving.order) <=> serving.kind = "Commit"))'
    <3>1. Asks(m)'
      BY <1>3, <1>6 DEF Asks
    <3>2. Committed(o)' <=> m.kind = "Commit"
      BY <1>3, <1>6, <1>8 DEF Committed
    <3>3. QED
      BY <1>1, <1>3, <3>1, <3>2
  <2>5. QED
    BY <2>2, <2>3, <2>4 DEF Carried
<1>10. \A p \in Orders : (bought'[p] \cup unsure'[p]) \cap ports' = {}
  <2>1. \A p \in Orders : bought'[p] \subseteq bought[p] \cup {at}
    BY <1>8
  <2>2. QED
    BY <1>3, <1>5, <2>1 DEF ReportInv
<1>11. ASSUME NEW p \in Orders
       PROVE  Truthful(p)'
  <2>1. CASE p # o
    BY <1>3, <1>8, <2>1 DEF ReportInv, Truthful
  <2>2. CASE p = o
    <3>1. result'[o] = "error"
      BY <1>3, <1>5 DEF TaskStage
    <3>2. bought'[o] \ unsure'[o] \subseteq {at}
      BY <1>3, <1>5, <1>8
    <3>3. QED
      BY <2>2, <3>1, <3>2 DEF Truthful
  <2>3. QED
    BY <2>1, <2>2
<1>12. ASSUME NEW p \in orders
       PROVE  /\ bought'[p] \ {at'} \subseteq unsure'[p]
              /\ pc'[p] # "done" => TaskStage(p)'
              /\ pc'[p] = "done" => Reported(p)'
  <2>1. CASE p # o
    <3>1. bought'[p] = bought[p]
      BY <1>5, <1>8, <2>1
    <3>2. bought'[p] \ {at'} \subseteq unsure'[p]
      BY <1>3, <3>1 DEF ReportInv
    <3>3. (pc[p] # "done" => TaskStage(p)) /\ (pc[p] = "done" => Reported(p))
      BY <1>5 DEF ReportInv
    <3>4. QED
      BY <1>3, <3>1, <3>2, <3>3 DEF TaskStage, Reported, Committed
  <2>2. CASE p = o
    <3>1. pc'[o] # "done"
      BY <1>3, <1>4 DEF Reading
    <3>2. TaskStage(o)'
      BY <1>3, <1>5, <1>6, <1>7, <1>8 DEF TaskStage, Committed
    <3>3. bought'[o] \ {at'} \subseteq unsure'[o]
      BY <1>3, <1>5, <1>8
    <3>4. QED
      BY <2>2, <3>1, <3>2, <3>3
  <2>3. QED
    BY <2>1, <2>2
<1>13. QED
  BY <1>3, <1>5, <1>9, <1>10, <1>11, <1>12 DEF ReportInv

\* Where the messages move, and nothing else, reports stay true.
LEMMA ReportKept ==
  ASSUME ReportInv, Carried',
         UNCHANGED <<phase, ports, orders, at, pc, decision, result, bought, unsure>>
  PROVE  ReportInv'
<1>1. \A o : (Truthful(o)' <=> Truthful(o)) /\ (TaskStage(o)' <=> TaskStage(o))
             /\ (Reported(o)' <=> Reported(o))
  BY DEF Truthful, TaskStage, Reported, Committed
<1>2. QED
  BY <1>1 DEF ReportInv

LEMMA ReportReplies ==
  ASSUME ShareInv, ReportInv, Reply
  PROVE  ReportInv'
<1>1. UNCHANGED <<phase, ports, orders, at, pc, decision, result, toStore, bought, unsure>>
      /\ serving' = None /\ serving # None
  BY DEF Reply, clientVars, taskVars
<1>2. serving \in ToStore /\ Asks(serving) /\ (Committed(serving.order) <=> serving.kind = "Commit")
  BY <1>1 DEF ShareInv, TypesInv, ReportInv, Carried
<1>3. PICK k : /\ toClient' = Append(toClient, Message(k, serving.order))
               /\ k \in IF serving.kind = "Order" THEN {"Confirm", "Cancel"} ELSE {serving.kind}
  BY DEF Reply
<1>4. PICK a : a = Message(k, serving.order)
  OBVIOUS
<1>5. a.kind = k /\ a.order = serving.order
  BY <1>4 DEF Message
<1>6. serving.order \in Reading
  BY <1>1, Apart
<1>7. Tells(a) /\ (Committed(a.order) <=> a.kind = "Commit")
  <2>1. decision[serving.order] \in {"Commit", "Cancel", None} /\ None # "Order"
    BY <1>6, NoneAssumption DEF ShareInv, TypesInv, Reading, Requests
  <2>2. CASE serving.kind = "Order"
    <3>1. pc[serving.order] = "answer"
      BY <1>2, <2>1, <2>2 DEF Asks
    <3>2. QED
      BY <1>2, <1>3, <1>5, <2>2, <3>1 DEF Tells
  <2>3. CASE serving.kind # "Order"
    <3>1. pc[serving.order] # "answer" /\ serving.kind = decision[serving.order]
      BY <1>2, <2>3 DEF Asks
    <3>2. QED
      BY <1>2, <1>3, <1>5, <2>3, <3>1 DEF Tells
  <2>4. QED
    BY <2>2, <2>3
<1>8. \A m : (Asks(m)' <=> Asks(m)) /\ (Tells(m)' <=> Tells(m))
             /\ (Committed(m.order)' <=> Committed(m.order))
  BY <1>1 DEF Asks, Tells, Committed
<1>9. ASSUME NEW i \in DOMAIN toClient'
      PROVE  (Tells(toClient[i]) /\ (Committed(toClient[i].order) <=> toClient[i].kind = "Commit"))'
  <2>1. (i \in DOMAIN toClient /\ toClient'[i] = toClient[i]) \/ toClient'[i] = a
    BY <1>3, <1>4 DEF ShareInv, TypesInv
  <2>2. PICK m : m = toClient'[i]
    OBVIOUS
  <2>3. Tells(m) /\ (Committed(m.order) <=> m.kind = "Commit")
    BY <1>7, <2>1, <2>2 DEF ReportInv, Carried
  <2>4. Tells(m)' /\ (Committed(m.order)' <=> m.kind = "Commit")
    BY <1>8, <2>3
  <2>5. QED
    BY <2>2, <2>4
<1>10. ASSUME NEW i \in DOMAIN toStore'
       PROVE  (Asks(toStore[i]) /\ ~Committed(toStore[i].order))'
  <2>1. PICK m : m = toStore[i]
    OBVIOUS
  <2>2. m = toStore'[i] /\ Asks(m) /\ ~Committed(m.order)
    BY <1>1, <1>10, <2>1 DEF ReportInv, Carried
  <2>3. Asks(m)' /\ ~Committed(m.order)'
    BY <1>8, <2>2
  <2>4. QED
    BY <2>2, <2>3
<1>11. Carried'
  BY <1>1, <1>9, <1>10 DEF Carried
<1>12. QED
  BY <1>1, <1>11, ReportKept

LEMMA ReportCloses ==
  ASSUME ShareInv, ReportInv, StoreCloses
  PROVE  ReportInv'
<1>1. UNCHANGED <<phase, ports, orders, at, pc, decision, result, bought, unsure>>
      /\ serving' = None /\ toStore' = <<>>
  BY DEF StoreCloses, clientVars, taskVars
<1>2. PICK n \in 0 .. Len(toClient) : toClient' = SubSeq(toClient, 1, n)
  BY DEF StoreCloses
<1>3. \A i \in DOMAIN toClient' : i \in DOMAIN toClient /\ toClient'[i] = toClient[i]
  BY <1>2 DEF ShareInv, TypesInv
<1>4. ASSUME NEW i \in DOMAIN toClient'
      PROVE  (Tells(toClient[i]) /\ (Committed(toClient[i].order) <=> toClient[i].kind = "Commit"))'
  <2>1. PICK m : m = toClient[i]
    OBVIOUS
  <2>2. m = toClient'[i] /\ Tells(m) /\ (Committed(m.order) <=> m.kind = "Commit")
    BY <1>3, <1>4, <2>1 DEF ReportInv, Carried
  <2>3. Tells(m)' /\ (Committed(m.order)' <=> m.kind = "Commit")
    BY <1>1, <2>2 DEF Tells, Committed
  <2>4. QED
    BY <2>2, <2>3
<1>5. DOMAIN toStore' = {}
  BY <1>1
<1>6. Carried'
  BY <1>1, <1>4, <1>5 DEF Carried
<1>7. QED
  BY <1>1, <1>6, ReportKept

LEMMA NothingCarried ==
  ASSUME toStore' = <<>>, toClient' = <<>>, serving' = None
  PROVE  Carried'
<1>1. DOMAIN toStore' = {} /\ DOMAIN toClient' = {}
  OBVIOUS
<1>2. QED
  BY <1>1 DEF Carried

LEMMA ReportMain ==
  ASSUME ShareInv, ReportInv, Main
  PROVE  ReportInv'
<1>0. \A o \in Orders : pc[o] = "done"
  BY DEF Main, Connect, ConnectFails, NextStore, Joined, Finish, ShareInv, PhaseInv
<1>1. toClient = <<>> /\ serving = None /\ toStore = <<>>
  BY <1>0, NobodyWaits
<1>2. Carried'
  <2>1. toClient' = <<>> /\ serving' = None /\ toStore' = <<>>
    BY <1>1 DEF Main, Connect, ConnectFails, NextStore, Finish, storeVars
  <2>2. QED
    BY <2>1, NothingCarried
<1>3. bought' = bought /\ unsure' = unsure /\ result' = result
  BY DEF Main, Connect, ConnectFails, NextStore, Finish, taskVars
<1>4. \A o \in Orders : Truthful(o)'
  BY <1>3 DEF ReportInv, Truthful
<1>5. ports' \subseteq ports
  BY DEF Main, Connect, ConnectFails, NextStore, Finish
<1>6. \A o \in Orders : (bought'[o] \cup unsure'[o]) \cap ports' = {}
  BY <1>3, <1>5 DEF ReportInv
<1>7. orders \subseteq Orders
  BY DEF ShareInv, TypesInv
<1> DEFINE Stands(o) ==
      /\ bought[o] \ {at} \subseteq unsure[o]
      /\ phase # "trading" => /\ result[o] = "error" /\ decision[o] = None
                              /\ bought[o] \subseteq unsure[o]
      /\ phase = "trading" /\ pc[o] # "done" => TaskStage(o)
      /\ phase = "trading" /\ pc[o] = "done" => Reported(o)
<1>8. \A o \in orders : Stands(o)
  BY DEF ReportInv
<1>9. ASSUME NEW s \in Store, Connect(s), NEW o \in orders
      PROVE  Stands(o)'
  <2>1. /\ phase = "choosing" /\ s \in ports /\ at' = s /\ phase' = "trading" /\ decision' = decision
        /\ pc'[o] = "spawned"
    BY <1>7, <1>9 DEF Connect
  <2>2. result[o] = "error" /\ decision[o] = None /\ bought[o] \subseteq unsure[o]
    BY <1>8, <2>1
  <2>3. s \notin bought[o] /\ s \notin unsure[o]
    BY <1>7, <2>1 DEF ReportInv
  <2>4. TaskStage(o)'
    BY <1>3, <2>1, <2>2, <2>3 DEF TaskStage, Committed
  <2>5. QED
    BY <1>3, <2>1, <2>2, <2>4
<1>10. ASSUME NextStore, NEW o \in orders'
       PROVE  Stands(o)'
  <2>1. /\ phase = "trading" /\ o \in orders /\ o \in Orders /\ result[o] = "error"
        /\ phase' = "choosing" /\ decision'[o] = None
    BY <1>7, <1>10 DEF NextStore, Joined
  <2>2. Reported(o) /\ bought[o] \ {at} \subseteq unsure[o]
    BY <1>0, <1>8, <2>1
  <2>3. bought[o] \subseteq unsure[o]
    BY <2>1, <2>2 DEF Reported, Committed
  <2>4. QED
    BY <1>3, <2>1, <2>3
<1>11. ASSUME phase # "trading", phase' # "trading", orders' = orders, at' = at, decision' = decision,
              NEW o \in orders
       PROVE  Stands(o)'
  BY <1>3, <1>8, <1>11
<1>12. ASSUME NEW o \in orders'
       PROVE  Stands(o)'
  <2>1. ASSUME NEW s \in Store, Connect(s)
        PROVE  Stands(o)'
    <3>1. orders' = orders
      BY <2>1 DEF Connect
    <3>2. QED
      BY <1>9, <2>1, <3>1
  <2>2. ASSUME Finish \/ \E s \in Store : ConnectFails(s)
        PROVE  Stands(o)'
    <3>1. phase # "trading" /\ phase' # "trading" /\ orders' = orders /\ at' = at /\ decision' = decision
      BY <2>2 DEF Finish, ConnectFails, taskVars
    <3>2. QED
      BY <1>11, <3>1
  <2>3. QED
    BY <1>10, <2>1, <2>2 DEF Main
<1>13. QED
  BY <1>2, <1>4, <1>6, <1>12 DEF ReportInv

LEMMA ReportStart == Init => ReportInv
<1> SUFFICES ASSUME Init PROVE ReportInv
  OBVIOUS
<1>1. Carried
  <2>1. DOMAIN toStore = {} /\ DOMAIN toClient = {} /\ serving = None
    BY DEF Init
  <2>2. QED
    BY <2>1 DEF Carried
<1>2. QED
  BY <1>1 DEF Init, ReportInv, Truthful

LEMMA ReportStep == ShareInv /\ ReportInv /\ [Next]_vars => ReportInv'
<1> SUFFICES ASSUME ShareInv, ReportInv, [Next]_vars PROVE ReportInv'
  OBVIOUS
<1>1. ASSUME NEW o \in Orders, Task(o)
      PROVE  ReportInv'
  BY <1>1, ReportStarts, ReportWrites, ReportFails, ReportReads DEF Task
<1>2. CASE UNCHANGED vars
  <2>1. UNCHANGED <<phase, ports, orders, at, lock, pc, decision, result>>
        /\ UNCHANGED <<open, toStore, serving, toClient, bought, unsure>>
    BY <1>2 DEF vars, clientVars, taskVars, storeVars
  <2>2. Carried'
    BY <2>1 DEF ReportInv, Carried, Asks, Tells, Committed
  <2>3. QED
    BY <2>1, <2>2, ReportKept
<1>3. QED
  BY <1>1, <1>2, ReportMain, ReportTakes, ReportReplies, ReportCloses DEF Next, Serve

\* The customer reports what happened: what it takes for bought was committed,
\* and an order is committed twice, or committed and reported as cancelled,
\* only if a store was left while its answer to a Commit was to come, for any
\* stores and orders (ReportsAreTrue; bin/ecommerce.rs:53-70).
THEOREM CustomerKnows == Spec => []ReportsAreTrue
<1>1. Init => CustomerInv
  BY ShareStart, ReportStart DEF CustomerInv
<1>2. CustomerInv /\ [Next]_vars => CustomerInv'
  BY ShareStep, ReportStep DEF CustomerInv
<1>3. CustomerInv => ReportsAreTrue
  <2> SUFFICES ASSUME CustomerInv, NEW o \in Orders
               PROVE  /\ Cardinality(bought[o] \ unsure[o]) <= 1
                      /\ result[o] = "bought" => bought[o] \ unsure[o] # {}
                      /\ result[o] = "cancelled" => bought[o] \subseteq unsure[o]
    BY DEF ReportsAreTrue
  <2>1. Truthful(o)
    BY DEF CustomerInv, ReportInv
  <2>2. Cardinality(bought[o] \ unsure[o]) <= 1
    <3>1. CASE bought[o] \ unsure[o] = {}
      BY <3>1, FS_EmptySet
    <3>2. CASE bought[o] \ unsure[o] # {}
      <4>1. PICK s : bought[o] \ unsure[o] = {s}
        BY <2>1, <3>2 DEF Truthful
      <4>2. QED
        BY <4>1, FS_Singleton
    <3>3. QED
      BY <3>1, <3>2
  <2>3. QED
    BY <2>1, <2>2 DEF Truthful
<1>4. QED
  BY <1>1, <1>2, <1>3, PTL DEF Spec
=============================================================================
