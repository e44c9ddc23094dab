------------------------ MODULE AtomicPurchaseProofs -------------------------
(***************************************************************************)
(* The promises of AtomicPurchase hold for any number of stores and        *)
(* purchases.  TypeOK, AllOrNothing and Agreement are inductive together:  *)
(* Agreement says that nobody has an outcome before the owner, which is    *)
(* what the steps of the owner need; AllOrNothing says that once one       *)
(* record is past AwaitingConfirmation no party is left to reserve.        *)
(***************************************************************************)
EXTENDS AtomicPurchase, TLAPS

IInv == TypeOK /\ AllOrNothing /\ Agreement

\* One step changes one record of one purchase.
LEMMA SetRecord ==
  ASSUME TypeOK, NEW id \in TxId, NEW n \in Node, NEW s \in State, Set(id, n, s)
  PROVE  /\ record' \in [TxId -> [Node -> State]]
         /\ record'[id][n] = s
         /\ \A i \in TxId, m \in Node :
              (i # id \/ m # n) => record'[i][m] = record[i][m]
         /\ \A i \in TxId : i # id => record'[i] = record[i]
  BY DEF TypeOK, Set

\* A store of an owned purchase may move its record to s when s claims an
\* agreement only if there is one, and an outcome only if it is the owner's
\* first or the owner's own.
LEMMA MoveRecord ==
  ASSUME IInv, NEW id \in TxId, NEW n \in Node, NEW s \in State \ {"Unknown"},
         Set(id, n, s), UNCHANGED <<owner, parties>>, owner[id] # None,
         s \in {"NodeConfirmed", "Finalized"} =>
           \A m \in parties[id] : record[id][m] # "Unknown",
         IF n = owner[id] THEN record[id][n] \notin Outcome
                          ELSE s \in Outcome => s = record[id][owner[id]]
  PROVE  IInv'
<1>1. /\ record' \in [TxId -> [Node -> State]]
      /\ record'[id][n] = s
      /\ \A i \in TxId, m \in Node :
           (i # id \/ m # n) => record'[i][m] = record[i][m]
      /\ \A i \in TxId : i # id => record'[i] = record[i]
  BY SetRecord DEF IInv
<1>2. owner' = owner /\ parties' = parties
  OBVIOUS
<1>3. owner[id] \in Node /\ \A i \in TxId : owner[i] # None => owner[i] \in Node
  BY DEF IInv, TypeOK
<1>4. TypeOK'
  BY <1>1, <1>2 DEF IInv, TypeOK
<1>5. AllOrNothing'
  <2> SUFFICES ASSUME NEW i \in TxId, NEW m \in Node,
                      record'[i][m] \in {"NodeConfirmed", "Finalized"}
               PROVE  /\ owner[i] # None
                      /\ \A r \in parties[i] : record'[i][r] # "Unknown"
    BY <1>2 DEF AllOrNothing
  <2>1. CASE i # id
    BY <2>1, <1>1 DEF IInv, AllOrNothing
  <2>2. CASE i = id
    <3>1. \A r \in parties[id] : record[id][r] # "Unknown"
      BY <2>2, <1>1 DEF IInv, AllOrNothing
    <3>2. parties[id] \subseteq Node
      BY DEF IInv, TypeOK
    <3>3. QED
      BY <2>2, <3>1, <3>2, <1>1
  <2>3. QED
    BY <2>1, <2>2
<1>6. Agreement'
  <2> SUFFICES ASSUME NEW i \in TxId, NEW m \in Node, record'[i][m] \in Outcome
               PROVE  owner[i] # None /\ record'[i][owner[i]] = record'[i][m]
    BY <1>2 DEF Agreement, AtOwner
  <2>1. CASE i # id
    BY <2>1, <1>1 DEF IInv, Agreement, AtOwner
  <2>2. CASE i = id /\ n = owner[id]
    BY <2>2, <1>1, <1>3 DEF IInv, Agreement, AtOwner
  <2>3. CASE i = id /\ n # owner[id]
    BY <2>3, <1>1, <1>3 DEF IInv, Agreement, AtOwner
  <2>4. QED
    BY <2>1, <2>2, <2>3
<1>7. QED
  BY <1>4, <1>5, <1>6 DEF IInv

\* A purchase that some store has on record has an owner.
LEMMA Owned ==
  ASSUME TypeOK, NEW id \in TxId, NEW n \in Node, record[id][n] # "Unknown"
  PROVE  owner[id] \in Node
  BY DEF TypeOK

\* The three invariants are preserved together by every step.
LEMMA Inductive == IInv /\ [Next]_vars => IInv'
<1> USE NoOwnerAssumption DEF State, Outcome
<1> SUFFICES ASSUME IInv, [Next]_vars PROVE IInv'
  OBVIOUS
<1>0. TypeOK /\ \A id \in TxId : owner[id] # None => owner[id] \in Node
  BY DEF IInv, TypeOK
<1>1. CASE UNCHANGED vars
  BY <1>1 DEF IInv, TypeOK, AllOrNothing, Agreement, AtOwner, vars
<1>2. ASSUME NEW id \in TxId, NEW n \in Node, NEW S \in SUBSET (Node \ {n}),
             Begin(id, n, S)
      PROVE  IInv'
  <2>1. /\ record' \in [TxId -> [Node -> State]]
        /\ \A m \in Node :
             record'[id][m] = IF m = n THEN "AwaitingConfirmation" ELSE "Unknown"
        /\ \A i \in TxId : i # id => record'[i] = record[i]
    BY <1>0, <1>2, SetRecord DEF TypeOK, Begin
  <2>2. /\ owner' \in [TxId -> Node \cup {None}]
        /\ parties' \in [TxId -> SUBSET Node]
        /\ owner'[id] = n /\ n \notin parties'[id]
        /\ \A i \in TxId : i # id => owner'[i] = owner[i] /\ parties'[i] = parties[i]
    BY <1>0, <1>2 DEF TypeOK, Begin
  <2>3. TypeOK'
    BY <1>0, <2>1, <2>2 DEF TypeOK
  <2>4. AllOrNothing'
    BY <2>1, <2>2 DEF IInv, AllOrNothing
  <2>5. Agreement'
    BY <2>1, <2>2 DEF IInv, Agreement, AtOwner
  <2>6. QED
    BY <2>3, <2>4, <2>5 DEF IInv
<1>3. ASSUME NEW id \in TxId, NEW m \in Node, Reserve(id, m)
      PROVE  IInv'
  <2>1. owner[id] # None /\ m # owner[id]
    BY <1>0, <1>3 DEF TypeOK, Reserve, AtOwner
  <2>2. QED
    BY <1>3, <2>1, MoveRecord DEF Reserve
<1>4. ASSUME NEW id \in TxId, Agree(id)
      PROVE  IInv'
  BY <1>0, <1>4, MoveRecord DEF Agree, AtOwner
<1>5. ASSUME NEW id \in TxId, Abort(id)
      PROVE  IInv'
  BY <1>0, <1>5, MoveRecord DEF Abort, AtOwner
<1>6. ASSUME NEW id \in TxId, NEW outcome \in Outcome, Decide(id, outcome)
      PROVE  IInv'
  <2>1. \A m \in parties[id] : record[id][m] # "Unknown"
    BY <1>0, <1>6 DEF IInv, AllOrNothing, Decide, AtOwner
  <2>2. QED
    BY <1>0, <1>6, <2>1, MoveRecord DEF Decide, AtOwner
<1>7. ASSUME NEW id \in TxId, NEW m \in Node, LearnAgreement(id, m)
      PROVE  IInv'
  <2>1. owner[id] # None /\ m # owner[id]
    BY <1>0, <1>7, Owned DEF TypeOK, LearnAgreement
  <2>2. QED
    BY <1>7, <2>1, MoveRecord DEF LearnAgreement
<1>8. ASSUME NEW id \in TxId, NEW m \in Node, LearnOutcome(id, m)
      PROVE  IInv'
  <2>1. owner[id] \in Node /\ m # owner[id]
    BY <1>0, <1>8, Owned DEF TypeOK, LearnOutcome
  <2>2. AtOwner(id) = "Finalized" => \A r \in parties[id] : record[id][r] # "Unknown"
    BY <2>1 DEF IInv, AllOrNothing, AtOwner
  <2>3. QED
    BY <1>8, <2>1, <2>2, MoveRecord DEF LearnOutcome, AtOwner
<1>9. QED
  BY <1>1, <1>2, <1>3, <1>4, <1>5, <1>6, <1>7, <1>8 DEF Next

LEMMA Initially == Init => IInv
  BY NoOwnerAssumption
  DEF Init, IInv, TypeOK, AllOrNothing, Agreement, AtOwner, State, Outcome

\* A purchase that no store has begun is on nobody's record, and the store that
\* began it is not one of its parties.
THEOREM AtomicTypes == Spec => []TypeOK
  BY Initially, Inductive, PTL DEF Spec, IInv

\* Where any store has a purchase agreed or finished, every store of its plan
\* has set its share aside.
THEOREM NothingPartly == Spec => []AllOrNothing
  BY Initially, Inductive, PTL DEF Spec, IInv

\* No two stores disagree on how a purchase ended, and none ends it before its
\* owner.
THEOREM PurchasesAreConsistent == Spec => []Agreement
  BY Initially, Inductive, PTL DEF Spec, IInv

\* An outcome is final, and records only move forward.
THEOREM RecordsAdvance == Spec => RecordsOnlyAdvance
<1> DEFINE Advances ==
      \A id \in TxId : \A n \in Node :
        /\ record[id][n] \in Outcome => record'[id][n] = record[id][n]
        /\ record[id][n] # "Unknown" => record'[id][n] # "Unknown"
        /\ record'[id][n] = "AwaitingConfirmation" =>
             record[id][n] \in {"Unknown", "AwaitingConfirmation"}
<1>1. IInv /\ [Next]_vars => [Advances]_vars
  <2> USE NoOwnerAssumption DEF State, Outcome
  <2> SUFFICES ASSUME IInv, Next PROVE Advances
    OBVIOUS
  <2>1. ASSUME NEW id \in TxId, NEW n \in Node, NEW S \in SUBSET (Node \ {n}),
               Begin(id, n, S)
        PROVE  Advances
    BY <2>1, SetRecord DEF IInv, TypeOK, Begin
  <2>2. ASSUME NEW id \in TxId, NEW m \in Node,
               Reserve(id, m) \/ LearnAgreement(id, m) \/ LearnOutcome(id, m)
        PROVE  Advances
    BY <2>2, SetRecord DEF IInv, TypeOK, Reserve, LearnAgreement, LearnOutcome, AtOwner
  <2>3. ASSUME NEW id \in TxId, NEW outcome \in Outcome,
               Agree(id) \/ Abort(id) \/ Decide(id, outcome)
        PROVE  Advances
    BY <2>3, SetRecord DEF IInv, TypeOK, Agree, Abort, Decide, AtOwner
  <2>4. QED
    BY <2>1, <2>2, <2>3 DEF Next
<1>2. QED
  BY <1>1, Initially, Inductive, PTL DEF Spec, RecordsOnlyAdvance
=============================================================================
