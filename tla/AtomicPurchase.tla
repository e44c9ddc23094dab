--------------------------- MODULE AtomicPurchase ----------------------------
(***************************************************************************)
(* What a purchase promises, without stock, messages or tasks: one store   *)
(* owns it, other stores may contribute, and each of them keeps a record   *)
(* of its state.  PurchaseNetwork implements this specification.           *)
(***************************************************************************)
EXTENDS FiniteSets

CONSTANTS Node, TxId, None

ASSUME NoOwnerAssumption == None \notin Node

VARIABLES
  owner,    \* owner[id]: the store that serves the customer, or None
  parties,  \* parties[id]: the other stores of the plan
  record    \* record[id][n]: the state of id at n, or "Unknown"

vars == <<owner, parties, record>>

State == {"Unknown", "AwaitingConfirmation", "NodeConfirmed", "Finalized", "Cancelled"}

Outcome == {"Finalized", "Cancelled"}

\* A purchase has an owner or nobody knows it; the owner is not one of the
\* other stores of its plan.
TypeOK ==
  /\ owner \in [TxId -> Node \cup {None}]
  /\ parties \in [TxId -> SUBSET Node]
  /\ record \in [TxId -> [Node -> State]]
  /\ \A id \in TxId :
       /\ owner[id] \notin parties[id]
       /\ owner[id] = None =>
            parties[id] = {} /\ record[id] = [n \in Node |-> "Unknown"]

Init ==
  /\ owner = [id \in TxId |-> None]
  /\ parties = [id \in TxId |-> {}]
  /\ record = [id \in TxId |-> [n \in Node |-> "Unknown"]]

Set(id, n, s) == record' = [record EXCEPT ![id][n] = s]

AtOwner(id) == record[id][owner[id]]

\* Mutant of Begin: the plan's stores are taken as they are, n included.
BeginWithSelf(id, n, S) ==
  /\ owner[id] = None
  /\ owner' = [owner EXCEPT ![id] = n]
  /\ parties' = [parties EXCEPT ![id] = S \cup {n}]
  /\ Set(id, n, "AwaitingConfirmation")

\* n plans purchase id with the stores of S.
Begin(id, n, S) ==
  /\ owner[id] = None
  /\ owner' = [owner EXCEPT ![id] = n]
  /\ parties' = [parties EXCEPT ![id] = S]
  /\ Set(id, n, "AwaitingConfirmation")

\* m sets its share aside.
Reserve(id, m) ==
  /\ m \in parties[id]
  /\ record[id][m] = "Unknown"
  /\ AtOwner(id) = "AwaitingConfirmation"
  /\ Set(id, m, "AwaitingConfirmation")
  /\ UNCHANGED <<owner, parties>>

\* Mutant of Agree: some store may not have set its share aside.
AgreeEarly(id) ==
  /\ owner[id] # None
  /\ AtOwner(id) = "AwaitingConfirmation"
  /\ Set(id, owner[id], "NodeConfirmed")
  /\ UNCHANGED <<owner, parties>>

\* Every store has answered, none of them Cancel.
Agree(id) ==
  /\ owner[id] # None
  /\ AtOwner(id) = "AwaitingConfirmation"
  /\ \A m \in parties[id] : record[id][m] = "AwaitingConfirmation"
  /\ Set(id, owner[id], "NodeConfirmed")
  /\ UNCHANGED <<owner, parties>>

\* Some store has refused.
Abort(id) ==
  /\ owner[id] # None
  /\ AtOwner(id) = "AwaitingConfirmation"
  /\ \E m \in parties[id] : record[id][m] = "Unknown"
  /\ Set(id, owner[id], "Cancelled")
  /\ UNCHANGED <<owner, parties>>

\* Mutant of Decide: a purchase is decided again.
DecideAgain(id, outcome) ==
  /\ owner[id] # None
  /\ AtOwner(id) \in {"NodeConfirmed"} \cup Outcome
  /\ Set(id, owner[id], outcome)
  /\ UNCHANGED <<owner, parties>>

\* The customer commits or cancels.
Decide(id, outcome) ==
  /\ owner[id] # None
  /\ AtOwner(id) = "NodeConfirmed"
  /\ Set(id, owner[id], outcome)
  /\ UNCHANGED <<owner, parties>>

\* Mutant of LearnAgreement: a late Confirm undoes the outcome.
LearnAgreementLate(id, m) ==
  /\ m \in parties[id]
  /\ record[id][m] # "Unknown"
  /\ AtOwner(id) \in {"NodeConfirmed"} \cup Outcome
  /\ \A r \in parties[id] : record[id][r] # "Unknown"
  /\ Set(id, m, "NodeConfirmed")
  /\ UNCHANGED <<owner, parties>>

\* m hears that all agreed; the customer may have decided since.
LearnAgreement(id, m) ==
  /\ m \in parties[id]
  /\ record[id][m] = "AwaitingConfirmation"
  /\ AtOwner(id) \in {"NodeConfirmed"} \cup Outcome
  /\ \A r \in parties[id] : record[id][r] # "Unknown"
  /\ Set(id, m, "NodeConfirmed")
  /\ UNCHANGED <<owner, parties>>

LearnOutcome(id, m) ==
  /\ m \in parties[id]
  /\ record[id][m] \in {"AwaitingConfirmation", "NodeConfirmed"}
  /\ AtOwner(id) \in Outcome
  /\ Set(id, m, AtOwner(id))
  /\ UNCHANGED <<owner, parties>>

Next ==
  \E id \in TxId :
    \/ \E n \in Node : \E S \in SUBSET (Node \ {n}) : Begin(id, n, S)
    \/ \E m \in Node : Reserve(id, m) \/ LearnAgreement(id, m) \/ LearnOutcome(id, m)
    \/ Agree(id) \/ Abort(id) \/ (\E outcome \in Outcome : Decide(id, outcome))

Spec == Init /\ [][Next]_vars

-----------------------------------------------------------------------------
\* Properties.

\* Where any store considers a purchase agreed or finished, every store of its
\* plan has set its share aside: a purchase is never partly bought.
AllOrNothing ==
  \A id \in TxId :
    (\E n \in Node : record[id][n] \in {"NodeConfirmed", "Finalized"}) =>
      /\ owner[id] # None
      /\ \A m \in parties[id] : record[id][m] # "Unknown"

\* No store has a purchase finished while another has it cancelled, and none
\* is ahead of the store that serves the customer.
Agreement ==
  \A id \in TxId : \A n \in Node :
    record[id][n] \in Outcome => owner[id] # None /\ AtOwner(id) = record[id][n]

\* A record that says how a purchase ended is never changed again, and a
\* record never goes back to not knowing the purchase.
RecordsOnlyAdvance ==
  [][\A id \in TxId : \A n \in Node :
       /\ record[id][n] \in Outcome => record'[id][n] = record[id][n]
       /\ record[id][n] # "Unknown" => record'[id][n] # "Unknown"
       /\ record'[id][n] = "AwaitingConfirmation" =>
            record[id][n] \in {"Unknown", "AwaitingConfirmation"}]_vars
=============================================================================
