--------------------------- MODULE PeerLinkProofs ----------------------------
(***************************************************************************)
(* The connections of any stores, with any lists, over any number of runs, *)
(* crashes and lost connections: a store is taken to be online only while  *)
(* there is a connection with it, and a writer that outlives its           *)
(* connection is about to be removed.                                      *)
(*                                                                         *)
(* The second follows a writer on its way: a reading task hands it over    *)
(* with PeerUp, and when it ends sends PeerDown after it, so that wherever *)
(* the writer is, in the mailbox or in the table, its PeerDown is behind.  *)
(***************************************************************************)
EXTENDS PeerLink, TLAPS

Mail == {PeerUp(e) : e \in End} \cup {PeerDown(m) : m \in Node}

Fields ==
  /\ runs \in [Node -> 0 .. MaxRuns]
  /\ phase \in [Node -> {"down", "connecting", "accepting"}]
  /\ todo \in [Node -> SUBSET Node]
  /\ reader \in [End -> {"none", "unknown", "known", "ended"}]
  /\ half \in [End -> {"none", "open", "dropped"}]
  /\ bytes \in [End -> Seq({"Hello", "Update"})]
  /\ mailbox \in [Node -> Seq(Mail)]
  /\ writer \in [Node -> [Node -> End \cup {None}]]
  /\ online \in [Node -> SUBSET Node]
  /\ \A n \in Node : phase[n] # "down" => runs[n] > 0
  /\ \A n \in Node : todo[n] # {} => phase[n] = "connecting" /\ n \notin todo[n]

\* A connection is made once: neither end has a task before the runs of both
\* stores, nor before the one that connects has tried the other.
Once ==
  /\ \A e \in End : (e[2] > runs[e[1]] \/ e[4] > runs[e[3]]) => reader[e] = "none"
  /\ \A e \in End : (e[3] \in todo[e[1]] /\ e[2] = runs[e[1]]) =>
       reader[e] = "none" /\ reader[Other(e)] = "none"
  /\ \A e \in End : reader[e] = "unknown" => half[e] = "open"

\* The writer of e was handed over, to a run that goes on.
Handed(e) == Current(e) /\ half[e] = "open" /\ reader[e] \in {"known", "ended"}

\* PeerDown(m) is in n's mailbox after position i.
Behind(n, i, m) == \E j \in (i + 1) .. Len(mailbox[n]) : mailbox[n][j] = PeerDown(m)

\* A PeerUp in the mailbox of n, and a writer in n's table.
InMail(n) ==
  \A i \in 1 .. Len(mailbox[n]) :
    /\ \A m \in Node : mailbox[n][i] = PeerDown(m) => m # n
    /\ \A e \in End : mailbox[n][i] = PeerUp(e) =>
         /\ Me(e) = n /\ Handed(e)
         /\ writer[n][Peer(e)] # e
         /\ \A j \in 1 .. Len(mailbox[n]) : mailbox[n][j] = PeerUp(e) => i = j
         /\ reader[e] = "ended" => Behind(n, i, Peer(e))

InTable(n) ==
  \A m \in Node : \A e \in End : writer[n][m] = e =>
    /\ Me(e) = n /\ Peer(e) = m /\ Handed(e)
    /\ reader[e] = "ended" => Behind(n, 0, m)

Followed == \A n \in Node : InMail(n) /\ InTable(n)

IInv == Fields /\ Once /\ OnlineIsConnected /\ Followed

-----------------------------------------------------------------------------
\* Ends and messages.

LEMMA EndProps ==
  \A e \in End :
    /\ e[1] \in Node /\ e[2] \in Run /\ e[3] \in Node /\ e[4] \in Run /\ e[1] # e[3]
    /\ Me(e) = e[1] /\ Peer(e) = e[3]
    /\ Other(e) \in End /\ Other(e) # e /\ Other(Other(e)) = e
    /\ Other(e)[1] = e[3] /\ Other(e)[2] = e[4] /\ Other(e)[3] = e[1] /\ Other(e)[4] = e[2]
  BY DEF End, Me, Peer, Other

LEMMA SameEnd ==
  ASSUME NEW e \in End, NEW f \in End,
         e[1] = f[1], e[2] = f[2], e[3] = f[3], e[4] = f[4]
  PROVE  e = f
  BY DEF End

LEMMA NoneIsNoEnd == None \notin End
  BY NoneAssumption

LEMMA MailProps ==
  /\ \A e, f \in End : PeerUp(e) = PeerUp(f) => e = f
  /\ \A m, k \in Node : PeerDown(m) = PeerDown(k) => m = k
  /\ \A e \in End, m \in Node : PeerUp(e) # PeerDown(m)
  /\ \A e \in End : PeerUp(e).type = "PeerUp" /\ PeerUp(e).end = e
  /\ \A m \in Node : PeerDown(m).type = "PeerDown" /\ PeerDown(m).peer = m
  BY DEF PeerUp, PeerDown

LEMMA PostedProps ==
  ASSUME Fields, NEW e \in End, NEW msg \in Mail
  PROVE  /\ Posted(e, msg) \in [Node -> Seq(Mail)]
         /\ \A k \in Node : Posted(e, msg)[k] =
              IF Current(e) /\ k = Me(e) THEN Append(mailbox[k], msg) ELSE mailbox[k]
<1>1. Me(e) \in Node /\ mailbox \in [Node -> Seq(Mail)]
  BY EndProps DEF Fields
<1>2. Append(mailbox[Me(e)], msg) \in Seq(Mail)
  BY <1>1
<1>3. CASE Current(e)
  BY <1>1, <1>2, <1>3 DEF Posted
<1>4. CASE ~Current(e)
  BY <1>1, <1>4 DEF Posted
<1>5. QED
  BY <1>3, <1>4

LEMMA HeadProps ==
  ASSUME Fields, NEW n \in Node, mailbox[n] # <<>>
  PROVE  /\ Head(mailbox[n]) \in Mail /\ Tail(mailbox[n]) \in Seq(Mail)
         /\ Len(mailbox[n]) \in Nat /\ Len(mailbox[n]) > 0
         /\ Head(mailbox[n]) = mailbox[n][1]
         /\ Len(Tail(mailbox[n])) = Len(mailbox[n]) - 1
         /\ \A i \in 1 .. Len(Tail(mailbox[n])) : Tail(mailbox[n])[i] = mailbox[n][i + 1]
<1>1. mailbox[n] \in Seq(Mail)
  BY DEF Fields
<1>2. QED
  BY <1>1

LEMMA DropProps ==
  ASSUME Fields, NEW old \in End \cup {None}, NEW h,
         h = IF old = None THEN half ELSE [half EXCEPT ![old] = "dropped"]
  PROVE  /\ h \in [End -> {"none", "open", "dropped"}]
         /\ \A f \in End : h[f] = IF f = old THEN "dropped" ELSE half[f]
<1>1. half \in [End -> {"none", "open", "dropped"}]
  BY DEF Fields
<1>2. CASE old = None
  BY <1>1, <1>2, NoneIsNoEnd
<1>3. CASE old # None
  BY <1>1, <1>3
<1>4. QED
  BY <1>2, <1>3

LEMMA MailCases ==
  ASSUME NEW msg \in Mail
  PROVE  /\ msg.type = "PeerUp" => msg.end \in End /\ msg = PeerUp(msg.end)
         /\ msg.type = "PeerDown" => msg.peer \in Node /\ msg = PeerDown(msg.peer)
  BY MailProps DEF Mail

\* What the handling of a message of the mailbox does.
Handles(n, m, new) ==
  /\ writer' = [writer EXCEPT ![n] = [@ EXCEPT ![m] = new]]
  /\ writer' \in [Node -> [Node -> End \cup {None}]]
  /\ \A k, l \in Node : writer'[k][l] = IF k = n /\ l = m THEN new ELSE writer[k][l]
  /\ half' \in [End -> {"none", "open", "dropped"}]
  /\ \A f \in End : half'[f] = IF f = writer[n][m] THEN "dropped" ELSE half[f]
  /\ mailbox' \in [Node -> Seq(Mail)]
  /\ mailbox' = [mailbox EXCEPT ![n] = Tail(mailbox[n])]
  /\ mailbox[n] # <<>>
  /\ UNCHANGED <<runs, phase, todo, reader, bytes, online>>

LEMMA WriterProps ==
  ASSUME Fields, NEW n \in Node, NEW m \in Node, NEW new \in End \cup {None},
         writer' = [writer EXCEPT ![n] = [@ EXCEPT ![m] = new]]
  PROVE  /\ writer' \in [Node -> [Node -> End \cup {None}]]
         /\ \A k, l \in Node : writer'[k][l] = IF k = n /\ l = m THEN new ELSE writer[k][l]
<1>1. writer \in [Node -> [Node -> End \cup {None}]]
  BY DEF Fields
<1>2. [writer[n] EXCEPT ![m] = new] \in [Node -> End \cup {None}]
  BY <1>1
<1>3. writer' \in [Node -> [Node -> End \cup {None}]]
  BY <1>1, <1>2
<1>4. QED
  BY <1>1, <1>2, <1>3

LEMMA MailboxProps ==
  ASSUME Fields, NEW n \in Node, mailbox[n] # <<>>
  PROVE  [mailbox EXCEPT ![n] = Tail(mailbox[n])] \in [Node -> Seq(Mail)]
  BY HeadProps DEF Fields

LEMMA HandlesPeerUp ==
  ASSUME Fields, NEW n \in Node, HandlePeerUp(n)
  PROVE  \E e \in End : Head(mailbox[n]) = PeerUp(e) /\ Handles(n, Peer(e), e)
<1>1. mailbox[n] # <<>> /\ Head(mailbox[n]).type = "PeerUp" /\ Head(mailbox[n]) \in Mail
  BY HeadProps DEF HandlePeerUp
<1> DEFINE e == Head(mailbox[n]).end
<1>2. e \in End /\ Head(mailbox[n]) = PeerUp(e) /\ Peer(e) \in Node
  BY <1>1, MailCases, EndProps
<1>3. writer[n][Peer(e)] \in End \cup {None}
  BY <1>2 DEF Fields
<1>4. /\ writer' = [writer EXCEPT ![n] = [@ EXCEPT ![Peer(e)] = e]]
      /\ half' = IF writer[n][Peer(e)] = None THEN half
                 ELSE [half EXCEPT ![writer[n][Peer(e)]] = "dropped"]
      /\ mailbox' = [mailbox EXCEPT ![n] = Tail(mailbox[n])]
      /\ UNCHANGED <<runs, phase, todo, reader, bytes, online>>
  BY DEF HandlePeerUp
<1> HIDE DEF e
<1>5. /\ half' \in [End -> {"none", "open", "dropped"}]
      /\ \A f \in End : half'[f] = IF f = writer[n][Peer(e)] THEN "dropped" ELSE half[f]
  BY <1>3, <1>4, DropProps
<1>6. /\ writer' \in [Node -> [Node -> End \cup {None}]]
      /\ \A k, l \in Node : writer'[k][l] = IF k = n /\ l = Peer(e) THEN e ELSE writer[k][l]
  BY <1>2, <1>4, WriterProps
<1>7. mailbox' \in [Node -> Seq(Mail)]
  BY <1>1, <1>4, MailboxProps
<1>8. Handles(n, Peer(e), e)
  BY <1>1, <1>4, <1>5, <1>6, <1>7 DEF Handles
<1>9. QED
  BY <1>2, <1>8

LEMMA HandlesPeerDown ==
  ASSUME Fields, NEW n \in Node, HandlePeerDown(n)
  PROVE  \E m \in Node : Head(mailbox[n]) = PeerDown(m) /\ Handles(n, m, None)
<1>1. mailbox[n] # <<>> /\ Head(mailbox[n]).type = "PeerDown" /\ Head(mailbox[n]) \in Mail
  BY HeadProps DEF HandlePeerDown
<1> DEFINE m == Head(mailbox[n]).peer
<1>2. m \in Node /\ Head(mailbox[n]) = PeerDown(m)
  BY <1>1, MailCases
<1>3. writer[n][m] \in End \cup {None}
  BY <1>2 DEF Fields
<1>4. /\ writer' = [writer EXCEPT ![n] = [@ EXCEPT ![m] = None]]
      /\ half' = IF writer[n][m] = None THEN half
                 ELSE [half EXCEPT ![writer[n][m]] = "dropped"]
      /\ mailbox' = [mailbox EXCEPT ![n] = Tail(mailbox[n])]
      /\ UNCHANGED <<runs, phase, todo, reader, bytes, online>>
  BY DEF HandlePeerDown
<1> HIDE DEF m
<1>5. /\ half' \in [End -> {"none", "open", "dropped"}]
      /\ \A f \in End : half'[f] = IF f = writer[n][m] THEN "dropped" ELSE half[f]
  BY <1>3, <1>4, DropProps
<1>6. /\ writer' \in [Node -> [Node -> End \cup {None}]]
      /\ \A k, l \in Node : writer'[k][l] = IF k = n /\ l = m THEN None ELSE writer[k][l]
  BY <1>2, <1>4, WriterProps
<1>7. mailbox' \in [Node -> Seq(Mail)]
  BY <1>1, <1>4, MailboxProps
<1>8. Handles(n, m, None)
  BY <1>1, <1>4, <1>5, <1>6, <1>7 DEF Handles
<1>9. QED
  BY <1>2, <1>8

\* What the making of connection e does.
Makes(e) ==
  /\ e[2] = runs[e[1]] /\ e[4] = runs[e[3]]
  /\ phase[e[1]] = "connecting" /\ phase[e[3]] = "accepting" /\ e[3] \in todo[e[1]]
  /\ todo' = [todo EXCEPT ![e[1]] = @ \ {e[3]}]
  /\ reader' = [f \in End |-> IF f = e \/ f = Other(e) THEN "unknown" ELSE reader[f]]
  /\ half' = [f \in End |-> IF f = e \/ f = Other(e) THEN "open" ELSE half[f]]
  /\ bytes' = [f \in End |-> IF f = e \/ f = Other(e) THEN <<"Hello">> ELSE bytes[f]]
  /\ UNCHANGED <<runs, phase, mailbox, writer, online>>

LEMMA MakesConnection ==
  ASSUME Fields, NEW n \in Node, NEW m \in Node, Connect(n, m)
  PROVE  \E e \in End : e[1] = n /\ e[3] = m /\ Makes(e)
<1> DEFINE e == <<n, runs[n], m, runs[m]>>
<1>1. runs[n] \in Run /\ runs[m] \in Run /\ n # m
  <2>1. phase[n] = "connecting" /\ m \in todo[n] /\ phase[m] = "accepting"
    BY DEF Connect
  <2>2. n # m /\ runs[n] > 0 /\ runs[m] > 0
    BY <2>1 DEF Fields
  <2>3. runs[n] \in 0 .. MaxRuns /\ runs[m] \in 0 .. MaxRuns
    BY DEF Fields
  <2>4. QED
    BY <2>2, <2>3, BoundsAssumption DEF Run
<1>2. e \in End
  BY <1>1 DEF End
<1>3. Other(e) \in End /\ Other(e) # e
  BY <1>2, EndProps
<1>4. e[1] = n /\ e[2] = runs[n] /\ e[3] = m /\ e[4] = runs[m]
  OBVIOUS
<1>5. /\ phase[n] = "connecting" /\ m \in todo[n] /\ phase[m] = "accepting"
      /\ todo' = [todo EXCEPT ![n] = @ \ {m}]
      /\ UNCHANGED <<runs, phase, mailbox, writer, online>>
      /\ reader' = [reader EXCEPT ![e] = "unknown", ![Other(e)] = "unknown"]
      /\ half' = [half EXCEPT ![e] = "open", ![Other(e)] = "open"]
      /\ bytes' = [bytes EXCEPT ![e] = <<"Hello">>, ![Other(e)] = <<"Hello">>]
  BY DEF Connect
<1> HIDE DEF e
<1>6. /\ reader' = [f \in End |-> IF f = e \/ f = Other(e) THEN "unknown" ELSE reader[f]]
      /\ half' = [f \in End |-> IF f = e \/ f = Other(e) THEN "open" ELSE half[f]]
      /\ bytes' = [f \in End |-> IF f = e \/ f = Other(e) THEN <<"Hello">> ELSE bytes[f]]
  BY <1>2, <1>3, <1>5 DEF Fields
<1>7. QED
  BY <1>2, <1>4, <1>5, <1>6 DEF Makes

-----------------------------------------------------------------------------
\* The fields.

LEMMA EndsFields ==
  ASSUME Fields, NEW e \in End, Ends(e)
  PROVE  Fields'
<1>1. PeerDown(Peer(e)) \in Mail
  BY EndProps DEF Mail
<1>2. mailbox' \in [Node -> Seq(Mail)]
  BY <1>1, PostedProps DEF Fields, Ends
<1>3. bytes' \in [End -> Seq({"Hello", "Update"})]
  BY DEF Fields, Ends
<1>4. reader' \in [End -> {"none", "unknown", "known", "ended"}]
  BY DEF Fields, Ends
<1>5. half' \in [End -> {"none", "open", "dropped"}]
  BY DEF Fields, Ends
<1>6. online' \in [Node -> SUBSET Node]
  <2>1. CASE reader[e] = "known"
    <3>1. online \in [Node -> SUBSET Node] /\ online' = [online EXCEPT ![Me(e)] = @ \ {Peer(e)}]
      BY <2>1 DEF Fields, Ends
    <3>2. QED
      BY <3>1
  <2>2. CASE reader[e] # "known"
    BY <2>2 DEF Fields, Ends
  <2>3. QED
    BY <2>1, <2>2
<1>7. QED
  BY <1>2, <1>3, <1>4, <1>5, <1>6 DEF Fields, Ends

LEMMA FieldsStep ==
  ASSUME Fields, [Next]_vars
  PROVE  Fields'
<1>1. ASSUME NEW n \in Node, Up(n) PROVE Fields'
  <2>1. runs[n] + 1 \in 0 .. MaxRuns /\ runs[n] + 1 > 0
    BY <1>1, BoundsAssumption DEF Fields, Up
  <2>2. list[n] \ {n} \in SUBSET Node
    BY ListAssumption
  <2>3. /\ runs' \in [Node -> 0 .. MaxRuns] /\ todo' \in [Node -> SUBSET Node]
        /\ phase' \in [Node -> {"down", "connecting", "accepting"}]
    BY <1>1, <2>1, <2>2 DEF Fields, Up
  <2>4. /\ \A k \in Node : phase'[k] # "down" => runs'[k] > 0
        /\ \A k \in Node : todo'[k] # {} => phase'[k] = "connecting" /\ k \notin todo'[k]
    BY <1>1, <2>1 DEF Fields, Up
  <2>5. QED
    BY <1>1, <2>3, <2>4 DEF Fields, Up
<1>2. ASSUME NEW n \in Node, NEW m \in Node, Connect(n, m) PROVE Fields'
  <2>1. PICK e \in End : e[1] = n /\ e[3] = m /\ Makes(e)
    BY <1>2, MakesConnection
  <2>2. <<"Hello">> \in Seq({"Hello", "Update"})
    OBVIOUS
  <2>3. /\ reader' \in [End -> {"none", "unknown", "known", "ended"}]
        /\ half' \in [End -> {"none", "open", "dropped"}]
        /\ bytes' \in [End -> Seq({"Hello", "Update"})]
    BY <2>1, <2>2 DEF Fields, Makes
  <2>4. QED
    BY <2>1, <2>3 DEF Fields, Makes
<1>3. ASSUME NEW n \in Node, NEW m \in Node, ConnectFails(n, m) PROVE Fields'
  BY <1>3, EndProps, BoundsAssumption DEF Fields, ConnectFails, Run, Me, Peer
<1>4. ASSUME NEW n \in Node, Bind(n) PROVE Fields'
  BY <1>4, EndProps, BoundsAssumption DEF Fields, Bind, Run, Me, Peer
<1>5. ASSUME NEW e \in End, ReadHello(e) PROVE Fields'
  <2>1. PeerUp(e) \in Mail
    BY DEF Mail
  <2>2. Posted(e, PeerUp(e)) \in [Node -> Seq(Mail)]
    BY <2>1, PostedProps
  <2>3. mailbox' \in [Node -> Seq(Mail)]
    BY <1>5, <2>2 DEF Fields, ReadHello, Introduced
  <2>4. reader' \in [End -> {"none", "unknown", "known", "ended"}]
    BY <1>5 DEF Fields, ReadHello, Introduced
  <2>5. bytes' \in [End -> Seq({"Hello", "Update"})]
    BY <1>5 DEF Fields, ReadHello
  <2>6. online' \in [Node -> SUBSET Node]
    BY <1>5, EndProps DEF Fields, ReadHello
  <2>7. QED
    BY <1>5, <2>3, <2>4, <2>5, <2>6 DEF Fields, ReadHello
<1>6. ASSUME NEW e \in End, ReadUpdate(e) PROVE Fields'
  <2>1. PeerUp(e) \in Mail
    BY DEF Mail
  <2>2. Posted(e, PeerUp(e)) \in [Node -> Seq(Mail)]
    BY <2>1, PostedProps
  <2>3. mailbox' \in [Node -> Seq(Mail)]
    BY <1>6, <2>2 DEF Fields, ReadUpdate, Introduced
  <2>4. reader' \in [End -> {"none", "unknown", "known", "ended"}]
    BY <1>6 DEF Fields, ReadUpdate, Introduced
  <2>5. bytes' \in [End -> Seq({"Hello", "Update"})]
    BY <1>6 DEF Fields, ReadUpdate
  <2>6. online' \in [Node -> SUBSET Node]
    <3>1. /\ online \in [Node -> SUBSET Node] /\ Peer(e) \in Node
          /\ online' = [online EXCEPT ![Me(e)] = online[Me(e)] \cup {Peer(e)}]
      BY <1>6, EndProps DEF Fields, ReadUpdate
    <3>2. QED
      BY <3>1
  <2>7. QED
    BY <1>6, <2>3, <2>4, <2>5, <2>6 DEF Fields, ReadUpdate
<1>7. ASSUME NEW e \in End, Coalesced(e) PROVE Fields'
  BY <1>7, EndProps, BoundsAssumption DEF Fields, Coalesced, Run, Me, Peer
<1>8. ASSUME NEW e \in End, EndOfFile(e) PROVE Fields'
  BY <1>8, EndsFields DEF EndOfFile
<1>9. ASSUME NEW e \in End, Cancelled(e) PROVE Fields'
  BY <1>9, EndsFields DEF Cancelled
<1>10. ASSUME NEW e \in End, Break(e) PROVE Fields'
  BY <1>10, EndsFields DEF Break
<1>11. ASSUME NEW n \in Node, HandlePeerUp(n) PROVE Fields'
  BY <1>11, HandlesPeerUp DEF Fields, Handles
<1>12. ASSUME NEW n \in Node, HandlePeerDown(n) PROVE Fields'
  BY <1>12, HandlesPeerDown DEF Fields, Handles
<1>13. ASSUME NEW n \in Node, Broadcast(n) PROVE Fields'
  BY <1>13, EndProps, BoundsAssumption DEF Fields, Broadcast, Run, Me, Peer
<1>14. ASSUME NEW n \in Node, Down(n) PROVE Fields'
  BY <1>14, EndProps, BoundsAssumption DEF Fields, Down, Run, Me, Peer
<1>15. ASSUME NEW n \in Node, Release(n) PROVE Fields'
  BY <1>15, EndProps, BoundsAssumption DEF Fields, Release, Run, Me, Peer
<1>16. ASSUME NEW n \in Node, Crash(n) PROVE Fields'
  BY <1>16, EndProps, BoundsAssumption DEF Fields, Crash, Run, Me, Peer
<1>17. CASE UNCHANGED vars
  BY <1>17 DEF vars, Fields
<1>18. QED
  BY <1>1, <1>2, <1>3, <1>4, <1>5, <1>6, <1>7, <1>8, <1>9, <1>10, <1>11, <1>12, <1>13, <1>14, <1>15, <1>16, <1>17 DEF Next, Read, Start, Handle

-----------------------------------------------------------------------------
\* A connection is made once.

LEMMA EndsOnce ==
  ASSUME Fields, Once, NEW e \in End, Open(e), Ends(e)
  PROVE  Once'
  BY EndProps DEF Fields, Once, Ends, Open

LEMMA OnceStep ==
  ASSUME Fields, Once, Followed, [Next]_vars
  PROVE  Once'
<1>1. ASSUME NEW n \in Node, Up(n) PROVE Once'
  <2>1. /\ runs \in [Node -> 0 .. MaxRuns] /\ todo \in [Node -> SUBSET Node]
        /\ runs' = [runs EXCEPT ![n] = runs[n] + 1] /\ todo' = [todo EXCEPT ![n] = list[n] \ {n}]
        /\ UNCHANGED <<reader, half>>
    BY <1>1 DEF Fields, Up
  <2>2. \A k \in Node : runs'[k] \in Nat /\ runs[k] \in Nat /\ runs'[k] >= runs[k]
    <3>1. ASSUME NEW k \in Node PROVE runs'[k] \in Nat /\ runs[k] \in Nat /\ runs'[k] >= runs[k]
      <4>1. runs[k] \in Nat
        BY <2>1, BoundsAssumption
      <4>2. runs'[k] = IF k = n THEN runs[k] + 1 ELSE runs[k]
        BY <2>1
      <4>3. QED
        BY <4>1, <4>2
    <3>2. QED
      BY <3>1
  <2>3. ASSUME NEW e \in End, e[2] > runs'[e[1]] \/ e[4] > runs'[e[3]]
        PROVE  reader'[e] = "none"
    <3>1. e[2] \in Nat /\ e[4] \in Nat
      BY EndProps DEF Run
    <3>2. e[2] > runs[e[1]] \/ e[4] > runs[e[3]]
      BY <2>2, <2>3, <3>1, EndProps
    <3>3. QED
      BY <2>1, <3>2 DEF Once
  <2>4. ASSUME NEW e \in End, e[3] \in todo'[e[1]], e[2] = runs'[e[1]]
        PROVE  reader'[e] = "none" /\ reader'[Other(e)] = "none"
    <3>1. CASE e[1] = n
      <4>1. e[2] > runs[e[1]]
        <5>1. runs'[n] = runs[n] + 1 /\ runs[n] \in Nat
          BY <2>1, <2>2
        <5>2. e[2] = runs[n] + 1
          BY <2>4, <3>1, <5>1
        <5>3. QED
          BY <3>1, <5>1, <5>2
      <4>2. Other(e) \in End /\ Other(e)[4] > runs[Other(e)[3]]
        BY <4>1, EndProps
      <4>3. QED
        BY <2>1, <4>1, <4>2 DEF Once
    <3>2. CASE e[1] # n
      BY <2>1, <2>4, <3>2, EndProps DEF Once
    <3>3. QED
      BY <3>1, <3>2
  <2>5. QED
    BY <2>1, <2>3, <2>4 DEF Once
<1>2. ASSUME NEW n \in Node, NEW m \in Node, Connect(n, m) PROVE Once'
  <2>1. PICK e \in End : e[1] = n /\ e[3] = m /\ Makes(e)
    BY <1>2, MakesConnection
  <2>2. /\ runs \in [Node -> 0 .. MaxRuns] /\ todo \in [Node -> SUBSET Node]
        /\ \A k \in Node : todo[k] # {} => phase[k] = "connecting"
    BY DEF Fields
  <2>3. Other(e) \in End /\ e[1] # e[3]
    BY EndProps
  <2>4. ASSUME NEW f \in End, f[2] > runs[f[1]] \/ f[4] > runs[f[3]]
        PROVE  reader'[f] = "none"
    <3>1. f # e /\ f # Other(e)
      BY <2>1, <2>2, <2>3, <2>4, EndProps, BoundsAssumption DEF Makes
    <3>2. QED
      BY <2>1, <2>4, <3>1 DEF Once, Makes
  <2>5. ASSUME NEW f \in End, f[3] \in todo'[f[1]], f[2] = runs[f[1]]
        PROVE  reader'[f] = "none" /\ reader'[Other(f)] = "none"
    <3>1. f[1] \in Node /\ f[3] \in Node /\ Other(f) \in End /\ Other(Other(f)) = f
      BY EndProps
    <3>2. f # e
      BY <2>1, <2>2, <2>5 DEF Makes
    <3>3. f[3] \in todo[f[1]]
      BY <2>1, <2>2, <2>5, <3>1 DEF Makes
    <3>4. f # Other(e)
      <4>1. SUFFICES ASSUME f = Other(e) PROVE FALSE
        OBVIOUS
      <4>2. f[1] = m /\ f[3] = n
        BY <2>1, <4>1, EndProps
      <4>3. phase[m] = "connecting"
        BY <2>2, <3>3, <4>2
      <4>4. QED
        BY <2>1, <4>3 DEF Makes
    <3>5. Other(f) # e /\ Other(f) # Other(e)
      BY <3>1, <3>2, <3>4, EndProps
    <3>6. QED
      BY <2>1, <2>5, <3>1, <3>2, <3>3, <3>4, <3>5 DEF Once, Makes
  <2>6. \A f \in End : reader'[f] = "unknown" => half'[f] = "open"
    BY <2>1 DEF Once, Makes
  <2>7. QED
    BY <2>1, <2>4, <2>5, <2>6 DEF Once, Makes
<1>3. ASSUME NEW n \in Node, NEW m \in Node, ConnectFails(n, m) PROVE Once'
  BY <1>3, EndProps DEF Fields, Once, ConnectFails
<1>4. ASSUME NEW n \in Node, Bind(n) PROVE Once'
  BY <1>4, EndProps DEF Fields, Once, Bind
<1>5. ASSUME NEW e \in End, ReadHello(e) PROVE Once'
  BY <1>5, EndProps DEF Fields, Once, ReadHello, Introduced
<1>6. ASSUME NEW e \in End, ReadUpdate(e) PROVE Once'
  BY <1>6, EndProps DEF Fields, Once, ReadUpdate, Introduced
<1>7. ASSUME NEW e \in End, Coalesced(e) PROVE Once'
  BY <1>7, EndProps DEF Fields, Once, Coalesced
<1>8. ASSUME NEW e \in End, EndOfFile(e) PROVE Once'
  BY <1>8, EndsOnce DEF EndOfFile
<1>9. ASSUME NEW e \in End, Cancelled(e) PROVE Once'
  BY <1>9, EndsOnce DEF Cancelled
<1>10. ASSUME NEW e \in End, Break(e) PROVE Once'
  BY <1>10, EndsOnce DEF Break
<1>11. ASSUME NEW n \in Node, HandlePeerUp(n) PROVE Once'
  <2>1. PICK f \in End : Handles(n, Peer(f), f)
    BY <1>11, HandlesPeerUp
  <2>2. ASSUME NEW e \in End, reader[e] = "unknown" PROVE e # writer[n][Peer(f)]
    BY <2>2, <2>1, EndProps DEF Followed, InTable, Handed
  <2>3. QED
    BY <2>1, <2>2 DEF Once, Handles
<1>12. ASSUME NEW n \in Node, HandlePeerDown(n) PROVE Once'
  <2>1. PICK m \in Node : Handles(n, m, None)
    BY <1>12, HandlesPeerDown
  <2>2. ASSUME NEW e \in End, reader[e] = "unknown" PROVE e # writer[n][m]
    BY <2>2, <2>1, EndProps DEF Followed, InTable, Handed
  <2>3. QED
    BY <2>1, <2>2 DEF Once, Handles
<1>13. ASSUME NEW n \in Node, Broadcast(n) PROVE Once'
  BY <1>13, EndProps DEF Fields, Once, Broadcast
<1>14. ASSUME NEW n \in Node, Down(n) PROVE Once'
  BY <1>14, EndProps DEF Fields, Once, Down
<1>15. ASSUME NEW n \in Node, Release(n) PROVE Once'
  BY <1>15, EndProps DEF Fields, Once, Release, Open
<1>16. ASSUME NEW n \in Node, Crash(n) PROVE Once'
  BY <1>16, EndProps DEF Fields, Once, Crash, Open
<1>17. CASE UNCHANGED vars
  BY <1>17 DEF vars, Once
<1>18. QED
  BY <1>1, <1>2, <1>3, <1>4, <1>5, <1>6, <1>7, <1>8, <1>9, <1>10, <1>11, <1>12, <1>13, <1>14, <1>15, <1>16, <1>17 DEF Next, Read, Start, Handle

-----------------------------------------------------------------------------
\* Online stores.

LEMMA EndsOnline ==
  ASSUME Fields, OnlineIsConnected, NEW e \in End, Open(e), Ends(e)
  PROVE  OnlineIsConnected'
<1>1. ASSUME NEW k \in Node, NEW m \in online'[k]
      PROVE  \E f \in End : Me(f) = k /\ Peer(f) = m /\ reader'[f] = "known"
  <2>1. m \in online[k]
    BY <1>1 DEF Fields, Ends
  <2>2. PICK f \in End : Me(f) = k /\ Peer(f) = m /\ reader[f] = "known"
    BY <2>1 DEF OnlineIsConnected
  <2>3. f # e
    BY <1>1, <2>2, EndProps DEF Fields, Ends
  <2>4. reader'[f] = "known"
    BY <2>2, <2>3 DEF Fields, Ends
  <2>5. QED
    BY <2>2, <2>4
<1>2. QED
  BY <1>1 DEF OnlineIsConnected

LEMMA OnlineStep ==
  ASSUME Fields, Once, OnlineIsConnected, [Next]_vars
  PROVE  OnlineIsConnected'
<1>1. ASSUME NEW n \in Node, Up(n) PROVE OnlineIsConnected'
  BY <1>1, EndProps DEF Fields, Once, OnlineIsConnected, Up
<1>2. ASSUME NEW n \in Node, NEW m \in Node, Connect(n, m) PROVE OnlineIsConnected'
  <2>1. PICK e \in End : e[1] = n /\ e[3] = m /\ Makes(e)
    BY <1>2, MakesConnection
  <2>2. reader[e] = "none" /\ reader[Other(e)] = "none"
    BY <2>1 DEF Once, Makes
  <2>3. \A f \in End : reader[f] = "known" => reader'[f] = "known"
    BY <2>1, <2>2 DEF Makes
  <2>4. QED
    BY <2>1, <2>3 DEF OnlineIsConnected, Makes
<1>3. ASSUME NEW n \in Node, NEW m \in Node, ConnectFails(n, m) PROVE OnlineIsConnected'
  BY <1>3, EndProps DEF Fields, Once, OnlineIsConnected, ConnectFails
<1>4. ASSUME NEW n \in Node, Bind(n) PROVE OnlineIsConnected'
  BY <1>4, EndProps DEF Fields, Once, OnlineIsConnected, Bind
<1>5. ASSUME NEW e \in End, ReadHello(e) PROVE OnlineIsConnected'
  BY <1>5, EndProps DEF Fields, Once, OnlineIsConnected, ReadHello, Introduced
<1>6. ASSUME NEW e \in End, ReadUpdate(e) PROVE OnlineIsConnected'
  BY <1>6, EndProps DEF Fields, Once, OnlineIsConnected, ReadUpdate, Introduced, Open
<1>7. ASSUME NEW e \in End, Coalesced(e) PROVE OnlineIsConnected'
  BY <1>7, EndProps DEF Fields, Once, OnlineIsConnected, Coalesced
<1>8. ASSUME NEW e \in End, EndOfFile(e) PROVE OnlineIsConnected'
  BY <1>8, EndsOnline DEF EndOfFile
<1>9. ASSUME NEW e \in End, Cancelled(e) PROVE OnlineIsConnected'
  BY <1>9, EndsOnline DEF Cancelled
<1>10. ASSUME NEW e \in End, Break(e) PROVE OnlineIsConnected'
  BY <1>10, EndsOnline DEF Break
<1>11. ASSUME NEW n \in Node, HandlePeerUp(n) PROVE OnlineIsConnected'
  BY <1>11, EndProps DEF Fields, Once, OnlineIsConnected, HandlePeerUp
<1>12. ASSUME NEW n \in Node, HandlePeerDown(n) PROVE OnlineIsConnected'
  BY <1>12, EndProps DEF Fields, Once, OnlineIsConnected, HandlePeerDown
<1>13. ASSUME NEW n \in Node, Broadcast(n) PROVE OnlineIsConnected'
  BY <1>13, EndProps DEF Fields, Once, OnlineIsConnected, Broadcast
<1>14. ASSUME NEW n \in Node, Down(n) PROVE OnlineIsConnected'
  BY <1>14, EndProps DEF Fields, Once, OnlineIsConnected, Down
<1>15. ASSUME NEW n \in Node, Release(n) PROVE OnlineIsConnected'
  BY <1>15, EndProps DEF Fields, Once, OnlineIsConnected, Release, Open
<1>16. ASSUME NEW n \in Node, Crash(n) PROVE OnlineIsConnected'
  <2>1. ASSUME NEW k \in Node, NEW m \in online'[k]
        PROVE  \E e \in End : Me(e) = k /\ Peer(e) = m /\ reader'[e] = "known"
    <3>1. k # n /\ m \in online[k]
      BY <1>16, <2>1 DEF Fields, Crash
    <3>2. PICK e \in End : Me(e) = k /\ Peer(e) = m /\ reader[e] = "known"
      BY <3>1 DEF OnlineIsConnected
    <3>3. reader'[e] = "known"
      BY <1>16, <3>1, <3>2 DEF Crash
    <3>4. QED
      BY <3>2, <3>3
  <2>2. QED
    BY <2>1 DEF OnlineIsConnected
<1>17. CASE UNCHANGED vars
  BY <1>17 DEF vars, OnlineIsConnected
<1>18. QED
  BY <1>1, <1>2, <1>3, <1>4, <1>5, <1>6, <1>7, <1>8, <1>9, <1>10, <1>11, <1>12, <1>13, <1>14, <1>15, <1>16, <1>17 DEF Next, Read, Start, Handle

-----------------------------------------------------------------------------
\* Writers on their way.

\* What leaves what is said of n true.
Kept(n) ==
  /\ mailbox'[n] = mailbox[n] /\ writer'[n] = writer[n]
  /\ \A e \in End : Me(e) = n /\ Handed(e) =>
       Handed(e)' /\ (reader'[e] = "ended" => reader[e] = "ended")

Emptied(n) == mailbox'[n] = <<>> /\ \A m \in Node : writer'[n][m] = None

LEMMA KeptFollowed ==
  ASSUME NEW n \in Node, InMail(n), InTable(n), Kept(n)
  PROVE  InMail(n)' /\ InTable(n)'
<1>1. /\ mailbox'[n] = mailbox[n]
      /\ \A i, m : Behind(n, i, m) => Behind(n, i, m)'
  BY DEF Kept, Behind
<1>2. InMail(n)'
  <2>1. ASSUME NEW i \in 1 .. Len(mailbox'[n]), NEW e \in End, mailbox'[n][i] = PeerUp(e)
        PROVE  /\ Me(e) = n /\ Handed(e)' /\ writer'[n][Peer(e)] # e
               /\ \A j \in 1 .. Len(mailbox'[n]) : mailbox'[n][j] = PeerUp(e) => i = j
               /\ reader'[e] = "ended" => Behind(n, i, Peer(e))'
    <3>1. /\ Me(e) = n /\ Handed(e) /\ writer[n][Peer(e)] # e
          /\ \A j \in 1 .. Len(mailbox[n]) : mailbox[n][j] = PeerUp(e) => i = j
          /\ reader[e] = "ended" => Behind(n, i, Peer(e))
      BY <1>1, <2>1 DEF InMail
    <3>2. QED
      BY <1>1, <3>1 DEF Kept
  <2>2. QED
    BY <1>1, <2>1 DEF InMail
<1>3. InTable(n)'
  <2>1. ASSUME NEW m \in Node, NEW e \in End, writer'[n][m] = e
        PROVE  /\ Me(e) = n /\ Peer(e) = m /\ Handed(e)'
               /\ reader'[e] = "ended" => Behind(n, 0, m)'
    <3>1. /\ Me(e) = n /\ Peer(e) = m /\ Handed(e)
          /\ reader[e] = "ended" => Behind(n, 0, m)
      BY <2>1 DEF InTable, Kept
    <3>2. QED
      BY <1>1, <3>1 DEF Kept
  <2>2. QED
    BY <2>1 DEF InTable
<1>4. QED
  BY <1>2, <1>3

LEMMA EmptiedFollowed ==
  ASSUME NEW n \in Node, Emptied(n)
  PROVE  InMail(n)' /\ InTable(n)'
<1>1. Len(mailbox'[n]) = 0
  BY DEF Emptied
<1>2. InMail(n)'
  BY <1>1 DEF InMail
<1>3. InTable(n)'
  BY NoneIsNoEnd DEF InTable, Emptied
<1>4. QED
  BY <1>2, <1>3

\* What keeps or empties all keeps Followed.
LEMMA Frame ==
  ASSUME Followed, \A n \in Node : Kept(n) \/ Emptied(n)
  PROVE  Followed'
  BY KeptFollowed, EmptiedFollowed DEF Followed

\* The message that a task puts into the mailbox of its store.
LEMMA AppendedMail ==
  ASSUME Fields, NEW n \in Node, NEW msg \in Mail, mailbox'[n] = Append(mailbox[n], msg)
  PROVE  /\ Len(mailbox[n]) \in Nat /\ Len(mailbox'[n]) = Len(mailbox[n]) + 1
         /\ \A i \in 1 .. Len(mailbox[n]) : mailbox'[n][i] = mailbox[n][i]
         /\ mailbox'[n][Len(mailbox[n]) + 1] = msg
         /\ \A i \in Nat, m \in Node : Behind(n, i, m) => Behind(n, i, m)'
<1>1. mailbox[n] \in Seq(Mail)
  BY DEF Fields
<1>2. /\ Len(mailbox[n]) \in Nat /\ Len(mailbox'[n]) = Len(mailbox[n]) + 1
      /\ \A i \in 1 .. Len(mailbox[n]) : mailbox'[n][i] = mailbox[n][i]
      /\ mailbox'[n][Len(mailbox[n]) + 1] = msg
  BY <1>1
<1>3. \A i \in Nat, m \in Node : Behind(n, i, m) => Behind(n, i, m)'
  BY <1>2 DEF Behind
<1>4. QED
  BY <1>2, <1>3

LEMMA IntroducedFollowed ==
  ASSUME Fields, Once, Followed, NEW e \in End, Open(e), Introduced(e),
         UNCHANGED <<runs, phase, half, writer>>
  PROVE  Followed'
<1> DEFINE n == Me(e)
<1>1. /\ n \in Node /\ reader \in [End -> {"none", "unknown", "known", "ended"}]
      /\ mailbox \in [Node -> Seq(Mail)] /\ PeerUp(e) \in Mail
  BY EndProps DEF Fields, Mail
<1>2. CASE reader[e] # "unknown" \/ ~Current(e)
  <2>1. mailbox' = mailbox
    BY <1>2 DEF Introduced, Posted
  <2>2. ASSUME NEW f \in End, Handed(f)
        PROVE  Handed(f)' /\ (reader'[f] = "ended" => reader[f] = "ended")
    BY <1>1, <1>2, <2>2 DEF Introduced, Handed, Current
  <2>3. QED
    BY <2>1, <2>2, Frame DEF Kept
<1>3. CASE reader[e] = "unknown" /\ Current(e)
  <2>1. /\ mailbox' = [mailbox EXCEPT ![n] = Append(mailbox[n], PeerUp(e))]
        /\ reader' = [reader EXCEPT ![e] = "known"]
    BY <1>3 DEF Introduced, Posted
  <2>2. ASSUME NEW f \in End, Handed(f)
        PROVE  f # e /\ Handed(f)' /\ reader'[f] = reader[f]
    BY <1>1, <1>3, <2>1, <2>2 DEF Handed, Current
  <2>3. ASSUME NEW k \in Node, k # n PROVE InMail(k)' /\ InTable(k)'
    <3>1. Kept(k)
      BY <1>1, <2>1, <2>2, <2>3 DEF Kept
    <3>2. QED
      BY <3>1, KeptFollowed DEF Followed
  <2>4. mailbox'[n] = Append(mailbox[n], PeerUp(e))
    BY <1>1, <2>1
  <2> HIDE DEF n
  <2>5. /\ Len(mailbox[n]) \in Nat /\ Len(mailbox'[n]) = Len(mailbox[n]) + 1
        /\ \A i \in 1 .. Len(mailbox[n]) : mailbox'[n][i] = mailbox[n][i]
        /\ mailbox'[n][Len(mailbox[n]) + 1] = PeerUp(e)
        /\ \A i \in Nat, m \in Node : Behind(n, i, m) => Behind(n, i, m)'
    BY <1>1, <2>4, AppendedMail
  <2>6. Me(e) = n /\ ~Handed(e) /\ Handed(e)' /\ reader'[e] = "known"
    BY <1>1, <1>3, <2>1 DEF Handed, Once, Current, n
  <2>7. InMail(n) /\ InTable(n)
    BY <1>1 DEF Followed
  <2>8. InMail(n)'
    <3>1. ASSUME NEW i \in 1 .. Len(mailbox'[n]), NEW m \in Node, mailbox'[n][i] = PeerDown(m)
          PROVE  m # n
      <4>1. i \in 1 .. Len(mailbox[n])
        BY <2>5, <3>1, MailProps
      <4>2. QED
        BY <2>5, <2>7, <3>1, <4>1 DEF InMail
    <3>2. ASSUME NEW i \in 1 .. Len(mailbox'[n]), NEW f \in End, mailbox'[n][i] = PeerUp(f)
          PROVE  /\ Me(f) = n /\ Handed(f)' /\ writer'[n][Peer(f)] # f
                 /\ \A j \in 1 .. Len(mailbox'[n]) : mailbox'[n][j] = PeerUp(f) => i = j
                 /\ reader'[f] = "ended" => Behind(n, i, Peer(f))'
      <4>1. CASE i = Len(mailbox[n]) + 1
        <5>1. f = e
          BY <2>5, <3>2, <4>1, MailProps
        <5>2. writer[n][Peer(e)] # e
          BY <2>6, <2>7, EndProps DEF InTable
        <5>3. \A j \in 1 .. Len(mailbox[n]) : mailbox[n][j] # PeerUp(e)
          BY <2>6, <2>7 DEF InMail
        <5>4. ASSUME NEW j \in 1 .. Len(mailbox'[n]), mailbox'[n][j] = PeerUp(f)
              PROVE  i = j
          BY <2>5, <4>1, <5>1, <5>3, <5>4
        <5>5. QED
          BY <2>6, <5>1, <5>2, <5>4
      <4>2. CASE i \in 1 .. Len(mailbox[n])
        <5>1. /\ Me(f) = n /\ Handed(f) /\ writer[n][Peer(f)] # f
              /\ \A j \in 1 .. Len(mailbox[n]) : mailbox[n][j] = PeerUp(f) => i = j
              /\ reader[f] = "ended" => Behind(n, i, Peer(f))
          BY <2>5, <2>7, <3>2, <4>2 DEF InMail
        <5>2. f # e /\ Handed(f)' /\ reader'[f] = reader[f]
          BY <2>2, <5>1
        <5>3. ASSUME NEW j \in 1 .. Len(mailbox'[n]), mailbox'[n][j] = PeerUp(f)
              PROVE  i = j
          <6>1. j \in 1 .. Len(mailbox[n])
            BY <2>5, <5>2, <5>3, MailProps
          <6>2. QED
            BY <2>5, <5>1, <5>3, <6>1
        <5>4. i \in Nat /\ Peer(f) \in Node
          BY EndProps
        <5>5. QED
          BY <2>5, <5>1, <5>2, <5>3, <5>4
      <4>3. QED
        BY <2>5, <4>1, <4>2
    <3>3. QED
      BY <3>1, <3>2 DEF InMail
  <2>9. InTable(n)'
    BY <2>2, <2>5, <2>7 DEF InTable
  <2>10. QED
    BY <2>3, <2>8, <2>9 DEF Followed
<1>4. QED
  BY <1>2, <1>3

LEMMA EndsFollowed ==
  ASSUME Fields, Once, Followed, NEW e \in End, Open(e), Ends(e)
  PROVE  Followed'
<1> DEFINE n == Me(e)
<1>1. /\ n \in Node /\ reader \in [End -> {"none", "unknown", "known", "ended"}]
      /\ half \in [End -> {"none", "open", "dropped"}] /\ Peer(e) \in Node /\ Peer(e) # n
      /\ mailbox \in [Node -> Seq(Mail)] /\ PeerDown(Peer(e)) \in Mail
  <2>1. n \in Node /\ Peer(e) \in Node /\ Peer(e) # n
    BY EndProps
  <2>2. PeerDown(Peer(e)) \in Mail
    BY <2>1 DEF Mail
  <2>3. QED
    BY <2>1, <2>2 DEF Fields
<1>2. reader' = [reader EXCEPT ![e] = "ended"] /\ UNCHANGED <<runs, phase, writer>>
  BY DEF Ends
<1>3. CASE ~(reader[e] = "known" /\ Current(e))
  <2>1. mailbox' = mailbox
    BY <1>3 DEF Ends, Posted
  <2>2. ~Handed(e)
    BY <1>3 DEF Handed, Open
  <2>3. ASSUME NEW f \in End, Handed(f)
        PROVE  Handed(f)' /\ (reader'[f] = "ended" => reader[f] = "ended")
    <3>1. f # e /\ half'[f] = half[f]
      BY <1>1, <2>2, <2>3 DEF Ends
    <3>2. QED
      BY <1>1, <1>2, <2>3, <3>1 DEF Handed, Current
  <2>4. QED
    BY <1>2, <2>1, <2>3, Frame DEF Kept
<1>4. CASE reader[e] = "known" /\ Current(e)
  <2>1. mailbox' = [mailbox EXCEPT ![n] = Append(mailbox[n], PeerDown(Peer(e)))] /\ half' = half
    BY <1>4 DEF Ends, Posted
  <2>2. ASSUME NEW f \in End, Handed(f)
        PROVE  Handed(f)' /\ (f # e => reader'[f] = reader[f])
    BY <1>1, <1>2, <2>1, <2>2 DEF Handed, Current
  <2>3. ASSUME NEW k \in Node, k # n PROVE InMail(k)' /\ InTable(k)'
    <3>1. Kept(k)
      BY <1>1, <1>2, <2>1, <2>2, <2>3 DEF Kept
    <3>2. QED
      BY <3>1, KeptFollowed DEF Followed
  <2>4. mailbox'[n] = Append(mailbox[n], PeerDown(Peer(e)))
    BY <1>1, <2>1
  <2>5. Me(e) = n
    OBVIOUS
  <2> HIDE DEF n
  <2>6. /\ Len(mailbox[n]) \in Nat /\ Len(mailbox'[n]) = Len(mailbox[n]) + 1
        /\ \A i \in 1 .. Len(mailbox[n]) : mailbox'[n][i] = mailbox[n][i]
        /\ mailbox'[n][Len(mailbox[n]) + 1] = PeerDown(Peer(e))
        /\ \A i \in Nat, m \in Node : Behind(n, i, m) => Behind(n, i, m)'
    BY <1>1, <2>4, AppendedMail
  <2>7. \A i \in 0 .. Len(mailbox[n]) : Behind(n, i, Peer(e))'
    BY <2>6 DEF Behind
  <2>8. InMail(n) /\ InTable(n)
    BY <1>1 DEF Followed
  <2>9. InMail(n)'
    <3>1. ASSUME NEW i \in 1 .. Len(mailbox'[n]), NEW m \in Node, mailbox'[n][i] = PeerDown(m)
          PROVE  m # n
      <4>1. CASE i = Len(mailbox[n]) + 1
        BY <1>1, <2>6, <3>1, <4>1, MailProps
      <4>2. CASE i \in 1 .. Len(mailbox[n])
        BY <2>6, <2>8, <3>1, <4>2 DEF InMail
      <4>3. QED
        BY <2>6, <4>1, <4>2
    <3>2. ASSUME NEW i \in 1 .. Len(mailbox'[n]), NEW f \in End, mailbox'[n][i] = PeerUp(f)
          PROVE  /\ Me(f) = n /\ Handed(f)' /\ writer'[n][Peer(f)] # f
                 /\ \A j \in 1 .. Len(mailbox'[n]) : mailbox'[n][j] = PeerUp(f) => i = j
                 /\ reader'[f] = "ended" => Behind(n, i, Peer(f))'
      <4>1. \A j \in 1 .. Len(mailbox'[n]) :
              mailbox'[n][j] = PeerUp(f) => j \in 1 .. Len(mailbox[n])
        BY <1>1, <2>6, MailProps
      <4>2. i \in 1 .. Len(mailbox[n]) /\ mailbox[n][i] = PeerUp(f)
        BY <2>6, <3>2, <4>1
      <4>3. /\ Me(f) = n /\ Handed(f) /\ writer[n][Peer(f)] # f
            /\ \A j \in 1 .. Len(mailbox[n]) : mailbox[n][j] = PeerUp(f) => i = j
            /\ reader[f] = "ended" => Behind(n, i, Peer(f))
        BY <2>8, <4>2 DEF InMail
      <4>4. Handed(f)' /\ writer'[n][Peer(f)] # f
        BY <1>2, <2>2, <4>3
      <4>5. \A j \in 1 .. Len(mailbox'[n]) : mailbox'[n][j] = PeerUp(f) => i = j
        BY <2>6, <4>1, <4>3
      <4>6. reader'[f] = "ended" => Behind(n, i, Peer(f))'
        <5>1. CASE f = e
          BY <2>6, <2>7, <4>2, <5>1
        <5>2. CASE f # e
          BY <2>2, <2>6, <4>3, <5>2, EndProps
        <5>3. QED
          BY <5>1, <5>2
      <4>7. QED
        BY <4>3, <4>4, <4>5, <4>6
    <3>3. QED
      BY <3>1, <3>2 DEF InMail
  <2>10. InTable(n)'
    <3>1. ASSUME NEW m \in Node, NEW f \in End, writer'[n][m] = f
          PROVE  /\ Me(f) = n /\ Peer(f) = m /\ Handed(f)'
                 /\ reader'[f] = "ended" => Behind(n, 0, m)'
      <4>1. /\ Me(f) = n /\ Peer(f) = m /\ Handed(f)
            /\ reader[f] = "ended" => Behind(n, 0, m)
        BY <1>2, <2>8, <3>1 DEF InTable
      <4>2. CASE f = e
        BY <2>2, <2>6, <2>7, <4>1, <4>2
      <4>3. CASE f # e
        BY <2>2, <2>6, <4>1, <4>3
      <4>4. QED
        BY <4>2, <4>3
    <3>2. QED
      BY <3>1 DEF InTable
  <2>11. QED
    BY <2>3, <2>9, <2>10 DEF Followed
<1>5. QED
  BY <1>3, <1>4

LEMMA Untouched ==
  ASSUME Followed, UNCHANGED <<mailbox, writer>>,
         \A f \in End : Handed(f) => Handed(f)' /\ (reader'[f] = "ended" => reader[f] = "ended")
  PROVE  Followed'
  BY Frame DEF Kept

LEMMA WipedFollowed ==
  ASSUME Fields, Followed, NEW n \in Node,
         mailbox' = [mailbox EXCEPT ![n] = <<>>],
         writer' = [writer EXCEPT ![n] = [m \in Node |-> None]],
         \A f \in End : Me(f) # n /\ Handed(f) =>
           Handed(f)' /\ (reader'[f] = "ended" => reader[f] = "ended")
  PROVE  Followed'
<1>1. Emptied(n)
  BY DEF Fields, Emptied
<1>2. \A k \in Node : k # n => Kept(k)
  BY DEF Fields, Kept
<1>3. QED
  BY <1>1, <1>2, Frame

\* The handling of a message leaves a writer alone that is still on its way,
\* or is for another store.
LEMMA HandlesHanded ==
  ASSUME Fields, Followed, NEW n \in Node, NEW m \in Node, NEW new, Handles(n, m, new),
         NEW f \in End, Handed(f), Me(f) = n => (writer[n][m] # f)
  PROVE  Handed(f)' /\ reader'[f] = reader[f]
<1>1. f # writer[n][m]
  BY DEF Followed, InTable
<1>2. QED
  BY <1>1 DEF Handles, Handed, Current

\* What is said of the mailbox and the table of n after one of its messages
\* is true, if it is of the new writer.
LEMMA HandlesFollowed ==
  ASSUME Fields, Followed, NEW n \in Node, NEW m \in Node, NEW new \in End \cup {None},
         Handles(n, m, new),
         \A f \in End : Head(mailbox[n]) # PeerUp(f) \/ f = new,
         \A l \in Node : l # m => Head(mailbox[n]) # PeerDown(l),
         new \in End => Head(mailbox[n]) = PeerUp(new) /\ Peer(new) = m
  PROVE  Followed'
<1>1. /\ Len(mailbox[n]) \in Nat /\ Len(mailbox[n]) > 0
      /\ Head(mailbox[n]) = mailbox[n][1]
      /\ mailbox'[n] = Tail(mailbox[n])
      /\ Len(mailbox'[n]) = Len(mailbox[n]) - 1
      /\ \A i \in 1 .. Len(mailbox'[n]) : mailbox'[n][i] = mailbox[n][i + 1]
  BY HeadProps DEF Handles, Fields
<1>2. InMail(n) /\ InTable(n)
  BY DEF Followed
<1>3. \A k, l \in Node : writer'[k][l] = IF k = n /\ l = m THEN new ELSE writer[k][l]
  BY DEF Handles
<1>4. ASSUME NEW k \in Node, k # n PROVE InMail(k)' /\ InTable(k)'
  <2>1. mailbox'[k] = mailbox[k] /\ writer'[k] = writer[k]
    BY <1>4 DEF Handles, Fields
  <2>2. ASSUME NEW f \in End, Me(f) = k, Handed(f)
        PROVE  Handed(f)' /\ reader'[f] = reader[f]
    BY <1>4, <2>2, HandlesHanded
  <2>3. Kept(k)
    BY <2>1, <2>2 DEF Kept
  <2>4. QED
    BY <2>3, KeptFollowed DEF Followed
<1>5. \A i \in Nat, l \in Node :
        /\ Behind(n, i + 1, l) => Behind(n, i, l)'
        /\ Behind(n, 0, l) /\ l # m => Behind(n, 0, l)'
  <2>1. ASSUME NEW i \in Nat, NEW l \in Node, Behind(n, i + 1, l) PROVE Behind(n, i, l)'
    <3>1. PICK j \in ((i + 1) + 1) .. Len(mailbox[n]) : mailbox[n][j] = PeerDown(l)
      BY <2>1 DEF Behind
    <3>2. j - 1 \in (i + 1) .. Len(mailbox'[n]) /\ (j - 1) + 1 = j
      BY <1>1, <3>1
    <3>3. mailbox'[n][j - 1] = PeerDown(l)
      BY <1>1, <3>1, <3>2
    <3>4. QED
      BY <3>2, <3>3 DEF Behind
  <2>2. ASSUME NEW l \in Node, l # m, Behind(n, 0, l) PROVE Behind(n, 0, l)'
    <3>1. PICK j \in 1 .. Len(mailbox[n]) : mailbox[n][j] = PeerDown(l)
      BY <2>2 DEF Behind
    <3>2. j # 1
      BY <1>1, <2>2, <3>1
    <3>3. j - 1 \in 1 .. Len(mailbox'[n]) /\ (j - 1) + 1 = j
      BY <1>1, <3>1, <3>2
    <3>4. mailbox'[n][j - 1] = PeerDown(l)
      BY <1>1, <3>1, <3>3
    <3>5. QED
      BY <3>3, <3>4 DEF Behind
  <2>3. QED
    BY <2>1, <2>2
<1>6. InMail(n)'
  <2>1. ASSUME NEW i \in 1 .. Len(mailbox'[n]), NEW l \in Node, mailbox'[n][i] = PeerDown(l)
        PROVE  l # n
    <3>1. i + 1 \in 1 .. Len(mailbox[n]) /\ mailbox[n][i + 1] = PeerDown(l)
      BY <1>1, <2>1
    <3>2. QED
      BY <1>2, <3>1 DEF InMail
  <2>2. ASSUME NEW i \in 1 .. Len(mailbox'[n]), NEW f \in End, mailbox'[n][i] = PeerUp(f)
        PROVE  /\ Me(f) = n /\ Handed(f)' /\ writer'[n][Peer(f)] # f
               /\ \A j \in 1 .. Len(mailbox'[n]) : mailbox'[n][j] = PeerUp(f) => i = j
               /\ reader'[f] = "ended" => Behind(n, i, Peer(f))'
    <3>1. i + 1 \in 1 .. Len(mailbox[n]) /\ mailbox[n][i + 1] = PeerUp(f) /\ i \in Nat
      BY <1>1, <2>2
    <3>2. /\ Me(f) = n /\ Handed(f) /\ writer[n][Peer(f)] # f
          /\ \A j \in 1 .. Len(mailbox[n]) : mailbox[n][j] = PeerUp(f) => i + 1 = j
          /\ reader[f] = "ended" => Behind(n, i + 1, Peer(f))
      BY <1>2, <3>1 DEF InMail
    <3>3. Peer(f) \in Node
      BY EndProps
    <3>4. writer[n][m] # f
      BY <1>2, <3>2 DEF InTable
    <3>5. Handed(f)' /\ reader'[f] = reader[f]
      BY <3>2, <3>4, HandlesHanded
    <3>6. f # new
      <4>1. mailbox[n][1] # PeerUp(f)
        BY <1>1, <3>1, <3>2
      <4>2. QED
        BY <1>1, <4>1
    <3>7. writer'[n][Peer(f)] # f
      BY <1>3, <3>2, <3>3, <3>6
    <3>8. ASSUME NEW j \in 1 .. Len(mailbox'[n]), mailbox'[n][j] = PeerUp(f) PROVE i = j
      <4>1. j + 1 \in 1 .. Len(mailbox[n]) /\ mailbox[n][j + 1] = PeerUp(f)
        BY <1>1, <3>8
      <4>2. QED
        BY <3>2, <4>1
    <3>9. QED
      BY <1>5, <3>1, <3>2, <3>3, <3>5, <3>7, <3>8
  <2>3. QED
    BY <2>1, <2>2 DEF InMail
<1>7. InTable(n)'
  <2>1. ASSUME NEW l \in Node, NEW f \in End, writer'[n][l] = f
        PROVE  /\ Me(f) = n /\ Peer(f) = l /\ Handed(f)'
               /\ reader'[f] = "ended" => Behind(n, 0, l)'
    <3>1. CASE l = m
      <4>1. f = new /\ mailbox[n][1] = PeerUp(f) /\ Peer(f) = m
        BY <1>1, <1>3, <2>1, <3>1
      <4>2. 1 \in 1 .. Len(mailbox[n])
        BY <1>1
      <4>3. /\ Me(f) = n /\ Handed(f) /\ writer[n][m] # f
            /\ reader[f] = "ended" => Behind(n, 1, m)
        BY <1>2, <4>1, <4>2 DEF InMail
      <4>4. Handed(f)' /\ reader'[f] = reader[f]
        BY <4>3, HandlesHanded
      <4>5. Behind(n, 0 + 1, m) => Behind(n, 0, m)'
        BY <1>5
      <4>6. QED
        BY <3>1, <4>1, <4>3, <4>4, <4>5
    <3>2. CASE l # m
      <4>1. writer[n][l] = f
        BY <1>3, <2>1, <3>2
      <4>2. /\ Me(f) = n /\ Peer(f) = l /\ Handed(f)
            /\ reader[f] = "ended" => Behind(n, 0, l)
        BY <1>2, <4>1 DEF InTable
      <4>3. writer[n][m] # f
        BY <1>2, <3>2, <4>2 DEF InTable
      <4>4. Handed(f)' /\ reader'[f] = reader[f]
        BY <4>2, <4>3, HandlesHanded
      <4>5. QED
        BY <1>5, <3>2, <4>2, <4>4
    <3>3. QED
      BY <3>1, <3>2
  <2>2. QED
    BY <2>1 DEF InTable
<1>8. QED
  BY <1>4, <1>6, <1>7 DEF Followed

LEMMA FollowedStep ==
  ASSUME Fields, Once, Followed, [Next]_vars
  PROVE  Followed'
<1>1. ASSUME NEW n \in Node, Up(n) PROVE Followed'
  <2>1. ASSUME NEW f \in End, Handed(f)
        PROVE  Handed(f)' /\ (reader'[f] = "ended" => reader[f] = "ended")
    BY <1>1, <2>1 DEF Handed, Current, Fields, Up
  <2>2. QED
    BY <1>1, <2>1, Untouched DEF Up
<1>2. ASSUME NEW n \in Node, NEW m \in Node, Connect(n, m) PROVE Followed'
  <2>1. PICK e \in End : e[1] = n /\ e[3] = m /\ Makes(e)
    BY <1>2, MakesConnection
  <2>2. Other(e) \in End /\ reader[e] = "none" /\ reader[Other(e)] = "none"
    BY <2>1, EndProps DEF Once, Makes
  <2>3. ASSUME NEW f \in End, Handed(f)
        PROVE  Handed(f)' /\ (reader'[f] = "ended" => reader[f] = "ended")
    <3>1. f # e /\ f # Other(e)
      BY <2>2, <2>3 DEF Handed
    <3>2. QED
      BY <2>1, <2>3, <3>1 DEF Handed, Current, Makes
  <2>4. QED
    BY <2>1, <2>3, Untouched DEF Makes
<1>3. ASSUME NEW n \in Node, NEW m \in Node, ConnectFails(n, m) PROVE Followed'
  <2>1. ASSUME NEW f \in End, Handed(f)
        PROVE  Handed(f)' /\ (reader'[f] = "ended" => reader[f] = "ended")
    BY <1>3, <2>1 DEF Handed, Current, Fields, ConnectFails
  <2>2. QED
    BY <1>3, <2>1, Untouched DEF ConnectFails
<1>4. ASSUME NEW n \in Node, Bind(n) PROVE Followed'
  <2>1. ASSUME NEW f \in End, Handed(f)
        PROVE  Handed(f)' /\ (reader'[f] = "ended" => reader[f] = "ended")
    BY <1>4, <2>1 DEF Handed, Current, Fields, Bind
  <2>2. QED
    BY <1>4, <2>1, Untouched DEF Bind
<1>5. ASSUME NEW e \in End, ReadHello(e) PROVE Followed'
  BY <1>5, IntroducedFollowed DEF ReadHello
<1>6. ASSUME NEW e \in End, ReadUpdate(e) PROVE Followed'
  BY <1>6, IntroducedFollowed DEF ReadUpdate
<1>7. ASSUME NEW e \in End, Coalesced(e) PROVE Followed'
  <2>1. ASSUME NEW f \in End, Handed(f)
        PROVE  Handed(f)' /\ (reader'[f] = "ended" => reader[f] = "ended")
    BY <1>7, <2>1 DEF Handed, Current, Fields, Coalesced
  <2>2. QED
    BY <1>7, <2>1, Untouched DEF Coalesced
<1>8. ASSUME NEW e \in End, EndOfFile(e) PROVE Followed'
  BY <1>8, EndsFollowed DEF EndOfFile
<1>9. ASSUME NEW e \in End, Cancelled(e) PROVE Followed'
  BY <1>9, EndsFollowed DEF Cancelled
<1>10. ASSUME NEW e \in End, Break(e) PROVE Followed'
  BY <1>10, EndsFollowed DEF Break
<1>11. ASSUME NEW n \in Node, HandlePeerUp(n) PROVE Followed'
  <2>1. PICK e \in End : Head(mailbox[n]) = PeerUp(e) /\ Handles(n, Peer(e), e)
    BY <1>11, HandlesPeerUp
  <2>2. Peer(e) \in Node
    BY EndProps
  <2>3. /\ \A f \in End : Head(mailbox[n]) # PeerUp(f) \/ f = e
        /\ \A l \in Node : Head(mailbox[n]) # PeerDown(l)
    BY <2>1, MailProps
  <2>4. QED
    BY <2>1, <2>2, <2>3, HandlesFollowed
<1>12. ASSUME NEW n \in Node, HandlePeerDown(n) PROVE Followed'
  <2>1. PICK m \in Node : Head(mailbox[n]) = PeerDown(m) /\ Handles(n, m, None)
    BY <1>12, HandlesPeerDown
  <2>2. /\ \A f \in End : Head(mailbox[n]) # PeerUp(f)
        /\ \A l \in Node : l # m => Head(mailbox[n]) # PeerDown(l)
    BY <2>1, MailProps
  <2>3. QED
    BY <2>1, <2>2, NoneIsNoEnd, HandlesFollowed
<1>13. ASSUME NEW n \in Node, Broadcast(n) PROVE Followed'
  <2>1. ASSUME NEW f \in End, Handed(f)
        PROVE  Handed(f)' /\ (reader'[f] = "ended" => reader[f] = "ended")
    BY <1>13, <2>1 DEF Handed, Current, Fields, Broadcast
  <2>2. QED
    BY <1>13, <2>1, Untouched DEF Broadcast
<1>14. ASSUME NEW n \in Node, Down(n) PROVE Followed'
  <2>1. ASSUME NEW f \in End, Me(f) # n, Handed(f)
        PROVE  Handed(f)' /\ (reader'[f] = "ended" => reader[f] = "ended")
    BY <1>14, <2>1 DEF Handed, Current, Fields, Down
  <2>2. QED
    BY <1>14, <2>1, WipedFollowed DEF Down
<1>15. ASSUME NEW n \in Node, Release(n) PROVE Followed'
  <2>1. ASSUME NEW f \in End, Handed(f)
        PROVE  Handed(f)' /\ (reader'[f] = "ended" => reader[f] = "ended")
    BY <1>15, <2>1 DEF Handed, Current, Fields, Release
  <2>2. QED
    BY <1>15, <2>1, Untouched DEF Release
<1>16. ASSUME NEW n \in Node, Crash(n) PROVE Followed'
  <2>1. ASSUME NEW f \in End, Me(f) # n, Handed(f)
        PROVE  Handed(f)' /\ (reader'[f] = "ended" => reader[f] = "ended")
    BY <1>16, <2>1 DEF Handed, Current, Fields, Crash
  <2>2. QED
    BY <1>16, <2>1, WipedFollowed DEF Crash
<1>17. CASE UNCHANGED vars
  <2>1. ASSUME NEW f \in End, Handed(f)
        PROVE  Handed(f)' /\ (reader'[f] = "ended" => reader[f] = "ended")
    BY <1>17, <2>1 DEF Handed, Current, Fields, vars
  <2>2. QED
    BY <1>17, <2>1, Untouched DEF vars
<1>18. QED
  BY <1>1, <1>2, <1>3, <1>4, <1>5, <1>6, <1>7, <1>8, <1>9, <1>10, <1>11, <1>12, <1>13, <1>14, <1>15, <1>16, <1>17 DEF Next, Read, Start, Handle
-----------------------------------------------------------------------------
\* The theorems.

LEMMA InitInv == Init => IInv
<1> SUFFICES ASSUME Init PROVE IInv
  OBVIOUS
<1>1. Fields
  BY BoundsAssumption DEF Init, Fields
<1>2. Once
  BY EndProps DEF Init, Once, End
<1>3. OnlineIsConnected
  BY DEF Init, OnlineIsConnected
<1>4. Followed
  BY NoneIsNoEnd DEF Init, Followed, InMail, InTable
<1>5. QED
  BY <1>1, <1>2, <1>3, <1>4 DEF IInv

LEMMA StepInv == IInv /\ [Next]_vars => IInv'
  BY FieldsStep, OnceStep, OnlineStep, FollowedStep DEF IInv

LEMMA Invariant == Spec => []IInv
  BY InitInv, StepInv, PTL DEF Spec

\* The writer registered for a store is always one of a connection with that
\* store, made by the present run and not yet dropped: how the table of
\* writers, the mailbox and the tasks stand together
\* (node_communication.rs:95-111).
THEOREM LinkTypes == Spec => []TypeOK
<1>1. IInv => TypeOK
  <2> SUFFICES ASSUME IInv PROVE TypeOK
    OBVIOUS
  <2>1. ASSUME NEW n \in Node, NEW i \in DOMAIN mailbox[n]
        PROVE  IsPeerMessage(n, mailbox[n][i])
    <3>1. mailbox[n] \in Seq(Mail) /\ i \in 1 .. Len(mailbox[n]) /\ InMail(n)
      BY <2>1 DEF IInv, Fields, Followed
    <3>2. mailbox[n][i] \in Mail
      BY <3>1
    <3>3. CASE \E e \in End : mailbox[n][i] = PeerUp(e)
      BY <3>1, <3>3, MailProps DEF InMail, IsPeerMessage
    <3>4. CASE \E m \in Node : mailbox[n][i] = PeerDown(m)
      BY <3>1, <3>4, MailProps DEF InMail, IsPeerMessage
    <3>5. QED
      BY <3>2, <3>3, <3>4 DEF Mail
  <2>2. ASSUME NEW n \in Node, NEW m \in Node, writer[n][m] # None
        PROVE  /\ Me(writer[n][m]) = n /\ Peer(writer[n][m]) = m
               /\ Current(writer[n][m]) /\ half[writer[n][m]] = "open"
    <3>1. writer[n][m] \in End /\ InTable(n)
      BY <2>2 DEF IInv, Fields, Followed
    <3>2. QED
      BY <3>1 DEF InTable, Handed
  <2>3. DOMAIN mailbox = Node
    BY DEF IInv, Fields
  <2>4. QED
    BY <2>1, <2>2, <2>3 DEF IInv, Fields, TypeOK
<1>2. QED
  BY <1>1, Invariant, PTL

\* A store writes to a connection it still reads from, or the removal of the
\* writer is in its mailbox (node_communication.rs:106-111, 386-389).
THEOREM NoDeadWriters == Spec => []NoDeadWriter
<1>1. IInv => NoDeadWriter
  <2> SUFFICES ASSUME IInv, NEW n \in Node, NEW m \in Node, writer[n][m] # None,
                      ~Open(writer[n][m])
               PROVE  PeerDown(m) \in Range(mailbox[n])
    BY DEF NoDeadWriter
  <2>1. writer[n][m] \in End /\ InTable(n) /\ mailbox[n] \in Seq(Mail)
    BY DEF IInv, Fields, Followed
  <2>2. Behind(n, 0, m)
    BY <2>1 DEF InTable, Handed, Open
  <2>3. PICK j \in 1 .. Len(mailbox[n]) : mailbox[n][j] = PeerDown(m)
    BY <2>2 DEF Behind
  <2>4. QED
    BY <2>1, <2>3 DEF Range
<1>2. QED
  BY <1>1, Invariant, PTL

\* A store is taken to be online only while a reading task knows it
\* (store.rs:495-498, node_communication.rs:386-389).
THEOREM OnlineAreConnected == Spec => []OnlineIsConnected
  BY Invariant, PTL DEF IInv
=============================================================================
