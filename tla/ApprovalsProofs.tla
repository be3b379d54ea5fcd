-------------------------- MODULE ApprovalsProofs --------------------------
(***************************************************************************)
(* Proofs about the approval queue, for any number of rows, requests,      *)
(* agents, outages and restarts: the type invariant, at most one request   *)
(* upstream per approval, the gate of a fail-closed proxy, the finality of *)
(* decisions, and that Approvals implements ApprovalGrant.                 *)
(***************************************************************************)
EXTENDS Approvals, TLAPS

USE ConstantsAssumption

-----------------------------------------------------------------------------
(* Typing. *)

LEMMA InitTyped == Init => TypeOK
BY DEF Init, TypeOK, Row, Status, Request, InFlight, Answered

LEMMA NewRowTyped ==
    ASSUME TypeOK, NEW s \in Subjects \cup {NoSubject}
    PROVE  NewRow(s) \in Row
BY DEF TypeOK, NewRow, Row, Status

LEMMA GotoWithTyped ==
    ASSUME TypeOK, NEW r \in Requests, NEW pc \in {"held", "granted"}, NEW i \in Ids,
           GotoWith(r, pc, i)
    PROVE  req' \in [Requests -> Request]
<1> DEFINE new == [req[r] EXCEPT !.pc = pc, !.row = i]
<1>1. req[r] \in Request
    BY DEF TypeOK
<1>2. new \in Request
    BY <1>1 DEF Request, InFlight, Answered
<1>3. req' = [req EXCEPT ![r] = new]
    BY DEF GotoWith
<1> HIDE DEF new
<1> QED
    BY <1>2, <1>3 DEF TypeOK

LEMMA UseTyped ==
    ASSUME TypeOK, NEW r \in Requests, Presents(r),
           rows' = [rows EXCEPT ![req[r].token].used = TRUE]
    PROVE  rows' \in [Ids -> Row]
<1>1. PICK i \in Ids : i = req[r].token
    BY DEF Presents
<1>2. rows[i] \in Row
    BY DEF TypeOK
<1>3. [rows[i] EXCEPT !.used = TRUE] \in Row
    BY <1>2 DEF Row, Status
<1>4. rows' = [rows EXCEPT ![i] = [rows[i] EXCEPT !.used = TRUE]]
    BY <1>1
<1> QED
    BY <1>3, <1>4 DEF TypeOK

LEMMA StepTyped == TypeOK /\ [Next]_vars => TypeOK'
<1> SUFFICES ASSUME TypeOK, [Next]_vars PROVE TypeOK'
    OBVIOUS
<1> USE DEF Request, InFlight, Answered
<1>1. ASSUME NEW r \in Requests, NEW s \in Subjects, NEW t \in known \cup {NoId, Forged},
             Arrive(r, s, t)
      PROVE  TypeOK'
    BY <1>1 DEF Arrive, TypeOK
<1>2. ASSUME NEW r \in Requests, CheckAvailable(r) PROVE TypeOK'
    BY <1>2 DEF CheckAvailable, Goto, TypeOK
<1>3. ASSUME NEW r \in Requests, NEW i \in Ids, CreateApproval(r, i) PROVE TypeOK'
    <2>1. NewRow(req[r].subject) \in Row
        BY NewRowTyped DEF TypeOK
    <2>2. rows' \in [Ids -> Row]
        BY <1>3, <2>1 DEF CreateApproval, TypeOK
    <2>3. req' \in [Requests -> Request]
        BY <1>3, GotoWithTyped DEF CreateApproval
    <2> QED
        BY <1>3, <2>2, <2>3 DEF CreateApproval, TypeOK
<1>4. ASSUME NEW r \in Requests, NEW i \in Ids, CreateUnacknowledged(r, i) PROVE TypeOK'
    <2>1. NewRow(req[r].subject) \in Row
        BY NewRowTyped DEF TypeOK
    <2>2. rows' \in [Ids -> Row]
        BY <1>4, <2>1 DEF CreateUnacknowledged, TypeOK
    <2>3. req' \in [Requests -> Request]
        BY <1>4 DEF CreateUnacknowledged, Goto, TypeOK
    <2> QED
        BY <1>4, <2>2, <2>3 DEF CreateUnacknowledged, TypeOK
<1>5. ASSUME NEW r \in Requests, CreateFails(r) PROVE TypeOK'
    BY <1>5 DEF CreateFails, Goto, TypeOK
<1>6. ASSUME NEW r \in Requests, ConsumeToken(r) PROVE TypeOK'
    <2>1. rows' \in [Ids -> Row]
        BY <1>6, UseTyped DEF ConsumeToken
    <2>2. req' \in [Requests -> Request]
        BY <1>6, GotoWithTyped DEF ConsumeToken, Presents
    <2> QED
        BY <1>6, <2>1, <2>2 DEF ConsumeToken, TypeOK
<1>7. ASSUME NEW r \in Requests, ConsumeUnacknowledged(r) PROVE TypeOK'
    <2>1. rows' \in [Ids -> Row]
        BY <1>7, UseTyped DEF ConsumeUnacknowledged
    <2>2. req' \in [Requests -> Request]
        BY <1>7 DEF ConsumeUnacknowledged, Goto, TypeOK
    <2> QED
        BY <1>7, <2>1, <2>2 DEF ConsumeUnacknowledged, TypeOK
<1>8. ASSUME NEW r \in Requests, RejectToken(r) PROVE TypeOK'
    BY <1>8 DEF RejectToken, Goto, TypeOK
<1>9. ASSUME NEW r \in Requests, ConsumeFails(r) PROVE TypeOK'
    BY <1>9 DEF ConsumeFails, Goto, TypeOK
<1>10. ASSUME NEW r \in Requests, ForwardGranted(r) PROVE TypeOK'
    BY <1>10 DEF ForwardGranted, Goto, TypeOK
<1>11. ASSUME NEW i \in Ids, Poll(i) PROVE TypeOK'
    BY <1>11 DEF Poll, TypeOK
<1>12. ASSUME NEW i \in Ids, NEW v \in {"approved", "denied"}, Decide(i, v) PROVE TypeOK'
    BY <1>12 DEF Decide, TypeOK, Row, Status
<1>13. ExpireTimedOut => TypeOK'
    BY DEF ExpireTimedOut, TypeOK, Row, Status
<1>14. SweepRejects => TypeOK'
    BY DEF SweepRejects, Die, TypeOK
<1>15. CleanupApprovalRecords => TypeOK'
    BY DEF CleanupApprovalRecords, TypeOK, Row, Status
<1>16. Start => TypeOK'
    BY DEF Start, TypeOK
<1>17. Crash => TypeOK'
    BY DEF Crash, Die, TypeOK
<1>18. DbFails => TypeOK'
    BY DEF DbFails, TypeOK
<1>19. DbRecovers => TypeOK'
    BY DEF DbRecovers, TypeOK
<1>20. Tick => TypeOK'
    BY DEF Tick, TypeOK
<1>21. UNCHANGED vars => TypeOK'
    BY DEF vars, TypeOK
<1> QED
    BY <1>1, <1>2, <1>3, <1>4, <1>5, <1>6, <1>7, <1>8, <1>9, <1>10, <1>11, <1>12, <1>13,
       <1>14, <1>15, <1>16, <1>17, <1>18, <1>19, <1>20, <1>21
       DEF Next, Handle, Operate, ApproveRequest, DenyRequest, Background, Environment

\* The variables of the queue always hold values of their types: no handler,
\* job, outage or restart writes anything else into the table or a request.
THEOREM Typing == Spec => []TypeOK
<1>1. Init => TypeOK
    BY InitTyped
<1>2. TypeOK /\ [Next]_vars => TypeOK'
    BY StepTyped
<1> QED
    BY <1>1, <1>2, PTL DEF Spec

-----------------------------------------------------------------------------
(* One request per token. *)

\* A step that leaves the table alone and moves r to a state without a token.
LEMMA MoveKeepsReleases ==
    ASSUME ReleaseInv, TypeOK', UNCHANGED rows,
           \A r \in Requests : Released(r)' \/ req'[r].pc = "granted" =>
               /\ Released(r)
               /\ req'[r].row = req[r].row /\ req'[r].subject = req[r].subject
    PROVE  ReleaseInv'
BY DEF ReleaseInv, Released

\* A step that changes rows but no request.
LEMMA TableKeepsReleases ==
    ASSUME ReleaseInv, TypeOK', UNCHANGED req,
           \A i \in Ids : rows'[i].used = rows[i].used /\ rows'[i].subject = rows[i].subject,
           \A i \in Ids : rows[i].used => rows'[i].status \in {"approved", "deleted"}
    PROVE  ReleaseInv'
BY DEF ReleaseInv, Released

LEMMA StepReleases == ReleaseInv /\ [Next]_vars => ReleaseInv'
<1> SUFFICES ASSUME ReleaseInv, [Next]_vars PROVE ReleaseInv'
    OBVIOUS
<1>t. TypeOK /\ TypeOK'
    BY StepTyped DEF ReleaseInv
<1>1. ASSUME NEW r \in Requests, NEW s \in Subjects, NEW t \in known \cup {NoId, Forged},
             Arrive(r, s, t)
      PROVE  ReleaseInv'
    <2>1. \A q \in Requests : Released(q)' \/ req'[q].pc = "granted" => q # r
        BY <1>1, <1>t DEF Arrive, Released, TypeOK
    <2> QED
        BY <1>1, <1>t, <2>1, MoveKeepsReleases DEF Arrive, Released, TypeOK, ReleaseInv
<1>2. ASSUME NEW r \in Requests, CheckAvailable(r) PROVE ReleaseInv'
    BY <1>2, <1>t, MoveKeepsReleases DEF CheckAvailable, Goto, Released, TypeOK, ReleaseInv
<1>3. ASSUME NEW r \in Requests, NEW i \in Ids, CreateApproval(r, i) PROVE ReleaseInv'
    <2>1. \A q \in Requests : Released(q)' \/ req'[q].pc = "granted" =>
              q # r /\ req'[q] = req[q] /\ Released(q) /\ req[q].row # i
        BY <1>3, <1>t DEF CreateApproval, GotoWith, Released, TypeOK, ReleaseInv
    <2>2. \A j \in Ids \ {i} : rows'[j] = rows[j]
        BY <1>3, <1>t DEF CreateApproval, TypeOK
    <2>3. ~rows'[i].used
        BY <1>3, <1>t DEF CreateApproval, NewRow, TypeOK
    <2> QED
        BY <1>t, <2>1, <2>2, <2>3 DEF ReleaseInv, Released
<1>4. ASSUME NEW r \in Requests, NEW i \in Ids, CreateUnacknowledged(r, i) PROVE ReleaseInv'
    <2>1. \A q \in Requests : Released(q)' \/ req'[q].pc = "granted" =>
              q # r /\ req'[q] = req[q] /\ Released(q) /\ req[q].row # i
        BY <1>4, <1>t DEF CreateUnacknowledged, Goto, Released, TypeOK, ReleaseInv
    <2>2. \A j \in Ids \ {i} : rows'[j] = rows[j]
        BY <1>4, <1>t DEF CreateUnacknowledged, TypeOK
    <2>3. ~rows'[i].used
        BY <1>4, <1>t DEF CreateUnacknowledged, NewRow, TypeOK
    <2> QED
        BY <1>t, <2>1, <2>2, <2>3 DEF ReleaseInv, Released
<1>5. ASSUME NEW r \in Requests, CreateFails(r) PROVE ReleaseInv'
    BY <1>5, <1>t, MoveKeepsReleases DEF CreateFails, Goto, Released, TypeOK, ReleaseInv
<1>6. ASSUME NEW r \in Requests, ConsumeToken(r) PROVE ReleaseInv'
    <2>1. PICK i \in Ids : i = req[r].token /\ TokenMatches(i, req[r].subject)
        BY <1>6 DEF ConsumeToken, Presents
    <2>2. /\ rows[i].status = "approved" /\ ~rows[i].used
          /\ rows[i].subject = req[r].subject
        BY <2>1 DEF TokenMatches
    <2>3. /\ req'[r].pc = "granted" /\ req'[r].row = i
          /\ req'[r].subject = req[r].subject
          /\ \A q \in Requests \ {r} : req'[q] = req[q]
        BY <1>6, <1>t, <2>1 DEF ConsumeToken, GotoWith, TypeOK, Request
    <2>4. /\ rows'[i].used /\ rows'[i].status = "approved"
          /\ rows'[i].subject = rows[i].subject
          /\ \A j \in Ids \ {i} : rows'[j] = rows[j]
        BY <1>6, <1>t, <2>1, <2>2 DEF ConsumeToken, TypeOK, Row
    <2>5. \A q \in Requests \ {r} : Released(q)' => Released(q) /\ req[q].row # i
        BY <2>2, <2>3 DEF Released, ReleaseInv
    <2> QED
        BY <1>t, <2>2, <2>3, <2>4, <2>5 DEF ReleaseInv, Released
<1>7. ASSUME NEW r \in Requests, ConsumeUnacknowledged(r) PROVE ReleaseInv'
    <2>1. PICK i \in Ids : i = req[r].token /\ ~rows[i].used /\ rows[i].status = "approved"
        BY <1>7 DEF ConsumeUnacknowledged, Presents, TokenMatches
    <2>2. \A q \in Requests : Released(q)' \/ req'[q].pc = "granted" =>
              q # r /\ req'[q] = req[q] /\ Released(q) /\ req[q].row # i
        BY <1>7, <1>t, <2>1 DEF ConsumeUnacknowledged, Goto, Released, TypeOK, ReleaseInv
    <2>3. \A j \in Ids \ {i} : rows'[j] = rows[j]
        BY <1>7, <1>t, <2>1 DEF ConsumeUnacknowledged, TypeOK
    <2>4. rows'[i].status = "approved"
        BY <1>7, <1>t, <2>1 DEF ConsumeUnacknowledged, TypeOK, Row
    <2> QED
        BY <1>t, <2>2, <2>3, <2>4 DEF ReleaseInv, Released
<1>8. ASSUME NEW r \in Requests, RejectToken(r) PROVE ReleaseInv'
    BY <1>8, <1>t, MoveKeepsReleases DEF RejectToken, Goto, Released, TypeOK, ReleaseInv
<1>9. ASSUME NEW r \in Requests, ConsumeFails(r) PROVE ReleaseInv'
    BY <1>9, <1>t, MoveKeepsReleases DEF ConsumeFails, Goto, Released, TypeOK, ReleaseInv
<1>10. ASSUME NEW r \in Requests, ForwardGranted(r) PROVE ReleaseInv'
    BY <1>10, <1>t, MoveKeepsReleases DEF ForwardGranted, Goto, Released, TypeOK, ReleaseInv
<1>11. ASSUME NEW i \in Ids, Poll(i) PROVE ReleaseInv'
    BY <1>11, <1>t DEF Poll, Released, ReleaseInv
<1>12. ASSUME NEW i \in Ids, NEW v \in {"approved", "denied"}, Decide(i, v) PROVE ReleaseInv'
    BY <1>12, <1>t, TableKeepsReleases DEF Decide, TypeOK, Row, ReleaseInv
<1>13. ExpireTimedOut => ReleaseInv'
    BY <1>t, TableKeepsReleases DEF ExpireTimedOut, Overdue, TypeOK, Row, ReleaseInv
<1>14. Die /\ UNCHANGED rows => ReleaseInv'
    BY <1>t, MoveKeepsReleases DEF Die, InFlight, Released, TypeOK, ReleaseInv
<1>15. CleanupApprovalRecords => ReleaseInv'
    <2> SUFFICES ASSUME CleanupApprovalRecords PROVE ReleaseInv'
        OBVIOUS
    <2>1. \A i \in Ids : rows[i] \in Row
        BY <1>t DEF TypeOK
    <2>2. \A i \in Ids : rows'[i] = rows[i] \/ rows'[i] = [rows[i] EXCEPT !.status = "deleted"]
        BY DEF CleanupApprovalRecords
    <2>3. \A i \in Ids : /\ rows'[i].used = rows[i].used /\ rows'[i].subject = rows[i].subject
                          /\ rows'[i].status \in {rows[i].status, "deleted"}
        BY <2>1, <2>2 DEF Row
    <2> QED
        BY <1>t, <2>3, TableKeepsReleases DEF CleanupApprovalRecords, ReleaseInv
<1>16. UNCHANGED <<rows, req>> => ReleaseInv'
    BY <1>t DEF Released, ReleaseInv
<1> QED
    BY <1>1, <1>2, <1>3, <1>4, <1>5, <1>6, <1>7, <1>8, <1>9, <1>10, <1>11, <1>12, <1>13,
       <1>14, <1>15, <1>16
       DEF Next, Handle, Operate, ApproveRequest, DenyRequest, Background, Environment,
           Start, Crash, DbFails, DbRecovers, Tick, SweepRejects, vars

THEOREM Releases == Spec => []ReleaseInv
<1>1. Init => ReleaseInv
    BY InitTyped DEF Init, ReleaseInv, Released
<1> QED
    BY <1>1, StepReleases, PTL DEF Spec

\* An approval carries at most one request to the provider: for any number of
\* requests presenting a token, in any order with lost answers and restarts.
THEOREM SingleUse == Spec => []AtMostOneForward
<1>1. ReleaseInv => AtMostOneForward
    BY DEF ReleaseInv, Released, AtMostOneForward
<1> QED
    BY <1>1, Releases, PTL

\* What is forwarded on a token is exactly what was approved.
THEOREM AsApproved == Spec => []ForwardedAsApproved
<1>1. ReleaseInv => ForwardedAsApproved
    BY DEF ReleaseInv, Released, ForwardedAsApproved
<1> QED
    BY <1>1, Releases, PTL

-----------------------------------------------------------------------------
(* The gate of a proxy that refuses to start without its database. *)

GateInv ==
    /\ ReleaseInv
    /\ proxy # "detached"
    /\ GatedOnlyOnToken

LEMMA StepGate ==
    ASSUME ~FailOpen, GateInv, [Next]_vars
    PROVE  GateInv'
<1>t. ReleaseInv /\ ReleaseInv' /\ TypeOK /\ TypeOK'
    BY StepReleases DEF GateInv, ReleaseInv
<1>1. proxy' # "detached"
    <2>1. proxy' \in {proxy, "down"} \/ Start
        BY DEF Next, Handle, Operate, ApproveRequest, DenyRequest, Background,
               Environment, Crash, Die, DbFails, DbRecovers, Tick, SweepRejects,
               ExpireTimedOut, CleanupApprovalRecords, Poll, Decide, Arrive, CheckAvailable,
               CreateApproval, CreateUnacknowledged, CreateFails, ConsumeToken,
               ConsumeUnacknowledged, RejectToken, ConsumeFails, ForwardGranted, vars
    <2>2. Start => proxy' = "up"
        BY <1>t DEF Start, TypeOK
    <2> QED
        BY <2>1, <2>2 DEF GateInv
<1> DEFINE Same == \A q \in Requests : req'[q].pc = "forwarded" =>
                       /\ req[q].pc = "forwarded"
                       /\ req'[q].row = req[q].row /\ req'[q].subject = req[q].subject
<1>2. Same => GatedOnlyOnToken'
    BY DEF GateInv, GatedOnlyOnToken
<1>3. ASSUME NEW r \in Requests, NEW s \in Subjects, NEW t \in known \cup {NoId, Forged},
             Arrive(r, s, t)
      PROVE  GatedOnlyOnToken'
    <2>1. proxy = "up"
        BY <1>3, <1>t DEF GateInv, Arrive, TypeOK
    <2>2. req'[r].pc = "forwarded" => req'[r].subject \notin Gated
        BY <1>3, <1>t, <2>1 DEF Arrive, TypeOK
    <2>3. \A q \in Requests \ {r} : req'[q] = req[q]
        BY <1>3, <1>t DEF Arrive, TypeOK
    <2> QED
        BY <2>2, <2>3 DEF GateInv, GatedOnlyOnToken
<1>4. ASSUME NEW r \in Requests, ForwardGranted(r) PROVE GatedOnlyOnToken'
    <2>1. req'[r].row \in Ids
        BY <1>4, <1>t DEF ForwardGranted, Goto, TypeOK, ReleaseInv
    <2>2. \A q \in Requests \ {r} : req'[q] = req[q]
        BY <1>4, <1>t DEF ForwardGranted, Goto, TypeOK
    <2> QED
        BY <2>1, <2>2 DEF GateInv, GatedOnlyOnToken
<1>5. ASSUME NEW r \in Requests, NEW pc \in InFlight \cup Answered, pc # "forwarded", Goto(r, pc)
      PROVE  Same
    BY <1>5, <1>t DEF Goto, TypeOK
<1>6. ASSUME NEW r \in Requests, NEW pc \in {"held", "granted"}, NEW i \in Ids, GotoWith(r, pc, i)
      PROVE  Same
    BY <1>6, <1>t DEF GotoWith, TypeOK
<1>7. ASSUME NEW r \in Requests, ConsumeToken(r) PROVE Same
    <2>1. req[r].token \in Ids /\ GotoWith(r, "granted", req[r].token)
        BY <1>7 DEF ConsumeToken, Presents
    <2> QED
        BY <1>6, <2>1
<1>8. ASSUME NEW r \in Requests, NEW i \in Ids, CreateApproval(r, i) PROVE Same
    BY <1>6, <1>8 DEF CreateApproval
<1>9. ASSUME NEW r \in Requests, NEW i \in Ids, CreateUnacknowledged(r, i) PROVE Same
    BY <1>5, <1>9 DEF CreateUnacknowledged, Answered
<1>10. ASSUME NEW r \in Requests,
              CheckAvailable(r) \/ CreateFails(r) \/ ConsumeUnacknowledged(r)
              \/ RejectToken(r) \/ ConsumeFails(r)
       PROVE  Same
    BY <1>5, <1>10 DEF CheckAvailable, CreateFails, ConsumeUnacknowledged, RejectToken,
                       ConsumeFails, InFlight, Answered
<1>11. Die => Same
    BY <1>t DEF Die, TypeOK
<1>12. UNCHANGED req => Same
    OBVIOUS
<1> HIDE DEF Same
<1>13. GatedOnlyOnToken'
    BY <1>2, <1>3, <1>4, <1>7, <1>8, <1>9, <1>10, <1>11, <1>12
       DEF Next, Handle, Operate, ApproveRequest, DenyRequest, Background,
           Environment, Start, Crash, DbFails, DbRecovers, Tick, SweepRejects,
           ExpireTimedOut, CleanupApprovalRecords, Poll, Decide, vars
<1> QED
    BY <1>1, <1>13, <1>t DEF GateInv

\* With fail_open: false no request that needs an approval is forwarded without
\* one, whatever outages and restarts the proxy goes through.
THEOREM Gate == ASSUME ~FailOpen PROVE Spec => []GatedOnlyOnToken
<1>1. Init => GateInv
    BY InitTyped DEF Init, GateInv, GatedOnlyOnToken, ReleaseInv, Released
<1>2. GateInv /\ [Next]_vars => GateInv'
    BY StepGate
<1>3. GateInv => GatedOnlyOnToken
    BY DEF GateInv
<1> QED
    BY <1>1, <1>2, <1>3, PTL DEF Spec

-----------------------------------------------------------------------------
(* Approvals implements ApprovalGrant. *)

Dec == [i \in Ids |-> Decision(rows[i].status)]
Spent == {i \in Ids : rows[i].used}
Delivered == [i \in Ids |-> ForwardedOn(i)]

LEMMA Decisions ==
    /\ Decision("absent") = "none" /\ Decision("pending") = "asked"
    /\ Decision("approved") = "granted" /\ Decision("denied") = "refused"
    /\ Decision("denied_timeout") = "refused" /\ Decision("deleted") = "purged"
BY DEF Decision

LEMMA RowStep ==
    ASSUME TypeOK, NEW i \in Ids, NEW row \in Row, rows' = [rows EXCEPT ![i] = row]
    PROVE  /\ Dec' = [Dec EXCEPT ![i] = Decision(row.status)]
           /\ row.used = rows[i].used => Spent' = Spent
           /\ row.used => Spent' = Spent \cup {i}
BY DEF TypeOK, Dec, Spent

LEMMA SameDelivered ==
    ASSUME \A r \in Requests, i \in Ids :
              (req'[r].pc = "forwarded" /\ req'[r].row = i)
              <=> (req[r].pc = "forwarded" /\ req[r].row = i)
    PROVE  Delivered' = Delivered
BY DEF Delivered, ForwardedOn

LEMMA StepGrant == ReleaseInv /\ [Next]_vars => [Grant!Next]_(Grant!vars)
<1> SUFFICES ASSUME ReleaseInv, [Next]_vars PROVE [Grant!Next]_(Grant!vars)
    OBVIOUS
<1>t. TypeOK
    BY DEF ReleaseInv
<1> USE DEF Grant!vars, Grant!Next
<1>s. UNCHANGED <<Dec, Spent, Delivered>> => UNCHANGED Grant!vars
    BY DEF Dec, Spent, Delivered
<1>r. UNCHANGED rows => UNCHANGED <<Dec, Spent>>
    BY DEF Dec, Spent
<1>q. UNCHANGED req => Delivered' = Delivered
    BY SameDelivered
<1>m. ASSUME NEW r \in Requests, NEW pc \in InFlight \cup Answered, pc # "forwarded",
             req[r].pc # "forwarded", Goto(r, pc)
      PROVE  Delivered' = Delivered
    BY <1>m, <1>t, SameDelivered DEF Goto, TypeOK
<1>w. ASSUME NEW r \in Requests, NEW pc \in {"held", "granted"}, NEW i \in Ids,
             req[r].pc # "forwarded", GotoWith(r, pc, i)
      PROVE  Delivered' = Delivered
    BY <1>w, <1>t, SameDelivered DEF GotoWith, TypeOK
<1>1. ASSUME NEW r \in Requests, NEW s \in Subjects, NEW t \in known \cup {NoId, Forged},
             Arrive(r, s, t)
      PROVE  UNCHANGED Grant!vars
    <2>1. Delivered' = Delivered
        BY <1>1, <1>t, SameDelivered DEF Arrive, TypeOK
    <2> QED
        BY <1>1, <2>1, <1>r, <1>s DEF Arrive
<1>2. ASSUME NEW r \in Requests,
             CheckAvailable(r) \/ CreateFails(r) \/ RejectToken(r) \/ ConsumeFails(r)
      PROVE  UNCHANGED Grant!vars
    <2>1. Delivered' = Delivered /\ UNCHANGED rows
        BY <1>2, <1>m DEF CheckAvailable, CreateFails, RejectToken, ConsumeFails, InFlight, Answered
    <2> QED
        BY <2>1, <1>r, <1>s
<1>3. ASSUME NEW r \in Requests, NEW i \in Ids, CreateApproval(r, i) \/ CreateUnacknowledged(r, i)
      PROVE  Grant!Ask(i)
    <2>1. Delivered' = Delivered
        BY <1>3, <1>m, <1>w DEF CreateApproval, CreateUnacknowledged, Answered
    <2>2. NewRow(req[r].subject) \in Row
        BY <1>t, NewRowTyped DEF TypeOK, Request
    <2>3. rows[i].status = "absent" /\ ~rows[i].used
        BY <1>3 DEF CreateApproval, CreateUnacknowledged, ReleaseInv
    <2> DEFINE row == NewRow(req[r].subject)
    <2>4. row \in Row /\ row.status = "pending" /\ row.used = FALSE
        BY <2>2 DEF NewRow
    <2>5. rows' = [rows EXCEPT ![i] = row]
        BY <1>3 DEF CreateApproval, CreateUnacknowledged
    <2>6. rows[i].used = FALSE
        BY <2>3, <1>t DEF TypeOK, Row
    <2> HIDE DEF row
    <2>a. Dec' = [Dec EXCEPT ![i] = Decision(row.status)]
        BY <1>t, <2>4, <2>5, RowStep
    <2>7. Dec' = [Dec EXCEPT ![i] = "asked"]
        BY <2>4, <2>a, Decisions
    <2>8. Spent' = Spent
        BY <1>t, <2>4, <2>5, <2>6, RowStep
    <2>9. Dec[i] = "none"
        BY <2>3, Decisions DEF Dec
    <2> QED
        BY <2>1, <2>7, <2>8, <2>9 DEF Grant!Ask, Dec, Spent, Delivered
<1>4. ASSUME NEW r \in Requests, ConsumeToken(r) \/ ConsumeUnacknowledged(r)
      PROVE  \E i \in Ids : Grant!Spend(i)
    <2>1. PICK i \in Ids : /\ i = req[r].token
                           /\ rows[i].status = "approved" /\ ~rows[i].used
        BY <1>4 DEF ConsumeToken, ConsumeUnacknowledged, Presents, TokenMatches
    <2>2. Delivered' = Delivered
        <3>1. CASE ConsumeToken(r)
            BY <3>1, <2>1, <1>w DEF ConsumeToken
        <3>2. CASE ConsumeUnacknowledged(r)
            BY <3>2, <1>m DEF ConsumeUnacknowledged, Answered
        <3> QED
            BY <1>4, <3>1, <3>2
    <2> DEFINE row == [rows[i] EXCEPT !.used = TRUE]
    <2>3. row \in Row /\ row.status = rows[i].status /\ row.used
        BY <1>t DEF TypeOK, Row
    <2>4. rows' = [rows EXCEPT ![i] = row]
        BY <1>4, <2>1 DEF ConsumeToken, ConsumeUnacknowledged
    <2> HIDE DEF row
    <2>a. Dec' = [Dec EXCEPT ![i] = Decision(row.status)] /\ Spent' = Spent \cup {i}
        BY <1>t, <2>3, <2>4, RowStep
    <2>5. Dec' = [Dec EXCEPT ![i] = "granted"] /\ Spent' = Spent \cup {i}
        BY <2>1, <2>3, <2>a, Decisions
    <2>6. Dec[i] = "granted" /\ i \notin Spent /\ Dec' = Dec
        BY <2>1, <2>5, Decisions DEF Dec, Spent
    <2> QED
        BY <2>2, <2>5, <2>6 DEF Grant!Spend, Dec, Spent, Delivered
<1>5. ASSUME NEW r \in Requests, ForwardGranted(r)
      PROVE  \E i \in Ids : Grant!Deliver(i, r)
    <2>1. PICK i \in Ids : i = req[r].row /\ rows[i].used
        BY <1>5 DEF ForwardGranted, ReleaseInv, Released
    <2>2. \A q \in Requests \ {r} : ~(req[q].pc = "forwarded" /\ req[q].row = i)
        BY <1>5, <2>1 DEF ForwardGranted, ReleaseInv, Released
    <2>3. /\ req'[r].pc = "forwarded" /\ req'[r].row = i /\ req[r].pc # "forwarded"
          /\ \A q \in Requests \ {r} : req'[q] = req[q]
        BY <1>5, <1>t, <2>1 DEF ForwardGranted, Goto, TypeOK, Request
    <2>4. Delivered[i] = {} /\ Delivered' = [Delivered EXCEPT ![i] = {r}]
        <3>1. Delivered[i] = {} /\ ForwardedOn(i)' = {r}
            BY <2>2, <2>3 DEF Delivered, ForwardedOn
        <3>2. \A j \in Ids \ {i} : ForwardedOn(j)' = ForwardedOn(j)
            BY <2>3 DEF ForwardedOn
        <3> QED
            BY <3>1, <3>2 DEF Delivered
    <2>5. i \in Spent /\ UNCHANGED <<Dec, Spent>>
        BY <2>1, <1>5, <1>r DEF Spent, ForwardGranted
    <2> QED
        BY <2>4, <2>5 DEF Grant!Deliver, Dec, Spent, Delivered
<1>6. ASSUME NEW i \in Ids, NEW v \in {"approved", "denied"}, Decide(i, v)
      PROVE  Grant!Grant(i) \/ Grant!Refuse({i})
    <2> DEFINE row == [rows[i] EXCEPT !.status = v]
    <2>1. row \in Row /\ row.status = v /\ row.used = rows[i].used
        BY <1>t DEF TypeOK, Row, Status
    <2>2. rows' = [rows EXCEPT ![i] = row] /\ rows[i].status = "pending" /\ UNCHANGED req
        BY <1>6 DEF Decide
    <2> HIDE DEF row
    <2>3. /\ Dec' = [Dec EXCEPT ![i] = Decision(v)] /\ Spent' = Spent
          /\ Delivered' = Delivered /\ Dec[i] = "asked"
        BY <1>t, <2>1, <2>2, <1>q, RowStep, Decisions DEF Dec
    <2>4. CASE v = "approved"
        BY <2>3, <2>4, Decisions DEF Grant!Grant, Dec, Spent, Delivered
    <2>5. CASE v = "denied"
        BY <2>3, <2>5, Decisions DEF Grant!Refuse, Dec, Spent, Delivered
    <2> QED
        BY <2>4, <2>5
<1>7. ASSUME NEW I \in SUBSET Ids, NEW v \in {"denied_timeout", "deleted"}, UNCHANGED req,
             rows' = [i \in Ids |-> IF i \in I THEN [rows[i] EXCEPT !.status = v] ELSE rows[i]]
      PROVE  /\ Dec' = [i \in Ids |-> IF i \in I THEN Decision(v) ELSE Dec[i]]
             /\ UNCHANGED <<Spent, Delivered>>
    <2>1. \A i \in Ids : /\ rows'[i].used = rows[i].used
                          /\ rows'[i].status = IF i \in I THEN v ELSE rows[i].status
        BY <1>7, <1>t DEF TypeOK, Row
    <2> QED
        BY <2>1, <1>7, <1>q DEF Dec, Spent
<1>8. ExpireTimedOut => Grant!Refuse(Overdue) /\ Overdue \in SUBSET Ids
    <2> SUFFICES ASSUME ExpireTimedOut PROVE Grant!Refuse(Overdue) /\ Overdue \in SUBSET Ids
        OBVIOUS
    <2>1. Overdue \in SUBSET Ids /\ \A i \in Overdue : Dec[i] = "asked"
        BY Decisions DEF Overdue, Dec
    <2>2. /\ Dec' = [i \in Ids |-> IF i \in Overdue THEN "refused" ELSE Dec[i]]
          /\ UNCHANGED <<Spent, Delivered>>
        BY <2>1, <1>7, Decisions DEF ExpireTimedOut
    <2> QED
        BY <2>1, <2>2 DEF Grant!Refuse, Dec, Spent, Delivered
<1>9. CleanupApprovalRecords => Grant!Purge(Aged) /\ Aged \in SUBSET Ids
    <2> SUFFICES ASSUME CleanupApprovalRecords PROVE Grant!Purge(Aged) /\ Aged \in SUBSET Ids
        OBVIOUS
    <2>1. Aged \in SUBSET Ids /\ \A i \in Aged : Dec[i] # "none"
        BY <1>t, Decisions DEF Aged, Dec, TypeOK, Row, Status
    <2>2. /\ Dec' = [i \in Ids |-> IF i \in Aged THEN "purged" ELSE Dec[i]]
          /\ UNCHANGED <<Spent, Delivered>>
        BY <2>1, <1>7, Decisions DEF CleanupApprovalRecords
    <2> QED
        BY <2>1, <2>2 DEF Grant!Purge, Dec, Spent, Delivered
<1>10. Die /\ UNCHANGED rows => UNCHANGED Grant!vars
    <2> SUFFICES ASSUME Die, UNCHANGED rows PROVE UNCHANGED Grant!vars
        OBVIOUS
    <2>1. Delivered' = Delivered
        BY <1>t, SameDelivered DEF Die, InFlight, TypeOK, Request
    <2> QED
        BY <2>1, <1>r, <1>s
<1>11. UNCHANGED <<rows, req>> => UNCHANGED Grant!vars
    BY <1>r, <1>q, <1>s
<1> HIDE DEF Grant!vars
<1>12. ASSUME NEW r \in Requests, Handle(r) PROVE [Grant!Next]_(Grant!vars)
    BY <1>12, <1>1, <1>2, <1>3, <1>4, <1>5 DEF Handle
<1>13. ASSUME NEW i \in Ids, Operate(i) PROVE [Grant!Next]_(Grant!vars)
    <2>1. CASE Poll(i)
        BY <2>1, <1>11 DEF Poll
    <2>2. ASSUME NEW v \in {"approved", "denied"}, Decide(i, v) PROVE Grant!Next
        BY <1>6, <2>2
    <2> QED
        BY <1>13, <2>1, <2>2 DEF Operate, ApproveRequest, DenyRequest
<1>14. Background \/ Environment => [Grant!Next]_(Grant!vars)
    BY <1>8, <1>9, <1>10, <1>11
       DEF Background, Environment, Start, Crash, DbFails, DbRecovers, Tick, SweepRejects
<1> QED
    BY <1>11, <1>12, <1>13, <1>14 DEF Next, vars

\* The table, the handlers, the sweep, the retention job, outages and restarts
\* together behave as ApprovalGrant: one decision per row, one request per grant.
THEOREM Implements == Spec => Grants
<1>1. Init => Grant!Init
    BY Decisions DEF Init, Grant!Init, ForwardedOn
<1> QED
    BY <1>1, Releases, StepGrant, PTL DEF Spec, Grants, Grant!Spec
=============================================================================
