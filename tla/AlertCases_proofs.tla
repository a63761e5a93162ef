-------------------------- MODULE AlertCases_proofs -------------------------
(***************************************************************************)
(* Proofs about AlertCases, for any number of alerts, cases and handlers   *)
(* and whichever handlers are in play.                                     *)
(*                                                                         *)
(* What holds however handlers overlap comes first: types and the SMR      *)
(* decisions.  The rest needs requests that come one after the other, and  *)
(* says why: what a handler found when it loaded is still so (Timely).     *)
(***************************************************************************)
EXTENDS AlertCases, TLAPS

(* The tables of TypeOK. *)
TablesOK ==
    /\ alert \in [Alerts -> AlertRow \union {NoRow}]
    /\ case \in [Cases -> CaseRow \union {NoRow}]
    /\ link \in [Cases \X Alerts -> Nat]
    /\ drafts \subseteq Cases

(* No row disappears. *)
RowsStay ==
    /\ \A a \in Alerts : Raised(a) => Raised(a)'
    /\ \A c \in Cases : Opened(c) => Opened(c)'

-----------------------------------------------------------------------------
(* Writing the changed columns back to the loaded row gives the new row. *)
LEMMA WrittenAlert ==
    ASSUME NEW before \in AlertRow, NEW after \in AlertRow
    PROVE  Written(before, Changed(before, after)) = after
  BY DEF AlertRow, Written, Changed

LEMMA WrittenCase ==
    ASSUME NEW before \in CaseRow, NEW after \in CaseRow
    PROVE  Written(before, Changed(before, after)) = after
  BY DEF CaseRow, Written, Changed

(* Writes that fit one row fit every row of the table: it does not matter    *)
(* whether the row has changed since it was loaded.                          *)
LEMMA AlertWritesFit ==
    ASSUME NEW r \in AlertRow, NEW s \in AlertRow, NEW w, Written(r, w) \in AlertRow
    PROVE  Written(s, w) \in AlertRow
  BY DEF AlertRow, Written

LEMMA CaseWritesFit ==
    ASSUME NEW r \in CaseRow, NEW s \in CaseRow, NEW w, Written(r, w) \in CaseRow
    PROVE  Written(s, w) \in CaseRow
  BY DEF CaseRow, Written

LEMMA NoRowIsNoRow == NoRow \notin AlertRow /\ NoRow \notin CaseRow
  BY DEF NoRow, AlertRow, CaseRow

LEMMA NewCaseFits == ASSUME NEW b \in BOOLEAN PROVE NewCase(b) \in CaseRow
  BY DEF NewCase, CaseRow, CaseStatus

(* A handler's pending write keeps its type while the tables keep theirs. *)
LEMMA HoldsStable ==
    ASSUME NEW h, Holds(h), TablesOK, TablesOK', RowsStay
    PROVE  Holds(h)'
  <1>1. CASE h.kind \in {"alert", "open"}
    <2>1. h.alert \in Alerts /\ Raised(h.alert) /\ Raised(h.alert)'
          /\ Written(alert[h.alert], h.writes) \in AlertRow
      BY <1>1 DEF Holds, RowsStay
    <2>2. alert[h.alert] \in AlertRow /\ alert'[h.alert] \in AlertRow
      BY <2>1 DEF TablesOK, Raised
    <2>3. Written(alert'[h.alert], h.writes) \in AlertRow
      BY <2>1, <2>2, AlertWritesFit
    <2> QED BY <1>1, <2>1, <2>3 DEF Holds
  <1>2. CASE h.kind = "case"
    <2>1. h.case \in Cases /\ Opened(h.case) /\ Opened(h.case)'
          /\ Written(case[h.case], h.writes) \in CaseRow
      BY <1>2 DEF Holds, RowsStay
    <2>2. case[h.case] \in CaseRow /\ case'[h.case] \in CaseRow
      BY <2>1 DEF TablesOK, Opened
    <2>3. Written(case'[h.case], h.writes) \in CaseRow
      BY <2>1, <2>2, CaseWritesFit
    <2> QED BY <1>2, <2>1, <2>3 DEF Holds
  <1>3. CASE h.kind \notin {"alert", "open", "case"}
    BY <1>3 DEF Holds
  <1> QED BY <1>1, <1>2, <1>3

LEMMA RequestsStay ==
    ASSUME TypeOK, TablesOK', RowsStay, req' = [q \in Requests |-> req'[q]],
           \A q \in Requests : req'[q] = req[q] \/ req'[q] = Idle
    PROVE  TypeOK'
  <1>1. TablesOK
    BY DEF TypeOK, TablesOK
  <1>2. ASSUME NEW p \in Requests PROVE Holds(req[p])'
    <2>1. PICK h : h = req'[p]
      OBVIOUS
    <2>2. Holds(h)
      <3>1. CASE h = req[p]
        BY <3>1 DEF TypeOK
      <3>2. CASE h = Idle
        BY <3>2 DEF Holds, Idle
      <3> QED BY <2>1, <3>1, <3>2
    <2>3. Holds(h)'
      BY <1>1, <2>2, HoldsStable
    <2> QED BY <2>1, <2>3 DEF Holds
  <1> QED BY <1>2 DEF TypeOK, TablesOK

LEMMA LoadKeepsTypes ==
    ASSUME TypeOK, NEW q \in Requests, NEW h, Holds(h), Load(q, h)
    PROVE  TypeOK'
  <1>1. TablesOK /\ TablesOK' /\ RowsStay
    BY DEF TypeOK, TablesOK, RowsStay, Load, Raised, Opened
  <1>2. req' = [p \in Requests |-> req'[p]] /\ req'[q] = h
        /\ \A p \in Requests : p # q => req'[p] = req[p]
    BY DEF TypeOK, Load
  <1>3. ASSUME NEW p \in Requests PROVE Holds(req[p])'
    <2>1. PICK g : g = req'[p]
      OBVIOUS
    <2>2. Holds(g)
      BY <1>2, <2>1 DEF TypeOK
    <2>3. Holds(g)'
      BY <1>1, <2>2, HoldsStable
    <2> QED BY <2>1, <2>3 DEF Holds
  <1> QED BY <1>1, <1>2, <1>3 DEF TypeOK, TablesOK

(* The two forms of load: the row after is a row of the table. *)
LEMMA LoadAlertKeepsTypes ==
    ASSUME TypeOK, NEW q \in Requests, NEW a \in Alerts, Raised(a),
           NEW after \in AlertRow, LoadAlert(q, a, after)
    PROVE  TypeOK'
  <1> DEFINE h == [kind |-> "alert", alert |-> a, writes |-> Changed(alert[a], after)]
  <1>1. alert[a] \in AlertRow
    BY DEF TypeOK, Raised
  <1>2. Written(alert[a], Changed(alert[a], after)) \in AlertRow
    BY <1>1, WrittenAlert
  <1>3. Holds(h)
    BY <1>2 DEF Holds
  <1>4. Load(q, h)
    BY DEF LoadAlert
  <1> HIDE DEF h
  <1> QED BY <1>3, <1>4, LoadKeepsTypes

LEMMA LoadCaseKeepsTypes ==
    ASSUME TypeOK, NEW q \in Requests, NEW c \in Cases, Opened(c),
           NEW after \in CaseRow, LoadCase(q, c, after)
    PROVE  TypeOK'
  <1> DEFINE h == [kind |-> "case", case |-> c, writes |-> Changed(case[c], after)]
  <1>1. case[c] \in CaseRow
    BY DEF TypeOK, Opened
  <1>2. Written(case[c], Changed(case[c], after)) \in CaseRow
    BY <1>1, WrittenCase
  <1>3. Holds(h)
    BY <1>2 DEF Holds
  <1>4. Load(q, h)
    BY DEF LoadCase
  <1> HIDE DEF h
  <1> QED BY <1>3, <1>4, LoadKeepsTypes

-----------------------------------------------------------------------------
LEMMA OnAlertKeepsTypes ==
    ASSUME TypeOK, NEW q \in Requests, OnAlert(q)
    PROVE  TypeOK'
  <1>1. CASE RunMonitoring(q)
    <2>1. PICK t \in Txns : Load(q, [kind |-> "raise", txn |-> t])
      BY <1>1 DEF RunMonitoring
    <2>2. Holds([kind |-> "raise", txn |-> t])
      BY DEF Holds
    <2> QED BY <2>1, <2>2, LoadKeepsTypes
  <1>2. CASE AssignAlert(q)
    <2>1. PICK a \in Alerts :
            /\ Raised(a)
            /\ LoadAlert(q, a, [alert[a] EXCEPT !.status = "assigned"])
      BY <1>2 DEF AssignAlert
    <2>2. alert[a] \in AlertRow
      BY <2>1 DEF TypeOK, Raised
    <2>3. [alert[a] EXCEPT !.status = "assigned"] \in AlertRow
      BY <2>1, <2>2 DEF AlertRow, AlertStatus
    <2> QED BY <2>1, <2>3, LoadAlertKeepsTypes
  <1>3. CASE ReviewAlert(q)
    <2>1. PICK a \in Alerts, res \in Resolutions, notes \in Reasons \union {None} :
            /\ Raised(a)
            /\ LoadAlert(q, a, [alert[a] EXCEPT !.status = StatusOf(res), !.resolution = res, !.notes = notes,
                                     !.smr = @ \/ res = "smr_candidate"])
      BY <1>3 DEF ReviewAlert
    <2>2. alert[a] \in AlertRow
      BY <2>1 DEF TypeOK, Raised
    <2>3. [alert[a] EXCEPT !.status = StatusOf(res), !.resolution = res, !.notes = notes,
                                     !.smr = @ \/ res = "smr_candidate"] \in AlertRow
      BY <2>1, <2>2 DEF AlertRow, AlertStatus, StatusOf
    <2> QED BY <2>1, <2>3, LoadAlertKeepsTypes
  <1>4. CASE EscalateAlert(q)
    <2>1. PICK a \in Alerts :
            /\ Raised(a)
            /\ LoadAlert(q, a, [alert[a] EXCEPT !.status = "escalated"])
      BY <1>4 DEF EscalateAlert
    <2>2. alert[a] \in AlertRow
      BY <2>1 DEF TypeOK, Raised
    <2>3. [alert[a] EXCEPT !.status = "escalated"] \in AlertRow
      BY <2>1, <2>2 DEF AlertRow, AlertStatus
    <2> QED BY <2>1, <2>3, LoadAlertKeepsTypes
  <1>5. CASE FlagSmrCandidate(q)
    <2>1. PICK a \in Alerts :
            /\ Raised(a)
            /\ LoadAlert(q, a, [alert[a] EXCEPT !.status = "smr_candidate", !.smr = TRUE])
      BY <1>5 DEF FlagSmrCandidate
    <2>2. alert[a] \in AlertRow
      BY <2>1 DEF TypeOK, Raised
    <2>3. [alert[a] EXCEPT !.status = "smr_candidate", !.smr = TRUE] \in AlertRow
      BY <2>1, <2>2 DEF AlertRow, AlertStatus
    <2> QED BY <2>1, <2>3, LoadAlertKeepsTypes
  <1>6. CASE RecordResult(q)
    <2>1. PICK a \in Alerts, r \in Results :
            /\ Raised(a)
            /\ LoadAlert(q, a, [alert[a] EXCEPT !.result = r,
                                     !.status = IF r = "definitive" /\ ~AlertClosed(a)
                                                  THEN "resolved" ELSE @])
      BY <1>6 DEF RecordResult
    <2>2. alert[a] \in AlertRow
      BY <2>1 DEF TypeOK, Raised
    <2>3. [alert[a] EXCEPT !.result = r,
                                     !.status = IF r = "definitive" /\ ~AlertClosed(a)
                                                  THEN "resolved" ELSE @] \in AlertRow
      BY <2>1, <2>2 DEF AlertRow, AlertStatus
    <2> QED BY <2>1, <2>3, LoadAlertKeepsTypes
  <1>7. CASE CreateCaseFromAlert(q)
    <2>1. PICK a \in Alerts :
            /\ Raised(a)
            /\ Load(q, [kind |-> "open", alert |-> a, smr |-> alert[a].smr,
                        writes |-> Changed(alert[a], [alert[a] EXCEPT !.status = "escalated"])])
      BY <1>7 DEF CreateCaseFromAlert
    <2> DEFINE after == [alert[a] EXCEPT !.status = "escalated"]
               h == [kind |-> "open", alert |-> a, smr |-> alert[a].smr,
                     writes |-> Changed(alert[a], after)]
    <2>2. alert[a] \in AlertRow
      BY <2>1 DEF TypeOK, Raised
    <2>3. after \in AlertRow /\ alert[a].smr \in BOOLEAN
      BY <2>2 DEF AlertRow, AlertStatus
    <2>4. Written(alert[a], Changed(alert[a], after)) \in AlertRow
      BY <2>2, <2>3, WrittenAlert
    <2>5. Holds(h)
      BY <2>1, <2>3, <2>4 DEF Holds
    <2> QED BY <2>1, <2>5, LoadKeepsTypes
  <1> QED BY <1>1, <1>2, <1>3, <1>4, <1>5, <1>6, <1>7 DEF OnAlert

LEMMA OnCaseKeepsTypes ==
    ASSUME TypeOK, NEW q \in Requests, OnCase(q)
    PROVE  TypeOK'
  <1>1. CASE CreateCase(q)
    <2>1. PICK c \in Cases, candidate \in BOOLEAN,
               times \in [{a \in Alerts : Raised(a)} -> 0..MaxRepeat] :
            /\ req[q] = Idle
            /\ ~Opened(c)
            /\ case' = [case EXCEPT ![c] = NewCase(candidate)]
            /\ link' = [l \in Cases \X Alerts |->
                          IF l[1] = c /\ Raised(l[2]) THEN times[l[2]] ELSE link[l]]
            /\ UNCHANGED <<alert, drafts, req>>
      BY <1>1 DEF CreateCase
    <2>2. NewCase(candidate) \in CaseRow
      BY NewCaseFits
    <2>3. link' \in [Cases \X Alerts -> Nat]
      BY <2>1, BoundAssumption DEF TypeOK
    <2>4. case' \in [Cases -> CaseRow \union {NoRow}]
      BY <2>1, <2>2 DEF TypeOK
    <2>41. TablesOK'
      BY <2>1, <2>3, <2>4 DEF TypeOK, TablesOK
    <2>5. RowsStay
      BY <2>1, <2>2, NoRowIsNoRow DEF TypeOK, RowsStay, Raised, Opened
    <2>6. req' = [p \in Requests |-> req'[p]] /\ \A p \in Requests : req'[p] = req[p]
      BY <2>1 DEF TypeOK
    <2> QED BY <2>41, <2>5, <2>6, RequestsStay
  <1>2. CASE UpdateCase(q)
    <2>1. PICK c \in Cases, candidate \in BOOLEAN :
            /\ Opened(c)
            /\ LoadCase(q, c, [case[c] EXCEPT !.candidate = candidate])
      BY <1>2 DEF UpdateCase
    <2>2. case[c] \in CaseRow
      BY <2>1 DEF TypeOK, Opened
    <2>3. [case[c] EXCEPT !.candidate = candidate] \in CaseRow
      BY <2>1, <2>2 DEF CaseRow, CaseStatus
    <2> QED BY <2>1, <2>3, LoadCaseKeepsTypes
  <1>3. CASE EscalateCase(q)
    <2>1. PICK c \in Cases :
            /\ Opened(c)
            /\ LoadCase(q, c, [case[c] EXCEPT !.status = "escalated"])
      BY <1>3 DEF EscalateCase
    <2>2. case[c] \in CaseRow
      BY <2>1 DEF TypeOK, Opened
    <2>3. [case[c] EXCEPT !.status = "escalated"] \in CaseRow
      BY <2>1, <2>2 DEF CaseRow, CaseStatus
    <2> QED BY <2>1, <2>3, LoadCaseKeepsTypes
  <1>4. CASE TransitionStatus(q)
    <2>1. PICK c \in Cases, s \in CaseStatus :
            /\ Opened(c)
            /\ LoadCase(q, c, [case[c] EXCEPT !.status = s])
      BY <1>4 DEF TransitionStatus
    <2>2. case[c] \in CaseRow
      BY <2>1 DEF TypeOK, Opened
    <2>3. [case[c] EXCEPT !.status = s] \in CaseRow
      BY <2>1, <2>2 DEF CaseRow, CaseStatus
    <2> QED BY <2>1, <2>3, LoadCaseKeepsTypes
  <1>5. CASE CloseCase(q)
    <2>1. PICK c \in Cases, s \in ClosedStatuses, u \in Mlro :
            /\ Opened(c)
            /\ LoadCase(q, c, [case[c] EXCEPT !.status = s, !.closed_by = u])
      BY <1>5 DEF CloseCase
    <2>2. case[c] \in CaseRow
      BY <2>1 DEF TypeOK, Opened
    <2>3. [case[c] EXCEPT !.status = s, !.closed_by = u] \in CaseRow
      BY <2>1, <2>2 DEF CaseRow, CaseStatus
    <2> QED BY <2>1, <2>3, LoadCaseKeepsTypes
  <1>6. CASE LinkAlert(q)
    <2>1. PICK c \in Cases, a \in Alerts : Load(q, [kind |-> "link", case |-> c, alert |-> a])
      BY <1>6 DEF LinkAlert
    <2>2. Holds([kind |-> "link", case |-> c, alert |-> a])
      BY DEF Holds
    <2> QED BY <2>1, <2>2, LoadKeepsTypes
  <1>7. CASE SmrConsider(q)
    <2>1. PICK c \in Cases, proceed \in BOOLEAN :
            /\ Opened(c)
            /\ LoadCase(q, c, [case[c] EXCEPT !.considered = TRUE, !.lodged = @ \/ proceed])
      BY <1>7 DEF SmrConsider
    <2>2. case[c] \in CaseRow
      BY <2>1 DEF TypeOK, Opened
    <2>3. [case[c] EXCEPT !.considered = TRUE, !.lodged = @ \/ proceed] \in CaseRow
      BY <2>1, <2>2 DEF CaseRow, CaseStatus
    <2> QED BY <2>1, <2>3, LoadCaseKeepsTypes
  <1>8. CASE SmrLodge(q)
    <2>1. PICK c \in Cases :
            /\ Opened(c)
            /\ LoadCase(q, c, [case[c] EXCEPT !.lodged = TRUE])
      BY <1>8 DEF SmrLodge
    <2>2. case[c] \in CaseRow
      BY <2>1 DEF TypeOK, Opened
    <2>3. [case[c] EXCEPT !.lodged = TRUE] \in CaseRow
      BY <2>1, <2>2 DEF CaseRow, CaseStatus
    <2> QED BY <2>1, <2>3, LoadCaseKeepsTypes
  <1>9. CASE GenerateSmr(q)
    <2>1. PICK c \in Cases : Load(q, [kind |-> "draft", case |-> c])
      BY <1>9 DEF GenerateSmr
    <2>2. Holds([kind |-> "draft", case |-> c])
      BY DEF Holds
    <2> QED BY <2>1, <2>2, LoadKeepsTypes
  <1> QED BY <1>1, <1>2, <1>3, <1>4, <1>5, <1>6, <1>7, <1>8, <1>9 DEF OnCase

LEMMA CommitKeepsTypes ==
    ASSUME TypeOK, NEW q \in Requests, Commit(q) \/ Abort(q)
    PROVE  TypeOK'
  <1>0. ASSUME req' = [req EXCEPT ![q] = Idle]
        PROVE  /\ req' = [p \in Requests |-> req'[p]]
               /\ \A p \in Requests : req'[p] = req[p] \/ req'[p] = Idle
    BY <1>0 DEF TypeOK
  <1>1. CASE CommitAlert(q)
    <2>1. req[q].alert \in Alerts /\ Written(alert[req[q].alert], req[q].writes) \in AlertRow
      BY <1>1 DEF TypeOK, Holds, CommitAlert
    <2>8. TablesOK'
      BY <1>1, <2>1 DEF CommitAlert, TypeOK, TablesOK
    <2>9. RowsStay
      BY <1>1, <2>1, NoRowIsNoRow DEF CommitAlert, TypeOK, RowsStay, Raised, Opened
    <2> QED BY <1>1, <2>8, <2>9, <1>0, RequestsStay DEF CommitAlert
  <1>2. CASE CommitCase(q)
    <2>1. req[q].case \in Cases /\ Written(case[req[q].case], req[q].writes) \in CaseRow
      BY <1>2 DEF TypeOK, Holds, CommitCase
    <2>8. TablesOK'
      BY <1>2, <2>1 DEF CommitCase, TypeOK, TablesOK
    <2>9. RowsStay
      BY <1>2, <2>1, NoRowIsNoRow DEF CommitCase, TypeOK, RowsStay, Raised, Opened
    <2> QED BY <1>2, <2>8, <2>9, <1>0, RequestsStay DEF CommitCase
  <1>3. CASE CommitRaise(q)
    <2>1. req[q].txn \in Txns
      BY <1>3 DEF TypeOK, Holds, CommitRaise
    <2> DEFINE new == [txn |-> req[q].txn, status |-> "generated", resolution |-> None,
                       notes |-> None, result |-> "pending", smr |-> FALSE]
    <2>2. new \in AlertRow
      BY <2>1 DEF AlertRow, AlertStatus, Results
    <2>3. PICK a \in Alerts : ~Raised(a) /\ alert' = [alert EXCEPT ![a] = new]
      BY <1>3 DEF CommitRaise
    <2>8. TablesOK'
      BY <1>3, <2>2, <2>3 DEF CommitRaise, TypeOK, TablesOK
    <2>9. RowsStay
      BY <1>3, <2>2, <2>3, NoRowIsNoRow DEF CommitRaise, TypeOK, RowsStay, Raised, Opened
    <2> QED BY <1>3, <2>8, <2>9, <1>0, RequestsStay DEF CommitRaise
  <1>4. CASE CommitOpen(q)
    <2>1. /\ req[q].alert \in Alerts /\ req[q].smr \in BOOLEAN
          /\ Written(alert[req[q].alert], req[q].writes) \in AlertRow
      BY <1>4 DEF TypeOK, Holds, CommitOpen
    <2>2. PICK c \in Cases :
            /\ ~Opened(c)
            /\ case' = [case EXCEPT ![c] = NewCase(req[q].smr)]
            /\ link' = [link EXCEPT ![<<c, req[q].alert>>] = 1]
      BY <1>4 DEF CommitOpen
    <2>3. NewCase(req[q].smr) \in CaseRow
      BY <2>1, NewCaseFits
    <2>4. alert' = [alert EXCEPT ![req[q].alert] = Written(@, req[q].writes)] /\ drafts' = drafts
      BY <1>4 DEF CommitOpen
    <2>8. TablesOK'
      BY <2>1, <2>2, <2>3, <2>4 DEF TypeOK, TablesOK
    <2>9. RowsStay
      BY <2>1, <2>2, <2>3, <2>4, NoRowIsNoRow DEF TypeOK, RowsStay, Raised, Opened
    <2> QED BY <1>4, <2>8, <2>9, <1>0, RequestsStay DEF CommitOpen
  <1>5. CASE CommitLink(q)
    <2>1. <<req[q].case, req[q].alert>> \in Cases \X Alerts
      BY <1>5 DEF TypeOK, Holds, CommitLink
    <2>8. TablesOK'
      BY <1>5, <2>1 DEF CommitLink, TypeOK, TablesOK
    <2>9. RowsStay
      BY <1>5, <2>1, NoRowIsNoRow DEF CommitLink, TypeOK, RowsStay, Raised, Opened
    <2> QED BY <1>5, <2>8, <2>9, <1>0, RequestsStay DEF CommitLink
  <1>6. CASE CommitDraft(q)
    <2>1. req[q].case \in Cases
      BY <1>6 DEF TypeOK, Holds, CommitDraft
    <2>8. TablesOK'
      BY <1>6, <2>1 DEF CommitDraft, TypeOK, TablesOK
    <2>9. RowsStay
      BY <1>6, <2>1, NoRowIsNoRow DEF CommitDraft, TypeOK, RowsStay, Raised, Opened
    <2> QED BY <1>6, <2>8, <2>9, <1>0, RequestsStay DEF CommitDraft
  <1>7. CASE Abort(q)
    <2>8. TablesOK'
      BY <1>7 DEF Abort, TypeOK, TablesOK
    <2>9. RowsStay
      BY <1>7, NoRowIsNoRow DEF Abort, TypeOK, RowsStay, Raised, Opened
    <2> QED BY <1>7, <2>8, <2>9, <1>0, RequestsStay DEF Abort
  <1> QED BY <1>1, <1>2, <1>3, <1>4, <1>5, <1>6, <1>7 DEF Commit

LEMMA InitTypes == Init => TypeOK
  BY DEF Init, TypeOK, Holds, Idle

LEMMA NextTypes == TypeOK /\ [Next]_vars => TypeOK'
  <1> SUFFICES ASSUME TypeOK, [Next]_vars PROVE TypeOK'
    OBVIOUS
  <1>1. CASE UNCHANGED vars
    <2>1. TablesOK' /\ RowsStay /\ req' = [q \in Requests |-> req'[q]]
          /\ \A q \in Requests : req'[q] = req[q]
      BY <1>1 DEF vars, TypeOK, TablesOK, RowsStay, Raised, Opened
    <2> QED BY <2>1, RequestsStay
  <1>2. CASE Next
    BY <1>2, OnAlertKeepsTypes, OnCaseKeepsTypes, CommitKeepsTypes DEF Next
  <1> QED BY <1>1, <1>2

(* Type correctness, however the handlers overlap: a write that was computed *)
(* from a row as it was loaded still fits the row it is applied to.          *)
THEOREM CasesTypeCorrect == Spec => []TypeOK
  BY InitTypes, NextTypes, PTL DEF Spec

-----------------------------------------------------------------------------
(* The SMR decisions.  Nothing takes back smr_considered or smr_lodged, so   *)
(* a lodgement that was checked against the loaded row is still in order     *)
(* when it is committed, however the case has changed in between.            *)
Considered(c) == Opened(c) /\ case[c].considered

InOrder(h) ==
    /\ h.kind = "draft" => Considered(h.case)
    /\ h.kind = "case" =>
         /\ "considered" \in DOMAIN h.writes => h.writes["considered"]
         /\ "lodged" \in DOMAIN h.writes =>
              /\ h.writes["lodged"]
              /\ "considered" \in DOMAIN h.writes \/ Considered(h.case)

SmrInv == \A q \in Requests : InOrder(req[q])

(* No consideration is taken back. *)
ConsideredStays == \A c \in Cases : Considered(c) => Considered(c)'

LEMMA InOrderStable ==
    ASSUME NEW h, InOrder(h), Holds(h), ConsideredStays
    PROVE  InOrder(h)'
  BY DEF InOrder, Holds, ConsideredStays

(* A handler that loads keeps the decisions and, if it may write an SMR      *)
(* column, writes it in order.                                               *)
LEMMA LoadInOrder ==
    ASSUME TypeOK, SmrInv, NEW q \in Requests, NEW h, Load(q, h), InOrder(h)
    PROVE  SmrInv' /\ case' = case /\ drafts' = drafts
  <1>1. \A p \in Requests : req'[p] = IF p = q THEN h ELSE req[p]
    BY DEF Load, TypeOK
  <1>2. \A p \in Requests : InOrder(req'[p])
    BY <1>1 DEF SmrInv
  <1> QED BY <1>2 DEF SmrInv, InOrder, Load, Considered, Opened

LEMMA LoadCaseInOrder ==
    ASSUME TypeOK, SmrInv, NEW q \in Requests, NEW c \in Cases, Opened(c),
           NEW after \in CaseRow, LoadCase(q, c, after),
           case[c].considered => after.considered,
           case[c].lodged => after.lodged,
           after.lodged => case[c].lodged \/ after.considered
    PROVE  SmrInv' /\ case' = case /\ drafts' = drafts
  <1> DEFINE h == [kind |-> "case", case |-> c, writes |-> Changed(case[c], after)]
             w == Changed(case[c], after)
  <1>1. case[c] \in CaseRow
    BY DEF TypeOK, Opened
  <1>2. /\ "considered" \in DOMAIN w => w["considered"] = after.considered
                                        /\ after.considered # case[c].considered
        /\ "lodged" \in DOMAIN w => w["lodged"] = after.lodged /\ after.lodged # case[c].lodged
        /\ "considered" \notin DOMAIN w => after.considered = case[c].considered
    BY <1>1 DEF Changed, CaseRow
  <1>3. /\ after.considered \in BOOLEAN /\ case[c].considered \in BOOLEAN
        /\ after.lodged \in BOOLEAN /\ case[c].lodged \in BOOLEAN
    BY <1>1 DEF CaseRow
  <1>4. InOrder(h)
    BY <1>2, <1>3 DEF InOrder, Considered
  <1>5. Load(q, h)
    BY DEF LoadCase
  <1> HIDE DEF h
  <1> QED BY <1>4, <1>5, LoadInOrder

LEMMA LoadOtherInOrder ==
    ASSUME TypeOK, SmrInv, NEW q \in Requests, NEW h, Load(q, h),
           h.kind \notin {"draft", "case"}
    PROVE  SmrInv' /\ case' = case /\ drafts' = drafts
  BY LoadInOrder DEF InOrder

-----------------------------------------------------------------------------
(* Every handler's load is in order. *)
LEMMA OnAlertInOrder ==
    ASSUME TypeOK, SmrInv, NEW q \in Requests, OnAlert(q)
    PROVE  SmrInv' /\ case' = case /\ drafts' = drafts
  <1>1. ASSUME NEW a, NEW after, LoadAlert(q, a, after)
        PROVE  SmrInv' /\ case' = case /\ drafts' = drafts
    BY <1>1, LoadOtherInOrder DEF LoadAlert
  <1>2. CASE RunMonitoring(q)
    BY <1>2, LoadOtherInOrder DEF RunMonitoring
  <1>3. CASE AssignAlert(q)
    BY <1>1, <1>3 DEF AssignAlert
  <1>4. CASE ReviewAlert(q)
    BY <1>1, <1>4 DEF ReviewAlert
  <1>5. CASE EscalateAlert(q)
    BY <1>1, <1>5 DEF EscalateAlert
  <1>6. CASE FlagSmrCandidate(q)
    BY <1>1, <1>6 DEF FlagSmrCandidate
  <1>7. CASE RecordResult(q)
    BY <1>1, <1>7 DEF RecordResult
  <1>8. CASE CreateCaseFromAlert(q)
    BY <1>8, LoadOtherInOrder DEF CreateCaseFromAlert
  <1> QED BY <1>2, <1>3, <1>4, <1>5, <1>6, <1>7, <1>8 DEF OnAlert

(* A new case has no decision on it yet. *)
LEMMA CreateCaseInOrder ==
    ASSUME TypeOK, SmrInv, NEW q \in Requests, CreateCase(q)
    PROVE  /\ SmrInv' /\ drafts' = drafts
           /\ CasesWith("considered")' = CasesWith("considered")
           /\ CasesWith("lodged")' = CasesWith("lodged")
  <1>1. PICK c \in Cases, candidate \in BOOLEAN :
          /\ ~Opened(c)
          /\ case' = [case EXCEPT ![c] = NewCase(candidate)]
          /\ drafts' = drafts /\ req' = req
    BY DEF CreateCase
  <1>2. \A d \in Cases : d # c => case'[d] = case[d]
    BY <1>1 DEF TypeOK
  <1>3. case'[c] = NewCase(candidate) /\ case[c] = NoRow
    BY <1>1 DEF TypeOK, Opened
  <1>4. ~NewCase(candidate).considered /\ ~NewCase(candidate).lodged
        /\ ~NewCase(candidate)["considered"] /\ ~NewCase(candidate)["lodged"]
    BY DEF NewCase
  <1>5. ConsideredStays
    BY <1>2, <1>3 DEF ConsideredStays, Considered, Opened
  <1>6. SmrInv'
    BY <1>1, <1>5, InOrderStable DEF SmrInv, TypeOK, InOrder, Holds, ConsideredStays
  <1> QED BY <1>1, <1>2, <1>3, <1>4, <1>6 DEF CasesWith, Opened

LEMMA OnCaseInOrder ==
    ASSUME TypeOK, SmrInv, NEW q \in Requests, OnCase(q)
    PROVE  /\ SmrInv' /\ drafts' = drafts
           /\ CasesWith("considered")' = CasesWith("considered")
           /\ CasesWith("lodged")' = CasesWith("lodged")
  <1>0. ASSUME case' = case
        PROVE  /\ CasesWith("considered")' = CasesWith("considered")
               /\ CasesWith("lodged")' = CasesWith("lodged")
    BY <1>0 DEF CasesWith, Opened
  <1>1. CASE UpdateCase(q)
    <2>1. PICK c \in Cases, candidate \in BOOLEAN :
            /\ Opened(c)
            /\ LoadCase(q, c, [case[c] EXCEPT !.candidate = candidate])
      BY <1>1 DEF UpdateCase
    <2>2. case[c] \in CaseRow
      BY <2>1 DEF TypeOK, Opened
    <2> DEFINE after == [case[c] EXCEPT !.candidate = candidate]
    <2>3. /\ after \in CaseRow
          /\ case[c].considered => after.considered
          /\ case[c].lodged => after.lodged
          /\ after.lodged => case[c].lodged \/ after.considered
      BY <2>1, <2>2 DEF CaseRow, CaseStatus
    <2>4. SmrInv' /\ case' = case /\ drafts' = drafts
      BY <2>1, <2>3, LoadCaseInOrder
    <2> QED BY <1>0, <2>4
  <1>2. CASE EscalateCase(q)
    <2>1. PICK c \in Cases :
            /\ Opened(c)
            /\ LoadCase(q, c, [case[c] EXCEPT !.status = "escalated"])
      BY <1>2 DEF EscalateCase
    <2>2. case[c] \in CaseRow
      BY <2>1 DEF TypeOK, Opened
    <2> DEFINE after == [case[c] EXCEPT !.status = "escalated"]
    <2>3. /\ after \in CaseRow
          /\ case[c].considered => after.considered
          /\ case[c].lodged => after.lodged
          /\ after.lodged => case[c].lodged \/ after.considered
      BY <2>1, <2>2 DEF CaseRow, CaseStatus
    <2>4. SmrInv' /\ case' = case /\ drafts' = drafts
      BY <2>1, <2>3, LoadCaseInOrder
    <2> QED BY <1>0, <2>4
  <1>3. CASE TransitionStatus(q)
    <2>1. PICK c \in Cases, s \in CaseStatus :
            /\ Opened(c)
            /\ LoadCase(q, c, [case[c] EXCEPT !.status = s])
      BY <1>3 DEF TransitionStatus
    <2>2. case[c] \in CaseRow
      BY <2>1 DEF TypeOK, Opened
    <2> DEFINE after == [case[c] EXCEPT !.status = s]
    <2>3. /\ after \in CaseRow
          /\ case[c].considered => after.considered
          /\ case[c].lodged => after.lodged
          /\ after.lodged => case[c].lodged \/ after.considered
      BY <2>1, <2>2 DEF CaseRow, CaseStatus
    <2>4. SmrInv' /\ case' = case /\ drafts' = drafts
      BY <2>1, <2>3, LoadCaseInOrder
    <2> QED BY <1>0, <2>4
  <1>4. CASE CloseCase(q)
    <2>1. PICK c \in Cases, s \in ClosedStatuses, u \in Mlro :
            /\ Opened(c)
            /\ LoadCase(q, c, [case[c] EXCEPT !.status = s, !.closed_by = u])
      BY <1>4 DEF CloseCase
    <2>2. case[c] \in CaseRow
      BY <2>1 DEF TypeOK, Opened
    <2> DEFINE after == [case[c] EXCEPT !.status = s, !.closed_by = u]
    <2>3. /\ after \in CaseRow
          /\ case[c].considered => after.considered
          /\ case[c].lodged => after.lodged
          /\ after.lodged => case[c].lodged \/ after.considered
      BY <2>1, <2>2 DEF CaseRow, CaseStatus
    <2>4. SmrInv' /\ case' = case /\ drafts' = drafts
      BY <2>1, <2>3, LoadCaseInOrder
    <2> QED BY <1>0, <2>4
  <1>5. CASE SmrConsider(q)
    <2>1. PICK c \in Cases, proceed \in BOOLEAN :
            /\ Opened(c)
            /\ LoadCase(q, c, [case[c] EXCEPT !.considered = TRUE, !.lodged = @ \/ proceed])
      BY <1>5 DEF SmrConsider
    <2>2. case[c] \in CaseRow
      BY <2>1 DEF TypeOK, Opened
    <2> DEFINE after == [case[c] EXCEPT !.considered = TRUE, !.lodged = @ \/ proceed]
    <2>3. /\ after \in CaseRow
          /\ case[c].considered => after.considered
          /\ case[c].lodged => after.lodged
          /\ after.lodged => case[c].lodged \/ after.considered
      BY <2>1, <2>2 DEF CaseRow, CaseStatus
    <2>4. SmrInv' /\ case' = case /\ drafts' = drafts
      BY <2>1, <2>3, LoadCaseInOrder
    <2> QED BY <1>0, <2>4
  <1>6. CASE SmrLodge(q)
    <2>1. PICK c \in Cases :
            /\ Opened(c)
            /\ case[c].considered
            /\ LoadCase(q, c, [case[c] EXCEPT !.lodged = TRUE])
      BY <1>6 DEF SmrLodge
    <2>2. case[c] \in CaseRow
      BY <2>1 DEF TypeOK, Opened
    <2> DEFINE after == [case[c] EXCEPT !.lodged = TRUE]
    <2>3. /\ after \in CaseRow
          /\ case[c].considered => after.considered
          /\ case[c].lodged => after.lodged
          /\ after.lodged => case[c].lodged \/ after.considered
      BY <2>1, <2>2 DEF CaseRow, CaseStatus
    <2>4. SmrInv' /\ case' = case /\ drafts' = drafts
      BY <2>1, <2>3, LoadCaseInOrder
    <2> QED BY <1>0, <2>4
  <1>7. CASE LinkAlert(q)
    <2>1. SmrInv' /\ case' = case /\ drafts' = drafts
      BY <1>7, LoadOtherInOrder DEF LinkAlert
    <2> QED BY <1>0, <2>1
  <1>8. CASE GenerateSmr(q)
    <2>1. PICK c \in Cases :
            /\ Opened(c) /\ case[c].considered
            /\ Load(q, [kind |-> "draft", case |-> c])
      BY <1>8 DEF GenerateSmr
    <2>2. InOrder([kind |-> "draft", case |-> c])
      BY <2>1 DEF InOrder, Considered
    <2>3. SmrInv' /\ case' = case /\ drafts' = drafts
      BY <2>1, <2>2, LoadInOrder
    <2> QED BY <1>0, <2>3
  <1>9. CASE CreateCase(q)
    BY <1>9, CreateCaseInOrder
  <1> QED BY <1>1, <1>2, <1>3, <1>4, <1>5, <1>6, <1>7, <1>8, <1>9 DEF OnCase

-----------------------------------------------------------------------------
(* The commits. *)

SmrStep == [Decisions!Next]_(Decisions!vars)

LEMMA SameDecisions ==
    ASSUME case' = case, drafts' = drafts
    PROVE  UNCHANGED Decisions!vars
  BY DEF Decisions!vars, CasesWith, Opened

(* What is pending after a commit was pending before it. *)
LEMMA RestInOrder ==
    ASSUME TypeOK, SmrInv, ConsideredStays, NEW q \in Requests, req' = [req EXCEPT ![q] = Idle]
    PROVE  SmrInv'
  <1>1. ASSUME NEW p \in Requests PROVE InOrder(req[p])'
    <2>1. CASE p = q
      BY <1>1, <2>1 DEF TypeOK, InOrder, Idle
    <2>2. CASE p # q
      <3>1. PICK h : h = req[p]
        OBVIOUS
      <3>2. h = req'[p] /\ InOrder(h) /\ Holds(h)
        BY <2>2, <3>1 DEF TypeOK, SmrInv
      <3>3. InOrder(h)'
        BY <3>2, InOrderStable
      <3> QED BY <3>2, <3>3 DEF InOrder
    <2> QED BY <2>1, <2>2
  <1> QED BY <1>1 DEF SmrInv

LEMMA CommitCaseInOrder ==
    ASSUME TypeOK, SmrInv, NEW q \in Requests, CommitCase(q)
    PROVE  SmrInv' /\ SmrStep
  <1>0. req[q].case \in Cases
    BY DEF TypeOK, Holds, CommitCase
  <1> PICK c \in Cases : c = req[q].case
    BY <1>0
  <1> DEFINE w == req[q].writes
             before == case[c]
             after == Written(before, w)
  <1>1. c \in Cases /\ Opened(c) /\ after \in CaseRow
    BY DEF TypeOK, Holds, CommitCase
  <1>2. before \in CaseRow
    BY <1>1 DEF TypeOK, Opened
  <1>3. /\ after.considered = IF "considered" \in DOMAIN w THEN w["considered"] ELSE before.considered
        /\ after.lodged = IF "lodged" \in DOMAIN w THEN w["lodged"] ELSE before.lodged
        /\ before["considered"] = before.considered /\ before["lodged"] = before.lodged
        /\ after["considered"] = after.considered /\ after["lodged"] = after.lodged
    BY <1>2 DEF Written, CaseRow
  <1>4. case' = [case EXCEPT ![c] = after] /\ drafts' = drafts
        /\ req' = [req EXCEPT ![q] = Idle]
    BY DEF CommitCase
  <1>5. case'[c] = after /\ \A d \in Cases : d # c => case'[d] = case[d]
    BY <1>1, <1>4 DEF TypeOK
  <1>6. Opened(c)' /\ \A d \in Cases : d # c => (Opened(d)' <=> Opened(d))
    BY <1>1, <1>5, NoRowIsNoRow DEF Opened
  <1>7. /\ before.considered \in BOOLEAN /\ after.considered \in BOOLEAN
        /\ before.lodged \in BOOLEAN /\ after.lodged \in BOOLEAN
    BY <1>1, <1>2 DEF CaseRow
  <1>8. /\ before.considered => after.considered
        /\ before.lodged => after.lodged
        /\ after.lodged => before.lodged \/ after.considered
        /\ after.lodged /\ ~before.lodged /\ "considered" \notin DOMAIN w => before.considered
    <2>1. InOrder(req[q]) /\ req[q].kind = "case"
      BY DEF SmrInv, CommitCase
    <2>2. /\ "considered" \in DOMAIN w => w["considered"]
          /\ "lodged" \in DOMAIN w => w["lodged"] /\
               ("considered" \in DOMAIN w \/ before.considered)
      BY <2>1 DEF InOrder, Considered
    <2> HIDE DEF after, before, w
    <2> QED BY <1>3, <1>7, <2>2
  <1> HIDE DEF after, before
  <1>9. ConsideredStays
    BY <1>1, <1>3, <1>5, <1>6, <1>8 DEF ConsideredStays, Considered, before
  <1>10. SmrInv'
    BY <1>4, <1>9, RestInOrder
  <1>11. CasesWith("considered")' = CasesWith("considered") \union
                                      (IF after.considered THEN {c} ELSE {})
    BY <1>1, <1>3, <1>5, <1>6, <1>8 DEF CasesWith, before
  <1>12. CasesWith("lodged")' = CasesWith("lodged") \union (IF after.lodged THEN {c} ELSE {})
    BY <1>1, <1>3, <1>5, <1>6, <1>8 DEF CasesWith, before
  <1>13. SmrStep
    <2>1. CASE ~before.considered /\ after.considered
      <3>1. Decisions!Consider(c)
        BY <1>4, <1>11, <1>12, <2>1 DEF Decisions!Consider
      <3> QED BY <1>1, <3>1 DEF Decisions!Next, SmrStep
    <2>2. CASE before.considered = after.considered /\ ~before.lodged /\ after.lodged
      <3>1. c \in CasesWith("considered")
        BY <1>1, <1>3, <1>7, <1>8, <2>2 DEF CasesWith, before
      <3>2. CasesWith("considered")' = CasesWith("considered")
        BY <1>11, <3>1
      <3>3. Decisions!Lodge(c)
        BY <1>4, <1>12, <2>2, <3>1, <3>2 DEF Decisions!Lodge
      <3> QED BY <1>1, <3>3 DEF Decisions!Next, SmrStep
    <2>3. CASE before.considered = after.considered /\ before.lodged = after.lodged
      <3>1. CasesWith("considered")' = CasesWith("considered")
        BY <1>1, <1>3, <1>11, <2>3 DEF CasesWith, before
      <3>2. CasesWith("lodged")' = CasesWith("lodged")
        BY <1>1, <1>3, <1>12, <2>3 DEF CasesWith, before
      <3> QED BY <1>4, <3>1, <3>2 DEF Decisions!vars, SmrStep
    <2> QED BY <1>7, <1>8, <2>1, <2>2, <2>3
  <1> QED BY <1>10, <1>13

LEMMA CommitInOrder ==
    ASSUME TypeOK, SmrInv, NEW q \in Requests, Commit(q) \/ Abort(q)
    PROVE  SmrInv' /\ SmrStep
  <1>1. ASSUME case' = case, drafts' = drafts, req' = [req EXCEPT ![q] = Idle]
        PROVE  SmrInv' /\ SmrStep
    <2>1. ConsideredStays
      BY <1>1 DEF ConsideredStays, Considered, Opened
    <2> QED BY <1>1, <2>1, RestInOrder, SameDecisions DEF SmrStep
  <1>2. CASE CommitAlert(q) \/ CommitRaise(q) \/ CommitLink(q) \/ Abort(q)
    BY <1>1, <1>2 DEF CommitAlert, CommitRaise, CommitLink, Abort
  <1>3. CASE CommitCase(q)
    BY <1>3, CommitCaseInOrder
  <1>4. CASE CommitDraft(q)
    <2>1. req[q].case \in Cases /\ Considered(req[q].case)
      BY <1>4 DEF TypeOK, Holds, SmrInv, InOrder, CommitDraft
    <2>2. case' = case /\ drafts' = drafts \union {req[q].case}
          /\ req' = [req EXCEPT ![q] = Idle]
      BY <1>4 DEF CommitDraft
    <2>3. ConsideredStays
      BY <2>2 DEF ConsideredStays, Considered, Opened
    <2>4. case[req[q].case] \in CaseRow
      BY <2>1 DEF TypeOK, Considered, Opened
    <2>5. req[q].case \in CasesWith("considered")
      BY <2>1, <2>4 DEF CasesWith, Considered, CaseRow
    <2>6. Decisions!Draft(req[q].case)
      BY <2>2, <2>5 DEF Decisions!Draft, CasesWith, Opened
    <2> QED BY <2>1, <2>2, <2>3, <2>6, RestInOrder DEF Decisions!Next, SmrStep
  <1>5. CASE CommitOpen(q)
    <2>1. PICK c \in Cases :
            /\ ~Opened(c)
            /\ case' = [case EXCEPT ![c] = NewCase(req[q].smr)]
      BY <1>5 DEF CommitOpen
    <2>2. drafts' = drafts /\ req' = [req EXCEPT ![q] = Idle]
      BY <1>5 DEF CommitOpen
    <2>3. case'[c] = NewCase(req[q].smr) /\ \A d \in Cases : d # c => case'[d] = case[d]
      BY <2>1 DEF TypeOK
    <2>4. ~NewCase(req[q].smr)["considered"] /\ ~NewCase(req[q].smr)["lodged"]
      BY DEF NewCase
    <2>5. ConsideredStays
      BY <2>1, <2>3 DEF ConsideredStays, Considered, Opened
    <2>6. CasesWith("considered")' = CasesWith("considered")
          /\ CasesWith("lodged")' = CasesWith("lodged")
      BY <2>1, <2>3, <2>4 DEF CasesWith, Opened
    <2> QED BY <2>2, <2>5, <2>6, RestInOrder DEF Decisions!vars, SmrStep
  <1> QED BY <1>2, <1>3, <1>4, <1>5 DEF Commit

LEMMA SmrNext == TypeOK /\ SmrInv /\ [Next]_vars => SmrInv' /\ SmrStep
  <1> SUFFICES ASSUME TypeOK, SmrInv, [Next]_vars PROVE SmrInv' /\ SmrStep
    OBVIOUS
  <1>1. CASE UNCHANGED vars
    <2>1. SmrInv'
      BY <1>1 DEF vars, SmrInv, InOrder, Considered, Opened
    <2> QED BY <1>1, <2>1, SameDecisions DEF vars, SmrStep
  <1>2. ASSUME NEW q \in Requests, OnAlert(q) PROVE SmrInv' /\ SmrStep
    BY <1>2, OnAlertInOrder, SameDecisions DEF SmrStep
  <1>3. ASSUME NEW q \in Requests, OnCase(q) PROVE SmrInv' /\ SmrStep
    BY <1>3, OnCaseInOrder DEF SmrStep, Decisions!vars
  <1> QED BY <1>1, <1>2, <1>3, CommitInOrder DEF Next

LEMMA SmrInit == Init => SmrInv /\ Decisions!Init
  BY DEF Init, SmrInv, InOrder, Idle, Decisions!Init, CasesWith, Opened

(* The cases keep the SMR decisions, however the handlers overlap. *)
THEOREM SmrDecisionsImplemented == Spec => SmrDecisionsKept
  <1>1. TypeOK /\ SmrInv /\ [Next]_vars => [Decisions!Next]_(Decisions!vars)
    BY SmrNext DEF SmrStep
  <1> QED BY <1>1, SmrInit, SmrNext, CasesTypeCorrect, PTL DEF Spec, SmrDecisionsKept, Decisions!Spec

-----------------------------------------------------------------------------
(* One request at a time.  What a handler has found out when it loads is    *)
(* then still so when it commits: no alert is open for the transaction it   *)
(* raises one for, the alert or case it changes is not closed, or keeps its *)
(* status if it is, the case it links is open and the link not there.       *)
Timely(h) ==
    /\ h.kind = "raise" => OpenAlertsOf(h.txn) = {}
    /\ h.kind = "alert" /\ AlertClosed(h.alert) =>
          Written(alert[h.alert], h.writes).status \in {alert[h.alert].status, "smr_candidate"}
    /\ h.kind = "open" => ~AlertClosed(h.alert)
    /\ h.kind = "case" /\ CaseClosed(h.case) =>
          Written(case[h.case], h.writes).status = case[h.case].status
    /\ h.kind = "link" => Opened(h.case) /\ link[<<h.case, h.alert>>] = 0

SerialInv == \A q \in Requests : Timely(req[q])

(* A step of one of the handlers that is no commit. *)
Loads(q) == \E h : Load(q, h) /\ Timely(h)

LEMMA OnAlertLoads ==
    ASSUME TypeOK, NEW q \in Requests, OnAlert(q)
    PROVE  Loads(q)
  <1>1. CASE RunMonitoring(q)
    <2>1. PICK t \in Txns : OpenAlertsOf(t) = {} /\ Load(q, [kind |-> "raise", txn |-> t])
      BY <1>1 DEF RunMonitoring
    <2>2. Timely([kind |-> "raise", txn |-> t])
      BY <2>1 DEF Timely
    <2> QED BY <2>1, <2>2 DEF Loads
  <1>2. ASSUME NEW a \in Alerts, NEW after, LoadAlert(q, a, after),
               AlertClosed(a) => /\ after \in AlertRow /\ alert[a] \in AlertRow
                                 /\ after.status \in {alert[a].status, "smr_candidate"}
        PROVE  Loads(q)
    <2> DEFINE h == [kind |-> "alert", alert |-> a, writes |-> Changed(alert[a], after)]
    <2>1. Timely(h)
      BY <1>2, WrittenAlert DEF Timely
    <2>2. Load(q, h)
      BY <1>2 DEF LoadAlert
    <2> HIDE DEF h
    <2> QED BY <2>1, <2>2 DEF Loads
  <1>3. CASE AssignAlert(q) \/ ReviewAlert(q) \/ EscalateAlert(q)
    BY <1>2, <1>3 DEF AssignAlert, ReviewAlert, EscalateAlert
  <1>4. CASE FlagSmrCandidate(q)
    <2>1. PICK a \in Alerts :
            /\ Raised(a)
            /\ LoadAlert(q, a, [alert[a] EXCEPT !.status = "smr_candidate", !.smr = TRUE])
      BY <1>4 DEF FlagSmrCandidate
    <2> DEFINE after == [alert[a] EXCEPT !.status = "smr_candidate", !.smr = TRUE]
    <2>2. alert[a] \in AlertRow
      BY <2>1 DEF TypeOK, Raised
    <2>3. after \in AlertRow /\ after.status = "smr_candidate"
      BY <2>2 DEF AlertRow, AlertStatus
    <2> HIDE DEF after
    <2>4. LoadAlert(q, a, after)
      BY <2>1 DEF after
    <2> QED BY <1>2, <2>2, <2>3, <2>4
  <1>5. CASE RecordResult(q)
    <2>1. PICK a \in Alerts, r \in Results :
            /\ Raised(a)
            /\ LoadAlert(q, a, [alert[a] EXCEPT !.result = r,
                                  !.status = IF r = "definitive" /\ ~AlertClosed(a)
                                               THEN "resolved" ELSE @])
      BY <1>5 DEF RecordResult
    <2> DEFINE after == [alert[a] EXCEPT !.result = r,
                           !.status = IF r = "definitive" /\ ~AlertClosed(a)
                                        THEN "resolved" ELSE @]
    <2>2. alert[a] \in AlertRow
      BY <2>1 DEF TypeOK, Raised
    <2>3. after \in AlertRow /\ (AlertClosed(a) => after.status = alert[a].status)
      BY <2>2 DEF AlertRow, AlertStatus
    <2>4. LoadAlert(q, a, after)
      BY <2>1
    <2> HIDE DEF after
    <2> QED BY <1>2, <2>2, <2>3, <2>4
  <1>6. CASE CreateCaseFromAlert(q)
    <2>1. PICK h : Load(q, h) /\ h.kind = "open" /\ ~AlertClosed(h.alert)
      BY <1>6 DEF CreateCaseFromAlert
    <2> QED BY <2>1 DEF Timely, Loads
  <1> QED BY <1>1, <1>3, <1>4, <1>5, <1>6 DEF OnAlert

LEMMA OnCaseLoads ==
    ASSUME TypeOK, NEW q \in Requests, OnCase(q)
    PROVE  Loads(q) \/ CreateCase(q)
  <1>1. ASSUME NEW c \in Cases, NEW after, LoadCase(q, c, after),
               CaseClosed(c) => /\ after \in CaseRow /\ case[c] \in CaseRow
                                /\ after.status = case[c].status
        PROVE  Loads(q)
    <2> DEFINE h == [kind |-> "case", case |-> c, writes |-> Changed(case[c], after)]
    <2>1. Timely(h)
      BY <1>1, WrittenCase DEF Timely
    <2>2. Load(q, h)
      BY <1>1 DEF LoadCase
    <2> HIDE DEF h
    <2> QED BY <2>1, <2>2 DEF Loads
  <1>2. CASE UpdateCase(q) \/ EscalateCase(q) \/ TransitionStatus(q) \/ CloseCase(q)
    BY <1>1, <1>2 DEF UpdateCase, EscalateCase, TransitionStatus, CloseCase
  <1>3. CASE SmrConsider(q)
    <2>1. PICK c \in Cases, proceed \in BOOLEAN :
            /\ Opened(c)
            /\ LoadCase(q, c, [case[c] EXCEPT !.considered = TRUE, !.lodged = @ \/ proceed])
      BY <1>3 DEF SmrConsider
    <2> DEFINE after == [case[c] EXCEPT !.considered = TRUE, !.lodged = @ \/ proceed]
    <2>2. case[c] \in CaseRow
      BY <2>1 DEF TypeOK, Opened
    <2>3. after \in CaseRow /\ after.status = case[c].status
      BY <2>2 DEF CaseRow
    <2>4. LoadCase(q, c, after)
      BY <2>1
    <2> HIDE DEF after
    <2> QED BY <1>1, <2>2, <2>3, <2>4
  <1>4. CASE SmrLodge(q)
    <2>1. PICK c \in Cases :
            /\ Opened(c)
            /\ LoadCase(q, c, [case[c] EXCEPT !.lodged = TRUE])
      BY <1>4 DEF SmrLodge
    <2> DEFINE after == [case[c] EXCEPT !.lodged = TRUE]
    <2>2. case[c] \in CaseRow
      BY <2>1 DEF TypeOK, Opened
    <2>3. after \in CaseRow /\ after.status = case[c].status
      BY <2>2 DEF CaseRow
    <2>4. LoadCase(q, c, after)
      BY <2>1
    <2> HIDE DEF after
    <2> QED BY <1>1, <2>2, <2>3, <2>4
  <1>5. CASE LinkAlert(q)
    <2>1. PICK h : /\ Load(q, h) /\ h.kind = "link"
                   /\ Opened(h.case) /\ link[<<h.case, h.alert>>] = 0
      BY <1>5 DEF LinkAlert
    <2> QED BY <2>1 DEF Timely, Loads
  <1>6. CASE GenerateSmr(q)
    <2>1. PICK h : Load(q, h) /\ h.kind = "draft"
      BY <1>6 DEF GenerateSmr
    <2> QED BY <2>1 DEF Timely, Loads
  <1> QED BY <1>2, <1>3, <1>4, <1>5, <1>6 DEF OnCase

LEMMA StepSerialInv ==
    ASSUME \A p, q \in Requests : p = q
    PROVE  TypeOK /\ SerialInv /\ [Next]_vars => SerialInv'
  <1> SUFFICES ASSUME TypeOK, SerialInv, [Next]_vars PROVE SerialInv'
    OBVIOUS
  <1>1. CASE UNCHANGED vars
    BY <1>1 DEF vars, SerialInv, Timely, OpenAlertsOf, Raised, Opened, AlertClosed, CaseClosed
  <1>2. ASSUME NEW q \in Requests, Loads(q) PROVE SerialInv'
    <2>1. PICK h : Load(q, h) /\ Timely(h)
      BY <1>2 DEF Loads
    <2>2. Timely(h)'
      BY <2>1 DEF Load, Timely, OpenAlertsOf, Raised, Opened, AlertClosed, CaseClosed
    <2>3. \A p \in Requests : req'[p] = h
      BY <2>1 DEF Load, TypeOK
    <2> QED BY <2>2, <2>3 DEF SerialInv, Timely
  <1>3. ASSUME NEW q \in Requests, req' = [req EXCEPT ![q] = Idle] PROVE SerialInv'
    <2>1. \A p \in Requests : req'[p] = Idle
      BY <1>3 DEF TypeOK
    <2> QED BY <2>1 DEF SerialInv, Timely, Idle
  <1>4. ASSUME NEW q \in Requests, CreateCase(q) PROVE SerialInv'
    <2>1. \A p \in Requests : req'[p] = Idle
      BY <1>4 DEF CreateCase
    <2> QED BY <2>1 DEF SerialInv, Timely, Idle
  <1>5. ASSUME NEW q \in Requests, Commit(q) \/ Abort(q) PROVE SerialInv'
    BY <1>3, <1>5 DEF Commit, CommitAlert, CommitCase, CommitRaise, CommitOpen, CommitLink,
                      CommitDraft, Abort
  <1> QED BY <1>1, <1>2, <1>4, <1>5, OnAlertLoads, OnCaseLoads DEF Next

LEMMA Serial ==
    ASSUME \A p, q \in Requests : p = q
    PROVE  Spec => [](TypeOK /\ SerialInv)
  <1>1. Init => SerialInv
    BY DEF Init, SerialInv, Timely, Idle
  <1> QED BY <1>1, StepSerialInv, CasesTypeCorrect, PTL DEF Spec

(* The steps that write alerts, and the steps that write cases. *)
LEMMA AlertsWritten ==
    ASSUME TypeOK, [Next]_vars, alert' # alert
    PROVE  \E q \in Requests : CommitAlert(q) \/ CommitRaise(q) \/ CommitOpen(q)
  <1>1. ASSUME NEW q \in Requests, OnAlert(q) \/ OnCase(q) PROVE FALSE
    BY <1>1, OnAlertLoads, OnCaseLoads DEF Loads, Load, CreateCase
  <1> QED BY <1>1 DEF Next, Commit, CommitCase, CommitLink, CommitDraft, Abort, vars

LEMMA CasesWritten ==
    ASSUME TypeOK, [Next]_vars, case' # case
    PROVE  \E q \in Requests : CommitCase(q) \/ CommitOpen(q) \/ CreateCase(q)
  <1>1. ASSUME NEW q \in Requests, OnAlert(q) \/ OnCase(q) PROVE CreateCase(q)
    BY <1>1, OnAlertLoads, OnCaseLoads DEF Loads, Load
  <1> QED BY <1>1 DEF Next, Commit, CommitAlert, CommitRaise, CommitLink, CommitDraft, Abort, vars

(* What the commits of a handler that is alone do to an alert. *)
LEMMA AlertCommitted ==
    ASSUME TypeOK, SerialInv, NEW q \in Requests, CommitAlert(q) \/ CommitOpen(q)
    PROVE  \A a \in Alerts :
              /\ Raised(a)' => Raised(a)
              /\ Raised(a) /\ AlertClosed(a) =>
                    alert'[a].status \in {alert[a].status, "smr_candidate"}
  <1> DEFINE h == req[q]
             new == Written(alert[h.alert], h.writes)
  <1>1. h.alert \in Alerts /\ Raised(h.alert) /\ Timely(h)
    BY DEF TypeOK, Holds, SerialInv, CommitAlert, CommitOpen
  <1>2. \A a \in Alerts : alert'[a] = IF a = h.alert THEN new ELSE alert[a]
    BY <1>1 DEF TypeOK, CommitAlert, CommitOpen
  <1>3. AlertClosed(h.alert) => new.status \in {alert[h.alert].status, "smr_candidate"}
    BY <1>1 DEF Timely, CommitAlert, CommitOpen
  <1> HIDE DEF new
  <1> QED BY <1>1, <1>2, <1>3 DEF Raised

LEMMA AlertRaised ==
    ASSUME TypeOK, SerialInv, NEW q \in Requests, CommitRaise(q)
    PROVE  \E a \in Alerts :
              /\ ~Raised(a)
              /\ OpenAlertsOf(alert'[a].txn) = {}
              /\ \A b \in Alerts : b # a => alert'[b] = alert[b]
  <1>1. PICK a \in Alerts :
          /\ ~Raised(a)
          /\ alert' = [alert EXCEPT ![a] =
               [txn |-> req[q].txn, status |-> "generated", resolution |-> None,
                notes |-> None, result |-> "pending", smr |-> FALSE]]
    BY DEF CommitRaise
  <1>2. OpenAlertsOf(req[q].txn) = {}
    BY DEF SerialInv, Timely, CommitRaise
  <1>3. alert'[a].txn = req[q].txn
    BY <1>1 DEF TypeOK
  <1>4. \A b \in Alerts : b # a => alert'[b] = alert[b]
    BY <1>1 DEF TypeOK
  <1> QED BY <1>1, <1>2, <1>3, <1>4

(* While requests come one after the other, monitoring raises no second     *)
(* alert for a transaction that has one open.  Two evaluations that overlap *)
(* do: a run shows it.                                                      *)
THEOREM OneOpenAlert ==
    ASSUME \A p, q \in Requests : p = q
    PROVE  Spec => NoSecondAlert
  <1>1. ASSUME TypeOK, SerialInv, [Next]_vars, NEW a \in Alerts, NEW b \in Alerts,
               ~Raised(a), Raised(a)', Raised(b), ~AlertClosed(b)
        PROVE  alert'[a].txn # alert[b].txn
    <2>1. alert' # alert
      BY <1>1 DEF Raised
    <2>2. PICK q \in Requests : CommitRaise(q)
      BY <1>1, <2>1, AlertsWritten, AlertCommitted
    <2>3. PICK x \in Alerts :
            /\ OpenAlertsOf(alert'[x].txn) = {}
            /\ \A y \in Alerts : y # x => alert'[y] = alert[y]
      BY <1>1, <2>2, AlertRaised
    <2>4. a = x
      BY <1>1, <2>3 DEF Raised
    <2> QED BY <1>1, <2>3, <2>4 DEF OpenAlertsOf
  <1>2. TypeOK /\ SerialInv /\ [Next]_vars =>
          [\A a, b \in Alerts :
             (~Raised(a) /\ Raised(a)' /\ Raised(b) /\ ~AlertClosed(b))
                => alert'[a].txn # alert[b].txn]_vars
    BY <1>1
  <1> QED BY <1>2, Serial, PTL DEF Spec, NoSecondAlert

(* A closed alert keeps its status, unless the MLRO flags it, under the     *)
(* same condition.                                                          *)
THEOREM AlertsStayClosed ==
    ASSUME \A p, q \in Requests : p = q
    PROVE  Spec => ClosedAlertsStayClosed
  <1>1. ASSUME TypeOK, SerialInv, [Next]_vars, NEW a \in Alerts, Raised(a), AlertClosed(a)
        PROVE  alert'[a].status \in {alert[a].status, "smr_candidate"}
    <2>1. CASE alert' = alert
      BY <2>1
    <2>2. CASE \E q \in Requests : CommitAlert(q) \/ CommitOpen(q)
      BY <1>1, <2>2, AlertCommitted
    <2>3. CASE \E q \in Requests : CommitRaise(q)
      <3>1. alert'[a] = alert[a]
        BY <1>1, <2>3, AlertRaised
      <3> QED BY <3>1
    <2> QED BY <1>1, <2>1, <2>2, <2>3, AlertsWritten
  <1>2. TypeOK /\ SerialInv /\ [Next]_vars =>
          [\A a \in Alerts :
             (Raised(a) /\ AlertClosed(a)) =>
                alert'[a].status \in {alert[a].status, "smr_candidate"}]_vars
    BY <1>1
  <1> QED BY <1>2, Serial, PTL DEF Spec, ClosedAlertsStayClosed

(* A closed case keeps the status it was closed with, under the same        *)
(* condition.                                                               *)
THEOREM CasesStayClosed ==
    ASSUME \A p, q \in Requests : p = q
    PROVE  Spec => ClosedCasesStayClosed
  <1>1. ASSUME TypeOK, SerialInv, [Next]_vars, NEW c \in Cases, Opened(c), CaseClosed(c)
        PROVE  case'[c].status = case[c].status
    <2>1. CASE case' = case
      BY <2>1
    <2>2. CASE \E q \in Requests : CommitCase(q)
      <3>1. PICK q \in Requests : CommitCase(q)
        BY <2>2
      <3>2. req[q].case \in Cases /\ Timely(req[q]) /\ req[q].kind = "case"
        BY <1>1, <3>1 DEF TypeOK, Holds, SerialInv, CommitCase
      <3>3. case'[c] = IF c = req[q].case THEN Written(case[c], req[q].writes) ELSE case[c]
        BY <1>1, <3>1, <3>2 DEF TypeOK, CommitCase
      <3> QED BY <1>1, <3>2, <3>3 DEF Timely
    <2>3. CASE \E q \in Requests : CommitOpen(q) \/ CreateCase(q)
      <3>1. PICK d \in Cases : ~Opened(d) /\ \E x : case' = [case EXCEPT ![d] = x]
        BY <2>3 DEF CommitOpen, CreateCase
      <3>2. case'[c] = case[c]
        BY <1>1, <3>1 DEF TypeOK
      <3> QED BY <3>2
    <2> QED BY <1>1, <2>1, <2>2, <2>3, CasesWritten
  <1>2. TypeOK /\ SerialInv /\ [Next]_vars =>
          [\A c \in Cases :
             (Opened(c) /\ CaseClosed(c)) => case'[c].status = case[c].status]_vars
    BY <1>1
  <1> QED BY <1>2, Serial, PTL DEF Spec, ClosedCasesStayClosed

(* Only a case that is there has links. *)
LinksOfCases == \A c \in Cases, a \in Alerts : link[<<c, a>>] # 0 => Opened(c)

(* What a step does to the links: those of a new case, or one that was not   *)
(* there.                                                                   *)
LinkStep ==
    \/ link' = link
    \/ \E c \in Cases :
          /\ ~Opened(c)
          /\ \A d \in Cases, a \in Alerts : d # c => link'[<<d, a>>] = link[<<d, a>>]
    \/ \E c \in Cases, a \in Alerts :
          /\ Opened(c) /\ link[<<c, a>>] = 0
          /\ \A d \in Cases, b \in Alerts :
                <<d, b>> # <<c, a>> => link'[<<d, b>>] = link[<<d, b>>]

LEMMA StepLinks ==
    ASSUME TypeOK, SerialInv, [Next]_vars
    PROVE  LinkStep
  <1>1. CASE link' = link
    BY <1>1 DEF LinkStep
  <1>2. ASSUME NEW q \in Requests, CreateCase(q) PROVE LinkStep
    <2>1. PICK c \in Cases, times \in [{a \in Alerts : Raised(a)} -> 0..MaxRepeat] :
            /\ ~Opened(c)
            /\ link' = [l \in Cases \X Alerts |->
                          IF l[1] = c /\ Raised(l[2]) THEN times[l[2]] ELSE link[l]]
      BY <1>2 DEF CreateCase
    <2>2. \A d \in Cases, a \in Alerts : d # c => link'[<<d, a>>] = link[<<d, a>>]
      BY <2>1
    <2> QED BY <2>1, <2>2 DEF LinkStep
  <1>3. ASSUME NEW q \in Requests, CommitOpen(q) PROVE LinkStep
    <2>1. PICK c \in Cases : ~Opened(c) /\ link' = [link EXCEPT ![<<c, req[q].alert>>] = 1]
      BY <1>3 DEF CommitOpen
    <2>2. \A d \in Cases, a \in Alerts : d # c => link'[<<d, a>>] = link[<<d, a>>]
      BY <2>1 DEF TypeOK
    <2> QED BY <2>1, <2>2 DEF LinkStep
  <1>4. ASSUME NEW q \in Requests, CommitLink(q) PROVE LinkStep
    <2> DEFINE c == req[q].case
               a == req[q].alert
    <2>1. c \in Cases /\ a \in Alerts
      BY <1>4 DEF CommitLink, TypeOK, Holds
    <2>2. Opened(c) /\ link[<<c, a>>] = 0
      BY <1>4 DEF CommitLink, SerialInv, Timely
    <2>3. link' = [link EXCEPT ![<<c, a>>] = @ + 1]
      BY <1>4 DEF CommitLink
    <2> HIDE DEF c, a
    <2>4. \A d \in Cases, b \in Alerts :
             <<d, b>> # <<c, a>> => link'[<<d, b>>] = link[<<d, b>>]
      BY <2>3 DEF TypeOK
    <2> QED BY <2>1, <2>2, <2>4 DEF LinkStep
  <1>5. ASSUME NEW q \in Requests, OnAlert(q) \/ OnCase(q) PROVE LinkStep
    BY <1>1, <1>2, <1>5, OnAlertLoads, OnCaseLoads DEF Loads, Load
  <1> QED BY <1>1, <1>3, <1>4, <1>5 DEF Next, Commit, CommitAlert, CommitCase, CommitRaise,
                                       CommitDraft, Abort, vars

(* The case of a link is there when the link is, and stays. *)
LEMMA StepLinksOfCases ==
    ASSUME TypeOK, SerialInv, LinksOfCases, [Next]_vars
    PROVE  LinksOfCases'
  <1>1. ASSUME NEW c \in Cases, Opened(c) PROVE Opened(c)'
    <2>1. CASE case' = case
      BY <1>1, <2>1 DEF Opened
    <2>2. CASE \E q \in Requests : CommitCase(q)
      <3>1. PICK q \in Requests : CommitCase(q)
        BY <2>2
      <3>2. /\ req[q].case \in Cases
            /\ Written(case[req[q].case], req[q].writes) \in CaseRow
        BY <3>1 DEF TypeOK, Holds, CommitCase
      <3>3. case'[c] = IF c = req[q].case THEN Written(case[c], req[q].writes) ELSE case[c]
        BY <3>1, <3>2 DEF TypeOK, CommitCase
      <3> QED BY <1>1, <3>2, <3>3, NoRowIsNoRow DEF Opened
    <2>3. CASE \E q \in Requests : CommitOpen(q) \/ CreateCase(q)
      <3>1. PICK d \in Cases : ~Opened(d) /\ \E x : case' = [case EXCEPT ![d] = x]
        BY <2>3 DEF CommitOpen, CreateCase
      <3> QED BY <1>1, <3>1 DEF TypeOK, Opened
    <2> QED BY <2>1, <2>2, <2>3, CasesWritten
  <1>2. ASSUME NEW q \in Requests, CreateCase(q) \/ CommitOpen(q) PROVE LinksOfCases'
    <2>1. PICK d \in Cases :
            /\ Opened(d)'
            /\ \A c \in Cases, a \in Alerts : c # d => link'[<<c, a>>] = link[<<c, a>>]
      <3>1. CASE CreateCase(q)
        <4>1. PICK c \in Cases, candidate \in BOOLEAN,
                   times \in [{a \in Alerts : Raised(a)} -> 0..MaxRepeat] :
                /\ req[q] = Idle
                /\ ~Opened(c)
                /\ case' = [case EXCEPT ![c] = NewCase(candidate)]
                /\ link' = [l \in Cases \X Alerts |->
                              IF l[1] = c /\ Raised(l[2]) THEN times[l[2]] ELSE link[l]]
                /\ UNCHANGED <<alert, drafts, req>>
          BY <3>1 DEF CreateCase
        <4>2. Opened(c)'
          BY <4>1, NewCaseFits, NoRowIsNoRow DEF TypeOK, Opened
        <4>3. \A d \in Cases, a \in Alerts : d # c => link'[<<d, a>>] = link[<<d, a>>]
          BY <4>1
        <4> QED BY <4>2, <4>3
      <3>2. CASE CommitOpen(q)
        <4>1. PICK d \in Cases :
                /\ case' = [case EXCEPT ![d] = NewCase(req[q].smr)]
                /\ link' = [link EXCEPT ![<<d, req[q].alert>>] = 1]
          BY <3>2 DEF CommitOpen
        <4>2. req[q].smr \in BOOLEAN
          BY <3>2 DEF CommitOpen, TypeOK, Holds
        <4>3. Opened(d)'
          BY <4>1, <4>2, NewCaseFits, NoRowIsNoRow DEF TypeOK, Opened
        <4> QED BY <4>1, <4>3 DEF TypeOK
      <3> QED BY <1>2, <3>1, <3>2
    <2>2. ASSUME NEW c \in Cases, NEW a \in Alerts, link'[<<c, a>>] # 0 PROVE Opened(c)'
      BY <1>1, <2>1, <2>2 DEF LinksOfCases
    <2> QED BY <2>2 DEF LinksOfCases
  <1>3. ASSUME NEW q \in Requests, CommitLink(q) PROVE LinksOfCases'
    <2> DEFINE d == req[q].case
               b == req[q].alert
    <2>1. Opened(d) /\ d \in Cases
      BY <1>3 DEF CommitLink, SerialInv, Timely, TypeOK, Holds
    <2>2. link' = [link EXCEPT ![<<d, b>>] = @ + 1]
      BY <1>3 DEF CommitLink
    <2> HIDE DEF d, b
    <2>3. \A c \in Cases, a \in Alerts : c # d => link'[<<c, a>>] = link[<<c, a>>]
      BY <2>2 DEF TypeOK
    <2>4. ASSUME NEW c \in Cases, NEW a \in Alerts, link'[<<c, a>>] # 0 PROVE Opened(c)'
      BY <1>1, <2>1, <2>3, <2>4 DEF LinksOfCases
    <2> QED BY <2>4 DEF LinksOfCases
  <1>4. CASE link' = link
    BY <1>1, <1>4 DEF LinksOfCases
  <1>5. ASSUME NEW q \in Requests, OnAlert(q) \/ OnCase(q) PROVE LinksOfCases'
    BY <1>2, <1>4, <1>5, OnAlertLoads, OnCaseLoads DEF Loads, Load
  <1> QED BY <1>2, <1>3, <1>4, <1>5 DEF Next, Commit, CommitAlert, CommitCase, CommitRaise,
                                       CommitDraft, Abort, vars

(* An alert that is linked to a case is not linked to it again, if requests  *)
(* come one after the other.  Two that overlap link it twice: a run shows    *)
(* it.                                                                      *)
THEOREM LinksStand ==
    ASSUME \A p, q \in Requests : p = q
    PROVE  Spec => NotLinkedAgain
  <1>1. Init => LinksOfCases
    BY DEF Init, LinksOfCases
  <1>2. TypeOK /\ SerialInv /\ LinksOfCases /\ [Next]_vars => LinksOfCases'
    BY StepLinksOfCases
  <1>3. ASSUME TypeOK, SerialInv, LinksOfCases, [Next]_vars,
               NEW c \in Cases, NEW a \in Alerts, link[<<c, a>>] # 0
        PROVE  link'[<<c, a>>] = link[<<c, a>>]
    <2>1. Opened(c)
      BY <1>3 DEF LinksOfCases
    <2> QED BY <1>3, <2>1, StepLinks DEF LinkStep
  <1>4. TypeOK /\ SerialInv /\ LinksOfCases /\ [Next]_vars =>
          [\A c \in Cases, a \in Alerts :
             link[<<c, a>>] # 0 => link'[<<c, a>>] = link[<<c, a>>]]_vars
    BY <1>3
  <1> QED BY <1>1, <1>2, <1>4, Serial, PTL DEF Spec, NotLinkedAgain

=============================================================================
