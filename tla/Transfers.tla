------------------------------ MODULE Transfers ------------------------------
(***************************************************************************)
(* Records of international funds transfers for the regulator's            *)
(* spreadsheets (app/api/routes/ifti.py and ifti_e.py) and the receipts    *)
(* customers get (app/services/ifti_receipt_service.py).                   *)
(***************************************************************************)
EXTENDS RowRequests, Naturals

CONSTANTS
    Transfers,     \* a transfer with an IFTI-DRA and an IFTI-E record
    ReceiptChains, \* transactions whose receipts are superseded
    MaxReceipts    \* bound on the receipts of a transaction

ASSUME ReceiptAssumption == MaxReceipts \in 0 .. 3

IftiStatuses == {"draft", "ready", "submitted"}
Fills == {"first", "second"}

(* "lodged" is history: what the record held when it was submitted. *)
TransferRows ==
    [dra : [status : IftiStatuses \union {"none"}, content : Fills],
     electronic : [status : IftiStatuses \union {"none"}, content : Fills,
                   mode : {"swift", "structured"}, payee : BOOLEAN,
                   lodged : Fills \union {"none"}]]

NewTransfer ==
    [dra |-> [status |-> "none", content |-> "first"],
     electronic |-> [status |-> "none", content |-> "first", mode |-> "swift", payee |-> FALSE,
                     lodged |-> "none"]]

(* IFTI-DRA.  Ready and submitted can be set whatever the status is. *)

CreateDra(q, e, content) ==
    /\ Free(e, "dra", "status", "none")
    /\ Handle(q, e, [rows[e] EXCEPT !.dra = [status |-> "draft", content |-> content]])

UpdateDra(q, e, content) ==
    /\ rows[e].dra.status \notin {"none", "submitted"}
    /\ Handle(q, e, [rows[e] EXCEPT !.dra.content = content])

MarkDraReady(q, e) ==
    rows[e].dra.status # "none" /\ Handle(q, e, [rows[e] EXCEPT !.dra.status = "ready"])

MarkDraSubmitted(q, e) ==
    rows[e].dra.status # "none" /\ Handle(q, e, [rows[e] EXCEPT !.dra.status = "submitted"])

DeleteDra(q, e) ==
    /\ rows[e].dra.status \notin {"none", "submitted"}
    /\ Handle(q, e, [rows[e] EXCEPT !.dra = NewTransfer.dra])

(* IFTI-E.  In structured mode the payee's institution is asked for when the *)
(* record is created; an update may set the mode and leave it out.           *)

CreateElectronic(q, e, mode, payee, content) ==
    /\ mode = "structured" => payee
    /\ Free(e, "electronic", "status", "none")
    /\ Handle(q, e, [rows[e] EXCEPT !.electronic =
            [status |-> "draft", content |-> content, mode |-> mode, payee |-> payee,
             lodged |-> "none"]])

UpdateElectronic(q, e, mode, payee, content) ==
    /\ rows[e].electronic.status \in {"draft", "ready"}
    /\ Handle(q, e, [rows[e] EXCEPT !.electronic.content = content, !.electronic.mode = mode,
                                    !.electronic.payee = @ \/ payee])

MarkElectronicReady(q, e) ==
    /\ rows[e].electronic.status = "draft"
    /\ Handle(q, e, [rows[e] EXCEPT !.electronic.status = "ready"])

SubmitElectronic(q, e) ==
    /\ rows[e].electronic.status = "ready"
    /\ Handle(q, e, [rows[e] EXCEPT !.electronic.status = "submitted",
                                    !.electronic.lodged = rows[e].electronic.content])

TransferRequest(q, e) ==
    \/ \E content \in Fills :
         \/ CreateDra(q, e, content) \/ UpdateDra(q, e, content)
         \/ \E mode \in {"swift", "structured"}, payee \in BOOLEAN :
              \/ CreateElectronic(q, e, mode, payee, content)
              \/ UpdateElectronic(q, e, mode, payee, content)
    \/ MarkDraReady(q, e) \/ MarkDraSubmitted(q, e) \/ DeleteDra(q, e)
    \/ MarkElectronicReady(q, e) \/ SubmitElectronic(q, e)

-----------------------------------------------------------------------------
(* Receipts.  "of" is the receipt that a new one replaces; "linked" says that *)
(* the new row names it in supersedes_id.                                     *)
Receipts == 1 .. MaxReceipts
ReceiptRows ==
    [status : [Receipts -> {"none", "active", "voided"}], of : [Receipts -> 0 .. MaxReceipts],
     linked : [Receipts -> BOOLEAN]]
NewReceipts ==
    [status |-> [s \in Receipts |-> "none"], of |-> [s \in Receipts |-> 0],
     linked |-> [s \in Receipts |-> FALSE]]

Links == {"link1", "link2", "link3"}
LinkOf == <<"link1", "link2", "link3">>

GenerateReceipt(q, e, s) ==
    /\ Free(e, "status", s, "none")
    /\ Handle(q, e, [rows[e] EXCEPT !.status[s] = "active"])

(* Mutant of Replaced: the correction comes with the second transaction. *)
ReplacedLater(r, old, s) == [r EXCEPT !.status[old] = "voided"]

Replaced(r, old, s) ==
    [r EXCEPT !.status[old] = "voided", !.status[s] = "active", !.of[s] = old]

(* generate_ifti_receipt commits the voiding and the new receipt; what links  *)
(* them is committed after that.                                              *)
SupersedeReceipt(q, e, old, s) ==
    /\ req[q] = Idle
    /\ rows[e].status[old] = "active"
    /\ Free(e, "status", s, "none")
    /\ Save(q, e, Replaced(rows[e], old, s), LinkOf[s])

LinkReceipt(q, e, s) ==
    /\ req[q] = [pc |-> LinkOf[s], of |-> e]
    /\ Save(q, e, [rows[e] EXCEPT !.linked[s] = TRUE], "idle")

ReceiptRequest(q, e) ==
    \E s \in Receipts :
        \/ GenerateReceipt(q, e, s) \/ LinkReceipt(q, e, s)
        \/ \E old \in Receipts : SupersedeReceipt(q, e, old, s)

-----------------------------------------------------------------------------
(* A submitted IFTI-E record is what was submitted: no edit or change of      *)
(* status reaches it afterwards.  (IFTI-DRA records have no such rule:        *)
(* MarkDraReady opens a submitted one.)                                       *)
SubmittedImmutable ==
    \A e \in Transfers \ raced :
        rows[e].electronic.lodged # "none"
          => /\ rows[e].electronic.status = "submitted"
             /\ rows[e].electronic.content = rows[e].electronic.lodged

(* A transfer with a receipt always has one in force: a receipt is voided     *)
(* only together with its replacement, also when corrections overlap or stop  *)
(* between their two commits.  A link names a receipt that is voided.         *)
ReceiptInForce ==
    \A e \in ReceiptChains :
        LET r == rows[e] IN
        /\ (\E s \in Receipts : r.status[s] # "none") => \E s \in Receipts : r.status[s] = "active"
        /\ \A s \in Receipts : r.linked[s] => r.status[r.of[s]] = "voided"

=============================================================================
