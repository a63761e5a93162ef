--------------------------- MODULE CustomerPortal ---------------------------
(***************************************************************************)
(* The portal in which a customer uploads documents and answers the        *)
(* questionnaire, next to the staff's requests on the same customer        *)
(* (app/services/customer_portal_service.py and the routes                 *)
(* customer_portal_public.py and customer_portal_staff.py).                *)
(*                                                                         *)
(* A portal request is two transactions: the link is validated and the     *)
(* session's activity committed, and then the handler runs, which does not *)
(* look at the status of the session again.                                *)
(***************************************************************************)
EXTENDS CustomerReview

CONSTANTS
    Documents,  \* categories of documents that the session requires
    Sections,   \* sections of the questionnaire that the session requires
    MaxLinks    \* bound: links sent for a session

ASSUME LinksAssumption == MaxLinks \in Nat \ {0}
ASSUME PortalAssumption == CustomerIds = Entities

SessionStatuses == {"none", "pending", "in_progress", "submitted", "expired", "cancelled"}
DocumentStatuses == {"none", "uploaded", "accepted", "rejected"}

(* session.link numbers the token whose hash the row holds. *)
NewPortal ==
    [session   |-> [status |-> "none", link |-> 0],
     documents |-> [d \in Documents |-> "none"],
     sections  |-> [s \in Sections |-> FALSE]]

PortalTables ==
    [session   |-> [status : SessionStatuses, link : 0 .. MaxLinks],
     documents |-> [Documents -> DocumentStatuses],
     sections  |-> [Sections -> BOOLEAN]]

NewRows ==
    [customer |-> NewCustomer.customer, checklist |-> NewCustomer.checklist,
     screening |-> NewCustomer.screening, workflow |-> NewCustomer.workflow,
     session |-> NewPortal.session, documents |-> NewPortal.documents,
     sections |-> NewPortal.sections]

CustomerRows ==
    [customer : CustomerTables.customer, checklist : CustomerTables.checklist,
     screening : CustomerTables.screening, workflow : CustomerTables.workflow,
     session : PortalTables.session, documents : PortalTables.documents,
     sections : PortalTables.sections]

Init ==
    /\ rows = [c \in CustomerIds |-> NewRows]
    /\ RequestsInit

-----------------------------------------------------------------------------
(* The staff's requests on sessions. *)

CreateSession(q, c) ==
    /\ Known(c)
    /\ Free(c, "session", "status", "none")
    /\ Handle(q, c, [rows[c] EXCEPT !.session = [status |-> "pending", link |-> 1]])

CancelSession(q, c) ==
    /\ rows[c].session.status \in {"pending", "in_progress"}
    /\ Handle(q, c, [rows[c] EXCEPT !.session.status = "cancelled"])

(* Mutant of ResendSession: a submitted session is sent again as well. *)
ResendSessionAlways(q, c) ==
    /\ rows[c].session.status # "none"
    /\ rows[c].session.link < MaxLinks
    /\ Handle(q, c, [rows[c] EXCEPT !.session = [status |-> "pending", link |-> @.link + 1]])

(* A new token, also for a session that has expired or was cancelled. *)
ResendSession(q, c) ==
    /\ rows[c].session.status \notin {"none", "submitted"}
    /\ rows[c].session.link < MaxLinks
    /\ Handle(q, c, [rows[c] EXCEPT !.session = [status |-> "pending", link |-> @.link + 1]])

StaffReviewDocument(q, c, d, accepted) ==
    /\ rows[c].documents[d] # "none"
    /\ Handle(q, c, [rows[c] EXCEPT !.documents[d] = IF accepted THEN "accepted" ELSE "rejected"])

-----------------------------------------------------------------------------
(* The customer's requests, who holds the links sent so far. *)

(* validate_portal_token: the first transaction of every portal request. *)
ValidatePortalToken(q, c, link) ==
    /\ req[q] = Idle
    /\ rows[c].session.status \in {"pending", "in_progress"}
    /\ rows[c].session.link = link
    /\ IF <<c, link>> \in overdue
         THEN Save(q, c, [rows[c] EXCEPT !.session.status = "expired"], "idle")
         ELSE Save(q, c, [rows[c] EXCEPT !.session.status = "in_progress"], "portal")

Validated(q, c) == req[q] = [pc |-> "portal", of |-> c]

(* A document that was reviewed before may be uploaded again. *)
UploadPortalDocument(q, c, d) ==
    /\ Validated(q, c)
    /\ Save(q, c, [rows[c] EXCEPT !.documents[d] = "uploaded"], "idle")

(* Mutant of SaveQuestionnaire: each save sets what it was told. *)
SaveQuestionnaireAsTold(q, c, s, complete) ==
    /\ Validated(q, c)
    /\ Save(q, c, [rows[c] EXCEPT !.sections[s] = complete], "idle")

(* A section once complete stays complete. *)
SaveQuestionnaire(q, c, s, complete) ==
    /\ Validated(q, c)
    /\ Save(q, c, [rows[c] EXCEPT !.sections[s] = @ \/ complete], "idle")

(* get_portal_state: a rejected document is an uploaded one. *)
ReadyToSubmit(r) ==
    /\ \A d \in Documents : r.documents[d] # "none"
    /\ \A s \in Sections : r.sections[s]

SubmitPortalSession(q, c) ==
    /\ Validated(q, c)
    /\ ReadyToSubmit(rows[c])
    /\ Save(q, c, [rows[c] EXCEPT !.session.status = "submitted",
                                  !.customer.status = IF @ = "draft" THEN "pending" ELSE @],
            "idle")

LinkExpires(c) == rows[c].session.link # 0 /\ Pass(<<c, rows[c].session.link>>)

PortalRequest(q, c) ==
    \/ CreateSession(q, c) \/ CancelSession(q, c) \/ ResendSession(q, c)
    \/ \E d \in Documents, accepted \in BOOLEAN : StaffReviewDocument(q, c, d, accepted)
    \/ \E link \in 1 .. MaxLinks : ValidatePortalToken(q, c, link)
    \/ \E d \in Documents : UploadPortalDocument(q, c, d)
    \/ \E s \in Sections, complete \in BOOLEAN : SaveQuestionnaire(q, c, s, complete)
    \/ SubmitPortalSession(q, c)

-----------------------------------------------------------------------------
Next ==
    \/ \E q \in Requests, c \in CustomerIds : CustomerRequest(q, c) \/ PortalRequest(q, c)
    \/ \E q \in Requests : Commit(q) \/ Lose(q)
    \/ \E c \in CustomerIds : LinkExpires(c)

Spec == Init /\ [][Next]_vars

-----------------------------------------------------------------------------
(* Every table holds rows of its type, and every request is at a transaction *)
(* of its handler.                                                           *)
TypeOK == RequestsOK(CustomerRows, {"portal"})

(* A submitted session has a file for every document and an answer for every *)
(* section that it requires, however the customer's requests, the staff's    *)
(* and lost ones overlap.                                                    *)
SubmittedComplete ==
    \A c \in CustomerIds : rows[c].session.status = "submitted" => ReadyToSubmit(rows[c])

(* A submission is final: no request makes a submitted session open again,   *)
(* expired or cancelled, unless it went by an outdated copy.                 *)
SubmittedStays ==
    [][\A c \in CustomerIds \ raced' :
         rows[c].session.status = "submitted" => rows'[c].session.status = "submitted"]_rows

=============================================================================
