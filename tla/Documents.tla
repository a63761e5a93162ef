------------------------------- MODULE Documents -------------------------------
(***************************************************************************)
(* Documents in object storage and their legal hold                        *)
(* (app/api/routes/documents.py, app/services/document_service.py), and    *)
(* how long a customer is kept: retention policies, legal holds and the    *)
(* purge report (app/services/retention_service.py).                       *)
(***************************************************************************)
EXTENDS RowRequests, Naturals

CONSTANTS
    Files,    \* documents
    Retained, \* customers, each with the policies that apply to it
    Years     \* the years a policy may ask for; 0 is indefinite

DocumentRows ==
    [doc    : [status : {"none", "active", "archived", "deleted"}, hold : BOOLEAN],
     stored : [object : BOOLEAN]]
NewDocument == [doc |-> [status |-> "none", hold |-> FALSE], stored |-> [object |-> FALSE]]

(* The object goes to the storage of the tenant, then the row is committed. *)
CreateDocument(q, e) ==
    /\ rows[e].doc.status = "none"
    /\ Handle(q, e, [doc |-> [status |-> "active", hold |-> FALSE],
                     stored |-> [object |-> TRUE]])

(* Also a document that is under hold. *)
ArchiveDocument(q, e) ==
    /\ rows[e].doc.status = "active"
    /\ Handle(q, e, [rows[e] EXCEPT !.doc.status = "archived"])

Found(e) == rows[e].doc.status \notin {"none", "deleted"}

DeleteDocument(q, e) ==
    /\ Found(e) /\ ~rows[e].doc.hold
    /\ Handle(q, e, [rows[e] EXCEPT !.doc.status = "deleted", !.stored.object = FALSE])

PlaceHoldOnDocument(q, e) ==
    /\ Found(e) /\ ~rows[e].doc.hold
    /\ Handle(q, e, [rows[e] EXCEPT !.doc.hold = TRUE])

ReleaseHoldOnDocument(q, e) ==
    /\ Found(e) /\ rows[e].doc.hold
    /\ Handle(q, e, [rows[e] EXCEPT !.doc.hold = FALSE])

DocumentRequest(q, e) ==
    \/ CreateDocument(q, e) \/ ArchiveDocument(q, e) \/ DeleteDocument(q, e)
    \/ PlaceHoldOnDocument(q, e) \/ ReleaseHoldOnDocument(q, e)

-----------------------------------------------------------------------------
(* Who asks: an administrator, for the platform; the MLRO of an organisation; *)
(* and one of a tenant that has no organisations.                             *)
Officers == {"admin", "mlro", "tenant"}
NoYears == 100
Statutory == 7
Ages == {0, 8, 11}

(* "purge" is the latest purge report: who asked for it, and whether it lists *)
(* the customer.                                                              *)
RetentionRows ==
    [policy   : [Officers -> Years \union {NoYears}],
     holds    : [1 .. 2 -> [state : {"none", "active", "released"}, by : {"admin", "mlro"}]],
     customer : [age : Ages, pep : BOOLEAN],
     purge    : [by : Officers \union {"none"}, listed : BOOLEAN]]
NewRetained ==
    [policy   |-> [o \in Officers |-> NoYears],
     holds    |-> [i \in 1 .. 2 |-> [state |-> "none", by |-> "mlro"]],
     customer |-> [age |-> 0, pep |-> FALSE],
     purge    |-> [by |-> "none", listed |-> FALSE]]

(* A policy is of the organisation, the tenant or the platform of who sets it. *)
UpsertPolicy(q, e, o, years) ==
    Handle(q, e, [rows[e] EXCEPT !.policy[o] = years])

PlaceHold(q, e, i, by) ==
    /\ rows[e].holds[i].state = "none" /\ (i = 2 => rows[e].holds[1].state # "none")
    /\ Handle(q, e, [rows[e] EXCEPT !.holds[i] = [state |-> "active", by |-> by]])

(* A hold of the administrator belongs to no tenant: no other may release it. *)
ReleaseHold(q, e, i, by) ==
    /\ rows[e].holds[i].state # "none"
    /\ by = "admin" \/ rows[e].holds[i].by = by
    /\ Handle(q, e, [rows[e] EXCEPT !.holds[i].state = "released"])

HasActiveHold(r) == \E i \in 1 .. 2 : r.holds[i].state = "active"

(* The most specific policy: of the organisation, tenant, platform, or law. *)
GetPolicy(r, places) ==
    IF "mlro" \in places /\ r.policy["mlro"] # NoYears THEN r.policy["mlro"]
    ELSE IF "tenant" \in places /\ r.policy["tenant"] # NoYears THEN r.policy["tenant"]
    ELSE IF r.policy["admin"] # NoYears THEN r.policy["admin"]
    ELSE Statutory

PlacesOf(o) == IF o = "admin" THEN {} ELSE IF o = "tenant" THEN {"tenant"} ELSE {"tenant", "mlro"}

IsDeletionEligible(r, o) ==
    LET kept == GetPolicy(r, PlacesOf(o))
        years == IF r.customer.pep /\ kept < 10 THEN 10 ELSE kept
    IN  ~HasActiveHold(r) /\ years # 0 /\ r.customer.age >= years

(* The report asks for the policy of the tenant, never of the organisation,   *)
(* takes no account of PEPs, and of zero years only that they are over.       *)
PurgeReport(r, o) ==
    LET years == GetPolicy(r, PlacesOf(o) \ {"mlro"})
    IN  [by |-> o, listed |-> r.customer.age >= years /\ ~HasActiveHold(r)]

GeneratePurgeReport(q, e, o) ==
    Handle(q, e, [rows[e] EXCEPT !.purge = PurgeReport(rows[e], o)])

(* Years go by, and a customer becomes or stops being a PEP. *)
YearsPass(e, age, pep) ==
    /\ Pending = {} /\ Touch(e)
    /\ age >= rows[e].customer.age
    /\ rows' = [rows EXCEPT ![e].customer = [age |-> age, pep |-> pep]]
    /\ UNCHANGED <<req, overdue, raced>>

RetentionRequest(q, e) ==
    \/ \E o \in Officers, years \in Years : UpsertPolicy(q, e, o, years)
    \/ \E i \in 1 .. 2, by \in {"admin", "mlro"} : PlaceHold(q, e, i, by) \/ ReleaseHold(q, e, i, by)
    \/ \E o \in Officers : GeneratePurgeReport(q, e, o)
    \/ \E age \in Ages, pep \in BOOLEAN : YearsPass(e, age, pep)

-----------------------------------------------------------------------------
(* A document has its bytes until it is deleted, and one under legal hold is  *)
(* not deleted, whatever is archived, held and released in between; a hold    *)
(* that is placed while the document is deleted comes too late.               *)
DocumentsKept ==
    \A e \in Files \ raced :
        /\ rows[e].stored.object <=> Found(e)
        /\ rows[e].doc.hold => Found(e)

(* Two calculations of the same answer: nobody is listed for deletion with an *)
(* active hold, be it one of several, and the purge report of a tenant lists  *)
(* a customer who is no PEP, and whose retention has an end, just when the    *)
(* eligibility check lets go of it.                                           *)
PurgeAsEligible ==
    [][\A e \in Retained :
          LET r == rows[e]
              o == rows'[e].purge.by
          IN  rows'[e].purge # r.purge =>
                /\ rows'[e].purge.listed => ~HasActiveHold(r)
                /\ o # "mlro" /\ ~r.customer.pep /\ GetPolicy(r, PlacesOf(o)) # 0 =>
                     (rows'[e].purge.listed <=> IsDeletionEligible(r, o))]_rows

=============================================================================
