--------------------------- MODULE CustomerEvidence ---------------------------
(***************************************************************************)
(* What is on file about a customer and the checklist that says so         *)
(* (app/api/routes/customers.py, app/api/routes/screening.py), and the     *)
(* import of customers from a file (app/services/bulk_import.py).          *)
(***************************************************************************)
EXTENDS RowRequests, Naturals, Sequences, FiniteSets

CONSTANTS
    OnFile,      \* customers, each with its checklist
    Imported,  \* registers of an organisation
    ImportFiles, \* files: sequences of rows
    Addresses  \* the e-mail addresses in them

ScreeningTypes == {"pep", "sanctions", "ubo_pep", "ubo_sanctions"}
FlagOf(t) == IF t \in {"ubo_pep", "ubo_sanctions"} THEN "ubo_screened" ELSE t

Flags == {"identity", "selfie", "phone", "email", "pep", "sanctions", "ubo_identified",
          "ubo_verified", "ubo_screened", "complete"}

(* "latest" is the newest screening of a type, "cleared" whether one of its   *)
(* records has been reviewed as clear.                                        *)
EvidenceRows ==
    [customer  : [company : BOOLEAN],
     checklist : [Flags -> BOOLEAN],
     files     : [identity : {"none", "uploaded", "pass", "fail"}, selfie : {"none", "refer", "pass"},
                  phone : {"none", "sent", "verified"}, email : {"none", "sent", "verified"},
                  owner : {"none", "unverified", "verified"}],
     latest    : [ScreeningTypes -> {"none", "pending", "clear", "match"}],
     cleared   : [ScreeningTypes -> BOOLEAN]]
NewEvidence ==
    [customer  |-> [company |-> FALSE],
     checklist |-> [f \in Flags |-> FALSE],
     files     |-> [identity |-> "none", selfie |-> "none", phone |-> "none", email |-> "none",
                    owner |-> "none"],
     latest    |-> [t \in ScreeningTypes |-> "none"],
     cleared   |-> [t \in ScreeningTypes |-> FALSE]]

Required(r) ==
    {"identity", "pep", "sanctions"} \union
        IF r.customer.company THEN {"ubo_identified", "ubo_screened"} ELSE {}

(* _update_checklist_flag: the checklist is complete while all that is        *)
(* required is set.                                                           *)
WithFlag(r, flag, on) ==
    LET s == [r EXCEPT !.checklist[flag] = on]
    IN  [s EXCEPT !.checklist["complete"] = \A f \in Required(r) : s.checklist[f]]

Filed(r, what, how) == [r EXCEPT !.files[what] = how]

AddIdentityDocument(q, e) == Handle(q, e, Filed(rows[e], "identity", "uploaded"))

VerifyDocument(q, e, passed) ==
    /\ rows[e].files.identity # "none"
    /\ Handle(q, e, IF passed THEN WithFlag(Filed(rows[e], "identity", "pass"), "identity", TRUE)
                    ELSE Filed(rows[e], "identity", "fail"))

(* A selfie passes with its liveness and its face match. *)
AddSelfie(q, e, live, matches) ==
    Handle(q, e, IF live /\ matches THEN WithFlag(Filed(rows[e], "selfie", "pass"), "selfie", TRUE)
                 ELSE Filed(rows[e], "selfie", "refer"))

StartContact(q, e, what) == Handle(q, e, Filed(rows[e], what, "sent"))

ConfirmContact(q, e, what) ==
    /\ rows[e].files[what] # "none"
    /\ Handle(q, e, WithFlag(Filed(rows[e], what, "verified"), what, TRUE))

AddBeneficialOwner(q, e) ==
    /\ rows[e].files.owner = "none"
    /\ Handle(q, e, WithFlag(Filed(rows[e], "owner", "unverified"), "ubo_identified", TRUE))

UpdateBeneficialOwner(q, e, verified) ==
    /\ rows[e].files.owner # "none"
    /\ Handle(q, e, IF verified
            THEN WithFlag(Filed(rows[e], "owner", "verified"), "ubo_verified", TRUE)
            ELSE Filed(rows[e], "owner", "unverified"))

(* Business details are entered once; they are those of a company. *)
BecomeCompany(q, e) ==
    /\ ~rows[e].customer.company /\ rows[e] = NewEvidence
    /\ Handle(q, e, [rows[e] EXCEPT !.customer.company = TRUE])

(* A screening is asked for, or one is run by the hub, where no provider is   *)
(* connected; neither says anything in the checklist.                         *)
AskForScreening(q, e, t) == Handle(q, e, [rows[e] EXCEPT !.latest[t] = "pending"])

HubScreening(q, e, t) == Handle(q, e, [rows[e] EXCEPT !.latest[t] = "clear"])

ReScreen(q, e, t) ==
    /\ rows[e].latest[t] # "none"
    /\ Handle(q, e, [rows[e] EXCEPT !.latest[t] = "clear"])

ReviewResult(q, e, t, outcome) ==
    /\ rows[e].latest[t] # "none"
    /\ Handle(q, e, [WithFlag(rows[e], FlagOf(t), outcome = "clear")
                        EXCEPT !.latest[t] = outcome,
                               !.cleared[t] = @ \/ outcome = "clear"])

EvidenceRequest(q, e) ==
    \/ AddIdentityDocument(q, e) \/ AddBeneficialOwner(q, e) \/ BecomeCompany(q, e)
    \/ \E ok \in BOOLEAN : VerifyDocument(q, e, ok) \/ UpdateBeneficialOwner(q, e, ok)
    \/ \E live, matches \in BOOLEAN : AddSelfie(q, e, live, matches)
    \/ \E what \in {"phone", "email"} : StartContact(q, e, what) \/ ConfirmContact(q, e, what)
    \/ \E t \in ScreeningTypes :
          \/ AskForScreening(q, e, t) \/ HubScreening(q, e, t) \/ ReScreen(q, e, t)
          \/ \E outcome \in {"pending", "clear", "match"} : ReviewResult(q, e, t, outcome)

-----------------------------------------------------------------------------
(* A row of a file has a name or not, an address or not, and its columns are  *)
(* valid or not.                                                              *)
NoAddress == "none"

ASSUME FilesAssumption ==
    /\ NoAddress \notin Addresses
    /\ ImportFiles \subseteq Seq([address : Addresses \union {NoAddress},
                                  named : BOOLEAN, valid : BOOLEAN])

ImportedRows ==
    [book : [Addresses -> [staff : 0 .. 1, file : Nat]],
     last : [rows : Nat, created : Nat, skipped : Nat, errors : Nat]]
NewImported ==
    [book |-> [a \in Addresses |-> [staff |-> 0, file |-> 0]],
     last |-> [rows |-> 0, created |-> 0, skipped |-> 0, errors |-> 0]]

(* Staff enter a customer whether or not the address is known. *)
EnterCustomer(q, e, a) ==
    /\ rows[e].book[a].staff = 0
    /\ Handle(q, e, [rows[e] EXCEPT !.book[a].staff = 1])

(* _validate_row asks for a name or an address, the import for a name. *)
Accepted(row) == row.valid /\ row.named

(* Each customer is flushed before the next row looks for its address. *)
CreatedRows(r, f) ==
    LET known(a, i) == \/ r.book[a].staff + r.book[a].file > 0
                       \/ \E j \in 1 .. i - 1 : f[j].address = a /\ Accepted(f[j])
    IN  {i \in DOMAIN f : /\ Accepted(f[i])
                          /\ f[i].address = NoAddress \/ ~known(f[i].address, i)}

BulkImport(q, e, f) ==
    LET new == CreatedRows(rows[e], f)
        accepted == {i \in DOMAIN f : Accepted(f[i])}
    IN  Handle(q, e,
            [book |-> [a \in Addresses |-> [rows[e].book[a] EXCEPT
                          !.file = @ + Cardinality({i \in new : f[i].address = a})]],
             last |-> [rows |-> Len(f), created |-> Cardinality(new),
                       skipped |-> Cardinality(accepted \ new),
                       errors |-> Len(f) - Cardinality(accepted)]])

ImportedRequest(q, e) ==
    \/ \E a \in Addresses : EnterCustomer(q, e, a)
    \/ \E f \in ImportFiles : BulkImport(q, e, f)

-----------------------------------------------------------------------------
(* The checklist says what is on file.  It is complete exactly while what it  *)
(* requires is set; then a document was verified, an owner of a company is on *)
(* record, and each flag of a screening rests on one that was reviewed as     *)
(* clear, never on one that is only asked for or that the hub ran, unless an  *)
(* outdated copy was committed.                                               *)
EvidenceOnFile ==
    \A e \in OnFile \ raced :
        LET r == rows[e]
        IN  /\ r.checklist["complete"] <=> \A f \in Required(r) : r.checklist[f]
            /\ r.checklist["ubo_identified"] => r.files.owner # "none"
            /\ r.checklist["identity"] => r.files.identity # "none"
            /\ \A f \in {"pep", "sanctions", "ubo_screened"} : r.checklist[f] =>
                 \E t \in ScreeningTypes : FlagOf(t) = f /\ r.cleared[t]

(* However often files are imported, and customers entered in between, a file *)
(* adds one customer for an address, and none for an address that was there;  *)
(* and every row of a file is created, skipped or an error; overlapping       *)
(* imports may find an address free twice.                                    *)
ImportedOnce ==
    \A e \in Imported \ raced :
        /\ \A a \in Addresses : rows[e].book[a].file <= 1
        /\ LET l == rows[e].last IN l.created + l.skipped + l.errors = l.rows

=============================================================================
