--------------------------- MODULE ExaminationPacks ---------------------------
(***************************************************************************)
(* Packs for an examiner (app/api/routes/examination_packs.py,             *)
(* app/services/examination_pack_service.py): what the registers of an     *)
(* organisation hold on a period, section by section, and a summary.       *)
(*                                                                         *)
(* A worker reads one section after the other while other requests write   *)
(* to the registers.  A register is modelled by one of its records: it is  *)
(* not there yet, entered, or filed.                                       *)
(***************************************************************************)
EXTENDS RowRequests

CONSTANTS
    Packs,   \* packs, each with the registers of its organisation
    Asked    \* the sections of a pack, that of the suspicious matters among them

ASSUME AskedAssumption == "smr_register" \in Asked

(* How far a record is: not there, entered, filed. *)
Registered == 0 .. 2
Missing == 3
Failed == 4

(* "found" is what the pack says of each section; "work" is what the worker   *)
(* has read of it before it commits.  "before" and "after" are history: the   *)
(* registers when the pack was asked for and when it was ready.               *)
PackRows ==
    [pack     : [status : {"none", "generating", "ready", "delivered", "archived"}],
     worker   : [on : BOOLEAN],
     found    : [Asked -> Registered \union {Missing, Failed}],
     errors   : [Asked -> BOOLEAN],
     summary  : [Asked -> 0 .. 1],
     register : [Asked -> Registered],
     work     : [Asked -> Registered \union {Missing, Failed}],
     before   : [Asked -> Registered],
     after    : [Asked -> Registered]]
NewPack ==
    [pack     |-> [status |-> "none"],
     worker   |-> [on |-> FALSE],
     found    |-> [s \in Asked |-> Missing],
     errors   |-> [s \in Asked |-> FALSE],
     summary  |-> [s \in Asked |-> 0],
     register |-> [s \in Asked |-> 0],
     work     |-> [s \in Asked |-> Missing],
     before   |-> [s \in Asked |-> 0],
     after    |-> [s \in Asked |-> 0]]

(* Other requests enter records and file them. *)
RegisterGrows(q, e, s) ==
    /\ rows[e].register[s] < 2
    /\ Handle(q, e, [rows[e] EXCEPT !.register[s] = @ + 1])

(* The row is committed before any section is read. *)
RequestPack(q, e) ==
    /\ rows[e].pack.status = "none"
    /\ Handle(q, e, [rows[e] EXCEPT !.pack.status = "generating", !.worker.on = TRUE,
                                    !.before = rows[e].register])

(* Some builders name columns their tables do not have: that of the transfers *)
(* always, those of the programs and the policies when there is a row.        *)
BuilderFails(s, n) ==
    \/ s = "ifti_register"
    \/ s \in {"aml_program", "policy_register"} /\ n > 0

BuildSection(q, e, s) ==
    /\ rows[e].worker.on
    /\ rows[e].work[s] = Missing
    /\ LET n == rows[e].register[s]
       IN  Handle(q, e, [rows[e] EXCEPT !.work[s] = IF BuilderFails(s, n) THEN Failed ELSE n])

(* The summary of a suspicious matter counts those that were filed, that of   *)
(* another register all that were entered; a section that failed counts none. *)
Counted(s, n) ==
    IF n = Failed THEN 0 ELSE IF s = "smr_register" THEN n \div 2 ELSE (n + 1) \div 2

CompletePack(q, e) ==
    /\ rows[e].worker.on
    /\ \A s \in Asked : rows[e].work[s] # Missing
    /\ Handle(q, e, [rows[e] EXCEPT
           !.found = rows[e].work,
           !.errors = [s \in Asked |-> rows[e].work[s] = Failed],
           !.summary = [s \in Asked |-> Counted(s, rows[e].work[s])],
           !.pack.status = "ready",
           !.worker.on = FALSE,
           !.after = rows[e].register,
           !.work = NewPack.work])

(* What was read is lost with the worker, and nobody completes the pack. *)
LosePack(q, e) ==
    /\ rows[e].worker.on
    /\ Handle(q, e, [rows[e] EXCEPT !.worker.on = FALSE, !.work = NewPack.work])

DeliverPack(q, e) ==
    /\ rows[e].pack.status = "ready"
    /\ Handle(q, e, [rows[e] EXCEPT !.pack.status = "delivered"])

ArchivePack(q, e) ==
    /\ rows[e].pack.status \notin {"none", "generating"}
    /\ Handle(q, e, [rows[e] EXCEPT !.pack.status = "archived"])

PackRequest(q, e) ==
    \/ RequestPack(q, e) \/ CompletePack(q, e) \/ LosePack(q, e)
    \/ DeliverPack(q, e) \/ ArchivePack(q, e)
    \/ \E s \in Asked : RegisterGrows(q, e, s) \/ BuildSection(q, e, s)

-----------------------------------------------------------------------------
(* What an examiner is handed is complete and was true while the pack was     *)
(* made: every section says what its register held at some moment between the *)
(* request and the end, or that it failed, which the errors say too; and the  *)
(* summary claims no filing that the section does not have.                   *)
PackOfItsTime ==
    \A e \in Packs \ raced :
        LET r == rows[e]
        IN  r.pack.status \in {"ready", "delivered", "archived"} =>
              \A s \in Asked :
                  /\ r.found[s] # Missing
                  /\ r.errors[s] <=> r.found[s] = Failed
                  /\ r.found[s] # Failed => r.found[s] \in r.before[s] .. r.after[s]
                  /\ r.summary[s] # 0 => r.found[s] # Failed
                  /\ r.summary["smr_register"] = 1 => r.after["smr_register"] = 2

=============================================================================
