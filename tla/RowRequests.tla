---------------------------- MODULE RowRequests ----------------------------
(***************************************************************************)
(* How the request handlers of the API read and write the database.        *)
(*                                                                         *)
(* A handler runs in a worker thread with a session of its own             *)
(* (app/db/database.py, get_db).  It reads the rows of the entity that it  *)
(* is about, tests them, assigns to their columns and commits at its end.  *)
(* Nothing is locked in between, and the commit writes the columns that    *)
(* changed and no others: a request whose rows another one committed to    *)
(* meanwhile still writes what it computed from its old copy.              *)
(*                                                                         *)
(* An entity stands for the rows one request reads together: a customer    *)
(* with its checklist, screening records and workflow, say.  Its value is  *)
(* a record of tables, each a function from columns to values.             *)
(***************************************************************************)
EXTENDS Naturals, FiniteSets

CONSTANTS
    Entities,    \* what the requests are about
    Requests,    \* requests in flight at one time
    Overlapping, \* the entities whose requests may overlap
    MaxTouched   \* bound: entities that requests are about in one behaviour

ASSUME RequestsAssumption == IsFiniteSet(Requests)

VARIABLES
    rows,      \* the tables, by entity
    req,       \* what each request in flight has read and is going to write
    overdue,   \* links, dates and invitations whose time is over
    raced,     \* history: entities of which a request committed an outdated copy
    touched    \* history: entities that requests were about

vars == <<rows, req, overdue, raced, touched>>

Idle == [pc |-> "idle"]
Pending == {q \in Requests : req[q] # Idle}

Touch(e) ==
    /\ e \in touched \/ Cardinality(touched) < MaxTouched
    /\ touched' = touched \union {e}

(* A request that has read the rows of e and is going to commit "new"; it   *)
(* goes on at "then" when that is done.                                      *)
Save(q, e, new, then) ==
    /\ Touch(e)
    /\ req' = [req EXCEPT ![q] = [pc |-> "save", of |-> e, seen |-> rows[e],
                                  new |-> new, then |-> then]]
    /\ UNCHANGED <<rows, overdue, raced>>

(* A handler that reads the rows of e and assigns to them.  Where requests   *)
(* do not overlap, it is one step.                                           *)
Handle(q, e, new) ==
    /\ req[q] = Idle
    /\ \/ e \in Overlapping /\ Save(q, e, new, "idle")
       \/ /\ e \notin Overlapping
          /\ Touch(e)
          /\ rows' = [rows EXCEPT ![e] = new]
          /\ UNCHANGED <<req, overdue, raced>>

(* A row that is inserted is one no other request is inserting: its columns  *)
(* are those of a place that is free in the database and in flight.          *)
Free(e, t, f, none) ==
    /\ rows[e][t][f] = none
    /\ \A q \in Pending : req[q].pc = "save" /\ req[q].of = e => req[q].new[t][f] = none

(* An UPDATE names the columns whose value is not the one that was read. *)
Written(now, seen, new) ==
    [t \in DOMAIN now |->
        [f \in DOMAIN now[t] |->
            IF new[t][f] = seen[t][f] THEN now[t][f] ELSE new[t][f]]]

Commit(q) ==
    /\ req[q].pc = "save"
    /\ LET e == req[q].of IN
         /\ rows' = [rows EXCEPT ![e] =
                IF req[q].seen = @ THEN req[q].new
                ELSE Written(@, req[q].seen, req[q].new)]
         /\ raced' = IF req[q].seen = rows[e] THEN raced ELSE raced \union {e}
    /\ req' = [req EXCEPT ![q] = IF @.then = "idle" THEN Idle
                                 ELSE [pc |-> @.then, of |-> @.of]]
    /\ UNCHANGED <<overdue, touched>>

(* The worker or its connection is lost: nothing of the request is stored. *)
Lose(q) ==
    /\ req[q] # Idle
    /\ req' = [req EXCEPT ![q] = Idle]
    /\ UNCHANGED <<rows, overdue, raced, touched>>

(* Time goes by until x is over. *)
Pass(x) ==
    /\ x \notin overdue
    /\ overdue' = overdue \union {x}
    /\ UNCHANGED <<rows, req, raced, touched>>

RequestsInit ==
    /\ req = [q \in Requests |-> Idle]
    /\ overdue = {}
    /\ raced = {}
    /\ touched = {}

(* A request is idle, at a later transaction, or about to commit rows of Rs. *)
RequestStates(Rs, stops) ==
    {Idle} \union [pc : stops, of : Entities]
           \union [pc : {"save"}, of : Entities, seen : Rs, new : Rs,
                   then : {"idle"} \union stops]

RequestsOK(Rs, stops) ==
    /\ rows \in [Entities -> Rs]
    /\ req \in [Requests -> RequestStates(Rs, stops)]
    /\ raced \subseteq touched
    /\ touched \subseteq Entities

=============================================================================
