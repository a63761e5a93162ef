------------------------ MODULE DeadlineChecks_proofs ------------------------
(***************************************************************************)
(* Theorems about DeadlineChecks, for any number of overlapping runs,      *)
(* users, items and faults.                                                *)
(*                                                                         *)
(* NotifiedOnce follows from Separate: what a session has flushed is       *)
(* neither committed nor flushed by another session, because an insert     *)
(* waits for the other session and fails once that has committed.          *)
(*                                                                         *)
(* ReportedIsStored is harder, since a conflict rolls back rows of other   *)
(* users that were flushed before it.  What saves them is that the other   *)
(* run commits an item for all its users at once (WholeItems): if one key  *)
(* of an item is committed, all are.                                       *)
(*                                                                         *)
(* DueNotified follows the run that is never broken: a deadlock breaks one *)
(* run of a circle and spares another, which stores what every check finds *)
(* or meets it stored (Progressed).                                        *)
(***************************************************************************)
EXTENDS DeadlineChecks, TLAPS

(* A run that notifies works on an item, and inserts a key of that item. *)
AtItem ==
    \A r \in Runs :
      /\ run[r].pc \in {"targets", "insert"} => run[r].item \in Items
      /\ run[r].pc = "insert" => \E u \in Users : run[r].key = <<run[r].item, u>>

TypeInv == TypeOK /\ AtItem

LEMMA DueAreItems == ASSUME NEW c \in Checks PROVE Due[c] \subseteq Items
  BY DEF Items

LEMMA KeyTyped == ASSUME NEW i \in Items, NEW u \in Users PROVE <<i, u>> \in Keys
  BY DEF Keys

(* The run goes on to a check of the list, or returns. *)
LEMMA NextCheckTyped ==
    ASSUME TypeOK, NEW r \in Runs
    PROVE  /\ NextCheck(r) \in RunStates
           /\ NextCheck(r).pc \in {"check", "returned"}
           /\ NextCheck(r).pc = "check" => NextCheck(r).at >= 1
           /\ [NextCheck(r) EXCEPT !.broken = TRUE] \in RunStates
           /\ [NextCheck(r) EXCEPT !.broken = TRUE].pc \in {"check", "returned"}
           /\ [NextCheck(r) EXCEPT !.broken = TRUE].pc = "check" =>
                [NextCheck(r) EXCEPT !.broken = TRUE].at >= 1
  <1>1. run[r] \in RunStates /\ Len(CheckOrder) \in Nat
    BY OrderAssumption DEF TypeOK
  <1>2. run[r].at \in 0 .. Len(CheckOrder)
    BY <1>1 DEF RunStates
  <1>3. CASE run[r].at < Len(CheckOrder)
    <2>1. NextCheck(r) = [run[r] EXCEPT !.pc = "check", !.at = @ + 1]
      BY <1>3 DEF NextCheck
    <2>2. run[r].at + 1 \in 0 .. Len(CheckOrder) /\ run[r].at + 1 >= 1
      BY <1>1, <1>2, <1>3
    <2>. QED
      BY <1>1, <2>1, <2>2 DEF RunStates
  <1>4. CASE ~(run[r].at < Len(CheckOrder))
    BY <1>1, <1>4 DEF NextCheck, RunStates
  <1>. QED
    BY <1>3, <1>4

(* A step that takes run r to x and leaves the tables well typed. *)
LEMMA RunMoves ==
    ASSUME TypeInv, NEW r \in Runs, NEW x \in RunStates, run' = [run EXCEPT ![r] = x],
           x.pc \notin {"new", "returned"} => x.at >= 1,
           x.pc \in {"targets", "insert"} => x.item \in Items,
           x.pc = "insert" => \E u \in Users : x.key = <<x.item, u>>,
           table' \subseteq [key : Keys, by : Runs],
           flushed' \in [Runs -> SUBSET Keys], sent' \in [Runs -> SUBSET Keys],
           UNCHANGED active, faults' \in 0 .. MaxFaults
    PROVE  TypeInv'
  BY DEF TypeInv, TypeOK, AtItem

LEMMA StepTyped == ASSUME TypeInv, [Next]_vars PROVE TypeInv'
  <1>. USE OrderAssumption, DueAssumption, NewcomersAssumption, FaultsAssumption
  <1>0. TypeOK /\ AtItem
    BY DEF TypeInv
  <1>1. CASE UNCHANGED vars
    BY <1>1 DEF vars, TypeInv, TypeOK, AtItem
  <1>2. ASSUME NEW u \in Users, Activate(u) PROVE TypeInv'
    BY <1>2 DEF Activate, TypeInv, TypeOK, AtItem
  <1>3. ASSUME NEW r \in Runs, Step(r) \/ Fault(r) \/ Die(r) PROVE TypeInv'
    <2>. DEFINE R == run[r]
    <2>0. /\ run \in [Runs -> RunStates]
          /\ R \in RunStates /\ R.pc \notin {"new", "returned"} => R.at >= 1
          /\ table \subseteq [key : Keys, by : Runs]
          /\ flushed \in [Runs -> SUBSET Keys] /\ sent \in [Runs -> SUBSET Keys]
          /\ active \in SUBSET Users /\ faults \in 0 .. MaxFaults
          /\ R.pc \in {"targets", "insert"} => R.item \in Items
          /\ R.pc = "insert" => \E u \in Users : R.key = <<R.item, u>>
      BY <1>0 DEF TypeOK, AtItem
    <2>a. [flushed EXCEPT ![r] = {}] \in [Runs -> SUBSET Keys]
      BY <2>0
    <2>n. ASSUME run' = [run EXCEPT ![r] = NextCheck(r)],
                 UNCHANGED <<table, flushed, active, faults, sent>>
          PROVE  TypeInv'
      BY <2>n, <2>0, <1>0, NextCheckTyped, RunMoves
    <2>s. ASSUME Swallow(r), faults' \in 0 .. MaxFaults PROVE TypeInv'
      BY <2>s, <2>0, <2>a, <1>0, NextCheckTyped, RunMoves DEF Swallow
    <2>1. CASE Begin(r)
      BY <2>1, <2>n DEF Begin
    <2>2. CASE QueryRaises(r)
      BY <2>2, <2>n DEF QueryRaises
    <2>3. CASE CheckDone(r)
      BY <2>3, <2>n DEF CheckDone
    <2>4. CASE Query(r)
      <3>1. Check(r) \in Checks
        BY <2>4, <2>0 DEF Query, Check, Checks, RunStates
      <3>2. Due[Check(r)] \in SUBSET Items
        BY <3>1, DueAreItems
      <3>. DEFINE x == [R EXCEPT !.pc = "items", !.todo = Due[Check(r)]]
      <3>3. x \in RunStates /\ x.pc = "items" /\ x.at = R.at
        BY <2>0, <3>2 DEF RunStates
      <3>4. run' = [run EXCEPT ![r] = x]
        BY <2>4, <2>0 DEF Query
      <3>. QED
        BY <2>4, <2>0, <3>3, <3>4, RunMoves DEF Query
    <2>5. CASE Notify(r)
      <3>1. PICK i \in R.todo :
              run' = [run EXCEPT ![r].pc = "targets", ![r].item = i, ![r].todo = @ \ {i},
                                 ![r].targets = active, ![r].reached = active]
        BY <2>5 DEF Notify
      <3>2. i \in Items
        BY <2>0 DEF RunStates
      <3>. DEFINE x == [R EXCEPT !.pc = "targets", !.item = i, !.todo = @ \ {i},
                                 !.targets = active, !.reached = active]
      <3>3. x \in RunStates /\ x.pc = "targets" /\ x.at = R.at /\ x.item = i
        BY <2>0, <3>2 DEF RunStates
      <3>4. run' = [run EXCEPT ![r] = x]
        BY <3>1, <2>0
      <3>5. R.at >= 1 /\ UNCHANGED <<table, flushed, active, faults, sent>>
        BY <2>5, <2>0 DEF Notify
      <3>. HIDE DEF x
      <3>. QED
        BY <2>0, <3>2, <3>3, <3>4, <3>5, RunMoves
    <2>6. CASE Select(r)
      <3>1. PICK u \in R.targets :
              run' = [run EXCEPT ![r].targets = @ \ {u}, ![r].key = <<R.item, u>>,
                        ![r].pc = IF <<R.item, u>> \in Committed \union flushed[r]
                                    THEN "targets" ELSE "insert"]
        BY <2>6 DEF Select
      <3>2. R.item \in Items /\ u \in Users /\ <<R.item, u>> \in Keys
        BY <2>6, <2>0, KeyTyped DEF RunStates, Select
      <3>. DEFINE p == IF <<R.item, u>> \in Committed \union flushed[r] THEN "targets" ELSE "insert"
                  x == [R EXCEPT !.targets = @ \ {u}, !.key = <<R.item, u>>, !.pc = p]
      <3>5. p \in {"targets", "insert"}
        OBVIOUS
      <3>6. run' = [run EXCEPT ![r] = x]
        BY <3>1
      <3>. HIDE DEF p
      <3>3. /\ x \in RunStates /\ x.pc = p /\ x.at = R.at /\ x.item = R.item
            /\ x.key = <<R.item, u>>
        BY <2>0, <3>2, <3>5 DEF RunStates
      <3>7. x.pc \notin {"new", "returned"} => x.at >= 1
        BY <2>6, <2>0, <3>3 DEF Select
      <3>. HIDE DEF x
      <3>. QED
        BY <2>6, <2>0, <3>2, <3>3, <3>6, <3>7, RunMoves DEF Select
    <2>7. CASE Insert(r) \/ Conflict(r)
      <3>1. PICK u \in Users : R.key = <<R.item, u>> /\ R.item \in Items
        BY <2>7, <2>0 DEF Insert, Conflict
      <3>2. R.key \in Keys
        BY <3>1, KeyTyped
      <3>. DEFINE x == [R EXCEPT !.pc = "targets"]
      <3>3. x \in RunStates /\ x.pc = "targets" /\ x.at = R.at /\ x.item = R.item
        BY <2>0 DEF RunStates
      <3>4. run' = [run EXCEPT ![r] = x]
        BY <2>7 DEF Insert, Conflict
      <3>5. flushed' \in [Runs -> SUBSET Keys]
        BY <2>7, <2>0, <3>2 DEF Insert, Conflict
      <3>6. R.at >= 1 /\ UNCHANGED <<table, active, faults, sent>>
        BY <2>7, <2>0 DEF Insert, Conflict
      <3>. HIDE DEF x
      <3>. QED
        BY <2>0, <3>1, <3>3, <3>4, <3>5, <3>6, RunMoves
    <2>8. CASE Deadlock(r)
      BY <2>8, <2>0, <2>s DEF Deadlock
    <2>9. CASE Commit(r)
      <3>1. R.item \in Items /\ R.at >= 1 /\ R.reached \subseteq Users
        BY <2>9, <2>0 DEF Commit, RunStates
      <3>2. {R.item} \X R.reached \subseteq Keys
        BY <3>1 DEF Keys
      <3>. DEFINE x == [R EXCEPT !.pc = "items"]
      <3>3. x \in RunStates /\ x.pc = "items" /\ x.at = R.at
        BY <2>0 DEF RunStates
      <3>4. run' = [run EXCEPT ![r] = x]
        BY <2>9 DEF Commit
      <3>5. flushed' \in [Runs -> SUBSET Keys] /\ sent' \in [Runs -> SUBSET Keys]
        BY <2>9, <2>0, <2>a, <3>2 DEF Commit
      <3>6. table' \subseteq [key : Keys, by : Runs]
        BY <2>9, <2>0 DEF Commit
      <3>7. UNCHANGED <<active, faults>>
        BY <2>9 DEF Commit
      <3>. HIDE DEF x
      <3>. QED
        BY <2>0, <3>1, <3>3, <3>4, <3>5, <3>6, <3>7, RunMoves
    <2>10. CASE Fault(r)
      BY <2>10, <2>0, <2>s DEF Fault
    <2>11. CASE Die(r)
      <3>. DEFINE x == [R EXCEPT !.pc = "dead"]
      <3>1. x \in RunStates /\ x.pc = "dead" /\ x.at = R.at
        BY <2>0 DEF RunStates
      <3>2. run' = [run EXCEPT ![r] = x] /\ faults' \in 0 .. MaxFaults /\ R.at >= 1
        BY <2>11, <2>0 DEF Die
      <3>3. UNCHANGED <<table, active, sent>> /\ flushed' = [flushed EXCEPT ![r] = {}]
        BY <2>11 DEF Die
      <3>. HIDE DEF x
      <3>. QED
        BY <2>0, <2>a, <3>1, <3>2, <3>3, RunMoves
    <2>. QED
      BY <1>3, <2>1, <2>2, <2>3, <2>4, <2>5, <2>6, <2>7, <2>8, <2>9, <2>10, <2>11 DEF Step
  <1>. QED
    BY <1>1, <1>2, <1>3 DEF Next

LEMMA TypedAlways == Spec => []TypeInv
  <1>1. Init => TypeInv
    <2>1. Len(CheckOrder) \in Nat
      BY OrderAssumption
    <2>. QED
      BY <2>1, FaultsAssumption DEF Init, TypeInv, TypeOK, AtItem, Start, RunStates
  <1>2. TypeInv /\ [Next]_vars => TypeInv'
    BY StepTyped
  <1>. QED
    BY <1>1, <1>2, PTL DEF Spec

(* Every variable keeps its type, through conflicts, deadlocks and deaths. *)
THEOREM ChecksTypeCorrect == Spec => []TypeOK
  <1>1. TypeInv => TypeOK
    BY DEF TypeInv
  <1>. QED
    BY <1>1, TypedAlways, PTL

-----------------------------------------------------------------------------
(* What a session has flushed is not committed, nor flushed by another.     *)
Separate ==
    /\ \A r \in Runs : flushed[r] \intersect Committed = {}
    /\ \A r, s \in Runs : r # s => flushed[r] \intersect flushed[s] = {}

OnceInv == NotifiedOnce /\ Separate

LEMMA CommittedGrows ==
    ASSUME NEW r \in Runs, table' = table \union {[key |-> k, by |-> r] : k \in flushed[r]}
    PROVE  Committed' = Committed \union flushed[r]
  <1>1. ASSUME NEW k \in Committed' PROVE k \in Committed \union flushed[r]
    <2>1. PICK row \in table' : k = row.key
      BY <1>1 DEF Committed
    <2>2. CASE row \in table
      BY <2>1, <2>2 DEF Committed
    <2>3. CASE row \notin table
      <3>1. PICK j \in flushed[r] : row = [key |-> j, by |-> r]
        BY <2>1, <2>3
      <3>. QED
        BY <2>1, <3>1
    <2>. QED
      BY <2>2, <2>3
  <1>2. ASSUME NEW k \in Committed PROVE k \in Committed'
    BY <1>2 DEF Committed
  <1>3. ASSUME NEW k \in flushed[r] PROVE k \in Committed'
    <2>. DEFINE row == [key |-> k, by |-> r]
    <2>1. row \in table' /\ row.key = k
      BY <1>3
    <2>. HIDE DEF row
    <2>. QED
      BY <2>1 DEF Committed
  <1>. QED
    BY <1>1, <1>2, <1>3

LEMMA OnceStep == ASSUME TypeOK, OnceInv, [Next]_vars PROVE OnceInv'
  <1>0. flushed \in [Runs -> SUBSET Keys] /\ NotifiedOnce /\ Separate
    BY DEF TypeOK, OnceInv
  <1>1. ASSUME UNCHANGED <<table, flushed>> PROVE OnceInv'
    BY <1>0, <1>1 DEF OnceInv, NotifiedOnce, Separate, Committed
  <1>2. ASSUME NEW r \in Runs, UNCHANGED table, flushed' = [flushed EXCEPT ![r] = {}]
        PROVE  OnceInv'
    BY <1>0, <1>2 DEF OnceInv, NotifiedOnce, Separate, Committed
  <1>3. ASSUME NEW r \in Runs, Insert(r) PROVE OnceInv'
    <2>1. run[r].key \notin Committed /\ \A s \in Runs : s # r => run[r].key \notin flushed[s]
      BY <1>3 DEF Insert, Blocked, WaitsFor
    <2>2. UNCHANGED table /\ flushed' = [flushed EXCEPT ![r] = @ \union {run[r].key}]
      BY <1>3 DEF Insert
    <2>. QED
      BY <1>0, <2>1, <2>2 DEF OnceInv, NotifiedOnce, Separate, Committed
  <1>4. ASSUME NEW r \in Runs, Commit(r) PROVE OnceInv'
    <2>1. /\ table' = table \union {[key |-> k, by |-> r] : k \in flushed[r]}
          /\ flushed' = [flushed EXCEPT ![r] = {}]
      BY <1>4 DEF Commit
    <2>2. Committed' = Committed \union flushed[r]
      BY <2>1, CommittedGrows
    <2>3. NotifiedOnce'
      BY <1>0, <2>1 DEF NotifiedOnce, Separate, Committed
    <2>4. Separate'
      BY <1>0, <2>1, <2>2 DEF Separate
    <2>. QED
      BY <2>3, <2>4 DEF OnceInv
  <1>5. ASSUME NEW r \in Runs, Step(r) \/ Fault(r) \/ Die(r) PROVE OnceInv'
    <2>1. ASSUME Begin(r) \/ QueryRaises(r) \/ Query(r) \/ CheckDone(r) \/ Notify(r) \/ Select(r)
          PROVE  OnceInv'
      BY <2>1, <1>1 DEF Begin, QueryRaises, Query, CheckDone, Notify, Select
    <2>2. ASSUME Conflict(r) \/ Deadlock(r) \/ Fault(r) \/ Die(r) PROVE OnceInv'
      BY <2>2, <1>2 DEF Conflict, Deadlock, Fault, Die, Swallow
    <2>. QED
      BY <1>5, <2>1, <2>2, <1>3, <1>4 DEF Step
  <1>. QED
    BY <1>1, <1>5 DEF Next, Activate, vars

(* A user gets one notification a day about an item, for any number of runs,  *)
(* conflicts, deadlocks and deaths.                                           *)
THEOREM NobodyTwice == Spec => []NotifiedOnce
  <1>1. Init => OnceInv
    BY DEF Init, OnceInv, NotifiedOnce, Separate, Committed
  <1>2. TypeOK /\ OnceInv /\ [Next]_vars => OnceInv'
    BY OnceStep
  <1>3. OnceInv => NotifiedOnce
    BY DEF OnceInv
  <1>. QED
    BY <1>1, <1>2, <1>3, ChecksTypeCorrect, PTL DEF Spec

-----------------------------------------------------------------------------
(* The users that are active from the start, and the days without others.    *)
Base == Users \ Newcomers
Steady == active = Base

(* What a session has flushed is of the item that it works on. *)
FlushedOfItem ==
    \A r \in Runs : \A k \in flushed[r] :
        run[r].pc \in {"targets", "insert"} /\ k[1] = run[r].item

(* An item that has a committed key has all of them. *)
WholeItems == \A k \in Committed : \A u \in Base : <<k[1], u>> \in Committed

(* The targets of a run's item that it is done with have their key committed *)
(* or flushed, or it is about to insert that key.                            *)
Reached(r, u) ==
    \/ u \in run[r].targets
    \/ <<run[r].item, u>> \in Committed \union flushed[r]
    \/ run[r].pc = "insert" /\ run[r].key = <<run[r].item, u>>

ItemsReached ==
    \A r \in Runs : run[r].pc \in {"targets", "insert"} => \A u \in Base : Reached(r, u)

SentStored ==
    \A r \in Runs :
        /\ sent[r] \subseteq Committed
        /\ run[r].pc \in {"targets", "insert"} => run[r].reached = Base

StoredInv ==
    /\ Base \subseteq active
    /\ FlushedOfItem
    /\ WholeItems
    /\ ItemsReached
    /\ Steady => SentStored

(* A step that leaves the tables alone and takes run r elsewhere. *)
LEMMA StoredMoves ==
    ASSUME TypeInv, StoredInv, NEW r \in Runs, NEW x, run' = [run EXCEPT ![r] = x],
           x.pc \notin {"targets", "insert"}, flushed' \in {flushed, [flushed EXCEPT ![r] = {}]},
           flushed'[r] = {}, UNCHANGED <<table, active, sent>>
    PROVE  StoredInv'
  <1>0. run \in [Runs -> RunStates] /\ flushed \in [Runs -> SUBSET Keys]
    BY DEF TypeInv, TypeOK
  <1>1. \A s \in Runs \ {r} : run'[s] = run[s] /\ flushed'[s] = flushed[s]
    BY <1>0
  <1>2. run'[r] = x /\ Committed' = Committed
    BY <1>0 DEF Committed
  <1>3. FlushedOfItem'
    BY <1>1, <1>2 DEF StoredInv, FlushedOfItem
  <1>4. WholeItems' /\ (Steady' => SentStored')
    BY <1>1, <1>2 DEF StoredInv, Steady, WholeItems, SentStored, Base
  <1>5. ItemsReached'
    BY <1>1, <1>2 DEF StoredInv, ItemsReached, Reached, Base
  <1>. QED
    BY <1>3, <1>4, <1>5 DEF StoredInv, Base

LEMMA StoredStep == ASSUME TypeInv, StoredInv, [Next]_vars PROVE StoredInv'
  <1>0. /\ run \in [Runs -> RunStates] /\ flushed \in [Runs -> SUBSET Keys]
        /\ sent \in [Runs -> SUBSET Keys] /\ FlushedOfItem /\ Base \subseteq active
    BY DEF TypeInv, TypeOK, StoredInv
  <1>1. CASE UNCHANGED vars
    BY <1>1 DEF vars, StoredInv, FlushedOfItem, Steady, WholeItems, ItemsReached, Reached,
                SentStored, Committed, Base
  <1>2. ASSUME NEW u \in Users, Activate(u) PROVE StoredInv'
    <2>1. ~Steady' /\ Base' \subseteq active'
      BY <1>0, <1>2 DEF Activate, Steady, Base
    <2>2. FlushedOfItem' /\ WholeItems' /\ ItemsReached'
      BY <1>0, <1>2 DEF Activate, StoredInv, FlushedOfItem, WholeItems, ItemsReached, Reached,
                        Committed, Base
    <2>. QED
      BY <2>1, <2>2 DEF StoredInv
  <1>3. ASSUME NEW r \in Runs, Step(r) \/ Fault(r) \/ Die(r) PROVE StoredInv'
    <2>. DEFINE R == run[r]
    <2>0. R \in RunStates /\ (R.pc \notin {"targets", "insert"} => flushed[r] = {})
      BY <1>0 DEF FlushedOfItem
    <2>e. [flushed EXCEPT ![r] = {}][r] = {}
      BY <1>0
    <2>t. TypeOK /\ AtItem
      BY DEF TypeInv
    <2>n. NextCheck(r).pc \notin {"targets", "insert"}
          /\ [NextCheck(r) EXCEPT !.broken = TRUE].pc \notin {"targets", "insert"}
      BY <2>t, NextCheckTyped
    <2>1. CASE Begin(r) \/ QueryRaises(r) \/ CheckDone(r)
      BY <2>1, <2>0, <2>n, StoredMoves DEF Begin, QueryRaises, CheckDone
    <2>2. CASE Query(r)
      <3>. DEFINE x == [R EXCEPT !.pc = "items", !.todo = Due[Check(r)]]
      <3>1. run' = [run EXCEPT ![r] = x] /\ x.pc = "items"
        BY <2>2, <2>0, <1>0 DEF Query, RunStates
      <3>. HIDE DEF x
      <3>. QED
        BY <2>2, <2>0, <3>1, StoredMoves DEF Query
    <2>3. CASE Deadlock(r) \/ Fault(r)
      BY <2>3, <2>e, <2>n, StoredMoves DEF Deadlock, Fault, Swallow
    <2>4. CASE Die(r)
      <3>. DEFINE x == [R EXCEPT !.pc = "dead"]
      <3>1. run' = [run EXCEPT ![r] = x] /\ x.pc = "dead"
        BY <2>4, <2>0, <1>0 DEF Die, RunStates
      <3>. HIDE DEF x
      <3>. QED
        BY <2>4, <2>e, <3>1, StoredMoves DEF Die
    <2>a. ASSUME UNCHANGED <<table, active, sent>>,
                 \A s \in Runs \ {r} : run'[s] = run[s] /\ flushed'[s] = flushed[s],
                 \A k \in flushed'[r] : run'[r].pc \in {"targets", "insert"} /\ k[1] = run'[r].item,
                 Steady => run'[r].reached = Base,
                 \A u \in Base : Reached(r, u)'
          PROVE  StoredInv'
      <3>1. Committed' = Committed
        BY <2>a DEF Committed
      <3>2. FlushedOfItem'
        BY <2>a, <1>0 DEF FlushedOfItem
      <3>3. WholeItems' /\ (Steady' => SentStored')
        BY <2>a, <3>1 DEF StoredInv, Steady, WholeItems, SentStored, Base
      <3>4. ASSUME NEW s \in Runs, run'[s].pc \in {"targets", "insert"}
            PROVE  \A u \in Base : Reached(s, u)'
        <4>1. CASE s = r
          BY <2>a, <3>4, <4>1
        <4>2. CASE s # r
          <5>1. run'[s] = run[s] /\ flushed'[s] = flushed[s]
            BY <2>a, <4>2
          <5>2. \A u \in Base : Reached(s, u)
            BY <3>4, <5>1 DEF StoredInv, ItemsReached
          <5>. QED
            BY <3>1, <5>1, <5>2 DEF Reached
        <4>. QED
          BY <4>1, <4>2
      <3>. QED
        BY <1>0, <2>a, <3>2, <3>3, <3>4 DEF StoredInv, ItemsReached, Base
    <2>5. CASE Notify(r)
      <3>1. PICK i \in R.todo :
              run' = [run EXCEPT ![r].pc = "targets", ![r].item = i, ![r].todo = @ \ {i},
                                 ![r].targets = active, ![r].reached = active]
        BY <2>5 DEF Notify
      <3>2. run'[r].targets = active /\ run'[r].reached = active
        BY <1>0, <2>0, <3>1 DEF RunStates
      <3>3. flushed[r] = {} /\ UNCHANGED <<table, flushed, active, sent>>
        BY <2>5, <2>0 DEF Notify
      <3>4. \A s \in Runs \ {r} : run'[s] = run[s]
        BY <1>0, <3>1
      <3>5. (Steady => run'[r].reached = Base) /\ \A u \in Base : Reached(r, u)'
        BY <1>0, <3>2 DEF Steady, Reached
      <3>. QED
        BY <2>a, <3>3, <3>4, <3>5
    <2>6. CASE Select(r)
      <3>1. PICK v \in R.targets :
              run' = [run EXCEPT ![r].targets = @ \ {v}, ![r].key = <<R.item, v>>,
                        ![r].pc = IF <<R.item, v>> \in Committed \union flushed[r]
                                    THEN "targets" ELSE "insert"]
        BY <2>6 DEF Select
      <3>. DEFINE p == IF <<R.item, v>> \in Committed \union flushed[r] THEN "targets" ELSE "insert"
      <3>2. /\ run'[r].targets = R.targets \ {v} /\ run'[r].key = <<R.item, v>>
            /\ run'[r].pc = p /\ run'[r].item = R.item /\ run'[r].reached = R.reached
        BY <1>0, <2>0, <3>1 DEF RunStates
      <3>3. R.pc = "targets" /\ UNCHANGED <<table, flushed, active, sent>>
        BY <2>6 DEF Select
      <3>4. \A s \in Runs \ {r} : run'[s] = run[s]
        BY <1>0, <3>1
      <3>5. (Steady => run'[r].reached = Base) /\ \A u \in Base : Reached(r, u)'
        <4>1. (Steady => R.reached = Base) /\ \A u \in Base : Reached(r, u)
          BY <3>3 DEF StoredInv, ItemsReached, SentStored
        <4>2. Committed' = Committed
          BY <3>3 DEF Committed
        <4>. QED
          BY <3>2, <3>3, <4>1, <4>2 DEF Reached
      <3>6. \A k \in flushed'[r] : run'[r].pc \in {"targets", "insert"} /\ k[1] = run'[r].item
        BY <1>0, <3>2, <3>3 DEF FlushedOfItem
      <3>. QED
        BY <2>a, <3>3, <3>4, <3>5, <3>6
    <2>7. CASE Insert(r) \/ Conflict(r)
      <3>1. /\ run' = [run EXCEPT ![r].pc = "targets"] /\ R.pc = "insert"
            /\ UNCHANGED <<table, active, sent>>
        BY <2>7 DEF Insert, Conflict
      <3>2. /\ run'[r].pc = "targets" /\ run'[r].item = R.item
            /\ run'[r].reached = R.reached /\ run'[r].targets = R.targets
        BY <1>0, <2>0, <3>1 DEF RunStates
      <3>3. PICK v \in Users : R.key = <<R.item, v>>
        BY <2>t, <3>1 DEF AtItem
      <3>4. \A s \in Runs \ {r} : run'[s] = run[s] /\ flushed'[s] = flushed[s]
        BY <1>0, <2>7, <3>1 DEF Insert, Conflict
      <3>5. Committed' = Committed
        BY <3>1 DEF Committed
      <3>6. (Steady => R.reached = Base) /\ \A u \in Base : Reached(r, u)
        BY <3>1 DEF StoredInv, ItemsReached, SentStored
      <3>7. CASE Insert(r)
        <4>1. flushed'[r] = flushed[r] \union {R.key}
          BY <1>0, <3>7 DEF Insert
        <4>2. \A k \in flushed'[r] : k[1] = R.item
          BY <1>0, <3>3, <4>1 DEF FlushedOfItem
        <4>3. \A u \in Base : Reached(r, u)'
          BY <3>2, <3>5, <3>6, <4>1 DEF Reached
        <4>. QED
          BY <2>a, <3>1, <3>2, <3>4, <3>6, <4>2, <4>3
      <3>8. CASE Conflict(r)
        <4>1. flushed'[r] = {} /\ R.key \in Committed
          BY <1>0, <3>8 DEF Conflict
        <4>2. \A u \in Base : <<R.item, u>> \in Committed
          BY <3>3, <4>1 DEF StoredInv, WholeItems
        <4>3. \A u \in Base : Reached(r, u)'
          BY <3>2, <3>5, <4>2 DEF Reached
        <4>. QED
          BY <2>a, <3>1, <3>2, <3>4, <3>6, <4>1, <4>3
      <3>. QED
        BY <2>7, <3>7, <3>8
    <2>8. CASE Commit(r)
      <3>1. /\ R.pc = "targets" /\ R.targets = {} /\ UNCHANGED active
            /\ table' = table \union {[key |-> k, by |-> r] : k \in flushed[r]}
            /\ flushed' = [flushed EXCEPT ![r] = {}]
            /\ sent' = [sent EXCEPT ![r] = @ \union ({R.item} \X R.reached)]
            /\ run' = [run EXCEPT ![r].pc = "items"]
        BY <2>8 DEF Commit
      <3>2. Committed' = Committed \union flushed[r]
        BY <3>1, CommittedGrows
      <3>3. \A s \in Runs \ {r} : run'[s] = run[s] /\ flushed'[s] = flushed[s] /\ sent'[s] = sent[s]
        BY <1>0, <3>1
      <3>4. run'[r].pc = "items" /\ flushed'[r] = {} /\ sent'[r] = sent[r] \union ({R.item} \X R.reached)
        BY <1>0, <2>0, <3>1 DEF RunStates
      <3>5. FlushedOfItem'
        BY <1>0, <3>3, <3>4 DEF FlushedOfItem
      <3>6. WholeItems' /\ ItemsReached' /\ (Steady => SentStored')
        <4>1. WholeItems /\ ItemsReached /\ (Steady => SentStored)
          BY DEF StoredInv
        <4>2. \A u \in Base : <<R.item, u>> \in Committed'
          BY <3>1, <3>2, <4>1 DEF ItemsReached, Reached
        <4>3. WholeItems'
          BY <1>0, <3>2, <4>1, <4>2 DEF WholeItems, FlushedOfItem, Base
        <4>4. Steady => SentStored'
          BY <3>1, <3>2, <3>3, <3>4, <4>1, <4>2 DEF SentStored, Base
        <4>5. ItemsReached'
          BY <3>2, <3>3, <3>4, <4>1 DEF ItemsReached, Reached, Base
        <4>. QED
          BY <4>3, <4>4, <4>5
      <3>. QED
        BY <1>0, <3>1, <3>5, <3>6 DEF StoredInv, Steady, Base
    <2>. QED
      BY <1>3, <2>1, <2>2, <2>3, <2>4, <2>5, <2>6, <2>7, <2>8 DEF Step
  <1>. QED
    BY <1>1, <1>2, <1>3 DEF Next

LEMMA StoredAtFirst == Init => StoredInv
  BY NewcomersAssumption
     DEF Init, StoredInv, FlushedOfItem, Steady, WholeItems, ItemsReached, SentStored, Base,
         Committed, Start

(* While no user is activated, what a run reports as sent is stored, for any *)
(* number of runs that clash and are rolled back.                            *)
THEOREM ReportsAreStored == Spec => []ReportedIsStored
  <1>1. Init => StoredInv
    BY StoredAtFirst
  <1>2. TypeInv /\ StoredInv /\ [Next]_vars => StoredInv'
    BY StoredStep
  <1>3. StoredInv => ReportedIsStored
    BY DEF StoredInv, Steady, SentStored, ReportedIsStored, Base
  <1>. QED
    BY <1>1, <1>2, <1>3, TypedAlways, PTL DEF Spec

-----------------------------------------------------------------------------
(* A run that no fault and no deadlock has broken is done with the checks   *)
(* it has passed: what they found is stored for every user active all day.  *)
Whole(stored, i) == \A u \in Base : <<i, u>> \in stored

PassedOver(stored, c) == ~FilterRaises(c) => \A i \in Due[c] : Whole(stored, i)

Progressed(stored, x) ==
    /\ \A k \in DOMAIN CheckOrder :
          k < x.at \/ x.pc = "returned" => PassedOver(stored, CheckOrder[k])
    /\ x.pc \in {"items", "targets", "insert"} =>
          \A i \in Due[CheckOrder[x.at]] :
              i \in x.todo \/ Whole(stored, i) \/ (x.pc # "items" /\ i = x.item)

(* Deadlocks spare a run: the one that was waited for goes on. *)
DueInv ==
    /\ \A r \in Runs :
          /\ run[r].pc = "new" => run[r].at = 0
          /\ run[r].broken => run[r].pc \in {"check", "returned", "dead"}
          /\ ~run[r].broken => Progressed(Committed, run[r])
    /\ faults = 0 => \E r \in Runs : ~run[r].broken

LEMMA StoredMore ==
    ASSUME NEW stored, NEW more, stored \subseteq more, NEW x, Progressed(stored, x)
    PROVE  Progressed(more, x)
  BY DEF Progressed, PassedOver, Whole

LEMMA CommittedKept == ASSUME [Next]_vars PROVE Committed \subseteq Committed'
  <1>1. ASSUME UNCHANGED table PROVE Committed \subseteq Committed'
    BY <1>1 DEF Committed
  <1>2. ASSUME NEW r \in Runs, Commit(r) PROVE Committed \subseteq Committed'
    BY <1>2, CommittedGrows DEF Commit
  <1>. QED
    BY <1>1, <1>2 DEF vars, Next, Step, Begin, QueryRaises, Query, CheckDone, Notify, Select,
                      Insert, Conflict, Deadlock, Fault, Die, Swallow, Activate

(* A run that is through with its check has progressed when it goes on. *)
LEMMA NextProgressed ==
    ASSUME TypeOK, NEW r \in Runs, NEW stored, Progressed(stored, run[r]),
           run[r].at \in DOMAIN CheckOrder => PassedOver(stored, Check(r))
    PROVE  Progressed(stored, NextCheck(r)) /\ NextCheck(r).broken = run[r].broken
  <1>1. /\ run[r] \in RunStates /\ run[r].at \in 0 .. Len(CheckOrder)
        /\ DOMAIN CheckOrder = 1 .. Len(CheckOrder) /\ Len(CheckOrder) \in Nat
    BY OrderAssumption DEF TypeOK, RunStates
  <1>2. ASSUME NEW k \in DOMAIN CheckOrder, k <= run[r].at
        PROVE  PassedOver(stored, CheckOrder[k])
    BY <1>1, <1>2 DEF Progressed, Check
  <1>3. CASE run[r].at < Len(CheckOrder)
    <2>1. /\ NextCheck(r).pc = "check" /\ NextCheck(r).at = run[r].at + 1
          /\ NextCheck(r).broken = run[r].broken
      BY <1>1, <1>3 DEF NextCheck, RunStates
    <2>. QED
      BY <1>1, <1>2, <2>1 DEF Progressed
  <1>4. CASE ~(run[r].at < Len(CheckOrder))
    <2>1. /\ NextCheck(r).pc = "returned" /\ NextCheck(r).broken = run[r].broken
      BY <1>1, <1>4 DEF NextCheck, RunStates
    <2>. QED
      BY <1>1, <1>2, <1>4, <2>1 DEF Progressed
  <1>. QED
    BY <1>3, <1>4

(* A step of run r that does not break it. *)
LEMMA DueMoves ==
    ASSUME TypeInv, DueInv, [Next]_vars, NEW r \in Runs, NEW x,
           run' = [run EXCEPT ![r] = x], x.pc # "new", x.broken = run[r].broken,
           x.broken => x.pc \in {"check", "returned", "dead"},
           ~x.broken => Progressed(Committed', x),
           faults' = 0 => faults = 0
    PROVE  DueInv'
  <1>1. \A s \in Runs : run'[s] = IF s = r THEN x ELSE run[s]
    BY DEF TypeInv, TypeOK
  <1>2. \A s \in Runs \ {r} : ~run[s].broken => Progressed(Committed', run[s])
    BY CommittedKept, StoredMore DEF DueInv
  <1>. QED
    BY <1>1, <1>2 DEF DueInv

LEMMA DueStep == ASSUME TypeInv, StoredInv, DueInv, [Next]_vars PROVE DueInv'
  <1>0. /\ TypeOK /\ run \in [Runs -> RunStates] /\ faults \in Nat
        /\ Committed \subseteq Committed'
    BY FaultsAssumption, CommittedKept DEF TypeInv, TypeOK
  <1>1. ASSUME UNCHANGED <<run, table, faults>> PROVE DueInv'
    BY <1>1 DEF DueInv, Committed
  <1>2. ASSUME NEW r \in Runs, Step(r) \/ Fault(r) \/ Die(r) PROVE DueInv'
    <2>. DEFINE R == run[r]
    <2>0. /\ R \in RunStates /\ R.at \in 0 .. Len(CheckOrder) /\ Len(CheckOrder) \in Nat
          /\ R.pc = "new" => R.at = 0
          /\ R.broken => R.pc \in {"check", "returned", "dead"}
          /\ ~R.broken => Progressed(Committed', R)
      BY <1>0, OrderAssumption, StoredMore DEF DueInv, RunStates
    <2>1. CASE Begin(r) \/ QueryRaises(r) \/ CheckDone(r)
      <3>1. run' = [run EXCEPT ![r] = NextCheck(r)] /\ faults' = faults
        BY <2>1 DEF Begin, QueryRaises, CheckDone
      <3>2. NextCheck(r).pc \in {"check", "returned"} /\ NextCheck(r).broken = R.broken
        BY <1>0, <2>0, NextCheckTyped DEF NextCheck, RunStates
      <3>3. ASSUME ~R.broken, R.at \in DOMAIN CheckOrder PROVE PassedOver(Committed', Check(r))
        <4>1. CASE Begin(r)
          BY <2>0, <3>3, <4>1, OrderAssumption DEF Begin
        <4>2. CASE QueryRaises(r)
          BY <3>3, <4>2 DEF QueryRaises, PassedOver
        <4>3. CASE CheckDone(r)
          BY <2>0, <3>3, <4>3 DEF CheckDone, Progressed, PassedOver, Check
        <4>. QED
          BY <2>1, <4>1, <4>2, <4>3
      <3>4. ~R.broken => Progressed(Committed', NextCheck(r))
        BY <1>0, <2>0, <3>3, NextProgressed
      <3>. QED
        BY <3>1, <3>2, <3>4, DueMoves
    <2>2. CASE Query(r)
      <3>. DEFINE x == [R EXCEPT !.pc = "items", !.todo = Due[Check(r)]]
      <3>1. /\ run' = [run EXCEPT ![r] = x] /\ x.pc = "items" /\ x.broken = R.broken
            /\ x.at = R.at /\ x.todo = Due[CheckOrder[R.at]] /\ ~R.broken /\ faults' = faults
        BY <2>2, <2>0, <1>0 DEF Query, RunStates, Check
      <3>2. Progressed(Committed', x)
        BY <2>2, <2>0, <3>1 DEF Progressed, Query
      <3>. HIDE DEF x
      <3>. QED
        BY <3>1, <3>2, DueMoves
    <2>3. CASE Notify(r)
      <3>1. PICK i \in R.todo :
              run' = [run EXCEPT ![r].pc = "targets", ![r].item = i, ![r].todo = @ \ {i},
                                 ![r].targets = active, ![r].reached = active]
        BY <2>3 DEF Notify
      <3>. DEFINE x == [R EXCEPT !.pc = "targets", !.item = i, !.todo = @ \ {i},
                                 !.targets = active, !.reached = active]
      <3>2. /\ run' = [run EXCEPT ![r] = x] /\ x.pc = "targets" /\ x.broken = R.broken
            /\ x.at = R.at /\ x.todo = R.todo \ {i} /\ x.item = i
        BY <3>1, <2>0, <1>0 DEF RunStates
      <3>3. R.pc = "items" /\ ~R.broken /\ faults' = faults
        BY <2>3, <2>0 DEF Notify
      <3>4. Progressed(Committed', x)
        BY <2>0, <3>2, <3>3 DEF Progressed
      <3>. HIDE DEF x
      <3>. QED
        BY <3>2, <3>3, <3>4, DueMoves
    <2>4. CASE Select(r) \/ Insert(r) \/ Conflict(r)
      <3>1. PICK x : /\ run' = [run EXCEPT ![r] = x] /\ x.pc \in {"targets", "insert"}
                     /\ x.broken = R.broken /\ x.at = R.at /\ x.todo = R.todo /\ x.item = R.item
        <4>1. CASE Select(r)
          <5>1. PICK v \in R.targets :
                  run' = [run EXCEPT ![r].targets = @ \ {v}, ![r].key = <<R.item, v>>,
                            ![r].pc = IF <<R.item, v>> \in Committed \union flushed[r]
                                        THEN "targets" ELSE "insert"]
            BY <4>1 DEF Select
          <5>. DEFINE p == IF <<R.item, v>> \in Committed \union flushed[r]
                             THEN "targets" ELSE "insert"
                      y == [R EXCEPT !.targets = @ \ {v}, !.key = <<R.item, v>>, !.pc = p]
          <5>2. run' = [run EXCEPT ![r] = y] /\ p \in {"targets", "insert"}
            BY <5>1
          <5>. HIDE DEF p
          <5>3. /\ y.pc = p /\ y.broken = R.broken /\ y.at = R.at
                /\ y.todo = R.todo /\ y.item = R.item
            BY <2>0 DEF RunStates
          <5>. HIDE DEF y
          <5>. QED
            BY <5>2, <5>3
        <4>2. CASE Insert(r) \/ Conflict(r)
          <5>. DEFINE y == [R EXCEPT !.pc = "targets"]
          <5>1. run' = [run EXCEPT ![r] = y]
            BY <4>2 DEF Insert, Conflict
          <5>2. /\ y.pc = "targets" /\ y.broken = R.broken /\ y.at = R.at
                /\ y.todo = R.todo /\ y.item = R.item
            BY <2>0 DEF RunStates
          <5>. HIDE DEF y
          <5>. QED
            BY <5>1, <5>2
        <4>. QED
          BY <2>4, <4>1, <4>2
      <3>2. R.pc \in {"targets", "insert"} /\ ~R.broken /\ faults' = faults
        BY <2>4, <2>0 DEF Select, Insert, Conflict
      <3>3. Progressed(Committed', x)
        BY <2>0, <3>1, <3>2 DEF Progressed
      <3>. QED
        BY <3>1, <3>2, <3>3, DueMoves
    <2>5. CASE Commit(r)
      <3>. DEFINE x == [R EXCEPT !.pc = "items"]
      <3>1. /\ run' = [run EXCEPT ![r] = x] /\ R.pc = "targets" /\ R.targets = {}
            /\ table' = table \union {[key |-> k, by |-> r] : k \in flushed[r]}
            /\ faults' = faults /\ ~R.broken
        BY <2>5, <2>0 DEF Commit
      <3>2. /\ x.pc = "items" /\ x.broken = R.broken /\ x.at = R.at
            /\ x.todo = R.todo /\ x.item = R.item
        BY <2>0 DEF RunStates
      <3>3. Committed' = Committed \union flushed[r]
        BY <3>1, CommittedGrows
      <3>4. Whole(Committed', R.item)
        BY <3>1, <3>3 DEF StoredInv, ItemsReached, Reached, Whole
      <3>5. Progressed(Committed', x)
        BY <2>0, <3>1, <3>2, <3>4 DEF Progressed
      <3>. HIDE DEF x
      <3>. QED
        BY <3>1, <3>2, <3>5, DueMoves
    <2>6. CASE Deadlock(r)
      <3>1. PICK t \in Runs : t # r /\ run[t].pc = "insert"
        BY <2>6 DEF Deadlock, WaitsFor
      <3>2. ~run[t].broken
        BY <3>1 DEF DueInv
      <3>. DEFINE x == [NextCheck(r) EXCEPT !.broken = TRUE]
      <3>3. /\ \A s \in Runs : run'[s] = IF s = r THEN x ELSE run[s]
            /\ UNCHANGED <<table, faults>>
        BY <1>0, <2>6 DEF Deadlock, Swallow
      <3>4. x.pc \in {"check", "returned"} /\ x.broken
        BY <1>0, NextCheckTyped DEF RunStates
      <3>. HIDE DEF x
      <3>. QED
        BY <3>1, <3>2, <3>3, <3>4 DEF DueInv, Committed
    <2>7. CASE Fault(r)
      <3>. DEFINE x == [NextCheck(r) EXCEPT !.broken = TRUE]
      <3>1. /\ \A s \in Runs : run'[s] = IF s = r THEN x ELSE run[s]
            /\ UNCHANGED table
        BY <1>0, <2>7 DEF Fault, Swallow
      <3>2. x.pc \in {"check", "returned"} /\ x.broken
        BY <1>0, NextCheckTyped DEF RunStates
      <3>3. faults' # 0
        BY <1>0, <2>7 DEF Fault
      <3>. HIDE DEF x
      <3>. QED
        BY <3>1, <3>2, <3>3 DEF DueInv, Committed
    <2>8. CASE Die(r)
      <3>. DEFINE x == [R EXCEPT !.pc = "dead"]
      <3>1. run' = [run EXCEPT ![r] = x] /\ faults' # 0
        BY <1>0, <2>8 DEF Die
      <3>2. x.pc = "dead" /\ x.broken = R.broken /\ x.at = R.at
        BY <2>0 DEF RunStates
      <3>3. ~x.broken => Progressed(Committed', x)
        BY <2>0, <3>2 DEF Progressed
      <3>. HIDE DEF x
      <3>. QED
        BY <3>1, <3>2, <3>3, DueMoves
    <2>. QED
      BY <1>2, <2>1, <2>2, <2>3, <2>4, <2>5, <2>6, <2>7, <2>8 DEF Step
  <1>. QED
    BY <1>1, <1>2 DEF Next, Activate, vars

(* Once the runs of a day without faults have returned, every user active   *)
(* all day has been told of every due item of a check that can query,       *)
(* however often the runs deadlocked.                                       *)
THEOREM EverybodyTold == ASSUME Runs # {} PROVE Spec => []DueNotified
  <1>1. Init => DueInv
    BY OrderAssumption DEF Init, Start, DueInv, Progressed
  <1>2. Init => StoredInv
    BY StoredAtFirst
  <1>3. DueInv => DueNotified
    <2>. SUFFICES ASSUME DueInv, AllReturned, faults = 0, NEW c \in Checks, ~FilterRaises(c),
                         NEW i \in Due[c], NEW u \in Users \ Newcomers
                  PROVE  <<i, u>> \in Committed
      BY DEF DueNotified, AllNotified
    <2>1. PICK r \in Runs : ~run[r].broken
      BY DEF DueInv
    <2>2. PICK k \in DOMAIN CheckOrder : c = CheckOrder[k]
      BY DEF Checks
    <2>3. PassedOver(Committed, CheckOrder[k])
      BY <2>1 DEF DueInv, Progressed, AllReturned
    <2>. QED
      BY <2>2, <2>3 DEF PassedOver, Whole, Base
  <1>4. TypeInv /\ StoredInv /\ [Next]_vars => StoredInv'
    BY StoredStep
  <1>5. TypeInv /\ StoredInv /\ DueInv /\ [Next]_vars => DueInv'
    BY DueStep
  <1>. QED
    BY <1>1, <1>2, <1>3, <1>4, <1>5, TypedAlways, PTL DEF Spec

=============================================================================
