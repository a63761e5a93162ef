------------------------- MODULE RecordKinds_proofs -------------------------
(***************************************************************************)
(* What requests that read, compute and commit rows preserve, for any kind *)
(* of entity and any rows that its handlers keep to; and that the handlers *)
(* of the training records, governance, assessments, controls, risk runs,  *)
(* programs, transfers, customer profiles, subscriptions and payments keep *)
(* to theirs.                                                              *)
(***************************************************************************)
EXTENDS Records, TLAPS, SequenceTheorems, FiniteSetTheorems, WellFoundedInduction

(* Rows are by entity and requests by name; a request is idle, at a later     *)
(* transaction, one of the stops, or about to commit.                         *)
Shape(r, stops) ==
    \/ r = Idle
    \/ r \in [pc : stops, of : Entities]
    \/ /\ r.of \in Entities
       /\ r.then \in {"idle"} \union stops
       /\ r = [pc |-> "save", of |-> r.of, seen |-> r.seen, new |-> r.new, then |-> r.then]

WellFormed(stops) ==
    /\ rows = [e \in Entities |-> rows[e]]
    /\ req = [q \in Requests |-> req[q]]
    /\ \A q \in Requests : Shape(req[q], stops)

(* The rows of the entities E, and what requests have read of them and are    *)
(* going to commit, are of the type Rs.                                       *)
Typed(E, Rs) ==
    /\ \A e \in E : rows[e] \in Rs
    /\ \A q \in Requests :
         req[q].pc = "save" /\ req[q].of \in E => req[q].seen \in Rs /\ req[q].new \in Rs

(* They are good rows as long as no outdated copy of them was committed, and  *)
(* what requests are going to commit is good where what they read was.        *)
Sound(E, Good) ==
    /\ \A e \in E \ raced : rows[e] \in Good
    /\ \A q \in Requests :
         /\ req[q].pc = "save"
         /\ req[q].of \in E
         /\ req[q].seen \in Good
         => req[q].new \in Good

(* An UPDATE of some columns of a row leaves a row.                           *)
ByColumn(Rs) == \A now, seen, new \in Rs : Written(now, seen, new) \in Rs

(* Nobody else is at work, and the rows of e are written at once: time goes   *)
(* by, or a job runs over them.                                               *)
Direct(e, new) ==
    /\ Touch(e)
    /\ rows' = [rows EXCEPT ![e] = new]
    /\ UNCHANGED <<req, raced>>

(* How a handler ends: with the new rows of its entity.                       *)
Ends(q, e, new, stops) ==
    \/ Handle(q, e, new)
    \/ \E then \in {"idle"} \union stops : Save(q, e, new, then)
    \/ Direct(e, new)

Writes(q, e, stops) == \E new : Ends(q, e, new, stops)

WritesGood(q, e, Rs, Good, stops) ==
    \E new : /\ Ends(q, e, new, stops)
             /\ rows[e] \in Rs => new \in Rs
             /\ rows[e] \in Good => new \in Good

-----------------------------------------------------------------------------
LEMMA WritesGoodWrites ==
    ASSUME NEW q, NEW e, NEW Rs, NEW Good, NEW stops, WritesGood(q, e, Rs, Good, stops)
    PROVE  Writes(q, e, stops)
BY DEF Writes, WritesGood

(* What a step of a handler changes: the rows of its entity, or its own place *)
(* among the requests.                                                        *)
Saved(q, e, new, then) ==
    [pc |-> "save", of |-> e, seen |-> rows[e], new |-> new, then |-> then]

LEMMA EndsChanges ==
    ASSUME NEW q \in Requests, NEW e \in Entities, NEW new, NEW stops, Ends(q, e, new, stops)
    PROVE  /\ raced' = raced
           /\ touched' = touched \union {e}
           /\ \/ /\ rows' = [rows EXCEPT ![e] = new]
                 /\ req' = req
              \/ /\ rows' = rows
                 /\ \E then \in {"idle"} \union stops :
                      req' = [req EXCEPT ![q] = Saved(q, e, new, then)]
<1>1. CASE Handle(q, e, new)
  BY <1>1 DEF Handle, Save, Saved, Touch
<1>2. CASE \E then \in {"idle"} \union stops : Save(q, e, new, then)
  BY <1>2 DEF Save, Saved, Touch
<1>3. CASE Direct(e, new)
  BY <1>3 DEF Direct, Touch
<1> QED
  BY <1>1, <1>2, <1>3 DEF Ends

LEMMA WritesWellFormed ==
    ASSUME NEW stops, WellFormed(stops), NEW q \in Requests, NEW e \in Entities,
           Writes(q, e, stops)
    PROVE  WellFormed(stops)'
<1>1. PICK new : Ends(q, e, new, stops)
  BY DEF Writes
<1>2. CASE rows' = [rows EXCEPT ![e] = new] /\ req' = req
  BY <1>2 DEF WellFormed, Shape
<1>3. ASSUME NEW then \in {"idle"} \union stops, rows' = rows,
             req' = [req EXCEPT ![q] = Saved(q, e, new, then)]
      PROVE  WellFormed(stops)'
  <2>1. Shape(Saved(q, e, new, then), stops)
    BY DEF Saved, Shape
  <2>2. \A p \in Requests : req'[p] = IF p = q THEN Saved(q, e, new, then) ELSE req[p]
    BY <1>3 DEF WellFormed
  <2>3. \A p \in Requests : Shape(req'[p], stops)
    BY <2>1, <2>2 DEF WellFormed
  <2>4. req' = [p \in Requests |-> req'[p]]
    BY <1>3 DEF WellFormed
  <2> QED
    BY <1>3, <2>3, <2>4 DEF WellFormed, Shape
<1> QED
  BY <1>1, <1>2, <1>3, EndsChanges

(* A handler of an entity of another kind.                                    *)
LEMMA OthersKeep ==
    ASSUME NEW E, NEW Rs, NEW Good, NEW stops, WellFormed(stops),
           NEW q \in Requests, NEW e \in Entities \ E, Writes(q, e, stops)
    PROVE  /\ Typed(E, Rs) => Typed(E, Rs)'
           /\ Sound(E, Good) => Sound(E, Good)'
<1>1. PICK new : Ends(q, e, new, stops)
  BY DEF Writes
<1>2. CASE rows' = [rows EXCEPT ![e] = new] /\ req' = req
  <2>1. \A f \in E : rows'[f] = rows[f]
    BY <1>2 DEF WellFormed
  <2> QED
    BY <1>1, <1>2, <2>1, EndsChanges DEF Typed, Sound
<1>3. ASSUME NEW then, rows' = rows, req' = [req EXCEPT ![q] = Saved(q, e, new, then)]
      PROVE  /\ Typed(E, Rs) => Typed(E, Rs)'
             /\ Sound(E, Good) => Sound(E, Good)'
  <2>1. \A p \in Requests : p # q => req'[p] = req[p]
    BY <1>3 DEF WellFormed
  <2>2. req'[q].of = e
    BY <1>3 DEF WellFormed, Saved
  <2>3. \A p \in Requests : req'[p].of \in E => req'[p] = req[p]
    BY <2>1, <2>2
  <2> QED
    BY <1>1, <1>3, <2>3, EndsChanges DEF Typed, Sound
<1> QED
  BY <1>1, <1>2, <1>3, EndsChanges

(* A handler that writes good rows when it reads good ones.                   *)
LEMMA GoodKeep ==
    ASSUME NEW E, NEW Rs, NEW Good, NEW stops, E \subseteq Entities, WellFormed(stops),
           NEW q \in Requests, NEW e \in E, WritesGood(q, e, Rs, Good, stops)
    PROVE  /\ Typed(E, Rs) => Typed(E, Rs)'
           /\ Sound(E, Good) => Sound(E, Good)'
<1>1. PICK new : /\ Ends(q, e, new, stops)
                 /\ rows[e] \in Rs => new \in Rs
                 /\ rows[e] \in Good => new \in Good
  BY DEF WritesGood
<1>2. CASE rows' = [rows EXCEPT ![e] = new] /\ req' = req
  <2>1. \A f \in E : rows'[f] = IF f = e THEN new ELSE rows[f]
    BY <1>2 DEF WellFormed
  <2> QED
    BY <1>1, <1>2, <2>1, EndsChanges DEF Typed, Sound
<1>3. ASSUME NEW then, rows' = rows, req' = [req EXCEPT ![q] = Saved(q, e, new, then)]
      PROVE  /\ Typed(E, Rs) => Typed(E, Rs)'
             /\ Sound(E, Good) => Sound(E, Good)'
  <2>1. \A p \in Requests : p # q => req'[p] = req[p]
    BY <1>3 DEF WellFormed
  <2>2. req'[q].seen = rows[e] /\ req'[q].new = new
    BY <1>3 DEF WellFormed, Saved
  <2>3. ASSUME Typed(E, Rs)
        PROVE  \A p \in Requests : req'[p].pc = "save" /\ req'[p].of \in E
                 => req'[p].seen \in Rs /\ req'[p].new \in Rs
    BY <1>1, <2>1, <2>2, <2>3 DEF Typed
  <2>4. ASSUME Sound(E, Good)
        PROVE  \A p \in Requests :
                 /\ req'[p].pc = "save"
                 /\ req'[p].of \in E
                 /\ req'[p].seen \in Good
                 => req'[p].new \in Good
    BY <1>1, <2>1, <2>2, <2>4 DEF Sound
  <2>5. raced' = raced
    BY <1>1, EndsChanges
  <2> QED
    BY <1>3, <2>3, <2>4, <2>5 DEF Typed, Sound
<1> QED
  BY <1>1, <1>2, <1>3, EndsChanges

-----------------------------------------------------------------------------
(* What is done after the commit is a later transaction, or nothing.          *)
LEMMA CommitsTo ==
    ASSUME NEW stops, stops \intersect {"save", "idle"} = {}, WellFormed(stops),
           NEW q \in Requests, Commit(q)
    PROVE  /\ req[q].of \in Entities
           /\ req'[q].pc # "save"
           /\ \A p \in Requests \ {q} : req'[p] = req[p]
           /\ WellFormed(stops)'
<1> DEFINE after == IF req[q].then = "idle" THEN Idle
                    ELSE [pc |-> req[q].then, of |-> req[q].of]
<1>1. /\ req[q].pc = "save"
      /\ req[q].of \in Entities
      /\ req[q].then \in {"idle"} \union stops
  BY DEF Commit, WellFormed, Shape, Idle
<1>2. /\ req' = [req EXCEPT ![q] = after]
      /\ rows' = [e \in Entities |-> rows'[e]]
  BY DEF Commit, WellFormed
<1>3. Shape(after, stops) /\ after.pc # "save"
  BY <1>1 DEF Shape, Idle
<1> HIDE DEF after
<1>4. \A p \in Requests : req'[p] = IF p = q THEN after ELSE req[p]
  BY <1>2 DEF WellFormed
<1>5. req' = [p \in Requests |-> req'[p]]
  BY <1>2 DEF WellFormed
<1>6. \A p \in Requests : Shape(req'[p], stops)
  BY <1>3, <1>4 DEF WellFormed
<1>7. WellFormed(stops)'
  BY <1>2, <1>5, <1>6 DEF WellFormed, Shape
<1> QED
  BY <1>1, <1>3, <1>4, <1>7

(* A commit of what was read from the rows that are still there is good; one  *)
(* of an outdated copy leaves nothing to keep but the types.                  *)
LEMMA CommitKeeps ==
    ASSUME NEW E, NEW Rs, NEW Good, NEW stops, E \subseteq Entities, ByColumn(Rs),
           stops \intersect {"save", "idle"} = {}, WellFormed(stops),
           NEW q \in Requests, Commit(q)
    PROVE  /\ Typed(E, Rs) => Typed(E, Rs)'
           /\ Sound(E, Good) => Sound(E, Good)'
<1> DEFINE f == req[q].of
<1>1. /\ f \in Entities
      /\ req[q].pc = "save"
      /\ \A p \in Requests : req'[p].pc = "save" => req'[p] = req[p]
  BY CommitsTo DEF Commit
<1>2. \A e \in Entities :
        rows'[e] = IF e # f THEN rows[e]
                   ELSE IF req[q].seen = rows[e] THEN req[q].new
                   ELSE Written(rows[e], req[q].seen, req[q].new)
  BY DEF Commit, WellFormed
<1>3. raced \subseteq raced' /\ (req[q].seen # rows[f] => f \in raced')
  BY DEF Commit
<1>4. ASSUME Typed(E, Rs), NEW e \in E
      PROVE  rows'[e] \in Rs
  BY <1>1, <1>2, <1>4 DEF Typed, ByColumn
<1>5. ASSUME Sound(E, Good), NEW e \in E \ raced'
      PROVE  rows'[e] \in Good
  BY <1>1, <1>2, <1>3, <1>5 DEF Sound
<1> HIDE DEF f
<1>6. Typed(E, Rs) => Typed(E, Rs)'
  BY <1>1, <1>4 DEF Typed
<1>7. Sound(E, Good) => Sound(E, Good)'
  BY <1>1, <1>5 DEF Sound
<1> QED
  BY <1>6, <1>7

LEMMA LoseKeeps ==
    ASSUME NEW E, NEW Rs, NEW Good, NEW stops, WellFormed(stops), NEW q \in Requests, Lose(q)
    PROVE  /\ WellFormed(stops)'
           /\ Typed(E, Rs) => Typed(E, Rs)'
           /\ Sound(E, Good) => Sound(E, Good)'
<1>1. \A p \in Requests : req'[p] = IF p = q THEN Idle ELSE req[p]
  BY DEF Lose, WellFormed
<1>2. \A p \in Requests : req'[p].pc = "save" => req'[p] = req[p]
  BY <1>1 DEF Idle
<1>3. req' = [p \in Requests |-> req'[p]]
  BY DEF Lose, WellFormed
<1>4. WellFormed(stops)'
  BY <1>1, <1>3 DEF Lose, WellFormed, Shape
<1> QED
  BY <1>2, <1>4 DEF Lose, Typed, Sound

LEMMA StutterKeeps ==
    ASSUME NEW E, NEW Rs, NEW Good, NEW stops, WellFormed(stops),
           UNCHANGED <<rows, req, raced>>
    PROVE  /\ WellFormed(stops)'
           /\ Typed(E, Rs) => Typed(E, Rs)'
           /\ Sound(E, Good) => Sound(E, Good)'
BY DEF WellFormed, Shape, Typed, Sound

(* At the start all rows are those of the start, and there are no requests.   *)
LEMMA StartKeeps ==
    ASSUME NEW E, NEW Rs, NEW Good, NEW stops, RequestsInit,
           \A e \in E : rows[e] \in Rs /\ rows[e] \in Good
    PROVE  Typed(E, Rs) /\ Sound(E, Good)
BY DEF RequestsInit, Typed, Sound, Idle

-----------------------------------------------------------------------------
(* The later transactions of the requests that have more than one.            *)
Stops == Links \union Logging
KeepsTo(q, e, Rs, Good) == WritesGood(q, e, Rs, Good, Stops)

LEMMA StopsApart == Stops \intersect {"save", "idle"} = {}
BY DEF Stops, Links, Logging, ToLog, Decisions

LEMMA HandleKeeps ==
    ASSUME NEW q, NEW e, NEW new, NEW Rs, NEW Good, Handle(q, e, new),
           rows[e] \in Rs => new \in Rs,
           rows[e] \in Good => new \in Good
    PROVE  KeepsTo(q, e, Rs, Good)
BY DEF KeepsTo, WritesGood, Ends

LEMMA DirectKeeps ==
    ASSUME NEW q, NEW e, NEW new, NEW Rs, NEW Good, Direct(e, new),
           rows[e] \in Rs => new \in Rs,
           rows[e] \in Good => new \in Good
    PROVE  KeepsTo(q, e, Rs, Good)
BY DEF KeepsTo, WritesGood, Ends

LEMMA SaveKeeps ==
    ASSUME NEW q, NEW e, NEW new, NEW then \in {"idle"} \union Stops, NEW Rs, NEW Good,
           Save(q, e, new, then),
           rows[e] \in Rs => new \in Rs,
           rows[e] \in Good => new \in Good
    PROVE  KeepsTo(q, e, Rs, Good)
BY DEF KeepsTo, WritesGood, Ends

-----------------------------------------------------------------------------
(* What holds of the rows of the entities E also where outdated copies are    *)
(* committed: the rows are Good, what a request has read and is going to      *)
(* write Fits the rows as they are now, and what two requests are going to    *)
(* write to one entity is kept Apart.                                         *)
Saving(q) == req[q].pc = "save"

Held(E, Good, Fits, Apart) ==
    /\ \A e \in E : rows[e] \in Good
    /\ \A q \in Requests :
         Saving(q) /\ req[q].of \in E => <<rows[req[q].of], req[q].seen, req[q].new>> \in Fits
    /\ \A p, q \in Requests :
         Saving(p) /\ Saving(q) /\ p # q /\ req[p].of = req[q].of /\ req[p].of \in E
           => <<req[p].seen, req[p].new, req[q].seen, req[q].new>> \in Apart

(* The rows after a commit of "new", which was computed from "seen".          *)
Committed(now, seen, new) == IF seen = now THEN new ELSE Written(now, seen, new)

(* A commit that fits leaves good rows, and what is apart from it fits them.  *)
Closed(Good, Fits, Apart) ==
    \A now, seen, new :
      now \in Good /\ <<now, seen, new>> \in Fits
        => /\ Committed(now, seen, new) \in Good
           /\ \A s, n : <<now, s, n>> \in Fits /\ <<s, n, seen, new>> \in Apart
                          => <<Committed(now, seen, new), s, n>> \in Fits

Symmetric(Apart) ==
    \A s, n, seen, new : <<s, n, seen, new>> \in Apart => <<seen, new, s, n>> \in Apart

(* A request that has read the rows of e and is going to write "new".         *)
Joins(q, e, new, Fits, Apart) ==
    /\ ~Saving(q)
    /\ <<rows[e], rows[e], new>> \in Fits
    /\ \A p \in Requests : Saving(p) /\ req[p].of = e => <<req[p].seen, req[p].new, rows[e], new>> \in Apart

LEMMA JoinKeeps ==
    ASSUME NEW E, E \subseteq Entities, NEW Good, NEW Fits, NEW Apart, NEW stops,
           WellFormed(stops), Held(E, Good, Fits, Apart),
           Closed(Good, Fits, Apart), Symmetric(Apart),
           NEW q \in Requests, NEW e \in E, NEW new, Ends(q, e, new, stops),
           Joins(q, e, new, Fits, Apart)
    PROVE  Held(E, Good, Fits, Apart)'
<1>1. CASE rows' = [rows EXCEPT ![e] = new] /\ req' = req
  <2>1. \A f \in E : rows'[f] = IF f = e THEN new ELSE rows[f]
    BY <1>1 DEF WellFormed
  <2>2. Committed(rows[e], rows[e], new) = new
    BY DEF Committed
  <2>3. new \in Good
    BY <2>2 DEF Held, Closed, Joins
  <2>4. ASSUME NEW p \in Requests, Saving(p), req[p].of = e
        PROVE  <<new, req[p].seen, req[p].new>> \in Fits
    BY <2>2, <2>4 DEF Held, Closed, Joins
  <2> QED
    BY <1>1, <2>1, <2>3, <2>4 DEF Held, Saving
<1>2. ASSUME NEW then, rows' = rows, req' = [req EXCEPT ![q] = Saved(q, e, new, then)]
      PROVE  Held(E, Good, Fits, Apart)'
  <2>1. \A p \in Requests : req'[p] = IF p = q THEN Saved(q, e, new, then) ELSE req[p]
    BY <1>2 DEF WellFormed
  <2>2. /\ req'[q].of = e /\ req'[q].seen = rows[e] /\ req'[q].new = new
        /\ \A p \in Requests \ {q} : req'[p] = req[p]
    BY <2>1 DEF Saved
  <2>3. \A f \in E : rows'[f] \in Good
    BY <1>2 DEF Held
  <2>4. ASSUME NEW p \in Requests, Saving(p)', req'[p].of \in E
        PROVE  <<rows'[req'[p].of], req'[p].seen, req'[p].new>> \in Fits
    BY <1>2, <2>2, <2>4 DEF Held, Joins, Saving
  <2>5. ASSUME NEW p \in Requests, NEW r \in Requests, Saving(p)', Saving(r)', p # r,
               req'[p].of = req'[r].of, req'[p].of \in E
        PROVE  <<req'[p].seen, req'[p].new, req'[r].seen, req'[r].new>> \in Apart
    <3>1. CASE p = q
      BY <2>2, <2>5, <3>1 DEF Joins, Symmetric, Saving
    <3>2. CASE r = q
      BY <2>2, <2>5, <3>2 DEF Joins, Saving
    <3>3. CASE p # q /\ r # q
      BY <2>2, <2>5, <3>3 DEF Held, Saving
    <3> QED
      BY <3>1, <3>2, <3>3
  <2> QED
    BY <2>3, <2>4, <2>5 DEF Held
<1> QED
  BY <1>1, <1>2, EndsChanges

LEMMA CommitHolds ==
    ASSUME NEW E, E \subseteq Entities, NEW Good, NEW Fits, NEW Apart, NEW stops,
           stops \intersect {"save", "idle"} = {}, WellFormed(stops),
           Held(E, Good, Fits, Apart), Closed(Good, Fits, Apart),
           NEW q \in Requests, Commit(q)
    PROVE  Held(E, Good, Fits, Apart)'
<1> DEFINE f == req[q].of
           done == Committed(rows[f], req[q].seen, req[q].new)
<1>1. /\ f \in Entities
      /\ Saving(q)
      /\ \A p \in Requests : Saving(p)' => p # q /\ Saving(p) /\ req'[p] = req[p]
  BY CommitsTo DEF Commit, Saving
<1>2. \A e \in Entities : rows'[e] = IF e = f THEN done ELSE rows[e]
  BY DEF Commit, WellFormed, Committed
<1>3. f \in E => <<rows[f], req[q].seen, req[q].new>> \in Fits /\ rows[f] \in Good
  BY <1>1 DEF Held
<1>4. ASSUME NEW e \in E
      PROVE  rows'[e] \in Good
  <2>1. CASE e = f
    BY <1>2, <1>3, <2>1 DEF Closed
  <2>2. CASE e # f
    BY <1>2, <2>2 DEF Held
  <2> QED
    BY <2>1, <2>2
<1>5. ASSUME NEW p \in Requests, Saving(p)', req'[p].of \in E
      PROVE  <<rows'[req'[p].of], req'[p].seen, req'[p].new>> \in Fits
  <2>1. /\ p # q /\ Saving(p) /\ req'[p] = req[p]
        /\ <<rows[req[p].of], req[p].seen, req[p].new>> \in Fits
    BY <1>1, <1>5 DEF Held
  <2>2. CASE req[p].of = f
    <3>1. <<req[p].seen, req[p].new, req[q].seen, req[q].new>> \in Apart
      BY <1>1, <1>5, <2>1, <2>2 DEF Held
    <3>2. <<done, req[p].seen, req[p].new>> \in Fits
      BY <1>3, <1>5, <2>1, <2>2, <3>1 DEF Closed
    <3> QED
      BY <1>1, <1>2, <2>1, <2>2, <3>2
  <2>3. CASE req[p].of # f
    BY <1>2, <1>5, <2>1, <2>3
  <2> QED
    BY <2>2, <2>3
<1>6. ASSUME NEW p \in Requests, NEW r \in Requests, Saving(p)', Saving(r)', p # r,
             req'[p].of = req'[r].of, req'[p].of \in E
      PROVE  <<req'[p].seen, req'[p].new, req'[r].seen, req'[r].new>> \in Apart
  BY <1>1, <1>6 DEF Held
<1> QED
  BY <1>4, <1>5, <1>6 DEF Held

(* A step of another kind of entity, a loss, and one that changes no rows.    *)
LEMMA OthersHold ==
    ASSUME NEW E, NEW Good, NEW Fits, NEW Apart, NEW stops, WellFormed(stops),
           Held(E, Good, Fits, Apart),
           NEW q \in Requests, NEW e \in Entities \ E, Writes(q, e, stops)
    PROVE  Held(E, Good, Fits, Apart)'
<1>1. PICK new : Ends(q, e, new, stops)
  BY DEF Writes
<1>2. CASE rows' = [rows EXCEPT ![e] = new] /\ req' = req
  <2>1. \A f \in E : rows'[f] = rows[f]
    BY <1>2 DEF WellFormed
  <2> QED
    BY <1>2, <2>1 DEF Held, Saving
<1>3. ASSUME NEW then, rows' = rows, req' = [req EXCEPT ![q] = Saved(q, e, new, then)]
      PROVE  Held(E, Good, Fits, Apart)'
  <2>1. \A p \in Requests : p # q => req'[p] = req[p]
    BY <1>3 DEF WellFormed
  <2>2. req'[q].of = e
    BY <1>3 DEF WellFormed, Saved
  <2>3. \A p \in Requests : req'[p].of \in E => req'[p] = req[p]
    BY <2>1, <2>2
  <2> QED
    BY <1>3, <2>3 DEF Held, Saving
<1> QED
  BY <1>1, <1>2, <1>3, EndsChanges

LEMMA LoseHolds ==
    ASSUME NEW E, NEW Good, NEW Fits, NEW Apart, NEW stops, WellFormed(stops),
           Held(E, Good, Fits, Apart), NEW q \in Requests, Lose(q)
    PROVE  Held(E, Good, Fits, Apart)'
<1>1. \A p \in Requests : req'[p] = IF p = q THEN Idle ELSE req[p]
  BY DEF Lose, WellFormed
<1>2. \A p \in Requests : Saving(p)' => Saving(p) /\ req'[p] = req[p]
  BY <1>1 DEF Idle, Saving
<1> QED
  BY <1>2 DEF Held, Lose

LEMMA StutterHolds ==
    ASSUME NEW E, NEW Good, NEW Fits, NEW Apart, Held(E, Good, Fits, Apart),
           UNCHANGED <<rows, req>>
    PROVE  Held(E, Good, Fits, Apart)'
BY DEF Held, Saving

LEMMA StartHolds ==
    ASSUME NEW E, NEW Good, NEW Fits, NEW Apart, RequestsInit, \A e \in E : rows[e] \in Good
    PROVE  Held(E, Good, Fits, Apart)
BY DEF RequestsInit, Held, Saving, Idle

-----------------------------------------------------------------------------
LEMMA SyncStatusType ==
    ASSUME NEW r \in TrainingRecordRow
    PROVE  SyncStatus(r) \in TrainingRecordRow
BY DEF SyncStatus, ComputeStatus, TrainingRecordRow, TrainingStatuses

LEMMA NewRecordType ==
    ASSUME NEW due \in Days
    PROVE  NewRecord(due) \in TrainingRecordRow
BY AttemptsAssumption DEF NewRecord, TrainingRecordRow, TrainingStatuses

LEMMA TrainingKeeps ==
    ASSUME NEW q, NEW e, TrainingRequest(q, e)
    PROVE  KeepsTo(q, e, TrainingRows, TrainingRows)
<1>1. ASSUME NEW t \in Cycles, NEW due \in Days, Insert(q, e, t, due)
      PROVE  KeepsTo(q, e, TrainingRows, TrainingRows)
  BY <1>1, NewRecordType, HandleKeeps DEF Insert, TrainingRows, Cycles
<1>2. ASSUME NEW t \in Cycles, NEW due \in Days, PublishRegulatoryUpdate(q, e, t, due)
      PROVE  KeepsTo(q, e, TrainingRows, TrainingRows)
  <2> DEFINE new == [rows[e] EXCEPT !.update.status = "published",
                    ![t] = IF Cooldown(e) THEN @ ELSE NewRecord(due)]
  <2>1. rows[e] \in TrainingRows => new \in TrainingRows
    BY NewRecordType DEF TrainingRows, Cycles
  <2> QED
    BY <1>2, <2>1, HandleKeeps DEF PublishRegulatoryUpdate
<1>3. ASSUME ArchiveRegulatoryUpdate(q, e)
      PROVE  KeepsTo(q, e, TrainingRows, TrainingRows)
  BY <1>3, HandleKeeps DEF ArchiveRegulatoryUpdate, TrainingRows, Cycles
<1>4. ASSUME NEW t \in Cycles, GetRecord(q, e, t)
      PROVE  KeepsTo(q, e, TrainingRows, TrainingRows)
  BY <1>4, SyncStatusType, HandleKeeps DEF GetRecord, TrainingRows, Cycles
<1>5. ASSUME ListRecords(q, e)
      PROVE  KeepsTo(q, e, TrainingRows, TrainingRows)
  BY <1>5, SyncStatusType, HandleKeeps DEF ListRecords, TrainingRows, Cycles
<1>6. ASSUME NEW t \in Cycles, StartTraining(q, e, t)
      PROVE  KeepsTo(q, e, TrainingRows, TrainingRows)
  <2> DEFINE mid == [rows[e] EXCEPT ![t].started = TRUE]
             new == [mid EXCEPT ![t].status = "in_progress"]
  <2>1. rows[e] \in TrainingRows => mid \in TrainingRows
    BY DEF TrainingRows, TrainingRecordRow, TrainingStatuses, Cycles
  <2>2. rows[e] \in TrainingRows => new \in TrainingRows
    <3> HIDE DEF mid
    <3> QED
      BY <2>1 DEF TrainingRows, TrainingRecordRow, TrainingStatuses, Cycles
  <2> QED
    BY <1>6, <2>2, HandleKeeps DEF StartTraining
<1>7. ASSUME NEW t \in Cycles, NEW passed \in {"yes", "no"},
            NEW expiry \in Days \union {"never"}, CompleteTraining(q, e, t, passed, expiry)
      PROVE  KeepsTo(q, e, TrainingRows, TrainingRows)
  <2> DEFINE mid == [rows[e][t] EXCEPT !.done = TRUE, !.passed = passed, !.expiry = expiry]
             new == [rows[e] EXCEPT ![t] = SyncStatus(mid)]
  <2>1. rows[e] \in TrainingRows => mid \in TrainingRecordRow
    BY DEF TrainingRows, TrainingRecordRow, Cycles
  <2>2. rows[e] \in TrainingRows => new \in TrainingRows
    <3> HIDE DEF mid
    <3> QED
      BY <2>1, SyncStatusType DEF TrainingRows, Cycles
  <2>3. Handle(q, e, new)
    BY <1>7 DEF CompleteTraining
  <2> QED
    BY <2>2, <2>3, HandleKeeps
<1>8. ASSUME NEW t \in Cycles, GrantExemption(q, e, t)
      PROVE  KeepsTo(q, e, TrainingRows, TrainingRows)
  <2> DEFINE mid == [rows[e] EXCEPT ![t].exempt = TRUE]
             new == [mid EXCEPT ![t].status = "exempt"]
  <2>1. rows[e] \in TrainingRows => mid \in TrainingRows
    BY DEF TrainingRows, TrainingRecordRow, TrainingStatuses, Cycles
  <2>2. rows[e] \in TrainingRows => new \in TrainingRows
    <3> HIDE DEF mid
    <3> QED
      BY <2>1 DEF TrainingRows, TrainingRecordRow, TrainingStatuses, Cycles
  <2> QED
    BY <1>8, <2>2, HandleKeeps DEF GrantExemption
<1>9. ASSUME NEW t \in Cycles, RevokeExemption(q, e, t)
      PROVE  KeepsTo(q, e, TrainingRows, TrainingRows)
  <2> DEFINE mid == [rows[e][t] EXCEPT !.exempt = FALSE]
             new == [rows[e] EXCEPT ![t] = SyncStatus(mid)]
  <2>1. rows[e] \in TrainingRows => mid \in TrainingRecordRow
    BY DEF TrainingRows, TrainingRecordRow, Cycles
  <2>2. rows[e] \in TrainingRows => new \in TrainingRows
    <3> HIDE DEF mid
    <3> QED
      BY <2>1, SyncStatusType DEF TrainingRows, Cycles
  <2>3. Handle(q, e, new)
    BY <1>9 DEF RevokeExemption
  <2> QED
    BY <2>2, <2>3, HandleKeeps
<1>10. ASSUME NEW t \in Cycles, RetakeTraining(q, e, t)
      PROVE  KeepsTo(q, e, TrainingRows, TrainingRows)
  <2> DEFINE mid == NextAttempt(rows[e][t])
             new == [rows[e] EXCEPT ![t] = SyncStatus(mid)]
  <2>1. rows[e] \in TrainingRows => rows[e][t] \in TrainingRecordRow
    BY DEF TrainingRows, Cycles
  <2>2. rows[e] \in TrainingRows => rows[e][t].attempt + 1 \in 1 .. MaxAttempts
    BY <1>10, <2>1, AttemptsAssumption DEF RetakeTraining, TrainingRecordRow
  <2>3. rows[e] \in TrainingRows => mid \in TrainingRecordRow
    BY <2>1, <2>2 DEF TrainingRecordRow, NextAttempt
  <2>4. rows[e] \in TrainingRows => new \in TrainingRows
    <3> HIDE DEF mid
    <3> QED
      BY <2>3, SyncStatusType DEF TrainingRows, Cycles
  <2>5. Handle(q, e, new)
    BY <1>10 DEF RetakeTraining
  <2> QED
    BY <2>4, <2>5, HandleKeeps
<1>11. ASSUME NEW ts, Handle(q, e, MarkedOverdue(rows[e], ts))
      PROVE  KeepsTo(q, e, TrainingRows, TrainingRows)
  BY ZenonT(40), <1>11, HandleKeeps DEF MarkedOverdue, TrainingRecordRow, TrainingStatuses,
     TrainingRows, Cycles
<1> QED
  BY <1>1, <1>2, <1>3, <1>4, <1>5, <1>6, <1>7, <1>8, <1>9, <1>10, <1>11
  DEF TrainingRequest, CreateAssignment, RenewTraining, EvaluateRiskEvent, ListOverdue,
      CheckTrainingOverdue, Cycles

LEMMA TrainingByColumn == ByColumn(TrainingRows)
BY DEF ByColumn, Written, TrainingRows, TrainingRecordRow

-----------------------------------------------------------------------------
(* Findings are counted, and what is verified was completed by another.       *)
GoodReviews ==
    {r \in ReviewRows :
        /\ r.review.high = {f \in Findings : r.finding[f] # "none" /\ r.risk[f] = "high"}
        /\ r.action.status # "verified" => r.action.verified = "none"
        /\ r.action.verified # "none" => r.action.verified # r.action.completed}

LEMMA ReviewKeeps ==
    ASSUME NEW q, NEW e, ReviewRequest(q, e)
    PROVE  KeepsTo(q, e, ReviewRows, GoodReviews)
<1>1. ASSUME NEW to \in ReviewStatuses, TransitionReview(q, e, to)
      PROVE  KeepsTo(q, e, ReviewRows, GoodReviews)
  <2> DEFINE new == [rows[e] EXCEPT !.review.status = to]
  <2>1. rows[e] \in ReviewRows =>
          /\ new \in ReviewRows
          /\ new.review.high = rows[e].review.high
          /\ new.finding = rows[e].finding
          /\ new.risk = rows[e].risk
          /\ new.action = rows[e].action
    BY DEF ReviewRows
  <2>2. rows[e] \in GoodReviews => new \in GoodReviews
    <3> HIDE DEF new
    <3> QED
      BY <1>1, <2>1 DEF GoodReviews
  <2> QED
    BY <1>1, <2>1, <2>2, HandleKeeps DEF TransitionReview
<1>2. ASSUME BoardAcknowledge(q, e)
      PROVE  KeepsTo(q, e, ReviewRows, GoodReviews)
  <2> DEFINE new == [rows[e] EXCEPT !.review.acknowledged = TRUE]
  <2>1. rows[e] \in ReviewRows =>
          /\ new \in ReviewRows
          /\ new.review.high = rows[e].review.high
          /\ new.finding = rows[e].finding
          /\ new.risk = rows[e].risk
          /\ new.action = rows[e].action
    BY DEF ReviewRows
  <2>2. rows[e] \in GoodReviews => new \in GoodReviews
    <3> HIDE DEF new
    <3> QED
      BY <1>2, <2>1 DEF GoodReviews
  <2> QED
    BY <1>2, <2>1, <2>2, HandleKeeps DEF BoardAcknowledge
<1>3. ASSUME NEW f \in Findings, NEW risk \in {"low", "high"}, CreateFinding(q, e, f, risk)
      PROVE  KeepsTo(q, e, ReviewRows, GoodReviews)
  <2> DEFINE mid == [rows[e] EXCEPT !.finding[f] = "open", !.risk[f] = risk]
             new == Recounted(mid)
  <2>1. rows[e] \in ReviewRows =>
          /\ mid \in ReviewRows
          /\ mid.action = rows[e].action
    BY DEF ReviewRows, FindingStatuses, Recounted
  <2>2. rows[e] \in ReviewRows =>
          /\ new \in ReviewRows
          /\ new.review.high = {g \in Findings : new.finding[g] # "none" /\ new.risk[g] = "high"}
          /\ new.action = rows[e].action
    <3> HIDE DEF mid
    <3> QED
      BY <2>1 DEF ReviewRows, FindingStatuses, Recounted
  <2>3. rows[e] \in GoodReviews => new \in GoodReviews
    <3> HIDE DEF mid, new
    <3> QED
      BY <1>3, <2>1, <2>2 DEF GoodReviews
  <2> QED
    BY <1>3, <2>2, <2>3, HandleKeeps DEF CreateFinding
<1>4. ASSUME NEW f \in Findings, NEW risk \in {"low", "high"}, UpdateFinding(q, e, f, risk)
      PROVE  KeepsTo(q, e, ReviewRows, GoodReviews)
  <2> DEFINE mid == [rows[e] EXCEPT !.risk[f] = risk]
             new == Recounted(mid)
  <2>1. rows[e] \in ReviewRows =>
          /\ mid \in ReviewRows
          /\ mid.action = rows[e].action
    BY DEF ReviewRows, FindingStatuses, Recounted
  <2>2. rows[e] \in ReviewRows =>
          /\ new \in ReviewRows
          /\ new.review.high = {g \in Findings : new.finding[g] # "none" /\ new.risk[g] = "high"}
          /\ new.action = rows[e].action
    <3> HIDE DEF mid
    <3> QED
      BY <2>1 DEF ReviewRows, FindingStatuses, Recounted
  <2>3. rows[e] \in GoodReviews => new \in GoodReviews
    <3> HIDE DEF mid, new
    <3> QED
      BY <1>4, <2>1, <2>2 DEF GoodReviews
  <2> QED
    BY <1>4, <2>2, <2>3, HandleKeeps DEF UpdateFinding
<1>5. ASSUME NEW f \in Findings, NEW from \in SUBSET FindingStatuses,
            NEW to \in FindingStatuses, SetFinding(q, e, f, from, to)
      PROVE  KeepsTo(q, e, ReviewRows, GoodReviews)
  <2> DEFINE new == [rows[e] EXCEPT !.finding[f] = to]
  <2>1. rows[e].finding[f] # "none"
    BY <1>5 DEF SetFinding, FindingStatuses
  <2>2. rows[e] \in ReviewRows =>
          /\ new \in ReviewRows
          /\ new.review = rows[e].review
          /\ new.risk = rows[e].risk
          /\ new.action = rows[e].action
          /\ \A g \in Findings : new.finding[g] # "none" <=> rows[e].finding[g] # "none"
    BY <2>1 DEF ReviewRows, FindingStatuses
  <2>3. rows[e] \in GoodReviews => new \in GoodReviews
    <3> HIDE DEF new
    <3> QED
      BY <1>5, <2>1, <2>2 DEF GoodReviews
  <2> QED
    BY <1>5, <2>2, <2>3, HandleKeeps DEF SetFinding
<1>6. ASSUME NEW f \in Findings, CreateRecommendation(q, e, f)
      PROVE  KeepsTo(q, e, ReviewRows, GoodReviews)
  <2> DEFINE new == [rows[e] EXCEPT !.advice.status = "open"]
  <2>1. rows[e] \in ReviewRows =>
          /\ new \in ReviewRows
          /\ new.review.high = rows[e].review.high
          /\ new.finding = rows[e].finding
          /\ new.risk = rows[e].risk
          /\ new.action = rows[e].action
    BY DEF ReviewRows, RecommendationStatuses
  <2>2. rows[e] \in GoodReviews => new \in GoodReviews
    <3> HIDE DEF new
    <3> QED
      BY <1>6, <2>1 DEF GoodReviews
  <2> QED
    BY <1>6, <2>1, <2>2, HandleKeeps DEF CreateRecommendation
<1>7. ASSUME NEW from, NEW to \in RecommendationStatuses, SetAdvice(q, e, from, to)
      PROVE  KeepsTo(q, e, ReviewRows, GoodReviews)
  <2> DEFINE new == [rows[e] EXCEPT !.advice.status = to]
  <2>1. rows[e] \in ReviewRows =>
          /\ new \in ReviewRows
          /\ new.review.high = rows[e].review.high
          /\ new.finding = rows[e].finding
          /\ new.risk = rows[e].risk
          /\ new.action = rows[e].action
    BY DEF ReviewRows
  <2>2. rows[e] \in GoodReviews => new \in GoodReviews
    <3> HIDE DEF new
    <3> QED
      BY <1>7, <2>1 DEF GoodReviews
  <2> QED
    BY <1>7, <2>1, <2>2, HandleKeeps DEF SetAdvice
<1>8. ASSUME CreateAction(q, e)
      PROVE  KeepsTo(q, e, ReviewRows, GoodReviews)
  <2> DEFINE new == [rows[e] EXCEPT !.action.status = "planned",
                    !.advice.status = IF @ = "accepted" THEN "in_progress" ELSE @]
  <2>1. rows[e].action.status = "none"
    BY <1>8 DEF CreateAction, Free
  <2>2. rows[e] \in ReviewRows =>
          /\ new \in ReviewRows
          /\ new.review = rows[e].review
          /\ new.finding = rows[e].finding
          /\ new.risk = rows[e].risk
          /\ new.action.status = "planned"
          /\ new.action.verified = rows[e].action.verified
    BY <2>1 DEF ReviewRows, RecommendationStatuses, ActionStatuses
  <2>3. rows[e] \in GoodReviews => new \in GoodReviews
    <3> HIDE DEF new
    <3> QED
      BY <1>8, <2>1, <2>2 DEF GoodReviews
  <2> QED
    BY <1>8, <2>2, <2>3, HandleKeeps DEF CreateAction
<1>9. ASSUME StartAction(q, e)
      PROVE  KeepsTo(q, e, ReviewRows, GoodReviews)
  <2> DEFINE new == [rows[e] EXCEPT !.action.status = "in_progress"]
  <2>1. rows[e].action.status = "planned"
    BY <1>9 DEF StartAction
  <2>2. rows[e] \in ReviewRows =>
          /\ new \in ReviewRows
          /\ new.review = rows[e].review
          /\ new.finding = rows[e].finding
          /\ new.risk = rows[e].risk
          /\ new.action.verified = rows[e].action.verified
          /\ new.action.completed = rows[e].action.completed
    BY <2>1 DEF ReviewRows, ActionStatuses
  <2>3. rows[e] \in GoodReviews => new \in GoodReviews
    <3> HIDE DEF new
    <3> QED
      BY <1>9, <2>1, <2>2 DEF GoodReviews
  <2> QED
    BY <1>9, <2>2, <2>3, HandleKeeps DEF StartAction
<1>10. ASSUME NEW by \in Reviewers, CompleteAction(q, e, by)
      PROVE  KeepsTo(q, e, ReviewRows, GoodReviews)
  <2> DEFINE new == [rows[e] EXCEPT !.action.status = "completed", !.action.completed = by]
  <2>1. rows[e].action.status \in {"planned", "in_progress"}
    BY <1>10 DEF CompleteAction
  <2>2. rows[e] \in ReviewRows =>
          /\ new \in ReviewRows
          /\ new.review = rows[e].review
          /\ new.finding = rows[e].finding
          /\ new.risk = rows[e].risk
          /\ new.action.verified = rows[e].action.verified
    BY <2>1 DEF ReviewRows, ActionStatuses
  <2>3. rows[e] \in GoodReviews => new \in GoodReviews
    <3> HIDE DEF new
    <3> QED
      BY <1>10, <2>1, <2>2 DEF GoodReviews
  <2> QED
    BY <1>10, <2>2, <2>3, HandleKeeps DEF CompleteAction
<1>11. ASSUME NEW by \in Reviewers, VerifyAction(q, e, by)
      PROVE  KeepsTo(q, e, ReviewRows, GoodReviews)
  <2> DEFINE new == [rows[e] EXCEPT !.action.status = "verified", !.action.verified = by]
  <2>1. rows[e].action.completed # by
    BY <1>11 DEF VerifyAction
  <2>2. rows[e] \in ReviewRows =>
          /\ new \in ReviewRows
          /\ new.review = rows[e].review
          /\ new.finding = rows[e].finding
          /\ new.risk = rows[e].risk
          /\ new.action.verified = by
          /\ new.action.completed = rows[e].action.completed
          /\ new.action.status = "verified"
    BY <2>1 DEF ReviewRows, ActionStatuses
  <2>3. rows[e] \in GoodReviews => new \in GoodReviews
    <3> HIDE DEF new
    <3> QED
      BY <1>11, <2>1, <2>2 DEF GoodReviews
  <2> QED
    BY <1>11, <2>2, <2>3, HandleKeeps DEF VerifyAction
<1>12. ASSUME CancelAction(q, e)
      PROVE  KeepsTo(q, e, ReviewRows, GoodReviews)
  <2> DEFINE new == [rows[e] EXCEPT !.action.status = "cancelled"]
  <2>1. rows[e].action.status \in {"planned", "in_progress", "completed"}
    BY <1>12 DEF CancelAction
  <2>2. rows[e] \in ReviewRows =>
          /\ new \in ReviewRows
          /\ new.review = rows[e].review
          /\ new.finding = rows[e].finding
          /\ new.risk = rows[e].risk
          /\ new.action.verified = rows[e].action.verified
          /\ new.action.completed = rows[e].action.completed
    BY <2>1 DEF ReviewRows, ActionStatuses
  <2>3. rows[e] \in GoodReviews => new \in GoodReviews
    <3> HIDE DEF new
    <3> QED
      BY <1>12, <2>1, <2>2 DEF GoodReviews
  <2> QED
    BY <1>12, <2>2, <2>3, HandleKeeps DEF CancelAction
<1> QED
  BY <1>1, <1>2, <1>3, <1>4, <1>5, <1>6, <1>7, <1>8, <1>9, <1>10, <1>11, <1>12
  DEF ReviewRequest, SubmitFindingResponse, StartFindingRemediation, CloseFinding,
      AcceptFindingRisk, AcceptRecommendation, RejectRecommendation, CompleteRecommendation,
      FindingStatuses, RecommendationStatuses, Settled

LEMMA ReviewByColumn == ByColumn(ReviewRows)
<1> SUFFICES ASSUME NEW now \in ReviewRows, NEW seen \in ReviewRows, NEW new \in ReviewRows
             PROVE  Written(now, seen, new) \in ReviewRows
  BY DEF ByColumn
<1> DEFINE w == Written(now, seen, new)
<1>1. w.finding \in [Findings -> FindingStatuses \union {"none"}]
  BY DEF Written, ReviewRows
<1>2. w.risk \in [Findings -> {"low", "high"}]
  BY DEF Written, ReviewRows
<1>3. w \in ReviewRows
  BY <1>1, <1>2 DEF Written, ReviewRows
<1> QED
  BY <1>3

-----------------------------------------------------------------------------
LEMMA AssessmentKeeps ==
    ASSUME NEW q, NEW e, AssessmentRequest(q, e)
    PROVE  KeepsTo(q, e, AssessmentRows, AssessmentRows)
<1>1. ASSUME CreateAssessment(q, e) \/ EscalateAssessment(q, e)
      PROVE  KeepsTo(q, e, AssessmentRows, AssessmentRows)
  BY <1>1, HandleKeeps DEF CreateAssessment, EscalateAssessment, AssessmentStatuses,
     AssessmentRows
<1>2. ASSUME NEW rating \in {"low", "high"},
            UpdateAssessment(q, e, rating) \/ CompleteAssessment(q, e, rating)
      PROVE  KeepsTo(q, e, AssessmentRows, AssessmentRows)
  BY <1>2, HandleKeeps DEF UpdateAssessment, CompleteAssessment, AssessmentStatuses,
     AssessmentRows
<1>3. ASSUME NEW s \in Sections5, NEW v \in {"poor", "good"}, Upsert(q, e, s, v)
      PROVE  KeepsTo(q, e, AssessmentRows, AssessmentRows)
  <2> DEFINE mid == [rows[e] EXCEPT !.sections[s] = v]
             new == Touched(mid)
  <2>1. rows[e] \in AssessmentRows => mid \in AssessmentRows
    BY DEF AssessmentRows, AssessmentStatuses, Touched, Sections5
  <2>2. rows[e] \in AssessmentRows => new \in AssessmentRows
    <3> HIDE DEF mid
    <3> QED
      BY <2>1 DEF AssessmentRows, AssessmentStatuses, Touched, Sections5
  <2> QED
    BY <1>3, <2>2, HandleKeeps DEF Upsert
<1>4. ASSUME NEW answers, \A i \in DOMAIN answers : answers[i] \in BOOLEAN,
            SubmitChecklist(q, e, answers)
      PROVE  KeepsTo(q, e, AssessmentRows, AssessmentRows)
  <2> DEFINE merged == [i \in Items |-> IF i \in DOMAIN answers THEN answers[i]
                                       ELSE rows[e].items[i]]
             checked == {i \in Items : merged[i]}
             mid == [rows[e] EXCEPT
                        !.checklist = [exists |-> TRUE, counted |-> checked,
                                       stamped |-> @.stamped \/ checked = Items],
                        !.items = IF rows[e].checklist.exists THEN @ ELSE merged]
             new == Touched(mid)
  <2>1. rows[e] \in AssessmentRows => merged \in [Items -> BOOLEAN]
    BY <1>4 DEF AssessmentRows
  <2>2. checked \in SUBSET Items
    OBVIOUS
  <2>3. rows[e] \in AssessmentRows => mid \in AssessmentRows
    <3> HIDE DEF merged, checked
    <3> QED
      BY <2>1, <2>2 DEF AssessmentRows
  <2>4. rows[e] \in AssessmentRows => new \in AssessmentRows
    <3> HIDE DEF mid
    <3> QED
      BY <2>3 DEF AssessmentRows, AssessmentStatuses, Touched
  <2>5. Handle(q, e, new)
    BY <1>4 DEF SubmitChecklist
  <2> QED
    BY <2>4, <2>5, HandleKeeps
<1> QED
  BY <1>1, <1>2, <1>3, <1>4
  DEF AssessmentRequest, UpsertSof, UpsertSow, UpsertPurpose, UpsertTaxRisk,
      UpsertInvestment, Sections5

LEMMA AssessmentByColumn == ByColumn(AssessmentRows)
BY DEF ByColumn, Written, AssessmentRows

-----------------------------------------------------------------------------
(* Reports are signed as they are from their approval on.                     *)
GoodBoards ==
    {r \in BoardRows : \A v \in Editions :
        r[v].status \in {"approved", "distributed", "archived"}
          => r.signed[v] = <<r[v].snapshot, r[v].text>>}

LEMMA BoardKeeps ==
    ASSUME NEW q, NEW e, BoardRequest(q, e)
    PROVE  KeepsTo(q, e, BoardRows, GoodBoards)
<1>1. ASSUME NEW data \in Data, CreateBoardReport(q, e, data)
      PROVE  KeepsTo(q, e, BoardRows, GoodBoards)
  BY <1>1, HandleKeeps DEF CreateBoardReport, GoodBoards, BoardRows, BoardRow, Editions,
     BoardStatuses, Narratives
<1>2. ASSUME NEW data \in Data, CreateNewVersion(q, e, data)
      PROVE  KeepsTo(q, e, BoardRows, GoodBoards)
  BY <1>2, HandleKeeps DEF CreateNewVersion, GoodBoards, BoardRows, BoardRow, Editions,
     BoardStatuses, Narratives
<1>3. ASSUME NEW v \in Editions, NEW data \in Data, RegenerateSnapshot(q, e, v, data)
      PROVE  KeepsTo(q, e, BoardRows, GoodBoards)
  <2> DEFINE new == [rows[e] EXCEPT ![v].snapshot = data]
  <2>1. rows[e][v].status = "draft"
    BY <1>3 DEF RegenerateSnapshot
  <2>2. rows[e] \in BoardRows =>
          /\ new \in BoardRows
          /\ new.signed = rows[e].signed
          /\ \A w \in Editions :
               new[w] = IF w = v THEN [rows[e][w] EXCEPT !.snapshot = data] ELSE rows[e][w]
    BY <2>1 DEF BoardRows, BoardRow, Editions, BoardStatuses, Narratives
  <2>3. rows[e] \in GoodBoards => new \in GoodBoards
    <3> HIDE DEF new
    <3> QED
      BY <1>3, <2>1, <2>2 DEF GoodBoards, Editions, BoardRows, BoardRow
  <2> QED
    BY <1>3, <2>2, <2>3, HandleKeeps DEF RegenerateSnapshot
<1>4. ASSUME NEW v \in Editions, NEW text \in Narratives, UpdateBoardReport(q, e, v, text)
      PROVE  KeepsTo(q, e, BoardRows, GoodBoards)
  <2> DEFINE new == [rows[e] EXCEPT ![v].text = text]
  <2>1. rows[e][v].status \in {"draft", "under_review"}
    BY <1>4 DEF UpdateBoardReport
  <2>2. rows[e] \in BoardRows =>
          /\ new \in BoardRows
          /\ new.signed = rows[e].signed
          /\ \A w \in Editions :
               new[w] = IF w = v THEN [rows[e][w] EXCEPT !.text = text] ELSE rows[e][w]
    BY <2>1 DEF BoardRows, BoardRow, Editions, BoardStatuses, Narratives
  <2>3. rows[e] \in GoodBoards => new \in GoodBoards
    <3> HIDE DEF new
    <3> QED
      BY <1>4, <2>1, <2>2 DEF GoodBoards, Editions, BoardRows, BoardRow
  <2> QED
    BY <1>4, <2>2, <2>3, HandleKeeps DEF UpdateBoardReport
<1>5. ASSUME NEW v \in Editions, ApproveBoardReport(q, e, v)
      PROVE  KeepsTo(q, e, BoardRows, GoodBoards)
  <2> DEFINE mid == [rows[e] EXCEPT ![v].status = "approved"]
             new == [mid EXCEPT !.signed[v] = <<rows[e][v].snapshot, rows[e][v].text>>]
  <2>1. rows[e] \in BoardRows =>
          /\ mid \in BoardRows
          /\ mid.signed = rows[e].signed
          /\ \A w \in Editions :
               mid[w] = IF w = v THEN [rows[e][w] EXCEPT !.status = "approved"] ELSE rows[e][w]
          /\ rows[e][v] \in BoardRow
    BY DEF BoardRows, BoardRow, Editions, BoardStatuses, Narratives
  <2>2. rows[e] \in BoardRows =>
          /\ new \in BoardRows
          /\ new.signed = [mid.signed EXCEPT ![v] = <<rows[e][v].snapshot, rows[e][v].text>>]
          /\ \A w \in Editions : new[w] = mid[w]
    <3> HIDE DEF mid
    <3> QED
      BY <2>1 DEF BoardRows, BoardRow, Editions, BoardStatuses, Narratives
  <2>3. rows[e] \in GoodBoards => new \in GoodBoards
    <3> HIDE DEF mid, new
    <3> QED
      BY <1>5, <2>1, <2>2 DEF GoodBoards, Editions, BoardRows, BoardRow
  <2> QED
    BY <1>5, <2>2, <2>3, HandleKeeps DEF ApproveBoardReport
<1>6. ASSUME NEW v \in Editions, NEW from \in BoardStatuses, NEW to \in BoardStatuses,
            from \in {"draft", "under_review"} => to \in {"draft", "under_review"},
            SetBoardStatus(q, e, v, from, to)
      PROVE  KeepsTo(q, e, BoardRows, GoodBoards)
  <2> DEFINE new == [rows[e] EXCEPT ![v].status = to]
  <2>1. rows[e][v].status = from
    BY <1>6 DEF SetBoardStatus
  <2>2. rows[e] \in BoardRows =>
          /\ new \in BoardRows
          /\ new.signed = rows[e].signed
          /\ \A w \in Editions :
               new[w] = IF w = v THEN [rows[e][w] EXCEPT !.status = to] ELSE rows[e][w]
    BY <2>1 DEF BoardRows, BoardRow, Editions, BoardStatuses, Narratives
  <2>3. rows[e] \in GoodBoards => new \in GoodBoards
    <3> HIDE DEF new
    <3> QED
      BY <1>6, <2>1, <2>2 DEF GoodBoards, Editions, BoardRows, BoardRow, BoardStatuses
  <2> QED
    BY <1>6, <2>2, <2>3, HandleKeeps DEF SetBoardStatus
<1> QED
  BY <1>1, <1>2, <1>3, <1>4, <1>5, <1>6
  DEF BoardRequest, SubmitBoardReport, ReturnToDraft, DistributeReport, ArchiveReport,
      BoardStatuses

LEMMA BoardByColumn == ByColumn(BoardRows)
BY DEF ByColumn, Written, BoardRows, BoardRow

-----------------------------------------------------------------------------
LEMMA PolicyKeeps ==
    ASSUME NEW q, NEW e, PolicyRequest(q, e)
    PROVE  KeepsTo(q, e, PolicyRows, PolicyRows)
<1>1. ASSUME CreatePolicy(q, e)
      PROVE  KeepsTo(q, e, PolicyRows, PolicyRows)
  <2>1. "draft" \in PolicyStatuses
    <3>1. <<"draft", "archived">> \in AllowedTransitions
      BY DEF AllowedTransitions
    <3> QED
      BY <3>1 DEF PolicyStatuses
  <2> QED
    BY <1>1, <2>1, HandleKeeps DEF CreatePolicy, PolicyRows
<1>2. ASSUME NEW content \in Contents, UpdatePolicy(q, e, content)
      PROVE  KeepsTo(q, e, PolicyRows, PolicyRows)
  BY <1>2, HandleKeeps DEF UpdatePolicy, PolicyRows
<1>3. ASSUME NEW to \in PolicyStatuses, WorkflowAction(q, e, to)
      PROVE  KeepsTo(q, e, PolicyRows, PolicyRows)
  BY <1>3, HandleKeeps DEF WorkflowAction, PolicyRows
<1>4. ASSUME NEW s \in Slots, Publish(q, e, s)
      PROVE  KeepsTo(q, e, PolicyRows, PolicyRows)
  <2> DEFINE was == rows[e].policy
             mid == [rows[e] EXCEPT !.policy.status = "published", !.policy.minor = was.minor + 1]
             new == [mid EXCEPT !.versions[s] = <<was.minor + 1, was.content>>]
  <2>1. "published" \in PolicyStatuses
    <3>1. <<"published", "archived">> \in AllowedTransitions
      BY DEF AllowedTransitions
    <3> QED
      BY <3>1 DEF PolicyStatuses
  <2>2. rows[e] \in PolicyRows => was.minor + 1 \in Minors /\ was.content \in Contents
    BY <1>4, PublishedAssumption DEF Publish, PolicyRows, Minors
  <2>3. rows[e] \in PolicyRows => mid \in PolicyRows
    <3> HIDE DEF was
    <3> QED
      BY <2>1, <2>2 DEF PolicyRows
  <2>4. rows[e] \in PolicyRows => new \in PolicyRows
    <3> HIDE DEF was, mid
    <3> QED
      BY <2>2, <2>3 DEF PolicyRows
  <2> QED
    BY <1>4, <2>4, HandleKeeps DEF Publish
<1>5. ASSUME NEW u \in Staff, AttestPolicy(q, e, u)
      PROVE  KeepsTo(q, e, PolicyRows, PolicyRows)
  BY <1>5, HandleKeeps DEF AttestPolicy, PolicyRows
<1> QED
  BY <1>1, <1>2, <1>3, <1>4, <1>5
  DEF PolicyRequest

LEMMA PolicyByColumn == ByColumn(PolicyRows)
<1> SUFFICES ASSUME NEW now \in PolicyRows, NEW seen \in PolicyRows, NEW new \in PolicyRows
             PROVE  Written(now, seen, new) \in PolicyRows
  BY DEF ByColumn
<1> DEFINE w == Written(now, seen, new)
<1>1. w.versions \in [Slots -> {<<>>} \union (Minors \X Contents)]
  BY DEF Written, PolicyRows
<1>2. w.attested \in [Staff \X Minors -> BOOLEAN]
  BY DEF Written, PolicyRows
<1>3. w \in PolicyRows
  BY <1>1, <1>2 DEF Written, PolicyRows
<1> QED
  BY <1>3

(* A version number that a policy was published under, or that somebody       *)
(* attested to, is the number of a row of its history: numbers and rows are   *)
(* committed together, and rows are never written twice.                      *)
VersionOnRecord(r, m) == \E s \in Slots, c \in Contents : r.versions[s] = <<m, c>>
LastingPolicies ==
    {r \in PolicyRows :
        /\ r.policy.status = "published" => r.policy.minor # 0
        /\ r.policy.minor # 0 => VersionOnRecord(r, r.policy.minor)
        /\ \A u \in Staff, m \in Minors : r.attested[<<u, m>>] => VersionOnRecord(r, m)}

Enters(seen, new, s) == seen.versions[s] = <<>> /\ new.versions[s] # <<>>

Published(now, seen, new) ==
    /\ \A s \in Slots : seen.versions[s] # new.versions[s] => Enters(seen, new, s)
    /\ \A s \in Slots : Enters(seen, new, s) => now.versions[s] = <<>>
    /\ new.policy.minor # seen.policy.minor
         => /\ new.policy.minor # 0
            /\ \E s \in Slots, c \in Contents :
                 Enters(seen, new, s) /\ new.versions[s] = <<new.policy.minor, c>>
    /\ new.policy.status = "published" /\ seen.policy.status # "published"
         => new.policy.minor # seen.policy.minor
    /\ \A u \in Staff, m \in Minors :
         new.attested[<<u, m>>] # seen.attested[<<u, m>>] => VersionOnRecord(now, m)
    /\ seen.policy.minor # 0 => now.policy.minor # 0

PolicyFits == {x \in PolicyRows \X PolicyRows \X PolicyRows : Published(x[1], x[2], x[3])}
PolicyApart ==
    {x \in PolicyRows \X PolicyRows \X PolicyRows \X PolicyRows :
        \A s \in Slots : ~(Enters(x[1], x[2], s) /\ Enters(x[3], x[4], s))}

LEMMA PolicyFitsAre ==
    /\ \A now, seen, new :
         <<now, seen, new>> \in PolicyFits
           <=> now \in PolicyRows /\ seen \in PolicyRows /\ new \in PolicyRows
                 /\ Published(now, seen, new)
    /\ \A s, n, seen, new :
         <<s, n, seen, new>> \in PolicyApart
           <=> /\ s \in PolicyRows /\ n \in PolicyRows /\ seen \in PolicyRows /\ new \in PolicyRows
               /\ \A t \in Slots : ~(Enters(s, n, t) /\ Enters(seen, new, t))
BY DEF PolicyFits, PolicyApart

LEMMA PolicyClosed == Closed(LastingPolicies, PolicyFits, PolicyApart)
<1> SUFFICES ASSUME NEW now \in LastingPolicies, NEW seen, NEW new,
                    <<now, seen, new>> \in PolicyFits
             PROVE  /\ Committed(now, seen, new) \in LastingPolicies
                    /\ \A s, n : <<now, s, n>> \in PolicyFits /\ <<s, n, seen, new>> \in PolicyApart
                         => <<Committed(now, seen, new), s, n>> \in PolicyFits
  BY DEF Closed
<1> DEFINE done == Committed(now, seen, new)
<1>1. /\ now \in PolicyRows /\ seen \in PolicyRows /\ new \in PolicyRows
      /\ Published(now, seen, new)
  BY PolicyFitsAre
<1>2. done \in PolicyRows
  BY <1>1, PolicyByColumn DEF Committed, ByColumn
<1>3. /\ done.policy.status = IF new.policy.status = seen.policy.status
                              THEN now.policy.status ELSE new.policy.status
      /\ done.policy.minor = IF new.policy.minor = seen.policy.minor
                             THEN now.policy.minor ELSE new.policy.minor
  BY <1>1 DEF Committed, Written, PolicyRows
<1>4. \A s \in Slots : done.versions[s] = IF new.versions[s] = seen.versions[s]
                                          THEN now.versions[s] ELSE new.versions[s]
  BY <1>1 DEF Committed, Written, PolicyRows
<1>5. \A u \in Staff, m \in Minors :
        done.attested[<<u, m>>] = IF new.attested[<<u, m>>] = seen.attested[<<u, m>>]
                                  THEN now.attested[<<u, m>>] ELSE new.attested[<<u, m>>]
  BY <1>1 DEF Committed, Written, PolicyRows
<1> HIDE DEF done
<1>6. \A s \in Slots : /\ Enters(seen, new, s) => done.versions[s] = new.versions[s]
                       /\ ~Enters(seen, new, s) => done.versions[s] = now.versions[s]
  BY <1>1, <1>4 DEF Published, Enters
<1>7. \A s \in Slots : now.versions[s] # <<>> => done.versions[s] = now.versions[s]
  BY <1>1, <1>6 DEF Published
<1>8. \A m \in Minors : VersionOnRecord(now, m) => VersionOnRecord(done, m)
  BY <1>7 DEF VersionOnRecord
<1>9. now.policy.minor # 0 => done.policy.minor # 0
  BY <1>1, <1>3 DEF Published
<1>10. done \in LastingPolicies
  <2>1. done.policy.status = "published" => done.policy.minor # 0
    BY <1>1, <1>3, <1>9 DEF Published, LastingPolicies
  <2>2. done.policy.minor # 0 => VersionOnRecord(done, done.policy.minor)
    <3>1. CASE new.policy.minor = seen.policy.minor
      BY <1>1, <1>3, <1>8, <3>1 DEF LastingPolicies, PolicyRows
    <3>2. CASE new.policy.minor # seen.policy.minor
      BY <1>1, <1>3, <1>6, <3>2 DEF Published, VersionOnRecord
    <3> QED
      BY <3>1, <3>2
  <2>3. ASSUME NEW u \in Staff, NEW m \in Minors, done.attested[<<u, m>>]
        PROVE  VersionOnRecord(done, m)
    <3>1. CASE new.attested[<<u, m>>] = seen.attested[<<u, m>>]
      BY <1>5, <1>8, <2>3, <3>1 DEF LastingPolicies
    <3>2. CASE new.attested[<<u, m>>] # seen.attested[<<u, m>>]
      BY <1>1, <1>8, <3>2 DEF Published
    <3> QED
      BY <3>1, <3>2
  <2> QED
    BY <1>2, <2>1, <2>2, <2>3 DEF LastingPolicies
<1>11. ASSUME NEW s, NEW n, <<now, s, n>> \in PolicyFits, <<s, n, seen, new>> \in PolicyApart
       PROVE  <<done, s, n>> \in PolicyFits
  <2>1. /\ s \in PolicyRows /\ n \in PolicyRows /\ Published(now, s, n)
        /\ \A t \in Slots : ~(Enters(s, n, t) /\ Enters(seen, new, t))
    BY <1>11, PolicyFitsAre
  <2>2. \A t \in Slots : Enters(s, n, t) => done.versions[t] = <<>>
    BY <1>6, <2>1 DEF Published
  <2>3. Published(done, s, n)
    BY <1>8, <1>9, <2>1, <2>2 DEF Published
  <2> QED
    BY <1>2, <2>1, <2>3, PolicyFitsAre
<1> QED
  BY <1>10, <1>11 DEF done

LEMMA PolicyJoins ==
    ASSUME WellFormed(Stops), PolicyIds \subseteq Entities,
           Held(PolicyIds, LastingPolicies, PolicyFits, PolicyApart),
           NEW q \in Requests, NEW e \in PolicyIds, PolicyRequest(q, e)
    PROVE  Held(PolicyIds, LastingPolicies, PolicyFits, PolicyApart)'
<1> DEFINE r == rows[e]
<1>1. r \in PolicyRows /\ r \in LastingPolicies
  BY DEF Held, LastingPolicies
<1>2. \A p \in Requests : Saving(p) /\ req[p].of = e
        => req[p].seen \in PolicyRows /\ req[p].new \in PolicyRows
  BY PolicyFitsAre DEF Held
<1>3. ASSUME NEW new \in PolicyRows, Handle(q, e, new), Published(r, r, new),
             \A s \in Slots, p \in Requests :
               Enters(r, new, s) /\ Saving(p) /\ req[p].of = e => req[p].new.versions[s] = <<>>
      PROVE  Held(PolicyIds, LastingPolicies, PolicyFits, PolicyApart)'
  <2>1. ~Saving(q)
    BY <1>3 DEF Handle, Saving, Idle
  <2>2. Joins(q, e, new, PolicyFits, PolicyApart)
    BY <1>1, <1>2, <1>3, <2>1, PolicyFitsAre DEF Joins, Enters
  <2>3. Symmetric(PolicyApart)
    BY PolicyFitsAre DEF Symmetric
  <2>4. Ends(q, e, new, Stops)
    BY <1>3 DEF Ends
  <2> QED
    BY <2>2, <2>3, <2>4, JoinKeeps, PolicyClosed
<1>4. ASSUME NEW new \in PolicyRows, Handle(q, e, new),
             new.policy.minor = r.policy.minor, new.versions = r.versions,
             new.attested = r.attested,
             new.policy.status # "published" \/ new.policy.status = r.policy.status
      PROVE  Held(PolicyIds, LastingPolicies, PolicyFits, PolicyApart)'
  <2>1. Published(r, r, new)
    BY <1>4 DEF Published, Enters
  <2> QED
    BY <1>3, <1>4, <2>1 DEF Enters
<1>5. CASE CreatePolicy(q, e)
  <2>1. "draft" \in PolicyStatuses
    <3>1. <<"draft", "archived">> \in AllowedTransitions
      BY DEF AllowedTransitions
    <3>2. <<"draft", "archived">>[1] = "draft"
      OBVIOUS
    <3> QED
      BY <3>1, <3>2 DEF PolicyStatuses
  <2> QED
    BY <1>1, <1>4, <1>5, <2>1 DEF CreatePolicy, PolicyRows
<1>6. ASSUME NEW content \in Contents, UpdatePolicy(q, e, content)
      PROVE  Held(PolicyIds, LastingPolicies, PolicyFits, PolicyApart)'
  BY <1>1, <1>4, <1>6 DEF UpdatePolicy, PolicyRows
<1>7. ASSUME NEW to \in PolicyStatuses, WorkflowAction(q, e, to)
      PROVE  Held(PolicyIds, LastingPolicies, PolicyFits, PolicyApart)'
  BY <1>1, <1>4, <1>7 DEF WorkflowAction, PolicyRows
<1>8. ASSUME NEW s \in Slots, Publish(q, e, s)
      PROVE  Held(PolicyIds, LastingPolicies, PolicyFits, PolicyApart)'
  <2> DEFINE was == r.policy
             m == was.minor + 1
             new == [r EXCEPT !.policy.status = "published", !.policy.minor = was.minor + 1,
                              !.versions[s] = <<was.minor + 1, was.content>>]
  <2>1. m \in Minors /\ m # 0 /\ m # was.minor
    <3>1. was.minor \in 0 .. MaxPublished
      BY <1>1 DEF PolicyRows, Minors
    <3>2. was.minor < MaxPublished
      BY <1>8 DEF Publish
    <3> QED
      BY <3>1, <3>2, PublishedAssumption DEF Minors
  <2>2. "published" \in PolicyStatuses
    <3>1. <<"published", "archived">> \in AllowedTransitions
      BY DEF AllowedTransitions
    <3>2. <<"published", "archived">>[1] = "published"
      OBVIOUS
    <3> QED
      BY <3>1, <3>2 DEF PolicyStatuses
  <2>3. /\ new \in PolicyRows
        /\ new.policy.minor = m
        /\ new.attested = r.attested
        /\ new.versions[s] = <<m, was.content>>
        /\ \A t \in Slots \ {s} : new.versions[t] = r.versions[t]
    <3>1. <<m, was.content>> \in Minors \X Contents
      BY <1>1, <2>1 DEF PolicyRows
    <3> HIDE DEF m
    <3>2. new = [r EXCEPT !.policy.status = "published", !.policy.minor = m,
                          !.versions[s] = <<m, was.content>>]
      BY DEF m
    <3> HIDE DEF new
    <3> QED
      BY <1>1, <2>1, <2>2, <3>1, <3>2 DEF PolicyRows
  <2>4. /\ Handle(q, e, new)
        /\ r.versions[s] = <<>>
        /\ \A p \in Requests : Saving(p) /\ req[p].of = e => req[p].new.versions[s] = <<>>
    BY <1>8 DEF Publish, Free, Pending, Saving, Idle
  <2> HIDE DEF new, m
  <2>5. \A t \in Slots : Enters(r, new, t) <=> t = s
    <3>1. new.versions[s] # <<>>
      BY <2>3
    <3> QED
      BY <2>3, <2>4, <3>1 DEF Enters
  <2>6. Published(r, r, new)
    <3>1. was.content \in Contents
      BY <1>1 DEF PolicyRows
    <3> QED
      BY <2>1, <2>3, <2>4, <2>5, <3>1 DEF Published
  <2> QED
    BY <1>3, <2>3, <2>4, <2>5, <2>6
<1>9. ASSUME NEW u \in Staff, AttestPolicy(q, e, u)
      PROVE  Held(PolicyIds, LastingPolicies, PolicyFits, PolicyApart)'
  <2> DEFINE m == r.policy.minor
             new == [r EXCEPT !.attested[<<u, m>>] = TRUE]
  <2>1. m \in Minors /\ VersionOnRecord(r, m)
    BY <1>1, <1>9 DEF AttestPolicy, LastingPolicies, PolicyRows
  <2>2. /\ new \in PolicyRows
        /\ new.policy = r.policy /\ new.versions = r.versions
        /\ \A x \in Staff \X Minors : x # <<u, m>> => new.attested[x] = r.attested[x]
    BY <1>1, <2>1 DEF PolicyRows
  <2>3. Handle(q, e, new)
    BY <1>9 DEF AttestPolicy
  <2> HIDE DEF new, m
  <2>4. \A v \in Staff, k \in Minors :
          new.attested[<<v, k>>] # r.attested[<<v, k>>] => k = m
    BY <2>2
  <2>5. Published(r, r, new)
    BY <2>1, <2>2, <2>4 DEF Published, Enters
  <2> QED
    BY <1>3, <2>2, <2>3, <2>5 DEF Enters
<1> QED
  BY <1>5, <1>6, <1>7, <1>8, <1>9 DEF PolicyRequest

-----------------------------------------------------------------------------
(* Finalised tests have their remediations and the rating of their findings.  *)
GoodControls ==
    {r \in ControlRows : \A t \in Finalised(r) :
        /\ \A s \in r.tests[t].findings \ {"low"} : r.tests[t].remedied[s] # "none"
        /\ r.tests[t].rating = CalculateEffectiveness(r.tests[t])}

LEMMA EffectivenessType == ASSUME NEW t PROVE CalculateEffectiveness(t) \in Ratings
BY DEF CalculateEffectiveness, Ratings

LEMMA RefreshedKeeps ==
    ASSUME NEW r, NEW stored
    PROVE  /\ r \in ControlRows => Refreshed(r, stored) \in ControlRows
           /\ Refreshed(r, stored).tests = r.tests \/ r \notin ControlRows
<1> DEFINE latest == CHOOSE t \in Finalised(stored) : \A u \in Finalised(stored) : u <= t
           rating == IF Finalised(stored) = {} THEN "not_tested"
                     ELSE CalculateEffectiveness(stored.tests[latest])
<1>1. rating \in Ratings
  BY EffectivenessType DEF Ratings
<1> DEFINE mid == [r EXCEPT !.control.effectiveness = rating]
           status == IF rating = "ineffective" /\ r.control.status = "active"
                     THEN "remediation" ELSE r.control.status
           new == [mid EXCEPT !.control.status = status]
<1>2. Refreshed(r, stored) = new
  BY DEF Refreshed
<1>3. r \in ControlRows
        => /\ mid \in ControlRows /\ mid.tests = r.tests
           /\ status \in ControlStatuses \union {"none"}
  <2> HIDE DEF rating
  <2> QED
    BY <1>1 DEF ControlRows, ControlStatuses
<1>4. r \in ControlRows => new \in ControlRows /\ new.tests = mid.tests
  <2> HIDE DEF mid, status
  <2> QED
    BY <1>3 DEF ControlRows
<1> HIDE DEF mid, new
<1> QED
  BY <1>2, <1>3, <1>4

LEMMA ControlKeeps ==
    ASSUME NEW q, NEW e, ControlRequest(q, e)
    PROVE  KeepsTo(q, e, ControlRows, GoodControls)
<1>1. ASSUME CreateControl(q, e)
      PROVE  KeepsTo(q, e, ControlRows, GoodControls)
  <2> DEFINE new == [rows[e] EXCEPT !.control.status = "active"]
  <2>1. rows[e] \in ControlRows =>
          /\ new \in ControlRows
          /\ new.tests = rows[e].tests
    BY DEF ControlRows, TestRow, ControlStatuses, Ratings, Severities, RemediationStatuses
  <2>2. rows[e] \in GoodControls => new \in GoodControls
    <3> HIDE DEF new
    <3> QED
      BY <1>1, <2>1 DEF GoodControls, CalculateEffectiveness, Finalised, ControlRows
  <2> QED
    BY <1>1, <2>1, <2>2, HandleKeeps DEF CreateControl
<1>2. ASSUME NEW status \in ControlStatuses, UpdateControl(q, e, status)
      PROVE  KeepsTo(q, e, ControlRows, GoodControls)
  <2> DEFINE new == [rows[e] EXCEPT !.control.status = status]
  <2>1. rows[e] \in ControlRows =>
          /\ new \in ControlRows
          /\ new.tests = rows[e].tests
    BY DEF ControlRows, TestRow, ControlStatuses, Ratings, Severities, RemediationStatuses
  <2>2. rows[e] \in GoodControls => new \in GoodControls
    <3> HIDE DEF new
    <3> QED
      BY <1>2, <2>1 DEF GoodControls, CalculateEffectiveness, Finalised, ControlRows
  <2> QED
    BY <1>2, <2>1, <2>2, HandleKeeps DEF UpdateControl
<1>3. ASSUME NEW t \in Tests, NEW samples \in {"none", "most", "few"},
            CreateTest(q, e, t, samples)
      PROVE  KeepsTo(q, e, ControlRows, GoodControls)
  <2> DEFINE new == [rows[e] EXCEPT !.tests[t] = UnratedTest(samples)]
  <2>1. rows[e] \in ControlRows =>
          /\ new \in ControlRows
          /\ \A u \in Tests \ {t} : new.tests[u] = rows[e].tests[u]
          /\ ~new.tests[t].finalised
    BY DEF ControlRows, TestRow, ControlStatuses, Ratings, Severities, RemediationStatuses,
       UnratedTest
  <2>2. rows[e] \in GoodControls => new \in GoodControls
    <3> HIDE DEF new
    <3> QED
      BY <1>3, <2>1 DEF GoodControls, CalculateEffectiveness, Finalised, ControlRows
  <2> QED
    BY <1>3, <2>1, <2>2, HandleKeeps DEF CreateTest
<1>4. ASSUME NEW t \in Tests, NEW severity \in Severities, AddFinding(q, e, t, severity)
      PROVE  KeepsTo(q, e, ControlRows, GoodControls)
  <2> DEFINE final == [rows[e].tests[t] EXCEPT !.findings = @ \union {severity}]
             new == [rows[e] EXCEPT !.tests[t].findings = @ \union {severity}]
  <2>1. rows[e] \in ControlRows => rows[e].tests[t] \in TestRow
    BY DEF ControlRows
  <2>2. rows[e] \in ControlRows
          => final \in TestRow /\ final.finalised = rows[e].tests[t].finalised
    BY <2>1 DEF TestRow
  <2>3. rows[e] \in ControlRows
          => /\ new \in ControlRows
             /\ new.tests = [rows[e].tests EXCEPT ![t] = final]
    BY <2>2 DEF ControlRows
  <2>4. rows[e] \in ControlRows
          => /\ \A u \in Tests \ {t} : new.tests[u] = rows[e].tests[u]
             /\ ~new.tests[t].finalised
    <3> HIDE DEF final, new
    <3> QED
      BY <1>4, <2>2, <2>3 DEF ControlRows, AddFinding
  <2>5. rows[e] \in GoodControls => new \in GoodControls
    <3> HIDE DEF new
    <3> QED
      BY <2>3, <2>4 DEF GoodControls, Finalised
  <2> QED
    BY <1>4, <2>3, <2>5, HandleKeeps DEF AddFinding
<1>5. ASSUME NEW t \in Tests, FinaliseTest(q, e, t)
      PROVE  KeepsTo(q, e, ControlRows, GoodControls)
  <2> DEFINE this == rows[e].tests[t]
             remedied == [s \in Severities |->
                 IF s \in this.findings \ {"low"} /\ this.remedied[s] = "none" THEN "open"
                 ELSE this.remedied[s]]
             rating == CalculateEffectiveness(this)
             final == [this EXCEPT !.finalised = TRUE, !.rating = rating, !.remedied = remedied]
             mid == [rows[e] EXCEPT !.tests[t] = final]
             new == Refreshed(mid, rows[e])
  <2>1. rating \in Ratings
    BY EffectivenessType
  <2>2. rows[e] \in ControlRows
          => /\ remedied \in [Severities -> RemediationStatuses \union {"none"}]
             /\ \A s \in this.findings \ {"low"} : remedied[s] # "none"
    BY DEF ControlRows, TestRow, RemediationStatuses
  <2>3. rows[e] \in ControlRows
          => /\ final \in TestRow
             /\ final.findings = this.findings /\ final.samples = this.samples
             /\ final.remedied = remedied /\ final.rating = rating
    <3>1. rows[e] \in ControlRows => this \in TestRow
      BY DEF ControlRows
    <3> HIDE DEF remedied, rating, this
    <3> QED
      BY <2>1, <2>2, <3>1 DEF TestRow
  <2>4. rows[e] \in ControlRows
          => /\ mid \in ControlRows
             /\ \A u \in Tests \ {t} : mid.tests[u] = rows[e].tests[u]
             /\ mid.tests[t] = final
    <3> HIDE DEF final
    <3> QED
      BY <2>3 DEF ControlRows
  <2>5. rows[e] \in ControlRows => rating = CalculateEffectiveness(final)
    <3>1. rating = CalculateEffectiveness(this)
      OBVIOUS
    <3> HIDE DEF this, final, rating
    <3> QED
      BY <2>3, <3>1 DEF CalculateEffectiveness
  <2>6. rows[e] \in ControlRows => new \in ControlRows /\ new.tests = mid.tests
    <3> HIDE DEF mid
    <3> QED
      BY <2>4, RefreshedKeeps
  <2>7. rows[e] \in GoodControls => new \in GoodControls
    <3> HIDE DEF mid, new, final, rating, remedied
    <3>1. SUFFICES ASSUME rows[e] \in GoodControls, NEW u \in Finalised(new)
                   PROVE  /\ \A s \in new.tests[u].findings \ {"low"} : new.tests[u].remedied[s] # "none"
                          /\ new.tests[u].rating = CalculateEffectiveness(new.tests[u])
      BY <2>6 DEF GoodControls
    <3>2. CASE u = t
      BY <2>2, <2>3, <2>4, <2>5, <2>6, <3>1, <3>2 DEF GoodControls
    <3>3. CASE u # t
      BY <2>4, <2>6, <3>1, <3>3 DEF GoodControls, Finalised
    <3> QED
      BY <3>2, <3>3
  <2>8. Handle(q, e, new)
    BY <1>5 DEF FinaliseTest
  <2> QED
    BY <2>6, <2>7, <2>8, HandleKeeps
<1>6. ASSUME CreateRemediation(q, e)
      PROVE  KeepsTo(q, e, ControlRows, GoodControls)
  <2> DEFINE new == [rows[e] EXCEPT !.extra.status = "open"]
  <2>1. rows[e] \in ControlRows =>
          /\ new \in ControlRows
          /\ new.tests = rows[e].tests
    BY DEF ControlRows, TestRow, ControlStatuses, Ratings, Severities, RemediationStatuses
  <2>2. rows[e] \in GoodControls => new \in GoodControls
    <3> HIDE DEF new
    <3> QED
      BY <1>6, <2>1 DEF GoodControls, CalculateEffectiveness, Finalised, ControlRows
  <2> QED
    BY <1>6, <2>1, <2>2, HandleKeeps DEF CreateRemediation
<1>7. ASSUME NEW status \in RemediationStatuses, UpdateRemediation(q, e, status)
      PROVE  KeepsTo(q, e, ControlRows, GoodControls)
  <2>1. ASSUME NEW mid, Handle(q, e, AfterRemediation(mid, status)),
               rows[e] \in ControlRows => mid \in ControlRows,
               rows[e] \in GoodControls => mid \in GoodControls
        PROVE  KeepsTo(q, e, ControlRows, GoodControls)
    <3> DEFINE new == AfterRemediation(mid, status)
    <3>1. mid \in ControlRows => new \in ControlRows /\ new.tests = mid.tests
      BY RefreshedKeeps DEF AfterRemediation
    <3> HIDE DEF new
    <3>2. mid \in GoodControls => new \in GoodControls
      BY <3>1 DEF GoodControls, Finalised
    <3>3. rows[e] \in ControlRows => new \in ControlRows
      BY <2>1, <3>1
    <3>4. rows[e] \in GoodControls => new \in GoodControls
      BY <2>1, <3>2
    <3>5. Handle(q, e, new)
      BY <2>1 DEF new
    <3> QED
      BY <3>3, <3>4, <3>5, HandleKeeps
  <2>2. CASE Handle(q, e, AfterRemediation([rows[e] EXCEPT !.extra.status = status], status))
    <3> DEFINE mid == [rows[e] EXCEPT !.extra.status = status]
    <3>1. rows[e] \in ControlRows => mid \in ControlRows /\ mid.tests = rows[e].tests
      BY DEF ControlRows
    <3>2. rows[e] \in GoodControls => mid \in GoodControls
      <4> HIDE DEF mid
      <4> QED
        BY <3>1 DEF GoodControls, Finalised
    <3> QED
      BY <2>1, <2>2, <3>1, <3>2
  <2>3. ASSUME NEW t \in Finalised(rows[e]), NEW s \in Severities,
               Handle(q, e, AfterRemediation([rows[e] EXCEPT !.tests[t].remedied[s] = status], status))
        PROVE  KeepsTo(q, e, ControlRows, GoodControls)
    <3> DEFINE mid == [rows[e] EXCEPT !.tests[t].remedied[s] = status]
    <3>1. rows[e] \in ControlRows
            => /\ mid \in ControlRows
               /\ \A u \in Tests \ {t} : mid.tests[u] = rows[e].tests[u]
               /\ mid.tests[t].findings = rows[e].tests[t].findings
               /\ mid.tests[t].samples = rows[e].tests[t].samples
               /\ mid.tests[t].finalised = rows[e].tests[t].finalised
               /\ mid.tests[t].rating = rows[e].tests[t].rating
               /\ \A v \in Severities \ {s} :
                      mid.tests[t].remedied[v] = rows[e].tests[t].remedied[v]
               /\ mid.tests[t].remedied[s] = status
      <4> SUFFICES ASSUME rows[e] \in ControlRows
                   PROVE  /\ mid \in ControlRows
                          /\ \A u \in Tests \ {t} : mid.tests[u] = rows[e].tests[u]
                          /\ mid.tests[t].findings = rows[e].tests[t].findings
                          /\ mid.tests[t].samples = rows[e].tests[t].samples
                          /\ mid.tests[t].finalised = rows[e].tests[t].finalised
                          /\ mid.tests[t].rating = rows[e].tests[t].rating
                          /\ \A v \in Severities \ {s} :
                                 mid.tests[t].remedied[v] = rows[e].tests[t].remedied[v]
                          /\ mid.tests[t].remedied[s] = status
        OBVIOUS
      <4> DEFINE row == [rows[e].tests[t] EXCEPT !.remedied[s] = status]
      <4>1. /\ t \in Tests
            /\ rows[e].tests \in [Tests -> TestRow]
            /\ rows[e].tests[t] \in TestRow
        BY DEF ControlRows, Finalised
      <4>2. /\ row \in TestRow
            /\ row.findings = rows[e].tests[t].findings
            /\ row.samples = rows[e].tests[t].samples
            /\ row.finalised = rows[e].tests[t].finalised
            /\ row.rating = rows[e].tests[t].rating
            /\ \A v \in Severities \ {s} : row.remedied[v] = rows[e].tests[t].remedied[v]
            /\ row.remedied[s] = status
        <5> DEFINE old == rows[e].tests[t]
        <5>1. old \in TestRow
          BY <4>1
        <5> HIDE DEF old
        <5>2. LET r == [old EXCEPT !.remedied[s] = status]
              IN  /\ r \in TestRow
                  /\ r.findings = old.findings
                  /\ r.samples = old.samples
                  /\ r.finalised = old.finalised
                  /\ r.rating = old.rating
                  /\ \A v \in Severities \ {s} : r.remedied[v] = old.remedied[v]
                  /\ r.remedied[s] = status
          BY <5>1 DEF TestRow
        <5> QED
          BY <5>2 DEF old
      <4>3. mid = [rows[e] EXCEPT !.tests = [rows[e].tests EXCEPT ![t] = row]]
        OBVIOUS
      <4> HIDE DEF mid, row
      <4> QED
        BY <4>1, <4>2, <4>3 DEF ControlRows
    <3>2. rows[e] \in ControlRows => rows[e].tests[t].findings \subseteq Severities
      BY DEF ControlRows, TestRow, Finalised
    <3>3. rows[e] \in GoodControls => mid \in GoodControls
      <4> HIDE DEF mid
      <4> SUFFICES ASSUME rows[e] \in GoodControls, NEW u \in Finalised(mid)
                   PROVE  /\ \A v \in mid.tests[u].findings \ {"low"} : mid.tests[u].remedied[v] # "none"
                          /\ mid.tests[u].rating = CalculateEffectiveness(mid.tests[u])
        BY <3>1 DEF GoodControls
      <4>1. CASE u # t
        BY <3>1, <4>1 DEF GoodControls, Finalised
      <4>2. CASE u = t
        BY <3>1, <3>2, <4>2 DEF GoodControls, Finalised, CalculateEffectiveness, RemediationStatuses
      <4> QED
        BY <4>1, <4>2
    <3> QED
      BY <2>1, <2>3, <3>1, <3>3
  <2> QED
    BY <1>7, <2>2, <2>3 DEF UpdateRemediation
<1> QED
  BY <1>1, <1>2, <1>3, <1>4, <1>5, <1>6, <1>7
  DEF ControlRequest

LEMMA ControlByColumn == ByColumn(ControlRows)
<1> SUFFICES ASSUME NEW now \in ControlRows, NEW seen \in ControlRows, NEW new \in ControlRows
             PROVE  Written(now, seen, new) \in ControlRows
  BY DEF ByColumn
<1> DEFINE w == Written(now, seen, new)
<1>1. w.tests \in [Tests -> TestRow]
  BY DEF Written, ControlRows, TestRow
<1>2. w \in ControlRows
  BY <1>1 DEF Written, ControlRows, TestRow
<1> QED
  BY <1>2

-----------------------------------------------------------------------------
(* The result is that of the scores, and each score is within its bounds.     *)
GoodScore(s) ==
    /\ s.residual <= 5 * s.inherent
    /\ s.ce = 0 => s.residual = 0
    /\ s.override = "none" /\ s.rating # "none" => s.rating = RiskRating(s.residual)

(* What a run comes to with the weights w.                                    *)
Effective(s) == IF s.override = "none" THEN s.residual ELSE OverrideValue(s)
Total(score, w) ==
    w["mandatory"] * Effective(score["mandatory"]) + w["custom"] * Effective(score["custom"])
Shares(w) == w["mandatory"] + w["custom"]
Result(run, score, w) ==
    [status |-> run.status, total |-> Total(score, w), shares |-> Shares(w),
     rating |-> AverageRating(Total(score, w), Shares(w)), by |-> w]

GoodRisk ==
    {r \in RiskRows :
        /\ \A f \in Factors : GoodScore(r.score[f])
        /\ r.run.status \in {"completed", "approved"}
             => r.run = Result(r.run, r.score, r.run.by)}

LEMMA Products == \A a, b \in 1 .. 5 : a * b \in 1 .. 25
BY SMT

LEMMA InherentType ==
    ASSUME NEW l \in Grades, NEW k \in Grades
    PROVE  InherentRisk(l, k) \in 1 .. 25
<1>1. Clamped(l) \in 1 .. 5 /\ Clamped(k) \in 1 .. 5
  BY DEF Clamped, Grades
<1> QED
  BY <1>1, Products DEF InherentRisk

LEMMA ResidualType ==
    ASSUME NEW i \in 1 .. 25, NEW ce \in Grades
    PROVE  ResidualRisk(i, ce) \in 0 .. 125 /\ ResidualRisk(i, ce) <= 5 * i
<1>1. Clamped(ce) = ce
  BY DEF Clamped, Grades
<1>2. CASE ce = 1
  BY <1>1, <1>2 DEF ResidualRisk
<1>3. CASE ce = 2
  BY <1>1, <1>3 DEF ResidualRisk
<1>4. CASE ce = 3
  BY <1>1, <1>4 DEF ResidualRisk
<1>5. CASE ce = 4
  BY <1>1, <1>5 DEF ResidualRisk
<1>6. CASE ce = 5
  BY <1>1, <1>6 DEF ResidualRisk
<1> QED
  BY <1>2, <1>3, <1>4, <1>5, <1>6 DEF Grades

LEMMA RatingType == ASSUME NEW x, NEW n PROVE AverageRating(x, n) \in RiskRatings
BY DEF AverageRating, RiskRatings

LEMMA CalculatedKeeps ==
    ASSUME NEW s \in ScoreRow
    PROVE  /\ Calculated(s) \in ScoreRow
           /\ GoodScore(s) => GoodScore(Calculated(s))
<1> DEFINE inherent == InherentRisk(s.likelihood, s.consequence)
           residual == ResidualRisk(inherent, s.ce)
           rating == RiskRating(residual)
           full == [s EXCEPT !.inherent = inherent, !.residual = residual, !.rating = rating]
<1>1. CASE s.likelihood = 0 \/ s.consequence = 0
  BY <1>1 DEF Calculated
<1>2. CASE s.likelihood # 0 /\ s.consequence # 0 /\ s.ce = 0
  <2>1. inherent \in 1 .. 25
    BY <1>2, InherentType DEF ScoreRow
  <2>2. Calculated(s) = [s EXCEPT !.inherent = inherent]
    BY <1>2 DEF Calculated
  <2> HIDE DEF inherent
  <2> QED
    BY <1>2, <2>1, <2>2 DEF ScoreRow, GoodScore
<1>3. CASE s.likelihood # 0 /\ s.consequence # 0 /\ s.ce # 0
  <2>1. inherent \in 1 .. 25
    BY <1>3, InherentType DEF ScoreRow
  <2>2. s.ce \in Grades
    BY <1>3 DEF ScoreRow
  <2>3. residual \in 0 .. 125 /\ residual <= 5 * inherent
    <3> HIDE DEF inherent
    <3> QED
      BY <2>1, <2>2, ResidualType
  <2>4. rating \in RiskRatings
    BY RatingType DEF RiskRating
  <2>5. Calculated(s) = full
    BY <1>3 DEF Calculated
  <2>6. full \in ScoreRow /\ full.inherent = inherent /\ full.residual = residual
        /\ full.rating = rating /\ full.ce = s.ce
    <3> HIDE DEF inherent, residual, rating
    <3>1. inherent \in 0 .. 25 /\ residual \in 0 .. 125 /\ rating \in RiskRatings
      BY <2>1, <2>3, <2>4
    <3>2. full \in ScoreRow
      BY <3>1 DEF ScoreRow
    <3>3. full.inherent = inherent /\ full.residual = residual /\ full.rating = rating
      BY DEF ScoreRow
    <3>4. full.ce = s.ce
      BY DEF ScoreRow
    <3> QED
      BY <3>2, <3>3, <3>4
  <2>7. GoodScore(full)
    <3>1. rating = RiskRating(residual)
      OBVIOUS
    <3> HIDE DEF inherent, residual, rating, full
    <3> QED
      BY <1>3, <2>3, <2>6, <3>1 DEF GoodScore
  <2> QED
    BY <2>5, <2>6, <2>7
<1> QED
  BY <1>1, <1>2, <1>3

LEMMA GradedKeeps ==
    ASSUME NEW s \in ScoreRow, NEW l \in {0} \union Grades, NEW k \in {0} \union Grades,
           NEW ce \in {0} \union Grades
    PROVE  /\ Graded(s, l, k, ce) \in ScoreRow
           /\ GoodScore(s) => GoodScore(Graded(s, l, k, ce))
<1> DEFINE entered == [s EXCEPT !.likelihood = IF l = 0 THEN @ ELSE l,
                                !.consequence = IF k = 0 THEN @ ELSE k,
                                !.ce = IF ce = 0 THEN @ ELSE ce]
<1> DEFINE likelihood == IF l = 0 THEN s.likelihood ELSE l
           consequence == IF k = 0 THEN s.consequence ELSE k
           effect == IF ce = 0 THEN s.ce ELSE ce
           graded == [s EXCEPT !.likelihood = likelihood, !.consequence = consequence, !.ce = effect]
<1>1. /\ likelihood \in {0} \union Grades /\ consequence \in {0} \union Grades
      /\ effect \in {0} \union Grades
      /\ effect = 0 => s.ce = 0
  BY DEF ScoreRow, Grades
<1>5. entered = graded
  BY DEF ScoreRow
<1> HIDE DEF entered, likelihood, consequence, effect
<1>3. entered \in ScoreRow
  BY <1>1, <1>5 DEF ScoreRow
<1>4. GoodScore(s) => GoodScore(entered)
  <2>1. /\ graded.residual = s.residual /\ graded.inherent = s.inherent
        /\ graded.override = s.override /\ graded.rating = s.rating /\ graded.ce = effect
    BY DEF ScoreRow
  <2> HIDE DEF graded
  <2> QED
    BY <1>1, <1>5, <2>1 DEF GoodScore
<1>2. Graded(s, l, k, ce) = Calculated(entered)
  BY DEF Graded, entered
<1> QED
  BY <1>2, <1>3, <1>4, CalculatedKeeps

LEMMA RunsEqual ==
    ASSUME NEW a \in RunRow, NEW b \in RunRow, a.status = b.status, a.total = b.total,
           a.shares = b.shares, a.rating = b.rating, a.by = b.by
    PROVE  a = b
BY DEF RunRow

LEMMA ResultType ==
    ASSUME NEW run \in RunRow, NEW score \in [Factors -> ScoreRow], NEW w \in Weightings
    PROVE  Result(run, score, w) \in RunRow
<1> DEFINE a == Effective(score["mandatory"])
           b == Effective(score["custom"])
<1>1. score["mandatory"] \in ScoreRow /\ score["custom"] \in ScoreRow
  BY DEF Factors
<1>2. a \in 0 .. 125 /\ b \in 0 .. 125
  BY <1>1 DEF Effective, OverrideValue, ScoreRow
<1>3. w["mandatory"] \in 0 .. 1 /\ w["custom"] \in 0 .. 1
  BY DEF Weightings, Factors
<1> HIDE DEF a, b
<1>4. w["mandatory"] * a \in 0 .. 125
  <2>1. w["mandatory"] = 0 \/ w["mandatory"] = 1
    BY <1>3
  <2> QED
    BY <1>2, <2>1
<1>5. w["custom"] * b \in 0 .. 125
  <2>1. w["custom"] = 0 \/ w["custom"] = 1
    BY <1>3
  <2> QED
    BY <1>2, <2>1
<1>6. Total(score, w) \in 0 .. 250
  BY <1>4, <1>5 DEF Total, a, b
<1>7. Shares(w) \in 0 .. 2
  BY <1>3 DEF Shares
<1>8. AverageRating(Total(score, w), Shares(w)) \in RiskRatings
  BY RatingType
<1> QED
  BY <1>6, <1>7, <1>8 DEF Result, RunRow

LEMMA RecalculatedIs ==
    ASSUME NEW r \in RiskRows
    PROVE  Recalculated(r) = [r EXCEPT !.run = Result(r.run, r.score, r.framework.weights)]
<1> DEFINE w == r.framework.weights
           total == Total(r.score, w)
           shares == Shares(w)
           rating == AverageRating(total, shares)
           mid == [r EXCEPT !.run.total = total, !.run.shares = shares, !.run.rating = rating,
                            !.run.by = w]
<1>1. Recalculated(r) = mid
  BY DEF Recalculated, Total, Shares, Effective
<1>2. Result(r.run, r.score, w) = [status |-> r.run.status, total |-> total, shares |-> shares,
                                   rating |-> rating, by |-> w]
  BY DEF Result
<1> DEFINE run == [status |-> r.run.status, total |-> total, shares |-> shares,
                    rating |-> rating, by |-> w]
<1>3. r.run \in RunRow
  BY DEF RiskRows
<1>4. [r.run EXCEPT !.total = total, !.shares = shares, !.rating = rating, !.by = w] = run
  <2> DEFINE last == [r.run EXCEPT !.total = total, !.shares = shares, !.rating = rating, !.by = w]
  <2>1. run \in RunRow
    <3>1. r.score \in [Factors -> ScoreRow] /\ w \in Weightings
      BY DEF RiskRows
    <3> QED
      BY <1>2, <1>3, <3>1, ResultType
  <2> HIDE DEF w, total, shares, rating
  <2>2. total \in 0 .. 250 /\ shares \in 0 .. 2 /\ rating \in RiskRatings \union {"none"}
        /\ w \in Weightings
    BY <2>1 DEF RunRow
  <2>3. last \in RunRow
    BY <1>3, <2>2 DEF RunRow
  <2>4. /\ last.status = r.run.status /\ last.total = total /\ last.shares = shares
        /\ last.rating = rating /\ last.by = w
    BY <1>3 DEF RunRow
  <2> HIDE DEF last
  <2>5. last = run
    BY <2>1, <2>3, <2>4, RunsEqual
  <2> QED
    BY <2>5 DEF last
<1>5. mid = [r EXCEPT !.run = [r.run EXCEPT !.total = total, !.shares = shares, !.rating = rating,
                                            !.by = w]]
  <2> HIDE DEF w, total, shares, rating
  <2> QED
    BY DEF RiskRows, RunRow
<1> QED
  BY <1>1, <1>2, <1>4, <1>5

LEMMA RecalculatedKeeps ==
    ASSUME NEW r \in RiskRows
    PROVE  /\ Recalculated(r) \in RiskRows
           /\ (\A f \in Factors : GoodScore(r.score[f])) => Recalculated(r) \in GoodRisk
<1> DEFINE w == r.framework.weights
           run == Result(r.run, r.score, w)
           new == [r EXCEPT !.run = run]
<1>1. w \in Weightings /\ r.run \in RunRow /\ r.score \in [Factors -> ScoreRow]
  BY DEF RiskRows
<1>2. run \in RunRow
  BY <1>1, ResultType
<1>3. run.by = w /\ run = Result(run, r.score, run.by)
  BY DEF Result
<1> HIDE DEF w, run
<1>4. new \in RiskRows /\ new.run = run /\ new.score = r.score
  BY <1>2 DEF RiskRows
<1>5. Recalculated(r) = new
  BY RecalculatedIs DEF w, run
<1> QED
  BY <1>3, <1>4, <1>5 DEF GoodRisk

LEMMA RiskKeeps ==
    ASSUME NEW q, NEW e, RiskRequest(q, e)
    PROVE  KeepsTo(q, e, RiskRows, GoodRisk)
<1>1. ASSUME NEW w \in Weightings, UpdateCategoryWeights(q, e, w)
      PROVE  KeepsTo(q, e, RiskRows, GoodRisk)
  <2> DEFINE new == [rows[e] EXCEPT !.framework.weights = w]
  <2>1. rows[e] \in RiskRows =>
          /\ new \in RiskRows
          /\ new.run = rows[e].run
          /\ new.score = rows[e].score
    BY DEF RiskRows
  <2>2. rows[e] \in GoodRisk => new \in GoodRisk
    <3> HIDE DEF new
    <3> QED
      BY <1>1, <2>1 DEF GoodRisk
  <2> QED
    BY <1>1, <2>1, <2>2, HandleKeeps DEF UpdateCategoryWeights
<1>2. ASSUME AddCustomFactor(q, e)
      PROVE  KeepsTo(q, e, RiskRows, GoodRisk)
  <2> DEFINE new == [rows[e] EXCEPT !.framework.custom = TRUE]
  <2>1. rows[e] \in RiskRows =>
          /\ new \in RiskRows
          /\ new.run = rows[e].run
          /\ new.score = rows[e].score
    BY DEF RiskRows
  <2>2. rows[e] \in GoodRisk => new \in GoodRisk
    <3> HIDE DEF new
    <3> QED
      BY <1>2, <2>1 DEF GoodRisk
  <2> QED
    BY <1>2, <2>1, <2>2, HandleKeeps DEF AddCustomFactor
<1>3. ASSUME CreateRun(q, e)
      PROVE  KeepsTo(q, e, RiskRows, GoodRisk)
  <2> DEFINE score == [f \in Factors |->
                 [NoScore EXCEPT !.exists = f = "mandatory" \/ rows[e].framework.custom]]
             mid == [rows[e] EXCEPT !.run.status = "draft"]
             new == [mid EXCEPT !.score = score]
  <2>1. score \in [Factors -> ScoreRow] /\ \A f \in Factors : GoodScore(score[f])
    <3> SUFFICES ASSUME NEW f \in Factors
                 PROVE  score[f] \in ScoreRow /\ GoodScore(score[f])
      OBVIOUS
    <3>1. score[f] = [exists |-> (f = "mandatory" \/ rows[e].framework.custom), likelihood |-> 0,
                      consequence |-> 0, ce |-> 0, inherent |-> 0, residual |-> 0,
                      override |-> "none", rating |-> "none"]
      BY DEF NoScore
    <3> HIDE DEF score
    <3>2. score[f] \in ScoreRow
      BY <3>1 DEF ScoreRow
    <3>3. GoodScore(score[f])
      BY <3>1 DEF GoodScore
    <3> QED
      BY <3>2, <3>3
  <2>2. rows[e] \in RiskRows => mid \in RiskRows /\ mid.run.status = "draft"
    BY DEF RiskRows, RunRow
  <2>3. rows[e] \in RiskRows => new \in RiskRows /\ new.run.status = "draft" /\ new.score = score
    <3> HIDE DEF mid, score
    <3> QED
      BY <2>1, <2>2 DEF RiskRows
  <2>4. rows[e] \in GoodRisk => new \in GoodRisk
    <3> HIDE DEF mid, new, score
    <3> QED
      BY <2>1, <2>3 DEF GoodRisk
  <2> QED
    BY <1>3, <2>3, <2>4, HandleKeeps DEF CreateRun
<1>4. ASSUME RecalculateScores(q, e)
      PROVE  KeepsTo(q, e, RiskRows, GoodRisk)
  BY <1>4, RecalculatedKeeps, HandleKeeps DEF RecalculateScores, GoodRisk
<1>5. ASSUME NEW f \in Factors, NEW s, Scored(q, e, f, s),
            rows[e].run.status \in {"draft", "in_progress"},
            rows[e] \in RiskRows => s \in ScoreRow, rows[e] \in GoodRisk => GoodScore(s)
      PROVE  KeepsTo(q, e, RiskRows, GoodRisk)
  <2> DEFINE status == IF rows[e].run.status = "draft" THEN "in_progress" ELSE rows[e].run.status
             mid == [rows[e] EXCEPT !.score[f] = s]
             new == [mid EXCEPT !.run.status = status]
  <2>1. status = "in_progress"
    BY <1>5
  <2>2. rows[e] \in RiskRows
          => /\ mid \in RiskRows
             /\ mid.run = rows[e].run
             /\ mid.score = [rows[e].score EXCEPT ![f] = s]
    BY <1>5 DEF RiskRows
  <2>3. rows[e] \in RiskRows
          => /\ new \in RiskRows
             /\ new.run.status = "in_progress"
             /\ new.score = mid.score
    <3> HIDE DEF mid, status
    <3> QED
      BY <2>1, <2>2 DEF RiskRows, RunRow
  <2>4. rows[e] \in GoodRisk => new \in GoodRisk
    <3> HIDE DEF mid, new
    <3> QED
      BY <1>5, <2>2, <2>3 DEF GoodRisk, RiskRows
  <2>5. Handle(q, e, new)
    BY <1>5 DEF Scored
  <2> QED
    BY <2>3, <2>4, <2>5, HandleKeeps
<1>6. ASSUME NEW f \in Factors, NEW l \in {0} \union Marks, NEW k \in {0} \union Marks,
            NEW ce \in {0} \union Marks, ScoreFactor(q, e, f, l, k, ce)
      PROVE  KeepsTo(q, e, RiskRows, GoodRisk)
  <2>1. rows[e] \in RiskRows => rows[e].score[f] \in ScoreRow
    BY DEF RiskRows
  <2>2. rows[e] \in RiskRows => Graded(rows[e].score[f], l, k, ce) \in ScoreRow
    BY <2>1, GradedKeeps, MarksAssumption
  <2>3. rows[e] \in GoodRisk => GoodScore(Graded(rows[e].score[f], l, k, ce))
    BY <2>1, GradedKeeps, MarksAssumption DEF GoodRisk
  <2> QED
    BY <1>6, <1>5, <2>2, <2>3 DEF ScoreFactor
<1>7. ASSUME NEW f \in Factors, NEW value \in {"minimum", "maximum"},
            OverrideScore(q, e, f, value)
      PROVE  KeepsTo(q, e, RiskRows, GoodRisk)
  <2> DEFINE calculated == Calculated(rows[e].score[f])
             mid == [calculated EXCEPT !.override = value]
             rating == RiskRating(OverrideValue(mid))
             s == [mid EXCEPT !.rating = rating]
  <2>1. rows[e] \in RiskRows => rows[e].score[f] \in ScoreRow
    BY DEF RiskRows
  <2>2. /\ rows[e] \in RiskRows => calculated \in ScoreRow
        /\ rows[e] \in GoodRisk => GoodScore(calculated)
    BY <2>1, CalculatedKeeps DEF GoodRisk
  <2>3. rating \in RiskRatings
    BY RatingType DEF RiskRating
  <2>4. /\ rows[e] \in RiskRows => s \in ScoreRow
        /\ rows[e] \in GoodRisk => GoodScore(s)
    <3> HIDE DEF calculated, rating
    <3> QED
      BY ZenonT(40), <2>2, <2>3 DEF ScoreRow, GoodScore, GoodRisk
  <2>5. Scored(q, e, f, s) /\ rows[e].run.status \in {"draft", "in_progress"}
    BY <1>7 DEF OverrideScore
  <2> HIDE DEF s
  <2> QED
    BY <1>5, <2>4, <2>5
<1>8. ASSUME AddMitigation(q, e)
      PROVE  KeepsTo(q, e, RiskRows, GoodRisk)
  <2> DEFINE new == [rows[e] EXCEPT !.mitigation.status = "not_started"]
  <2>1. rows[e] \in RiskRows =>
          /\ new \in RiskRows
          /\ new.run = rows[e].run
          /\ new.score = rows[e].score
    BY DEF RiskRows, RunRow, MitigationStatuses
  <2>2. rows[e] \in GoodRisk => new \in GoodRisk
    <3> HIDE DEF new
    <3> QED
      BY <1>8, <2>1 DEF GoodRisk
  <2> QED
    BY <1>8, <2>1, <2>2, HandleKeeps DEF AddMitigation
<1>9. ASSUME NEW status \in MitigationStatuses, UpdateMitigation(q, e, status)
      PROVE  KeepsTo(q, e, RiskRows, GoodRisk)
  <2> DEFINE new == [rows[e] EXCEPT !.mitigation.status = status]
  <2>1. rows[e] \in RiskRows =>
          /\ new \in RiskRows
          /\ new.run = rows[e].run
          /\ new.score = rows[e].score
    BY DEF RiskRows, RunRow, MitigationStatuses
  <2>2. rows[e] \in GoodRisk => new \in GoodRisk
    <3> HIDE DEF new
    <3> QED
      BY <1>9, <2>1 DEF GoodRisk
  <2> QED
    BY <1>9, <2>1, <2>2, HandleKeeps DEF UpdateMitigation
<1>10. ASSUME SubmitRun(q, e)
      PROVE  KeepsTo(q, e, RiskRows, GoodRisk)
  <2> DEFINE mid == [rows[e] EXCEPT !.run.status = "completed"]
  <2>1. rows[e] \in RiskRows => mid \in RiskRows /\ mid.score = rows[e].score
    BY DEF RiskRows, RunRow
  <2>2. Handle(q, e, Recalculated(mid))
    BY <1>10 DEF SubmitRun
  <2> HIDE DEF mid
  <2> QED
    BY <2>1, <2>2, RecalculatedKeeps, HandleKeeps DEF GoodRisk
<1>11. ASSUME ApproveRun(q, e)
      PROVE  KeepsTo(q, e, RiskRows, GoodRisk)
  <2> DEFINE run == [rows[e].run EXCEPT !.status = "approved"]
             new == [rows[e] EXCEPT !.run.status = "approved"]
  <2>1. rows[e] \in RiskRows
          => /\ new \in RiskRows /\ new.run = run /\ new.score = rows[e].score
             /\ run = [status |-> "approved", total |-> rows[e].run.total,
                       shares |-> rows[e].run.shares, rating |-> rows[e].run.rating,
                       by |-> rows[e].run.by]
    BY DEF RiskRows, RunRow
  <2>2. rows[e] \in GoodRisk => rows[e].run = Result(rows[e].run, rows[e].score, rows[e].run.by)
    BY <1>11 DEF ApproveRun, GoodRisk
  <2>3. rows[e] \in GoodRisk => new.run = Result(new.run, new.score, new.run.by)
    <3> HIDE DEF run, new
    <3> QED
      BY <2>1, <2>2 DEF Result, GoodRisk
  <2>4. rows[e] \in GoodRisk => new \in GoodRisk
    <3> HIDE DEF new
    <3> QED
      BY <2>1, <2>3 DEF GoodRisk
  <2> QED
    BY <1>11, <2>1, <2>4, HandleKeeps DEF ApproveRun
<1> QED
  BY <1>1, <1>2, <1>3, <1>4, <1>5, <1>6, <1>7, <1>8, <1>9, <1>10, <1>11
  DEF RiskRequest

LEMMA RiskByColumn == ByColumn(RiskRows)
<1> SUFFICES ASSUME NEW now \in RiskRows, NEW seen \in RiskRows, NEW new \in RiskRows
             PROVE  Written(now, seen, new) \in RiskRows
  BY DEF ByColumn
<1> DEFINE w == Written(now, seen, new)
<1>1. w.framework \in [weights : Weightings, custom : BOOLEAN]
  BY DEF Written, RiskRows
<1>2. w.run \in RunRow
  BY DEF Written, RiskRows, RunRow
<1>3. w.score \in [Factors -> ScoreRow]
  BY DEF Written, RiskRows
<1>4. w \in RiskRows
  BY <1>1, <1>2, <1>3 DEF Written, RiskRows
<1> QED
  BY <1>4

-----------------------------------------------------------------------------
(* The latest version is a snapshot of the matrix.                            *)
GoodMatrices ==
    {r \in MatrixRows :
        /\ r.version.profiles = r.profiles
        /\ r.factors = IF r.version.change = "factor_deleted"
                       THEN [r.version.factors EXCEPT !["custom"] = <<>>]
                       ELSE r.version.factors}

Changes == {"none", "seeded_defaults", "factor_added", "factor_updated", "factor_deleted",
            "weights_rebalanced", "profile_updated", "restored_defaults"}

LEMMA VersionedIsGood ==
    ASSUME NEW r \in MatrixRows, NEW change \in Changes \ {"factor_deleted"}
    PROVE  Versioned(r, change) \in GoodMatrices
BY DEF Versioned, RecordVersion, GoodMatrices, MatrixRows, Changes

LEMMA FirstFactors ==
    /\ NoFactors \in [FactorKeys -> FactorRow]
    /\ [NoFactors EXCEPT !["system"] = <<"default", TRUE>>] \in [FactorKeys -> FactorRow]
BY DEF NoFactors, FactorKeys, FactorRow

LEMMA DefaultsKeep ==
    ASSUME NEW r \in MatrixRows
    PROVE  /\ EnsureDefaults(r) \in MatrixRows
           /\ r \in GoodMatrices => EnsureDefaults(r) \in GoodMatrices
<1> DEFINE full == [r EXCEPT !.factors["system"] = <<"default", TRUE>>, !.profiles = DefaultProfiles]
<1>1. full \in MatrixRows
  BY DEF MatrixRows, FactorKeys, FactorRow, DefaultProfiles
<1>2. EnsureDefaults(r) = IF r.factors # NoFactors THEN r ELSE Versioned(full, "seeded_defaults")
  BY DEF EnsureDefaults
<1> HIDE DEF full
<1>3. Versioned(full, "seeded_defaults") \in GoodMatrices
  BY <1>1, VersionedIsGood DEF Changes
<1> QED
  BY <1>2, <1>3 DEF GoodMatrices

LEMMA MatrixKeeps ==
    ASSUME NEW q, NEW e, MatrixRequest(q, e)
    PROVE  KeepsTo(q, e, MatrixRows, GoodMatrices)
<1>1. ASSUME ListMatrix(q, e)
      PROVE  KeepsTo(q, e, MatrixRows, GoodMatrices)
  BY <1>1, DefaultsKeep, HandleKeeps DEF ListMatrix, GoodMatrices
<1>2. ASSUME AddRiskFactor(q, e)
      PROVE  KeepsTo(q, e, MatrixRows, GoodMatrices)
  <2> DEFINE full == EnsureDefaults(rows[e])
             mid == [full EXCEPT !.factors["custom"] = <<"changed", TRUE>>]
  <2>1. rows[e] \in MatrixRows => full \in MatrixRows
    BY DefaultsKeep
  <2>2. Handle(q, e, Versioned(mid, "factor_added"))
    BY <1>2 DEF AddRiskFactor
  <2>3. rows[e] \in MatrixRows => mid \in MatrixRows
    <3> HIDE DEF full
    <3> QED
      BY <2>1 DEF MatrixRows, FactorKeys, FactorRow
  <2> HIDE DEF mid
  <2>4. rows[e] \in MatrixRows => Versioned(mid, "factor_added") \in GoodMatrices
    BY <2>3, VersionedIsGood DEF Changes
  <2> QED
    BY <2>2, <2>4, HandleKeeps DEF GoodMatrices
<1>3. ASSUME NEW k \in FactorKeys, NEW weight \in {"default", "changed"},
            NEW active \in BOOLEAN, UpdateRiskFactor(q, e, k, weight, active)
      PROVE  KeepsTo(q, e, MatrixRows, GoodMatrices)
  <2> DEFINE mid == [rows[e] EXCEPT !.factors[k] = <<weight, active>>]
  <2>1. rows[e] \in MatrixRows => mid \in MatrixRows
    BY DEF MatrixRows, FactorKeys, FactorRow
  <2>2. Handle(q, e, Versioned(mid, "factor_updated"))
    BY <1>3 DEF UpdateRiskFactor
  <2> HIDE DEF mid
  <2>3. rows[e] \in MatrixRows => Versioned(mid, "factor_updated") \in GoodMatrices
    BY <2>1, VersionedIsGood DEF Changes
  <2> QED
    BY <2>2, <2>3, HandleKeeps DEF GoodMatrices
<1>4. ASSUME DeleteRiskFactor(q, e)
      PROVE  KeepsTo(q, e, MatrixRows, GoodMatrices)
  <2> DEFINE mid == [rows[e] EXCEPT !.factors["custom"] = <<>>]
             new == RecordVersion(mid, rows[e], "factor_deleted")
  <2>1. rows[e] \in MatrixRows
          => /\ mid \in MatrixRows /\ mid.profiles = rows[e].profiles
             /\ mid.factors = [rows[e].factors EXCEPT !["custom"] = <<>>]
    BY DEF MatrixRows, FactorKeys, FactorRow
  <2>2. Handle(q, e, new)
    BY <1>4 DEF DeleteRiskFactor
  <2>3. rows[e] \in MatrixRows => new \in GoodMatrices
    <3> HIDE DEF mid
    <3> QED
      BY <2>1 DEF RecordVersion, GoodMatrices, MatrixRows
  <2> QED
    BY <2>2, <2>3, HandleKeeps DEF GoodMatrices
<1>5. ASSUME NEW named \in SUBSET FactorKeys, RebalanceWeights(q, e, named)
      PROVE  KeepsTo(q, e, MatrixRows, GoodMatrices)
  <2> DEFINE factors == [k \in FactorKeys |->
                 IF /\ k \in named /\ rows[e].factors[k] # <<>>
                    /\ rows[e].factors[k] # <<"default", FALSE>>
                    /\ rows[e].factors[k] # <<"changed", FALSE>>
                 THEN <<"changed", TRUE>> ELSE rows[e].factors[k]]
             mid == [rows[e] EXCEPT !.factors = factors]
  <2>1. rows[e] \in MatrixRows => factors \in [FactorKeys -> FactorRow]
    BY DEF MatrixRows, FactorRow
  <2>2. rows[e] \in MatrixRows => mid \in MatrixRows
    <3> HIDE DEF factors
    <3> QED
      BY <2>1 DEF MatrixRows
  <2>3. Handle(q, e, Versioned(mid, "weights_rebalanced"))
    BY <1>5 DEF RebalanceWeights
  <2> HIDE DEF mid
  <2>4. rows[e] \in MatrixRows => Versioned(mid, "weights_rebalanced") \in GoodMatrices
    BY <2>2, VersionedIsGood DEF Changes
  <2> QED
    BY <2>3, <2>4, HandleKeeps DEF GoodMatrices
<1>6. ASSUME NEW l \in Levels, UpdateRiskProfile(q, e, l)
      PROVE  KeepsTo(q, e, MatrixRows, GoodMatrices)
  <2> DEFINE mid == [rows[e] EXCEPT !.profiles[l] = "changed"]
  <2>1. rows[e] \in MatrixRows => mid \in MatrixRows
    BY DEF MatrixRows, Levels
  <2>2. Handle(q, e, Versioned(mid, "profile_updated"))
    BY <1>6 DEF UpdateRiskProfile
  <2> HIDE DEF mid
  <2>3. rows[e] \in MatrixRows => Versioned(mid, "profile_updated") \in GoodMatrices
    BY <2>1, VersionedIsGood DEF Changes
  <2> QED
    BY <2>2, <2>3, HandleKeeps DEF GoodMatrices
<1>7. ASSUME NEW section, RestoreDefaults(q, e, section)
      PROVE  KeepsTo(q, e, MatrixRows, GoodMatrices)
  <2> DEFINE mid == [rows[e] EXCEPT
                 !.factors = IF section = "profiles" THEN @
                             ELSE [NoFactors EXCEPT !["system"] = <<"default", TRUE>>],
                 !.profiles = IF section = "factors" THEN @
                              ELSE [l \in Levels |-> IF @[l] = "none" THEN "none" ELSE "default"]]
  <2>1. rows[e] \in MatrixRows => mid \in MatrixRows
    BY FirstFactors DEF MatrixRows, Levels
  <2>2. Handle(q, e, Versioned(mid, "restored_defaults"))
    BY <1>7 DEF RestoreDefaults
  <2> HIDE DEF mid
  <2>3. rows[e] \in MatrixRows => Versioned(mid, "restored_defaults") \in GoodMatrices
    BY <2>1, VersionedIsGood DEF Changes
  <2> QED
    BY <2>2, <2>3, HandleKeeps DEF GoodMatrices
<1> QED
  BY <1>1, <1>2, <1>3, <1>4, <1>5, <1>6, <1>7
  DEF MatrixRequest

LEMMA MatrixByColumn == ByColumn(MatrixRows)
<1> SUFFICES ASSUME NEW now \in MatrixRows, NEW seen \in MatrixRows, NEW new \in MatrixRows
             PROVE  Written(now, seen, new) \in MatrixRows
  BY DEF ByColumn
<1> DEFINE w == Written(now, seen, new)
<1>1. w.factors \in [FactorKeys -> FactorRow]
  BY DEF Written, MatrixRows
<1>2. w.profiles \in [Levels -> {"none", "default", "changed"}]
  BY DEF Written, MatrixRows
<1>3. w.version \in [change : {"none", "seeded_defaults", "factor_added", "factor_updated",
                            "factor_deleted", "weights_rebalanced", "profile_updated",
                            "restored_defaults"},
                  factors : [FactorKeys -> FactorRow],
                  profiles : [Levels -> {"none", "default", "changed"}]]
  BY DEF Written, MatrixRows
<1>4. w \in MatrixRows
  BY <1>1, <1>2, <1>3 DEF Written, MatrixRows
<1> QED
  BY <1>4

-----------------------------------------------------------------------------
(* One program is active, and it is as it was signed, like the assessment.    *)
GoodPrograms ==
    {r \in ProgramRows :
        /\ ~(r.v1.status = "active" /\ r.v2.status = "active")
        /\ \A v \in Drafts : r[v].status = "active" => r[v].signed = r[v].text
        /\ r.ewra.status = "approved" => r.ewra.signed = r.ewra.text}

LEMMA ProgramKeeps ==
    ASSUME NEW q, NEW e, ProgramRequest(q, e)
    PROVE  KeepsTo(q, e, ProgramRows, GoodPrograms)
<1>1. ASSUME NEW v \in Drafts, CreateProgram(q, e, v)
      PROVE  KeepsTo(q, e, ProgramRows, GoodPrograms)
  BY ZenonT(40), <1>1, HandleKeeps DEF CreateProgram, ProgramStatuses, GoodPrograms, ProgramRows,
     ProgramRow, Drafts
<1>2. ASSUME NEW v \in Drafts, SubmitForReview(q, e, v)
      PROVE  KeepsTo(q, e, ProgramRows, GoodPrograms)
  BY ZenonT(40), <1>2, HandleKeeps DEF SubmitForReview, ProgramStatuses, GoodPrograms, ProgramRows,
     ProgramRow, Drafts
<1>3. ASSUME NEW v \in Drafts, ActivateProgram(q, e, v)
      PROVE  KeepsTo(q, e, ProgramRows, GoodPrograms)
  <2> DEFINE mid == Superseded(rows[e])
             new == [mid EXCEPT ![v].status = "active", ![v].signed = rows[e][v].text]
  <2>1. rows[e] \in ProgramRows =>
          /\ mid \in ProgramRows
          /\ mid.ewra = rows[e].ewra
          /\ \A w \in Drafts : mid[w].status # "active" /\ mid[w].text = rows[e][w].text
    BY ZenonT(40) DEF ProgramRows, ProgramRow, ProgramStatuses, Drafts, Superseded
  <2>2. rows[e] \in ProgramRows =>
          /\ new \in ProgramRows
          /\ new.ewra = mid.ewra
          /\ new[v].signed = new[v].text
          /\ \A w \in Drafts \ {v} : new[w] = mid[w]
    <3> HIDE DEF mid
    <3> QED
      BY <2>1 DEF ProgramRows, ProgramRow, ProgramStatuses, Drafts, Superseded
  <2>3. rows[e] \in GoodPrograms => new \in GoodPrograms
    <3> HIDE DEF mid, new
    <3> QED
      BY <1>3, <2>1, <2>2 DEF GoodPrograms, Drafts
  <2> QED
    BY <1>3, <2>2, <2>3, HandleKeeps DEF ActivateProgram
<1>4. ASSUME NEW v \in Drafts, NEW text \in Wordings, UpdateProgram(q, e, v, text)
      PROVE  KeepsTo(q, e, ProgramRows, GoodPrograms)
  BY ZenonT(40), <1>4, HandleKeeps DEF UpdateProgram, Editable, GoodPrograms, ProgramRows, ProgramRow,
     Drafts
<1>5. ASSUME NEW v \in Drafts, NEW changes \in BOOLEAN, RecordAnnualReview(q, e, v, changes)
      PROVE  KeepsTo(q, e, ProgramRows, GoodPrograms)
  BY ZenonT(40), <1>5, HandleKeeps DEF RecordAnnualReview, ProgramStatuses, GoodPrograms, ProgramRows,
     ProgramRow, Drafts
<1>6. ASSUME CreateEwra(q, e) \/ CompleteEwra(q, e)
      PROVE  KeepsTo(q, e, ProgramRows, GoodPrograms)
  BY <1>6, HandleKeeps DEF CreateEwra, CompleteEwra, EwraStatuses, GoodPrograms,
     ProgramRows, ProgramRow, Drafts
<1>7. ASSUME ApproveEwra(q, e)
      PROVE  KeepsTo(q, e, ProgramRows, GoodPrograms)
  BY <1>7, HandleKeeps DEF ApproveEwra, EwraStatuses, GoodPrograms, ProgramRows, ProgramRow,
     Drafts
<1>8. ASSUME NEW text \in Wordings, UpdateEwra(q, e, text)
      PROVE  KeepsTo(q, e, ProgramRows, GoodPrograms)
  BY ZenonT(40), <1>8, HandleKeeps DEF UpdateEwra, EwraStatuses, GoodPrograms, ProgramRows, ProgramRow,
     Drafts
<1> QED
  BY <1>1, <1>2, <1>3, <1>4, <1>5, <1>6, <1>7, <1>8
  DEF ProgramRequest

LEMMA ProgramByColumn == ByColumn(ProgramRows)
BY DEF ByColumn, Written, ProgramRows, ProgramRow

-----------------------------------------------------------------------------
LEMMA RetrievalsFinite ==
    /\ \A r : IsFiniteSet(Retrieved(r)) /\ Cardinality(Retrieved(r)) \in Nat
    /\ \A S \in SUBSET Requests :
         IsFiniteSet(S) /\ Cardinality(S) \in Nat /\ Cardinality(S) <= Cardinality(Requests)
    /\ Cardinality(Requests) \in Nat /\ MaxRetrievals \in Nat \ {0}
<1>1. Cardinality(Requests) \in Nat /\ MaxRetrievals \in Nat \ {0}
  BY RequestsAssumption, FS_CardinalityType, ProgramAssumption
<1>2. IsFiniteSet(Visits)
  BY <1>1, FS_Interval DEF Visits
<1>3. \A r : Retrieved(r) \in SUBSET Visits
  BY DEF Retrieved
<1> QED
  BY <1>1, <1>2, <1>3, RequestsAssumption, FS_Subset, FS_CardinalityType

LEMMA OneMore ==
    ASSUME NEW s, NEW a, NEW b, Retrieved(b) \subseteq Retrieved(a) \union {s}
    PROVE  Cardinality(Retrieved(b)) <= Cardinality(Retrieved(a)) + 1
<1>1. IsFiniteSet(Retrieved(a) \union {s})
      /\ Cardinality(Retrieved(a) \union {s}) \in {Cardinality(Retrieved(a)), Cardinality(Retrieved(a)) + 1}
  BY RetrievalsFinite, FS_AddElement
<1>2. Cardinality(Retrieved(b)) <= Cardinality(Retrieved(a) \union {s})
  BY <1>1, FS_Subset
<1> QED
  BY <1>1, <1>2, RetrievalsFinite

(* With no overlap the limit of retrievals is kept.                           *)
GoodGenerated == {r \in GeneratedRows : Cardinality(Retrieved(r)) <= MaxRetrievals}

LEMMA GeneratedKeeps ==
    ASSUME NEW q, NEW e, GeneratedRequest(q, e)
    PROVE  KeepsTo(q, e, GeneratedRows, GoodGenerated)
<1>1. ASSUME NEW s \in Places, GenerateProgram(q, e, s)
      PROVE  KeepsTo(q, e, GeneratedRows, GoodGenerated)
  <2> DEFINE next == rows[e].program.version + 1
             new == [rows[e] EXCEPT !.program.version = next, !.snapshots[s] = next]
  <2>1. rows[e] \in GeneratedRows => next \in 0 .. MaxVersion
    BY <1>1, ProgramAssumption DEF GenerateProgram, GeneratedRows
  <2>2. rows[e] \in GeneratedRows => new \in GeneratedRows /\ new.retrievals = rows[e].retrievals
    <3> HIDE DEF next
    <3> QED
      BY <2>1 DEF GeneratedRows
  <2>3. Handle(q, e, new)
    BY <1>1 DEF GenerateProgram
  <2> HIDE DEF new
  <2>4. rows[e] \in GoodGenerated => new \in GoodGenerated
    BY <2>2 DEF GoodGenerated, Retrieved
  <2> QED
    BY <2>2, <2>3, <2>4, HandleKeeps
<1>2. ASSUME NEW s \in Visits, NEW v \in 1 .. MaxVersion, RequestOldVersion(q, e, s, v)
      PROVE  KeepsTo(q, e, GeneratedRows, GoodGenerated)
  <2> DEFINE r == rows[e]
             new == [r EXCEPT !.retrievals[s] = v]
  <2>1. r \in GeneratedRows =>
          new \in GeneratedRows /\ \A t \in Visits \ {s} : new.retrievals[t] = r.retrievals[t]
    <3>1. v \in 0 .. MaxVersion
      OBVIOUS
    <3> QED
      BY <3>1 DEF GeneratedRows
  <2>2. Handle(q, e, new) /\ Cardinality(Retrieved(r)) < MaxRetrievals
    BY <1>2 DEF RequestOldVersion
  <2> HIDE DEF new
  <2>3. ASSUME r \in GoodGenerated PROVE new \in GoodGenerated
    <3>1. Retrieved(new) \subseteq Retrieved(r) \union {s}
      BY <2>1, <2>3 DEF GoodGenerated, Retrieved
    <3>2. Cardinality(Retrieved(new)) <= Cardinality(Retrieved(r)) + 1
      BY <3>1, OneMore
    <3>3. Cardinality(Retrieved(new)) <= MaxRetrievals
      BY <2>2, <3>2, RetrievalsFinite
    <3> QED
      BY <2>1, <2>3, <3>3 DEF GoodGenerated
  <2> QED
    BY <2>1, <2>2, <2>3, HandleKeeps
<1> QED
  BY <1>1, <1>2
  DEF GeneratedRequest

LEMMA GeneratedByColumn == ByColumn(GeneratedRows)
<1> SUFFICES ASSUME NEW now \in GeneratedRows, NEW seen \in GeneratedRows, NEW new \in GeneratedRows
             PROVE  Written(now, seen, new) \in GeneratedRows
  BY DEF ByColumn
<1> DEFINE w == Written(now, seen, new)
<1>1. w.program \in [version : 0 .. MaxVersion]
  BY DEF Written, GeneratedRows
<1>2. w.snapshots \in [Places -> 0 .. MaxVersion]
  BY DEF Written, GeneratedRows
<1>3. w.retrievals \in [Visits -> 0 .. MaxVersion]
  BY DEF Written, GeneratedRows
<1>4. w \in GeneratedRows
  BY <1>1, <1>2, <1>3 DEF Written, GeneratedRows
<1> QED
  BY <1>4

(* Every number up to that of the program is the number of a snapshot: a      *)
(* generation commits both, and snapshots are never written twice.            *)
Kept(r, v) == \E s \in Places : r.snapshots[s] = v
LastingGenerated == {r \in GeneratedRows : \A v \in 1 .. r.program.version : Kept(r, v)}

Stores(seen, new, s) == seen.snapshots[s] = 0 /\ new.snapshots[s] # 0

Snapped(now, seen, new) ==
    /\ \A s \in Places : new.snapshots[s] # seen.snapshots[s] => Stores(seen, new, s)
    /\ \A s \in Places : Stores(seen, new, s) => now.snapshots[s] = 0
    /\ new.program.version # seen.program.version
         => \A v \in 1 .. new.program.version :
              Kept(now, v) \/ \E s \in Places : Stores(seen, new, s) /\ new.snapshots[s] = v
    /\ new.retrievals # seen.retrievals
         => \E s \in Visits : \A t \in Visits \ {s} : new.retrievals[t] = seen.retrievals[t]

GeneratedFits ==
    {x \in GeneratedRows \X GeneratedRows \X GeneratedRows : Snapped(x[1], x[2], x[3])}
GeneratedApart ==
    {x \in GeneratedRows \X GeneratedRows \X GeneratedRows \X GeneratedRows :
        \A s \in Places : ~(Stores(x[1], x[2], s) /\ Stores(x[3], x[4], s))}
GeneratedHeld == Held(Generated, LastingGenerated, GeneratedFits, GeneratedApart)

LEMMA GeneratedFitsAre ==
    /\ \A now, seen, new :
         <<now, seen, new>> \in GeneratedFits
           <=> now \in GeneratedRows /\ seen \in GeneratedRows /\ new \in GeneratedRows
                 /\ Snapped(now, seen, new)
    /\ \A s, n, seen, new :
         <<s, n, seen, new>> \in GeneratedApart
           <=> /\ s \in GeneratedRows /\ n \in GeneratedRows
               /\ seen \in GeneratedRows /\ new \in GeneratedRows
               /\ \A t \in Places : ~(Stores(s, n, t) /\ Stores(seen, new, t))
BY DEF GeneratedFits, GeneratedApart

LEMMA GeneratedClosed == Closed(LastingGenerated, GeneratedFits, GeneratedApart)
<1> SUFFICES ASSUME NEW now \in LastingGenerated, NEW seen, NEW new,
                    <<now, seen, new>> \in GeneratedFits
             PROVE  /\ Committed(now, seen, new) \in LastingGenerated
                    /\ \A s, n : <<now, s, n>> \in GeneratedFits /\ <<s, n, seen, new>> \in GeneratedApart
                         => <<Committed(now, seen, new), s, n>> \in GeneratedFits
  BY DEF Closed
<1> DEFINE done == Committed(now, seen, new)
<1>1. /\ now \in GeneratedRows /\ seen \in GeneratedRows /\ new \in GeneratedRows
      /\ Snapped(now, seen, new)
  BY GeneratedFitsAre
<1>2. done \in GeneratedRows
  BY <1>1, GeneratedByColumn DEF Committed, ByColumn
<1>3. done.program.version = IF new.program.version = seen.program.version
                             THEN now.program.version ELSE new.program.version
  BY <1>1 DEF Committed, Written, GeneratedRows
<1>4. \A s \in Places : done.snapshots[s] = IF new.snapshots[s] = seen.snapshots[s]
                                            THEN now.snapshots[s] ELSE new.snapshots[s]
  BY <1>1 DEF Committed, Written, GeneratedRows
<1> HIDE DEF done
<1>5. \A s \in Places : /\ Stores(seen, new, s) => done.snapshots[s] = new.snapshots[s]
                        /\ ~Stores(seen, new, s) => done.snapshots[s] = now.snapshots[s]
  BY <1>1, <1>4 DEF Snapped, Stores
<1>6. \A s \in Places : now.snapshots[s] # 0 => done.snapshots[s] = now.snapshots[s]
  BY <1>1, <1>5 DEF Snapped
<1>7. \A v : v # 0 /\ Kept(now, v) => Kept(done, v)
  BY <1>6 DEF Kept
<1>8. done \in LastingGenerated
  <2>1. ASSUME NEW v \in 1 .. done.program.version
        PROVE  Kept(done, v)
    <3>1. CASE new.program.version = seen.program.version
      BY <1>3, <1>7, <2>1, <3>1 DEF LastingGenerated
    <3>2. CASE new.program.version # seen.program.version
      <4>1. Kept(now, v) \/ \E s \in Places : Stores(seen, new, s) /\ new.snapshots[s] = v
        BY <1>1, <1>3, <3>2 DEF Snapped
      <4> QED
        BY <1>5, <1>7, <4>1 DEF Kept
    <3> QED
      BY <3>1, <3>2
  <2> QED
    BY <1>2, <2>1 DEF LastingGenerated
<1>9. ASSUME NEW s, NEW n, <<now, s, n>> \in GeneratedFits, <<s, n, seen, new>> \in GeneratedApart
      PROVE  <<done, s, n>> \in GeneratedFits
  <2>1. /\ s \in GeneratedRows /\ n \in GeneratedRows /\ Snapped(now, s, n)
        /\ \A t \in Places : ~(Stores(s, n, t) /\ Stores(seen, new, t))
    BY <1>9, GeneratedFitsAre
  <2>2. \A t \in Places : Stores(s, n, t) => done.snapshots[t] = 0
    BY <1>5, <2>1 DEF Snapped
  <2>3. Snapped(done, s, n)
    BY <1>7, <2>1, <2>2 DEF Snapped
  <2> QED
    BY <1>2, <2>1, <2>3, GeneratedFitsAre
<1> QED
  BY <1>8, <1>9 DEF done

(* Each request in flight that retrieves a version read that the limit was    *)
(* not reached, so that they get at most one past it for each beside the last.*)
Retrieving(e) ==
    {q \in Requests : Saving(q) /\ req[q].of = e /\ req[q].new.retrievals # req[q].seen.retrievals}
WithinLimit ==
    \A e \in Generated :
        Cardinality(Retrieved(rows[e])) + Cardinality(Retrieving(e))
          <= MaxRetrievals + Cardinality(Requests) - 1

LEMMA GeneratedJoins ==
    ASSUME WellFormed(Stops), Generated \subseteq Entities, GeneratedHeld, WithinLimit,
           NEW q \in Requests, NEW e \in Generated, GeneratedRequest(q, e)
    PROVE  GeneratedHeld' /\ WithinLimit'
<1> DEFINE r == rows[e]
<1>1. r \in GeneratedRows /\ r \in LastingGenerated /\ e \in Entities
  BY DEF GeneratedHeld, Held, LastingGenerated
<1>2. \A p \in Requests : Saving(p) /\ req[p].of = e
        => req[p].seen \in GeneratedRows /\ req[p].new \in GeneratedRows
  BY GeneratedFitsAre DEF GeneratedHeld, Held
<1>3. ASSUME NEW new \in GeneratedRows, Handle(q, e, new), Snapped(r, r, new),
             \A s \in Places, p \in Requests :
               Stores(r, new, s) /\ Saving(p) /\ req[p].of = e => req[p].new.snapshots[s] = 0
      PROVE  GeneratedHeld'
  <2>1. ~Saving(q)
    BY <1>3 DEF Handle, Saving, Idle
  <2>2. Joins(q, e, new, GeneratedFits, GeneratedApart)
    BY <1>1, <1>2, <1>3, <2>1, GeneratedFitsAre DEF Joins, Stores
  <2>3. Symmetric(GeneratedApart)
    BY GeneratedFitsAre DEF Symmetric
  <2>4. Ends(q, e, new, Stops)
    BY <1>3 DEF Ends
  <2> QED
    BY <2>2, <2>3, <2>4, JoinKeeps, GeneratedClosed DEF GeneratedHeld
<1>4. ASSUME NEW new, Handle(q, e, new)
      PROVE  /\ ~Saving(q)
             /\ \A f \in Generated \ {e} : Retrieved(rows'[f]) = Retrieved(rows[f])
                                           /\ Retrieving(f)' = Retrieving(f)
             /\ \/ rows' = [rows EXCEPT ![e] = new] /\ rows'[e] = new /\ Retrieving(e)' = Retrieving(e)
                \/ /\ rows' = rows
                   /\ Retrieving(e)' = Retrieving(e) \union
                        (IF new.retrievals # r.retrievals THEN {q} ELSE {})
  <2>1. ~Saving(q)
    BY <1>4 DEF Handle, Saving, Idle
  <2>2. CASE rows' = [rows EXCEPT ![e] = new] /\ req' = req
    <3>1. \A f \in Entities : rows'[f] = IF f = e THEN new ELSE rows[f]
      BY <2>2 DEF WellFormed
    <3>2. \A f : Retrieving(f)' = Retrieving(f)
      BY <2>2 DEF Retrieving, Saving
    <3> QED
      BY <1>1, <2>1, <2>2, <3>1, <3>2
  <2>3. CASE Save(q, e, new, "idle")
    <3>1. rows' = rows /\ \A p \in Requests : req'[p] = IF p = q THEN Saved(q, e, new, "idle") ELSE req[p]
      BY <2>3 DEF Save, Saved, WellFormed
    <3>2. /\ req'[q].pc = "save" /\ req'[q].of = e /\ req'[q].seen = r /\ req'[q].new = new
          /\ \A p \in Requests \ {q} : req'[p] = req[p]
      BY <3>1 DEF Saved
    <3>3. \A f \in Generated \ {e} : Retrieving(f)' = Retrieving(f)
      BY <2>1, <3>2 DEF Retrieving, Saving
    <3>4. Retrieving(e)' = Retrieving(e) \union (IF new.retrievals # r.retrievals THEN {q} ELSE {})
      BY <2>1, <3>2 DEF Retrieving, Saving
    <3> QED
      BY <2>1, <3>1, <3>3, <3>4
  <2> QED
    BY <1>4, <2>2, <2>3 DEF Handle
<1>5. ASSUME NEW s \in Places, GenerateProgram(q, e, s)
      PROVE  GeneratedHeld' /\ WithinLimit'
  <2> DEFINE next == r.program.version + 1
             new == [r EXCEPT !.program.version = next, !.snapshots[s] = next]
  <2>1. next \in 0 .. MaxVersion /\ next # 0 /\ r.program.version \in Nat
    BY <1>1, <1>5, ProgramAssumption DEF GenerateProgram, GeneratedRows
  <2>2. /\ Handle(q, e, new) /\ r.snapshots[s] = 0
        /\ \A p \in Requests : Saving(p) /\ req[p].of = e => req[p].new.snapshots[s] = 0
    BY <1>5 DEF GenerateProgram, Free, Pending, Saving, Idle
  <2>3. \A v \in 1 .. next : v \in 1 .. r.program.version \/ v = next
    BY <2>1
  <2> HIDE DEF next
  <2>4. /\ new \in GeneratedRows /\ new.program.version = next /\ new.snapshots[s] = next
        /\ new.retrievals = r.retrievals
        /\ \A t \in Places \ {s} : new.snapshots[t] = r.snapshots[t]
    BY <1>1, <2>1 DEF GeneratedRows
  <2> HIDE DEF new
  <2>5. \A t \in Places : Stores(r, new, t) <=> t = s
    BY <2>1, <2>2, <2>4 DEF Stores
  <2>6. Snapped(r, r, new)
    BY <1>1, <2>2, <2>3, <2>4, <2>5 DEF Snapped, LastingGenerated
  <2>7. GeneratedHeld'
    BY <1>3, <2>2, <2>4, <2>5, <2>6
  <2>8. Retrieved(new) = Retrieved(r)
    BY <2>4 DEF Retrieved
  <2>9. \A f \in Generated : Retrieved(rows'[f]) = Retrieved(rows[f]) /\ Retrieving(f)' = Retrieving(f)
    BY <1>4, <2>2, <2>4, <2>8
  <2> QED
    BY <2>7, <2>9 DEF WithinLimit
<1>6. ASSUME NEW s \in Visits, NEW v \in 1 .. MaxVersion, RequestOldVersion(q, e, s, v)
      PROVE  GeneratedHeld' /\ WithinLimit'
  <2> DEFINE new == [r EXCEPT !.retrievals[s] = v]
  <2>1. /\ new \in GeneratedRows /\ new.program = r.program /\ new.snapshots = r.snapshots
        /\ \A t \in Visits \ {s} : new.retrievals[t] = r.retrievals[t]
    <3>1. v \in 0 .. MaxVersion
      OBVIOUS
    <3> QED
      BY <1>1, <3>1 DEF GeneratedRows
  <2>2. Handle(q, e, new) /\ Cardinality(Retrieved(r)) < MaxRetrievals
    BY <1>6 DEF RequestOldVersion
  <2> HIDE DEF new
  <2>3. Snapped(r, r, new) /\ \A t \in Places : ~Stores(r, new, t)
    BY <2>1 DEF Snapped, Stores
  <2>4. GeneratedHeld'
    BY <1>3, <2>1, <2>2, <2>3
  <2>5. Cardinality(Retrieved(new)) <= Cardinality(Retrieved(r)) + 1
    <3>1. Retrieved(new) \subseteq Retrieved(r) \union {s}
      BY <2>1 DEF Retrieved
    <3> QED
      BY <3>1, OneMore
  <2>6. /\ Cardinality(Retrieving(e)) <= Cardinality(Requests) - 1
        /\ Cardinality(Retrieving(e) \union {q}) <= Cardinality(Requests)
        /\ Cardinality(Retrieving(e)) \in Nat /\ Cardinality(Retrieving(e) \union {q}) \in Nat
    <3>1. Retrieving(e) \in SUBSET (Requests \ {q})
      BY <1>4, <2>2 DEF Retrieving
    <3>2. IsFiniteSet(Requests \ {q}) /\ Cardinality(Requests \ {q}) = Cardinality(Requests) - 1
      BY RequestsAssumption, FS_RemoveElement
    <3> QED
      BY <3>1, <3>2, FS_Subset, RetrievalsFinite
  <2>7. Cardinality(Retrieved(rows'[e])) + Cardinality(Retrieving(e)')
          <= MaxRetrievals + Cardinality(Requests) - 1
    <3> DEFINE a == Cardinality(Retrieved(r))
               b == Cardinality(Retrieved(new))
               k == Cardinality(Requests)
               m == Cardinality(Retrieving(e))
               n == Cardinality(Retrieving(e) \union {q})
    <3>1. a \in Nat /\ b \in Nat /\ k \in Nat /\ m \in Nat /\ n \in Nat /\ MaxRetrievals \in Nat
          /\ a < MaxRetrievals /\ b <= a + 1 /\ m <= k - 1 /\ n <= k
      BY <2>2, <2>5, <2>6, RetrievalsFinite
    <3>2. CASE rows'[e] = new /\ Retrieving(e)' = Retrieving(e)
      <4> HIDE DEF a, b, k, m, n
      <4>1. b + m <= MaxRetrievals + k - 1
        BY <3>1
      <4> QED
        BY <3>2, <4>1 DEF b, k, m
    <3>3. CASE /\ rows' = rows
               /\ Retrieving(e)' = Retrieving(e) \union (IF new.retrievals # r.retrievals THEN {q} ELSE {})
      <4>1. Retrieving(e)' = Retrieving(e) \/ Retrieving(e)' = Retrieving(e) \union {q}
        BY <3>3
      <4> HIDE DEF a, b, k, m, n
      <4>2. a + m <= MaxRetrievals + k - 1 /\ a + n <= MaxRetrievals + k - 1
        BY <3>1
      <4> QED
        BY <3>3, <4>1, <4>2 DEF a, k, m, n
    <3> QED
      BY <1>4, <2>2, <3>2, <3>3
  <2>8. \A f \in Generated \ {e} : Retrieved(rows'[f]) = Retrieved(rows[f]) /\ Retrieving(f)' = Retrieving(f)
    BY <1>4, <2>2
  <2> QED
    BY <2>4, <2>7, <2>8 DEF WithinLimit
<1> QED
  BY <1>5, <1>6 DEF GeneratedRequest

LEMMA WithinLimitCommits ==
    ASSUME WellFormed(Stops), Generated \subseteq Entities, GeneratedHeld, WithinLimit,
           NEW q \in Requests, Commit(q)
    PROVE  WithinLimit'
<1> DEFINE f == req[q].of
           now == rows[f]
           seen == req[q].seen
           new == req[q].new
<1>1. /\ f \in Entities /\ Saving(q) /\ ~Saving(q)'
      /\ \A p \in Requests \ {q} : req'[p] = req[p]
  BY CommitsTo, StopsApart DEF Commit, Saving
<1>2. \A e \in Entities : rows'[e] = IF e = f THEN Committed(now, seen, new) ELSE rows[e]
  BY DEF Commit, WellFormed, Committed
<1>3. \A e : Retrieving(e)' = Retrieving(e) \ {q}
  BY <1>1 DEF Retrieving, Saving
<1>4. \A e \in Generated : Cardinality(Retrieving(e)') \in Nat
                           /\ Cardinality(Retrieving(e)') <= Cardinality(Retrieving(e))
  <2> SUFFICES ASSUME NEW e \in Generated
               PROVE  Cardinality(Retrieving(e)') \in Nat
                      /\ Cardinality(Retrieving(e)') <= Cardinality(Retrieving(e))
    OBVIOUS
  <2>1. Retrieving(e) \in SUBSET Requests
    BY DEF Retrieving
  <2> QED
    BY <1>3, <2>1, RetrievalsFinite, FS_RemoveElement, FS_CardinalityType, FS_Subset
<1>5. ASSUME NEW e \in Generated, e # f
      PROVE  Cardinality(Retrieved(rows'[e])) + Cardinality(Retrieving(e)')
               <= MaxRetrievals + Cardinality(Requests) - 1
  <2>1. rows'[e] = rows[e]
    BY <1>2, <1>5
  <2>2. Cardinality(Retrieving(e)) \in Nat
    BY RetrievalsFinite DEF Retrieving
  <2> QED
    BY <1>4, <2>1, <2>2, RetrievalsFinite DEF WithinLimit
<1>6. ASSUME NEW e \in Generated, e = f
      PROVE  Cardinality(Retrieved(rows'[e])) + Cardinality(Retrieving(e)')
               <= MaxRetrievals + Cardinality(Requests) - 1
  <2>1. /\ now \in GeneratedRows /\ seen \in GeneratedRows /\ new \in GeneratedRows
        /\ Snapped(now, seen, new)
    BY <1>1, <1>6, GeneratedFitsAre DEF GeneratedHeld, Held
  <2>2. rows'[e] = Committed(now, seen, new)
    BY <1>1, <1>2, <1>6
  <2>3. \A s \in Visits :
          rows'[e].retrievals[s] = IF new.retrievals[s] = seen.retrievals[s]
                                   THEN now.retrievals[s] ELSE new.retrievals[s]
    BY <2>1, <2>2 DEF Committed, Written, GeneratedRows
  <2>4. now = rows[e] /\ Cardinality(Retrieving(e)) \in Nat /\ IsFiniteSet(Retrieving(e))
    BY <1>6, RetrievalsFinite DEF Retrieving
  <2>5. CASE new.retrievals = seen.retrievals
    <3>1. Retrieved(rows'[e]) = Retrieved(now)
      BY <2>3, <2>5 DEF Retrieved
    <3> QED
      BY <1>4, <1>6, <2>4, <3>1, RetrievalsFinite DEF WithinLimit
  <2>6. CASE new.retrievals # seen.retrievals
    <3>1. PICK s \in Visits : \A t \in Visits \ {s} : new.retrievals[t] = seen.retrievals[t]
      BY <2>1, <2>6 DEF Snapped
    <3>2. Retrieved(rows'[e]) \subseteq Retrieved(now) \union {s}
      BY <2>3, <3>1 DEF Retrieved
    <3>3. Cardinality(Retrieved(rows'[e])) <= Cardinality(Retrieved(now)) + 1
      BY <3>2, OneMore
    <3>4. q \in Retrieving(e)
      BY <1>1, <1>6, <2>6 DEF Retrieving
    <3>5. Cardinality(Retrieving(e)') = Cardinality(Retrieving(e)) - 1
      BY <1>3, <2>4, <3>4, FS_RemoveElement
    <3>6. now = rows[e]
      BY <1>6
    <3> HIDE DEF f, now
    <3> QED
      BY <1>6, <2>4, <3>3, <3>5, <3>6, RetrievalsFinite DEF WithinLimit
  <2> QED
    BY <2>5, <2>6
<1> QED
  BY <1>5, <1>6 DEF WithinLimit

LEMMA WithinLimitStays ==
    ASSUME WellFormed(Stops), Generated \subseteq Entities, WithinLimit, NEW q \in Requests,
           \/ Lose(q)
           \/ UNCHANGED <<rows, req>>
           \/ \E e \in Entities \ Generated : Writes(q, e, Stops)
    PROVE  WithinLimit'
<1>1. ASSUME \A e \in Generated : rows'[e] = rows[e] /\ Retrieving(e)' \subseteq Retrieving(e)
      PROVE  WithinLimit'
  <2> SUFFICES ASSUME NEW e \in Generated
               PROVE  Cardinality(Retrieved(rows'[e])) + Cardinality(Retrieving(e)')
                        <= MaxRetrievals + Cardinality(Requests) - 1
    BY DEF WithinLimit
  <2>1. IsFiniteSet(Retrieving(e)) /\ Cardinality(Retrieving(e)) \in Nat
    BY RetrievalsFinite DEF Retrieving
  <2>2. Cardinality(Retrieving(e)') \in Nat /\ Cardinality(Retrieving(e)') <= Cardinality(Retrieving(e))
    BY <1>1, <2>1, FS_Subset, FS_CardinalityType
  <2> QED
    BY <1>1, <2>1, <2>2, RetrievalsFinite DEF WithinLimit
<1>2. CASE Lose(q)
  <2>1. \A p \in Requests : req'[p] = req[p] \/ req'[p] = Idle
    BY <1>2 DEF Lose, WellFormed
  <2> QED
    BY <1>1, <1>2, <2>1 DEF Lose, Retrieving, Saving, Idle
<1>3. CASE UNCHANGED <<rows, req>>
  BY <1>1, <1>3 DEF Retrieving, Saving
<1>4. ASSUME NEW e \in Entities \ Generated, NEW new, Ends(q, e, new, Stops)
      PROVE  WithinLimit'
  <2>1. \A f \in Generated : rows'[f] = rows[f]
    BY <1>4, EndsChanges DEF WellFormed
  <2>2. \A p \in Requests : req'[p].of \in Generated => req'[p] = req[p]
    BY <1>4, EndsChanges DEF WellFormed, Saved
  <2> QED
    BY <1>1, <2>1, <2>2 DEF Retrieving, Saving
<1> QED
  BY <1>2, <1>3, <1>4 DEF Writes

-----------------------------------------------------------------------------
(* What was lodged is what the submitted record holds.                        *)
GoodTransfers ==
    {r \in TransferRows :
        r.electronic.lodged # "none" => /\ r.electronic.status = "submitted"
                                        /\ r.electronic.content = r.electronic.lodged}

LEMMA TransferKeeps ==
    ASSUME NEW q, NEW e, TransferRequest(q, e)
    PROVE  KeepsTo(q, e, TransferRows, GoodTransfers)
<1>1. ASSUME NEW content \in Fills, CreateDra(q, e, content) \/ UpdateDra(q, e, content)
      PROVE  KeepsTo(q, e, TransferRows, GoodTransfers)
  BY <1>1, HandleKeeps DEF CreateDra, UpdateDra, IftiStatuses, TransferRows, GoodTransfers
<1>2. ASSUME MarkDraReady(q, e) \/ MarkDraSubmitted(q, e)
      PROVE  KeepsTo(q, e, TransferRows, GoodTransfers)
  BY <1>2, HandleKeeps DEF MarkDraReady, MarkDraSubmitted, IftiStatuses, TransferRows,
     GoodTransfers
<1>3. ASSUME DeleteDra(q, e)
      PROVE  KeepsTo(q, e, TransferRows, GoodTransfers)
  BY <1>3, HandleKeeps DEF DeleteDra, NewTransfer, IftiStatuses, Fills, TransferRows,
     GoodTransfers
<1>4. ASSUME NEW mode \in {"swift", "structured"}, NEW payee \in BOOLEAN,
            NEW content \in Fills, CreateElectronic(q, e, mode, payee, content)
      PROVE  KeepsTo(q, e, TransferRows, GoodTransfers)
  BY <1>4, HandleKeeps DEF CreateElectronic, IftiStatuses, TransferRows, GoodTransfers
<1>5. ASSUME NEW mode \in {"swift", "structured"}, NEW payee \in BOOLEAN,
            NEW content \in Fills, UpdateElectronic(q, e, mode, payee, content)
      PROVE  KeepsTo(q, e, TransferRows, GoodTransfers)
  BY <1>5, HandleKeeps DEF UpdateElectronic, TransferRows, GoodTransfers
<1>6. ASSUME MarkElectronicReady(q, e)
      PROVE  KeepsTo(q, e, TransferRows, GoodTransfers)
  BY <1>6, HandleKeeps DEF MarkElectronicReady, IftiStatuses, TransferRows, GoodTransfers
<1>7. ASSUME SubmitElectronic(q, e)
      PROVE  KeepsTo(q, e, TransferRows, GoodTransfers)
  BY <1>7, HandleKeeps DEF SubmitElectronic, IftiStatuses, TransferRows, GoodTransfers
<1> QED
  BY <1>1, <1>2, <1>3, <1>4, <1>5, <1>6, <1>7
  DEF TransferRequest

LEMMA TransferByColumn == ByColumn(TransferRows)
BY DEF ByColumn, Written, TransferRows

-----------------------------------------------------------------------------
LEMMA ReceiptsKeeps ==
    ASSUME NEW q, NEW e, ReceiptRequest(q, e)
    PROVE  KeepsTo(q, e, ReceiptRows, ReceiptRows)
<1>1. ASSUME NEW s \in Receipts, GenerateReceipt(q, e, s)
      PROVE  KeepsTo(q, e, ReceiptRows, ReceiptRows)
  BY <1>1, HandleKeeps DEF GenerateReceipt, ReceiptRows
<1>2. ASSUME NEW s \in Receipts, NEW old \in Receipts, SupersedeReceipt(q, e, old, s)
      PROVE  KeepsTo(q, e, ReceiptRows, ReceiptRows)
  <2> DEFINE new == Replaced(rows[e], old, s)
  <2>1. LinkOf[s] \in {"idle"} \union Stops
    BY ReceiptAssumption DEF Receipts, LinkOf, Links, Stops
  <2>2. rows[e] \in ReceiptRows => new \in ReceiptRows
    <3>1. old \in 0 .. MaxReceipts
      BY DEF Receipts
    <3> QED
      BY <3>1 DEF ReceiptRows, Replaced
  <2>3. Save(q, e, new, LinkOf[s])
    BY <1>2 DEF SupersedeReceipt
  <2> HIDE DEF new
  <2> QED
    BY <2>1, <2>2, <2>3, SaveKeeps
<1>3. ASSUME NEW s \in Receipts, LinkReceipt(q, e, s)
      PROVE  KeepsTo(q, e, ReceiptRows, ReceiptRows)
  BY <1>3, SaveKeeps DEF LinkReceipt, ReceiptRows
<1> QED
  BY <1>1, <1>2, <1>3
  DEF ReceiptRequest

LEMMA ReceiptsByColumn == ByColumn(ReceiptRows)
<1> SUFFICES ASSUME NEW now \in ReceiptRows, NEW seen \in ReceiptRows, NEW new \in ReceiptRows
             PROVE  Written(now, seen, new) \in ReceiptRows
  BY DEF ByColumn
<1> DEFINE w == Written(now, seen, new)
<1>1. w.status \in [Receipts -> {"none", "active", "voided"}]
  BY DEF Written, ReceiptRows
<1>2. w.of \in [Receipts -> 0 .. MaxReceipts]
  BY DEF Written, ReceiptRows
<1>3. w.linked \in [Receipts -> BOOLEAN]
  BY DEF Written, ReceiptRows
<1>4. w \in ReceiptRows
  BY <1>1, <1>2, <1>3 DEF Written, ReceiptRows
<1> QED
  BY <1>4

(* While there is a receipt there is an active one; a receipt that replaces   *)
(* another keeps it voided; and only what replaces a receipt is linked.       *)
Active(r) == \E s \in Receipts : r.status[s] = "active"
LastingReceipts ==
    {r \in ReceiptRows :
        /\ (\E s \in Receipts : r.status[s] # "none") => Active(r)
        /\ \A s \in Receipts : r.of[s] # 0 => r.status[s] # "none" /\ r.status[r.of[s]] = "voided"
        /\ \A s \in Receipts : r.linked[s] => r.of[s] # 0}

Issues(seen, new, s) == seen.status[s] = "none" /\ new.status[s] # "none"

Corrected(now, seen, new) ==
    /\ \A s \in Receipts : Issues(seen, new, s) => now.status[s] = "none" /\ new.status[s] = "active"
    /\ \A s \in Receipts : new.status[s] # seen.status[s] /\ ~Issues(seen, new, s)
         => /\ new.status[s] = "voided" /\ now.status[s] \in {"active", "voided"}
            /\ \E t \in Receipts : Issues(seen, new, t)
    /\ \A s \in Receipts : new.of[s] # seen.of[s]
         => /\ Issues(seen, new, s) /\ new.of[s] \in Receipts
            /\ new.status[new.of[s]] = "voided" /\ seen.status[new.of[s]] # "voided"
    /\ \A s \in Receipts : new.linked[s] # seen.linked[s] => now.of[s] # 0

ReceiptFits == {x \in ReceiptRows \X ReceiptRows \X ReceiptRows : Corrected(x[1], x[2], x[3])}
ReceiptApart ==
    {x \in ReceiptRows \X ReceiptRows \X ReceiptRows \X ReceiptRows :
        \A s \in Receipts : ~(Issues(x[1], x[2], s) /\ Issues(x[3], x[4], s))}

LEMMA ReceiptFitsAre ==
    /\ \A now, seen, new :
         <<now, seen, new>> \in ReceiptFits
           <=> now \in ReceiptRows /\ seen \in ReceiptRows /\ new \in ReceiptRows
                 /\ Corrected(now, seen, new)
    /\ \A s, n, seen, new :
         <<s, n, seen, new>> \in ReceiptApart
           <=> /\ s \in ReceiptRows /\ n \in ReceiptRows /\ seen \in ReceiptRows /\ new \in ReceiptRows
               /\ \A t \in Receipts : ~(Issues(s, n, t) /\ Issues(seen, new, t))
BY DEF ReceiptFits, ReceiptApart

(* What a commit that fits does to the rows it meets.                         *)
LEMMA ReceiptCommit ==
    ASSUME NEW now \in LastingReceipts, NEW seen, NEW new, <<now, seen, new>> \in ReceiptFits
    PROVE  LET done == Committed(now, seen, new)
           IN  /\ done \in LastingReceipts
               /\ \A s \in Receipts :
                    /\ done.status[s] = "none" => now.status[s] = "none" /\ ~Issues(seen, new, s)
                    /\ now.status[s] = "none" /\ ~Issues(seen, new, s) => done.status[s] = "none"
                    /\ now.status[s] \in {"active", "voided"} => done.status[s] \in {"active", "voided"}
                    /\ now.of[s] # 0 => done.of[s] # 0
                    /\ new.of[s] # seen.of[s] => done.of[s] # 0
<1> DEFINE done == Committed(now, seen, new)
<1>1. /\ now \in ReceiptRows /\ seen \in ReceiptRows /\ new \in ReceiptRows
      /\ Corrected(now, seen, new)
  BY ReceiptFitsAre
<1>2. done \in ReceiptRows
  BY <1>1, ReceiptsByColumn DEF Committed, ByColumn
<1>3. \A s \in Receipts :
        done.status[s] = IF new.status[s] = seen.status[s] THEN now.status[s] ELSE new.status[s]
  BY <1>1 DEF Committed, Written, ReceiptRows
<1>4. \A s \in Receipts :
        done.of[s] = IF new.of[s] = seen.of[s] THEN now.of[s] ELSE new.of[s]
  BY <1>1 DEF Committed, Written, ReceiptRows
<1>5. \A s \in Receipts :
        done.linked[s] = IF new.linked[s] = seen.linked[s] THEN now.linked[s] ELSE new.linked[s]
  BY <1>1 DEF Committed, Written, ReceiptRows
<1> HIDE DEF done
<1>6. \A s \in Receipts : Issues(seen, new, s) => done.status[s] = "active" /\ now.status[s] = "none"
  BY <1>1, <1>3 DEF Issues, Corrected
<1>7. \A s \in Receipts : now.status[s] = "voided" => done.status[s] = "voided"
  BY <1>1, <1>3 DEF Issues, Corrected
<1>8. \A s \in Receipts : now.status[s] # "none" => done.status[s] # "none"
  BY <1>1, <1>3 DEF Issues, Corrected
<1>9. \A s \in Receipts : now.status[s] = "none" /\ ~Issues(seen, new, s) => done.status[s] = "none"
  BY <1>1, <1>3 DEF Issues, Corrected
<1>10. \A s \in Receipts : Issues(seen, new, s) => done.status[s] # "none"
  BY <1>6
<1>11. \A s \in Receipts : new.of[s] # seen.of[s] => done.of[s] = new.of[s] /\ new.of[s] # 0
  BY <1>1, <1>4 DEF Corrected, Receipts
<1>12. \A s \in Receipts : now.of[s] # 0 => done.of[s] # 0
  BY <1>4, <1>11
<1>13. done \in LastingReceipts
  <2>1. ASSUME NEW s \in Receipts, done.status[s] # "none"
        PROVE  Active(done)
    <3>1. CASE \E t \in Receipts : Issues(seen, new, t)
      BY <1>6, <3>1 DEF Active
    <3>2. CASE \A t \in Receipts : ~Issues(seen, new, t)
      <4>1. \A t \in Receipts : done.status[t] = now.status[t]
        BY <1>1, <1>3, <3>2 DEF Corrected
      <4> QED
        BY <2>1, <4>1 DEF Active, LastingReceipts
    <3> QED
      BY <3>1, <3>2
  <2>2. ASSUME NEW s \in Receipts, done.of[s] # 0
        PROVE  done.status[s] # "none" /\ done.status[done.of[s]] = "voided"
    <3>1. CASE new.of[s] # seen.of[s]
      <4>1. /\ Issues(seen, new, s) /\ new.of[s] \in Receipts
            /\ new.status[new.of[s]] = "voided" /\ seen.status[new.of[s]] # "voided"
        BY <1>1, <3>1 DEF Corrected
      <4> QED
        BY <1>3, <1>10, <1>11, <3>1, <4>1
    <3>2. CASE new.of[s] = seen.of[s]
      <4>1. /\ done.of[s] = now.of[s]
            /\ now.status[s] # "none" /\ now.status[now.of[s]] = "voided"
        BY <1>4, <2>2, <3>2 DEF LastingReceipts
      <4>2. now.of[s] \in Receipts
        BY <1>1, <2>2, <4>1, ReceiptAssumption DEF ReceiptRows, Receipts
      <4> QED
        BY <1>7, <1>8, <4>1, <4>2
    <3> QED
      BY <3>1, <3>2
  <2>3. ASSUME NEW s \in Receipts, done.linked[s]
        PROVE  done.of[s] # 0
    BY <1>1, <1>5, <1>12, <2>3 DEF Corrected, LastingReceipts
  <2> QED
    BY <1>2, <2>1, <2>2, <2>3 DEF LastingReceipts
<1> QED
  <2>1. \A s \in Receipts : done.status[s] \in {"none", "active", "voided"}
    BY <1>2 DEF ReceiptRows
  <2> QED
    BY <1>8, <1>9, <1>10, <1>11, <1>12, <1>13, <2>1 DEF done

LEMMA ReceiptsClosed == Closed(LastingReceipts, ReceiptFits, ReceiptApart)
<1> SUFFICES ASSUME NEW now \in LastingReceipts, NEW seen, NEW new,
                    <<now, seen, new>> \in ReceiptFits
             PROVE  /\ Committed(now, seen, new) \in LastingReceipts
                    /\ \A s, n : <<now, s, n>> \in ReceiptFits /\ <<s, n, seen, new>> \in ReceiptApart
                         => <<Committed(now, seen, new), s, n>> \in ReceiptFits
  BY DEF Closed
<1> DEFINE done == Committed(now, seen, new)
<1>1. done \in LastingReceipts
  BY ReceiptCommit
<1>2. \A s \in Receipts :
        /\ now.status[s] = "none" /\ ~Issues(seen, new, s) => done.status[s] = "none"
        /\ now.status[s] \in {"active", "voided"} => done.status[s] \in {"active", "voided"}
        /\ now.of[s] # 0 => done.of[s] # 0
  BY ReceiptCommit
<1> HIDE DEF done
<1>3. ASSUME NEW s, NEW n, <<now, s, n>> \in ReceiptFits, <<s, n, seen, new>> \in ReceiptApart
      PROVE  <<done, s, n>> \in ReceiptFits
  <2>1. /\ s \in ReceiptRows /\ n \in ReceiptRows /\ Corrected(now, s, n)
        /\ \A t \in Receipts : ~(Issues(s, n, t) /\ Issues(seen, new, t))
    BY <1>3, ReceiptFitsAre
  <2>2. Corrected(done, s, n)
    BY <1>2, <2>1 DEF Corrected
  <2> QED
    BY <1>1, <2>1, <2>2, ReceiptFitsAre DEF LastingReceipts
<1> QED
  BY <1>1, <1>3 DEF done

(* A request that still has to link a receipt committed that it replaces one. *)
LinkDue ==
    \A q \in Requests, s \in Receipts :
        /\ req[q].pc = LinkOf[s] /\ req[q].of \in ReceiptChains => rows[req[q].of].of[s] # 0
        /\ Saving(q) /\ req[q].then = LinkOf[s] /\ req[q].of \in ReceiptChains
             => req[q].seen.of[s] = 0 /\ req[q].new.of[s] # 0

ReceiptsHeld == Held(ReceiptChains, LastingReceipts, ReceiptFits, ReceiptApart)

LEMMA LinksApart ==
    /\ \A s \in Receipts : LinkOf[s] \in Stops /\ LinkOf[s] \notin {"save", "idle"}
    /\ \A s, t \in Receipts : LinkOf[s] = LinkOf[t] => s = t
<1>1. \A s \in Receipts : s \in {1, 2, 3}
  BY ReceiptAssumption DEF Receipts
<1> QED
  BY <1>1 DEF LinkOf, Stops, Links

LEMMA ReceiptsJoin ==
    ASSUME WellFormed(Stops), ReceiptChains \subseteq Entities, ReceiptsHeld, LinkDue,
           NEW q \in Requests, NEW e \in ReceiptChains, ReceiptRequest(q, e)
    PROVE  ReceiptsHeld' /\ LinkDue'
<1> DEFINE r == rows[e]
<1>1. r \in ReceiptRows /\ r \in LastingReceipts /\ e \in Entities
  BY DEF ReceiptsHeld, Held, LastingReceipts
<1>2. \A p \in Requests : Saving(p) /\ req[p].of = e
        => req[p].seen \in ReceiptRows /\ req[p].new \in ReceiptRows
  BY ReceiptFitsAre DEF ReceiptsHeld, Held
<1>3. ASSUME NEW new \in ReceiptRows, Ends(q, e, new, Stops), ~Saving(q), Corrected(r, r, new),
             \A s \in Receipts, p \in Requests :
               Issues(r, new, s) /\ Saving(p) /\ req[p].of = e => req[p].new.status[s] = "none"
      PROVE  ReceiptsHeld'
  <2>1. Joins(q, e, new, ReceiptFits, ReceiptApart)
    BY <1>1, <1>2, <1>3, ReceiptFitsAre DEF Joins, Issues
  <2>2. Symmetric(ReceiptApart)
    BY ReceiptFitsAre DEF Symmetric
  <2> QED
    BY <1>3, <2>1, <2>2, JoinKeeps, ReceiptsClosed DEF ReceiptsHeld
<1>4. ASSUME NEW new, NEW then, Save(q, e, new, then),
             \A s \in Receipts : then = LinkOf[s] => r.of[s] = 0 /\ new.of[s] # 0
      PROVE  LinkDue'
  <2>1. rows' = rows /\ \A p \in Requests : req'[p] = IF p = q THEN Saved(q, e, new, then) ELSE req[p]
    BY <1>4 DEF Save, Saved, WellFormed
  <2>2. /\ req'[q].pc = "save" /\ req'[q].seen = r /\ req'[q].new = new /\ req'[q].then = then
        /\ \A p \in Requests \ {q} : req'[p] = req[p]
    BY <2>1 DEF Saved
  <2> QED
    BY <1>4, <2>1, <2>2, LinksApart DEF LinkDue, Saving
<1>5. ASSUME NEW s \in Receipts, GenerateReceipt(q, e, s)
      PROVE  ReceiptsHeld' /\ LinkDue'
  <2> DEFINE new == [r EXCEPT !.status[s] = "active"]
  <2>1. /\ new \in ReceiptRows /\ new.of = r.of /\ new.linked = r.linked
        /\ new.status[s] = "active"
        /\ \A t \in Receipts \ {s} : new.status[t] = r.status[t]
    BY <1>1 DEF ReceiptRows
  <2>2. /\ Handle(q, e, new) /\ r.status[s] = "none"
        /\ \A p \in Requests : Saving(p) /\ req[p].of = e => req[p].new.status[s] = "none"
    BY <1>5 DEF GenerateReceipt, Free, Pending, Saving, Idle
  <2> HIDE DEF new
  <2>3. Ends(q, e, new, Stops) /\ ~Saving(q)
    BY <2>2 DEF Ends, Handle, Saving, Idle
  <2>4. \A t \in Receipts : Issues(r, new, t) <=> t = s
    BY <2>1, <2>2 DEF Issues
  <2>5. Corrected(r, r, new)
    BY <2>1, <2>2, <2>4 DEF Corrected
  <2>6. ReceiptsHeld'
    BY <1>3, <2>1, <2>2, <2>3, <2>4, <2>5
  <2>7. LinkDue'
    <3>1. CASE Save(q, e, new, "idle")
      BY <1>4, <3>1, LinksApart
    <3>2. CASE rows' = [rows EXCEPT ![e] = new] /\ req' = req
      <4>1. \A f \in Entities : rows'[f].of = rows[f].of
        BY <2>1, <3>2 DEF WellFormed
      <4> QED
        BY <3>2, <4>1 DEF LinkDue, Saving
    <3> QED
      BY <2>2, <3>1, <3>2 DEF Handle
  <2> QED
    BY <2>6, <2>7
<1>6. ASSUME NEW s \in Receipts, NEW old \in Receipts, SupersedeReceipt(q, e, old, s)
      PROVE  ReceiptsHeld' /\ LinkDue'
  <2> DEFINE new == Replaced(r, old, s)
  <2>1. /\ req[q] = Idle /\ r.status[old] = "active" /\ r.status[s] = "none" /\ s # old
        /\ \A p \in Requests : Saving(p) /\ req[p].of = e => req[p].new.status[s] = "none"
        /\ Save(q, e, new, LinkOf[s])
    BY <1>6 DEF SupersedeReceipt, Free, Pending, Saving, Idle
  <2>2. /\ new \in ReceiptRows /\ new.linked = r.linked
        /\ new.status[s] = "active" /\ new.status[old] = "voided" /\ new.of[s] = old
        /\ \A t \in Receipts \ {s} : new.of[t] = r.of[t]
        /\ \A t \in Receipts \ {s, old} : new.status[t] = r.status[t]
    <3>1. old \in 0 .. MaxReceipts
      BY DEF Receipts
    <3> QED
      BY <1>1, <2>1, <3>1 DEF ReceiptRows, Replaced
  <2> HIDE DEF new
  <2>3. Ends(q, e, new, Stops) /\ ~Saving(q)
    <3>1. LinkOf[s] \in {"idle"} \union Stops
      BY LinksApart
    <3>2. req[q].pc = "idle"
      BY <2>1 DEF Idle
    <3> QED
      BY <2>1, <3>1, <3>2 DEF Ends, Saving
  <2>4. \A t \in Receipts : Issues(r, new, t) <=> t = s
    BY <2>1, <2>2 DEF Issues
  <2>5. Corrected(r, r, new)
    BY <2>1, <2>2, <2>4 DEF Corrected
  <2>6. r.of[s] = 0 /\ new.of[s] # 0
    BY <1>1, <2>1, <2>2 DEF LastingReceipts, Receipts
  <2> QED
    BY <1>3, <1>4, <2>1, <2>2, <2>3, <2>4, <2>5, <2>6, LinksApart
<1>7. ASSUME NEW s \in Receipts, LinkReceipt(q, e, s)
      PROVE  ReceiptsHeld' /\ LinkDue'
  <2> DEFINE new == [r EXCEPT !.linked[s] = TRUE]
  <2>1. /\ new \in ReceiptRows /\ new.of = r.of /\ new.status = r.status
        /\ \A t \in Receipts \ {s} : new.linked[t] = r.linked[t]
    BY <1>1 DEF ReceiptRows
  <2>2. Save(q, e, new, "idle") /\ req[q].pc = LinkOf[s] /\ req[q].of = e
    BY <1>7 DEF LinkReceipt
  <2> HIDE DEF new
  <2>3. Ends(q, e, new, Stops) /\ ~Saving(q)
    BY <2>2, LinksApart DEF Ends, Saving
  <2>4. r.of[s] # 0
    BY <2>2 DEF LinkDue
  <2>5. Corrected(r, r, new) /\ \A t \in Receipts : ~Issues(r, new, t)
    BY <2>1, <2>4 DEF Corrected, Issues
  <2> QED
    BY <1>3, <1>4, <2>1, <2>2, <2>3, <2>5, LinksApart
<1> QED
  BY <1>5, <1>6, <1>7 DEF ReceiptRequest

LEMMA LinkDueCommits ==
    ASSUME WellFormed(Stops), ReceiptChains \subseteq Entities, ReceiptsHeld, LinkDue,
           NEW q \in Requests, Commit(q)
    PROVE  LinkDue'
<1> DEFINE f == req[q].of
           after == IF req[q].then = "idle" THEN Idle ELSE [pc |-> req[q].then, of |-> f]
<1>1. f \in Entities /\ Saving(q)
  BY DEF Commit, WellFormed, Shape, Idle, Saving
<1>2. \A p \in Requests : req'[p] = IF p = q THEN after ELSE req[p]
  BY DEF Commit, WellFormed
<1>3. \A e \in Entities : rows'[e] = IF e = f THEN Committed(rows[f], req[q].seen, req[q].new)
                                     ELSE rows[e]
  BY DEF Commit, WellFormed, Committed
<1>4. ASSUME f \in ReceiptChains, NEW s \in Receipts
      PROVE  /\ rows[f].of[s] # 0 => rows'[f].of[s] # 0
             /\ req[q].new.of[s] # req[q].seen.of[s] => rows'[f].of[s] # 0
  <2>1. rows[f] \in LastingReceipts /\ <<rows[f], req[q].seen, req[q].new>> \in ReceiptFits
    BY <1>1, <1>4 DEF ReceiptsHeld, Held
  <2>2. rows'[f] = Committed(rows[f], req[q].seen, req[q].new)
    BY <1>1, <1>3
  <2> QED
    BY <2>1, <2>2, ReceiptCommit
<1> SUFFICES ASSUME NEW p \in Requests, NEW s \in Receipts, req'[p].of \in ReceiptChains
             PROVE  /\ req'[p].pc = LinkOf[s] => rows'[req'[p].of].of[s] # 0
                    /\ Saving(p)' /\ req'[p].then = LinkOf[s]
                         => req'[p].seen.of[s] = 0 /\ req'[p].new.of[s] # 0
  BY DEF LinkDue
<1>5. CASE p = q
  <2>1. CASE req[q].then = "idle"
    BY <1>2, <1>5, <2>1, LinksApart DEF Idle, Saving
  <2>2. CASE req[q].then # "idle"
    <3>1. req'[p] = [pc |-> req[q].then, of |-> f]
      BY <1>2, <1>5, <2>2
    <3>2. req[q].then # "save"
      BY <1>1, <2>2 DEF WellFormed, Shape, Saving, Idle, Stops, Links, Logging, ToLog, Decisions
    <3> QED
      BY <1>1, <1>4, <3>1, <3>2 DEF LinkDue, Saving
  <2> QED
    BY <2>1, <2>2
<1>6. CASE p # q
  <2>1. req'[p] = req[p]
    BY <1>2, <1>6
  <2>2. rows[req[p].of].of[s] # 0 => rows'[req[p].of].of[s] # 0
    BY <1>3, <1>4, <2>1
  <2> QED
    BY <2>1, <2>2 DEF LinkDue, Saving
<1> QED
  BY <1>5, <1>6

LEMMA LinkDueStays ==
    ASSUME WellFormed(Stops), ReceiptChains \subseteq Entities, LinkDue, NEW q \in Requests,
           \/ Lose(q)
           \/ UNCHANGED <<rows, req>>
           \/ \E e \in Entities \ ReceiptChains : Writes(q, e, Stops)
    PROVE  LinkDue'
<1>1. CASE Lose(q)
  <2>1. \A p \in Requests : req'[p] = req[p] \/ req'[p] = Idle
    BY <1>1 DEF Lose, WellFormed
  <2> QED
    BY <1>1, <2>1, LinksApart DEF LinkDue, Saving, Lose, Idle
<1>2. CASE UNCHANGED <<rows, req>>
  BY <1>2 DEF LinkDue, Saving
<1>3. ASSUME NEW e \in Entities \ ReceiptChains, NEW new, Ends(q, e, new, Stops)
      PROVE  LinkDue'
  <2>1. \A f \in ReceiptChains : rows'[f] = rows[f]
    BY <1>3, EndsChanges DEF WellFormed
  <2>2. \A p \in Requests : req'[p].of \in ReceiptChains => req'[p] = req[p]
    BY <1>3, EndsChanges DEF WellFormed, Saved
  <2> QED
    BY <2>1, <2>2 DEF LinkDue, Saving
<1> QED
  BY <1>1, <1>2, <1>3 DEF Writes

-----------------------------------------------------------------------------
LEMMA CappedType == ASSUME NEW x \in Nat PROVE Capped(x) \in 0 .. 100
BY DEF Capped

LEMMA OverallType ==
    ASSUME NEW k \in CustomerFacts, NEW x \in Expectations
    PROVE  Overall(k, x) \in 0 .. 2000
<1>1. ScoreCustomer(k) \in 0 .. 100
  <2>1. PepPoints(k.pep) \in Nat /\ NationalityPoints(k.nationality) \in Nat
    BY DEF PepPoints, NationalityPoints, If
  <2> QED
    BY <2>1, CappedType DEF ScoreCustomer, If
<1>2. ScoreProduct(x) \in 0 .. 100
  BY CappedType DEF ScoreProduct, If
<1>3. GeographicPoints(AllCountries(k, x)) \in 0 .. 100
  BY DEF GeographicPoints, If
<1>4. ScoreChannel(x) \in 0 .. 100
  <2>1. ChannelPoints(x.channel) \in Nat
    BY DEF ChannelPoints, Expectations
  <2> QED
    BY <2>1, CappedType DEF ScoreChannel, If
<1>5. ScoreExpected(x) \in 0 .. 100
  <2>1. FrequencyPoints(x.frequency) \in Nat
    BY DEF FrequencyPoints
  <2> QED
    BY <2>1, CappedType DEF ScoreExpected, If
<1> DEFINE a == ScoreCustomer(k)
           b == ScoreProduct(x)
           g == GeographicPoints(AllCountries(k, x))
           h == ScoreChannel(x)
           i == ScoreExpected(x)
<1>6. Overall(k, x) = 6 * a + 5 * b + 4 * g + 3 * h + 2 * i
  BY DEF Overall
<1> HIDE DEF a, b, g, h, i
<1>7. /\ a \in 0 .. 100 /\ b \in 0 .. 100 /\ g \in 0 .. 100 /\ h \in 0 .. 100
      /\ i \in 0 .. 100
  BY <1>1, <1>2, <1>3, <1>4, <1>5 DEF a, b, g, h, i
<1> QED
  BY <1>6, <1>7

LEMMA ProfileKeeps ==
    ASSUME NEW q, NEW e, ProfileRequest(q, e)
    PROVE  KeepsTo(q, e, ProfileRows, ProfileRows)
<1>1. ASSUME NEW k \in People, CreateProfile(q, e, k)
      PROVE  KeepsTo(q, e, ProfileRows, ProfileRows)
  <2> DEFINE new == [rows[e] EXCEPT !.customer.facts = <<k>>]
  <2>1. <<k>> \in KnownFacts
    BY ProfilesAssumption DEF KnownFacts
  <2>2. rows[e] \in ProfileRows => new \in ProfileRows
    BY <2>1 DEF ProfileRows
  <2> QED
    BY <1>1, <2>2, HandleKeeps DEF CreateProfile
<1>2. ASSUME NEW occupation \in BOOLEAN, NEW taxId \in BOOLEAN,
            UpdateFacts(q, e, occupation, taxId)
      PROVE  KeepsTo(q, e, ProfileRows, ProfileRows)
  <2> DEFINE first == [rows[e].customer.facts[1] EXCEPT !.occupation = occupation, !.taxId = taxId]
             new == [rows[e] EXCEPT !.customer.facts = <<first>>]
  <2>1. rows[e] \in ProfileRows => rows[e].customer.facts[1] \in CustomerFacts
    BY <1>2 DEF ProfileRows, KnownFacts, UpdateFacts
  <2>2. rows[e] \in ProfileRows => first \in CustomerFacts
    BY <2>1 DEF CustomerFacts
  <2>3. rows[e] \in ProfileRows => new \in ProfileRows
    <3> HIDE DEF first
    <3>1. rows[e] \in ProfileRows => <<first>> \in KnownFacts
      BY <2>2 DEF KnownFacts
    <3> QED
      BY <3>1 DEF ProfileRows
  <2>4. Handle(q, e, new)
    BY <1>2 DEF UpdateFacts
  <2> QED
    BY <2>3, <2>4, HandleKeeps
<1>3. ASSUME NEW x \in Entered, AssessRisk(q, e, x)
      PROVE  KeepsTo(q, e, ProfileRows, ProfileRows)
  <2> DEFINE k == rows[e].customer.facts[1]
             facts == <<k, x>>
             overall == Overall(k, x)
             gateway == DetermineGateway(k, x)
             level == LevelOf(overall)
             cdd == CddLevelOf(gateway, overall)
             profile == [facts |-> facts, overall |-> overall, level |-> level,
                         gateway |-> gateway]
             mid == [rows[e] EXCEPT !.profile = profile]
             new == [mid EXCEPT !.customer.level = level, !.customer.cdd = cdd]
  <2>1. rows[e] \in ProfileRows => k \in CustomerFacts
    <3>1. rows[e].customer.facts # <<>>
      BY <1>3 DEF AssessRisk
    <3>2. rows[e] \in ProfileRows => rows[e].customer.facts \in KnownFacts
      BY DEF ProfileRows
    <3> QED
      BY <3>1, <3>2 DEF KnownFacts
  <2>2. x \in Expectations
    BY ProfilesAssumption
  <2>3. rows[e] \in ProfileRows => overall \in Scores
    <3> HIDE DEF k
    <3> QED
      BY <2>1, <2>2, OverallType DEF Scores
  <2>4. level \in RiskLevels /\ cdd \in CddLevels /\ gateway \in {"none", "cdd", "edd"}
    BY DEF LevelOf, CddLevelOf, DetermineGateway, RiskLevels, CddLevels
  <2>5. rows[e] \in ProfileRows => mid \in ProfileRows
    <3>1. rows[e] \in ProfileRows => <<k, x>> \in AssessedFacts
      <4> HIDE DEF k
      <4> QED
        BY <2>1, <2>2 DEF AssessedFacts
    <3> HIDE DEF facts, overall, gateway, level
    <3>2. rows[e] \in ProfileRows => facts \in AssessedFacts
      BY <3>1 DEF facts
    <3> QED
      BY <2>3, <2>4, <3>2 DEF ProfileRows
  <2>6. rows[e] \in ProfileRows => new \in ProfileRows
    <3> HIDE DEF mid, level, cdd
    <3> QED
      BY <2>4, <2>5 DEF ProfileRows
  <2>7. Handle(q, e, new)
    BY <1>3 DEF AssessRisk
  <2> QED
    BY <2>6, <2>7, HandleKeeps
<1> QED
  BY <1>1, <1>2, <1>3
  DEF ProfileRequest

LEMMA ProfileByColumn == ByColumn(ProfileRows)
<1> SUFFICES ASSUME NEW now \in ProfileRows, NEW seen \in ProfileRows, NEW new \in ProfileRows
             PROVE  Written(now, seen, new) \in ProfileRows
  BY DEF ByColumn
<1> DEFINE w == Written(now, seen, new)
<1>1. w.customer \in [facts : KnownFacts, level : RiskLevels, cdd : CddLevels]
  BY DEF Written, ProfileRows
<1>2. w.profile \in [facts : AssessedFacts, overall : Scores,
                   level : RiskLevels, gateway : {"none", "cdd", "edd"}]
  BY DEF Written, ProfileRows
<1>3. w \in ProfileRows
  BY <1>1, <1>2 DEF Written, ProfileRows
<1> QED
  BY <1>3

-----------------------------------------------------------------------------
(* A rescoring that ended low had factors that alone give low.                *)
GoodRescored ==
    {r \in RescoredRows :
        r.history.trigger = "manual_rescore" /\ r.history.level = "low" => r.history.base = "low"}

LEMMA LevelForType == ASSUME NEW points, NEW n PROVE LevelFor(points, n) \in RiskLevels
BY DEF LevelFor, RiskLevels

LEMMA RecordedType ==
    ASSUME NEW r \in RescoredRows, NEW trigger \in {"manual_rescore", "periodic_review", "mlro_override"}
    PROVE  /\ RiskRecorded(r, trigger) \in RescoredRows
           /\ RiskRecorded(r, trigger).history
                = [trigger |-> trigger, base |-> BaseLevel(r), level |-> r.customer.level]
<1>1. BaseLevel(r) \in RiskLevels
  BY LevelForType DEF BaseLevel
<1> QED
  BY <1>1 DEF RiskRecorded, RescoredRows

LEMMA LowOnlyByFactors ==
    ASSUME NEW r
    PROVE  /\ RescoredLevel(r) \in RiskLevels
           /\ RescoredLevel(r) = "low" => BaseLevel(r) = "low"
<1> DEFINE n == 4 * Cardinality(Answered(r))
           points == n * FactorPoints(r.customer) - WeightLimit * Cardinality(Compliant(r))
           reduced == LevelFor(points, n)
<1>1. reduced \in RiskLevels /\ BaseLevel(r) \in RiskLevels
  BY LevelForType DEF BaseLevel
<1>2. RescoredLevel(r) = IF Answered(r) = {} THEN BaseLevel(r)
                         ELSE IF reduced = "low" /\ BaseLevel(r) # "low" THEN "medium" ELSE reduced
  BY DEF RescoredLevel
<1> HIDE DEF reduced
<1> QED
  BY <1>1, <1>2 DEF RiskLevels

LEMMA RescoredKeeps ==
    ASSUME NEW q, NEW e, RescoredRequest(q, e)
    PROVE  KeepsTo(q, e, RescoredRows, GoodRescored)
<1>1. ASSUME NEW pep \in BOOLEAN, NEW matched \in BOOLEAN, NEW embargoed \in BOOLEAN,
            CreateWithFlags(q, e, pep, matched, embargoed)
      PROVE  KeepsTo(q, e, RescoredRows, GoodRescored)
  <2> DEFINE new == [rows[e] EXCEPT !.customer.pep = pep, !.customer.matched = matched,
                                    !.customer.embargoed = embargoed]
  <2>1. rows[e] \in RescoredRows =>
          /\ new \in RescoredRows
          /\ new.history = rows[e].history
    BY DEF RescoredRows
  <2>2. rows[e] \in GoodRescored => new \in GoodRescored
    <3> HIDE DEF new
    <3> QED
      BY <1>1, <2>1 DEF GoodRescored
  <2> QED
    BY <1>1, <2>1, <2>2, HandleKeeps DEF CreateWithFlags
<1>2. ASSUME NEW s \in Questions, NEW a \in Answers, AnswerQuestions(q, e, s, a)
      PROVE  KeepsTo(q, e, RescoredRows, GoodRescored)
  <2> DEFINE new == [rows[e] EXCEPT !.answers[s] = a]
  <2>1. rows[e] \in RescoredRows =>
          /\ new \in RescoredRows
          /\ new.history = rows[e].history
    BY DEF RescoredRows
  <2>2. rows[e] \in GoodRescored => new \in GoodRescored
    <3> HIDE DEF new
    <3> QED
      BY <1>2, <2>1 DEF GoodRescored
  <2> QED
    BY <1>2, <2>1, <2>2, HandleKeeps DEF AnswerQuestions
<1>3. ASSUME Rescore(q, e)
      PROVE  KeepsTo(q, e, RescoredRows, GoodRescored)
  <2> DEFINE level == RescoredLevel(rows[e])
             mid == [rows[e] EXCEPT !.customer.level = level]
             new == RiskRecorded(mid, "manual_rescore")
  <2>1. level \in RiskLevels /\ (level = "low" => BaseLevel(rows[e]) = "low")
    BY LowOnlyByFactors
  <2>2. rows[e] \in RescoredRows
          => /\ mid \in RescoredRows /\ mid.customer.level = level
             /\ mid.customer.pep = rows[e].customer.pep
             /\ mid.customer.matched = rows[e].customer.matched
             /\ mid.customer.embargoed = rows[e].customer.embargoed
             /\ mid.customer.cdd = rows[e].customer.cdd
    <3> HIDE DEF level
    <3> QED
      BY <2>1 DEF RescoredRows
  <2>3. rows[e] \in RescoredRows => BaseLevel(mid) = BaseLevel(rows[e])
    <3> HIDE DEF mid
    <3> QED
      BY <2>2 DEF BaseLevel, FactorPoints
  <2>4. rows[e] \in RescoredRows => new \in GoodRescored
    <3> HIDE DEF mid, level
    <3>1. rows[e] \in RescoredRows
            => /\ new \in RescoredRows
               /\ new.history = [trigger |-> "manual_rescore", base |-> BaseLevel(mid),
                                 level |-> mid.customer.level]
      BY <2>2, RecordedType
    <3> HIDE DEF new
    <3> QED
      BY <2>1, <2>2, <2>3, <3>1 DEF GoodRescored
  <2>5. Handle(q, e, new)
    BY <1>3 DEF Rescore
  <2> QED
    BY <2>4, <2>5, HandleKeeps DEF GoodRescored
<1>4. ASSUME NEW cdd \in CddLevels, ReviewRisk(q, e, cdd)
      PROVE  KeepsTo(q, e, RescoredRows, GoodRescored)
  <2> DEFINE mid == [rows[e] EXCEPT !.customer.cdd = cdd]
             new == RiskRecorded(mid, "periodic_review")
  <2>1. rows[e] \in RescoredRows => mid \in RescoredRows
    BY DEF RescoredRows
  <2>2. rows[e] \in RescoredRows => new \in GoodRescored
    <3> HIDE DEF mid
    <3>1. rows[e] \in RescoredRows
            => /\ new \in RescoredRows
               /\ new.history = [trigger |-> "periodic_review", base |-> BaseLevel(mid),
                                 level |-> mid.customer.level]
      BY <2>1, RecordedType
    <3> HIDE DEF new
    <3> QED
      BY <3>1 DEF GoodRescored
  <2>3. Handle(q, e, new)
    BY <1>4 DEF ReviewRisk
  <2> QED
    BY <2>2, <2>3, HandleKeeps DEF GoodRescored
<1>5. ASSUME NEW level \in RiskLevels, NEW cdd \in CddLevels, OverrideRisk(q, e, level, cdd)
      PROVE  KeepsTo(q, e, RescoredRows, GoodRescored)
  <2> DEFINE mid == [rows[e] EXCEPT !.customer.level = level, !.customer.cdd = cdd]
             new == RiskRecorded(mid, "mlro_override")
  <2>1. rows[e] \in RescoredRows => mid \in RescoredRows
    BY DEF RescoredRows
  <2>2. rows[e] \in RescoredRows => new \in GoodRescored
    <3> HIDE DEF mid
    <3>1. rows[e] \in RescoredRows
            => /\ new \in RescoredRows
               /\ new.history = [trigger |-> "mlro_override", base |-> BaseLevel(mid),
                                 level |-> mid.customer.level]
      BY <2>1, RecordedType
    <3> HIDE DEF new
    <3> QED
      BY <3>1 DEF GoodRescored
  <2>3. Handle(q, e, new)
    BY <1>5 DEF OverrideRisk
  <2> QED
    BY <2>2, <2>3, HandleKeeps DEF GoodRescored
<1> QED
  BY <1>1, <1>2, <1>3, <1>4, <1>5
  DEF RescoredRequest, Answers

LEMMA RescoredByColumn == ByColumn(RescoredRows)
<1> SUFFICES ASSUME NEW now \in RescoredRows, NEW seen \in RescoredRows, NEW new \in RescoredRows
             PROVE  Written(now, seen, new) \in RescoredRows
  BY DEF ByColumn
<1> DEFINE w == Written(now, seen, new)
<1>1. w.customer \in [pep : BOOLEAN, matched : BOOLEAN, embargoed : BOOLEAN,
                   level : RiskLevels, cdd : CddLevels]
  BY DEF Written, RescoredRows
<1>2. w.answers \in [Questions -> Answers]
  BY DEF Written, RescoredRows
<1>3. w.history \in [trigger : {"none", "manual_rescore", "periodic_review", "mlro_override"},
                  base : RiskLevels, level : RiskLevels]
  BY DEF Written, RescoredRows
<1>4. w \in RescoredRows
  BY <1>1, <1>2, <1>3 DEF Written, RescoredRows
<1> QED
  BY <1>4

-----------------------------------------------------------------------------
(* What is in Stripe's queue brings a subscription and its invoice in step    *)
(* with Stripe: the last event of each has what Stripe has, and what no event *)
(* is about already has it.  The first event of an invoice opens it.          *)
About(v, n) == v.kind # "invoice" /\ v.of = n
Last(q, n, k) == About(q[k], n) /\ \A j \in k + 1 .. Len(q) : ~About(q[j], n)
LastInvoice(q, k) == q[k].kind = "invoice" /\ \A j \in k + 1 .. Len(q) : q[j].kind # "invoice"

Opening(q) == \E k \in 1 .. Len(q) : q[k].kind = "invoice" /\ q[k].status = "open"

EventTrue(v, x) ==
    /\ v.kind = "checkout" => v.status = "active"
    /\ v.kind = "deleted" => v.status = "canceled"
    /\ v.kind # "invoice" => /\ v.status # "none" /\ x.status[v.of] # "none"
                             /\ v.status = "canceled" => x.status[v.of] = "canceled"
    /\ v.kind = "invoice" => x.invoice # "none" /\ (v.status = "paid" => x.invoice = "paid")
EventsTrue(x) ==
    /\ \A k \in 1 .. Len(x.queue) : EventTrue(x.queue[k], x)
    /\ ~x.shuffled =>
         \A k \in 1 .. Len(x.queue), n \in 1 .. MaxCheckouts :
            Last(x.queue, n, k) => x.queue[k].status = x.status[n]
InStep(s, x) ==
    s.by = "stripe" =>
      /\ s.link # 0
      /\ s.status = "canceled" => x.status[s.link] = "canceled"
      /\ ~x.shuffled /\ (\A k \in 1 .. Len(x.queue) : ~About(x.queue[k], s.link))
           => s.status = x.status[s.link]
Linked(s, x) ==
    /\ s.link # 0 => x.status[s.link] # "none"
    /\ s.status = "none" => s.by = "hand"
Invoiced(i, x) ==
    /\ i.status = "paid" => x.invoice = "paid"
    /\ i.status = "none" /\ x.invoice # "none" => Opening(x.queue)
    /\ i.status = "paid" /\ ~i.dated => Opening(x.queue)
    /\ ~x.shuffled =>
         /\ \A k \in 1 .. Len(x.queue) : LastInvoice(x.queue, k) => x.queue[k].status = x.invoice
         /\ (\A k \in 1 .. Len(x.queue) : x.queue[k].kind # "invoice") => i.status = x.invoice
PriceKept(s) == s.price # <<>> => s.price = EffectivePrice(s)

GoodAccounts ==
    {r \in AccountRows :
        /\ PriceKept(r.subscription)
        /\ EventsTrue(r.stripe)
        /\ InStep(r.subscription, r.stripe) /\ Linked(r.subscription, r.stripe)
        /\ Invoiced(r.invoice, r.stripe)}

(* How a queue grows and shrinks.                                             *)
Longer(p, q) == Len(q) > Len(p) /\ \A k \in 1 .. Len(p) : q[k] = p[k]
Shorter(p, q, i) ==
    Len(p) = Len(q) + 1 /\ \A k \in 1 .. Len(q) : q[k] = IF k < i THEN p[k] ELSE p[k + 1]

LEMMA QueueType ==
    ASSUME NEW x \in StripeRow
    PROVE  /\ x.queue \in Seq(StripeEvents) /\ Len(x.queue) \in Nat
           /\ \A k \in 1 .. Len(x.queue) : x.queue[k] \in StripeEvents
<1>1. x.queue \in Seq(StripeEvents)
  BY DEF StripeRow
<1> QED
  BY <1>1, LenProperties, ElementOfSeq

LEMMA EventOfType ==
    ASSUME NEW r \in AccountRows, NEW kind \in {"checkout", "updated", "deleted"},
           NEW n \in 1 .. MaxCheckouts
    PROVE  /\ EventOf(r, kind, n) \in StripeEvents
           /\ EventOf(r, kind, n).kind = kind /\ EventOf(r, kind, n).of = n
           /\ EventOf(r, kind, n).status = r.stripe.status[n]
BY DEF EventOf, StripeEvents, AccountRows, StripeRow

LEMMA EmittedQueue ==
    ASSUME NEW r \in AccountRows, NEW events \in Seq(StripeEvents)
    PROVE  LET new == Emitted(r, events)
               n == Len(r.stripe.queue)
           IN  /\ new \in AccountRows
               /\ new.subscription = r.subscription /\ new.invoice = r.invoice
               /\ new.stripe.status = r.stripe.status /\ new.stripe.invoice = r.stripe.invoice
               /\ new.stripe.shuffled = r.stripe.shuffled
               /\ Len(new.stripe.queue) = n + Len(events)
               /\ \A k \in 1 .. n : new.stripe.queue[k] = r.stripe.queue[k]
               /\ \A k \in n + 1 .. n + Len(events) : new.stripe.queue[k] = events[k - n]
<1> DEFINE q == r.stripe.queue \o events
           new == [r EXCEPT !.stripe.queue = q]
           n == Len(r.stripe.queue)
<1>1. r.stripe \in StripeRow
  BY DEF AccountRows
<1>2. r.stripe.queue \in Seq(StripeEvents) /\ n \in Nat
  BY <1>1, QueueType
<1>3. Len(events) \in Nat
  BY LenProperties
<1>4. /\ q \in Seq(StripeEvents) /\ Len(q) = n + Len(events)
      /\ \A i \in 1 .. n + Len(events) :
           q[i] = IF i <= n THEN r.stripe.queue[i] ELSE events[i - n]
  <2> HIDE DEF q
  <2>1. \A s1, s2 \in Seq(StripeEvents) :
           /\ s1 \o s2 \in Seq(StripeEvents) /\ Len(s1 \o s2) = Len(s1) + Len(s2)
           /\ \A i \in 1 .. Len(s1) + Len(s2) :
                (s1 \o s2)[i] = IF i <= Len(s1) THEN s1[i] ELSE s2[i - Len(s1)]
    BY ConcatProperties
  <2> QED
    BY <1>2, <2>1 DEF q
<1>5. /\ new \in AccountRows
      /\ new.subscription = r.subscription /\ new.invoice = r.invoice
      /\ new.stripe.status = r.stripe.status /\ new.stripe.invoice = r.stripe.invoice
      /\ new.stripe.shuffled = r.stripe.shuffled /\ new.stripe.queue = q
  <2> HIDE DEF q
  <2> QED
    BY <1>4 DEF AccountRows, StripeRow
<1>6. Emitted(r, events) = new
  BY DEF Emitted
<1> HIDE DEF q, new, n
<1>7. \A k \in 1 .. n : q[k] = r.stripe.queue[k]
  BY <1>2, <1>3, <1>4
<1>8. \A k \in n + 1 .. n + Len(events) : q[k] = events[k - n]
  BY <1>2, <1>3, <1>4
<1> QED
  BY <1>4, <1>5, <1>6, <1>7, <1>8 DEF n

(* Stripe goes from x to y and its events keep what depends on them.          *)
Follows(x, y) ==
    /\ EventsTrue(x) => EventsTrue(y)
    /\ \A s \in SubscriptionRow : InStep(s, x) => InStep(s, y)
    /\ \A s \in SubscriptionRow : Linked(s, x) => Linked(s, y)
    /\ \A i : Invoiced(i, x) => Invoiced(i, y)

(* Stripe changes a subscription and says so.                                 *)
LEMMA ReportedKeeps ==
    ASSUME NEW x \in StripeRow, NEW y \in StripeRow, NEW n \in 1 .. MaxCheckouts,
           Longer(x.queue, y.queue),
           \A k \in Len(x.queue) + 1 .. Len(y.queue) :
              /\ About(y.queue[k], n) /\ y.queue[k].status = y.status[n]
              /\ y.queue[k].kind = "checkout" => y.queue[k].status = "active"
              /\ y.queue[k].kind = "deleted" => y.queue[k].status = "canceled",
           \A m \in 1 .. MaxCheckouts \ {n} : y.status[m] = x.status[m],
           y.status[n] # "none", x.status[n] = "canceled" => y.status[n] = "canceled",
           y.invoice = x.invoice, y.shuffled = x.shuffled
    PROVE  Follows(x, y)
<1> DEFINE p == x.queue
           q == y.queue
<1>1. Len(p) \in Nat /\ Len(q) \in Nat
  BY QueueType
<1>2. Len(q) > Len(p) /\ \A k \in 1 .. Len(p) : q[k] = p[k]
  BY DEF Longer
<1>3. /\ \A k \in Len(p) + 1 .. Len(q) : About(q[k], n) /\ q[k].status = y.status[n]
      /\ Len(p) + 1 \in Len(p) + 1 .. Len(q)
  BY <1>1, <1>2
<1> HIDE DEF p, q
<1>4. ASSUME EventsTrue(x) PROVE EventsTrue(y)
  <2>1. ASSUME NEW k \in 1 .. Len(q)
        PROVE  EventTrue(q[k], y)
    <3>1. CASE k <= Len(p)
      <4>1. q[k] = p[k] /\ k \in 1 .. Len(p) /\ p[k] \in StripeEvents
        BY <1>1, <1>2, <3>1, QueueType DEF p
      <4>2. EventTrue(p[k], x)
        BY <1>4, <4>1 DEF EventsTrue, p
      <4>3. p[k].kind # "invoice" => p[k].of \in 1 .. MaxCheckouts
        BY <4>1 DEF StripeEvents
      <4> QED
        BY <4>1, <4>2, <4>3 DEF EventTrue
    <3>2. CASE k > Len(p)
      <4>1. k \in Len(p) + 1 .. Len(q)
        BY <1>1, <3>2
      <4>2. About(q[k], n) /\ q[k].status = y.status[n]
        BY <1>3, <4>1
      <4>3. /\ q[k].kind = "checkout" => q[k].status = "active"
            /\ q[k].kind = "deleted" => q[k].status = "canceled"
        BY <4>1 DEF p, q
      <4> QED
        BY <4>2, <4>3 DEF About, EventTrue
    <3> QED
      BY <1>1, <3>1, <3>2
  <2>2. ASSUME ~y.shuffled, NEW k \in 1 .. Len(q), NEW m \in 1 .. MaxCheckouts, Last(q, m, k)
        PROVE  q[k].status = y.status[m]
    <3>1. CASE k <= Len(p)
      <4>1. q[k] = p[k] /\ k \in 1 .. Len(p)
        BY <1>1, <1>2, <3>1
      <4>2. m # n
        <5>1. Len(p) + 1 \in k + 1 .. Len(q)
          BY <1>1, <1>2, <3>1
        <5> QED
          BY <1>3, <2>2, <5>1 DEF Last
      <4>3. Last(p, m, k)
        <5>1. \A j \in k + 1 .. Len(p) : q[j] = p[j] /\ j \in k + 1 .. Len(q)
          BY <1>1, <1>2, <3>1
        <5> QED
          BY <2>2, <4>1, <5>1 DEF Last
      <4> QED
        BY <1>4, <2>2, <4>1, <4>2, <4>3 DEF EventsTrue, p
    <3>2. CASE k > Len(p)
      <4>1. k \in Len(p) + 1 .. Len(q)
        BY <1>1, <3>2
      <4>2. m = n
        BY <1>3, <2>2, <4>1 DEF Last, About
      <4> QED
        BY <1>3, <4>1, <4>2
    <3> QED
      BY <1>1, <3>1, <3>2
  <2> QED
    BY <2>1, <2>2 DEF EventsTrue, q
<1>5. ASSUME NEW s \in SubscriptionRow, InStep(s, x) PROVE InStep(s, y)
  <2> SUFFICES ASSUME s.by = "stripe"
               PROVE  /\ s.status = "canceled" => y.status[s.link] = "canceled"
                      /\ ~y.shuffled /\ (\A k \in 1 .. Len(q) : ~About(q[k], s.link))
                           => s.status = y.status[s.link]
    BY <1>5 DEF InStep, q
  <2>1. s.link \in 1 .. MaxCheckouts
    BY <1>5, CheckoutsAssumption DEF InStep, SubscriptionRow
  <2>2. s.status = "canceled" => y.status[s.link] = "canceled"
    <3>1. s.status = "canceled" => x.status[s.link] = "canceled"
      BY <1>5 DEF InStep
    <3> QED
      BY <2>1, <3>1
  <2>3. ASSUME ~y.shuffled, \A k \in 1 .. Len(q) : ~About(q[k], s.link)
        PROVE  s.status = y.status[s.link]
    <3>1. s.link # n
      BY <1>1, <1>2, <1>3, <2>3
    <3>2. \A k \in 1 .. Len(p) : ~About(p[k], s.link)
      BY <1>1, <1>2, <2>3
    <3> QED
      BY <1>5, <2>1, <2>3, <3>1, <3>2 DEF InStep, p
  <2> QED
    BY <2>2, <2>3
<1>6. ASSUME NEW i, Invoiced(i, x) PROVE Invoiced(i, y)
  <2>1. \A k \in Len(p) + 1 .. Len(q) : q[k].kind # "invoice"
    BY <1>3 DEF About
  <2>2. \A k \in 1 .. Len(q) : q[k].kind = "invoice" => k \in 1 .. Len(p) /\ q[k] = p[k]
    BY <1>1, <1>2, <2>1
  <2>3. \A k \in 1 .. Len(p) : k \in 1 .. Len(q) /\ q[k] = p[k]
    BY <1>1, <1>2
  <2>4. ~y.shuffled => \A k \in 1 .. Len(q) : LastInvoice(q, k) => q[k].status = y.invoice
    <3> SUFFICES ASSUME ~y.shuffled, NEW k \in 1 .. Len(q), LastInvoice(q, k)
                 PROVE  q[k].status = y.invoice
      OBVIOUS
    <3>1. k \in 1 .. Len(p) /\ q[k] = p[k]
      BY <2>2 DEF LastInvoice
    <3>2. \A j \in k + 1 .. Len(p) : j \in k + 1 .. Len(q) /\ q[j] = p[j]
      BY <1>1, <1>2, <3>1
    <3>3. LastInvoice(p, k)
      BY <3>1, <3>2 DEF LastInvoice
    <3> QED
      BY <1>6, <3>1, <3>3 DEF Invoiced, p
  <2>5. ~y.shuffled /\ (\A k \in 1 .. Len(q) : q[k].kind # "invoice") => i.status = y.invoice
    BY <1>6, <2>3 DEF Invoiced, p
  <2>6. Opening(p) => Opening(q)
    BY <2>3 DEF Opening
  <2> QED
    BY <1>6, <2>4, <2>5, <2>6 DEF Invoiced, p, q
<1>7. ASSUME NEW s \in SubscriptionRow, Linked(s, x) PROVE Linked(s, y)
  <2>1. s.link # 0 => s.link \in 1 .. MaxCheckouts
    BY CheckoutsAssumption DEF SubscriptionRow
  <2> QED
    BY <1>7, <2>1 DEF Linked
<1> QED
  BY <1>4, <1>5, <1>6, <1>7 DEF Follows

(* Stripe opens or settles an invoice and says so.                            *)
LEMMA BilledKeeps ==
    ASSUME NEW x \in StripeRow, NEW y \in StripeRow, NEW v,
           Longer(x.queue, y.queue), Len(y.queue) = Len(x.queue) + 1,
           y.queue[Len(x.queue) + 1] = v, v.kind = "invoice", v.status = y.invoice,
           y.status = x.status, y.shuffled = x.shuffled, y.invoice # "none",
           x.invoice = "none" => y.invoice = "open", x.invoice = "paid" => y.invoice = "paid"
    PROVE  Follows(x, y)
<1> DEFINE p == x.queue
           q == y.queue
           N == Len(p) + 1
<1>1. Len(p) \in Nat /\ Len(q) = N
  BY QueueType
<1>2. /\ \A k \in 1 .. Len(p) : q[k] = p[k] /\ k \in 1 .. Len(q)
      /\ \A k \in 1 .. Len(q) : k \in 1 .. Len(p) \/ k = N
      /\ N \in 1 .. Len(q) /\ q[N] = v
  BY <1>1 DEF Longer
<1>3. v.kind = "invoice" /\ v.status = y.invoice /\ \A n : ~About(v, n)
  BY DEF About
<1> HIDE DEF p, q
<1>4. ASSUME EventsTrue(x) PROVE EventsTrue(y)
  <2>1. ASSUME NEW k \in 1 .. Len(q) PROVE EventTrue(q[k], y)
    <3>1. CASE k \in 1 .. Len(p)
      <4>1. EventTrue(p[k], x) /\ q[k] = p[k]
        BY <1>2, <1>4, <3>1 DEF EventsTrue, p
      <4> QED
        BY <4>1 DEF EventTrue
    <3>2. CASE k = N
      BY <1>2, <1>3, <3>2 DEF EventTrue
    <3> QED
      BY <1>2, <3>1, <3>2
  <2>2. ASSUME ~y.shuffled, NEW k \in 1 .. Len(q), NEW m \in 1 .. MaxCheckouts, Last(q, m, k)
        PROVE  q[k].status = y.status[m]
    <3>1. k \in 1 .. Len(p) /\ q[k] = p[k]
      BY <1>2, <1>3, <2>2 DEF Last
    <3>2. \A j \in k + 1 .. Len(p) : j \in k + 1 .. Len(q) /\ q[j] = p[j]
      BY <1>1, <1>2, <3>1
    <3>3. Last(p, m, k)
      BY <2>2, <3>1, <3>2 DEF Last
    <3> QED
      BY <1>4, <2>2, <3>1, <3>3 DEF EventsTrue, p
  <2> QED
    BY <2>1, <2>2 DEF EventsTrue, q
<1>5. ASSUME NEW s, InStep(s, x) PROVE InStep(s, y)
  BY <1>2, <1>5 DEF InStep, p, q
<1>6. ASSUME NEW i, Invoiced(i, x) PROVE Invoiced(i, y)
  <2>1. ASSUME ~y.shuffled, NEW k \in 1 .. Len(q), LastInvoice(q, k) PROVE q[k].status = y.invoice
    <3>1. CASE k = N
      BY <1>2, <1>3, <3>1
    <3>2. CASE k # N
      <4>1. k \in 1 .. Len(p) /\ N \in k + 1 .. Len(q)
        BY <1>1, <1>2, <3>2
      <4> QED
        BY <1>2, <1>3, <2>1, <4>1 DEF LastInvoice
    <3> QED
      BY <3>1, <3>2
  <2>2. Opening(p) => Opening(q)
    BY <1>2 DEF Opening
  <2>3. y.invoice = "open" => Opening(q)
    BY <1>2, <1>3 DEF Opening
  <2>4. ~(\A k \in 1 .. Len(q) : q[k].kind # "invoice")
    BY <1>2, <1>3
  <2> QED
    BY <1>6, <2>1, <2>2, <2>3, <2>4 DEF Invoiced, p, q
<1>7. \A s : Linked(s, x) => Linked(s, y)
  BY DEF Linked
<1> QED
  BY <1>4, <1>5, <1>6, <1>7 DEF Follows

LEMMA Reported ==
    ASSUME NEW was \in AccountRows, NEW r \in AccountRows, NEW n \in 1 .. MaxCheckouts,
           NEW events \in Seq(StripeEvents), Len(events) > 0,
           r.stripe.queue = was.stripe.queue, r.stripe.invoice = was.stripe.invoice,
           r.stripe.shuffled = was.stripe.shuffled,
           was.stripe.status[n] = "canceled" => r.stripe.status[n] = "canceled",
           \A m \in 1 .. MaxCheckouts \ {n} : r.stripe.status[m] = was.stripe.status[m],
           r.stripe.status[n] # "none",
           \A k \in 1 .. Len(events) :
              /\ About(events[k], n) /\ events[k].status = r.stripe.status[n]
              /\ events[k].kind = "checkout" => events[k].status = "active"
              /\ events[k].kind = "deleted" => events[k].status = "canceled"
    PROVE  LET new == Emitted(r, events) IN
           /\ new \in AccountRows
           /\ new.subscription = r.subscription /\ new.invoice = r.invoice
           /\ Follows(was.stripe, new.stripe)
<1> DEFINE new == Emitted(r, events)
           N == Len(was.stripe.queue)
<1>1. /\ new \in AccountRows
      /\ new.subscription = r.subscription /\ new.invoice = r.invoice
      /\ new.stripe.status = r.stripe.status /\ new.stripe.invoice = r.stripe.invoice
      /\ new.stripe.shuffled = r.stripe.shuffled
      /\ Len(new.stripe.queue) = N + Len(events)
      /\ \A k \in 1 .. N : new.stripe.queue[k] = was.stripe.queue[k]
      /\ \A k \in N + 1 .. N + Len(events) : new.stripe.queue[k] = events[k - N]
  <2> HIDE DEF new, N
  <2>1. /\ new \in AccountRows
        /\ new.subscription = r.subscription /\ new.invoice = r.invoice
        /\ new.stripe.status = r.stripe.status /\ new.stripe.invoice = r.stripe.invoice
        /\ new.stripe.shuffled = r.stripe.shuffled
        /\ Len(new.stripe.queue) = Len(r.stripe.queue) + Len(events)
        /\ \A k \in 1 .. Len(r.stripe.queue) : new.stripe.queue[k] = r.stripe.queue[k]
        /\ \A k \in Len(r.stripe.queue) + 1 .. Len(r.stripe.queue) + Len(events) :
             new.stripe.queue[k] = events[k - Len(r.stripe.queue)]
    BY EmittedQueue DEF new
  <2> QED
    BY <2>1 DEF N
<1> HIDE DEF new
<1>2. was.stripe \in StripeRow /\ new.stripe \in StripeRow
  BY <1>1 DEF AccountRows
<1>3. N \in Nat /\ Len(events) \in Nat
  BY <1>2, QueueType, LenProperties
<1>4. Longer(was.stripe.queue, new.stripe.queue)
  BY <1>1, <1>3 DEF Longer
<1>5. \A k \in N + 1 .. Len(new.stripe.queue) :
         k - N \in 1 .. Len(events) /\ new.stripe.queue[k] = events[k - N]
  BY SMTT(30), <1>1, <1>3
<1>6. \A k \in N + 1 .. Len(new.stripe.queue) :
         /\ About(new.stripe.queue[k], n) /\ new.stripe.queue[k].status = new.stripe.status[n]
         /\ new.stripe.queue[k].kind = "checkout" => new.stripe.queue[k].status = "active"
         /\ new.stripe.queue[k].kind = "deleted" => new.stripe.queue[k].status = "canceled"
  BY <1>1, <1>5
<1>7. Follows(was.stripe, new.stripe)
  <2> DEFINE x == was.stripe
             y == new.stripe
  <2>1. x \in StripeRow /\ y \in StripeRow /\ Longer(x.queue, y.queue) /\ y.invoice = x.invoice
        /\ y.shuffled = x.shuffled /\ (x.status[n] = "canceled" => y.status[n] = "canceled")
    BY <1>1, <1>2, <1>4
  <2>2. \A k \in Len(x.queue) + 1 .. Len(y.queue) :
           /\ About(y.queue[k], n) /\ y.queue[k].status = y.status[n]
           /\ y.queue[k].kind = "checkout" => y.queue[k].status = "active"
           /\ y.queue[k].kind = "deleted" => y.queue[k].status = "canceled"
    BY <1>6
  <2>3. (\A m \in 1 .. MaxCheckouts \ {n} : y.status[m] = x.status[m]) /\ y.status[n] # "none"
    BY <1>1
  <2> HIDE DEF x, y
  <2>4. Follows(x, y)
    BY <2>1, <2>2, <2>3, ReportedKeeps
  <2> QED
    BY <2>4 DEF x, y
<1> QED
  BY <1>1, <1>7 DEF new

LEMMA ReportedOne ==
    ASSUME NEW was \in AccountRows, NEW r \in AccountRows, NEW n \in 1 .. MaxCheckouts,
           NEW kind \in {"updated", "deleted"},
           r.stripe.queue = was.stripe.queue, r.stripe.invoice = was.stripe.invoice,
           r.stripe.shuffled = was.stripe.shuffled,
           was.stripe.status[n] = "canceled" => r.stripe.status[n] = "canceled",
           \A m \in 1 .. MaxCheckouts \ {n} : r.stripe.status[m] = was.stripe.status[m],
           r.stripe.status[n] # "none",
           kind = "deleted" => r.stripe.status[n] = "canceled"
    PROVE  LET new == Emitted(r, <<EventOf(r, kind, n)>>) IN
           /\ new \in AccountRows
           /\ new.subscription = r.subscription /\ new.invoice = r.invoice
           /\ Follows(was.stripe, new.stripe)
<1> DEFINE v == EventOf(r, kind, n)
           events == <<v>>
<1>1. v \in StripeEvents /\ v.kind = kind /\ v.of = n /\ v.status = r.stripe.status[n]
  BY EventOfType
<1> HIDE DEF v
<1>2. events \in Seq(StripeEvents) /\ Len(events) = 1 /\ events[1] = v
  BY <1>1
<1> HIDE DEF events
<1>3. \A k \in 1 .. Len(events) :
         /\ About(events[k], n) /\ events[k].status = r.stripe.status[n]
         /\ events[k].kind = "checkout" => events[k].status = "active"
         /\ events[k].kind = "deleted" => events[k].status = "canceled"
  <2> SUFFICES ASSUME NEW k \in 1 .. Len(events)
               PROVE  /\ About(events[k], n) /\ events[k].status = r.stripe.status[n]
                      /\ events[k].kind = "checkout" => events[k].status = "active"
                      /\ events[k].kind = "deleted" => events[k].status = "canceled"
    OBVIOUS
  <2>1. events[k] = v
    BY <1>2
  <2> QED
    BY <1>1, <2>1 DEF About
<1>4. Len(events) > 0
  BY <1>2
<1>5. LET new == Emitted(r, events) IN
      /\ new \in AccountRows
      /\ new.subscription = r.subscription /\ new.invoice = r.invoice
      /\ Follows(was.stripe, new.stripe)
  BY <1>2, <1>3, <1>4, Reported
<1> QED
  BY <1>5 DEF events, v

(* What an event does to the row.                                             *)
LEMMA PricedKeeps ==
    ASSUME NEW r \in AccountRows
    PROVE  LET new == Priced(r) IN
           /\ new \in AccountRows /\ new.invoice = r.invoice /\ new.stripe = r.stripe
           /\ new.subscription = [r.subscription EXCEPT !.price = EffectivePrice(r.subscription)]
           /\ new.subscription \in SubscriptionRow
           /\ PriceKept(new.subscription)
<1> DEFINE s == r.subscription
           price == EffectivePrice(s)
           t == [s EXCEPT !.price = price]
           new == [r EXCEPT !.subscription.price = price]
<1>1. s \in SubscriptionRow
  BY DEF AccountRows
<1>2. price \in Prices
  BY <1>1 DEF EffectivePrice, Prices, SubscriptionRow
<1>3. t \in SubscriptionRow
  <2> HIDE DEF price, s
  <2> QED
    BY <1>1, <1>2 DEF SubscriptionRow
<1>4. PriceKept(t)
  <2>1. /\ t.price = price /\ t.interval = s.interval /\ t.custom = s.custom /\ t.plan = s.plan
    <3> HIDE DEF price, s
    <3> QED
      BY <1>1 DEF SubscriptionRow
  <2> HIDE DEF t
  <2> QED
    BY <2>1 DEF PriceKept, EffectivePrice
<1>5. new \in AccountRows /\ new.subscription = t /\ new.invoice = r.invoice /\ new.stripe = r.stripe
  <2> HIDE DEF price
  <2> QED
    BY <1>3 DEF AccountRows
<1> QED
  BY <1>3, <1>4, <1>5 DEF Priced

HandledTo(v, s, t, i, j) ==
    \/ /\ v.kind \in {"updated", "deleted"} /\ s.link # v.of
       /\ t = s /\ j = i
    \/ /\ v.kind # "invoice" /\ j = i
       /\ t.by = "stripe" /\ t.link = v.of
       /\ t.status = CASE v.kind = "checkout" -> "active"
                       [] v.kind = "deleted" -> "canceled"
                       [] v.kind = "updated" -> v.status
    \/ /\ v.kind = "invoice" /\ t = s
       /\ j.status = v.status
       /\ j.dated = (i.dated \/ (i.status # "none" /\ v.status = "paid"))

LEMMA HandledEffect ==
    ASSUME NEW r \in AccountRows, NEW v \in StripeEvents
    PROVE  LET new == Handled(r, v)
               s == r.subscription
               t == new.subscription
           IN  /\ new \in AccountRows /\ new.stripe = r.stripe
               /\ PriceKept(s) => PriceKept(t)
               /\ HandledTo(v, s, t, r.invoice, new.invoice)
<1> DEFINE new == Handled(r, v)
           s == r.subscription
<1>1. s \in SubscriptionRow /\ r.stripe \in StripeRow
  BY DEF AccountRows
<1>2. CASE v.kind = "checkout"
  <2>1. v.of \in 1 .. MaxCheckouts /\ v.of \in 0 .. MaxCheckouts
    BY <1>2, CheckoutsAssumption DEF StripeEvents
  <2> DEFINE plan == r.stripe.order[v.of][1]
             interval == r.stripe.order[v.of][2]
             t == [s EXCEPT !.plan = plan, !.interval = interval, !.status = "active",
                            !.by = "stripe", !.link = v.of]
             mid == [r EXCEPT !.subscription.plan = plan, !.subscription.interval = interval,
                              !.subscription.status = "active", !.subscription.by = "stripe",
                              !.subscription.link = v.of]
  <2>2. plan \in Plans /\ interval \in Intervals
    <3>1. r.stripe.order[v.of] \in Plans \X Intervals
      BY <1>1, <2>1 DEF StripeRow
    <3> QED
      BY <3>1
  <2>3. t \in SubscriptionRow
    <3> HIDE DEF plan, interval, s
    <3> QED
      BY <1>1, <2>1, <2>2 DEF SubscriptionRow, SubscriptionStatuses
  <2>4. t.by = "stripe" /\ t.link = v.of /\ t.status = "active"
    <3> HIDE DEF plan, interval, s
    <3> QED
      BY <1>1 DEF SubscriptionRow
  <2>5. mid = [r EXCEPT !.subscription = t]
    <3> HIDE DEF plan, interval
    <3> QED
      BY DEF AccountRows, SubscriptionRow
  <2>6. mid \in AccountRows /\ mid.subscription = t /\ mid.invoice = r.invoice /\ mid.stripe = r.stripe
    <3> HIDE DEF t, mid
    <3> QED
      BY <2>3, <2>5 DEF AccountRows
  <2>7. new = Priced(mid)
    BY <1>2 DEF Handled, CheckoutCompleted
  <2> HIDE DEF t, mid, new
  <2>8. /\ new \in AccountRows /\ new.stripe = r.stripe /\ new.invoice = r.invoice
        /\ PriceKept(new.subscription)
        /\ new.subscription = [t EXCEPT !.price = EffectivePrice(t)]
    BY <2>6, <2>7, PricedKeeps
  <2>9. /\ new.subscription.by = "stripe" /\ new.subscription.link = v.of
        /\ new.subscription.status = "active"
    BY <2>3, <2>4, <2>8 DEF SubscriptionRow
  <2> QED
    BY <1>2, <2>8, <2>9 DEF new, HandledTo
<1>3. CASE v.kind \in {"updated", "deleted"} /\ s.link # v.of
  BY <1>3 DEF Handled, SubscriptionUpdated, SubscriptionDeleted, HandledTo
<1>4. CASE v.kind = "updated" /\ s.link = v.of
  <2>1. v.status \in SubscriptionStatuses \union {"none"} /\ v.ends \in BOOLEAN
    BY <1>4 DEF StripeEvents, StripeStatuses, SubscriptionStatuses
  <2> DEFINE t == [s EXCEPT !.status = v.status, !.ends = v.ends, !.by = "stripe"]
  <2>2. t \in SubscriptionRow
    <3> HIDE DEF s
    <3> QED
      BY <1>1, <2>1 DEF SubscriptionRow
  <2>3. /\ t.by = "stripe" /\ t.link = v.of /\ t.status = v.status /\ t.price = s.price
        /\ t.interval = s.interval /\ t.custom = s.custom /\ t.plan = s.plan
    <3> HIDE DEF s
    <3> QED
      BY <1>1, <1>4 DEF SubscriptionRow
  <2>4. new \in AccountRows /\ new.subscription = t /\ new.invoice = r.invoice
        /\ new.stripe = r.stripe
    BY <1>4, <2>2 DEF Handled, SubscriptionUpdated, AccountRows
  <2> HIDE DEF t, new
  <2>5. PriceKept(s) => PriceKept(t)
    BY <2>3 DEF PriceKept, EffectivePrice
  <2> QED
    BY <1>4, <2>3, <2>4, <2>5 DEF new, HandledTo
<1>5. CASE v.kind = "deleted" /\ s.link = v.of
  <2> DEFINE t == [s EXCEPT !.status = "canceled", !.by = "stripe"]
  <2>2. t \in SubscriptionRow
    <3> HIDE DEF s
    <3> QED
      BY <1>1 DEF SubscriptionRow, SubscriptionStatuses
  <2>3. /\ t.by = "stripe" /\ t.link = v.of /\ t.status = "canceled" /\ t.price = s.price
        /\ t.interval = s.interval /\ t.custom = s.custom /\ t.plan = s.plan
    <3> HIDE DEF s
    <3> QED
      BY <1>1, <1>5 DEF SubscriptionRow
  <2>4. new \in AccountRows /\ new.subscription = t /\ new.invoice = r.invoice
        /\ new.stripe = r.stripe
    BY <1>5, <2>2 DEF Handled, SubscriptionDeleted, AccountRows
  <2> HIDE DEF t, new
  <2>5. PriceKept(s) => PriceKept(t)
    BY <2>3 DEF PriceKept, EffectivePrice
  <2> QED
    BY <1>5, <2>3, <2>4, <2>5 DEF new, HandledTo
<1>6. CASE v.kind = "invoice"
  <2> DEFINE dated == r.invoice.dated \/ (r.invoice.status # "none" /\ v.status = "paid")
  <2>1. v.status \in InvoiceStatuses /\ dated \in BOOLEAN
    BY <1>6 DEF StripeEvents, AccountRows
  <2>2. new = [r EXCEPT !.invoice.status = v.status, !.invoice.dated = dated]
    BY <1>6 DEF Handled, InvoiceEvent
  <2> HIDE DEF dated, new
  <2>3. /\ new \in AccountRows /\ new.subscription = s /\ new.stripe = r.stripe
        /\ new.invoice.status = v.status /\ new.invoice.dated = dated
    BY <2>1, <2>2 DEF AccountRows
  <2> QED
    BY <1>6, <2>3 DEF new, dated, HandledTo
<1> QED
  BY <1>2, <1>3, <1>4, <1>5, <1>6 DEF StripeEvents

(* The answer to an event of the queue, which Stripe may not see.  As long as *)
(* no earlier one is about the same, the last of each is still the last.      *)
LEMMA AnswerKeeps ==
    ASSUME NEW x \in StripeRow, NEW y \in StripeRow, NEW s, NEW t, NEW i, NEW j,
           NEW c \in 1 .. Len(x.queue), y.status = x.status, y.invoice = x.invoice,
           y.queue = x.queue \/ Shorter(x.queue, y.queue, c),
           ~y.shuffled => /\ ~x.shuffled
                          /\ \A k \in 1 .. c - 1 : ~SameMatter(x.queue[k], x.queue[c]),
           EventsTrue(x), InStep(s, x), Linked(s, x), Invoiced(i, x),
           HandledTo(x.queue[c], s, t, i, j)
    PROVE  EventsTrue(y) /\ InStep(t, y) /\ Linked(t, y) /\ Invoiced(j, y)
<1> DEFINE p == x.queue
           q == y.queue
           v == p[c]
<1>1. /\ Len(p) \in Nat /\ Len(q) \in Nat /\ c \in 1 .. Len(p)
      /\ v \in StripeEvents
      /\ v.kind = "invoice" => v.status # "none"
      /\ v.kind # "invoice" => v.of \in 1 .. MaxCheckouts /\ v.of # 0
      /\ v.kind # "invoice" => v.kind \in {"checkout", "updated", "deleted"}
  <2>1. Len(p) \in Nat /\ Len(q) \in Nat /\ c \in 1 .. Len(p)
    BY QueueType
  <2>2. v \in StripeEvents
    BY <2>1, QueueType
  <2> HIDE DEF v
  <2> QED
    BY <2>1, <2>2, CheckoutsAssumption DEF StripeEvents
<1>2. HandledTo(v, s, t, i, j) /\ EventTrue(v, x)
  BY DEF EventsTrue
<1>3. \A k \in 1 .. Len(p) : EventTrue(p[k], x)
  BY DEF EventsTrue
<1>4. /\ q = p \/ Shorter(p, q, c)
      /\ ~y.shuffled => ~x.shuffled /\ \A k \in 1 .. c - 1 : ~SameMatter(p[k], v)
  OBVIOUS
<1>5. /\ InStep(s, x) /\ Linked(s, x)
      /\ i.status = "paid" => x.invoice = "paid"
      /\ i.status = "none" /\ x.invoice # "none" => Opening(p)
      /\ i.status = "paid" /\ ~i.dated => Opening(p)
  BY DEF Invoiced
<1>6. ~y.shuffled =>
        /\ \A k \in 1 .. Len(p), n \in 1 .. MaxCheckouts : Last(p, n, k) => p[k].status = x.status[n]
        /\ s.by = "stripe" /\ (\A k \in 1 .. Len(p) : ~About(p[k], s.link))
             => s.status = x.status[s.link]
        /\ \A k \in 1 .. Len(p) : LastInvoice(p, k) => p[k].status = x.invoice
        /\ (\A k \in 1 .. Len(p) : p[k].kind # "invoice") => i.status = x.invoice
  BY <1>4 DEF EventsTrue, InStep, Invoiced
<1> HIDE DEF p, q, v
<1>7. /\ \A k \in 1 .. Len(q) : \E h \in 1 .. Len(p) : q[k] = p[h]
      /\ \A h \in 1 .. Len(p) \ {c} : \E k \in 1 .. Len(q) : q[k] = p[h]
      /\ p[c] = v
  <2>1. CASE q = p
    BY <2>1 DEF v
  <2>2. CASE Shorter(p, q, c)
    <3>1. ASSUME NEW k \in 1 .. Len(q) PROVE \E h \in 1 .. Len(p) : q[k] = p[h]
      <4>1. k \in 1 .. Len(p) /\ k + 1 \in 1 .. Len(p) /\ (q[k] = p[k] \/ q[k] = p[k + 1])
        BY <1>1, <2>2 DEF Shorter
      <4> QED
        BY <4>1
    <3>2. ASSUME NEW h \in 1 .. Len(p) \ {c} PROVE \E k \in 1 .. Len(q) : q[k] = p[h]
      <4>1. CASE h < c
        <5>1. h \in 1 .. Len(q) /\ q[h] = p[h]
          BY <1>1, <2>2, <4>1 DEF Shorter
        <5> QED
          BY <5>1
      <4>2. CASE h > c
        <5>1. h - 1 \in 1 .. Len(q) /\ ~(h - 1 < c) /\ h - 1 + 1 = h
          BY <1>1, <2>2, <4>2 DEF Shorter
        <5>2. q[h - 1] = p[h]
          BY <2>2, <5>1 DEF Shorter
        <5> QED
          BY <5>1, <5>2
      <4> QED
        BY <1>1, <3>2, <4>1, <4>2
    <3> QED
      BY <3>1, <3>2 DEF v
  <2> QED
    BY <1>4, <2>1, <2>2
<1>8. ASSUME ~y.shuffled, NEW k \in 1 .. Len(q)
      PROVE  \E h \in 1 .. Len(p) :
               /\ q[k] = p[h]
               /\ \A n : Last(q, n, k) => Last(p, n, h)
               /\ LastInvoice(q, k) => LastInvoice(p, h)
  <2>1. CASE q = p
    BY <1>8, <2>1 DEF Last, LastInvoice
  <2>2. CASE Shorter(p, q, c)
    <3> DEFINE h == IF k < c THEN k ELSE k + 1
    <3>1. h \in 1 .. Len(p) /\ q[k] = p[h] /\ (h < c \/ h > c)
      BY <1>1, <2>2 DEF Shorter
    <3>2. h < c => ~SameMatter(p[h], v)
      BY <1>1, <1>4, <1>8, <3>1
    <3>3. \A l \in h + 1 .. Len(p) : l # c => \E m \in k + 1 .. Len(q) : q[m] = p[l]
      <4> SUFFICES ASSUME NEW l \in h + 1 .. Len(p), l # c
                   PROVE  \E m \in k + 1 .. Len(q) : q[m] = p[l]
        OBVIOUS
      <4>1. CASE l < c
        <5>1. l \in k + 1 .. Len(q) /\ q[l] = p[l]
          BY <1>1, <2>2, <4>1 DEF Shorter
        <5> QED
          BY <5>1
      <4>2. CASE l > c
        <5>1. l - 1 \in k + 1 .. Len(q) /\ l - 1 \in 1 .. Len(q) /\ ~(l - 1 < c) /\ l - 1 + 1 = l
          BY <1>1, <2>2, <4>2 DEF Shorter
        <5>2. q[l - 1] = p[l]
          BY <2>2, <5>1 DEF Shorter
        <5> QED
          BY <5>1, <5>2
      <4> QED
        BY <1>1, <4>1, <4>2
    <3>4. \A l \in h + 1 .. Len(p) : l = c => h < c
      BY <1>1, <3>1
    <3> HIDE DEF h
    <3>5. ASSUME NEW n, Last(q, n, k) PROVE Last(p, n, h)
      <4>1. About(p[h], n) /\ \A m \in k + 1 .. Len(q) : ~About(q[m], n)
        BY <3>1, <3>5 DEF Last
      <4>2. ASSUME NEW l \in h + 1 .. Len(p) PROVE ~About(p[l], n)
        <5>1. CASE l = c
          <6>1. ~SameMatter(p[h], v) /\ p[l] = v
            BY <1>7, <3>2, <3>4, <5>1
          <6> QED
            BY <4>1, <6>1 DEF About, SameMatter
        <5>2. CASE l # c
          BY <3>3, <4>1, <5>2
        <5> QED
          BY <5>1, <5>2
      <4> QED
        BY <4>1, <4>2 DEF Last
    <3>6. ASSUME LastInvoice(q, k) PROVE LastInvoice(p, h)
      <4>1. p[h].kind = "invoice" /\ \A m \in k + 1 .. Len(q) : q[m].kind # "invoice"
        BY <3>1, <3>6 DEF LastInvoice
      <4>2. ASSUME NEW l \in h + 1 .. Len(p) PROVE p[l].kind # "invoice"
        <5>1. CASE l = c
          <6>1. ~SameMatter(p[h], v) /\ p[l] = v
            BY <1>7, <3>2, <3>4, <5>1
          <6> QED
            BY <4>1, <6>1 DEF SameMatter
        <5>2. CASE l # c
          BY <3>3, <4>1, <5>2
        <5> QED
          BY <5>1, <5>2
      <4> QED
        BY <4>1, <4>2 DEF LastInvoice
    <3> QED
      BY <3>1, <3>5, <3>6
  <2> QED
    BY <1>4, <2>1, <2>2
(* What is only about v was answered: v is the last of it.                    *)
<1>9. /\ \A n : (\A k \in 1 .. Len(q) : ~About(q[k], n)) /\ About(v, n) => Last(p, n, c)
      /\ (\A k \in 1 .. Len(q) : q[k].kind # "invoice") /\ v.kind = "invoice" => LastInvoice(p, c)
  <2>1. \A h \in c + 1 .. Len(p) : h \in 1 .. Len(p) \ {c}
    BY <1>1
  <2> QED
    BY <1>7, <2>1 DEF Last, LastInvoice
<1>10. EventsTrue(y)
  <2>1. ASSUME NEW k \in 1 .. Len(q) PROVE EventTrue(q[k], y)
    <3>1. PICK h \in 1 .. Len(p) : q[k] = p[h]
      BY <1>7
    <3> QED
      BY <1>3, <3>1 DEF EventTrue
  <2>2. ASSUME ~y.shuffled, NEW k \in 1 .. Len(q), NEW n \in 1 .. MaxCheckouts, Last(q, n, k)
        PROVE  q[k].status = y.status[n]
    <3>1. PICK h \in 1 .. Len(p) : q[k] = p[h] /\ Last(p, n, h)
      BY <1>8, <2>2
    <3> QED
      BY <1>6, <2>2, <3>1
  <2> QED
    BY <2>1, <2>2 DEF EventsTrue, q
<1>11. \/ t = s /\ ~About(v, s.link)
       \/ /\ v.kind # "invoice" /\ t.by = "stripe" /\ t.link = v.of /\ t.status = v.status
  BY <1>1, <1>2 DEF HandledTo, EventTrue, About
<1>12. Linked(t, y)
  BY <1>2, <1>5, <1>11 DEF Linked, EventTrue
<1>13. InStep(t, y)
  <2>1. CASE t = s /\ ~About(v, s.link)
    <3>1. (\A k \in 1 .. Len(q) : ~About(q[k], s.link)) => \A h \in 1 .. Len(p) : ~About(p[h], s.link)
      BY <1>7, <2>1
    <3> QED
      BY <1>5, <1>6, <2>1, <3>1 DEF InStep, q
  <2>2. CASE v.kind # "invoice" /\ t.by = "stripe" /\ t.link = v.of /\ t.status = v.status
    <3>1. v.of \in 1 .. MaxCheckouts /\ v.of # 0 /\ About(v, v.of)
      BY <1>1, <2>2 DEF About
    <3>2. t.status = "canceled" => y.status[t.link] = "canceled"
      BY <1>2, <2>2 DEF EventTrue
    <3>3. ASSUME ~y.shuffled, \A k \in 1 .. Len(q) : ~About(q[k], t.link)
          PROVE  t.status = y.status[t.link]
      <4>1. Last(p, v.of, c)
        BY <1>9, <2>2, <3>1, <3>3
      <4> QED
        BY <1>1, <1>6, <1>7, <2>2, <3>1, <3>3, <4>1
    <3> QED
      BY <2>2, <3>1, <3>2, <3>3 DEF InStep, q
  <2> QED
    BY <1>11, <2>1, <2>2
<1>14. \/ v.kind # "invoice" /\ j = i
       \/ /\ v.kind = "invoice" /\ j.status = v.status /\ v.status # "none"
          /\ j.dated = (i.dated \/ (i.status # "none" /\ v.status = "paid"))
  BY <1>1, <1>2 DEF HandledTo
<1>15. Opening(p) /\ (v.kind # "invoice" \/ v.status # "open") => Opening(q)
  BY <1>7 DEF Opening
<1>16. Invoiced(j, y)
  <2>1. j.status = "paid" => y.invoice = "paid"
    BY <1>2, <1>5, <1>14 DEF EventTrue
  <2>2. j.status = "none" /\ y.invoice # "none" => Opening(q)
    BY <1>5, <1>14, <1>15
  <2>3. ASSUME j.status = "paid", ~j.dated PROVE Opening(q)
    <3>1. CASE v.kind # "invoice" /\ j = i
      BY <1>5, <1>15, <2>3, <3>1
    <3>2. CASE v.kind = "invoice" /\ v.status = "paid" /\ i.status = "none"
      <4>1. x.invoice # "none" /\ v.status # "open"
        BY <1>2, <3>2 DEF EventTrue
      <4> QED
        BY <1>5, <1>15, <3>2, <4>1
    <3> QED
      BY <1>14, <2>3, <3>1, <3>2
  <2>4. ASSUME ~y.shuffled, NEW k \in 1 .. Len(q), LastInvoice(q, k) PROVE q[k].status = y.invoice
    <3>1. PICK h \in 1 .. Len(p) : q[k] = p[h] /\ LastInvoice(p, h)
      BY <1>8, <2>4
    <3> QED
      BY <1>6, <2>4, <3>1
  <2>5. ASSUME ~y.shuffled, \A k \in 1 .. Len(q) : q[k].kind # "invoice"
        PROVE  j.status = y.invoice
    <3>1. CASE v.kind # "invoice" /\ j = i
      <4>1. \A h \in 1 .. Len(p) : p[h].kind # "invoice"
        BY <1>7, <2>5, <3>1
      <4> QED
        BY <1>6, <2>5, <3>1, <4>1
    <3>2. CASE v.kind = "invoice" /\ j.status = v.status
      BY <1>1, <1>6, <1>7, <1>9, <2>5, <3>2
    <3> QED
      BY <1>14, <3>1, <3>2
  <2> QED
    BY <2>1, <2>2, <2>3, <2>4, <2>5 DEF Invoiced, q
<1> QED
  BY <1>10, <1>12, <1>13, <1>16

LEMMA GoodAccountIs ==
    ASSUME NEW r
    PROVE  r \in GoodAccounts <=>
              /\ r \in AccountRows
              /\ PriceKept(r.subscription)
              /\ EventsTrue(r.stripe)
              /\ InStep(r.subscription, r.stripe) /\ Linked(r.subscription, r.stripe)
              /\ Invoiced(r.invoice, r.stripe)
BY DEF GoodAccounts

(* The organisation and the administrator change the row and not Stripe.      *)
LEMMA ByHandKeeps ==
    ASSUME NEW r, NEW new \in AccountRows, new.stripe = r.stripe, new.invoice = r.invoice,
           PriceKept(r.subscription) => PriceKept(new.subscription),
           new.subscription.link = r.subscription.link,
           \/ new.subscription.by = "hand"
           \/ /\ new.subscription.by = r.subscription.by
              /\ new.subscription.status = r.subscription.status
    PROVE  r \in GoodAccounts => new \in GoodAccounts
<1>1. InStep(r.subscription, r.stripe) => InStep(new.subscription, new.stripe)
  BY DEF InStep
<1>2. Linked(r.subscription, r.stripe) => Linked(new.subscription, new.stripe)
  BY DEF Linked
<1> QED
  BY <1>1, <1>2, GoodAccountIs

LEMMA FollowKeeps ==
    ASSUME NEW was, NEW new \in AccountRows, new.subscription = was.subscription,
           new.invoice = was.invoice, Follows(was.stripe, new.stripe)
    PROVE  was \in GoodAccounts => new \in GoodAccounts
<1>1. new.subscription \in SubscriptionRow
  BY DEF AccountRows
<1>2. /\ EventsTrue(was.stripe) => EventsTrue(new.stripe)
      /\ InStep(was.subscription, was.stripe) => InStep(new.subscription, new.stripe)
      /\ Linked(was.subscription, was.stripe) => Linked(new.subscription, new.stripe)
      /\ Invoiced(was.invoice, was.stripe) => Invoiced(new.invoice, new.stripe)
  BY <1>1 DEF Follows
<1> QED
  BY <1>2, GoodAccountIs

LEMMA ReportKeeps ==
    ASSUME NEW was \in AccountRows, NEW r \in AccountRows, NEW n \in 1 .. MaxCheckouts,
           NEW kind \in {"updated", "deleted"},
           r.subscription = was.subscription, r.invoice = was.invoice,
           r.stripe.queue = was.stripe.queue, r.stripe.invoice = was.stripe.invoice,
           r.stripe.shuffled = was.stripe.shuffled,
           was.stripe.status[n] = "canceled" => r.stripe.status[n] = "canceled",
           \A m \in 1 .. MaxCheckouts \ {n} : r.stripe.status[m] = was.stripe.status[m],
           kind = "deleted" => r.stripe.status[n] = "canceled"
    PROVE  /\ Emitted(r, <<EventOf(r, kind, n)>>) \in AccountRows
           /\ was \in GoodAccounts /\ r.stripe.status[n] # "none"
                => Emitted(r, <<EventOf(r, kind, n)>>) \in GoodAccounts
<1> DEFINE new == Emitted(r, <<EventOf(r, kind, n)>>)
<1>1. new \in AccountRows
  <2>1. EventOf(r, kind, n) \in StripeEvents
    BY EventOfType
  <2>2. <<EventOf(r, kind, n)>> \in Seq(StripeEvents)
    BY <2>1
  <2> QED
    BY <2>2, EmittedQueue
<1>2. r.stripe.status[n] # "none" =>
        /\ new.subscription = r.subscription /\ new.invoice = r.invoice
        /\ Follows(was.stripe, new.stripe)
  BY ReportedOne
<1> HIDE DEF new
<1>3. was \in GoodAccounts /\ r.stripe.status[n] # "none" => new \in GoodAccounts
  BY <1>1, <1>2, FollowKeeps
<1> QED
  BY <1>1, <1>3 DEF new

LEMMA CanceledKeeps ==
    ASSUME NEW r \in AccountRows, NEW n \in 1 .. MaxCheckouts
    PROVE  /\ Canceled(r, n) \in AccountRows
           /\ r \in GoodAccounts => Canceled(r, n) \in GoodAccounts
<1> DEFINE x == [r EXCEPT !.stripe.status[n] = "canceled"]
<1>1. /\ x \in AccountRows /\ x.subscription = r.subscription /\ x.invoice = r.invoice
      /\ x.stripe.queue = r.stripe.queue /\ x.stripe.invoice = r.stripe.invoice
      /\ x.stripe.shuffled = r.stripe.shuffled
      /\ \A m \in 1 .. MaxCheckouts \ {n} : x.stripe.status[m] = r.stripe.status[m]
      /\ x.stripe.status[n] = "canceled"
  BY DEF AccountRows, StripeRow, StripeStatuses
<1>2. Canceled(r, n) = Emitted(x, <<EventOf(x, "deleted", n)>>)
  BY DEF Canceled
<1> HIDE DEF x
<1> QED
  BY <1>1, <1>2, ReportKeeps

LEMMA PaidKeeps ==
    ASSUME NEW r \in AccountRows, NEW n \in 1 .. MaxCheckouts, NEW plan \in Plans,
           NEW interval \in Intervals, r.stripe.status[n] = "none"
    PROVE  LET new == Bought(r, n, plan, interval)
           IN  new \in AccountRows /\ (r \in GoodAccounts => new \in GoodAccounts)
<1> DEFINE x == [r EXCEPT !.stripe.status[n] = "active",
                          !.stripe.order[n] = <<plan, interval>>]
           u == EventOf(x, "updated", n)
           v == EventOf(x, "checkout", n)
           events == <<u, v>>
           new == Emitted(x, events)
<1>1. /\ x \in AccountRows /\ x.subscription = r.subscription /\ x.invoice = r.invoice
      /\ x.stripe.queue = r.stripe.queue /\ x.stripe.invoice = r.stripe.invoice
      /\ x.stripe.shuffled = r.stripe.shuffled
      /\ \A m \in 1 .. MaxCheckouts \ {n} : x.stripe.status[m] = r.stripe.status[m]
      /\ x.stripe.status[n] = "active"
  BY DEF AccountRows, StripeRow, StripeStatuses
<1> HIDE DEF x
<1>2. /\ u \in StripeEvents /\ u.kind = "updated" /\ u.of = n /\ u.status = x.stripe.status[n]
      /\ v \in StripeEvents /\ v.kind = "checkout" /\ v.of = n /\ v.status = x.stripe.status[n]
  BY <1>1, EventOfType
<1> HIDE DEF u, v
<1>3. events \in Seq(StripeEvents) /\ Len(events) = 2 /\ events[1] = u /\ events[2] = v
  BY <1>2
<1> HIDE DEF events
<1>4. \A k \in 1 .. Len(events) :
         /\ About(events[k], n) /\ events[k].status = x.stripe.status[n]
         /\ events[k].kind = "checkout" => events[k].status = "active"
         /\ events[k].kind = "deleted" => events[k].status = "canceled"
  <2> SUFFICES ASSUME NEW k \in 1 .. Len(events)
               PROVE  /\ About(events[k], n) /\ events[k].status = x.stripe.status[n]
                      /\ events[k].kind = "checkout" => events[k].status = "active"
                      /\ events[k].kind = "deleted" => events[k].status = "canceled"
    OBVIOUS
  <2>1. events[k] = u \/ events[k] = v
    BY <1>3
  <2> QED
    BY <1>1, <1>2, <2>1 DEF About
<1>5. /\ new \in AccountRows
      /\ new.subscription = x.subscription /\ new.invoice = x.invoice
      /\ Follows(r.stripe, new.stripe)
  <2>1. Len(events) > 0 /\ x.stripe.status[n] # "none"
    BY <1>1, <1>3
  <2> QED
    BY <1>1, <1>3, <1>4, <2>1, Reported
<1> HIDE DEF new
<1>6. r \in GoodAccounts => new \in GoodAccounts
  BY <1>1, <1>5, FollowKeeps
<1> QED
  BY <1>5, <1>6 DEF new, events, u, v, x, Bought

LEMMA InvoicedKeeps ==
    ASSUME NEW r \in AccountRows, NEW status \in InvoiceStatuses \ {"none"},
           r.stripe.invoice = "none" => status = "open", r.stripe.invoice # "paid"
    PROVE  LET new == Emitted([r EXCEPT !.stripe.invoice = status],
                              <<[kind |-> "invoice", status |-> status]>>)
           IN  new \in AccountRows /\ (r \in GoodAccounts => new \in GoodAccounts)
<1> DEFINE x == [r EXCEPT !.stripe.invoice = status]
           v == [kind |-> "invoice", status |-> status]
           events == <<v>>
           new == Emitted(x, events)
           N == Len(r.stripe.queue)
<1>1. /\ x \in AccountRows /\ x.subscription = r.subscription /\ x.invoice = r.invoice
      /\ x.stripe.queue = r.stripe.queue /\ x.stripe.invoice = status
      /\ x.stripe.status = r.stripe.status /\ x.stripe.shuffled = r.stripe.shuffled
  BY DEF AccountRows, StripeRow
<1>2. v \in StripeEvents /\ v.kind = "invoice" /\ v.status = status
  BY DEF StripeEvents
<1> HIDE DEF x, v
<1>3. events \in Seq(StripeEvents) /\ Len(events) = 1 /\ events[1] = v
  BY <1>2
<1> HIDE DEF events, new
<1>4. /\ new \in AccountRows
      /\ new.subscription = x.subscription /\ new.invoice = x.invoice
      /\ new.stripe.status = x.stripe.status /\ new.stripe.invoice = x.stripe.invoice
      /\ new.stripe.shuffled = x.stripe.shuffled
      /\ Len(new.stripe.queue) = Len(x.stripe.queue) + Len(events)
      /\ \A k \in 1 .. Len(x.stripe.queue) : new.stripe.queue[k] = x.stripe.queue[k]
      /\ \A k \in Len(x.stripe.queue) + 1 .. Len(x.stripe.queue) + Len(events) :
           new.stripe.queue[k] = events[k - Len(x.stripe.queue)]
  BY <1>1, <1>3, EmittedQueue DEF new
<1>5. r.stripe \in StripeRow /\ new.stripe \in StripeRow /\ N \in Nat
  <2>1. r.stripe \in StripeRow /\ new.stripe \in StripeRow
    BY <1>4 DEF AccountRows
  <2> QED
    BY <2>1, QueueType
<1>6. /\ Longer(r.stripe.queue, new.stripe.queue) /\ Len(new.stripe.queue) = N + 1
      /\ new.stripe.queue[N + 1] = v
  <2>1. N + 1 \in N + 1 .. N + 1 /\ (N + 1) - N = 1
    BY <1>5
  <2>2. /\ Len(new.stripe.queue) = N + 1
        /\ \A k \in 1 .. N : new.stripe.queue[k] = r.stripe.queue[k]
        /\ \A k \in N + 1 .. N + 1 : new.stripe.queue[k] = events[k - N]
    BY <1>1, <1>3, <1>4
  <2> HIDE DEF N
  <2>3. new.stripe.queue[N + 1] = v
    BY <1>3, <2>1, <2>2
  <2>4. Len(new.stripe.queue) > N
    BY <1>5, <2>2
  <2> QED
    BY <2>2, <2>3, <2>4 DEF Longer, N
<1>7. Follows(r.stripe, new.stripe)
  <2> DEFINE a == r.stripe
             b == new.stripe
  <2>1. /\ a \in StripeRow /\ b \in StripeRow /\ Longer(a.queue, b.queue)
        /\ Len(b.queue) = Len(a.queue) + 1 /\ b.queue[Len(a.queue) + 1] = v
        /\ v.status = b.invoice /\ b.status = a.status
        /\ b.shuffled = a.shuffled /\ b.invoice # "none"
        /\ a.invoice = "none" => b.invoice = "open"
        /\ a.invoice = "paid" => b.invoice = "paid"
    BY <1>1, <1>2, <1>4, <1>5, <1>6
  <2> HIDE DEF a, b
  <2>2. Follows(a, b)
    BY <1>2, <2>1, BilledKeeps
  <2> QED
    BY <2>2 DEF a, b
<1>8. r \in GoodAccounts => new \in GoodAccounts
  BY <1>1, <1>4, <1>7, FollowKeeps
<1> QED
  BY <1>4, <1>8 DEF new, events, v, x

LEMMA AnsweredKeeps ==
    ASSUME NEW r \in AccountRows, NEW c \in DOMAIN r.stripe.queue, NEW answered \in BOOLEAN
    PROVE  LET new == Delivered(r, c, answered)
           IN  new \in AccountRows /\ (r \in GoodAccounts => new \in GoodAccounts)
<1> DEFINE p == r.stripe.queue
           v == p[c]
           earlier == \E k \in 1 .. c - 1 : SameMatter(p[k], v)
           late == r.stripe.shuffled \/ earlier
           g == Handled(r, v)
           h == [g EXCEPT !.stripe.shuffled = @ \/ earlier]
           cut == Without(p, c)
           new == IF answered THEN [h EXCEPT !.stripe.queue = cut] ELSE h
<1>12. Delivered(r, c, answered) = new
  BY DEF Delivered
<1>1. r.stripe \in StripeRow /\ r.stripe.shuffled \in BOOLEAN
  BY DEF AccountRows, StripeRow
<1>2. p \in Seq(StripeEvents) /\ Len(p) \in Nat /\ DOMAIN p = 1 .. Len(p)
  BY <1>1, QueueType, LenProperties
<1>3. c \in 1 .. Len(p) /\ v \in StripeEvents
  BY <1>1, <1>2, QueueType
<1>4. cut \in Seq(StripeEvents) /\ Shorter(p, cut, c)
  <2> DEFINE m == Len(p) - 1
  <2>1. m \in Nat /\ Len(p) = m + 1
    BY <1>2, <1>3
  <2>2. \A k \in 1 .. m : /\ k \in 1 .. Len(p) /\ k + 1 \in 1 .. Len(p)
                          /\ p[k] \in StripeEvents /\ p[k + 1] \in StripeEvents
    BY <1>1, <1>2, <2>1, QueueType
  <2>3. cut = [k \in 1 .. m |-> IF k < c THEN p[k] ELSE p[k + 1]]
    BY DEF Without
  <2> HIDE DEF p, m, cut
  <2>4. cut \in [1 .. m -> StripeEvents]
    BY <2>2, <2>3
  <2>5. cut \in Seq(StripeEvents)
    BY <2>1, <2>4, SeqDef
  <2>6. Len(cut) = m
    BY <2>1, <2>4, <2>5, LenProperties
  <2> QED
    BY <2>1, <2>3, <2>5, <2>6 DEF Shorter
<1> HIDE DEF v
<1>5. /\ g \in AccountRows /\ g.stripe = r.stripe
      /\ PriceKept(r.subscription) => PriceKept(g.subscription)
      /\ HandledTo(v, r.subscription, g.subscription, r.invoice, g.invoice)
  BY <1>3, HandledEffect
<1> HIDE DEF p, g, cut
<1>6. late \in BOOLEAN /\ (g.stripe.shuffled \/ earlier) = late
  BY <1>1, <1>5
<1>7. h = [g EXCEPT !.stripe.shuffled = late]
  BY <1>5 DEF AccountRows, StripeRow
<1> HIDE DEF earlier, late, h
<1>8. /\ h \in AccountRows /\ h.subscription = g.subscription /\ h.invoice = g.invoice
      /\ h.stripe.status = r.stripe.status /\ h.stripe.invoice = r.stripe.invoice
      /\ h.stripe.queue = p /\ h.stripe.shuffled = late
  BY <1>5, <1>6, <1>7 DEF AccountRows, StripeRow, p
<1>9. /\ new \in AccountRows
      /\ new.subscription = h.subscription /\ new.invoice = h.invoice
      /\ new.stripe.status = r.stripe.status /\ new.stripe.invoice = r.stripe.invoice
      /\ new.stripe.shuffled = late
      /\ new.stripe.queue = p \/ Shorter(p, new.stripe.queue, c)
  <2>1. CASE answered
    <3>1. new = [h EXCEPT !.stripe.queue = cut]
      BY <2>1
    <3> HIDE DEF new
    <3> QED
      BY <1>4, <1>8, <3>1 DEF AccountRows, StripeRow
  <2>2. CASE ~answered
    BY <1>8, <2>2
  <2> QED
    BY <2>1, <2>2
<1> HIDE DEF new
<1>10. new.stripe \in StripeRow
  BY <1>9 DEF AccountRows
<1>11. r \in GoodAccounts => new \in GoodAccounts
  <2> SUFFICES ASSUME r \in GoodAccounts PROVE new \in GoodAccounts
    OBVIOUS
  <2> DEFINE x == r.stripe
             y == new.stripe
             s == r.subscription
             t == new.subscription
             i == r.invoice
             j == new.invoice
  <2>1. /\ x \in StripeRow /\ y \in StripeRow /\ c \in 1 .. Len(x.queue)
        /\ y.status = x.status /\ y.invoice = x.invoice
        /\ y.queue = x.queue \/ Shorter(x.queue, y.queue, c)
        /\ HandledTo(x.queue[c], s, t, i, j)
    BY <1>1, <1>3, <1>5, <1>8, <1>9, <1>10 DEF p, v
  <2>2. ~y.shuffled => ~x.shuffled /\ \A k \in 1 .. c - 1 : ~SameMatter(x.queue[k], x.queue[c])
    BY <1>9 DEF late, earlier, p, v
  <2>3. EventsTrue(x) /\ InStep(s, x) /\ Linked(s, x) /\ Invoiced(i, x) /\ PriceKept(s)
    BY GoodAccountIs
  <2>4. PriceKept(t)
    BY <1>5, <1>8, <1>9, <2>3
  <2> HIDE DEF x, y, s, t, i, j
  <2>5. EventsTrue(y) /\ InStep(t, y) /\ Linked(t, y) /\ Invoiced(j, y)
    BY <2>1, <2>2, <2>3, AnswerKeeps
  <2> QED
    BY <1>9, <2>4, <2>5, GoodAccountIs DEF y, t, j
<1> QED
  BY <1>9, <1>11, <1>12

LEMMA AccountKeeps ==
    ASSUME NEW q, NEW e, AccountRequest(q, e)
    PROVE  KeepsTo(q, e, AccountRows, GoodAccounts)
<1>1. ASSUME NEW n \in 1 .. MaxCheckouts, NEW plan \in Plans, NEW interval \in Intervals,
            PayCheckout(q, e, n, plan, interval)
      PROVE  KeepsTo(q, e, AccountRows, GoodAccounts)
  <2>1. Handle(q, e, Bought(rows[e], n, plan, interval)) /\ rows[e].stripe.status[n] = "none"
    BY <1>1 DEF PayCheckout
  <2>2. rows[e] \in GoodAccounts => rows[e] \in AccountRows
    BY GoodAccountIs
  <2> QED
    BY <2>1, <2>2, PaidKeeps, HandleKeeps
<1>2. ASSUME NEW n \in 1 .. MaxCheckouts,
            NEW status \in StripeStatuses \ {"none", "canceled"}, NEW ends \in BOOLEAN,
            StripeUpdates(q, e, n, status, ends)
      PROVE  KeepsTo(q, e, AccountRows, GoodAccounts)
  <2> DEFINE was == rows[e]
             x == [was EXCEPT !.stripe.status[n] = status, !.stripe.ends[n] = ends]
             new == Emitted(x, <<EventOf(x, "updated", n)>>)
  <2>1. Handle(q, e, new)
    BY <1>2 DEF StripeUpdates
  <2>2. was \in AccountRows =>
          /\ x \in AccountRows /\ x.subscription = was.subscription /\ x.invoice = was.invoice
          /\ x.stripe.queue = was.stripe.queue /\ x.stripe.invoice = was.stripe.invoice
          /\ x.stripe.shuffled = was.stripe.shuffled /\ was.stripe.status[n] # "canceled"
          /\ \A m \in 1 .. MaxCheckouts \ {n} : x.stripe.status[m] = was.stripe.status[m]
          /\ x.stripe.status[n] # "none"
    BY <1>2 DEF StripeUpdates, AccountRows, StripeRow
  <2> HIDE DEF x, was
  <2>3. was \in AccountRows =>
          new \in AccountRows /\ (was \in GoodAccounts => new \in GoodAccounts)
    BY <2>2, ReportKeeps
  <2> HIDE DEF new
  <2>4. was \in GoodAccounts => was \in AccountRows
    BY GoodAccountIs
  <2> QED
    BY <2>1, <2>3, <2>4, HandleKeeps DEF was
<1>3. ASSUME NEW n \in 1 .. MaxCheckouts, StripeCancels(q, e, n)
      PROVE  KeepsTo(q, e, AccountRows, GoodAccounts)
  <2>1. Handle(q, e, Canceled(rows[e], n))
    BY <1>3 DEF StripeCancels
  <2>2. rows[e] \in GoodAccounts => rows[e] \in AccountRows
    BY GoodAccountIs
  <2> QED
    BY <2>1, <2>2, CanceledKeeps, HandleKeeps
<1>4. ASSUME NEW status \in InvoiceStatuses, StripeInvoices(q, e, status)
      PROVE  KeepsTo(q, e, AccountRows, GoodAccounts)
  <2> DEFINE new == Emitted([rows[e] EXCEPT !.stripe.invoice = status],
                            <<[kind |-> "invoice", status |-> status]>>)
  <2>1. /\ Handle(q, e, new)
        /\ status # "none" /\ (rows[e].stripe.invoice = "none" => status = "open")
        /\ rows[e].stripe.invoice # "paid"
    BY <1>4 DEF StripeInvoices
  <2>2. rows[e] \in AccountRows =>
          new \in AccountRows /\ (rows[e] \in GoodAccounts => new \in GoodAccounts)
    BY <2>1, InvoicedKeeps
  <2> HIDE DEF new
  <2>3. rows[e] \in GoodAccounts => rows[e] \in AccountRows
    BY GoodAccountIs
  <2> QED
    BY <2>1, <2>2, <2>3, HandleKeeps
<1>5. ASSUME NEW i \in DOMAIN rows[e].stripe.queue, NEW answered \in BOOLEAN,
            StripeWebhook(q, e, i, answered)
      PROVE  KeepsTo(q, e, AccountRows, GoodAccounts)
  <2> DEFINE new == Delivered(rows[e], i, answered)
  <2>1. Handle(q, e, new)
    BY <1>5 DEF StripeWebhook
  <2>2. rows[e] \in AccountRows =>
          new \in AccountRows /\ (rows[e] \in GoodAccounts => new \in GoodAccounts)
    BY AnsweredKeeps
  <2> HIDE DEF new
  <2>3. rows[e] \in GoodAccounts => rows[e] \in AccountRows
    BY GoodAccountIs
  <2> QED
    BY <2>1, <2>2, <2>3, HandleKeeps
<1>6. ASSUME CreateTrial(q, e)
      PROVE  KeepsTo(q, e, AccountRows, GoodAccounts)
  <2> DEFINE new == [rows[e] EXCEPT !.subscription.status = "trialing"]
  <2>1. Handle(q, e, new) /\ rows[e].subscription.status = "none"
    BY <1>6 DEF CreateTrial, Free
  <2>2. rows[e] \in AccountRows =>
          /\ new \in AccountRows /\ new.stripe = rows[e].stripe /\ new.invoice = rows[e].invoice
          /\ PriceKept(rows[e].subscription) => PriceKept(new.subscription)
          /\ new.subscription.link = rows[e].subscription.link
          /\ new.subscription.by = rows[e].subscription.by
    BY DEF AccountRows, SubscriptionRow, SubscriptionStatuses, PriceKept, EffectivePrice
  <2> HIDE DEF new
  <2>3. rows[e] \in GoodAccounts => rows[e] \in AccountRows /\ rows[e].subscription.by = "hand"
    BY <2>1, GoodAccountIs DEF Linked
  <2>4. rows[e] \in GoodAccounts => new \in GoodAccounts
    BY <2>2, <2>3, ByHandKeeps
  <2> QED
    BY <2>1, <2>2, <2>4, HandleKeeps
<1>7. ASSUME NEW plan \in Plans, NEW custom \in SUBSET Intervals,
            AdminUpdate(q, e, plan, custom)
      PROVE  KeepsTo(q, e, AccountRows, GoodAccounts)
  <2> DEFINE mid == [rows[e] EXCEPT !.subscription.plan = plan, !.subscription.custom = custom]
             new == Priced(mid)
  <2>1. Handle(q, e, new)
    BY <1>7 DEF AdminUpdate
  <2>2. rows[e] \in AccountRows =>
          /\ mid \in AccountRows /\ mid.subscription \in SubscriptionRow
          /\ mid.stripe = rows[e].stripe /\ mid.invoice = rows[e].invoice
          /\ mid.subscription.link = rows[e].subscription.link
          /\ \/ mid.subscription.by = "hand"
             \/ /\ mid.subscription.by = rows[e].subscription.by
                /\ mid.subscription.status = rows[e].subscription.status
    BY DEF AccountRows, SubscriptionRow
  <2> HIDE DEF mid
  <2>3. rows[e] \in AccountRows =>
          /\ new \in AccountRows /\ new.stripe = rows[e].stripe /\ new.invoice = rows[e].invoice
          /\ PriceKept(new.subscription)
          /\ new.subscription = [mid.subscription EXCEPT !.price = EffectivePrice(mid.subscription)]
    BY <2>2, PricedKeeps
  <2> HIDE DEF new
  <2>4. rows[e] \in AccountRows =>
          /\ new.subscription.link = rows[e].subscription.link
          /\ \/ new.subscription.by = "hand"
             \/ /\ new.subscription.by = rows[e].subscription.by
                /\ new.subscription.status = rows[e].subscription.status
    BY <2>2, <2>3 DEF SubscriptionRow
  <2> HIDE DEF new
  <2>5. rows[e] \in GoodAccounts => rows[e] \in AccountRows
    BY GoodAccountIs
  <2>6. rows[e] \in AccountRows => (rows[e] \in GoodAccounts => new \in GoodAccounts)
    BY <2>1, <2>3, <2>4, ByHandKeeps
  <2> QED
    BY <2>1, <2>3, <2>4, <2>5, <2>6, HandleKeeps
<1>8. ASSUME NEW status \in SubscriptionStatuses, AdminSetStatus(q, e, status)
      PROVE  KeepsTo(q, e, AccountRows, GoodAccounts)
  <2> DEFINE mid == [rows[e] EXCEPT !.subscription.status = status, !.subscription.by = "hand"]
             new == Priced(mid)
  <2>1. Handle(q, e, new)
    BY <1>8 DEF AdminSetStatus
  <2>2. rows[e] \in AccountRows =>
          /\ mid \in AccountRows /\ mid.subscription \in SubscriptionRow
          /\ mid.stripe = rows[e].stripe /\ mid.invoice = rows[e].invoice
          /\ mid.subscription.link = rows[e].subscription.link
          /\ \/ mid.subscription.by = "hand"
             \/ /\ mid.subscription.by = rows[e].subscription.by
                /\ mid.subscription.status = rows[e].subscription.status
    BY DEF AccountRows, SubscriptionRow, SubscriptionStatuses
  <2> HIDE DEF mid
  <2>3. rows[e] \in AccountRows =>
          /\ new \in AccountRows /\ new.stripe = rows[e].stripe /\ new.invoice = rows[e].invoice
          /\ PriceKept(new.subscription)
          /\ new.subscription = [mid.subscription EXCEPT !.price = EffectivePrice(mid.subscription)]
    BY <2>2, PricedKeeps
  <2> HIDE DEF new
  <2>4. rows[e] \in AccountRows =>
          /\ new.subscription.link = rows[e].subscription.link
          /\ \/ new.subscription.by = "hand"
             \/ /\ new.subscription.by = rows[e].subscription.by
                /\ new.subscription.status = rows[e].subscription.status
    BY <2>2, <2>3 DEF SubscriptionRow
  <2> HIDE DEF new
  <2>5. rows[e] \in GoodAccounts => rows[e] \in AccountRows
    BY GoodAccountIs
  <2>6. rows[e] \in AccountRows => (rows[e] \in GoodAccounts => new \in GoodAccounts)
    BY <2>1, <2>3, <2>4, ByHandKeeps
  <2> QED
    BY <2>1, <2>3, <2>4, <2>5, <2>6, HandleKeeps
<1>9. ASSUME ActivateSubscription(q, e)
      PROVE  KeepsTo(q, e, AccountRows, GoodAccounts)
  <2> DEFINE mid == [rows[e] EXCEPT !.subscription.status = "active", !.subscription.ends = FALSE,
                                    !.subscription.by = "hand"]
             new == Priced(mid)
  <2>1. Handle(q, e, new)
    BY <1>9 DEF ActivateSubscription
  <2>2. rows[e] \in AccountRows =>
          /\ mid \in AccountRows /\ mid.subscription \in SubscriptionRow
          /\ mid.stripe = rows[e].stripe /\ mid.invoice = rows[e].invoice
          /\ mid.subscription.link = rows[e].subscription.link
          /\ \/ mid.subscription.by = "hand"
             \/ /\ mid.subscription.by = rows[e].subscription.by
                /\ mid.subscription.status = rows[e].subscription.status
    BY DEF AccountRows, SubscriptionRow, SubscriptionStatuses
  <2> HIDE DEF mid
  <2>3. rows[e] \in AccountRows =>
          /\ new \in AccountRows /\ new.stripe = rows[e].stripe /\ new.invoice = rows[e].invoice
          /\ PriceKept(new.subscription)
          /\ new.subscription = [mid.subscription EXCEPT !.price = EffectivePrice(mid.subscription)]
    BY <2>2, PricedKeeps
  <2> HIDE DEF new
  <2>4. rows[e] \in AccountRows =>
          /\ new.subscription.link = rows[e].subscription.link
          /\ \/ new.subscription.by = "hand"
             \/ /\ new.subscription.by = rows[e].subscription.by
                /\ new.subscription.status = rows[e].subscription.status
    BY <2>2, <2>3 DEF SubscriptionRow
  <2> HIDE DEF new
  <2>5. rows[e] \in GoodAccounts => rows[e] \in AccountRows
    BY GoodAccountIs
  <2>6. rows[e] \in AccountRows => (rows[e] \in GoodAccounts => new \in GoodAccounts)
    BY <2>1, <2>3, <2>4, ByHandKeeps
  <2> QED
    BY <2>1, <2>3, <2>4, <2>5, <2>6, HandleKeeps
<1>10. ASSUME PurchaseAddon(q, e)
      PROVE  KeepsTo(q, e, AccountRows, GoodAccounts)
  <2> DEFINE new == [rows[e] EXCEPT !.addon.status = "active"]
  <2>1. Handle(q, e, new)
    BY <1>10 DEF PurchaseAddon
  <2>2. rows[e] \in AccountRows =>
          /\ new \in AccountRows /\ new.stripe = rows[e].stripe /\ new.invoice = rows[e].invoice
          /\ PriceKept(rows[e].subscription) => PriceKept(new.subscription)
          /\ new.subscription.link = rows[e].subscription.link
          /\ \/ new.subscription.by = "hand"
             \/ /\ new.subscription.by = rows[e].subscription.by
                /\ new.subscription.status = rows[e].subscription.status
    BY DEF AccountRows, SubscriptionRow, PriceKept
  <2> HIDE DEF new
  <2>3. rows[e] \in GoodAccounts => rows[e] \in AccountRows
    BY GoodAccountIs
  <2>4. rows[e] \in AccountRows => (rows[e] \in GoodAccounts => new \in GoodAccounts)
    BY <2>1, <2>2, ByHandKeeps
  <2> QED
    BY <2>1, <2>2, <2>3, <2>4, HandleKeeps
<1>11. ASSUME CancelAddon(q, e)
      PROVE  KeepsTo(q, e, AccountRows, GoodAccounts)
  <2> DEFINE new == [rows[e] EXCEPT !.addon.status = "canceled"]
  <2>1. Handle(q, e, new)
    BY <1>11 DEF CancelAddon
  <2>2. rows[e] \in AccountRows =>
          /\ new \in AccountRows /\ new.stripe = rows[e].stripe /\ new.invoice = rows[e].invoice
          /\ PriceKept(rows[e].subscription) => PriceKept(new.subscription)
          /\ new.subscription.link = rows[e].subscription.link
          /\ \/ new.subscription.by = "hand"
             \/ /\ new.subscription.by = rows[e].subscription.by
                /\ new.subscription.status = rows[e].subscription.status
    BY DEF AccountRows, SubscriptionRow, PriceKept
  <2> HIDE DEF new
  <2>3. rows[e] \in GoodAccounts => rows[e] \in AccountRows
    BY GoodAccountIs
  <2>4. rows[e] \in AccountRows => (rows[e] \in GoodAccounts => new \in GoodAccounts)
    BY <2>1, <2>2, ByHandKeeps
  <2> QED
    BY <2>1, <2>2, <2>3, <2>4, HandleKeeps
<1>12. ASSUME NEW ok \in BOOLEAN, TerminateSubscription(q, e, ok)
      PROVE  KeepsTo(q, e, AccountRows, GoodAccounts)
  <2> DEFINE was == rows[e]
             r == [was EXCEPT !.subscription.status = "canceled", !.subscription.ends = FALSE,
                              !.subscription.by = "hand"]
             new == IF ok THEN Canceled(r, r.subscription.link) ELSE r
  <2>1. Handle(q, e, new) /\ (ok => was.subscription.link # 0)
    BY <1>12 DEF TerminateSubscription, Reaches
  <2>2. was \in AccountRows =>
          /\ r \in AccountRows /\ r.stripe = was.stripe /\ r.invoice = was.invoice
          /\ PriceKept(was.subscription) => PriceKept(r.subscription)
          /\ r.subscription.link = was.subscription.link
          /\ r.subscription.by = "hand"
          /\ was.subscription.link \in 0 .. MaxCheckouts
    BY DEF AccountRows, SubscriptionRow, SubscriptionStatuses, PriceKept, EffectivePrice
  <2> HIDE DEF r, was
  <2>3. was \in AccountRows /\ was \in GoodAccounts => r \in GoodAccounts
    BY <2>2, ByHandKeeps
  <2>4. was \in AccountRows /\ ok => r.subscription.link \in 1 .. MaxCheckouts
    BY <2>1, <2>2, CheckoutsAssumption
  <2>5. was \in AccountRows =>
          new \in AccountRows /\ (was \in GoodAccounts => new \in GoodAccounts)
    BY <2>2, <2>3, <2>4, CanceledKeeps
  <2> HIDE DEF new
  <2>6. was \in GoodAccounts => was \in AccountRows
    BY GoodAccountIs
  <2> QED
    BY <2>1, <2>5, <2>6, HandleKeeps DEF was
<1>13. ASSUME NEW atEnd \in BOOLEAN, NEW ok \in BOOLEAN, CancelSubscription(q, e, atEnd, ok)
      PROVE  KeepsTo(q, e, AccountRows, GoodAccounts)
  <2> DEFINE was == rows[e]
             n == was.subscription.link
             r == [was EXCEPT !.subscription.ends = atEnd,
                              !.subscription.status = IF atEnd THEN @ ELSE "canceled",
                              !.subscription.by = IF atEnd THEN @ ELSE "hand"]
             x == [r EXCEPT !.stripe.ends[n] = atEnd]
             new == IF ok THEN Emitted(x, <<EventOf(x, "updated", n)>>) ELSE r
  <2>1. Handle(q, e, new) /\ (ok => n # 0)
    BY <1>13 DEF CancelSubscription, Reaches
  <2>2. was \in AccountRows =>
          /\ r \in AccountRows /\ r.stripe = was.stripe /\ r.invoice = was.invoice
          /\ PriceKept(was.subscription) => PriceKept(r.subscription)
          /\ r.subscription.link = was.subscription.link
          /\ \/ r.subscription.by = "hand"
             \/ /\ r.subscription.by = was.subscription.by
                /\ r.subscription.status = was.subscription.status
          /\ n \in 0 .. MaxCheckouts
    BY DEF AccountRows, SubscriptionRow, SubscriptionStatuses, PriceKept, EffectivePrice
  <2>3. was \in GoodAccounts /\ n # 0 => was.stripe.status[n] # "none"
    BY GoodAccountIs DEF Linked
  <2> HIDE DEF r, was, n
  <2>4. was \in AccountRows /\ was \in GoodAccounts => r \in GoodAccounts
    BY <2>2, ByHandKeeps
  <2>5. was \in AccountRows /\ ok =>
          /\ n \in 1 .. MaxCheckouts
          /\ x \in AccountRows /\ x.subscription = r.subscription /\ x.invoice = r.invoice
          /\ x.stripe.queue = r.stripe.queue /\ x.stripe.invoice = r.stripe.invoice
          /\ x.stripe.status = r.stripe.status /\ x.stripe.shuffled = r.stripe.shuffled
    <3>1. was \in AccountRows /\ ok => n \in 1 .. MaxCheckouts
      BY <2>1, <2>2, CheckoutsAssumption
    <3>2. r \in AccountRows =>
            /\ x \in AccountRows /\ x.subscription = r.subscription /\ x.invoice = r.invoice
            /\ x.stripe.queue = r.stripe.queue /\ x.stripe.invoice = r.stripe.invoice
            /\ x.stripe.status = r.stripe.status /\ x.stripe.shuffled = r.stripe.shuffled
      BY DEF AccountRows, StripeRow
    <3> QED
      BY <2>2, <3>1, <3>2
  <2> HIDE DEF x
  <2>6. was \in AccountRows /\ ok =>
          /\ Emitted(x, <<EventOf(x, "updated", n)>>) \in AccountRows
          /\ was \in GoodAccounts => Emitted(x, <<EventOf(x, "updated", n)>>) \in GoodAccounts
    BY <2>1, <2>2, <2>3, <2>4, <2>5, ReportKeeps
  <2>7. was \in AccountRows =>
          new \in AccountRows /\ (was \in GoodAccounts => new \in GoodAccounts)
    BY <2>2, <2>4, <2>6
  <2> HIDE DEF new
  <2>8. was \in GoodAccounts => was \in AccountRows
    BY GoodAccountIs
  <2> QED
    BY <2>1, <2>7, <2>8, HandleKeeps DEF was
<1> QED
  BY <1>1, <1>2, <1>3, <1>4, <1>5, <1>6, <1>7, <1>8, <1>9, <1>10, <1>11, <1>12, <1>13
  DEF AccountRequest

LEMMA AccountByColumn == ByColumn(AccountRows)
<1> SUFFICES ASSUME NEW now \in AccountRows, NEW seen \in AccountRows, NEW new \in AccountRows
             PROVE  Written(now, seen, new) \in AccountRows
  BY DEF ByColumn
<1> DEFINE w == Written(now, seen, new)
<1>1. w.subscription \in SubscriptionRow
  BY DEF Written, AccountRows, AccountRows, SubscriptionRow
<1>2. w.invoice \in [status : InvoiceStatuses, dated : BOOLEAN]
  BY DEF Written, AccountRows, AccountRows
<1>3. w.addon \in [status : {"none", "active", "canceled"}]
  BY DEF Written, AccountRows, AccountRows
<1>4. w.stripe \in StripeRow
  BY DEF Written, AccountRows, AccountRows, StripeRow
<1>5. w \in AccountRows
  BY <1>1, <1>2, <1>3, <1>4 DEF Written, AccountRows
<1> QED
  BY <1>5

-----------------------------------------------------------------------------
Hundredths == 0 .. 10000
PayerFact == {<<>>} \union {<<c>> : c \in PayerFacts}
PaymentFact == {<<>>} \union {<<x>> : x \in PaymentFacts}
PaymentRow == [facts : PaymentFact, dated : {"hour", "month", "before"},
               completed : BOOLEAN, evaluated : BOOLEAN]
PaymentAlert == [of : 0 .. 2, status : {"none", "open", "closed"}, score : Hundredths,
                 final : {<<>>} \union {<<n>> : n \in Hundredths}]
Baseline == [known : BOOLEAN, count : Nat, volume : Nat, methods : SUBSET PaymentMethods,
             countries : SUBSET Countries, lapsed : BOOLEAN, reactivated : BOOLEAN]
AdviceStates == {"none", "pending", "actioned", "dismissed"}

LEMMA PayerRowsAre ==
    PayerRows = [customer : [facts : PayerFact], baseline : Baseline,
                 payments : [1 .. 2 -> PaymentRow], alerts : [1 .. 2 -> PaymentAlert],
                 answers : [Questions -> Answers], advice : [AdviceTypes -> AdviceStates]]
BY DEF PayerRows, PayerFact, PaymentFact, PaymentRow, PaymentAlert, Baseline, AdviceStates,
       Hundredths

(* What is highest or lowest of a few numbers is one of them.                 *)
LEMMA LeastOf ==
    ASSUME NEW S \in SUBSET Nat, S # {}
    PROVE  \E m \in S : \A s \in S : m <= s
<1> DEFINE R == {ss \in Nat \X Nat : ss[1] < ss[2]}
<1>1. IsWellFoundedOn(R, Nat)
  BY NatLessThanWellFounded DEF OpToRel
<1>2. PICK m \in S : \A s \in S : <<s, m>> \notin R
  <2> HIDE DEF R
  <2> QED
    BY <1>1, WFMin
<1>3. \A s \in S : ~(s < m)
  BY <1>2
<1> QED
  BY <1>2, <1>3

LEMMA LowestOf ==
    ASSUME NEW S \in SUBSET Nat, S # {}
    PROVE  Min(S) \in S /\ \A s \in S : Min(S) <= s
BY LeastOf DEF Min

LEMMA HighestOf ==
    ASSUME NEW n \in Nat, NEW S \in SUBSET (0 .. n), S # {}
    PROVE  Max(S) \in S /\ \A s \in S : Max(S) >= s
<1> DEFINE T == {n - s : s \in S}
<1>1. T \in SUBSET Nat /\ T # {}
  <2>1. \A s \in S : n - s \in Nat
    <3> SUFFICES ASSUME NEW s \in S PROVE n - s \in Nat
      OBVIOUS
    <3>1. s \in 0 .. n
      OBVIOUS
    <3> QED
      BY <3>1
  <2>2. T # {}
    OBVIOUS
  <2> QED
    BY <2>1, <2>2
<1> HIDE DEF T
<1>2. PICK m \in T : \A k \in T : m <= k
  BY <1>1, LeastOf
<1>3. PICK s \in S : m = n - s
  BY <1>2 DEF T
<1>4. ASSUME NEW t \in S
      PROVE  s >= t
  <2>1. n - t \in T
    BY DEF T
  <2>2. n - s <= n - t /\ s \in 0 .. n /\ t \in 0 .. n
    BY <1>2, <1>3, <2>1
  <2> QED
    BY <2>2
<1> QED
  BY <1>4 DEF Max

LEMMA PointsAre ==
    /\ \A b : \A n \in Nat : If(b, n) \in Nat
    /\ \A n \in Nat : Capped(n) \in Nat
BY DEF If, Capped

LEMMA ListedPointsAre ==
    ASSUME NEW cs \in SUBSET Countries, NEW grey \in Nat
    PROVE  ListedPoints(cs, grey) \in Nat
<1>1. \A S \in SUBSET Countries : Cardinality(S) \in Nat
  BY PaymentsAssumption, FS_Subset, FS_CardinalityType
<1>2. /\ Cardinality(cs \intersect Blacklist) \in Nat
      /\ Cardinality((cs \intersect Sanctioned) \ Blacklist) \in Nat
      /\ Cardinality((cs \intersect Greylist) \ (Blacklist \union Sanctioned)) \in Nat
  BY <1>1
<1> QED
  BY <1>2 DEF ListedPoints

LEMMA SignalsAre ==
    ASSUME NEW x \in Payment, NEW c, NEW h, NEW n, NEW v
    PROVE  CombinedSignals(x, c, h, n, v) \in Nat
<1>1. FrequencySignal(h, n) \in Nat /\ VelocitySignal(h, n, v) \in Nat
  BY PointsAre DEF FrequencySignal, VelocitySignal
<1>2. ValueSignal(x, h) \in Nat /\ BehaviourSignal(x, c, h) \in Nat
  BY PointsAre DEF ValueSignal, BehaviourSignal
<1>3. GeographicSignal(x) \in Nat
  <2>1. x.ends \union x.via \in SUBSET Countries
    BY DEF Payment
  <2> QED
    BY <2>1, ListedPointsAre, PointsAre DEF GeographicSignal
<1>4. CryptoSignal(x) \in Nat
  BY PointsAre DEF CryptoSignal
<1> QED
  BY <1>1, <1>2, <1>3, <1>4 DEF CombinedSignals

LEMMA RiskMatrixIs ==
    ASSUME NEW x \in Payment, NEW c \in Payer
    PROVE  RiskMatrix(x, c) \in Nat
<1>1. CustomerDimension(c) \in Nat
  <2> DEFINE pep == CASE c.pep = "foreign" -> 55 [] c.pep = "domestic" -> 40 [] c.pep = "other" -> 45
                      [] c.pep = "none" -> 0
             level == CASE c.level = "critical" -> 40 [] c.level = "high" -> 30
                        [] c.level = "medium" -> 15 [] c.level = "low" -> 0
             score == IF c.score >= 80 THEN 20 ELSE If(c.score >= 60, 10)
  <2>1. pep \in Nat
    BY DEF Payer
  <2>2. level \in Nat
    BY DEF Payer, RiskLevels
  <2>3. score \in Nat
    BY PointsAre
  <2>4. CustomerDimension(c) = Capped(pep + level + score + If(c.business, 10) + If(c.online, 8))
    BY DEF CustomerDimension
  <2> HIDE DEF pep, level, score
  <2> QED
    BY <2>1, <2>2, <2>3, <2>4, PointsAre
<1>2. GeographicDimension(x, c) \in Nat
  <2> DEFINE cs == (x.ends \union c.home) \ {Australia}
             watched == (cs \intersect Watched) \ (Blacklist \union Sanctioned \union Greylist)
  <2>1. cs \in SUBSET Countries /\ watched \in SUBSET Countries
    BY DEF Payment, Payer
  <2>2. Cardinality(watched) \in Nat
    BY <2>1, PaymentsAssumption, FS_Subset, FS_CardinalityType
  <2>3. MatrixPoints(cs) = ListedPoints(cs, 30) + 15 * Cardinality(watched)
    BY DEF MatrixPoints
  <2>4. GeographicDimension(x, c) =
          Capped(MatrixPoints(cs) + If(x.crossBorder, 15)
                 + If(Cardinality(x.ends) = 2 /\ Australia \notin x.ends, 10))
    BY DEF GeographicDimension
  <2> HIDE DEF cs, watched
  <2>5. MatrixPoints(cs) \in Nat
    BY <2>1, <2>2, <2>3, ListedPointsAre
  <2> QED
    BY <2>4, <2>5, PointsAre
<1>3. ProductDimension(x) \in Nat
  <2> DEFINE kind == CASE x.kind \in {"crypto", "crypto_sale"} -> 40 [] x.kind = "remittance" -> 35
                       [] x.kind = "real_estate_settlement" -> 30 [] x.kind = "other" -> 0
             method == IF x.method = "cash" THEN 25 ELSE If(x.method = "bank_transfer", 10)
  <2>1. kind \in Nat
    BY DEF Payment
  <2>2. method \in Nat
    BY PointsAre
  <2>3. ProductDimension(x) = kind + method + If(x.remote, 10)
    BY DEF ProductDimension
  <2> HIDE DEF kind, method
  <2> QED
    BY <2>1, <2>2, <2>3, PointsAre
<1>4. TransactionDimension(x) \in Nat
  BY PointsAre DEF TransactionDimension
<1> QED
  BY <1>1, <1>2, <1>3, <1>4 DEF RiskMatrix

LEMMA AlertScoreIs ==
    ASSUME NEW x \in Payment, NEW c \in Payer, NEW h, NEW n, NEW v
    PROVE  CalculateAlertScore(x, c, h, n, v) \in Hundredths
<1> DEFINE found == {0} \union {m.score : m \in Matched(x, c)}
           rules == Max(found)
           total == 6 * CombinedSignals(x, c, h, n, v) + 100 * rules + 40 * c.score
                    + 7 * RiskMatrix(x, c)
           points == (total + 2) \div 4
<1>1. rules \in 0 .. 100
  <2>1. \A m \in Matched(x, c) : m.score \in 0 .. 100
    BY PaymentsAssumption DEF Matched
  <2>2. found \in SUBSET (0 .. 100) /\ found # {}
    BY <2>1
  <2> HIDE DEF found
  <2> QED
    BY <2>2, HighestOf
<1>2. CombinedSignals(x, c, h, n, v) \in Nat /\ RiskMatrix(x, c) \in Nat /\ c.score \in Nat
  BY SignalsAre, RiskMatrixIs DEF Payer
<1> HIDE DEF rules
<1>3. total \in Nat
  BY <1>1, <1>2
<1> HIDE DEF total
<1>4. points \in Nat
  BY <1>3
<1>5. CalculateAlertScore(x, c, h, n, v) = Min({points, 10000})
  BY DEF CalculateAlertScore, total, rules
<1> HIDE DEF points
<1>6. Min({points, 10000}) \in {points, 10000} /\ Min({points, 10000}) <= 10000
  BY <1>4, LowestOf
<1>7. \A m \in Nat : m <= 10000 => m \in Hundredths
  BY SMT DEF Hundredths
<1>8. Min({points, 10000}) \in Nat
  BY <1>4, <1>6, SMT
<1> QED
  BY <1>5, <1>6, <1>7, <1>8, SMT

(* The answers weigh a score of hundredths to one of hundredths.              *)
LEMMA FinalScoreIs ==
    ASSUME NEW r \in PayerRows, NEW score \in Hundredths
    PROVE  FinalApprovalScore(r, score) \in Hundredths
<1> DEFINE n == Cardinality(Answered(r))
           k == Cardinality(Compliant(r))
           questions == (20000 * k + n) \div (2 * n)
           weighed == (100 - WeightLimit) * score + WeightLimit * (10000 - questions) + 50
<1>1. n \in Nat /\ k \in Nat /\ k <= n
  <2>1. Compliant(r) \subseteq Answered(r) /\ Answered(r) \subseteq Questions
    BY DEF Compliant, Answered
  <2>2. IsFiniteSet(Answered(r))
    BY <2>1, ProfilesAssumption, FS_Subset
  <2> QED
    BY <2>1, <2>2, FS_Subset, FS_CardinalityType
<1>2. FinalApprovalScore(r, score) = IF n = 0 THEN score ELSE weighed \div 100
  BY DEF FinalApprovalScore
<1> HIDE DEF n, k
<1>3. ASSUME n # 0
      PROVE  questions \in Hundredths
  <2>1. 2 * n \in Nat \ {0} /\ 20000 * k + n \in Nat /\ 20000 * k + n < 10001 * (2 * n)
    BY <1>1, <1>3, SMT
  <2>2. \A a \in Nat : \A b \in Nat \ {0} : a < 10001 * b => a \div b \in Hundredths
    BY SMTT(30) DEF Hundredths
  <2> QED
    BY <2>1, <2>2, SMT
<1> HIDE DEF questions
<1>4. ASSUME n # 0
      PROVE  weighed \div 100 \in Hundredths
  <2>1. WeightLimit \in 0 .. 40
    BY ProfilesAssumption
  <2>2. \A w \in 0 .. 100 : \A s \in Hundredths : w * s \in Nat /\ w * s <= w * 10000
    BY SMT DEF Hundredths
  <2>3. score \in Hundredths /\ 10000 - questions \in Hundredths
    <3>1. questions \in Hundredths
      BY <1>3, <1>4
    <3>2. \A m \in Hundredths : 10000 - m \in Hundredths
      BY SMTT(30) DEF Hundredths
    <3> QED
      BY <3>1, <3>2
  <2> DEFINE u == (100 - WeightLimit) * score
             v == WeightLimit * (10000 - questions)
  <2>4. /\ u \in Nat /\ v \in Nat
        /\ u <= (100 - WeightLimit) * 10000 /\ v <= WeightLimit * 10000
    BY <2>1, <2>2, <2>3, SMT
  <2>5. weighed = u + v + 50
    OBVIOUS
  <2> HIDE DEF u, v, weighed
  <2>6. (100 - WeightLimit) * 10000 + WeightLimit * 10000 = 1000000
    BY <2>1, SMT
  <2>7. weighed \in Nat /\ weighed <= 1000050
    BY <2>1, <2>4, <2>5, <2>6, SMT
  <2>8. \A m \in Nat : m <= 1000050 => m \div 100 \in Hundredths
    BY SMT DEF Hundredths
  <2> QED
    BY <2>7, <2>8, SMT
<1> HIDE DEF weighed
<1> QED
  BY <1>2, <1>4

LEMMA FactsAre ==
    ASSUME NEW r \in PayerRows
    PROVE  /\ \A t \in Booked(r) : t \in 1 .. 2 /\ Fact(r, t) \in PaymentFacts
           /\ r.customer.facts # <<>> => r.customer.facts[1] \in PayerFacts
<1>1. ASSUME NEW t \in Booked(r)
      PROVE  t \in 1 .. 2 /\ Fact(r, t) \in PaymentFacts
  <2>1. t \in 1 .. 2 /\ r.payments[t].facts # <<>>
    BY DEF Booked
  <2>2. r.payments[t].facts \in PaymentFact
    BY <2>1, PayerRowsAre DEF PaymentRow
  <2> QED
    BY <2>1, <2>2 DEF PaymentFact, Fact
<1>2. r.customer.facts # <<>> => r.customer.facts[1] \in PayerFacts
  BY PayerRowsAre DEF PayerFact
<1> QED
  BY <1>1, <1>2

LEMMA AlertedKeeps ==
    ASSUME NEW r \in PayerRows, NEW t \in Booked(r), r.customer.facts # <<>>,
           \/ r.alerts[2].of = 0
           \/ \E k \in AlertsOf(r, t) : r.alerts[k].status = "open"
    PROVE  Alerted(r, t) \in PayerRows /\ Booked(Alerted(r, t)) = Booked(r)
<1> DEFINE x == Fact(r, t)
           c == r.customer.facts[1]
           n == CountOf(r, Made(r, {"hour"}))
           v == VolumeOf(r, Made(r, {"hour"}))
           score == CalculateAlertScore(x, c, r.baseline, n, v)
           a == Min({k \in 1 .. 2 : r.alerts[k].of = 0})
           alert == [of |-> t, status |-> "open", score |-> score, final |-> <<>>]
           advice == [k \in AdviceTypes |->
                        IF t = 1 /\ k \in Recommendations(x, c, score) /\ r.advice[k] = "none"
                        THEN "pending" ELSE r.advice[k]]
           new == [r EXCEPT !.alerts[a] = alert, !.advice = advice]
<1>1. \/ Alerted(r, t) = r
      \/ Alerted(r, t) = new /\ r.alerts[2].of = 0
  BY DEF Alerted
<1>2. score \in Hundredths
  <2>1. x \in Payment /\ c \in Payer
    BY FactsAre, PaymentsAssumption
  <2> HIDE DEF x, c, n, v
  <2> QED
    BY <2>1, AlertScoreIs
<1> HIDE DEF score
<1>3. r.alerts[2].of = 0 => a \in 1 .. 2
  <2> DEFINE S == {k \in 1 .. 2 : r.alerts[k].of = 0}
  <2>1. r.alerts[2].of = 0 => S \in SUBSET Nat /\ S # {}
    OBVIOUS
  <2>2. a = Min(S) /\ S \subseteq 1 .. 2
    OBVIOUS
  <2> HIDE DEF S, a
  <2> QED
    BY <2>1, <2>2, LowestOf
<1>4. alert \in PaymentAlert
  <2>1. t \in 1 .. 2
    BY FactsAre
  <2> QED
    BY <1>2, <2>1 DEF PaymentAlert
<1>5. advice \in [AdviceTypes -> AdviceStates]
  BY PayerRowsAre DEF AdviceStates
<1> HIDE DEF a, alert, advice
<1>6. r.alerts[2].of = 0 => new \in PayerRows /\ new.payments = r.payments
  BY <1>3, <1>4, <1>5, PayerRowsAre
<1> HIDE DEF new
<1> QED
  BY <1>1, <1>6 DEF Booked

LEMMA RebasedKeeps ==
    ASSUME NEW r \in PayerRows, NEW t \in Booked(r)
    PROVE  Rebased(r, t) \in PayerRows
<1> DEFINE x == Fact(r, t)
           rest == Made(r, {"hour", "month"}) \ {t}
           baseline ==
             [known |-> TRUE, count |-> CountOf(r, rest) + x.times,
              volume |-> VolumeOf(r, rest) + Paid(x),
              methods |-> {Fact(r, u).method : u \in rest \union {t}},
              countries |-> UNION {Fact(r, u).ends : u \in rest \union {t}},
              lapsed |-> FALSE, reactivated |-> r.baseline.lapsed]
<1>1. \A u \in rest \union {t} : u \in Booked(r)
  BY DEF Made
<1>2. \A u \in Booked(r) : Fact(r, u) \in Payment
  BY FactsAre, PaymentsAssumption
<1>3. \A y \in Payment : y.times \in Nat /\ Paid(y) \in Nat
  <2>1. \A m, n \in Nat : m * n \in Nat
    OBVIOUS
  <2> QED
    BY <2>1 DEF Payment, Paid
<1> HIDE DEF rest
<1>4. CountOf(r, rest) \in Nat /\ VolumeOf(r, rest) \in Nat
  BY <1>1, <1>2, <1>3 DEF CountOf, VolumeOf, If
<1>5. /\ {Fact(r, u).method : u \in rest \union {t}} \in SUBSET PaymentMethods
      /\ UNION {Fact(r, u).ends : u \in rest \union {t}} \in SUBSET Countries
  BY <1>1, <1>2 DEF Payment
<1>6. baseline \in Baseline
  <2>1. /\ CountOf(r, rest) + x.times \in Nat /\ VolumeOf(r, rest) + Paid(x) \in Nat
        /\ r.baseline.lapsed \in BOOLEAN
    BY <1>2, <1>3, <1>4, PayerRowsAre DEF Baseline
  <2> HIDE DEF x
  <2> QED
    BY <1>5, <2>1 DEF Baseline
<1>7. Rebased(r, t) = [r EXCEPT !.baseline = baseline]
  BY DEF Rebased, rest
<1> HIDE DEF baseline
<1> QED
  BY <1>6, <1>7, PayerRowsAre

(* A baseline counts no payment twice; the latest alert of the first payment  *)
(* has no approval score, or that of the answers; and a large payment with a  *)
(* blacklisted country that was evaluated has an alert.                       *)
CountedOnce(r) ==
    /\ r.baseline.count <= CountOf(r, Booked(r))
    /\ r.baseline.volume <= VolumeOf(r, Booked(r))
Weighed(r, a) == r.alerts[a].final \in {<<>>, <<FinalApprovalScore(r, r.alerts[a].score)>>}
LatestScored(r) ==
    \A a \in AlertsOf(r, 1) : (\A b \in AlertsOf(r, 1) : b <= a) => Weighed(r, a)
Listed(x) ==
    x.crossBorder /\ x.amount >= 10000 /\ (x.ends \union x.via) \intersect Blacklist # {}
ListedAlerted(r) ==
    \A t \in 1 .. 2 : r.payments[t].evaluated
      => t \in Booked(r) /\ (Listed(Fact(r, t)) => AlertsOf(r, t) # {})
GoodPayers == {r \in PayerRows : CountedOnce(r) /\ LatestScored(r) /\ ListedAlerted(r)}

SameFacts(r, s) == \A t \in 1 .. 2 : s.payments[t].facts = r.payments[t].facts

LEMMA CountsFramed ==
    ASSUME NEW r, NEW s, SameFacts(r, s),
           s.baseline.count = r.baseline.count, s.baseline.volume = r.baseline.volume
    PROVE  CountedOnce(r) => CountedOnce(s)
<1>1. Booked(s) = Booked(r) /\ \A t \in 1 .. 2 : Fact(s, t) = Fact(r, t)
  BY DEF SameFacts, Booked, Fact
<1>2. /\ CountOf(s, Booked(s)) = CountOf(r, Booked(r))
      /\ VolumeOf(s, Booked(s)) = VolumeOf(r, Booked(r))
  BY <1>1 DEF CountOf, VolumeOf
<1> QED
  BY <1>2 DEF CountedOnce

LEMMA AlertsFramed ==
    ASSUME NEW r, NEW s, NEW t, \A a \in 1 .. 2 : s.alerts[a].of = t <=> r.alerts[a].of = t
    PROVE  AlertsOf(s, t) = AlertsOf(r, t)
BY DEF AlertsOf

LEMMA AnswersFramed ==
    ASSUME NEW r, NEW s, s.answers = r.answers
    PROVE  \A n : FinalApprovalScore(s, n) = FinalApprovalScore(r, n)
BY DEF FinalApprovalScore, Answered, Compliant

LEMMA ScoresFramed ==
    ASSUME NEW r, NEW s, s.answers = r.answers,
           \A a \in 1 .. 2 : /\ s.alerts[a].of = r.alerts[a].of
                             /\ s.alerts[a].score = r.alerts[a].score
                             /\ s.alerts[a].final = r.alerts[a].final
    PROVE  LatestScored(r) => LatestScored(s)
<1>1. AlertsOf(s, 1) = AlertsOf(r, 1)
  BY DEF AlertsOf
<1>2. \A n : FinalApprovalScore(s, n) = FinalApprovalScore(r, n)
  BY AnswersFramed
<1>3. \A a \in AlertsOf(r, 1) : a \in 1 .. 2 /\ (Weighed(r, a) => Weighed(s, a))
  BY <1>2 DEF AlertsOf, Weighed
<1> QED
  BY <1>1, <1>3 DEF LatestScored

LEMMA ListedFramed ==
    ASSUME NEW r, NEW s, SameFacts(r, s),
           \A t \in 1 .. 2 : s.payments[t].evaluated = r.payments[t].evaluated,
           \A a \in 1 .. 2 : r.alerts[a].of \in 1 .. 2 => s.alerts[a].of = r.alerts[a].of
    PROVE  ListedAlerted(r) => ListedAlerted(s)
<1>1. Booked(s) = Booked(r) /\ \A t \in 1 .. 2 : Fact(s, t) = Fact(r, t)
  BY DEF SameFacts, Booked, Fact
<1>2. \A t \in 1 .. 2 : AlertsOf(r, t) \subseteq AlertsOf(s, t)
  BY DEF AlertsOf
<1> QED
  BY <1>1, <1>2 DEF ListedAlerted

(* The weighted sum of a listed payment reaches the limit for an alert:       *)
(* thirty points for its value and seventy for its countries, four twentieths *)
(* of each.                                                                   *)
LEMMA ListedElevated ==
    ASSUME NEW x \in Payment, Listed(x), NEW c, NEW h, NEW n, NEW v
    PROVE  CombinedSignals(x, c, h, n, v) >= 400
<1> DEFINE cs == x.ends \union x.via
           black == Cardinality(cs \intersect Blacklist)
           sanctioned == Cardinality((cs \intersect Sanctioned) \ Blacklist)
           grey == Cardinality((cs \intersect Greylist) \ (Blacklist \union Sanctioned))
           listed == ListedPoints(cs, 20)
<1>1. cs \in SUBSET Countries /\ \A S \in SUBSET Countries : IsFiniteSet(S) /\ Cardinality(S) \in Nat
  BY PaymentsAssumption, FS_Subset, FS_CardinalityType DEF Payment
<1>2. black \in Nat \ {0} /\ sanctioned \in Nat /\ grey \in Nat
  <2>1. /\ cs \intersect Blacklist \in SUBSET Countries
        /\ (cs \intersect Sanctioned) \ Blacklist \in SUBSET Countries
        /\ (cs \intersect Greylist) \ (Blacklist \union Sanctioned) \in SUBSET Countries
        /\ cs \intersect Blacklist # {}
    BY <1>1 DEF Listed
  <2>2. black # 0
    BY <1>1, <2>1, FS_EmptySet
  <2> QED
    BY <1>1, <2>1, <2>2
<1>3. listed = 60 * black + 50 * sanctioned + 20 * grey
  BY DEF ListedPoints
<1> HIDE DEF black, sanctioned, grey
<1>4. listed \in Nat /\ listed >= 60
  BY <1>2, <1>3
<1>5. GeographicSignal(x) = Capped(listed + If(x.crossBorder, 10)) /\ x.crossBorder
  BY DEF GeographicSignal, Listed
<1> HIDE DEF listed
<1>6. GeographicSignal(x) \in Nat /\ GeographicSignal(x) >= 70
  BY <1>4, <1>5 DEF Capped, If
<1>7. ValueSignal(x, h) \in Nat /\ ValueSignal(x, h) >= 30
  <2> DEFINE near == If(x.amount \in 9000 .. 9999, 25)
             usual == If(h.known /\ x.amount * h.count > 5 * h.volume, 25)
  <2>1. near \in Nat /\ usual \in Nat
    BY PointsAre
  <2>2. If(x.amount >= 10000, 30) = 30
    BY DEF If, Listed
  <2>3. ValueSignal(x, h) = 30 + near + usual
    BY <2>2 DEF ValueSignal
  <2> HIDE DEF near, usual
  <2> QED
    BY <2>1, <2>3
<1>8. /\ FrequencySignal(h, n) \in Nat /\ VelocitySignal(h, n, v) \in Nat
      /\ BehaviourSignal(x, c, h) \in Nat /\ CryptoSignal(x) \in Nat
  BY PointsAre DEF FrequencySignal, VelocitySignal, BehaviourSignal, CryptoSignal
<1> QED
  BY <1>6, <1>7, <1>8 DEF CombinedSignals

LEMMA AlertedGood ==
    ASSUME NEW r \in GoodPayers, NEW t \in Booked(r), r.customer.facts # <<>>,
           \/ r.alerts[2].of = 0
           \/ \E k \in AlertsOf(r, t) : r.alerts[k].status = "open"
    PROVE  /\ Alerted(r, t) \in GoodPayers
           /\ SameFacts(r, Alerted(r, t))
           /\ Listed(Fact(r, t)) => AlertsOf(Alerted(r, t), t) # {}
<1> DEFINE x == Fact(r, t)
           c == r.customer.facts[1]
           n == CountOf(r, Made(r, {"hour"}))
           v == VolumeOf(r, Made(r, {"hour"}))
           sum == CombinedSignals(x, c, r.baseline, n, v)
           score == CalculateAlertScore(x, c, r.baseline, n, v)
           a == Min({k \in 1 .. 2 : r.alerts[k].of = 0})
           alert == [of |-> t, status |-> "open", score |-> score, final |-> <<>>]
           advice == [k \in AdviceTypes |->
                        IF t = 1 /\ k \in Recommendations(x, c, score) /\ r.advice[k] = "none"
                        THEN "pending" ELSE r.advice[k]]
           new == [r EXCEPT !.alerts[a] = alert, !.advice = advice]
<1>1. r \in PayerRows /\ t \in 1 .. 2 /\ x \in Payment
  BY FactsAre, PaymentsAssumption DEF GoodPayers
<1>2. Alerted(r, t) \in PayerRows
  BY <1>1, AlertedKeeps
<1>3. Listed(x) => sum >= 20 * 20
  BY <1>1, ListedElevated
<1>4. \/ Alerted(r, t) = r /\ (sum >= 20 * 20 => AlertsOf(r, t) # {})
      \/ Alerted(r, t) = new /\ r.alerts[2].of = 0
  BY DEF Alerted
<1>5. r.alerts[2].of = 0 => a \in 1 .. 2 /\ r.alerts[a].of = 0
  <2> DEFINE S == {k \in 1 .. 2 : r.alerts[k].of = 0}
  <2>1. r.alerts[2].of = 0 => S \in SUBSET Nat /\ S # {}
    OBVIOUS
  <2>2. a = Min(S) /\ S \subseteq 1 .. 2 /\ \A k \in S : r.alerts[k].of = 0
    OBVIOUS
  <2> HIDE DEF S, a
  <2> QED
    BY <2>1, <2>2, LowestOf
<1>6. alert.of = t /\ alert.final = <<>>
  OBVIOUS
<1> HIDE DEF a, alert, advice, sum, x
<1>7. ASSUME r.alerts[2].of = 0
      PROVE  /\ new.alerts = [r.alerts EXCEPT ![a] = alert]
             /\ new.payments = r.payments /\ new.baseline = r.baseline /\ new.answers = r.answers
  BY <1>1, <1>5, PayerRowsAre
<1> HIDE DEF new
<1>8. ASSUME r.alerts[2].of = 0
      PROVE  \A k \in 1 .. 2 : new.alerts[k] = IF k = a THEN alert ELSE r.alerts[k]
  BY <1>1, <1>7, <1>8, PayerRowsAre
<1>9. ASSUME r.alerts[2].of = 0
      PROVE  /\ CountedOnce(new) /\ ListedAlerted(new) /\ SameFacts(r, new)
             /\ AlertsOf(new, t) # {}
  <2>1. SameFacts(r, new)
    BY <1>7, <1>9 DEF SameFacts
  <2>2. CountedOnce(new)
    BY <1>7, <1>9, <2>1, CountsFramed DEF GoodPayers
  <2>3. ListedAlerted(new)
    BY <1>5, <1>7, <1>8, <1>9, <2>1, ListedFramed DEF GoodPayers
  <2>4. a \in AlertsOf(new, t)
    BY <1>5, <1>6, <1>8, <1>9 DEF AlertsOf
  <2> QED
    BY <2>1, <2>2, <2>3, <2>4
<1>10. ASSUME r.alerts[2].of = 0
       PROVE  LatestScored(new)
  <2>1. CASE t = 1
    <3>1. Weighed(new, a)
      BY <1>5, <1>6, <1>8, <1>10 DEF Weighed
    <3>2. a \in AlertsOf(new, 1)
      BY <1>5, <1>6, <1>8, <1>10, <2>1 DEF AlertsOf
    <3>3. \A b \in AlertsOf(new, 1) : b <= a
      BY <1>5, <1>8, <1>10 DEF AlertsOf
    <3>4. AlertsOf(new, 1) \subseteq 1 .. 2
      BY DEF AlertsOf
    <3> QED
      BY <1>5, <1>10, <3>1, <3>2, <3>3, <3>4 DEF LatestScored
  <2>2. CASE t # 1
    <3>1. /\ a \in 1 .. 2 /\ r.alerts[a].of # 1 /\ new.alerts[a].of # 1
          /\ \A b \in 1 .. 2 : b # a => new.alerts[b] = r.alerts[b]
      <4>1. a \in 1 .. 2 /\ r.alerts[a].of = 0 /\ new.alerts[a] = alert
        BY <1>5, <1>8, <1>10
      <4> QED
        BY <1>6, <1>8, <1>10, <2>2, <4>1
    <3>2. AlertsOf(new, 1) = AlertsOf(r, 1) /\ a \notin AlertsOf(r, 1)
      <4>1. \A b \in 1 .. 2 : new.alerts[b].of = 1 <=> r.alerts[b].of = 1
        BY <3>1
      <4>2. a \notin AlertsOf(r, 1)
        BY <3>1 DEF AlertsOf
      <4> QED
        BY <4>1, <4>2, AlertsFramed
    <3>3. \A m : FinalApprovalScore(new, m) = FinalApprovalScore(r, m)
      BY <1>7, <1>10, AnswersFramed
    <3>4. \A b \in AlertsOf(r, 1) : new.alerts[b] = r.alerts[b]
      BY <3>1, <3>2 DEF AlertsOf
    <3> QED
      BY <3>2, <3>3, <3>4 DEF LatestScored, Weighed, GoodPayers
  <2> QED
    BY <2>1, <2>2
<1>11. SameFacts(r, r)
  BY DEF SameFacts
<1> QED
  BY <1>2, <1>3, <1>4, <1>9, <1>10, <1>11 DEF GoodPayers, x

LEMMA RebasedCounts ==
    ASSUME NEW r \in PayerRows, NEW t \in Booked(r)
    PROVE  /\ CountedOnce(Rebased(r, t))
           /\ Rebased(r, t).payments = r.payments /\ Rebased(r, t).alerts = r.alerts
           /\ Rebased(r, t).answers = r.answers
<1> DEFINE x == Fact(r, t)
           rest == Made(r, {"hour", "month"}) \ {t}
           s == Rebased(r, t)
<1>1. /\ s.payments = r.payments /\ s.alerts = r.alerts /\ s.answers = r.answers
      /\ s.baseline.count = CountOf(r, rest) + x.times
      /\ s.baseline.volume = VolumeOf(r, rest) + Paid(x)
  BY PayerRowsAre DEF Rebased
<1> HIDE DEF s
<1>2. /\ CountOf(s, Booked(s)) = CountOf(r, Booked(r))
      /\ VolumeOf(s, Booked(s)) = VolumeOf(r, Booked(r))
  BY <1>1 DEF CountOf, VolumeOf, Booked, Fact
<1>3. \A u \in Booked(r) : Fact(r, u).times \in Nat /\ Paid(Fact(r, u)) \in Nat
  <2>1. \A u \in Booked(r) : Fact(r, u) \in Payment
    BY FactsAre, PaymentsAssumption
  <2>2. \A m, n \in Nat : m * n \in Nat
    OBVIOUS
  <2> QED
    BY <2>1, <2>2 DEF Payment, Paid
<1>4. rest \subseteq Booked(r) \ {t} /\ Booked(r) \subseteq 1 .. 2
  BY DEF Made, Booked
<1> HIDE DEF rest
<1>5. /\ CountOf(r, rest) + x.times <= CountOf(r, Booked(r))
      /\ VolumeOf(r, rest) + Paid(x) <= VolumeOf(r, Booked(r))
  <2>1. CASE t = 1
    BY <1>3, <1>4, <2>1 DEF CountOf, VolumeOf, If
  <2>2. CASE t = 2
    BY <1>3, <1>4, <2>2 DEF CountOf, VolumeOf, If
  <2> QED
    BY <1>4, <2>1, <2>2
<1> QED
  BY <1>1, <1>2, <1>5 DEF CountedOnce, s

(* What changes neither the payments nor what the alerts say keeps them good. *)
LEMMA FramedGood ==
    ASSUME NEW r \in GoodPayers, NEW s \in PayerRows,
           s.baseline.count = r.baseline.count, s.baseline.volume = r.baseline.volume,
           s.answers = r.answers,
           \A t \in 1 .. 2 : /\ s.payments[t].facts = r.payments[t].facts
                             /\ s.payments[t].evaluated = r.payments[t].evaluated,
           \A a \in 1 .. 2 : /\ s.alerts[a].of = r.alerts[a].of
                             /\ s.alerts[a].score = r.alerts[a].score
                             /\ s.alerts[a].final = r.alerts[a].final
    PROVE  s \in GoodPayers
<1>1. SameFacts(r, s)
  BY DEF SameFacts
<1>2. CountedOnce(s)
  BY <1>1, CountsFramed DEF GoodPayers
<1>3. LatestScored(s)
  BY ScoresFramed DEF GoodPayers
<1>4. ListedAlerted(s)
  BY <1>1, ListedFramed DEF GoodPayers
<1> QED
  BY <1>2, <1>3, <1>4 DEF GoodPayers

LEMMA PayerKeeps ==
    ASSUME NEW q, NEW e, PayerRequest(q, e)
    PROVE  KeepsTo(q, e, PayerRows, GoodPayers)
<1>1. ASSUME NEW t \in 1 .. 2, NEW c \in PayerFacts, NEW x \in PaymentFacts,
            NEW dated \in {"hour", "month"}, CreatePayment(q, e, t, c, x, dated)
      PROVE  KeepsTo(q, e, PayerRows, GoodPayers)
  <2> DEFINE customer == [rows[e].customer EXCEPT !.facts = <<c>>]
             payments == [rows[e].payments EXCEPT ![t].facts = <<x>>, ![t].dated = dated]
             new == [rows[e] EXCEPT !.customer = customer, !.payments = payments]
  <2>1. Handle(q, e, new)
    BY <1>1 DEF CreatePayment
  <2>2. rows[e] \in PayerRows => customer \in [facts : PayerFact]
    BY <1>1, PayerRowsAre DEF PayerFact
  <2>3. rows[e] \in PayerRows => payments \in [1 .. 2 -> PaymentRow]
    BY <1>1, PayerRowsAre DEF PaymentRow, PaymentFact
  <2>4. rows[e] \in PayerRows
          => /\ \A u \in 1 .. 2 : u # t => payments[u] = rows[e].payments[u]
             /\ payments[t].facts = <<x>> /\ payments[t].evaluated = rows[e].payments[t].evaluated
    BY <1>1, PayerRowsAre DEF PaymentRow
  <2> HIDE DEF customer, payments
  <2>5. rows[e] \in PayerRows
          => /\ new \in PayerRows
             /\ new.payments = payments /\ new.baseline = rows[e].baseline
             /\ new.alerts = rows[e].alerts /\ new.answers = rows[e].answers
    BY <2>2, <2>3, PayerRowsAre
  <2> HIDE DEF new
  <2>6. ASSUME rows[e] \in GoodPayers
        PROVE  new \in GoodPayers
    <3> DEFINE r == rows[e]
    <3>1. r \in PayerRows /\ new \in PayerRows /\ r.payments[t].facts = <<>>
      BY <1>1, <2>5, <2>6 DEF GoodPayers, CreatePayment
    <3>2. /\ t \notin Booked(r) /\ Booked(new) = Booked(r) \union {t} /\ Booked(r) \subseteq 1 .. 2
          /\ \A u \in Booked(r) : Fact(new, u) = Fact(r, u)
      <4>1. /\ \A u \in 1 .. 2 : u # t => new.payments[u] = r.payments[u]
            /\ new.payments[t].facts = <<x>>
        BY <2>4, <2>5, <3>1
      <4>2. t \in 1 .. 2 /\ <<x>> # <<>>
        BY <1>1
      <4>3. t \notin Booked(r) /\ Booked(r) \subseteq 1 .. 2
        BY <3>1 DEF Booked
      <4>4. Booked(new) = Booked(r) \union {t}
        BY <4>1, <4>2 DEF Booked
      <4> QED
        BY <4>1, <4>3, <4>4 DEF Booked, Fact
    <3>3. LatestScored(new)
      BY <2>5, <2>6, <3>1, ScoresFramed DEF GoodPayers
    <3>4. ListedAlerted(new)
      <4>1. ~r.payments[t].evaluated
        BY <2>6, <3>2 DEF GoodPayers, ListedAlerted
      <4>2. \A u \in 1 .. 2 : AlertsOf(new, u) = AlertsOf(r, u)
        BY <2>5, <3>1 DEF AlertsOf
      <4> QED
        BY <2>4, <2>5, <2>6, <3>1, <3>2, <4>1, <4>2 DEF GoodPayers, ListedAlerted
    <3>5. CountedOnce(new)
      <4>1. \A u \in Booked(new) : Fact(new, u).times \in Nat /\ Paid(Fact(new, u)) \in Nat
        <5>1. \A u \in Booked(new) : Fact(new, u) \in Payment
          BY <3>1, FactsAre, PaymentsAssumption
        <5>2. \A m, n \in Nat : m * n \in Nat
          OBVIOUS
        <5> QED
          BY <5>1, <5>2 DEF Payment, Paid
      <4>2. /\ CountOf(r, Booked(r)) <= CountOf(new, Booked(new))
            /\ VolumeOf(r, Booked(r)) <= VolumeOf(new, Booked(new))
            /\ CountOf(r, Booked(r)) \in Nat /\ VolumeOf(r, Booked(r)) \in Nat
            /\ CountOf(new, Booked(new)) \in Nat /\ VolumeOf(new, Booked(new)) \in Nat
        BY <3>2, <4>1 DEF CountOf, VolumeOf, If
      <4>3. r.baseline.count \in Nat /\ r.baseline.volume \in Nat
        BY <3>1, PayerRowsAre DEF Baseline
      <4> QED
        BY <2>5, <2>6, <3>1, <4>2, <4>3 DEF CountedOnce, GoodPayers
    <3> QED
      BY <3>1, <3>3, <3>4, <3>5 DEF GoodPayers
  <2> QED
    BY <2>1, <2>5, <2>6, HandleKeeps
<1>2. ASSUME NEW t \in 1 .. 2, CompletePayment(q, e, t)
      PROVE  KeepsTo(q, e, PayerRows, GoodPayers)
  <2> DEFINE payments == [rows[e].payments EXCEPT ![t].completed = TRUE]
             new == [rows[e] EXCEPT !.payments = payments]
  <2>1. Handle(q, e, new)
    BY <1>2 DEF CompletePayment
  <2>2. rows[e] \in PayerRows => rows[e].payments \in [1 .. 2 -> PaymentRow]
    BY PayerRowsAre
  <2>3. \A x \in PaymentRow : [x EXCEPT !.completed = TRUE] \in PaymentRow
    BY DEF PaymentRow
  <2>4. rows[e] \in PayerRows => payments \in [1 .. 2 -> PaymentRow]
    BY <1>2, <2>2, <2>3
  <2>5. rows[e] \in PayerRows
          => \A u \in 1 .. 2 : /\ payments[u].facts = rows[e].payments[u].facts
                               /\ payments[u].evaluated = rows[e].payments[u].evaluated
    BY <1>2, <2>2 DEF PaymentRow
  <2> HIDE DEF payments
  <2>6. rows[e] \in PayerRows
          => /\ new \in PayerRows
             /\ new.payments = payments /\ new.baseline = rows[e].baseline
             /\ new.alerts = rows[e].alerts /\ new.answers = rows[e].answers
    BY <2>4, PayerRowsAre
  <2> HIDE DEF new
  <2>7. ASSUME rows[e] \in GoodPayers
        PROVE  new \in GoodPayers
    <3>1. rows[e] \in PayerRows
      BY <2>7 DEF GoodPayers
    <3> QED
      BY <2>5, <2>6, <2>7, <3>1, FramedGood
  <2> QED
    BY <2>1, <2>6, <2>7, HandleKeeps
<1>3. ASSUME NEW t \in 1 .. 2, RunMonitoring(q, e, t)
      PROVE  KeepsTo(q, e, PayerRows, GoodPayers)
  <2> DEFINE alerted == Alerted(rows[e], t)
             r == Rebased(alerted, t)
             payments == [r.payments EXCEPT ![t].evaluated = TRUE]
             new == [r EXCEPT !.payments = payments]
  <2>1. Handle(q, e, new)
    BY <1>3 DEF RunMonitoring
  <2>2. rows[e] \in PayerRows
          => alerted \in PayerRows /\ t \in Booked(alerted) /\ r \in PayerRows
    BY <1>3, AlertedKeeps, RebasedKeeps DEF RunMonitoring
  <2>3. rows[e] \in GoodPayers
          => /\ alerted \in GoodPayers /\ t \in Booked(alerted)
             /\ SameFacts(rows[e], alerted)
             /\ Listed(Fact(rows[e], t)) => AlertsOf(alerted, t) # {}
    BY <1>3, <2>2, AlertedGood DEF RunMonitoring, GoodPayers
  <2> HIDE DEF alerted
  <2>4. rows[e] \in GoodPayers
          => /\ CountedOnce(r) /\ r.payments = alerted.payments
             /\ r.alerts = alerted.alerts /\ r.answers = alerted.answers
    BY <2>3, RebasedCounts DEF GoodPayers
  <2> HIDE DEF r
  <2>5. r \in PayerRows => r.payments \in [1 .. 2 -> PaymentRow]
    BY PayerRowsAre
  <2>6. r \in PayerRows => payments \in [1 .. 2 -> PaymentRow]
    BY ZenonT(40), <1>3, <2>5 DEF PaymentRow
  <2>7. r \in PayerRows
          => \A u \in 1 .. 2 : /\ payments[u].facts = r.payments[u].facts
                               /\ u # t => payments[u].evaluated = r.payments[u].evaluated
    BY <1>3, <2>5 DEF PaymentRow
  <2> HIDE DEF payments
  <2>8. r \in PayerRows
          => /\ new \in PayerRows /\ new.payments = payments
             /\ new.baseline = r.baseline /\ new.alerts = r.alerts /\ new.answers = r.answers
    BY <2>6, PayerRowsAre
  <2> HIDE DEF new
  <2>9. ASSUME rows[e] \in GoodPayers
        PROVE  new \in GoodPayers
    <3>1. r \in PayerRows /\ new \in PayerRows
      BY <2>2, <2>8, <2>9 DEF GoodPayers
    <3>2. SameFacts(r, new) /\ SameFacts(alerted, new)
      <4>1. \A u \in 1 .. 2 : new.payments[u].facts = r.payments[u].facts
        <5>1. new.payments = payments
          BY <2>8, <3>1
        <5>2. \A u \in 1 .. 2 : payments[u].facts = r.payments[u].facts
          BY <2>7, <3>1
        <5> QED
          BY <5>1, <5>2
      <4>2. r.payments = alerted.payments
        BY <2>4, <2>9
      <4> QED
        BY <4>1, <4>2 DEF SameFacts
    <3>3. CountedOnce(new)
      BY <2>4, <2>8, <2>9, <3>1, <3>2, CountsFramed
    <3>4. LatestScored(new)
      BY <2>3, <2>4, <2>8, <2>9, <3>1, ScoresFramed DEF GoodPayers
    <3>5. ListedAlerted(new)
      <4>1. Booked(new) = Booked(alerted) /\ \A u \in 1 .. 2 : Fact(new, u) = Fact(alerted, u)
        BY <3>2 DEF SameFacts, Booked, Fact
      <4>2. Fact(alerted, t) = Fact(rows[e], t)
        BY <1>3, <2>3, <2>9 DEF SameFacts, Fact
      <4>3. \A u \in 1 .. 2 : AlertsOf(new, u) = AlertsOf(alerted, u)
        <5>1. new.alerts = alerted.alerts
          BY <2>4, <2>8, <2>9, <3>1
        <5> QED
          BY <5>1, AlertsFramed
      <4>4. \A u \in 1 .. 2 : u # t => new.payments[u].evaluated = alerted.payments[u].evaluated
        <5>1. new.payments = payments /\ r.payments = alerted.payments
          BY <2>4, <2>8, <2>9, <3>1
        <5>2. \A u \in 1 .. 2 : u # t => payments[u].evaluated = r.payments[u].evaluated
          BY <2>7, <3>1
        <5> QED
          BY <5>1, <5>2
      <4> QED
        BY <1>3, <2>3, <2>9, <4>1, <4>2, <4>3, <4>4 DEF ListedAlerted, GoodPayers
    <3> QED
      BY <3>1, <3>3, <3>4, <3>5 DEF GoodPayers
  <2> QED
    BY <2>1, <2>2, <2>8, <2>9, HandleKeeps
<1>4. ASSUME NEW a \in 1 .. 2, CloseAlertOf(q, e, a)
      PROVE  KeepsTo(q, e, PayerRows, GoodPayers)
  <2> DEFINE alerts == [rows[e].alerts EXCEPT ![a].status = "closed"]
             new == [rows[e] EXCEPT !.alerts = alerts]
  <2>1. Handle(q, e, new)
    BY <1>4 DEF CloseAlertOf
  <2>2. rows[e] \in PayerRows => alerts \in [1 .. 2 -> PaymentAlert]
    BY <1>4, PayerRowsAre DEF PaymentAlert
  <2>3. rows[e] \in PayerRows
          => \A b \in 1 .. 2 : /\ alerts[b].of = rows[e].alerts[b].of
                               /\ alerts[b].score = rows[e].alerts[b].score
                               /\ alerts[b].final = rows[e].alerts[b].final
    BY <1>4, PayerRowsAre DEF PaymentAlert
  <2> HIDE DEF alerts
  <2>4. rows[e] \in PayerRows
          => /\ new \in PayerRows /\ new.alerts = alerts
             /\ new.baseline = rows[e].baseline
             /\ new.payments = rows[e].payments /\ new.answers = rows[e].answers
    BY <2>2, PayerRowsAre
  <2> HIDE DEF new
  <2>5. ASSUME rows[e] \in GoodPayers
        PROVE  new \in GoodPayers
    <3>1. rows[e] \in PayerRows
      BY <2>5 DEF GoodPayers
    <3> QED
      BY <2>3, <2>4, <2>5, <3>1, FramedGood
  <2> QED
    BY <2>1, <2>4, <2>5, HandleKeeps
<1>5. ASSUME NEW s \in Questions, NEW answer \in Answers \ {"none"},
            AnswerApprovalQuestions(q, e, s, answer)
      PROVE  KeepsTo(q, e, PayerRows, GoodPayers)
  <2> DEFINE r == [rows[e] EXCEPT !.answers[s] = answer]
             a == Max(AlertsOf(r, 1))
             final == <<FinalApprovalScore(r, r.alerts[a].score)>>
             new == [r EXCEPT !.alerts[a].final = final]
  <2>1. \/ Handle(q, e, r) /\ AlertsOf(r, 1) = {}
        \/ Handle(q, e, new) /\ AlertsOf(r, 1) # {}
    BY <1>5 DEF AnswerApprovalQuestions
  <2>2. rows[e] \in PayerRows
          => /\ r \in PayerRows /\ r.payments = rows[e].payments
             /\ r.baseline = rows[e].baseline /\ r.alerts = rows[e].alerts
    BY <1>5, PayerRowsAre
  <2> HIDE DEF r
  <2>3. AlertsOf(r, 1) # {}
          => a \in 1 .. 2 /\ a \in AlertsOf(r, 1) /\ \A b \in AlertsOf(r, 1) : b <= a
    <3>1. AlertsOf(r, 1) \subseteq 1 .. 2 /\ 1 .. 2 \subseteq 0 .. 2
      BY DEF AlertsOf
    <3> DEFINE S == AlertsOf(r, 1)
    <3>2. S \in SUBSET (0 .. 2) /\ a = Max(S)
      BY <3>1
    <3> HIDE DEF S
    <3>3. S # {} => a \in S /\ \A b \in S : a >= b
      BY <3>2, HighestOf
    <3> QED
      BY <3>1, <3>3 DEF S
  <2> HIDE DEF a
  <2>4. r \in PayerRows /\ a \in 1 .. 2 => new \in PayerRows
    <3>1. r \in PayerRows /\ a \in 1 .. 2 => r.alerts[a].score \in Hundredths
      BY PayerRowsAre DEF PaymentAlert
    <3>2. r \in PayerRows /\ a \in 1 .. 2 => final \in {<<n>> : n \in Hundredths}
      BY <3>1, FinalScoreIs
    <3> HIDE DEF final
    <3> QED
      BY <3>2, PayerRowsAre DEF PaymentAlert
  <2>5. r \in PayerRows /\ a \in 1 .. 2
          => /\ new.payments = r.payments /\ new.baseline = r.baseline /\ new.answers = r.answers
             /\ new.alerts[a].final = <<FinalApprovalScore(r, r.alerts[a].score)>>
             /\ \A b \in 1 .. 2 : /\ new.alerts[b].of = r.alerts[b].of
                                /\ new.alerts[b].score = r.alerts[b].score
    <3> HIDE DEF final
    <3>1. r \in PayerRows /\ a \in 1 .. 2
            => /\ new.payments = r.payments /\ new.baseline = r.baseline
               /\ new.answers = r.answers /\ new.alerts[a].final = final
               /\ \A b \in 1 .. 2 : /\ new.alerts[b].of = r.alerts[b].of
                                  /\ new.alerts[b].score = r.alerts[b].score
      BY PayerRowsAre DEF PaymentAlert
    <3> QED
      BY <3>1 DEF final
  <2> HIDE DEF new
  <2>6. ASSUME rows[e] \in GoodPayers
        PROVE  /\ AlertsOf(r, 1) = {} => r \in GoodPayers
               /\ AlertsOf(r, 1) # {} => new \in GoodPayers
    <3>1. rows[e] \in PayerRows /\ r \in PayerRows
      BY <2>2, <2>6 DEF GoodPayers
    <3>2. SameFacts(rows[e], r) /\ CountedOnce(r) /\ ListedAlerted(r)
      <4>1. SameFacts(rows[e], r)
        BY <2>2, <3>1 DEF SameFacts
      <4> QED
        BY <2>2, <2>6, <3>1, <4>1, CountsFramed, ListedFramed DEF GoodPayers
    <3>3. ASSUME AlertsOf(r, 1) = {}
          PROVE  r \in GoodPayers
      <4>1. LatestScored(r)
        BY <3>3 DEF LatestScored
      <4> QED
        BY <3>1, <3>2, <4>1 DEF GoodPayers
    <3>4. ASSUME AlertsOf(r, 1) # {}
          PROVE  new \in GoodPayers
      <4>1. new \in PayerRows /\ a \in 1 .. 2
        BY <2>3, <2>4, <3>1, <3>4
      <4>2. SameFacts(r, new)
        BY <2>5, <3>1, <4>1 DEF SameFacts
      <4>3. CountedOnce(new) /\ ListedAlerted(new)
        BY <2>5, <3>1, <3>2, <4>1, <4>2, CountsFramed, ListedFramed
      <4>4. LatestScored(new)
        <5>1. AlertsOf(new, 1) = AlertsOf(r, 1)
          BY <2>5, <3>1, <4>1, AlertsFramed
        <5>2. \A m : FinalApprovalScore(new, m) = FinalApprovalScore(r, m)
          BY <2>5, <3>1, <4>1, AnswersFramed
        <5>3. Weighed(new, a)
          BY <2>5, <3>1, <4>1, <5>2 DEF Weighed
        <5>4. \A b \in AlertsOf(new, 1) :
                (\A d \in AlertsOf(new, 1) : d <= b) => b = a
          <6>1. AlertsOf(r, 1) \subseteq 1 .. 2
            BY DEF AlertsOf
          <6> QED
            BY <2>3, <3>4, <5>1, <6>1
        <5> QED
          BY <5>3, <5>4 DEF LatestScored
      <4> QED
        BY <4>1, <4>3, <4>4 DEF GoodPayers
    <3> QED
      BY <3>3, <3>4
  <2>7. CASE Handle(q, e, r) /\ AlertsOf(r, 1) = {}
    BY <2>2, <2>6, <2>7, HandleKeeps
  <2>8. CASE Handle(q, e, new) /\ AlertsOf(r, 1) # {}
    BY <2>2, <2>3, <2>4, <2>6, <2>8, HandleKeeps
  <2> QED
    BY <2>1, <2>7, <2>8
<1>6. ASSUME NEW k \in AdviceTypes, NEW status \in {"actioned", "dismissed"},
            DecideAdvice(q, e, k, status)
      PROVE  KeepsTo(q, e, PayerRows, GoodPayers)
  <2> DEFINE advice == [rows[e].advice EXCEPT ![k] = status]
             new == [rows[e] EXCEPT !.advice = advice]
  <2>1. Handle(q, e, new)
    BY <1>6 DEF DecideAdvice
  <2>2. rows[e] \in PayerRows => advice \in [AdviceTypes -> AdviceStates]
    BY <1>6, PayerRowsAre DEF AdviceStates
  <2> HIDE DEF advice
  <2>3. rows[e] \in PayerRows
          => /\ new \in PayerRows /\ new.alerts = rows[e].alerts
             /\ new.baseline = rows[e].baseline
             /\ new.payments = rows[e].payments /\ new.answers = rows[e].answers
    BY <2>2, PayerRowsAre
  <2> HIDE DEF new
  <2>4. rows[e] \in GoodPayers => new \in GoodPayers
    <3>1. rows[e] \in GoodPayers => rows[e] \in PayerRows
      BY DEF GoodPayers
    <3> QED
      BY <2>3, <3>1, FramedGood
  <2> QED
    BY <2>1, <2>3, <2>4, HandleKeeps
<1>7. ASSUME Lapse(e)
      PROVE  KeepsTo(q, e, PayerRows, GoodPayers)
  <2> DEFINE payments == [t \in 1 .. 2 |->
                IF t \in Booked(rows[e]) THEN [rows[e].payments[t] EXCEPT !.dated = "before"]
                ELSE rows[e].payments[t]]
             new == [rows[e] EXCEPT !.payments = payments, !.baseline.lapsed = rows[e].baseline.known]
  <2>1. Direct(e, new)
    BY <1>7 DEF Lapse, Direct
  <2>2. rows[e] \in PayerRows => payments \in [1 .. 2 -> PaymentRow]
    BY PayerRowsAre DEF PaymentRow
  <2>3. rows[e] \in PayerRows
          => \A t \in 1 .. 2 : /\ payments[t].facts = rows[e].payments[t].facts
                               /\ payments[t].evaluated = rows[e].payments[t].evaluated
    BY PayerRowsAre DEF PaymentRow
  <2> HIDE DEF payments
  <2>4. rows[e] \in PayerRows
          => /\ new \in PayerRows /\ new.payments = payments
             /\ new.baseline.count = rows[e].baseline.count
             /\ new.baseline.volume = rows[e].baseline.volume
             /\ new.alerts = rows[e].alerts /\ new.answers = rows[e].answers
    BY <2>2, PayerRowsAre DEF Baseline
  <2> HIDE DEF new
  <2>5. ASSUME rows[e] \in GoodPayers
        PROVE  new \in GoodPayers
    <3>1. rows[e] \in PayerRows
      BY <2>5 DEF GoodPayers
    <3> QED
      BY <2>3, <2>4, <2>5, <3>1, FramedGood
  <2> QED
    BY <2>1, <2>4, <2>5, DirectKeeps
<1> QED
  BY <1>1, <1>2, <1>3, <1>4, <1>5, <1>6, <1>7
  DEF PayerRequest

LEMMA PayerByColumn == ByColumn(PayerRows)
<1> SUFFICES ASSUME NEW now \in PayerRows, NEW seen \in PayerRows, NEW new \in PayerRows
             PROVE  Written(now, seen, new) \in PayerRows
  BY DEF ByColumn
<1> DEFINE w == Written(now, seen, new)
<1>1. w.customer \in [facts : PayerFact]
  BY PayerRowsAre DEF Written
<1>2. w.baseline \in Baseline
  BY PayerRowsAre DEF Written, Baseline
<1>3. w.payments \in [1 .. 2 -> PaymentRow]
  BY PayerRowsAre DEF Written
<1>4. w.alerts \in [1 .. 2 -> PaymentAlert]
  BY PayerRowsAre DEF Written
<1>5. w.answers \in [Questions -> Answers]
  BY PayerRowsAre DEF Written
<1>6. w.advice \in [AdviceTypes -> AdviceStates]
  BY PayerRowsAre DEF Written
<1>7. w \in PayerRows
  BY <1>1, <1>2, <1>3, <1>4, <1>5, <1>6, PayerRowsAre DEF Written
<1> QED
  BY <1>7

=============================================================================
