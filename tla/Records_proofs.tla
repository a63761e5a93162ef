--------------------------- MODULE Records_proofs ---------------------------
(***************************************************************************)
(* What is proved about the record-keeping components: what the handlers   *)
(* of the other kinds of entity preserve; and from that, for all of them   *)
(* side by side, the invariants that give the type correctness and the     *)
(* safety invariants of Records: one for the entities of which no outdated *)
(* copy was committed, and one for what outlasts the overlaps.             *)
(***************************************************************************)
EXTENDS RecordKinds_proofs

-----------------------------------------------------------------------------
(* What the assignments count is what the trigger log and the bulk requests   *)
(* count, and what the people have.                                           *)
Tallied(r) ==
    /\ r.books.assigned = GivenTo(r)
    /\ r.books.assigned = r.books.logged + r.books.bulk
GoodTeams ==
    {r \in TeamRows : Tallied(r)}

GivenCount == [count : Nat, recent : BOOLEAN, live : BOOLEAN]
GivenBook == [Trained -> GivenCount]
TeamCourse == [offered : BOOLEAN, custom : BOOLEAN, active : BOOLEAN]
RulePlaceRows ==
    {NoRule} \union [status : TriggerStatuses, rule : {<<x>> : x \in TriggerRule}]
TeamBooks == [assigned : Nat, logged : Nat, bulk : Nat]
TeamUpdate == [status : {"none", "draft", "published", "archived"}, to : SUBSET Trained,
               notified : 0 .. 1, created : Nat]
TeamFlag == [status : {"none", "open", "reviewed", "cleared"}, oversight : BOOLEAN]

(* The rows of a team before the bound on a person's records is looked at.    *)
WideTeams ==
    [course : TeamCourse, rules : [RulePlaces -> RulePlaceRows], given : GivenBook,
     books : TeamBooks, update : TeamUpdate, flag : TeamFlag]

LEMMA TeamRowsAre ==
    TeamRows = [course : TeamCourse, rules : [RulePlaces -> RulePlaceRows],
                given : [Trained -> [count : 0 .. MaxGiven, recent : BOOLEAN, live : BOOLEAN]],
                books : TeamBooks, update : TeamUpdate, flag : TeamFlag]
BY DEF TeamRows, TeamCourse, RulePlaceRows, TeamBooks, TeamUpdate, TeamFlag

LEMMA WithinBoundIs ==
    \A r : r \in TeamRows <=> r \in WideTeams /\ WithinBound(r)
<1>1. ASSUME NEW r \in TeamRows
      PROVE  r \in WideTeams /\ WithinBound(r)
  BY TeamRowsAre, GivenAssumption DEF WideTeams, WithinBound, GivenBook, GivenCount
<1>2. ASSUME NEW r \in WideTeams, WithinBound(r)
      PROVE  r \in TeamRows
  <2>1. ASSUME NEW u \in Trained
        PROVE  r.given[u] \in [count : 0 .. MaxGiven, recent : BOOLEAN, live : BOOLEAN]
    BY <1>2, <2>1, GivenAssumption DEF WideTeams, WithinBound, GivenBook, GivenCount
  <2>2. r.given \in [Trained -> [count : 0 .. MaxGiven, recent : BOOLEAN, live : BOOLEAN]]
    BY <2>1 DEF WideTeams, GivenBook
  <2> QED
    BY <1>2, <2>2, TeamRowsAre DEF WideTeams
<1> QED
  BY <1>1, <1>2

(* A person's records are numbered from one.                                  *)
LEMMA RecordsOfIs ==
    ASSUME NEW given, NEW p
    PROVE  p \in RecordsOf(given)
             <=> \E u \in Trained : \E n \in 1 .. given[u].count : p = <<u, n>>
BY DEF RecordsOf

LEMMA RecordsFinite ==
    ASSUME NEW given \in GivenBook
    PROVE  IsFiniteSet(RecordsOf(given))
<1> DEFINE own(u) == {u} \X (1 .. given[u].count)
           all == {own(u) : u \in Trained}
<1>1. ASSUME NEW u \in Trained
      PROVE  IsFiniteSet(own(u))
  <2> DEFINE f == [n \in 1 .. given[u].count |-> <<u, n>>]
  <2>1. given[u].count \in Nat
    BY DEF GivenBook, GivenCount
  <2>2. IsFiniteSet(1 .. given[u].count)
    BY <2>1, FS_Interval
  <2>3. f \in Surjection(1 .. given[u].count, own(u))
    BY DEF Surjection
  <2> QED
    BY <2>2, <2>3, FS_Surjection
<1>2. IsFiniteSet(all)
  <2> DEFINE f == [u \in Trained |-> own(u)]
  <2>1. f \in Surjection(Trained, all)
    BY DEF Surjection
  <2> QED
    BY <2>1, GivenAssumption, FS_Surjection
<1>3. \A T \in all : IsFiniteSet(T)
  BY <1>1
<1>4. RecordsOf(given) = UNION all
  BY DEF RecordsOf
<1> HIDE DEF all
<1> QED
  BY <1>2, <1>3, <1>4, FS_UNION

(* Each of I is the nth of as many as there are more for its person.          *)
Numbered(I, who, nth, more) ==
    /\ \A i \in I : nth[i] <= more[who[i]]
    /\ \A u \in Trained : \A n \in 1 .. more[u] : \E i \in I : who[i] = u /\ nth[i] = n
    /\ \A i, j \in I : who[i] = who[j] /\ nth[i] = nth[j] => i = j

(* One more record for each of I, the nth new one of its person: there are so *)
(* many more.                                                                 *)
LEMMA MoreRecords ==
    ASSUME NEW given \in GivenBook, NEW more \in [Trained -> Nat],
           NEW I, IsFiniteSet(I), NEW who \in [I -> Trained], NEW nth \in [I -> Nat \ {0}],
           Numbered(I, who, nth, more)
    PROVE  /\ WithMore(given, more) \in GivenBook
           /\ Cardinality(RecordsOf(WithMore(given, more)))
                = Cardinality(RecordsOf(given)) + Cardinality(I)
<1> DEFINE after == WithMore(given, more)
           f == [i \in I |-> <<who[i], given[who[i]].count + nth[i]>>]
           added == {f[i] : i \in I}
<1>1. \A u \in Trained : given[u] \in GivenCount /\ given[u].count \in Nat /\ more[u] \in Nat
  BY DEF GivenBook, GivenCount
<1>2. /\ after \in GivenBook
      /\ \A u \in Trained : after[u].count = given[u].count + more[u]
  BY <1>1 DEF WithMore, GivenBook, GivenCount
<1>3. f \in Bijection(I, added)
  <2>1. ASSUME NEW i \in I, NEW j \in I, f[i] = f[j]
        PROVE  i = j
    <3> DEFINE n == given[who[i]].count
    <3>1. who[i] = who[j] /\ n + nth[i] = n + nth[j]
      BY <2>1
    <3>2. n \in Nat /\ nth[i] \in Nat /\ nth[j] \in Nat
      <4>1. who[i] \in Trained /\ nth[i] \in Nat \ {0} /\ nth[j] \in Nat \ {0}
        BY <2>1
      <4> QED
        BY <1>1, <4>1
    <3>3. \A a, b, k \in Nat : k + a = k + b => a = b
      OBVIOUS
    <3> HIDE DEF n
    <3>4. nth[i] = nth[j]
      BY <3>1, <3>2, <3>3
    <3> QED
      BY <2>1, <3>1, <3>4 DEF Numbered
  <2>2. f \in [I -> added] /\ \A x \in added : \E i \in I : f[i] = x
    OBVIOUS
  <2> HIDE DEF f, added
  <2> QED
    BY <2>1, <2>2 DEF Bijection, Injection, IsInjective, Surjection
<1>4. IsFiniteSet(added) /\ Cardinality(added) = Cardinality(I)
  BY <1>3, FS_Bijection DEF ExistsBijection
<1>5. RecordsOf(after) = RecordsOf(given) \union added
  <2>1. ASSUME NEW u \in Trained, NEW n \in 1 .. after[u].count
        PROVE  <<u, n>> \in RecordsOf(given) \union added
    <3>1. CASE n <= given[u].count
      BY <1>1, <1>2, <3>1, RecordsOfIs
    <3>2. CASE n > given[u].count
      <4>1. n - given[u].count \in 1 .. more[u]
        BY <1>1, <1>2, <3>2
      <4>2. PICK i \in I : who[i] = u /\ nth[i] = n - given[u].count
        BY <4>1 DEF Numbered
      <4>3. f[i] = <<u, n>>
        BY <1>1, <4>2
      <4> QED
        BY <4>3
    <3> QED
      BY <1>1, <3>1, <3>2
  <2>2. ASSUME NEW u \in Trained, NEW n \in 1 .. given[u].count
        PROVE  <<u, n>> \in RecordsOf(after)
    <3>1. n \in 1 .. after[u].count
      BY <1>1, <1>2
    <3> HIDE DEF after
    <3> QED
      BY <3>1, RecordsOfIs
  <2>3. ASSUME NEW i \in I
        PROVE  f[i] \in RecordsOf(after)
    <3>1. given[who[i]].count + nth[i] \in 1 .. after[who[i]].count
      BY <1>1, <1>2, <2>3 DEF Numbered
    <3> HIDE DEF after
    <3> QED
      BY <3>1, RecordsOfIs
  <2> HIDE DEF after, f
  <2>4. ASSUME NEW p \in RecordsOf(after)
        PROVE  p \in RecordsOf(given) \union added
    <3>1. PICK u \in Trained : \E n \in 1 .. after[u].count : p = <<u, n>>
      BY <2>4, RecordsOfIs
    <3> QED
      BY <2>1, <3>1
  <2>5. ASSUME NEW p \in RecordsOf(given)
        PROVE  p \in RecordsOf(after)
    <3>1. PICK u \in Trained : \E n \in 1 .. given[u].count : p = <<u, n>>
      BY <2>5, RecordsOfIs
    <3> QED
      BY <2>2, <3>1
  <2>6. added \subseteq RecordsOf(after)
    BY <2>3
  <2> QED
    BY <2>4, <2>5, <2>6
<1>6. RecordsOf(given) \intersect added = {}
  <2>1. ASSUME NEW i \in I, NEW u \in Trained, NEW n \in 1 .. given[u].count, f[i] = <<u, n>>
        PROVE  FALSE
    BY <1>1, <2>1
  <2> HIDE DEF f
  <2> QED
    BY <2>1, RecordsOfIs
<1>7. IsFiniteSet(RecordsOf(given)) /\ Cardinality(RecordsOf(given)) \in Nat
  BY RecordsFinite, FS_CardinalityType
<1>8. Cardinality(I) \in Nat
  BY FS_CardinalityType
<1> HIDE DEF after, added
<1>9. Cardinality(RecordsOf(given) \union added) = Cardinality(RecordsOf(given)) + Cardinality(added)
  <2>1. Cardinality(RecordsOf(given) \intersect added) = 0
    BY <1>6, FS_EmptySet
  <2> QED
    BY <1>4, <1>7, <1>8, <2>1, FS_Union
<1> QED
  BY <1>2, <1>4, <1>5, <1>9 DEF after

(* A record for each target that is not in its cooldown.                      *)
LEMMA AssignedKeeps ==
    ASSUME NEW r \in WideTeams, NEW targets \in SUBSET Trained, NEW cooldown
    PROVE  /\ Assigned(r, targets, cooldown) \in WideTeams
           /\ Assigned(r, targets, cooldown).rules = r.rules
           /\ Assigned(r, targets, cooldown).update = r.update
           /\ Assigned(r, targets, cooldown).books.assigned - r.books.assigned \in Nat
           /\ Tallied(r) => Tallied(Assigned(r, targets, cooldown))
<1> DEFINE I == {u \in targets : ~(cooldown /\ r.given[u].recent)}
           more == [u \in Trained |-> IF u \in I THEN 1 ELSE 0]
           given == WithMore(r.given, more)
           k == Cardinality(I)
           books == [r.books EXCEPT !.assigned = @ + k, !.logged = @ + k]
           s == Assigned(r, targets, cooldown)
<1>1. s = [r EXCEPT !.given = given, !.books = books]
  BY DEF Assigned
<1>2. I \subseteq Trained /\ IsFiniteSet(I) /\ k \in Nat
  BY GivenAssumption, FS_Subset, FS_CardinalityType
<1>3. r.given \in GivenBook /\ r.books \in TeamBooks
  BY DEF WideTeams
<1>4. /\ given \in GivenBook
      /\ Cardinality(RecordsOf(given)) = Cardinality(RecordsOf(r.given)) + k
  <2> DEFINE who == [u \in I |-> u]
             nth == [u \in I |-> 1]
  <2> HIDE DEF I
  <2>1. who \in [I -> Trained] /\ nth \in [I -> Nat \ {0}] /\ more \in [Trained -> Nat]
    BY <1>2
  <2>2. \A u \in I : nth[u] <= more[who[u]]
    BY <1>2
  <2>3. \A u \in Trained : \A n \in 1 .. more[u] : \E i \in I : who[i] = u /\ nth[i] = n
    BY <1>2
  <2>4. \A u, v \in I : who[u] = who[v] /\ nth[u] = nth[v] => u = v
    OBVIOUS
  <2> HIDE DEF who, nth, more
  <2>5. Numbered(I, who, nth, more)
    BY <2>2, <2>3, <2>4 DEF Numbered
  <2> QED
    BY <1>2, <1>3, <2>1, <2>5, MoreRecords
<1>5. /\ books \in TeamBooks /\ books.assigned = r.books.assigned + k
      /\ books.logged = r.books.logged + k /\ books.bulk = r.books.bulk
  <2> HIDE DEF k
  <2>1. r.books.assigned + k \in Nat /\ r.books.logged + k \in Nat
    BY <1>2, <1>3 DEF TeamBooks
  <2> QED
    BY <1>3, <2>1 DEF TeamBooks
<1> HIDE DEF I, more, given, k, books, s
<1>6. /\ s \in WideTeams /\ s.rules = r.rules /\ s.update = r.update
      /\ s.given = given /\ s.books = books
  BY <1>1, <1>4, <1>5 DEF WideTeams
<1>7. Tallied(r) => Tallied(s)
  BY <1>2, <1>3, <1>4, <1>5, <1>6 DEF Tallied, GivenTo, TeamBooks
<1>8. s.books.assigned - r.books.assigned \in Nat
  BY <1>2, <1>3, <1>5, <1>6 DEF TeamBooks
<1> QED
  BY <1>6, <1>7, <1>8 DEF s

LEMMA TargetsAre ==
    ASSUME NEW r \in WideTeams, NEW k \in RulesFor(r), NEW handler \in SUBSET Trained
    PROVE  k \in RulePlaces /\ TargetUsers(r.rules[k].rule[1], handler) \in SUBSET Trained
<1>1. k \in RulePlaces /\ r.rules[k].status = "active"
  BY DEF RulesFor
<1>2. r.rules[k] \in RulePlaceRows /\ r.rules[k] # NoRule
  BY <1>1 DEF WideTeams, NoRule
<1>3. PICK x \in TriggerRule : r.rules[k].rule = <<x>>
  BY <1>2 DEF RulePlaceRows
<1> QED
  BY <1>1, <1>3 DEF TargetUsers, TriggerRule

LEMMA FiredKeeps ==
    ASSUME NEW r \in WideTeams, NEW handler \in SUBSET Trained
    PROVE  /\ FiredBy(r, handler) \in WideTeams
           /\ Tallied(r) => Tallied(FiredBy(r, handler))
<1> DEFINE x(k) == r.rules[k].rule[1]
           fires(k) == k \in RulesFor(r) /\ x(k).suits /\ TargetUsers(x(k), handler) # {}
           one(k, s) == IF fires(k) THEN Assigned(s, TargetUsers(x(k), handler), x(k).cooldown)
                        ELSE s
<1>1. FiredBy(r, handler) = one(2, one(1, r))
  BY DEF FiredBy
<1>2. ASSUME NEW k, NEW s \in WideTeams
      PROVE  one(k, s) \in WideTeams /\ (Tallied(s) => Tallied(one(k, s)))
  <2>1. CASE fires(k)
    <3>1. TargetUsers(x(k), handler) \in SUBSET Trained
      BY <2>1, TargetsAre
    <3> QED
      BY <2>1, <3>1, AssignedKeeps
  <2>2. CASE ~fires(k)
    BY <2>2
  <2> QED
    BY <2>1, <2>2
<1> HIDE DEF one
<1> QED
  BY <1>1, <1>2

LEMMA SameBooks ==
    ASSUME NEW r, NEW new, r \in TeamRows => /\ new \in TeamRows
                                            /\ new.given = r.given /\ new.books = r.books
    PROVE  /\ r \in TeamRows => new \in TeamRows
           /\ r \in GoodTeams => new \in GoodTeams
BY DEF GoodTeams, Tallied, GivenTo

SameCounts(r, new) ==
    /\ new \in TeamRows /\ new.books = r.books
    /\ \A u \in Trained : new.given[u].count = r.given[u].count

LEMMA SameCountsKeep ==
    ASSUME NEW r, NEW new, r \in TeamRows => SameCounts(r, new)
    PROVE  /\ r \in TeamRows => new \in TeamRows
           /\ r \in GoodTeams => new \in GoodTeams
<1>1. ASSUME SameCounts(r, new)
      PROVE  RecordsOf(new.given) = RecordsOf(r.given)
  <2>1. ASSUME NEW p
        PROVE  p \in RecordsOf(new.given) <=> p \in RecordsOf(r.given)
    BY <1>1, RecordsOfIs DEF SameCounts
  <2> QED
    BY <2>1
<1> QED
  BY <1>1 DEF GoodTeams, Tallied, GivenTo, SameCounts

Times(users, I) == [u \in Trained |-> Cardinality({i \in I : users[i] = u})]

(* Who is named twice in a bulk request has two more records.                 *)
LEMMA BulkRecords ==
    ASSUME NEW given \in GivenBook, NEW n \in 1 .. 2, NEW users \in [1 .. n -> Trained],
           NEW I \in SUBSET (1 .. n)
    PROVE  /\ WithMore(given, Times(users, I)) \in GivenBook /\ Cardinality(I) \in Nat
           /\ Cardinality(RecordsOf(WithMore(given, Times(users, I))))
                = Cardinality(RecordsOf(given)) + Cardinality(I)
<1> DEFINE times == [u \in Trained |-> Cardinality({i \in I : users[i] = u})]
           twice == 1 \in I /\ 2 \in I /\ users[1] = users[2]
           who == [i \in I |-> users[i]]
           nth == [i \in I |-> IF i = 2 /\ twice THEN 2 ELSE 1]
<1>1. I \subseteq {1, 2} /\ IsFiniteSet(I) /\ Cardinality(I) \in Nat
  <2>1. 1 .. n \subseteq {1, 2} /\ IsFiniteSet(1 .. n)
    BY FS_Interval
  <2>2. IsFiniteSet(I)
    BY <2>1, FS_Subset
  <2> QED
    BY <2>1, <2>2, FS_CardinalityType
<1>2. who \in [I -> Trained] /\ nth \in [I -> Nat \ {0}]
  OBVIOUS
<1>3. ASSUME NEW u \in Trained
      PROVE  LET named == {i \in I : users[i] = u}
             IN  times[u] = IF named = {} THEN 0 ELSE IF named = {1, 2} THEN 2 ELSE 1
  <2> DEFINE named == {i \in I : users[i] = u}
  <2>1. times[u] = Cardinality(named)
    BY <1>3
  <2>2. named = {} \/ named = {1} \/ named = {2} \/ named = {1} \union {2}
    BY <1>1
  <2> HIDE DEF named, times
  <2>3. /\ Cardinality({}) = 0 /\ Cardinality({1}) = 1 /\ Cardinality({2}) = 1
        /\ Cardinality({1} \union {2}) = 2
    <3>1. IsFiniteSet({1}) /\ Cardinality({1}) = 1 /\ Cardinality({2}) = 1
      BY FS_Singleton
    <3> QED
      BY SMTT(30), <3>1, FS_EmptySet, FS_AddElement
  <2>4. {1} # {} /\ {2} # {} /\ {1} # {1, 2} /\ {2} # {1, 2} /\ {1} \union {2} = {1, 2}
    OBVIOUS
  <2>5. times[u] = IF named = {} THEN 0 ELSE IF named = {1, 2} THEN 2 ELSE 1
    BY <2>1, <2>2, <2>3, <2>4
  <2> QED
    BY <2>5 DEF named
<1>4. times \in [Trained -> Nat]
  <2> HIDE DEF times
  <2>1. \A u \in Trained : times[u] \in Nat
    BY <1>3
  <2> QED
    BY <2>1 DEF times
<1>5. ASSUME NEW i \in I
      PROVE  nth[i] <= times[who[i]]
  <2> DEFINE named == {j \in I : users[j] = users[i]}
  <2>1. i \in named /\ (i = 2 /\ twice => named = {1, 2})
    BY <1>1, <1>5
  <2>2. times[who[i]] = IF named = {1, 2} THEN 2 ELSE 1
    <3> HIDE DEF times
    <3> QED
      BY <1>2, <1>3, <1>5, <2>1
  <2> HIDE DEF times, named
  <2> QED
    BY <1>5, <2>1, <2>2
<1>6. ASSUME NEW u \in Trained, NEW m \in 1 .. times[u]
      PROVE  \E i \in I : who[i] = u /\ nth[i] = m
  <2> DEFINE named == {i \in I : users[i] = u}
  <2>1. times[u] = IF named = {} THEN 0 ELSE IF named = {1, 2} THEN 2 ELSE 1
    BY <1>3, <1>6
  <2> HIDE DEF times
  <2>2. CASE named = {1, 2}
    <3>1. 1 \in I /\ 2 \in I /\ users[1] = u /\ users[2] = u /\ m \in {1, 2}
      BY <1>6, <2>1, <2>2
    <3>2. nth[1] = 1 /\ nth[2] = 2 /\ who[1] = u /\ who[2] = u
      BY <3>1
    <3> QED
      BY <3>1, <3>2
  <2>3. CASE named # {1, 2}
    <3>1. m = 1 /\ named # {}
      BY <1>6, <2>1, <2>3
    <3>2. PICK i \in I : users[i] = u
      BY <3>1
    <3>3. ~(i = 2 /\ twice)
      BY <1>1, <2>3, <3>2
    <3> QED
      BY <3>1, <3>2, <3>3
  <2> QED
    BY <2>2, <2>3
<1>7. \A i, j \in I : who[i] = who[j] /\ nth[i] = nth[j] => i = j
  BY <1>1
<1> HIDE DEF times, who, nth
<1>8. /\ WithMore(given, times) \in GivenBook
      /\ Cardinality(RecordsOf(WithMore(given, times)))
           = Cardinality(RecordsOf(given)) + Cardinality(I)
  <2>1. \A i \in I : nth[i] <= times[who[i]]
    BY <1>5
  <2>2. \A u \in Trained : \A m \in 1 .. times[u] : \E i \in I : who[i] = u /\ nth[i] = m
    BY <1>6
  <2>3. Numbered(I, who, nth, times)
    BY <1>7, <2>1, <2>2 DEF Numbered
  <2> QED
    BY <1>1, <1>2, <1>4, <2>3, MoreRecords
<1> QED
  BY <1>1, <1>8 DEF times, Times

LEMMA BroadcastKeeps ==
    ASSUME NEW r \in WideTeams
    PROVE  /\ Broadcast(r) \in WideTeams
           /\ Tallied(r) => Tallied(Broadcast(r))
<1>1. CASE r.course.active /\ r.update.to # {}
  <2> DEFINE s == Assigned(r, r.update.to, TRUE)
             k == s.books.assigned - r.books.assigned
             new == [s EXCEPT !.update = [status |-> "published", to |-> r.update.to,
                                          notified |-> 1, created |-> k]]
  <2>1. Broadcast(r) = new
    BY <1>1 DEF Broadcast
  <2>2. s \in WideTeams /\ k \in Nat /\ (Tallied(r) => Tallied(s))
    <3>1. r.update.to \in SUBSET Trained
      BY DEF WideTeams, TeamUpdate
    <3> QED
      BY <3>1, AssignedKeeps
  <2> HIDE DEF s, k
  <2>3. new \in WideTeams /\ new.given = s.given /\ new.books = s.books
    <3> DEFINE u == [status |-> "published", to |-> r.update.to, notified |-> 1, created |-> k]
    <3>1. new = [s EXCEPT !.update = u]
      OBVIOUS
    <3>2. u \in TeamUpdate
      <4>1. r.update.to \in SUBSET Trained
        BY DEF WideTeams, TeamUpdate
      <4> QED
        BY <2>2, <4>1 DEF TeamUpdate
    <3> HIDE DEF new, u
    <3> QED
      BY <2>2, <3>1, <3>2 DEF WideTeams
  <2> HIDE DEF new
  <2> QED
    BY <2>1, <2>2, <2>3 DEF Tallied, GivenTo
<1>2. CASE ~(r.course.active /\ r.update.to # {})
  <2> DEFINE new == [r EXCEPT !.update.status = "published"]
  <2>1. Broadcast(r) = new
    BY <1>2 DEF Broadcast
  <2>2. new \in WideTeams /\ new.given = r.given /\ new.books = r.books
    BY DEF WideTeams, TeamUpdate
  <2> HIDE DEF new
  <2> QED
    BY <2>1, <2>2 DEF Tallied, GivenTo
<1> QED
  BY <1>1, <1>2

LEMMA TeamKeeps ==
    ASSUME NEW q, NEW e, TeamRequest(q, e)
    PROVE  KeepsTo(q, e, TeamRows, GoodTeams)
<1>1. ASSUME SeedCourses(q, e)
      PROVE  KeepsTo(q, e, TeamRows, GoodTeams)
  <2> DEFINE new == [rows[e] EXCEPT !.course = [offered |-> TRUE, custom |-> FALSE, active |-> TRUE]]
  <2>1. Handle(q, e, new)
    BY <1>1 DEF SeedCourses
  <2>2. rows[e] \in TeamRows
          => new \in TeamRows /\ new.given = rows[e].given /\ new.books = rows[e].books
    BY <1>1, TeamRowsAre, TriggersAssumption DEF TeamCourse
  <2> HIDE DEF new
  <2> QED
    BY <2>1, <2>2, SameBooks, HandleKeeps
<1>2. ASSUME CreateCourse(q, e)
      PROVE  KeepsTo(q, e, TeamRows, GoodTeams)
  <2> DEFINE new == [rows[e] EXCEPT !.course = [offered |-> TRUE, custom |-> TRUE, active |-> TRUE]]
  <2>1. Handle(q, e, new)
    BY <1>2 DEF CreateCourse
  <2>2. rows[e] \in TeamRows
          => new \in TeamRows /\ new.given = rows[e].given /\ new.books = rows[e].books
    BY <1>2, TeamRowsAre, TriggersAssumption DEF TeamCourse
  <2> HIDE DEF new
  <2> QED
    BY <2>1, <2>2, SameBooks, HandleKeeps
<1>3. ASSUME DeleteCourse(q, e)
      PROVE  KeepsTo(q, e, TeamRows, GoodTeams)
  <2> DEFINE new == [rows[e] EXCEPT !.course.active = FALSE]
  <2>1. Handle(q, e, new)
    BY <1>3 DEF DeleteCourse
  <2>2. rows[e] \in TeamRows
          => new \in TeamRows /\ new.given = rows[e].given /\ new.books = rows[e].books
    BY <1>3, TeamRowsAre, TriggersAssumption DEF TeamCourse
  <2> HIDE DEF new
  <2> QED
    BY <2>1, <2>2, SameBooks, HandleKeeps
<1>4. ASSUME NEW active \in BOOLEAN, UpdateCourse(q, e, active)
      PROVE  KeepsTo(q, e, TeamRows, GoodTeams)
  <2> DEFINE new == [rows[e] EXCEPT !.course.active = active]
  <2>1. Handle(q, e, new)
    BY <1>4 DEF UpdateCourse
  <2>2. rows[e] \in TeamRows
          => new \in TeamRows /\ new.given = rows[e].given /\ new.books = rows[e].books
    BY <1>4, TeamRowsAre, TriggersAssumption DEF TeamCourse
  <2> HIDE DEF new
  <2> QED
    BY <2>1, <2>2, SameBooks, HandleKeeps
<1>5. ASSUME NEW k \in RulePlaces, NEW x \in TriggerRules, CreateRule(q, e, k, x)
      PROVE  KeepsTo(q, e, TeamRows, GoodTeams)
  <2> DEFINE new == [rows[e] EXCEPT !.rules[k] = [status |-> "active", rule |-> <<x>>]]
  <2>1. Handle(q, e, new)
    BY <1>5 DEF CreateRule
  <2>2. rows[e] \in TeamRows
          => new \in TeamRows /\ new.given = rows[e].given /\ new.books = rows[e].books
    BY <1>5, TeamRowsAre, TriggersAssumption DEF RulePlaceRows, TriggerStatuses
  <2> HIDE DEF new
  <2> QED
    BY <2>1, <2>2, SameBooks, HandleKeeps
<1>6. ASSUME NEW k \in RulePlaces, NEW x \in TriggerRules, NEW status \in TriggerStatuses,
            UpdateRule(q, e, k, x, status)
      PROVE  KeepsTo(q, e, TeamRows, GoodTeams)
  <2> DEFINE new == [rows[e] EXCEPT !.rules[k] = [status |-> status, rule |-> <<x>>]]
  <2>1. Handle(q, e, new)
    BY <1>6 DEF UpdateRule
  <2>2. rows[e] \in TeamRows
          => new \in TeamRows /\ new.given = rows[e].given /\ new.books = rows[e].books
    BY <1>6, TeamRowsAre, TriggersAssumption DEF RulePlaceRows
  <2> HIDE DEF new
  <2> QED
    BY <2>1, <2>2, SameBooks, HandleKeeps
<1>7. ASSUME NEW k \in RulePlaces, DeactivateRule(q, e, k)
      PROVE  KeepsTo(q, e, TeamRows, GoodTeams)
  <2> DEFINE place == [rows[e].rules[k] EXCEPT !.status = "archived"]
             new == [rows[e] EXCEPT !.rules[k] = place]
  <2>1. Handle(q, e, new) /\ rows[e].rules[k].status # "none"
    BY <1>7 DEF DeactivateRule, OursIs
  <2>2. rows[e] \in TeamRows => place \in RulePlaceRows
    BY <1>7, <2>1, TeamRowsAre DEF RulePlaceRows, NoRule, TriggerStatuses
  <2> HIDE DEF place
  <2>3. rows[e] \in TeamRows
          => new \in TeamRows /\ new.given = rows[e].given /\ new.books = rows[e].books
    BY <1>7, <2>2, TeamRowsAre
  <2> HIDE DEF new
  <2> QED
    BY <2>1, <2>3, SameBooks, HandleKeeps
<1>8. ASSUME NEW k \in RulePlaces, NEW handler \in {{}} \union {{u} : u \in Trained},
            ManualFire(q, e, k, handler)
      PROVE  KeepsTo(q, e, TeamRows, GoodTeams)
  <2> DEFINE new == FiredBy(rows[e], handler)
  <2>1. Handle(q, e, new) /\ WithinBound(new)
    BY <1>8 DEF ManualFire
  <2>2. handler \in SUBSET Trained
    BY <1>8
  <2>3. rows[e] \in TeamRows => new \in TeamRows /\ (Tallied(rows[e]) => Tallied(new))
    BY <2>1, <2>2, WithinBoundIs, FiredKeeps
  <2> HIDE DEF new
  <2> QED
    BY <2>1, <2>3, HandleKeeps DEF GoodTeams
<1>9. ASSUME NEW n \in 1 .. 2, NEW users \in [1 .. n -> Trained], BulkAssign(q, e, users)
      PROVE  KeepsTo(q, e, TeamRows, GoodTeams)
  <2> DEFINE I == {i \in DOMAIN users : ~rows[e].given[users[i]].live}
             times == [u \in Trained |-> Cardinality({i \in I : users[i] = u})]
             k == Cardinality(I)
             given == WithMore(rows[e].given, times)
             new == [rows[e] EXCEPT !.given = given, !.books.assigned = @ + k, !.books.bulk = @ + k]
  <2>1. Handle(q, e, new) /\ WithinBound(new)
    BY <1>9 DEF BulkAssign
  <2>2. I \in SUBSET (1 .. n)
    BY <1>9
  <2>3. rows[e] \in TeamRows
          => /\ given \in GivenBook /\ k \in Nat
             /\ Cardinality(RecordsOf(given)) = Cardinality(RecordsOf(rows[e].given)) + k
    <3>1. rows[e] \in TeamRows => rows[e].given \in GivenBook
      BY WithinBoundIs DEF WideTeams
    <3>2. given = WithMore(rows[e].given, Times(users, I))
      BY DEF Times
    <3> HIDE DEF I, given, times
    <3>3. \A g \in GivenBook :
             /\ WithMore(g, Times(users, I)) \in GivenBook /\ Cardinality(I) \in Nat
             /\ Cardinality(RecordsOf(WithMore(g, Times(users, I))))
                  = Cardinality(RecordsOf(g)) + Cardinality(I)
      BY <1>9, <2>2, BulkRecords
    <3> QED
      BY <3>1, <3>2, <3>3
  <2> HIDE DEF I, times, k, given
  <2>4. rows[e] \in TeamRows
          => /\ new \in WideTeams /\ new.given = given
             /\ new.books.assigned = rows[e].books.assigned + k
             /\ new.books.logged = rows[e].books.logged
             /\ new.books.bulk = rows[e].books.bulk + k
    <3> DEFINE books == [rows[e].books EXCEPT !.assigned = @ + k, !.bulk = @ + k]
    <3>1. new = [rows[e] EXCEPT !.given = given, !.books = books]
      OBVIOUS
    <3>2. rows[e] \in TeamRows
            => /\ books \in TeamBooks /\ books.assigned = rows[e].books.assigned + k
               /\ books.logged = rows[e].books.logged
               /\ books.bulk = rows[e].books.bulk + k
      <4>1. rows[e] \in TeamRows => rows[e].books \in TeamBooks /\ k \in Nat
        BY <2>3, TeamRowsAre
      <4>2. rows[e] \in TeamRows
              => rows[e].books.assigned + k \in Nat /\ rows[e].books.bulk + k \in Nat
        BY <4>1 DEF TeamBooks
      <4> QED
        BY <4>1, <4>2 DEF TeamBooks
    <3>3. rows[e] \in TeamRows => rows[e] \in WideTeams
      BY WithinBoundIs
    <3> HIDE DEF new, books
    <3> QED
      BY <2>3, <3>1, <3>2, <3>3 DEF WideTeams
  <2> HIDE DEF new
  <2>5. rows[e] \in TeamRows => new \in TeamRows
    BY <2>1, <2>4, WithinBoundIs
  <2>6. rows[e] \in TeamRows /\ Tallied(rows[e]) => Tallied(new)
    BY <2>3, <2>4, TeamRowsAre DEF Tallied, GivenTo, TeamBooks
  <2> QED
    BY <2>1, <2>5, <2>6, HandleKeeps DEF GoodTeams
<1>10. ASSUME NEW to \in SUBSET Trained, CreateRegulatoryUpdate(q, e, to)
      PROVE  KeepsTo(q, e, TeamRows, GoodTeams)
  <2> DEFINE new == [rows[e] EXCEPT !.update = [status |-> "draft", to |-> to, notified |-> 0, created |-> 0]]
  <2>1. Handle(q, e, new)
    BY <1>10 DEF CreateRegulatoryUpdate
  <2>2. rows[e] \in TeamRows
          => new \in TeamRows /\ new.given = rows[e].given /\ new.books = rows[e].books
    BY <1>10, TeamRowsAre, TriggersAssumption DEF TeamUpdate
  <2> HIDE DEF new
  <2> QED
    BY <2>1, <2>2, SameBooks, HandleKeeps
<1>11. ASSUME NEW to \in SUBSET Trained, UpdateRegulatoryUpdate(q, e, to)
      PROVE  KeepsTo(q, e, TeamRows, GoodTeams)
  <2> DEFINE new == [rows[e] EXCEPT !.update.to = to]
  <2>1. Handle(q, e, new)
    BY <1>11 DEF UpdateRegulatoryUpdate
  <2>2. rows[e] \in TeamRows
          => new \in TeamRows /\ new.given = rows[e].given /\ new.books = rows[e].books
    BY <1>11, TeamRowsAre, TriggersAssumption DEF TeamUpdate
  <2> HIDE DEF new
  <2> QED
    BY <2>1, <2>2, SameBooks, HandleKeeps
<1>12. ASSUME PublishUpdate(q, e)
      PROVE  KeepsTo(q, e, TeamRows, GoodTeams)
  <2> DEFINE new == Broadcast(rows[e])
  <2>1. Handle(q, e, new) /\ WithinBound(new)
    BY <1>12 DEF PublishUpdate
  <2>2. rows[e] \in TeamRows => new \in TeamRows /\ (Tallied(rows[e]) => Tallied(new))
    BY <2>1, WithinBoundIs, BroadcastKeeps
  <2> HIDE DEF new
  <2> QED
    BY <2>1, <2>2, HandleKeeps DEF GoodTeams
<1>13. ASSUME ArchiveUpdate(q, e)
      PROVE  KeepsTo(q, e, TeamRows, GoodTeams)
  <2> DEFINE new == [rows[e] EXCEPT !.update.status = "archived"]
  <2>1. Handle(q, e, new)
    BY <1>13 DEF ArchiveUpdate
  <2>2. rows[e] \in TeamRows
          => new \in TeamRows /\ new.given = rows[e].given /\ new.books = rows[e].books
    BY <1>13, TeamRowsAre, TriggersAssumption DEF TeamUpdate
  <2> HIDE DEF new
  <2> QED
    BY <2>1, <2>2, SameBooks, HandleKeeps
<1>14. ASSUME NEW b \in BOOLEAN, CreateAssessmentFlag(q, e, b)
      PROVE  KeepsTo(q, e, TeamRows, GoodTeams)
  <2> DEFINE new == [rows[e] EXCEPT !.flag = [status |-> "open", oversight |-> b]]
  <2>1. Handle(q, e, new)
    BY <1>14 DEF CreateAssessmentFlag
  <2>2. rows[e] \in TeamRows
          => new \in TeamRows /\ new.given = rows[e].given /\ new.books = rows[e].books
    BY <1>14, TeamRowsAre, TriggersAssumption DEF TeamFlag
  <2> HIDE DEF new
  <2> QED
    BY <2>1, <2>2, SameBooks, HandleKeeps
<1>15. ASSUME NEW b \in BOOLEAN, ReviewAssessmentFlag(q, e, b)
      PROVE  KeepsTo(q, e, TeamRows, GoodTeams)
  <2> DEFINE new == [rows[e] EXCEPT !.flag = [status |-> "reviewed", oversight |-> b]]
  <2>1. Handle(q, e, new)
    BY <1>15 DEF ReviewAssessmentFlag
  <2>2. rows[e] \in TeamRows
          => new \in TeamRows /\ new.given = rows[e].given /\ new.books = rows[e].books
    BY <1>15, TeamRowsAre, TriggersAssumption DEF TeamFlag
  <2> HIDE DEF new
  <2> QED
    BY <2>1, <2>2, SameBooks, HandleKeeps
<1>16. ASSUME ClearAssessmentFlag(q, e)
      PROVE  KeepsTo(q, e, TeamRows, GoodTeams)
  <2> DEFINE new == [rows[e] EXCEPT !.flag = [status |-> "cleared", oversight |-> FALSE]]
  <2>1. Handle(q, e, new)
    BY <1>16 DEF ClearAssessmentFlag
  <2>2. rows[e] \in TeamRows
          => new \in TeamRows /\ new.given = rows[e].given /\ new.books = rows[e].books
    BY <1>16, TeamRowsAre, TriggersAssumption DEF TeamFlag
  <2> HIDE DEF new
  <2> QED
    BY <2>1, <2>2, SameBooks, HandleKeeps
<1>17. ASSUME CooldownEnds(e)
      PROVE  KeepsTo(q, e, TeamRows, GoodTeams)
  <2> DEFINE given == [u \in Trained |-> [rows[e].given[u] EXCEPT !.recent = FALSE]]
             new == [rows[e] EXCEPT !.given = given]
  <2>1. Direct(e, new)
    BY <1>17 DEF CooldownEnds, Direct
  <2>2. rows[e] \in TeamRows
          => /\ given \in [Trained -> [count : 0 .. MaxGiven, recent : BOOLEAN, live : BOOLEAN]]
             /\ \A u \in Trained : given[u].count = rows[e].given[u].count
    BY TeamRowsAre
  <2> HIDE DEF given
  <2>3. rows[e] \in TeamRows => SameCounts(rows[e], new)
    BY <2>2, TeamRowsAre DEF SameCounts
  <2> HIDE DEF new
  <2> QED
    BY <2>1, <2>3, SameCountsKeep, DirectKeeps
<1>18. ASSUME NEW u \in Trained, RecordsEnd(e, u)
      PROVE  KeepsTo(q, e, TeamRows, GoodTeams)
  <2> DEFINE given == [rows[e].given EXCEPT ![u].live = FALSE]
             new == [rows[e] EXCEPT !.given = given]
  <2>1. Direct(e, new)
    BY <1>18 DEF RecordsEnd, Direct
  <2>2. rows[e] \in TeamRows
          => /\ given \in [Trained -> [count : 0 .. MaxGiven, recent : BOOLEAN, live : BOOLEAN]]
             /\ \A v \in Trained : given[v].count = rows[e].given[v].count
    BY <1>18, TeamRowsAre
  <2> HIDE DEF given
  <2>3. rows[e] \in TeamRows => SameCounts(rows[e], new)
    BY <2>2, TeamRowsAre DEF SameCounts
  <2> HIDE DEF new
  <2> QED
    BY <2>1, <2>3, SameCountsKeep, DirectKeeps
<1> QED
  BY <1>1, <1>2, <1>3, <1>4, <1>5, <1>6, <1>7, <1>8, <1>9, <1>10, <1>11, <1>12, <1>13,
     <1>14, <1>15, <1>16, <1>17, <1>18
  DEF TeamRequest

LEMMA TeamByColumn == ByColumn(TeamRows)
<1> SUFFICES ASSUME NEW now \in TeamRows, NEW seen \in TeamRows, NEW new \in TeamRows
             PROVE  Written(now, seen, new) \in TeamRows
  BY DEF ByColumn
<1> DEFINE w == Written(now, seen, new)
<1>1. w.course \in TeamCourse
  BY TeamRowsAre DEF Written, TeamCourse
<1>2. w.rules \in [RulePlaces -> RulePlaceRows]
  BY TeamRowsAre DEF Written
<1>3. w.given \in [Trained -> [count : 0 .. MaxGiven, recent : BOOLEAN, live : BOOLEAN]]
  BY TeamRowsAre DEF Written
<1>4. w.books \in TeamBooks
  BY TeamRowsAre DEF Written, TeamBooks
<1>5. w.update \in TeamUpdate
  BY TeamRowsAre DEF Written, TeamUpdate
<1>6. w.flag \in TeamFlag
  BY TeamRowsAre DEF Written, TeamFlag
<1>7. w \in TeamRows
  BY <1>1, <1>2, <1>3, <1>4, <1>5, <1>6, TeamRowsAre DEF Written
<1> QED
  BY <1>7

-----------------------------------------------------------------------------
(* The latest event leads to the status, or an assignment started the task;   *)
(* what was received was sent.                                                *)
GoodTasks ==
    {r \in TaskRows :
        /\ \/ r.trail.to = r.task.status
           \/ r.trail.to = "open" /\ r.task.status = "in_progress" /\ r.task.assigned
        /\ r.task.received \/ r.task.status = "waiting_response" => r.task.sent}

LEMMA TaskKeeps ==
    ASSUME NEW q, NEW e, TaskRequest(q, e)
    PROVE  KeepsTo(q, e, TaskRows, GoodTasks)
<1>1. ASSUME NEW assigned \in BOOLEAN, CreateTask(q, e, assigned)
      PROVE  KeepsTo(q, e, TaskRows, GoodTasks)
  BY <1>1, HandleKeeps DEF CreateTask, GoodTasks, TaskRows, TaskStatuses, Moved
<1>2. ASSUME AssignTask(q, e)
      PROVE  KeepsTo(q, e, TaskRows, GoodTasks)
  BY <1>2, HandleKeeps DEF AssignTask, OpenTask, GoodTasks, TaskRows, TaskStatuses, Moved
<1>3. ASSUME CompleteTask(q, e) \/ CancelTask(q, e)
      PROVE  KeepsTo(q, e, TaskRows, GoodTasks)
  BY <1>3, HandleKeeps DEF CompleteTask, CancelTask, OpenTask, GoodTasks, TaskRows,
     TaskStatuses, Moved
<1>4. ASSUME SendRfi(q, e)
      PROVE  KeepsTo(q, e, TaskRows, GoodTasks)
  BY <1>4, HandleKeeps DEF SendRfi, OpenTask, GoodTasks, TaskRows, TaskStatuses, Moved
<1>5. ASSUME RfiReceived(q, e)
      PROVE  KeepsTo(q, e, TaskRows, GoodTasks)
  BY <1>5, HandleKeeps DEF RfiReceived, GoodTasks, TaskRows, TaskStatuses, Moved
<1> QED
  BY <1>1, <1>2, <1>3, <1>4, <1>5
  DEF TaskRequest

LEMMA TaskByColumn == ByColumn(TaskRows)
BY DEF ByColumn, Written, TaskRows

-----------------------------------------------------------------------------
(* One reminder for each stage, the overdue one for what was found late.      *)
GoodCalendars ==
    {r \in CalendarRows : \A i \in 1 .. 2 :
        /\ \A s \in ReminderStages : r.reminders[i][s] <= 1
        /\ r.items[i].late /\ r.items[i].assigned => r.reminders[i]["overdue"] = 1
        /\ r.items[i].status = "overdue" => r.items[i].late}

(* An item of the calendar.                                                   *)
CalendarItem ==
    [status : ItemStatuses \union {"none"}, assigned : BOOLEAN, recurring : BOOLEAN,
     late : BOOLEAN, escalated : BOOLEAN, reached : 0 .. 5]

LEMMA CalendarRowsAre ==
    CalendarRows = [items : [1 .. 2 -> CalendarItem],
                    reminders : [1 .. 2 -> [ReminderStages -> 0 .. 2]],
                    sent : [1 .. 2 -> BOOLEAN]]
BY DEF CalendarRows, CalendarItem

LEMMA ScheduledIs ==
    ASSUME NEW assigned \in BOOLEAN, NEW recurring \in BOOLEAN
    PROVE  /\ Scheduled(assigned, recurring) \in CalendarItem
           /\ Scheduled(assigned, recurring).status = "scheduled"
           /\ ~Scheduled(assigned, recurring).late
BY DEF Scheduled, CalendarItem, ItemStatuses

(* Other items, and the same reminders.                                       *)
LEMMA ItemsKeep ==
    ASSUME NEW r \in CalendarRows, NEW items \in [1 .. 2 -> CalendarItem],
           NEW new, new = [r EXCEPT !.items = items]
    PROVE  /\ new \in CalendarRows
           /\ (\A i \in 1 .. 2 :
                  /\ items[i].late /\ items[i].assigned
                       => r.items[i].late /\ r.items[i].assigned
                  /\ items[i].status = "overdue" => items[i].late)
              => (r \in GoodCalendars => new \in GoodCalendars)
BY CalendarRowsAre DEF GoodCalendars

LEMMA CalendarKeeps ==
    ASSUME NEW q, NEW e, CalendarRequest(q, e)
    PROVE  KeepsTo(q, e, CalendarRows, GoodCalendars)
<1>1. ASSUME NEW assigned \in BOOLEAN, NEW recurring \in BOOLEAN,
            CreateItem(q, e, assigned, recurring)
      PROVE  KeepsTo(q, e, CalendarRows, GoodCalendars)
  <2> DEFINE item == Scheduled(assigned, recurring)
             items == [rows[e].items EXCEPT ![1] = item]
             new == [rows[e] EXCEPT !.items[1] = item]
  <2>1. rows[e] \in CalendarRows
          => /\ item \in CalendarItem /\ item.status # "overdue"
             /\ item.late /\ item.assigned
                  => rows[e].items[1].late /\ rows[e].items[1].assigned
    BY <1>1, CalendarRowsAre, ScheduledIs DEF CreateItem, CalendarItem
  <2>2. Handle(q, e, new)
    BY <1>1 DEF CreateItem
  <2> HIDE DEF item
  <2>3. rows[e] \in CalendarRows
          => /\ items \in [1 .. 2 -> CalendarItem]
             /\ new = [rows[e] EXCEPT !.items = items]
             /\ items[1] = item
             /\ \A k \in 1 .. 2 : k # 1 => items[k] = rows[e].items[k]
    BY <2>1, CalendarRowsAre
  <2> HIDE DEF items, new
  <2>4. rows[e] \in CalendarRows => new \in CalendarRows
    BY <2>3, ItemsKeep
  <2>5. rows[e] \in GoodCalendars => new \in GoodCalendars
    BY <2>1, <2>3, ItemsKeep DEF GoodCalendars
  <2> QED
    BY <2>2, <2>4, <2>5, HandleKeeps
<1>2. ASSUME NEW i \in 1 .. 2,
            Handle(q, e, [rows[e] EXCEPT !.items[i] = Scheduled(FALSE, TRUE)])
      PROVE  KeepsTo(q, e, CalendarRows, GoodCalendars)
  <2> DEFINE item == Scheduled(FALSE, TRUE)
             items == [rows[e].items EXCEPT ![i] = item]
             new == [rows[e] EXCEPT !.items[i] = item]
  <2>1. rows[e] \in CalendarRows
          => /\ item \in CalendarItem /\ item.status # "overdue"
             /\ item.late /\ item.assigned
                  => rows[e].items[i].late /\ rows[e].items[i].assigned
    BY <1>2, CalendarRowsAre, ScheduledIs DEF ScheduleReviews, CalendarItem
  <2>2. Handle(q, e, new)
    BY <1>2 DEF ScheduleReviews
  <2> HIDE DEF item
  <2>3. rows[e] \in CalendarRows
          => /\ items \in [1 .. 2 -> CalendarItem]
             /\ new = [rows[e] EXCEPT !.items = items]
             /\ items[i] = item
             /\ \A k \in 1 .. 2 : k # i => items[k] = rows[e].items[k]
    BY <2>1, CalendarRowsAre
  <2> HIDE DEF items, new
  <2>4. rows[e] \in CalendarRows => new \in CalendarRows
    BY <2>3, ItemsKeep
  <2>5. rows[e] \in GoodCalendars => new \in GoodCalendars
    BY <2>1, <2>3, ItemsKeep DEF GoodCalendars
  <2> QED
    BY <2>2, <2>4, <2>5, HandleKeeps
<1>3. ASSUME NEW i \in 1 .. 2,
            Handle(q, e, [rows[e] EXCEPT !.items[i].status = "completed"])
      PROVE  KeepsTo(q, e, CalendarRows, GoodCalendars)
  <2> DEFINE item == [rows[e].items[i] EXCEPT !.status = "completed"]
             items == [rows[e].items EXCEPT ![i] = item]
             new == [rows[e] EXCEPT !.items[i] = item]
  <2>1. rows[e] \in CalendarRows
          => /\ item \in CalendarItem /\ item.status # "overdue"
             /\ item.late /\ item.assigned
                  => rows[e].items[i].late /\ rows[e].items[i].assigned
    BY <1>3, CalendarRowsAre, ScheduledIs DEF Handle, CalendarItem, ItemStatuses
  <2>2. Handle(q, e, new)
    BY <1>3 DEF Handle
  <2> HIDE DEF item
  <2>3. rows[e] \in CalendarRows
          => /\ items \in [1 .. 2 -> CalendarItem]
             /\ new = [rows[e] EXCEPT !.items = items]
             /\ items[i] = item
             /\ \A k \in 1 .. 2 : k # i => items[k] = rows[e].items[k]
    BY <2>1, CalendarRowsAre
  <2> HIDE DEF items, new
  <2>4. rows[e] \in CalendarRows => new \in CalendarRows
    BY <2>3, ItemsKeep
  <2>5. rows[e] \in GoodCalendars => new \in GoodCalendars
    BY <2>1, <2>3, ItemsKeep DEF GoodCalendars
  <2> QED
    BY <2>2, <2>4, <2>5, HandleKeeps
<1>4. ASSUME NEW i \in 1 .. 2, NEW j \in 1 .. 2, rows[e].items[j].status = "none",
            rows[e].items[i].status # "none",
            Handle(q, e, [rows[e] EXCEPT !.items[i].status = "completed",
                              !.items[j] = Scheduled(rows[e].items[i].assigned, TRUE)])
      PROVE  KeepsTo(q, e, CalendarRows, GoodCalendars)
  <2> DEFINE done == [rows[e].items[i] EXCEPT !.status = "completed"]
             next == Scheduled(rows[e].items[i].assigned, TRUE)
             items == [[rows[e].items EXCEPT ![i] = done] EXCEPT ![j] = next]
             new == [rows[e] EXCEPT !.items[i].status = "completed", !.items[j] = next]
  <2>1. rows[e] \in CalendarRows
          => /\ done \in CalendarItem /\ done.status # "overdue"
             /\ done.late = rows[e].items[i].late
             /\ done.assigned = rows[e].items[i].assigned
             /\ next \in CalendarItem /\ next.status # "overdue" /\ ~next.late
    <3>1. rows[e] \in CalendarRows => rows[e].items[i] \in CalendarItem
      BY CalendarRowsAre
    <3>2. rows[e] \in CalendarRows => rows[e].items[i].assigned \in BOOLEAN
      BY <3>1 DEF CalendarItem
    <3>3. rows[e] \in CalendarRows
            => next \in CalendarItem /\ next.status # "overdue" /\ ~next.late
      BY <3>2, ScheduledIs
    <3> HIDE DEF next
    <3> QED
      BY <3>1, <3>3 DEF CalendarItem, ItemStatuses
  <2>2. Handle(q, e, new)
    BY <1>4
  <2> HIDE DEF next
  <2>3. rows[e] \in CalendarRows => new = [rows[e] EXCEPT !.items = items]
    BY <1>4, CalendarRowsAre
  <2> HIDE DEF done
  <2>4. rows[e] \in CalendarRows
          => /\ items \in [1 .. 2 -> CalendarItem]
             /\ items[j] = next
             /\ \A k \in 1 .. 2 : k # j => items[k] = IF k = i THEN done ELSE rows[e].items[k]
    BY <2>1, CalendarRowsAre
  <2> HIDE DEF items, new
  <2>5. rows[e] \in CalendarRows => new \in CalendarRows
    BY <2>3, <2>4, ItemsKeep
  <2>6. rows[e] \in GoodCalendars => new \in GoodCalendars
    BY <2>1, <2>3, <2>4, ItemsKeep DEF GoodCalendars
  <2> QED
    BY <2>2, <2>5, <2>6, HandleKeeps
<1>5. ASSUME NEW i \in 1 .. 2, MarkReminderSent(q, e, i)
      PROVE  KeepsTo(q, e, CalendarRows, GoodCalendars)
  <2> DEFINE new == [rows[e] EXCEPT !.sent[i] = TRUE]
  <2>1. rows[e] \in CalendarRows
          => /\ new \in CalendarRows
             /\ new.items = rows[e].items /\ new.reminders = rows[e].reminders
    BY CalendarRowsAre
  <2>2. rows[e] \in GoodCalendars => new \in GoodCalendars
    <3> HIDE DEF new
    <3> QED
      BY <2>1 DEF GoodCalendars
  <2> QED
    BY <1>5, <2>1, <2>2, HandleKeeps DEF MarkReminderSent
<1>6. ASSUME ProcessDueReminders(q, e)
      PROVE  KeepsTo(q, e, CalendarRows, GoodCalendars)
  <2> DEFINE reminders == [i \in 1 .. 2 |-> Reminded(rows[e], i)]
             late(x) == IF Due(x) /\ x.reached = 5
                        THEN [x EXCEPT !.status = "overdue", !.late = TRUE] ELSE x
             items == [i \in 1 .. 2 |-> late(rows[e].items[i])]
             new == [rows[e] EXCEPT !.reminders = reminders, !.items = items]
  <2>1. ASSUME NEW x \in CalendarItem
        PROVE  /\ late(x) \in CalendarItem
               /\ late(x).status = "overdue"
                    => x.status = "overdue" \/ (late(x).late /\ Due(x) /\ x.reached = 5)
               /\ late(x).late => x.late \/ (Due(x) /\ x.reached = 5)
               /\ x.late => late(x).late
               /\ late(x).assigned = x.assigned
    BY DEF CalendarItem, ItemStatuses
  <2>2. ASSUME rows[e] \in CalendarRows, NEW i \in 1 .. 2
        PROVE  /\ rows[e].items[i] \in CalendarItem
               /\ Reminded(rows[e], i) \in [ReminderStages -> 0 .. 2]
               /\ \A s \in ReminderStages :
                      Reminded(rows[e], i)[s] \in {1, rows[e].reminders[i][s]}
               /\ Reminded(rows[e], i)["overdue"]
                    = IF /\ rows[e].reminders[i]["overdue"] = 0 /\ rows[e].items[i].assigned
                         /\ Due(rows[e].items[i]) /\ rows[e].items[i].reached >= 5
                         /\ rows[e].items[i].status # "overdue"
                      THEN 1 ELSE rows[e].reminders[i]["overdue"]
    BY <2>2, CalendarRowsAre DEF Reminded, ReminderStages, CalendarItem
  <2>3. Handle(q, e, new)
    BY <1>6 DEF ProcessDueReminders
  <2>4. rows[e] \in CalendarRows
          => /\ reminders \in [1 .. 2 -> [ReminderStages -> 0 .. 2]]
             /\ items \in [1 .. 2 -> CalendarItem]
    BY <2>1, <2>2
  <2>5. \A i \in 1 .. 2 : reminders[i] = Reminded(rows[e], i) /\ items[i] = late(rows[e].items[i])
    OBVIOUS
  <2> HIDE DEF late, items, reminders
  <2>6. rows[e] \in CalendarRows
          => new \in CalendarRows /\ new.items = items /\ new.reminders = reminders
    BY <2>4, CalendarRowsAre
  <2> HIDE DEF new
  <2>7. ASSUME rows[e] \in GoodCalendars, NEW i \in 1 .. 2
        PROVE  /\ \A s \in ReminderStages : new.reminders[i][s] <= 1
               /\ new.items[i].late /\ new.items[i].assigned => new.reminders[i]["overdue"] = 1
               /\ new.items[i].status = "overdue" => new.items[i].late
    <3>1. rows[e] \in CalendarRows
      BY <2>7 DEF GoodCalendars
    <3> DEFINE x == rows[e].items[i]
    <3>2. /\ x \in CalendarItem
          /\ new.items[i] = late(x) /\ new.reminders[i] = Reminded(rows[e], i)
      BY <2>2, <2>5, <2>6, <3>1
    <3>3. \A s \in ReminderStages : rows[e].reminders[i][s] \in 0 .. 1
      BY <2>7, <3>1, CalendarRowsAre DEF GoodCalendars
    <3>4. \A s \in ReminderStages : new.reminders[i][s] <= 1
      BY <2>2, <3>1, <3>2, <3>3
    <3>5. "overdue" \in ReminderStages
      BY DEF ReminderStages
    <3>6. x.late /\ x.assigned => rows[e].reminders[i]["overdue"] = 1
      BY <2>7 DEF GoodCalendars
    <3>7. x.status = "overdue" => x.late
      BY <2>7 DEF GoodCalendars
    <3> HIDE DEF x
    <3>8. late(x).status = "overdue" => late(x).late
      BY <2>1, <3>2, <3>7
    <3>9. ASSUME late(x).late, late(x).assigned PROVE Reminded(rows[e], i)["overdue"] = 1
      <4>1. CASE x.late
        BY <2>1, <2>2, <3>1, <3>2, <3>6, <3>9, <4>1 DEF x
      <4>2. CASE ~x.late
        <5>1. Due(x) /\ x.reached = 5 /\ x.assigned
          BY <2>1, <3>2, <3>9, <4>2
        <5>2. x.status # "overdue"
          BY <3>7, <4>2
        <5> QED
          BY <2>2, <3>1, <3>3, <3>5, <5>1, <5>2 DEF x
      <4> QED
        BY <4>1, <4>2
    <3> QED
      BY <3>2, <3>4, <3>8, <3>9
  <2>8. rows[e] \in GoodCalendars => new \in GoodCalendars
    BY <2>6, <2>7 DEF GoodCalendars
  <2> QED
    BY <2>3, <2>6, <2>8, HandleKeeps
<1>7. ASSUME EscalateOverdue(q, e)
      PROVE  KeepsTo(q, e, CalendarRows, GoodCalendars)
  <2> DEFINE items == [i \in 1 .. 2 |->
                 IF rows[e].items[i].late /\ ~rows[e].items[i].escalated
                 THEN [rows[e].items[i] EXCEPT !.status = "escalated", !.escalated = TRUE]
                 ELSE rows[e].items[i]]
             new == [rows[e] EXCEPT !.items = items]
  <2>1. rows[e] \in CalendarRows
          => /\ items \in [1 .. 2 -> CalendarItem]
             /\ \A i \in 1 .. 2 :
                  /\ items[i].late = rows[e].items[i].late
                  /\ items[i].assigned = rows[e].items[i].assigned
                  /\ items[i].status \in {"escalated", rows[e].items[i].status}
    <3>1. rows[e] \in CalendarRows => \A i \in 1 .. 2 : rows[e].items[i] \in CalendarItem
      BY CalendarRowsAre
    <3> QED
      BY <3>1 DEF CalendarItem, ItemStatuses
  <2>2. Handle(q, e, new)
    BY <1>7 DEF EscalateOverdue
  <2> HIDE DEF items
  <2>3. rows[e] \in CalendarRows => new \in CalendarRows
    BY <2>1, ItemsKeep
  <2>4. rows[e] \in GoodCalendars => new \in GoodCalendars
    BY SMTT(30), <2>1, ItemsKeep DEF GoodCalendars
  <2> QED
    BY <2>2, <2>3, <2>4, HandleKeeps
<1>8. ASSUME DaysPass(e)
      PROVE  KeepsTo(q, e, CalendarRows, GoodCalendars)
  <2> DEFINE items == [i \in 1 .. 2 |-> Nearer(rows[e].items[i])]
             new == [rows[e] EXCEPT !.items = items]
  <2>1. rows[e] \in CalendarRows
          => /\ items \in [1 .. 2 -> CalendarItem]
             /\ \A i \in 1 .. 2 :
                  /\ items[i].late = rows[e].items[i].late
                  /\ items[i].assigned = rows[e].items[i].assigned
                  /\ items[i].status = rows[e].items[i].status
    BY CalendarRowsAre DEF CalendarItem, Nearer
  <2>2. Direct(e, new)
    BY <1>8 DEF DaysPass, Direct
  <2> HIDE DEF items
  <2>3. rows[e] \in CalendarRows => new \in CalendarRows
    BY <2>1, ItemsKeep
  <2>4. rows[e] \in GoodCalendars => new \in GoodCalendars
    BY SMTT(30), <2>1, ItemsKeep DEF GoodCalendars
  <2> QED
    BY <2>2, <2>3, <2>4, DirectKeeps
<1> QED
  BY <1>1, <1>2, <1>3, <1>4, <1>5, <1>6, <1>7, <1>8
  DEF CalendarRequest, ScheduleReviews, CompleteItem

LEMMA CalendarByColumn == ByColumn(CalendarRows)
<1> SUFFICES ASSUME NEW now \in CalendarRows, NEW seen \in CalendarRows, NEW new \in CalendarRows
             PROVE  Written(now, seen, new) \in CalendarRows
  BY DEF ByColumn
<1> DEFINE w == Written(now, seen, new)
<1>1. w.items \in [1 .. 2 -> CalendarItem]
  BY CalendarRowsAre DEF Written
<1>2. w.reminders \in [1 .. 2 -> [ReminderStages -> 0 .. 2]]
  BY CalendarRowsAre DEF Written
<1>3. w.sent \in [1 .. 2 -> BOOLEAN]
  BY CalendarRowsAre DEF Written
<1>4. w \in CalendarRows
  BY <1>1, <1>2, <1>3, CalendarRowsAre DEF Written
<1> QED
  BY <1>4

-----------------------------------------------------------------------------
(* A document has its bytes until it is deleted; one under hold is there.     *)
GoodDocuments ==
    {r \in DocumentRows :
        /\ r.stored.object <=> r.doc.status \notin {"none", "deleted"}
        /\ r.doc.hold => r.stored.object}

LEMMA DocumentKeeps ==
    ASSUME NEW q, NEW e, DocumentRequest(q, e)
    PROVE  KeepsTo(q, e, DocumentRows, GoodDocuments)
<1>1. ASSUME CreateDocument(q, e) \/ ArchiveDocument(q, e)
      PROVE  KeepsTo(q, e, DocumentRows, GoodDocuments)
  BY <1>1, HandleKeeps DEF CreateDocument, ArchiveDocument, DocumentRows, GoodDocuments
<1>2. ASSUME DeleteDocument(q, e)
      PROVE  KeepsTo(q, e, DocumentRows, GoodDocuments)
  BY <1>2, HandleKeeps DEF DeleteDocument, Found, DocumentRows, GoodDocuments
<1>3. ASSUME PlaceHoldOnDocument(q, e) \/ ReleaseHoldOnDocument(q, e)
      PROVE  KeepsTo(q, e, DocumentRows, GoodDocuments)
  BY <1>3, HandleKeeps DEF PlaceHoldOnDocument, ReleaseHoldOnDocument, Found, DocumentRows,
     GoodDocuments
<1> QED
  BY <1>1, <1>2, <1>3
  DEF DocumentRequest

LEMMA DocumentByColumn == ByColumn(DocumentRows)
BY DEF ByColumn, Written, DocumentRows

-----------------------------------------------------------------------------
LEMMA RetentionKeeps ==
    ASSUME NEW q, NEW e, RetentionRequest(q, e)
    PROVE  KeepsTo(q, e, RetentionRows, RetentionRows)
<1>1. ASSUME NEW o \in Officers, NEW years \in Years, UpsertPolicy(q, e, o, years)
      PROVE  KeepsTo(q, e, RetentionRows, RetentionRows)
  BY <1>1, HandleKeeps DEF UpsertPolicy, RetentionRows
<1>2. ASSUME NEW i \in 1 .. 2, NEW by \in {"admin", "mlro"}, PlaceHold(q, e, i, by)
      PROVE  KeepsTo(q, e, RetentionRows, RetentionRows)
  BY <1>2, HandleKeeps DEF PlaceHold, RetentionRows
<1>3. ASSUME NEW i \in 1 .. 2, NEW by \in {"admin", "mlro"}, ReleaseHold(q, e, i, by)
      PROVE  KeepsTo(q, e, RetentionRows, RetentionRows)
  <2> DEFINE hold == [rows[e].holds[i] EXCEPT !.state = "released"]
             holds == [rows[e].holds EXCEPT ![i] = hold]
             new == [rows[e] EXCEPT !.holds = holds]
  <2>1. rows[e] \in RetentionRows
          => hold \in [state : {"none", "active", "released"}, by : {"admin", "mlro"}]
    <3>1. rows[e] \in RetentionRows
            => rows[e].holds[i] \in [state : {"none", "active", "released"}, by : {"admin", "mlro"}]
      BY DEF RetentionRows
    <3> QED
      BY <3>1
  <2>2. Handle(q, e, new)
    BY <1>3 DEF ReleaseHold
  <2> HIDE DEF hold
  <2>3. rows[e] \in RetentionRows => new \in RetentionRows
    BY <2>1 DEF RetentionRows
  <2> QED
    BY <2>2, <2>3, HandleKeeps
<1>4. ASSUME NEW o \in Officers, GeneratePurgeReport(q, e, o)
      PROVE  KeepsTo(q, e, RetentionRows, RetentionRows)
  BY <1>4, HandleKeeps DEF GeneratePurgeReport, PurgeReport, RetentionRows
<1>5. ASSUME NEW age \in Ages, NEW pep \in BOOLEAN, YearsPass(e, age, pep)
      PROVE  KeepsTo(q, e, RetentionRows, RetentionRows)
  <2> DEFINE new == [rows[e] EXCEPT !.customer = [age |-> age, pep |-> pep]]
  <2>1. Direct(e, new)
    BY <1>5 DEF YearsPass, Direct
  <2>2. rows[e] \in RetentionRows => new \in RetentionRows
    BY DEF RetentionRows
  <2> QED
    BY <2>1, <2>2, DirectKeeps
<1> QED
  BY <1>1, <1>2, <1>3, <1>4, <1>5
  DEF RetentionRequest

LEMMA RetentionByColumn == ByColumn(RetentionRows)
BY SMTT(30) DEF ByColumn, Written, RetentionRows

-----------------------------------------------------------------------------
CustomerFiles ==
    [identity : {"none", "uploaded", "pass", "fail"}, selfie : {"none", "refer", "pass"},
     phone : {"none", "sent", "verified"}, email : {"none", "sent", "verified"},
     owner : {"none", "unverified", "verified"}]
LatestScreenings == [ScreeningTypes -> {"none", "pending", "clear", "match"}]

LEMMA EvidenceRowsAre ==
    EvidenceRows = [customer : [company : BOOLEAN], checklist : [Flags -> BOOLEAN],
                    files : CustomerFiles, latest : LatestScreenings,
                    cleared : [ScreeningTypes -> BOOLEAN]]
BY DEF EvidenceRows, CustomerFiles, LatestScreenings

LEMMA WithFlagKeeps ==
    ASSUME NEW r \in EvidenceRows, NEW flag \in Flags, NEW on \in BOOLEAN
    PROVE  WithFlag(r, flag, on) \in EvidenceRows
<1> DEFINE s == [r EXCEPT !.checklist[flag] = on]
           all == \A f \in Required(r) : s.checklist[f]
<1>1. s \in EvidenceRows
  BY EvidenceRowsAre
<1>2. WithFlag(r, flag, on) = [s EXCEPT !.checklist["complete"] = all] /\ all \in BOOLEAN
  BY DEF WithFlag
<1> HIDE DEF s, all
<1> QED
  BY <1>1, <1>2, EvidenceRowsAre DEF Flags

LEMMA FiledKeeps ==
    ASSUME NEW r \in EvidenceRows
    PROVE  /\ \A how \in {"uploaded", "pass", "fail"} : Filed(r, "identity", how) \in EvidenceRows
           /\ \A how \in {"refer", "pass"} : Filed(r, "selfie", how) \in EvidenceRows
           /\ \A what \in {"phone", "email"} : \A how \in {"sent", "verified"} :
                 Filed(r, what, how) \in EvidenceRows
           /\ \A how \in {"unverified", "verified"} : Filed(r, "owner", how) \in EvidenceRows
<1>1. ASSUME NEW files \in CustomerFiles
      PROVE  [r EXCEPT !.files = files] \in EvidenceRows
  BY EvidenceRowsAre
<1>2. ASSUME NEW how \in {"uploaded", "pass", "fail"}
      PROVE  [r.files EXCEPT !["identity"] = how] \in CustomerFiles
  BY EvidenceRowsAre DEF CustomerFiles
<1>3. ASSUME NEW how \in {"refer", "pass"}
      PROVE  [r.files EXCEPT !["selfie"] = how] \in CustomerFiles
  BY EvidenceRowsAre DEF CustomerFiles
<1>4. ASSUME NEW how \in {"sent", "verified"}
      PROVE  /\ [r.files EXCEPT !["phone"] = how] \in CustomerFiles
             /\ [r.files EXCEPT !["email"] = how] \in CustomerFiles
  BY EvidenceRowsAre DEF CustomerFiles
<1>5. ASSUME NEW how \in {"unverified", "verified"}
      PROVE  [r.files EXCEPT !["owner"] = how] \in CustomerFiles
  BY EvidenceRowsAre DEF CustomerFiles
<1>6. ASSUME NEW what, NEW how
      PROVE  Filed(r, what, how) = [r EXCEPT !.files = [r.files EXCEPT ![what] = how]]
  BY EvidenceRowsAre DEF Filed
<1>7. \A how \in {"uploaded", "pass", "fail"} : Filed(r, "identity", how) \in EvidenceRows
  BY <1>1, <1>2, <1>6
<1>8. \A how \in {"refer", "pass"} : Filed(r, "selfie", how) \in EvidenceRows
  BY <1>1, <1>3, <1>6
<1>9. \A what \in {"phone", "email"} : \A how \in {"sent", "verified"} :
        Filed(r, what, how) \in EvidenceRows
  BY <1>1, <1>4, <1>6
<1>10. \A how \in {"unverified", "verified"} : Filed(r, "owner", how) \in EvidenceRows
  BY <1>1, <1>5, <1>6
<1> QED
  BY <1>7, <1>8, <1>9, <1>10

(* The checklist is complete while what it requires is set, and what it says  *)
(* is on file.                                                                *)
FlagsOfScreenings == {"pep", "sanctions", "ubo_screened"}
OnFileFor(r, flag) ==
    /\ flag = "ubo_identified" => r.files.owner # "none"
    /\ flag = "identity" => r.files.identity # "none"
    /\ flag \in FlagsOfScreenings => \E t \in ScreeningTypes : FlagOf(t) = flag /\ r.cleared[t]
Complete(r) == r.checklist["complete"] <=> (\A f \in Required(r) : r.checklist[f])
GoodEvidence ==
    {r \in EvidenceRows : Complete(r) /\ \A f \in Flags : r.checklist[f] => OnFileFor(r, f)}

LEMMA WithFlagGood ==
    ASSUME NEW r \in GoodEvidence, NEW flag \in Flags \ {"complete"}, NEW on \in BOOLEAN,
           on => OnFileFor(r, flag)
    PROVE  WithFlag(r, flag, on) \in GoodEvidence
<1> DEFINE s == [r EXCEPT !.checklist[flag] = on]
           all == \A f \in Required(r) : s.checklist[f]
           new == WithFlag(r, flag, on)
<1>1. r \in EvidenceRows /\ new \in EvidenceRows
  BY WithFlagKeeps DEF GoodEvidence
<1>2. /\ s.checklist = [r.checklist EXCEPT ![flag] = on]
      /\ s.files = r.files /\ s.cleared = r.cleared /\ s.customer = r.customer
      /\ s \in EvidenceRows
  BY <1>1, EvidenceRowsAre
<1>3. new = [s EXCEPT !.checklist["complete"] = all] /\ all \in BOOLEAN
  BY DEF WithFlag
<1> HIDE DEF s, all, new
<1>4. /\ new.checklist = [s.checklist EXCEPT !["complete"] = all]
      /\ new.files = r.files /\ new.cleared = r.cleared /\ new.customer = r.customer
  BY <1>2, <1>3, EvidenceRowsAre
<1>5. /\ \A f \in Flags \ {flag, "complete"} : new.checklist[f] = r.checklist[f]
      /\ \A f \in Flags \ {"complete"} : new.checklist[f] = s.checklist[f]
      /\ new.checklist[flag] = on
      /\ new.checklist["complete"] = all
  BY <1>1, <1>2, <1>4, EvidenceRowsAre DEF Flags
<1>6. Required(new) = Required(r) /\ Required(r) \subseteq Flags \ {"complete"}
  <2>1. Required(r) \subseteq Flags \ {"complete"}
    BY DEF Required, Flags
  <2>2. Required(new) = Required(r)
    BY <1>4 DEF Required
  <2> QED
    BY <2>1, <2>2
<1>7. Complete(new)
  <2>1. all <=> (\A f \in Required(new) : new.checklist[f])
    BY <1>5, <1>6 DEF all
  <2> QED
    BY <1>5, <2>1 DEF Complete
<1>8. \A f \in Flags : OnFileFor(r, f) <=> OnFileFor(new, f)
  BY <1>4 DEF OnFileFor
<1>9. OnFileFor(new, "complete")
  BY DEF OnFileFor, FlagsOfScreenings
<1>10. \A f \in Flags : new.checklist[f] => OnFileFor(new, f)
  <2>1. on => OnFileFor(new, flag)
    BY <1>8
  <2>2. \A f \in Flags \ {flag, "complete"} : r.checklist[f] => OnFileFor(new, f)
    BY <1>8 DEF GoodEvidence
  <2> QED
    BY <1>5, <1>9, <2>1, <2>2
<1> QED
  BY <1>1, <1>7, <1>10 DEF GoodEvidence, new

LEMMA SameChecklist ==
    ASSUME NEW r \in GoodEvidence, NEW s \in EvidenceRows,
           s.checklist = r.checklist, s.customer = r.customer,
           r.files.owner # "none" => s.files.owner # "none",
           r.files.identity # "none" => s.files.identity # "none",
           \A t \in ScreeningTypes : r.cleared[t] => s.cleared[t]
    PROVE  s \in GoodEvidence
<1>1. Complete(s)
  BY DEF Complete, Required, GoodEvidence
<1> QED
  BY <1>1 DEF GoodEvidence, OnFileFor

(* Nothing is taken from the file.                                            *)
LEMMA FiledGood ==
    ASSUME NEW r \in GoodEvidence, NEW what, NEW how, how # "none",
           Filed(r, what, how) \in EvidenceRows
    PROVE  Filed(r, what, how) \in GoodEvidence
<1>1. /\ Filed(r, what, how).checklist = r.checklist
      /\ Filed(r, what, how).customer = r.customer
      /\ Filed(r, what, how).cleared = r.cleared
      /\ Filed(r, what, how).files = [r.files EXCEPT ![what] = how]
  BY EvidenceRowsAre DEF GoodEvidence, Filed
<1>2. \A x \in {"owner", "identity"} : r.files[x] # "none" => [r.files EXCEPT ![what] = how][x] # "none"
  BY EvidenceRowsAre DEF GoodEvidence, CustomerFiles
<1> QED
  BY <1>1, <1>2, SameChecklist

(* What a handler files, with a flag for it or without.                       *)
Filings ==
    ({"identity"} \X {"uploaded", "pass", "fail"}) \union ({"selfie"} \X {"refer", "pass"})
    \union ({"phone", "email"} \X {"sent", "verified"})
    \union ({"owner"} \X {"unverified", "verified"})

LEMMA FiledKept ==
    ASSUME NEW r, NEW what, NEW how, <<what, how>> \in Filings
    PROVE  /\ r \in EvidenceRows => Filed(r, what, how) \in EvidenceRows
           /\ r \in GoodEvidence => Filed(r, what, how) \in GoodEvidence
<1>1. how # "none"
  BY DEF Filings
<1>2. r \in EvidenceRows => Filed(r, what, how) \in EvidenceRows
  BY FiledKeeps DEF Filings
<1>3. GoodEvidence \subseteq EvidenceRows
  BY DEF GoodEvidence
<1> QED
  BY <1>1, <1>2, <1>3, FiledGood

LEMMA FlaggedKept ==
    ASSUME NEW r, NEW what, NEW how, <<what, how>> \in Filings, NEW flag \in Flags \ {"complete"},
           flag \notin FlagsOfScreenings,
           flag = "ubo_identified" => what = "owner", flag = "identity" => what = "identity"
    PROVE  LET s == WithFlag(Filed(r, what, how), flag, TRUE)
           IN  /\ r \in EvidenceRows => s \in EvidenceRows
               /\ r \in GoodEvidence => s \in GoodEvidence
<1> DEFINE s == Filed(r, what, how)
<1>1. /\ r \in EvidenceRows => s \in EvidenceRows
      /\ r \in GoodEvidence => s \in GoodEvidence
      /\ GoodEvidence \subseteq EvidenceRows
  BY FiledKept DEF GoodEvidence
<1>2. /\ r \in EvidenceRows /\ what = "owner" => s.files["owner"] # "none"
      /\ r \in EvidenceRows /\ what = "identity" => s.files["identity"] # "none"
  BY EvidenceRowsAre DEF Filings, Filed, CustomerFiles
<1> HIDE DEF s
<1>3. r \in EvidenceRows => OnFileFor(s, flag)
  BY <1>2 DEF OnFileFor
<1>4. /\ r \in EvidenceRows => WithFlag(s, flag, TRUE) \in EvidenceRows
      /\ r \in GoodEvidence => WithFlag(s, flag, TRUE) \in GoodEvidence
  BY <1>1, <1>3, WithFlagKeeps, WithFlagGood
<1> QED
  BY <1>4 DEF s

LEMMA LatestKept ==
    ASSUME NEW r, NEW t \in ScreeningTypes, NEW outcome \in {"none", "pending", "clear", "match"}
    PROVE  LET s == [r EXCEPT !.latest[t] = outcome]
           IN  /\ r \in EvidenceRows => s \in EvidenceRows
               /\ r \in GoodEvidence => s \in GoodEvidence
<1> DEFINE s == [r EXCEPT !.latest[t] = outcome]
<1>1. r \in EvidenceRows
        => /\ s \in EvidenceRows
           /\ s.checklist = r.checklist /\ s.customer = r.customer
           /\ s.files = r.files /\ s.cleared = r.cleared
  BY EvidenceRowsAre DEF LatestScreenings
<1>2. GoodEvidence \subseteq EvidenceRows
  BY DEF GoodEvidence
<1> HIDE DEF s
<1>3. r \in GoodEvidence => s \in GoodEvidence
  BY <1>1, <1>2, SameChecklist
<1> QED
  BY <1>1, <1>3 DEF s

LEMMA EvidenceKeeps ==
    ASSUME NEW q, NEW e, EvidenceRequest(q, e)
    PROVE  KeepsTo(q, e, EvidenceRows, GoodEvidence)
<1>1. ASSUME AddIdentityDocument(q, e)
      PROVE  KeepsTo(q, e, EvidenceRows, GoodEvidence)
  <2>1. <<"identity", "uploaded">> \in Filings
    BY DEF Filings
  <2> QED
    BY <1>1, <2>1, FiledKept, HandleKeeps DEF AddIdentityDocument
<1>2. ASSUME AddBeneficialOwner(q, e)
      PROVE  KeepsTo(q, e, EvidenceRows, GoodEvidence)
  <2>1. <<"owner", "unverified">> \in Filings
    BY DEF Filings
  <2>2. "ubo_identified" \in Flags \ {"complete"} /\ "ubo_identified" \notin FlagsOfScreenings
    BY DEF Flags, FlagsOfScreenings
  <2> QED
    BY <1>2, <2>1, <2>2, FiledKept, FlaggedKept, HandleKeeps DEF AddBeneficialOwner
<1>3. ASSUME BecomeCompany(q, e)
      PROVE  KeepsTo(q, e, EvidenceRows, GoodEvidence)
  <2> DEFINE new == [rows[e] EXCEPT !.customer.company = TRUE]
  <2>1. Handle(q, e, new) /\ rows[e] = NewEvidence
    BY <1>3 DEF BecomeCompany
  <2>2. rows[e] \in EvidenceRows => new \in EvidenceRows
    BY EvidenceRowsAre
  <2>3. new.checklist = [f \in Flags |-> FALSE]
    BY <2>1 DEF NewEvidence
  <2>4. "identity" \in Required(new)
    BY DEF Required
  <2> HIDE DEF new
  <2>5. new \in EvidenceRows => new \in GoodEvidence
    BY <2>3, <2>4 DEF GoodEvidence, Complete, Flags
  <2>6. GoodEvidence \subseteq EvidenceRows
    BY DEF GoodEvidence
  <2> QED
    BY <2>1, <2>2, <2>5, <2>6, HandleKeeps
<1>4. ASSUME NEW ok \in BOOLEAN, VerifyDocument(q, e, ok)
      PROVE  KeepsTo(q, e, EvidenceRows, GoodEvidence)
  <2>1. /\ <<"identity", "pass">> \in Filings
        /\ <<"identity", "fail">> \in Filings
    BY DEF Filings
  <2>2. "identity" \in Flags \ {"complete"} /\ "identity" \notin FlagsOfScreenings
    BY DEF Flags, FlagsOfScreenings
  <2> QED
    BY <1>4, <2>1, <2>2, FiledKept, FlaggedKept, HandleKeeps DEF VerifyDocument
<1>5. ASSUME NEW ok \in BOOLEAN, UpdateBeneficialOwner(q, e, ok)
      PROVE  KeepsTo(q, e, EvidenceRows, GoodEvidence)
  <2>1. /\ <<"owner", "verified">> \in Filings
        /\ <<"owner", "unverified">> \in Filings
    BY DEF Filings
  <2>2. "ubo_verified" \in Flags \ {"complete"} /\ "ubo_verified" \notin FlagsOfScreenings
    BY DEF Flags, FlagsOfScreenings
  <2> QED
    BY <1>5, <2>1, <2>2, FiledKept, FlaggedKept, HandleKeeps DEF UpdateBeneficialOwner
<1>6. ASSUME NEW live \in BOOLEAN, NEW matches \in BOOLEAN, AddSelfie(q, e, live, matches)
      PROVE  KeepsTo(q, e, EvidenceRows, GoodEvidence)
  <2>1. /\ <<"selfie", "pass">> \in Filings
        /\ <<"selfie", "refer">> \in Filings
    BY DEF Filings
  <2>2. "selfie" \in Flags \ {"complete"} /\ "selfie" \notin FlagsOfScreenings
    BY DEF Flags, FlagsOfScreenings
  <2> QED
    BY <1>6, <2>1, <2>2, FiledKept, FlaggedKept, HandleKeeps DEF AddSelfie
<1>7. ASSUME NEW what \in {"phone", "email"}, StartContact(q, e, what)
      PROVE  KeepsTo(q, e, EvidenceRows, GoodEvidence)
  <2>1. <<what, "sent">> \in Filings
    BY DEF Filings
  <2> QED
    BY <1>7, <2>1, FiledKept, HandleKeeps DEF StartContact
<1>8. ASSUME NEW what \in {"phone", "email"}, ConfirmContact(q, e, what)
      PROVE  KeepsTo(q, e, EvidenceRows, GoodEvidence)
  <2>1. <<what, "verified">> \in Filings
    BY DEF Filings
  <2>2. what \in Flags \ {"complete"} /\ what \notin FlagsOfScreenings
        /\ what \notin {"ubo_identified", "identity"}
    BY DEF Flags, FlagsOfScreenings
  <2> QED
    BY <1>8, <2>1, <2>2, FiledKept, FlaggedKept, HandleKeeps DEF ConfirmContact
<1>9. ASSUME NEW t \in ScreeningTypes, AskForScreening(q, e, t)
      PROVE  KeepsTo(q, e, EvidenceRows, GoodEvidence)
  BY <1>9, LatestKept, HandleKeeps DEF AskForScreening
<1>10. ASSUME NEW t \in ScreeningTypes, HubScreening(q, e, t)
      PROVE  KeepsTo(q, e, EvidenceRows, GoodEvidence)
  BY <1>10, LatestKept, HandleKeeps DEF HubScreening
<1>11. ASSUME NEW t \in ScreeningTypes, ReScreen(q, e, t)
      PROVE  KeepsTo(q, e, EvidenceRows, GoodEvidence)
  BY <1>11, LatestKept, HandleKeeps DEF ReScreen
<1>12. ASSUME NEW t \in ScreeningTypes, NEW outcome \in {"pending", "clear", "match"},
            ReviewResult(q, e, t, outcome)
      PROVE  KeepsTo(q, e, EvidenceRows, GoodEvidence)
  <2> DEFINE on == outcome = "clear"
             r == WithFlag(rows[e], FlagOf(t), on)
             new == [r EXCEPT !.latest[t] = outcome, !.cleared[t] = @ \/ on]
             seen == [rows[e] EXCEPT !.latest[t] = outcome, !.cleared[t] = @ \/ on]
  <2>1. Handle(q, e, new)
    BY <1>12 DEF ReviewResult
  <2>2. FlagOf(t) \in Flags \ {"complete"} /\ on \in BOOLEAN
    BY <1>12 DEF FlagOf, Flags, ScreeningTypes
  <2>3. rows[e] \in EvidenceRows
          => /\ seen \in EvidenceRows
             /\ seen.checklist = rows[e].checklist /\ seen.customer = rows[e].customer
             /\ seen.files = rows[e].files
             /\ seen.cleared = [rows[e].cleared EXCEPT ![t] = @ \/ on]
    BY EvidenceRowsAre DEF LatestScreenings
  <2>4. rows[e] \in EvidenceRows => new \in EvidenceRows
    <3>1. rows[e] \in EvidenceRows => r \in EvidenceRows
      BY <2>2, WithFlagKeeps
    <3> HIDE DEF r, on
    <3> QED
      BY <1>12, <2>2, <3>1, EvidenceRowsAre DEF LatestScreenings
  <2>5. ASSUME rows[e] \in EvidenceRows
        PROVE  WithFlag(seen, FlagOf(t), on) = new
    <3> HIDE DEF on
    <3>1. /\ WithFlag(seen, FlagOf(t), on).checklist = new.checklist
          /\ WithFlag(seen, FlagOf(t), on).customer = new.customer
          /\ WithFlag(seen, FlagOf(t), on).files = new.files
          /\ WithFlag(seen, FlagOf(t), on).latest = new.latest
          /\ WithFlag(seen, FlagOf(t), on).cleared = new.cleared
      BY <2>5, EvidenceRowsAre DEF WithFlag, Required
    <3>2. new \in EvidenceRows /\ WithFlag(seen, FlagOf(t), on) \in EvidenceRows
      BY <2>2, <2>3, <2>4, <2>5, WithFlagKeeps
    <3> HIDE DEF new, seen
    <3> QED
      BY <3>1, <3>2, EvidenceRowsAre
  <2> HIDE DEF r, new, seen
  <2>6. ASSUME rows[e] \in GoodEvidence
        PROVE  new \in GoodEvidence
    <3>1. rows[e] \in EvidenceRows
      BY <2>6 DEF GoodEvidence
    <3>2. seen \in GoodEvidence
      BY <1>12, <2>3, <2>6, <3>1, SameChecklist, EvidenceRowsAre
    <3>3. on => seen.cleared[t]
      BY <1>12, <2>3, <3>1, EvidenceRowsAre
    <3>4. on => OnFileFor(seen, FlagOf(t))
      BY <1>12, <3>3 DEF OnFileFor, FlagOf, ScreeningTypes
    <3> QED
      BY <2>2, <2>5, <3>1, <3>2, <3>4, WithFlagGood
  <2> QED
    BY <2>1, <2>4, <2>6, HandleKeeps
<1> QED
  BY <1>1, <1>2, <1>3, <1>4, <1>5, <1>6, <1>7, <1>8, <1>9, <1>10, <1>11, <1>12
  DEF EvidenceRequest

LEMMA EvidenceByColumn == ByColumn(EvidenceRows)
BY SMTT(30) DEF ByColumn, Written, EvidenceRows

-----------------------------------------------------------------------------
ImportBook == [staff : 0 .. 1, file : Nat]
ImportResult == [rows : Nat, created : Nat, skipped : Nat, errors : Nat]

LEMMA ImportedRowsAre == ImportedRows = [book : [Addresses -> ImportBook], last : ImportResult]
BY DEF ImportedRows, ImportBook, ImportResult

LEMMA RowsOfFile ==
    ASSUME NEW f \in ImportFiles, NEW S \in SUBSET DOMAIN f
    PROVE  /\ Len(f) \in Nat
           /\ IsFiniteSet(S) /\ Cardinality(S) \in Nat /\ Cardinality(S) <= Len(f)
<1>1. Len(f) \in Nat /\ DOMAIN f = 1 .. Len(f)
  BY FilesAssumption
<1>2. IsFiniteSet(DOMAIN f) /\ Cardinality(DOMAIN f) = Len(f)
  BY <1>1, FS_Interval
<1> QED
  BY <1>1, <1>2, FS_Subset, FS_CardinalityType

(* A file adds one customer for an address, and none for one that is known;   *)
(* and every row of it is created, skipped or an error.                       *)
GoodImported ==
    {r \in ImportedRows :
        /\ \A a \in Addresses : r.book[a].file <= 1
        /\ r.last.created + r.last.skipped + r.last.errors = r.last.rows}

LEMMA AddedOnce ==
    ASSUME NEW r \in ImportedRows, NEW f \in ImportFiles, NEW a \in Addresses
    PROVE  LET n == Cardinality({i \in CreatedRows(r, f) : f[i].address = a})
           IN  n \in 0 .. 1 /\ (r.book[a].file > 0 => n = 0)
<1> DEFINE S == {i \in CreatedRows(r, f) : f[i].address = a}
           known(i) == \/ r.book[a].staff + r.book[a].file > 0
                       \/ \E j \in 1 .. i - 1 : f[j].address = a /\ Accepted(f[j])
<1>1. \A i \in S : i \in 1 .. Len(f) /\ Accepted(f[i]) /\ f[i].address = a /\ ~known(i)
  BY FilesAssumption DEF CreatedRows
<1>2. r.book[a].staff \in 0 .. 1 /\ r.book[a].file \in Nat /\ Len(f) \in Nat
  BY FilesAssumption, ImportedRowsAre DEF ImportBook
<1>3. r.book[a].file > 0 => S = {}
  BY <1>1, <1>2
<1>4. \A i, j \in S : i = j
  <2>1. \A i, j \in S : ~(j < i)
    BY <1>1, <1>2
  <2> QED
    BY <1>1, <1>2, <2>1
<1> HIDE DEF S, known
<1>5. CASE S = {}
  <2>1. Cardinality(S) = 0
    BY <1>5, FS_EmptySet
  <2> QED
    BY <2>1 DEF S
<1>6. CASE S # {}
  <2>1. PICK i : S = {i}
    BY <1>4, <1>6
  <2>2. Cardinality(S) = 1
    BY <2>1, FS_Singleton
  <2> QED
    BY <1>3, <1>6, <2>2 DEF S
<1> QED
  BY <1>5, <1>6

LEMMA ImportedKeeps ==
    ASSUME NEW q, NEW e, ImportedRequest(q, e)
    PROVE  KeepsTo(q, e, ImportedRows, GoodImported)
<1>1. ASSUME NEW a \in Addresses, EnterCustomer(q, e, a)
      PROVE  KeepsTo(q, e, ImportedRows, GoodImported)
  <2> DEFINE book == [rows[e].book EXCEPT ![a].staff = 1]
             new == [rows[e] EXCEPT !.book = book]
  <2>1. Handle(q, e, new)
    BY <1>1 DEF EnterCustomer
  <2>2. rows[e] \in ImportedRows
          => /\ book \in [Addresses -> ImportBook]
             /\ \A b \in Addresses : book[b].file = rows[e].book[b].file
    BY <1>1, ImportedRowsAre DEF ImportBook
  <2> HIDE DEF book
  <2>3. rows[e] \in ImportedRows
          => new \in ImportedRows /\ new.book = book /\ new.last = rows[e].last
    BY <2>2, ImportedRowsAre
  <2> HIDE DEF new
  <2> QED
    BY <2>1, <2>2, <2>3, HandleKeeps DEF GoodImported
<1>2. ASSUME NEW f \in ImportFiles, BulkImport(q, e, f)
      PROVE  KeepsTo(q, e, ImportedRows, GoodImported)
  <2> DEFINE found == CreatedRows(rows[e], f)
             accepted == {i \in DOMAIN f : Accepted(f[i])}
             book == [a \in Addresses |-> [rows[e].book[a] EXCEPT
                          !.file = @ + Cardinality({i \in found : f[i].address = a})]]
             last == [rows |-> Len(f), created |-> Cardinality(found),
                      skipped |-> Cardinality(accepted \ found),
                      errors |-> Len(f) - Cardinality(accepted)]
  <2>1. Handle(q, e, [book |-> book, last |-> last])
    BY <1>2 DEF BulkImport
  <2>2. /\ found \subseteq DOMAIN f /\ accepted \subseteq DOMAIN f
        /\ accepted \ found \subseteq DOMAIN f
        /\ \A a : {i \in found : f[i].address = a} \subseteq DOMAIN f
    BY DEF CreatedRows
  <2> found \subseteq accepted
    BY DEF CreatedRows
  <2> \A a \in Addresses : rows[e] \in ImportedRows
        => /\ Cardinality({i \in found : f[i].address = a}) \in 0 .. 1
           /\ rows[e].book[a].file > 0 => Cardinality({i \in found : f[i].address = a}) = 0
    BY <1>2, AddedOnce
  <2> HIDE DEF found, accepted
  <2>3. last \in [rows : Nat, created : Nat, skipped : Nat, errors : Nat]
    BY <1>2, <2>2, RowsOfFile
  <2>4. \A a : Cardinality({i \in found : f[i].address = a}) \in Nat
    BY <1>2, <2>2, RowsOfFile
  <2>5. rows[e] \in ImportedRows => book \in [Addresses -> [staff : 0 .. 1, file : Nat]]
    <3> SUFFICES ASSUME rows[e] \in ImportedRows, NEW a \in Addresses
                 PROVE  book[a] \in [staff : 0 .. 1, file : Nat]
      OBVIOUS
    <3> DEFINE n == Cardinality({i \in found : f[i].address = a})
    <3>1. n \in Nat
      BY <2>4
    <3> HIDE DEF n
    <3>2. [rows[e].book[a] EXCEPT !.file = @ + n] \in [staff : 0 .. 1, file : Nat]
      BY <3>1 DEF ImportedRows
    <3>3. book[a] = [rows[e].book[a] EXCEPT !.file = @ + n]
      BY DEF n
    <3> QED
      BY <3>2, <3>3
  <2>6. last.created + last.skipped + last.errors = last.rows
    <3>1. Cardinality(accepted \ found) = Cardinality(accepted) - Cardinality(found)
      <4>1. IsFiniteSet(accepted) /\ accepted \intersect found = found
        BY <1>2, <2>2, RowsOfFile
      <4>2. Cardinality(accepted \ found)
              = Cardinality(accepted) - Cardinality(accepted \intersect found)
        BY <4>1, FS_Difference
      <4> QED
        BY <4>1, <4>2
    <3> QED
      BY <1>2, <2>2, <3>1, RowsOfFile
  <2>7. ASSUME rows[e] \in GoodImported, NEW a \in Addresses
        PROVE  book[a].file <= 1
    <3> DEFINE n == Cardinality({i \in found : f[i].address = a})
               b == rows[e].book[a]
    <3>1. n \in 0 .. 1 /\ (b.file > 0 => n = 0)
      BY <2>7 DEF GoodImported
    <3>2. b \in ImportBook /\ b.file <= 1
      BY <2>7, ImportedRowsAre DEF GoodImported
    <3> HIDE DEF n, b
    <3>3. [b EXCEPT !.file = @ + n].file <= 1
      BY <3>1, <3>2 DEF ImportBook
    <3>4. book[a] = [b EXCEPT !.file = @ + n]
      BY DEF n, b
    <3> QED
      BY <3>3, <3>4
  <2> HIDE DEF book, last
  <2> DEFINE new == [book |-> book, last |-> last]
  <2>8. rows[e] \in ImportedRows => new \in ImportedRows
    BY <2>3, <2>5 DEF ImportedRows
  <2>9. rows[e] \in GoodImported => new \in GoodImported
    BY <2>6, <2>7, <2>8 DEF GoodImported
  <2> HIDE DEF new
  <2>10. Handle(q, e, new)
    BY <2>1 DEF new
  <2> QED
    BY <2>8, <2>9, <2>10, HandleKeeps
<1> QED
  BY <1>1, <1>2
  DEF ImportedRequest

LEMMA ImportedByColumn == ByColumn(ImportedRows)
BY DEF ByColumn, Written, ImportedRows

-----------------------------------------------------------------------------
ErrorCounts == 0 .. MaxErrors
HubIntegration ==
    [status : {"none", "off", "on"}, credentials : {"none", "hub", "older"},
     health : {"unknown", "healthy", "down"}, failures : ErrorCounts]
HubOauth == [state : 0 .. MaxStarts, started : 0 .. MaxStarts]
HubOlder == [status : {"none", "inactive", "active", "error"}, default : BOOLEAN]
HubNotices == [Kinds -> [Dates -> BOOLEAN]]

LEMMA HubRowsAre ==
    HubRows = [integration : HubIntegration, expires : [Kinds -> Expiries], oauth : HubOauth,
               connected : [1 .. MaxStarts -> Nat], older : [Older -> HubOlder],
               notices : HubNotices, calendar : [open : 0 .. 3]]
BY DEF HubRows, HubIntegration, HubOauth, HubOlder, HubNotices, ErrorCounts

LEMMA FewExpiring ==
    ASSUME NEW r
    PROVE  Cardinality(Expiring(r)) \in 0 .. 3
<1>1. IsFiniteSet(Kinds) /\ Cardinality(Kinds) = 2
  <2>1. Kinds = {"key"} \union {"token"} /\ "token" \notin {"key"}
    BY DEF Kinds
  <2>2. IsFiniteSet({"key"}) /\ Cardinality({"key"}) = 1
    BY FS_Singleton
  <2> QED
    BY <2>1, <2>2, FS_AddElement
<1>2. Expiring(r) \subseteq Kinds
  BY DEF Expiring
<1> QED
  BY <1>1, <1>2, FS_Subset, FS_CardinalityType

(* An integration that is down has its failures counted, one that was tested  *)
(* healthy has none, and one of the older credentials at most is the default. *)
HealthCounted(i, expires) ==
    /\ i.health = "down" => i.failures > 0
    /\ i.health = "healthy" /\ expires["token"] = "none" => i.failures = 0
OneDefault(older) == \A c, d \in Older : older[c].default /\ older[d].default => c = d
GoodHubs ==
    {r \in HubRows : HealthCounted(r.integration, r.expires) /\ OneDefault(r.older)}

LEMMA HubKeeps ==
    ASSUME NEW q, NEW e, HubRequest(q, e)
    PROVE  KeepsTo(q, e, HubRows, GoodHubs)
<1>1. ASSUME NEW expiry \in Expiries, NEW given \in {"none", "hub"},
            EnableIntegration(q, e, given, expiry)
      PROVE  KeepsTo(q, e, HubRows, GoodHubs)
  BY <1>1, HubRowsAre, BoundsAssumption, HandleKeeps
  DEF EnableIntegration, HubIntegration, Kinds, GoodHubs, HealthCounted
<1>2. ASSUME NEW expiry \in Expiries, RotateCredentials(q, e, expiry)
      PROVE  KeepsTo(q, e, HubRows, GoodHubs)
  BY <1>2, HubRowsAre, BoundsAssumption, HandleKeeps
  DEF RotateCredentials, HubIntegration, Kinds, GoodHubs, HealthCounted
<1>3. ASSUME NEW c \in Older, MigrateLegacyConnectors(q, e, c)
      PROVE  KeepsTo(q, e, HubRows, GoodHubs)
  <2> DEFINE status == IF rows[e].older[c].status = "active" THEN "on" ELSE "off"
             new == [rows[e] EXCEPT !.integration.credentials = "older",
                         !.integration.status = status]
  <2>1. Handle(q, e, new)
    BY <1>3 DEF MigrateLegacyConnectors
  <2>2. status \in {"none", "off", "on"}
    OBVIOUS
  <2> HIDE DEF status
  <2>3. rows[e] \in HubRows => new \in HubRows
    BY <2>2, HubRowsAre DEF HubIntegration
  <2>4. rows[e] \in HubRows
          => /\ new.integration.health = rows[e].integration.health
             /\ new.integration.failures = rows[e].integration.failures
             /\ new.expires = rows[e].expires /\ new.older = rows[e].older
    BY HubRowsAre DEF HubIntegration
  <2> HIDE DEF new
  <2> QED
    BY <2>1, <2>3, <2>4, HandleKeeps DEF GoodHubs, HealthCounted
<1>4. ASSUME NEW c \in Older, RemoveConnector(q, e, c)
      PROVE  KeepsTo(q, e, HubRows, GoodHubs)
  <2> DEFINE older == [rows[e].older EXCEPT ![c] = [status |-> "none", default |-> FALSE]]
             new == [rows[e] EXCEPT !.older = older]
  <2>1. Handle(q, e, new)
    BY <1>4 DEF RemoveConnector
  <2>2. rows[e] \in HubRows
          => older \in [Older -> HubOlder] /\ (OneDefault(rows[e].older) => OneDefault(older))
    BY <1>4, HubRowsAre DEF HubOlder, OneDefault
  <2> HIDE DEF older
  <2>3. rows[e] \in HubRows
          => /\ new \in HubRows
             /\ new.older = older
             /\ new.integration = rows[e].integration /\ new.expires = rows[e].expires
    BY <2>2, HubRowsAre
  <2> HIDE DEF new
  <2> QED
    BY <2>1, <2>2, <2>3, HandleKeeps DEF GoodHubs
<1>5. ASSUME DisableIntegration(q, e)
      PROVE  KeepsTo(q, e, HubRows, GoodHubs)
  BY <1>5, HubRowsAre, BoundsAssumption, HandleKeeps
  DEF DisableIntegration, HubIntegration, GoodHubs, HealthCounted
<1>6. ASSUME RunExpiryCheck(q, e)
      PROVE  KeepsTo(q, e, HubRows, GoodHubs)
  <2> DEFINE found == Expiring(rows[e])
             notices == [k \in Kinds |-> [d \in Dates |->
                            \/ rows[e].notices[k][d]
                            \/ k \in found /\ rows[e].expires[k] = d]]
             open == Cardinality(found)
  <2>1. Handle(q, e, [rows[e] EXCEPT !.notices = notices,
                                     !.calendar.open = IF @ > 0 THEN @ ELSE open])
    BY <1>6 DEF RunExpiryCheck
  <2>2. open \in 0 .. 3
    BY FewExpiring
  <2>3. notices \in HubNotices
    BY DEF HubNotices
  <2> DEFINE new == [rows[e] EXCEPT !.notices = notices,
                                    !.calendar.open = IF @ > 0 THEN @ ELSE open]
  <2> HIDE DEF notices, open
  <2>4. rows[e] \in HubRows
          => /\ new \in HubRows
             /\ new.integration = rows[e].integration
             /\ new.expires = rows[e].expires /\ new.older = rows[e].older
    BY <2>2, <2>3, HubRowsAre
  <2>5. Handle(q, e, new)
    BY <2>1
  <2> HIDE DEF new
  <2> QED
    BY <2>4, <2>5, HandleKeeps DEF GoodHubs
<1>7. ASSUME CompleteExpiryItem(q, e)
      PROVE  KeepsTo(q, e, HubRows, GoodHubs)
  <2> DEFINE calendar == [rows[e].calendar EXCEPT !.open = @ - 1]
             new == [rows[e] EXCEPT !.calendar = calendar]
  <2>1. Handle(q, e, new)
    BY <1>7 DEF CompleteExpiryItem
  <2>2. rows[e] \in HubRows => calendar \in [open : 0 .. 3]
    BY <1>7, HubRowsAre DEF CompleteExpiryItem
  <2> HIDE DEF calendar
  <2>3. rows[e] \in HubRows
          => /\ new \in HubRows
             /\ new.integration = rows[e].integration
             /\ new.expires = rows[e].expires /\ new.older = rows[e].older
    BY <2>2, HubRowsAre
  <2> HIDE DEF new
  <2> QED
    BY <2>1, <2>3, HandleKeeps DEF GoodHubs
<1>8. ASSUME NEW n \in 1 .. MaxStarts, NEW day \in Dates, CompleteOauth(q, e, n, day)
      PROVE  KeepsTo(q, e, HubRows, GoodHubs)
  <2> DEFINE oauth == [rows[e].oauth EXCEPT !.state = 0]
             connected == [rows[e].connected EXCEPT ![n] = @ + 1]
             integration == [rows[e].integration EXCEPT !.status = "on", !.health = "healthy"]
             expires == [rows[e].expires EXCEPT !["token"] = day]
             new == [rows[e] EXCEPT !.oauth = oauth, !.connected = connected, !.integration = integration, !.expires = expires]
  <2>1. Handle(q, e, new)
    BY <1>8 DEF CompleteOauth
  <2>2. rows[e] \in HubRows => oauth \in HubOauth
    BY <1>8, HubRowsAre, BoundsAssumption DEF HubOauth
  <2>3. rows[e] \in HubRows => connected \in [1 .. MaxStarts -> Nat]
    BY <1>8, HubRowsAre, BoundsAssumption
  <2>4. rows[e] \in HubRows => integration \in HubIntegration
    BY <1>8, HubRowsAre, BoundsAssumption DEF HubIntegration
  <2>5. rows[e] \in HubRows => expires \in [Kinds -> Expiries]
    BY <1>8, HubRowsAre, BoundsAssumption DEF Kinds, Expiries
  <2>6. rows[e] \in HubRows
          => expires["token"] = day /\ integration.health = "healthy"
    BY HubRowsAre DEF Kinds, HubIntegration
  <2> HIDE DEF oauth, connected, integration, expires
  <2>7. rows[e] \in HubRows
          => /\ new \in HubRows
             /\ new.integration = integration
             /\ new.expires = expires /\ new.older = rows[e].older
    BY <2>2, <2>3, <2>4, <2>5, HubRowsAre
  <2> HIDE DEF new
  <2>8. rows[e] \in GoodHubs => new \in GoodHubs
    BY <1>8, <2>6, <2>7 DEF GoodHubs, HealthCounted, Dates
  <2> QED
    BY <2>1, <2>7, <2>8, HandleKeeps
<1>9. ASSUME NEW c \in Older, NEW yes \in BOOLEAN, UpdateConnector(q, e, c, yes)
      PROVE  KeepsTo(q, e, HubRows, GoodHubs)
  <2> DEFINE older == [d \in Older |->
                          IF d = c THEN [rows[e].older[d] EXCEPT !.default = yes]
                          ELSE [rows[e].older[d] EXCEPT !.default = @ /\ ~yes]]
             new == [rows[e] EXCEPT !.older = older]
  <2>1. Handle(q, e, new)
    BY <1>9 DEF UpdateConnector
  <2>2. rows[e] \in HubRows
          => older \in [Older -> HubOlder] /\ (OneDefault(rows[e].older) => OneDefault(older))
    <3> SUFFICES ASSUME rows[e] \in HubRows
                 PROVE  older \in [Older -> HubOlder]
                        /\ (OneDefault(rows[e].older) => OneDefault(older))
      OBVIOUS
    <3>1. older \in [Older -> HubOlder]
      BY <1>9, HubRowsAre DEF HubOlder
    <3>2. ASSUME NEW d \in Older
          PROVE  older[d].default = IF d = c THEN yes ELSE rows[e].older[d].default /\ ~yes
      BY <1>9, HubRowsAre DEF HubOlder
    <3> HIDE DEF older
    <3> QED
      BY <3>1, <3>2 DEF OneDefault
  <2> HIDE DEF older
  <2>3. rows[e] \in HubRows
          => /\ new \in HubRows
             /\ new.older = older
             /\ new.integration = rows[e].integration /\ new.expires = rows[e].expires
    BY <2>2, HubRowsAre
  <2> HIDE DEF new
  <2> QED
    BY <2>1, <2>2, <2>3, HandleKeeps DEF GoodHubs
<1>10. ASSUME NEW c \in Older, NEW yes \in BOOLEAN, TestConnector(q, e, c, yes)
      PROVE  KeepsTo(q, e, HubRows, GoodHubs)
  <2> DEFINE older == [rows[e].older EXCEPT ![c].status =
                                    IF yes THEN "active" ELSE "error"]
             new == [rows[e] EXCEPT !.older = older]
  <2>1. Handle(q, e, new)
    BY <1>10 DEF TestConnector
  <2>2. rows[e] \in HubRows
          => older \in [Older -> HubOlder] /\ (OneDefault(rows[e].older) => OneDefault(older))
    BY <1>10, HubRowsAre DEF HubOlder, OneDefault
  <2> HIDE DEF older
  <2>3. rows[e] \in HubRows
          => /\ new \in HubRows
             /\ new.older = older
             /\ new.integration = rows[e].integration /\ new.expires = rows[e].expires
    BY <2>2, HubRowsAre
  <2> HIDE DEF new
  <2> QED
    BY <2>1, <2>2, <2>3, HandleKeeps DEF GoodHubs
<1>11. ASSUME StartOauth(q, e)
      PROVE  KeepsTo(q, e, HubRows, GoodHubs)
  <2> DEFINE oauth == [state |-> rows[e].oauth.started + 1,
                        started |-> rows[e].oauth.started + 1]
             integration == [rows[e].integration EXCEPT !.status = IF @ = "none" THEN "off" ELSE @]
             new == [rows[e] EXCEPT !.oauth = oauth, !.integration = integration]
  <2>1. Handle(q, e, new)
    BY <1>11 DEF StartOauth
  <2>2. rows[e] \in HubRows => oauth \in HubOauth
    BY <1>11, HubRowsAre, BoundsAssumption DEF HubOauth, StartOauth
  <2>3. rows[e] \in HubRows => integration \in HubIntegration
    BY <1>11, HubRowsAre, BoundsAssumption DEF HubIntegration
  <2>4. rows[e] \in HubRows
          => /\ integration.health = rows[e].integration.health
             /\ integration.failures = rows[e].integration.failures
    BY HubRowsAre DEF HubIntegration
  <2> HIDE DEF oauth, integration
  <2>5. rows[e] \in HubRows
          => /\ new \in HubRows
             /\ new.integration = integration
             /\ new.expires = rows[e].expires /\ new.older = rows[e].older
    BY <2>2, <2>3, HubRowsAre
  <2> HIDE DEF new
  <2> QED
    BY <2>1, <2>4, <2>5, HandleKeeps DEF GoodHubs, HealthCounted
<1>12. ASSUME TestConnection(q, e)
      PROVE  KeepsTo(q, e, HubRows, GoodHubs)
  <2> DEFINE i == rows[e].integration
  <2>1. CASE rows[e].integration.credentials # "none"
    <3> DEFINE j == [i EXCEPT !.health = "healthy", !.failures = 0]
    <3>1. Handle(q, e, [rows[e] EXCEPT !.integration = j])
      BY <1>12, <2>1 DEF TestConnection
    <3>2. rows[e] \in HubRows => j \in HubIntegration
      <4>1. rows[e] \in HubRows => i \in HubIntegration
        BY HubRowsAre
      <4>2. 0 \in ErrorCounts
        BY BoundsAssumption DEF ErrorCounts
      <4> HIDE DEF i
      <4> QED
        BY <4>1, <4>2 DEF HubIntegration
    <3>3. rows[e] \in HubRows => j.health = "healthy" /\ j.failures = 0
      BY HubRowsAre DEF HubIntegration
    <3> HIDE DEF j
    <3> DEFINE new == [rows[e] EXCEPT !.integration = j]
    <3>4. rows[e] \in HubRows
            => /\ new \in HubRows
               /\ new.integration = j
               /\ new.expires = rows[e].expires /\ new.older = rows[e].older
      BY <3>2, HubRowsAre
    <3>5. Handle(q, e, new)
      BY <3>1
    <3> HIDE DEF new
    <3> QED
      BY <3>3, <3>4, <3>5, HandleKeeps DEF GoodHubs, HealthCounted
  <2>2. CASE rows[e].integration.credentials = "none"
    <3> DEFINE j == [i EXCEPT !.health = "down", !.failures = @ + 1]
    <3>1. i.failures < MaxErrors /\ Handle(q, e, [rows[e] EXCEPT !.integration = j])
      BY <1>12, <2>2 DEF TestConnection
    <3>2. rows[e] \in HubRows => j \in HubIntegration
      <4>1. rows[e] \in HubRows => i \in HubIntegration
        BY HubRowsAre
      <4>2. rows[e] \in HubRows => i.failures + 1 \in ErrorCounts
        BY <3>1, <4>1, BoundsAssumption DEF HubIntegration, ErrorCounts
      <4> HIDE DEF i
      <4> QED
        BY <4>1, <4>2 DEF HubIntegration
    <3>3. rows[e] \in HubRows => j.health = "down" /\ j.failures > 0
      <4>1. rows[e] \in HubRows => i \in HubIntegration
        BY HubRowsAre
      <4> HIDE DEF i
      <4> QED
        BY <4>1, BoundsAssumption DEF HubIntegration, ErrorCounts
    <3> HIDE DEF j
    <3> DEFINE new == [rows[e] EXCEPT !.integration = j]
    <3>4. rows[e] \in HubRows
            => /\ new \in HubRows
               /\ new.integration = j
               /\ new.expires = rows[e].expires /\ new.older = rows[e].older
      BY <3>2, HubRowsAre
    <3>5. Handle(q, e, new)
      BY <3>1
    <3> HIDE DEF new
    <3> QED
      BY <3>3, <3>4, <3>5, HandleKeeps DEF GoodHubs, HealthCounted
  <2> QED
    BY <2>1, <2>2
<1> QED
  BY <1>1, <1>2, <1>3, <1>4, <1>5, <1>6, <1>7, <1>8, <1>9, <1>10, <1>11, <1>12
  DEF HubRequest

LEMMA HubByColumn == ByColumn(HubRows)
<1> SUFFICES ASSUME NEW now \in HubRows, NEW seen \in HubRows, NEW new \in HubRows
             PROVE  Written(now, seen, new) \in HubRows
  BY DEF ByColumn
<1> DEFINE w == Written(now, seen, new)
<1>1. w.integration \in HubIntegration
  BY HubRowsAre DEF Written, HubIntegration
<1>2. w.expires \in [Kinds -> Expiries]
  BY HubRowsAre DEF Written
<1>3. w.oauth \in HubOauth
  BY HubRowsAre DEF Written, HubOauth
<1>4. w.connected \in [1 .. MaxStarts -> Nat]
  BY HubRowsAre DEF Written
<1>5. w.older \in [Older -> HubOlder]
  BY HubRowsAre DEF Written
<1>6. w.notices \in HubNotices
  BY HubRowsAre DEF Written, HubNotices
<1>7. w.calendar \in [open : 0 .. 3]
  BY HubRowsAre DEF Written
<1>8. w \in HubRows
  BY <1>1, <1>2, <1>3, <1>4, <1>5, <1>6, <1>7, HubRowsAre DEF Written
<1> QED
  BY <1>8

-----------------------------------------------------------------------------
HookState == [status : {"none", "active", "disabled", "failed", "deleted"}, failures : 0 .. Full]

LEMMA HookRowsAre ==
    HookRows = [hook : HookState, deliveries : [log : 0 .. Full]]
BY DEF HookRows, HookState

(* A webhook counts what the log of its deliveries says.                      *)
GoodHooks == {r \in HookRows : r.hook.failures = r.deliveries.log}

LEMMA HookKeeps ==
    ASSUME NEW q, NEW e, HookRequest(q, e)
    PROVE  KeepsTo(q, e, HookRows, GoodHooks)
<1>1. ASSUME CreateWebhook(q, e)
      PROVE  KeepsTo(q, e, HookRows, GoodHooks)
  BY <1>1, HandleKeeps DEF CreateWebhook, HookRows, GoodHooks, Full, FailureLimit
<1>2. ASSUME DeleteWebhook(q, e)
      PROVE  KeepsTo(q, e, HookRows, GoodHooks)
  BY <1>2, HandleKeeps DEF DeleteWebhook, HookRows, GoodHooks, Full, FailureLimit
<1>3. ASSUME NEW status \in {"active", "disabled", "failed"}, UpdateWebhook(q, e, status)
      PROVE  KeepsTo(q, e, HookRows, GoodHooks)
  BY <1>3, HandleKeeps DEF UpdateWebhook, HookRows, GoodHooks, Full, FailureLimit
<1>4. ASSUME NEW ok \in BOOLEAN, FireWebhook(q, e, ok)
      PROVE  KeepsTo(q, e, HookRows, GoodHooks)
  <2> DEFINE hook == IF ok THEN [rows[e].hook EXCEPT !.failures = 0]
                     ELSE [rows[e].hook EXCEPT !.failures = More(@),
                              !.status = IF rows[e].hook.failures + 1 >= FailureLimit
                                         THEN "failed" ELSE @]
             log == IF ok THEN 0 ELSE More(rows[e].deliveries.log)
             new == [rows[e] EXCEPT !.hook = hook, !.deliveries.log = log]
  <2>1. Handle(q, e, new)
    <3>1. CASE ok
      BY <1>4, <3>1 DEF FireWebhook
    <3>2. CASE ~ok
      BY <1>4, <3>2 DEF FireWebhook
    <3> QED
      BY <3>1, <3>2
  <2>2. \A n \in 0 .. Full : More(n) \in 0 .. Full
    BY DEF More, Full, FailureLimit
  <2>3. Full \in Nat
    BY DEF Full, FailureLimit
  <2>4. rows[e] \in HookRows => log \in 0 .. Full
    BY <2>2, <2>3, HookRowsAre
  <2>5. rows[e] \in HookRows => hook \in HookState
    <3> HIDE DEF Full
    <3>1. CASE ok
      BY <2>3, <3>1, HookRowsAre DEF HookState
    <3>2. CASE ~ok
      <4> DEFINE m == More(rows[e].hook.failures)
                 st == IF rows[e].hook.failures + 1 >= FailureLimit
                       THEN "failed" ELSE rows[e].hook.status
      <4>1. rows[e] \in HookRows
              => m \in 0 .. Full /\ st \in {"none", "active", "disabled", "failed", "deleted"}
        BY <2>2, HookRowsAre DEF HookState
      <4>2. rows[e] \in HookRows
              => hook = [rows[e].hook EXCEPT !.failures = m, !.status = st]
        BY <3>2, HookRowsAre DEF HookState
      <4> HIDE DEF m, st, hook
      <4> QED
        BY <4>1, <4>2, HookRowsAre DEF HookState
    <3> QED
      BY <3>1, <3>2
  <2>6. rows[e] \in GoodHooks => hook.failures = log
    BY HookRowsAre DEF GoodHooks, HookState
  <2> HIDE DEF hook, log
  <2>7. rows[e] \in HookRows => new \in HookRows /\ new.hook = hook /\ new.deliveries.log = log
    BY <2>4, <2>5, HookRowsAre
  <2> HIDE DEF new
  <2>8. rows[e] \in GoodHooks => new \in GoodHooks
    BY <2>6, <2>7 DEF GoodHooks
  <2> QED
    BY <1>4, <2>1, <2>7, <2>8, HandleKeeps
<1> QED
  BY <1>1, <1>2, <1>3, <1>4
  DEF HookRequest

LEMMA HookByColumn == ByColumn(HookRows)
BY DEF ByColumn, Written, HookRows

-----------------------------------------------------------------------------
(* An order that was accepted at a price has its one usage record.            *)
GoodChecks ==
    {r \in CheckRows :
        /\ r.usage.records <= 1
        /\ r.usage.records = 1 => r.order.status = "completed" /\ r.usage.cost > 0
        /\ r.order.linked <=> r.usage.records = 1}

LEMMA CheckKeeps ==
    ASSUME NEW q, NEW e, CheckRequest(q, e)
    PROVE  KeepsTo(q, e, CheckRows, GoodChecks)
<1>1. ASSUME CreateOrder(q, e)
      PROVE  KeepsTo(q, e, CheckRows, GoodChecks)
  BY <1>1, HandleKeeps DEF CreateOrder, CheckRows, GoodChecks
<1>2. ASSUME NEW cost \in {0, 1}, NEW active \in BOOLEAN, UpdateProvider(q, e, cost, active)
      PROVE  KeepsTo(q, e, CheckRows, GoodChecks)
  BY <1>2, HandleKeeps DEF UpdateProvider, CheckRows, GoodChecks
<1>3. ASSUME NEW accepted \in BOOLEAN, CompleteOrder(q, e, accepted)
      PROVE  KeepsTo(q, e, CheckRows, GoodChecks)
  <2> DEFINE done == [rows[e] EXCEPT !.order.status =
                          IF accepted THEN "completed" ELSE "rejected"]
             billed == [done EXCEPT !.order.linked = TRUE,
                           !.usage = [records |-> @.records + 1, cost |-> rows[e].provider.cost]]
             usage == [records |-> done.usage.records + 1, cost |-> rows[e].provider.cost]
  <2>1. \/ Handle(q, e, done)
        \/ Handle(q, e, billed) /\ accepted /\ rows[e].provider.cost > 0
    BY <1>3 DEF CompleteOrder
  <2> rows[e].order.status \notin {"none", "completed", "rejected"}
    BY <1>3 DEF CompleteOrder
  <2>2. rows[e] \in CheckRows => done \in CheckRows
    BY DEF CheckRows
  <2>3. rows[e] \in CheckRows
          => usage \in [records : Nat, cost : {0, 1}]
    <3> HIDE DEF done
    <3> QED
      BY <2>2 DEF CheckRows
  <2>4. billed = [done EXCEPT !.order.linked = TRUE, !.usage = usage]
    OBVIOUS
  <2>5. rows[e] \in CheckRows => billed \in CheckRows
    <3> HIDE DEF done, usage, billed
    <3> QED
      BY <2>2, <2>3, <2>4 DEF CheckRows
  <2>6. rows[e] \in GoodChecks => rows[e].usage.records = 0 /\ ~rows[e].order.linked
    BY DEF GoodChecks, CheckRows
  <2>7. rows[e] \in GoodChecks => done \in GoodChecks
    BY <2>2, <2>6 DEF GoodChecks, CheckRows
  <2>8. ASSUME rows[e] \in GoodChecks, accepted, rows[e].provider.cost > 0
        PROVE  billed \in GoodChecks
    <3>1. rows[e] \in CheckRows /\ billed \in CheckRows
      BY <2>5, <2>8 DEF GoodChecks
    <3>2. /\ billed.order.linked /\ billed.order.status = "completed"
          /\ billed.usage = [records |-> 1, cost |-> rows[e].provider.cost]
      <4>1. /\ done.usage.records = 0
            /\ done.order.status = "completed"
        BY <2>6, <2>8, <3>1 DEF CheckRows
      <4>2. usage = [records |-> 1, cost |-> rows[e].provider.cost]
        BY <4>1
      <4>3. done \in CheckRows
        BY <2>2, <3>1
      <4> HIDE DEF done, usage, billed
      <4> QED
        BY <2>4, <4>1, <4>2, <4>3 DEF CheckRows
    <3> HIDE DEF billed
    <3> QED
      BY <2>8, <3>1, <3>2 DEF GoodChecks, CheckRows
  <2> HIDE DEF done, billed
  <2> QED
    BY <2>1, <2>2, <2>5, <2>7, <2>8, HandleKeeps
<1> QED
  BY <1>1, <1>2, <1>3
  DEF CheckRequest

LEMMA CheckByColumn == ByColumn(CheckRows)
BY DEF ByColumn, Written, CheckRows

-----------------------------------------------------------------------------
OneLink(links) ==
    \A x \in Purposes : \A m, n \in Numbers :
        links[x][m] = "unused" /\ links[x][n] = "unused" => m = n
HadLink(user, links) ==
    /\ user.verified => \E n \in Numbers : links["verify"][n] = "spent"
    /\ user.status = "none" => ~user.verified /\ \A n \in Numbers : links["verify"][n] = "none"
Proven(mfa) == mfa.on => mfa.secret # 0 /\ mfa.proved # 0
ListedLong(session) ==
    \A n \in Numbers : session[n].out => session[n].left <= session[n].listed

(* One link of a purpose can be followed, a verified address had its link     *)
(* followed, a second factor has a secret that a code was checked against,    *)
(* and the list keeps a session that was ended for as long as it would live.  *)
GoodUsers ==
    {r \in UserRows :
        /\ OneLink(r.links) /\ HadLink(r.user, r.links)
        /\ Proven(r.mfa) /\ ListedLong(r.session)}

LinkStates == {"none", "unused", "late", "spent", "void"}
LinkBook == [Purposes -> [Numbers -> LinkStates]]
SessionRow ==
    [kind : {"none", "open", "code"}, left : 0 .. 2, listed : 0 .. 2, out : BOOLEAN]
AccountStatus == [status : {"none", "active", "suspended", "inactive"}, verified : BOOLEAN]

LEMMA UserRowsAre ==
    UserRows = [user : AccountStatus, mfa : [secret : 0 .. 2, proved : 0 .. 2, on : BOOLEAN],
                links : LinkBook, session : [Numbers -> SessionRow]]
BY DEF UserRows, LinkBook, LinkStates, SessionRow, AccountStatus, Life

(* One session is another one, and nothing else.                              *)
LEMMA SessionKeeps ==
    ASSUME NEW r \in UserRows, NEW n \in Numbers, NEW s \in SessionRow,
           s.out => s.left <= s.listed,
           NEW new, new = [r EXCEPT !.session[n] = s]
    PROVE  /\ new \in UserRows
           /\ new.user = r.user /\ new.mfa = r.mfa /\ new.links = r.links
           /\ r \in GoodUsers => new \in GoodUsers
<1>1. /\ new \in UserRows
      /\ new.user = r.user /\ new.mfa = r.mfa /\ new.links = r.links
      /\ new.session = [r.session EXCEPT ![n] = s]
  BY UserRowsAre
<1>2. ListedLong(r.session) => ListedLong([r.session EXCEPT ![n] = s])
  BY UserRowsAre DEF ListedLong
<1> QED
  BY <1>1, <1>2 DEF GoodUsers

LEMMA WithSessionKeeps ==
    ASSUME NEW r \in UserRows, NEW n \in Numbers, NEW kind \in {"open", "code"}
    PROVE  /\ WithSession(r, n, kind) \in UserRows
           /\ WithSession(r, n, kind).user = r.user
           /\ WithSession(r, n, kind).links = r.links
           /\ r \in GoodUsers => WithSession(r, n, kind) \in GoodUsers
<1> DEFINE s == [kind |-> kind, left |-> IF kind = "open" THEN Life ELSE 1,
                 listed |-> 0, out |-> FALSE]
<1>1. s \in SessionRow /\ ~s.out
  BY DEF SessionRow, Life
<1>2. WithSession(r, n, kind) = [r EXCEPT !.session[n] = s]
  BY DEF WithSession
<1> HIDE DEF s
<1> QED
  BY <1>1, <1>2, SessionKeeps

(* The links of one purpose are others, of which one at most can be followed. *)
LEMMA LinksKeep ==
    ASSUME NEW r \in UserRows, NEW x \in Purposes, NEW f \in [Numbers -> LinkStates],
           \A m, n \in Numbers : f[m] = "unused" /\ f[n] = "unused" => m = n,
           r.user.verified /\ x = "verify" => \E n \in Numbers : f[n] = "spent",
           x = "verify" => r.user.status # "none",
           NEW new, new = [r EXCEPT !.links[x] = f]
    PROVE  /\ new \in UserRows
           /\ new.user = r.user /\ new.links[x] = f
           /\ r \in GoodUsers => new \in GoodUsers
<1>1. /\ new \in UserRows
      /\ new.user = r.user /\ new.mfa = r.mfa /\ new.session = r.session
      /\ \A y \in Purposes : new.links[y] = IF y = x THEN f ELSE r.links[y]
  BY UserRowsAre DEF LinkBook
<1>2. OneLink(r.links) => OneLink(new.links)
  <2> HIDE DEF UserRows
  <2> QED
    BY <1>1 DEF OneLink
<1>3. HadLink(r.user, r.links) => HadLink(r.user, new.links)
  BY <1>1 DEF HadLink, Purposes
<1> QED
  BY <1>1, <1>2, <1>3 DEF GoodUsers

LEMMA WithLinkKeeps ==
    ASSUME NEW r \in UserRows, NEW x \in Purposes, NEW n \in Numbers,
           r.links[x][n] # "spent" \/ ~r.user.verified,
           x = "verify" => r.user.status # "none"
    PROVE  /\ WithLink(r, x, n) \in UserRows
           /\ r \in GoodUsers => WithLink(r, x, n) \in GoodUsers
<1> DEFINE f == [m \in Numbers |-> IF m = n THEN "unused"
                                   ELSE IF r.links[x][m] \in {"unused", "late"} THEN "void"
                                        ELSE r.links[x][m]]
<1>1. r.links[x] \in [Numbers -> LinkStates]
  BY UserRowsAre DEF LinkBook
<1>2. /\ f \in [Numbers -> LinkStates]
      /\ \A k, m \in Numbers : f[k] = "unused" /\ f[m] = "unused" => k = m
      /\ \A m \in Numbers : m # n /\ r.links[x][m] = "spent" => f[m] = "spent"
  BY <1>1 DEF LinkStates
<1>3. WithLink(r, x, n) = [r EXCEPT !.links[x] = f]
  BY DEF WithLink
<1> HIDE DEF f
<1>4. r \in GoodUsers /\ r.user.verified /\ x = "verify" => \E m \in Numbers : f[m] = "spent"
  BY <1>2 DEF GoodUsers, HadLink
<1>5. WithLink(r, x, n) \in UserRows
  <2> DEFINE links == [r.links EXCEPT ![x] = f]
  <2>1. links \in LinkBook
    BY <1>2, UserRowsAre DEF LinkBook
  <2>2. WithLink(r, x, n) = [r EXCEPT !.links = links]
    BY <1>3
  <2> HIDE DEF links
  <2> QED
    BY <2>1, <2>2, UserRowsAre
<1> QED
  BY <1>2, <1>3, <1>4, <1>5, LinksKeep

SpentWell(r, x, n) ==
    /\ Spent(r, x, n) \in UserRows
    /\ Spent(r, x, n).user = r.user /\ Spent(r, x, n).links[x][n] = "spent"
    /\ r \in GoodUsers
          => /\ Spent(r, x, n) \in GoodUsers
             /\ x = "verify" => r.user.status # "none"

LEMMA SpentKeeps ==
    ASSUME NEW r \in UserRows, NEW x \in Purposes, NEW n \in Numbers, r.links[x][n] = "unused"
    PROVE  SpentWell(r, x, n)
<1> DEFINE f == [r.links[x] EXCEPT ![n] = "spent"]
<1>1. r.links[x] \in [Numbers -> LinkStates]
  BY UserRowsAre DEF LinkBook
<1>2. /\ f \in [Numbers -> LinkStates] /\ f[n] = "spent"
      /\ \A m \in Numbers : m # n => f[m] = r.links[x][m]
  BY <1>1 DEF LinkStates
<1>3. Spent(r, x, n) = [r EXCEPT !.links[x] = f]
  BY UserRowsAre DEF Spent, LinkBook
<1> HIDE DEF f
<1>4. r \in GoodUsers
        => \A k, m \in Numbers : f[k] = "unused" /\ f[m] = "unused" => k = m
  BY <1>2 DEF GoodUsers, OneLink
<1>5. /\ Spent(r, x, n) \in UserRows
      /\ Spent(r, x, n).user = r.user /\ Spent(r, x, n).links[x] = f
  BY ZenonT(40), <1>2, <1>3, UserRowsAre DEF LinkBook
<1>6. r \in GoodUsers /\ x = "verify" => r.user.status # "none"
  BY DEF GoodUsers, HadLink
<1>7. r \in GoodUsers /\ r.user.verified /\ x = "verify" => \E m \in Numbers : f[m] = "spent"
  BY <1>2
<1> QED
  BY <1>2, <1>3, <1>4, <1>5, <1>6, <1>7, LinksKeep DEF SpentWell

(* The account is changed, and is not verified unless it was or has its link. *)
LEMMA StatusKeeps ==
    ASSUME NEW r \in UserRows, NEW a \in AccountStatus, NEW new, new = [r EXCEPT !.user = a],
           a.verified => \/ r.user.verified
                         \/ \E n \in Numbers : r.links["verify"][n] = "spent",
           a.status # "none"
    PROVE  /\ new \in UserRows
           /\ new.user = a /\ new.links = r.links
           /\ r \in GoodUsers => new \in GoodUsers
<1>1. /\ new \in UserRows /\ new.user = a
      /\ new.links = r.links /\ new.mfa = r.mfa /\ new.session = r.session
  BY UserRowsAre
<1>2. HadLink(r.user, r.links) => HadLink(a, r.links)
  BY DEF HadLink
<1> QED
  BY <1>1, <1>2 DEF GoodUsers

LEMMA FactorKeeps ==
    ASSUME NEW r \in UserRows, NEW m \in [secret : 0 .. 2, proved : 0 .. 2, on : BOOLEAN],
           NEW new, new = [r EXCEPT !.mfa = m],
           r \in GoodUsers /\ m.on => m.secret # 0 /\ m.proved # 0
    PROVE  /\ new \in UserRows
           /\ r \in GoodUsers => new \in GoodUsers
<1>1. /\ new \in UserRows /\ new.mfa = m
      /\ new.links = r.links /\ new.user = r.user /\ new.session = r.session
  BY UserRowsAre
<1> QED
  BY <1>1 DEF GoodUsers, Proven

LEMMA UserKeeps ==
    ASSUME NEW q, NEW e, UserRequest(q, e)
    PROVE  KeepsTo(q, e, UserRows, GoodUsers)
<1>1. ASSUME Register(q, e)
      PROVE  KeepsTo(q, e, UserRows, GoodUsers)
  <2> DEFINE active == [rows[e] EXCEPT !.user.status = "active"]
             open == WithSession(active, 1, "open")
             new == WithLink(open, "verify", 1)
  <2>1. Handle(q, e, new) /\ rows[e].user.status = "none"
    BY <1>1 DEF Register
  <2>2. 1 \in Numbers /\ "verify" \in Purposes
    BY SessionsAssumption DEF Numbers, Purposes
  <2>3. rows[e] \in GoodUsers => /\ active \in GoodUsers /\ ~active.user.verified
                                  /\ active.user.status # "none"
    <3> DEFINE a == [rows[e].user EXCEPT !.status = "active"]
    <3>1. rows[e] \in UserRows
            => /\ a \in AccountStatus /\ a.verified = rows[e].user.verified
               /\ a.status = "active" /\ active = [rows[e] EXCEPT !.user = a]
      BY UserRowsAre DEF AccountStatus
    <3> HIDE DEF a, active
    <3> QED
      BY <2>1, <3>1, StatusKeeps DEF GoodUsers, HadLink
  <2>4. rows[e] \in UserRows => active \in UserRows
    BY UserRowsAre DEF AccountStatus
  <2> HIDE DEF active
  <2>5. /\ active \in UserRows => open \in UserRows /\ open.user = active.user
        /\ active \in GoodUsers => open \in GoodUsers
    BY <2>2, WithSessionKeeps DEF GoodUsers
  <2> HIDE DEF open
  <2>6. ASSUME open \in UserRows PROVE new \in UserRows
    <3> DEFINE f == [m \in Numbers |-> IF m = 1 THEN "unused"
                        ELSE IF open.links["verify"][m] \in {"unused", "late"} THEN "void"
                             ELSE open.links["verify"][m]]
    <3>1. open.links["verify"] \in [Numbers -> LinkStates]
      BY <2>2, <2>6, UserRowsAre DEF LinkBook
    <3>2. f \in [Numbers -> LinkStates]
      BY <3>1 DEF LinkStates
    <3>3. new = [open EXCEPT !.links["verify"] = f]
      BY DEF WithLink
    <3> HIDE DEF f, new
    <3> QED
      BY <2>6, <3>2, <3>3, UserRowsAre DEF LinkBook
  <2>7. rows[e] \in GoodUsers => new \in GoodUsers
    <3>1. rows[e] \in GoodUsers
            => open \in UserRows /\ open \in GoodUsers /\ ~open.user.verified /\ open.user.status # "none"
      BY <2>3, <2>5 DEF GoodUsers
    <3> HIDE DEF new
    <3> QED
      BY <2>2, <3>1, WithLinkKeeps DEF new
  <2> QED
    BY <2>1, <2>4, <2>5, <2>6, <2>7, HandleKeeps
<1>2. ASSUME CreateUserAdmin(q, e)
      PROVE  KeepsTo(q, e, UserRows, GoodUsers)
  <2> DEFINE a == [rows[e].user EXCEPT !.status = "active"]
             new == [rows[e] EXCEPT !.user.status = "active"]
  <2>1. Handle(q, e, new)
    BY <1>2 DEF CreateUserAdmin
  <2>2. rows[e] \in UserRows
          => /\ a \in AccountStatus /\ a.verified = rows[e].user.verified
             /\ a.status # "none" /\ new = [rows[e] EXCEPT !.user = a]
    BY UserRowsAre DEF AccountStatus
  <2> HIDE DEF a, new
  <2>3. rows[e] \in UserRows => new \in UserRows
    BY <2>2, StatusKeeps
  <2>4. rows[e] \in GoodUsers => new \in GoodUsers
    BY <2>2, StatusKeeps DEF GoodUsers
  <2> QED
    BY <2>1, <2>3, <2>4, HandleKeeps
<1>3. ASSUME NEW status \in {"active", "suspended", "inactive"},
            UpdateUserAdmin(q, e, status)
      PROVE  KeepsTo(q, e, UserRows, GoodUsers)
  <2> DEFINE a == [rows[e].user EXCEPT !.status = status]
             new == [rows[e] EXCEPT !.user.status = status]
  <2>1. Handle(q, e, new)
    BY <1>3 DEF UpdateUserAdmin
  <2>2. rows[e] \in UserRows
          => /\ a \in AccountStatus /\ a.verified = rows[e].user.verified
             /\ a.status # "none" /\ new = [rows[e] EXCEPT !.user = a]
    BY UserRowsAre DEF AccountStatus
  <2> HIDE DEF a, new
  <2>3. rows[e] \in UserRows => new \in UserRows
    BY <2>2, StatusKeeps
  <2>4. rows[e] \in GoodUsers => new \in GoodUsers
    BY <2>2, StatusKeeps DEF GoodUsers
  <2> QED
    BY <2>1, <2>3, <2>4, HandleKeeps
<1>4. ASSUME NEW n \in Numbers, NEW kind \in {"open", "code"},
            Handle(q, e, WithSession(rows[e], n, kind))
      PROVE  KeepsTo(q, e, UserRows, GoodUsers)
  BY <1>4, WithSessionKeeps, HandleKeeps DEF GoodUsers
<1>5. ASSUME NEW n \in Numbers, Logout(q, e, n)
      PROVE  KeepsTo(q, e, UserRows, GoodUsers)
  <2> DEFINE s == [rows[e].session[n] EXCEPT !.listed = Life, !.out = TRUE]
             new == [rows[e] EXCEPT !.session[n].listed = Life, !.session[n].out = TRUE]
  <2>1. Handle(q, e, new)
    BY <1>5 DEF Logout
  <2>2. rows[e] \in UserRows => s \in SessionRow /\ s.left <= s.listed
    <3>1. rows[e] \in UserRows => rows[e].session[n] \in SessionRow
      BY UserRowsAre
    <3>2. ASSUME NEW x \in SessionRow
          PROVE  LET y == [x EXCEPT !.listed = 2, !.out = TRUE]
                 IN  y \in SessionRow /\ y.left <= y.listed
      <4> DEFINE z == [x EXCEPT !.listed = 2]
                 y == [z EXCEPT !.out = TRUE]
      <4>3. z \in SessionRow /\ z.left = x.left /\ z.listed = 2 /\ x.left \in 0 .. 2
        BY DEF SessionRow
      <4>1. y \in SessionRow /\ y.left = x.left /\ y.listed = 2 /\ x.left \in 0 .. 2
        <5> HIDE DEF z
        <5> QED
          BY <4>3 DEF SessionRow
      <4> HIDE DEF y
      <4>2. y \in SessionRow /\ y.left <= y.listed
        BY <4>1
      <4> QED
        BY <4>2 DEF y
    <3> QED
      BY <3>1, <3>2 DEF Life
  <2>3. rows[e] \in UserRows => new = [rows[e] EXCEPT !.session[n] = s]
    BY UserRowsAre
  <2> HIDE DEF s, new
  <2> QED
    BY <2>1, <2>2, <2>3, SessionKeeps, HandleKeeps DEF GoodUsers
<1>6. ASSUME MfaEnrol(q, e)
      PROVE  KeepsTo(q, e, UserRows, GoodUsers)
  <2> DEFINE m == [rows[e].mfa EXCEPT !.secret = @ + 1]
             new == [rows[e] EXCEPT !.mfa.secret = @ + 1]
  <2>1. Handle(q, e, new) /\ rows[e].mfa.secret < 2
    BY <1>6 DEF MfaEnrol
  <2>2. rows[e] \in UserRows
          => /\ m \in [secret : 0 .. 2, proved : 0 .. 2, on : BOOLEAN]
             /\ new = [rows[e] EXCEPT !.mfa = m]
    BY <2>1, UserRowsAre
  <2>3. rows[e] \in GoodUsers /\ m.on => m.secret # 0 /\ m.proved # 0
    <3>1. rows[e] \in GoodUsers
            => /\ rows[e].mfa \in [secret : 0 .. 2, proved : 0 .. 2, on : BOOLEAN]
               /\ rows[e].mfa.on => rows[e].mfa.secret # 0 /\ rows[e].mfa.proved # 0
      BY UserRowsAre DEF GoodUsers, Proven
    <3> QED
      BY <2>1, <3>1
  <2> HIDE DEF m, new
  <2> QED
    BY <2>1, <2>2, <2>3, FactorKeeps, HandleKeeps DEF GoodUsers
<1>7. ASSUME MfaVerifyEnrolment(q, e)
      PROVE  KeepsTo(q, e, UserRows, GoodUsers)
  <2> DEFINE m == [rows[e].mfa EXCEPT !.on = TRUE, !.proved = rows[e].mfa.secret]
             new == [rows[e] EXCEPT !.mfa.on = TRUE, !.mfa.proved = rows[e].mfa.secret]
  <2>1. Handle(q, e, new) /\ rows[e].mfa.secret # 0
    BY <1>7 DEF MfaVerifyEnrolment
  <2>2. rows[e] \in UserRows
          => /\ m \in [secret : 0 .. 2, proved : 0 .. 2, on : BOOLEAN]
             /\ new = [rows[e] EXCEPT !.mfa = m]
    BY <2>1, UserRowsAre
  <2>3. rows[e] \in GoodUsers /\ m.on => m.secret # 0 /\ m.proved # 0
    <3>1. rows[e] \in GoodUsers
            => /\ rows[e].mfa \in [secret : 0 .. 2, proved : 0 .. 2, on : BOOLEAN]
               /\ rows[e].mfa.on => rows[e].mfa.secret # 0 /\ rows[e].mfa.proved # 0
      BY UserRowsAre DEF GoodUsers, Proven
    <3> QED
      BY <2>1, <3>1
  <2> HIDE DEF m, new
  <2> QED
    BY <2>1, <2>2, <2>3, FactorKeeps, HandleKeeps DEF GoodUsers
<1>8. ASSUME MfaDisable(q, e)
      PROVE  KeepsTo(q, e, UserRows, GoodUsers)
  <2> DEFINE m == NewUser.mfa
             new == [rows[e] EXCEPT !.mfa = NewUser.mfa]
  <2>1. Handle(q, e, new)
    BY <1>8 DEF MfaDisable
  <2>2. rows[e] \in UserRows
          => /\ m \in [secret : 0 .. 2, proved : 0 .. 2, on : BOOLEAN]
             /\ new = [rows[e] EXCEPT !.mfa = m]
    BY <2>1, UserRowsAre DEF NewUser
  <2>3. rows[e] \in GoodUsers /\ m.on => m.secret # 0 /\ m.proved # 0
    <3>1. rows[e] \in GoodUsers
            => /\ rows[e].mfa \in [secret : 0 .. 2, proved : 0 .. 2, on : BOOLEAN]
               /\ rows[e].mfa.on => rows[e].mfa.secret # 0 /\ rows[e].mfa.proved # 0
      BY UserRowsAre DEF GoodUsers, Proven
    <3> QED
      BY <2>1, <3>1 DEF NewUser
  <2> HIDE DEF m, new
  <2> QED
    BY <2>1, <2>2, <2>3, FactorKeeps, HandleKeeps DEF GoodUsers
<1>9. ASSUME NEW x \in Purposes, RequestLink(q, e, x)
      PROVE  KeepsTo(q, e, UserRows, GoodUsers)
  <2>1. PICK n \in FirstOf(rows[e].links[x], "none") : Handle(q, e, WithLink(rows[e], x, n))
    BY <1>9 DEF RequestLink
  <2>2. /\ n \in Numbers /\ rows[e].links[x][n] = "none"
        /\ x = "verify" => rows[e].user.status # "none"
    BY <1>9 DEF FirstOf, RequestLink, MayRequest
  <2> QED
    BY <2>1, <2>2, WithLinkKeeps, HandleKeeps DEF GoodUsers
<1>10. ASSUME NEW n \in Numbers, VerifyMagicLink(q, e, n)
      PROVE  KeepsTo(q, e, UserRows, GoodUsers)
  <2> DEFINE r == Spent(rows[e], "magic", n)
  <2>1. /\ rows[e] \in UserRows => r \in UserRows
        /\ rows[e] \in GoodUsers => r \in GoodUsers
    <3>1. "magic" \in Purposes /\ rows[e].links["magic"][n] = "unused"
      BY <1>10 DEF Purposes, VerifyMagicLink
    <3>2. rows[e] \in GoodUsers => rows[e] \in UserRows
      BY DEF GoodUsers
    <3>3. ASSUME rows[e] \in UserRows
          PROVE  SpentWell(rows[e], "magic", n)
      BY <1>10, <3>1, <3>3, SpentKeeps
    <3> QED
      BY <3>2, <3>3 DEF SpentWell
  <2>2. CASE r.user.status = "active"
    <3>1. PICK m \in FreeSession(r) : Handle(q, e, WithSession(r, m, "open"))
      BY <1>10, <2>2 DEF VerifyMagicLink
    <3>2. m \in Numbers
      BY DEF FreeSession
    <3> HIDE DEF r
    <3> QED
      BY <2>1, <3>1, <3>2, WithSessionKeeps, HandleKeeps DEF GoodUsers
  <2>3. CASE r.user.status # "active"
    <3>1. Handle(q, e, r)
      BY <1>10, <2>3 DEF VerifyMagicLink
    <3> HIDE DEF r
    <3> QED
      BY <2>1, <3>1, HandleKeeps
  <2> QED
    BY <2>2, <2>3
<1>11. ASSUME NEW n \in Numbers, ConfirmEmailVerification(q, e, n)
      PROVE  KeepsTo(q, e, UserRows, GoodUsers)
  <2> DEFINE r == Spent(rows[e], "verify", n)
             a == [r.user EXCEPT !.verified = TRUE]
             new == [r EXCEPT !.user.verified = TRUE]
  <2>1. Handle(q, e, new) /\ rows[e].links["verify"][n] = "unused"
    BY <1>11 DEF ConfirmEmailVerification
  <2>2. "verify" \in Purposes
    BY DEF Purposes
  <2>3. /\ rows[e] \in UserRows
             => /\ r \in UserRows /\ r.user = rows[e].user
                /\ r.links["verify"][n] = "spent"
        /\ rows[e] \in GoodUsers => r \in GoodUsers /\ r.user.status # "none"
    <3>1. rows[e] \in GoodUsers => rows[e] \in UserRows
      BY DEF GoodUsers
    <3>3. ASSUME rows[e] \in UserRows
          PROVE  SpentWell(rows[e], "verify", n)
      BY <1>11, <2>1, <2>2, <3>3, SpentKeeps
    <3> QED
      BY <3>1, <3>3 DEF SpentWell
  <2> HIDE DEF r
  <2>4. r \in UserRows
          => /\ a \in AccountStatus /\ a.status = r.user.status /\ a.verified
             /\ new = [r EXCEPT !.user = a]
    BY UserRowsAre DEF AccountStatus
  <2>5. rows[e] \in UserRows => new \in UserRows
    <3> HIDE DEF a
    <3> QED
      BY <2>3, <2>4, UserRowsAre
  <2> HIDE DEF a, new
  <2>6. rows[e] \in GoodUsers => new \in GoodUsers
    BY <2>3, <2>4, StatusKeeps DEF GoodUsers
  <2> QED
    BY <2>1, <2>5, <2>6, HandleKeeps
<1>12. ASSUME NEW n \in Numbers, ConfirmPasswordReset(q, e, n)
      PROVE  KeepsTo(q, e, UserRows, GoodUsers)
  <2>1. /\ Handle(q, e, Spent(rows[e], "reset", n))
        /\ "reset" \in Purposes /\ rows[e].links["reset"][n] = "unused"
    BY <1>12 DEF ConfirmPasswordReset, Purposes
  <2>2. rows[e] \in GoodUsers => rows[e] \in UserRows
    BY DEF GoodUsers
  <2>3. ASSUME rows[e] \in UserRows
        PROVE  SpentWell(rows[e], "reset", n)
    BY <1>12, <2>1, <2>3, SpentKeeps
  <2> QED
    BY <2>1, <2>2, <2>3, HandleKeeps DEF SpentWell
<1>13. ASSUME Elapse(q, e)
      PROVE  KeepsTo(q, e, UserRows, GoodUsers)
  <2> DEFINE r == rows[e]
             sessions == [n \in Numbers |-> [r.session[n] EXCEPT !.left = Earlier(@),
                                                                  !.listed = Earlier(@)]]
             links == [x \in Purposes |-> [n \in Numbers |->
                          IF r.links[x][n] = "unused" THEN "late" ELSE r.links[x][n]]]
             new == [r EXCEPT !.session = sessions, !.links = links]
  <2>1. Handle(q, e, new)
    BY <1>13 DEF Elapse
  <2>2. ASSUME NEW s \in SessionRow
        PROVE  LET t == [s EXCEPT !.left = Earlier(@), !.listed = Earlier(@)]
               IN  /\ t \in SessionRow /\ t.out = s.out
                   /\ s.left <= s.listed => t.left <= t.listed
    <3> DEFINE t == [s EXCEPT !.left = Earlier(@), !.listed = Earlier(@)]
    <3>1. /\ \A k \in 0 .. 2 : Earlier(k) \in 0 .. 2
          /\ \A k, l \in 0 .. 2 : k <= l => Earlier(k) <= Earlier(l)
      BY DEF Earlier
    <3>2. /\ t.left = Earlier(s.left) /\ t.listed = Earlier(s.listed)
          /\ t.out = s.out /\ t \in SessionRow
      BY <3>1 DEF SessionRow
    <3>3. s.left \in 0 .. 2 /\ s.listed \in 0 .. 2
      BY DEF SessionRow
    <3> HIDE DEF t
    <3>4. /\ t \in SessionRow /\ t.out = s.out
          /\ s.left <= s.listed => t.left <= t.listed
      BY <3>1, <3>2, <3>3
    <3> QED
      BY <3>4 DEF t
  <2>3. r \in UserRows
          => /\ sessions \in [Numbers -> SessionRow]
             /\ \A n \in Numbers :
                  /\ sessions[n].out = r.session[n].out
                  /\ r.session[n].left <= r.session[n].listed
                       => sessions[n].left <= sessions[n].listed
    BY <2>2, UserRowsAre
  <2>4. r \in UserRows
          => /\ links \in LinkBook
             /\ \A x \in Purposes, n \in Numbers :
                  /\ links[x][n] # "unused"
                  /\ r.links[x][n] \in {"none", "spent"} => links[x][n] = r.links[x][n]
    BY UserRowsAre DEF LinkBook, LinkStates
  <2> HIDE DEF sessions, links
  <2>5. r \in UserRows
          => /\ new \in UserRows
             /\ new.session = sessions /\ new.links = links
             /\ new.user = r.user /\ new.mfa = r.mfa
    BY <2>3, <2>4, UserRowsAre
  <2>6. r \in GoodUsers => new \in GoodUsers
    <3> HIDE DEF new, r
    <3>1. r \in GoodUsers => OneLink(links)
      BY <2>4 DEF GoodUsers, OneLink
    <3>2. r \in GoodUsers => HadLink(r.user, links)
      BY <2>4 DEF GoodUsers, HadLink, Purposes
    <3>3. r \in GoodUsers => ListedLong(sessions)
      BY <2>3 DEF GoodUsers, ListedLong
    <3> QED
      BY <2>5, <3>1, <3>2, <3>3 DEF GoodUsers
  <2> QED
    BY <2>1, <2>5, <2>6, HandleKeeps
<1> QED
  BY <1>1, <1>2, <1>3, <1>4, <1>5, <1>6, <1>7, <1>8, <1>9, <1>10, <1>11, <1>12, <1>13
  DEF UserRequest, Login, MfaChallenge, FreeSession

LEMMA UserByColumn == ByColumn(UserRows)
<1> SUFFICES ASSUME NEW now \in UserRows, NEW seen \in UserRows, NEW new \in UserRows
             PROVE  Written(now, seen, new) \in UserRows
  BY DEF ByColumn
<1> DEFINE w == Written(now, seen, new)
<1>1. w.user \in AccountStatus
  BY UserRowsAre DEF Written, AccountStatus
<1>2. w.mfa \in [secret : 0 .. 2, proved : 0 .. 2, on : BOOLEAN]
  BY UserRowsAre DEF Written
<1>3. w.links \in LinkBook
  BY UserRowsAre DEF Written, LinkBook
<1>4. w.session \in [Numbers -> SessionRow]
  BY UserRowsAre DEF Written
<1>5. w \in UserRows
  BY <1>1, <1>2, <1>3, <1>4, UserRowsAre DEF Written
<1> QED
  BY <1>5

-----------------------------------------------------------------------------
(* A member has the organisation as the cached one; where there is one, or    *)
(* accepted terms, there are the questions.                                   *)
GoodCompanies ==
    {r \in CompanyRows :
        /\ \A u \in Members : r.member[u].role # "none" => r.primary[u]
        /\ (\E u \in Members : r.primary[u]) \/ r.org.accountable => r.org.questions}

LEMMA CompanyKeeps ==
    ASSUME NEW q, NEW e, CompanyRequest(q, e)
    PROVE  KeepsTo(q, e, CompanyRows, GoodCompanies)
<1>1. ASSUME NEW u \in Members, NEW lost \in BOOLEAN, CreateOrganisation(q, e, u, lost)
      PROVE  KeepsTo(q, e, CompanyRows, GoodCompanies)
  <2>1. CASE lost
    BY <1>1, <2>1, HandleKeeps DEF CreateOrganisation, GoodCompanies, CompanyRows
  <2>2. CASE ~lost
    <3> DEFINE mid == [rows[e] EXCEPT !.org.exists = TRUE, !.org.questions = TRUE]
               joined == [mid EXCEPT !.member[u] = [role |-> "owner", status |-> "active"]]
               new == [joined EXCEPT !.primary[u] = TRUE]
    <3>1. Handle(q, e, new)
      BY <1>1, <2>2 DEF CreateOrganisation
    <3>2. rows[e] \in CompanyRows
            => /\ mid \in CompanyRows /\ mid.org.questions
               /\ mid.member = rows[e].member /\ mid.primary = rows[e].primary
      BY DEF CompanyRows
    <3>3. rows[e] \in CompanyRows
            => /\ joined \in CompanyRows /\ joined.org = mid.org /\ joined.primary = mid.primary
               /\ \A v \in Members : v # u => joined.member[v] = mid.member[v]
      <4> HIDE DEF mid
      <4> QED
        BY <3>2 DEF CompanyRows
    <3>4. rows[e] \in CompanyRows
            => /\ new \in CompanyRows /\ new.org = mid.org /\ new.member = joined.member
               /\ \A v \in Members : new.primary[v] <=> (v = u \/ mid.primary[v])
      <4> HIDE DEF mid, joined
      <4> QED
        BY <3>3 DEF CompanyRows
    <3>5. rows[e] \in GoodCompanies => new \in GoodCompanies
      <4> HIDE DEF mid, joined, new
      <4> QED
        BY <3>2, <3>3, <3>4 DEF GoodCompanies
    <3> QED
      BY <3>1, <3>4, <3>5, HandleKeeps
  <2> QED
    BY <2>1, <2>2
<1>2. ASSUME NEW by \in Members, NEW u \in Members,
            NEW role \in {"owner", "admin", "staff"}, AddMember(q, e, by, u, role)
      PROVE  KeepsTo(q, e, CompanyRows, GoodCompanies)
  <2> DEFINE joined == [rows[e] EXCEPT !.member[u] = [role |-> role, status |-> "active"]]
             new == [joined EXCEPT !.primary[u] = TRUE]
  <2>1. Handle(q, e, new) /\ rows[e].member[by].role # "none"
    BY <1>2 DEF AddMember, Manages
  <2>2. rows[e] \in CompanyRows
          => /\ joined \in CompanyRows /\ joined.org = rows[e].org
             /\ joined.primary = rows[e].primary
             /\ \A v \in Members : v # u => joined.member[v] = rows[e].member[v]
    BY DEF CompanyRows
  <2>3. rows[e] \in CompanyRows
          => /\ new \in CompanyRows /\ new.org = rows[e].org /\ new.member = joined.member
             /\ \A v \in Members : new.primary[v] <=> (v = u \/ rows[e].primary[v])
    <3> HIDE DEF joined
    <3> QED
      BY <2>2 DEF CompanyRows
  <2>4. rows[e] \in GoodCompanies => new \in GoodCompanies
    <3> HIDE DEF joined, new
    <3> QED
      BY <2>1, <2>2, <2>3 DEF GoodCompanies
  <2> QED
    BY <2>1, <2>3, <2>4, HandleKeeps
<1>3. ASSUME NEW by \in Members, NEW u \in Members,
            NEW role \in {"owner", "admin", "staff"},
            NEW status \in {"active", "suspended"}, UpdateMember(q, e, by, u, role, status)
      PROVE  KeepsTo(q, e, CompanyRows, GoodCompanies)
  <2> DEFINE new == [rows[e] EXCEPT !.member[u] = [role |-> role, status |-> status]]
  <2>1. Handle(q, e, new) /\ rows[e].member[u].role # "none"
    BY <1>3 DEF UpdateMember
  <2>2. rows[e] \in CompanyRows
          => /\ new \in CompanyRows /\ new.org = rows[e].org /\ new.primary = rows[e].primary
             /\ \A v \in Members : v # u => new.member[v] = rows[e].member[v]
    BY DEF CompanyRows, NewCompany
  <2>3. rows[e] \in GoodCompanies => new \in GoodCompanies
    <3> HIDE DEF new
    <3> QED
      BY <2>1, <2>2 DEF GoodCompanies
  <2> QED
    BY <2>1, <2>2, <2>3, HandleKeeps
<1>4. ASSUME NEW by \in Members, NEW u \in Members, RemoveMember(q, e, by, u)
      PROVE  KeepsTo(q, e, CompanyRows, GoodCompanies)
  <2> DEFINE new == [rows[e] EXCEPT !.member[u] = NewCompany.member[u]]
  <2>1. Handle(q, e, new) /\ rows[e].member[u].role # "none"
    BY <1>4 DEF RemoveMember
  <2>2. rows[e] \in CompanyRows
          => /\ new \in CompanyRows /\ new.org = rows[e].org /\ new.primary = rows[e].primary
             /\ \A v \in Members : v # u => new.member[v] = rows[e].member[v]
    BY DEF CompanyRows, NewCompany
  <2>3. rows[e] \in GoodCompanies => new \in GoodCompanies
    <3> HIDE DEF new
    <3> QED
      BY <2>1, <2>2 DEF GoodCompanies
  <2> QED
    BY <2>1, <2>2, <2>3, HandleKeeps
<1>5. ASSUME NEW by \in Members, NEW yes \in BOOLEAN,
            AcknowledgeAmlAccountability(q, e, by, yes)
      PROVE  KeepsTo(q, e, CompanyRows, GoodCompanies)
  <2> DEFINE new == [rows[e] EXCEPT !.org.accountable = TRUE,
                                    !.org.terms = IF yes THEN "accepted" ELSE "none"]
  <2>1. Handle(q, e, new) /\ rows[e].member[by].role # "none"
    BY <1>5 DEF AcknowledgeAmlAccountability, Manages
  <2>2. rows[e] \in CompanyRows
          => /\ new \in CompanyRows /\ new.org.questions = rows[e].org.questions
             /\ new.member = rows[e].member /\ new.primary = rows[e].primary
    BY DEF CompanyRows
  <2>3. rows[e] \in GoodCompanies => new \in GoodCompanies
    <3> HIDE DEF new
    <3> QED
      BY <2>1, <2>2 DEF GoodCompanies
  <2> QED
    BY <2>1, <2>2, <2>3, HandleKeeps
<1> QED
  BY <1>1, <1>2, <1>3, <1>4, <1>5
  DEF CompanyRequest

LEMMA CompanyByColumn == ByColumn(CompanyRows)
BY ZenonT(40) DEF ByColumn, Written, CompanyRows

-----------------------------------------------------------------------------
(* What the worker has read was in the register since the pack was asked for; *)
(* and so was what a pack says that is ready.                                 *)
GoodPacks ==
    {r \in PackRows : \A s \in Asked :
        /\ ~r.worker.on => r.work[s] = Missing
        /\ r.worker.on => /\ r.pack.status = "generating" /\ r.before[s] <= r.register[s]
                          /\ \/ r.work[s] \in {Missing, Failed}
                             \/ r.before[s] <= r.work[s] /\ r.work[s] <= r.register[s]
        /\ r.pack.status \in {"ready", "delivered", "archived"} =>
             /\ r.found[s] # Missing
             /\ r.errors[s] <=> r.found[s] = Failed
             /\ r.found[s] # Failed => r.found[s] \in r.before[s] .. r.after[s]
             /\ r.summary[s] # 0 => r.found[s] # Failed
             /\ s = "smr_register" /\ r.summary[s] = 1 => r.after[s] = 2}

LEMMA CountedIs ==
    ASSUME NEW s, NEW n \in Registered \union {Failed}
    PROVE  /\ Counted(s, n) \in 0 .. 1
           /\ Counted(s, n) # 0 => n # Failed
           /\ s = "smr_register" /\ Counted(s, n) = 1 => n = 2
BY DEF Counted, Registered, Failed

LEMMA PackKeeps ==
    ASSUME NEW q, NEW e, PackRequest(q, e)
    PROVE  KeepsTo(q, e, PackRows, GoodPacks)
<1>1. ASSUME RequestPack(q, e)
      PROVE  KeepsTo(q, e, PackRows, GoodPacks)
  <2> DEFINE new == [rows[e] EXCEPT !.pack.status = "generating", !.worker.on = TRUE,
                                    !.before = rows[e].register]
  <2>1. Handle(q, e, new) /\ rows[e].pack.status = "none"
    BY <1>1 DEF RequestPack
  <2>2. rows[e] \in PackRows
          => /\ new \in PackRows
             /\ new.found = rows[e].found
             /\ new.errors = rows[e].errors
             /\ new.summary = rows[e].summary
             /\ new.register = rows[e].register
             /\ new.work = rows[e].work
             /\ new.after = rows[e].after
             /\ new.pack.status = "generating" /\ new.worker.on
             /\ new.before = rows[e].register
    BY <2>1 DEF PackRows, Registered, Missing, Failed
  <2>3. rows[e] \in GoodPacks => new \in GoodPacks
    <3> HIDE DEF new
    <3> QED
      BY <2>1, <2>2 DEF GoodPacks, PackRows, Registered, Missing, Failed
  <2> QED
    BY <2>1, <2>2, <2>3, HandleKeeps
<1>2. ASSUME NEW s \in Asked, RegisterGrows(q, e, s)
      PROVE  KeepsTo(q, e, PackRows, GoodPacks)
  <2> DEFINE new == [rows[e] EXCEPT !.register[s] = @ + 1]
  <2>1. Handle(q, e, new) /\ rows[e].register[s] < 2
    BY <1>2 DEF RegisterGrows
  <2>2. rows[e] \in PackRows
          => /\ new \in PackRows
             /\ new.pack = rows[e].pack
             /\ new.worker = rows[e].worker
             /\ new.found = rows[e].found
             /\ new.errors = rows[e].errors
             /\ new.summary = rows[e].summary
             /\ new.work = rows[e].work
             /\ new.before = rows[e].before
             /\ new.after = rows[e].after
             /\ \A t \in Asked : new.register[t]
                  = IF t = s THEN rows[e].register[t] + 1 ELSE rows[e].register[t]
    BY <2>1 DEF PackRows, Registered, Missing, Failed
  <2>3. rows[e] \in GoodPacks => new \in GoodPacks
    <3> HIDE DEF new
    <3> QED
      BY <2>1, <2>2 DEF GoodPacks, PackRows, Registered, Missing, Failed
  <2> QED
    BY <2>1, <2>2, <2>3, HandleKeeps
<1>3. ASSUME NEW s \in Asked, BuildSection(q, e, s)
      PROVE  KeepsTo(q, e, PackRows, GoodPacks)
  <2> DEFINE new == [rows[e] EXCEPT !.work[s] =
                 IF BuilderFails(s, rows[e].register[s]) THEN Failed ELSE rows[e].register[s]]
  <2>1. Handle(q, e, new) /\ rows[e].worker.on
    BY <1>3 DEF BuildSection
  <2>2. rows[e] \in PackRows
          => /\ new \in PackRows
             /\ new.pack = rows[e].pack
             /\ new.worker = rows[e].worker
             /\ new.found = rows[e].found
             /\ new.errors = rows[e].errors
             /\ new.summary = rows[e].summary
             /\ new.register = rows[e].register
             /\ new.before = rows[e].before
             /\ new.after = rows[e].after
             /\ \A t \in Asked : t # s => new.work[t] = rows[e].work[t]
             /\ new.work[s] \in {Failed, rows[e].register[s]}
    BY <2>1 DEF PackRows, Registered, Missing, Failed
  <2>3. rows[e] \in GoodPacks => new \in GoodPacks
    <3> HIDE DEF new
    <3> QED
      BY <2>1, <2>2 DEF GoodPacks, PackRows, Registered, Missing, Failed
  <2> QED
    BY <2>1, <2>2, <2>3, HandleKeeps
<1>4. ASSUME LosePack(q, e)
      PROVE  KeepsTo(q, e, PackRows, GoodPacks)
  <2> DEFINE new == [rows[e] EXCEPT !.worker.on = FALSE, !.work = NewPack.work]
  <2>1. Handle(q, e, new)
    BY <1>4 DEF LosePack
  <2>2. rows[e] \in PackRows
          => /\ new \in PackRows
             /\ new.pack = rows[e].pack
             /\ new.found = rows[e].found
             /\ new.errors = rows[e].errors
             /\ new.summary = rows[e].summary
             /\ new.register = rows[e].register
             /\ new.before = rows[e].before
             /\ new.after = rows[e].after
             /\ ~new.worker.on /\ \A s \in Asked : new.work[s] = Missing
    BY <2>1 DEF PackRows, Registered, Missing, Failed, NewPack
  <2>3. rows[e] \in GoodPacks => new \in GoodPacks
    <3> HIDE DEF new
    <3> QED
      BY <2>1, <2>2 DEF GoodPacks, PackRows, Registered, Missing, Failed
  <2> QED
    BY <2>1, <2>2, <2>3, HandleKeeps
<1>5. ASSUME DeliverPack(q, e)
      PROVE  KeepsTo(q, e, PackRows, GoodPacks)
  <2> DEFINE new == [rows[e] EXCEPT !.pack.status = "delivered"]
  <2>1. Handle(q, e, new) /\ rows[e].pack.status = "ready"
    BY <1>5 DEF DeliverPack
  <2>2. rows[e] \in PackRows
          => /\ new \in PackRows
             /\ new.worker = rows[e].worker
             /\ new.found = rows[e].found
             /\ new.errors = rows[e].errors
             /\ new.summary = rows[e].summary
             /\ new.register = rows[e].register
             /\ new.work = rows[e].work
             /\ new.before = rows[e].before
             /\ new.after = rows[e].after
             /\ new.pack.status = "delivered"
    BY <2>1 DEF PackRows, Registered, Missing, Failed
  <2>3. rows[e] \in GoodPacks => new \in GoodPacks
    <3> HIDE DEF new
    <3> QED
      BY <2>1, <2>2 DEF GoodPacks, PackRows, Registered, Missing, Failed
  <2> QED
    BY <2>1, <2>2, <2>3, HandleKeeps
<1>6. ASSUME ArchivePack(q, e)
      PROVE  KeepsTo(q, e, PackRows, GoodPacks)
  <2> DEFINE new == [rows[e] EXCEPT !.pack.status = "archived"]
  <2>1. Handle(q, e, new) /\ rows[e].pack.status \notin {"none", "generating"}
    BY <1>6 DEF ArchivePack
  <2>2. rows[e] \in PackRows
          => /\ new \in PackRows
             /\ new.worker = rows[e].worker
             /\ new.found = rows[e].found
             /\ new.errors = rows[e].errors
             /\ new.summary = rows[e].summary
             /\ new.register = rows[e].register
             /\ new.work = rows[e].work
             /\ new.before = rows[e].before
             /\ new.after = rows[e].after
             /\ new.pack.status = "archived"
    BY <2>1 DEF PackRows, Registered, Missing, Failed
  <2>3. rows[e] \in GoodPacks => new \in GoodPacks
    <3> HIDE DEF new
    <3> QED
      BY <2>1, <2>2 DEF GoodPacks, PackRows, Registered, Missing, Failed
  <2> QED
    BY <2>1, <2>2, <2>3, HandleKeeps
<1>7. ASSUME CompletePack(q, e)
      PROVE  KeepsTo(q, e, PackRows, GoodPacks)
  <2> DEFINE r == rows[e]
             errors == [s \in Asked |-> r.work[s] = Failed]
             summary == [s \in Asked |-> Counted(s, r.work[s])]
             new == [rows[e] EXCEPT !.found = rows[e].work, !.errors = errors, !.summary = summary,
                        !.pack.status = "ready", !.worker.on = FALSE,
                        !.after = rows[e].register, !.work = NewPack.work]
  <2>1. /\ Handle(q, e, new)
        /\ r.worker.on /\ \A s \in Asked : r.work[s] # Missing
    BY <1>7 DEF CompletePack
  <2>2. r \in PackRows => \A s \in Asked : r.work[s] \in Registered \union {Failed}
    BY <2>1 DEF PackRows
  <2>3. r \in PackRows
          => /\ errors \in [Asked -> BOOLEAN] /\ summary \in [Asked -> 0 .. 1]
             /\ \A s \in Asked :
                  /\ errors[s] <=> r.work[s] = Failed
                  /\ summary[s] # 0 => r.work[s] # Failed
                  /\ s = "smr_register" /\ summary[s] = 1 => r.work[s] = 2
    BY <2>2, CountedIs
  <2> HIDE DEF errors, summary
  <2>4. /\ NewPack.work \in [Asked -> Registered \union {Missing, Failed}]
        /\ \A s \in Asked : NewPack.work[s] = Missing
    BY DEF NewPack
  <2>5. r \in PackRows
          => /\ new \in PackRows
             /\ new.pack.status = "ready" /\ ~new.worker.on
             /\ new.found = r.work /\ new.errors = errors /\ new.summary = summary
             /\ new.before = r.before /\ new.after = r.register
             /\ new.work = NewPack.work
    BY <2>3, <2>4 DEF PackRows
  <2>6. r \in GoodPacks => new \in GoodPacks
    <3> HIDE DEF new, r
    <3> SUFFICES ASSUME r \in GoodPacks, NEW s \in Asked
                 PROVE  /\ new.work[s] = Missing
                        /\ new.found[s] # Missing
                        /\ new.errors[s] <=> new.found[s] = Failed
                        /\ new.found[s] # Failed => new.found[s] \in new.before[s] .. new.after[s]
                        /\ new.summary[s] # 0 => new.found[s] # Failed
                        /\ s = "smr_register" /\ new.summary[s] = 1 => new.after[s] = 2
      BY <2>5 DEF GoodPacks
    <3>1. r \in PackRows
      BY DEF GoodPacks
    <3>2. /\ r.work[s] \in Registered \union {Failed} /\ r.work[s] # Missing
          /\ r.register[s] \in Registered /\ r.before[s] \in Registered
      BY <2>1, <2>2, <3>1 DEF PackRows
    <3>3. r.work[s] # Failed => r.before[s] <= r.work[s] /\ r.work[s] <= r.register[s]
      BY <2>1 DEF GoodPacks
    <3> QED
      BY <2>3, <2>4, <2>5, <3>1, <3>2, <3>3 DEF Registered, Failed
  <2> QED
    BY <2>1, <2>5, <2>6, HandleKeeps
<1> QED
  BY <1>1, <1>2, <1>3, <1>4, <1>5, <1>6, <1>7
  DEF PackRequest

LEMMA PackByColumn == ByColumn(PackRows)
<1> SUFFICES ASSUME NEW now \in PackRows, NEW seen \in PackRows, NEW new \in PackRows
             PROVE  Written(now, seen, new) \in PackRows
  BY DEF ByColumn
<1> DEFINE w == Written(now, seen, new)
<1>1. w.pack \in [status : {"none", "generating", "ready", "delivered", "archived"}]
  BY DEF Written, PackRows
<1>2. w.worker \in [on : BOOLEAN]
  BY DEF Written, PackRows
<1>3. w.found \in [Asked -> Registered \union {Missing, Failed}]
  BY DEF Written, PackRows
<1>4. w.errors \in [Asked -> BOOLEAN]
  BY DEF Written, PackRows
<1>5. w.summary \in [Asked -> 0 .. 1]
  BY DEF Written, PackRows
<1>6. w.register \in [Asked -> Registered]
  BY DEF Written, PackRows
<1>7. w.work \in [Asked -> Registered \union {Missing, Failed}]
  BY DEF Written, PackRows
<1>8. w.before \in [Asked -> Registered]
  BY DEF Written, PackRows
<1>9. w.after \in [Asked -> Registered]
  BY DEF Written, PackRows
<1>10. w \in PackRows
  BY <1>1, <1>2, <1>3, <1>4, <1>5, <1>6, <1>7, <1>8, <1>9 DEF Written, PackRows
<1> QED
  BY <1>10

-----------------------------------------------------------------------------
(* At least the minimum of questions is active, in both contexts together.    *)
GoodChecklists ==
    {r \in ChecklistRows :
        ActiveIn(r, "transaction") + ActiveIn(r, "customer") >= MIN_APPROVAL_QUESTIONS}

Copies == [Template -> {"none", "active", "inactive"}]
ActiveCopies(f) == {t \in Template : f[t] = "active"}

LEMMA ActiveCopiesCount ==
    ASSUME NEW f \in Copies
    PROVE  IsFiniteSet(ActiveCopies(f)) /\ Cardinality(ActiveCopies(f)) \in Nat
<1>1. IsFiniteSet(ActiveCopies(f))
  BY TemplateAssumption, FS_Subset DEF ActiveCopies
<1> QED
  BY <1>1, FS_CardinalityType

(* A copy that becomes active is one more, one that ceases to be is one less. *)
LEMMA ActivatedCounts ==
    ASSUME NEW f \in Copies, NEW g \in Copies, NEW t \in Template,
           f[t] # "active", g = [f EXCEPT ![t] = "active"]
    PROVE  Cardinality(ActiveCopies(g)) = Cardinality(ActiveCopies(f)) + 1
<1>1. ActiveCopies(g) = ActiveCopies(f) \union {t} /\ t \notin ActiveCopies(f)
  BY DEF Copies, ActiveCopies
<1> QED
  BY <1>1, ActiveCopiesCount, FS_AddElement

LEMMA DeactivatedCounts ==
    ASSUME NEW f \in Copies, NEW g \in Copies, NEW t \in Template, NEW to \in {"none", "inactive"},
           f[t] = "active", g = [f EXCEPT ![t] = to]
    PROVE  Cardinality(ActiveCopies(g)) = Cardinality(ActiveCopies(f)) - 1
<1>1. ActiveCopies(g) = ActiveCopies(f) \ {t} /\ t \in ActiveCopies(f)
  BY DEF Copies, ActiveCopies
<1> QED
  BY <1>1, ActiveCopiesCount, FS_RemoveElement

LEMMA MoreActive ==
    ASSUME NEW f \in Copies, NEW g \in Copies,
           \A t \in Template : f[t] = "active" => g[t] = "active"
    PROVE  Cardinality(ActiveCopies(f)) <= Cardinality(ActiveCopies(g))
<1>1. ActiveCopies(f) \subseteq ActiveCopies(g)
  BY DEF ActiveCopies
<1> QED
  BY <1>1, ActiveCopiesCount, FS_Subset

(* What is active: the own questions of both contexts and the copies.         *)
QuestionTotal(r) ==
    r.own["transaction"] + r.own["customer"]
      + Cardinality(ActiveCopies(r.template)) + Cardinality(ActiveCopies(r.edited))

LEMMA QuestionsAre ==
    ASSUME NEW r \in ChecklistRows
    PROVE  /\ r.template \in Copies /\ r.edited \in Copies
           /\ r.own["transaction"] \in 0 .. 5 /\ r.own["customer"] \in 0 .. 5
           /\ \A c \in Contexts : ActiveIn(r, c) \in Nat /\ r.own[c] <= ActiveIn(r, c)
           /\ ActiveIn(r, "transaction") + ActiveIn(r, "customer") = QuestionTotal(r)
           /\ r \in GoodChecklists <=> QuestionTotal(r) >= 3
<1>1. /\ r.template \in Copies /\ r.edited \in Copies
      /\ r.own["transaction"] \in 0 .. 5 /\ r.own["customer"] \in 0 .. 5
  BY DEF ChecklistRows, Copies, Contexts, MAX_APPROVAL_QUESTIONS
<1> DEFINE m == Cardinality(ActiveCopies(r.template))
           n == Cardinality(ActiveCopies(r.edited))
<1>2. m \in Nat /\ n \in Nat
  BY <1>1, ActiveCopiesCount
<1>3. /\ ActiveIn(r, "transaction") = r.own["transaction"] + m + n
      /\ ActiveIn(r, "customer") = r.own["customer"]
  <2>1. /\ ActiveIn(r, "transaction") = r.own["transaction"] + (m + n)
        /\ ActiveIn(r, "customer") = r.own["customer"] + 0
    BY DEF ActiveIn, ActiveCopies
  <2> HIDE DEF m, n
  <2> QED
    BY <1>1, <1>2, <2>1
<1>4. QuestionTotal(r) = r.own["transaction"] + r.own["customer"] + m + n
  BY DEF QuestionTotal
<1> HIDE DEF m, n
<1> QED
  BY <1>1, <1>2, <1>3, <1>4 DEF GoodChecklists, Contexts, MIN_APPROVAL_QUESTIONS

LEMMA ChecklistKeeps ==
    ASSUME NEW q, NEW e, ChecklistRequest(q, e)
    PROVE  KeepsTo(q, e, ChecklistRows, GoodChecklists)
<1>1. ASSUME NEW c \in Contexts, CreateApprovalQuestion(q, e, c)
      PROVE  KeepsTo(q, e, ChecklistRows, GoodChecklists)
  <2> DEFINE new == [rows[e] EXCEPT !.own[c] = @ + 1]
  <2>1. rows[e] \in ChecklistRows => rows[e].own[c] \in 0 .. 4
    <3> SUFFICES ASSUME rows[e] \in ChecklistRows PROVE rows[e].own[c] \in 0 .. 4
      OBVIOUS
    <3>1. ActiveIn(rows[e], c) \in Nat /\ rows[e].own[c] <= ActiveIn(rows[e], c)
      BY QuestionsAre
    <3>2. ActiveIn(rows[e], c) < 5
      BY <1>1 DEF CreateApprovalQuestion, MAX_APPROVAL_QUESTIONS
    <3>3. rows[e].own[c] \in 0 .. 5
      BY QuestionsAre DEF Contexts
    <3> QED
      BY <3>1, <3>2, <3>3
  <2>2. rows[e] \in ChecklistRows
          => /\ new \in ChecklistRows
             /\ new.own[c] = rows[e].own[c] + 1
             /\ \A d \in Contexts : d # c => new.own[d] = rows[e].own[d]
             /\ new.template = rows[e].template /\ new.edited = rows[e].edited
    BY <2>1 DEF ChecklistRows, MAX_APPROVAL_QUESTIONS
  <2>3. rows[e] \in GoodChecklists => new \in GoodChecklists
    <3> HIDE DEF new
    <3> SUFFICES ASSUME rows[e] \in GoodChecklists PROVE new \in GoodChecklists
      OBVIOUS
    <3>1. rows[e] \in ChecklistRows
      BY DEF GoodChecklists
    <3>2. /\ Cardinality(ActiveCopies(rows[e].template)) \in Nat
          /\ Cardinality(ActiveCopies(rows[e].edited)) \in Nat
      BY <3>1, QuestionsAre, ActiveCopiesCount
    <3>3. QuestionTotal(rows[e]) >= 3
      BY <3>1, QuestionsAre
    <3>4. QuestionTotal(new) >= 3
      <4>1. CASE c = "transaction"
        BY <2>1, <2>2, <3>1, <3>2, <3>3, <4>1, QuestionsAre DEF QuestionTotal, Contexts
      <4>2. CASE c = "customer"
        BY <2>1, <2>2, <3>1, <3>2, <3>3, <4>2, QuestionsAre DEF QuestionTotal, Contexts
      <4> QED
        BY <4>1, <4>2 DEF Contexts
    <3> QED
      BY <2>2, <3>1, <3>4, QuestionsAre
  <2> QED
    BY <1>1, <2>2, <2>3, HandleKeeps DEF CreateApprovalQuestion
<1>2. ASSUME NEW t \in Template, UpdateApprovalQuestion(q, e, t)
      PROVE  KeepsTo(q, e, ChecklistRows, GoodChecklists)
  <2> DEFINE new == [rows[e] EXCEPT !.template[t] = "none", !.edited[t] = "active"]
  <2>1. Handle(q, e, new)
    BY <1>2 DEF UpdateApprovalQuestion
  <2>2. rows[e] \in ChecklistRows
          => /\ new \in ChecklistRows
             /\ new.own = rows[e].own
             /\ new.template = [rows[e].template EXCEPT ![t] = "none"]
             /\ new.edited = [rows[e].edited EXCEPT ![t] = "active"]
             /\ rows[e].template[t] = "active" /\ rows[e].edited[t] # "active"
    BY <1>2 DEF UpdateApprovalQuestion, ChecklistRows
  <2>3. rows[e] \in GoodChecklists => new \in GoodChecklists
    <3> HIDE DEF new
    <3> SUFFICES ASSUME rows[e] \in GoodChecklists PROVE new \in GoodChecklists
      OBVIOUS
    <3>1. rows[e] \in ChecklistRows
      BY DEF GoodChecklists
    <3>2. /\ Cardinality(ActiveCopies(rows[e].template)) \in Nat
          /\ Cardinality(ActiveCopies(rows[e].edited)) \in Nat
          /\ Cardinality(ActiveCopies(new.template)) \in Nat
          /\ Cardinality(ActiveCopies(new.edited)) \in Nat
      BY <2>2, <3>1, QuestionsAre, ActiveCopiesCount
    <3>3. QuestionTotal(rows[e]) >= 3
      BY <3>1, QuestionsAre
    <3>4. /\ Cardinality(ActiveCopies(new.template))
               = Cardinality(ActiveCopies(rows[e].template)) - 1
          /\ Cardinality(ActiveCopies(new.edited))
               = Cardinality(ActiveCopies(rows[e].edited)) + 1
      BY <2>2, <3>1, QuestionsAre, ActivatedCounts, DeactivatedCounts
    <3>5. QuestionTotal(new) >= 3
      BY <2>2, <3>1, <3>2, <3>3, <3>4, QuestionsAre DEF QuestionTotal
    <3> QED
      BY <2>2, <3>1, <3>5, QuestionsAre
  <2> QED
    BY <2>1, <2>2, <2>3, HandleKeeps
<1>3. ASSUME NEW c \in Contexts, rows[e].own[c] > 0,
            ActiveIn(rows[e], "transaction") + ActiveIn(rows[e], "customer") > MIN_APPROVAL_QUESTIONS,
            Handle(q, e, [rows[e] EXCEPT !.own[c] = @ - 1])
      PROVE  KeepsTo(q, e, ChecklistRows, GoodChecklists)
  <2> DEFINE new == [rows[e] EXCEPT !.own[c] = @ - 1]
  <2>1. Handle(q, e, new)
    BY <1>3 DEF MAX_APPROVAL_QUESTIONS
  <2>2. rows[e] \in ChecklistRows
          => /\ new \in ChecklistRows
             /\ new.own[c] = rows[e].own[c] - 1
             /\ \A d \in Contexts : d # c => new.own[d] = rows[e].own[d]
             /\ new.template = rows[e].template /\ new.edited = rows[e].edited
    BY <1>3 DEF MAX_APPROVAL_QUESTIONS, ChecklistRows
  <2>3. rows[e] \in GoodChecklists => new \in GoodChecklists
    <3> HIDE DEF new
    <3> SUFFICES ASSUME rows[e] \in GoodChecklists PROVE new \in GoodChecklists
      OBVIOUS
    <3>1. rows[e] \in ChecklistRows
      BY DEF GoodChecklists
    <3>2. /\ Cardinality(ActiveCopies(rows[e].template)) \in Nat
          /\ Cardinality(ActiveCopies(rows[e].edited)) \in Nat
          /\ Cardinality(ActiveCopies(new.template)) \in Nat
          /\ Cardinality(ActiveCopies(new.edited)) \in Nat
      BY <2>2, <3>1, QuestionsAre, ActiveCopiesCount
    <3>3. QuestionTotal(rows[e]) >= 3
      BY <3>1, QuestionsAre
    <3>4. QuestionTotal(rows[e]) > 3
      BY <1>3, <3>1, QuestionsAre DEF MIN_APPROVAL_QUESTIONS
    <3>5. QuestionTotal(new) >= 3
      <4>1. CASE c = "transaction"
        <5>1. /\ new.own["transaction"] = rows[e].own["transaction"] - 1
              /\ new.own["customer"] = rows[e].own["customer"]
              /\ new.template = rows[e].template /\ new.edited = rows[e].edited
          BY <2>2, <3>1, <4>1 DEF Contexts
        <5>2. rows[e].own["transaction"] \in 0 .. 5 /\ rows[e].own["customer"] \in 0 .. 5
          BY <3>1, QuestionsAre
        <5> QED
          BY <3>2, <3>4, <5>1, <5>2 DEF QuestionTotal
      <4>2. CASE c = "customer"
        BY <2>2, <3>1, <3>2, <3>4, <4>2, QuestionsAre DEF QuestionTotal, Contexts
      <4> QED
        BY <4>1, <4>2 DEF Contexts
    <3> QED
      BY <2>2, <3>1, <3>5, QuestionsAre
  <2> QED
    BY <2>1, <2>2, <2>3, HandleKeeps
<1>4. ASSUME NEW t \in Template, rows[e].template[t] = "active",
            ActiveIn(rows[e], "transaction") + ActiveIn(rows[e], "customer") > MIN_APPROVAL_QUESTIONS,
            Handle(q, e, [rows[e] EXCEPT !.template[t] = "inactive"])
      PROVE  KeepsTo(q, e, ChecklistRows, GoodChecklists)
  <2> DEFINE new == [rows[e] EXCEPT !.template[t] = "inactive"]
  <2>1. Handle(q, e, new)
    BY <1>4 DEF Contexts
  <2>2. rows[e] \in ChecklistRows
          => /\ new \in ChecklistRows
             /\ new.own = rows[e].own
             /\ new.template = [rows[e].template EXCEPT ![t] = "inactive"]
             /\ new.edited = rows[e].edited
    BY <1>4 DEF Contexts, ChecklistRows
  <2>3. rows[e] \in GoodChecklists => new \in GoodChecklists
    <3> HIDE DEF new
    <3> SUFFICES ASSUME rows[e] \in GoodChecklists PROVE new \in GoodChecklists
      OBVIOUS
    <3>1. rows[e] \in ChecklistRows
      BY DEF GoodChecklists
    <3>2. /\ Cardinality(ActiveCopies(rows[e].template)) \in Nat
          /\ Cardinality(ActiveCopies(rows[e].edited)) \in Nat
          /\ Cardinality(ActiveCopies(new.template)) \in Nat
          /\ Cardinality(ActiveCopies(new.edited)) \in Nat
      BY <2>2, <3>1, QuestionsAre, ActiveCopiesCount
    <3>3. QuestionTotal(rows[e]) >= 3
      BY <3>1, QuestionsAre
    <3>4. QuestionTotal(rows[e]) > 3
      BY <1>4, <3>1, QuestionsAre DEF MIN_APPROVAL_QUESTIONS
    <3>6. Cardinality(ActiveCopies(new.template)) = Cardinality(ActiveCopies(rows[e].template)) - 1
      BY <1>4, <2>2, <3>1, QuestionsAre, DeactivatedCounts
    <3>5. QuestionTotal(new) >= 3
      BY <2>2, <3>1, <3>2, <3>4, <3>6, QuestionsAre DEF QuestionTotal
    <3> QED
      BY <2>2, <3>1, <3>5, QuestionsAre
  <2> QED
    BY <2>1, <2>2, <2>3, HandleKeeps
<1>5. ASSUME NEW t \in Template, rows[e].edited[t] = "active",
            ActiveIn(rows[e], "transaction") + ActiveIn(rows[e], "customer") > MIN_APPROVAL_QUESTIONS,
            Handle(q, e, [rows[e] EXCEPT !.edited[t] = "inactive"])
      PROVE  KeepsTo(q, e, ChecklistRows, GoodChecklists)
  <2> DEFINE new == [rows[e] EXCEPT !.edited[t] = "inactive"]
  <2>1. Handle(q, e, new)
    BY <1>5 DEF Contexts
  <2>2. rows[e] \in ChecklistRows
          => /\ new \in ChecklistRows
             /\ new.own = rows[e].own
             /\ new.edited = [rows[e].edited EXCEPT ![t] = "inactive"]
             /\ new.template = rows[e].template
    BY <1>5 DEF Contexts, ChecklistRows
  <2>3. rows[e] \in GoodChecklists => new \in GoodChecklists
    <3> HIDE DEF new
    <3> SUFFICES ASSUME rows[e] \in GoodChecklists PROVE new \in GoodChecklists
      OBVIOUS
    <3>1. rows[e] \in ChecklistRows
      BY DEF GoodChecklists
    <3>2. /\ Cardinality(ActiveCopies(rows[e].template)) \in Nat
          /\ Cardinality(ActiveCopies(rows[e].edited)) \in Nat
          /\ Cardinality(ActiveCopies(new.template)) \in Nat
          /\ Cardinality(ActiveCopies(new.edited)) \in Nat
      BY <2>2, <3>1, QuestionsAre, ActiveCopiesCount
    <3>3. QuestionTotal(rows[e]) >= 3
      BY <3>1, QuestionsAre
    <3>4. QuestionTotal(rows[e]) > 3
      BY <1>5, <3>1, QuestionsAre DEF MIN_APPROVAL_QUESTIONS
    <3>6. Cardinality(ActiveCopies(new.edited)) = Cardinality(ActiveCopies(rows[e].edited)) - 1
      BY <1>5, <2>2, <3>1, QuestionsAre, DeactivatedCounts
    <3>5. QuestionTotal(new) >= 3
      BY <2>2, <3>1, <3>2, <3>4, <3>6, QuestionsAre DEF QuestionTotal
    <3> QED
      BY <2>2, <3>1, <3>5, QuestionsAre
  <2> QED
    BY <2>1, <2>2, <2>3, HandleKeeps
<1>6. ASSUME NEW templates \in SUBSET Template, SeedQuestionnaire(q, e, templates)
      PROVE  KeepsTo(q, e, ChecklistRows, GoodChecklists)
  <2> DEFINE new == [rows[e] EXCEPT !.template =
                 [t \in Template |-> IF t \in templates /\ @[t] = "none" THEN "active" ELSE @[t]]]
  <2>1. Handle(q, e, new)
    BY <1>6 DEF SeedQuestionnaire
  <2>2. rows[e] \in ChecklistRows
          => /\ new \in ChecklistRows
             /\ new.own = rows[e].own /\ new.edited = rows[e].edited
             /\ \A t \in Template : rows[e].template[t] = "active" => new.template[t] = "active"
    BY <1>6 DEF SeedQuestionnaire, ChecklistRows
  <2>3. rows[e] \in GoodChecklists => new \in GoodChecklists
    <3> HIDE DEF new
    <3> SUFFICES ASSUME rows[e] \in GoodChecklists PROVE new \in GoodChecklists
      OBVIOUS
    <3>1. rows[e] \in ChecklistRows
      BY DEF GoodChecklists
    <3>2. /\ Cardinality(ActiveCopies(rows[e].template)) \in Nat
          /\ Cardinality(ActiveCopies(rows[e].edited)) \in Nat
          /\ Cardinality(ActiveCopies(new.template)) \in Nat
          /\ Cardinality(ActiveCopies(new.edited)) \in Nat
      BY <2>2, <3>1, QuestionsAre, ActiveCopiesCount
    <3>3. QuestionTotal(rows[e]) >= 3
      BY <3>1, QuestionsAre
    <3>4. Cardinality(ActiveCopies(rows[e].template)) <= Cardinality(ActiveCopies(new.template))
      BY <2>2, <3>1, QuestionsAre, MoreActive
    <3>5. QuestionTotal(new) >= 3
      BY <2>2, <3>1, <3>2, <3>3, <3>4, QuestionsAre DEF QuestionTotal
    <3> QED
      BY <2>2, <3>1, <3>5, QuestionsAre
  <2> QED
    BY <2>1, <2>2, <2>3, HandleKeeps
<1> QED
  BY <1>1, <1>2, <1>3, <1>4, <1>5, <1>6
  DEF ChecklistRequest, DeactivateApprovalQuestion

LEMMA ChecklistByColumn == ByColumn(ChecklistRows)
BY DEF ByColumn, Written, ChecklistRows

-----------------------------------------------------------------------------
(* A rule that was evaluated is on record, and counts the alerts naming it.   *)
GoodMonitors ==
    {r \in MonitorRows :
        /\ r.log.executions > 0 => r.rule.status \notin {"none", "deleted"}
        /\ r.rule.alerts = r.alert.naming
        /\ r.alert.naming <= r.log.executions}

LEMMA MonitorKeeps ==
    ASSUME NEW q, NEW e, MonitorRequest(q, e)
    PROVE  KeepsTo(q, e, MonitorRows, GoodMonitors)
<1>1. ASSUME CreateMonitor(q, e) \/ CloseMonitorAlert(q, e)
      PROVE  KeepsTo(q, e, MonitorRows, GoodMonitors)
  BY <1>1, HandleKeeps DEF CreateMonitor, CloseMonitorAlert, GoodMonitors, MonitorRows,
     RuleStates
<1>2. ASSUME DeleteMonitor(q, e)
      PROVE  KeepsTo(q, e, MonitorRows, GoodMonitors)
  <2> DEFINE new == [rows[e] EXCEPT !.rule.status = "deleted"]
  <2>1. rows[e].log.executions = 0
    BY <1>2 DEF DeleteMonitor
  <2>2. rows[e] \in MonitorRows =>
          /\ new \in MonitorRows
          /\ new.log = rows[e].log /\ new.alert = rows[e].alert
          /\ new.rule.alerts = rows[e].rule.alerts
    BY <2>1 DEF MonitorRows
  <2>3. rows[e] \in GoodMonitors => new \in GoodMonitors
    <3> HIDE DEF new
    <3> QED
      BY <1>2, <2>1, <2>2 DEF GoodMonitors
  <2> QED
    BY <1>2, <2>2, <2>3, HandleKeeps DEF DeleteMonitor
<1>3. ASSUME NEW s \in RuleStates, SetRuleStatus(q, e, s)
      PROVE  KeepsTo(q, e, MonitorRows, GoodMonitors)
  BY <1>3, HandleKeeps DEF SetRuleStatus, OnRecord, GoodMonitors, MonitorRows, RuleStates
<1>4. ASSUME NEW matched \in BOOLEAN, NEW suspect \in BOOLEAN,
            RunMonitor(q, e, matched, suspect)
      PROVE  KeepsTo(q, e, MonitorRows, GoodMonitors)
  <2> DEFINE raised == (matched \/ suspect) /\ ~rows[e].alert.open
             more == IF raised /\ matched THEN 1 ELSE 0
             new == [rows[e] EXCEPT !.log.executions = @ + 1, !.alert.open = @ \/ raised,
                                    !.alert.naming = @ + more, !.rule.alerts = @ + more]
  <2>1. /\ Handle(q, e, new)
        /\ rows[e].rule.status \in {"active", "testing"}
        /\ rows[e].log.executions < MaxRuns
    BY <1>4 DEF RunMonitor
  <2>2. more \in {0, 1} /\ raised \in BOOLEAN
    OBVIOUS
  <2> HIDE DEF raised, more
  <2>3. rows[e] \in MonitorRows
          => /\ new \in MonitorRows
             /\ new.rule.status = rows[e].rule.status
             /\ new.log.executions = rows[e].log.executions + 1
             /\ new.alert.naming = rows[e].alert.naming + more
             /\ new.rule.alerts = rows[e].rule.alerts + more
             /\ rows[e].alert.naming \in Nat /\ rows[e].log.executions \in Nat
    <3> SUFFICES ASSUME rows[e] \in MonitorRows
                 PROVE  /\ new \in MonitorRows
                        /\ new.rule.status = rows[e].rule.status
                        /\ new.log.executions = rows[e].log.executions + 1
                        /\ new.alert.naming = rows[e].alert.naming + more
                        /\ new.rule.alerts = rows[e].rule.alerts + more
                        /\ rows[e].alert.naming \in Nat /\ rows[e].log.executions \in Nat
      OBVIOUS
    <3>1. /\ rows[e].alert.naming \in Nat /\ rows[e].rule.alerts \in Nat
          /\ rows[e].log.executions \in 0 .. MaxRuns /\ rows[e].alert.open \in BOOLEAN
      BY DEF MonitorRows
    <3>2. /\ rows[e].log.executions + 1 \in 0 .. MaxRuns
          /\ rows[e].alert.naming + more \in Nat /\ rows[e].rule.alerts + more \in Nat
          /\ (rows[e].alert.open \/ raised) \in BOOLEAN
      BY <2>1, <2>2, <3>1, RunsAssumption
    <3> DEFINE runs == rows[e].log.executions + 1
               naming == rows[e].alert.naming + more
               alerts == rows[e].rule.alerts + more
               open == rows[e].alert.open \/ raised
               new2 == [rows[e] EXCEPT !.log.executions = runs, !.alert.open = open,
                                       !.alert.naming = naming, !.rule.alerts = alerts]
    <3>3. new = new2
      OBVIOUS
    <3>4. /\ runs \in 0 .. MaxRuns /\ naming \in Nat /\ alerts \in Nat /\ open \in BOOLEAN
      BY <3>2
    <3> HIDE DEF runs, naming, alerts, open, new
    <3>5. /\ new2 \in MonitorRows
          /\ new2.rule.status = rows[e].rule.status /\ new2.log.executions = runs
          /\ new2.alert.naming = naming /\ new2.rule.alerts = alerts
      BY <3>4 DEF MonitorRows
    <3> QED
      BY <3>1, <3>3, <3>5, RunsAssumption DEF runs, naming, alerts
  <2>4. rows[e] \in GoodMonitors => new \in GoodMonitors
    <3> HIDE DEF new
    <3> QED
      BY <2>1, <2>2, <2>3 DEF GoodMonitors
  <2> QED
    BY <2>1, <2>3, <2>4, HandleKeeps
<1> QED
  BY <1>1, <1>2, <1>3, <1>4
  DEF MonitorRequest

LEMMA MonitorByColumn == ByColumn(MonitorRows)
BY DEF ByColumn, Written, MonitorRows

-----------------------------------------------------------------------------
(* A firm is in a group once, and the holding of a group is in it.            *)
GoodGroups ==
    {r \in GroupRows :
        /\ \A o \in Firms : r.active[o] <= 1
        /\ r.group.status # "none" => r.active[Holding] = 1}

LEMMA GroupKeeps ==
    ASSUME NEW q, NEW e, GroupRequest(q, e)
    PROVE  KeepsTo(q, e, GroupRows, GoodGroups)
<1>1. ASSUME CreateGroup(q, e)
      PROVE  KeepsTo(q, e, GroupRows, GoodGroups)
  <2> DEFINE mid == [rows[e] EXCEPT !.group.status = "active"]
             new == [mid EXCEPT !.active[Holding] = 1]
  <2>1. rows[e] \in GroupRows =>
          /\ mid \in GroupRows
          /\ mid.active = rows[e].active
    BY DEF GroupRows
  <2>2. rows[e] \in GroupRows =>
          /\ new \in GroupRows
          /\ \A o \in Firms : new.active[o] = IF o = Holding THEN 1 ELSE rows[e].active[o]
    <3> HIDE DEF mid
    <3> QED
      BY <2>1, HoldingAssumption DEF GroupRows
  <2>3. rows[e] \in GoodGroups => new \in GoodGroups
    <3> HIDE DEF mid, new
    <3> QED
      BY <1>1, <2>1, <2>2, HoldingAssumption DEF GoodGroups, GroupRows
  <2> QED
    BY <1>1, <2>2, <2>3, HandleKeeps DEF CreateGroup
<1>2. ASSUME NEW s \in {"active", "suspended", "dissolved"}, NEW program \in BOOLEAN,
            UpdateGroup(q, e, s, program)
      PROVE  KeepsTo(q, e, GroupRows, GoodGroups)
  BY <1>2, HandleKeeps DEF UpdateGroup, InGroup, GroupRows, GoodGroups
<1>3. ASSUME NEW by \in Firms, NEW o \in Firms, AddGroupMember(q, e, by, o)
      PROVE  KeepsTo(q, e, GroupRows, GoodGroups)
  <2> DEFINE new == [rows[e] EXCEPT !.active[o] = @ + 1]
  <2>1. Handle(q, e, new)
    BY <1>3 DEF AddGroupMember
  <2>2. rows[e] \in GroupRows
          => /\ new \in GroupRows
             /\ new.group = rows[e].group
             /\ \A p \in Firms : new.active[p] = IF p = o THEN 1 ELSE rows[e].active[p]
    BY <1>3, HoldingAssumption DEF AddGroupMember, GroupRows
  <2>3. rows[e] \in GoodGroups => new \in GoodGroups
    <3> HIDE DEF new
    <3> QED
      BY <1>3, <2>2, HoldingAssumption DEF AddGroupMember, InGroup, GoodGroups, GroupRows
  <2> QED
    BY <2>1, <2>2, <2>3, HandleKeeps
<1>4. ASSUME NEW by \in Firms, NEW o \in Firms, RemoveGroupMember(q, e, by, o)
      PROVE  KeepsTo(q, e, GroupRows, GoodGroups)
  <2> DEFINE new == [rows[e] EXCEPT !.active[o] = @ - 1]
  <2>1. Handle(q, e, new)
    BY <1>4 DEF RemoveGroupMember
  <2>2. rows[e] \in GroupRows
          => /\ new \in GroupRows
             /\ new.group = rows[e].group
             /\ \A p \in Firms : new.active[p] = IF p = o THEN rows[e].active[p] - 1 ELSE rows[e].active[p]
    BY <1>4, HoldingAssumption DEF RemoveGroupMember, GroupRows
  <2>3. rows[e] \in GoodGroups => new \in GoodGroups
    <3> HIDE DEF new
    <3> QED
      BY <1>4, <2>2, HoldingAssumption DEF RemoveGroupMember, InGroup, GoodGroups, GroupRows
  <2> QED
    BY <2>1, <2>2, <2>3, HandleKeeps
<1> QED
  BY <1>1, <1>2, <1>3, <1>4
  DEF GroupRequest

LEMMA GroupByColumn == ByColumn(GroupRows)
BY DEF ByColumn, Written, GroupRows

-----------------------------------------------------------------------------
(* What is in force is what was approved.                                     *)
GoodSolutions ==
    {r \in SolutionRows :
        r.program.status = "active" => r.program.says = r.approved.says /\ r.program.dated}

LEMMA SolutionKeeps ==
    ASSUME NEW q, NEW e, SolutionRequest(q, e)
    PROVE  KeepsTo(q, e, SolutionRows, GoodSolutions)
<1>1. ASSUME NEW w \in Writings, SeedSolution(q, e, w)
      PROVE  KeepsTo(q, e, SolutionRows, GoodSolutions)
  BY <1>1, HandleKeeps DEF SeedSolution, SolutionRows, GoodSolutions
<1>2. ASSUME NEW w \in Writings, NEW dated \in BOOLEAN, UpdateSolution(q, e, w, dated)
      PROVE  KeepsTo(q, e, SolutionRows, GoodSolutions)
  BY <1>2, HandleKeeps DEF UpdateSolution, SolutionRows, GoodSolutions
<1>3. ASSUME SubmitSolution(q, e)
      PROVE  KeepsTo(q, e, SolutionRows, GoodSolutions)
  BY <1>3, HandleKeeps DEF SubmitSolution, SolutionRows, GoodSolutions
<1>4. ASSUME ApproveSolution(q, e)
      PROVE  KeepsTo(q, e, SolutionRows, GoodSolutions)
  BY <1>4, HandleKeeps DEF ApproveSolution, SolutionRows, GoodSolutions
<1> QED
  BY <1>1, <1>2, <1>3, <1>4
  DEF SolutionRequest

LEMMA SolutionByColumn == ByColumn(SolutionRows)
BY DEF ByColumn, Written, SolutionRows

-----------------------------------------------------------------------------
LEMMA EcddTypes ==
    ASSUME NEW facts
    PROVE  EcddScore(facts) \in 0 .. 110
<1> DEFINE points == [pep |-> 30, media |-> 35, owner |-> 20, wealth |-> 15, tax |-> 10]
           Of(f) == IF (f \in facts) = (f \notin {"owner", "wealth"}) THEN points[f] ELSE 0
           sum == Of("pep") + Of("media") + Of("owner") + Of("wealth") + Of("tax")
<1>1. /\ Of("pep") \in 0 .. 30 /\ Of("media") \in 0 .. 35 /\ Of("owner") \in 0 .. 20
      /\ Of("wealth") \in 0 .. 15 /\ Of("tax") \in 0 .. 10
  OBVIOUS
<1>2. EcddScore(facts) = IF sum > 100 THEN 100 ELSE sum
  BY DEF EcddScore
<1> HIDE DEF Of
<1> QED
  BY <1>1, <1>2

(* The notes on record are those of the status on record.                     *)
GoodExamined ==
    {r \in ExaminedRows : r.record.notes # "none" => r.record.notes = r.record.status}

LEMMA ExaminedKeeps ==
    ASSUME NEW q, NEW e, ExaminedRequest(q, e)
    PROVE  KeepsTo(q, e, ExaminedRows, GoodExamined)
<1>1. ASSUME NEW facts \in SUBSET Facts, CreateEcdd(q, e, facts)
      PROVE  KeepsTo(q, e, ExaminedRows, GoodExamined)
  <2> DEFINE score == EcddScore(facts)
             advice == Recommended(score, facts)
             new == [rows[e] EXCEPT !.record =
                         [status |-> "pending", facts |-> facts, score |-> score,
                          recommendation |-> advice, notes |-> "none"]]
  <2>1. score \in 0 .. 110
    BY EcddTypes
  <2>2. advice \in {"none", "approve", "monitor", "reject"}
    BY DEF Recommended
  <2>3. rows[e] \in ExaminedRows => new \in ExaminedRows
    <3> HIDE DEF score, advice
    <3> QED
      BY <2>1, <2>2 DEF ExaminedRows, Decisions
  <2>4. rows[e] \in ExaminedRows => new.record.notes = "none"
    BY DEF ExaminedRows
  <2> HIDE DEF score, advice
  <2>5. Handle(q, e, new)
    BY <1>1 DEF CreateEcdd, score, advice
  <2> HIDE DEF new
  <2> QED
    BY <2>3, <2>4, <2>5, HandleKeeps DEF GoodExamined
<1>2. ASSUME NEW d \in Decisions, DecideEcdd(q, e, d)
      PROVE  KeepsTo(q, e, ExaminedRows, GoodExamined)
  <2> DEFINE new == [rows[e] EXCEPT !.record.status = d, !.record.notes = d]
  <2>1. ToLog[d] \in {"idle"} \union Stops
    BY DEF Stops, Logging
  <2>2. rows[e] \in ExaminedRows => new \in ExaminedRows
    BY DEF ExaminedRows
  <2>3. rows[e] \in GoodExamined => new \in GoodExamined
    BY DEF ExaminedRows, GoodExamined
  <2> QED
    BY <1>2, <2>1, <2>2, <2>3, SaveKeeps DEF DecideEcdd
<1>3. ASSUME NEW d \in Decisions, LogDecision(q, e, d)
      PROVE  KeepsTo(q, e, ExaminedRows, GoodExamined)
  BY <1>3, SaveKeeps DEF LogDecision, ExaminedRows, GoodExamined
<1> QED
  BY <1>1, <1>2, <1>3
  DEF ExaminedRequest

LEMMA ExaminedByColumn == ByColumn(ExaminedRows)
<1> SUFFICES ASSUME NEW now \in ExaminedRows, NEW seen \in ExaminedRows, NEW new \in ExaminedRows
             PROVE  Written(now, seen, new) \in ExaminedRows
  BY DEF ByColumn
<1> DEFINE w == Written(now, seen, new)
<1>1. w.record \in [status : Decisions \union {"none"}, facts : SUBSET Facts, score : 0 .. 110,
                  recommendation : {"none", "approve", "monitor", "reject"},
                  notes : Decisions \union {"none"}]
  BY DEF Written, ExaminedRows
<1>2. w.log \in [said : SUBSET Decisions]
  BY DEF Written, ExaminedRows
<1>3. w \in ExaminedRows
  BY <1>1, <1>2 DEF Written, ExaminedRows
<1> QED
  BY <1>3

(* The recommendation is the one that follows from the facts it was made      *)
(* from, and nothing is on record of an examination before that is: both are  *)
(* written once, when the record is made.                                     *)
Advised(d) == d.recommendation = Recommended(EcddScore(d.facts), d.facts)
LastingExamined == {r \in ExaminedRows : r.record.status # "none" => Advised(r.record)}

Making(seen, new) == seen.record.status = "none" /\ new.record.status # "none"
Advising(now, seen, new) ==
    \/ /\ Making(seen, new)
       /\ now.record = seen.record
       /\ Advised(new.record)
    \/ /\ new.record.facts = seen.record.facts
       /\ new.record.recommendation = seen.record.recommendation
       /\ \/ new.record = seen.record
          \/ now.record.status # "none" /\ seen.record.status # "none" /\ new.record.status # "none"

ExaminedFits ==
    {x \in ExaminedRows \X ExaminedRows \X ExaminedRows : Advising(x[1], x[2], x[3])}
ExaminedApart ==
    {x \in ExaminedRows \X ExaminedRows \X ExaminedRows \X ExaminedRows :
        ~(Making(x[1], x[2]) /\ Making(x[3], x[4]))}

LEMMA ExaminedFitsAre ==
    /\ \A now, seen, new :
         <<now, seen, new>> \in ExaminedFits
           <=> now \in ExaminedRows /\ seen \in ExaminedRows /\ new \in ExaminedRows
                 /\ Advising(now, seen, new)
    /\ \A s, n, seen, new :
         <<s, n, seen, new>> \in ExaminedApart
           <=> /\ s \in ExaminedRows /\ n \in ExaminedRows
               /\ seen \in ExaminedRows /\ new \in ExaminedRows
               /\ ~(Making(s, n) /\ Making(seen, new))
BY DEF ExaminedFits, ExaminedApart

LEMMA ExaminedClosed == Closed(LastingExamined, ExaminedFits, ExaminedApart)
<1> SUFFICES ASSUME NEW now \in LastingExamined, NEW seen, NEW new,
                    <<now, seen, new>> \in ExaminedFits
             PROVE  /\ Committed(now, seen, new) \in LastingExamined
                    /\ \A s, n : <<now, s, n>> \in ExaminedFits /\ <<s, n, seen, new>> \in ExaminedApart
                         => <<Committed(now, seen, new), s, n>> \in ExaminedFits
  BY DEF Closed
<1> DEFINE done == Committed(now, seen, new)
<1>1. /\ now \in ExaminedRows /\ seen \in ExaminedRows /\ new \in ExaminedRows
      /\ Advising(now, seen, new)
      /\ now.record.status # "none" => Advised(now.record)
  BY ExaminedFitsAre DEF LastingExamined
<1>2. done \in ExaminedRows
  BY <1>1, ExaminedByColumn DEF Committed, ByColumn
<1>3. /\ done.record.status = IF new.record.status = seen.record.status
                              THEN now.record.status ELSE new.record.status
      /\ done.record.facts = IF new.record.facts = seen.record.facts
                             THEN now.record.facts ELSE new.record.facts
      /\ done.record.recommendation =
           IF new.record.recommendation = seen.record.recommendation
           THEN now.record.recommendation ELSE new.record.recommendation
  BY <1>1 DEF Committed, Written, ExaminedRows
<1>4. new.record = seen.record => done.record = now.record
  BY <1>1 DEF Committed, Written, ExaminedRows
<1> HIDE DEF done
<1>5. CASE Making(seen, new) /\ now.record = seen.record /\ Advised(new.record)
  <2>1. /\ done.record.facts = new.record.facts
        /\ done.record.recommendation = new.record.recommendation
        /\ done.record.status # "none"
    BY <1>3, <1>5 DEF Making
  <2>2. done \in LastingExamined
    BY <1>2, <1>5, <2>1 DEF Advised, LastingExamined
  <2>3. ASSUME NEW s, NEW n, <<now, s, n>> \in ExaminedFits, <<s, n, seen, new>> \in ExaminedApart
        PROVE  <<done, s, n>> \in ExaminedFits
    BY <1>2, <1>5, <2>1, <2>3, ExaminedFitsAre DEF Advising, Making
  <2> QED
    BY <2>2, <2>3 DEF done
<1>6. CASE new.record = seen.record
  <2>1. done \in LastingExamined
    BY <1>1, <1>2, <1>4, <1>6 DEF LastingExamined
  <2>2. ASSUME NEW s, NEW n, <<now, s, n>> \in ExaminedFits
        PROVE  <<done, s, n>> \in ExaminedFits
    BY <1>2, <1>4, <1>6, <2>2, ExaminedFitsAre DEF Advising
  <2> QED
    BY <2>1, <2>2 DEF done
<1>7. CASE /\ new.record.facts = seen.record.facts
           /\ new.record.recommendation = seen.record.recommendation
           /\ now.record.status # "none" /\ seen.record.status # "none"
           /\ new.record.status # "none"
  <2>1. /\ done.record.facts = now.record.facts
        /\ done.record.recommendation = now.record.recommendation
        /\ done.record.status # "none"
    BY <1>3, <1>7
  <2>2. done \in LastingExamined
    BY <1>1, <1>2, <1>7, <2>1 DEF Advised, LastingExamined
  <2>3. ASSUME NEW s, NEW n, <<now, s, n>> \in ExaminedFits
        PROVE  <<done, s, n>> \in ExaminedFits
    BY <1>2, <1>7, <2>1, <2>3, ExaminedFitsAre DEF Advising, Making
  <2> QED
    BY <2>2, <2>3 DEF done
<1> QED
  BY <1>1, <1>5, <1>6, <1>7 DEF Advising, done

LEMMA ExaminedJoins ==
    ASSUME WellFormed(Stops), Examined \subseteq Entities,
           Held(Examined, LastingExamined, ExaminedFits, ExaminedApart),
           NEW q \in Requests, NEW e \in Examined, ExaminedRequest(q, e)
    PROVE  Held(Examined, LastingExamined, ExaminedFits, ExaminedApart)'
<1> DEFINE r == rows[e]
<1>1. r \in ExaminedRows
  BY DEF Held, LastingExamined
<1>2. \A p \in Requests : Saving(p) /\ req[p].of = e
        => /\ req[p].seen \in ExaminedRows /\ req[p].new \in ExaminedRows
           /\ Advising(r, req[p].seen, req[p].new)
  BY ExaminedFitsAre DEF Held
<1>3. ASSUME NEW new \in ExaminedRows, Ends(q, e, new, Stops), ~Saving(q), Advising(r, r, new),
             Making(r, new) => \A p \in Requests : Saving(p) /\ req[p].of = e
                                  => ~Making(req[p].seen, req[p].new)
      PROVE  Held(Examined, LastingExamined, ExaminedFits, ExaminedApart)'
  <2>1. Joins(q, e, new, ExaminedFits, ExaminedApart)
    BY <1>1, <1>2, <1>3, ExaminedFitsAre DEF Joins
  <2>2. Symmetric(ExaminedApart)
    BY ExaminedFitsAre DEF Symmetric
  <2> QED
    BY <1>3, <2>1, <2>2, JoinKeeps, ExaminedClosed
<1>4. ASSUME NEW facts \in SUBSET Facts, CreateEcdd(q, e, facts)
      PROVE  Held(Examined, LastingExamined, ExaminedFits, ExaminedApart)'
  <2> DEFINE d == [status |-> "pending", facts |-> facts, score |-> EcddScore(facts),
                   recommendation |-> Recommended(EcddScore(facts), facts), notes |-> "none"]
             new == [r EXCEPT !.record = d]
  <2>1. new \in ExaminedRows /\ new.record = d
    BY <1>1, EcddTypes DEF ExaminedRows, Recommended, Decisions
  <2>2. /\ r.record.status = "none" /\ Handle(q, e, new)
        /\ \A p \in Requests : Saving(p) /\ req[p].of = e => req[p].new.record.status = "none"
    BY <1>4 DEF CreateEcdd, Free, Pending, Saving, Idle
  <2>3. Ends(q, e, new, Stops) /\ ~Saving(q)
    BY <2>2 DEF Ends, Handle, Saving, Idle
  <2>4. Advising(r, r, new)
    BY <2>1, <2>2 DEF Advising, Making, Advised
  <2> HIDE DEF new
  <2> QED
    BY <1>3, <2>1, <2>2, <2>3, <2>4 DEF Making
<1>5. ASSUME NEW d \in Decisions, DecideEcdd(q, e, d)
      PROVE  Held(Examined, LastingExamined, ExaminedFits, ExaminedApart)'
  <2> DEFINE new == [r EXCEPT !.record.status = d, !.record.notes = d]
  <2>1. /\ new \in ExaminedRows /\ new.record.status = d /\ d # "none"
        /\ new.record.facts = r.record.facts
        /\ new.record.recommendation = r.record.recommendation
    BY <1>1 DEF ExaminedRows, Decisions
  <2>2. r.record.status # "none" /\ Save(q, e, new, ToLog[d]) /\ req[q] = Idle
    BY <1>5 DEF DecideEcdd
  <2>3. ToLog[d] \in Stops
    BY DEF Stops, Logging
  <2>4. Ends(q, e, new, Stops) /\ ~Saving(q)
    BY <2>2, <2>3 DEF Ends, Saving, Idle
  <2> HIDE DEF new
  <2> QED
    BY <1>3, <2>1, <2>2, <2>4 DEF Making, Advising
<1>6. ASSUME NEW d \in Decisions, LogDecision(q, e, d)
      PROVE  Held(Examined, LastingExamined, ExaminedFits, ExaminedApart)'
  <2> DEFINE new == [r EXCEPT !.log.said = @ \union {d}]
  <2>1. new \in ExaminedRows /\ new.record = r.record
    BY <1>1 DEF ExaminedRows, Decisions
  <2>2. Save(q, e, new, "idle") /\ req[q].pc = ToLog[d]
    BY <1>6 DEF LogDecision
  <2>3. ToLog[d] # "save"
    BY DEF ToLog, Decisions
  <2>4. Ends(q, e, new, Stops) /\ ~Saving(q)
    BY <2>2, <2>3 DEF Ends, Saving
  <2> HIDE DEF new
  <2> QED
    BY <1>3, <2>1, <2>4 DEF Making, Advising
<1> QED
  BY <1>4, <1>5, <1>6 DEF ExaminedRequest

(* More against a customer, or less that is verified, recommends no less      *)
(* caution.                                                                   *)
LEMMA MoreCaution ==
    ASSUME NEW facts \in SUBSET Facts, NEW f \in Facts
    PROVE  LET worse == IF f \in {"owner", "wealth"} THEN facts \ {f} ELSE facts \union {f}
           IN  Caution[Recommended(EcddScore(worse), worse)]
                 >= Caution[Recommended(EcddScore(facts), facts)]
<1> DEFINE worse == IF f \in {"owner", "wealth"} THEN facts \ {f} ELSE facts \union {f}
<1>1. /\ "pep" \in facts => "pep" \in worse
      /\ "media" \in facts => "media" \in worse
  OBVIOUS
<1>2. EcddScore(worse) >= EcddScore(facts)
  <2>1. /\ "tax" \in facts => "tax" \in worse
        /\ "owner" \in worse => "owner" \in facts
        /\ "wealth" \in worse => "wealth" \in facts
    OBVIOUS
  <2> HIDE DEF worse
  <2> QED
    BY <1>1, <2>1 DEF EcddScore
<1>3. EcddScore(worse) \in Int /\ EcddScore(facts) \in Int
  BY DEF EcddScore
<1> HIDE DEF worse
<1>4. Caution[Recommended(EcddScore(worse), worse)]
        >= Caution[Recommended(EcddScore(facts), facts)]
  BY <1>1, <1>2, <1>3 DEF Recommended, Caution
<1> QED
  BY <1>4 DEF worse

-----------------------------------------------------------------------------
(* A wallet has the score, and is the match, that the provider said.          *)
GoodScreened ==
    {r \in ScreenedRows :
        /\ r.wallet.status = "potential_match" <=> r.answer.said = "listed"
        /\ r.wallet.score = "none" <=> r.answer.said = "none"}

LEMMA ScreenedKeeps ==
    ASSUME NEW q, NEW e, ScreenedRequest(q, e)
    PROVE  KeepsTo(q, e, ScreenedRows, GoodScreened)
<1>1. ASSUME RecordAdverseMedia(q, e)
      PROVE  KeepsTo(q, e, ScreenedRows, GoodScreened)
  BY <1>1, HandleKeeps DEF RecordAdverseMedia, ScreenedRows, GoodScreened
<1>2. ASSUME NEW confirm \in BOOLEAN, ReviewAdverseMedia(q, e, confirm)
      PROVE  KeepsTo(q, e, ScreenedRows, GoodScreened)
  BY <1>2, HandleKeeps DEF ReviewAdverseMedia, ScreenedRows, GoodScreened
<1>3. ASSUME NEW said \in {"none", "unlisted", "listed"}, ScreenWallet(q, e, said)
      PROVE  KeepsTo(q, e, ScreenedRows, GoodScreened)
  BY <1>3, HandleKeeps DEF ScreenWallet, ScreenedRows, GoodScreened
<1>4. ASSUME EnterWallet(q, e)
      PROVE  KeepsTo(q, e, ScreenedRows, GoodScreened)
  BY <1>4, HandleKeeps DEF EnterWallet, ScreenedRows, GoodScreened
<1> QED
  BY <1>1, <1>2, <1>3, <1>4
  DEF ScreenedRequest

LEMMA ScreenedByColumn == ByColumn(ScreenedRows)
BY DEF ByColumn, Written, ScreenedRows

(* An article is dismissed by a commit that finds it false, or by one that    *)
(* follows it: the flags of an article are never taken back.                  *)
LastingScreened ==
    {r \in ScreenedRows :
        /\ r.media.status = "dismissed" => r.media.falsePositive
        /\ r.media.status = "under_review" => r.media.confirmed}

Flagged(now, seen, new) ==
    /\ seen.media.falsePositive => now.media.falsePositive /\ new.media.falsePositive
    /\ seen.media.confirmed => now.media.confirmed /\ new.media.confirmed
    /\ new.media.status = "dismissed" /\ seen.media.status # "dismissed" => new.media.falsePositive
    /\ new.media.status = "under_review" /\ seen.media.status # "under_review" => new.media.confirmed

ScreenedFits ==
    {x \in ScreenedRows \X ScreenedRows \X ScreenedRows : Flagged(x[1], x[2], x[3])}
ScreenedApart == ScreenedRows \X ScreenedRows \X ScreenedRows \X ScreenedRows

LEMMA ScreenedFitsAre ==
    ASSUME NEW now, NEW seen, NEW new
    PROVE  <<now, seen, new>> \in ScreenedFits
             <=> now \in ScreenedRows /\ seen \in ScreenedRows /\ new \in ScreenedRows
                   /\ Flagged(now, seen, new)
BY DEF ScreenedFits

LEMMA ScreenedClosed == Closed(LastingScreened, ScreenedFits, ScreenedApart)
<1> SUFFICES ASSUME NEW now \in LastingScreened, NEW seen, NEW new,
                    <<now, seen, new>> \in ScreenedFits
             PROVE  /\ Committed(now, seen, new) \in LastingScreened
                    /\ \A s, n : <<now, s, n>> \in ScreenedFits
                         => <<Committed(now, seen, new), s, n>> \in ScreenedFits
  BY DEF Closed
<1> DEFINE done == Committed(now, seen, new)
<1>1. /\ now \in ScreenedRows /\ seen \in ScreenedRows /\ new \in ScreenedRows
      /\ Flagged(now, seen, new)
  BY ScreenedFitsAre
<1>2. done \in ScreenedRows
  BY <1>1, ScreenedByColumn DEF Committed, ByColumn
<1>3. /\ done.media.status = IF new.media.status = seen.media.status THEN now.media.status
                             ELSE new.media.status
      /\ done.media.confirmed = IF new.media.confirmed = seen.media.confirmed
                                THEN now.media.confirmed ELSE new.media.confirmed
      /\ done.media.falsePositive = IF new.media.falsePositive = seen.media.falsePositive
                                    THEN now.media.falsePositive ELSE new.media.falsePositive
  BY <1>1 DEF Committed, Written, ScreenedRows
<1> HIDE DEF done
<1>4. /\ now.media.falsePositive => done.media.falsePositive
      /\ now.media.confirmed => done.media.confirmed
  BY <1>1, <1>3 DEF Flagged, ScreenedRows
<1>5. done \in LastingScreened
  BY <1>1, <1>2, <1>3, <1>4 DEF Flagged, ScreenedRows, LastingScreened
<1>6. ASSUME NEW s, NEW n, <<now, s, n>> \in ScreenedFits
      PROVE  <<done, s, n>> \in ScreenedFits
  BY <1>2, <1>4, <1>6, ScreenedFitsAre DEF Flagged
<1> QED
  BY <1>5, <1>6 DEF done

LEMMA ScreenedJoins ==
    ASSUME WellFormed(Stops), Screened \subseteq Entities,
           Held(Screened, LastingScreened, ScreenedFits, ScreenedApart),
           NEW q \in Requests, NEW e \in Screened, ScreenedRequest(q, e)
    PROVE  Held(Screened, LastingScreened, ScreenedFits, ScreenedApart)'
<1> DEFINE r == rows[e]
<1>1. r \in ScreenedRows
  BY DEF Held, LastingScreened
<1>2. ASSUME NEW new \in ScreenedRows, Handle(q, e, new), Flagged(r, r, new)
      PROVE  Held(Screened, LastingScreened, ScreenedFits, ScreenedApart)'
  <2>1. ~Saving(q)
    BY <1>2 DEF Handle, Saving, Idle
  <2>2. \A p \in Requests : Saving(p) /\ req[p].of = e
          => req[p].seen \in ScreenedRows /\ req[p].new \in ScreenedRows
    BY ScreenedFitsAre DEF Held
  <2>3. Joins(q, e, new, ScreenedFits, ScreenedApart)
    BY <1>1, <1>2, <2>1, <2>2, ScreenedFitsAre DEF Joins, ScreenedApart
  <2>4. Symmetric(ScreenedApart)
    BY DEF Symmetric, ScreenedApart
  <2>5. Ends(q, e, new, Stops)
    BY <1>2 DEF Ends
  <2> QED
    BY <2>3, <2>4, <2>5, JoinKeeps, ScreenedClosed
<1>3. CASE RecordAdverseMedia(q, e)
  BY <1>1, <1>2, <1>3 DEF RecordAdverseMedia, ScreenedRows, Flagged
<1>4. CASE EnterWallet(q, e)
  BY <1>1, <1>2, <1>4 DEF EnterWallet, ScreenedRows, Flagged
<1>5. ASSUME NEW confirm \in BOOLEAN, ReviewAdverseMedia(q, e, confirm)
      PROVE  Held(Screened, LastingScreened, ScreenedFits, ScreenedApart)'
  BY <1>1, <1>2, <1>5 DEF ReviewAdverseMedia, ScreenedRows, Flagged
<1>6. ASSUME NEW said \in {"none", "unlisted", "listed"}, ScreenWallet(q, e, said)
      PROVE  Held(Screened, LastingScreened, ScreenedFits, ScreenedApart)'
  BY <1>1, <1>2, <1>6 DEF ScreenWallet, ScreenedRows, Flagged
<1> QED
  BY <1>3, <1>4, <1>5, <1>6 DEF ScreenedRequest

-----------------------------------------------------------------------------
(* The good rows of each kind, in the order of EntityKinds.                   *)
Goods ==
    <<TrainingRows, GoodReviews, AssessmentRows, GoodBoards, PolicyRows,
      GoodControls, GoodRisk, GoodMatrices, GoodPrograms, GoodGenerated,
      GoodTransfers, ReceiptRows, ProfileRows, GoodRescored, GoodAccounts,
      GoodPayers, GoodTeams, GoodTasks, GoodCalendars, GoodDocuments,
      RetentionRows, GoodEvidence, GoodImported, GoodHubs, GoodHooks,
      GoodChecks, GoodUsers, GoodCompanies, GoodPacks, GoodChecklists,
      GoodMonitors, GoodGroups, GoodSolutions, GoodExamined, GoodScreened>>

(* A request about an entity of the kind i keeps to the rows of that kind; it *)
(* is known which it is for the kinds of which something outlasts overlaps.   *)
AskedOf(q, i, e) ==
    /\ i = 5 => PolicyRequest(q, e)
    /\ i = 10 => GeneratedRequest(q, e)
    /\ i = 12 => ReceiptRequest(q, e)
    /\ i = 34 => ExaminedRequest(q, e)
    /\ i = 35 => ScreenedRequest(q, e)
Writer(q, i, e) ==
    e \in EntityKinds[i] /\ KeepsTo(q, e, Tables[i], Goods[i]) /\ AskedOf(q, i, e)

(* Every step is one of a writer, a commit, a loss, or the passing of time.   *)
LEMMA NextWrites ==
    ASSUME Next
    PROVE  \/ \E q \in Requests, i \in DOMAIN EntityKinds : \E e \in EntityKinds[i] : Writer(q, i, e)
           \/ \E q \in Requests : Commit(q) \/ Lose(q)
           \/ \E d \in Days : Pass(d)
<1> DEFINE Wrote(q) == \E i \in DOMAIN EntityKinds : \E e \in EntityKinds[i] : Writer(q, i, e)
<1>1. ASSUME NEW q \in Requests, NEW e \in Trainees, TrainingRequest(q, e)
      PROVE  Wrote(q)
  BY <1>1, TrainingKeeps DEF Writer, AskedOf, EntityKinds, Tables, Goods
<1>2. ASSUME NEW q \in Requests, NEW e \in Reviews, ReviewRequest(q, e)
      PROVE  Wrote(q)
  BY <1>2, ReviewKeeps DEF Writer, AskedOf, EntityKinds, Tables, Goods
<1>3. ASSUME NEW q \in Requests, NEW e \in Matters, AssessmentRequest(q, e)
      PROVE  Wrote(q)
  BY <1>3, AssessmentKeeps DEF Writer, AskedOf, EntityKinds, Tables, Goods
<1>4. ASSUME NEW q \in Requests, NEW e \in Boards, BoardRequest(q, e)
      PROVE  Wrote(q)
  BY <1>4, BoardKeeps DEF Writer, AskedOf, EntityKinds, Tables, Goods
<1>5. ASSUME NEW q \in Requests, NEW e \in PolicyIds, PolicyRequest(q, e)
      PROVE  Wrote(q)
  BY <1>5, PolicyKeeps DEF Writer, AskedOf, EntityKinds, Tables, Goods
<1>6. ASSUME NEW q \in Requests, NEW e \in Controls, ControlRequest(q, e)
      PROVE  Wrote(q)
  BY <1>6, ControlKeeps DEF Writer, AskedOf, EntityKinds, Tables, Goods
<1>7. ASSUME NEW q \in Requests, NEW e \in RiskModels, RiskRequest(q, e)
      PROVE  Wrote(q)
  BY <1>7, RiskKeeps DEF Writer, AskedOf, EntityKinds, Tables, Goods
<1>8. ASSUME NEW q \in Requests, NEW e \in Matrices, MatrixRequest(q, e)
      PROVE  Wrote(q)
  BY <1>8, MatrixKeeps DEF Writer, AskedOf, EntityKinds, Tables, Goods
<1>9. ASSUME NEW q \in Requests, NEW e \in Programs, ProgramRequest(q, e)
      PROVE  Wrote(q)
  BY <1>9, ProgramKeeps DEF Writer, AskedOf, EntityKinds, Tables, Goods
<1>10. ASSUME NEW q \in Requests, NEW e \in Generated, GeneratedRequest(q, e)
       PROVE  Wrote(q)
  BY <1>10, GeneratedKeeps DEF Writer, AskedOf, EntityKinds, Tables, Goods
<1>11. ASSUME NEW q \in Requests, NEW e \in Transfers, TransferRequest(q, e)
       PROVE  Wrote(q)
  BY <1>11, TransferKeeps DEF Writer, AskedOf, EntityKinds, Tables, Goods
<1>12. ASSUME NEW q \in Requests, NEW e \in ReceiptChains, ReceiptRequest(q, e)
       PROVE  Wrote(q)
  BY <1>12, ReceiptsKeeps DEF Writer, AskedOf, EntityKinds, Tables, Goods
<1>13. ASSUME NEW q \in Requests, NEW e \in Profiles, ProfileRequest(q, e)
       PROVE  Wrote(q)
  BY <1>13, ProfileKeeps DEF Writer, AskedOf, EntityKinds, Tables, Goods
<1>14. ASSUME NEW q \in Requests, NEW e \in Rescored, RescoredRequest(q, e)
       PROVE  Wrote(q)
  BY <1>14, RescoredKeeps DEF Writer, AskedOf, EntityKinds, Tables, Goods
<1>15. ASSUME NEW q \in Requests, NEW e \in Accounts, AccountRequest(q, e)
       PROVE  Wrote(q)
  BY <1>15, AccountKeeps DEF Writer, AskedOf, EntityKinds, Tables, Goods
<1>16. ASSUME NEW q \in Requests, NEW e \in Payers, PayerRequest(q, e)
       PROVE  Wrote(q)
  BY <1>16, PayerKeeps DEF Writer, AskedOf, EntityKinds, Tables, Goods
<1>17. ASSUME NEW q \in Requests, NEW e \in Teams, TeamRequest(q, e)
       PROVE  Wrote(q)
  BY <1>17, TeamKeeps DEF Writer, AskedOf, EntityKinds, Tables, Goods
<1>18. ASSUME NEW q \in Requests, NEW e \in Tasks, TaskRequest(q, e)
       PROVE  Wrote(q)
  BY <1>18, TaskKeeps DEF Writer, AskedOf, EntityKinds, Tables, Goods
<1>19. ASSUME NEW q \in Requests, NEW e \in Calendars, CalendarRequest(q, e)
       PROVE  Wrote(q)
  BY <1>19, CalendarKeeps DEF Writer, AskedOf, EntityKinds, Tables, Goods
<1>20. ASSUME NEW q \in Requests, NEW e \in Files, DocumentRequest(q, e)
       PROVE  Wrote(q)
  BY <1>20, DocumentKeeps DEF Writer, AskedOf, EntityKinds, Tables, Goods
<1>21. ASSUME NEW q \in Requests, NEW e \in Retained, RetentionRequest(q, e)
       PROVE  Wrote(q)
  BY <1>21, RetentionKeeps DEF Writer, AskedOf, EntityKinds, Tables, Goods
<1>22. ASSUME NEW q \in Requests, NEW e \in OnFile, EvidenceRequest(q, e)
       PROVE  Wrote(q)
  BY <1>22, EvidenceKeeps DEF Writer, AskedOf, EntityKinds, Tables, Goods
<1>23. ASSUME NEW q \in Requests, NEW e \in Imported, ImportedRequest(q, e)
       PROVE  Wrote(q)
  BY <1>23, ImportedKeeps DEF Writer, AskedOf, EntityKinds, Tables, Goods
<1>24. ASSUME NEW q \in Requests, NEW e \in Hubs, HubRequest(q, e)
       PROVE  Wrote(q)
  BY <1>24, HubKeeps DEF Writer, AskedOf, EntityKinds, Tables, Goods
<1>25. ASSUME NEW q \in Requests, NEW e \in Hooks, HookRequest(q, e)
       PROVE  Wrote(q)
  BY <1>25, HookKeeps DEF Writer, AskedOf, EntityKinds, Tables, Goods
<1>26. ASSUME NEW q \in Requests, NEW e \in Checks, CheckRequest(q, e)
       PROVE  Wrote(q)
  BY <1>26, CheckKeeps DEF Writer, AskedOf, EntityKinds, Tables, Goods
<1>27. ASSUME NEW q \in Requests, NEW e \in Users, UserRequest(q, e)
       PROVE  Wrote(q)
  BY <1>27, UserKeeps DEF Writer, AskedOf, EntityKinds, Tables, Goods
<1>28. ASSUME NEW q \in Requests, NEW e \in Companies, CompanyRequest(q, e)
       PROVE  Wrote(q)
  BY <1>28, CompanyKeeps DEF Writer, AskedOf, EntityKinds, Tables, Goods
<1>29. ASSUME NEW q \in Requests, NEW e \in Packs, PackRequest(q, e)
       PROVE  Wrote(q)
  BY <1>29, PackKeeps DEF Writer, AskedOf, EntityKinds, Tables, Goods
<1>30. ASSUME NEW q \in Requests, NEW e \in Checklists, ChecklistRequest(q, e)
       PROVE  Wrote(q)
  BY <1>30, ChecklistKeeps DEF Writer, AskedOf, EntityKinds, Tables, Goods
<1>31. ASSUME NEW q \in Requests, NEW e \in Monitors, MonitorRequest(q, e)
       PROVE  Wrote(q)
  BY <1>31, MonitorKeeps DEF Writer, AskedOf, EntityKinds, Tables, Goods
<1>32. ASSUME NEW q \in Requests, NEW e \in Groups, GroupRequest(q, e)
       PROVE  Wrote(q)
  BY <1>32, GroupKeeps DEF Writer, AskedOf, EntityKinds, Tables, Goods
<1>33. ASSUME NEW q \in Requests, NEW e \in Solutions, SolutionRequest(q, e)
       PROVE  Wrote(q)
  BY <1>33, SolutionKeeps DEF Writer, AskedOf, EntityKinds, Tables, Goods
<1>34. ASSUME NEW q \in Requests, NEW e \in Examined, ExaminedRequest(q, e)
       PROVE  Wrote(q)
  BY <1>34, ExaminedKeeps DEF Writer, AskedOf, EntityKinds, Tables, Goods
<1>35. ASSUME NEW q \in Requests, NEW e \in Screened, ScreenedRequest(q, e)
       PROVE  Wrote(q)
  BY <1>35, ScreenedKeeps DEF Writer, AskedOf, EntityKinds, Tables, Goods
<1> HIDE DEF Wrote
<1>36. ASSUME NEW q \in Requests,
             \/ \E e \in Trainees : TrainingRequest(q, e)
             \/ \E e \in Reviews : ReviewRequest(q, e)
             \/ \E e \in Matters : AssessmentRequest(q, e)
             \/ \E e \in Boards : BoardRequest(q, e)
             \/ \E e \in PolicyIds : PolicyRequest(q, e)
             \/ \E e \in Controls : ControlRequest(q, e)
             \/ \E e \in RiskModels : RiskRequest(q, e)
             \/ \E e \in Matrices : MatrixRequest(q, e)
             \/ \E e \in Programs : ProgramRequest(q, e)
             \/ \E e \in Generated : GeneratedRequest(q, e)
             \/ \E e \in Transfers : TransferRequest(q, e)
             \/ \E e \in ReceiptChains : ReceiptRequest(q, e)
             \/ \E e \in Profiles : ProfileRequest(q, e)
             \/ \E e \in Rescored : RescoredRequest(q, e)
             \/ \E e \in Accounts : AccountRequest(q, e)
             \/ \E e \in Payers : PayerRequest(q, e)
             \/ \E e \in Teams : TeamRequest(q, e)
             \/ \E e \in Tasks : TaskRequest(q, e)
             \/ \E e \in Calendars : CalendarRequest(q, e)
             \/ \E e \in Files : DocumentRequest(q, e)
             \/ \E e \in Retained : RetentionRequest(q, e)
             \/ \E e \in OnFile : EvidenceRequest(q, e)
             \/ \E e \in Imported : ImportedRequest(q, e)
             \/ \E e \in Hubs : HubRequest(q, e)
             \/ \E e \in Hooks : HookRequest(q, e)
             \/ \E e \in Checks : CheckRequest(q, e)
             \/ \E e \in Users : UserRequest(q, e)
             \/ \E e \in Companies : CompanyRequest(q, e)
             \/ \E e \in Packs : PackRequest(q, e)
             \/ \E e \in Checklists : ChecklistRequest(q, e)
             \/ \E e \in Monitors : MonitorRequest(q, e)
             \/ \E e \in Groups : GroupRequest(q, e)
             \/ \E e \in Solutions : SolutionRequest(q, e)
             \/ \E e \in Examined : ExaminedRequest(q, e)
             \/ \E e \in Screened : ScreenedRequest(q, e)
      PROVE  Wrote(q)
  BY <1>1, <1>2, <1>3, <1>4, <1>5, <1>6, <1>7, <1>8, <1>9, <1>10, <1>11, <1>12,
     <1>13, <1>14, <1>15, <1>16, <1>17, <1>18, <1>19, <1>20, <1>21, <1>22,
     <1>23, <1>24, <1>25, <1>26, <1>27, <1>28, <1>29, <1>30, <1>31, <1>32,
     <1>33, <1>34, <1>35, <1>36
<1> QED
  BY <1>36 DEF Next, Wrote

LEMMA AllByColumn == \A i \in DOMAIN EntityKinds : ByColumn(Tables[i])
BY TrainingByColumn, ReviewByColumn, AssessmentByColumn, BoardByColumn,
   PolicyByColumn, ControlByColumn, RiskByColumn, MatrixByColumn,
   ProgramByColumn, GeneratedByColumn, TransferByColumn, ReceiptsByColumn,
   ProfileByColumn, RescoredByColumn, AccountByColumn, PayerByColumn,
   TeamByColumn, TaskByColumn, CalendarByColumn, DocumentByColumn,
   RetentionByColumn, EvidenceByColumn, ImportedByColumn, HubByColumn,
   HookByColumn, CheckByColumn, UserByColumn, CompanyByColumn, PackByColumn,
   ChecklistByColumn, MonitorByColumn, GroupByColumn, SolutionByColumn,
   ExaminedByColumn, ScreenedByColumn
   DEF EntityKinds, Tables

(* The rows that every kind starts with are good ones.                        *)
LEMMA FirstGood ==
    ASSUME NEW i \in DOMAIN EntityKinds, NEW e \in EntityKinds[i]
    PROVE  e \in Entities /\ NewOf(e) \in Tables[i] /\ NewOf(e) \in Goods[i]
<1>1. e \in Entities /\ KindOf(e) = i
  BY OneKind DEF KindOf
<1>2. NewOf(e) = FirstRows[i] /\ NewOf(e) \in Tables[i]
  BY <1>1, NewRows DEF NewOf, RowsOf
<1>3. NewReview \in ReviewRows => NewReview \in GoodReviews
  BY DEF GoodReviews, NewReview
<1>4. NewBoard \in BoardRows => NewBoard \in GoodBoards
  BY DEF GoodBoards, NewBoard, Editions
<1>5. NewControl \in ControlRows => NewControl \in GoodControls
  BY DEF GoodControls, NewControl, NoTest, UnratedTest, Finalised
<1>6. NewRisk \in RiskRows => NewRisk \in GoodRisk
  BY DEF GoodRisk, NewRisk, NoScore, GoodScore
<1>7. NewMatrix \in MatrixRows => NewMatrix \in GoodMatrices
  BY DEF GoodMatrices, NewMatrix
<1>8. NewProgram \in ProgramRows => NewProgram \in GoodPrograms
  BY DEF GoodPrograms, NewProgram, Drafts
<1>9. NewTransfer \in TransferRows => NewTransfer \in GoodTransfers
  BY DEF GoodTransfers, NewTransfer
<1>10. NewRescored \in RescoredRows => NewRescored \in GoodRescored
  BY DEF GoodRescored, NewRescored
<1>11. NewAccount \in AccountRows => NewAccount \in GoodAccounts
  <2>1. NewAccount.stripe.queue = <<>> /\ Len(<<>>) = 0
    BY DEF NewAccount
  <2>2. 1 .. Len(NewAccount.stripe.queue) = {}
    BY <2>1
  <2> QED
    BY <2>2 DEF GoodAccounts, NewAccount, PriceKept, EventsTrue, InStep, Linked, Invoiced,
         Last, LastInvoice
<1>12. NewTeam \in TeamRows => NewTeam \in GoodTeams
  <2>1. Tallied(NewTeam)
    <3>1. RecordsOf(NewTeam.given) = {}
      <4>1. \A u \in Trained : NewTeam.given[u].count = 0
        BY DEF NewTeam
      <4>2. \A p : ~(p \in RecordsOf(NewTeam.given))
        BY <4>1, RecordsOfIs
      <4> QED
        BY <4>2
    <3> QED
      <4>1. Cardinality({}) = 0 /\ NewTeam.books = [assigned |-> 0, logged |-> 0, bulk |-> 0]
        BY FS_EmptySet DEF NewTeam
      <4> QED
        BY <3>1, <4>1 DEF Tallied, GivenTo
  <2> QED
    BY <2>1 DEF GoodTeams
<1>13. NewTask \in TaskRows => NewTask \in GoodTasks
  BY DEF GoodTasks, NewTask
<1>14. NewCalendar \in CalendarRows => NewCalendar \in GoodCalendars
  BY DEF GoodCalendars, NewCalendar, Scheduled, ReminderStages
<1>15. NewDocument \in DocumentRows => NewDocument \in GoodDocuments
  BY DEF GoodDocuments, NewDocument
<1>16. NewUser \in UserRows => NewUser \in GoodUsers
  <2>1. OneLink(NewUser.links) /\ HadLink(NewUser.user, NewUser.links)
    BY DEF NewUser, OneLink, HadLink, Purposes
  <2>2. Proven(NewUser.mfa) /\ ListedLong(NewUser.session)
    BY DEF NewUser, Proven, ListedLong
  <2> QED
    BY <2>1, <2>2 DEF GoodUsers
<1>17. NewCompany \in CompanyRows => NewCompany \in GoodCompanies
  BY DEF GoodCompanies, NewCompany
<1>18. NewPack \in PackRows => NewPack \in GoodPacks
  BY DEF GoodPacks, NewPack, Missing, Failed
<1>19. NewChecklist \in ChecklistRows => NewChecklist \in GoodChecklists
  <2>1. /\ {t \in Template : NewChecklist.template[t] = "active"} = {}
        /\ {t \in Template : NewChecklist.edited[t] = "active"} = {}
    BY DEF NewChecklist
  <2>2. /\ Cardinality({t \in Template : NewChecklist.template[t] = "active"}) = 0
        /\ Cardinality({t \in Template : NewChecklist.edited[t] = "active"}) = 0
    BY <2>1, FS_EmptySet
  <2>3. \A c \in Contexts : NewChecklist.own[c] = MAX_APPROVAL_QUESTIONS
    BY DEF NewChecklist
  <2> QED
    BY <2>2, <2>3 DEF GoodChecklists, ActiveIn, Contexts, MAX_APPROVAL_QUESTIONS,
         MIN_APPROVAL_QUESTIONS
<1>20. NewMonitor \in MonitorRows => NewMonitor \in GoodMonitors
  BY DEF GoodMonitors, NewMonitor
<1>21. NewGroup \in GroupRows => NewGroup \in GoodGroups
  BY DEF GoodGroups, NewGroup
<1>22. NewSolution \in SolutionRows => NewSolution \in GoodSolutions
  BY DEF GoodSolutions, NewSolution
<1>23. NewPayer \in PayerRows => NewPayer \in GoodPayers
  <2>1. Booked(NewPayer) = {} /\ AlertsOf(NewPayer, 1) = {}
    BY DEF Booked, AlertsOf, NewPayer
  <2>2. CountOf(NewPayer, {}) = 0 /\ VolumeOf(NewPayer, {}) = 0
    BY DEF CountOf, VolumeOf, If
  <2>3. /\ NewPayer.baseline.count = 0 /\ NewPayer.baseline.volume = 0
        /\ \A t \in 1 .. 2 : ~NewPayer.payments[t].evaluated
    BY DEF NewPayer
  <2> QED
    BY <2>1, <2>2, <2>3 DEF GoodPayers, CountedOnce, LatestScored, ListedAlerted
<1>24. NewEvidence \in EvidenceRows => NewEvidence \in GoodEvidence
  BY DEF GoodEvidence, NewEvidence, Complete, Required, Flags
<1>25. NewImported \in ImportedRows => NewImported \in GoodImported
  BY DEF GoodImported, NewImported
<1>26. NewHub \in HubRows => NewHub \in GoodHubs
  BY DEF GoodHubs, NewHub, HealthCounted, OneDefault
<1>27. NewHook \in HookRows => NewHook \in GoodHooks
  BY DEF GoodHooks, NewHook
<1>28. NewCheck \in CheckRows => NewCheck \in GoodChecks
  BY DEF GoodChecks, NewCheck
<1>29. NewExamined \in ExaminedRows => NewExamined \in GoodExamined
  BY DEF GoodExamined, NewExamined
<1>30. NewScreened \in ScreenedRows => NewScreened \in GoodScreened
  BY DEF GoodScreened, NewScreened
<1>31. NewGenerated \in GeneratedRows => NewGenerated \in GoodGenerated
  <2>1. Retrieved(NewGenerated) = {} /\ Cardinality({}) = 0
    BY FS_EmptySet DEF Retrieved, NewGenerated
  <2> QED
    BY <2>1, RetrievalsFinite DEF GoodGenerated
<1>32. FirstRows[i] \in Tables[i] => FirstRows[i] \in Goods[i]
  BY <1>3, <1>4, <1>5, <1>6, <1>7, <1>8, <1>9, <1>10, <1>11, <1>12, <1>13,
     <1>14, <1>15, <1>16, <1>17, <1>18, <1>19, <1>20, <1>21, <1>22,
     <1>23, <1>24, <1>25, <1>26, <1>27, <1>28, <1>29, <1>30,
     <1>31
  DEF EntityKinds, Tables, FirstRows, Goods
<1> QED
  BY <1>1, <1>2, <1>32

-----------------------------------------------------------------------------
(* The inductive invariant: the rows of every kind, what requests have read   *)
(* of them and what they are going to commit have their types, and they are   *)
(* good as long as no outdated copy of them was committed; requests were      *)
(* about entities of these kinds.                                             *)
KindSound(i) == Typed(EntityKinds[i], Tables[i]) /\ Sound(EntityKinds[i], Goods[i])
OfSomeKind(e) == \E i \in DOMAIN EntityKinds : e \in EntityKinds[i]

IInv ==
    /\ WellFormed(Stops)
    /\ \A i \in DOMAIN EntityKinds : KindSound(i)
    /\ \A e \in touched : OfSomeKind(e)
    /\ \A q \in Requests : req[q] # Idle => OfSomeKind(req[q].of)

LEMMA WriterKeeps ==
    ASSUME IInv, NEW q \in Requests, NEW i \in DOMAIN EntityKinds, NEW e \in EntityKinds[i],
           Writer(q, i, e)
    PROVE  IInv'
<1>1. KeepsTo(q, e, Tables[i], Goods[i]) /\ e \in Entities
  BY OneKind DEF Writer
<1>2. PICK new : Ends(q, e, new, Stops)
  BY <1>1 DEF KeepsTo, WritesGood
<1>3. Writes(q, e, Stops)
  BY <1>2 DEF Writes
<1>4. WellFormed(Stops)'
  BY <1>1, <1>3, WritesWellFormed DEF IInv
<1>5. KindSound(i)'
  <2>1. EntityKinds[i] \subseteq Entities
    BY OneKind
  <2> QED
    BY <1>1, <2>1, GoodKeep DEF IInv, KindSound, KeepsTo
<1>6. ASSUME NEW j \in DOMAIN EntityKinds, j # i
      PROVE  KindSound(j)'
  <2>1. e \in Entities \ EntityKinds[j]
    BY <1>1, <1>6, OneKind
  <2> QED
    BY <1>3, <2>1, OthersKeep DEF IInv, KindSound
<1>7. /\ \A f \in touched' : OfSomeKind(f)
      /\ \A p \in Requests : req'[p] # Idle => OfSomeKind(req'[p].of)
  <2>1. touched' = touched \union {e}
    BY <1>1, <1>2, EndsChanges
  <2>2. \/ req' = req
        \/ \E then \in {"idle"} \union Stops :
             req' = [req EXCEPT ![q] = Saved(q, e, new, then)]
    BY <1>1, <1>2, EndsChanges
  <2>3. req = [p \in Requests |-> req[p]]
    BY DEF IInv, WellFormed
  <2>4. \A p \in Requests : req'[p] = req[p] \/ req'[p].of = e
    BY <2>2, <2>3 DEF Saved
  <2> QED
    BY <2>1, <2>4 DEF IInv, OfSomeKind
<1>8. OfSomeKind(e)' = OfSomeKind(e)
  BY DEF OfSomeKind
<1> QED
  BY <1>4, <1>5, <1>6, <1>7 DEF IInv, OfSomeKind

LEMMA CommitOrLoseKeeps ==
    ASSUME IInv, NEW q \in Requests, Commit(q) \/ Lose(q)
    PROVE  IInv'
<1>1. \A i \in DOMAIN EntityKinds : EntityKinds[i] \subseteq Entities /\ ByColumn(Tables[i])
  BY OneKind, AllByColumn
<1>2. WellFormed(Stops)'
  BY StopsApart, CommitsTo, LoseKeeps DEF IInv
<1>3. ASSUME NEW i \in DOMAIN EntityKinds
      PROVE  KindSound(i)'
  BY <1>1, StopsApart, CommitKeeps, LoseKeeps DEF IInv, KindSound
<1>4. touched' = touched
  BY DEF Commit, Lose
<1>5. \A p \in Requests : req'[p] # Idle => req[p] # Idle /\ req'[p].of = req[p].of
  <2>1. req = [p \in Requests |-> req[p]]
    BY DEF IInv, WellFormed
  <2>2. \/ req' = [req EXCEPT ![q] = Idle]
        \/ /\ req[q].pc = "save"
           /\ req' = [req EXCEPT ![q] = [pc |-> req[q].then, of |-> req[q].of]]
    BY <2>1 DEF Commit, Lose
  <2>3. Idle.pc # "save"
    BY DEF Idle
  <2> QED
    BY <2>1, <2>2, <2>3
<1> QED
  BY <1>2, <1>3, <1>4, <1>5 DEF IInv, OfSomeKind

LEMMA StutterKeepsAll == ASSUME IInv, UNCHANGED <<rows, req, raced, touched>> PROVE IInv'
<1>1. ASSUME NEW i \in DOMAIN EntityKinds
      PROVE  KindSound(i)'
  BY StutterKeeps DEF IInv, KindSound
<1>2. WellFormed(Stops)'
  BY StutterKeeps DEF IInv
<1> QED
  BY <1>1, <1>2 DEF IInv, OfSomeKind

LEMMA InitInvariant == Init => IInv
<1> SUFFICES ASSUME Init PROVE IInv
  OBVIOUS
<1>1. \A i \in DOMAIN EntityKinds : \A e \in EntityKinds[i] :
        rows[e] \in Tables[i] /\ rows[e] \in Goods[i]
  BY FirstGood DEF Init
<1>2. \A i \in DOMAIN EntityKinds : KindSound(i)
  BY <1>1, StartKeeps DEF Init, KindSound
<1> QED
  BY <1>2 DEF Init, RequestsInit, IInv, WellFormed, Shape

LEMMA StepInvariant == IInv /\ [Next]_vars => IInv'
<1> SUFFICES ASSUME IInv, [Next]_vars PROVE IInv'
  OBVIOUS
<1>1. CASE Next
  BY <1>1, NextWrites, WriterKeeps, CommitOrLoseKeeps, StutterKeepsAll DEF Pass
<1>2. CASE UNCHANGED vars
  BY <1>2, StutterKeepsAll DEF vars
<1> QED
  BY <1>1, <1>2

LEMMA Invariant == Spec => []IInv
BY InitInvariant, StepInvariant, PTL DEF Spec

-----------------------------------------------------------------------------
LEMMA InvariantTyped ==
    ASSUME IInv PROVE TypeOK
<1>1. ASSUME NEW e, OfSomeKind(e)
      PROVE  /\ e \in Entities
             /\ rows[e] \in RowsOf(e)
             /\ \A q \in Requests : req[q].pc = "save" /\ req[q].of = e
                  => req[q].seen \in RowsOf(e) /\ req[q].new \in RowsOf(e)
  <2>1. PICK i \in DOMAIN EntityKinds : e \in EntityKinds[i]
    BY <1>1 DEF OfSomeKind
  <2>2. e \in Entities /\ RowsOf(e) = Tables[i]
    BY <2>1, OneKind DEF RowsOf, KindOf
  <2> QED
    BY <2>1, <2>2 DEF IInv, KindSound, Typed
<1>2. \A e \in touched : rows[e] \in RowsOf(e)
  BY <1>1 DEF IInv
<1>3. ASSUME NEW q \in Requests, req[q] # Idle
      PROVE  req[q] \in RequestStates(RowsOf(req[q].of), Stops)
  <2>1. OfSomeKind(req[q].of) /\ Shape(req[q], Stops)
    BY <1>3 DEF IInv, WellFormed
  <2>2. CASE req[q] \in [pc : Stops, of : Entities]
    BY <2>2 DEF RequestStates
  <2>3. CASE /\ req[q].of \in Entities
             /\ req[q].then \in {"idle"} \union Stops
             /\ req[q] = [pc |-> "save", of |-> req[q].of, seen |-> req[q].seen,
                          new |-> req[q].new, then |-> req[q].then]
    <3>1. req[q].pc = "save"
      BY <2>3
    <3>2. req[q].seen \in RowsOf(req[q].of) /\ req[q].new \in RowsOf(req[q].of)
      BY <1>1, <2>1, <3>1
    <3> QED
      BY <2>3, <3>2 DEF RequestStates
  <2> QED
    BY <1>3, <2>1, <2>2, <2>3 DEF Shape
<1> QED
  BY <1>2, <1>3 DEF TypeOK, Pending, Stops

(* The rows of every entity that requests were about are of its kind, and a   *)
(* request in flight carries rows of the kind it is about, whatever requests  *)
(* overlap, commit and lose.                                                  *)
THEOREM RecordsTyped == Spec => []TypeOK
<1>1. IInv => TypeOK
  BY InvariantTyped
<1> QED
  BY <1>1, Invariant, PTL

LEMMA GoodRowsAre ==
    ASSUME IInv, NEW i \in DOMAIN EntityKinds, NEW e \in EntityKinds[i] \ raced
    PROVE  rows[e] \in Goods[i]
BY DEF IInv, KindSound, Sound

(* What was signed stays what was signed, for every entity of which no        *)
(* outdated copy was committed: a distributed board report, the one program   *)
(* in force and the approved assessment, a submitted transfer; and whoever    *)
(* completed an action did not verify it.                                     *)
THEOREM SignedStands == Spec => []AsSigned
<1>1. IInv => AsSigned
  <2> SUFFICES ASSUME IInv PROVE AsSigned
    OBVIOUS
  <2>1. /\ \A e \in Boards \ raced : rows[e] \in GoodBoards
        /\ \A e \in Programs \ raced : rows[e] \in GoodPrograms
        /\ \A e \in Solutions \ raced : rows[e] \in GoodSolutions
        /\ \A e \in Transfers \ raced : rows[e] \in GoodTransfers
        /\ \A e \in Reviews \ raced : rows[e] \in GoodReviews
    BY GoodRowsAre DEF EntityKinds, Goods
  <2>2. DistributedAsSigned
    BY <2>1 DEF DistributedAsSigned, GoodBoards
  <2>3. OneProgramAsSigned
    BY <2>1 DEF OneProgramAsSigned, GoodPrograms, Drafts
  <2>4. InForceAsApproved
    BY <2>1 DEF InForceAsApproved, GoodSolutions
  <2>5. SubmittedImmutable
    BY <2>1 DEF SubmittedImmutable, GoodTransfers
  <2>6. FourEyes
    BY <2>1 DEF FourEyes, GoodReviews
  <2> QED
    BY <2>2, <2>3, <2>4, <2>5, <2>6 DEF AsSigned
<1> QED
  BY <1>1, Invariant, PTL

LEMMA RatedByResult ==
    ASSUME NEW r \in GoodRisk, r.run.status \in {"completed", "approved"}
    PROVE  Recalculated([r EXCEPT !.framework.weights = r.run.by]).run = r.run
<1> DEFINE then == [r EXCEPT !.framework.weights = r.run.by]
<1>1. r \in RiskRows /\ r.run = Result(r.run, r.score, r.run.by)
  BY DEF GoodRisk
<1>2. /\ then \in RiskRows
      /\ then.run = r.run /\ then.score = r.score /\ then.framework.weights = r.run.by
  BY <1>1 DEF RiskRows, RunRow
<1> HIDE DEF then
<1>3. Recalculated(then)
        = [then EXCEPT !.run = Result(then.run, then.score, then.framework.weights)]
  BY <1>2, RecalculatedIs
<1>4. Recalculated(then).run = r.run
  BY <1>1, <1>2, <1>3 DEF RiskRows
<1> QED
  BY <1>4 DEF then

(* A rating on record is no better than what it is calculated from, for every *)
(* risk model and customer of which no outdated copy was committed: a         *)
(* submitted run has the rating of its scores, a residual stays within its    *)
(* inherent risk, and a checklist makes no customer low.                      *)
THEOREM RatingsStand == Spec => []RatingsSound
<1>1. IInv => RatingsSound
  <2> SUFFICES ASSUME IInv PROVE RatingsSound
    OBVIOUS
  <2>1. /\ \A e \in RiskModels \ raced : rows[e] \in GoodRisk
        /\ \A e \in Rescored \ raced : rows[e] \in GoodRescored
    BY GoodRowsAre DEF EntityKinds, Goods
  <2>2. RatedAsScored
    BY <2>1, RatedByResult DEF RatedAsScored, GoodRisk
  <2>3. ResidualBounded
    BY <2>1 DEF ResidualBounded, GoodRisk, GoodScore
  <2>4. ChecklistNeverLow
    BY <2>1 DEF ChecklistNeverLow, GoodRescored
  <2> QED
    BY <2>2, <2>3, <2>4 DEF RatingsSound
<1> QED
  BY <1>1, Invariant, PTL

LEMMA OneLinkCounts ==
    ASSUME NEW links, NEW x \in Purposes, OneLink(links)
    PROVE  Cardinality({n \in Numbers : links[x][n] = "unused"}) <= 1
<1> DEFINE S == {n \in Numbers : links[x][n] = "unused"}
<1>1. \A m, n \in S : m = n
  BY DEF OneLink
<1>2. CASE S = {}
  BY <1>2, FS_EmptySet
<1>3. ASSUME NEW n \in S
      PROVE  Cardinality(S) <= 1
  <2>1. S = {n}
    BY <1>1, <1>3
  <2>2. Cardinality({n}) = 1
    BY FS_Singleton
  <2> HIDE DEF S
  <2> QED
    BY <2>1, <2>2
<1> QED
  BY <1>2, <1>3

(* What one record says of another agrees with it, for every entity of which  *)
(* no outdated copy was committed: counted findings and assignments, the      *)
(* latest snapshot, the cancellation and the payments with Stripe, and the    *)
(* subscription and its invoice with what Stripe has last when the events     *)
(* were delivered in order, the price with the plan, a task with its trail,   *)
(* who is signed in with his links and sessions, a pack with the registers,   *)
(* the questions, the monitoring rules with their log, and the members of a   *)
(* group.                                                                     *)
THEOREM RegistersAgree == Spec => []BooksAgree
<1>1. IInv => BooksAgree
  <2> SUFFICES ASSUME IInv PROVE BooksAgree
    OBVIOUS
  <2>1. FindingsCounted
    <3>1. \A e \in Reviews \ raced : rows[e] \in GoodReviews
      BY GoodRowsAre DEF EntityKinds, Goods
    <3> QED
      BY <3>1 DEF FindingsCounted, GoodReviews
  <2>2. FindingsRemediated
    <3>1. \A e \in Controls \ raced : rows[e] \in GoodControls
      BY GoodRowsAre DEF EntityKinds, Goods
    <3> QED
      BY <3>1 DEF FindingsRemediated, GoodControls
  <2>3. LatestSnapshot
    <3>1. \A e \in Matrices \ raced : rows[e] \in GoodMatrices
      BY GoodRowsAre DEF EntityKinds, Goods
    <3> QED
      BY <3>1 DEF LatestSnapshot, GoodMatrices
  <2>4. AssignmentsCounted
    <3>1. \A e \in Teams \ raced : rows[e] \in GoodTeams
      BY GoodRowsAre DEF EntityKinds, Goods
    <3> QED
      BY <3>1 DEF AssignmentsCounted, GoodTeams, Tallied
  <2>5. TaskTraced
    <3>1. \A e \in Tasks \ raced : rows[e] \in GoodTasks
      BY GoodRowsAre DEF EntityKinds, Goods
    <3> QED
      BY <3>1 DEF TaskTraced, GoodTasks
  <2>6. MirrorsStripe /\ PriceOfPlan
    <3>1. \A e \in Accounts \ raced : rows[e] \in GoodAccounts
      BY GoodRowsAre DEF EntityKinds, Goods
    <3>2. \A r \in GoodAccounts : r \in AccountRows /\ PriceKept(r.subscription)
      BY DEF GoodAccounts
    <3>3. ASSUME NEW r \in GoodAccounts
          PROVE  Mirrored(r.subscription, r.invoice, r.stripe)
      <4> DEFINE s == r.subscription
                 x == r.stripe
                 i == r.invoice
      <4>1. InStep(s, x) /\ Invoiced(i, x)
        BY DEF GoodAccounts
      <4> HIDE DEF s, x, i
      <4>2. x.queue = <<>> => 1 .. Len(x.queue) = {}
        OBVIOUS
      <4>3. Mirrored(s, i, x)
        BY <4>1, <4>2 DEF Mirrored, InStep, Invoiced, Opening
      <4> QED
        BY <4>3 DEF s, x, i
    <3> QED
      BY <3>1, <3>2, <3>3 DEF MirrorsStripe, PriceOfPlan, PriceKept
  <2>7. SignedInSound
    <3>1. /\ \A e \in Users \ raced : rows[e] \in GoodUsers
          /\ \A e \in Companies \ raced : rows[e] \in GoodCompanies
      BY GoodRowsAre DEF EntityKinds, Goods
    <3>2. ASSUME NEW r \in GoodUsers, NEW x \in Purposes
          PROVE  Cardinality({n \in Numbers : r.links[x][n] = "unused"}) <= 1
      BY OneLinkCounts DEF GoodUsers
    <3>3. ASSUME NEW r \in GoodUsers
          PROVE  /\ r.user.verified => \E n \in Numbers : r.links["verify"][n] = "spent"
                 /\ r.mfa.on => r.mfa.secret # 0 /\ r.mfa.proved # 0
      BY DEF GoodUsers, HadLink, Proven
    <3>4. ASSUME NEW r \in GoodUsers, NEW n \in Numbers, r.session[n].out
          PROVE  ~Accepting(r, n)
      <4>1. r \in UserRows /\ r.session[n].left <= r.session[n].listed
        BY <3>4 DEF GoodUsers, ListedLong
      <4>2. r.session[n].left \in Nat /\ r.session[n].listed \in Nat
        BY <4>1, SessionsAssumption DEF UserRows
      <4> QED
        BY <4>1, <4>2 DEF Accepting, Valid
    <3>5. \A r \in GoodUsers : UserSound(r)
      BY <3>2, <3>3, <3>4 DEF UserSound
    <3>6. \A r \in GoodCompanies : CompanySound(r)
      BY DEF GoodCompanies, CompanySound
    <3> QED
      BY <3>1, <3>5, <3>6 DEF SignedInSound
  <2>8. PackOfItsTime
    <3>1. \A e \in Packs \ raced : rows[e] \in GoodPacks
      BY GoodRowsAre DEF EntityKinds, Goods
    <3> QED
      BY <3>1, AskedAssumption DEF PackOfItsTime, GoodPacks
  <2>9. QuestionsRemain
    <3>1. \A e \in Checklists \ raced : rows[e] \in GoodChecklists
      BY GoodRowsAre DEF EntityKinds, Goods
    <3> QED
      BY <3>1 DEF QuestionsRemain, GoodChecklists
  <2>10. LoggedRulesKept
    <3>1. \A e \in Monitors \ raced : rows[e] \in GoodMonitors
      BY GoodRowsAre DEF EntityKinds, Goods
    <3> QED
      BY <3>1 DEF LoggedRulesKept, GoodMonitors, OnRecord
  <2>11. MembersOnce
    <3>1. \A e \in Groups \ raced : rows[e] \in GoodGroups
      BY GoodRowsAre DEF EntityKinds, Goods
    <3> QED
      BY <3>1 DEF MembersOnce, GoodGroups
  <2> QED
    BY <2>1, <2>2, <2>3, <2>4, <2>5, <2>6, <2>7, <2>8, <2>9, <2>10, <2>11 DEF BooksAgree
<1> QED
  BY <1>1, Invariant, PTL

-----------------------------------------------------------------------------
(* What outlasts overlapping requests, for the kinds of which it does: the    *)
(* history of a policy, the receipts of a transfer, the snapshots of a        *)
(* generated program, the decisions on a customer and the screenings.         *)
PoliciesHeld == Held(PolicyIds, LastingPolicies, PolicyFits, PolicyApart)
ExaminedHeld == Held(Examined, LastingExamined, ExaminedFits, ExaminedApart)
ScreenedHeld == Held(Screened, LastingScreened, ScreenedFits, ScreenedApart)

Lasting ==
    /\ PoliciesHeld
    /\ ReceiptsHeld /\ LinkDue
    /\ GeneratedHeld /\ WithinLimit
    /\ ExaminedHeld
    /\ ScreenedHeld

LEMMA LastingKinds ==
    /\ PolicyIds \subseteq Entities /\ ReceiptChains \subseteq Entities
    /\ Generated \subseteq Entities /\ Examined \subseteq Entities /\ Screened \subseteq Entities
<1>1. \A i \in DOMAIN EntityKinds : EntityKinds[i] \subseteq Entities
  BY OneKind
<1> QED
  BY <1>1 DEF EntityKinds

LEMMA LastingInit == Init => Lasting
<1> SUFFICES ASSUME Init PROVE Lasting
  OBVIOUS
<1>1. ASSUME NEW i \in DOMAIN EntityKinds, NEW e \in EntityKinds[i]
      PROVE  rows[e] = FirstRows[i] /\ rows[e] \in Tables[i]
  BY OneKind, NewRows DEF Init, KindOf, NewOf, RowsOf
<1>2. /\ \A e \in PolicyIds : rows[e] = NewPolicy /\ rows[e] \in PolicyRows
      /\ \A e \in ReceiptChains : rows[e] = NewReceipts /\ rows[e] \in ReceiptRows
      /\ \A e \in Generated : rows[e] = NewGenerated /\ rows[e] \in GeneratedRows
      /\ \A e \in Examined : rows[e] = NewExamined /\ rows[e] \in ExaminedRows
      /\ \A e \in Screened : rows[e] = NewScreened /\ rows[e] \in ScreenedRows
  BY <1>1 DEF EntityKinds, FirstRows, Tables
<1>3. PoliciesHeld
  <2>1. \A e \in PolicyIds : rows[e] \in LastingPolicies
    BY <1>2 DEF LastingPolicies, NewPolicy, VersionOnRecord
  <2> QED
    BY <2>1, StartHolds DEF Init, PoliciesHeld
<1>4. ReceiptsHeld
  <2>1. \A e \in ReceiptChains : rows[e] \in LastingReceipts
    BY <1>2 DEF LastingReceipts, NewReceipts, Active
  <2> QED
    BY <2>1, StartHolds DEF Init, ReceiptsHeld
<1>5. LinkDue
  <2>1. \A q \in Requests : req[q].pc = "idle"
    BY DEF Init, RequestsInit, Idle
  <2> QED
    BY <2>1, LinksApart DEF LinkDue, Saving
<1>6. GeneratedHeld
  <2>1. \A e \in Generated : rows[e] \in LastingGenerated
    BY <1>2 DEF LastingGenerated, NewGenerated
  <2> QED
    BY <2>1, StartHolds DEF Init, GeneratedHeld
<1>7. WithinLimit
  <2> SUFFICES ASSUME NEW e \in Generated
               PROVE  Cardinality(Retrieved(rows[e])) + Cardinality(Retrieving(e))
                        <= MaxRetrievals + Cardinality(Requests) - 1
    BY DEF WithinLimit
  <2>1. Retrieved(rows[e]) = {}
    BY <1>2 DEF Retrieved, NewGenerated
  <2>2. Retrieving(e) = {}
    BY DEF Init, RequestsInit, Idle, Retrieving, Saving
  <2>3. Cardinality({}) = 0
    BY FS_EmptySet
  <2> QED
    BY <2>1, <2>2, <2>3, RetrievalsFinite
<1>8. ExaminedHeld
  <2>1. \A e \in Examined : rows[e] \in LastingExamined
    BY <1>2 DEF LastingExamined, NewExamined
  <2> QED
    BY <2>1, StartHolds DEF Init, ExaminedHeld
<1>9. ScreenedHeld
  <2>1. \A e \in Screened : rows[e] \in LastingScreened
    BY <1>2 DEF LastingScreened, NewScreened
  <2> QED
    BY <2>1, StartHolds DEF Init, ScreenedHeld
<1> QED
  BY <1>3, <1>4, <1>5, <1>6, <1>7, <1>8, <1>9 DEF Lasting

LEMMA LastingWriter ==
    ASSUME IInv, Lasting, NEW q \in Requests, NEW i \in DOMAIN EntityKinds,
           NEW e \in EntityKinds[i], Writer(q, i, e)
    PROVE  Lasting'
<1>1. WellFormed(Stops) /\ Writes(q, e, Stops)
  BY DEF IInv, Writer, KeepsTo, WritesGood, Writes
<1>2. ASSUME NEW j \in DOMAIN EntityKinds, j # i
      PROVE  e \in Entities \ EntityKinds[j]
  BY <1>2, OneKind
<1>3. PoliciesHeld'
  <2>1. CASE i = 5
    BY <1>1, <2>1, LastingKinds, PolicyJoins DEF Lasting, PoliciesHeld, Writer, AskedOf, EntityKinds
  <2>2. CASE i # 5
    <3>1. e \in Entities \ PolicyIds
      BY <1>2, <2>2 DEF EntityKinds
    <3> QED
      BY <1>1, <3>1, OthersHold DEF Lasting, PoliciesHeld
  <2> QED
    BY <2>1, <2>2
<1>4. ReceiptsHeld' /\ LinkDue'
  <2>1. CASE i = 12
    BY <1>1, <2>1, LastingKinds, ReceiptsJoin DEF Lasting, Writer, AskedOf, EntityKinds
  <2>2. CASE i # 12
    <3>1. e \in Entities \ ReceiptChains
      BY <1>2, <2>2 DEF EntityKinds
    <3>2. ReceiptsHeld'
      BY <1>1, <3>1, OthersHold DEF Lasting, ReceiptsHeld
    <3> QED
      BY <1>1, <3>1, <3>2, LastingKinds, LinkDueStays DEF Lasting
  <2> QED
    BY <2>1, <2>2
<1>5. GeneratedHeld' /\ WithinLimit'
  <2>1. CASE i = 10
    BY <1>1, <2>1, LastingKinds, GeneratedJoins DEF Lasting, Writer, AskedOf, EntityKinds
  <2>2. CASE i # 10
    <3>1. e \in Entities \ Generated
      BY <1>2, <2>2 DEF EntityKinds
    <3>2. GeneratedHeld'
      BY <1>1, <3>1, OthersHold DEF Lasting, GeneratedHeld
    <3> QED
      BY <1>1, <3>1, <3>2, LastingKinds, WithinLimitStays DEF Lasting
  <2> QED
    BY <2>1, <2>2
<1>6. ExaminedHeld'
  <2>1. CASE i = 34
    BY <1>1, <2>1, LastingKinds, ExaminedJoins DEF Lasting, ExaminedHeld, Writer, AskedOf, EntityKinds
  <2>2. CASE i # 34
    <3>1. e \in Entities \ Examined
      BY <1>2, <2>2 DEF EntityKinds
    <3> QED
      BY <1>1, <3>1, OthersHold DEF Lasting, ExaminedHeld
  <2> QED
    BY <2>1, <2>2
<1>7. ScreenedHeld'
  <2>1. CASE i = 35
    BY <1>1, <2>1, LastingKinds, ScreenedJoins DEF Lasting, ScreenedHeld, Writer, AskedOf, EntityKinds
  <2>2. CASE i # 35
    <3>1. e \in Entities \ Screened
      BY <1>2, <2>2 DEF EntityKinds
    <3> QED
      BY <1>1, <3>1, OthersHold DEF Lasting, ScreenedHeld
  <2> QED
    BY <2>1, <2>2
<1> QED
  BY <1>3, <1>4, <1>5, <1>6, <1>7 DEF Lasting

LEMMA LastingCommit ==
    ASSUME IInv, Lasting, NEW q \in Requests, Commit(q)
    PROVE  Lasting'
<1>1. WellFormed(Stops)
  BY DEF IInv
<1>2. PoliciesHeld'
  BY <1>1, LastingKinds, StopsApart, PolicyClosed, CommitHolds DEF Lasting, PoliciesHeld
<1>3. ReceiptsHeld' /\ LinkDue'
  <2>1. ReceiptsHeld'
    BY <1>1, LastingKinds, StopsApart, ReceiptsClosed, CommitHolds DEF Lasting, ReceiptsHeld
  <2> QED
    BY <1>1, <2>1, LastingKinds, LinkDueCommits DEF Lasting
<1>4. GeneratedHeld' /\ WithinLimit'
  <2>1. GeneratedHeld'
    BY <1>1, LastingKinds, StopsApart, GeneratedClosed, CommitHolds DEF Lasting, GeneratedHeld
  <2> QED
    BY <1>1, <2>1, LastingKinds, WithinLimitCommits DEF Lasting
<1>5. ExaminedHeld'
  BY <1>1, LastingKinds, StopsApart, ExaminedClosed, CommitHolds DEF Lasting, ExaminedHeld
<1>6. ScreenedHeld'
  BY <1>1, LastingKinds, StopsApart, ScreenedClosed, CommitHolds DEF Lasting, ScreenedHeld
<1> QED
  BY <1>2, <1>3, <1>4, <1>5, <1>6 DEF Lasting

LEMMA LastingLose ==
    ASSUME IInv, Lasting, NEW q \in Requests, Lose(q)
    PROVE  Lasting'
<1>1. WellFormed(Stops)
  BY DEF IInv
<1>2. LinkDue' /\ WithinLimit'
  BY <1>1, LastingKinds, LinkDueStays, WithinLimitStays DEF Lasting
<1>3. PoliciesHeld' /\ ReceiptsHeld' /\ GeneratedHeld' /\ ExaminedHeld' /\ ScreenedHeld'
  BY <1>1, LoseHolds
  DEF Lasting, PoliciesHeld, ReceiptsHeld, GeneratedHeld, ExaminedHeld, ScreenedHeld
<1> QED
  BY <1>2, <1>3 DEF Lasting

LEMMA LastingStutter == ASSUME Lasting, UNCHANGED <<rows, req>> PROVE Lasting'
<1>1. PoliciesHeld' /\ ReceiptsHeld' /\ GeneratedHeld' /\ ExaminedHeld' /\ ScreenedHeld'
  BY StutterHolds
  DEF Lasting, PoliciesHeld, ReceiptsHeld, GeneratedHeld, ExaminedHeld, ScreenedHeld
<1>2. LinkDue' /\ WithinLimit'
  BY DEF Lasting, LinkDue, WithinLimit, Saving, Retrieving
<1> QED
  BY <1>1, <1>2 DEF Lasting

LEMMA LastingStep == IInv /\ Lasting /\ [Next]_vars => Lasting'
<1> SUFFICES ASSUME IInv, Lasting, [Next]_vars PROVE Lasting'
  OBVIOUS
<1>1. CASE Next
  BY <1>1, NextWrites, LastingWriter, LastingCommit, LastingLose, LastingStutter DEF Pass
<1>2. CASE UNCHANGED vars
  BY <1>2, LastingStutter DEF vars
<1> QED
  BY <1>1, <1>2

LEMMA LastingInvariant == Spec => [](IInv /\ Lasting)
<1>1. Init => IInv /\ Lasting
  BY InitInvariant, LastingInit
<1>2. IInv /\ Lasting /\ [Next]_vars => (IInv /\ Lasting)'
  BY StepInvariant, LastingStep
<1> QED
  BY <1>1, <1>2, PTL DEF Spec

(* What is on record is complete.  Where requests overlap too, an attestation *)
(* names a published version, every version of a program has its snapshot,    *)
(* the retrievals go past their limit by less than the requests in flight, a  *)
(* voided receipt has a replacement in force, a decision is as its facts      *)
(* recommend and a screening as it was reviewed; and unless an outdated copy  *)
(* was committed, the retrievals keep their limit, a document has its bytes,  *)
(* a checklist its files, an import its customers, an integration its         *)
(* failures, a baseline the payments once, an alert the score of the answers  *)
(* and a listed payment an alert.                                             *)
THEOREM HistoryStands == Spec => []HistoryKept
<1>1. IInv /\ Lasting => HistoryKept
  <2> SUFFICES ASSUME IInv, Lasting PROVE HistoryKept
    OBVIOUS
  <2>1. TypeOK
    BY InvariantTyped
  <2>2. AttestedOnRecord
    <3>1. \A e \in PolicyIds : rows[e] \in LastingPolicies
      BY DEF Lasting, PoliciesHeld, Held
    <3> QED
      BY <3>1 DEF AttestedOnRecord, LastingPolicies, VersionOnRecord
  <2>3. VersionsKept
    <3>1. \A e \in Generated : rows[e] \in LastingGenerated
      BY DEF Lasting, GeneratedHeld, Held
    <3>2. ASSUME NEW e \in Generated
          PROVE  Cardinality(Retrieved(rows[e])) <= MaxRetrievals + Cardinality(Requests) - 1
      <4>1. Cardinality(Retrieved(rows[e])) + Cardinality(Retrieving(e))
              <= MaxRetrievals + Cardinality(Requests) - 1
        BY DEF Lasting, WithinLimit
      <4>2. Retrieving(e) \subseteq Requests
        BY DEF Retrieving
      <4>3. /\ Cardinality(Retrieved(rows[e])) \in Nat /\ Cardinality(Retrieving(e)) \in Nat
            /\ Cardinality(Requests) \in Nat /\ MaxRetrievals \in Nat
        BY <4>2, RetrievalsFinite
      <4> QED
        BY <4>1, <4>3
    <3>3. \A e \in Generated \ raced : rows[e] \in GoodGenerated
      BY GoodRowsAre DEF EntityKinds, Goods
    <3> QED
      BY <3>1, <3>2, <3>3 DEF VersionsKept, LastingGenerated, GoodGenerated, Kept
  <2>4. ReceiptInForce
    <3>1. \A e \in ReceiptChains : rows[e] \in LastingReceipts
      BY DEF Lasting, ReceiptsHeld, Held
    <3> QED
      BY <3>1 DEF ReceiptInForce, LastingReceipts, Active
  <2>5. DecidedAsNoted
    <3>1. /\ \A e \in Examined : rows[e] \in LastingExamined
          /\ \A e \in Examined \ raced : rows[e] \in GoodExamined
      BY GoodRowsAre DEF Lasting, ExaminedHeld, Held, EntityKinds, Goods
    <3> SUFFICES ASSUME NEW e \in Examined, rows[e].record.status # "none"
                 PROVE  LET r == rows[e].record
                            worse(f) == IF f \in {"owner", "wealth"} THEN r.facts \ {f}
                                        ELSE r.facts \union {f}
                        IN  /\ \A f \in Facts :
                                 Caution[Recommended(EcddScore(worse(f)), worse(f))]
                                   >= Caution[r.recommendation]
                            /\ "media" \in r.facts => r.recommendation = "reject"
                            /\ "pep" \in r.facts => r.recommendation # "approve"
                            /\ e \notin raced /\ r.notes # "none" => r.notes = r.status
      BY DEF DecidedAsNoted
    <3> DEFINE d == rows[e].record
    <3>2. d.recommendation = Recommended(EcddScore(d.facts), d.facts) /\ d.facts \in SUBSET Facts
      BY <3>1 DEF LastingExamined, Advised, ExaminedRows
    <3>3. e \notin raced /\ d.notes # "none" => d.notes = d.status
      BY <3>1 DEF GoodExamined
    <3> HIDE DEF d
    <3>4. /\ "media" \in d.facts => d.recommendation = "reject"
          /\ "pep" \in d.facts => d.recommendation # "approve"
      BY <3>2 DEF Recommended
    <3> QED
      BY <3>2, <3>3, <3>4, MoreCaution DEF d
  <2>6. ScreenedAsAnswered
    <3>1. /\ \A e \in Screened : rows[e] \in LastingScreened
          /\ \A e \in Screened \ raced : rows[e] \in GoodScreened
      BY GoodRowsAre DEF Lasting, ScreenedHeld, Held, EntityKinds, Goods
    <3> QED
      BY <3>1 DEF ScreenedAsAnswered, LastingScreened, GoodScreened
  <2>7. DocumentsKept
    <3>1. \A e \in Files \ raced : rows[e] \in GoodDocuments
      BY GoodRowsAre DEF EntityKinds, Goods
    <3> QED
      BY <3>1 DEF DocumentsKept, GoodDocuments, Found
  <2>8. EvidenceOnFile
    <3>1. \A e \in OnFile \ raced : rows[e] \in GoodEvidence
      BY GoodRowsAre DEF EntityKinds, Goods
    <3>2. ASSUME NEW r \in GoodEvidence
          PROVE  /\ r.checklist["complete"] <=> \A f \in Required(r) : r.checklist[f]
                 /\ r.checklist["ubo_identified"] => r.files.owner # "none"
                 /\ r.checklist["identity"] => r.files.identity # "none"
                 /\ \A f \in {"pep", "sanctions", "ubo_screened"} : r.checklist[f] =>
                      \E t \in ScreeningTypes : FlagOf(t) = f /\ r.cleared[t]
      <4>1. Complete(r)
        BY DEF GoodEvidence
      <4>2. \A f \in {"ubo_identified", "identity", "pep", "sanctions", "ubo_screened"} :
              r.checklist[f] => OnFileFor(r, f)
        BY DEF GoodEvidence, Flags
      <4> QED
        BY <4>1, <4>2 DEF Complete, OnFileFor, FlagsOfScreenings
    <3> QED
      BY <3>1, <3>2 DEF EvidenceOnFile
  <2>9. ImportedOnce
    <3>1. \A e \in Imported \ raced : rows[e] \in GoodImported
      BY GoodRowsAre DEF EntityKinds, Goods
    <3> QED
      BY <3>1 DEF ImportedOnce, GoodImported
  <2>10. ConnectionsCounted
    <3>1. /\ \A e \in Hubs \ raced : rows[e] \in GoodHubs
          /\ \A e \in Hooks \ raced : rows[e] \in GoodHooks
          /\ \A e \in Checks \ raced : rows[e] \in GoodChecks
      BY GoodRowsAre DEF EntityKinds, Goods
    <3> QED
      BY <3>1 DEF ConnectionsCounted, GoodHubs, HealthCounted, OneDefault, GoodHooks, GoodChecks
  <2>11. BaselineCountsOnce /\ LatestAlertScored /\ BlacklistedAlerted
    <3>1. \A e \in Payers \ raced : rows[e] \in GoodPayers
      BY GoodRowsAre DEF EntityKinds, Goods
    <3>2. BaselineCountsOnce
      BY <3>1 DEF BaselineCountsOnce, GoodPayers, CountedOnce
    <3>3. ASSUME NEW r \in GoodPayers, AlertsOf(r, 1) # {}
          PROVE  r.alerts[Max(AlertsOf(r, 1))].final
                   \in {<<>>, <<FinalApprovalScore(r, r.alerts[Max(AlertsOf(r, 1))].score)>>}
      <4> DEFINE S == AlertsOf(r, 1)
      <4>1. S \in SUBSET (0 .. 2) /\ S # {}
        BY <3>3 DEF AlertsOf
      <4> HIDE DEF S
      <4>2. Max(S) \in S /\ \A b \in S : b <= Max(S)
        BY <4>1, HighestOf
      <4>3. Weighed(r, Max(S))
        BY <4>2 DEF GoodPayers, LatestScored, S
      <4> QED
        BY <4>3 DEF Weighed, S
    <3>4. LatestAlertScored
      BY <3>1, <3>3 DEF LatestAlertScored
    <3>5. BlacklistedAlerted
      BY <3>1 DEF BlacklistedAlerted, GoodPayers, ListedAlerted, Listed, Booked
    <3> QED
      BY <3>2, <3>4, <3>5
  <2> QED
    BY <2>1, <2>2, <2>3, <2>4, <2>5, <2>6, <2>7, <2>8, <2>9, <2>10, <2>11 DEF HistoryKept
<1> QED
  BY <1>1, LastingInvariant, PTL

=============================================================================
