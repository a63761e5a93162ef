--------------------------- MODULE JobLock_proofs ---------------------------
(***************************************************************************)
(* Theorems about JobLock, for any number of workers, tries and ticks:     *)
(* until Redis fails a SET or a key expires under its job, the lock        *)
(* excludes.                                                               *)
(*                                                                         *)
(* MutualExclusion is not inductive: HoldsKey is, and it implies it.  The  *)
(* key cannot be two workers' at once, a busy worker's key does not expire *)
(* without being noted in lapsed, and the only DEL is a busy worker's.     *)
(***************************************************************************)
EXTENDS JobLock, TLAPS

(* Every variable keeps its type, outages and crashes included. *)
THEOREM LockTypeCorrect == Spec => []TypeOK
  <1>1. Init => TypeOK
    <2>1. Init => lapsed \in BOOLEAN
      BY DEF Init
    <2>. QED
      BY <2>1, TicksAssumption, AttemptsAssumption DEF Init, TypeOK
  <1>2. TypeOK /\ [Next]_vars => TypeOK'
    <2>. SUFFICES ASSUME TypeOK, [Next]_vars PROVE TypeOK'
      OBVIOUS
    <2>. USE TicksAssumption, AttemptsAssumption, FreeAssumption DEF TypeOK
    <2>1. CASE UNCHANGED vars
      BY <2>1 DEF vars
    <2>2. CASE Tick
      BY <2>2 DEF Tick
    <2>3. CASE Expire
      BY <2>3 DEF Expire
    <2>4. ASSUME NEW w \in Workers, Due(w) /\ EnterJob(w), key' \in {key, w}, UNCHANGED <<tick, runs>>,
                  lapsed' \in BOOLEAN
          PROVE  TypeOK'
      BY <2>4 DEF Due, EnterJob
    <2>5. ASSUME NEW w \in Workers, Step(w) PROVE TypeOK'
      <3>1. CASE Acquire(w)
        BY <2>4, <3>1 DEF Acquire, Due, EnterJob
      <3>2. CASE Skip(w)
        BY <3>2 DEF Skip, Due
      <3>3. CASE Misfire(w)
        BY <3>3 DEF Misfire
      <3>. DEFINE run(d) == [worker |-> w, tick |-> fired[w], done |-> d]
      <3>a. \A d \in BOOLEAN : run(d) \in [worker : Workers, tick : 0 .. MaxTicks, done : BOOLEAN]
        OBVIOUS
      <3>b. runs' \in {runs, runs \union {run(TRUE)}, runs \union {run(FALSE)}} =>
              runs' \subseteq [worker : Workers, tick : 0 .. MaxTicks, done : BOOLEAN]
        BY <3>a
      <3>. HIDE DEF run
      <3>4. CASE Succeed(w)
        <4>1. runs' = runs \union {run(TRUE)}
          BY <3>4 DEF Succeed, run
        <4>. QED
          BY <3>4, <3>b, <4>1 DEF Succeed
      <3>5. CASE Retry(w)
        BY <3>5 DEF Retry
      <3>6. CASE GiveUp(w)
        <4>1. runs' = runs \union {run(FALSE)}
          BY <3>6 DEF GiveUp, run
        <4>. QED
          BY <3>6, <3>b, <4>1 DEF GiveUp
      <3>7. CASE Release(w)
        BY <3>7 DEF Release
      <3>8. CASE FailOpen(w)
        BY <2>4, <3>8 DEF FailOpen
      <3>9. CASE ReleaseFails(w)
        BY <3>9 DEF ReleaseFails
      <3>. QED
        BY <2>5, <3>1, <3>2, <3>3, <3>4, <3>5, <3>6, <3>7, <3>8, <3>9 DEF Step
    <2>6. ASSUME NEW w \in Workers, Crash(w) PROVE TypeOK'
      BY <2>6 DEF Crash
    <2>7. ASSUME NEW w \in Workers, Restart(w) PROVE TypeOK'
      BY <2>7 DEF Restart
    <2>. QED
      BY <2>1, <2>2, <2>3, <2>5, <2>6, <2>7 DEF Next
  <1>. QED
    BY <1>1, <1>2, PTL DEF Spec

LEMMA KeyHeldStep == TypeOK /\ HoldsKey /\ [Next]_vars => HoldsKey'
  <1>. SUFFICES ASSUME TypeOK, HoldsKey, [Next]_vars PROVE HoldsKey'
    OBVIOUS
  <1>. USE FreeAssumption DEF TypeOK, HoldsKey, Busy
  <1>1. CASE UNCHANGED vars
    BY <1>1 DEF vars
  <1>2. CASE Tick
    BY <1>2 DEF Tick
  <1>3. CASE Expire
    BY <1>3 DEF Expire
  <1>4. ASSUME NEW w \in Workers, Step(w) PROVE HoldsKey'
    <2>1. CASE Acquire(w)
      BY <2>1 DEF Acquire, Due, EnterJob
    <2>2. CASE Skip(w) \/ Misfire(w) \/ Retry(w)
      BY <2>2 DEF Skip, Misfire, Retry
    <2>3. CASE Succeed(w) \/ GiveUp(w)
      BY <2>3 DEF Succeed, GiveUp
    <2>4. CASE Release(w)
      BY <2>4 DEF Release
    <2>5. CASE FailOpen(w)
      BY <2>5 DEF FailOpen
    <2>6. CASE ReleaseFails(w)
      BY <2>6 DEF ReleaseFails
    <2>. QED
      BY <1>4, <2>1, <2>2, <2>3, <2>4, <2>5, <2>6 DEF Step
  <1>5. ASSUME NEW w \in Workers, Crash(w) \/ Restart(w) PROVE HoldsKey'
    BY <1>5 DEF Crash, Restart
  <1>. QED
    BY <1>1, <1>2, <1>3, <1>4, <1>5 DEF Next

LEMMA KeyHeld == Spec => []HoldsKey
  <1>1. Init => HoldsKey
    BY DEF Init, HoldsKey, Busy
  <1>. QED
    BY <1>1, KeyHeldStep, LockTypeCorrect, PTL DEF Spec

(* Two workers never run the job at the same time, whichever of them crash, *)
(* until Redis fails a SET or a job outlasts its key.                       *)
THEOREM LockExcludes == Spec => []MutualExclusion
  <1>1. HoldsKey => MutualExclusion
    BY DEF HoldsKey, MutualExclusion
  <1>. QED
    BY <1>1, KeyHeld, PTL

(* Until then the ownerless DEL of the finally only ever deletes the key of *)
(* the worker that runs it.                                                 *)
THEOREM ReleaseIsOwn == Spec => ReleasesOwnKey
  <1>1. HoldsKey /\ [Next]_vars => [\A w \in Workers : Release(w) => lapsed \/ key = w]_vars
    BY DEF HoldsKey, Busy, Release
  <1>. QED
    BY <1>1, KeyHeld, PTL DEF Spec, ReleasesOwnKey

=============================================================================
