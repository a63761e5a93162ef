------------------------------- MODULE JobLock -------------------------------
(***************************************************************************)
(* One cron job of app/scheduler.py under the Redis lock of                *)
(* app/services/distributed_lock.py.                                       *)
(*                                                                         *)
(* Each uvicorn worker has its own scheduler and its own timer, so each    *)
(* worker fires the job once per cron tick, at its own moment.  job_lock   *)
(* decides who runs it: SET NX EX before the job, an unconditional DEL     *)
(* after it.  The key has no owner: the value is "1", and key below        *)
(* records who set it only for the properties.                             *)
(***************************************************************************)
EXTENDS Naturals

CONSTANTS
    Workers,      \* uvicorn workers
    Attempts,     \* tries of _run_with_retry
    MaxTicks,     \* bound: the cron ticks looked at
    Free          \* the key is not in Redis

ASSUME AttemptsAssumption == Attempts \in Nat \ {0}
ASSUME TicksAssumption == MaxTicks \in Nat
ASSUME FreeAssumption == Free \notin Workers

VARIABLES
    tick,      \* how often cron time has come
    fired,     \* the last tick each worker's scheduler has handled
    pc,        \* where each worker's job is
    attempt,   \* the try of _run_with_retry each worker is at
    key,       \* history of job_lock:<name>: the worker that set it, or Free
    runs,      \* history: the runs that came to an end
    lapsed     \* history: Redis failed a SET, or a key expired under its job

vars == <<tick, fired, pc, attempt, key, runs, lapsed>>

-----------------------------------------------------------------------------
Init ==
    /\ tick = 0
    /\ fired = [w \in Workers |-> 0]
    /\ pc = [w \in Workers |-> "idle"]
    /\ attempt = [w \in Workers |-> 0]
    /\ key = Free
    /\ runs = {}
    /\ lapsed = FALSE

(* The job is between the lock's yield and its finally. *)
Busy(w) == pc[w] \in {"job", "release"}

Tick ==
    /\ tick < MaxTicks
    /\ tick' = tick + 1
    /\ UNCHANGED <<fired, pc, attempt, key, runs, lapsed>>

(* Mutant of EnterJob: the tries are counted from zero. *)
EnterJobAtZero(w) ==
    /\ pc' = [pc EXCEPT ![w] = "job"]
    /\ attempt' = [attempt EXCEPT ![w] = 0]

EnterJob(w) ==
    /\ pc' = [pc EXCEPT ![w] = "job"]
    /\ attempt' = [attempt EXCEPT ![w] = 1]

(* The scheduler of an idle worker handles a tick. *)
Due(w) ==
    /\ pc[w] = "idle"
    /\ fired[w] < tick
    /\ fired' = [fired EXCEPT ![w] = tick]

(* Mutant of Acquire: SET without NX. *)
AcquireAnyway(w) ==
    /\ Due(w)
    /\ key' = w
    /\ EnterJob(w)
    /\ UNCHANGED <<tick, runs, lapsed>>

Acquire(w) ==
    /\ Due(w)
    /\ key = Free
    /\ key' = w
    /\ EnterJob(w)
    /\ UNCHANGED <<tick, runs, lapsed>>

(* Mutant of Skip: the job is skipped although the key is free. *)
SkipAnyway(w) ==
    /\ Due(w)
    /\ UNCHANGED <<tick, pc, attempt, key, runs, lapsed>>

(* The SET was refused: the job is skipped. *)
Skip(w) ==
    /\ Due(w)
    /\ key # Free
    /\ UNCHANGED <<tick, pc, attempt, key, runs, lapsed>>

(* The SET raised, whether or not Redis applied it: the lock is taken to be *)
(* acquired.  A deployment without REDIS_URL does this at every tick, with  *)
(* a release that deletes nothing.                                          *)
FailOpen(w) ==
    /\ Due(w)
    /\ key' \in {key} \union (IF key = Free THEN {w} ELSE {})
    /\ EnterJob(w)
    /\ lapsed' = TRUE
    /\ UNCHANGED <<tick, runs>>

(* A job has at most one instance: a tick that comes while the worker still *)
(* runs it is passed over.                                                  *)
Misfire(w) ==
    /\ Busy(w)
    /\ fired[w] < tick
    /\ fired' = [fired EXCEPT ![w] = tick]
    /\ UNCHANGED <<tick, pc, attempt, key, runs, lapsed>>

(* fn() returns. *)
Succeed(w) ==
    /\ pc[w] = "job"
    /\ pc' = [pc EXCEPT ![w] = "release"]
    /\ runs' = runs \union {[worker |-> w, tick |-> fired[w], done |-> TRUE]}
    /\ UNCHANGED <<tick, fired, attempt, key, lapsed>>

(* fn() raises, and another try is left. *)
Retry(w) ==
    /\ pc[w] = "job"
    /\ attempt[w] < Attempts
    /\ attempt' = [attempt EXCEPT ![w] = @ + 1]
    /\ UNCHANGED <<tick, fired, pc, key, runs, lapsed>>

(* fn() raises at the last try: the failure is logged. *)
GiveUp(w) ==
    /\ pc[w] = "job"
    /\ attempt[w] = Attempts
    /\ pc' = [pc EXCEPT ![w] = "release"]
    /\ runs' = runs \union {[worker |-> w, tick |-> fired[w], done |-> FALSE]}
    /\ UNCHANGED <<tick, fired, attempt, key, lapsed>>

(* The finally: DEL of the key, whoever set it. *)
Release(w) ==
    /\ pc[w] = "release"
    /\ key' = Free
    /\ pc' = [pc EXCEPT ![w] = "idle"]
    /\ UNCHANGED <<tick, fired, attempt, runs, lapsed>>

(* The DEL raised, which is ignored: the key stays until it expires. *)
ReleaseFails(w) ==
    /\ pc[w] = "release"
    /\ pc' = [pc EXCEPT ![w] = "idle"]
    /\ UNCHANGED <<tick, fired, attempt, key, runs, lapsed>>

(* The TTL of the key runs out: of a key that a crash or a failed DEL left   *)
(* behind, or of a job that takes longer than the TTL.                      *)
Expire ==
    /\ key # Free
    /\ key' = Free
    /\ lapsed' = (lapsed \/ \E w \in Workers : Busy(w) /\ key = w)
    /\ UNCHANGED <<tick, fired, pc, attempt, runs>>

(* The worker process dies: no finally runs. *)
Crash(w) ==
    /\ pc[w] # "down"
    /\ pc' = [pc EXCEPT ![w] = "down"]
    /\ UNCHANGED <<tick, fired, attempt, key, runs, lapsed>>

(* A fresh scheduler waits for the next tick. *)
Restart(w) ==
    /\ pc[w] = "down"
    /\ pc' = [pc EXCEPT ![w] = "idle"]
    /\ fired' = [fired EXCEPT ![w] = tick]
    /\ UNCHANGED <<tick, attempt, key, runs, lapsed>>

-----------------------------------------------------------------------------
Step(w) ==
    \/ Acquire(w) \/ FailOpen(w) \/ Skip(w) \/ Misfire(w)
    \/ Succeed(w) \/ Retry(w) \/ GiveUp(w)
    \/ Release(w) \/ ReleaseFails(w)

Next ==
    \/ Tick
    \/ Expire
    \/ \E w \in Workers : Step(w) \/ Crash(w) \/ Restart(w)

Spec == Init /\ [][Next]_vars

(* Timers fire, jobs come to their end (each try has its end, and the tries  *)
(* are bounded), and keys expire.                                           *)
FairSpec ==
    /\ Spec
    /\ WF_vars(Expire)
    /\ \A w \in Workers : WF_vars(Step(w))

-----------------------------------------------------------------------------
(* Each variable has its type; no worker has handled a tick that has not    *)
(* come, and a running job is at one of its tries.                          *)
TypeOK ==
    /\ tick \in 0 .. MaxTicks
    /\ fired \in [Workers -> 0 .. MaxTicks]
    /\ pc \in [Workers -> {"idle", "job", "release", "down"}]
    /\ attempt \in [Workers -> 0 .. Attempts]
    /\ key \in Workers \union {Free}
    /\ runs \subseteq [worker : Workers, tick : 0 .. MaxTicks, done : BOOLEAN]
    /\ lapsed \in BOOLEAN
    /\ \A w \in Workers : fired[w] <= tick
    /\ \A w \in Workers : pc[w] = "job" => attempt[w] >= 1

(* Two workers never run the job at the same time, through crashes, restarts *)
(* and failed DELs, as long as no SET raised and no job outlasted its key.   *)
MutualExclusion ==
    ~lapsed => \A v, w \in Workers : Busy(v) /\ Busy(w) => v = w

(* A running job holds the key: nothing takes it away before the finally.   *)
HoldsKey == ~lapsed => \A w \in Workers : Busy(w) => key = w

(* Under the same conditions a worker's finally deletes only a key the      *)
(* worker itself set.                                                       *)
ReleasesOwnKey ==
    [][\A w \in Workers : Release(w) => lapsed \/ key = w]_vars

(* No worker is down or busy with an earlier tick, and no key is left over. *)
Quiet(t) == key = Free /\ \A w \in Workers : pc[w] = "idle" /\ fired[w] < t

(* A tick that comes when all is quiet is not passed over: the workers      *)
(* cannot all skip it.  Some worker brings its job to an end, unless a      *)
(* worker crashes or the next tick comes first.                             *)
TickServed ==
    \A t \in 1 .. MaxTicks :
       (tick = t /\ Quiet(t)) ~>
          \/ \E r \in runs : r.tick = t
          \/ \E w \in Workers : pc[w] = "down"
          \/ tick > t

=============================================================================
