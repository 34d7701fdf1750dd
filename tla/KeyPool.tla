-------------------------------- MODULE KeyPool --------------------------------
(***************************************************************************)
(* The pool of Gemini keys (infra/llm_instances.py): calls of several      *)
(* threads or coroutines take a key for one model after another, keep an   *)
(* interval between two uses of a key, and let a key rest after the        *)
(* service has refused it.                                                 *)
(***************************************************************************)
EXTENDS Integers, FiniteSets, Sequences

CONSTANTS
    PoolCalls,              \* invocations of the model
    Keys,
    Cascade,                \* models to try, in this order
    MaxKeyRetries,
    Interval,               \* min_interval_per_key
    ShortRest, DayRest,     \* cooldown_sec, and the rest after a daily quota
    LongestWait,            \* how long acquire_key waits for a resting key
    MaxPoolTime             \* bound of the clock

ASSUME PoolAssumption ==
    /\ Keys # {} /\ IsFiniteSet(Keys) /\ Cascade \in Seq(STRING) \ {<<>>} /\ MaxKeyRetries \in Nat
    /\ Interval \in Nat /\ ShortRest \in Nat /\ DayRest \in Nat /\ LongestWait \in Nat
    /\ "nobody" \notin PoolCalls

VARIABLES
    seconds,    \* the clock
    lastUsed,   \* when a key was handed out last
    restUntil,  \* cooldown_until of a key for a model
    pool,       \* who holds the lock of the pool, and how long it sleeps
    attempt     \* per call: its place, model, retries left, key

poolVars == <<seconds, lastUsed, restUntil, pool, attempt>>

Models   == {Cascade[i] : i \in DOMAIN Cascade}
Never    == 0 - Interval
Unlocked == [holder |-> "nobody", until |-> 0, key |-> "none", forced |-> FALSE]
Fresh    == [at |-> "cascade", model |-> 1, left |-> 0, key |-> "none", failed |-> FALSE]

PoolInit ==
    /\ seconds   = 0
    /\ lastUsed  = [k \in Keys |-> Never]
    /\ restUntil = [k \in Keys |-> [m \in Models |-> 0]]
    /\ pool      = Unlocked
    /\ attempt   = [c \in PoolCalls |-> Fresh]

(* A call that has tried every model works on with the first. *)
ModelOf(c) == Cascade[IF attempt[c].model <= Len(Cascade) THEN attempt[c].model ELSE 1]

Rested(m) == {k \in Keys : seconds >= restUntil[k][m]}

Least(S, Of(_)) == {k \in S : \A other \in S : Of(k) <= Of(other)}

(* The head of the loop over the models: get_available_keys, which takes   *)
(* the lock, and the number of retries.                                    *)
TryModel(c) ==
    LET available == Rested(ModelOf(c)) IN
    /\ attempt[c].at = "cascade" /\ attempt[c].model <= Len(Cascade)
    /\ pool = Unlocked
    /\ attempt' = IF available = {} THEN [attempt EXCEPT ![c].model = @ + 1]
                  ELSE [attempt EXCEPT ![c].at   = "retry",
                                       ![c].left = IF MaxKeyRetries < Cardinality(available)
                                                   THEN MaxKeyRetries ELSE Cardinality(available)]
    /\ UNCHANGED <<seconds, lastUsed, restUntil, pool>>

(* After the last model: the last error, or one try with a key that rests. *)
CascadeEnds(c) ==
    /\ attempt[c].at = "cascade" /\ attempt[c].model > Len(Cascade)
    /\ attempt' = [attempt EXCEPT ![c].at = IF attempt[c].failed THEN "ended" ELSE "last"]
    /\ UNCHANGED <<seconds, lastUsed, restUntil, pool>>

NextModel(c) ==
    /\ attempt[c].at = "retry" /\ attempt[c].left = 0
    /\ attempt' = [attempt EXCEPT ![c].at = "cascade", ![c].model = @ + 1]
    /\ UNCHANGED <<seconds, lastUsed, restUntil, pool>>

(* acquire_key up to its sleep. The keys that rest are left out, unless    *)
(* all do; then the first to be ready is taken, and waited for if that is  *)
(* not long. The choice is made before the wait.                           *)
Candidates(m) ==
    IF Rested(m) # {} THEN Rested(m)
    ELSE {CHOOSE k \in Keys : k \in Least(Keys, LAMBDA x : restUntil[x][m])}

WaitForRest(k, m) ==
    IF restUntil[k][m] - seconds \in 1..LongestWait THEN restUntil[k][m] ELSE seconds

Later(a, b) == IF a > b THEN a ELSE b

(* Fault: the pause is counted from the beginning of the wait. *)
ReadyAtOnce(k, m) == WaitForRest(k, m)

ReadyAt(k, m) == Later(WaitForRest(k, m), lastUsed[k] + Interval)

BeginAcquire(c) ==
    /\ attempt[c].at = "last" \/ (attempt[c].at = "retry" /\ attempt[c].left > 0)
    /\ pool = Unlocked
    /\ \E k \in Least(Candidates(ModelOf(c)), LAMBDA x : lastUsed[x]) :
         pool' = [holder |-> c, key |-> k, until |-> ReadyAt(k, ModelOf(c)),
                  forced |-> Rested(ModelOf(c)) = {}]
    /\ attempt' = [attempt EXCEPT ![c].left = IF attempt[c].at = "last" THEN 0 ELSE @ - 1,
                                  ![c].at = IF attempt[c].at = "last" THEN "lastacquire" ELSE "acquire"]
    /\ UNCHANGED <<seconds, lastUsed, restUntil>>

(* It wakes up, notes the use and gives the lock back. *)
EndAcquire(c) ==
    /\ pool.holder = c /\ seconds >= pool.until
    /\ lastUsed' = [lastUsed EXCEPT ![pool.key] = seconds]
    /\ pool' = Unlocked
    /\ attempt' = [attempt EXCEPT ![c].key = pool.key,
                                  ![c].at = IF @ = "acquire" THEN "calling" ELSE "lastcalling"]
    /\ UNCHANGED <<seconds, restUntil>>

Calling(c) == attempt[c].at \in {"calling", "lastcalling"}

(* The service answers, or fails in a way that is not worth a retry. *)
Answered(c) ==
    /\ Calling(c)
    /\ attempt' = [attempt EXCEPT ![c] = [Fresh EXCEPT !.at = "ended"]]
    /\ UNCHANGED <<seconds, lastUsed, restUntil, pool>>

(* It is overloaded, or the quota is used up: the key rests. The last try  *)
(* has no handler.                                                         *)
Refused(c) ==
    /\ attempt[c].at = "calling" /\ pool = Unlocked
    /\ \E rest \in {ShortRest, DayRest} :
         restUntil' = [restUntil EXCEPT ![attempt[c].key][ModelOf(c)] = seconds + rest]
    /\ attempt' = [attempt EXCEPT ![c].at = "retry", ![c].failed = TRUE]
    /\ UNCHANGED <<seconds, lastUsed, pool>>

PoolTick ==
    /\ seconds < MaxPoolTime
    /\ pool.holder # "nobody" => seconds < pool.until
    /\ seconds' = seconds + 1
    /\ UNCHANGED <<lastUsed, restUntil, pool, attempt>>

PoolNext ==
    \/ PoolTick
    \/ \E c \in PoolCalls :
         \/ TryModel(c) \/ CascadeEnds(c) \/ NextModel(c)
         \/ BeginAcquire(c) \/ EndAcquire(c) \/ Answered(c) \/ Refused(c)

PoolSpec == PoolInit /\ [][PoolNext]_poolVars

-------------------------------------------------------------------------------
(* Two uses of a key are at least Interval apart, also when calls compete  *)
(* for it; and a key that rests for a model is only handed out for it when *)
(* every key does.                                                         *)
KeysAreSpared ==
    [][\A c \in PoolCalls :
         (Calling(c)' /\ ~Calling(c)) =>
            LET k == attempt'[c].key IN
            /\ seconds - lastUsed[k] >= Interval
            /\ pool.forced \/ seconds >= restUntil[k][ModelOf(c)]]_poolVars
===============================================================================
