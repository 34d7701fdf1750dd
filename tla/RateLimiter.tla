------------------------------ MODULE RateLimiter ------------------------------
(***************************************************************************)
(* The request limiter of backend/api/middleware.py: two counters per      *)
(* client in Redis, one for the current minute and one for the current     *)
(* hour, each named after the window that the clock of the worker shows.   *)
(* One client is modelled: counters of different clients have no key in    *)
(* common.  Workers run in several processes, whose clocks may differ.     *)
(***************************************************************************)
EXTENDS Integers, FiniteSets

CONSTANTS
    LimitWorkers,          \* requests of the client that can be under way at once
    ClockOffset,           \* how far ahead the clock of each worker is
    MinuteTicks, HourTicks,\* lengths of the windows
    MinuteLimit, HourLimit,\* rpm + burst, rph
    FailsOpen,             \* rate_limit_fail_open
    MaxLimitTime, MaxLate, \* bounds: the clock, commands that outlive their request,
    MaxAsked               \* and the requests of a window

Skews == {ClockOffset[w] : w \in LimitWorkers}

ASSUME LimiterAssumption ==
    /\ MinuteTicks \in Nat \ {0} /\ HourTicks \in Nat /\ MinuteTicks <= HourTicks
    /\ MinuteLimit \in Nat /\ HourLimit \in Nat
    /\ \A s \in Skews : s \in 0..MinuteTicks
    /\ IsFiniteSet(LimitWorkers) /\ MaxLimitTime \in Nat

VARIABLES
    now,       \* the clock of Redis
    counters,  \* the keys of Redis: a count and the time at which it expires
    limitCall, \* per worker: the request it is deciding on
    late,      \* commands whose worker has stopped waiting
    made,      \* ghost: requests that named a window
    admitted   \* ghost: requests that were let in, per window

limiterVars == <<now, counters, limitCall, late, made, admitted>>

Kinds   == {"minute", "hour"}
Ticks   == [minute |-> MinuteTicks, hour |-> HourTicks]
Limit   == [minute |-> MinuteLimit, hour |-> HourLimit]
Latest  == MaxLimitTime + MinuteTicks
Windows == Kinds \X (0..Latest)

(* The windows in which a worker's clock puts the present. *)
Named(w) == {<<kind, (now + ClockOffset[w]) \div Ticks[kind]>> : kind \in Kinds}

(* Fault: the key goes with its window's length. *)
LifeOfWindow(kind) == Ticks[kind]

(* A key is kept for two windows after its last count. *)
Life(kind) == 2 * Ticks[kind]

NoCount    == [count |-> 0, until |-> 0]
Live(key)  == IF counters[key].until > now THEN counters[key].count ELSE 0
IdleCall   == [stage |-> "idle", keys |-> {}, counts |-> [kind \in Kinds |-> 0]]

LimiterInit ==
    /\ now = 0
    /\ counters  = [key \in Windows |-> NoCount]
    /\ limitCall = [w \in LimitWorkers |-> IdleCall]
    /\ late      = {}
    /\ made      = [key \in Windows |-> 0]
    /\ admitted  = [key \in Windows |-> 0]

(* A request comes in; its worker sends one transaction of INCR and EXPIRE. *)
Ask(w) ==
    /\ limitCall[w].stage = "idle"
    /\ \A key \in Named(w) : made[key] < MaxAsked
    /\ limitCall' = [limitCall EXCEPT ![w] = [IdleCall EXCEPT !.stage = "sent", !.keys = Named(w)]]
    /\ made' = [key \in Windows |-> made[key] + IF key \in Named(w) THEN 1 ELSE 0]
    /\ UNCHANGED <<now, counters, late, admitted>>

Counted(keys) ==
    counters' = [key \in Windows |->
                   IF key \in keys THEN [count |-> Live(key) + 1, until |-> now + Life(key[1])]
                                   ELSE counters[key]]

Count(w) ==
    /\ limitCall[w].stage = "sent"
    /\ Counted(limitCall[w].keys)
    /\ limitCall' = [limitCall EXCEPT
                       ![w].stage  = "counted",
                       ![w].counts = [kind \in Kinds |->
                          LET key == CHOOSE k \in limitCall[w].keys : k[1] = kind IN Live(key) + 1]]
    /\ UNCHANGED <<now, late, made, admitted>>

(* A command that nobody waits for is counted all the same, or lost. *)
CountLate ==
    \E keys \in late :
        /\ late' = late \ {keys}
        /\ Counted(keys) \/ UNCHANGED counters
        /\ UNCHANGED <<now, limitCall, made, admitted>>

Allowed(counts) == \A kind \in Kinds : counts[kind] <= Limit[kind]

Admit(w, keys) ==
    /\ admitted' = [key \in Windows |-> admitted[key] + IF key \in keys THEN 1 ELSE 0]
    /\ limitCall' = [limitCall EXCEPT ![w] = IdleCall]

Refuse(w, as) ==
    /\ limitCall' = [limitCall EXCEPT ![w] = [IdleCall EXCEPT !.stage = as, !.keys = limitCall[w].keys]]
    /\ UNCHANGED admitted

(* The answer arrives in time: the request goes on, or gets 429. *)
Decide(w) ==
    /\ limitCall[w].stage = "counted"
    /\ IF Allowed(limitCall[w].counts) THEN Admit(w, limitCall[w].keys) ELSE Refuse(w, "refused")
    /\ UNCHANGED <<now, counters, late, made>>

(* 0.2 seconds pass, or Redis fails: 503, or nothing is limited at all. *)
GiveUpOnLimit(w) ==
    /\ limitCall[w].stage \in {"sent", "counted"}
    /\ \/ limitCall[w].stage = "sent" /\ Cardinality(late) < MaxLate /\ late' = late \cup {limitCall[w].keys}
       \/ limitCall[w].stage = "counted" /\ UNCHANGED late
    /\ IF FailsOpen THEN Admit(w, limitCall[w].keys) ELSE Refuse(w, "unavailable")
    /\ UNCHANGED <<now, counters, made>>

(* The response is sent. *)
Respond(w) ==
    /\ limitCall[w].stage \in {"refused", "unavailable"}
    /\ limitCall' = [limitCall EXCEPT ![w] = IdleCall]
    /\ UNCHANGED <<now, counters, late, made, admitted>>

LimiterTick ==
    /\ now < MaxLimitTime
    /\ \A w \in LimitWorkers : limitCall[w].stage \notin {"sent", "counted"}
    /\ now' = now + 1
    /\ UNCHANGED <<counters, limitCall, late, made, admitted>>

LimiterNext ==
    \/ LimiterTick \/ CountLate
    \/ \E w \in LimitWorkers : Ask(w) \/ Count(w) \/ Decide(w) \/ GiveUpOnLimit(w) \/ Respond(w)

LimiterSpec == LimiterInit /\ [][LimiterNext]_limiterVars

-------------------------------------------------------------------------------
(* Unless it fails open, no window lets in more requests than its limit,   *)
(* whatever the clocks of the workers and however late a command runs; and *)
(* a client is only turned away with 429 when it has made more requests in *)
(* one of the windows than that window allows.                             *)
LimitsAreKept ==
    /\ ~FailsOpen => \A key \in Windows : admitted[key] <= Limit[key[1]]
    /\ \A w \in LimitWorkers :
         limitCall[w].stage = "refused" => \E key \in limitCall[w].keys : made[key] > Limit[key[1]]
===============================================================================
