---------------------------- MODULE AdmissionLease ----------------------------
(***************************************************************************)
(* Admission of requests by expiring leases: RedisAdmissionController of   *)
(* infra/admission.py and the routes that hold a lease while they work     *)
(* (POST /chat/stream, and the upload of documents).                       *)
(*                                                                         *)
(* Redis keeps the expiry of every token in one sorted set and runs each   *)
(* command atomically.  A command that its sender no longer awaits (after  *)
(* a timeout or a cancellation) may still reach Redis.  A request takes    *)
(* one token, so a token is named by its request.                          *)
(*                                                                         *)
(* Time is counted in ticks.  A tick is long against the 0.2 s and 0.75 s  *)
(* timeouts of Redis and the wait for admission, and short against the     *)
(* lifetime of a lease.                                                    *)
(***************************************************************************)
EXTENDS Naturals, FiniteSets

CONSTANTS
    Requests,   \* requests that ask for a lease
    Limit,      \* agent_max_in_flight_turns
    TTL,        \* agent_lease_ttl_seconds
    Interval,   \* agent_lease_heartbeat_seconds
    Delay,      \* time until a command is answered or has timed out
    Offset,     \* how far the clock of the host of a request is ahead
    Skew,       \* the most that a clock is ahead
    FailOpen,   \* rate_limit_fail_open
    MaxTime     \* bound: the time at which a behaviour ends

ASSUME LimitAssumption    == Requests # {} /\ IsFiniteSet(Requests) /\ Limit \in Nat \ {0}
ASSUME TimeAssumption     == TTL \in Nat /\ Interval \in Nat \ {0} /\ Delay \in Nat /\ MaxTime \in Nat
ASSUME ClockAssumption    == Skew \in Nat /\ Offset \in [Requests -> 0 .. Skew]
ASSUME FailOpenAssumption == FailOpen \in BOOLEAN

(* A lease outlives the wait for its next refresh, on anybody's clock.     *)
ASSUME LeaseAssumption    == TTL > Interval + 2 * Delay + Skew

VARIABLES
    now,        \* time
    leases,     \* expiry of every token in the sorted set, 0 when it is not there
    keyExpiry,  \* when the sorted set itself expires
    wire,       \* commands that Redis has not executed
    phase,      \* where a request is in its route
    outcome,    \* what acquire told it
    beat,       \* its heartbeat task
    due         \* when its task wakes up or its awaited command times out

vars == <<now, leases, keyExpiry, wire, phase, outcome, beat, due>>

Command  == [op : {"acquire", "refresh", "release"}, request : Requests, at : Nat]
Phases   == {"new", "acquire", "sleep", "working", "closing", "releasing", "done", "dead"}
Outcomes == {"none", "leased", "full", "unavailable", "cancelled"}
Beats    == {"off", "sleeping", "sent", "dead"}

TypeOK ==
    /\ now \in Nat
    /\ leases \in [Requests -> Nat]
    /\ keyExpiry \in Nat
    /\ wire \subseteq Command
    /\ phase \in [Requests -> Phases]
    /\ outcome \in [Requests -> Outcomes]
    /\ beat \in [Requests -> Beats]
    /\ due \in [Requests -> Nat]

Init ==
    /\ now = 1
    /\ leases = [r \in Requests |-> 0]
    /\ keyExpiry = 0
    /\ wire = {}
    /\ phase = [r \in Requests |-> "new"]
    /\ outcome = [r \in Requests |-> "none"]
    /\ beat = [r \in Requests |-> "off"]
    /\ due = [r \in Requests |-> 0]

Held(ls)   == {r \in Requests : ls[r] # 0}
Beating(r) == beat[r] \in {"sleeping", "sent"}

(* time.time() on the host of a request *)
Clock(r) == now + Offset[r]

Send(r, op) == wire' = wire \cup {[op |-> op, request |-> r, at |-> Clock(r)]}

GoTo(r, p) == phase' = [phase EXCEPT ![r] = p]

(***************************************************************************)
(* The commands in Redis                                                   *)
(***************************************************************************)
Expiry(c) == c.at + TTL

(* Fault: the new expiry is compared with instead of the clock. *)
PrunedByExpiry(at) == [r \in Requests |-> IF leases[r] <= at + TTL THEN 0 ELSE leases[r]]

(* ZREMRANGEBYSCORE -inf now *)
Pruned(at) == [r \in Requests |-> IF leases[r] <= at THEN 0 ELSE leases[r]]

(* Fault: one lease too many. *)
HasRoomForOneMore(ls) == Cardinality(Held(ls)) <= Limit

HasRoom(ls) == Cardinality(Held(ls)) < Limit

TouchKey == keyExpiry' = now + 2 * TTL

(* The script of acquire, and its reply if the request still awaits it: a  *)
(* request that is refused sleeps and asks again, or has waited enough and *)
(* works without a lease only when it may.                                 *)
ExecuteAcquire(c) ==
    LET r      == c.request
        pruned == Pruned(c.at)
        waited == phase[r] = "acquire"
    IN  /\ c.op = "acquire"
        /\ wire' = wire \ {c}
        /\ \/ /\ HasRoom(pruned)
              /\ leases' = [pruned EXCEPT ![r] = Expiry(c)]
              /\ TouchKey
              /\ IF waited
                   THEN /\ GoTo(r, "working")
                        /\ outcome' = [outcome EXCEPT ![r] = "leased"]
                        /\ beat' = [beat EXCEPT ![r] = "sleeping"]
                        /\ due' = [due EXCEPT ![r] = now + Interval]
                   ELSE UNCHANGED <<phase, outcome, beat, due>>
           \/ /\ ~HasRoom(pruned)
              /\ leases' = pruned
              /\ \/ waited /\ GoTo(r, "sleep") /\ UNCHANGED outcome
                 \/ /\ waited
                    /\ GoTo(r, IF FailOpen THEN "working" ELSE "done")
                    /\ outcome' = [outcome EXCEPT ![r] = "full"]
                 \/ ~waited /\ UNCHANGED <<phase, outcome>>
              /\ UNCHANGED <<keyExpiry, beat, due>>
        /\ UNCHANGED now

(* Fault: refresh adds the token when it is not there. *)
AlwaysRefreshes(r) == TRUE

(* ZSCORE finds the token. *)
Refreshes(r) == leases[r] # 0

ExecuteRefresh(c) ==
    LET r      == c.request
        waited == beat[r] = "sent"
    IN  /\ c.op = "refresh"
        /\ wire' = wire \ {c}
        /\ IF Refreshes(r)
             THEN /\ leases' = [leases EXCEPT ![r] = Expiry(c)]
                  /\ TouchKey
                  /\ beat' = IF waited THEN [beat EXCEPT ![r] = "sleeping"] ELSE beat
                  /\ due' = IF waited THEN [due EXCEPT ![r] = now + Interval] ELSE due
             ELSE /\ beat' = IF waited THEN [beat EXCEPT ![r] = "dead"] ELSE beat
                  /\ UNCHANGED <<leases, keyExpiry, due>>
        /\ UNCHANGED <<now, phase, outcome>>

ExecuteRelease(c) ==
    LET r == c.request
    IN  /\ c.op = "release"
        /\ wire' = wire \ {c}
        /\ leases' = [leases EXCEPT ![r] = 0]
        /\ IF phase[r] = "releasing" THEN GoTo(r, "done") ELSE UNCHANGED phase
        /\ UNCHANGED <<now, keyExpiry, outcome, beat, due>>

(* The connection breaks under a command. *)
LoseCommand(c) ==
    /\ wire' = wire \ {c}
    /\ UNCHANGED <<now, leases, keyExpiry, phase, outcome, beat, due>>

(* EXPIRE key 2 * ttl *)
ExpireKey ==
    /\ Held(leases) # {}
    /\ now >= keyExpiry
    /\ leases' = [r \in Requests |-> 0]
    /\ UNCHANGED <<now, keyExpiry, wire, phase, outcome, beat, due>>

(***************************************************************************)
(* The request                                                             *)
(***************************************************************************)
SendAcquire(r) ==
    /\ phase[r] \in {"new", "sleep"}
    /\ Send(r, "acquire")
    /\ GoTo(r, "acquire")
    /\ due' = [due EXCEPT ![r] = now + Delay]
    /\ UNCHANGED <<now, leases, keyExpiry, outcome, beat>>

(* wait_for times out or the connection fails: AdmissionUnavailable. *)
AcquireFails(r) ==
    /\ phase[r] = "acquire"
    /\ GoTo(r, IF FailOpen THEN "working" ELSE "done")
    /\ outcome' = [outcome EXCEPT ![r] = "unavailable"]
    /\ UNCHANGED <<now, leases, keyExpiry, wire, beat, due>>

(* The client goes away before the request is admitted. *)
AcquireCancelled(r) ==
    /\ phase[r] \in {"acquire", "sleep"}
    /\ GoTo(r, "done")
    /\ outcome' = [outcome EXCEPT ![r] = "cancelled"]
    /\ UNCHANGED <<now, leases, keyExpiry, wire, beat, due>>

SendRefresh(r) ==
    /\ beat[r] = "sleeping"
    /\ now >= due[r]
    /\ Send(r, "refresh")
    /\ beat' = [beat EXCEPT ![r] = "sent"]
    /\ due' = [due EXCEPT ![r] = now + Delay]
    /\ UNCHANGED <<now, leases, keyExpiry, phase, outcome>>

(* refresh raises, which ends the heartbeat task. *)
RefreshFails(r) ==
    /\ beat[r] = "sent"
    /\ beat' = [beat EXCEPT ![r] = "dead"]
    /\ UNCHANGED <<now, leases, keyExpiry, wire, phase, outcome, due>>

(* The work yields an event, which is when the route looks at a heartbeat  *)
(* that has ended.                                                         *)
NoticeDeadHeartbeat(r) ==
    /\ phase[r] = "working"
    /\ beat[r] = "dead"
    /\ GoTo(r, "closing")
    /\ UNCHANGED <<now, leases, keyExpiry, wire, outcome, beat, due>>

(* The work ends, fails or is cancelled. *)
EndWork(r) ==
    /\ phase[r] = "working"
    /\ GoTo(r, "closing")
    /\ UNCHANGED <<now, leases, keyExpiry, wire, outcome, beat, due>>

(* finally: cancel the heartbeat, then release. *)
Close(r) ==
    /\ phase[r] = "closing"
    /\ beat' = [beat EXCEPT ![r] = "off"]
    /\ IF outcome[r] = "leased"
         THEN Send(r, "release") /\ GoTo(r, "releasing")
         ELSE UNCHANGED wire /\ GoTo(r, "done")
    /\ UNCHANGED <<now, leases, keyExpiry, outcome, due>>

ReleaseFails(r) ==
    /\ phase[r] = "releasing"
    /\ GoTo(r, "done")
    /\ UNCHANGED <<now, leases, keyExpiry, wire, outcome, beat, due>>

(* The process of the request dies, its heartbeat with it. *)
Crash(r) ==
    /\ phase[r] \notin {"new", "done", "dead"}
    /\ GoTo(r, "dead")
    /\ beat' = [beat EXCEPT ![r] = "off"]
    /\ UNCHANGED <<now, leases, keyExpiry, wire, outcome, due>>

(* A heartbeat that is due is sent, and an awaited command is answered or  *)
(* times out, before time goes on: the event loop is not held up.          *)
Tick ==
    /\ now < MaxTime
    /\ \A r \in Requests : Beating(r) => now < due[r]
    /\ \A r \in Requests : phase[r] = "acquire" => now < due[r]
    /\ now' = now + 1
    /\ UNCHANGED <<leases, keyExpiry, wire, phase, outcome, beat, due>>

RequestStep(r) ==
    \/ SendAcquire(r)
    \/ AcquireFails(r)
    \/ AcquireCancelled(r)
    \/ SendRefresh(r)
    \/ RefreshFails(r)
    \/ NoticeDeadHeartbeat(r)
    \/ EndWork(r)
    \/ Close(r)
    \/ ReleaseFails(r)
    \/ Crash(r)

RedisStep(c) ==
    \/ ExecuteAcquire(c)
    \/ ExecuteRefresh(c)
    \/ ExecuteRelease(c)
    \/ LoseCommand(c)

Next ==
    \/ \E r \in Requests : RequestStep(r)
    \/ \E c \in wire : RedisStep(c)
    \/ ExpireKey
    \/ Tick

Spec == Init /\ [][Next]_vars
-----------------------------------------------------------------------------
(***************************************************************************)
(* Properties                                                              *)
(***************************************************************************)
Working == {r \in Requests : phase[r] = "working"}

(* Redis never counts more leases than the limit, however late a refresh   *)
(* or an acquire that nobody awaits any more is executed.                  *)
LeasesWithinLimit == Cardinality(Held(leases)) <= Limit

(* While their heartbeats beat, no more requests than the limit work at a  *)
(* time: a lease is neither pruned on somebody's clock nor lost with the   *)
(* key while its holder renews it.                                         *)
BeatingWorkWithinLimit ==
    Cardinality({r \in Working : outcome[r] = "leased" /\ Beating(r)}) <= Limit

(* A token that was given back does not return: a refresh that was under   *)
(* way when the route released the lease does not take the place again.    *)
ReleasedStaysReleased ==
    [][\A r \in Requests :
          /\ phase[r] \in {"done", "dead"}
          /\ leases[r] = 0
          /\ \A c \in wire : c.request = r => c.op # "acquire"
          => leases'[r] = 0]_vars
=============================================================================
