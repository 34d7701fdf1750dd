------------------------- MODULE AdmissionLeaseProofs -------------------------
(***************************************************************************)
(* Theorems about AdmissionLease, for any number of requests and any limit *)
(* and timing that LeaseAssumption allows.                                 *)
(***************************************************************************)
EXTENDS AdmissionLease, FiniteSetTheorems, TLAPS

LEMMA ClockType == ASSUME TypeOK, NEW r \in Requests PROVE Clock(r) \in Nat
  BY ClockAssumption DEF TypeOK, Clock

LEMMA SendType ==
    ASSUME TypeOK, NEW r \in Requests, NEW op \in {"acquire", "refresh", "release"}, Send(r, op)
    PROVE  wire' \subseteq Command
  BY ClockType DEF TypeOK, Send, Command

LEMMA ExpiryType == ASSUME NEW c \in Command PROVE Expiry(c) \in Nat
  BY TimeAssumption DEF Command, Expiry

LEMMA TypeStep == TypeOK /\ [Next]_vars => TypeOK'
  <1>. SUFFICES ASSUME TypeOK, [Next]_vars PROVE TypeOK'
    OBVIOUS
  <1>. USE TimeAssumption
  <1>1. ASSUME NEW r \in Requests, RequestStep(r)
        PROVE  TypeOK'
    <2>1. CASE SendAcquire(r)
      BY <2>1, SendType DEF SendAcquire, TypeOK, GoTo, Phases
    <2>2. CASE SendRefresh(r)
      BY <2>2, SendType DEF SendRefresh, TypeOK, Beats
    <2>3. CASE Close(r)
      BY <2>3, SendType DEF Close, TypeOK, GoTo, Phases, Beats
    <2>4. CASE AcquireFails(r) \/ AcquireCancelled(r)
      BY <2>4 DEF AcquireFails, AcquireCancelled, TypeOK, GoTo, Phases, Outcomes
    <2>5. CASE RefreshFails(r) \/ NoticeDeadHeartbeat(r) \/ EndWork(r)
               \/ ReleaseFails(r) \/ Crash(r)
      BY <2>5 DEF RefreshFails, NoticeDeadHeartbeat, EndWork, ReleaseFails, Crash, TypeOK,
                  GoTo, Phases, Beats
    <2>. QED  BY <1>1, <2>1, <2>2, <2>3, <2>4, <2>5 DEF RequestStep
  <1>2. ASSUME NEW c \in wire, RedisStep(c)
        PROVE  TypeOK'
    <2>1. c \in Command /\ c.request \in Requests /\ c.at \in Nat /\ Expiry(c) \in Nat
      BY ExpiryType DEF TypeOK, Command
    <2>2. \A at : Pruned(at) \in [Requests -> Nat]
      BY DEF Pruned, TypeOK
    <2>3. CASE ExecuteAcquire(c)
      <3>1. leases' \in [Requests -> Nat]
        BY <2>1, <2>2, <2>3 DEF ExecuteAcquire
      <3>2. keyExpiry' \in Nat
        BY <2>3 DEF ExecuteAcquire, TouchKey, TypeOK
      <3>3. /\ wire' \subseteq Command
            /\ now' \in Nat
        BY <2>3 DEF ExecuteAcquire, TypeOK
      <3>4. /\ phase' \in [Requests -> Phases]
            /\ outcome' \in [Requests -> Outcomes]
            /\ beat' \in [Requests -> Beats]
            /\ due' \in [Requests -> Nat]
        BY <2>1, <2>3 DEF ExecuteAcquire, TypeOK, GoTo, Phases, Outcomes, Beats
      <3>. QED  BY <3>1, <3>2, <3>3, <3>4 DEF TypeOK
    <2>4. CASE ExecuteRefresh(c)
      BY <2>1, <2>4 DEF ExecuteRefresh, TypeOK, TouchKey, Beats
    <2>5. CASE ExecuteRelease(c) \/ LoseCommand(c)
      BY <2>1, <2>5 DEF ExecuteRelease, LoseCommand, TypeOK, GoTo, Phases
    <2>. QED  BY <1>2, <2>3, <2>4, <2>5 DEF RedisStep
  <1>3. CASE ExpireKey \/ Tick
    BY <1>3 DEF ExpireKey, Tick, TypeOK
  <1>4. CASE UNCHANGED vars
    BY <1>4 DEF vars, TypeOK
  <1>. QED  BY <1>1, <1>2, <1>3, <1>4 DEF Next

(* Every variable has its type. *)
THEOREM AdmissionTypeCorrect == Spec => []TypeOK
  <1>1. Init => TypeOK
    BY DEF Init, TypeOK, Phases, Outcomes, Beats
  <1>. QED  BY <1>1, TypeStep, PTL DEF Spec

(***************************************************************************)
(* The sorted set                                                          *)
(***************************************************************************)
LEMMA HeldIsFinite ==
    ASSUME NEW ls PROVE IsFiniteSet(Held(ls)) /\ Cardinality(Held(ls)) \in Nat
  <1>1. IsFiniteSet(Held(ls))
    BY LimitAssumption, FS_Subset DEF Held
  <1>. QED  BY <1>1, FS_CardinalityType

LEMMA FewerHeld ==
    ASSUME NEW ls, NEW ks, Held(ks) \subseteq Held(ls), Cardinality(Held(ls)) <= Limit
    PROVE  Cardinality(Held(ks)) <= Limit
  <1>1. Cardinality(Held(ks)) <= Cardinality(Held(ls))
    BY HeldIsFinite, FS_Subset
  <1>. QED  BY <1>1, HeldIsFinite, LimitAssumption

LEMMA OneMoreHeld ==
    ASSUME NEW ls, NEW ks, NEW r, Held(ks) \subseteq Held(ls) \cup {r}, HasRoom(ls)
    PROVE  Cardinality(Held(ks)) <= Limit
  <1>1. /\ IsFiniteSet(Held(ls) \cup {r})
        /\ Cardinality(Held(ls) \cup {r}) \in Nat
        /\ Cardinality(Held(ls) \cup {r}) <= Cardinality(Held(ls)) + 1
    <2>1. IsFiniteSet(Held(ls)) /\ Cardinality(Held(ls)) \in Nat
      BY HeldIsFinite
    <2>2. /\ IsFiniteSet(Held(ls) \cup {r})
          /\ Cardinality(Held(ls) \cup {r})
               = IF r \in Held(ls) THEN Cardinality(Held(ls)) ELSE Cardinality(Held(ls)) + 1
      BY <2>1, FS_AddElement, Zenon
    <2>. QED  BY <2>1, <2>2
  <1>2. Cardinality(Held(ks)) <= Cardinality(Held(ls) \cup {r})
    BY <1>1, FS_Subset
  <1>. QED  BY <1>1, <1>2, HeldIsFinite, LimitAssumption DEF HasRoom

LEMMA LimitStep == TypeOK /\ LeasesWithinLimit /\ [Next]_vars => LeasesWithinLimit'
  <1>. SUFFICES ASSUME TypeOK, LeasesWithinLimit, [Next]_vars PROVE LeasesWithinLimit'
    OBVIOUS
  <1>1. ASSUME Held(leases') \subseteq Held(leases)
        PROVE  LeasesWithinLimit'
    BY <1>1, FewerHeld DEF LeasesWithinLimit
  <1>2. \A at : Held(Pruned(at)) \subseteq Held(leases)
    BY DEF Held, Pruned
  <1>3. ASSUME NEW c \in wire, RedisStep(c)
        PROVE  LeasesWithinLimit'
    <2>1. CASE ExecuteAcquire(c)
      <3>. DEFINE pruned == Pruned(c.at)
      <3>1. CASE HasRoom(pruned) /\ leases' = [pruned EXCEPT ![c.request] = Expiry(c)]
        <4>1. Held(leases') \subseteq Held(pruned) \cup {c.request}
          BY <3>1 DEF Held, Pruned
        <4>. HIDE DEF pruned
        <4>. QED  BY <3>1, <4>1, OneMoreHeld DEF LeasesWithinLimit
      <3>2. CASE leases' = pruned
        BY <3>2, <1>1, <1>2
      <3>. QED  BY <2>1, <3>1, <3>2 DEF ExecuteAcquire
    <2>2. CASE ExecuteRefresh(c)
      BY <2>2, <1>1 DEF ExecuteRefresh, Refreshes, Held, TypeOK
    <2>3. CASE ExecuteRelease(c) \/ LoseCommand(c)
      BY <2>3, <1>1 DEF ExecuteRelease, LoseCommand, Held, TypeOK
    <2>. QED  BY <1>3, <2>1, <2>2, <2>3 DEF RedisStep
  <1>4. ASSUME NEW r \in Requests, RequestStep(r)
        PROVE  UNCHANGED leases
    BY <1>4 DEF RequestStep, SendAcquire, AcquireFails, AcquireCancelled, SendRefresh,
                RefreshFails, NoticeDeadHeartbeat, EndWork, Close, ReleaseFails, Crash
  <1>5. CASE ExpireKey
    BY <1>5, <1>1 DEF ExpireKey, Held
  <1>6. CASE Tick \/ UNCHANGED vars
    BY <1>6, <1>1 DEF Tick, vars
  <1>. QED  BY <1>1, <1>3, <1>4, <1>5, <1>6 DEF Next

(* Redis never counts more leases than the limit, whatever is late, lost   *)
(* or executed for a request that has gone.                                *)
THEOREM LimitHolds == Spec => []LeasesWithinLimit
  <1>1. Init => LeasesWithinLimit
    <2>1. Held([r \in Requests |-> 0]) = {}
      BY DEF Held
    <2>. QED  BY <2>1, FS_EmptySet, LimitAssumption DEF Init, LeasesWithinLimit
  <1>. QED  BY <1>1, LimitStep, AdmissionTypeCorrect, PTL DEF Spec

(***************************************************************************)
(* A token that was given back                                             *)
(***************************************************************************)
LEMMA OnlyAcquireAdds ==
    ASSUME TypeOK, [Next]_vars, NEW r \in Requests, leases[r] = 0,
           \A c \in wire : c.request = r => c.op # "acquire"
    PROVE  leases'[r] = 0
  <1>1. ASSUME NEW c \in wire, RedisStep(c)
        PROVE  leases'[r] = 0
    <2>1. CASE ExecuteAcquire(c)
      <3>1. c.request # r
        BY <2>1 DEF ExecuteAcquire
      <3>2. Pruned(c.at)[r] = 0
        BY DEF Pruned
      <3>. QED  BY <2>1, <3>1, <3>2 DEF ExecuteAcquire, Pruned
    <2>2. CASE ExecuteRefresh(c) \/ ExecuteRelease(c) \/ LoseCommand(c)
      BY <2>2 DEF ExecuteRefresh, Refreshes, ExecuteRelease, LoseCommand, TypeOK
    <2>. QED  BY <1>1, <2>1, <2>2 DEF RedisStep
  <1>2. ASSUME NEW z \in Requests, RequestStep(z)
        PROVE  UNCHANGED leases
    BY <1>2 DEF RequestStep, SendAcquire, AcquireFails, AcquireCancelled, SendRefresh,
                RefreshFails, NoticeDeadHeartbeat, EndWork, Close, ReleaseFails, Crash
  <1>3. CASE ExpireKey \/ Tick \/ UNCHANGED vars
    BY <1>3 DEF ExpireKey, Tick, vars
  <1>. QED  BY <1>1, <1>2, <1>3 DEF Next

(* A refresh that was under way when a lease was released cannot take the  *)
(* place again.                                                            *)
THEOREM ReleaseIsFinal == Spec => ReleasedStaysReleased
  <1>1. TypeOK /\ [Next]_vars =>
           [\A r \in Requests :
               /\ phase[r] \in {"done", "dead"}
               /\ leases[r] = 0
               /\ \A c \in wire : c.request = r => c.op # "acquire"
               => leases'[r] = 0]_vars
    BY OnlyAcquireAdds
  <1>. QED  BY <1>1, AdmissionTypeCorrect, PTL DEF Spec, ReleasedStaysReleased

(***************************************************************************)
(* The requests that work under a lease that they renew                    *)
(***************************************************************************)
CommandsOf(r) == {c \in wire : c.request = r}

(* No clock of a command is more than Skew ahead, and no lease outlives    *)
(* the sorted set.                                                         *)
ClockInv ==
    /\ \A c \in wire : c.at <= now + Skew
    /\ \A r \in Requests : leases[r] <= keyExpiry
    /\ keyExpiry <= now + 2 * TTL

(* Before a request is admitted, all that is under way of it is the        *)
(* acquire that it awaits.                                                 *)
WaitInv(r) ==
    /\ phase[r] \in {"new", "sleep"} => CommandsOf(r) = {}
    /\ phase[r] = "acquire" =>
          /\ now <= due[r]
          /\ \A c \in CommandsOf(r) : c.op = "acquire" /\ c.at + Delay = due[r] + Offset[r]
    /\ phase[r] \in {"new", "sleep", "acquire"} => ~Beating(r)

(* While its heartbeat beats, all that is under way of a request is the    *)
(* refresh that it awaits, and its lease lasts until the next refresh has  *)
(* been answered, on the clock that is most ahead.                         *)
BeatInv(r) ==
    Beating(r) =>
       /\ phase[r] \in {"working", "closing"}
       /\ now <= due[r]
       /\ \A c \in CommandsOf(r) :
             c.op = "refresh" /\ beat[r] = "sent" /\ c.at + Delay = due[r] + Offset[r]
       /\ leases[r] > due[r] + Skew
       /\ beat[r] = "sleeping" => leases[r] > due[r] + Skew + Delay

LeaseInv == ClockInv /\ \A r \in Requests : WaitInv(r) /\ BeatInv(r)

LEMMA Undisturbed ==
    ASSUME TypeOK, NEW q \in Requests, WaitInv(q), BeatInv(q),
           now' = now, phase'[q] = phase[q], due'[q] = due[q], beat'[q] = beat[q],
           Beating(q) => leases'[q] = leases[q],
           \A c \in wire' : c.request = q => c \in wire
    PROVE  WaitInv(q)' /\ BeatInv(q)'
  BY DEF WaitInv, BeatInv, Beating, CommandsOf

LEMMA Times ==
    ASSUME TypeOK
    PROVE  /\ now \in Nat /\ keyExpiry \in Nat
           /\ Skew \in Nat /\ Delay \in Nat /\ TTL \in Nat /\ Interval \in Nat
           /\ TTL > Interval + 2 * Delay + Skew
           /\ \A r \in Requests : /\ leases[r] \in Nat
                                  /\ due[r] \in Nat
                                  /\ Offset[r] \in Nat
                                  /\ Offset[r] <= Skew
           /\ \A c \in wire : c.at \in Nat /\ c.request \in Requests
  BY TimeAssumption, ClockAssumption, LeaseAssumption DEF TypeOK, Command

(* A command that is sent carries the clock of its sender. *)
LEMMA Sent ==
    ASSUME TypeOK, ClockInv, NEW r \in Requests, NEW op, Send(r, op),
           now' = now, leases' = leases, keyExpiry' = keyExpiry
    PROVE  /\ ClockInv'
           /\ \A c \in wire' : \/ c \in wire
                               \/ c.op = op /\ c.request = r /\ c.at = now + Offset[r]
  <1>1. \A c \in wire' : \/ c \in wire
                         \/ c.op = op /\ c.request = r /\ c.at = now + Offset[r]
    BY DEF Send, Clock
  <1>. QED  BY <1>1, Times DEF ClockInv

(***************************************************************************)
(* The steps of a request                                                  *)
(***************************************************************************)
LEMMA RequestLease ==
    ASSUME TypeOK, LeaseInv, NEW r \in Requests, RequestStep(r)
    PROVE  LeaseInv'
  <1>. USE DEF LeaseInv
  <1>1. CASE SendAcquire(r)
    <2>1. Send(r, "acquire") /\ UNCHANGED <<now, leases, keyExpiry, beat>>
      BY <1>1 DEF SendAcquire
    <2>2. /\ ClockInv'
          /\ \A c \in wire' : \/ c \in wire
                              \/ c.op = "acquire" /\ c.request = r /\ c.at = now + Offset[r]
      BY <2>1, Sent
    <2>3. ASSUME NEW q \in Requests, q # r PROVE WaitInv(q)' /\ BeatInv(q)'
      BY <1>1, <2>1, <2>2, <2>3, Undisturbed DEF SendAcquire, GoTo, TypeOK
    <2>4. WaitInv(r)' /\ BeatInv(r)'
      <3>1. phase'[r] = "acquire" /\ due'[r] = now + Delay /\ ~Beating(r)'
        BY <1>1, <2>1 DEF SendAcquire, GoTo, TypeOK, WaitInv, Beating
      <3>2. CommandsOf(r) = {}
        BY <1>1 DEF SendAcquire, WaitInv
      <3>. QED  BY <2>1, <2>2, <3>1, <3>2, Times DEF WaitInv, BeatInv, CommandsOf
    <2>. QED  BY <2>2, <2>3, <2>4
  <1>2. CASE SendRefresh(r)
    <2>1. Send(r, "refresh") /\ UNCHANGED <<now, leases, keyExpiry, phase>>
      BY <1>2 DEF SendRefresh
    <2>2. /\ ClockInv'
          /\ \A c \in wire' : \/ c \in wire
                              \/ c.op = "refresh" /\ c.request = r /\ c.at = now + Offset[r]
      BY <2>1, Sent
    <2>3. ASSUME NEW q \in Requests, q # r PROVE WaitInv(q)' /\ BeatInv(q)'
      BY <1>2, <2>1, <2>2, <2>3, Undisturbed DEF SendRefresh, TypeOK
    <2>4. WaitInv(r)' /\ BeatInv(r)'
      <3>1. /\ beat'[r] = "sent" /\ due'[r] = now + Delay
            /\ beat[r] = "sleeping" /\ due[r] <= now
        BY <1>2, Times DEF SendRefresh, TypeOK
      <3>2. /\ phase[r] \in {"working", "closing"}
            /\ now <= due[r]
            /\ CommandsOf(r) = {}
            /\ leases[r] > due[r] + Skew + Delay
        BY <3>1 DEF BeatInv, Beating
      <3>. QED  BY <2>1, <2>2, <3>1, <3>2, Times DEF WaitInv, BeatInv, CommandsOf
    <2>. QED  BY <2>2, <2>3, <2>4
  <1>3. CASE Close(r)
    <2>1. /\ UNCHANGED <<now, leases, keyExpiry, due>>
          /\ beat' = [beat EXCEPT ![r] = "off"]
          /\ phase'[r] \in {"releasing", "done"}
          /\ \A q \in Requests : q # r => phase'[q] = phase[q]
      BY <1>3 DEF Close, GoTo, TypeOK
    <2>2. /\ ClockInv'
          /\ \A c \in wire' : c \in wire \/ c.request = r
      <3>1. CASE wire' = wire
        BY <3>1, <2>1 DEF ClockInv
      <3>2. CASE Send(r, "release")
        BY <3>2, <2>1, Sent
      <3>. QED  BY <1>3, <3>1, <3>2 DEF Close
    <2>3. ASSUME NEW q \in Requests, q # r PROVE WaitInv(q)' /\ BeatInv(q)'
      BY <2>1, <2>2, <2>3, Undisturbed DEF TypeOK
    <2>4. WaitInv(r)' /\ BeatInv(r)'
      BY <2>1 DEF WaitInv, BeatInv, Beating, TypeOK
    <2>. QED  BY <2>2, <2>3, <2>4
  <1>4. CASE AcquireFails(r) \/ AcquireCancelled(r)
    <2>1. /\ UNCHANGED <<now, leases, keyExpiry, wire, beat, due>>
          /\ phase[r] \in {"acquire", "sleep"}
          /\ phase'[r] \in {"working", "done"}
          /\ \A q \in Requests : q # r => phase'[q] = phase[q]
      BY <1>4 DEF AcquireFails, AcquireCancelled, GoTo, TypeOK
    <2>2. ClockInv'
      BY <2>1 DEF ClockInv
    <2>3. ASSUME NEW q \in Requests, q # r PROVE WaitInv(q)' /\ BeatInv(q)'
      BY <2>1, <2>3, Undisturbed
    <2>4. WaitInv(r)' /\ BeatInv(r)'
      BY <2>1 DEF WaitInv, BeatInv, Beating
    <2>. QED  BY <2>2, <2>3, <2>4
  <1>5. CASE RefreshFails(r) \/ Crash(r)
    <2>1. /\ UNCHANGED <<now, leases, keyExpiry, wire, due>>
          /\ beat'[r] \in {"dead", "off"}
          /\ \A q \in Requests : q # r => phase'[q] = phase[q] /\ beat'[q] = beat[q]
          /\ phase'[r] \in {phase[r], "dead"}
      BY <1>5 DEF RefreshFails, Crash, GoTo, TypeOK
    <2>2. ClockInv'
      BY <2>1 DEF ClockInv
    <2>3. ASSUME NEW q \in Requests, q # r PROVE WaitInv(q)' /\ BeatInv(q)'
      BY <2>1, <2>3, Undisturbed
    <2>4. WaitInv(r)' /\ BeatInv(r)'
      BY <2>1 DEF WaitInv, BeatInv, Beating, CommandsOf
    <2>. QED  BY <2>2, <2>3, <2>4
  <1>6. CASE NoticeDeadHeartbeat(r) \/ EndWork(r) \/ ReleaseFails(r)
    <2>1. /\ UNCHANGED <<now, leases, keyExpiry, wire, beat, due>>
          /\ \A q \in Requests : q # r => phase'[q] = phase[q]
          /\ \/ phase[r] = "working" /\ phase'[r] = "closing"
             \/ phase[r] = "releasing" /\ phase'[r] = "done"
      BY <1>6 DEF NoticeDeadHeartbeat, EndWork, ReleaseFails, GoTo, TypeOK
    <2>2. ClockInv'
      BY <2>1 DEF ClockInv
    <2>3. ASSUME NEW q \in Requests, q # r PROVE WaitInv(q)' /\ BeatInv(q)'
      BY <2>1, <2>3, Undisturbed
    <2>4. WaitInv(r)' /\ BeatInv(r)'
      BY <2>1 DEF WaitInv, BeatInv, Beating, CommandsOf
    <2>. QED  BY <2>2, <2>3, <2>4
  <1>. QED  BY <1>1, <1>2, <1>3, <1>4, <1>5, <1>6 DEF RequestStep

(***************************************************************************)
(* The steps of Redis                                                      *)
(***************************************************************************)
(* A command prunes no lease whose heartbeat beats.                        *)
LEMMA PrunedKeepsBeating ==
    ASSUME TypeOK, LeaseInv, NEW c \in wire, NEW q \in Requests, Beating(q)
    PROVE  Pruned(c.at)[q] = leases[q]
  <1>1. c.at <= now + Skew /\ now <= due[q] /\ leases[q] > due[q] + Skew
    BY DEF LeaseInv, ClockInv, BeatInv
  <1>2. ~(leases[q] <= c.at)
    BY <1>1, Times
  <1>. QED  BY <1>2 DEF Pruned

LEMMA AcquireLease ==
    ASSUME TypeOK, LeaseInv, NEW c \in wire, ExecuteAcquire(c)
    PROVE  LeaseInv'
  <1>. USE DEF LeaseInv
  <1>. DEFINE r == c.request
              pruned == Pruned(c.at)
  <1>0. /\ r \in Requests /\ c.at \in Nat /\ c.op = "acquire"
        /\ now' = now /\ wire' = wire \ {c}
        /\ c.at <= now + Skew
    BY Times DEF ExecuteAcquire, ClockInv
  <1>1. /\ pruned \in [Requests -> Nat]
        /\ \A q \in Requests : pruned[q] <= keyExpiry
    BY Times DEF Pruned, ClockInv, TypeOK
  <1>2. \A q \in Requests : Beating(q) => pruned[q] = leases[q]
    BY PrunedKeepsBeating
  <1>3. phase[r] \notin {"new", "sleep"} /\ ~Beating(r)
    BY <1>0 DEF WaitInv, BeatInv, CommandsOf
  <1>4. \A d \in wire : d \in wire'  \/ d = c
    BY <1>0
  <1>. HIDE DEF r, pruned
  <1>5. CASE HasRoom(pruned)
    <2>1. /\ leases' = [pruned EXCEPT ![r] = c.at + TTL]
          /\ keyExpiry' = now + 2 * TTL
      BY <1>5 DEF ExecuteAcquire, Expiry, TouchKey, r, pruned
    <2>2. \A q \in Requests : leases'[q] = IF q = r THEN c.at + TTL ELSE pruned[q]
      BY <1>1, <2>1
    <2>3. ClockInv'
      <3>1. \A q \in Requests : leases'[q] <= keyExpiry'
        BY <1>0, <1>1, <2>1, <2>2, Times DEF ClockInv
      <3>. QED  BY <1>0, <2>1, <3>1, Times DEF ClockInv
    <2>4. ASSUME NEW q \in Requests, q # r PROVE WaitInv(q)' /\ BeatInv(q)'
      <3>1. phase'[q] = phase[q] /\ due'[q] = due[q] /\ beat'[q] = beat[q]
        BY <1>5, <2>4 DEF ExecuteAcquire, GoTo, TypeOK, r, pruned
      <3>. QED  BY <1>0, <1>2, <2>2, <2>4, <3>1, Undisturbed
    <2>5. CASE phase[r] = "acquire"
      <3>1. phase'[r] = "working" /\ beat'[r] = "sleeping" /\ due'[r] = now + Interval
        BY <1>0, <1>5, <2>5 DEF ExecuteAcquire, GoTo, TypeOK, r, pruned
      <3>2. /\ now <= due[r]
            /\ \A d \in CommandsOf(r) : d.op = "acquire" /\ d.at + Delay = due[r] + Offset[r]
        BY <1>0, <2>5 DEF WaitInv
      <3>3. CommandsOf(r)' = {}
        <4>1. SUFFICES ASSUME NEW d \in wire, d.request = r PROVE d = c
          BY <1>0 DEF CommandsOf
        <4>2. d.op = c.op /\ d.at + Delay = due[r] + Offset[r] /\ c.at + Delay = due[r] + Offset[r]
          BY <1>0, <3>2, <4>1 DEF CommandsOf, r
        <4>3. d.at = c.at
          BY <1>0, <4>2, Times
        <4>. QED  BY <4>1, <4>2, <4>3 DEF r, TypeOK, Command
      <3>4. leases'[r] > due'[r] + Skew + Delay
        <4>1. c \in CommandsOf(r)
          BY DEF CommandsOf, r
        <4>2. c.at + Delay = due[r] + Offset[r]
          BY <3>2, <4>1
        <4>3. leases'[r] = c.at + TTL /\ due'[r] = now + Interval
          BY <1>0, <2>2, <3>1
        <4>4. c.at + Delay >= now + Offset[r]
          BY <1>0, <3>2, <4>2, Times
        <4>. QED  BY <1>0, <4>3, <4>4, Times
      <3>5. WaitInv(r)'
        BY <3>1 DEF WaitInv
      <3>6. BeatInv(r)'
        <4>1. /\ leases'[r] > due'[r] + Skew
              /\ now' <= due'[r]
          BY <1>0, <2>2, <3>1, <3>4, Times
        <4>. QED  BY <3>1, <3>3, <3>4, <4>1 DEF BeatInv
      <3>. QED  BY <2>3, <2>4, <3>5, <3>6
    <2>6. CASE phase[r] # "acquire"
      <3>1. phase'[r] = phase[r] /\ due'[r] = due[r] /\ beat'[r] = beat[r]
        BY <1>5, <2>6 DEF ExecuteAcquire, r, pruned
      <3>2. WaitInv(r)' /\ BeatInv(r)'
        BY <1>0, <1>3, <3>1, Undisturbed
      <3>. QED  BY <2>3, <2>4, <3>2
    <2>. QED  BY <2>5, <2>6
  <1>6. CASE ~HasRoom(pruned)
    <2>1. /\ leases' = pruned
          /\ UNCHANGED <<keyExpiry, beat, due>>
      BY <1>6 DEF ExecuteAcquire, r, pruned
    <2>2. ClockInv'
      BY <1>0, <1>1, <2>1 DEF ClockInv
    <2>3. ASSUME NEW q \in Requests, phase'[q] = phase[q] PROVE WaitInv(q)' /\ BeatInv(q)'
      BY <1>0, <1>2, <2>1, <2>3, Undisturbed
    <2>4. \A q \in Requests : q # r => phase'[q] = phase[q]
      BY <1>6 DEF ExecuteAcquire, GoTo, TypeOK, r, pruned
    <2>5. CASE phase[r] = "acquire"
      <3>1. phase'[r] \in {"sleep", "working", "done"}
        BY <1>0, <1>6, <2>5 DEF ExecuteAcquire, GoTo, TypeOK, r, pruned
      <3>2. CommandsOf(r)' = {}
        <4>1. SUFFICES ASSUME NEW d \in wire, d.request = r PROVE d = c
          BY <1>0 DEF CommandsOf
        <4>2. d.op = c.op /\ d.at + Delay = due[r] + Offset[r] /\ c.at + Delay = due[r] + Offset[r]
          BY <1>0, <2>5, <4>1 DEF WaitInv, CommandsOf, r
        <4>3. d.at = c.at
          BY <1>0, <4>2, Times
        <4>. QED  BY <4>1, <4>2, <4>3 DEF r, TypeOK, Command
      <3>3. ~Beating(r)'
        BY <1>3, <2>1 DEF Beating
      <3>. QED  BY <1>0, <2>2, <2>3, <2>4, <3>1, <3>2, <3>3 DEF WaitInv, BeatInv
    <2>6. CASE phase[r] # "acquire"
      <3>1. phase'[r] = phase[r]
        BY <1>6, <2>6 DEF ExecuteAcquire, r, pruned
      <3>. QED  BY <1>0, <2>2, <2>3, <2>4, <3>1
    <2>. QED  BY <2>5, <2>6
  <1>. QED  BY <1>5, <1>6

LEMMA RefreshLease ==
    ASSUME TypeOK, LeaseInv, NEW c \in wire, ExecuteRefresh(c)
    PROVE  LeaseInv'
  <1>. USE DEF LeaseInv
  <1>. DEFINE r == c.request
  <1>0. /\ r \in Requests /\ c.at \in Nat /\ c.op = "refresh"
        /\ now' = now /\ wire' = wire \ {c} /\ phase' = phase
        /\ c.at <= now + Skew
    BY Times DEF ExecuteRefresh, ClockInv
  <1>. HIDE DEF r
  <1>1. ClockInv'
    <2>1. CASE Refreshes(r)
      <3>1. leases' = [leases EXCEPT ![r] = c.at + TTL] /\ keyExpiry' = now + 2 * TTL
        BY <2>1 DEF ExecuteRefresh, Expiry, TouchKey, r
      <3>2. \A q \in Requests : leases'[q] = IF q = r THEN c.at + TTL ELSE leases[q]
        BY <3>1 DEF TypeOK
      <3>. QED  BY <1>0, <3>1, <3>2, Times DEF ClockInv
    <2>2. CASE ~Refreshes(r)
      <3>1. UNCHANGED <<leases, keyExpiry>>
        BY <2>2 DEF ExecuteRefresh, r
      <3>. QED  BY <1>0, <3>1 DEF ClockInv
    <2>. QED  BY <2>1, <2>2
  <1>2. ASSUME NEW q \in Requests, q # r PROVE WaitInv(q)' /\ BeatInv(q)'
    <2>1. due'[q] = due[q] /\ beat'[q] = beat[q] /\ leases'[q] = leases[q]
      BY <1>2 DEF ExecuteRefresh, TypeOK, r
    <2>. QED  BY <1>0, <2>1, Undisturbed
  <1>3. WaitInv(r)' /\ BeatInv(r)'
    <2>0. c \in CommandsOf(r)
      BY DEF CommandsOf, r
    <2>1. CASE beat[r] = "sent"
      <3>1. /\ phase[r] \in {"working", "closing"}
            /\ now <= due[r]
            /\ \A d \in CommandsOf(r) : d.op = "refresh" /\ d.at + Delay = due[r] + Offset[r]
            /\ leases[r] > due[r] + Skew
        BY <1>0, <2>1 DEF BeatInv, Beating
      <3>2. CommandsOf(r)' = {}
        <4>1. SUFFICES ASSUME NEW d \in wire, d.request = r PROVE d = c
          BY <1>0 DEF CommandsOf
        <4>2. d.op = c.op /\ d.at + Delay = due[r] + Offset[r] /\ c.at + Delay = due[r] + Offset[r]
          BY <1>0, <2>0, <3>1, <4>1 DEF CommandsOf
        <4>3. d.at = c.at
          BY <1>0, <4>2, Times
        <4>. QED  BY <4>1, <4>2, <4>3 DEF r, TypeOK, Command
      <3>3. Refreshes(r)
        BY <1>0, <3>1, Times DEF Refreshes
      <3>4. /\ leases'[r] = c.at + TTL
            /\ beat'[r] = "sleeping"
            /\ due'[r] = now + Interval
        BY <1>0, <2>1, <3>3 DEF ExecuteRefresh, Expiry, TypeOK, r
      <3>5. c.at + Delay = due[r] + Offset[r]
        BY <2>0, <3>1
      <3>6. leases'[r] > due'[r] + Skew + Delay
        BY <1>0, <3>1, <3>4, <3>5, Times
      <3>. QED  BY <1>0, <3>1, <3>2, <3>4, <3>6, Times DEF WaitInv, BeatInv
    <2>2. CASE beat[r] # "sent"
      <3>1. due' = due /\ beat' = beat
        BY <2>2 DEF ExecuteRefresh, r
      <3>2. ~Beating(r)
        BY <1>0, <2>0, <2>2 DEF BeatInv
      <3>. QED  BY <1>0, <3>1, <3>2, Undisturbed
    <2>. QED  BY <2>1, <2>2
  <1>. QED  BY <1>1, <1>2, <1>3

LEMMA ReleaseLease ==
    ASSUME TypeOK, LeaseInv, NEW c \in wire, ExecuteRelease(c) \/ LoseCommand(c)
    PROVE  LeaseInv'
  <1>. USE DEF LeaseInv
  <1>. DEFINE r == c.request
  <1>0. /\ r \in Requests /\ wire' = wire \ {c}
        /\ UNCHANGED <<now, keyExpiry, beat, due>>
    BY Times DEF ExecuteRelease, LoseCommand
  <1>. HIDE DEF r
  <1>1. \A q \in Requests : leases'[q] = 0 \/ leases'[q] = leases[q]
    <2>1. CASE LoseCommand(c)
      BY <2>1 DEF LoseCommand
    <2>2. CASE ExecuteRelease(c)
      BY <2>2 DEF ExecuteRelease, TypeOK
    <2>. QED  BY <2>1, <2>2
  <1>2. ASSUME NEW q \in Requests
        PROVE  phase'[q] = phase[q] \/ (phase[q] = "releasing" /\ phase'[q] = "done")
    <2>1. CASE phase' = phase
      BY <2>1
    <2>2. CASE phase[r] = "releasing" /\ phase' = [phase EXCEPT ![r] = "done"]
      BY <2>2 DEF TypeOK
    <2>. QED  BY <2>1, <2>2 DEF ExecuteRelease, LoseCommand, GoTo, r
  <1>3. ClockInv'
    BY <1>0, <1>1, Times DEF ClockInv
  <1>4. ASSUME NEW q \in Requests, Beating(q) PROVE leases'[q] = leases[q]
    <2>1. CASE LoseCommand(c)
      BY <2>1 DEF LoseCommand
    <2>2. CASE ExecuteRelease(c)
      <3>1. q # r
        BY <1>4, <2>2 DEF ExecuteRelease, BeatInv, CommandsOf, r
      <3>. QED  BY <2>2, <3>1 DEF ExecuteRelease, TypeOK, r
    <2>. QED  BY <2>1, <2>2
  <1>5. ASSUME NEW q \in Requests PROVE WaitInv(q)' /\ BeatInv(q)'
    <2>1. CASE phase'[q] = phase[q]
      BY <1>0, <1>4, <2>1, Undisturbed
    <2>2. CASE phase[q] = "releasing" /\ phase'[q] = "done"
      BY <1>0, <2>2 DEF WaitInv, BeatInv, Beating
    <2>. QED  BY <1>2, <2>1, <2>2
  <1>. QED  BY <1>3, <1>5

LEMMA LeaseStep == TypeOK /\ LeaseInv /\ [Next]_vars => LeaseInv'
  <1>. SUFFICES ASSUME TypeOK, LeaseInv, [Next]_vars PROVE LeaseInv'
    OBVIOUS
  <1>1. ASSUME NEW r \in Requests, RequestStep(r) PROVE LeaseInv'
    BY <1>1, RequestLease
  <1>2. ASSUME NEW c \in wire, RedisStep(c) PROVE LeaseInv'
    BY <1>2, AcquireLease, RefreshLease, ReleaseLease DEF RedisStep
  <1>3. CASE ExpireKey
    <2>1. \A q \in Requests : ~Beating(q)
      BY <1>3, Times DEF ExpireKey, LeaseInv, ClockInv, BeatInv
    <2>2. ClockInv'
      BY <1>3, Times DEF ExpireKey, LeaseInv, ClockInv
    <2>3. ASSUME NEW q \in Requests PROVE WaitInv(q)' /\ BeatInv(q)'
      BY <1>3, <2>1, Undisturbed DEF ExpireKey, LeaseInv
    <2>. QED  BY <2>2, <2>3 DEF LeaseInv
  <1>4. CASE Tick
    <2>1. /\ now' = now + 1
          /\ UNCHANGED <<leases, keyExpiry, wire, phase, outcome, beat, due>>
          /\ \A q \in Requests : Beating(q) \/ phase[q] = "acquire" => now < due[q]
      BY <1>4 DEF Tick
    <2>2. ClockInv'
      BY <2>1, Times DEF LeaseInv, ClockInv
    <2>3. ASSUME NEW q \in Requests PROVE WaitInv(q)' /\ BeatInv(q)'
      BY <2>1, Times DEF LeaseInv, WaitInv, BeatInv, Beating, CommandsOf
    <2>. QED  BY <2>2, <2>3 DEF LeaseInv
  <1>5. CASE UNCHANGED vars
    BY <1>5 DEF vars, LeaseInv, ClockInv, WaitInv, BeatInv, Beating, CommandsOf
  <1>. QED  BY <1>1, <1>2, <1>3, <1>4, <1>5 DEF Next

(* While their heartbeats beat, no more requests than the limit work at a  *)
(* time: on clocks that LeaseAssumption allows nobody prunes a lease that  *)
(* is renewed, and the sorted set does not expire under it.                *)
THEOREM BeatingWorkHolds == Spec => []BeatingWorkWithinLimit
  <1>1. Init => LeaseInv
    BY TimeAssumption, ClockAssumption
    DEF Init, LeaseInv, ClockInv, WaitInv, BeatInv, Beating, CommandsOf
  <1>2. TypeOK /\ LeaseInv /\ LeasesWithinLimit => BeatingWorkWithinLimit
    <2>. SUFFICES ASSUME TypeOK, LeaseInv, LeasesWithinLimit PROVE BeatingWorkWithinLimit
      OBVIOUS
    <2>. DEFINE busy == {r \in Working : outcome[r] = "leased" /\ Beating(r)}
    <2>1. busy \subseteq Held(leases)
      BY Times DEF Working, Held, LeaseInv, BeatInv
    <2>2. IsFiniteSet(Held(leases)) /\ Cardinality(Held(leases)) \in Nat
      BY HeldIsFinite
    <2>3. Cardinality(busy) <= Cardinality(Held(leases)) /\ Cardinality(busy) \in Nat
      BY <2>1, <2>2, FS_Subset, FS_CardinalityType
    <2>. QED  BY <2>2, <2>3, LimitAssumption DEF LeasesWithinLimit, BeatingWorkWithinLimit
  <1>. QED  BY <1>1, <1>2, LeaseStep, AdmissionTypeCorrect, LimitHolds, PTL DEF Spec
=============================================================================
