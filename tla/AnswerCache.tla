------------------------------ MODULE AnswerCache ------------------------------
(***************************************************************************)
(* The answer cache (tools/cache.py) as turns of several processes use it  *)
(* in check_cache and in WorkflowRuntime._persist, for one question.       *)
(*                                                                         *)
(* The key of an entry holds the digest of the legal review manifest.  It  *)
(* is taken from the cache object of the process, which all its turns      *)
(* share, so another turn may change it at every await.                    *)
(***************************************************************************)
EXTENDS Integers, FiniteSets

CONSTANTS
    CacheTurns,     \* turns that ask the question
    ProcessOf,      \* the process each of them runs in
    Digests,        \* manifests, by their digest
    Documents,      \* evidence an answer may rest on
    AllowedBy,      \* the documents that each manifest allows
    MaxReplacements \* bound: how often the manifest is replaced or fails

ASSUME CacheAssumption ==
    /\ AllowedBy \in [Digests -> SUBSET Documents]
    /\ MaxReplacements \in Nat

VARIABLES
    review_manifest, \* the manifest on disk: its digest, and whether it can be read
    replacements,    \* number of changes of it so far
    shared,          \* per process: legal_readiness_sha of its cache object
    resting,         \* per process: after a failure Redis is left alone for a while
    redis,           \* entries by the digest in their key
    writes,          \* SETs that have been sent
    asks             \* per turn: where it is and what it holds

cacheVars == <<review_manifest, replacements, shared, resting, redis, writes, asks>>

Processes == {ProcessOf[t] : t \in CacheTurns}
Entries   == [digest : Digests, doc : Documents]
NoEntry   == [digest |-> "none", doc |-> "none"]

(* Ghosts: the manifests that were in force since the lookup began, whether *)
(* it began without being able to read one, and which one let a hit through. *)
NewAsk == [stage |-> "new", key |-> "none", entry |-> NoEntry,
           since |-> {}, blind |-> FALSE, judge |-> "none"]

CacheInit ==
    /\ review_manifest \in [digest : Digests, readable : {TRUE}]
    /\ replacements = 0
    /\ shared  = [p \in Processes |-> review_manifest.digest]
    /\ resting = [p \in Processes |-> FALSE]
    /\ redis   = [d \in Digests |-> NoEntry]
    /\ writes  = {}
    /\ asks    = [t \in CacheTurns |-> NewAsk]

InForce == IF review_manifest.readable THEN {review_manifest.digest} ELSE {}

(* The manifest is replaced, or becomes unreadable. *)
ReviewChanges ==
    /\ replacements < MaxReplacements
    /\ replacements' = replacements + 1
    /\ review_manifest' \in [digest : Digests, readable : BOOLEAN] \ {review_manifest}
    /\ asks' = [t \in CacheTurns |->
                  IF asks[t].stage = "reading"
                  THEN [asks[t] EXCEPT !.since = @ \cup (IF review_manifest'.readable
                                                         THEN {review_manifest'.digest} ELSE {})]
                  ELSE asks[t]]
    /\ UNCHANGED <<shared, resting, redis, writes>>

(* Fault: the digest that the process started with. *)
DigestOfStart(p) == shared[p]

(* update_legal_readiness_sha with what the audit says, unless it raises. *)
Refreshed(p) == IF review_manifest.readable THEN review_manifest.digest ELSE shared[p]

(* check_cache up to its await: audit, refresh, build the key. *)
BeginLookup(t) ==
    LET p == ProcessOf[t] IN
    /\ asks[t].stage = "new"
    /\ shared' = [shared EXCEPT ![p] = Refreshed(p)]
    /\ asks' = [asks EXCEPT ![t].stage = IF resting[p] THEN "missed" ELSE "reading",
                            ![t].key   = Refreshed(p),
                            ![t].since = InForce,
                            ![t].blind = ~review_manifest.readable]
    /\ UNCHANGED <<review_manifest, replacements, resting, redis, writes>>

(* ScopedAnswerCache.lookup compares the entry with the shared digest, as  *)
(* it is by now.                                                           *)
Usable(p, entry) == entry # NoEntry /\ entry.digest = shared[p]

(* A second audit decides whether the manifest allows its documents. *)
Hit(t, entry, cited) ==
    /\ Usable(ProcessOf[t], entry) /\ cited
    /\ review_manifest.readable
    /\ entry.doc \in AllowedBy[review_manifest.digest]

(* The rest of check_cache, once Redis has answered: the citations of the  *)
(* entry are checked (cited), then the audit.                              *)
ReadAnswer(t, cited) ==
    LET p == ProcessOf[t]
        entry == redis[asks[t].key]
    IN  /\ asks[t].stage = "reading"
        /\ shared' = IF Usable(p, entry) /\ cited THEN [shared EXCEPT ![p] = Refreshed(p)] ELSE shared
        /\ resting' = [resting EXCEPT ![p] = FALSE]
        /\ asks' = [asks EXCEPT
                      ![t].stage = IF Hit(t, entry, cited) THEN "hit" ELSE "missed",
                      ![t].entry = IF Hit(t, entry, cited) THEN entry ELSE NoEntry,
                      ![t].judge = IF Hit(t, entry, cited) THEN review_manifest.digest ELSE "none"]
        /\ UNCHANGED <<review_manifest, replacements, redis, writes>>

(* A second has passed, or Redis failed: a miss. *)
ReadCannot(t) ==
    /\ asks[t].stage = "reading"
    /\ asks' = [asks EXCEPT ![t].stage = "missed"]
    /\ resting' = [resting EXCEPT ![ProcessOf[t]] = TRUE]
    /\ UNCHANGED <<review_manifest, replacements, shared, redis, writes>>

(* The workflow finds an answer of its own, which passes under the         *)
(* manifest of that moment. Then it saves the case and the exchange.       *)
FindAnswer(t) ==
    /\ asks[t].stage = "missed" /\ review_manifest.readable
    /\ \E doc \in AllowedBy[review_manifest.digest] :
         asks' = [asks EXCEPT ![t].stage = "verified", ![t].entry.doc = doc]
    /\ UNCHANGED <<review_manifest, replacements, shared, resting, redis, writes>>

(* ScopedAnswerCache.store files it under the digest shared by now. *)
BeginStore(t) ==
    LET p == ProcessOf[t]
        entry == [digest |-> shared[p], doc |-> asks[t].entry.doc]
    IN  /\ asks[t].stage = "verified"
        /\ asks' = [asks EXCEPT ![t].stage = IF resting[p] THEN "done" ELSE "storing",
                                ![t].entry = entry]
        /\ writes' = IF resting[p] THEN writes ELSE writes \cup {entry}
        /\ UNCHANGED <<review_manifest, replacements, shared, resting, redis>>

(* Redis executes a SET, if it ever reaches it. *)
ExecuteSet ==
    \E entry \in writes :
        /\ redis' = [redis EXCEPT ![entry.digest] = entry]
        /\ writes' = writes \ {entry}
        /\ UNCHANGED <<review_manifest, replacements, shared, resting, asks>>

(* The reply comes, or the second is over and the SET may come later. *)
EndStore(t) ==
    /\ asks[t].stage = "storing"
    /\ asks' = [asks EXCEPT ![t].stage = "done"]
    /\ \E failed \in BOOLEAN : resting' = [resting EXCEPT ![ProcessOf[t]] = failed]
    /\ UNCHANGED <<review_manifest, replacements, shared, redis, writes>>

(* The time to live of an entry, and the pause after a failure. *)
Expire ==
    \/ \E d \in Digests :
         /\ redis[d] # NoEntry
         /\ redis' = [redis EXCEPT ![d] = NoEntry]
         /\ UNCHANGED <<review_manifest, replacements, shared, resting, writes, asks>>
    \/ \E p \in Processes :
         /\ resting[p]
         /\ resting' = [resting EXCEPT ![p] = FALSE]
         /\ UNCHANGED <<review_manifest, replacements, shared, redis, writes, asks>>

CacheNext ==
    \/ ReviewChanges \/ ExecuteSet \/ Expire
    \/ \E t \in CacheTurns :
         \/ BeginLookup(t) \/ ReadCannot(t)
         \/ \E cited \in BOOLEAN : ReadAnswer(t, cited)
         \/ FindAnswer(t) \/ BeginStore(t) \/ EndStore(t)

CacheSpec == CacheInit /\ [][CacheNext]_cacheVars

-------------------------------------------------------------------------------
(* An answer that is taken from the cache rests on documents that a        *)
(* manifest in force since the lookup began allows, and it was filed under *)
(* such a manifest too, whatever the other turns do to the shared digest   *)
(* meanwhile, unless the manifest could not be read when the lookup began. *)
HitsFollowTheReview ==
    \A t \in CacheTurns : asks[t].stage = "hit" =>
        /\ asks[t].judge \in asks[t].since
        /\ asks[t].entry.doc \in AllowedBy[asks[t].judge]
        /\ asks[t].blind \/ asks[t].entry.digest \in asks[t].since
===============================================================================
