------------------------------- MODULE ServicesProofs -------------------------------
(***************************************************************************)
(* The services around an answer, each a module that shares no state with  *)
(* the others: the answer cache, the indexes of retrieval, the tables      *)
(* beside the turns, the pages of a conversation, the rate limiter, the    *)
(* pool of keys, the formulas that are written twice and the text of an    *)
(* answer.                                                                 *)
(***************************************************************************)
EXTENDS AnswerCache, RetrievalIndex, ConversationData, MessagePages, RateLimiter, KeyPool,
        StatutoryAmounts, AnswerText, RanksProofs

(***************************************************************************)
(* The answer cache                                                        *)
(***************************************************************************)

(* HitsFollowTheReview, proved for any number of turns and processes and   *)
(* any manifests.  That a hit was filed under a manifest in force since    *)
(* its lookup began is not inductive: the entry is found by the key of the *)
(* lookup, but compared with a digest that other turns change.  What makes *)
(* it true is that an entry lies under its own digest, and that the key of *)
(* a lookup is a manifest in force when it began or later.                 *)

LookupStages == {"new", "reading", "missed", "hit", "verified", "storing", "done"}

Asks == [stage : LookupStages, key : Digests \cup {"none"},
         entry : [digest : Digests \cup {"none"}, doc : Documents \cup {"none"}],
         since : SUBSET Digests, blind : BOOLEAN, judge : Digests \cup {"none"}]

CacheTypes ==
    /\ review_manifest \in [digest : Digests, readable : BOOLEAN]
    /\ shared \in [Processes -> Digests]
    /\ redis  \in [Digests -> Entries \cup {NoEntry}]
    /\ writes \subseteq Entries
    /\ asks   \in [CacheTurns -> Asks]

(* An entry lies under the digest that it was filed with. *)
FiledUnderDigest == \A d \in Digests : redis[d] # NoEntry => redis[d].digest = d

(* What a turn that reads knows of the manifests, and what one holds that  *)
(* has found an answer.                                                    *)
LookupsFollow ==
    \A t \in CacheTurns :
        /\ asks[t].stage = "reading" =>
              /\ asks[t].key \in Digests
              /\ InForce \subseteq asks[t].since
              /\ asks[t].blind \/ asks[t].key \in asks[t].since
        /\ asks[t].stage = "verified" => asks[t].entry.doc \in Documents

CacheInv == CacheTypes /\ FiledUnderDigest /\ LookupsFollow /\ HitsFollowTheReview

-------------------------------------------------------------------------------
LEMMA ProcessOfTurn == ASSUME NEW t \in CacheTurns PROVE ProcessOf[t] \in Processes
  BY DEF Processes

LEMMA RefreshedType == ASSUME CacheTypes, NEW p \in Processes PROVE Refreshed(p) \in Digests
  BY DEF CacheTypes, Refreshed

LEMMA CacheInitially == CacheInit => CacheInv
  <1>. SUFFICES ASSUME CacheInit PROVE CacheInv
    OBVIOUS
  <1>1. NewAsk \in Asks /\ NewAsk.stage = "new"
    BY DEF NewAsk, Asks, LookupStages, NoEntry
  <1>2. review_manifest \in [digest : Digests, readable : BOOLEAN]
    BY DEF CacheInit
  <1>3. CacheTypes
    BY <1>1, <1>2 DEF CacheInit, CacheTypes
  <1>4. FiledUnderDigest
    BY DEF CacheInit, FiledUnderDigest
  <1>5. \A t \in CacheTurns : asks[t].stage = "new"
    BY <1>1 DEF CacheInit
  <1>. QED  BY <1>3, <1>4, <1>5 DEF CacheInv, LookupsFollow, HitsFollowTheReview

-------------------------------------------------------------------------------
(* The other turns: what they hold does not change, and neither does what  *)
(* is said of them.                                                        *)
LEMMA OthersKeep ==
    ASSUME CacheInv, UNCHANGED review_manifest, NEW t \in CacheTurns,
           NEW ask \in Asks, asks' = [asks EXCEPT ![t] = ask],
           ask.stage = "reading" =>
              ask.key \in Digests /\ InForce \subseteq ask.since /\ (ask.blind \/ ask.key \in ask.since),
           ask.stage = "verified" => ask.entry.doc \in Documents,
           ask.stage = "hit" =>
              /\ ask.judge \in ask.since /\ ask.entry.doc \in AllowedBy[ask.judge]
              /\ ask.blind \/ ask.entry.digest \in ask.since
    PROVE  asks' \in [CacheTurns -> Asks] /\ LookupsFollow' /\ HitsFollowTheReview'
  <1>. USE DEF CacheInv
  <1>1. asks' \in [CacheTurns -> Asks] /\ asks'[t] = ask
        /\ \A u \in CacheTurns \ {t} : asks'[u] = asks[u]
    BY DEF CacheTypes
  <1>2. InForce' = InForce
    BY DEF InForce
  <1>3. LookupsFollow'
    BY <1>1, <1>2 DEF LookupsFollow
  <1>4. HitsFollowTheReview'
    BY <1>1 DEF HitsFollowTheReview
  <1>. QED  BY <1>1, <1>3, <1>4

LEMMA ReviewStep == CacheInv /\ ReviewChanges => CacheInv'
  <1>. SUFFICES ASSUME CacheInv, ReviewChanges PROVE CacheInv'
    OBVIOUS
  <1>. USE DEF CacheInv
  <1>1. review_manifest' \in [digest : Digests, readable : BOOLEAN]
        /\ UNCHANGED <<shared, resting, redis, writes>>
    BY DEF ReviewChanges
  <1>2. InForce' \subseteq Digests /\ InForce' = (IF review_manifest'.readable THEN {review_manifest'.digest} ELSE {})
    BY <1>1 DEF InForce
  <1>3. asks' = [t \in CacheTurns |-> IF asks[t].stage = "reading"
                                      THEN [asks[t] EXCEPT !.since = @ \cup InForce'] ELSE asks[t]]
    BY <1>2 DEF ReviewChanges
  <1>4. \A t \in CacheTurns : asks[t].stage # "reading" => asks'[t] = asks[t]
    BY <1>3
  <1>5. \A t \in CacheTurns : asks[t].stage = "reading" =>
           /\ asks'[t] \in Asks /\ asks'[t].stage = "reading" /\ asks'[t].key = asks[t].key
           /\ asks'[t].blind = asks[t].blind /\ asks'[t].since = asks[t].since \cup InForce'
    BY <1>2, <1>3 DEF CacheTypes, Asks
  <1>6. asks' \in [CacheTurns -> Asks]
    BY <1>3, <1>4, <1>5 DEF CacheTypes
  <1>7. CacheTypes' /\ FiledUnderDigest'
    BY <1>1, <1>6 DEF CacheTypes, FiledUnderDigest
  <1>8. LookupsFollow'
    BY <1>4, <1>5 DEF LookupsFollow
  <1>9. HitsFollowTheReview'
    BY <1>4, <1>5 DEF HitsFollowTheReview
  <1>. QED  BY <1>7, <1>8, <1>9

LEMMA BeginLookupStep == ASSUME CacheInv, NEW t \in CacheTurns, BeginLookup(t) PROVE CacheInv'
  <1>. USE DEF CacheInv
  <1>. DEFINE p   == ProcessOf[t]
              ask == [asks[t] EXCEPT !.stage = IF resting[p] THEN "missed" ELSE "reading",
                                     !.key = Refreshed(p), !.since = InForce,
                                     !.blind = ~review_manifest.readable]
  <1>1. p \in Processes /\ Refreshed(p) \in Digests /\ asks[t] \in Asks
    BY ProcessOfTurn, RefreshedType DEF CacheTypes
  <1>2. UNCHANGED <<review_manifest, redis, writes>> /\ shared' \in [Processes -> Digests]
    BY <1>1 DEF BeginLookup, CacheTypes
  <1>3. asks' = [asks EXCEPT ![t] = ask]
    BY DEF BeginLookup
  <1>4. InForce \subseteq Digests /\ (review_manifest.readable => InForce = {Refreshed(p)})
        /\ review_manifest.readable \in BOOLEAN
    BY DEF InForce, Refreshed, CacheTypes
  <1>5. ask \in Asks
    BY <1>1, <1>4 DEF Asks, LookupStages
  <1>6. ask.stage \in {"missed", "reading"} /\ ask.key = Refreshed(p) /\ ask.since = InForce
        /\ ask.blind = ~review_manifest.readable
    BY <1>1 DEF Asks
  <1>. HIDE DEF ask
  <1>7. asks' \in [CacheTurns -> Asks] /\ LookupsFollow' /\ HitsFollowTheReview'
    BY <1>1, <1>2, <1>3, <1>4, <1>5, <1>6, OthersKeep
  <1>. QED  BY <1>2, <1>7 DEF CacheTypes, FiledUnderDigest

LEMMA ReadAnswerStep ==
    ASSUME CacheInv, NEW t \in CacheTurns, NEW cited \in BOOLEAN, ReadAnswer(t, cited) PROVE CacheInv'
  <1>. USE DEF CacheInv
  <1>. DEFINE p     == ProcessOf[t]
              entry == redis[asks[t].key]
              hit   == Hit(t, entry, cited)
              ask   == [asks[t] EXCEPT !.stage = IF hit THEN "hit" ELSE "missed",
                                       !.entry = IF hit THEN entry ELSE NoEntry,
                                       !.judge = IF hit THEN review_manifest.digest ELSE "none"]
  <1>1. p \in Processes /\ Refreshed(p) \in Digests /\ asks[t] \in Asks
    BY ProcessOfTurn, RefreshedType DEF CacheTypes
  <1>2. UNCHANGED <<review_manifest, redis, writes>> /\ shared' \in [Processes -> Digests]
    BY <1>1 DEF ReadAnswer, CacheTypes
  <1>3. asks' = [asks EXCEPT ![t] = ask]
    BY DEF ReadAnswer
  <1>4. asks[t].key \in Digests /\ InForce \subseteq asks[t].since
        /\ (asks[t].blind \/ asks[t].key \in asks[t].since)
    BY DEF ReadAnswer, LookupsFollow
  <1>5. entry \in Entries \cup {NoEntry} /\ (entry # NoEntry => entry.digest = asks[t].key)
    BY <1>4 DEF CacheTypes, FiledUnderDigest
  <1>6. hit => /\ entry # NoEntry /\ review_manifest.digest \in InForce
               /\ entry.doc \in AllowedBy[review_manifest.digest]
    BY DEF Hit, Usable, InForce
  <1>7. review_manifest.digest \in Digests
    BY DEF CacheTypes
  <1>8. entry \in [digest : Digests \cup {"none"}, doc : Documents \cup {"none"}]
        /\ NoEntry \in [digest : Digests \cup {"none"}, doc : Documents \cup {"none"}]
    BY <1>5 DEF Entries, NoEntry
  <1>. HIDE DEF entry, hit
  <1>9. ask \in Asks
    BY <1>1, <1>7, <1>8 DEF Asks, LookupStages
  <1>10. /\ ask.stage \in {"hit", "missed"} /\ ask.since = asks[t].since /\ ask.blind = asks[t].blind
         /\ ask.stage = "hit" => hit /\ ask.entry = entry /\ ask.judge = review_manifest.digest
    BY <1>1 DEF Asks
  <1>. HIDE DEF ask
  <1>11. asks' \in [CacheTurns -> Asks] /\ LookupsFollow' /\ HitsFollowTheReview'
    BY <1>2, <1>3, <1>4, <1>5, <1>6, <1>9, <1>10, OthersKeep
  <1>. QED  BY <1>2, <1>11 DEF CacheTypes, FiledUnderDigest

(* The steps that move a turn on without a hit. *)
LEMMA MovingOn ==
    ASSUME CacheInv, NEW t \in CacheTurns,
           ReadCannot(t) \/ FindAnswer(t) \/ BeginStore(t) \/ EndStore(t)
    PROVE  CacheInv'
  <1>. USE DEF CacheInv
  <1>1. asks[t] \in Asks /\ ProcessOf[t] \in Processes /\ shared[ProcessOf[t]] \in Digests
    BY ProcessOfTurn DEF CacheTypes
  <1>2. CASE ReadCannot(t) \/ EndStore(t)
    <2>1. PICK stage \in {"missed", "done"} : asks' = [asks EXCEPT ![t] = [asks[t] EXCEPT !.stage = stage]]
      BY <1>2 DEF ReadCannot, EndStore
    <2>2. UNCHANGED <<review_manifest, shared, redis, writes>>
      BY <1>2 DEF ReadCannot, EndStore
    <2>3. [asks[t] EXCEPT !.stage = stage] \in Asks /\ [asks[t] EXCEPT !.stage = stage].stage = stage
      BY <1>1 DEF Asks, LookupStages
    <2>4. asks' \in [CacheTurns -> Asks] /\ LookupsFollow' /\ HitsFollowTheReview'
      BY <2>1, <2>2, <2>3, OthersKeep
    <2>. QED  BY <2>2, <2>4 DEF CacheTypes, FiledUnderDigest
  <1>3. CASE FindAnswer(t)
    <2>1. PICK doc \in AllowedBy[review_manifest.digest] :
             asks' = [asks EXCEPT ![t] = [asks[t] EXCEPT !.stage = "verified", !.entry.doc = doc]]
      BY <1>3 DEF FindAnswer
    <2>2. UNCHANGED <<review_manifest, shared, redis, writes>>
      BY <1>3 DEF FindAnswer
    <2>3. doc \in Documents
      BY CacheAssumption DEF CacheTypes
    <2>. DEFINE ask == [asks[t] EXCEPT !.stage = "verified", !.entry.doc = doc]
    <2>4. ask \in Asks /\ ask.stage = "verified" /\ ask.entry.doc = doc
      BY <1>1, <2>3 DEF Asks, LookupStages
    <2>5. asks' = [asks EXCEPT ![t] = ask]
      BY <2>1
    <2>. HIDE DEF ask
    <2>6. asks' \in [CacheTurns -> Asks] /\ LookupsFollow' /\ HitsFollowTheReview'
      BY <2>2, <2>3, <2>4, <2>5, OthersKeep
    <2>. QED  BY <2>2, <2>6 DEF CacheTypes, FiledUnderDigest
  <1>4. CASE BeginStore(t)
    <2>. DEFINE entry == [digest |-> shared[ProcessOf[t]], doc |-> asks[t].entry.doc]
                ask   == [asks[t] EXCEPT !.stage = IF resting[ProcessOf[t]] THEN "done" ELSE "storing",
                                         !.entry = entry]
    <2>1. asks' = [asks EXCEPT ![t] = ask] /\ UNCHANGED <<review_manifest, shared, redis>>
          /\ writes' \in {writes, writes \cup {entry}}
      BY <1>4 DEF BeginStore
    <2>2. entry \in Entries
      BY <1>1, <1>4 DEF BeginStore, LookupsFollow, Entries
    <2>3. ask \in Asks /\ ask.stage \in {"done", "storing"}
      BY <1>1, <2>2 DEF Asks, LookupStages, Entries
    <2>. HIDE DEF ask, entry
    <2>4. asks' \in [CacheTurns -> Asks] /\ LookupsFollow' /\ HitsFollowTheReview'
      BY <2>1, <2>3, OthersKeep
    <2>. QED  BY <2>1, <2>2, <2>4 DEF CacheTypes, FiledUnderDigest
  <1>. QED  BY <1>2, <1>3, <1>4

(* The steps of Redis. *)
LEMMA RedisStep == ASSUME CacheInv, ExecuteSet \/ Expire PROVE CacheInv'
  <1>. USE DEF CacheInv
  <1>1. UNCHANGED <<review_manifest, shared, asks>> /\ writes' \subseteq writes
    BY DEF ExecuteSet, Expire
  <1>2. redis' = redis \/ \E d \in Digests, e \in Entries \cup {NoEntry} :
                             (e # NoEntry => e.digest = d) /\ redis' = [redis EXCEPT ![d] = e]
    <2>1. CASE ExecuteSet
      <3>1. PICK e \in writes : redis' = [redis EXCEPT ![e.digest] = e]
        BY <2>1 DEF ExecuteSet
      <3>2. e \in Entries /\ e.digest \in Digests
        BY <3>1 DEF CacheTypes, Entries
      <3>. QED  BY <3>1, <3>2
    <2>2. CASE Expire
      BY <2>2 DEF Expire
    <2>. QED  BY <2>1, <2>2
  <1>3. redis' \in [Digests -> Entries \cup {NoEntry}] /\ FiledUnderDigest'
    BY <1>2 DEF CacheTypes, FiledUnderDigest
  <1>4. CacheTypes'
    BY <1>1, <1>3 DEF CacheTypes
  <1>5. LookupsFollow' /\ HitsFollowTheReview'
    BY <1>1 DEF LookupsFollow, HitsFollowTheReview, InForce
  <1>. QED  BY <1>3, <1>4, <1>5

-------------------------------------------------------------------------------
(* Whatever turns, processes and manifests there are, and whenever         *)
(* manifests are replaced or Redis executes a SET late: a cached answer    *)
(* that check_cache uses rests on documents which a manifest in force      *)
(* since the lookup began allows, and was filed under such a manifest,     *)
(* unless none could be read when the lookup began.                        *)
THEOREM HitsAreReviewed == CacheSpec => []HitsFollowTheReview
  <1>1. CacheInv /\ [CacheNext]_cacheVars => CacheInv'
    <2>. SUFFICES ASSUME CacheInv, [CacheNext]_cacheVars PROVE CacheInv'
      OBVIOUS
    <2>1. CASE ReviewChanges
      BY <2>1, ReviewStep
    <2>2. CASE ExecuteSet \/ Expire
      BY <2>2, RedisStep
    <2>3. CASE \E t \in CacheTurns : BeginLookup(t)
      BY <2>3, BeginLookupStep
    <2>4. CASE \E t \in CacheTurns : \E cited \in BOOLEAN : ReadAnswer(t, cited)
      BY <2>4, ReadAnswerStep
    <2>5. CASE \E t \in CacheTurns : ReadCannot(t) \/ FindAnswer(t) \/ BeginStore(t) \/ EndStore(t)
      BY <2>5, MovingOn
    <2>6. CASE UNCHANGED cacheVars
      BY <2>6 DEF cacheVars, CacheInv, CacheTypes, FiledUnderDigest, LookupsFollow,
                  HitsFollowTheReview, InForce
    <2>. QED  BY <2>1, <2>2, <2>3, <2>4, <2>5, <2>6 DEF CacheNext
  <1>2. CacheInv => HitsFollowTheReview
    BY DEF CacheInv
  <1>. QED  BY CacheInitially, <1>1, <1>2, PTL DEF CacheSpec

(***************************************************************************)
(* The indexes of retrieval                                                *)
(***************************************************************************)

AskerStages  == {"idle", "waits", "scrolls", "built", "writes", "uses"}
Askers  == [at : AskerStages, page : Nat, tries : Nat, found : SUBSET Nat, owed : SUBSET Nat]
Indexes == [built : BOOLEAN, has : SUBSET Nat, owed : SUBSET Nat]
Files   == [state : {"absent", "torn", "whole"}, has : SUBSET Nat, owed : SUBSET Nat, mixed : BOOLEAN]

IndexTypes ==
    /\ pages \in Nat
    /\ index \in [Hosts -> Indexes]
    /\ holder \in [Hosts -> IndexThreads \cup {NoThread}]
    /\ file \in Files
    /\ asker \in [IndexThreads -> Askers]

(* A thread that scrolls holds the lock of its process, whose index is not *)
(* built yet and owes what the thread owes; it has found every page before *)
(* the next one.                                                           *)
Scrolls(t) ==
    asker[t].at = "scrolls" =>
        LET h == IndexHost[t] IN
        /\ holder[h] = t /\ ~index[h].built /\ index[h].owed = asker[t].owed
        /\ asker[t].page >= 1 /\ 1 .. (asker[t].page - 1) \subseteq asker[t].found
        /\ asker[t].owed \subseteq 1 .. pages

(* A thread that writes the file holds the lock and has found all it owes.  *)
Writes(t) ==
    asker[t].at \in {"built", "writes"} =>
        /\ holder[IndexHost[t]] = t /\ index[IndexHost[t]].built
        /\ asker[t].owed \subseteq asker[t].found

Uses(t) == asker[t].at = "uses" => index[IndexHost[t]].built

IndexInv ==
    /\ IndexTypes
    /\ \A h \in Hosts : index[h].built => index[h].owed \subseteq index[h].has
    /\ file.state = "whole" => file.owed \subseteq file.has
    /\ \A t \in IndexThreads : Scrolls(t) /\ Writes(t) /\ Uses(t)

LEMMA HostOf == ASSUME NEW t \in IndexThreads PROVE IndexHost[t] \in Hosts
  BY DEF Hosts

LEMMA IndexStart == IndexInit => IndexInv
  <1>. SUFFICES ASSUME IndexInit PROVE IndexInv
    OBVIOUS
  <1>1. IndexTypes
    <2>1. Unbuilt \in Indexes /\ Idle \in Askers
      BY DEF Unbuilt, Indexes, Idle, Askers, AskerStages
    <2>2. file \in Files /\ pages \in Nat
      BY DEF IndexInit, Files
    <2>. QED  BY <2>1, <2>2 DEF IndexInit, IndexTypes
  <1>2. \A t \in IndexThreads : asker[t].at = "idle"
    BY DEF IndexInit, Idle
  <1>3. \A h \in Hosts : ~index[h].built
    BY DEF IndexInit, Unbuilt
  <1>4. file.state = "absent"
    BY DEF IndexInit
  <1>. QED  BY <1>1, <1>2, <1>3, <1>4 DEF IndexInv, Scrolls, Writes, Uses

-------------------------------------------------------------------------------
(* A thread that only changes its place, to one where nothing is asked of   *)
(* it or where its index is built.                                         *)
LEMMA MovingStep ==
    ASSUME IndexInv, NEW t \in IndexThreads, NEW place \in {"waits", "uses", "idle"},
           asker' = [asker EXCEPT ![t].at = place] \/ asker' = [asker EXCEPT ![t] = Idle],
           place = "uses" => index[IndexHost[t]].built,
           asker' = [asker EXCEPT ![t] = Idle] => place = "idle",
           \/ UNCHANGED holder
           \/ holder' = [holder EXCEPT ![IndexHost[t]] = NoThread]
              /\ asker[t].at \in {"scrolls", "built", "writes"},
           UNCHANGED <<pages, index, file>>
    PROVE  IndexInv'
  <1>. USE DEF IndexInv
  <1>1. /\ asker' \in [IndexThreads -> Askers]
        /\ asker'[t].at = place
        /\ \A u \in IndexThreads \ {t} : asker'[u] = asker[u]
    <2>1. Idle \in Askers /\ Idle.at = "idle"
      BY DEF Idle, Askers, AskerStages
    <2>2. CASE asker' = [asker EXCEPT ![t].at = place]
      BY <2>2 DEF IndexTypes, Askers, AskerStages
    <2>3. CASE asker' = [asker EXCEPT ![t] = Idle]
      BY <2>1, <2>3 DEF IndexTypes
    <2>. QED  BY <2>2, <2>3
  <1>2. holder' \in [Hosts -> IndexThreads \cup {NoThread}]
        /\ \A u \in IndexThreads \ {t} :
              asker[u].at \in {"scrolls", "built", "writes"} => holder'[IndexHost[u]] = holder[IndexHost[u]]
    BY HostOf DEF IndexTypes, Scrolls, Writes
  <1>3. IndexTypes'
    BY <1>1, <1>2 DEF IndexTypes
  <1>4. \A u \in IndexThreads : Scrolls(u)' /\ Writes(u)' /\ Uses(u)'
    BY <1>1, <1>2, HostOf DEF Scrolls, Writes, Uses
  <1>. QED  BY <1>3, <1>4

LEMMA AskStep == ASSUME IndexInv, NEW t \in IndexThreads, AskIndex(t) PROVE IndexInv'
  BY MovingStep DEF AskIndex, MoveTo

LEMMA LoadingStep ==
    ASSUME IndexInv, NEW t \in IndexThreads, LoadFile(t), asker[t].at = "waits",
           holder[IndexHost[t]] = NoThread, ~index[IndexHost[t]].built, UNCHANGED <<pages, file>>
    PROVE  IndexInv'
  <1>. USE DEF IndexInv
  <1>. DEFINE h == IndexHost[t]
  <1>1. h \in Hosts
    BY HostOf
  <1>2. index' = [index EXCEPT ![h] = [built |-> TRUE, has |-> file.has, owed |-> file.owed]]
        /\ asker' = [asker EXCEPT ![t].at = "uses"] /\ UNCHANGED holder /\ file.owed \subseteq file.has
    BY DEF LoadFile, MoveTo
  <1>3. /\ asker' \in [IndexThreads -> Askers] /\ asker'[t].at = "uses"
        /\ \A u \in IndexThreads \ {t} : asker'[u] = asker[u]
    BY <1>2 DEF IndexTypes, Askers, AskerStages
  <1>4. /\ index' \in [Hosts -> Indexes] /\ index'[h].built /\ index'[h].owed \subseteq index'[h].has
        /\ \A g \in Hosts \ {h} : index'[g] = index[g]
    BY <1>1, <1>2 DEF IndexTypes, Indexes, Files
  <1>5. \A u \in IndexThreads \ {t} :
           asker[u].at \in {"scrolls", "built", "writes"} => IndexHost[u] # h
    BY IndexAssumption DEF Scrolls, Writes
  <1>. HIDE DEF h
  <1>6. IndexTypes'
    BY <1>2, <1>3, <1>4 DEF IndexTypes
  <1>7. \A u \in IndexThreads : Scrolls(u)' /\ Writes(u)' /\ Uses(u)'
    <2>. TAKE u \in IndexThreads
    <2>1. CASE u = t
      BY <2>1, <1>3, <1>4 DEF Scrolls, Writes, Uses, h
    <2>2. CASE u # t
      BY <2>2, <1>2, <1>3, <1>4, <1>5, HostOf DEF Scrolls, Writes, Uses
    <2>. QED  BY <2>1, <2>2
  <1>. QED  BY <1>2, <1>4, <1>6, <1>7

LEMMA BeginningStep ==
    ASSUME IndexInv, NEW t \in IndexThreads, BeginScroll(t), asker[t].at = "waits",
           holder[IndexHost[t]] = NoThread, ~index[IndexHost[t]].built, UNCHANGED <<pages, file>>
    PROVE  IndexInv'
  <1>. USE DEF IndexInv
  <1>. DEFINE h == IndexHost[t]
              scroller == [at |-> "scrolls", page |-> 1, tries |-> 0, found |-> {}, owed |-> 1 .. pages]
              emptied == [built |-> index[h].built, has |-> {}, owed |-> 1 .. pages]
  <1>1. h \in Hosts
    BY HostOf
  <1>2. asker' = [asker EXCEPT ![t] = scroller] /\ holder' = [holder EXCEPT ![h] = t]
    BY DEF BeginScroll
  <1>3. index' = [index EXCEPT ![h] = emptied]
    BY DEF BeginScroll
  <1>4. scroller \in Askers /\ emptied \in Indexes
    BY <1>1 DEF Askers, AskerStages, Indexes, IndexTypes
  <1>5. \A u \in IndexThreads \ {t} :
           asker[u].at \in {"scrolls", "built", "writes"} => IndexHost[u] # h
    BY IndexAssumption DEF Scrolls, Writes
  <1>6. IndexTypes'
    BY <1>1, <1>2, <1>3, <1>4 DEF IndexTypes
  <1>7. \A u \in IndexThreads : Scrolls(u)' /\ Writes(u)' /\ Uses(u)'
    <2>. TAKE u \in IndexThreads
    <2>1. CASE u = t
      <3>1. asker'[t] = scroller /\ holder'[h] = t /\ index'[h] = emptied
        BY <1>1, <1>2, <1>3 DEF IndexTypes
      <3>2. 1 .. (1 - 1) \subseteq {}
        OBVIOUS
      <3>. QED  BY <2>1, <3>1, <3>2 DEF Scrolls, Writes, Uses, IndexTypes
    <2>2. CASE u # t
      <3>1. asker'[u] = asker[u] /\ IndexHost[u] \in Hosts
        BY <2>2, <1>2, HostOf DEF IndexTypes
      <3>2. IndexHost[u] # h => holder'[IndexHost[u]] = holder[IndexHost[u]]
                                /\ index'[IndexHost[u]] = index[IndexHost[u]]
        BY <3>1, <1>1, <1>2, <1>3 DEF IndexTypes
      <3>3. IndexHost[u] = h => asker[u].at # "uses"
        BY DEF Uses
      <3>. QED  BY <2>2, <3>1, <3>2, <3>3, <1>5 DEF Scrolls, Writes, Uses
    <2>. QED  BY <2>1, <2>2
  <1>8. \A g \in Hosts : index'[g].built => index'[g].owed \subseteq index'[g].has
    BY <1>1, <1>3 DEF IndexTypes
  <1>. QED  BY <1>6, <1>7, <1>8

LEMMA TakeLockStep == ASSUME IndexInv, NEW t \in IndexThreads, TakeLock(t) PROVE IndexInv'
  <1>1. CASE index[IndexHost[t]].built
    BY <1>1, MovingStep DEF TakeLock, BuiltMeanwhile, MoveTo
  <1>2. CASE ~index[IndexHost[t]].built
    BY <1>2, LoadingStep, BeginningStep DEF TakeLock, BuiltMeanwhile
  <1>. QED  BY <1>1, <1>2

-------------------------------------------------------------------------------
LEMMA ScrollStep == ASSUME IndexInv, NEW t \in IndexThreads, ScrollPage(t) PROVE IndexInv'
  <1>. USE DEF IndexInv
  <1>. DEFINE h == IndexHost[t]
              c == asker[t]
              found == c.found \cup ({c.page} \cap 1 .. pages)
              last == c.page >= pages
              moved == [at |-> IF last THEN "built" ELSE "scrolls", page |-> c.page + 1, tries |-> 0,
                        found |-> found, owed |-> c.owed]
              filled == [built |-> index[h].built \/ last, has |-> Filled(index[h].has, found, last),
                         owed |-> index[h].owed]
  <1>1. h \in Hosts /\ c \in Askers /\ index[h] \in Indexes /\ pages \in Nat
    BY HostOf DEF IndexTypes
  <1>2. c.at = "scrolls" /\ UNCHANGED <<pages, holder, file>>
    BY DEF ScrollPage
  <1>3. asker' = [asker EXCEPT ![t] = moved]
    BY DEF ScrollPage
  <1>4. index' = [index EXCEPT ![h] = filled]
    BY DEF ScrollPage
  <1>5. /\ holder[h] = t /\ ~index[h].built /\ index[h].owed = c.owed /\ c.page >= 1
        /\ 1 .. (c.page - 1) \subseteq c.found /\ c.owed \subseteq 1 .. pages
    BY <1>2 DEF Scrolls
  <1>6. moved \in Askers /\ filled \in Indexes
    BY <1>1 DEF Askers, AskerStages, Indexes, Filled
  <1>7. last => c.owed \subseteq found /\ filled.has = found
    BY <1>1, <1>5 DEF Askers, Filled
  <1>8. ~last => 1 .. c.page \subseteq found
    BY <1>1, <1>5 DEF Askers
  <1>9. \A u \in IndexThreads \ {t} :
           asker[u].at \in {"scrolls", "built", "writes", "uses"} => IndexHost[u] # h
    BY <1>5 DEF Scrolls, Writes, Uses
  <1>10. IndexTypes'
    BY <1>2, <1>3, <1>4, <1>6 DEF IndexTypes
  <1>11. asker'[t] = moved /\ index'[h] = filled
    BY <1>1, <1>3, <1>4 DEF IndexTypes
  <1>12. filled.built = (index[h].built \/ last) /\ filled.owed = index[h].owed
    OBVIOUS
  <1>13. moved.at = (IF last THEN "built" ELSE "scrolls") /\ moved.page = c.page + 1
         /\ moved.found = found /\ moved.owed = c.owed
    OBVIOUS
  <1>. HIDE DEF moved, filled, found, last
  <1>14. Scrolls(t)' /\ Writes(t)' /\ Uses(t)'
    <2>1. CASE last
      BY <2>1, <1>2, <1>5, <1>7, <1>11, <1>12, <1>13 DEF Scrolls, Writes, Uses
    <2>2. CASE ~last
      <3>1. /\ asker'[t].at = "scrolls" /\ asker'[t].page = c.page + 1
            /\ asker'[t].found = found /\ asker'[t].owed = c.owed
            /\ ~index'[h].built /\ index'[h].owed = c.owed
        BY <2>2, <1>5, <1>11, <1>12, <1>13
      <3>2. asker'[t].page - 1 = c.page /\ asker'[t].page >= 1
        <4>1. c.page \in Nat /\ c.page >= 1
          BY <1>1, <1>5 DEF Askers
        <4>2. ASSUME NEW n \in Nat, n >= 1 PROVE (n + 1) - 1 = n /\ n + 1 >= 1
          BY <4>2
        <4>3. (c.page + 1) - 1 = c.page /\ c.page + 1 >= 1
          BY <4>1, <4>2
        <4>. QED  BY <3>1, <4>3
      <3>3. 1 .. (asker'[t].page - 1) \subseteq asker'[t].found
        BY <2>2, <3>1, <3>2, <1>8
      <3>. QED  BY <3>1, <3>2, <3>3, <1>2, <1>5 DEF Scrolls, Writes, Uses
    <2>. QED  BY <2>1, <2>2
  <1>15. \A u \in IndexThreads \ {t} : Scrolls(u)' /\ Writes(u)' /\ Uses(u)'
    <2>. SUFFICES ASSUME NEW u \in IndexThreads \ {t} PROVE Scrolls(u)' /\ Writes(u)' /\ Uses(u)'
      OBVIOUS
    <2>1. asker'[u] = asker[u] /\ IndexHost[u] \in Hosts
      BY <1>3, HostOf DEF IndexTypes
    <2>2. IndexHost[u] # h => index'[IndexHost[u]] = index[IndexHost[u]]
      BY <2>1, <1>1, <1>4 DEF IndexTypes
    <2>. QED  BY <1>2, <1>9, <2>1, <2>2 DEF Scrolls, Writes, Uses
  <1>16. \A g \in Hosts : index'[g].built => index'[g].owed \subseteq index'[g].has
    <2>1. filled.built => filled.owed \subseteq filled.has
      BY <1>5, <1>7, <1>12
    <2>2. \A g \in Hosts \ {h} : index'[g] = index[g]
      BY <1>1, <1>4 DEF IndexTypes
    <2>. QED  BY <1>11, <2>1, <2>2
  <1>. QED  BY <1>2, <1>10, <1>14, <1>15, <1>16

LEMMA RetryPageStep == ASSUME IndexInv, NEW t \in IndexThreads, RetryPage(t) PROVE IndexInv'
  <1>. USE DEF IndexInv
  <1>1. asker' = [asker EXCEPT ![t].tries = @ + 1] /\ UNCHANGED <<pages, index, holder, file>>
    BY DEF RetryPage
  <1>2. /\ asker' \in [IndexThreads -> Askers]
        /\ \A u \in IndexThreads : /\ asker'[u].at = asker[u].at /\ asker'[u].page = asker[u].page
                                   /\ asker'[u].found = asker[u].found /\ asker'[u].owed = asker[u].owed
    BY <1>1 DEF IndexTypes, Askers
  <1>. QED  BY <1>1, <1>2 DEF IndexTypes, Scrolls, Writes, Uses

LEMMA OpenStep == ASSUME IndexInv, NEW t \in IndexThreads, OpenFile(t) PROVE IndexInv'
  <1>. USE DEF IndexInv
  <1>1. /\ asker[t].at = "built" /\ asker' = [asker EXCEPT ![t].at = "writes"]
        /\ UNCHANGED <<pages, index, holder>>
    BY DEF OpenFile, MoveTo
  <1>2. file' \in Files /\ file'.state = "torn"
    <2>1. PICK b \in BOOLEAN : file' = [state |-> "torn", has |-> {}, owed |-> {}, mixed |-> b]
      <3>1. (\E u \in IndexThreads : asker[u].at = "writes") \in BOOLEAN
        OBVIOUS
      <3>. QED  BY <3>1, Zenon DEF OpenFile
    <2>. QED  BY <2>1 DEF Files
  <1>3. /\ asker' \in [IndexThreads -> Askers]
        /\ asker'[t].at = "writes" /\ asker'[t].found = asker[t].found /\ asker'[t].owed = asker[t].owed
        /\ \A u \in IndexThreads \ {t} : asker'[u] = asker[u]
    BY <1>1 DEF IndexTypes, Askers, AskerStages
  <1>4. IndexTypes'
    BY <1>1, <1>2, <1>3 DEF IndexTypes
  <1>. QED  BY <1>1, <1>2, <1>3, <1>4 DEF Scrolls, Writes, Uses

LEMMA CloseStep == ASSUME IndexInv, NEW t \in IndexThreads, CloseFile(t) PROVE IndexInv'
  <1>. USE DEF IndexInv
  <1>. DEFINE h == IndexHost[t]
  <1>1. /\ asker[t].at = "writes" /\ asker' = [asker EXCEPT ![t].at = "uses"]
        /\ holder' = [holder EXCEPT ![h] = NoThread] /\ UNCHANGED <<pages, index>>
    BY DEF CloseFile, MoveTo, Release
  <1>2. /\ holder[h] = t /\ index[h].built /\ asker[t].owed \subseteq asker[t].found
    BY <1>1 DEF Writes
  <1>3. file' \in Files /\ file'.owed \subseteq file'.has
    <2>1. PICK state \in {"whole", "torn"} :
             file' = [file EXCEPT !.state = state, !.has = asker[t].found, !.owed = asker[t].owed]
      BY DEF CloseFile
    <2>2. asker[t].found \in SUBSET Nat /\ asker[t].owed \in SUBSET Nat
      BY DEF IndexTypes, Askers
    <2>. QED  BY <1>2, <2>1, <2>2 DEF IndexTypes, Files
  <1>4. /\ asker' \in [IndexThreads -> Askers] /\ asker'[t].at = "uses"
        /\ \A u \in IndexThreads \ {t} : asker'[u] = asker[u]
    BY <1>1 DEF IndexTypes, Askers, AskerStages
  <1>5. IndexTypes'
    BY <1>1, <1>3, <1>4, HostOf DEF IndexTypes
  <1>6. \A u \in IndexThreads \ {t} :
           asker[u].at \in {"scrolls", "built", "writes"} => holder'[IndexHost[u]] = holder[IndexHost[u]]
    BY <1>1, <1>2, HostOf DEF IndexTypes, Scrolls, Writes
  <1>7. \A u \in IndexThreads : Scrolls(u)' /\ Writes(u)' /\ Uses(u)'
    BY <1>1, <1>2, <1>4, <1>6 DEF Scrolls, Writes, Uses
  <1>. QED  BY <1>1, <1>3, <1>5, <1>7

LEMMA FailingStep ==
    ASSUME IndexInv, NEW t \in IndexThreads, ScrollFails(t) \/ WriteFails(t) \/ UseIndex(t)
    PROVE  IndexInv'
  <1>1. CASE ScrollFails(t) \/ UseIndex(t)
    BY <1>1, MovingStep DEF ScrollFails, UseIndex, Release
  <1>2. CASE WriteFails(t)
    <2>1. index[IndexHost[t]].built
      BY <1>2 DEF WriteFails, IndexInv, Writes
    <2>2. asker'[t].at = "uses" \/ t \notin DOMAIN asker
      BY <1>2 DEF WriteFails, MoveTo, IndexInv, IndexTypes, Askers
    <2>3. asker' # [asker EXCEPT ![t] = Idle]
      BY <1>2, <2>2 DEF IndexInv, IndexTypes, Idle
    <2>. QED  BY <1>2, <2>1, <2>3, MovingStep DEF WriteFails, MoveTo, Release
  <1>. QED  BY <1>1, <1>2

LEMMA IngestStep == IndexInv /\ Ingest => IndexInv'
  <1>. SUFFICES ASSUME IndexInv, Ingest PROVE IndexInv'
    OBVIOUS
  <1>. USE DEF IndexInv
  <1>1. pages \in Nat /\ pages' = pages + 1 /\ UNCHANGED <<index, holder, file, asker>>
    BY DEF Ingest, IndexTypes
  <1>2. 1 .. pages \subseteq 1 .. pages' /\ pages' \in Nat
    BY <1>1
  <1>3. IndexTypes'
    BY <1>1, <1>2 DEF IndexTypes
  <1>4. \A t \in IndexThreads : Scrolls(t)' /\ Writes(t)' /\ Uses(t)'
    BY <1>1, <1>2 DEF Scrolls, Writes, Uses
  <1>. QED  BY <1>1, <1>3, <1>4

LEMMA CrashStep == ASSUME IndexInv, NEW h \in Hosts, CrashProcess(h) PROVE IndexInv'
  <1>. USE DEF IndexInv
  <1>1. /\ index' = [index EXCEPT ![h] = Unbuilt] /\ holder' = [holder EXCEPT ![h] = NoThread]
        /\ asker' = [t \in IndexThreads |-> IF IndexHost[t] = h THEN Idle ELSE asker[t]]
        /\ UNCHANGED <<pages, file>>
    BY DEF CrashProcess
  <1>2. Unbuilt \in Indexes /\ ~Unbuilt.built /\ Idle \in Askers /\ Idle.at = "idle"
    BY DEF Unbuilt, Indexes, Idle, Askers, AskerStages
  <1>3. IndexTypes'
    BY <1>1, <1>2 DEF IndexTypes
  <1>4. \A g \in Hosts : index'[g].built => index'[g].owed \subseteq index'[g].has
    BY <1>1, <1>2 DEF IndexTypes
  <1>5. \A t \in IndexThreads : Scrolls(t)' /\ Writes(t)' /\ Uses(t)'
    <2>. TAKE t \in IndexThreads
    <2>1. CASE IndexHost[t] = h
      BY <1>1, <1>2, <2>1 DEF Scrolls, Writes, Uses
    <2>2. CASE IndexHost[t] # h
      <3>1. asker'[t] = asker[t] /\ index'[IndexHost[t]] = index[IndexHost[t]]
            /\ holder'[IndexHost[t]] = holder[IndexHost[t]]
        BY <1>1, <2>2, HostOf DEF IndexTypes
      <3>. QED  BY <1>1, <3>1 DEF Scrolls, Writes, Uses
    <2>. QED  BY <2>1, <2>2
  <1>. QED  BY <1>1, <1>3, <1>4, <1>5

LEMMA IndexStep == IndexInv /\ [IndexNext]_indexVars => IndexInv'
  <1>1. IndexInv /\ UNCHANGED indexVars => IndexInv'
    BY DEF IndexInv, IndexTypes, Scrolls, Writes, Uses, indexVars
  <1>. QED  BY <1>1, AskStep, TakeLockStep, ScrollStep, RetryPageStep, OpenStep, CloseStep, FailingStep,
               IngestStep, CrashStep DEF IndexNext

(* However the threads and processes that build an index overlap, whatever *)
(* calls and writes fail and whenever a process dies, a query looks only   *)
(* into an index that has every page it owes.                              *)
THEOREM IndexesAreWhole == IndexSpec => []UsedIndexesAreWhole
  <1>1. IndexInv => UsedIndexesAreWhole
    BY HostOf DEF IndexInv, Uses, UsedIndexesAreWhole
  <1>. QED  BY <1>1, IndexStart, IndexStep, PTL DEF IndexSpec


(***************************************************************************)
(* The tables beside the turns                                             *)
(***************************************************************************)

(* ReviewsStayWithTheirFeedback, for PostgreSQL, and CasesAreWhole, for    *)
(* any numbers of sessions, conversations and rows.  The first rests on    *)
(* ids that are never given twice and on the rating of an answer being in  *)
(* the answer's conversation; the second on what a call has read of a case *)
(* being still there unless the call has been overtaken.                   *)

Comments     == {rating.comment : rating \in Ratings} \cup {"none"}
GivenRatings == [rating : {0, 1, 2}, comment : Comments]
AnswerRows   == [conv : Conversations, shown : GivenRatings]
RatingRows   == [conv : Conversations, message : AnswerIds, given : GivenRatings]
ReviewRows   == [conv : Conversations, message : AnswerIds, status : {"new", "accepted"}]
CaseRows     == [status : {"collecting", "ready", "completed"}, facts : STRING, missing : BOOLEAN]

RateCalls == [op : {"rate"}, answer : AnswerIds, conv : Conversations, rating : Ratings,
              row : RatingIds \cup {0}, was : GivenRatings, shown : GivenRatings, overtaken : BOOLEAN]
CaseCalls == [op : {"save", "complete"}, conv : Conversations, state : CaseStates,
              was : CaseRows \cup {NoRow}, overtaken : BOOLEAN]
DataCalls == {NoCall} \cup RateCalls \cup CaseCalls

DataTypes ==
    /\ known \subseteq Conversations
    /\ answers   \in [AnswerIds -> AnswerRows \cup {NoRow}]
    /\ ratings   \in [RatingIds -> RatingRows \cup {NoRow}]
    /\ reviews   \in [RatingIds -> ReviewRows \cup {NoRow}]
    /\ cases     \in [Conversations -> CaseRows \cup {NoRow}]
    /\ given     \in [answer : Nat, rating : Nat]
    /\ dataCalls \in [DataSessions -> DataCalls]

(* Ids that exist have been given, and a rating has its answer. *)
RatingsHaveAnswers ==
    /\ \A a \in AnswerIds : Exists(answers[a]) => a <= given.answer
    /\ \A f \in RatingIds : Exists(ratings[f]) =>
          /\ f <= given.rating
          /\ Exists(answers[ratings[f].message])
          /\ answers[ratings[f].message].conv = ratings[f].conv

(* What a call has read of a case is there, unless it has been overtaken. *)
CasesAsRead ==
    \A s \in DataSessions : dataCalls[s].op \in {"save", "complete"} /\ ~dataCalls[s].overtaken =>
        dataCalls[s].was = cases[dataCalls[s].conv]

-------------------------------------------------------------------------------
LEMMA RowsExist ==
    /\ \A row \in AnswerRows \cup RatingRows \cup ReviewRows \cup CaseRows : Exists(row)
    /\ \A row : Exists(row) \/ row = NoRow
    /\ ~Exists(NoRow)
  <1>1. \A row \in AnswerRows : row # NoRow
    BY DEF AnswerRows, NoRow
  <1>2. \A row \in RatingRows : row # NoRow
    BY DEF RatingRows, NoRow
  <1>3. \A row \in ReviewRows : row # NoRow
    BY DEF ReviewRows, NoRow
  <1>4. \A row \in CaseRows : row # NoRow
    BY DEF CaseRows, NoRow
  <1>. QED  BY <1>1, <1>2, <1>3, <1>4 DEF Exists

LEMMA CallKinds ==
    \A call \in DataCalls :
        /\ call = NoCall <=> call.op = "none"
        /\ call.op = "rate" <=> call \in RateCalls
        /\ call.op \in {"save", "complete"} <=> call \in CaseCalls
        /\ call # NoCall => [call EXCEPT !.overtaken = TRUE] \in DataCalls
        /\ call \in RateCalls => [call EXCEPT !.overtaken = TRUE] \in RateCalls
        /\ call \in CaseCalls => [call EXCEPT !.overtaken = TRUE] \in CaseCalls
  <1>1. NoCall.op = "none"
    BY DEF NoCall
  <1>2. \A call \in RateCalls : call.op = "rate" /\ [call EXCEPT !.overtaken = TRUE] \in RateCalls
    BY DEF RateCalls
  <1>3. \A call \in CaseCalls : call.op \in {"save", "complete"} /\ [call EXCEPT !.overtaken = TRUE] \in CaseCalls
    BY DEF CaseCalls
  <1>. QED  BY <1>1, <1>2, <1>3 DEF DataCalls

LEMMA DataStart == DataInit => DataTypes /\ RatingsHaveAnswers /\ CasesAsRead
  BY RowsExist DEF DataInit, DataTypes, RatingsHaveAnswers, CasesAsRead, DataCalls, NoCall

(* What is left of the calls once one of them is closed, or a conversation *)
(* is deleted.                                                             *)
LEMMA Overtaking ==
    ASSUME DataTypes,
           \A t \in DataSessions : dataCalls'[t] \in {NoCall, dataCalls[t], [dataCalls[t] EXCEPT !.overtaken = TRUE]},
           \A t \in DataSessions : dataCalls[t] = NoCall => dataCalls'[t] = NoCall,
           dataCalls' = [t \in DataSessions |-> dataCalls'[t]]
    PROVE  /\ dataCalls' \in [DataSessions -> DataCalls]
           /\ \A t \in DataSessions : dataCalls'[t].op \in {"save", "complete"} /\ ~dataCalls'[t].overtaken =>
                 dataCalls'[t] = dataCalls[t]
  <1>. SUFFICES ASSUME NEW t \in DataSessions
                PROVE  /\ dataCalls'[t] \in DataCalls
                       /\ dataCalls'[t].op \in {"save", "complete"} /\ ~dataCalls'[t].overtaken => dataCalls'[t] = dataCalls[t]
    OBVIOUS
  <1>1. dataCalls[t] \in DataCalls /\ NoCall \in DataCalls
    BY DEF DataTypes, DataCalls
  <1>2. CASE dataCalls[t] = NoCall
    BY <1>1, <1>2
  <1>3. CASE dataCalls[t] # NoCall
    <2>1. [dataCalls[t] EXCEPT !.overtaken = TRUE] \in DataCalls
      BY <1>1, <1>3, CallKinds
    <2>2. [dataCalls[t] EXCEPT !.overtaken = TRUE].overtaken = TRUE
      BY <1>1, <1>3 DEF DataCalls, RateCalls, CaseCalls
    <2>3. NoCall.op \notin {"save", "complete"}
      BY DEF NoCall
    <2>. QED  BY <1>1, <2>1, <2>2, <2>3
  <1>. QED  BY <1>2, <1>3

LEMMA ClosedCalls ==
    ASSUME DataTypes, NEW s \in DataSessions, NEW touched \in SUBSET DataSessions,
           dataCalls' = [t \in DataSessions |->
                           IF t = s THEN NoCall
                           ELSE IF dataCalls[t] # NoCall /\ t \in touched
                           THEN [dataCalls[t] EXCEPT !.overtaken = TRUE] ELSE dataCalls[t]]
    PROVE  /\ dataCalls' \in [DataSessions -> DataCalls]
           /\ \A t \in DataSessions : dataCalls'[t].op \in {"save", "complete"} /\ ~dataCalls'[t].overtaken =>
                 /\ dataCalls'[t] = dataCalls[t]
                 /\ t # s /\ t \notin touched
  <1>1. \A t \in DataSessions :
           dataCalls'[t] = IF t = s THEN NoCall
                           ELSE IF dataCalls[t] # NoCall /\ t \in touched
                           THEN [dataCalls[t] EXCEPT !.overtaken = TRUE] ELSE dataCalls[t]
    OBVIOUS
  <1>2. dataCalls' = [t \in DataSessions |-> dataCalls'[t]]
    BY <1>1
  <1>3. /\ dataCalls' \in [DataSessions -> DataCalls]
        /\ \A t \in DataSessions : dataCalls'[t].op \in {"save", "complete"} /\ ~dataCalls'[t].overtaken =>
              dataCalls'[t] = dataCalls[t]
    BY <1>1, <1>2, Overtaking
  <1>4. ASSUME NEW t \in DataSessions, dataCalls'[t].op \in {"save", "complete"}, ~dataCalls'[t].overtaken
        PROVE  t # s /\ t \notin touched
    <2>1. NoCall.op \notin {"save", "complete"}
      BY DEF NoCall
    <2>2. t # s
      BY <1>1, <1>4, <2>1
    <2>3. ASSUME t \in touched PROVE FALSE
      <3>1. dataCalls[t] \in DataCalls /\ dataCalls[t] = dataCalls'[t]
        BY <1>3, <1>4 DEF DataTypes
      <3>2. dataCalls[t] # NoCall
        BY <1>4, <2>1, <3>1
      <3>3. dataCalls'[t] = [dataCalls[t] EXCEPT !.overtaken = TRUE]
        BY <1>1, <2>2, <2>3, <3>2
      <3>4. [dataCalls[t] EXCEPT !.overtaken = TRUE].overtaken = TRUE
        BY <3>1, <3>2 DEF DataCalls, RateCalls, CaseCalls
      <3>. QED  BY <1>4, <3>3, <3>4
    <2>. QED  BY <2>2, <2>3
  <1>. QED  BY <1>3, <1>4

LEMMA OpenedCalls ==
    ASSUME DataTypes, NEW s \in DataSessions, NEW call \in DataCalls, Open(s, call)
    PROVE  dataCalls' \in [DataSessions -> DataCalls] /\ dataCalls'[s] = call
           /\ \A t \in DataSessions \ {s} : dataCalls'[t] = dataCalls[t]
  BY DEF Open, DataTypes

(* What calls have read of the cases, after a step that leaves those of    *)
(* the other conversations alone and overtakes all that have read this one. *)
LEMMA ReadsOfOthers ==
    ASSUME CasesAsRead, DataTypes, NEW c \in Conversations,
           \A d \in Conversations \ {c} : cases'[d] = cases[d],
           \A t \in DataSessions : dataCalls'[t].op \in {"save", "complete"} /\ ~dataCalls'[t].overtaken =>
              dataCalls'[t] = dataCalls[t] /\ dataCalls[t].conv # c
    PROVE  CasesAsRead'
  <1>. SUFFICES ASSUME NEW t \in DataSessions, dataCalls'[t].op \in {"save", "complete"}, ~dataCalls'[t].overtaken
                PROVE  dataCalls'[t].was = cases'[dataCalls'[t].conv]
    BY DEF CasesAsRead
  <1>1. dataCalls'[t] = dataCalls[t] /\ dataCalls[t].conv # c /\ dataCalls[t] \in CaseCalls
    BY CallKinds DEF DataTypes
  <1>2. dataCalls[t].conv \in Conversations /\ dataCalls[t].was = cases[dataCalls[t].conv]
    BY <1>1 DEF CasesAsRead, CaseCalls
  <1>. QED  BY <1>1, <1>2

-------------------------------------------------------------------------------
DataInv == DataTypes /\ (Database = "postgresql" => RatingsHaveAnswers /\ ReviewsStayWithTheirFeedback)
           /\ CasesAsRead /\ CasesAreWhole

LEMMA AppendStep == ASSUME DataInv, NEW c \in Conversations, AppendExchange(c) PROVE DataInv'
  <1>. USE DEF DataInv
  <1>. DEFINE a == NextId(answers, given.answer)
              row == [conv |-> c, shown |-> Unrated]
  <1>1. a \in AnswerIds /\ answers' = [answers EXCEPT ![a] = row]
        /\ given' = [given EXCEPT !.answer = a] /\ known' = known \cup {c}
        /\ UNCHANGED <<mixed, ratings, reviews, cases, dataCalls, callsMade>>
    BY DEF AppendExchange
  <1>2. Database = "postgresql" => a = given.answer + 1
    BY DEF NextId
  <1>3. a \in Nat
    BY <1>1, DataAssumption DEF AnswerIds
  <1>4. row \in AnswerRows /\ Exists(row)
    BY RowsExist DEF AnswerRows, Unrated, GivenRatings, Comments
  <1>. HIDE DEF a, row
  <1>5. DataTypes'
    BY <1>1, <1>3, <1>4 DEF DataTypes
  <1>6. ASSUME Database = "postgresql" PROVE RatingsHaveAnswers' /\ ReviewsStayWithTheirFeedback'
    <2>1. given'.answer = a /\ given'.rating = given.rating /\ answers'[a] = row
          /\ \A b \in AnswerIds \ {a} : answers'[b] = answers[b]
      BY <1>1 DEF DataTypes
    <2>2. \A b \in AnswerIds : Exists(answers'[b]) => b <= a
      BY <1>2, <1>6, <2>1, DataAssumption DEF RatingsHaveAnswers, AnswerIds, DataTypes
    <2>3. \A f \in RatingIds : Exists(ratings[f]) => ratings[f].message \in AnswerIds /\ ratings[f].message # a
      <3>. SUFFICES ASSUME NEW f \in RatingIds, Exists(ratings[f])
                    PROVE  ratings[f].message \in AnswerIds /\ ratings[f].message # a
        OBVIOUS
      <3>1. ratings[f] \in RatingRows
        BY RowsExist DEF DataTypes
      <3>2. ratings[f].message \in AnswerIds
        BY <3>1 DEF RatingRows
      <3>3. ratings[f].message <= given.answer
        BY <1>6, <3>2 DEF RatingsHaveAnswers
      <3>. QED  BY <1>2, <1>6, <3>2, <3>3, DataAssumption DEF AnswerIds, DataTypes
    <2>4. RatingsHaveAnswers'
      BY <1>1, <1>6, <2>1, <2>2, <2>3 DEF RatingsHaveAnswers, AnswerIds, RatingIds
    <2>. QED  BY <1>1, <1>6, <2>4 DEF ReviewsStayWithTheirFeedback, RatingIds
  <1>7. CasesAsRead' /\ CasesAreWhole'
    BY <1>1 DEF CasesAsRead, CasesAreWhole
  <1>. QED  BY <1>5, <1>6, <1>7

(* The steps that open a call. *)
LEMMA BeginFeedbackStep ==
    ASSUME DataInv, NEW s \in DataSessions, NEW a \in AnswerIds, NEW rating \in Ratings, BeginFeedback(s, a, rating)
    PROVE  DataInv'
  <1>. USE DEF DataInv
  <1>. DEFINE row  == IF RatingsOf(a) = {} THEN 0 ELSE CHOOSE f \in RatingsOf(a) : TRUE
              was  == IF row = 0 THEN Unrated ELSE ratings[row].given
              call == [op |-> "rate", answer |-> a, conv |-> answers[a].conv, rating |-> rating,
                       row |-> row, was |-> was, shown |-> answers[a].shown, overtaken |-> FALSE]
  <1>1. Exists(answers[a]) /\ Open(s, call)
        /\ UNCHANGED <<mixed, known, answers, ratings, reviews, cases, given>>
    BY DEF BeginFeedback
  <1>2. row = 0 \/ (row \in RatingIds /\ Exists(ratings[row]))
    BY DEF RatingsOf
  <1>3. answers[a] \in AnswerRows
    BY <1>1, RowsExist DEF DataTypes
  <1>4. was \in GivenRatings
    <2>1. Unrated \in GivenRatings
      BY DEF Unrated, GivenRatings, Comments
    <2>2. row # 0 => ratings[row] \in RatingRows
      BY <1>2, RowsExist DEF DataTypes
    <2>. QED  BY <2>1, <2>2 DEF RatingRows
  <1>. HIDE DEF row, was
  <1>5. call \in RateCalls
    BY <1>2, <1>3, <1>4 DEF RateCalls, AnswerRows
  <1>6. call \in DataCalls /\ call.op = "rate"
    BY <1>5 DEF DataCalls
  <1>. HIDE DEF call
  <1>7. dataCalls' \in [DataSessions -> DataCalls] /\ dataCalls'[s] = call
        /\ \A t \in DataSessions \ {s} : dataCalls'[t] = dataCalls[t]
    BY <1>1, <1>6, OpenedCalls
  <1>8. DataTypes'
    BY <1>1, <1>7 DEF DataTypes
  <1>9. CasesAsRead'
    BY <1>1, <1>6, <1>7 DEF CasesAsRead
  <1>. QED  BY <1>1, <1>8, <1>9 DEF RatingsHaveAnswers, ReviewsStayWithTheirFeedback, CasesAreWhole, RatingIds, AnswerIds

LEMMA BeginCaseStep ==
    ASSUME DataInv, NEW s \in DataSessions, NEW c \in Conversations, NEW state \in CaseStates,
           NEW op \in {"save", "complete"}, BeginCase(s, c, op, state)
    PROVE  DataInv'
  <1>. USE DEF DataInv
  <1>. DEFINE call == [op |-> op, conv |-> c, state |-> state, was |-> cases[c], overtaken |-> FALSE]
  <1>1. Open(s, call) /\ known' \subseteq Conversations
        /\ UNCHANGED <<mixed, answers, ratings, reviews, cases, given>>
    BY DEF BeginCase, DataTypes
  <1>2. call \in CaseCalls /\ call.was = cases[call.conv]
    BY DEF CaseCalls, DataTypes
  <1>3. call \in DataCalls
    BY <1>2 DEF DataCalls
  <1>. HIDE DEF call
  <1>4. dataCalls' \in [DataSessions -> DataCalls] /\ dataCalls'[s] = call
        /\ \A t \in DataSessions \ {s} : dataCalls'[t] = dataCalls[t]
    BY <1>1, <1>3, OpenedCalls
  <1>5. DataTypes'
    BY <1>1, <1>4 DEF DataTypes
  <1>6. CasesAsRead'
    BY <1>1, <1>2, <1>4 DEF CasesAsRead
  <1>. QED  BY <1>1, <1>5, <1>6 DEF RatingsHaveAnswers, ReviewsStayWithTheirFeedback, CasesAreWhole, RatingIds, AnswerIds

(* The column that is written, or left as another call wrote it. *)
LEMMA ColumnIs == ASSUME NEW read, NEW new, NEW current
                  PROVE  Column(read, new, current) \in {new, current}
  BY DEF Column

LEMMA SaveFeedbackStep == ASSUME DataInv, NEW s \in DataSessions, SaveFeedback(s) PROVE DataInv'
  <1>. USE DEF DataInv
  <1>1. PICK call \in RateCalls : call = dataCalls[s] /\ CanSaveRating(call)
    BY CallKinds DEF SaveFeedback, DataTypes
  <1>2. PICK f \in RatingIds : f = RatingRow(call)
    BY <1>1 DEF CanSaveRating
  <1>3. PICK old : old = IF call.row = 0 THEN call.rating ELSE ratings[f].given
    OBVIOUS
  <1>4. PICK saved : saved =
          [rating  |-> Column(call.was.rating, call.rating.rating, old.rating),
           comment |-> Column(call.was.comment, call.rating.comment, old.comment)]
    OBVIOUS
  <1>5. PICK row : row = [conv |-> call.conv, message |-> call.answer, given |-> saved]
    OBVIOUS
  <1>6. PICK review : review = [conv |-> call.conv, message |-> call.answer, status |-> "new"]
    OBVIOUS
  <1>7. /\ ratings' = [ratings EXCEPT ![f] = row]
        /\ answers' = [answers EXCEPT ![call.answer].shown = ShownAfter(call)]
        /\ reviews' = [reviews EXCEPT ![f] = IF Exists(@) THEN @ ELSE review]
        /\ given' = IF call.row = 0 THEN [given EXCEPT !.rating = f] ELSE given
        /\ UNCHANGED <<mixed, known, cases>>
    BY <1>1, <1>2, <1>3, <1>4, <1>5, <1>6 DEF SaveFeedback
  <1>8. dataCalls' \in [DataSessions -> DataCalls]
        /\ \A t \in DataSessions : dataCalls'[t].op \in {"save", "complete"} /\ ~dataCalls'[t].overtaken =>
              dataCalls'[t] = dataCalls[t]
    <2>. DEFINE touched == {t \in DataSessions : dataCalls[t].op = "rate" /\ dataCalls[t].answer = call.answer}
    <2>1. dataCalls' = [t \in DataSessions |->
                          IF t = s THEN NoCall
                          ELSE IF dataCalls[t] # NoCall /\ t \in touched
                          THEN [dataCalls[t] EXCEPT !.overtaken = TRUE] ELSE dataCalls[t]]
      BY <1>1 DEF SaveFeedback, Closed
    <2>. HIDE DEF touched
    <2>2. touched \in SUBSET DataSessions
      BY DEF touched
    <2>. QED  BY <2>1, <2>2, ClosedCalls
  <1>9. call.answer \in AnswerIds /\ call.conv \in Conversations /\ call.rating \in Ratings
        /\ call.row \in RatingIds \cup {0} /\ call.shown \in GivenRatings
    BY DEF RateCalls
  <1>10. /\ answers[call.answer] \in AnswerRows /\ answers[call.answer].conv = call.conv
         /\ call.row # 0 => f = call.row /\ ratings[f] \in RatingRows /\ ratings[f].message = call.answer
         /\ call.row = 0 => f = NextId(ratings, given.rating)
    BY <1>1, <1>2, <1>9, RowsExist DEF CanSaveRating, RatingRow, DataTypes
  <1>11. Ratings \subseteq GivenRatings
    BY DataAssumption DEF GivenRatings, Comments
  <1>12. old \in GivenRatings
    BY <1>3, <1>9, <1>10, <1>11 DEF RatingRows
  <1>13. saved \in GivenRatings
    BY <1>4, <1>9, <1>11, <1>12, ColumnIs DEF GivenRatings
  <1>14. row \in RatingRows /\ row.conv = call.conv /\ row.message = call.answer
    BY <1>5, <1>9, <1>13 DEF RatingRows
  <1>15. review \in ReviewRows /\ review.conv = call.conv /\ review.message = call.answer
    BY <1>6, <1>9 DEF ReviewRows
  <1>16. PICK shownNow \in GivenRatings : shownNow = ShownAfter(call)
    <2>1. answers[call.answer].shown \in GivenRatings
      BY <1>10 DEF AnswerRows
    <2>. QED  BY <1>9, <1>11, <2>1, ColumnIs DEF ShownAfter
  <1>17. PICK answer \in AnswerRows : answer = [answers[call.answer] EXCEPT !.shown = shownNow]
    BY <1>10 DEF AnswerRows
  <1>18. answer.conv = call.conv /\ answers' = [answers EXCEPT ![call.answer] = answer]
    BY <1>7, <1>9, <1>10, <1>16, <1>17 DEF AnswerRows, DataTypes
  <1>19. \A a \in AnswerIds : (Exists(answers'[a]) <=> Exists(answers[a]))
                              /\ (Exists(answers[a]) => answers'[a].conv = answers[a].conv)
    BY <1>10, <1>18, RowsExist DEF DataTypes
  <1>20. given' \in [answer : Nat, rating : Nat] /\ given'.answer = given.answer
         /\ given'.rating = (IF call.row = 0 THEN f ELSE given.rating)
    <2>1. f \in Nat /\ given \in [answer : Nat, rating : Nat]
      BY DataAssumption DEF DataTypes, RatingIds
    <2>. QED  BY <1>7, <2>1
  <1>21. DataTypes'
    BY <1>7, <1>8, <1>14, <1>15, <1>18, <1>20 DEF DataTypes
  <1>22. ASSUME Database = "postgresql" PROVE RatingsHaveAnswers' /\ ReviewsStayWithTheirFeedback'
    <2>1. RatingsHaveAnswers /\ ReviewsStayWithTheirFeedback
      BY <1>22
    <2>2. f \in Nat /\ given.rating \in Nat /\ (call.row = 0 => f = given.rating + 1)
      BY <1>10, <1>22, DataAssumption DEF NextId, RatingIds, DataTypes
    <2>3. call.row # 0 => f <= given.rating /\ ratings[f].conv = call.conv
      BY <1>10, <2>1, RowsExist DEF RatingsHaveAnswers
    <2>4. ratings'[f] = row /\ \A g \in RatingIds \ {f} : ratings'[g] = ratings[g]
      BY <1>7 DEF DataTypes
    <2>5. \A g \in RatingIds \ {f} : Exists(ratings[g]) =>
             ratings[g].message \in AnswerIds /\ g <= given.rating /\ g \in Nat
      <3>. SUFFICES ASSUME NEW g \in RatingIds, Exists(ratings[g])
                    PROVE  ratings[g].message \in AnswerIds /\ g <= given.rating /\ g \in Nat
        OBVIOUS
      <3>1. ratings[g] \in RatingRows
        BY RowsExist DEF DataTypes
      <3>. QED  BY <2>1, <3>1, DataAssumption DEF RatingsHaveAnswers, RatingRows, RatingIds
    <2>6. \A a \in AnswerIds : Exists(answers'[a]) => a <= given'.answer
      BY <1>19, <1>20, <2>1 DEF RatingsHaveAnswers
    <2>7. \A g \in RatingIds : Exists(ratings'[g]) =>
             /\ g <= given'.rating
             /\ Exists(answers'[ratings'[g].message])
             /\ answers'[ratings'[g].message].conv = ratings'[g].conv
      <3>. SUFFICES ASSUME NEW g \in RatingIds, Exists(ratings'[g])
                    PROVE  /\ g <= given'.rating
                           /\ Exists(answers'[ratings'[g].message])
                           /\ answers'[ratings'[g].message].conv = ratings'[g].conv
        OBVIOUS
      <3>1. CASE g = f
        <4>1. Exists(answers'[call.answer]) /\ answers'[call.answer].conv = call.conv
          BY <1>9, <1>10, <1>19, RowsExist
        <4>. QED  BY <3>1, <4>1, <1>14, <1>20, <2>2, <2>3, <2>4
      <3>2. CASE g # f
        <4>1. ratings'[g] = ratings[g] /\ Exists(ratings[g])
          BY <2>4, <3>2
        <4>2. ratings[g].message \in AnswerIds /\ g <= given.rating /\ g \in Nat
          BY <2>5, <3>2, <4>1
        <4>3. Exists(answers[ratings[g].message]) /\ answers[ratings[g].message].conv = ratings[g].conv
          BY <2>1, <4>1 DEF RatingsHaveAnswers
        <4>. QED  BY <1>19, <1>20, <2>2, <4>1, <4>2, <4>3
      <3>. QED  BY <3>1, <3>2
    <2>8. RatingsHaveAnswers'
      BY <2>6, <2>7 DEF RatingsHaveAnswers, AnswerIds, RatingIds
    <2>9. \A g \in RatingIds : Exists(reviews'[g]) =>
             Exists(ratings'[g]) /\ ratings'[g].conv = reviews'[g].conv /\ ratings'[g].message = reviews'[g].message
      <3>. SUFFICES ASSUME NEW g \in RatingIds, Exists(reviews'[g])
                    PROVE  Exists(ratings'[g]) /\ ratings'[g].conv = reviews'[g].conv
                           /\ ratings'[g].message = reviews'[g].message
        OBVIOUS
      <3>1. CASE g # f
        <4>1. reviews'[g] = reviews[g] /\ ratings'[g] = ratings[g]
          BY <1>7, <2>4, <3>1 DEF DataTypes
        <4>. QED  BY <2>1, <4>1 DEF ReviewsStayWithTheirFeedback
      <3>2. CASE g = f /\ Exists(reviews[f])
        <4>1. reviews'[f] = reviews[f]
          BY <1>7, <3>2 DEF DataTypes
        <4>2. Exists(ratings[f]) /\ ratings[f].conv = reviews[f].conv /\ ratings[f].message = reviews[f].message
          BY <2>1, <3>2 DEF ReviewsStayWithTheirFeedback
        <4>3. call.row # 0
          BY <2>1, <2>2, <4>2 DEF RatingsHaveAnswers
        <4>. QED  BY <1>10, <1>14, <2>3, <2>4, <3>2, <4>1, <4>2, <4>3, RowsExist
      <3>3. CASE g = f /\ ~Exists(reviews[f])
        <4>1. reviews'[f] = review
          BY <1>7, <3>3 DEF DataTypes
        <4>. QED  BY <1>14, <1>15, <2>4, <3>3, <4>1, RowsExist
      <3>. QED  BY <3>1, <3>2, <3>3
    <2>. QED  BY <2>8, <2>9 DEF ReviewsStayWithTheirFeedback, RatingIds
  <1>23. CasesAsRead'
    BY <1>7, <1>8 DEF CasesAsRead
  <1>24. CasesAreWhole'
    BY <1>7 DEF CasesAreWhole
  <1>. QED  BY <1>21, <1>22, <1>23, <1>24

(* update_quality_feedback, and a call that fails. *)
LEMMA ReviewedStep == ASSUME DataInv, NEW f \in RatingIds, UpdateQualityFeedback(f) PROVE DataInv'
  <1>. USE DEF DataInv
  <1>1. /\ Exists(reviews[f])
        /\ reviews' = [reviews EXCEPT ![f].status = "accepted"]
        /\ UNCHANGED <<mixed, known, answers, ratings, cases, given, dataCalls>>
    BY DEF UpdateQualityFeedback
  <1>2. reviews[f] \in ReviewRows
    BY <1>1, RowsExist DEF DataTypes
  <1>3. PICK review \in ReviewRows : review = [reviews[f] EXCEPT !.status = "accepted"]
    BY <1>2 DEF ReviewRows
  <1>4. review.conv = reviews[f].conv /\ review.message = reviews[f].message
        /\ reviews' = [reviews EXCEPT ![f] = review]
    BY <1>1, <1>2, <1>3 DEF ReviewRows, DataTypes
  <1>5. DataTypes'
    BY <1>1, <1>4 DEF DataTypes
  <1>6. ReviewsStayWithTheirFeedback => ReviewsStayWithTheirFeedback'
    BY <1>1, <1>4 DEF ReviewsStayWithTheirFeedback, DataTypes, RatingIds
  <1>. QED  BY <1>1, <1>5, <1>6 DEF RatingsHaveAnswers, CasesAsRead, CasesAreWhole, RatingIds, AnswerIds

LEMMA CallFailsStep == ASSUME DataInv, NEW s \in DataSessions, DataCallFails(s) PROVE DataInv'
  <1>. USE DEF DataInv
  <1>1. /\ dataCalls' = [dataCalls EXCEPT ![s] = NoCall]
        /\ UNCHANGED <<mixed, known, answers, ratings, reviews, cases, given>>
    BY DEF DataCallFails
  <1>2. NoCall \in DataCalls /\ NoCall.op \notin {"save", "complete"}
    BY DEF DataCalls, NoCall
  <1>3. DataTypes'
    BY <1>1, <1>2 DEF DataTypes
  <1>4. CasesAsRead'
    BY <1>1, <1>2 DEF CasesAsRead, DataTypes
  <1>. QED  BY <1>1, <1>3, <1>4 DEF RatingsHaveAnswers, ReviewsStayWithTheirFeedback, CasesAreWhole, RatingIds, AnswerIds

-------------------------------------------------------------------------------
(* A row of a case that one turn has saved, or that has been completed. *)
Whole(row) ==
    \E state \in CaseStates :
        /\ row.facts = state.facts
        /\ \/ row.missing = state.missing /\ row.status = Status(state.missing)
           \/ ~row.missing /\ row.status = "completed"

OfASave(row) == \E state \in CaseStates : row.facts = state.facts

LEMMA WholeCases == CasesAreWhole <=>
    \A c \in Conversations : Exists(cases[c]) =>
        OfASave(cases[c]) /\ (c \notin mixed => Whole(cases[c]))
  BY DEF CasesAreWhole, Whole, OfASave

(* What SaveCase and CompleteCase have in common: they write one case, and *)
(* overtake what has read it.                                              *)
LEMMA CaseWritten ==
    ASSUME DataInv, NEW s \in DataSessions, NEW c \in Conversations, NEW row \in CaseRows \cup {NoRow},
           cases' = [cases EXCEPT ![c] = row], CaseClosed(s, c),
           UNCHANGED <<known, answers, ratings, reviews, given>>,
           NEW call, call.conv = c, mixed' = MixedBy(call),
           Exists(row) => OfASave(row) /\ (~call.overtaken => Whole(row))
    PROVE  DataInv'
  <1>. USE DEF DataInv
  <1>. DEFINE touched == {t \in DataSessions : dataCalls[t].op \in {"save", "complete"} /\ dataCalls[t].conv = c}
  <1>1. dataCalls' = [t \in DataSessions |->
                        IF t = s THEN NoCall
                        ELSE IF dataCalls[t] # NoCall /\ t \in touched
                        THEN [dataCalls[t] EXCEPT !.overtaken = TRUE] ELSE dataCalls[t]]
    BY DEF CaseClosed, Closed
  <1>2. /\ dataCalls' \in [DataSessions -> DataCalls]
        /\ \A t \in DataSessions : dataCalls'[t].op \in {"save", "complete"} /\ ~dataCalls'[t].overtaken =>
              /\ dataCalls'[t] = dataCalls[t]
              /\ t # s /\ t \notin touched
    <2>. HIDE DEF touched
    <2>1. touched \in SUBSET DataSessions
      BY DEF touched
    <2>. QED  BY <1>1, <2>1, ClosedCalls
  <1>3. DataTypes'
    BY <1>2 DEF DataTypes
  <1>4. CasesAsRead'
    <2>1. \A d \in Conversations \ {c} : cases'[d] = cases[d]
      BY DEF DataTypes
    <2>. QED  BY <1>2, <2>1, ReadsOfOthers
  <1>5. cases'[c] = row /\ \A d \in Conversations \ {c} : cases'[d] = cases[d]
    BY DEF DataTypes
  <1>6. CasesAreWhole'
    <2>. SUFFICES ASSUME NEW d \in Conversations, Exists(cases'[d])
                  PROVE  OfASave(cases'[d]) /\ (d \notin mixed' => Whole(cases'[d]))
      BY DEF CasesAreWhole, Whole, OfASave
    <2>1. CASE d = c
      BY <1>5, <2>1 DEF MixedBy
    <2>2. CASE d # c
      BY <1>5, <2>2, WholeCases DEF MixedBy
    <2>. QED  BY <2>1, <2>2
  <1>. QED  BY <1>3, <1>4, <1>6 DEF RatingsHaveAnswers, ReviewsStayWithTheirFeedback, RatingIds, AnswerIds

LEMMA SaveCaseStep == ASSUME DataInv, NEW s \in DataSessions, SaveCase(s) PROVE DataInv'
  <1>. USE DEF DataInv
  <1>1. PICK call \in CaseCalls : call = dataCalls[s] /\ CanSaveCase(call)
    BY CallKinds DEF SaveCase, DataTypes
  <1>2. call.conv \in Conversations /\ call.state \in CaseStates /\ call.was \in CaseRows \cup {NoRow}
        /\ call.overtaken \in BOOLEAN /\ call.op \in {"save", "complete"}
    BY DEF CaseCalls
  <1>3. PICK new : new = [status |-> Status(call.state.missing), facts |-> call.state.facts,
                          missing |-> call.state.missing]
    OBVIOUS
  <1>4. PICK held : held = cases[call.conv]
    OBVIOUS
  <1>5. PICK row : row = IF ~Exists(held) THEN new
                         ELSE [col \in DOMAIN new |-> Column(call.was[col], new[col], held[col])]
    OBVIOUS
  <1>6. cases' = [cases EXCEPT ![call.conv] = row] /\ CaseClosed(s, call.conv)
        /\ mixed' = MixedBy(call) /\ UNCHANGED <<known, answers, ratings, reviews, given>>
    BY <1>1, <1>3, <1>4, <1>5 DEF SaveCase
  <1>7. new \in CaseRows /\ Whole(new) /\ OfASave(new) /\ DOMAIN new = {"status", "facts", "missing"}
    BY <1>2, <1>3, DataAssumption DEF CaseRows, Whole, OfASave, Status
  <1>8. held \in CaseRows \cup {NoRow}
    BY <1>2, <1>4 DEF DataTypes
  <1>9. CASE ~Exists(held)
    BY <1>2, <1>5, <1>6, <1>7, <1>9, CaseWritten
  <1>10. CASE Exists(held)
    <2>1. held \in CaseRows /\ call.was \in CaseRows
      BY <1>1, <1>2, <1>4, <1>8, <1>10, RowsExist DEF CanSaveCase
    <2>2. row = [status  |-> Column(call.was.status, new.status, held.status),
                 facts   |-> Column(call.was.facts, new.facts, held.facts),
                 missing |-> Column(call.was.missing, new.missing, held.missing)]
      BY <1>5, <1>7, <1>10
    <2>3. row \in CaseRows
      BY <1>7, <2>1, <2>2, ColumnIs DEF CaseRows
    <2>4. ASSUME ~call.overtaken PROVE Whole(row)
      <3>1. call.was = held
        BY <1>1, <1>2, <1>4, <2>4 DEF CasesAsRead
      <3>2. row.status = new.status /\ row.facts = new.facts /\ row.missing = new.missing
        BY <2>2, <3>1 DEF Column
      <3>. QED  BY <1>7, <3>2 DEF Whole
    <2>5. OfASave(row)
      <3>1. row.facts \in {new.facts, held.facts}
        BY <2>2, ColumnIs
      <3>2. OfASave(held)
        BY <1>2, <1>4, <1>10, WholeCases
      <3>. QED  BY <1>7, <3>1, <3>2 DEF OfASave
    <2>. QED  BY <1>2, <1>6, <2>3, <2>4, <2>5, CaseWritten
  <1>. QED  BY <1>9, <1>10

LEMMA CompleteCaseStep == ASSUME DataInv, NEW s \in DataSessions, CompleteCase(s) PROVE DataInv'
  <1>. USE DEF DataInv
  <1>1. PICK call \in CaseCalls : call = dataCalls[s] /\ CanSaveCase(call)
    BY CallKinds DEF CompleteCase, DataTypes
  <1>2. call.conv \in Conversations /\ call.was \in CaseRows \cup {NoRow}
        /\ call.overtaken \in BOOLEAN /\ call.op \in {"save", "complete"}
    BY DEF CaseCalls
  <1>3. PICK held : held = cases[call.conv]
    OBVIOUS
  <1>4. PICK row : row = IF Exists(held) THEN Completed(call.was, held) ELSE held
    OBVIOUS
  <1>5. cases' = [cases EXCEPT ![call.conv] = row] /\ CaseClosed(s, call.conv)
        /\ mixed' = MixedBy(call) /\ UNCHANGED <<known, answers, ratings, reviews, given>>
    BY <1>1, <1>2, <1>3, <1>4 DEF CompleteCase, DataTypes
  <1>6. held \in CaseRows \cup {NoRow}
    BY <1>2, <1>3 DEF DataTypes
  <1>7. CASE ~Exists(held)
    BY <1>2, <1>4, <1>5, <1>6, <1>7, CaseWritten
  <1>8. CASE Exists(held)
    <2>1. held \in CaseRows /\ call.was \in CaseRows
      BY <1>1, <1>2, <1>3, <1>6, <1>8, RowsExist DEF CanSaveCase
    <2>2. PICK status : status = Column(call.was.status, "completed", held.status)
      OBVIOUS
    <2>3. PICK missing : missing = Column(call.was.missing, FALSE, held.missing)
      OBVIOUS
    <2>4. status \in {"completed", held.status} /\ missing \in {FALSE, held.missing}
      BY <2>2, <2>3, ColumnIs
    <2>5. row = [held EXCEPT !.status = status, !.missing = missing]
      BY <1>4, <1>8, <2>1, <2>2, <2>3 DEF Completed, CaseRows
    <2>6. row \in CaseRows /\ row.status = status /\ row.missing = missing /\ row.facts = held.facts
      BY <2>1, <2>4, <2>5 DEF CaseRows
    <2>7. OfASave(held) /\ OfASave(row)
      BY <1>2, <1>3, <1>8, <2>6, WholeCases DEF OfASave
    <2>8. ASSUME ~call.overtaken PROVE Whole(row)
      <3>1. call.was = held
        BY <1>1, <1>2, <1>3, <2>8 DEF CasesAsRead
      <3>2. status = "completed" /\ missing = FALSE
        BY <2>2, <2>3, <3>1 DEF Column
      <3>. QED  BY <2>6, <2>7, <3>2 DEF Whole, OfASave
    <2>. QED  BY <1>2, <1>5, <2>6, <2>7, <2>8, CaseWritten
  <1>. QED  BY <1>7, <1>8

-------------------------------------------------------------------------------
LEMMA DeleteStep == ASSUME DataInv, NEW c \in Conversations, DeleteConversationData(c) PROVE DataInv'
  <1>. USE DEF DataInv
  <1>1. /\ known' = known \ {c}
        /\ answers' = [a \in AnswerIds |-> IF Exists(answers[a]) /\ answers[a].conv = c
                                           THEN NoRow ELSE answers[a]]
        /\ ratings' = [f \in RatingIds |-> IF Exists(ratings[f]) /\ ratings[f].conv = c
                                           THEN NoRow ELSE ratings[f]]
        /\ cases' = [cases EXCEPT ![c] = NoRow]
        /\ reviews' = Cascaded(c)
        /\ dataCalls' = [t \in DataSessions |->
                           IF dataCalls[t] # NoCall /\ dataCalls[t].conv = c
                           THEN [dataCalls[t] EXCEPT !.overtaken = TRUE] ELSE dataCalls[t]]
        /\ mixed' = mixed \ {c} /\ given' = given
    BY DEF DeleteConversationData
  <1>2. \A t \in DataSessions :
           dataCalls'[t] \in {NoCall, dataCalls[t], [dataCalls[t] EXCEPT !.overtaken = TRUE]}
           /\ (dataCalls[t] = NoCall => dataCalls'[t] = NoCall)
    BY <1>1
  <1>3. dataCalls' = [t \in DataSessions |-> dataCalls'[t]]
    BY <1>1
  <1>4. /\ dataCalls' \in [DataSessions -> DataCalls]
        /\ \A t \in DataSessions : dataCalls'[t].op \in {"save", "complete"} /\ ~dataCalls'[t].overtaken =>
              dataCalls'[t] = dataCalls[t]
    BY <1>2, <1>3, Overtaking
  <1>5. DataTypes'
    <2>1. reviews' \in [RatingIds -> ReviewRows \cup {NoRow}]
      BY <1>1 DEF Cascaded, DataTypes
    <2>2. answers' \in [AnswerIds -> AnswerRows \cup {NoRow}]
      BY <1>1 DEF DataTypes
    <2>3. ratings' \in [RatingIds -> RatingRows \cup {NoRow}]
      BY <1>1 DEF DataTypes
    <2>. QED  BY <1>1, <1>4, <2>1, <2>2, <2>3 DEF DataTypes
  <1>6. CasesAsRead'
    <2>1. \A d \in Conversations \ {c} : cases'[d] = cases[d]
      BY <1>1 DEF DataTypes
    <2>2. ASSUME NEW t \in DataSessions, dataCalls'[t].op \in {"save", "complete"}, ~dataCalls'[t].overtaken
          PROVE  dataCalls[t].conv # c
      <3>1. dataCalls'[t] = dataCalls[t] /\ dataCalls[t] \in CaseCalls /\ dataCalls[t] # NoCall
        BY <1>4, <2>2, CallKinds DEF DataTypes
      <3>2. [dataCalls[t] EXCEPT !.overtaken = TRUE].overtaken = TRUE
        BY <3>1 DEF CaseCalls
      <3>. QED  BY <1>1, <2>2, <3>1, <3>2
    <2>. QED  BY <1>4, <2>1, <2>2, ReadsOfOthers
  <1>7. CasesAreWhole'
    <2>1. cases'[c] = NoRow /\ \A d \in Conversations \ {c} : cases'[d] = cases[d]
      BY <1>1 DEF DataTypes
    <2>. QED  BY <1>1, <2>1, RowsExist DEF CasesAreWhole
  <1>8. ASSUME Database = "postgresql" PROVE RatingsHaveAnswers' /\ ReviewsStayWithTheirFeedback'
    <2>1. RatingsHaveAnswers /\ ReviewsStayWithTheirFeedback
      BY <1>8
    <2>2. \A a \in AnswerIds : Exists(answers'[a]) =>
             Exists(answers[a]) /\ answers[a].conv # c /\ answers'[a] = answers[a]
      BY <1>1, RowsExist
    <2>3. \A a \in AnswerIds : Exists(answers[a]) /\ answers[a].conv # c => answers'[a] = answers[a]
      BY <1>1
    <2>4. \A f \in RatingIds : Exists(ratings'[f]) =>
             Exists(ratings[f]) /\ ratings[f].conv # c /\ ratings'[f] = ratings[f]
      BY <1>1, RowsExist
    <2>5. \A f \in RatingIds : Exists(ratings[f]) /\ ratings[f].conv # c => ratings'[f] = ratings[f]
      BY <1>1
    <2>6. \A f \in RatingIds : Exists(reviews'[f]) =>
             Exists(reviews[f]) /\ reviews[f].conv # c /\ reviews'[f] = reviews[f]
      BY <1>1, <1>8, RowsExist DEF Cascaded
    <2>7. \A f \in RatingIds : Exists(ratings[f]) => ratings[f].message \in AnswerIds
      BY RowsExist DEF DataTypes, RatingRows
    <2>8. RatingsHaveAnswers'
      BY <1>1, <2>1, <2>2, <2>3, <2>4, <2>7 DEF RatingsHaveAnswers, AnswerIds, RatingIds
    <2>9. ReviewsStayWithTheirFeedback'
      BY <2>1, <2>5, <2>6 DEF ReviewsStayWithTheirFeedback, RatingIds
    <2>. QED  BY <2>8, <2>9
  <1>. QED  BY <1>5, <1>6, <1>7, <1>8

LEMMA DataStep == DataInv /\ [DataNext]_dataVars => DataInv'
  <1>. SUFFICES ASSUME DataInv, [DataNext]_dataVars PROVE DataInv'
    OBVIOUS
  <1>1. ASSUME NEW c \in Conversations, AppendExchange(c) \/ DeleteConversationData(c) PROVE DataInv'
    BY <1>1, AppendStep, DeleteStep
  <1>2. ASSUME NEW f \in RatingIds, UpdateQualityFeedback(f) PROVE DataInv'
    BY <1>2, ReviewedStep
  <1>3. ASSUME NEW s \in DataSessions, NEW a \in AnswerIds, NEW rating \in Ratings, BeginFeedback(s, a, rating)
        PROVE  DataInv'
    BY <1>3, BeginFeedbackStep
  <1>4. ASSUME NEW s \in DataSessions, NEW c \in Conversations, NEW state \in CaseStates,
               BeginCase(s, c, "save", state) \/ BeginCase(s, c, "complete", state)
        PROVE  DataInv'
    BY <1>4, BeginCaseStep
  <1>5. ASSUME NEW s \in DataSessions, SaveFeedback(s) \/ SaveCase(s) \/ CompleteCase(s) \/ DataCallFails(s)
        PROVE  DataInv'
    BY <1>5, SaveFeedbackStep, SaveCaseStep, CompleteCaseStep, CallFailsStep
  <1>6. CASE UNCHANGED dataVars
    BY <1>6 DEF dataVars, DataInv, DataTypes, RatingsHaveAnswers, ReviewsStayWithTheirFeedback, CasesAsRead,
                CasesAreWhole, RatingIds, AnswerIds
  <1>. QED  BY <1>1, <1>2, <1>3, <1>4, <1>5, <1>6 DEF DataNext

(* With PostgreSQL, where ids are not given twice and a deletion cascades, *)
(* a review stays with the feedback that it is about.                      *)
THEOREM ReviewsFollowFeedback ==
    ASSUME Database = "postgresql" PROVE DataSpec => []ReviewsStayWithTheirFeedback
  <1>1. DataInit => DataInv
    BY DataStart, RowsExist DEF DataInv, DataInit, ReviewsStayWithTheirFeedback, CasesAreWhole
  <1>2. DataInv => ReviewsStayWithTheirFeedback
    BY DEF DataInv
  <1>. QED  BY <1>1, <1>2, DataStep, PTL DEF DataSpec

(* The facts of a case, its status and what it lacks are those of one      *)
(* save, or of one that has been completed, unless the call that wrote     *)
(* them last had been overtaken by another one.                            *)
THEOREM CasesKeepTogether == DataSpec => []CasesAreWhole
  <1>1. DataInit => DataInv
    BY DataStart, RowsExist DEF DataInv, DataInit, ReviewsStayWithTheirFeedback, CasesAreWhole
  <1>2. DataInv => CasesAreWhole
    BY DEF DataInv
  <1>. QED  BY <1>1, <1>2, DataStep, PTL DEF DataSpec


(***************************************************************************)
(* The pages of a conversation                                             *)
(***************************************************************************)

(* PagesMissNothing, for any number of messages and any length of page.    *)
(* The rank of an id in a set is the place that Ascending gives it: ranks  *)
(* grow with the ids and take every value up to the size of the set.  The  *)
(* ids up to the cursor have been listed as far as they stayed; a page     *)
(* leaves out none of the rows between the cursor and its own last one,    *)
(* and is the last page only if it holds all of them, or of a limit that   *)
(* was clamped.                                                            *)

Rank(ids, m) == Cardinality({k \in ids : k <= m})

LEMMA RanksGrow ==
    ASSUME NEW ids \in SUBSET Nat, IsFiniteSet(ids), NEW m \in ids
    PROVE  /\ Rank(ids, m) \in 1 .. Cardinality(ids)
           /\ \A k \in ids : (k < m => Rank(ids, k) < Rank(ids, m)) /\ (Rank(ids, k) = Rank(ids, m) => k = m)
  <1>1. Cardinality(ids) \in Nat
    BY FS_CardinalityType
  <1>2. ASSUME NEW n \in ids
        PROVE  /\ {k \in ids : k <= n} \subseteq ids /\ IsFiniteSet({k \in ids : k <= n})
               /\ Rank(ids, n) \in 1 .. Cardinality(ids)
    <2>1. PICK T : T = {k \in ids : k <= n}
      OBVIOUS
    <2>2. T \subseteq ids /\ n \in T
      BY <2>1
    <2>3. IsFiniteSet(T) /\ Cardinality(T) <= Cardinality(ids)
      BY <2>2, FS_Subset
    <2>4. Cardinality(T) \in Nat /\ Cardinality(T) # 0
      BY <2>2, <2>3, FS_CardinalityType, FS_EmptySet
    <2>. QED  BY <1>1, <2>1, <2>2, <2>3, <2>4 DEF Rank
  <1>3. ASSUME NEW k \in ids, NEW n \in ids, k < n PROVE Rank(ids, k) < Rank(ids, n)
    <2>1. PICK T : T = {j \in ids : j <= k}
      OBVIOUS
    <2>2. PICK U : U = {j \in ids : j <= n}
      OBVIOUS
    <2>3. T \subseteq U \ {n} /\ n \in U /\ IsFiniteSet(U)
      <3>1. \A j \in ids : j \in Nat
        OBVIOUS
      <3>2. T \subseteq U \ {n} /\ n \in U /\ U \subseteq ids
        <4>1. U \subseteq ids /\ n \in U
          BY <2>2, <3>1
        <4>2. ASSUME NEW j \in T PROVE j \in U /\ j # n
          <5>1. j \in Nat /\ k \in Nat /\ n \in Nat /\ j \in ids /\ j <= k
            BY <2>1, <3>1
          <5>2. j <= n /\ j # n
            BY <1>3, <5>1
          <5>. QED  BY <2>2, <5>1, <5>2
        <4>. QED  BY <4>1, <4>2
      <3>. QED  BY <3>2, FS_Subset
    <2>4. IsFiniteSet(U \ {n}) /\ Cardinality(U \ {n}) = Cardinality(U) - 1 /\ Cardinality(U) \in Nat
      BY <2>3, FS_RemoveElement, FS_CardinalityType
    <2>5. Cardinality(T) <= Cardinality(U \ {n}) /\ IsFiniteSet(T)
      BY <2>3, <2>4, FS_Subset
    <2>6. Cardinality(T) \in Nat
      BY <2>5, FS_CardinalityType
    <2>7. Rank(ids, k) = Cardinality(T) /\ Rank(ids, n) = Cardinality(U)
      BY <2>1, <2>2 DEF Rank
    <2>. QED  BY <2>4, <2>5, <2>6, <2>7
  <1>4. Rank(ids, m) \in 1 .. Cardinality(ids)
    BY <1>2
  <1>5. ASSUME NEW k \in ids PROVE (k < m => Rank(ids, k) < Rank(ids, m)) /\ (Rank(ids, k) = Rank(ids, m) => k = m)
    <2>1. Rank(ids, k) \in Nat /\ Rank(ids, m) \in Nat /\ k \in Nat /\ m \in Nat
      <3>1. Rank(ids, k) \in 1 .. Cardinality(ids) /\ Rank(ids, m) \in 1 .. Cardinality(ids)
        BY <1>2
      <3>. QED  BY <1>1, <3>1
    <2>2. k < m => Rank(ids, k) < Rank(ids, m)
      BY <1>3
    <2>3. m < k => Rank(ids, m) < Rank(ids, k)
      BY <1>3
    <2>. QED  BY <2>1, <2>2, <2>3
  <1>. QED  BY <1>4, <1>5

LEMMA RanksReachAll ==
    ASSUME NEW ids \in SUBSET Nat, IsFiniteSet(ids), NEW i \in 1 .. Cardinality(ids)
    PROVE  \E m \in ids : Rank(ids, m) = i
  <1>1. Cardinality(ids) \in Nat
    BY FS_CardinalityType
  <1>2. PICK n \in Nat : n = Cardinality(ids)
    BY <1>1
  <1>3. PICK f : f = [m \in ids |-> Rank(ids, m)]
    OBVIOUS
  <1>4. f \in [ids -> 1 .. n] /\ \A k, m \in ids : f[k] = f[m] => k = m
    BY <1>2, <1>3, RanksGrow
  <1>5. f \in Injection(ids, 1 .. n)
    BY <1>4 DEF Injection, IsInjective
  <1>6. IsFiniteSet(1 .. n) /\ Cardinality(1 .. n) = n
    BY FS_Interval
  <1>7. f \in Surjection(ids, 1 .. n)
    BY <1>2, <1>5, <1>6, FS_Injection
  <1>8. \E m \in ids : f[m] = i
    BY <1>2, <1>7 DEF Surjection
  <1>. QED  BY <1>3, <1>8

LEMMA AscendingIs ==
    ASSUME NEW ids \in SUBSET Nat, IsFiniteSet(ids)
    PROVE  /\ Ascending(ids) \in Seq(ids) /\ Len(Ascending(ids)) = Cardinality(ids)
           /\ \A i \in 1 .. Cardinality(ids) : Ascending(ids)[i] \in ids /\ Rank(ids, Ascending(ids)[i]) = i
           /\ \A m \in ids : Rank(ids, m) \in 1 .. Cardinality(ids) /\ Ascending(ids)[Rank(ids, m)] = m
           /\ \A i, j \in 1 .. Cardinality(ids) : i < j => Ascending(ids)[i] < Ascending(ids)[j]
  <1>1. PICK n \in Nat : n = Cardinality(ids)
    BY FS_CardinalityType
  <1>2. PICK all : all = Ascending(ids)
    OBVIOUS
  <1>3. all = [i \in 1 .. n |-> CHOOSE m \in ids : Rank(ids, m) = i]
    BY <1>1, <1>2 DEF Ascending, Rank
  <1>4. ASSUME NEW i \in 1 .. n PROVE all[i] \in ids /\ Rank(ids, all[i]) = i
    <2>1. \E m \in ids : Rank(ids, m) = i
      BY <1>1, RanksReachAll
    <2>. QED  BY <1>3, <2>1
  <1>5. all \in [1 .. n -> ids]
    BY <1>3, <1>4
  <1>6. all \in Seq(ids) /\ Len(all) = n
    BY <1>5
  <1>7. ASSUME NEW m \in ids PROVE Rank(ids, m) \in 1 .. n /\ all[Rank(ids, m)] = m
    <2>1. Rank(ids, m) \in 1 .. n
      BY <1>1, RanksGrow
    <2>2. all[Rank(ids, m)] \in ids /\ Rank(ids, all[Rank(ids, m)]) = Rank(ids, m)
      BY <1>4, <2>1
    <2>. QED  BY <2>1, <2>2, RanksGrow
  <1>8. ASSUME NEW i \in 1 .. n, NEW j \in 1 .. n, i < j PROVE all[i] < all[j]
    <2>1. PICK x \in ids : x = all[i] /\ Rank(ids, x) = i
      BY <1>4
    <2>2. PICK y \in ids : y = all[j] /\ Rank(ids, y) = j
      BY <1>4
    <2>3. x \in Nat /\ y \in Nat /\ i \in Nat /\ j \in Nat
      OBVIOUS
    <2>4. y < x => j < i
      BY <2>1, <2>2, RanksGrow
    <2>. QED  BY <1>8, <2>1, <2>2, <2>3, <2>4
  <1>. QED  BY <1>1, <1>2, <1>4, <1>6, <1>7, <1>8

(* The first rows of a set: all of it, or more than n are there. *)
LEMMA FirstIs ==
    ASSUME NEW ids \in SUBSET Nat, IsFiniteSet(ids), NEW n \in Nat
    PROVE  /\ First(ids, n + 1) \subseteq ids /\ IsFiniteSet(First(ids, n + 1))
           /\ \A m \in First(ids, n + 1) : \A k \in ids : k <= m => k \in First(ids, n + 1)
           /\ Cardinality(First(ids, n + 1)) <= n => First(ids, n + 1) = ids
  <1>1. PICK T : T = First(ids, n + 1)
    OBVIOUS
  <1>2. T = {m \in ids : Rank(ids, m) <= n + 1}
    BY <1>1 DEF First, Rank
  <1>3. T \subseteq ids /\ IsFiniteSet(T) /\ Cardinality(T) \in Nat /\ Cardinality(ids) \in Nat
    BY <1>2, FS_Subset, FS_CardinalityType
  <1>4. \A m \in ids : Rank(ids, m) \in Nat /\ m \in Nat /\ Rank(ids, m) <= Cardinality(ids)
    BY <1>3, RanksGrow
  <1>5. ASSUME NEW m \in T, NEW k \in ids, k <= m PROVE k \in T
    BY <1>2, <1>3, <1>4, <1>5, RanksGrow
  <1>6. ASSUME Cardinality(T) <= n, NEW m \in ids PROVE m \in T
    <2>1. SUFFICES ASSUME m \notin T PROVE FALSE
      OBVIOUS
    <2>2. Rank(ids, m) > n + 1
      BY <1>2, <1>4, <2>1
    <2>3. n + 1 \in 1 .. Cardinality(ids)
      BY <1>3, <1>4, <2>2
    <2>4. PICK last \in ids : Rank(ids, last) = n + 1
      BY <2>3, RanksReachAll
    <2>5. last \in T
      BY <1>2, <2>4
    <2>6. {k \in ids : k <= last} \subseteq T
      BY <1>5, <2>5
    <2>7. Rank(ids, last) <= Cardinality(T)
      BY <1>3, <2>6, FS_Subset DEF Rank
    <2>. QED  BY <1>3, <1>6, <2>4, <2>7
  <1>. QED  BY <1>1, <1>3, <1>5, <1>6

-------------------------------------------------------------------------------
PageTypes ==
    /\ shown \subseteq 1 .. MaxRows
    /\ stayed \subseteq shown
    /\ page \in [limit : Limits, cursor : 0 .. MaxRows, more : BOOLEAN]
    /\ listed \in Seq(1 .. MaxRows)

Got(m) == \E i \in DOMAIN listed : listed[i] = m

(* What the client must have got. *)
InReach(m) == \/ \E i \in DOMAIN listed : m <= listed[i]
              \/ ~page.more /\ page.limit \in 1 .. LongestPage

GrowingList == \A i, j \in DOMAIN listed : i < j => listed[i] < listed[j]

ListedToCursor ==
    /\ page.more => \A i \in DOMAIN listed : listed[i] <= page.cursor
    /\ \A m \in stayed : m <= page.cursor \/ InReach(m) => Got(m)

PagesInv == PageTypes /\ GrowingList /\ ListedToCursor

(* What one page holds: rows after the cursor in their order, all up to    *)
(* its last one, which is the next cursor if there is one.                 *)
LEMMA OnePage ==
    ASSUME PageTypes, NextPage
    PROVE  \E part \in Seq(1 .. MaxRows) :
             /\ listed' = listed \o part
             /\ \A i \in 1 .. Len(part) : part[i] > page.cursor
             /\ \A i, j \in 1 .. Len(part) : i < j => part[i] < part[j]
             /\ page' \in [limit : Limits, cursor : 0 .. MaxRows, more : BOOLEAN]
             /\ page'.limit = page.limit
             /\ page'.more => /\ page'.cursor >= page.cursor
                              /\ \A i \in 1 .. Len(part) : part[i] <= page'.cursor
                              /\ \E i \in 1 .. Len(part) : part[i] = page'.cursor
             /\ ~page'.more => page'.cursor = page.cursor
             /\ \A m \in shown :
                   /\ m > page.cursor
                   /\ \/ \E i \in 1 .. Len(part) : m <= part[i]
                      \/ ~page'.more /\ page.limit \in 1 .. LongestPage
                   => \E i \in 1 .. Len(part) : part[i] = m
  <1>1. PICK after : after = {m \in shown : m > page.cursor}
    OBVIOUS
  <1>2. PICK limit \in Int : limit = page.limit
    BY PageAssumption DEF PageTypes
  <1>3. PICK span \in Nat : /\ span = Clamped(page.limit)
                            /\ limit \in 1 .. LongestPage => span = limit
    BY <1>2, PageAssumption DEF Clamped
  <1>4. PICK rows : rows = First(after, span + 1)
    OBVIOUS
  <1>5. Fetched = rows
    BY <1>1, <1>3, <1>4 DEF Fetched
  <1>6. after \in SUBSET Nat /\ IsFiniteSet(after) /\ after \subseteq 1 .. MaxRows
    <2>1. after \subseteq 1 .. MaxRows
      BY <1>1 DEF PageTypes
    <2>2. IsFiniteSet(1 .. MaxRows)
      BY FS_Interval, PageAssumption
    <2>3. IsFiniteSet(after)
      BY <2>1, <2>2, FS_Subset
    <2>4. after \in SUBSET Nat
      BY <2>1, PageAssumption
    <2>. QED  BY <2>1, <2>3, <2>4
  <1>7. /\ rows \subseteq after /\ IsFiniteSet(rows)
        /\ \A m \in rows : \A k \in after : k <= m => k \in rows
        /\ Cardinality(rows) <= span => rows = after
    BY <1>3, <1>4, <1>6, FirstIs
  <1>8. PICK n \in Nat : n = Cardinality(rows)
    BY <1>7, FS_CardinalityType
  <1>9. PICK all : all = Ascending(rows)
    OBVIOUS
  <1>10. /\ all \in Seq(rows) /\ Len(all) = n
         /\ \A i \in 1 .. n : all[i] \in rows /\ Rank(rows, all[i]) = i
         /\ \A m \in rows : Rank(rows, m) \in 1 .. n /\ all[Rank(rows, m)] = m
         /\ \A i, j \in 1 .. n : i < j => all[i] < all[j]
    BY <1>6, <1>7, <1>8, <1>9, AscendingIs
  <1>11. PICK size \in 0 .. n : /\ size = Sliced(n, limit)
                                /\ size = n \/ size = limit \/ limit < 0
    BY DEF Sliced
  <1>13. PICK part : part = SubSeq(all, 1, size)
    OBVIOUS
  <1>14. \A i \in 1 .. size : all[i] \in 1 .. MaxRows /\ all[i] \in rows
    <2>. SUFFICES ASSUME NEW i \in 1 .. size PROVE all[i] \in 1 .. MaxRows /\ all[i] \in rows
      OBVIOUS
    <2>1. i \in 1 .. n
      BY <1>11
    <2>. QED  BY <1>6, <1>7, <1>10, <2>1
  <1>15. part \in Seq(1 .. MaxRows) /\ Len(part) = size /\ \A i \in 1 .. size : part[i] = all[i]
    <2>1. /\ part \in Seq(1 .. MaxRows)
          /\ Len(part) = IF 1 <= size THEN size - 1 + 1 ELSE 0
          /\ \A i \in 1 .. size - 1 + 1 : part[i] = all[1 + i - 1]
      BY <1>11, <1>13, <1>14, SubSeqProperties
    <2>. QED  BY <1>11, <2>1
  <1>16. PICK more \in BOOLEAN : /\ more = (n > limit /\ part # << >>)
                                 /\ more => n > limit /\ size # 0
                                 /\ ~more => ~(n > limit) \/ size = 0
    <2>1. (n > limit /\ part # << >>) \in BOOLEAN
      OBVIOUS
    <2>2. part # << >> <=> size # 0
      BY <1>15, EmptySeq
    <2>. QED  BY <2>1, <2>2, Zenon
  <1>17. /\ listed' = listed \o part
         /\ page' = [page EXCEPT !.more = more, !.cursor = IF more THEN NextCursor(all, part) ELSE @]
    <2>1. (Len(all) > page.limit /\ part # << >>) = more
      BY <1>2, <1>10, <1>16
    <2>2. Sliced(Len(all), page.limit) = size
      BY <1>2, <1>10, <1>11
    <2>. QED  BY <1>5, <1>9, <1>13, <2>1, <2>2 DEF NextPage
  <1>18. more => /\ NextCursor(all, part) = part[size] /\ size \in 1 .. size
                 /\ part[size] \in 1 .. MaxRows /\ part[size] \in rows
    BY <1>11, <1>14, <1>15, <1>16 DEF NextCursor
  <1>19. /\ page'.more = more /\ page'.cursor = IF more THEN part[size] ELSE page.cursor
         /\ page' \in [limit : Limits, cursor : 0 .. MaxRows, more : BOOLEAN]
         /\ page'.limit = page.limit
    <2>1. PICK cursor \in 0 .. MaxRows : cursor = IF more THEN part[size] ELSE page.cursor
      BY <1>18, PageAssumption DEF PageTypes
    <2>2. page \in [limit : Limits, cursor : 0 .. MaxRows, more : BOOLEAN]
      BY DEF PageTypes
    <2>3. page' = [page EXCEPT !.more = more, !.cursor = cursor]
      BY <1>17, <1>18, <2>1, <2>2
    <2>. QED  BY <2>1, <2>2, <2>3
  <1>20. \A m \in rows : m \in Nat /\ m > page.cursor /\ m \in shown
    BY <1>1, <1>6, <1>7
  <1>21. \A i \in 1 .. Len(part) : part[i] > page.cursor
    BY <1>14, <1>15, <1>20
  <1>22. ASSUME NEW i \in 1 .. Len(part), NEW j \in 1 .. Len(part), i < j PROVE part[i] < part[j]
    <2>1. i \in 1 .. n /\ j \in 1 .. n
      BY <1>11, <1>15
    <2>. QED  BY <1>10, <1>15, <1>22, <2>1
  <1>23. ASSUME more PROVE /\ page'.cursor >= page.cursor
                           /\ \A i \in 1 .. Len(part) : part[i] <= page'.cursor
                           /\ \E i \in 1 .. Len(part) : part[i] = page'.cursor
    <2>1. /\ page'.cursor = part[size] /\ part[size] \in Nat /\ page.cursor \in Nat
          /\ part[size] > page.cursor /\ size \in 1 .. Len(part)
      BY <1>15, <1>18, <1>19, <1>20, <1>23 DEF PageTypes
    <2>2. \A i \in 1 .. size : part[i] \in Nat /\ (i < size => part[i] < part[size])
      BY <1>14, <1>15, <1>20, <1>22, <2>1
    <2>. QED  BY <1>15, <2>1, <2>2
  <1>24. ASSUME NEW m \in shown, m > page.cursor,
                \/ \E i \in 1 .. Len(part) : m <= part[i]
                \/ ~page'.more /\ page.limit \in 1 .. LongestPage
         PROVE  \E i \in 1 .. Len(part) : part[i] = m
    <2>1. m \in after
      BY <1>1, <1>24
    <2>2. m \in rows /\ Rank(rows, m) \in 1 .. size
      <3>1. CASE \E i \in 1 .. Len(part) : m <= part[i]
        <4>1. PICK i \in 1 .. size : m <= all[i] /\ all[i] \in rows
          BY <1>14, <1>15, <3>1
        <4>2. m \in rows
          BY <1>7, <2>1, <4>1
        <4>3. i \in 1 .. n /\ Rank(rows, all[i]) = i /\ Rank(rows, m) \in 1 .. n
          BY <1>10, <1>11, <4>2
        <4>4. m = all[i] \/ Rank(rows, m) < Rank(rows, all[i])
          <5>1. PICK last \in rows : last = all[i]
            BY <4>1
          <5>2. rows \in SUBSET Nat /\ IsFiniteSet(rows) /\ m \in Nat /\ last \in Nat
            BY <1>7, <1>20, <4>2
          <5>3. m < last => Rank(rows, m) < Rank(rows, last)
            BY <4>2, <5>2, RanksGrow
          <5>. QED  BY <4>1, <5>1, <5>2, <5>3
        <4>. QED  BY <4>2, <4>3, <4>4
      <3>2. CASE ~more /\ limit \in 1 .. LongestPage
        <4>1. n <= limit /\ size = n
          <5>1. size = 0 => n = 0
            BY <1>11, <3>2 DEF Sliced
          <5>. QED  BY <1>11, <1>16, <3>2, <5>1
        <4>2. rows = after
          BY <1>3, <1>7, <1>8, <3>2, <4>1
        <4>. QED  BY <1>10, <2>1, <4>1, <4>2
      <3>. QED  BY <1>2, <1>19, <1>24, <3>1, <3>2
    <2>. QED  BY <1>10, <1>15, <2>2
  <1>. QED  BY <1>15, <1>17, <1>19, <1>21, <1>22, <1>23, <1>24

LEMMA NextPageStep == PagesInv /\ NextPage => PagesInv'
  <1>. SUFFICES ASSUME PagesInv, NextPage PROVE PagesInv'
    OBVIOUS
  <1>. USE DEF PagesInv
  <1>1. PICK part \in Seq(1 .. MaxRows) :
             /\ listed' = listed \o part
             /\ \A i \in 1 .. Len(part) : part[i] > page.cursor
             /\ \A i, j \in 1 .. Len(part) : i < j => part[i] < part[j]
             /\ page' \in [limit : Limits, cursor : 0 .. MaxRows, more : BOOLEAN]
             /\ page'.limit = page.limit
             /\ page'.more => /\ page'.cursor >= page.cursor
                              /\ \A i \in 1 .. Len(part) : part[i] <= page'.cursor
                              /\ \E i \in 1 .. Len(part) : part[i] = page'.cursor
             /\ ~page'.more => page'.cursor = page.cursor
             /\ \A m \in shown :
                   /\ m > page.cursor
                   /\ \/ \E i \in 1 .. Len(part) : m <= part[i]
                      \/ ~page'.more /\ page.limit \in 1 .. LongestPage
                   => \E i \in 1 .. Len(part) : part[i] = m
    BY OnePage
  <1>2. page.more /\ UNCHANGED <<shown, stayed>> /\ page.cursor \in Nat /\ page'.cursor \in Nat
    <2>1. page.more /\ UNCHANGED <<shown, stayed>>
      BY DEF NextPage
    <2>2. page.cursor \in 0 .. MaxRows /\ page'.cursor \in 0 .. MaxRows
      BY <1>1 DEF PageTypes
    <2>. QED  BY <2>1, <2>2, PageAssumption
  <1>3. PICK n \in Nat : n = Len(listed)
    BY DEF PageTypes
  <1>4. PICK k \in Nat : k = Len(part)
    OBVIOUS
  <1>5. /\ listed' \in Seq(1 .. MaxRows) /\ DOMAIN listed' = 1 .. n + k /\ DOMAIN listed = 1 .. n
        /\ \A i \in 1 .. n : listed'[i] = listed[i] /\ listed[i] \in Nat
        /\ \A i \in 1 .. k : listed'[n + i] = part[i] /\ part[i] \in Nat
    <2>1. /\ listed' \in Seq(1 .. MaxRows)
          /\ Len(listed') = n + k
          /\ \A i \in 1 .. n + k : listed'[i] = IF i <= n THEN listed[i] ELSE part[i - n]
      BY <1>1, <1>3, <1>4, ConcatProperties DEF PageTypes
    <2>2. \A i \in 1 .. k : n + i \in 1 .. n + k /\ ~(n + i <= n) /\ (n + i) - n = i
      OBVIOUS
    <2>3. listed \in [1 .. n -> 1 .. MaxRows] /\ DOMAIN listed = 1 .. n
      BY <1>3, LenProperties DEF PageTypes
    <2>4. part \in [1 .. k -> 1 .. MaxRows]
      BY <1>4, LenProperties
    <2>5. DOMAIN listed' = 1 .. n + k
      BY <2>1, LenProperties
    <2>6. \A i \in 1 .. n : listed'[i] = listed[i]
      BY <2>1
    <2>7. \A i \in 1 .. k : listed'[n + i] = part[i]
      BY <2>1, <2>2
    <2>8. (\A i \in 1 .. n : listed[i] \in Nat) /\ (\A i \in 1 .. k : part[i] \in Nat)
      BY <2>3, <2>4, PageAssumption
    <2>. QED  BY <2>1, <2>3, <2>5, <2>6, <2>7, <2>8
  <1>6. \A i \in 1 .. n : listed[i] <= page.cursor
    BY <1>2, <1>5 DEF ListedToCursor
  <1>7. PageTypes'
    BY <1>1, <1>2, <1>5 DEF PageTypes
  <1>8. \A i \in 1 .. n + k : i \in 1 .. n \/ (\E b \in 1 .. k : i = n + b)
    <2>. SUFFICES ASSUME NEW i \in 1 .. n + k, i \notin 1 .. n PROVE \E b \in 1 .. k : i = n + b
      OBVIOUS
    <2>1. i - n \in 1 .. k /\ i = n + (i - n)
      OBVIOUS
    <2>. QED  BY <2>1
  <1>9. GrowingList'
    <2>. SUFFICES ASSUME NEW i \in 1 .. n + k, NEW j \in 1 .. n + k, i < j PROVE listed'[i] < listed'[j]
      BY <1>5 DEF GrowingList
    <2>1. CASE j \in 1 .. n
      <3>1. i \in 1 .. n
        BY <2>1
      <3>. QED  BY <1>5, <2>1, <3>1 DEF GrowingList
    <2>2. CASE \E b \in 1 .. k : j = n + b
      <3>1. PICK b \in 1 .. k : j = n + b
        BY <2>2
      <3>2. CASE i \in 1 .. n
        BY <1>1, <1>2, <1>4, <1>5, <1>6, <3>1, <3>2
      <3>3. CASE \E a \in 1 .. k : i = n + a
        <4>1. PICK a \in 1 .. k : i = n + a
          BY <3>3
        <4>2. a < b
          BY <3>1, <4>1
        <4>. QED  BY <1>1, <1>4, <1>5, <3>1, <4>1, <4>2
      <3>. QED  BY <1>8, <3>2, <3>3
    <2>. QED  BY <1>8, <2>1, <2>2
  <1>10. ListedToCursor'
    <2>1. ASSUME page'.more, NEW i \in 1 .. n + k PROVE listed'[i] <= page'.cursor
      <3>1. CASE i \in 1 .. n
        BY <1>1, <1>2, <1>5, <1>6, <2>1, <3>1
      <3>2. CASE \E a \in 1 .. k : i = n + a
        BY <1>1, <1>4, <1>5, <2>1, <3>2
      <3>. QED  BY <1>8, <3>1, <3>2
    <2>2. ASSUME NEW m \in stayed,
                 \/ m <= page'.cursor
                 \/ \E i \in 1 .. n + k : m <= listed'[i]
                 \/ ~page'.more /\ page'.limit \in 1 .. LongestPage
          PROVE  \E i \in 1 .. n + k : listed'[i] = m
      <3>1. m \in shown /\ m \in Nat
        BY PageAssumption DEF PageTypes
      <3>2. CASE m <= page.cursor
        <4>1. PICK i \in 1 .. n : listed[i] = m
          BY <1>5, <3>2 DEF ListedToCursor, Got
        <4>. QED  BY <1>5, <4>1
      <3>3. CASE m > page.cursor
        <4>1. \/ \E i \in 1 .. k : m <= part[i]
              \/ ~page'.more /\ page.limit \in 1 .. LongestPage
          <5>1. CASE m <= page'.cursor
            <6>1. page'.more
              BY <1>1, <1>2, <3>1, <3>3, <5>1
            <6>. QED  BY <1>1, <1>4, <5>1, <6>1
          <5>2. ASSUME NEW i \in 1 .. n + k, m <= listed'[i] PROVE \E b \in 1 .. k : m <= part[b]
            <6>1. i \notin 1 .. n
              BY <1>2, <1>5, <1>6, <3>1, <3>3, <5>2
            <6>. QED  BY <1>5, <1>8, <5>2, <6>1
          <5>. QED  BY <1>1, <2>2, <5>1, <5>2
        <4>2. PICK i \in 1 .. k : part[i] = m
          BY <1>1, <1>4, <3>1, <3>3, <4>1
        <4>3. n + i \in 1 .. n + k
          OBVIOUS
        <4>. QED  BY <1>5, <4>2, <4>3
      <3>. QED  BY <1>2, <3>1, <3>2, <3>3
    <2>. QED  BY <1>2, <1>5, <2>1, <2>2 DEF ListedToCursor, InReach, Got
  <1>. QED  BY <1>7, <1>9, <1>10

(* Following the cursors, a client gets the messages in order, none twice, *)
(* and before the last one it got every message that could be listed all   *)
(* the while; to the end, if its limit is one that is not clamped          *)
(* (list_messages of infra/persistence.py).                                *)
THEOREM PagesAreComplete == PagesSpec => []PagesMissNothing
  <1>1. PagesInit => PagesInv
    <2>. SUFFICES ASSUME PagesInit PROVE PagesInv
      OBVIOUS
    <2>1. shown \subseteq 1 .. MaxRows /\ stayed = shown /\ listed = << >>
          /\ page \in [limit : Limits, cursor : {0}, more : {TRUE}]
      BY DEF PagesInit
    <2>2. listed \in Seq(1 .. MaxRows) /\ DOMAIN listed = {}
      BY <2>1
    <2>3. page \in [limit : Limits, cursor : 0 .. MaxRows, more : BOOLEAN] /\ page.more /\ page.cursor = 0
      <3>1. page.more = TRUE /\ page.cursor = 0 /\ page.limit \in Limits
        BY <2>1
      <3>2. page = [limit |-> page.limit, cursor |-> 0, more |-> TRUE]
        BY <2>1, <3>1
      <3>3. 0 \in 0 .. MaxRows
        BY PageAssumption
      <3>. QED  BY <3>1, <3>2, <3>3
    <2>4. \A m \in stayed : ~(m <= 0)
      BY <2>1, PageAssumption
    <2>. QED  BY <2>1, <2>2, <2>3, <2>4 DEF PagesInv, PageTypes, GrowingList, ListedToCursor, InReach, Got
  <1>2. PagesInv /\ [PagesNext]_pageVars => PagesInv'
    <2>. SUFFICES ASSUME PagesInv, [PagesNext]_pageVars PROVE PagesInv'
      OBVIOUS
    <2>1. CASE MessageCommits \/ AnswerIsSuperseded
      <3>1. UNCHANGED <<page, listed>> /\ shown' \subseteq 1 .. MaxRows /\ stayed' \subseteq shown' /\ stayed' \subseteq stayed
        BY <2>1 DEF MessageCommits, AnswerIsSuperseded, PagesInv, PageTypes
      <3>. QED  BY <3>1 DEF PagesInv, PageTypes, GrowingList, ListedToCursor, InReach, Got
    <2>2. CASE UNCHANGED pageVars
      BY <2>2 DEF pageVars, PagesInv, PageTypes, GrowingList, ListedToCursor, InReach, Got
    <2>. QED  BY <2>1, <2>2, NextPageStep DEF PagesNext
  <1>3. PagesInv => PagesMissNothing
    BY DEF PagesInv, GrowingList, ListedToCursor, InReach, Got, PagesMissNothing
  <1>. QED  BY <1>1, <1>2, <1>3, PTL DEF PagesSpec


(***************************************************************************)
(* The rate limiter                                                        *)
(***************************************************************************)

Starts(key) == key[2] * Ticks[key[1]]
Ends(key)   == key[2] * Ticks[key[1]] + Ticks[key[1]]

LEMMA TicksAre ==
    ASSUME NEW kind \in Kinds
    PROVE  Ticks[kind] \in Nat \ {0} /\ MinuteTicks <= Ticks[kind] /\ Limit[kind] \in Nat
  <1>1. kind = "minute" \/ kind = "hour"
    BY DEF Kinds
  <1>. QED  BY <1>1, LimiterAssumption DEF Ticks, Limit

LEMMA Dividing ==
    ASSUME NEW a \in Nat, NEW t \in Nat \ {0}
    PROVE  /\ a \div t \in 0 .. a
           /\ (a \div t) * t <= a
           /\ a < (a \div t) * t + t
  OBVIOUS

LEMMA WindowTimes ==
    ASSUME NEW key \in Windows
    PROVE  /\ key[1] \in Kinds /\ key[2] \in Nat
           /\ Starts(key) \in Nat /\ Ends(key) \in Nat /\ Ends(key) = Starts(key) + Ticks[key[1]]
  <1>1. key[1] \in Kinds /\ key[2] \in Nat
    BY LimiterAssumption DEF Windows, Latest
  <1>2. PICK t \in Nat : t = Ticks[key[1]]
    BY <1>1, TicksAre
  <1>3. key[2] * t \in Nat
    BY <1>1, <1>2
  <1>. QED  BY <1>1, <1>2, <1>3 DEF Starts, Ends

(* LimitsAreKept, for any workers, clocks, limits and lengths of windows.  *)
(* A counter outlives its window, whichever worker's clock names it: so    *)
(* while a window can be named its counter has counted every request that  *)
(* was let in or will be, and it has counted none that was not made.       *)

LimitCalls == [stage : {"idle", "sent", "counted", "refused", "unavailable"},
               keys : SUBSET Windows, counts : [Kinds -> Nat]]

LimiterTypes ==
    /\ now \in 0..MaxLimitTime
    /\ counters  \in [Windows -> [count : Nat, until : Nat]]
    /\ limitCall \in [LimitWorkers -> LimitCalls]
    /\ late \in SUBSET SUBSET Windows /\ IsFiniteSet(late)
    /\ made \in [Windows -> Nat] /\ admitted \in [Windows -> Nat]

(* Requests under way name the present, commands left behind the past. *)
CallsName ==
    /\ \A w \in LimitWorkers : limitCall[w].stage \in {"sent", "counted"} => limitCall[w].keys = Named(w)
    /\ \A keys \in late : \A key \in keys : Starts(key) <= now + MinuteTicks

CountersLast == \A key \in Windows : counters[key].count = 0 \/ counters[key].until >= Ends(key)

(* Requests of a window that have been counted within its limit, and those *)
(* that are still to be counted.                                           *)
Passing(key) == {w \in LimitWorkers : /\ limitCall[w].stage = "counted" /\ key \in limitCall[w].keys
                                      /\ limitCall[w].counts[key[1]] <= Limit[key[1]]}
Sending(key) == {w \in LimitWorkers : limitCall[w].stage = "sent" /\ key \in limitCall[w].keys}
Owing(key)   == {keys \in late : key \in keys}

CountersHold ==
    ~FailsOpen => \A key \in Windows :
        /\ admitted[key] + Cardinality(Passing(key)) <= Limit[key[1]]
        /\ now < Ends(key) => admitted[key] + Cardinality(Passing(key)) <= counters[key].count

CountsAreMade ==
    /\ \A key \in Windows :
          counters[key].count + Cardinality(Sending(key)) + Cardinality(Owing(key)) <= made[key]
    /\ \A w \in LimitWorkers : limitCall[w].stage = "counted" =>
          \A key \in limitCall[w].keys : limitCall[w].counts[key[1]] <= made[key]

RefusedRightly ==
    \A w \in LimitWorkers :
        limitCall[w].stage = "refused" => \E key \in limitCall[w].keys : made[key] > Limit[key[1]]

LimiterInv == LimiterTypes /\ CallsName /\ CountersLast /\ CountersHold /\ CountsAreMade /\ RefusedRightly

-------------------------------------------------------------------------------
LEMMA NamedWindows ==
    ASSUME NEW w \in LimitWorkers, now \in 0..MaxLimitTime
    PROVE  /\ Named(w) \subseteq Windows
           /\ \A key \in Named(w) : Starts(key) <= now + MinuteTicks /\ now < Ends(key)
           /\ \A kind \in Kinds : \E key \in Named(w) : key[1] = kind
           /\ \A key, other \in Named(w) : key[1] = other[1] => key = other
  <1>1. ClockOffset[w] \in 0..MinuteTicks
    BY LimiterAssumption DEF Skews
  <1>2. PICK a \in Nat : a = now + ClockOffset[w]
    BY <1>1, LimiterAssumption
  <1>3. a <= Latest /\ a <= now + MinuteTicks /\ now <= a /\ now \in Nat /\ Latest \in Nat
    BY <1>1, <1>2, LimiterAssumption DEF Latest
  <1>4. PICK place : place = [kind \in Kinds |-> a \div Ticks[kind]]
    OBVIOUS
  <1>5. ASSUME NEW kind \in Kinds
        PROVE  LET key == <<kind, a \div Ticks[kind]>> IN
               key \in Windows /\ Starts(key) <= now + MinuteTicks /\ now < Ends(key)
    <2>1. PICK t \in Nat \ {0} : t = Ticks[kind]
      BY TicksAre
    <2>2. PICK n \in 0 .. a : n = a \div t /\ n * t <= a /\ a < n * t + t
      BY Dividing
    <2>3. PICK key : key = <<kind, n>>
      OBVIOUS
    <2>4. key \in Windows /\ key[1] = kind /\ key[2] = n
      BY <1>3, <2>3 DEF Windows
    <2>5. PICK s \in Nat : s = n * t
      OBVIOUS
    <2>6. Starts(key) = s /\ Ends(key) = s + t
      BY <2>1, <2>4, <2>5 DEF Starts, Ends
    <2>7. s <= now + MinuteTicks /\ now < s + t
      BY <1>3, <2>1, <2>2, <2>5, LimiterAssumption
    <2>. QED  BY <2>1, <2>2, <2>3, <2>4, <2>6, <2>7
  <1>6. Named(w) = {<<kind, place[kind]>> : kind \in Kinds}
    BY <1>2, <1>4 DEF Named
  <1>7. ASSUME NEW key \in Named(w) PROVE key[1] \in Kinds /\ key = <<key[1], place[key[1]]>>
    <2>1. PICK kind \in Kinds : key = <<kind, place[kind]>>
      BY <1>6
    <2>2. key[1] = kind
      BY <2>1
    <2>. QED  BY <2>1, <2>2
  <1>8. ASSUME NEW kind \in Kinds PROVE \E key \in Named(w) : key[1] = kind
    <2>1. <<kind, place[kind]>> \in Named(w) /\ <<kind, place[kind]>>[1] = kind
      BY <1>6
    <2>. QED  BY <2>1
  <1>9. ASSUME NEW key \in Named(w)
        PROVE  key \in Windows /\ Starts(key) <= now + MinuteTicks /\ now < Ends(key)
    BY <1>4, <1>5, <1>7
  <1>10. \A key, other \in Named(w) : key[1] = other[1] => key = other
    BY <1>7
  <1>. QED  BY <1>8, <1>9, <1>10

LEMMA LiveCounts ==
    ASSUME LimiterTypes, CountersLast, NEW key \in Windows
    PROVE  /\ Live(key) \in Nat /\ Live(key) <= counters[key].count
           /\ now < Ends(key) => Live(key) = counters[key].count
  <1>1. counters[key] \in [count : Nat, until : Nat] /\ now \in Nat
    BY LimiterAssumption DEF LimiterTypes
  <1>. QED  BY <1>1, WindowTimes DEF Live, CountersLast

(* A command counts each of its windows once more, and makes the counters *)
(* last.                                                                   *)
LEMMA CountedKeys ==
    ASSUME LimiterTypes, CountersLast, NEW keys \in SUBSET Windows,
           \A key \in keys : Starts(key) <= now + MinuteTicks, Counted(keys)
    PROVE  /\ counters' \in [Windows -> [count : Nat, until : Nat]]
           /\ \A key \in Windows \ keys : counters'[key] = counters[key]
           /\ \A key \in keys : counters'[key].count = Live(key) + 1 /\ counters'[key].until >= Ends(key)
           /\ CountersLast'
  <1>1. now \in Nat
    BY LimiterAssumption DEF LimiterTypes
  <1>2. ASSUME NEW key \in keys
        PROVE  /\ counters'[key] = [count |-> Live(key) + 1, until |-> now + Life(key[1])]
               /\ Live(key) \in Nat /\ now + Life(key[1]) \in Nat /\ now + Life(key[1]) >= Ends(key)
    <2>1. counters'[key] = [count |-> Live(key) + 1, until |-> now + Life(key[1])]
      BY DEF Counted
    <2>2. PICK t \in Nat \ {0} : t = Ticks[key[1]] /\ MinuteTicks <= t
      BY TicksAre, WindowTimes
    <2>3. Life(key[1]) = t + t
      BY <2>2 DEF Life
    <2>4. Ends(key) = Starts(key) + t /\ Starts(key) \in Nat
      BY <2>2, WindowTimes
    <2>. QED  BY <1>1, <2>1, <2>2, <2>3, <2>4, LiveCounts, LimiterAssumption
  <1>3. \A key \in Windows \ keys : counters'[key] = counters[key]
    BY DEF Counted
  <1>4. counters' \in [Windows -> [count : Nat, until : Nat]]
    <2>1. counters' = [key \in Windows |-> counters'[key]]
      BY DEF Counted
    <2>2. \A key \in Windows \ keys : counters'[key] \in [count : Nat, until : Nat]
      BY <1>3 DEF LimiterTypes
    <2>3. ASSUME NEW key \in keys PROVE counters'[key] \in [count : Nat, until : Nat]
      <3>1. /\ counters'[key] = [count |-> Live(key) + 1, until |-> now + Life(key[1])]
            /\ Live(key) \in Nat /\ now + Life(key[1]) \in Nat
        BY <1>2
      <3>. QED  BY <3>1
    <2>. QED  BY <2>1, <2>2, <2>3
  <1>5. ASSUME NEW key \in keys
        PROVE  counters'[key].count = Live(key) + 1 /\ counters'[key].until >= Ends(key)
    <2>1. counters'[key] = [count |-> Live(key) + 1, until |-> now + Life(key[1])]
          /\ now + Life(key[1]) >= Ends(key)
      BY <1>2
    <2>. QED  BY <2>1
  <1>6. CountersLast'
    BY <1>3, <1>5 DEF CountersLast, Windows, Ends, Latest
  <1>. QED  BY <1>3, <1>4, <1>5, <1>6

LEMMA SetsOfCalls ==
    ASSUME NEW key, IsFiniteSet(late)
    PROVE  /\ IsFiniteSet(Passing(key)) /\ Cardinality(Passing(key)) \in Nat
           /\ IsFiniteSet(Sending(key)) /\ Cardinality(Sending(key)) \in Nat
           /\ IsFiniteSet(Owing(key)) /\ Cardinality(Owing(key)) \in Nat
  <1>1. Passing(key) \subseteq LimitWorkers /\ Sending(key) \subseteq LimitWorkers /\ Owing(key) \subseteq late
    BY DEF Passing, Sending, Owing
  <1>. QED  BY <1>1, LimiterAssumption, FS_Subset, FS_CardinalityType

LEMMA LimiterStart == LimiterInit => LimiterInv
  <1>. SUFFICES ASSUME LimiterInit PROVE LimiterInv
    OBVIOUS
  <1>1. IdleCall \in LimitCalls /\ IdleCall.stage = "idle"
    BY DEF IdleCall, LimitCalls
  <1>2. \A w \in LimitWorkers : limitCall[w].stage = "idle"
    BY <1>1 DEF LimiterInit
  <1>3. NoCount \in [count : Nat, until : Nat] /\ NoCount.count = 0
    BY DEF NoCount
  <1>4. IsFiniteSet(late) /\ late = {}
    BY FS_EmptySet DEF LimiterInit
  <1>5. LimiterTypes
    BY <1>1, <1>3, <1>4, LimiterAssumption DEF LimiterInit, LimiterTypes
  <1>6. \A key \in Windows : counters[key].count = 0 /\ made[key] = 0 /\ admitted[key] = 0
    BY <1>3 DEF LimiterInit
  <1>7. \A key \in Windows : Passing(key) = {} /\ Sending(key) = {} /\ Owing(key) = {}
    BY <1>2, <1>4 DEF Passing, Sending, Owing
  <1>8. Cardinality({}) = 0
    BY FS_EmptySet
  <1>9. CountersHold /\ CountsAreMade
    <2>1. \A key \in Windows : Limit[key[1]] \in Nat
      BY TicksAre, WindowTimes
    <2>2. CountersHold
      BY <1>6, <1>7, <1>8, <2>1 DEF CountersHold
    <2>3. ASSUME NEW key \in Windows
          PROVE  counters[key].count + Cardinality(Sending(key)) + Cardinality(Owing(key)) <= made[key]
      <3>1. Cardinality(Sending(key)) = 0 /\ Cardinality(Owing(key)) = 0
        BY <1>7, <1>8
      <3>. QED  BY <1>6, <3>1
    <2>. QED  BY <1>2, <2>2, <2>3 DEF CountsAreMade
  <1>. QED  BY <1>2, <1>4, <1>5, <1>6, <1>9 DEF LimiterInv, CallsName, CountersLast, RefusedRightly

-------------------------------------------------------------------------------
(* A set that loses one element, and one that may gain one. *)
LEMMA OneLess ==
    ASSUME NEW S, IsFiniteSet(S), NEW x \in S, NEW T, T \subseteq S \ {x}
    PROVE  Cardinality(T) + 1 <= Cardinality(S)
  <1>1. IsFiniteSet(S \ {x}) /\ Cardinality(S \ {x}) = Cardinality(S) - 1 /\ Cardinality(S) \in Nat
    BY FS_RemoveElement, FS_CardinalityType
  <1>2. Cardinality(T) <= Cardinality(S \ {x}) /\ IsFiniteSet(T)
    BY <1>1, FS_Subset
  <1>3. Cardinality(T) \in Nat
    BY <1>2, FS_CardinalityType
  <1>. QED  BY <1>1, <1>2, <1>3

LEMMA OneMore ==
    ASSUME NEW S, IsFiniteSet(S), NEW x, NEW T, T \subseteq S \cup {x}
    PROVE  Cardinality(T) <= Cardinality(S) + 1 /\ Cardinality(T) \in Nat /\ Cardinality(S) \in Nat
  <1>1. IsFiniteSet(S \cup {x}) /\ Cardinality(S \cup {x}) \in {Cardinality(S), Cardinality(S) + 1}
    BY FS_AddElement
  <1>2. Cardinality(T) <= Cardinality(S \cup {x}) /\ IsFiniteSet(T)
    BY <1>1, FS_Subset
  <1>3. Cardinality(T) \in Nat /\ Cardinality(S) \in Nat
    BY <1>2, FS_CardinalityType
  <1>. QED  BY <1>1, <1>2, <1>3

LEMMA NoMore ==
    ASSUME NEW S, IsFiniteSet(S), NEW T, T \subseteq S
    PROVE  Cardinality(T) <= Cardinality(S) /\ Cardinality(T) \in Nat /\ Cardinality(S) \in Nat
  BY FS_Subset, FS_CardinalityType

-------------------------------------------------------------------------------
LEMMA RequestStep == ASSUME LimiterInv, NEW w \in LimitWorkers, Ask(w) PROVE LimiterInv'
  <1>. USE DEF LimiterInv
  <1>1. PICK call : call = [IdleCall EXCEPT !.stage = "sent", !.keys = Named(w)]
    OBVIOUS
  <1>2. /\ limitCall[w].stage = "idle"
        /\ limitCall' = [limitCall EXCEPT ![w] = call]
        /\ made' = [key \in Windows |-> made[key] + IF key \in Named(w) THEN 1 ELSE 0]
        /\ UNCHANGED <<now, counters, late, admitted>>
    BY <1>1 DEF Ask
  <1>3. Named(w) \subseteq Windows
    BY NamedWindows DEF LimiterTypes
  <1>4. call \in LimitCalls /\ call.stage = "sent" /\ call.keys = Named(w)
    BY <1>1, <1>3 DEF LimitCalls, IdleCall
  <1>5. \A key \in Windows : made'[key] \in Nat /\ made'[key] >= made[key]
                             /\ (key \in Named(w) => made'[key] = made[key] + 1)
    BY <1>2 DEF LimiterTypes
  <1>6. limitCall'[w] = call /\ \A v \in LimitWorkers \ {w} : limitCall'[v] = limitCall[v]
    BY <1>2 DEF LimiterTypes
  <1>7. made' \in [Windows -> Nat]
    BY <1>2, <1>5
  <1>8. LimiterTypes'
    BY <1>2, <1>4, <1>7 DEF LimiterTypes
  <1>9. \A v \in LimitWorkers : Named(v)' = Named(v)
    BY <1>2 DEF Named
  <1>10. CallsName'
    BY <1>2, <1>4, <1>6, <1>9 DEF CallsName
  <1>11. CountersLast'
    BY <1>2 DEF CountersLast
  <1>12. \A key \in Windows : Passing(key)' = Passing(key)
    BY <1>2, <1>4, <1>6 DEF Passing
  <1>13. CountersHold'
    BY <1>2, <1>12 DEF CountersHold
  <1>14. ASSUME NEW key \in Windows
         PROVE  counters'[key].count + Cardinality(Sending(key)') + Cardinality(Owing(key)') <= made'[key]
    <2>1. IsFiniteSet(Sending(key)) /\ Cardinality(Sending(key)) \in Nat /\ Cardinality(Owing(key)) \in Nat
      BY SetsOfCalls DEF LimiterTypes
    <2>2. counters[key].count \in Nat /\ made[key] \in Nat
          /\ counters[key].count + Cardinality(Sending(key)) + Cardinality(Owing(key)) <= made[key]
      BY DEF CountsAreMade, LimiterTypes
    <2>3. Owing(key)' = Owing(key) /\ counters'[key] = counters[key]
      BY <1>2 DEF Owing
    <2>4. CASE key \in Named(w)
      <3>1. Sending(key)' \subseteq Sending(key) \cup {w}
        BY <1>6 DEF Sending
      <3>2. Cardinality(Sending(key)') <= Cardinality(Sending(key)) + 1 /\ Cardinality(Sending(key)') \in Nat
        BY <2>1, <3>1, OneMore
      <3>. QED  BY <1>5, <2>1, <2>2, <2>3, <2>4, <3>2
    <2>5. CASE key \notin Named(w)
      <3>1. Sending(key)' \subseteq Sending(key)
        BY <1>4, <1>6, <2>5 DEF Sending
      <3>2. Cardinality(Sending(key)') <= Cardinality(Sending(key)) /\ Cardinality(Sending(key)') \in Nat
        BY <2>1, <3>1, NoMore
      <3>. QED  BY <1>5, <2>1, <2>2, <2>3, <3>2
    <2>. QED  BY <2>4, <2>5
  <1>15. ASSUME NEW v \in LimitWorkers, limitCall'[v].stage = "counted", NEW key \in limitCall'[v].keys
         PROVE  limitCall'[v].counts[key[1]] <= made'[key]
    <2>1. limitCall'[v] = limitCall[v] /\ limitCall[v] \in LimitCalls
      BY <1>4, <1>6, <1>15 DEF LimiterTypes
    <2>2. key \in Windows
      BY <1>15, <2>1 DEF LimitCalls
    <2>3. limitCall[v].counts[key[1]] \in Nat /\ made[key] \in Nat /\ limitCall[v].counts[key[1]] <= made[key]
      BY <1>15, <2>1, <2>2, WindowTimes DEF CountsAreMade, LimitCalls, LimiterTypes
    <2>. QED  BY <1>5, <2>1, <2>2, <2>3
  <1>16. CountsAreMade'
    BY <1>14, <1>15 DEF CountsAreMade, Windows, Latest
  <1>17. RefusedRightly'
    <2>. SUFFICES ASSUME NEW v \in LimitWorkers, limitCall'[v].stage = "refused"
                  PROVE  \E key \in limitCall'[v].keys : made'[key] > Limit[key[1]]
      BY DEF RefusedRightly
    <2>1. limitCall'[v] = limitCall[v] /\ limitCall[v] \in LimitCalls
      BY <1>4, <1>6 DEF LimiterTypes
    <2>2. PICK key \in limitCall[v].keys : made[key] > Limit[key[1]]
      BY <2>1 DEF RefusedRightly
    <2>3. key \in Windows
      BY <2>1, <2>2 DEF LimitCalls
    <2>4. Limit[key[1]] \in Nat /\ made[key] \in Nat
      BY <2>3, WindowTimes, TicksAre DEF LimiterTypes
    <2>. QED  BY <1>5, <2>1, <2>2, <2>3, <2>4
  <1>. QED  BY <1>8, <1>10, <1>11, <1>13, <1>16, <1>17

(* What is said of each call, when one of them changes. *)
LEMMA OneCallChanges ==
    ASSUME LimiterInv, NEW w \in LimitWorkers, NEW call \in LimitCalls, UNCHANGED <<now, made>>,
           limitCall' = [limitCall EXCEPT ![w] = call],
           call.stage \in {"sent", "counted"} => call.keys = Named(w),
           call.stage = "counted" => \A key \in call.keys : call.counts[key[1]] <= made[key],
           call.stage = "refused" => \E key \in call.keys : made[key] > Limit[key[1]],
           \A keys \in late' : \A key \in keys : Starts(key) <= now + MinuteTicks
    PROVE  /\ limitCall' \in [LimitWorkers -> LimitCalls]
           /\ CallsName'
           /\ \A v \in LimitWorkers : limitCall'[v].stage = "counted" =>
                 \A key \in limitCall'[v].keys : limitCall'[v].counts[key[1]] <= made'[key]
           /\ RefusedRightly'
  <1>. USE DEF LimiterInv
  <1>1. limitCall'[w] = call /\ \A v \in LimitWorkers \ {w} : limitCall'[v] = limitCall[v]
    BY DEF LimiterTypes
  <1>2. limitCall' \in [LimitWorkers -> LimitCalls]
    BY DEF LimiterTypes
  <1>3. \A v \in LimitWorkers : Named(v)' = Named(v)
    BY DEF Named
  <1>4. CallsName'
    BY <1>1, <1>3 DEF CallsName
  <1>5. \A v \in LimitWorkers : limitCall'[v].stage = "counted" =>
           \A key \in limitCall'[v].keys : limitCall'[v].counts[key[1]] <= made'[key]
    BY <1>1 DEF CountsAreMade
  <1>6. RefusedRightly'
    BY <1>1 DEF RefusedRightly
  <1>. QED  BY <1>2, <1>4, <1>5, <1>6

LEMMA CountStep == ASSUME LimiterInv, NEW w \in LimitWorkers, Count(w) PROVE LimiterInv'
  <1>. USE DEF LimiterInv
  <1>1. PICK keys : keys = limitCall[w].keys
    OBVIOUS
  <1>2. PICK counts : counts = [kind \in Kinds |-> LET key == CHOOSE k \in keys : k[1] = kind IN Live(key) + 1]
    OBVIOUS
  <1>3. limitCall[w].stage = "sent" /\ limitCall[w] \in LimitCalls /\ Counted(keys)
        /\ UNCHANGED <<now, late, made, admitted>>
    BY <1>1 DEF Count, LimiterTypes
  <1>4. keys = Named(w) /\ keys \subseteq Windows
        /\ (\A key \in keys : Starts(key) <= now + MinuteTicks /\ now < Ends(key))
        /\ (\A kind \in Kinds : \E key \in keys : key[1] = kind)
        /\ (\A key, other \in keys : key[1] = other[1] => key = other)
    BY <1>1, <1>3, NamedWindows DEF CallsName, LimiterTypes
  <1>5. /\ counters' \in [Windows -> [count : Nat, until : Nat]]
        /\ \A key \in Windows \ keys : counters'[key] = counters[key]
        /\ \A key \in keys : counters'[key].count = Live(key) + 1
        /\ CountersLast'
    BY <1>3, <1>4, CountedKeys
  <1>6. \A key \in keys : /\ Live(key) \in Nat /\ Live(key) = counters[key].count
                          /\ counters'[key].count = counters[key].count + 1
    BY <1>4, <1>5, LiveCounts
  <1>7. ASSUME NEW kind \in Kinds PROVE \E key \in keys : key[1] = kind /\ counts[kind] = Live(key) + 1
    BY <1>2, <1>4
  <1>8. counts \in [Kinds -> Nat]
    <2>1. \A kind \in Kinds : counts[kind] \in Nat
      BY <1>6, <1>7
    <2>. QED  BY <1>2, <2>1
  <1>9. ASSUME NEW key \in keys PROVE counts[key[1]] = counters'[key].count
    <2>1. key[1] \in Kinds
      BY <1>4, WindowTimes
    <2>2. PICK other \in keys : other[1] = key[1] /\ counts[key[1]] = Live(other) + 1
      BY <1>7, <2>1
    <2>. QED  BY <1>4, <1>6, <2>2
  <1>10. PICK call : call = [limitCall[w] EXCEPT !.stage = "counted", !.counts = counts]
    OBVIOUS
  <1>11. call \in LimitCalls /\ call.stage = "counted" /\ call.keys = keys /\ call.counts = counts
    BY <1>1, <1>3, <1>8, <1>10 DEF LimitCalls
  <1>12. limitCall' = [limitCall EXCEPT ![w] = call]
    <2>1. limitCall' = [limitCall EXCEPT ![w].stage = "counted", ![w].counts = counts]
      BY <1>1, <1>2 DEF Count
    <2>. QED  BY <1>3, <1>10, <2>1 DEF LimiterTypes, LimitCalls
  <1>13. limitCall'[w] = call /\ \A v \in LimitWorkers \ {w} : limitCall'[v] = limitCall[v]
    BY <1>12 DEF LimiterTypes
  <1>14. ASSUME NEW key \in Windows
         PROVE  counters'[key].count + Cardinality(Sending(key)') + Cardinality(Owing(key)') <= made'[key]
    <2>1. IsFiniteSet(Sending(key)) /\ Cardinality(Sending(key)) \in Nat /\ Cardinality(Owing(key)) \in Nat
      BY SetsOfCalls DEF LimiterTypes
    <2>2. counters[key].count \in Nat /\ made[key] \in Nat
          /\ counters[key].count + Cardinality(Sending(key)) + Cardinality(Owing(key)) <= made[key]
      BY DEF CountsAreMade, LimiterTypes
    <2>3. Owing(key)' = Owing(key)
      BY <1>3 DEF Owing
    <2>4. Sending(key)' \subseteq Sending(key) \ {w}
      BY <1>11, <1>13 DEF Sending
    <2>5. Cardinality(Sending(key)') \in Nat /\ Cardinality(Sending(key)') <= Cardinality(Sending(key))
      BY <2>1, <2>4, NoMore
    <2>6. CASE key \in keys
      <3>1. w \in Sending(key)
        BY <1>1, <1>3, <2>6 DEF Sending
      <3>2. Cardinality(Sending(key)') + 1 <= Cardinality(Sending(key))
        BY <2>1, <2>4, <3>1, OneLess
      <3>. QED  BY <1>3, <1>6, <2>1, <2>2, <2>3, <2>5, <2>6, <3>2
    <2>7. CASE key \notin keys
      BY <1>3, <1>5, <2>1, <2>2, <2>3, <2>5, <2>7
    <2>. QED  BY <2>6, <2>7
  <1>15. \A key \in keys : call.counts[key[1]] <= made[key]
    <2>. SUFFICES ASSUME NEW key \in keys PROVE counts[key[1]] <= made[key]
      BY <1>11
    <2>1. IsFiniteSet(Sending(key)') /\ Cardinality(Sending(key)') \in Nat /\ Cardinality(Owing(key)') \in Nat
      <3>1. Sending(key)' \subseteq LimitWorkers /\ Owing(key)' \subseteq late
        BY <1>3 DEF Sending, Owing
      <3>. QED  BY <3>1, NoMore, FS_Subset, LimiterAssumption DEF LimiterTypes
    <2>2. key \in Windows /\ counters'[key].count \in Nat /\ made[key] \in Nat
      BY <1>4, <1>5 DEF LimiterTypes
    <2>. QED  BY <1>3, <1>9, <1>14, <2>1, <2>2
  <1>16. /\ limitCall' \in [LimitWorkers -> LimitCalls]
         /\ CallsName'
         /\ \A v \in LimitWorkers : limitCall'[v].stage = "counted" =>
               \A key \in limitCall'[v].keys : limitCall'[v].counts[key[1]] <= made'[key]
         /\ RefusedRightly'
    <2>1. \A others \in late' : \A key \in others : Starts(key) <= now + MinuteTicks
      BY <1>3 DEF CallsName
    <2>. QED  BY <1>3, <1>4, <1>11, <1>12, <1>15, <2>1, OneCallChanges
  <1>17. LimiterTypes'
    BY <1>3, <1>5, <1>16 DEF LimiterTypes
  <1>18. CountsAreMade'
    BY <1>14, <1>16 DEF CountsAreMade, Windows, Latest
  <1>19. CountersHold'
    <2>. SUFFICES ASSUME ~FailsOpen, NEW key \in Windows
                  PROVE  /\ admitted[key] + Cardinality(Passing(key)') <= Limit[key[1]]
                         /\ now < Ends(key) => admitted[key] + Cardinality(Passing(key)') <= counters'[key].count
      BY <1>3 DEF CountersHold, Windows, Latest, Ends
    <2>1. IsFiniteSet(Passing(key)) /\ Cardinality(Passing(key)) \in Nat
      BY SetsOfCalls DEF LimiterTypes
    <2>2. /\ admitted[key] \in Nat /\ counters[key].count \in Nat /\ Limit[key[1]] \in Nat
          /\ admitted[key] + Cardinality(Passing(key)) <= Limit[key[1]]
          /\ now < Ends(key) => admitted[key] + Cardinality(Passing(key)) <= counters[key].count
      BY WindowTimes, TicksAre DEF CountersHold, LimiterTypes
    <2>3. CASE key \in keys /\ counts[key[1]] <= Limit[key[1]]
      <3>1. Passing(key)' \subseteq Passing(key) \cup {w}
        BY <1>13 DEF Passing
      <3>2. Cardinality(Passing(key)') <= Cardinality(Passing(key)) + 1 /\ Cardinality(Passing(key)') \in Nat
        BY <2>1, <3>1, OneMore
      <3>. QED  BY <1>4, <1>6, <1>9, <2>1, <2>2, <2>3, <3>2
    <2>4. CASE ~(key \in keys /\ counts[key[1]] <= Limit[key[1]])
      <3>1. Passing(key)' \subseteq Passing(key)
        BY <1>11, <1>13, <2>4 DEF Passing
      <3>2. Cardinality(Passing(key)') <= Cardinality(Passing(key)) /\ Cardinality(Passing(key)') \in Nat
        BY <2>1, <3>1, NoMore
      <3>3. counters'[key].count >= counters[key].count /\ counters'[key].count \in Nat
        BY <1>5, <1>6, <2>2
      <3>. QED  BY <2>1, <2>2, <3>2, <3>3
    <2>. QED  BY <2>3, <2>4
  <1>. QED  BY <1>5, <1>16, <1>17, <1>18, <1>19

LEMMA CountLateStep == LimiterInv /\ CountLate => LimiterInv'
  <1>. SUFFICES ASSUME LimiterInv, CountLate PROVE LimiterInv'
    OBVIOUS
  <1>. USE DEF LimiterInv
  <1>1. PICK keys \in late : /\ late' = late \ {keys}
                             /\ Counted(keys) \/ UNCHANGED counters
                             /\ UNCHANGED <<now, limitCall, made, admitted>>
    BY DEF CountLate
  <1>2. keys \subseteq Windows /\ \A key \in keys : Starts(key) <= now + MinuteTicks
    BY DEF LimiterTypes, CallsName
  <1>3. /\ counters' \in [Windows -> [count : Nat, until : Nat]]
        /\ CountersLast'
        /\ \A key \in Windows : counters'[key].count <= counters[key].count + (IF key \in keys THEN 1 ELSE 0)
        /\ \A key \in Windows : now < Ends(key) => counters'[key].count >= counters[key].count
    <2>1. \A key \in Windows : counters[key].count \in Nat
      BY DEF LimiterTypes
    <2>2. CASE UNCHANGED counters
      BY <2>1, <2>2 DEF LimiterTypes, CountersLast
    <2>3. CASE Counted(keys)
      <3>1. /\ counters' \in [Windows -> [count : Nat, until : Nat]]
            /\ \A key \in Windows \ keys : counters'[key] = counters[key]
            /\ \A key \in keys : counters'[key].count = Live(key) + 1
            /\ CountersLast'
        BY <1>2, <2>3, CountedKeys
      <3>2. \A key \in Windows : /\ Live(key) \in Nat /\ Live(key) <= counters[key].count
                                 /\ now < Ends(key) => Live(key) = counters[key].count
        BY LiveCounts
      <3>. QED  BY <1>2, <2>1, <3>1, <3>2
    <2>. QED  BY <1>1, <2>2, <2>3
  <1>4. IsFiniteSet(late')
    BY <1>1, FS_RemoveElement DEF LimiterTypes
  <1>5. LimiterTypes'
    BY <1>1, <1>3, <1>4 DEF LimiterTypes
  <1>6. CallsName'
    BY <1>1 DEF CallsName, Named, Starts
  <1>7. RefusedRightly'
    BY <1>1 DEF RefusedRightly
  <1>8. \A key \in Windows : Passing(key)' = Passing(key) /\ Sending(key)' = Sending(key)
    BY <1>1 DEF Passing, Sending
  <1>9. CountersHold'
    <2>. SUFFICES ASSUME ~FailsOpen, NEW key \in Windows
                  PROVE  /\ admitted[key] + Cardinality(Passing(key)) <= Limit[key[1]]
                         /\ now < Ends(key) => admitted[key] + Cardinality(Passing(key)) <= counters'[key].count
      BY <1>1, <1>8 DEF CountersHold, Windows, Latest, Ends
    <2>1. Cardinality(Passing(key)) \in Nat /\ admitted[key] \in Nat /\ counters[key].count \in Nat
          /\ counters'[key].count \in Nat
      BY <1>3, SetsOfCalls DEF LimiterTypes
    <2>. QED  BY <1>3, <2>1 DEF CountersHold
  <1>10. ASSUME NEW key \in Windows
         PROVE  counters'[key].count + Cardinality(Sending(key)') + Cardinality(Owing(key)') <= made'[key]
    <2>1. IsFiniteSet(Owing(key)) /\ Cardinality(Sending(key)) \in Nat /\ Cardinality(Owing(key)) \in Nat
      BY SetsOfCalls DEF LimiterTypes
    <2>2. counters[key].count \in Nat /\ made[key] \in Nat /\ counters'[key].count \in Nat
          /\ counters[key].count + Cardinality(Sending(key)) + Cardinality(Owing(key)) <= made[key]
      BY <1>3 DEF CountsAreMade, LimiterTypes
    <2>3. Owing(key)' \subseteq Owing(key) \ {keys}
      BY <1>1 DEF Owing
    <2>4. Cardinality(Owing(key)') <= Cardinality(Owing(key)) /\ Cardinality(Owing(key)') \in Nat
      BY <2>1, <2>3, NoMore
    <2>5. CASE key \in keys
      <3>1. Cardinality(Owing(key)') + 1 <= Cardinality(Owing(key))
        BY <2>1, <2>3, <2>5, OneLess DEF Owing
      <3>. QED  BY <1>1, <1>3, <1>8, <2>1, <2>2, <2>4, <2>5, <3>1
    <2>6. CASE key \notin keys
      BY <1>1, <1>3, <1>8, <2>1, <2>2, <2>4, <2>6
    <2>. QED  BY <2>5, <2>6
  <1>11. CountsAreMade'
    BY <1>1, <1>10 DEF CountsAreMade, Windows, Latest
  <1>. QED  BY <1>3, <1>5, <1>6, <1>7, <1>9, <1>11

(* The steps that end a call, or answer it: nothing is counted.            *)
LEMMA CallEnds ==
    ASSUME LimiterInv, NEW w \in LimitWorkers, NEW call \in LimitCalls, UNCHANGED <<now, counters, made>>,
           limitCall' = [limitCall EXCEPT ![w] = call], call.stage \notin {"sent", "counted"},
           call.stage = "refused" => \E key \in call.keys : made[key] > Limit[key[1]],
           \/ late' = late
           \/ limitCall[w].stage = "sent" /\ late' = late \cup {limitCall[w].keys},
           \/ UNCHANGED admitted
           \/ /\ admitted' = [key \in Windows |-> admitted[key] + IF key \in limitCall[w].keys THEN 1 ELSE 0]
              /\ FailsOpen \/ \A key \in limitCall[w].keys : w \in Passing(key)
    PROVE  LimiterInv'
  <1>. USE DEF LimiterInv
  <1>1. limitCall[w] \in LimitCalls /\ limitCall'[w] = call
        /\ \A v \in LimitWorkers \ {w} : limitCall'[v] = limitCall[v]
    BY DEF LimiterTypes
  <1>2. \A keys \in late' : \A key \in keys : Starts(key) <= now + MinuteTicks
    BY NamedWindows DEF CallsName, LimiterTypes
  <1>3. /\ limitCall' \in [LimitWorkers -> LimitCalls]
        /\ CallsName'
        /\ \A v \in LimitWorkers : limitCall'[v].stage = "counted" =>
              \A key \in limitCall'[v].keys : limitCall'[v].counts[key[1]] <= made'[key]
        /\ RefusedRightly'
    BY <1>2, OneCallChanges
  <1>4. IsFiniteSet(late') /\ late' \in SUBSET SUBSET Windows
    <2>1. limitCall[w].keys \in SUBSET Windows
      BY <1>1 DEF LimitCalls
    <2>2. IsFiniteSet(late) /\ late \in SUBSET SUBSET Windows
      BY DEF LimiterTypes
    <2>3. IsFiniteSet(late \cup {limitCall[w].keys})
      BY <2>2, FS_AddElement
    <2>. QED  BY <2>1, <2>2, <2>3
  <1>5. admitted' \in [Windows -> Nat]
    BY DEF LimiterTypes
  <1>6. LimiterTypes'
    BY <1>3, <1>4, <1>5 DEF LimiterTypes
  <1>7. CountersLast'
    BY DEF CountersLast
  <1>8. CountersHold'
    <2>. SUFFICES ASSUME ~FailsOpen, NEW key \in Windows
                  PROVE  /\ admitted'[key] + Cardinality(Passing(key)') <= Limit[key[1]]
                         /\ now < Ends(key) => admitted'[key] + Cardinality(Passing(key)') <= counters[key].count
      BY DEF CountersHold, Windows, Latest, Ends
    <2>1. IsFiniteSet(Passing(key)) /\ Cardinality(Passing(key)) \in Nat
      BY SetsOfCalls DEF LimiterTypes
    <2>2. /\ admitted[key] \in Nat /\ counters[key].count \in Nat /\ Limit[key[1]] \in Nat
          /\ admitted[key] + Cardinality(Passing(key)) <= Limit[key[1]]
          /\ now < Ends(key) => admitted[key] + Cardinality(Passing(key)) <= counters[key].count
      BY WindowTimes, TicksAre DEF CountersHold, LimiterTypes
    <2>3. Passing(key)' \subseteq Passing(key) \ {w}
      BY <1>1 DEF Passing
    <2>4. Cardinality(Passing(key)') <= Cardinality(Passing(key)) /\ Cardinality(Passing(key)') \in Nat
      BY <2>1, <2>3, NoMore
    <2>5. CASE admitted'[key] = admitted[key]
      BY <2>1, <2>2, <2>4, <2>5
    <2>6. CASE admitted'[key] # admitted[key]
      <3>1. admitted'[key] = admitted[key] + 1 /\ w \in Passing(key)
        BY <2>2, <2>6 DEF LimiterTypes
      <3>2. Cardinality(Passing(key)') + 1 <= Cardinality(Passing(key))
        BY <2>1, <2>3, <3>1, OneLess
      <3>. QED  BY <2>1, <2>2, <2>4, <3>1, <3>2
    <2>. QED  BY <2>5, <2>6
  <1>9. ASSUME NEW key \in Windows
        PROVE  counters[key].count + Cardinality(Sending(key)') + Cardinality(Owing(key)') <= made[key]
    <2>1. IsFiniteSet(Owing(key)) /\ IsFiniteSet(Sending(key))
          /\ Cardinality(Sending(key)) \in Nat /\ Cardinality(Owing(key)) \in Nat
      BY SetsOfCalls DEF LimiterTypes
    <2>2. counters[key].count \in Nat /\ made[key] \in Nat
          /\ counters[key].count + Cardinality(Sending(key)) + Cardinality(Owing(key)) <= made[key]
      BY DEF CountsAreMade, LimiterTypes
    <2>3. Sending(key)' \subseteq Sending(key) \ {w}
      BY <1>1 DEF Sending
    <2>4. Cardinality(Sending(key)') <= Cardinality(Sending(key)) /\ Cardinality(Sending(key)') \in Nat
      BY <2>1, <2>3, NoMore
    <2>5. CASE Owing(key)' \subseteq Owing(key)
      <3>1. Cardinality(Owing(key)') <= Cardinality(Owing(key)) /\ Cardinality(Owing(key)') \in Nat
        BY <2>1, <2>5, NoMore
      <3>. QED  BY <2>1, <2>2, <2>4, <3>1
    <2>6. CASE ~(Owing(key)' \subseteq Owing(key))
      <3>1. w \in Sending(key) /\ Owing(key)' \subseteq Owing(key) \cup {limitCall[w].keys}
        BY <2>6 DEF Owing, Sending
      <3>2. Cardinality(Sending(key)') + 1 <= Cardinality(Sending(key))
        BY <2>1, <2>3, <3>1, OneLess
      <3>3. Cardinality(Owing(key)') <= Cardinality(Owing(key)) + 1 /\ Cardinality(Owing(key)') \in Nat
        BY <2>1, <3>1, OneMore
      <3>. QED  BY <2>1, <2>2, <2>4, <3>2, <3>3
    <2>. QED  BY <2>5, <2>6
  <1>10. CountsAreMade'
    BY <1>3, <1>9 DEF CountsAreMade, Windows, Latest
  <1>. QED  BY <1>3, <1>6, <1>7, <1>8, <1>10

LEMMA DecideStep == ASSUME LimiterInv, NEW w \in LimitWorkers, Decide(w) PROVE LimiterInv'
  <1>. USE DEF LimiterInv
  <1>1. /\ limitCall[w] \in LimitCalls /\ limitCall[w].stage = "counted" /\ limitCall[w].keys = Named(w)
        /\ UNCHANGED <<now, counters, late, made>>
    BY DEF Decide, LimiterTypes, CallsName
  <1>2. limitCall[w].counts \in [Kinds -> Nat] /\ limitCall[w].keys \in SUBSET Windows
    BY <1>1 DEF LimitCalls
  <1>3. IdleCall \in LimitCalls /\ IdleCall.stage = "idle"
    BY DEF IdleCall, LimitCalls
  <1>4. CASE Allowed(limitCall[w].counts)
    <2>1. /\ admitted' = [key \in Windows |-> admitted[key] + IF key \in limitCall[w].keys THEN 1 ELSE 0]
          /\ limitCall' = [limitCall EXCEPT ![w] = IdleCall]
      BY <1>4 DEF Decide, Admit
    <2>2. \A key \in limitCall[w].keys : w \in Passing(key)
      BY <1>1, <1>2, <1>4, WindowTimes DEF Allowed, Passing
    <2>. QED  BY <1>1, <1>3, <2>1, <2>2, CallEnds
  <1>5. CASE ~Allowed(limitCall[w].counts)
    <2>1. PICK call : call = [IdleCall EXCEPT !.stage = "refused", !.keys = limitCall[w].keys]
      OBVIOUS
    <2>2. limitCall' = [limitCall EXCEPT ![w] = call] /\ UNCHANGED admitted
      BY <1>5, <2>1 DEF Decide, Refuse
    <2>3. call \in LimitCalls /\ call.stage = "refused" /\ call.keys = limitCall[w].keys
      BY <1>2, <2>1 DEF IdleCall, LimitCalls
    <2>4. PICK kind \in Kinds : ~(limitCall[w].counts[kind] <= Limit[kind])
      BY <1>5 DEF Allowed
    <2>5. PICK key \in Named(w) : key[1] = kind
      BY NamedWindows DEF LimiterTypes
    <2>6. key \in Windows /\ limitCall[w].counts[kind] <= made[key]
      BY <1>1, <1>2, <2>5 DEF CountsAreMade
    <2>7. made[key] \in Nat /\ limitCall[w].counts[kind] \in Nat /\ Limit[kind] \in Nat
      BY <1>2, <2>6, TicksAre DEF LimiterTypes
    <2>8. made[key] > Limit[key[1]]
      BY <2>4, <2>5, <2>6, <2>7
    <2>9. \E other \in call.keys : made[other] > Limit[other[1]]
      BY <1>1, <2>3, <2>5, <2>8
    <2>. QED  BY <1>1, <2>2, <2>3, <2>9, CallEnds
  <1>. QED  BY <1>4, <1>5

LEMMA GiveUpStep == ASSUME LimiterInv, NEW w \in LimitWorkers, GiveUpOnLimit(w) \/ Respond(w) PROVE LimiterInv'
  <1>. USE DEF LimiterInv
  <1>1. limitCall[w] \in LimitCalls /\ limitCall[w].keys \in SUBSET Windows /\ UNCHANGED <<now, counters, made>>
    BY DEF GiveUpOnLimit, Respond, LimiterTypes, LimitCalls
  <1>2. IdleCall \in LimitCalls /\ IdleCall.stage = "idle"
    BY DEF IdleCall, LimitCalls
  <1>3. CASE Respond(w)
    <2>1. UNCHANGED <<late, admitted>> /\ limitCall' = [limitCall EXCEPT ![w] = IdleCall]
      BY <1>3 DEF Respond
    <2>. QED  BY <1>1, <1>2, <2>1, CallEnds
  <1>4. CASE GiveUpOnLimit(w)
    <2>1. \/ late' = late
          \/ limitCall[w].stage = "sent" /\ late' = late \cup {limitCall[w].keys}
      BY <1>4 DEF GiveUpOnLimit
    <2>2. CASE FailsOpen
      <3>1. /\ admitted' = [key \in Windows |-> admitted[key] + IF key \in limitCall[w].keys THEN 1 ELSE 0]
            /\ limitCall' = [limitCall EXCEPT ![w] = IdleCall]
        BY <1>4, <2>2 DEF GiveUpOnLimit, Admit
      <3>. QED  BY <1>1, <1>2, <2>1, <2>2, <3>1, CallEnds
    <2>3. CASE ~FailsOpen
      <3>1. PICK call : call = [IdleCall EXCEPT !.stage = "unavailable", !.keys = limitCall[w].keys]
        OBVIOUS
      <3>2. limitCall' = [limitCall EXCEPT ![w] = call] /\ UNCHANGED admitted
        BY <1>4, <2>3, <3>1 DEF GiveUpOnLimit, Refuse
      <3>3. call \in LimitCalls /\ call.stage = "unavailable"
        BY <1>1, <3>1 DEF IdleCall, LimitCalls
      <3>. QED  BY <1>1, <2>1, <3>2, <3>3, CallEnds
    <2>. QED  BY <2>2, <2>3
  <1>. QED  BY <1>3, <1>4

LEMMA LimiterTickStep == LimiterInv /\ LimiterTick => LimiterInv'
  <1>. SUFFICES ASSUME LimiterInv, LimiterTick PROVE LimiterInv'
    OBVIOUS
  <1>. USE DEF LimiterInv
  <1>1. /\ now < MaxLimitTime /\ now' = now + 1
        /\ \A w \in LimitWorkers : limitCall[w].stage \notin {"sent", "counted"}
        /\ UNCHANGED <<counters, limitCall, late, made, admitted>>
    BY DEF LimiterTick
  <1>2. now \in Nat /\ now' \in 0..MaxLimitTime
    BY <1>1, LimiterAssumption DEF LimiterTypes
  <1>3. LimiterTypes'
    BY <1>1, <1>2 DEF LimiterTypes
  <1>4. CallsName'
    <2>1. ASSUME NEW keys \in late, NEW key \in keys PROVE Starts(key) <= now' + MinuteTicks
      <3>1. key \in Windows /\ Starts(key) \in Nat
        BY WindowTimes DEF LimiterTypes
      <3>2. Starts(key) <= now + MinuteTicks
        BY DEF CallsName
      <3>. QED  BY <1>1, <1>2, <3>1, <3>2, LimiterAssumption
    <2>. QED  BY <1>1, <2>1 DEF CallsName, Starts
  <1>5. CountersLast' /\ RefusedRightly'
    BY <1>1 DEF CountersLast, RefusedRightly, Ends
  <1>6. \A key \in Windows : Passing(key)' = Passing(key) /\ Sending(key)' = Sending(key) /\ Owing(key)' = Owing(key)
    BY <1>1 DEF Passing, Sending, Owing
  <1>7. CountersHold'
    <2>1. \A key \in Windows : now' < Ends(key) => now < Ends(key)
      BY <1>1, <1>2, WindowTimes
    <2>. QED  BY <1>1, <1>6, <2>1 DEF CountersHold, Windows, Latest, Ends
  <1>8. CountsAreMade'
    BY <1>1, <1>6 DEF CountsAreMade, Windows, Latest
  <1>. QED  BY <1>3, <1>4, <1>5, <1>7, <1>8

LEMMA LimiterStep == LimiterInv /\ [LimiterNext]_limiterVars => LimiterInv'
  <1>. SUFFICES ASSUME LimiterInv, [LimiterNext]_limiterVars PROVE LimiterInv'
    OBVIOUS
  <1>1. CASE UNCHANGED limiterVars
    <2>1. UNCHANGED <<now, counters, limitCall, late, made, admitted>>
      BY <1>1 DEF limiterVars
    <2>2. \A key : Passing(key)' = Passing(key) /\ Sending(key)' = Sending(key) /\ Owing(key)' = Owing(key)
      BY <2>1 DEF Passing, Sending, Owing
    <2>. QED  BY <2>1, <2>2 DEF LimiterInv, LimiterTypes, CallsName, CountersLast, CountersHold, CountsAreMade,
                               RefusedRightly, Named, Windows, Latest, Starts, Ends
  <1>2. CASE LimiterNext
    BY <1>2, LimiterTickStep, CountLateStep, RequestStep, CountStep, DecideStep, GiveUpStep DEF LimiterNext
  <1>. QED  BY <1>1, <1>2

(* No window lets in more than its limit unless the limiter fails open,    *)
(* and a 429 is only given to a client that has asked too often.           *)
THEOREM LimitsHold == LimiterSpec => []LimitsAreKept
  <1>1. LimiterInv => LimitsAreKept
    <2>. SUFFICES ASSUME LimiterInv PROVE LimitsAreKept
      OBVIOUS
    <2>1. ASSUME ~FailsOpen, NEW key \in Windows PROVE admitted[key] <= Limit[key[1]]
      <3>1. admitted[key] \in Nat /\ Cardinality(Passing(key)) \in Nat /\ Limit[key[1]] \in Nat
        BY SetsOfCalls, WindowTimes, TicksAre DEF LimiterInv, LimiterTypes
      <3>2. admitted[key] + Cardinality(Passing(key)) <= Limit[key[1]]
        BY <2>1 DEF LimiterInv, CountersHold
      <3>. QED  BY <3>1, <3>2
    <2>. QED  BY <2>1 DEF LimiterInv, LimitsAreKept, RefusedRightly
  <1>. QED  BY <1>1, LimiterStart, LimiterStep, PTL DEF LimiterSpec

(***************************************************************************)
(* The pool of keys                                                        *)
(***************************************************************************)

(* KeysAreSpared, for any numbers of calls, keys and models, any intervals *)
(* and rests.  What a call finds when it takes the key it has chosen is    *)
(* what it chose it by: only the holder of the lock notes a use, and no    *)
(* rest is set while the lock is held.                                     *)

Waits     == {"acquire", "lastacquire"}
Attempted == [at : {"cascade", "retry", "last", "acquire", "lastacquire", "calling", "lastcalling", "ended"},
              model : Nat \ {0}, left : Nat, key : Keys \cup {"none"}, failed : BOOLEAN]
Pools     == [holder : PoolCalls \cup {"nobody"}, until : Int, key : Keys \cup {"none"}, forced : BOOLEAN]

PoolTypes ==
    /\ seconds \in Nat
    /\ lastUsed \in [Keys -> Int]
    /\ restUntil \in [Keys -> [Models -> Nat]]
    /\ pool \in Pools
    /\ attempt \in [PoolCalls -> Attempted]
    /\ \A c \in PoolCalls : Calling(c) => attempt[c].key \in Keys

HolderWaits == \A c \in PoolCalls : attempt[c].at \in Waits <=> pool.holder = c

ChoiceStands ==
    \A c \in PoolCalls : pool.holder = c =>
        /\ pool.key \in Keys
        /\ pool.until >= lastUsed[pool.key] + Interval
        /\ pool.forced \/ seconds >= restUntil[pool.key][ModelOf(c)]

PoolInv == PoolTypes /\ HolderWaits /\ ChoiceStands

-------------------------------------------------------------------------------
LEMMA ModelOfCall == ASSUME PoolTypes, NEW c \in PoolCalls PROVE ModelOf(c) \in Models
  <1>1. Len(Cascade) \in Nat /\ Len(Cascade) >= 1 /\ DOMAIN Cascade = 1 .. Len(Cascade)
    BY PoolAssumption
  <1>2. attempt[c].model \in Nat \ {0}
    BY DEF PoolTypes, Attempted
  <1>3. \A i \in 1 .. Len(Cascade) : Cascade[i] \in Models
    BY <1>1 DEF Models
  <1>. QED  BY <1>1, <1>2, <1>3 DEF ModelOf

(* The candidates are keys, and rest only if all do. *)
LEMMA CandidatesAre ==
    ASSUME PoolTypes, NEW m \in Models, NEW k \in Candidates(m)
    PROVE  k \in Keys /\ (Rested(m) = {} \/ k \in Rested(m))
  <1>1. CASE Rested(m) # {}
    BY <1>1 DEF Candidates, Rested
  <1>2. CASE Rested(m) = {}
    <2>1. PICK T : T = {restUntil[x][m] : x \in Keys}
      OBVIOUS
    <2>2. T \in SUBSET Nat /\ T # {}
      BY <2>1, PoolAssumption DEF PoolTypes
    <2>3. PICK n \in T : \A other \in T : n <= other
      BY <2>2, LeastOf
    <2>4. PICK x \in Keys : n = restUntil[x][m]
      BY <2>1
    <2>5. x \in Least(Keys, LAMBDA y : restUntil[y][m])
      BY <2>1, <2>3, <2>4 DEF Least
    <2>6. k = CHOOSE y \in Keys : y \in Least(Keys, LAMBDA z : restUntil[z][m])
      BY <1>2 DEF Candidates
    <2>. QED  BY <1>2, <2>5, <2>6
  <1>. QED  BY <1>1, <1>2

LEMMA PoolStart == PoolInit => PoolInv
  <1>. SUFFICES ASSUME PoolInit PROVE PoolInv
    OBVIOUS
  <1>1. Never \in Int
    BY PoolAssumption DEF Never
  <1>2. Fresh \in Attempted /\ Fresh.at = "cascade" /\ Unlocked \in Pools /\ Unlocked.holder = "nobody"
    BY DEF Fresh, Attempted, Waits, Unlocked, Pools
  <1>3. restUntil \in [Keys -> [Models -> Nat]]
    BY DEF PoolInit
  <1>4. \A c \in PoolCalls : attempt[c].at = "cascade"
    BY <1>2 DEF PoolInit
  <1>5. PoolTypes
    BY <1>1, <1>2, <1>3, <1>4 DEF PoolInit, PoolTypes, Calling
  <1>. QED  BY <1>2, <1>4, <1>5, PoolAssumption DEF PoolInv, PoolInit, HolderWaits, ChoiceStands, Waits

(* A step that moves a call on and leaves keys and lock alone. *)
LEMMA CallMoves ==
    ASSUME PoolInv, UNCHANGED <<seconds, lastUsed, pool>>, NEW c \in PoolCalls, NEW a \in Attempted,
           attempt' = [attempt EXCEPT ![c] = a], attempt[c].at \notin Waits, a.at \notin Waits,
           a.at \in {"calling", "lastcalling"} => FALSE,
           restUntil' \in [Keys -> [Models -> Nat]],
           pool.holder \in PoolCalls => restUntil' = restUntil
    PROVE  PoolInv'
  <1>. USE DEF PoolInv
  <1>1. attempt'[c] = a /\ \A d \in PoolCalls \ {c} : attempt'[d] = attempt[d]
    BY DEF PoolTypes
  <1>2. PoolTypes'
    BY <1>1 DEF PoolTypes, Calling
  <1>3. HolderWaits'
    BY <1>1 DEF HolderWaits
  <1>4. ChoiceStands'
    <2>. SUFFICES ASSUME NEW d \in PoolCalls, pool.holder = d
                  PROVE  /\ pool.key \in Keys
                         /\ pool.until >= lastUsed[pool.key] + Interval
                         /\ pool.forced \/ seconds >= restUntil'[pool.key][ModelOf(d)']
      BY DEF ChoiceStands
    <2>1. d # c
      BY DEF HolderWaits
    <2>2. ModelOf(d)' = ModelOf(d)
      BY <1>1, <2>1 DEF ModelOf
    <2>. QED  BY <2>2 DEF ChoiceStands
  <1>. QED  BY <1>2, <1>3, <1>4

LEMMA MoveSteps ==
    ASSUME PoolInv, NEW c \in PoolCalls, TryModel(c) \/ CascadeEnds(c) \/ NextModel(c) \/ Answered(c) \/ Refused(c)
    PROVE  PoolInv'
  <1>. USE DEF PoolInv
  <1>1. attempt[c] \in Attempted /\ UNCHANGED <<seconds, lastUsed, pool>>
    BY DEF PoolTypes, TryModel, CascadeEnds, NextModel, Answered, Refused
  <1>2. restUntil \in [Keys -> [Models -> Nat]]
    BY DEF PoolTypes
  <1>3. CASE TryModel(c)
    <2>1. Rested(ModelOf(c)) \subseteq Keys
      BY DEF Rested
    <2>2. Cardinality(Rested(ModelOf(c))) \in Nat
      BY <2>1, PoolAssumption, FS_Subset, FS_CardinalityType
    <2>3. PICK left \in Nat : left = IF MaxKeyRetries < Cardinality(Rested(ModelOf(c)))
                                     THEN MaxKeyRetries ELSE Cardinality(Rested(ModelOf(c)))
      BY <2>2, PoolAssumption
    <2>4. CASE Rested(ModelOf(c)) = {}
      <3>1. PICK a \in Attempted : a = [attempt[c] EXCEPT !.model = attempt[c].model + 1] /\ a.at = attempt[c].at
        <4>1. PICK m \in Nat \ {0} : m = attempt[c].model + 1
          BY <1>1 DEF Attempted
        <4>2. [attempt[c] EXCEPT !.model = m] \in Attempted
          BY <1>1 DEF Attempted
        <4>3. [attempt[c] EXCEPT !.model = m].at = attempt[c].at
          BY <1>1 DEF Attempted
        <4>. QED  BY <4>1, <4>2, <4>3
      <3>2. attempt' = [attempt EXCEPT ![c] = a] /\ attempt[c].at = "cascade" /\ restUntil' = restUntil
        BY <1>1, <1>3, <2>4, <3>1 DEF TryModel, PoolTypes, Attempted
      <3>. QED  BY <1>1, <1>2, <3>1, <3>2, CallMoves DEF Waits
    <2>5. CASE Rested(ModelOf(c)) # {}
      <3>1. PICK a \in Attempted : a = [attempt[c] EXCEPT !.at = "retry", !.left = left] /\ a.at = "retry"
        <4>1. [attempt[c] EXCEPT !.at = "retry"] \in Attempted
          BY <1>1 DEF Attempted
        <4>2. [attempt[c] EXCEPT !.at = "retry", !.left = left] \in Attempted
          BY <4>1 DEF Attempted
        <4>3. [attempt[c] EXCEPT !.at = "retry", !.left = left].at = "retry"
          BY <1>1 DEF Attempted
        <4>. QED  BY <4>2, <4>3
      <3>2. attempt' = [attempt EXCEPT ![c] = a] /\ attempt[c].at = "cascade" /\ restUntil' = restUntil
        BY <1>1, <1>3, <2>3, <2>5, <3>1 DEF TryModel, PoolTypes, Attempted
      <3>. QED  BY <1>1, <1>2, <3>1, <3>2, CallMoves DEF Waits
    <2>. QED  BY <2>4, <2>5
  <1>4. CASE CascadeEnds(c)
    <2>1. PICK a : a = [attempt[c] EXCEPT !.at = IF attempt[c].failed THEN "ended" ELSE "last"]
      OBVIOUS
    <2>2. attempt' = [attempt EXCEPT ![c] = a] /\ restUntil' = restUntil /\ attempt[c].at = "cascade"
      BY <1>4, <2>1 DEF CascadeEnds, PoolTypes
    <2>3. a \in Attempted /\ a.at \in {"ended", "last"}
      BY <1>1, <2>1 DEF Attempted
    <2>. QED  BY <1>1, <1>2, <2>2, <2>3, CallMoves DEF Waits
  <1>5. CASE NextModel(c)
    <2>1. PICK a : a = [attempt[c] EXCEPT !.at = "cascade", !.model = @ + 1]
      OBVIOUS
    <2>2. attempt' = [attempt EXCEPT ![c] = a] /\ restUntil' = restUntil /\ attempt[c].at = "retry"
      BY <1>1, <1>5, <2>1 DEF NextModel, PoolTypes, Attempted
    <2>3. a \in Attempted /\ a.at = "cascade"
      <3>1. PICK m \in Nat \ {0} : m = attempt[c].model + 1
        BY <1>1 DEF Attempted
      <3>2. a = [[attempt[c] EXCEPT !.at = "cascade"] EXCEPT !.model = m]
        BY <1>1, <2>1, <3>1 DEF Attempted
      <3>3. [attempt[c] EXCEPT !.at = "cascade"] \in Attempted
        BY <1>1 DEF Attempted
      <3>. QED  BY <3>2, <3>3 DEF Attempted
    <2>. QED  BY <1>1, <1>2, <2>2, <2>3, CallMoves DEF Waits
  <1>6. CASE Answered(c)
    <2>1. PICK a : a = [Fresh EXCEPT !.at = "ended"]
      OBVIOUS
    <2>2. attempt' = [attempt EXCEPT ![c] = a] /\ restUntil' = restUntil /\ attempt[c].at \in {"calling", "lastcalling"}
      BY <1>6, <2>1 DEF Answered, Calling
    <2>3. a = [at |-> "ended", model |-> 1, left |-> 0, key |-> "none", failed |-> FALSE]
      BY <2>1 DEF Fresh
    <2>4. a \in Attempted /\ a.at = "ended"
      BY <2>3 DEF Attempted
    <2>. QED  BY <1>1, <1>2, <2>2, <2>4, CallMoves DEF Waits
  <1>7. CASE Refused(c)
    <2>1. PICK a : a = [attempt[c] EXCEPT !.at = "retry", !.failed = TRUE]
      OBVIOUS
    <2>2. attempt' = [attempt EXCEPT ![c] = a] /\ attempt[c].at = "calling" /\ pool = Unlocked
      BY <1>1, <1>7, <2>1 DEF Refused, PoolTypes, Attempted
    <2>3. a \in Attempted /\ a.at = "retry"
      BY <1>1, <2>1 DEF Attempted
    <2>4. PICK rest \in {ShortRest, DayRest} :
            restUntil' = [restUntil EXCEPT ![attempt[c].key][ModelOf(c)] = seconds + rest]
      BY <1>7 DEF Refused
    <2>5. seconds + rest \in Nat
      BY PoolAssumption DEF PoolTypes
    <2>6. restUntil' \in [Keys -> [Models -> Nat]]
      BY <1>2, <2>4, <2>5
    <2>7. pool.holder \notin PoolCalls
      BY <2>2, PoolAssumption DEF Unlocked
    <2>. QED  BY <1>1, <2>2, <2>3, <2>6, <2>7, CallMoves DEF Waits
  <1>. QED  BY <1>3, <1>4, <1>5, <1>6, <1>7

LEMMA BeginAcquireStep == ASSUME PoolInv, NEW c \in PoolCalls, BeginAcquire(c) PROVE PoolInv'
  <1>. USE DEF PoolInv
  <1>1. attempt[c] \in Attempted /\ ModelOf(c) \in Models /\ pool = Unlocked
        /\ UNCHANGED <<seconds, lastUsed, restUntil>>
    BY ModelOfCall DEF PoolTypes, BeginAcquire
  <1>2. PICK k : /\ k \in Candidates(ModelOf(c))
                 /\ pool' = [holder |-> c, key |-> k, until |-> ReadyAt(k, ModelOf(c)),
                             forced |-> Rested(ModelOf(c)) = {}]
    BY DEF BeginAcquire, Least
  <1>3. k \in Keys /\ (Rested(ModelOf(c)) = {} \/ seconds >= restUntil[k][ModelOf(c)])
    BY <1>1, <1>2, CandidatesAre DEF Rested
  <1>4. lastUsed[k] + Interval \in Int /\ WaitForRest(k, ModelOf(c)) \in Int
    <2>1. restUntil[k][ModelOf(c)] \in Nat
      BY <1>1, <1>3 DEF PoolTypes
    <2>. QED  BY <1>3, <2>1, PoolAssumption DEF WaitForRest, PoolTypes
  <1>5. ReadyAt(k, ModelOf(c)) \in Int /\ ReadyAt(k, ModelOf(c)) >= lastUsed[k] + Interval
    BY <1>4 DEF ReadyAt, Later
  <1>6. PICK a : a = [attempt[c] EXCEPT !.left = IF attempt[c].at = "last" THEN 0 ELSE @ - 1,
                                        !.at = IF attempt[c].at = "last" THEN "lastacquire" ELSE "acquire"]
    OBVIOUS
  <1>7. attempt' = [attempt EXCEPT ![c] = a]
    BY <1>1, <1>6 DEF BeginAcquire, PoolTypes, Attempted
  <1>8. a \in Attempted /\ a.at \in Waits /\ a.model = attempt[c].model
    <2>1. PICK left \in Nat : left = IF attempt[c].at = "last" THEN 0 ELSE attempt[c].left - 1
      BY <1>1 DEF Attempted, BeginAcquire
    <2>2. PICK at \in {"acquire", "lastacquire"} : at = IF attempt[c].at = "last" THEN "lastacquire" ELSE "acquire"
      OBVIOUS
    <2>3. a = [attempt[c] EXCEPT !.left = left, !.at = at]
      BY <1>1, <1>6, <2>1, <2>2 DEF Attempted
    <2>. QED  BY <1>1, <2>3 DEF Attempted, Waits
  <1>9. attempt'[c] = a /\ \A d \in PoolCalls \ {c} : attempt'[d] = attempt[d]
    BY <1>7 DEF PoolTypes
  <1>10. /\ pool' \in Pools /\ pool'.holder = c /\ pool'.key = k /\ pool'.until = ReadyAt(k, ModelOf(c))
         /\ pool'.forced <=> Rested(ModelOf(c)) = {}
    <2>1. PICK b \in BOOLEAN : b = (Rested(ModelOf(c)) = {})
      OBVIOUS
    <2>. QED  BY <1>2, <1>3, <1>5, <2>1 DEF Pools
  <1>11. PoolTypes'
    BY <1>1, <1>7, <1>8, <1>9, <1>10 DEF PoolTypes, Calling, Waits
  <1>12. HolderWaits'
    BY <1>1, <1>8, <1>9, <1>10, PoolAssumption DEF HolderWaits, Unlocked
  <1>13. ModelOf(c)' = ModelOf(c)
    BY <1>8, <1>9 DEF ModelOf
  <1>14. ChoiceStands'
    BY <1>1, <1>3, <1>5, <1>10, <1>13 DEF ChoiceStands
  <1>. QED  BY <1>11, <1>12, <1>14

LEMMA EndAcquireStep == ASSUME PoolInv, NEW c \in PoolCalls, EndAcquire(c) PROVE PoolInv'
  <1>. USE DEF PoolInv
  <1>1. /\ attempt[c] \in Attempted /\ pool.holder = c /\ pool' = Unlocked /\ pool.key \in Keys
        /\ lastUsed' = [lastUsed EXCEPT ![pool.key] = seconds]
        /\ UNCHANGED <<seconds, restUntil>>
    BY DEF PoolTypes, EndAcquire, ChoiceStands
  <1>2. PICK a : a = [attempt[c] EXCEPT !.key = pool.key, !.at = IF @ = "acquire" THEN "calling" ELSE "lastcalling"]
    OBVIOUS
  <1>3. attempt' = [attempt EXCEPT ![c] = a]
    BY <1>1, <1>2 DEF EndAcquire, PoolTypes, Attempted
  <1>4. a \in Attempted /\ a.at \in {"calling", "lastcalling"} /\ a.key = pool.key
    BY <1>1, <1>2 DEF Attempted
  <1>5. attempt'[c] = a /\ \A d \in PoolCalls \ {c} : attempt'[d] = attempt[d]
    BY <1>3 DEF PoolTypes
  <1>6. Unlocked \in Pools /\ Unlocked.holder = "nobody"
    BY DEF Unlocked, Pools
  <1>7. seconds \in Nat /\ lastUsed' \in [Keys -> Int]
    BY <1>1 DEF PoolTypes
  <1>8. PoolTypes'
    BY <1>1, <1>3, <1>4, <1>5, <1>6, <1>7 DEF PoolTypes, Calling
  <1>9. HolderWaits'
    BY <1>1, <1>4, <1>5, <1>6, PoolAssumption DEF HolderWaits, Waits
  <1>10. ChoiceStands'
    BY <1>1, <1>6, PoolAssumption DEF ChoiceStands
  <1>. QED  BY <1>8, <1>9, <1>10

LEMMA PoolTickStep == PoolInv /\ PoolTick => PoolInv'
  <1>. SUFFICES ASSUME PoolInv, PoolTick PROVE PoolInv'
    OBVIOUS
  <1>. USE DEF PoolInv
  <1>1. seconds' = seconds + 1 /\ UNCHANGED <<lastUsed, restUntil, pool, attempt>>
    BY DEF PoolTick
  <1>2. PoolTypes'
    BY <1>1 DEF PoolTypes, Calling
  <1>3. HolderWaits'
    BY <1>1 DEF HolderWaits
  <1>4. ChoiceStands'
    <2>. SUFFICES ASSUME NEW c \in PoolCalls, pool.holder = c
                  PROVE  /\ pool.key \in Keys
                         /\ pool.until >= lastUsed[pool.key] + Interval
                         /\ pool.forced \/ seconds' >= restUntil[pool.key][ModelOf(c)]
      BY <1>1 DEF ChoiceStands, ModelOf
    <2>1. pool.key \in Keys /\ ModelOf(c) \in Models
      BY ModelOfCall DEF ChoiceStands
    <2>2. restUntil[pool.key][ModelOf(c)] \in Nat
      BY <2>1 DEF PoolTypes
    <2>. QED  BY <1>1, <2>1, <2>2 DEF ChoiceStands, PoolTypes
  <1>. QED  BY <1>2, <1>3, <1>4

LEMMA PoolStep == PoolInv /\ [PoolNext]_poolVars => PoolInv'
  <1>1. PoolInv /\ UNCHANGED poolVars => PoolInv'
    BY DEF poolVars, PoolInv, PoolTypes, HolderWaits, ChoiceStands, Calling, ModelOf
  <1>. QED  BY <1>1, MoveSteps, BeginAcquireStep, EndAcquireStep, PoolTickStep DEF PoolNext

(* A key is handed out at least Interval after its last use, whatever      *)
(* waits and competes, and at rest only if every key rests.                *)
THEOREM KeysSpared == PoolSpec => KeysAreSpared
  <1>1. ASSUME PoolInv, [PoolNext]_poolVars, NEW c \in PoolCalls, Calling(c)', ~Calling(c)
        PROVE  LET k == attempt'[c].key IN
               /\ seconds - lastUsed[k] >= Interval
               /\ pool.forced \/ seconds >= restUntil[k][ModelOf(c)]
    <2>1. ~UNCHANGED poolVars
      BY <1>1 DEF poolVars, Calling
    <2>2. attempt'[c] # attempt[c]
      BY <1>1 DEF Calling
    <2>3. PICK d \in PoolCalls : TryModel(d) \/ CascadeEnds(d) \/ NextModel(d) \/ BeginAcquire(d)
                                 \/ EndAcquire(d) \/ Answered(d) \/ Refused(d)
      BY <1>1, <2>1, <2>2 DEF PoolNext, PoolTick
    <2>4. attempt[d] \in Attempted /\ attempt \in [PoolCalls -> Attempted]
      BY <1>1 DEF PoolInv, PoolTypes
    <2>5. d = c
      BY <2>2, <2>3, <2>4 DEF TryModel, CascadeEnds, NextModel, BeginAcquire, EndAcquire, Answered, Refused
    <2>6. EndAcquire(c)
      <3>1. attempt'[c].at \in {"calling", "lastcalling"} /\ attempt[c].at \notin {"calling", "lastcalling"}
        BY <1>1 DEF Calling
      <3>2. TryModel(c) => attempt'[c].at \in {"cascade", "retry"}
        BY <2>4 DEF TryModel, Attempted
      <3>3. CascadeEnds(c) => attempt'[c].at \in {"ended", "last"}
        BY <2>4 DEF CascadeEnds, Attempted
      <3>4. NextModel(c) => attempt'[c].at = "cascade"
        BY <2>4 DEF NextModel, Attempted
      <3>5. BeginAcquire(c) => attempt'[c].at \in Waits
        BY <2>4 DEF BeginAcquire, Attempted, Waits
      <3>6. Refused(c) => attempt'[c].at = "retry"
        BY <2>4 DEF Refused, Attempted
      <3>7. ~Answered(c)
        BY <1>1 DEF Answered
      <3>. QED  BY <2>3, <2>5, <3>1, <3>2, <3>3, <3>4, <3>5, <3>6, <3>7 DEF Waits
    <2>7. attempt'[c].key = pool.key /\ pool.holder = c /\ seconds >= pool.until
      BY <2>4, <2>6 DEF EndAcquire, Attempted
    <2>8. pool.key \in Keys /\ pool.until \in Int /\ lastUsed[pool.key] \in Int /\ seconds \in Nat
      BY <1>1, <2>7 DEF PoolInv, PoolTypes, ChoiceStands, Pools
    <2>. QED  BY <1>1, <2>7, <2>8, PoolAssumption DEF PoolInv, ChoiceStands
  <1>2. PoolInv /\ [PoolNext]_poolVars =>
          [\A c \in PoolCalls :
             (Calling(c)' /\ ~Calling(c)) =>
                LET k == attempt'[c].key IN
                /\ seconds - lastUsed[k] >= Interval
                /\ pool.forced \/ seconds >= restUntil[k][ModelOf(c)]]_poolVars
    BY <1>1
  <1>. QED  BY <1>2, PoolStart, PoolStep, PTL DEF PoolSpec, KeysAreSpared

(***************************************************************************)
(* Statutory amounts                                                       *)
(***************************************************************************)

(* What was answered was answered for the question at hand. *)
AmountsInv ==
    /\ problem \in Questions
    /\ ruleReply # NoReply => ruleReply = CalculateLegalFormula(problem)
    /\ formReply # NoReply => problem.kind \in FormKinds /\ formReply = Form(problem)

(* The formulas that are written twice. *)
LEMMA SameSeverance ==
    ASSUME NEW q \in Questions, q.kind = "severance"
    PROVE  Same(CalculateLegalFormula(q).amount, Form(q).amount)
  <1>1. CalculateLegalFormula(q) = Severance(q)
    BY DEF CalculateLegalFormula
  <1>2. Form(q) = SeveranceAllowance(q)
    BY DEF Form
  <1>3. Severance(q) = SeveranceAllowance(q)
    BY DEF Severance, SeveranceAllowance, HalfYears, CalculateQualifyingWorkingYears
  <1>. QED  BY <1>1, <1>2, <1>3 DEF Same

LEMMA SameTermination ==
    ASSUME NEW q \in Questions, q.kind = "termination", q.insured, q.unworked # NotGiven
    PROVE  Same(CalculateLegalFormula(q).amount, Form(q).amount)
  <1>1. q.salary \in Nat /\ q.unworked \in Nat /\ q.notice \in Nat
    BY DEF Questions
  <1>2. CalculateLegalFormula(q) = Termination(q)
    BY DEF CalculateLegalFormula
  <1>3. Form(q) = IllegalTermination(q)
    BY DEF Form
  <1>4. PICK w \in Nat : w = 26 * (2 + q.unworked) + q.notice
    BY <1>1
  <1>5. PICK s \in Nat : s = q.salary
    BY <1>1
  <1>6. Termination(q) = Reply(s * w, 26)
    BY <1>1, <1>4, <1>5 DEF Termination, OrZero
  <1>7. IllegalTermination(q) = Reply(s * (2 * w), 52)
    <2>1. 2 * q.notice + 52 * (2 + q.unworked) + 13 * 0 = 2 * w
      BY <1>1, <1>4
    <2>2. IllegalTermination(q) = Reply(q.salary * (2 * q.notice + 52 * (2 + q.unworked) + 13 * 0), 52)
      BY DEF IllegalTermination
    <2>. QED  BY <1>5, <2>1, <2>2
  <1>8. (s * w) * 52 = (s * (2 * w)) * 26
    <2>1. PICK x \in Nat : x = s * w
      OBVIOUS
    <2>2. s * (2 * w) = 2 * x
      BY <2>1
    <2>. QED  BY <2>1, <2>2
  <1>9. Reply(s * w, 26).amount = <<s * w, 26>> /\ Reply(s * (2 * w), 52).amount = <<s * (2 * w), 52>>
    BY DEF Reply
  <1>. QED  BY <1>2, <1>3, <1>6, <1>7, <1>8, <1>9 DEF Same

LEMMA SameInterest ==
    ASSUME NEW q \in Questions, q.kind = "interest", q.rate # 0
    PROVE  Same(CalculateLegalFormula(q).amount, Form(q).amount)
  <1>1. q.rate \in Nat \cup {NotGiven}
    BY DEF Questions
  <1>2. CalculateLegalFormula(q) = Interest(q)
    BY DEF CalculateLegalFormula
  <1>3. Form(q) = OverdueInterest(q)
    BY DEF Form
  <1>4. PICK agreed : agreed = IF q.rate = NotGiven THEN 10 ELSE q.rate
    OBVIOUS
  <1>5. PICK rate : rate = IF agreed > 20 /\ ~q.commercial THEN 20 ELSE agreed
    OBVIOUS
  <1>6. LegalRate(OrZero(q.rate), q.commercial) = rate
    <2>1. (IF OrZero(q.rate) > 0 THEN OrZero(q.rate) ELSE 10) = agreed
      BY <1>1, <1>4 DEF OrZero, NotGiven
    <2>. QED  BY <1>5, <2>1 DEF LegalRate
  <1>7. Interest(q) = Reply(q.principal * rate * q.overdue, 36500)
    BY <1>6 DEF Interest
  <1>8. OverdueInterest(q) = Reply(q.principal * rate * q.overdue, 36500)
    BY <1>4, <1>5 DEF OverdueInterest
  <1>. QED  BY <1>2, <1>3, <1>7, <1>8 DEF Same

(* A little more of income is taxed with the rate of one layer. *)
LEMMA TaxGrows ==
    ASSUME NEW a \in Nat
    PROVE  /\ TaxOn(a) \in Nat
           /\ TaxOn(a + 1) - TaxOn(a) \in 0 .. 350
  <1>1. \A x \in Nat :
          /\ Layer(Brackets[1], x) = IF x <= 0   THEN 0 ELSE 50  * (IF x > 50  THEN 50  ELSE x)
          /\ Layer(Brackets[2], x) = IF x <= 50  THEN 0 ELSE 100 * (IF x > 100 THEN 50  ELSE x - 50)
          /\ Layer(Brackets[3], x) = IF x <= 100 THEN 0 ELSE 150 * (IF x > 180 THEN 80  ELSE x - 100)
          /\ Layer(Brackets[4], x) = IF x <= 180 THEN 0 ELSE 200 * (IF x > 320 THEN 140 ELSE x - 180)
          /\ Layer(Brackets[5], x) = IF x <= 320 THEN 0 ELSE 250 * (IF x > 520 THEN 200 ELSE x - 320)
          /\ Layer(Brackets[6], x) = IF x <= 520 THEN 0 ELSE 300 * (IF x > 800 THEN 280 ELSE x - 520)
          /\ Layer(Brackets[7], x) = IF x <= 800 THEN 0 ELSE 350 * (x - 800)
    BY DEF Layer, Brackets
  <1>2. \A x \in Nat : TaxOn(x) =
            (IF x <= 0   THEN 0 ELSE 50  * (IF x > 50  THEN 50  ELSE x))
          + (IF x <= 50  THEN 0 ELSE 100 * (IF x > 100 THEN 50  ELSE x - 50))
          + (IF x <= 100 THEN 0 ELSE 150 * (IF x > 180 THEN 80  ELSE x - 100))
          + (IF x <= 180 THEN 0 ELSE 200 * (IF x > 320 THEN 140 ELSE x - 180))
          + (IF x <= 320 THEN 0 ELSE 250 * (IF x > 520 THEN 200 ELSE x - 320))
          + (IF x <= 520 THEN 0 ELSE 300 * (IF x > 800 THEN 280 ELSE x - 520))
          + (IF x <= 800 THEN 0 ELSE 350 * (x - 800))
    BY <1>1 DEF TaxOn
  <1>3. TaxOn(a) \in Nat
    BY <1>2
  <1>4. TaxOn(a + 1) - TaxOn(a) \in 0 .. 350
    BY <1>2
  <1>. QED  BY <1>3, <1>4

LEMMA TaxIsFair ==
    ASSUME NEW q \in Questions, q.kind = "income"
    PROVE  TaxOn(Assessable([q EXCEPT !.income = q.income + 1])) - CalculateLegalFormula(q).amount[1] \in 0 .. 350
  <1>1. q.income \in Nat /\ q.dependents \in Nat /\ q.insurance \in Nat /\ DOMAIN q = {"kind", "income", "dependents", "insurance"}
    BY DEF Questions
  <1>2. PICK more : more = [q EXCEPT !.income = q.income + 1]
    OBVIOUS
  <1>3. more.income = q.income + 1 /\ more.dependents = q.dependents /\ more.insurance = q.insurance
    BY <1>1, <1>2
  <1>4. PICK d \in Nat : d = 110 + 44 * q.dependents + q.insurance
    BY <1>1
  <1>5. PICK a \in Nat : a = Assessable(q) /\ a = IF q.income > d THEN q.income - d ELSE 0
    <2>1. Assessable(q) = IF q.income > d THEN q.income - d ELSE 0
      BY <1>4 DEF Assessable
    <2>2. Assessable(q) \in Nat
      BY <1>1, <2>1
    <2>. QED  BY <2>1, <2>2
  <1>6. Assessable(more) \in {a, a + 1}
    <2>1. PICK e : e = 110 + 44 * more.dependents + more.insurance
      OBVIOUS
    <2>2. e = d
      BY <1>3, <1>4, <2>1
    <2>3. Assessable(more) = IF more.income > e THEN more.income - e ELSE 0
      BY <2>1 DEF Assessable
    <2>4. PICK i \in Nat : i = q.income
      BY <1>1
    <2>5. more.income = i + 1
      BY <1>3, <2>4
    <2>6. Assessable(more) = IF i + 1 > d THEN (i + 1) - d ELSE 0
      BY <2>2, <2>3, <2>5
    <2>7. a = IF i > d THEN i - d ELSE 0
      BY <1>5, <2>4
    <2>. QED  BY <2>6, <2>7
  <1>7. CalculateLegalFormula(q).amount[1] = TaxOn(a)
    <2>1. CalculateLegalFormula(q) = IncomeTax(q)
      BY DEF CalculateLegalFormula
    <2>2. IncomeTax(q) = Reply(TaxOn(a), 1000)
      BY <1>5 DEF IncomeTax
    <2>. QED  BY <2>1, <2>2 DEF Reply
  <1>8. TaxOn(Assessable(more)) - TaxOn(a) \in 0 .. 350
    <2>1. TaxOn(a) \in Nat /\ TaxOn(a) - TaxOn(a) = 0
      BY TaxGrows
    <2>. QED  BY <1>6, <2>1, TaxGrows
  <1>. QED  BY <1>2, <1>7, <1>8

-------------------------------------------------------------------------------
(* The row of a fee table that a claim falls into is the first that goes   *)
(* far enough.                                                             *)
RowOf(table, claim) == table[Min({i \in DOMAIN table : claim <= table[i].upTo \/ table[i].upTo = 0})]

LEMMA FirstRow ==
    ASSUME NEW table, DOMAIN table \subseteq Int, NEW claim, NEW k \in DOMAIN table,
           claim <= table[k].upTo \/ table[k].upTo = 0,
           \A i \in DOMAIN table : i < k => ~(claim <= table[i].upTo \/ table[i].upTo = 0)
    PROVE  RowOf(table, claim) = table[k]
  <1>1. PICK S : S = {i \in DOMAIN table : claim <= table[i].upTo \/ table[i].upTo = 0}
    OBVIOUS
  <1>2. k \in S /\ \A i \in S : i \in Int /\ k <= i
    BY <1>1
  <1>3. PICK m : m = Min(S)
    OBVIOUS
  <1>4. m \in S /\ \A i \in S : m <= i
    <2>1. \E x \in S : \A y \in S : x <= y
      BY <1>2
    <2>. QED  BY <1>3, <2>1 DEF Min
  <1>5. m = k
    <2>1. m \in Int /\ k \in Int /\ k <= m /\ m <= k
      BY <1>2, <1>4
    <2>. QED  BY <2>1
  <1>. QED  BY <1>1, <1>3, <1>5 DEF RowOf

(* One row of a table gives the fee of its claims; in the others the layers *)
(* below it are full.                                                       *)
LEMMA CommercialFee ==
    ASSUME NEW q, q.claim \in Nat, q.claim > 0, q.commercial, q.monetary
    PROVE  CourtFee(q) = Reply(FeeByLayers(q), 1000)
  <1>1. PICK c \in Nat : c = q.claim /\ c > 0
    OBVIOUS
  <1>2. PICK t : t = CommercialFees
    OBVIOUS
  <1>3. DOMAIN t = 1 .. 5
    BY <1>2 DEF CommercialFees
  <1>4. /\ t[1].upTo = 600 /\ t[1].fixed = 30 /\ t[1].over = 0 /\ t[1].rate = 0
        /\ t[2].upTo = 4000 /\ t[2].fixed = 0 /\ t[2].over = 0 /\ t[2].rate = 50
        /\ t[3].upTo = 20000 /\ t[3].fixed = 200 /\ t[3].over = 4000 /\ t[3].rate = 40
        /\ t[4].upTo = 40000 /\ t[4].fixed = 840 /\ t[4].over = 20000 /\ t[4].rate = 30
        /\ t[5].upTo = 0 /\ t[5].fixed = 1440 /\ t[5].over = 40000 /\ t[5].rate = 1
    BY <1>2 DEF CommercialFees, Row
  <1>5. PICK l2 : l2 = LayerFee(t[2], c) /\ l2 = IF c <= 0 THEN 0 ELSE 50 * ((IF c < 4000 THEN c ELSE 4000) - 0)
    BY <1>1, <1>4 DEF LayerFee
  <1>6. PICK l3 : l3 = LayerFee(t[3], c) /\ l3 = IF c <= 4000 THEN 0 ELSE 40 * ((IF c < 20000 THEN c ELSE 20000) - 4000)
    BY <1>1, <1>4 DEF LayerFee
  <1>7. PICK l4 : l4 = LayerFee(t[4], c) /\ l4 = IF c <= 20000 THEN 0 ELSE 30 * ((IF c < 40000 THEN c ELSE 40000) - 20000)
    BY <1>1, <1>4 DEF LayerFee
  <1>8. PICK l5 : l5 = LayerFee(t[5], c) /\ l5 = IF c <= 40000 THEN 0 ELSE 1 * (c - 40000)
    BY <1>1, <1>4 DEF LayerFee
  <1>9. PICK layered : layered = l2 + l3 + l4 + l5
    OBVIOUS
  <1>10. FeeByLayers(q) = IF layered > 30000 THEN layered ELSE 30000
    <2>1. PICK sum : sum = LayerFee(t[2], c) + LayerFee(t[3], c) + LayerFee(t[4], c) + LayerFee(t[5], c) + 0
      OBVIOUS
    <2>2. sum = layered
      <3>1. sum = l2 + l3 + l4 + l5 + 0
        <4>1. LayerFee(t[2], c) = l2 /\ LayerFee(t[3], c) = l3 /\ LayerFee(t[4], c) = l4 /\ LayerFee(t[5], c) = l5
          BY <1>5, <1>6, <1>7, <1>8
        <4>. QED  BY <2>1, <4>1
      <3>2. l2 \in Int /\ l3 \in Int /\ l4 \in Int /\ l5 \in Int
        BY <1>5, <1>6, <1>7, <1>8
      <3>. QED  BY <1>9, <3>1, <3>2
    <2>3. FeeByLayers(q) = IF sum > 1000 * 30 THEN sum ELSE 1000 * 30
      <3>1. LayerFee(CommercialFees[2], q.claim) + LayerFee(CommercialFees[3], q.claim) + LayerFee(CommercialFees[4], q.claim)
              + LayerFee(CommercialFees[5], q.claim) + 0 = sum
        BY <1>1, <1>2, <2>1
      <3>. QED  BY <3>1 DEF FeeByLayers
    <2>. QED  BY <2>2, <2>3
  <1>11. PICK r : r = RowOf(t, c)
    OBVIOUS
  <1>12. CourtFee(q) = Reply(1000 * r.fixed + (c - r.over) * r.rate, 1000)
    BY <1>1, <1>2, <1>11 DEF CourtFee, RowOf
  <1>13. 1000 * r.fixed + (c - r.over) * r.rate = IF layered > 30000 THEN layered ELSE 30000
    <2>1. CASE c <= 600
      <3>1. r = t[1]
        <4>1. 1 \in DOMAIN t /\ DOMAIN t \subseteq Int
          BY <1>3
        <4>2. c <= t[1].upTo \/ t[1].upTo = 0
          BY <1>4, <2>1
        <4>3. \A i \in DOMAIN t : i < 1 => ~(c <= t[i].upTo \/ t[i].upTo = 0)
          BY <1>3, <1>4, <2>1
        <4>. QED  BY <1>11, <4>1, <4>2, <4>3, FirstRow
      <3>. QED  BY <1>1, <1>4, <1>5, <1>6, <1>7, <1>8, <1>9, <2>1, <3>1
    <2>2. CASE c > 600 /\ c <= 4000
      <3>1. r = t[2]
        <4>1. 2 \in DOMAIN t /\ DOMAIN t \subseteq Int
          BY <1>3
        <4>2. c <= t[2].upTo \/ t[2].upTo = 0
          BY <1>4, <2>2
        <4>3. \A i \in DOMAIN t : i < 2 => ~(c <= t[i].upTo \/ t[i].upTo = 0)
          BY <1>3, <1>4, <2>2
        <4>. QED  BY <1>11, <4>1, <4>2, <4>3, FirstRow
      <3>. QED  BY <1>1, <1>4, <1>5, <1>6, <1>7, <1>8, <1>9, <2>2, <3>1
    <2>3. CASE c > 4000 /\ c <= 20000
      <3>1. r = t[3]
        <4>1. 3 \in DOMAIN t /\ DOMAIN t \subseteq Int
          BY <1>3
        <4>2. c <= t[3].upTo \/ t[3].upTo = 0
          BY <1>4, <2>3
        <4>3. \A i \in DOMAIN t : i < 3 => ~(c <= t[i].upTo \/ t[i].upTo = 0)
          BY <1>3, <1>4, <2>3
        <4>. QED  BY <1>11, <4>1, <4>2, <4>3, FirstRow
      <3>. QED  BY <1>1, <1>4, <1>5, <1>6, <1>7, <1>8, <1>9, <2>3, <3>1
    <2>4. CASE c > 20000 /\ c <= 40000
      <3>1. r = t[4]
        <4>1. 4 \in DOMAIN t /\ DOMAIN t \subseteq Int
          BY <1>3
        <4>2. c <= t[4].upTo \/ t[4].upTo = 0
          BY <1>4, <2>4
        <4>3. \A i \in DOMAIN t : i < 4 => ~(c <= t[i].upTo \/ t[i].upTo = 0)
          BY <1>3, <1>4, <2>4
        <4>. QED  BY <1>11, <4>1, <4>2, <4>3, FirstRow
      <3>. QED  BY <1>1, <1>4, <1>5, <1>6, <1>7, <1>8, <1>9, <2>4, <3>1
    <2>5. CASE c > 40000
      <3>1. r = t[5]
        <4>1. 5 \in DOMAIN t /\ DOMAIN t \subseteq Int
          BY <1>3
        <4>2. c <= t[5].upTo \/ t[5].upTo = 0
          BY <1>4, <2>5
        <4>3. \A i \in DOMAIN t : i < 5 => ~(c <= t[i].upTo \/ t[i].upTo = 0)
          BY <1>3, <1>4, <2>5
        <4>. QED  BY <1>11, <4>1, <4>2, <4>3, FirstRow
      <3>. QED  BY <1>1, <1>4, <1>5, <1>6, <1>7, <1>8, <1>9, <2>5, <3>1
    <2>. QED  BY <1>1, <2>1, <2>2, <2>3, <2>4, <2>5
  <1>. QED  BY <1>10, <1>12, <1>13

LEMMA CivilFee ==
    ASSUME NEW q, q.claim \in Nat, q.claim > 0, ~q.commercial, q.monetary
    PROVE  CourtFee(q) = Reply(FeeByLayers(q), 1000)
  <1>1. PICK c \in Nat : c = q.claim /\ c > 0
    OBVIOUS
  <1>2. PICK t : t = CivilFees
    OBVIOUS
  <1>3. DOMAIN t = 1 .. 6
    BY <1>2 DEF CivilFees
  <1>4. /\ t[1].upTo = 60 /\ t[1].fixed = 3 /\ t[1].over = 0 /\ t[1].rate = 0
        /\ t[2].upTo = 4000 /\ t[2].fixed = 0 /\ t[2].over = 0 /\ t[2].rate = 50
        /\ t[3].upTo = 8000 /\ t[3].fixed = 200 /\ t[3].over = 4000 /\ t[3].rate = 40
        /\ t[4].upTo = 20000 /\ t[4].fixed = 360 /\ t[4].over = 8000 /\ t[4].rate = 30
        /\ t[5].upTo = 40000 /\ t[5].fixed = 720 /\ t[5].over = 20000 /\ t[5].rate = 20
        /\ t[6].upTo = 0 /\ t[6].fixed = 1120 /\ t[6].over = 40000 /\ t[6].rate = 1
    BY <1>2 DEF CivilFees, Row
  <1>5. PICK l2 : l2 = LayerFee(t[2], c) /\ l2 = IF c <= 0 THEN 0 ELSE 50 * ((IF c < 4000 THEN c ELSE 4000) - 0)
    BY <1>1, <1>4 DEF LayerFee
  <1>6. PICK l3 : l3 = LayerFee(t[3], c) /\ l3 = IF c <= 4000 THEN 0 ELSE 40 * ((IF c < 8000 THEN c ELSE 8000) - 4000)
    BY <1>1, <1>4 DEF LayerFee
  <1>7. PICK l4 : l4 = LayerFee(t[4], c) /\ l4 = IF c <= 8000 THEN 0 ELSE 30 * ((IF c < 20000 THEN c ELSE 20000) - 8000)
    BY <1>1, <1>4 DEF LayerFee
  <1>8. PICK l5 : l5 = LayerFee(t[5], c) /\ l5 = IF c <= 20000 THEN 0 ELSE 20 * ((IF c < 40000 THEN c ELSE 40000) - 20000)
    BY <1>1, <1>4 DEF LayerFee
  <1>9. PICK l6 : l6 = LayerFee(t[6], c) /\ l6 = IF c <= 40000 THEN 0 ELSE 1 * (c - 40000)
    BY <1>1, <1>4 DEF LayerFee
  <1>10. PICK layered : layered = l2 + l3 + l4 + l5 + l6
    OBVIOUS
  <1>11. FeeByLayers(q) = IF layered > 3000 THEN layered ELSE 3000
    <2>1. PICK sum : sum = LayerFee(t[2], c) + LayerFee(t[3], c) + LayerFee(t[4], c) + LayerFee(t[5], c) + LayerFee(t[6], c)
      OBVIOUS
    <2>2. sum = layered
      <3>1. LayerFee(t[2], c) = l2 /\ LayerFee(t[3], c) = l3 /\ LayerFee(t[4], c) = l4 /\ LayerFee(t[5], c) = l5
            /\ LayerFee(t[6], c) = l6
        BY <1>5, <1>6, <1>7, <1>8, <1>9
      <3>. QED  BY <1>10, <2>1, <3>1
    <2>3. FeeByLayers(q) = IF sum > 1000 * 3 THEN sum ELSE 1000 * 3
      <3>1. LayerFee(CivilFees[2], q.claim) + LayerFee(CivilFees[3], q.claim) + LayerFee(CivilFees[4], q.claim)
              + LayerFee(CivilFees[5], q.claim) + LayerFee(CivilFees[6], q.claim) = sum
        BY <1>1, <1>2, <2>1
      <3>. QED  BY <3>1 DEF FeeByLayers
    <2>. QED  BY <2>2, <2>3
  <1>12. PICK r : r = RowOf(t, c)
    OBVIOUS
  <1>13. CourtFee(q) = Reply(1000 * r.fixed + (c - r.over) * r.rate, 1000)
    BY <1>1, <1>2, <1>12 DEF CourtFee, RowOf
  <1>14. 1000 * r.fixed + (c - r.over) * r.rate = IF layered > 3000 THEN layered ELSE 3000
    <2>1. CASE c <= 60
      <3>1. r = t[1]
        <4>1. 1 \in DOMAIN t /\ DOMAIN t \subseteq Int
          BY <1>3
        <4>2. c <= t[1].upTo \/ t[1].upTo = 0
          BY <1>4, <2>1
        <4>3. \A i \in DOMAIN t : i < 1 => ~(c <= t[i].upTo \/ t[i].upTo = 0)
          BY <1>3, <1>4, <2>1
        <4>. QED  BY <1>12, <4>1, <4>2, <4>3, FirstRow
      <3>. QED  BY <1>1, <1>4, <1>5, <1>6, <1>7, <1>8, <1>9, <1>10, <2>1, <3>1
    <2>2. CASE c > 60 /\ c <= 4000
      <3>1. r = t[2]
        <4>1. 2 \in DOMAIN t /\ DOMAIN t \subseteq Int
          BY <1>3
        <4>2. c <= t[2].upTo \/ t[2].upTo = 0
          BY <1>4, <2>2
        <4>3. \A i \in DOMAIN t : i < 2 => ~(c <= t[i].upTo \/ t[i].upTo = 0)
          BY <1>3, <1>4, <2>2
        <4>. QED  BY <1>12, <4>1, <4>2, <4>3, FirstRow
      <3>. QED  BY <1>1, <1>4, <1>5, <1>6, <1>7, <1>8, <1>9, <1>10, <2>2, <3>1
    <2>3. CASE c > 4000 /\ c <= 8000
      <3>1. r = t[3]
        <4>1. 3 \in DOMAIN t /\ DOMAIN t \subseteq Int
          BY <1>3
        <4>2. c <= t[3].upTo \/ t[3].upTo = 0
          BY <1>4, <2>3
        <4>3. \A i \in DOMAIN t : i < 3 => ~(c <= t[i].upTo \/ t[i].upTo = 0)
          BY <1>3, <1>4, <2>3
        <4>. QED  BY <1>12, <4>1, <4>2, <4>3, FirstRow
      <3>. QED  BY <1>1, <1>4, <1>5, <1>6, <1>7, <1>8, <1>9, <1>10, <2>3, <3>1
    <2>4. CASE c > 8000 /\ c <= 20000
      <3>1. r = t[4]
        <4>1. 4 \in DOMAIN t /\ DOMAIN t \subseteq Int
          BY <1>3
        <4>2. c <= t[4].upTo \/ t[4].upTo = 0
          BY <1>4, <2>4
        <4>3. \A i \in DOMAIN t : i < 4 => ~(c <= t[i].upTo \/ t[i].upTo = 0)
          BY <1>3, <1>4, <2>4
        <4>. QED  BY <1>12, <4>1, <4>2, <4>3, FirstRow
      <3>. QED  BY <1>1, <1>4, <1>5, <1>6, <1>7, <1>8, <1>9, <1>10, <2>4, <3>1
    <2>5. CASE c > 20000 /\ c <= 40000
      <3>1. r = t[5]
        <4>1. 5 \in DOMAIN t /\ DOMAIN t \subseteq Int
          BY <1>3
        <4>2. c <= t[5].upTo \/ t[5].upTo = 0
          BY <1>4, <2>5
        <4>3. \A i \in DOMAIN t : i < 5 => ~(c <= t[i].upTo \/ t[i].upTo = 0)
          BY <1>3, <1>4, <2>5
        <4>. QED  BY <1>12, <4>1, <4>2, <4>3, FirstRow
      <3>. QED  BY <1>1, <1>4, <1>5, <1>6, <1>7, <1>8, <1>9, <1>10, <2>5, <3>1
    <2>6. CASE c > 40000
      <3>1. r = t[6]
        <4>1. 6 \in DOMAIN t /\ DOMAIN t \subseteq Int
          BY <1>3
        <4>2. c <= t[6].upTo \/ t[6].upTo = 0
          BY <1>4, <2>6
        <4>3. \A i \in DOMAIN t : i < 6 => ~(c <= t[i].upTo \/ t[i].upTo = 0)
          BY <1>3, <1>4, <2>6
        <4>. QED  BY <1>12, <4>1, <4>2, <4>3, FirstRow
      <3>. QED  BY <1>1, <1>4, <1>5, <1>6, <1>7, <1>8, <1>9, <1>10, <2>6, <3>1
    <2>. QED  BY <1>1, <2>1, <2>2, <2>3, <2>4, <2>5, <2>6
  <1>. QED  BY <1>11, <1>13, <1>14

LEMMA FeeIsLayered ==
    ASSUME NEW q \in Questions, q.kind = "court", q.monetary, q.claim > 0
    PROVE  Same(Form(q).amount, <<FeeByLayers(q), 1000>>)
  <1>1. q.claim \in Nat /\ q.commercial \in BOOLEAN
    BY DEF Questions
  <1>2. Form(q) = CourtFee(q)
    BY DEF Form
  <1>3. CourtFee(q) = Reply(FeeByLayers(q), 1000)
    <2>1. CASE q.commercial
      BY <1>1, <2>1, CommercialFee
    <2>2. CASE ~q.commercial
      BY <1>1, <2>2, CivilFee
    <2>. QED  BY <2>1, <2>2
  <1>. QED  BY <1>2, <1>3 DEF Reply, Same

(* The question at hand is one of the questions, and what was answered was  *)
(* answered for it.                                                         *)
LEMMA AmountsStay == AmountsSpec => []AmountsInv
  <1>1. AmountsInit => AmountsInv
    BY CalculationsAssumption DEF AmountsInit, AmountsInv
  <1>2. AmountsInv /\ [AmountsNext]_amountVars => AmountsInv'
    <2> SUFFICES ASSUME AmountsInv, [AmountsNext]_amountVars PROVE AmountsInv'
      OBVIOUS
    <2>1. CASE ApplyRules
      BY <2>1 DEF ApplyRules, AmountsInv
    <2>2. CASE UseForm
      BY <2>2 DEF UseForm, AmountsInv
    <2>3. CASE UNCHANGED amountVars
      BY <2>3 DEF amountVars, AmountsInv
    <2>. QED  BY <2>1, <2>2, <2>3 DEF AmountsNext
  <1>. QED  BY <1>1, <1>2, PTL DEF AmountsSpec

(* Of every question, whatever its numbers: the rules of the domain and the *)
(* document routes name the same amount for severance, for a termination    *)
(* and for interest; the court fee is the one by layers at every claim; and *)
(* a little more income is taxed with no more than the highest rate         *)
(* (calculate_legal_formula, tools/legal_calculators.py).                   *)
THEOREM AmountsAgree == AmountsSpec => []AmountsAreConsistent
  <1>1. AmountsInv => AmountsAreConsistent
    <2> SUFFICES ASSUME AmountsInv PROVE AmountsAreConsistent
      OBVIOUS
    <2>. USE DEF AmountsInv
    <2>1. ASSUME ruleReply # NoReply, formReply # NoReply, Comparable(problem)
          PROVE  Same(ruleReply.amount, formReply.amount)
      BY <2>1, SameSeverance, SameTermination, SameInterest DEF Comparable
    <2>2. ASSUME problem.kind = "court", formReply # NoReply, problem.monetary, problem.claim > 0
          PROVE  Same(formReply.amount, <<FeeByLayers(problem), 1000>>)
      BY <2>2, FeeIsLayered
    <2>3. ASSUME problem.kind = "income", ruleReply # NoReply
          PROVE  TaxOn(Assessable([problem EXCEPT !.income = @ + 1])) - ruleReply.amount[1] \in 0 .. 350
      BY <2>3, TaxIsFair
    <2>. QED  BY <2>1, <2>2, <2>3 DEF AmountsAreConsistent
  <1>. QED  BY <1>1, AmountsStay, PTL

(***************************************************************************)
(* The text of an answer                                                   *)
(***************************************************************************)

(* The documents are a list. *)
Listed(list) == \E n \in Nat : DOMAIN list = 1 .. n

TextInv == Listed(documents) /\ ClaimsCiteTheirSource

(* What the claims of a text say of the documents. *)
Cites(claims) ==
    \A i \in DOMAIN claims :
        /\ claims[i].at \in DOMAIN documents /\ documents[claims[i].at].name = claims[i].of
        /\ \A j \in DOMAIN claims : j # i => claims[j].at # claims[i].at

LEMMA ListsAre ==
    ASSUME NEW list \in DocumentLists \cup ResultLists
    PROVE  Listed(list)
  <1>1. list \in Seq(Range(list))
    BY ListsAssumption
  <1>2. DOMAIN list = 1 .. Len(list) /\ Len(list) \in Nat
    BY <1>1, LenProperties
  <1>. QED  BY <1>2 DEF Listed

LEMMA PlacesAre ==
    ASSUME NEW list, Listed(list), NEW S \in SUBSET DOMAIN list, NEW places, places = Increasing(S)
    PROVE  /\ places \in Seq(S) /\ Plain(places) /\ Range(places) = S /\ S \subseteq Nat
           /\ DOMAIN places = 1 .. Len(places) /\ Len(places) \in Nat
  <1>1. PICK n \in Nat : DOMAIN list = 1 .. n
    BY DEF Listed
  <1>2. IsFiniteSet(1 .. n)
    BY FS_Interval
  <1>3. IsFiniteSet(S) /\ S \in SUBSET Nat
    BY <1>1, <1>2, FS_Subset
  <1>4. places \in Seq(S) /\ Plain(places) /\ Range(places) = S
    BY <1>3, IncreasingIs
  <1>. QED  BY <1>3, <1>4, LenProperties

LEMMA QuotingCites ==
    ASSUME Listed(documents), NEW S \in SUBSET DOMAIN documents, NEW most \in Nat,
           NEW claims, claims = Quoting(Increasing(S), most)
    PROVE  Cites(claims) /\ \A i \in DOMAIN claims : claims[i].at \in S
  <1>1. PICK places : places = Increasing(S)
    OBVIOUS
  <1>2. /\ places \in Seq(S) /\ Plain(places) /\ Range(places) = S
        /\ DOMAIN places = 1 .. Len(places) /\ Len(places) \in Nat
    BY <1>1, PlacesAre
  <1>3. PICK n \in Nat : n = (IF Len(places) < most THEN Len(places) ELSE most) /\ n <= Len(places)
    <2>1. PICK len \in Nat : len = Len(places)
      BY <1>2
    <2>2. CASE len < most
      BY <2>1, <2>2
    <2>3. CASE ~(len < most)
      BY <2>1, <2>3
    <2>. QED  BY <2>2, <2>3
  <1>4. claims = [i \in 1 .. n |-> [of |-> documents[places[i]].name, at |-> places[i]]]
    BY <1>1, <1>3 DEF Quoting, Number
  <1>5. \A i \in 1 .. n : i \in DOMAIN places /\ places[i] \in S
    <2>1. ASSUME NEW i \in 1 .. n PROVE i \in 1 .. Len(places)
      <3>1. PICK len \in Nat : len = Len(places)
        BY <1>2
      <3>2. n <= len
        BY <1>3, <3>1
      <3>3. i \in 1 .. len
        BY <3>2
      <3>. QED  BY <3>1, <3>3
    <2>2. \A i \in 1 .. Len(places) : places[i] \in S
      BY <1>2
    <2>. QED  BY <1>2, <2>1, <2>2
  <1>6. \A i, j \in 1 .. n : i # j => places[i] # places[j]
    BY <1>2, <1>5 DEF Plain
  <1>7. DOMAIN claims = 1 .. n /\ \A i \in 1 .. n : claims[i].of = documents[places[i]].name /\ claims[i].at = places[i]
    BY <1>4
  <1>. QED  BY <1>5, <1>6, <1>7 DEF Cites

(* A text that is composed cites, and leaves no document unquoted that     *)
(* could have been quoted.                                                 *)
LEMMA ComposedIs ==
    ASSUME Listed(documents)
    PROVE  /\ Composed.how \in {"", "extract", "references"}
           /\ Cites(Composed.claims)
           /\ Composed.how = "extract" => \A i \in DOMAIN Composed.claims : Quotable(documents[Composed.claims[i].at])
           /\ Composed.how # "extract" => \A i \in DOMAIN documents : ~Quotable(documents[i])
           /\ Composed = NoAnswer <=> Composed.how = ""
  <1>1. PICK short : short = {i \in DOMAIN documents : Quotable(documents[i])}
    OBVIOUS
  <1>2. PICK long : long = {i \in DOMAIN documents : TooLong(documents[i])}
    OBVIOUS
  <1>3. Composed = IF Increasing(short) # << >> THEN Text("extract", Quoting(Increasing(short), MaxClaims))
                   ELSE IF Increasing(long) # << >> THEN Text("references", Quoting(Increasing(long), MaxReferences))
                   ELSE NoAnswer
    BY <1>1, <1>2 DEF Composed, Places
  <1>4. MaxClaims \in Nat /\ MaxReferences \in Nat
    BY ListsAssumption
  <1>5. /\ Cites(Quoting(Increasing(short), MaxClaims))
        /\ \A i \in DOMAIN Quoting(Increasing(short), MaxClaims) :
               Quoting(Increasing(short), MaxClaims)[i].at \in short
    BY <1>1, <1>4, QuotingCites
  <1>6. Cites(Quoting(Increasing(long), MaxReferences))
    BY <1>2, <1>4, QuotingCites
  <1>7. Increasing(short) = << >> => \A i \in DOMAIN documents : ~Quotable(documents[i])
    <2>1. Range(Increasing(short)) = short
      BY <1>1, PlacesAre
    <2>2. Range(<< >>) = {}
      BY DEF Range
    <2>. QED  BY <1>1, <2>1, <2>2
  <1>8. ASSUME NEW how, NEW claims
        PROVE  Text(how, claims).how = how /\ Text(how, claims).claims = claims
    BY DEF Text
  <1>9. NoAnswer.how = "" /\ NoAnswer.claims = << >> /\ Cites(<< >>)
    <2>1. NoAnswer.how = "" /\ NoAnswer.claims = << >>
      BY <1>8 DEF NoAnswer
    <2>2. DOMAIN << >> = {}
      OBVIOUS
    <2>. QED  BY <2>1, <2>2 DEF Cites
  <1>10. CASE Increasing(short) # << >>
    <2>1. Composed.how = "extract" /\ Composed.claims = Quoting(Increasing(short), MaxClaims)
      BY <1>3, <1>8, <1>10
    <2>2. \A i \in short : Quotable(documents[i])
      BY <1>1
    <2>. QED  BY <1>5, <1>9, <2>1, <2>2
  <1>11. CASE Increasing(short) = << >> /\ Increasing(long) # << >>
    <2>1. Composed.how = "references" /\ Composed.claims = Quoting(Increasing(long), MaxReferences)
      BY <1>3, <1>8, <1>11
    <2>. QED  BY <1>6, <1>7, <1>9, <1>11, <2>1
  <1>12. CASE Increasing(short) = << >> /\ Increasing(long) = << >>
    <2>1. Composed = NoAnswer
      BY <1>3, <1>12
    <2>. QED  BY <1>7, <1>9, <1>12, <2>1
  <1>. QED  BY <1>10, <1>11, <1>12

(* Every claim of a composed text cites the document it quotes:            *)
(* _compose_legal_route_answer, repair and web of tools/generation.py, for *)
(* any documents and any results.                                          *)
THEOREM CitationsAreRight == TextSpec => []ClaimsCiteTheirSource
  <1>1. TextInit => TextInv
    <2>. SUFFICES ASSUME TextInit PROVE TextInv
      OBVIOUS
    <2>1. text.claims = << >> /\ text.how = ""
      BY DEF TextInit, NoAnswer, Text
    <2>2. Listed(documents)
      <3>1. CASE documents \in DocumentLists
        BY <3>1, ListsAre
      <3>2. CASE documents = << >>
        <4>1. DOMAIN documents = 1 .. 0
          BY <3>2
        <4>. QED  BY <4>1 DEF Listed
      <3>. QED  BY <3>1, <3>2 DEF TextInit
    <2>3. DOMAIN text.claims = {} /\ text.how \notin {"references", "labels", "assessment"}
      <3>1. DOMAIN << >> = {}
        OBVIOUS
      <3>2. text.how \notin {"references", "labels", "assessment"}
        BY <2>1
      <3>. QED  BY <2>1, <3>1, <3>2
    <2>. QED  BY <2>2, <2>3 DEF TextInv, ClaimsCiteTheirSource
  <1>2. TextInv /\ [TextNext]_textVars => TextInv'
    <2>. SUFFICES ASSUME TextInv, [TextNext]_textVars PROVE TextInv'
      OBVIOUS
    <2>1. Listed(documents)
      BY DEF TextInv
    <2>2. ASSUME documents' = documents, text' = text PROVE TextInv'
      BY <2>2 DEF TextInv, Listed, ClaimsCiteTheirSource, Quotable
    <2>3. ASSUME documents' = documents, text'.claims = << >>,
                 text'.how \notin {"references", "labels", "assessment"}
          PROVE  TextInv'
      BY <2>1, <2>3 DEF TextInv, Listed, ClaimsCiteTheirSource
    <2>4. ASSUME NEW how, NEW claims PROVE Text(how, claims).how = how /\ Text(how, claims).claims = claims
      BY DEF Text
    <2>5. ASSUME documents' = documents, Cites(text'.claims),
                 text'.how = "extract" => \A i \in DOMAIN text'.claims : Quotable(documents[text'.claims[i].at]),
                 text'.how \in {"references", "labels", "assessment"} =>
                     \A i \in DOMAIN documents : ~Quotable(documents[i])
          PROVE  TextInv'
      BY <2>1, <2>5 DEF TextInv, Listed, ClaimsCiteTheirSource, Cites, Quotable
    <2>6. CASE AnswerChitchat \/ Synthesize \/ CannotRepair \/ Rewrite \/ KeepDraft
      <3>1. documents' = documents /\ \E how \in {"model", "refusal", "rewritten", "spread"} : text' = Text(how, << >>)
        BY <2>6 DEF AnswerChitchat, Synthesize, CannotRepair, Rewrite, KeepDraft, Finish
      <3>2. text'.claims = << >> /\ text'.how \in {"model", "refusal", "rewritten", "spread"}
        BY <2>4, <3>1
      <3>. QED  BY <2>3, <3>1, <3>2
    <2>7. CASE NoSynthesis \/ BeginRepair \/ RewriteFails
      <3>1. documents' = documents /\ text' = text
        BY <2>7 DEF NoSynthesis, BeginRepair, RewriteFails
      <3>. QED  BY <2>2, <3>1
    <2>8. CASE ComposeAnswer
      <3>1. documents' = documents /\ text' = (IF Composed = NoAnswer /\ writing.task = "case_assessment"
                                               THEN Text("assessment", << >>) ELSE Composed)
        BY <2>8 DEF ComposeAnswer
      <3>2. CASE Composed = NoAnswer /\ writing.task = "case_assessment"
        <4>1. text' = Text("assessment", << >>)
          BY <3>1, <3>2
        <4>2. text'.how = "assessment" /\ text'.claims = << >> /\ Cites(<< >>)
          BY <2>4, <4>1 DEF Cites
        <4>3. \A i \in DOMAIN documents : ~Quotable(documents[i])
          BY <2>1, <3>2, ComposedIs
        <4>. QED  BY <2>5, <3>1, <4>2, <4>3
      <3>3. CASE ~(Composed = NoAnswer /\ writing.task = "case_assessment")
        <4>1. text' = Composed
          BY <3>1, <3>3
        <4>. QED  BY <2>1, <2>5, <3>1, <4>1, ComposedIs
      <3>. QED  BY <3>2, <3>3
    <2>9. CASE ReplaceDraft
      <3>1. documents' = documents /\ text' = (IF Composed # NoAnswer THEN Composed
                  ELSE Text("labels", Quoting(Places(documents, LAMBDA d : TRUE), MaxLabels)))
        BY <2>9 DEF ReplaceDraft, Finish
      <3>2. CASE Composed # NoAnswer
        <4>1. text' = Composed
          BY <3>1, <3>2
        <4>. QED  BY <2>1, <2>5, <3>1, <4>1, ComposedIs
      <3>3. CASE Composed = NoAnswer
        <4>1. PICK S : S = {i \in DOMAIN documents : TRUE}
          OBVIOUS
        <4>2. Places(documents, LAMBDA d : TRUE) = Increasing(S)
          BY <4>1 DEF Places
        <4>3. text' = Text("labels", Quoting(Increasing(S), MaxLabels))
          BY <3>1, <3>3, <4>2
        <4>4. text'.how = "labels" /\ text'.claims = Quoting(Increasing(S), MaxLabels)
          BY <2>4, <4>3
        <4>5. Cites(Quoting(Increasing(S), MaxLabels))
          <5>1. MaxLabels \in Nat /\ S \in SUBSET DOMAIN documents
            BY <4>1, ListsAssumption
          <5>. QED  BY <2>1, <5>1, QuotingCites
        <4>6. \A i \in DOMAIN documents : ~Quotable(documents[i])
          BY <2>1, <3>3, ComposedIs
        <4>. QED  BY <2>5, <3>1, <4>4, <4>5, <4>6
      <3>. QED  BY <3>2, <3>3
    <2>10. CASE SearchWeb
      <3>1. PICK results \in ResultLists, read \in SUBSET {r.name : r \in UNION {ToSet(l) : l \in ResultLists}} :
              LET accepted == Places(results, LAMBDA r : r.trusted /\ r.matches)
                  Enriched(r) == [name |-> r.name, size |-> "short",
                                  origin |-> IF r.name \in read /\ PageText(r.page) # {} THEN "page" ELSE "excerpt"]
                  found == [i \in DOMAIN accepted |-> Enriched(results[accepted[i]])]
              IN  /\ documents' = found
                  /\ text' = (IF found = << >> THEN NoAnswer
                              ELSE Text("web", [i \in DOMAIN found |-> [of |-> found[i].name, at |-> i]]))
        BY <2>10 DEF SearchWeb
      <3>2. PICK S : S = {i \in DOMAIN results : results[i].trusted /\ results[i].matches}
        OBVIOUS
      <3>3. Places(results, LAMBDA r : r.trusted /\ r.matches) = Increasing(S)
        BY <3>2 DEF Places
      <3>4. PICK n \in Nat : DOMAIN Increasing(S) = 1 .. n
        <4>1. Listed(results) /\ S \in SUBSET DOMAIN results
          BY <3>2, ListsAre
        <4>. QED  BY <4>1, PlacesAre
      <3>5. PICK found : documents' = found /\ DOMAIN found = 1 .. n
                         /\ text' = (IF found = << >> THEN NoAnswer
                                     ELSE Text("web", [i \in DOMAIN found |-> [of |-> found[i].name, at |-> i]]))
        BY <3>1, <3>3, <3>4
      <3>6. CASE found = << >>
        <4>1. text'.claims = << >> /\ text'.how = ""
          BY <2>4, <3>5, <3>6 DEF NoAnswer
        <4>2. DOMAIN text'.claims = {} /\ text'.how \notin {"references", "labels", "assessment"}
          <5>1. DOMAIN << >> = {}
            OBVIOUS
          <5>2. text'.how \notin {"references", "labels", "assessment"}
            BY <4>1
          <5>. QED  BY <4>1, <5>1, <5>2
        <4>3. Listed(documents)'
          BY <3>5 DEF Listed
        <4>. QED  BY <4>2, <4>3 DEF TextInv, ClaimsCiteTheirSource
      <3>7. CASE found # << >>
        <4>1. PICK claims : claims = [i \in 1 .. n |-> [of |-> found[i].name, at |-> i]]
          OBVIOUS
        <4>2. text' = Text("web", claims)
          BY <3>5, <3>7, <4>1
        <4>3. text'.how = "web" /\ text'.claims = claims
          BY <2>4, <4>2
        <4>4. DOMAIN claims = 1 .. n /\ \A i \in 1 .. n : claims[i].of = found[i].name /\ claims[i].at = i
          BY <4>1
        <4>5. Listed(documents)'
          BY <3>5 DEF Listed
        <4>6. ClaimsCiteTheirSource'
          <5>1. DOMAIN text'.claims = 1 .. n /\ text'.how \notin {"extract", "references", "labels", "assessment"}
            BY <4>3, <4>4
          <5>2. \A i \in 1 .. n : /\ text'.claims[i].at = i /\ i \in DOMAIN documents'
                                  /\ documents'[i].name = text'.claims[i].of
            BY <3>5, <4>3, <4>4
          <5>. QED  BY <5>1, <5>2 DEF ClaimsCiteTheirSource
        <4>. QED  BY <4>5, <4>6 DEF TextInv
      <3>. QED  BY <3>6, <3>7
    <2>11. CASE UNCHANGED textVars
      <3>1. documents' = documents /\ text' = text
        BY <2>11 DEF textVars
      <3>. QED  BY <2>2, <3>1
    <2>. QED  BY <2>6, <2>7, <2>8, <2>9, <2>10, <2>11 DEF TextNext
  <1>3. TextInv => ClaimsCiteTheirSource
    BY DEF TextInv
  <1>. QED  BY <1>1, <1>2, <1>3, PTL DEF TextSpec
=============================================================================
