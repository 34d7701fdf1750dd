---------------------------- MODULE RetrievalIndex ----------------------------
(***************************************************************************)
(* The two indexes that retrieval keeps in the memory of each process, the *)
(* article index and the lexical index (retrieval/ensemble_retrieval.py).  *)
(* The first query that needs one, or the warm-up task at the start of the *)
(* server, builds it under a lock: from a file in data/cache when one can  *)
(* be read, else by scrolling the whole collection of Qdrant, page by page,*)
(* after which it writes the file.  The processes of the server share the  *)
(* file and nothing else.                                                  *)
(*                                                                         *)
(* An index is the set of the pages whose records it holds.  "owed" beside *)
(* it is what it should hold: the pages the collection had when the scroll *)
(* behind it began.  The article index is filled in place as the pages     *)
(* come, the lexical one assigned at the end; a behaviour is about one of  *)
(* them.  The collection only grows (the ingestion script adds to it).     *)
(***************************************************************************)
EXTENDS Integers, FiniteSets

CONSTANTS
    IndexThreads,    \* the threads that ask for the index: queries and warm-up
    IndexHost,       \* IndexHost[t] is the process that thread t runs in
    Attempts,        \* _QDRANT_RETRY_ATTEMPTS
    MaxIndexPages,   \* bound: the pages the collection may grow to
    MaxTroubles      \* bound: failed calls, failed writes and crashes together

NoThread == "none"

ASSUME IndexAssumption ==
    /\ NoThread \notin IndexThreads
    /\ Attempts \in Nat \ {0} /\ MaxIndexPages \in Nat /\ MaxTroubles \in Nat

VARIABLES
    which,      \* the index this behaviour is about: "article" or "lexical"
    pages,      \* the pages of the collection
    index,      \* index[h]: the index in the memory of process h, its flag, and what it owes
    holder,     \* holder[h]: the thread of h that holds the lock, or NoThread
    file,       \* the file: "absent", "torn" or "whole", its pages, what it owes,
                \* and whether two processes wrote it at the same time
    asker,      \* asker[t]: where thread t is
    troubles    \* the failures so far

indexVars == <<which, pages, index, holder, file, asker, troubles>>

Hosts   == {IndexHost[t] : t \in IndexThreads}
Unbuilt == [built |-> FALSE, has |-> {}, owed |-> {}]
Idle    == [at |-> "idle", page |-> 0, tries |-> 0, found |-> {}, owed |-> {}]

IndexInit ==
    /\ which \in {"article", "lexical"}
    /\ pages \in 0 .. 1
    /\ index = [h \in Hosts |-> Unbuilt]
    /\ holder = [h \in Hosts |-> NoThread]
    /\ file = [state |-> "absent", has |-> {}, owed |-> {}, mixed |-> FALSE]
    /\ asker = [t \in IndexThreads |-> Idle]
    /\ troubles = 0

Trouble  == troubles < MaxTroubles /\ troubles' = troubles + 1
MoveTo(t, place) == asker' = [asker EXCEPT ![t].at = place]
Release(t) == holder' = [holder EXCEPT ![IndexHost[t]] = NoThread]

(* The check before the lock: a built index is used without it. *)
AskIndex(t) ==
    /\ asker[t].at = "idle"
    /\ MoveTo(t, IF index[IndexHost[t]].built THEN "uses" ELSE "waits")
    /\ UNCHANGED <<which, pages, index, holder, file, troubles>>

(* Fault: the flag is tested before the lock only. *)
CheckedOnlyOnce(h) == FALSE

(* The check is made again under the lock. *)
BuiltMeanwhile(h) == index[h].built

LoadFile(t) ==
    LET h == IndexHost[t] IN
    /\ file.state = "whole"
    /\ index' = [index EXCEPT ![h] = [built |-> TRUE, has |-> file.has, owed |-> file.owed]]
    /\ MoveTo(t, "uses")
    /\ UNCHANGED holder

(* No file, or one that cannot be unpickled: the index is emptied first.   *)
BeginScroll(t) ==
    LET h == IndexHost[t] IN
    /\ file.state # "whole"
    /\ index' = [index EXCEPT ![h] = [built |-> @.built, has |-> {}, owed |-> 1 .. pages]]
    /\ asker' = [asker EXCEPT ![t] = [at |-> "scrolls", page |-> 1, tries |-> 0,
                                      found |-> {}, owed |-> 1 .. pages]]
    /\ holder' = [holder EXCEPT ![h] = t]

TakeLock(t) ==
    LET h == IndexHost[t] IN
    /\ asker[t].at = "waits" /\ holder[h] = NoThread
    /\ IF BuiltMeanwhile(h)
       THEN MoveTo(t, "uses") /\ UNCHANGED <<index, holder>>
       ELSE LoadFile(t) \/ BeginScroll(t)
    /\ UNCHANGED <<which, pages, file, troubles>>

(* The article index takes each page at once, the lexical index, whose      *)
(* weights need them all, is assigned after the last.                      *)
Filled(held, found, last) == IF which = "article" \/ last THEN found ELSE held

(* One page of records.  The last one, as the collection is at that time,   *)
(* completes the index and sets its flag; the lock is kept for the file.   *)
ScrollPage(t) ==
    LET h == IndexHost[t]
        c == asker[t]
        found == c.found \cup ({c.page} \cap 1 .. pages)
        last == c.page >= pages IN
    /\ c.at = "scrolls"
    /\ asker' = [asker EXCEPT ![t] =
                  [at |-> IF last THEN "built" ELSE "scrolls", page |-> c.page + 1, tries |-> 0,
                   found |-> found, owed |-> c.owed]]
    /\ index' = [index EXCEPT ![h] =
                  [built |-> @.built \/ last, has |-> Filled(@.has, found, last), owed |-> @.owed]]
    /\ UNCHANGED <<which, pages, holder, file, troubles>>

(* A call that fails is made again if its error is a passing one and the    *)
(* attempts are not used up ...                                            *)
RetryPage(t) ==
    /\ asker[t].at = "scrolls" /\ asker[t].tries + 1 < Attempts
    /\ Trouble
    /\ asker' = [asker EXCEPT ![t].tries = @ + 1]
    /\ UNCHANGED <<which, pages, index, holder, file>>

(* ... and else raised through the lock, with the index left as it is: the  *)
(* query goes on without it.                                               *)
ScrollFails(t) ==
    /\ asker[t].at = "scrolls"
    /\ Trouble
    /\ asker' = [asker EXCEPT ![t] = Idle]
    /\ Release(t)
    /\ UNCHANGED <<which, pages, index, file>>

(* open(..., "wb") empties the file, which another process may be writing.  *)
OpenFile(t) ==
    /\ asker[t].at = "built"
    /\ file' = [state |-> "torn", has |-> {}, owed |-> {},
                mixed |-> \E u \in IndexThreads : asker[u].at = "writes"]
    /\ MoveTo(t, "writes")
    /\ UNCHANGED <<which, pages, index, holder, troubles>>

(* The file is whole once written.  What two processes wrote at the same    *)
(* time may be whole or not; a mixture that still unpickles is left out.   *)
CloseFile(t) ==
    /\ asker[t].at = "writes"
    /\ \E state \in {"whole"} \cup (IF file.mixed THEN {"torn"} ELSE {}) :
         file' = [file EXCEPT !.state = state, !.has = asker[t].found, !.owed = asker[t].owed]
    /\ MoveTo(t, "uses") /\ Release(t)
    /\ UNCHANGED <<which, pages, index, troubles>>

(* An error of the disk is logged, and the index used all the same. *)
WriteFails(t) ==
    /\ asker[t].at \in {"built", "writes"}
    /\ Trouble
    /\ MoveTo(t, "uses") /\ Release(t)
    /\ UNCHANGED <<which, pages, index, file>>

(* The lookups of one query. *)
UseIndex(t) ==
    /\ asker[t].at = "uses"
    /\ asker' = [asker EXCEPT ![t] = Idle]
    /\ UNCHANGED <<which, pages, index, holder, file, troubles>>

Ingest ==
    /\ pages < MaxIndexPages
    /\ pages' = pages + 1
    /\ UNCHANGED <<which, index, holder, file, asker, troubles>>

(* The process dies with its threads and starts again. *)
CrashProcess(h) ==
    /\ Trouble
    /\ index' = [index EXCEPT ![h] = Unbuilt]
    /\ holder' = [holder EXCEPT ![h] = NoThread]
    /\ asker' = [t \in IndexThreads |-> IF IndexHost[t] = h THEN Idle ELSE asker[t]]
    /\ UNCHANGED <<which, pages, file>>

IndexNext ==
    \/ \E t \in IndexThreads :
         \/ AskIndex(t) \/ TakeLock(t) \/ ScrollPage(t) \/ RetryPage(t) \/ ScrollFails(t)
         \/ OpenFile(t) \/ CloseFile(t) \/ WriteFails(t) \/ UseIndex(t)
    \/ Ingest
    \/ \E h \in Hosts : CrashProcess(h)

IndexSpec == IndexInit /\ [][IndexNext]_indexVars

(* A query never reads an index that misses pages the collection had when   *)
(* its scroll began: whichever threads and processes build it at the same  *)
(* time, whatever calls and writes fail and whenever a process dies, the   *)
(* index that is looked into is neither half filled nor emptied under the  *)
(* reader nor loaded from half a file.                                     *)
UsedIndexesAreWhole ==
    \A t \in IndexThreads :
       asker[t].at = "uses" =>
          LET used == index[IndexHost[t]] IN used.built /\ used.owed \subseteq used.has
===============================================================================
