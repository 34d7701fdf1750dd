------------------------------ MODULE AnswerText ------------------------------
(***************************************************************************)
(* How an answer is written from the documents it is given on:             *)
(* EvidenceGenerationGateway of tools/generation.py (answer, web, repair). *)
(* A language model writes when one is configured and answers; otherwise   *)
(* the text is composed of the documents themselves.                       *)
(*                                                                         *)
(* A document has a name and a text that is empty, short, or too long to   *)
(* be quoted; a claim quotes one document and cites a number.  What the    *)
(* model writes is free and carries no claims here: its citations are      *)
(* checked afterwards (Verification).                                      *)
(***************************************************************************)
EXTENDS Integers, Ranks

CONSTANTS
    DocumentLists,  \* lists of documents to answer on
    ResultLists,    \* lists of results of the web search
    MaxClaims,      \* claims of a composed answer (6)
    MaxReferences,  \* documents it refers to when all are too long (8)
    MaxLabels,      \* documents that a failed repair names (3)
    TopParagraphs,  \* paragraphs of a page that are ranked highest (8)
    PageChars       \* page_text_limit

ASSUME ListsAssumption ==
    /\ {MaxClaims, MaxReferences, MaxLabels, TopParagraphs, PageChars} \subseteq Nat \ {0}
    /\ \A list \in DocumentLists \cup ResultLists : list \in Seq(Range(list))

Tasks == {"chitchat", "legal_lookup", "case_assessment", "build_compliance_checklist"}

VARIABLES
    writing,    \* the task, and whether a model is configured
    documents,  \* the documents of the answer, in order
    written,    \* next: "answer", "compose", "repair", "repair_draft",
                \*  "give_up", "search", "done"
    text        \* the answer: how it was made, its claims and its list of sources

textVars == <<writing, documents, written, text>>

Text(how, claims) == [how |-> how, claims |-> claims, listed |-> {c.at : c \in ToSet(claims)}]
NoAnswer          == Text("", << >>)

TextInit ==
    /\ writing \in [task : Tasks, model : BOOLEAN]
    /\ \/ documents \in DocumentLists /\ written = "answer"
       \/ documents = << >> /\ written = "search"
    /\ text = NoAnswer

Finish(t) == text' = t /\ written' = "done" /\ UNCHANGED <<writing, documents>>

-------------------------------------------------------------------------------
(* Composing from the documents *)

Quotable(d) == d.size = "short"
TooLong(d)  == d.size = "long"

(* Where a list has an item that Test holds of. *)
Places(list, Test(_)) == Increasing({i \in DOMAIN list : Test(list[i])})

(* Fault: a claim is numbered among the claims. *)
NumberAmongClaims(places, n) == n

(* A claim cites its document's place among all documents, whether or not *)
(* those before it could be quoted.                                        *)
Number(places, n) == places[n]

Quoting(places, most) ==
    [n \in 1 .. (IF Len(places) < most THEN Len(places) ELSE most) |->
        [of |-> documents[places[n]].name, at |-> Number(places, n)]]

(* With nothing to quote, the documents that are too long are named. *)
Composed ==
    LET quotable == Places(documents, Quotable)
        tooLong  == Places(documents, TooLong)
    IN  IF quotable # << >> THEN Text("extract", Quoting(quotable, MaxClaims))
        ELSE IF tooLong # << >> THEN Text("references", Quoting(tooLong, MaxReferences))
        ELSE NoAnswer

-------------------------------------------------------------------------------
(* answer *)

AnswerChitchat == written = "answer" /\ writing.task = "chitchat" /\ Finish(Text("model", << >>))

(* The model writes on the first documents; it may fail or write nothing. *)
Synthesize ==
    /\ written = "answer" /\ writing.task \in {"legal_lookup", "case_assessment"}
    /\ writing.model /\ documents # << >>
    /\ Finish(Text("model", << >>))

NoSynthesis ==
    /\ written = "answer" /\ writing.task # "chitchat"
    /\ written' = "compose"
    /\ UNCHANGED <<writing, documents, text>>

(* An assessment that nothing can be quoted for refers to the first. *)
ComposeAnswer ==
    /\ written = "compose"
    /\ text' = (IF Composed = NoAnswer /\ writing.task = "case_assessment"
                THEN Text("assessment", << >>) ELSE Composed)
    /\ written' = "done"
    /\ UNCHANGED <<writing, documents>>

-------------------------------------------------------------------------------
(* repair, of an answer that was rejected *)

BeginRepair ==
    /\ written = "done" /\ writing.task # "chitchat"
    /\ written' = (IF documents = << >> THEN "give_up" ELSE IF writing.model THEN "repair" ELSE "repair_draft")
    /\ UNCHANGED <<writing, documents, text>>

CannotRepair == written = "give_up" /\ Finish(Text("refusal", << >>))

(* The model writes it again, or the draft is looked at. *)
Rewrite == written = "repair" /\ Finish(Text("rewritten", << >>))

RewriteFails ==
    /\ written = "repair" /\ written' = "repair_draft"
    /\ UNCHANGED <<writing, documents, text>>

(* With citations spread over its lists the draft may pass; else it is    *)
(* replaced by what the documents say, or by their names.                  *)
KeepDraft == written = "repair_draft" /\ Finish(Text("spread", << >>))

ReplaceDraft ==
    /\ written = "repair_draft"
    /\ Finish(IF Composed # NoAnswer THEN Composed
              ELSE Text("labels", Quoting(Places(documents, LAMBDA d : TRUE), MaxLabels)))

-------------------------------------------------------------------------------
(* web: a result is a page with its paragraphs, each with a score against *)
(* the question and a length                                               *)

(* The best paragraphs, all that score or, when none does, all there are. *)
Ranked(page) ==
    LET scored == {i \in DOMAIN page : page[i].score > 0}
        among  == IF scored = {} THEN DOMAIN page ELSE scored
        Before(i, j) == page[i].score > page[j].score \/ (page[i].score = page[j].score /\ i < j)
        order  == Sorted(among, {p \in among \X among : Before(p[1], p[2])})
    IN  {order[n] : n \in {m \in DOMAIN order : m <= TopParagraphs}}

(* They and their neighbours in the order of the page, up to the first    *)
(* that does not fit; of a first one that does not fit, the beginning.     *)
PageText(page) ==
    LET best   == Ranked(page)
        chosen == {i \in DOMAIN page : \E j \in best : i \in {j - 1, j, j + 1}}
        Used(i) == FoldSet(LAMBDA j, sum : sum + page[j].chars + 1, 0, {j \in chosen : j < i})
        Fits(i) == Used(i) + page[i].chars <= PageChars
    IN  {i \in chosen : \A j \in chosen : j < i => Fits(j)} \cap
        {i \in chosen : Fits(i) \/ Used(i) = 0}

(* Results from other domains, without a text or off the question are     *)
(* dropped; a page that cannot be read leaves the excerpt of the search.   *)
SearchWeb ==
    /\ written = "search"
    /\ \E results \in ResultLists, read \in SUBSET {r.name : r \in UNION {ToSet(l) : l \in ResultLists}} :
          LET accepted == Places(results, LAMBDA r : r.trusted /\ r.matches)
              Enriched(r) == [name |-> r.name, size |-> "short",
                              origin |-> IF r.name \in read /\ PageText(r.page) # {} THEN "page" ELSE "excerpt"]
              found == [i \in DOMAIN accepted |-> Enriched(results[accepted[i]])]
          IN  /\ documents' = found
              /\ text' = (IF found = << >> THEN NoAnswer
                          ELSE Text("web", [i \in DOMAIN found |-> [of |-> found[i].name, at |-> i]]))
    /\ written' = "done" /\ UNCHANGED writing

-------------------------------------------------------------------------------
TextNext ==
    \/ AnswerChitchat \/ Synthesize \/ NoSynthesis \/ ComposeAnswer
    \/ BeginRepair \/ CannotRepair \/ Rewrite \/ RewriteFails \/ KeepDraft \/ ReplaceDraft
    \/ SearchWeb

TextSpec == TextInit /\ [][TextNext]_textVars

-------------------------------------------------------------------------------
(* A text that the program composes cites for every claim the number of    *)
(* the document it quotes, in the list that the verifier counts by, though *)
(* documents are skipped and results dropped before they are numbered; no  *)
(* document is quoted twice, and with something to quote it quotes.        *)
ClaimsCiteTheirSource ==
    /\ \A i \in DOMAIN text.claims :
          LET c == text.claims[i] IN
          /\ c.at \in DOMAIN documents /\ documents[c.at].name = c.of
          /\ \A j \in DOMAIN text.claims : j # i => text.claims[j].at # c.at
          /\ text.how = "extract" => Quotable(documents[c.at])
    /\ (text.how \in {"references", "labels", "assessment"}) =>
          \A i \in DOMAIN documents : ~Quotable(documents[i])
===============================================================================
