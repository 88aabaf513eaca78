------------------------------ MODULE Retrieval ------------------------------
(***************************************************************************)
(* The search of documents and what is made of it: the answer to a         *)
(* question (rag_qa.py), the evidence of a draft (rag_bridge.py,           *)
(* draft_pipeline.py) and the warnings of a review (review_pipeline.py).   *)
(* The hits of a search (rag_search.py) come from files, by their words,   *)
(* and from a vector store, by words and nearness; the language model may  *)
(* put them in another order (llm_client.py).  A step is one call; nothing *)
(* is kept between requests.  Texts are passages with the words they have, *)
(* scores are in thousandths.                                              *)
(***************************************************************************)
EXTENDS Orders, FiniteSetsExt, Functions

CONSTANTS
  Libraries,      \* sequences of passages, in the order they are stored
  QuestionWords,  \* the words of a question
  RequestWords,   \* the words of the request it is asked about
  TopKs,          \* the numbers of hits asked for
  TypeChoices,    \* the kinds of document asked for; {}: as the question suggests
  DefaultTopK,    \* 5 in rag_qa.py, rag_bridge.py
  ReviewTopK,     \* 3 in review_pipeline.py
  RowLimit,       \* 20 in rag_search.py: rows read per word and hit
  Window,         \* 8 in llm_client.py: hits shown to the language model
  EvidenceLimit,  \* 5 in draft_pipeline.py
  RankingLimit    \* bound on the model's answers

(* A passage of a document and the words that count in it.                 *)
Passages ==
  [id : Nat \ {0}, store : {"file", "db"},
   type : {"nxi", "product_information", "similar_report", "sop", "theory_basis"},
   source : Nat, path : Nat, place : Nat, text : Nat,
   words : SUBSET (QuestionWords \union RequestWords),
   near : Int, indexed : BOOLEAN, queued : BOOLEAN, boost : Int]

ASSUME LibrariesAssumption ==
  /\ Libraries \subseteq Seq(Passages)
  /\ \A stored \in Libraries : \A i \in 1..Len(stored) : stored[i].id = i
ASSUME SearchAssumption ==
  /\ IsFiniteSet(QuestionWords) /\ IsFiniteSet(RequestWords)
  /\ {DefaultTopK, ReviewTopK, RowLimit, Window, EvidenceLimit, RankingLimit} \subseteq Nat \ {0}
  /\ TopKs \subseteq Int

VARIABLES
  library,   \* the passages there are
  asked,     \* the call: [use, kind, enabled, topk, types, vector, product, ready]
  stage,     \* how far the call is
  modelCalls,\* number of calls of the language model
  found,     \* the hits of the search
  hits,      \* the hits, in the order that counts
  answer,    \* [sources, confidence] of a question
  cited      \* the evidence of a draft, or the warnings of a review

retrievalVars == <<library, asked, stage, modelCalls, found, hits, answer, cited>>

(* The kinds of document, in alphabetical order, and what each is worth.   *)
DocTypes == <<"nxi", "product_information", "similar_report", "sop", "theory_basis">>
TypeRank(t) == CHOOSE k \in DOMAIN DocTypes : DocTypes[k] = t
WordBonus(t) == CASE t = "sop" -> 180 [] t = "nxi" -> 160 [] t = "similar_report" -> 100
                  [] t = "product_information" -> 80 [] t = "theory_basis" -> 50
NearBonus(t) == CASE t \in {"sop", "nxi"} -> 40 [] t = "similar_report" -> 30
                  [] t = "product_information" -> 20 [] t = "theory_basis" -> 10

(* A score for the words of the query a passage has: none without a word.  *)
WordScore(p, words) ==
  IF words \intersect p.words = {} THEN 0
  ELSE (1000 * Cardinality(words \intersect p.words)) \div Cardinality(words) + WordBonus(p.type)

(* p.near is the similarity to the query, in hundredths.                   *)
NearScore(p) == 1000 + 5 * Max({0, p.near})

Hit(p, place, score, mode) ==
  [passage |-> p.id, type |-> p.type, source |-> p.source, path |-> p.path,
   place |-> place, text |-> p.text, score |-> score, mode |-> mode]

FirstFew(hs, n) == SubSeq(hs, 1, Min({n, Len(hs)}))

----------------------------------------------------------------------------
(* The search.  q is [words, types, topk, vector, product]: its words, the *)
(* kinds of document it wants (all of them if none is named), how many     *)
(* hits, whether there is a vector of the query, and whether the product   *)
(* and analysis of the request count.                                      *)
Wanted(q, p) == q.types = {} \/ p.type \in q.types
Limit(q)  == IF q.topk = 0 THEN DefaultTopK ELSE Max({1, q.topk})

(* Of the passages of files, those with a word.                            *)
FileCandidates(q) ==
  LET pieces == Picked(library, {k \in DOMAIN library :
                                   /\ Wanted(q, library[k]) /\ library[k].store = "file"
                                   /\ WordScore(library[k], q.words) > 0})
  IN  [k \in DOMAIN pieces |->
         Hit(pieces[k], pieces[k].place, WordScore(pieces[k], q.words), 2)]
FileOrder(h) == <<-h.score, TypeRank(h.type), h.path, h.place>>
InFileOrder(hs) == Sorted(hs, [k \in DOMAIN hs |-> FileOrder(hs[k])])
FileHits(q) == FirstFew(InFileOrder(FileCandidates(q)), Limit(q))

(* Of the passages of the store, those the index finds by a word.  For     *)
(* every word only so many rows are read, before their kind is looked at.  *)
Indexed(w) == {k \in DOMAIN library : /\ library[k].store = "db" /\ library[k].indexed
                                      /\ w \in library[k].words}
RowsRead(q) == RowLimit * Min({6, Limit(q)})
ByWord(q) ==
  Picked(library, {k \in DOMAIN library :
                     /\ Wanted(q, library[k])
                     /\ \E w \in q.words : /\ k \in Indexed(w)
                                           /\ Cardinality({j \in Indexed(w) : j <= k}) <= RowsRead(q)})
Queue(q) ==
  Picked(library, {k \in DOMAIN library : /\ q.vector /\ Wanted(q, library[k])
                                          /\ library[k].store = "db" /\ library[k].queued})

(* A passage without a location is placed at its number, in the index or   *)
(* in the queue the vectors are in.                                        *)
IndexPlace(p) == IF p.place = 0 THEN 100 + p.id ELSE p.place
QueuePlace(p) == IF p.place = 0 THEN 200 + p.id ELSE p.place

(* A passage found by a word counts by its vector too, if the queue still  *)
(* has it and the query has one; the queue is then searched as well.       *)
IndexHit(q, p) ==
  LET score == WordScore(p, q.words)
  IN  IF q.vector /\ p.queued
      THEN Hit(p, IndexPlace(p), NearScore(p) + Min({score, 1000}) \div 5 + NearBonus(p.type), 0)
      ELSE Hit(p, IndexPlace(p), score, 1)
QueueHit(q, p) ==
  Hit(p, QueuePlace(p), NearScore(p) + Min({WordScore(p, q.words), 1000}) \div 5, 0)
FirstPassages(hs) ==
  FirstOf(hs, [k \in DOMAIN hs |-> <<hs[k].type, hs[k].source, hs[k].place, hs[k].text>>])
StoreCandidates(q) ==
  LET byWord == ByWord(q)
      queue  == Queue(q)
  IN  FirstPassages([k \in DOMAIN byWord |-> IndexHit(q, byWord[k])]
                    \o [k \in DOMAIN queue |-> QueueHit(q, queue[k])])
StoreOrder(h) == <<-h.score, TypeRank(h.type), h.source, h.place>>
InStoreOrder(hs) == Sorted(hs, [k \in DOMAIN hs |-> StoreOrder(hs[k])])
StoreHits(q) == FirstFew(InStoreOrder(StoreCandidates(q)), Limit(q))

(* Both together, with what the product and the analysis add, cut again.   *)
Promoted(q, h) ==
  IF ~q.product THEN h
  ELSE [h EXCEPT !.score = @ + library[h.passage].boost]
SearchOrder(h) == <<-h.score, h.mode, TypeRank(h.type), h.source, h.place>>
AllPromoted(q, hs) == [k \in DOMAIN hs |-> Promoted(q, hs[k])]
InSearchOrder(hs)  == Sorted(hs, [k \in DOMAIN hs |-> SearchOrder(hs[k])])
Searched(q) ==
  FirstFew(InSearchOrder(AllPromoted(q, StoreHits(q) \o FileHits(q))), Limit(q))

----------------------------------------------------------------------------
(* A question, with the words of the request and of the question.  What is *)
(* asked for follows from its kind when the caller does not say.           *)
Inferred(kind) ==
  IF kind \in {"policy", "general"} THEN Range(DocTypes)
  ELSE Range(DocTypes) \ {"product_information"}
QuestionQuery ==
  [words  |-> QuestionWords \union RequestWords,
   types  |-> IF asked.types = {} THEN Inferred(asked.kind) ELSE asked.types,
   topk   |-> asked.topk, vector |-> asked.vector, product |-> asked.product]

(* The contexts of a draft: three searches with the words of its question, *)
(* each of its own kinds of document.                                      *)
DraftContexts == << Range(DocTypes) \ {"similar_report"},
               Range(DocTypes) \ {"product_information"},
               Range(DocTypes) \ {"similar_report"} >>
ContextQuery(k) ==
  [words |-> QuestionWords, types |-> DraftContexts[k], topk |-> DefaultTopK,
   vector |-> asked.vector, product |-> FALSE]

(* A final review looks for SOP and NXI, by words only.                    *)
ReviewQuery ==
  [words |-> RequestWords, types |-> {"sop", "nxi"}, topk |-> ReviewTopK,
   vector |-> FALSE, product |-> FALSE]

(* The order the language model gives to the first hits: what it names, in *)
(* its order, the first time it names it, then the others.                 *)
Mentions(ranking, k) == {j \in DOMAIN ranking : ranking[j] = k}
Named(hs, ranking)   == {k \in 1..Min({Window, Len(hs)}) : Mentions(ranking, k) # {}}
Reranked(hs, ranking) ==
  At(hs, InOrder(DOMAIN hs, [k \in DOMAIN hs |->
                               IF k \in Named(hs, ranking) THEN <<0, Min(Mentions(ranking, k))>>
                               ELSE <<1, k>>]))

(* Every hit is a source once.                                             *)
SourceKey(h) == <<h.type, h.path, h.place, h.text>>
\* Mutant: the sources are the hits the answer shows.
SourcesShown(hs) == FirstOf(FirstFew(hs, 2), [k \in DOMAIN hs |-> SourceKey(hs[k])])
Sources(hs) == FirstOf(hs, [k \in DOMAIN hs |-> SourceKey(hs[k])])

(* An answer on a rule is as sure as there are both kinds of rule.         *)
Confidence(kind, sources) ==
  LET rules == {s.type : s \in Range(sources)} \intersect {"sop", "nxi"}
  IN  IF kind = "policy"
      THEN CASE rules = {} -> "low" [] Cardinality(rules) = 1 -> "medium" [] OTHER -> "high"
      ELSE IF Len(sources) >= 2 THEN "medium" ELSE "low"

(* The evidence of a draft: the sources of its question, then the hits of  *)
(* the contexts, every place of a document once.                           *)
FirstPlaces(hs) == FirstOf(hs, [k \in DOMAIN hs |-> <<hs[k].path, hs[k].place>>])
Evidence(sources) ==
  FirstFew(FirstPlaces(sources \o Searched(ContextQuery(1)) \o Searched(ContextQuery(2))
                               \o Searched(ContextQuery(3))), EvidenceLimit)
Warnings(hs) == FirstOf(hs, [k \in DOMAIN hs |-> <<hs[k].source, hs[k].place>>])

----------------------------------------------------------------------------
NoAnswer == [sources |-> <<>>, confidence |-> "low"]

(* A question is asked of the service (/api/rag/qa), or of a draft that    *)
(* wants evidence (/api/draft); a final review asks by itself.             *)
Calls ==
  [use : {"question", "draft"}, kind : {"policy", "similar_report", "general", "current_input"},
   enabled : BOOLEAN, topk : TopKs, types : TypeChoices, vector : BOOLEAN,
   product : BOOLEAN, ready : BOOLEAN]
ReviewCall ==
  [use |-> "review", kind |-> "general", enabled |-> FALSE, topk |-> ReviewTopK, types |-> {},
   vector |-> FALSE, product |-> FALSE, ready |-> FALSE]
RetrievalInit ==
  /\ library \in Libraries
  /\ asked \in {c \in Calls : c.use = "draft" => c.topk = 0 /\ c.types = {}}
               \union {ReviewCall}
  /\ stage = "asked" /\ modelCalls = 0
  /\ found = <<>> /\ hits = <<>> /\ answer = NoAnswer /\ cited = <<>>

(* With retrieval off nothing is searched for a question or a draft.       *)
Decline ==
  /\ stage = "asked" /\ asked.use # "review" /\ ~asked.enabled
  /\ stage' = "done" /\ answer' = NoAnswer
  /\ UNCHANGED <<library, asked, modelCalls, found, hits, cited>>

(* A question about the request is answered from the request.              *)
AnswerFromInput ==
  /\ stage = "asked" /\ asked.use # "review" /\ asked.enabled /\ asked.kind = "current_input"
  /\ stage' = "answered" /\ answer' = [NoAnswer EXCEPT !.confidence = "high"]
  /\ UNCHANGED <<library, asked, modelCalls, found, hits, cited>>

Search ==
  /\ stage = "asked" /\ asked.use # "review" /\ asked.enabled /\ asked.kind # "current_input"
  /\ stage' = "found"
  /\ found' = Searched(QuestionQuery) /\ hits' = found'
  /\ UNCHANGED <<library, asked, modelCalls, answer, cited>>

(* An error of the search is an answer without sources; a draft or a       *)
(* review fails with it.                                                   *)
SearchFails ==
  /\ stage = "asked"
  /\ asked.use # "review" => asked.enabled /\ asked.kind # "current_input"
  /\ stage' = IF asked.use = "question" THEN "done" ELSE "failed"
  /\ UNCHANGED <<library, asked, modelCalls, found, hits, answer, cited>>

(* Few hits, or no language model, and they stay in their order.           *)
LeaveOrder ==
  /\ stage = "found"
  /\ asked.ready => Min({Window, Len(hits)}) < 2
  /\ stage' = "ordered"
  /\ UNCHANGED <<library, asked, modelCalls, found, hits, answer, cited>>

AskModel ==
  /\ stage = "found" /\ asked.ready /\ Min({Window, Len(hits)}) >= 2
  /\ stage' = "asking" /\ modelCalls' = 1
  /\ UNCHANGED <<library, asked, found, hits, answer, cited>>

(* A model that does not know the parameter for the length of its answer   *)
(* is asked once more with the other one.                                  *)
AskOtherwise ==
  /\ stage = "asking" /\ modelCalls = 1
  /\ modelCalls' = 2
  /\ UNCHANGED <<library, asked, stage, found, hits, answer, cited>>

(* It fails, or its answer is not a ranking.                               *)
ModelFails ==
  /\ stage = "asking" /\ stage' = "ordered"
  /\ UNCHANGED <<library, asked, modelCalls, found, hits, answer, cited>>

ModelRanks(ranking) ==
  /\ stage = "asking" /\ stage' = "ordered"
  /\ hits' = Reranked(hits, ranking)
  /\ UNCHANGED <<library, asked, modelCalls, found, answer, cited>>

Answer ==
  /\ stage = "ordered" /\ stage' = "answered"
  /\ answer' = [sources |-> Sources(hits), confidence |-> Confidence(asked.kind, Sources(hits))]
  /\ UNCHANGED <<library, asked, modelCalls, found, hits, cited>>

Cite ==
  /\ stage = "answered" /\ asked.use = "draft" /\ stage' = "done"
  /\ cited' = Evidence(answer.sources)
  /\ UNCHANGED <<library, asked, modelCalls, found, hits, answer>>

Warn ==
  /\ stage = "asked" /\ asked.use = "review" /\ stage' = "done"
  /\ found' = Searched(ReviewQuery) /\ hits' = found' /\ cited' = Warnings(found')
  /\ UNCHANGED <<library, asked, modelCalls, answer>>

(* Number 0 stands for what names no hit.                                  *)
RetrievalNext ==
  \/ Decline \/ AnswerFromInput \/ Search \/ SearchFails
  \/ LeaveOrder \/ AskModel \/ AskOtherwise \/ ModelFails
  \/ \E n \in 0..RankingLimit : \E ranking \in [1..n -> 0..Window] : ModelRanks(ranking)
  \/ Answer \/ Cite \/ Warn

RetrievalSpec == RetrievalInit /\ [][RetrievalNext]_retrievalVars

----------------------------------------------------------------------------
(* Properties.                                                             *)

Stages == {"asked", "found", "asking", "ordered", "answered", "done", "failed"}
Query  == IF asked.use = "review" THEN ReviewQuery ELSE QuestionQuery

(* The variables have their types; never more hits than asked for, of no   *)
(* kind that was not; and the model is asked twice at most.                *)
RetrievalTypeOK ==
  /\ library \in Libraries /\ asked \in Calls \union {ReviewCall}
  /\ stage \in Stages /\ modelCalls \in 0..2
  /\ Len(found) <= Limit(Query) /\ \A h \in Range(found) : h.type \in Query.types
  /\ \A h \in Range(found) \union Range(hits) \union Range(cited) :
       h.passage \in DOMAIN library /\ h.type = library[h.passage].type
  /\ answer.confidence \in {"low", "medium", "high"}

(* An answer has every text that was found as a source, once, whatever the *)
(* model made of their order; a located passage is not there twice; and it *)
(* is given as sure only for a question on rules with both kinds found.    *)
AnswerRestsOnSearch ==
  stage = "answered" /\ asked.kind # "current_input" =>
    /\ {SourceKey(s) : s \in Range(answer.sources)} = {SourceKey(h) : h \in Range(found)}
    /\ \A i, j \in DOMAIN answer.sources : i # j =>
         /\ SourceKey(answer.sources[i]) # SourceKey(answer.sources[j])
         /\ answer.sources[i].passage = answer.sources[j].passage =>
              library[answer.sources[i].passage].place = 0
    /\ answer.confidence = "high" <=>
         asked.kind = "policy" /\ {"sop", "nxi"} \subseteq {h.type : h \in Range(found)}

=============================================================================
