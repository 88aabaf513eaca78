------------------------ MODULE DeferredFacts_proofs -------------------------
(***************************************************************************)
(* Proofs about the facts kept beside a request, for any number of places, *)
(* facts and proposals, when requests are served one after the other: with *)
(* a second thread what was read of the facts is stale when it is used,    *)
(* and facts are lost.                                                     *)
(***************************************************************************)
EXTENDS DeferredFacts, FiniteSetTheorems, FunctionTheorems, WellFoundedInduction, TLAPS

OneAtATime == \A v, w \in FactThreads : v = w

Writings   == UNION {[X -> Contained] : X \in SUBSET Places}
Statuses == {"pending", "approved", "rejected", "conflicted"}
Ids      == 1..FactLimit
Proposal == [base : Nat, writes : Writings, status : Statuses, link : SUBSET Ids]
Telling  == {NoFact} \cup [place : Places, value : Contained]
Purposes == {"chat", "save", "decision"}
Now      == [doc |-> document, version |-> docVersion]

Concluded(p) == proposed[p].status \in {"approved", "rejected"}

(* Facts that may still be proposed: nothing was decided about them.       *)
Proposable(ids) ==
  /\ ids \subseteq 1..told
  /\ \A p \in DOMAIN proposed : Concluded(p) => ids \cap proposed[p].link = {}

DocumentHolds ==
  /\ document \in [Places -> Contained \cup {Nowhere, Ambiguous, Vacant}]
  /\ docVersion \in Nat \ {0}
  /\ told \in 0..FactLimit

(* A store of facts: one for a place, each with a turn of its own, which   *)
(* is that of the first fact about its place; the last id given is "last".  *)
Store(fs, last) ==
  /\ fs \subseteq Fact
  /\ IsFiniteSet(fs) /\ Cardinality(fs) <= FactCap
  /\ \A f \in fs : f.since <= f.id /\ f.id <= last
  /\ \A f, g \in fs : f.place = g.place \/ f.id = g.id \/ f.since = g.since => f = g

(* At most one proposal is undecided, and what it includes no decided one  *)
(* does.                                                                   *)
ProposedHold ==
  /\ proposed \in Seq(Proposal)
  /\ \A p \in DOMAIN proposed : /\ proposed[p].base \in 1..docVersion
                                /\ proposed[p].link \subseteq 1..told
  /\ \A p, q \in Pending : p = q
  /\ \A p \in Pending : Proposable(proposed[p].link)

(* What the thread holds is what the stores hold, and what it is going to  *)
(* link nobody has decided on.                                             *)
JobHolds(job) ==
  \/ job = Free
  \/ job \in [at : {"look"}, for : Purposes]
  \/ job \in [at : {"read"}, for : Purposes, snapshot : {Now}]
  \/ job \in [at : {"replace"}, for : Purposes, snapshot : {Now}, seen : {facts}]
  \/ job \in [at : {"think"}, snapshot : {Now}, ready : SUBSET facts]
  \/ job \in [at : {"follow"}, ready : SUBSET facts]
  \/ /\ job \in [at : {"remove", "add", "create"}, action : {"answer", "clarify", "propose"},
                 writes : Writings, fact : Telling, version : {docVersion},
                 superseded : SUBSET Ids, included : SUBSET Ids]
     /\ Proposable(job.included)
     /\ job.at \in {"remove", "add"} => job.fact = NoFact \/ told < FactLimit
  \/ /\ job \in [at : {"link"}, proposal : DOMAIN proposed, link : SUBSET Ids]
     /\ Proposable(job.link)
     /\ proposed[job.proposal].status = "pending"
  \/ /\ job \in [at : {"unlink"}, proposal : DOMAIN proposed, status : Statuses]
     /\ job.status = proposed[job.proposal].status

(* A decided fact is kept only while its decision is being dealt with.     *)
DecidedLeave ==
  \A p \in DOMAIN proposed : Concluded(p) =>
    \/ FactIds(facts) \cap proposed[p].link = {}
    \/ \E w \in FactThreads : handler[w].at = "unlink" /\ handler[w].proposal = p

FactsInvariant ==
  /\ OneAtATime
  /\ DocumentHolds /\ Store(facts, told) /\ ProposedHold /\ DecidedLeave
  /\ DOMAIN handler = FactThreads
  /\ \A w \in FactThreads : JobHolds(handler[w])

-----------------------------------------------------------------------------
(***************************************************************************)
(* Some natural number of a set is the least one.                          *)
(***************************************************************************)
LEMMA LeastOne ==
  ASSUME NEW T \in SUBSET Nat, T # {}
  PROVE  \E x \in T : \A y \in T : x <= y
<1>1. PICK x \in T : \A y \in T : ~(<<y, x>> \in OpToRel(<, Nat))
  BY NatLessThanWellFounded, WFMin
<1>2. ASSUME NEW y \in T, y < x
      PROVE  FALSE
  <2>1. <<y, x>> \in Nat \X Nat /\ <<y, x>>[1] < <<y, x>>[2]
    BY <1>2
  <2>2. <<y, x>> \in OpToRel(<, Nat)
    BY <2>1 DEF OpToRel
  <2> QED
    BY <1>1, <2>2
<1> QED
  BY <1>2

(***************************************************************************)
(* Part of a store is a store.                                             *)
(***************************************************************************)
LEMMA StorePart ==
  ASSUME NEW fs, NEW gs \in SUBSET fs, NEW last, Store(fs, last)
  PROVE  Store(gs, last)
<1>1. IsFiniteSet(gs) /\ Cardinality(gs) <= Cardinality(fs)
  BY FS_Subset DEF Store
<1>2. Cardinality(gs) \in Nat /\ Cardinality(fs) \in Nat /\ FactCap \in Nat
  BY <1>1, FS_CardinalityType, FactsAssumption DEF Store
<1> QED
  BY <1>1, <1>2 DEF Store

(***************************************************************************)
(* Reconciling a store gives a store of facts that were there, with the    *)
(* same ids and places (reconcile_deferred_facts).                         *)
(***************************************************************************)
LEMMA RetainedStore ==
  ASSUME DocumentHolds, NEW last \in Nat, Store(facts, last)
  PROVE  /\ Store(Retained(facts, Now), last)
         /\ FactIds(Retained(facts, Now)) \subseteq FactIds(facts)
<1> DEFINE turned(f) == [f EXCEPT !.resolution = Resolution(f, document), !.checked = docVersion]
           turn  == [f \in facts |-> turned(f)]
           kept  == Retained(facts, Now)
           all   == Checked(facts, Now)
           Loose == [id : Ids, since : Ids, place : Places, value : Contained,
                     resolution : {"waiting_target", "ambiguous", "ready", "already_applied",
                                   "superseded"}, checked : 1..docVersion]
<1>1. /\ Now.doc = document /\ Now.version = docVersion
      /\ all = {turned(f) : f \in facts}
  BY DEF Now, Checked
<1>2. ASSUME NEW f \in facts
      PROVE  /\ turned(f) \in Loose /\ turned(f).id = f.id /\ turned(f).since = f.since
             /\ turned(f).place = f.place
  <2>1. f \in Fact /\ docVersion \in 1..docVersion
    BY DEF Store, DocumentHolds
  <2>2. Resolution(f, document) \in {"waiting_target", "ambiguous", "ready", "already_applied",
                                     "superseded"}
    BY FactsAssumption DEF Resolution
  <2> QED
    BY <2>1, <2>2 DEF Fact, Ids
<1>3. IsFiniteSet(all) /\ Cardinality(all) <= Cardinality(facts)
  <2>1. turn \in Surjection(facts, all)
    BY <1>1 DEF Surjection
  <2> QED
    BY <2>1, FS_Surjection DEF Store
<1>4. IsFiniteSet(kept) /\ Cardinality(kept) <= Cardinality(all)
  BY <1>3, FS_Subset DEF Retained
<1>5. Cardinality(kept) <= FactCap
  BY <1>3, <1>4, FS_CardinalityType, FactsAssumption DEF Store
<1> HIDE DEF turned, turn
<1>6. kept \subseteq Fact
  <2> SUFFICES ASSUME NEW g \in kept
               PROVE  g \in Fact
    OBVIOUS
  <2>1. g \in all /\ g.resolution \notin {"already_applied", "superseded"}
    BY DEF Retained
  <2>2. g \in Loose
    BY <1>1, <1>2, <2>1
  <2> QED
    BY <2>1, <2>2 DEF Fact, Ids
<1>7. \A g \in kept : \E f \in facts : g = turned(f)
  BY <1>1 DEF Retained
<1>8. \A g \in kept : g.since <= g.id /\ g.id <= last /\ g.id \in FactIds(facts)
  BY <1>2, <1>7 DEF Store, FactIds
<1>9. \A g, h \in kept : g.place = h.place \/ g.id = h.id \/ g.since = h.since => g = h
  BY <1>2, <1>7 DEF Store
<1> QED
  BY <1>4, <1>5, <1>6, <1>8, <1>9 DEF Store, FactIds

(***************************************************************************)
(* Telling a fact gives a store that lacks no fact of before but the one   *)
(* about the same place and, of a full store, the oldest                   *)
(* (add_deferred_input_facts).                                             *)
(***************************************************************************)
LEMMA ToldStore ==
  ASSUME NEW last \in 0..FactLimit, last < FactLimit, Store(facts, last), DocumentHolds,
         NEW place \in Places, NEW value \in Contained, NEW version \in 1..docVersion
  PROVE  LET new == [id |-> last + 1, since |-> last + 1, place |-> place, value |-> value,
                     resolution |-> "waiting_target", checked |-> version]
         IN /\ Store(WithFact(facts, new), last + 1)
            /\ FactIds(WithFact(facts, new)) \subseteq FactIds(facts) \cup {last + 1}
            /\ \A f \in facts \ WithFact(facts, new) :
                 \/ \E g \in WithFact(facts, new) : g.place = f.place /\ g.id > f.id
                 \/ Cardinality(facts) = FactCap /\ f \in Oldest(facts)
<1> DEFINE new == [id |-> last + 1, since |-> last + 1, place |-> place, value |-> value,
                   resolution |-> "waiting_target", checked |-> version]
           same == {f \in facts : f.place = place}
           fs   == WithFact(facts, new)
<1>1. /\ new \in Fact /\ new.id = last + 1 /\ new.since = last + 1 /\ new.place = place
      /\ FactLimit \in Nat /\ FactCap \in Nat \ {0} /\ last \in Nat
  BY FactsAssumption DEF Fact, Ids
<1> HIDE DEF new
<1>2. /\ facts \subseteq Fact /\ IsFiniteSet(facts) /\ Cardinality(facts) <= FactCap
      /\ Cardinality(facts) \in Nat
      /\ \A f \in facts : /\ f.since <= f.id /\ f.id <= last
                          /\ f.id \in Nat /\ f.since \in Nat
      /\ \A f, g \in facts : f.place = g.place \/ f.id = g.id \/ f.since = g.since => f = g
  BY FS_CardinalityType DEF Store, Fact
<1>3. CASE same = {}
  <2> DEFINE all == facts \cup {new}
  <2>1. fs = IF Cardinality(all) > FactCap THEN all \ Oldest(all) ELSE all
    BY <1>1, <1>3 DEF WithFact
  <2>2. new \notin facts
    BY <1>1, <1>2
  <2>3. IsFiniteSet(all) /\ Cardinality(all) = Cardinality(facts) + 1
    BY <1>2, <2>2, FS_AddElement
  <2>4. \A f \in facts : f.place # new.place /\ f.id # new.id /\ f.since # new.since
    BY <1>1, <1>2, <1>3
  <2>5. /\ \A f \in all : f.since <= f.id /\ f.id <= last + 1
        /\ \A f, g \in all : f.place = g.place \/ f.id = g.id \/ f.since = g.since => f = g
    BY <1>1, <1>2, <2>4
  <2>6. FactIds(all) = FactIds(facts) \cup {last + 1}
    BY <1>1 DEF FactIds
  <2>7. CASE Cardinality(all) <= FactCap
    <3>1. fs = all
      BY <1>1, <1>2, <2>1, <2>3, <2>7
    <3> QED
      BY <1>1, <1>2, <2>3, <2>5, <2>6, <2>7, <3>1 DEF Store, new
  <2>8. CASE Cardinality(all) > FactCap
    <3>1. fs = all \ Oldest(all) /\ Cardinality(facts) = FactCap
      BY <1>1, <1>2, <2>1, <2>3, <2>8
    <3>2. PICK m \in all : \A g \in all : m.since <= g.since
      <4>1. {f.since : f \in all} \in SUBSET Nat /\ {f.since : f \in all} # {}
        BY <1>1, <1>2
      <4>2. PICK x \in {f.since : f \in all} : \A y \in {f.since : f \in all} : x <= y
        BY <4>1, LeastOne
      <4> QED
        BY <4>2
    <3>3. IsFiniteSet(all \ {m}) /\ Cardinality(all \ {m}) = FactCap
      BY <1>1, <1>2, <2>3, <3>1, <3>2, FS_RemoveElement
    <3>4. fs \subseteq all \ {m}
      BY <3>1, <3>2 DEF Oldest
    <3>5. Store(all \ {m}, last + 1)
      BY <1>1, <1>2, <2>5, <3>3 DEF Store
    <3>6. Store(fs, last + 1)
      BY <3>4, <3>5, StorePart
    <3>7. FactIds(fs) \subseteq FactIds(facts) \cup {last + 1}
      BY <2>6, <3>1 DEF FactIds
    <3>8. \A f \in facts \ fs : f \in Oldest(facts)
      BY <3>1 DEF Oldest
    <3> QED
      BY <3>1, <3>6, <3>7, <3>8 DEF new
  <2> QED
    BY <1>1, <1>2, <2>3, <2>7, <2>8
<1>4. CASE same # {}
  <2>1. PICK old \in facts : same = {old} /\ old.place = place
    BY <1>2, <1>4
  <2> DEFINE put == [new EXCEPT !.since = old.since]
             rest == facts \ {old}
             all  == rest \cup {put}
  <2>2. (CHOOSE f \in same : TRUE) = old
    BY <2>1
  <2>3. fs = IF Cardinality(all) > FactCap THEN all \ Oldest(all) ELSE all
    <3>1. {f \in facts : f.place = new.place} = same /\ facts \ same = rest
      BY <1>1, <2>1
    <3> QED
      BY <1>4, <2>2, <3>1 DEF WithFact
  <2>4. /\ put \in Fact /\ put.id = last + 1 /\ put.place = place /\ put.since = old.since
    BY <1>1, <1>2 DEF Fact
  <2> HIDE DEF put
  <2>5. /\ IsFiniteSet(rest) /\ Cardinality(rest) = Cardinality(facts) - 1
        /\ rest \subseteq facts
    BY <1>2, FS_RemoveElement
  <2>6. put \notin rest
    BY <1>1, <1>2, <2>4
  <2>7. IsFiniteSet(all) /\ Cardinality(all) = Cardinality(facts)
    <3>1. Cardinality(all) = Cardinality(rest) + 1 /\ IsFiniteSet(all)
      BY <2>5, <2>6, FS_AddElement
    <3> QED
      BY <1>2, <2>5, <3>1
  <2>8. fs = all
    BY <1>1, <1>2, <2>3, <2>7
  <2>9. \A f \in rest : f.place # put.place /\ f.id # put.id /\ f.since # put.since
    BY <1>1, <1>2, <2>1, <2>4
  <2>10. /\ \A f \in all : f.since <= f.id /\ f.id <= last + 1
         /\ \A f, g \in all : f.place = g.place \/ f.id = g.id \/ f.since = g.since => f = g
    BY <1>1, <1>2, <2>4, <2>9
  <2>11. Store(fs, last + 1)
    BY <1>2, <2>4, <2>5, <2>7, <2>8, <2>10 DEF Store
  <2>12. FactIds(fs) \subseteq FactIds(facts) \cup {last + 1}
    BY <2>4, <2>8 DEF FactIds
  <2>13. \A f \in facts \ fs : \E g \in fs : g.place = f.place /\ g.id > f.id
    BY <1>1, <1>2, <2>1, <2>4, <2>8
  <2> QED
    BY <2>11, <2>12, <2>13 DEF new
<1> QED
  BY <1>3, <1>4

-----------------------------------------------------------------------------
(***************************************************************************)
(* In the initial states nothing is kept, proposed or done.                *)
(***************************************************************************)
LEMMA FactsInvariantInit == FactsInit /\ OneAtATime => FactsInvariant
<1> SUFFICES ASSUME FactsInit, OneAtATime
             PROVE  FactsInvariant
  OBVIOUS
<1>1. DocumentHolds
  BY FactsAssumption DEF FactsInit, DocumentHolds
<1>2. Store(facts, told)
  BY FS_EmptySet, FactsAssumption DEF FactsInit, Store
<1>3. ProposedHold /\ DecidedLeave
  BY DEF FactsInit, ProposedHold, Pending, DecidedLeave
<1>4. DOMAIN handler = FactThreads /\ \A w \in FactThreads : JobHolds(handler[w])
  BY DEF FactsInit, JobHolds
<1> QED
  BY <1>1, <1>2, <1>3, <1>4 DEF FactsInvariant

(***************************************************************************)
(* There is one thread, so the only job is the one that moves.             *)
(***************************************************************************)
LEMMA OneJob ==
  ASSUME FactsInvariant, NEW w \in FactThreads, NEW job, Goes(w, job), JobHolds(job)'
  PROVE  /\ DOMAIN handler' = FactThreads /\ handler'[w] = job
         /\ \A v \in FactThreads : JobHolds(handler[v])'
         /\ \A v \in FactThreads : v = w
<1>1. DOMAIN handler' = FactThreads /\ handler'[w] = job
  BY DEF FactsInvariant, Goes
<1>2. \A v \in FactThreads : v = w
  BY DEF FactsInvariant, OneAtATime
<1> QED
  BY <1>1, <1>2

(***************************************************************************)
(* A step that writes no store, and does not end a decision, keeps the     *)
(* invariant if the thread holds what it should.                           *)
(***************************************************************************)
LEMMA WorkerMoves ==
  ASSUME FactsInvariant, NEW w \in FactThreads, NEW job, Goes(w, job), JobHolds(job),
         handler[w].at # "unlink", UNCHANGED <<document, docVersion, facts, proposed, told>>
  PROVE  FactsInvariant'
<1>1. JobHolds(job)'
  BY DEF JobHolds, Proposable, Concluded, Now
<1>2. \A v \in FactThreads : v = w /\ JobHolds(handler[v])'
  BY <1>1, OneJob
<1>3. DOMAIN handler' = FactThreads
  BY <1>1, OneJob
<1>4. DocumentHolds' /\ Store(facts, told)' /\ ProposedHold' /\ OneAtATime'
  BY DEF FactsInvariant, DocumentHolds, Store, Fact, ProposedHold, Pending, Proposable, Concluded,
         OneAtATime
<1>5. DecidedLeave'
  <2>1. \A v \in FactThreads : handler[v].at # "unlink"
    BY <1>2
  <2>2. \A p \in DOMAIN proposed : Concluded(p) => FactIds(facts) \cap proposed[p].link = {}
    BY <2>1 DEF FactsInvariant, DecidedLeave
  <2> QED
    BY <2>2 DEF DecidedLeave, Concluded, FactIds
<1> QED
  BY <1>2, <1>3, <1>4, <1>5 DEF FactsInvariant

(***************************************************************************)
(* What is kept while no decision is being dealt with is open.             *)
(***************************************************************************)
LEMMA KeptAreOpen ==
  ASSUME FactsInvariant, NEW w \in FactThreads, handler[w].at # "unlink",
         NEW fs \in SUBSET facts
  PROVE  Proposable({f.id : f \in fs}) /\ {f.id : f \in fs} \in SUBSET Ids
<1>1. \A v \in FactThreads : handler[v].at # "unlink"
  BY DEF FactsInvariant, OneAtATime
<1>2. \A p \in DOMAIN proposed : Concluded(p) => FactIds(facts) \cap proposed[p].link = {}
  BY <1>1 DEF FactsInvariant, DecidedLeave
<1>3. \A f \in facts : f.id \in Ids /\ f.id \in 1..told
  <2>1. \A f \in facts : f.id \in Ids /\ f.id <= told
    BY DEF FactsInvariant, Store, Fact, Ids
  <2> QED
    BY <2>1, FactsAssumption DEF FactsInvariant, DocumentHolds, Ids
<1> QED
  BY <1>2, <1>3 DEF Proposable, FactIds

(***************************************************************************)
(* The shape of what a thread holds, stage by stage.                       *)
(***************************************************************************)
LEMMA JobAt ==
  ASSUME NEW job, JobHolds(job)
  PROVE  /\ job.at = "look" => job.for \in Purposes
         /\ job.at = "read" => job.for \in Purposes /\ job.snapshot = Now
         /\ job.at = "replace" => /\ job.for \in Purposes /\ job.snapshot = Now
                                  /\ job.seen = facts
         /\ job.at = "think" => job.snapshot = Now /\ job.ready \subseteq facts
         /\ job.at = "follow" => job.ready \subseteq facts
         /\ job.at \in {"remove", "add", "create"} =>
              /\ job \in [at : {"remove", "add", "create"},
                          action : {"answer", "clarify", "propose"}, writes : Writings,
                          fact : Telling, version : {docVersion}, superseded : SUBSET Ids,
                          included : SUBSET Ids]
              /\ Proposable(job.included)
              /\ job.at # "create" => job.fact = NoFact \/ told < FactLimit
         /\ job.at = "link" => /\ job.proposal \in DOMAIN proposed
                               /\ job.link \in SUBSET Ids /\ Proposable(job.link)
                               /\ proposed[job.proposal].status = "pending"
         /\ job.at = "unlink" => /\ job.proposal \in DOMAIN proposed
                                 /\ job.status = proposed[job.proposal].status
BY DEF JobHolds, Free

(***************************************************************************)
(* The writes of the chat and of the ready facts are writes.               *)
(***************************************************************************)
LEMMA WritesHold ==
  ASSUME Store(facts, told), NEW ready \in SUBSET facts, NEW own \in Writings
  PROVE  WritesOf(ready) \in Writings /\ Merged(own, WritesOf(ready)) \in Writings
<1>1. \A f \in ready : f.place \in Places /\ f.value \in Contained
  BY DEF Store, Fact
<1>2. \A x \in {f.place : f \in ready} :
        (CHOOSE f \in ready : f.place = x).value \in Contained
  BY <1>1
<1>3. WritesOf(ready) \in [{f.place : f \in ready} -> Contained]
  BY <1>2 DEF WritesOf
<1>4. {f.place : f \in ready} \in SUBSET Places
  BY <1>1
<1>5. PICK X \in SUBSET Places : own \in [X -> Contained]
  BY DEF Writings
<1>6. Merged(own, WritesOf(ready)) \in [X \cup {f.place : f \in ready} -> Contained]
  BY <1>3, <1>5 DEF Merged
<1> QED
  BY <1>3, <1>4, <1>5, <1>6 DEF Writings

-----------------------------------------------------------------------------
(***************************************************************************)
(* A chat begins; the document and the facts are read.                     *)
(***************************************************************************)
LEMMA LookKeeps ==
  ASSUME FactsInvariant, NEW w \in FactThreads, BeginChat(w) \/ LookAtDocument(w) \/ ReadFacts(w)
  PROVE  FactsInvariant'
<1>1. JobHolds(handler[w])
  BY DEF FactsInvariant
<1>2. CASE BeginChat(w)
  <2> DEFINE job == [at |-> "look", for |-> "chat"]
  <2>1. JobHolds(job)
    BY DEF JobHolds, Purposes
  <2>2. /\ Goes(w, job) /\ handler[w].at # "unlink"
        /\ UNCHANGED <<document, docVersion, facts, proposed, told>>
    BY <1>2 DEF BeginChat
  <2> HIDE DEF job
  <2> QED
    BY <2>1, <2>2, WorkerMoves
<1>3. CASE LookAtDocument(w)
  <2> DEFINE job == [at |-> "read", for |-> handler[w].for, snapshot |-> Now]
  <2>1. /\ Goes(w, job) /\ handler[w].at = "look"
        /\ UNCHANGED <<document, docVersion, facts, proposed, told>>
    BY <1>3 DEF LookAtDocument, Now
  <2>2. JobHolds(job)
    BY <1>1, <2>1, JobAt DEF JobHolds
  <2> HIDE DEF job
  <2> QED
    BY <2>1, <2>2, WorkerMoves
<1>4. CASE ReadFacts(w)
  <2> DEFINE job == [at |-> "replace", for |-> handler[w].for,
                     snapshot |-> handler[w].snapshot, seen |-> facts]
  <2>1. /\ Goes(w, job) /\ handler[w].at = "read"
        /\ UNCHANGED <<document, docVersion, facts, proposed, told>>
    BY <1>4 DEF ReadFacts
  <2>2. JobHolds(job)
    BY <1>1, <2>1, JobAt DEF JobHolds
  <2> HIDE DEF job
  <2> QED
    BY <2>1, <2>2, WorkerMoves
<1> QED
  BY <1>2, <1>3, <1>4

(***************************************************************************)
(* The document moves on: what was recorded of an older version stays.     *)
(***************************************************************************)
LEMMA NewVersion ==
  ASSUME FactsInvariant, docVersion' = docVersion + 1, UNCHANGED <<facts, told>>
  PROVE  /\ Store(facts, told)'
         /\ \A v : v \in 1..docVersion => v \in 1..docVersion'
         /\ docVersion' \in Nat \ {0}
<1>1. docVersion \in Nat \ {0}
  BY DEF FactsInvariant, DocumentHolds
<1>2. \A v : v \in 1..docVersion => v \in 1..docVersion'
  BY <1>1
<1>3. Fact \subseteq Fact'
  <2> SUFFICES ASSUME NEW f \in Fact
               PROVE  f \in Fact'
    OBVIOUS
  <2>1. f.checked \in 1..docVersion'
    BY <1>2 DEF Fact
  <2> QED
    BY <2>1 DEF Fact
<1> QED
  BY <1>1, <1>2, <1>3 DEF FactsInvariant, Store

(***************************************************************************)
(* A save of the form (replace_versioned_request).                         *)
(***************************************************************************)
LEMMA SaveKeeps ==
  ASSUME FactsInvariant, NEW w \in FactThreads, NEW x \in Places,
         NEW v \in Contained \cup {Nowhere, Ambiguous, Vacant}, SaveDocument(w, x, v)
  PROVE  FactsInvariant'
<1> DEFINE job == [at |-> "look", for |-> "save"]
<1>1. /\ handler[w].at = "free" /\ document' = [document EXCEPT ![x] = v]
      /\ docVersion' = docVersion + 1 /\ Goes(w, job)
      /\ UNCHANGED <<facts, proposed, told>>
  BY DEF SaveDocument
<1>2. JobHolds(job)'
  BY DEF JobHolds, Purposes
<1> HIDE DEF job
<1>3. /\ DOMAIN handler' = FactThreads /\ \A u \in FactThreads : JobHolds(handler[u])'
      /\ \A u \in FactThreads : u = w
  BY <1>1, <1>2, OneJob
<1>4. Store(facts, told)' /\ docVersion' \in Nat \ {0}
  BY <1>1, NewVersion
<1>5. DocumentHolds'
  BY <1>1, <1>4 DEF FactsInvariant, DocumentHolds
<1>6. ProposedHold'
  <2>1. \A n : n \in 1..docVersion => n \in 1..docVersion'
    BY <1>1, NewVersion
  <2> QED
    BY <1>1, <2>1 DEF FactsInvariant, ProposedHold, Pending, Proposable, Concluded
<1>7. DecidedLeave'
  <2>1. \A p \in DOMAIN proposed : Concluded(p) => FactIds(facts) \cap proposed[p].link = {}
    BY <1>1, <1>3 DEF FactsInvariant, DecidedLeave
  <2> QED
    BY <1>1, <2>1 DEF DecidedLeave, Concluded, FactIds
<1> QED
  BY <1>3, <1>4, <1>5, <1>6, <1>7 DEF FactsInvariant, OneAtATime

(***************************************************************************)
(* The store becomes part of what it was, while no decision is dealt with. *)
(***************************************************************************)
LEMMA StoreShrinks ==
  ASSUME FactsInvariant, NEW w \in FactThreads, handler[w].at # "unlink",
         FactIds(facts') \subseteq FactIds(facts), Store(facts', told),
         NEW job, Goes(w, job), JobHolds(job)',
         UNCHANGED <<document, docVersion, proposed, told>>
  PROVE  FactsInvariant'
<1>1. /\ DOMAIN handler' = FactThreads /\ \A u \in FactThreads : JobHolds(handler[u])'
      /\ \A u \in FactThreads : u = w
  BY OneJob
<1>2. Store(facts, told)'
  BY DEF Store, Fact
<1>3. DocumentHolds' /\ ProposedHold'
  BY DEF FactsInvariant, DocumentHolds, ProposedHold, Pending, Proposable, Concluded
<1>4. DecidedLeave'
  <2>1. \A p \in DOMAIN proposed : Concluded(p) => FactIds(facts) \cap proposed[p].link = {}
    BY <1>1 DEF FactsInvariant, DecidedLeave
  <2>2. \A p \in DOMAIN proposed : Concluded(p) => FactIds(facts') \cap proposed[p].link = {}
    BY <2>1
  <2> QED
    BY <2>2 DEF DecidedLeave, Concluded, FactIds
<1> QED
  BY <1>1, <1>2, <1>3, <1>4 DEF FactsInvariant, OneAtATime

(***************************************************************************)
(* Reconciled facts replace the ones read (_reconcile_deferred_input).     *)
(***************************************************************************)
LEMMA ReplaceFactsKeeps ==
  ASSUME FactsInvariant, NEW w \in FactThreads, ReplaceFacts(w)
  PROVE  FactsInvariant'
<1> DEFINE kept == Retained(facts, Now)
<1>1. /\ handler[w].at = "replace" /\ handler[w].for \in Purposes
      /\ handler[w].snapshot = Now /\ handler[w].seen = facts
  BY JobAt DEF FactsInvariant, ReplaceFacts
<1>2. /\ Store(kept, told) /\ FactIds(kept) \subseteq FactIds(facts)
  BY RetainedStore DEF FactsInvariant, DocumentHolds
<1>3. /\ facts' = kept
      /\ UNCHANGED <<document, docVersion, proposed, told>>
  BY <1>1 DEF ReplaceFacts
<1>4. Ready(kept) \subseteq kept
  BY DEF Ready
<1>5. PICK job \in {[at |-> "think", snapshot |-> Now, ready |-> Ready(kept)],
                    [at |-> "follow", ready |-> Ready(kept)], Free} : Goes(w, job)
  BY <1>1 DEF ReplaceFacts, Finishes, Purposes
<1> HIDE DEF kept
<1>6. JobHolds(job)'
  <2>1. Now' = Now
    BY <1>3 DEF Now
  <2>2. CASE job = [at |-> "think", snapshot |-> Now, ready |-> Ready(kept)]
    BY <1>3, <1>4, <2>1, <2>2 DEF JobHolds
  <2>3. CASE job = [at |-> "follow", ready |-> Ready(kept)]
    BY <1>3, <1>4, <2>3 DEF JobHolds
  <2>4. CASE job = Free
    BY <2>4 DEF JobHolds, Free
  <2> QED
    BY <1>5, <2>2, <2>3, <2>4
<1> QED
  BY <1>1, <1>2, <1>3, <1>5, <1>6, StoreShrinks

(***************************************************************************)
(* The model decides (chat_send).                                          *)
(***************************************************************************)
LEMMA ThinkKeeps ==
  ASSUME FactsInvariant, NEW w \in FactThreads,
         NEW action \in {"answer", "clarify", "propose"}, NEW own \in Writings, NEW fact \in Tell,
         Think(w, action, own, fact)
  PROVE  FactsInvariant'
<1> DEFINE ready  == handler[w].ready
           writes == IF action = "answer" THEN own ELSE Merged(own, WritesOf(ready))
           others == {f \in ready : f.place \in DOMAIN writes /\ writes[f.place] # f.value}
           same   == {f \in ready : f.place \in DOMAIN writes /\ writes[f.place] = f.value}
           job    == [at |-> "remove", action |-> action, writes |-> writes, fact |-> fact,
                      version |-> handler[w].snapshot.version,
                      superseded |-> {f.id : f \in others}, included |-> {f.id : f \in same}]
<1>1. /\ handler[w].at = "think" /\ handler[w].snapshot = Now /\ ready \subseteq facts
  BY JobAt DEF FactsInvariant, Think
<1>2. writes \in Writings
  BY <1>1, WritesHold DEF FactsInvariant
<1>3. fact \in Telling /\ (fact = NoFact \/ told < FactLimit)
  BY DEF Tell, Telling
<1>4. {f.id : f \in others} \in SUBSET Ids
  <2>1. others \in SUBSET facts /\ handler[w].at # "unlink"
    BY <1>1
  <2> QED
    BY <2>1, KeptAreOpen
<1>5. {f.id : f \in same} \in SUBSET Ids /\ Proposable({f.id : f \in same})
  <2>1. same \in SUBSET facts /\ handler[w].at # "unlink"
    BY <1>1
  <2> QED
    BY <2>1, KeptAreOpen
<1>6. handler[w].snapshot.version = docVersion
  BY <1>1 DEF Now
<1>7. /\ Goes(w, job) \/ Goes(w, Free)
      /\ UNCHANGED <<document, docVersion, facts, proposed, told>>
  BY DEF Think, Finishes
<1> HIDE DEF writes, others, same
<1>8. JobHolds(job)
  <2>1. /\ job.included = {f.id : f \in same} /\ job.at = "remove" /\ job.fact = fact
        /\ job \in [at : {"remove", "add", "create"}, action : {"answer", "clarify", "propose"},
                    writes : Writings, fact : Telling, version : {docVersion},
                    superseded : SUBSET Ids, included : SUBSET Ids]
    BY <1>2, <1>3, <1>4, <1>5, <1>6
  <2> HIDE DEF job
  <2> QED
    BY <1>3, <1>5, <2>1 DEF JobHolds
<1>9. JobHolds(Free)
  BY DEF JobHolds
<1> HIDE DEF job
<1> QED
  BY <1>1, <1>7, <1>8, <1>9, WorkerMoves

(***************************************************************************)
(* Superseded facts are removed (remove_deferred_input_facts).             *)
(***************************************************************************)
LEMMA RemoveKeeps ==
  ASSUME FactsInvariant, NEW w \in FactThreads, RemoveSuperseded(w)
  PROVE  FactsInvariant'
<1>0. PICK job : job = [handler[w] EXCEPT !.at = "add"]
  OBVIOUS
<1>1. /\ handler[w].at = "remove" /\ Goes(w, job)
      /\ facts' = Without(facts, handler[w].superseded)
      /\ UNCHANGED <<document, docVersion, proposed, told>>
  BY <1>0 DEF RemoveSuperseded
<1>2. /\ handler[w] \in [at : {"remove", "add", "create"},
                         action : {"answer", "clarify", "propose"}, writes : Writings,
                         fact : Telling, version : {docVersion}, superseded : SUBSET Ids,
                         included : SUBSET Ids]
      /\ Proposable(handler[w].included) /\ (handler[w].fact = NoFact \/ told < FactLimit)
  BY <1>1, JobAt DEF FactsInvariant
<1>3. JobHolds(job)'
  <2>1. /\ job \in [at : {"remove", "add", "create"}, action : {"answer", "clarify", "propose"},
                    writes : Writings, fact : Telling, version : {docVersion},
                    superseded : SUBSET Ids, included : SUBSET Ids]
        /\ job.included = handler[w].included /\ job.fact = handler[w].fact
        /\ job.at = "add"
    BY <1>0, <1>2
  <2>2. Proposable(job.included)'
    BY <1>1, <1>2, <2>1 DEF Proposable, Concluded
  <2> QED
    BY <1>1, <1>2, <2>1, <2>2 DEF JobHolds
<1>4. facts' \in SUBSET facts /\ FactIds(facts') \subseteq FactIds(facts)
  BY <1>1 DEF Without, FactIds
<1>5. Store(facts', told)
  BY <1>4, StorePart DEF FactsInvariant
<1> QED
  BY <1>1, <1>3, <1>4, <1>5, StoreShrinks

(***************************************************************************)
(* The fact the model told is kept (add_deferred_input_facts).             *)
(***************************************************************************)
LEMMA AddKeeps ==
  ASSUME FactsInvariant, NEW w \in FactThreads, AddFact(w)
  PROVE  FactsInvariant'
<1> DEFINE old == handler[w]
           new == [id |-> told + 1, since |-> told + 1, place |-> old.fact.place,
                   value |-> old.fact.value, resolution |-> "waiting_target",
                   checked |-> docVersion]
<1>0. PICK job : job = [old EXCEPT !.at = "create"]
  OBVIOUS
<1>1. /\ old.at = "add" /\ UNCHANGED <<document, docVersion, proposed>>
  BY DEF AddFact
<1>2. /\ old \in [at : {"remove", "add", "create"}, action : {"answer", "clarify", "propose"},
                  writes : Writings, fact : Telling, version : {docVersion},
                  superseded : SUBSET Ids, included : SUBSET Ids]
      /\ Proposable(old.included) /\ (old.fact = NoFact \/ told < FactLimit)
  BY <1>1, JobAt DEF FactsInvariant
<1>3. /\ Goes(w, job) \/ Goes(w, Free)
      /\ \/ UNCHANGED <<facts, told>>
         \/ /\ DOMAIN old.fact # {} /\ facts' = WithFact(facts, new) /\ told' = told + 1
  <2>1. old.version = docVersion
    BY <1>2
  <2> QED
    BY <1>0, <1>1, <2>1 DEF AddFact, Finishes
<1>4. /\ job \in [at : {"remove", "add", "create"}, action : {"answer", "clarify", "propose"},
                  writes : Writings, fact : Telling, version : {docVersion},
                  superseded : SUBSET Ids, included : SUBSET Ids]
      /\ job.included = old.included /\ job.at = "create"
  BY <1>0, <1>2
<1>5. CASE UNCHANGED <<facts, told>>
  <2>1. JobHolds(job)
    BY <1>2, <1>4 DEF JobHolds
  <2>2. JobHolds(Free)
    BY DEF JobHolds
  <2> QED
    BY <1>1, <1>3, <1>5, <2>1, <2>2, WorkerMoves
<1>6. CASE DOMAIN old.fact # {} /\ facts' = WithFact(facts, new) /\ told' = told + 1
  <2>1. old.fact # NoFact
    BY <1>6 DEF NoFact
  <2>2. told < FactLimit /\ old.fact.place \in Places /\ old.fact.value \in Contained
    BY <1>2, <2>1 DEF Telling
  <2>3. /\ DocumentHolds /\ told \in 0..FactLimit /\ FactLimit \in Nat
        /\ docVersion \in 1..docVersion
    BY FactsAssumption DEF FactsInvariant, DocumentHolds
  <2>4. /\ Store(facts', told + 1) /\ FactIds(facts') \subseteq FactIds(facts) \cup {told + 1}
    BY <1>6, <2>2, <2>3, ToldStore DEF FactsInvariant
  <2>5. Store(facts, told)'
    BY <1>1, <1>6, <2>4 DEF Store, Fact
  <2>6. DocumentHolds'
    BY <1>1, <1>6, <2>2, <2>3 DEF DocumentHolds
  <2>7. /\ 1..told \subseteq 1..told' /\ told + 1 \notin 1..told
    BY <1>6, <2>3
  <2>8. \A ids : Proposable(ids) => Proposable(ids)'
    BY <1>1, <2>7 DEF Proposable, Concluded
  <2>9. ProposedHold'
    <3>1. \A p \in DOMAIN proposed : proposed[p].link \subseteq 1..told'
      BY <2>7 DEF FactsInvariant, ProposedHold
    <3> QED
      BY <1>1, <2>8, <3>1 DEF FactsInvariant, ProposedHold, Pending
  <2>10. JobHolds(job)'
    <3>1. Proposable(job.included)'
      BY <1>2, <1>4, <2>8
    <3> QED
      BY <1>1, <1>4, <3>1 DEF JobHolds
  <2>11. JobHolds(Free)'
    BY DEF JobHolds
  <2>12. PICK next \in {job, Free} : Goes(w, next) /\ JobHolds(next)'
    BY <1>3, <2>10, <2>11
  <2>13. /\ DOMAIN handler' = FactThreads /\ \A u \in FactThreads : JobHolds(handler[u])'
         /\ \A u \in FactThreads : u = w
    BY <2>12, OneJob
  <2>14. DecidedLeave'
    <3>1. \A p \in DOMAIN proposed : Concluded(p) => FactIds(facts) \cap proposed[p].link = {}
      BY <1>1, <2>13 DEF FactsInvariant, DecidedLeave
    <3>2. \A p \in DOMAIN proposed : told + 1 \notin proposed[p].link
      BY <2>7 DEF FactsInvariant, ProposedHold
    <3>3. \A p \in DOMAIN proposed : Concluded(p) => FactIds(facts') \cap proposed[p].link = {}
      BY <2>4, <3>1, <3>2
    <3> QED
      BY <1>1, <3>3 DEF DecidedLeave, Concluded, FactIds
  <2> QED
    BY <2>5, <2>6, <2>9, <2>13, <2>14 DEF FactsInvariant, OneAtATime
<1> QED
  BY <1>3, <1>5, <1>6

(***************************************************************************)
(* A proposal is recorded while no other is undecided; its facts are open. *)
(***************************************************************************)
LEMMA ProposalIsAdded ==
  ASSUME FactsInvariant, NEW w \in FactThreads, handler[w].at # "unlink", Pending = {},
         NEW writes \in Writings, NEW ids \in SUBSET Ids, Proposable(ids),
         proposed' = Append(proposed, NewProposal(docVersion, writes)),
         Goes(w, [at |-> "link", proposal |-> Len(proposed) + 1, link |-> ids]),
         UNCHANGED <<document, docVersion, facts, told>>
  PROVE  FactsInvariant'
<1> DEFINE new == NewProposal(docVersion, writes)
<1>0. PICK n, job : n = Len(proposed) + 1 /\ job = [at |-> "link", proposal |-> n, link |-> ids]
  OBVIOUS
<1>1. /\ proposed \in Seq(Proposal) /\ docVersion \in Nat \ {0}
      /\ told \in 0..FactLimit
  BY DEF FactsInvariant, ProposedHold, DocumentHolds
<1>2. /\ new \in Proposal /\ new.status = "pending" /\ new.link = {} /\ new.base = docVersion
  BY <1>1 DEF NewProposal, Proposal, Statuses
<1> HIDE DEF new
<1>3. /\ proposed' \in Seq(Proposal) /\ DOMAIN proposed = 1..Len(proposed)
      /\ DOMAIN proposed' = 1..n /\ Len(proposed') = n /\ n \in DOMAIN proposed'
      /\ proposed'[n] = new /\ n \notin DOMAIN proposed
      /\ \A p \in DOMAIN proposed : p \in DOMAIN proposed' /\ proposed'[p] = proposed[p]
      /\ \A p \in DOMAIN proposed' : p \in DOMAIN proposed \/ p = n
  BY <1>0, <1>1, <1>2 DEF new
<1>4. /\ ~Concluded(n)' /\ \A p \in DOMAIN proposed : Concluded(p)' <=> Concluded(p)
  BY <1>2, <1>3 DEF Concluded
<1>5. \A x : Proposable(x) => Proposable(x)'
  BY <1>3, <1>4 DEF Proposable
<1>6. Pending' = {n}
  <2>1. \A p \in DOMAIN proposed : proposed[p].status # "pending"
    BY <1>3 DEF Pending
  <2> QED
    BY <1>2, <1>3, <2>1 DEF Pending
<1>7. ProposedHold'
  <2>1. \A p \in DOMAIN proposed' : /\ proposed'[p].base \in 1..docVersion
                                    /\ proposed'[p].link \subseteq 1..told
    BY <1>1, <1>2, <1>3 DEF FactsInvariant, ProposedHold
  <2>2. Proposable({})'
    BY DEF Proposable
  <2> QED
    BY <1>2, <1>3, <1>6, <2>1, <2>2 DEF ProposedHold
<1>8. JobHolds(job)'
  <2>1. /\ job \in [at : {"link"}, proposal : DOMAIN proposed', link : SUBSET Ids]
        /\ job.link = ids /\ job.proposal = n
    BY <1>0, <1>3
  <2>2. Proposable(job.link)' /\ proposed'[job.proposal].status = "pending"
    BY <1>2, <1>3, <1>5, <2>1
  <2> QED
    BY <2>1, <2>2 DEF JobHolds
<1>9. /\ DOMAIN handler' = FactThreads /\ \A u \in FactThreads : JobHolds(handler[u])'
      /\ \A u \in FactThreads : u = w
  <2>1. Goes(w, job)
    BY <1>0
  <2> QED
    BY <1>8, <2>1, OneJob
<1>10. DecidedLeave'
  <2>1. \A p \in DOMAIN proposed : Concluded(p) => FactIds(facts) \cap proposed[p].link = {}
    BY <1>9 DEF FactsInvariant, DecidedLeave
  <2>2. \A p \in DOMAIN proposed' : Concluded(p)' => FactIds(facts') \cap proposed'[p].link = {}
    BY <1>3, <1>4, <2>1
  <2> QED
    BY <2>2 DEF DecidedLeave, FactIds
<1>11. DocumentHolds' /\ Store(facts, told)' /\ OneAtATime'
  BY DEF FactsInvariant, DocumentHolds, Store, Fact, OneAtATime
<1> QED
  BY <1>7, <1>9, <1>10, <1>11 DEF FactsInvariant

(***************************************************************************)
(* The chat's proposal, and the follow-up of an approval                   *)
(* (create_proposal, decide_orchestrator_proposal).                        *)
(***************************************************************************)
LEMMA ProposeKeeps ==
  ASSUME FactsInvariant, NEW w \in FactThreads, CreateFromChat(w) \/ FollowUp(w)
  PROVE  FactsInvariant'
<1>1. JobHolds(handler[w]) /\ JobHolds(Free)
  BY DEF FactsInvariant, JobHolds
<1>2. CASE CreateFromChat(w)
  <2>1. /\ handler[w].at = "create" /\ handler[w].writes \in Writings
        /\ handler[w].included \in SUBSET Ids /\ Proposable(handler[w].included)
    BY <1>1, <1>2, JobAt DEF CreateFromChat
  <2>2. PICK writes \in Writings, ids \in SUBSET Ids :
          writes = handler[w].writes /\ ids = handler[w].included
    BY <2>1
  <2>3. CASE Pending = {} /\ handler[w].version = docVersion /\ Len(proposed) < FollowLimit
    <3>1. /\ proposed' = Append(proposed, NewProposal(docVersion, writes))
          /\ Goes(w, [at |-> "link", proposal |-> Len(proposed) + 1, link |-> ids])
          /\ UNCHANGED <<document, docVersion, facts, told>>
      BY <1>2, <2>2, <2>3 DEF CreateFromChat
    <3> QED
      BY <2>1, <2>2, <2>3, <3>1, ProposalIsAdded
  <2>4. CASE ~(Pending = {} /\ handler[w].version = docVersion /\ Len(proposed) < FollowLimit)
    <3>1. Goes(w, Free) /\ UNCHANGED <<document, docVersion, facts, proposed, told>>
      BY <1>2, <2>4 DEF CreateFromChat, Finishes
    <3> QED
      BY <1>1, <2>1, <3>1, WorkerMoves
  <2> QED
    BY <2>3, <2>4
<1>3. CASE FollowUp(w)
  <2>1. /\ handler[w].at = "follow" /\ handler[w].ready \in SUBSET facts
    BY <1>1, <1>3, JobAt DEF FollowUp
  <2>2. [x \in {} |-> Vacant] \in Writings
    <3>1. [x \in {} |-> Vacant] \in [{} -> Contained]
      OBVIOUS
    <3> QED
      BY <3>1 DEF Writings
  <2>3. PICK writes \in Writings : writes = WritesOf(handler[w].ready)
    BY <2>1, <2>2, WritesHold DEF FactsInvariant
  <2>4. PICK ids \in SUBSET Ids : ids = {f.id : f \in handler[w].ready} /\ Proposable(ids)
    BY <2>1, KeptAreOpen
  <2>5. CASE /\ Pending = {} /\ Writable(WritesOf(handler[w].ready), document)
             /\ Len(proposed) < FollowLimit
    <3>1. /\ proposed' = Append(proposed, NewProposal(docVersion, writes))
          /\ Goes(w, [at |-> "link", proposal |-> Len(proposed) + 1, link |-> ids])
          /\ UNCHANGED <<document, docVersion, facts, told>>
      BY <1>3, <2>3, <2>4, <2>5 DEF FollowUp
    <3> QED
      BY <2>1, <2>4, <2>5, <3>1, ProposalIsAdded
  <2>6. CASE ~(/\ Pending = {} /\ Writable(WritesOf(handler[w].ready), document)
               /\ Len(proposed) < FollowLimit)
    <3>1. Goes(w, Free) /\ UNCHANGED <<document, docVersion, facts, proposed, told>>
      BY <1>3, <2>6 DEF FollowUp, Finishes
    <3> QED
      BY <1>1, <2>1, <3>1, WorkerMoves
  <2> QED
    BY <2>5, <2>6
<1> QED
  BY <1>2, <1>3

(***************************************************************************)
(* The facts of a new proposal are linked to it.                           *)
(***************************************************************************)
LEMMA LinkKeeps ==
  ASSUME FactsInvariant, NEW w \in FactThreads, LinkFacts(w)
  PROVE  FactsInvariant'
<1>1. /\ handler[w].at = "link" /\ handler[w].proposal \in DOMAIN proposed
      /\ handler[w].link \in SUBSET Ids /\ Proposable(handler[w].link)
      /\ proposed[handler[w].proposal].status = "pending"
  BY JobAt DEF FactsInvariant, LinkFacts
<1>2. PICK n \in DOMAIN proposed, ids \in SUBSET Ids :
        n = handler[w].proposal /\ ids = handler[w].link
  BY <1>1
<1>3. /\ proposed' = [proposed EXCEPT ![n].link = ids] /\ Goes(w, Free)
      /\ UNCHANGED <<document, docVersion, facts, told>>
  BY <1>2 DEF LinkFacts, Finishes
<1>4. proposed \in Seq(Proposal) /\ \A p \in Pending : Proposable(proposed[p].link)
  BY DEF FactsInvariant, ProposedHold
<1>5. /\ proposed' \in Seq(Proposal) /\ DOMAIN proposed' = DOMAIN proposed
      /\ Len(proposed') = Len(proposed) /\ DOMAIN proposed = 1..Len(proposed)
      /\ \A p \in DOMAIN proposed : /\ proposed'[p].status = proposed[p].status
                                    /\ proposed'[p].base = proposed[p].base
                                    /\ p # n => proposed'[p].link = proposed[p].link
      /\ proposed'[n].link = ids
  <2>1. DOMAIN proposed = 1..Len(proposed) /\ Len(proposed) \in Nat
    BY <1>4
  <2>2. proposed[n] \in Proposal
    BY <1>4
  <2> DEFINE new == [proposed[n] EXCEPT !.link = ids]
  <2>3. /\ new \in Proposal /\ new.link = ids /\ new.status = proposed[n].status
        /\ new.base = proposed[n].base
    BY <2>2 DEF Proposal
  <2>4. proposed' = [proposed EXCEPT ![n] = new]
    BY <1>3
  <2> HIDE DEF new
  <2> QED
    BY <1>4, <2>1, <2>3, <2>4
<1>6. /\ \A p \in DOMAIN proposed : Concluded(p)' <=> Concluded(p)
      /\ ~Concluded(n)
  BY <1>1, <1>2, <1>5 DEF Concluded
<1>7. \A x : Proposable(x) => Proposable(x)'
  BY <1>3, <1>5, <1>6 DEF Proposable
<1>8. Pending' = Pending
  BY <1>5 DEF Pending
<1>9. ProposedHold'
  <2>1. \A p \in DOMAIN proposed' : /\ proposed'[p].base \in 1..docVersion
                                    /\ proposed'[p].link \subseteq 1..told
    BY <1>1, <1>2, <1>5 DEF FactsInvariant, ProposedHold, Proposable
  <2>2. \A p \in Pending : Proposable(proposed'[p].link)
    BY <1>1, <1>2, <1>4, <1>5 DEF Pending
  <2>3. \A p \in Pending : (Proposable(proposed[p].link))'
    <3> SUFFICES ASSUME NEW p \in Pending
                 PROVE  Proposable(proposed[p].link)'
      OBVIOUS
    <3>1. PICK x : x = proposed'[p].link /\ Proposable(x)
      BY <2>2
    <3>2. Proposable(x)'
      BY <1>7, <3>1
    <3> QED
      BY <3>1, <3>2
  <2> QED
    BY <1>3, <1>5, <1>8, <2>1, <2>3 DEF FactsInvariant, ProposedHold
<1>10. JobHolds(Free)'
  BY DEF JobHolds
<1>11. /\ DOMAIN handler' = FactThreads /\ \A u \in FactThreads : JobHolds(handler[u])'
       /\ \A u \in FactThreads : u = w
  BY <1>3, <1>10, OneJob
<1>12. DecidedLeave'
  <2>1. \A p \in DOMAIN proposed : Concluded(p) => FactIds(facts) \cap proposed[p].link = {}
    BY <1>1, <1>11 DEF FactsInvariant, DecidedLeave
  <2>2. \A p \in DOMAIN proposed' : Concluded(p)' => FactIds(facts') \cap proposed'[p].link = {}
    BY <1>3, <1>5, <1>6, <2>1
  <2> QED
    BY <2>2 DEF DecidedLeave, FactIds
<1>13. DocumentHolds' /\ Store(facts, told)' /\ OneAtATime'
  BY <1>3 DEF FactsInvariant, DocumentHolds, Store, Fact, OneAtATime
<1> QED
  BY <1>9, <1>11, <1>12, <1>13 DEF FactsInvariant

(***************************************************************************)
(* A decision, perhaps a repeated one; an approval writes the document     *)
(* (approve_proposal, reject_proposal).                                    *)
(***************************************************************************)
LEMMA SettleKeeps ==
  ASSUME FactsInvariant, NEW w \in FactThreads, NEW n \in 1..Len(proposed),
         NEW decision \in {"approve", "reject"}, SettleProposal(w, n, decision)
  PROVE  FactsInvariant'
<1>1. /\ proposed \in Seq(Proposal) /\ DOMAIN proposed = 1..Len(proposed)
      /\ \A p, q \in Pending : p = q
      /\ \A p \in Pending : Proposable(proposed[p].link)
      /\ \A p \in DOMAIN proposed : /\ proposed[p].base \in 1..docVersion
                                    /\ proposed[p].link \subseteq 1..told
      /\ n \in DOMAIN proposed /\ proposed[n] \in Proposal
  BY DEF FactsInvariant, ProposedHold
<1>2. PICK status \in Statuses : status = Settlement(n, decision)
  <2>1. proposed[n].status \in Statuses
    BY <1>1 DEF Proposal
  <2> QED
    BY <2>1 DEF Settlement, Statuses
<1>3. n \notin Pending => status = proposed[n].status
  BY <1>2 DEF Settlement
<1>4. n \in Pending => status # "pending"
  BY <1>2 DEF Settlement
<1>5. /\ handler[w].at = "free" /\ proposed' = [proposed EXCEPT ![n].status = status]
      /\ Goes(w, [at |-> "unlink", proposal |-> n, status |-> status])
      /\ UNCHANGED <<facts, told>>
  BY <1>2 DEF SettleProposal
<1>6. /\ proposed' \in Seq(Proposal) /\ DOMAIN proposed' = DOMAIN proposed
      /\ Len(proposed') = Len(proposed)
      /\ \A p \in DOMAIN proposed : /\ proposed'[p].link = proposed[p].link
                                    /\ proposed'[p].base = proposed[p].base
                                    /\ p # n => proposed'[p].status = proposed[p].status
      /\ proposed'[n].status = status
  <2> DEFINE new == [proposed[n] EXCEPT !.status = status]
  <2>1. /\ new \in Proposal /\ new.link = proposed[n].link /\ new.status = status
        /\ new.base = proposed[n].base
    BY <1>1 DEF Proposal
  <2>2. proposed' = [proposed EXCEPT ![n] = new]
    BY <1>5
  <2> HIDE DEF new
  <2> QED
    BY <1>1, <2>1, <2>2
<1>7. /\ Pending' = Pending \ {n}
      /\ n \in Pending => Pending' = {}
  <2>1. CASE n \in Pending
    <3>1. Pending = {n}
      BY <1>1, <2>1
    <3>2. \A p \in DOMAIN proposed : proposed'[p].status # "pending"
      BY <1>1, <1>4, <1>6, <2>1, <3>1 DEF Pending
    <3> QED
      BY <1>1, <1>6, <3>1, <3>2 DEF Pending
  <2>2. CASE n \notin Pending
    <3>1. \A p \in DOMAIN proposed : proposed'[p].status = proposed[p].status
      BY <1>1, <1>3, <1>6, <2>2
    <3> QED
      BY <1>6, <2>2, <3>1 DEF Pending
  <2> QED
    BY <2>1, <2>2
<1>8. /\ docVersion' \in {docVersion, docVersion + 1} /\ DocumentHolds' /\ Store(facts, told)'
  <2>1. CASE n \in Pending /\ status = "approved"
    <3>1. document' = Applied(document, proposed[n].writes) /\ docVersion' = docVersion + 1
      BY <1>2, <2>1 DEF SettleProposal
    <3>2. proposed[n].writes \in Writings
      BY <1>1 DEF Proposal
    <3>3. document' \in [Places -> Contained \cup {Nowhere, Ambiguous, Vacant}]
      BY <3>1, <3>2 DEF Applied, Writings, FactsInvariant, DocumentHolds
    <3> QED
      BY <1>5, <3>1, <3>3, NewVersion DEF FactsInvariant, DocumentHolds
  <2>2. CASE ~(n \in Pending /\ status = "approved")
    <3>1. UNCHANGED <<document, docVersion>>
      BY <1>2, <2>2 DEF SettleProposal
    <3> QED
      BY <1>5, <3>1 DEF FactsInvariant, DocumentHolds, Store, Fact
  <2> QED
    BY <2>1, <2>2
<1>9. \A v : v \in 1..docVersion => v \in 1..docVersion'
  BY <1>8 DEF FactsInvariant, DocumentHolds
<1>10. ProposedHold'
  <2>1. \A p \in DOMAIN proposed' : /\ proposed'[p].base \in 1..docVersion'
                                    /\ proposed'[p].link \subseteq 1..told'
    BY <1>1, <1>5, <1>6, <1>9
  <2>2. \A p, q \in Pending' : p = q
    BY <1>1, <1>7
  <2>3. ASSUME NEW p \in Pending'
        PROVE  Proposable(proposed[p].link)'
    <3>1. /\ p \in Pending /\ p # n /\ n \notin Pending
          /\ p \in DOMAIN proposed
      BY <1>1, <1>7, <2>3 DEF Pending
    <3>2. \A q \in DOMAIN proposed : Concluded(q)' <=> Concluded(q)
      BY <1>3, <1>6, <3>1 DEF Concluded
    <3>3. Proposable(proposed[p].link) /\ proposed'[p].link = proposed[p].link
      BY <1>1, <1>6, <3>1
    <3> QED
      BY <1>5, <1>6, <3>2, <3>3 DEF Proposable
  <2> QED
    BY <1>6, <2>1, <2>2, <2>3 DEF ProposedHold
<1>11. JobHolds([at |-> "unlink", proposal |-> n, status |-> status])'
  <2>1. PICK job : job = [at |-> "unlink", proposal |-> n, status |-> status]
    OBVIOUS
  <2>2. /\ job \in [at : {"unlink"}, proposal : DOMAIN proposed', status : Statuses]
        /\ job.status = proposed'[job.proposal].status
    BY <1>1, <1>6, <2>1
  <2>3. JobHolds(job)'
    BY <2>2 DEF JobHolds
  <2> QED
    BY <2>1, <2>3
<1>12. /\ DOMAIN handler' = FactThreads /\ \A u \in FactThreads : JobHolds(handler[u])'
       /\ \A u \in FactThreads : u = w
       /\ handler'[w] = [at |-> "unlink", proposal |-> n, status |-> status]
  BY <1>5, <1>11, OneJob
<1>13. DecidedLeave'
  <2>1. \A p \in DOMAIN proposed : Concluded(p) => FactIds(facts) \cap proposed[p].link = {}
    BY <1>5, <1>12 DEF FactsInvariant, DecidedLeave
  <2>2. \A p \in DOMAIN proposed \ {n} :
          Concluded(p)' => FactIds(facts') \cap proposed'[p].link = {}
    BY <1>5, <1>6, <2>1 DEF Concluded
  <2>3. handler'[w].at = "unlink" /\ handler'[w].proposal = n
    BY <1>12
  <2> QED
    BY <1>6, <2>2, <2>3 DEF DecidedLeave, FactIds
<1> QED
  BY <1>8, <1>10, <1>12, <1>13 DEF FactsInvariant, OneAtATime

(***************************************************************************)
(* The facts of a decided proposal are taken out.                          *)
(***************************************************************************)
LEMMA TakeOutKeeps ==
  ASSUME FactsInvariant, NEW w \in FactThreads, TakeOutDecided(w)
  PROVE  FactsInvariant'
<1>1. /\ handler[w].at = "unlink" /\ handler[w].proposal \in DOMAIN proposed
      /\ handler[w].status = proposed[handler[w].proposal].status
      /\ UNCHANGED <<document, docVersion, proposed, told>>
  BY JobAt DEF FactsInvariant, TakeOutDecided
<1>2. PICK n \in DOMAIN proposed : n = handler[w].proposal
  BY <1>1
<1>3. facts' = IF Concluded(n) THEN Without(facts, proposed[n].link) ELSE facts
  BY <1>1, <1>2 DEF TakeOutDecided, Concluded
<1>4. PICK job \in {[at |-> "look", for |-> "decision"], Free} : Goes(w, job)
  BY DEF TakeOutDecided, Finishes
<1>5. JobHolds(job)'
  <2>1. JobHolds([at |-> "look", for |-> "decision"])'
    BY DEF JobHolds, Purposes
  <2>2. JobHolds(Free)'
    BY DEF JobHolds
  <2> QED
    BY <1>4, <2>1, <2>2
<1>6. /\ DOMAIN handler' = FactThreads /\ \A u \in FactThreads : JobHolds(handler[u])'
      /\ \A u \in FactThreads : u = w
  BY <1>4, <1>5, OneJob
<1>7. facts' \in SUBSET facts
  BY <1>3 DEF Without
<1>8. Store(facts, told)'
  <2>1. Store(facts', told)
    BY <1>7, StorePart DEF FactsInvariant
  <2> QED
    BY <1>1, <2>1 DEF Store, Fact
<1>9. DecidedLeave'
  <2> SUFFICES ASSUME NEW p \in DOMAIN proposed, Concluded(p)
               PROVE  FactIds(facts') \cap proposed[p].link = {}
    BY <1>1 DEF DecidedLeave, Concluded, FactIds
  <2>1. CASE p = n
    BY <1>3, <2>1 DEF Without, FactIds
  <2>2. CASE p # n
    <3>1. FactIds(facts) \cap proposed[p].link = {}
      BY <1>2, <1>6, <2>2 DEF FactsInvariant, DecidedLeave
    <3> QED
      BY <1>7, <3>1 DEF FactIds
  <2> QED
    BY <2>1, <2>2
<1>10. DocumentHolds' /\ ProposedHold' /\ OneAtATime'
  BY <1>1 DEF FactsInvariant, DocumentHolds, ProposedHold, Pending, Proposable, Concluded, OneAtATime
<1> QED
  BY <1>6, <1>8, <1>9, <1>10 DEF FactsInvariant

(***************************************************************************)
(* Every step keeps the invariant.                                         *)
(***************************************************************************)
LEMMA FactsInvariantStep == FactsInvariant /\ [FactsNext]_factVars => FactsInvariant'
<1> SUFFICES ASSUME FactsInvariant, [FactsNext]_factVars
             PROVE  FactsInvariant'
  OBVIOUS
<1>1. ASSUME NEW w \in FactThreads, BeginChat(w) \/ LookAtDocument(w) \/ ReadFacts(w)
      PROVE  FactsInvariant'
  BY <1>1, LookKeeps
<1>2. ASSUME NEW w \in FactThreads, NEW x \in Places,
             NEW v \in Contained \cup {Nowhere, Ambiguous, Vacant}, SaveDocument(w, x, v)
      PROVE  FactsInvariant'
  BY <1>2, SaveKeeps
<1>3. ASSUME NEW w \in FactThreads, ReplaceFacts(w)
      PROVE  FactsInvariant'
  BY <1>3, ReplaceFactsKeeps
<1>4. ASSUME NEW w \in FactThreads, NEW action \in {"clarify", "propose"}, NEW own \in Own,
             NEW fact \in Tell, Think(w, action, own, fact)
      PROVE  FactsInvariant'
  <2>1. own \in Writings
    BY DEF Own, Writings
  <2> QED
    BY <1>4, <2>1, ThinkKeeps
<1>5. ASSUME NEW w \in FactThreads, NEW fact \in Tell, Think(w, "answer", NoFact, fact)
      PROVE  FactsInvariant'
  <2>1. NoFact \in [{} -> Contained]
    BY DEF NoFact
  <2>2. NoFact \in Writings
    BY <2>1 DEF Writings
  <2> QED
    BY <1>5, <2>2, ThinkKeeps
<1>6. ASSUME NEW w \in FactThreads, RemoveSuperseded(w) \/ AddFact(w)
      PROVE  FactsInvariant'
  BY <1>6, RemoveKeeps, AddKeeps
<1>7. ASSUME NEW w \in FactThreads, CreateFromChat(w) \/ FollowUp(w) \/ LinkFacts(w)
      PROVE  FactsInvariant'
  BY <1>7, ProposeKeeps, LinkKeeps
<1>8. ASSUME NEW w \in FactThreads, NEW p \in 1..Len(proposed),
             NEW decision \in {"approve", "reject"}, SettleProposal(w, p, decision)
      PROVE  FactsInvariant'
  BY <1>8, SettleKeeps
<1>9. ASSUME NEW w \in FactThreads, TakeOutDecided(w)
      PROVE  FactsInvariant'
  BY <1>9, TakeOutKeeps
<1>10. CASE UNCHANGED factVars
  BY <1>10 DEF factVars, FactsInvariant, OneAtATime, DocumentHolds, Store, Fact, ProposedHold,
              Pending, Proposable, Concluded, DecidedLeave, JobHolds, Now, FactIds
<1> QED
  BY <1>1, <1>2, <1>3, <1>4, <1>5, <1>6, <1>7, <1>8, <1>9, <1>10 DEF FactsNext

(***************************************************************************)
(* When requests are served one after the other the facts kept, what the   *)
(* thread holds of them and what the proposals include stay in step, for   *)
(* any number of places, facts, saves and proposals.                       *)
(***************************************************************************)
THEOREM FactsInvariantHolds == FactsSpec /\ OneAtATime => []FactsInvariant
<1>1. FactsInit /\ OneAtATime => FactsInvariant
  BY FactsInvariantInit
<1>2. FactsInvariant /\ [FactsNext]_factVars => FactsInvariant'
  BY FactsInvariantStep
<1> QED
  BY <1>1, <1>2, PTL DEF FactsSpec

(***************************************************************************)
(* There is one fact about a place, and no more facts than the store may   *)
(* hold (add_deferred_input_facts, MAX_DEFERRED_INPUT_FACTS).              *)
(***************************************************************************)
THEOREM FactsTypesHold == FactsSpec /\ OneAtATime => []FactsTypeOK
<1>1. FactsInvariant => FactsTypeOK
  <2> SUFFICES ASSUME FactsInvariant
               PROVE  FactsTypeOK
    OBVIOUS
  <2>1. /\ document \in [Places -> Contained \cup {Nowhere, Ambiguous, Vacant}]
        /\ told \in 0..FactLimit
    BY DEF FactsInvariant, DocumentHolds
  <2>2. /\ facts \subseteq Fact /\ Cardinality(facts) <= FactCap
        /\ \A f, g \in facts : f.place = g.place \/ f.since = g.since => f = g
    BY DEF FactsInvariant, Store
  <2>3. /\ proposed \in Seq(Proposal)
        /\ \A p \in DOMAIN proposed : proposed[p].base \in 1..docVersion
    BY DEF FactsInvariant, ProposedHold
  <2>4. \A p \in 1..Len(proposed) : /\ proposed[p].base \in 1..docVersion
                                    /\ proposed[p].link \subseteq 1..FactLimit
    <3>1. DOMAIN proposed = 1..Len(proposed)
      BY <2>3
    <3>2. \A p \in DOMAIN proposed : proposed[p].link \in SUBSET Ids
      <4>1. \A p \in DOMAIN proposed : proposed[p] \in Proposal
        BY <2>3
      <4> QED
        BY <4>1 DEF Proposal
    <3> QED
      BY <2>3, <3>1, <3>2 DEF Ids
  <2> QED
    BY <2>1, <2>2, <2>4 DEF FactsTypeOK
<1> QED
  BY <1>1, FactsInvariantHolds, PTL

(***************************************************************************)
(* A fact the user has decided on is not proposed again, however often     *)
(* decisions are repeated and follow-ups are made                          *)
(* (decide_orchestrator_proposal).                                         *)
(***************************************************************************)
THEOREM DecidedFactsRestHolds == FactsSpec /\ OneAtATime => []DecidedFactsRest
<1>1. FactsInvariant => DecidedFactsRest
  <2> SUFFICES ASSUME FactsInvariant, NEW p \in 1..Len(proposed), NEW id \in proposed[p].link,
                      proposed[p].status \in {"approved", "rejected"}
               PROVE  /\ \A q \in Pending : id \notin proposed[q].link
                      /\ (\A w \in FactThreads : handler[w].at # "unlink") =>
                           id \notin FactIds(facts)
    BY DEF DecidedFactsRest
  <2>1. p \in DOMAIN proposed /\ Concluded(p)
    BY DEF FactsInvariant, ProposedHold, Concluded
  <2>2. \A q \in Pending : id \notin proposed[q].link
    BY <2>1 DEF FactsInvariant, ProposedHold, Proposable
  <2>3. ASSUME \A w \in FactThreads : handler[w].at # "unlink"
        PROVE  id \notin FactIds(facts)
    BY <2>1, <2>3 DEF FactsInvariant, DecidedLeave
  <2> QED
    BY <2>2, <2>3
<1> QED
  BY <1>1, FactsInvariantHolds, PTL

(***************************************************************************)
(* What a step takes out of the store, and why.                            *)
(***************************************************************************)
FactsStay ==
  \A id \in FactIds(facts) \ FactIds(facts') :
    \/ \E f \in facts' : f.place = FactOf(id).place /\ f.id > id
    \/ \E w \in FactThreads : handler[w].at = "remove" /\ id \in handler[w].superseded
    \/ document[FactOf(id).place] \in Contained
    \/ \E p \in 1..Len(proposed) : /\ id \in proposed[p].link
                                   /\ proposed[p].status \in {"approved", "rejected"}
    \/ told' > told /\ Cardinality(facts) = FactCap /\ FactOf(id) \in Oldest(facts)

(***************************************************************************)
(* The fact that has an id.                                                *)
(***************************************************************************)
LEMMA FactOfId ==
  ASSUME FactsInvariant, NEW id \in FactIds(facts)
  PROVE  FactOf(id) \in facts /\ FactOf(id).id = id
BY DEF FactIds, FactOf

(***************************************************************************)
(* Reconciliation drops a fact only if its field is filled.                *)
(***************************************************************************)
LEMMA DroppedIsFilled ==
  ASSUME FactsInvariant, NEW f \in facts, f.id \notin FactIds(Retained(facts, Now))
  PROVE  document[f.place] \in Contained
<1> DEFINE turned == [f EXCEPT !.resolution = Resolution(f, document), !.checked = docVersion]
<1>1. f \in Fact /\ f.place \in Places /\ f.value \in Contained
  BY DEF FactsInvariant, Store, Fact
<1>2. turned \in Checked(facts, Now) /\ turned.id = f.id
      /\ turned.resolution = Resolution(f, document)
  BY <1>1 DEF Checked, Now, Fact
<1> HIDE DEF turned
<1>3. Resolution(f, document) \in {"already_applied", "superseded"}
  <2>1. turned \notin Retained(facts, Now)
    BY <1>2 DEF FactIds
  <2> QED
    BY <1>2, <2>1 DEF Retained
<1>4. document[f.place] \notin {Nowhere, Ambiguous, Vacant}
  <2>1. document[f.place] = Nowhere => Resolution(f, document) = "waiting_target"
    BY <1>1, FactsAssumption DEF Resolution
  <2>2. document[f.place] = Ambiguous => Resolution(f, document) = "ambiguous"
    BY <1>1, FactsAssumption DEF Resolution
  <2>3. document[f.place] = Vacant => Resolution(f, document) = "ready"
    BY <1>1, FactsAssumption DEF Resolution
  <2> QED
    BY <1>3, <2>1, <2>2, <2>3
<1> QED
  BY <1>1, <1>4 DEF FactsInvariant, DocumentHolds

(***************************************************************************)
(* No step loses a fact without a reason.                                  *)
(***************************************************************************)
LEMMA FactsStayStep == FactsInvariant /\ [FactsNext]_factVars => FactsStay
<1> SUFFICES ASSUME FactsInvariant, [FactsNext]_factVars,
                    NEW id \in FactIds(facts) \ FactIds(facts')
             PROVE  \/ \E f \in facts' : f.place = FactOf(id).place /\ f.id > id
                    \/ \E w \in FactThreads : /\ handler[w].at = "remove"
                                              /\ id \in handler[w].superseded
                    \/ document[FactOf(id).place] \in Contained
                    \/ \E p \in 1..Len(proposed) :
                         /\ id \in proposed[p].link
                         /\ proposed[p].status \in {"approved", "rejected"}
                    \/ /\ told' > told /\ Cardinality(facts) = FactCap
                       /\ FactOf(id) \in Oldest(facts)
  BY DEF FactsStay
<1> DEFINE Goal == \/ \E f \in facts' : f.place = FactOf(id).place /\ f.id > id
                   \/ \E w \in FactThreads : /\ handler[w].at = "remove"
                                             /\ id \in handler[w].superseded
                   \/ document[FactOf(id).place] \in Contained
                   \/ \E p \in 1..Len(proposed) :
                        /\ id \in proposed[p].link
                        /\ proposed[p].status \in {"approved", "rejected"}
                   \/ /\ told' > told /\ Cardinality(facts) = FactCap
                      /\ FactOf(id) \in Oldest(facts)
<1>1. PICK f \in facts : f = FactOf(id) /\ f.id = id
  BY FactOfId
<1>2. facts' # facts /\ f \notin facts'
  BY <1>1 DEF FactIds
<1>3. PICK w \in FactThreads :
        ReplaceFacts(w) \/ RemoveSuperseded(w) \/ AddFact(w) \/ TakeOutDecided(w)
  <2>1. FactsNext
    BY <1>2 DEF factVars
  <2>2. \A w : BeginChat(w) \/ LookAtDocument(w) \/ ReadFacts(w) => facts' = facts
    BY DEF BeginChat, LookAtDocument, ReadFacts
  <2>3. \A w, x, v : SaveDocument(w, x, v) => facts' = facts
    BY DEF SaveDocument
  <2>4. \A w, action, own, fact : Think(w, action, own, fact) => facts' = facts
    BY DEF Think
  <2>5. \A w : CreateFromChat(w) \/ LinkFacts(w) \/ FollowUp(w) => facts' = facts
    BY DEF CreateFromChat, LinkFacts, FollowUp
  <2>6. \A w, p, decision : SettleProposal(w, p, decision) => facts' = facts
    BY DEF SettleProposal
  <2> QED
    BY <1>2, <2>1, <2>2, <2>3, <2>4, <2>5, <2>6 DEF FactsNext
<1>4. JobHolds(handler[w])
  BY DEF FactsInvariant
<1>5. CASE ReplaceFacts(w)
  <2>1. handler[w].snapshot = Now /\ handler[w].seen = facts
    BY <1>4, <1>5, JobAt DEF ReplaceFacts
  <2>2. facts' = Retained(facts, Now)
    BY <1>5, <2>1 DEF ReplaceFacts
  <2>3. document[f.place] \in Contained
    BY <1>1, <2>2, DroppedIsFilled
  <2> QED
    BY <1>1, <2>3
<1>6. CASE RemoveSuperseded(w)
  <2>1. handler[w].at = "remove" /\ id \in handler[w].superseded
    BY <1>1, <1>2, <1>6 DEF RemoveSuperseded, Without
  <2> QED
    BY <2>1
<1>7. CASE AddFact(w)
  <2> DEFINE fact == handler[w].fact
             new  == [id |-> told + 1, since |-> told + 1, place |-> fact.place,
                      value |-> fact.value, resolution |-> "waiting_target",
                      checked |-> docVersion]
  <2>1. /\ handler[w].version = docVersion /\ fact \in Telling
        /\ fact = NoFact \/ told < FactLimit
    BY <1>4, <1>7, JobAt DEF AddFact
  <2>2. /\ DOMAIN fact # {} /\ facts' = WithFact(facts, new) /\ told' = told + 1
    BY <1>2, <1>7, <2>1 DEF AddFact
  <2>3. fact # NoFact
    BY <2>2 DEF NoFact
  <2>4. told < FactLimit /\ fact.place \in Places /\ fact.value \in Contained
    BY <2>1, <2>3 DEF Telling
  <2>5. /\ DocumentHolds /\ Store(facts, told) /\ told \in 0..FactLimit
        /\ docVersion \in 1..docVersion
    BY DEF FactsInvariant, DocumentHolds
  <2>6. \/ \E g \in facts' : g.place = f.place /\ g.id > f.id
        \/ Cardinality(facts) = FactCap /\ f \in Oldest(facts)
    BY <1>2, <2>2, <2>4, <2>5, ToldStore
  <2>7. told' > told
    BY <2>2, <2>5
  <2> QED
    BY <1>1, <2>6, <2>7
<1>8. CASE TakeOutDecided(w)
  <2>1. /\ handler[w].proposal \in DOMAIN proposed
        /\ handler[w].status = proposed[handler[w].proposal].status
    BY <1>4, <1>8, JobAt DEF TakeOutDecided
  <2>2. /\ handler[w].status \in {"approved", "rejected"}
        /\ id \in proposed[handler[w].proposal].link
    BY <1>1, <1>2, <1>8 DEF TakeOutDecided, Without
  <2>3. DOMAIN proposed = 1..Len(proposed)
    BY DEF FactsInvariant, ProposedHold
  <2> QED
    BY <2>1, <2>2, <2>3
<1> QED
  BY <1>3, <1>5, <1>6, <1>7, <1>8

(***************************************************************************)
(* A fact leaves the store only because the user said something else about *)
(* its place, its field is filled, its proposal is decided, or the store   *)
(* is full (_reconcile_deferred_input, remove_deferred_input_facts).       *)
(***************************************************************************)
THEOREM FactsAreKeptHolds == FactsSpec /\ OneAtATime => FactsAreKept
<1>1. FactsInvariant /\ [FactsNext]_factVars => [FactsStay]_factVars
  BY FactsStayStep
<1>2. [FactsStay]_factVars <=> FactsStay \/ UNCHANGED factVars
  OBVIOUS
<1> QED
  BY <1>1, FactsInvariantHolds, PTL DEF FactsSpec, FactsAreKept, FactsStay
=============================================================================
