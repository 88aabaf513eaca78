------------------------- MODULE ServerCalls_proofs -------------------------
(***************************************************************************)
(* The calls of the server that do not go through its ledger.              *)
(*                                                                         *)
(* Workspaces, for any browsers, requests and calls: whatever the order in *)
(* which the calls are served, a browser is served what it owns, and the   *)
(* log of the calls is whole.                                              *)
(*                                                                         *)
(* CarriedState, for any products and cards: the request that goes back    *)
(* and forth stays one, and what its validator lets be submitted, the gate *)
(* of the Word file lets be exported.                                      *)
(***************************************************************************)
EXTENDS Workspaces, CarriedState, SequenceTheorems, FiniteSetTheorems, FunctionTheorems, TLAPS

Stages == {"idle", "register", "fence", "run", "fenced", "record", "owned", "events", "answer"}
Ops    == Reading \union {"", "create", "put", "undo", "events"}
Codes  == {"", "created", "updated", "conflict", "not_found", "unavailable", "refused", "events",
           "ready", "blocked", "failed", "no_result", "disabled", "error", "malformed"}
Event  == [sequence : Int, id : Nat, result : Codes \union {"failure"}]
Call   == [at : Stages, op : Ops, id : Nat, workspace : Nat, fresh : BOOLEAN,
           version : Nat, code : Codes, mine : SUBSET Nat, events : SUBSET Event]

FenceTypes ==
  /\ versions \in Seq(Nat)
  /\ issued \in Nat
  /\ DOMAIN owners \subseteq RequestIds
  /\ \A id \in DOMAIN owners : owners[id] \in 1..issued
  /\ jar \in [Browsers -> 0..issued]
  /\ known \in [Browsers -> SUBSET DOMAIN owners]
  /\ provided \subseteq RequestIds
  /\ log \in [events : Seq(Event), sequence : Nat]
  /\ callOf \in [Tabs -> Call]
  /\ crowded \subseteq Browsers
  /\ sentCalls \in Nat

(* What the server holds of a call: the id it was given and the owner it   *)
(* compared it with are still those of the stores.                         *)
CallHolds(c) ==
  /\ c.at = "idle" => c = Unsent
  /\ c.workspace <= issued
  /\ c.workspace = 0 => c.at \in {"idle", "register", "fence", "owned"}
  /\ c.workspace = 0 /\ c.at # "idle" => c.fresh
  /\ c.at \in {"fence", "run", "fenced", "record", "owned", "events"} => c.op # "create"
  /\ c.at \in {"fence", "run", "fenced", "record"} => c.id \in DOMAIN owners \union provided
  /\ c.at = "fenced" => c.op \in Reading
  /\ \/ c.at \in {"run", "fenced", "record"}
     \/ c.at = "answer" /\ c.op = "create"
     => c.id \in DOMAIN owners /\ owners[c.id] = c.workspace
  /\ c.at = "events" => \A id \in c.mine : id \in DOMAIN owners /\ owners[id] = c.workspace
  /\ \A e \in c.events : e.id \in DOMAIN owners /\ owners[e.id] = c.workspace
  /\ c.at # "answer" => c.events = {}

(* A request that is being registered is nobody's, and nobody else's to    *)
(* register.                                                               *)
RegistersOnce ==
  \A t \in Tabs :
    callOf[t].at = "register" =>
      /\ callOf[t].op = "create"
      /\ callOf[t].id \in RequestIds \ (DOMAIN owners \union provided)
      /\ \A u \in Tabs : callOf[u].at = "register" /\ callOf[u].id = callOf[t].id => u = t

(* Until it has a cookie, a browser that is not crowded has one call under *)
(* way and knows no request; from then on it sends the cookie along.       *)
CookieSentAlong ==
  \A b \in Browsers \ crowded :
    /\ \A id \in known[b] : owners[id] = jar[b]
    /\ \A t \in Tabs :
         Browser[t] = b /\ callOf[t].at # "idle" =>
           IF jar[b] = 0
           THEN /\ callOf[t].fresh
                /\ \A u \in Tabs : Browser[u] = b /\ callOf[u].at # "idle" => u = t
           ELSE ~callOf[t].fresh /\ callOf[t].workspace = jar[b]

(* The log holds the latest events, in order and without a gap.            *)
LogHolds ==
  /\ Len(log.events) <= MaxEvents
  /\ \A k \in DOMAIN log.events : log.events[k].sequence = log.sequence - Len(log.events) + k
  /\ log.sequence >= MaxEvents => Len(log.events) = MaxEvents
  /\ log.sequence < MaxEvents => Len(log.events) = log.sequence

FenceInvariant ==
  /\ FenceTypes
  /\ \A t \in Tabs : CallHolds(callOf[t])
  /\ RegistersOnce
  /\ CookieSentAlong
  /\ LogHolds

(***************************************************************************)
(* What was read of a call stays true while requests and workspaces are    *)
(* added, and no owner is changed.                                         *)
(***************************************************************************)
LEMMA CallStays ==
  ASSUME FenceInvariant, issued <= issued', issued' \in Nat, provided \subseteq provided',
         \A id \in DOMAIN owners : id \in DOMAIN owners' /\ owners'[id] = owners[id],
         NEW u \in Tabs, callOf'[u] = callOf[u]
  PROVE  CallHolds(callOf[u])'
BY DEF FenceInvariant, FenceTypes, CallHolds, Call

(***************************************************************************)
(* A call that only moves on in the server, with the id, the workspace and *)
(* the cookie it came with, keeps the invariant when what it holds then    *)
(* does, and nothing else is changed but the log or a version.             *)
(***************************************************************************)
LEMMA MoveKeeps ==
  ASSUME FenceInvariant, NEW t \in Tabs,
         UNCHANGED <<jar, known, provided, crowded, sentCalls>>,
         \A id \in DOMAIN owners : id \in DOMAIN owners' /\ owners'[id] = owners[id],
         DOMAIN owners' \subseteq DOMAIN owners \union provided,
         \A id \in DOMAIN owners' : owners'[id] \in 1..issued',
         versions' \in Seq(Nat), DOMAIN versions' = DOMAIN versions,
         log' \in [events : Seq(Event), sequence : Nat], LogHolds',
         issued' \in Nat, issued <= issued',
         callOf' \in [Tabs -> Call],
         \A u \in Tabs \ {t} : callOf'[u] = callOf[u],
         CallHolds(callOf[t])',
         callOf[t].at \notin {"idle", "register"}, callOf'[t].at \notin {"idle", "register"},
         callOf'[t].fresh = callOf[t].fresh,
         ~callOf[t].fresh => callOf'[t].workspace = callOf[t].workspace
  PROVE  FenceInvariant'
<1>1. FenceTypes'
  <2>1. known \in [Browsers -> SUBSET DOMAIN owners']
    BY DEF FenceInvariant, FenceTypes
  <2>2. jar \in [Browsers -> 0..issued']
    BY DEF FenceInvariant, FenceTypes
  <2> QED
    BY <2>1, <2>2 DEF FenceInvariant, FenceTypes, RequestIds, Browsers
<1>2. \A u \in Tabs : CallHolds(callOf[u])'
  BY CallStays DEF FenceInvariant
<1>3. RegistersOnce'
  <2>1. SUFFICES ASSUME NEW u \in Tabs, callOf'[u].at = "register"
                 PROVE  /\ callOf'[u].op = "create"
                        /\ callOf'[u].id \in DOMAIN versions' \ (DOMAIN owners' \union provided')
                        /\ \A v \in Tabs : callOf'[v].at = "register" /\ callOf'[v].id = callOf'[u].id
                                           => v = u
    BY DEF RegistersOnce, RequestIds
  <2>2. \A v \in Tabs : callOf'[v].at = "register" => callOf'[v] = callOf[v]
    OBVIOUS
  <2>3. callOf'[u] = callOf[u] /\ callOf[u].at = "register"
    BY <2>1, <2>2
  <2>4. callOf[u].id \in DOMAIN versions \ (DOMAIN owners \union provided)
    BY <2>3 DEF FenceInvariant, RegistersOnce, RequestIds
  <2> QED
    BY <2>1, <2>2, <2>3, <2>4 DEF FenceInvariant, RegistersOnce
<1>4. CookieSentAlong'
  <2>1. SUFFICES ASSUME NEW b \in Browsers \ crowded
                 PROVE  /\ \A id \in known[b] : owners'[id] = jar[b]
                        /\ \A u \in Tabs :
                             Browser[u] = b /\ callOf'[u].at # "idle" =>
                               IF jar[b] = 0
                               THEN /\ callOf'[u].fresh
                                    /\ \A v \in Tabs :
                                         Browser[v] = b /\ callOf'[v].at # "idle" => v = u
                               ELSE ~callOf'[u].fresh /\ callOf'[u].workspace = jar[b]
    BY DEF CookieSentAlong, Browsers
  <2>2. \A u \in Tabs : callOf'[u].at # "idle" <=> callOf[u].at # "idle"
    OBVIOUS
  <2>3. \A u \in Tabs : callOf'[u].fresh = callOf[u].fresh
    OBVIOUS
  <2>4. \A u \in Tabs : ~callOf[u].fresh => callOf'[u].workspace = callOf[u].workspace
    OBVIOUS
  <2>5. \A id \in known[b] : owners'[id] = jar[b]
    <3>1. known[b] \subseteq DOMAIN owners
      BY DEF FenceInvariant, FenceTypes
    <3>2. \A id \in known[b] : owners[id] = jar[b]
      BY DEF FenceInvariant, CookieSentAlong
    <3> QED
      BY <3>1, <3>2
  <2>6. ASSUME NEW u \in Tabs, Browser[u] = b, callOf'[u].at # "idle"
        PROVE  IF jar[b] = 0
               THEN /\ callOf'[u].fresh
                    /\ \A v \in Tabs : Browser[v] = b /\ callOf'[v].at # "idle" => v = u
               ELSE ~callOf'[u].fresh /\ callOf'[u].workspace = jar[b]
    <3>1. callOf[u].at # "idle"
      BY <2>2, <2>6
    <3>2. IF jar[b] = 0
          THEN /\ callOf[u].fresh
               /\ \A v \in Tabs : Browser[v] = b /\ callOf[v].at # "idle" => v = u
          ELSE ~callOf[u].fresh /\ callOf[u].workspace = jar[b]
      BY <2>6, <3>1 DEF FenceInvariant, CookieSentAlong
    <3>3. CASE jar[b] = 0
      BY <2>2, <2>3, <3>2, <3>3
    <3>4. CASE jar[b] # 0
      BY <2>3, <2>4, <3>2, <3>4
    <3> QED
      BY <3>3, <3>4
  <2> QED
    BY <2>5, <2>6
<1> QED
  BY <1>1, <1>2, <1>3, <1>4 DEF FenceInvariant

(***************************************************************************)
(* No call has been sent, so nothing is held and nobody owns anything.     *)
(***************************************************************************)
LEMMA FenceInvariantInit == FenceInit => FenceInvariant
<1> SUFFICES ASSUME FenceInit
             PROVE  FenceInvariant
  OBVIOUS
<1>1. Unsent \in Call
  BY DEF Unsent, Call, Stages, Ops, Codes
<1>2. FenceTypes
  BY <1>1 DEF FenceInit, FenceTypes, RequestIds
<1>3. ASSUME NEW t \in Tabs
      PROVE  CallHolds(callOf[t])
  <2>1. callOf[t] = Unsent
    BY DEF FenceInit
  <2>2. callOf[t].at = "idle" /\ callOf[t].workspace = 0 /\ callOf[t].events = {} /\ issued = 0
    BY <2>1 DEF Unsent, FenceInit
  <2> QED
    BY <2>1, <2>2 DEF CallHolds
<1>4. RegistersOnce /\ CookieSentAlong
  BY DEF FenceInit, RegistersOnce, CookieSentAlong, Unsent
<1>5. LogHolds
  BY MaxEventsAssumption DEF FenceInit, LogHolds
<1> QED
  BY <1>2, <1>3, <1>4, <1>5 DEF FenceInvariant

(***************************************************************************)
(* Appending an event keeps the latest events in order, and drops the      *)
(* oldest when the log is full.                                            *)
(***************************************************************************)
LEMMA LogKeeps ==
  ASSUME log \in [events : Seq(Event), sequence : Nat], LogHolds, NEW c \in Call, Observed(c)
  PROVE  log' \in [events : Seq(Event), sequence : Nat] /\ LogHolds'
<1> DEFINE e == [sequence |-> log.sequence + 1, id |-> c.id,
                 result |-> IF Succeeds(c.code) THEN c.code ELSE "failure"]
           all == Append(log.events, e)
           first == IF Len(all) > MaxEvents THEN 1 + (Len(all) - MaxEvents) ELSE 1
           tail == SubSeq(all, first, Len(all))
<1>1. e \in Event
  <2>1. c.id \in Nat /\ c.code \in Codes /\ log.sequence \in Nat
    BY DEF Call
  <2>2. (IF Succeeds(c.code) THEN c.code ELSE "failure") \in Codes \union {"failure"}
    BY <2>1
  <2> QED
    BY <2>1, <2>2 DEF Event
<1>2. all \in Seq(Event) /\ Len(all) = Len(log.events) + 1
  BY <1>1
<1>3. \A k \in 1..Len(all) : all[k].sequence = log.sequence - Len(log.events) + k
  BY <1>1 DEF LogHolds
<1>4. log' = [events |-> tail, sequence |-> log.sequence + 1]
  BY DEF Observed, Appended
<1> HIDE DEF all, e
<1>5. /\ first \in 1..Len(all)
      /\ first = IF Len(log.events) = MaxEvents THEN 2 ELSE 1
  BY <1>2, MaxEventsAssumption DEF LogHolds
<1>6. /\ tail \in Seq(Event)
      /\ Len(tail) = Len(all) - first + 1
      /\ \A k \in 1..Len(tail) : tail[k] = all[first + k - 1]
  <2> HIDE DEF first
  <2>1. first \in Int /\ Len(all) \in Int
    BY <1>2, <1>5
  <2>2. \A k \in first..Len(all) : all[k] \in Event
    BY <1>2, <1>5
  <2>3. /\ SubSeq(all, first, Len(all)) \in Seq(Event)
        /\ Len(SubSeq(all, first, Len(all))) =
             IF first <= Len(all) THEN Len(all) - first + 1 ELSE 0
        /\ \A i \in 1..Len(all) - first + 1 :
             SubSeq(all, first, Len(all))[i] = all[first + i - 1]
    BY <2>1, <2>2, SubSeqProperties
  <2> QED
    BY <1>2, <1>5, <2>1, <2>3
<1> HIDE DEF tail, first
<1>7. Len(tail) <= MaxEvents
  BY <1>2, <1>5, <1>6, MaxEventsAssumption DEF LogHolds
<1>8. ASSUME NEW k \in 1..Len(tail)
      PROVE  tail[k].sequence = (log.sequence + 1) - Len(tail) + k
  <2>1. first + k - 1 \in 1..Len(all) /\ Len(log.events) \in Nat /\ log.sequence \in Nat
    BY <1>2, <1>5, <1>6
  <2>2. tail[k].sequence = log.sequence - Len(log.events) + (first + k - 1)
    BY <1>3, <1>6, <2>1
  <2>3. first \in Int /\ Len(tail) = (Len(log.events) + 1) - first + 1 /\ k \in Int
    BY <1>2, <1>5, <1>6
  <2>4. \A s, n, f, l, j \in Int :
          l = (n + 1) - f + 1 => s - n + (f + j - 1) = (s + 1) - l + j
    OBVIOUS
  <2>5. Len(tail) \in Int /\ Len(log.events) \in Int /\ log.sequence \in Int
    BY <2>1, <2>3
  <2> QED
    BY <2>2, <2>3, <2>4, <2>5
<1>9. /\ log.sequence + 1 >= MaxEvents => Len(tail) = MaxEvents
      /\ log.sequence + 1 < MaxEvents => Len(tail) = log.sequence + 1
  BY <1>2, <1>5, <1>6, MaxEventsAssumption DEF LogHolds
<1> QED
  BY <1>4, <1>6, <1>7, <1>8, <1>9 DEF LogHolds

(***************************************************************************)
(* The workspace a call is given is a new one, or its own.                 *)
(***************************************************************************)
LEMMA IdentifiedIsIssued ==
  ASSUME FenceInvariant, NEW t \in Tabs, Identify(t)
  PROVE  /\ Identified(t) \in 1..issued'
         /\ issued' \in Nat /\ issued <= issued'
         /\ callOf[t].workspace # 0 => Identified(t) = callOf[t].workspace
         /\ callOf[t].at # "idle" /\ ~callOf[t].fresh => Identified(t) = callOf[t].workspace
BY DEF FenceInvariant, FenceTypes, CallHolds, Call, Identify, Identified

(***************************************************************************)
(* The fence lets a call through only to its own request, and gives it     *)
(* what nobody owns.                                                       *)
(***************************************************************************)
LEMMA FenceKeeps ==
  ASSUME FenceInvariant, NEW t \in Tabs, Fence(t)
  PROVE  FenceInvariant'
<1> DEFINE id == callOf[t].id
           me == Identified(t)
<1>1. /\ me \in 1..issued' /\ issued' \in Nat /\ issued <= issued'
      /\ ~callOf[t].fresh => me = callOf[t].workspace
  BY IdentifiedIsIssued DEF Fence
<1>2. callOf \in [Tabs -> Call] /\ callOf[t] \in Call
  BY DEF FenceInvariant, FenceTypes
<1>3. id \in DOMAIN owners \union provided /\ callOf[t].op # "create" /\ callOf[t].events = {}
  BY DEF FenceInvariant, CallHolds, Fence
<1>4. /\ \A i \in DOMAIN owners : i \in DOMAIN owners' /\ owners'[i] = owners[i]
      /\ DOMAIN owners' \subseteq DOMAIN owners \union {id} /\ id \in DOMAIN owners'
      /\ \A i \in DOMAIN owners' : owners'[i] \in 1..issued'
      /\ Owner(id) \in {0, me} => owners'[id] = me
  BY <1>1 DEF FenceInvariant, FenceTypes, Fence, Owns, Owner
<1>5. \/ owners'[id] = me /\ callOf' = [callOf EXCEPT ![t] =
                             [callOf[t] EXCEPT !.at = "run", !.workspace = me]]
      \/ callOf' = [callOf EXCEPT ![t] =
                             [callOf[t] EXCEPT !.at = "answer", !.workspace = me,
                                               !.code = "not_found"]]
  BY <1>4 DEF Fence, Owns, Goto
<1>6. callOf' \in [Tabs -> Call]
  <2>1. me \in Nat
    BY <1>1
  <2>2. /\ [callOf[t] EXCEPT !.at = "run", !.workspace = me] \in Call
        /\ [callOf[t] EXCEPT !.at = "answer", !.workspace = me, !.code = "not_found"] \in Call
    BY <1>2, <2>1 DEF Call, Stages, Codes
  <2> QED
    BY <1>2, <1>5, <2>2
<1>7. CallHolds(callOf[t])'
  <2> DEFINE c == callOf'[t]
  <2>1. \/ owners'[id] = me /\ c = [callOf[t] EXCEPT !.at = "run", !.workspace = me]
        \/ c = [callOf[t] EXCEPT !.at = "answer", !.workspace = me, !.code = "not_found"]
    BY <1>2, <1>5
  <2> HIDE DEF c, me
  <2>2. /\ c.workspace = me /\ c.op = callOf[t].op /\ c.id = id /\ c.events = {}
        /\ c.at = "answer" \/ (c.at = "run" /\ owners'[id] = me)
    <3>1. CASE owners'[id] = me /\ c = [callOf[t] EXCEPT !.at = "run", !.workspace = me]
      BY <1>2, <1>3, <3>1 DEF Call
    <3>2. CASE c = [callOf[t] EXCEPT !.at = "answer", !.workspace = me, !.code = "not_found"]
      BY <1>2, <1>3, <3>2 DEF Call
    <3> QED
      BY <2>1, <3>1, <3>2
  <2> HIDE DEF id
  <2> QED
    BY <1>1, <1>3, <1>4, <2>2 DEF CallHolds, c
<1>8. /\ \A u \in Tabs \ {t} : callOf'[u] = callOf[u]
      /\ callOf'[t].at \in {"run", "answer"} /\ callOf[t].at = "fence"
      /\ callOf'[t].fresh = callOf[t].fresh /\ callOf'[t].workspace = me
  <2>1. callOf[t].at = "fence"
    BY DEF Fence
  <2> HIDE DEF id, me
  <2>2. \/ callOf' = [callOf EXCEPT ![t] = [callOf[t] EXCEPT !.at = "run", !.workspace = me]]
        \/ callOf' = [callOf EXCEPT ![t] = [callOf[t] EXCEPT !.at = "answer", !.workspace = me,
                                                             !.code = "not_found"]]
    BY <1>5
  <2>3. \A u \in Tabs \ {t} : callOf'[u] = callOf[u]
    BY <1>2, <2>2
  <2>4. \/ callOf'[t] = [callOf[t] EXCEPT !.at = "run", !.workspace = me]
        \/ callOf'[t] = [callOf[t] EXCEPT !.at = "answer", !.workspace = me, !.code = "not_found"]
    BY <1>2, <2>2
  <2>5. /\ callOf'[t].at \in {"run", "answer"}
        /\ callOf'[t].fresh = callOf[t].fresh /\ callOf'[t].workspace = me
    BY <1>2, <2>4 DEF Call
  <2> QED
    BY <2>1, <2>3, <2>5
<1>9. /\ UNCHANGED <<versions, jar, known, provided, log, crowded, sentCalls>>
      /\ log' \in [events : Seq(Event), sequence : Nat] /\ LogHolds' /\ versions' \in Seq(Nat)
  BY DEF Fence, FenceInvariant, FenceTypes, LogHolds
<1> QED
  BY <1>1, <1>3, <1>4, <1>6, <1>7, <1>8, <1>9, MoveKeeps

(***************************************************************************)
(* A call that goes on behind the fence, with a version read or a result:  *)
(* its request, its workspace and its cookie stay.                         *)
(***************************************************************************)
LEMMA AdvanceKeeps ==
  ASSUME FenceInvariant, NEW t \in Tabs, NEW c \in Call, Goto(t, c),
         callOf[t].at \in {"run", "fenced", "record"},
         c.at \in {"fenced", "record", "answer"}, c.at = "fenced" => c.op \in Reading,
         c.op = callOf[t].op, c.id = callOf[t].id, c.workspace = callOf[t].workspace,
         c.fresh = callOf[t].fresh, c.events = callOf[t].events,
         versions' \in Seq(Nat), DOMAIN versions' = DOMAIN versions,
         log' \in [events : Seq(Event), sequence : Nat], LogHolds',
         UNCHANGED <<owners, issued, jar, known, provided, crowded, sentCalls>>
  PROVE  FenceInvariant'
<1>1. callOf \in [Tabs -> Call] /\ callOf[t] \in Call /\ CallHolds(callOf[t])
  BY DEF FenceInvariant, FenceTypes
<1>2. callOf' \in [Tabs -> Call] /\ callOf'[t] = c /\ \A u \in Tabs \ {t} : callOf'[u] = callOf[u]
  BY <1>1 DEF Goto
<1>3. CallHolds(callOf[t])'
  BY <1>1, <1>2 DEF CallHolds
<1>4. /\ \A id \in DOMAIN owners' : owners'[id] \in 1..issued'
      /\ issued' \in Nat /\ issued <= issued'
  BY DEF FenceInvariant, FenceTypes
<1> QED
  BY <1>2, <1>3, <1>4, MoveKeeps

(***************************************************************************)
(* The versioned save moves the version of the request, or reports a       *)
(* conflict.                                                               *)
(***************************************************************************)
LEMMA ReplaceKeeps ==
  ASSUME FenceInvariant, NEW t \in Tabs, Replace(t)
  PROVE  FenceInvariant'
<1> DEFINE current == versions[callOf[t].id] = callOf[t].version
           c == [callOf[t] EXCEPT !.at = "record",
                                  !.code = IF current THEN "updated" ELSE "conflict"]
<1>1. callOf[t] \in Call /\ versions \in Seq(Nat) /\ log \in [events : Seq(Event), sequence : Nat]
  BY DEF FenceInvariant, FenceTypes
<1>2. /\ c \in Call /\ c.at = "record"
      /\ c.op = callOf[t].op /\ c.id = callOf[t].id /\ c.workspace = callOf[t].workspace
      /\ c.fresh = callOf[t].fresh /\ c.events = callOf[t].events
  <2> HIDE DEF current
  <2> QED
    BY <1>1 DEF Call, Stages, Codes
<1>3. versions' \in Seq(Nat) /\ DOMAIN versions' = DOMAIN versions
  <2>1. callOf[t].id \in 1..Len(versions) /\ versions[callOf[t].id] + 1 \in Nat
    <3>1. callOf[t].at = "run" /\ CallHolds(callOf[t])
      BY DEF Replace, FenceInvariant
    <3>2. callOf[t].id \in DOMAIN owners
      BY <3>1 DEF CallHolds
    <3>3. DOMAIN owners \subseteq DOMAIN versions
      BY DEF FenceInvariant, FenceTypes, RequestIds
    <3> QED
      BY <1>1, <3>2, <3>3
  <2>2. [versions EXCEPT ![callOf[t].id] = versions[callOf[t].id] + 1] \in Seq(Nat)
    BY <1>1, <2>1, ExceptSeq
  <2> QED
    BY <1>1, <2>2 DEF Replace
<1>4. Goto(t, c) /\ callOf[t].at = "run"
  BY DEF Replace
<1>5. UNCHANGED <<owners, issued, jar, known, provided, log, crowded, sentCalls>> /\ LogHolds'
  BY DEF Replace, FenceInvariant, LogHolds
<1> HIDE DEF c
<1> QED
  BY <1>1, <1>2, <1>3, <1>4, <1>5, AdvanceKeeps

(***************************************************************************)
(* What an action reads, answers or fails with leaves the stores alone.    *)
(***************************************************************************)
LEMMA ReadLatestKeeps ==
  ASSUME FenceInvariant, NEW t \in Tabs, ReadLatest(t)
  PROVE  FenceInvariant'
<1>1. callOf[t] \in Call /\ versions \in Seq(Nat) /\ log \in [events : Seq(Event), sequence : Nat]
  BY DEF FenceInvariant, FenceTypes
<1>2. /\ UNCHANGED <<versions, owners, issued, jar, known, provided, log, crowded, sentCalls>>
      /\ callOf[t].at = "run" /\ callOf[t].op \in Reading /\ LogHolds'
  BY DEF ReadLatest, FenceInvariant, LogHolds
<1>3. callOf[t].id \in DOMAIN versions
  BY <1>2 DEF FenceInvariant, FenceTypes, CallHolds, RequestIds
<1>4. CASE Goto(t, [callOf[t] EXCEPT !.at = "fenced", !.version = versions[callOf[t].id]])
  <2> DEFINE c == [callOf[t] EXCEPT !.at = "fenced", !.version = versions[callOf[t].id]]
  <2>1. versions[callOf[t].id] \in Nat
    BY <1>1, <1>3
  <2>2. /\ c \in Call /\ c.at = "fenced"
        /\ c.op = callOf[t].op /\ c.id = callOf[t].id /\ c.workspace = callOf[t].workspace
        /\ c.fresh = callOf[t].fresh /\ c.events = callOf[t].events
    BY <1>1, <2>1 DEF Call, Stages
  <2>3. Goto(t, c)
    BY <1>4
  <2> HIDE DEF c
  <2> QED
    BY <1>1, <1>2, <2>2, <2>3, AdvanceKeeps
<1>5. CASE Goto(t, [callOf[t] EXCEPT !.at = "answer", !.code = "refused"])
  <2> DEFINE c == [callOf[t] EXCEPT !.at = "answer", !.code = "refused"]
  <2>2. /\ c \in Call /\ c.at = "answer"
        /\ c.op = callOf[t].op /\ c.id = callOf[t].id /\ c.workspace = callOf[t].workspace
        /\ c.fresh = callOf[t].fresh /\ c.events = callOf[t].events
    BY <1>1 DEF Call, Stages, Codes
  <2>3. Goto(t, c)
    BY <1>5
  <2> HIDE DEF c
  <2> QED
    BY <1>1, <1>2, <2>2, <2>3, AdvanceKeeps
<1> QED
  BY <1>4, <1>5 DEF ReadLatest

(***************************************************************************)
(* A call leaves with a result to record.                                  *)
(***************************************************************************)
LEMMA ResultKeeps ==
  ASSUME FenceInvariant, NEW t \in Tabs, callOf[t].at \in {"run", "fenced"}, NEW code \in Codes,
         Goto(t, [callOf[t] EXCEPT !.at = "record", !.code = code]),
         UNCHANGED <<versions, owners, issued, jar, known, provided, log, crowded, sentCalls>>
  PROVE  FenceInvariant'
<1> DEFINE c == [callOf[t] EXCEPT !.at = "record", !.code = code]
<1>1. callOf[t] \in Call /\ versions \in Seq(Nat) /\ log \in [events : Seq(Event), sequence : Nat]
  BY DEF FenceInvariant, FenceTypes
<1>2. /\ c \in Call /\ c.at = "record"
      /\ c.op = callOf[t].op /\ c.id = callOf[t].id /\ c.workspace = callOf[t].workspace
      /\ c.fresh = callOf[t].fresh /\ c.events = callOf[t].events
  BY <1>1 DEF Call, Stages
<1>3. Goto(t, c) /\ LogHolds'
  BY DEF FenceInvariant, LogHolds
<1> HIDE DEF c
<1> QED
  BY <1>1, <1>2, <1>3, AdvanceKeeps

\* A fenced call that ran has one of its outcomes to record.
LEMMA RunFencedKeeps ==
  ASSUME FenceInvariant, NEW t \in Tabs, RunFenced(t)
  PROVE  FenceInvariant'
<1>1. callOf[t].op \in Reading
  BY DEF RunFenced, FenceInvariant, CallHolds
<1>2. Outcomes(callOf[t].op) \subseteq Codes
  <2>1. CASE callOf[t].op = "case_matrix"
    BY <2>1 DEF Outcomes, Codes
  <2>2. CASE callOf[t].op = "validation"
    BY <2>2 DEF Outcomes, Codes
  <2>3. CASE callOf[t].op = "preview"
    BY <2>3 DEF Outcomes, Codes
  <2>4. CASE callOf[t].op = "rag"
    BY <2>4 DEF Outcomes, Codes
  <2> QED
    BY <1>1, <2>1, <2>2, <2>3, <2>4 DEF Reading
<1>3. \E code \in Codes : Goto(t, [callOf[t] EXCEPT !.at = "record", !.code = code])
  <2>1. "conflict" \in Codes
    BY DEF Codes
  <2> QED
    BY <1>2, <2>1 DEF RunFenced
<1> QED
  BY <1>3, ResultKeeps DEF RunFenced

\* An undo that ran has one of its outcomes to record.
LEMMA UndoKeeps ==
  ASSUME FenceInvariant, NEW t \in Tabs, Undo(t)
  PROVE  FenceInvariant'
<1>1. \E code \in Codes : Goto(t, [callOf[t] EXCEPT !.at = "record", !.code = code])
  BY DEF Undo, Codes
<1> QED
  BY <1>1, ResultKeeps DEF Undo

(***************************************************************************)
(* A result is recorded with the request it is of.                         *)
(***************************************************************************)
LEMMA RecordKeeps ==
  ASSUME FenceInvariant, NEW t \in Tabs, Record(t)
  PROVE  FenceInvariant'
<1> DEFINE c == [callOf[t] EXCEPT !.at = "answer"]
<1>1. /\ callOf[t] \in Call /\ versions \in Seq(Nat)
      /\ log \in [events : Seq(Event), sequence : Nat] /\ LogHolds
  BY DEF FenceInvariant, FenceTypes
<1>2. /\ c \in Call /\ c.at = "answer"
      /\ c.op = callOf[t].op /\ c.id = callOf[t].id /\ c.workspace = callOf[t].workspace
      /\ c.fresh = callOf[t].fresh /\ c.events = callOf[t].events
  BY <1>1 DEF Call, Stages
<1>3. log' \in [events : Seq(Event), sequence : Nat] /\ LogHolds'
  BY <1>1, LogKeeps DEF Record
<1>4. Goto(t, c) /\ callOf[t].at = "record"
  BY DEF Record
<1> HIDE DEF c
<1> QED
  BY <1>1, <1>2, <1>3, <1>4, AdvanceKeeps DEF Record

(***************************************************************************)
(* What a workspace owns stays its own until the events are looked up.     *)
(***************************************************************************)
LEMMA ReadOwnedKeeps ==
  ASSUME FenceInvariant, NEW t \in Tabs, ReadOwned(t)
  PROVE  FenceInvariant'
<1> DEFINE me == Identified(t)
           mine == OwnedBy(me)
           c == [callOf[t] EXCEPT !.at = "events", !.workspace = me, !.mine = mine]
<1>1. /\ me \in 1..issued' /\ issued' \in Nat /\ issued <= issued' /\ me \in Nat
      /\ ~callOf[t].fresh => me = callOf[t].workspace
  BY IdentifiedIsIssued DEF ReadOwned
<1>2. callOf \in [Tabs -> Call] /\ callOf[t] \in Call /\ callOf[t].at = "owned" /\ versions \in Seq(Nat)
  BY DEF FenceInvariant, FenceTypes, ReadOwned
<1>3. callOf[t].events = {} /\ callOf[t].op # "create"
  BY <1>2 DEF FenceInvariant, CallHolds
<1>4. mine \subseteq Nat /\ \A id \in mine : id \in DOMAIN owners /\ owners[id] = me
  BY <1>2 DEF FenceInvariant, FenceTypes, OwnedBy, RequestIds
<1> HIDE DEF me, mine
<1>5. /\ c \in Call /\ c.at = "events" /\ c.workspace = me /\ c.mine = mine
      /\ c.op = callOf[t].op /\ c.fresh = callOf[t].fresh /\ c.events = {}
  BY <1>1, <1>2, <1>3, <1>4 DEF Call, Stages
<1>6. Goto(t, c)
  BY DEF ReadOwned, me, mine
<1> HIDE DEF c
<1>7. callOf' \in [Tabs -> Call] /\ callOf'[t] = c /\ \A u \in Tabs \ {t} : callOf'[u] = callOf[u]
  BY <1>2, <1>5, <1>6 DEF Goto
<1>8. UNCHANGED <<versions, owners, jar, known, provided, log, crowded, sentCalls>>
  BY DEF ReadOwned
<1>9. CallHolds(callOf[t])'
  <2>1. me # 0 /\ me <= issued' /\ c.op # "create"
    BY <1>1, <1>3, <1>5
  <2>2. \A id \in c.mine : id \in DOMAIN owners' /\ owners'[id] = c.workspace
    BY <1>4, <1>5, <1>8
  <2> QED
    BY <1>5, <1>7, <2>1, <2>2 DEF CallHolds
<1>10. /\ \A id \in DOMAIN owners' : owners'[id] \in 1..issued'
       /\ log' \in [events : Seq(Event), sequence : Nat] /\ LogHolds' /\ versions' \in Seq(Nat)
  BY <1>1, <1>8 DEF FenceInvariant, FenceTypes, LogHolds
<1> QED
  BY <1>1, <1>2, <1>5, <1>7, <1>8, <1>9, <1>10, MoveKeeps

(***************************************************************************)
(* The events that are shown are of requests the workspace was read to own.*)
(***************************************************************************)
LEMMA ReadEventsKeeps ==
  ASSUME FenceInvariant, NEW t \in Tabs, ReadEvents(t)
  PROVE  FenceInvariant'
<1> DEFINE shown == Shown(callOf[t].mine)
           c == [callOf[t] EXCEPT !.at = "answer", !.code = "events", !.events = shown]
<1>1. callOf \in [Tabs -> Call] /\ callOf[t] \in Call /\ callOf[t].at = "events" /\ versions \in Seq(Nat)
  BY DEF FenceInvariant, FenceTypes, ReadEvents
<1>2. callOf[t].op # "create" /\ callOf[t].workspace # 0 /\ callOf[t].workspace <= issued
      /\ \A id \in callOf[t].mine : id \in DOMAIN owners /\ owners[id] = callOf[t].workspace
  BY <1>1 DEF FenceInvariant, CallHolds
<1>3. shown \subseteq Event /\ \A e \in shown : e.id \in callOf[t].mine
  <2>1. log.events \in Seq(Event)
    BY DEF FenceInvariant, FenceTypes
  <2>2. Range(log.events) \subseteq Event
    BY <2>1 DEF Range
  <2> QED
    BY <2>2 DEF Shown
<1> HIDE DEF shown
<1>4. /\ c \in Call /\ c.at = "answer" /\ c.workspace = callOf[t].workspace
      /\ c.op = callOf[t].op /\ c.fresh = callOf[t].fresh /\ c.events = shown
  BY <1>1, <1>3 DEF Call, Stages, Codes
<1>5. Goto(t, c)
  BY DEF ReadEvents, shown
<1> HIDE DEF c
<1>6. callOf' \in [Tabs -> Call] /\ callOf'[t] = c /\ \A u \in Tabs \ {t} : callOf'[u] = callOf[u]
  BY <1>1, <1>4, <1>5 DEF Goto
<1>7. UNCHANGED <<versions, owners, issued, jar, known, provided, log, crowded, sentCalls>>
  BY DEF ReadEvents
<1>8. CallHolds(callOf[t])'
  BY <1>2, <1>3, <1>4, <1>6, <1>7 DEF CallHolds
<1>9. /\ \A id \in DOMAIN owners' : owners'[id] \in 1..issued'
      /\ issued' \in Nat /\ issued <= issued'
      /\ log' \in [events : Seq(Event), sequence : Nat] /\ LogHolds' /\ versions' \in Seq(Nat)
  BY <1>7 DEF FenceInvariant, FenceTypes, LogHolds
<1> QED
  BY <1>1, <1>4, <1>6, <1>7, <1>8, <1>9, MoveKeeps

(***************************************************************************)
(* A call that is sent holds nothing yet; what is added to the requests is *)
(* not owned, nor registered by anybody else.                              *)
(***************************************************************************)
LEMMA SendKeeps ==
  ASSUME FenceInvariant, NEW t \in Tabs, NEW call \in Call, Send(t, call),
         call.at \in {"register", "fence", "owned"}, call.events = {},
         call.at # "register" => call.op # "create",
         call.at = "fence" => call.id \in DOMAIN owners \union provided,
         call.at = "register" => /\ call.op = "create"
                                 /\ call.id \in DOMAIN versions' \ DOMAIN versions,
         versions' \in Seq(Nat), DOMAIN versions \subseteq DOMAIN versions'
  PROVE  FenceInvariant'
<1> DEFINE b == Browser[t]
           c == [call EXCEPT !.workspace = jar[b], !.fresh = jar[b] = 0]
<1>1. /\ callOf \in [Tabs -> Call] /\ callOf[t] \in Call /\ callOf[t].at = "idle"
      /\ b \in Browsers /\ jar[b] \in 0..issued /\ jar[b] \in Nat /\ issued \in Nat
  BY DEF FenceInvariant, FenceTypes, Send, Browsers
<1>2. /\ c \in Call /\ c.at = call.at /\ c.op = call.op /\ c.id = call.id
      /\ c.events = {} /\ c.workspace = jar[b] /\ (c.fresh <=> jar[b] = 0)
  BY <1>1 DEF Call
<1>3. Goto(t, c)
  BY DEF Send
<1> HIDE DEF c
<1>4. callOf' \in [Tabs -> Call] /\ callOf'[t] = c /\ \A u \in Tabs \ {t} : callOf'[u] = callOf[u]
  BY <1>1, <1>2, <1>3 DEF Goto
<1>5. UNCHANGED <<owners, issued, jar, known, provided, log>> /\ sentCalls' = sentCalls + 1
  BY DEF Send
<1>6. crowded \subseteq crowded' /\ crowded' \subseteq Browsers
      /\ (b \notin crowded' /\ jar[b] = 0 =>
             \A u \in Tabs : Browser[u] = b => callOf[u].at = "idle")
  BY <1>1 DEF Send, FenceInvariant, FenceTypes
<1>7. FenceTypes'
  <2>1. known' \in [Browsers' -> SUBSET DOMAIN owners'] /\ jar' \in [Browsers' -> 0..issued']
    BY <1>5 DEF FenceInvariant, FenceTypes, Browsers
  <2>3. sentCalls' \in Nat /\ crowded' \subseteq Browsers'
    BY <1>5, <1>6 DEF FenceInvariant, FenceTypes, Browsers
  <2>2. DOMAIN owners' \subseteq RequestIds' /\ provided' \subseteq RequestIds'
    BY <1>5 DEF FenceInvariant, FenceTypes, RequestIds
  <2> QED
    BY <1>4, <1>5, <2>1, <2>2, <2>3 DEF FenceInvariant, FenceTypes
<1>8. ASSUME NEW u \in Tabs
      PROVE  CallHolds(callOf[u])'
  <2>1. CASE u = t
    <3>1. /\ c.workspace <= issued' /\ (c.workspace = 0 => c.fresh)
          /\ c.at \in {"register", "fence", "owned"} /\ (c.at # "register" => c.op # "create")
          /\ (c.at = "fence" => c.id \in DOMAIN owners' \union provided')
      BY <1>1, <1>2, <1>5
    <3> QED
      BY <1>2, <1>4, <2>1, <3>1 DEF CallHolds
  <2>2. CASE u # t
    BY <1>1, <1>4, <1>5, <2>2, CallStays
  <2> QED
    BY <2>1, <2>2
<1>9. RegistersOnce'
  <2>1. DOMAIN owners \subseteq DOMAIN versions /\ provided \subseteq DOMAIN versions
    BY DEF FenceInvariant, FenceTypes, RequestIds
  <2>2. \A u \in Tabs \ {t} : callOf'[u].at = "register" =>
          /\ callOf'[u].op = "create"
          /\ callOf'[u].id \in DOMAIN versions \ (DOMAIN owners \union provided)
          /\ \A v \in Tabs \ {t} : callOf'[v].at = "register" /\ callOf'[v].id = callOf'[u].id
                                    => v = u
    BY <1>4 DEF FenceInvariant, RegistersOnce, RequestIds
  <2>3. callOf'[t].at = "register" =>
          /\ callOf'[t].op = "create" /\ callOf'[t].id \in DOMAIN versions' \ DOMAIN versions
    BY <1>2, <1>4
  <2> QED
    BY <1>5, <2>1, <2>2, <2>3 DEF RegistersOnce, RequestIds
<1>10. CookieSentAlong'
  <2>1. SUFFICES ASSUME NEW d \in Browsers \ crowded'
                 PROVE  /\ \A id \in known[d] : owners[id] = jar[d]
                        /\ \A u \in Tabs :
                             Browser[u] = d /\ callOf'[u].at # "idle" =>
                               IF jar[d] = 0
                               THEN /\ callOf'[u].fresh
                                    /\ \A v \in Tabs :
                                         Browser[v] = d /\ callOf'[v].at # "idle" => v = u
                               ELSE ~callOf'[u].fresh /\ callOf'[u].workspace = jar[d]
    BY <1>5 DEF CookieSentAlong, Browsers
  <2>2. d \in Browsers \ crowded
    BY <1>6
  <2>3. CASE d # b
    BY <1>4, <2>2, <2>3 DEF FenceInvariant, CookieSentAlong
  <2>4. CASE d = b /\ jar[b] = 0
    <3>1. \A u \in Tabs : Browser[u] = d /\ callOf'[u].at # "idle" => u = t
      BY <1>4, <1>6, <2>1, <2>4
    <3>2. callOf'[t].fresh
      BY <1>2, <1>4, <2>4
    <3>3. \A id \in known[d] : owners[id] = jar[d]
      BY <2>2 DEF FenceInvariant, CookieSentAlong
    <3> QED
      BY <2>4, <3>1, <3>2, <3>3
  <2>5. CASE d = b /\ jar[b] # 0
    <3>1. ~callOf'[t].fresh /\ callOf'[t].workspace = jar[b]
      BY <1>2, <1>4, <2>5
    <3>2. \A u \in Tabs \ {t} : Browser[u] = d /\ callOf'[u].at # "idle" =>
            ~callOf'[u].fresh /\ callOf'[u].workspace = jar[d]
      BY <1>4, <2>2, <2>5 DEF FenceInvariant, CookieSentAlong
    <3>3. \A id \in known[d] : owners[id] = jar[d]
      BY <2>2 DEF FenceInvariant, CookieSentAlong
    <3> QED
      BY <2>5, <3>1, <3>2, <3>3
  <2> QED
    BY <2>3, <2>4, <2>5
<1>11. LogHolds'
  BY <1>5 DEF FenceInvariant, LogHolds
<1> QED
  BY <1>7, <1>8, <1>9, <1>10, <1>11 DEF FenceInvariant

\* A new request has the next id, and nobody owns it yet.
LEMMA CreateKeeps ==
  ASSUME FenceInvariant, NEW t \in Tabs, Create(t)
  PROVE  FenceInvariant'
<1> DEFINE call == [Unsent EXCEPT !.at = "register", !.op = "create", !.id = Len(versions) + 1]
<1>1. versions \in Seq(Nat) /\ Len(versions) \in Nat
  BY DEF FenceInvariant, FenceTypes
<1>2. /\ call \in Call /\ call.at = "register" /\ call.op = "create" /\ call.events = {}
      /\ call.id = Len(versions) + 1
  <2>1. Unsent \in Call /\ Unsent.events = {}
    BY DEF Unsent, Call, Stages, Ops, Codes
  <2>2. "register" \in Stages /\ "create" \in Ops /\ Len(versions) + 1 \in Nat
    BY <1>1 DEF Stages, Ops
  <2> QED
    BY <2>1, <2>2 DEF Call
<1>3. Send(t, call) /\ versions' = Append(versions, 1)
  BY DEF Create
<1> HIDE DEF call
<1>4. versions' \in Seq(Nat) /\ DOMAIN versions' = 1..Len(versions) + 1
      /\ DOMAIN versions = 1..Len(versions)
  BY <1>1, <1>3
<1> QED
  BY <1>1, <1>2, <1>3, <1>4, SendKeeps

\* A call is sent for a request that exists, with a version it has reached.
LEMMA AskKeeps ==
  ASSUME FenceInvariant, NEW t \in Tabs, NEW op \in Reading \union {"put", "undo"},
         NEW id \in RequestIds, NEW version \in 0..versions[id], Ask(t, op, id, version)
  PROVE  FenceInvariant'
<1> DEFINE call == [Unsent EXCEPT !.at = "fence", !.op = op, !.id = id, !.version = version]
<1>1. /\ versions \in Seq(Nat) /\ id \in Nat /\ version \in Nat
      /\ op \in Ops /\ op # "create"
  <2>1. versions \in Seq(Nat) /\ id \in 1..Len(versions)
    BY DEF FenceInvariant, FenceTypes, RequestIds
  <2>2. id \in Nat /\ versions[id] \in Nat
    BY <2>1
  <2>3. op \in Ops /\ op # "create"
    BY DEF Ops, Reading
  <2> QED
    BY <2>1, <2>2, <2>3
<1>2. /\ call \in Call /\ call.at = "fence" /\ call.op = op /\ call.events = {} /\ call.id = id
  <2>1. Unsent \in Call /\ Unsent.events = {}
    BY DEF Unsent, Call, Stages, Ops, Codes
  <2>2. "fence" \in Stages
    BY DEF Stages
  <2> QED
    BY <1>1, <2>1, <2>2 DEF Call
<1>3. Send(t, call) /\ versions' = versions /\ id \in known[Browser[t]] \union provided
  BY DEF Ask
<1> HIDE DEF call
<1>4. id \in DOMAIN owners \union provided
  <2>1. Browser[t] \in Browsers
    BY DEF Browsers
  <2>2. known[Browser[t]] \subseteq DOMAIN owners
    BY <2>1 DEF FenceInvariant, FenceTypes
  <2> QED
    BY <1>3, <2>2
<1> QED
  BY <1>1, <1>2, <1>3, <1>4, SendKeeps

\* A call for events names no request.
LEMMA AskEventsKeeps ==
  ASSUME FenceInvariant, NEW t \in Tabs, AskEvents(t)
  PROVE  FenceInvariant'
<1> DEFINE call == [Unsent EXCEPT !.at = "owned", !.op = "events"]
<1>1. call \in Call /\ call.at = "owned" /\ call.op = "events" /\ call.events = {}
  BY DEF Unsent, Call, Stages, Ops, Codes
<1>2. Send(t, call) /\ versions' = versions /\ versions \in Seq(Nat)
  BY DEF AskEvents, FenceInvariant, FenceTypes
<1> HIDE DEF call
<1> QED
  BY <1>1, <1>2, SendKeeps

(***************************************************************************)
(* A request the server makes itself is nobody's, and not being registered.*)
(***************************************************************************)
LEMMA ProvideKeeps ==
  ASSUME FenceInvariant, Provide
  PROVE  FenceInvariant'
<1>1. /\ versions' = Append(versions, 1) /\ provided' = provided \union {Len(versions) + 1}
      /\ UNCHANGED <<owners, issued, jar, known, log, callOf, crowded, sentCalls>>
  BY DEF Provide
<1>2. versions \in Seq(Nat) /\ Len(versions) \in Nat
  BY DEF FenceInvariant, FenceTypes
<1>3. /\ versions' \in Seq(Nat) /\ DOMAIN versions' = 1..Len(versions) + 1
      /\ DOMAIN versions = 1..Len(versions)
  BY <1>1, <1>2
<1>4. FenceTypes'
  <2>1. DOMAIN owners' \subseteq RequestIds' /\ provided' \subseteq RequestIds'
    BY <1>1, <1>2, <1>3 DEF FenceInvariant, FenceTypes, RequestIds
  <2> QED
    BY <1>1, <1>3, <2>1 DEF FenceInvariant, FenceTypes, Browsers
<1>5. \A t \in Tabs : CallHolds(callOf[t])'
  BY <1>1, CallStays DEF FenceInvariant, FenceTypes
<1>6. RegistersOnce'
  BY <1>1, <1>2, <1>3 DEF FenceInvariant, RegistersOnce, RequestIds
<1>7. CookieSentAlong' /\ LogHolds'
  BY <1>1 DEF FenceInvariant, CookieSentAlong, LogHolds, Browsers
<1> QED
  BY <1>4, <1>5, <1>6, <1>7 DEF FenceInvariant

(***************************************************************************)
(* The request that was created becomes the caller's, whom no other call   *)
(* can have taken it from.                                                 *)
(***************************************************************************)
LEMMA RegisterKeeps ==
  ASSUME FenceInvariant, NEW t \in Tabs, Register(t)
  PROVE  FenceInvariant'
<1> DEFINE id == callOf[t].id
           me == Identified(t)
           c == [callOf[t] EXCEPT !.at = "answer", !.workspace = me, !.code = "created"]
<1>1. /\ me \in 1..issued' /\ issued' \in Nat /\ issued <= issued' /\ me \in Nat /\ me # 0
      /\ (callOf[t].at # "idle" /\ ~callOf[t].fresh => me = callOf[t].workspace)
  BY IdentifiedIsIssued DEF Register
<1>2. /\ callOf \in [Tabs -> Call] /\ callOf[t] \in Call /\ callOf[t].at = "register"
      /\ callOf[t].events = {} /\ callOf[t].op = "create"
      /\ id \in RequestIds \ (DOMAIN owners \union provided)
      /\ \A u \in Tabs : callOf[u].at = "register" /\ callOf[u].id = id => u = t
  BY DEF FenceInvariant, FenceTypes, CallHolds, RegistersOnce, Register
<1>3. owners' = [i \in DOMAIN owners \union {id} |-> IF i = id THEN me ELSE owners[i]]
  BY DEF Register
<1> HIDE DEF me
<1>4. /\ DOMAIN owners' = DOMAIN owners \union {id} /\ owners'[id] = me
      /\ \A i \in DOMAIN owners : owners'[i] = owners[i]
      /\ \A i \in DOMAIN owners' : owners'[i] \in 1..issued'
  BY <1>1, <1>2, <1>3 DEF FenceInvariant, FenceTypes
<1>5. /\ c \in Call /\ c.at = "answer" /\ c.workspace = me /\ c.op = "create" /\ c.id = id
      /\ c.fresh = callOf[t].fresh /\ c.events = {}
  BY <1>1, <1>2 DEF Call, Stages, Codes
<1>6. Goto(t, c)
  BY DEF Register, me
<1> HIDE DEF c
<1>7. callOf' \in [Tabs -> Call] /\ callOf'[t] = c /\ \A u \in Tabs \ {t} : callOf'[u] = callOf[u]
  BY <1>2, <1>5, <1>6 DEF Goto
<1>8. UNCHANGED <<versions, jar, known, provided, log, crowded, sentCalls>>
  BY DEF Register
<1>9. FenceTypes'
  <2>1. known' \in [Browsers' -> SUBSET DOMAIN owners'] /\ jar' \in [Browsers' -> 0..issued']
    <3>1. known' \in [Browsers -> SUBSET DOMAIN owners']
      BY <1>4, <1>8 DEF FenceInvariant, FenceTypes
    <3>2. jar' \in [Browsers -> 0..issued']
      BY <1>1, <1>8 DEF FenceInvariant, FenceTypes
    <3> QED
      BY <3>1, <3>2 DEF Browsers
  <2>2. DOMAIN owners' \subseteq RequestIds' /\ provided' \subseteq RequestIds'
    BY <1>2, <1>4, <1>8 DEF FenceInvariant, FenceTypes, RequestIds
  <2> QED
    BY <1>1, <1>4, <1>7, <1>8, <2>1, <2>2 DEF FenceInvariant, FenceTypes, Browsers
<1>10. ASSUME NEW u \in Tabs
       PROVE  CallHolds(callOf[u])'
  <2>1. CASE u = t
    <3>1. c.workspace <= issued' /\ c.workspace # 0 /\ id \in DOMAIN owners'
      BY <1>1, <1>4, <1>5
    <3> QED
      BY <1>4, <1>5, <1>7, <2>1, <3>1 DEF CallHolds
  <2>2. CASE u # t
    BY <1>1, <1>4, <1>7, <1>8, <2>2, CallStays
  <2> QED
    BY <2>1, <2>2
<1>11. RegistersOnce'
  <2>1. \A u \in Tabs : callOf'[u].at = "register" =>
          u # t /\ callOf'[u] = callOf[u] /\ callOf[u].id # id
    BY <1>2, <1>5, <1>7
  <2> QED
    BY <1>4, <1>8, <2>1 DEF FenceInvariant, RegistersOnce, RequestIds
<1>12. CookieSentAlong'
  <2>1. SUFFICES ASSUME NEW b \in Browsers \ crowded
                 PROVE  /\ \A i \in known[b] : owners'[i] = jar[b]
                        /\ \A u \in Tabs :
                             Browser[u] = b /\ callOf'[u].at # "idle" =>
                               IF jar[b] = 0
                               THEN /\ callOf'[u].fresh
                                    /\ \A v \in Tabs :
                                         Browser[v] = b /\ callOf'[v].at # "idle" => v = u
                               ELSE ~callOf'[u].fresh /\ callOf'[u].workspace = jar[b]
    BY <1>8 DEF CookieSentAlong, Browsers
  <2>2. \A i \in known[b] : owners'[i] = jar[b]
    <3>1. known[b] \subseteq DOMAIN owners
      BY DEF FenceInvariant, FenceTypes
    <3> QED
      BY <1>4, <3>1 DEF FenceInvariant, CookieSentAlong
  <2>3. \A u \in Tabs : /\ callOf'[u].at # "idle" <=> callOf[u].at # "idle"
                        /\ callOf'[u].fresh = callOf[u].fresh
                        /\ (callOf[u].at # "idle" /\ ~callOf[u].fresh
                              => callOf'[u].workspace = callOf[u].workspace)
    BY <1>1, <1>2, <1>5, <1>7
  <2> QED
    BY <2>2, <2>3 DEF FenceInvariant, CookieSentAlong
<1>13. LogHolds'
  BY <1>8 DEF FenceInvariant, LogHolds
<1> QED
  BY <1>9, <1>10, <1>11, <1>12, <1>13 DEF FenceInvariant

(***************************************************************************)
(* The answer brings the cookie and the new request together, so that the  *)
(* browser knows the workspace of every request it knows.                  *)
(***************************************************************************)
LEMMA ReceiveKeeps ==
  ASSUME FenceInvariant, NEW t \in Tabs, Receive(t)
  PROVE  FenceInvariant'
<1> DEFINE b == Browser[t]
           c == callOf[t]
<1>1. /\ callOf \in [Tabs -> Call] /\ c \in Call /\ c.at = "answer" /\ b \in Browsers
      /\ c.workspace \in 1..issued
      /\ c.op = "create" => c.id \in DOMAIN owners /\ owners[c.id] = c.workspace
  <2>1. callOf \in [Tabs -> Call] /\ c \in Call /\ c.at = "answer" /\ b \in Browsers /\ CallHolds(c)
    BY DEF FenceInvariant, FenceTypes, Receive, Browsers
  <2>2. c.workspace \in Nat /\ c.workspace <= issued /\ c.workspace # 0 /\ issued \in Nat
    BY <2>1 DEF CallHolds, Call, FenceInvariant, FenceTypes
  <2> HIDE DEF c, b
  <2> QED
    BY <2>1, <2>2 DEF CallHolds
<1>2. /\ jar' = [jar EXCEPT ![b] = IF c.fresh THEN c.workspace ELSE @]
      /\ known' = IF c.op = "create" THEN [known EXCEPT ![b] = @ \union {c.id}] ELSE known
      /\ callOf' = [callOf EXCEPT ![t] = Unsent]
      /\ UNCHANGED <<versions, owners, issued, provided, log, crowded, sentCalls>>
  BY DEF Receive
<1> HIDE DEF b, c
<1>3. Unsent \in Call /\ Unsent.at = "idle" /\ Unsent.workspace = 0 /\ Unsent.events = {}
  BY DEF Unsent, Call, Stages, Ops, Codes
<1>4. callOf' \in [Tabs -> Call] /\ callOf'[t] = Unsent /\ \A u \in Tabs \ {t} : callOf'[u] = callOf[u]
  BY <1>1, <1>2, <1>3
<1>5. FenceTypes'
  <2>1. known' \in [Browsers -> SUBSET DOMAIN owners']
    BY <1>1, <1>2 DEF FenceInvariant, FenceTypes
  <2>2. jar' \in [Browsers -> 0..issued']
    BY <1>1, <1>2 DEF FenceInvariant, FenceTypes
  <2> QED
    BY <1>2, <1>4, <2>1, <2>2 DEF FenceInvariant, FenceTypes, Browsers, RequestIds
<1>6. ASSUME NEW u \in Tabs
      PROVE  CallHolds(callOf[u])'
  <2>1. issued \in Nat
    BY DEF FenceInvariant, FenceTypes
  <2>2. CASE u = t
    BY <1>2, <1>3, <1>4, <2>1, <2>2 DEF CallHolds
  <2>3. CASE u # t
    BY <1>2, <1>4, <2>1, <2>3, CallStays
  <2> QED
    BY <2>2, <2>3
<1>7. RegistersOnce'
  <2>1. \A u \in Tabs : callOf'[u].at = "register" => u # t /\ callOf'[u] = callOf[u]
    BY <1>3, <1>4
  <2> QED
    BY <1>2, <2>1 DEF FenceInvariant, RegistersOnce, RequestIds
<1>8. CookieSentAlong'
  <2>1. SUFFICES ASSUME NEW d \in Browsers \ crowded
                 PROVE  /\ \A i \in known'[d] : owners[i] = jar'[d]
                        /\ \A u \in Tabs :
                             Browser[u] = d /\ callOf'[u].at # "idle" =>
                               IF jar'[d] = 0
                               THEN /\ callOf'[u].fresh
                                    /\ \A v \in Tabs :
                                         Browser[v] = d /\ callOf'[v].at # "idle" => v = u
                               ELSE ~callOf'[u].fresh /\ callOf'[u].workspace = jar'[d]
    BY <1>2 DEF CookieSentAlong, Browsers
  <2>2. /\ \A i \in known[d] : owners[i] = jar[d] /\ owners[i] # 0
        /\ \A u \in Tabs :
             Browser[u] = d /\ callOf[u].at # "idle" =>
               IF jar[d] = 0
               THEN callOf[u].fresh /\ \A v \in Tabs : Browser[v] = d /\ callOf[v].at # "idle" => v = u
               ELSE ~callOf[u].fresh /\ callOf[u].workspace = jar[d]
    <3>1. known[d] \subseteq DOMAIN owners /\ issued \in Nat
      BY DEF FenceInvariant, FenceTypes
    <3>2. \A i \in DOMAIN owners : owners[i] # 0
      BY <3>1 DEF FenceInvariant, FenceTypes
    <3> QED
      BY <3>1, <3>2 DEF FenceInvariant, CookieSentAlong
  <2>3. \A u \in Tabs : callOf'[u].at # "idle" => u # t /\ callOf'[u] = callOf[u]
    BY <1>3, <1>4
  <2>4. jar \in [Browsers -> 0..issued] /\ known \in [Browsers -> SUBSET DOMAIN owners]
    BY DEF FenceInvariant, FenceTypes
  <2>5. CASE d # b
    <3>1. jar'[d] = jar[d] /\ known'[d] = known[d]
      BY <1>1, <1>2, <2>4, <2>5
    <3> QED
      BY <2>2, <2>3, <3>1
  <2>6. CASE d = b /\ jar[b] = 0
    <3>1. c.fresh /\ \A u \in Tabs : Browser[u] = d /\ callOf[u].at # "idle" => u = t
      BY <1>1, <2>2, <2>6 DEF b, c
    <3>2. jar'[d] = c.workspace /\ known[d] = {}
      BY <1>1, <1>2, <2>2, <2>4, <2>6, <3>1
    <3>3. \A i \in known'[d] : owners[i] = jar'[d]
      BY <1>1, <1>2, <2>4, <2>6, <3>2
    <3> QED
      BY <2>3, <3>1, <3>3
  <2>7. CASE d = b /\ jar[b] # 0
    <3>1. ~c.fresh /\ c.workspace = jar[b]
      BY <1>1, <2>2, <2>7 DEF b, c
    <3>2. jar'[d] = jar[d]
      BY <1>1, <1>2, <2>4, <2>7, <3>1
    <3>3. \A i \in known'[d] : owners[i] = jar'[d]
      BY <1>1, <1>2, <2>2, <2>4, <2>7, <3>1, <3>2
    <3> QED
      BY <2>2, <2>3, <3>2, <3>3
  <2> QED
    BY <2>5, <2>6, <2>7
<1>9. LogHolds'
  BY <1>2 DEF FenceInvariant, LogHolds
<1> QED
  BY <1>5, <1>6, <1>7, <1>8, <1>9 DEF FenceInvariant

(***************************************************************************)
(* Every step of the fence, of whichever call, keeps the invariant.        *)
(***************************************************************************)
LEMMA FenceInvariantStep == FenceInvariant /\ [FenceNext]_fenceVars => FenceInvariant'
<1> SUFFICES ASSUME FenceInvariant, [FenceNext]_fenceVars
             PROVE  FenceInvariant'
  OBVIOUS
<1>1. CASE Provide
  BY <1>1, ProvideKeeps
<1>2. ASSUME NEW t \in Tabs,
             \/ Create(t) \/ Register(t) \/ Fence(t) \/ Replace(t) \/ ReadLatest(t) \/ RunFenced(t)
             \/ Undo(t) \/ Record(t) \/ AskEvents(t) \/ ReadOwned(t) \/ ReadEvents(t) \/ Receive(t)
      PROVE  FenceInvariant'
  BY <1>2, CreateKeeps, RegisterKeeps, FenceKeeps, ReplaceKeeps, ReadLatestKeeps, RunFencedKeeps,
     UndoKeeps, RecordKeeps, AskEventsKeeps, ReadOwnedKeeps, ReadEventsKeeps, ReceiveKeeps
<1>3. ASSUME NEW t \in Tabs, NEW op \in Reading \union {"put", "undo"}, NEW id \in RequestIds,
             NEW version \in 0..versions[id], Ask(t, op, id, version)
      PROVE  FenceInvariant'
  BY <1>3, AskKeeps
<1>4. CASE UNCHANGED fenceVars
  <2>1. FenceTypes' /\ \A t \in Tabs : CallHolds(callOf[t])'
    <3>1. FenceTypes'
      BY <1>4 DEF FenceInvariant, FenceTypes, fenceVars, Browsers, RequestIds
    <3>2. \A t \in Tabs : CallHolds(callOf[t])'
      BY <1>4 DEF FenceInvariant, CallHolds, fenceVars
    <3> QED
      BY <3>1, <3>2
  <2>2. RegistersOnce' /\ CookieSentAlong'
    BY <1>4 DEF FenceInvariant, RegistersOnce, CookieSentAlong, fenceVars, Browsers, RequestIds
  <2>3. LogHolds'
    BY <1>4 DEF FenceInvariant, LogHolds, fenceVars
  <2> QED
    BY <2>1, <2>2, <2>3 DEF FenceInvariant
<1> QED
  BY <1>1, <1>2, <1>3, <1>4 DEF FenceNext

(***************************************************************************)
(* In every reachable state, for any number of browsers, tabs and calls,   *)
(* the ids and owners that calls hold are those of the stores              *)
(* (enforce_browser_workspace, app.py).                                    *)
(***************************************************************************)
THEOREM FenceInvariantHolds == FenceSpec => []FenceInvariant
<1>1. FenceInit => FenceInvariant
  BY FenceInvariantInit
<1>2. FenceInvariant /\ [FenceNext]_fenceVars => FenceInvariant'
  BY FenceInvariantStep
<1> QED
  BY <1>1, <1>2, PTL DEF FenceSpec

(***************************************************************************)
(* Owners are workspaces that were given, and the audit log holds the      *)
(* latest events in order, without a gap, and no more than it may.         *)
(***************************************************************************)
THEOREM WorkspaceTypesHold == FenceSpec => []WorkspaceTypeOK
<1>1. FenceInvariant => WorkspaceTypeOK
  BY DEF FenceInvariant, FenceTypes, LogHolds, WorkspaceTypeOK
<1> QED
  BY <1>1, FenceInvariantHolds, PTL

(***************************************************************************)
(* Whatever passed the fence is done, recorded and answered for the        *)
(* workspace that owns the request, however first callers raced.           *)
(***************************************************************************)
THEOREM ServedByOwnerHolds == FenceSpec => []ServedByOwner
<1>1. FenceInvariant => ServedByOwner
  BY DEF FenceInvariant, CallHolds, ServedByOwner, Owner
<1> QED
  BY <1>1, FenceInvariantHolds, PTL

(***************************************************************************)
(* A workspace is shown audit events of its own requests only.             *)
(***************************************************************************)
THEOREM EventsAreOwnHolds == FenceSpec => []EventsAreOwn
<1>1. FenceInvariant => EventsAreOwn
  BY DEF FenceInvariant, CallHolds, EventsAreOwn, Owner
<1> QED
  BY <1>1, FenceInvariantHolds, PTL

(***************************************************************************)
(* A browser that lets its first call be answered before it sends another  *)
(* reaches every request it created.                                       *)
(***************************************************************************)
THEOREM BrowserReachesItsOwnHolds == FenceSpec => []BrowserReachesItsOwn
<1>1. ASSUME FenceInvariant
      PROVE  BrowserReachesItsOwn
  <2>1. known \in [Browsers -> SUBSET DOMAIN owners]
    BY <1>1 DEF FenceInvariant, FenceTypes
  <2>2. ASSUME NEW b \in Browsers \ crowded, NEW id \in known[b]
        PROVE  Owner(id) = jar[b]
    <3>1. id \in DOMAIN owners /\ owners[id] = jar[b]
      BY <1>1, <2>1 DEF FenceInvariant, CookieSentAlong
    <3> QED
      BY <3>1 DEF Owner
  <2> QED
    BY <2>2 DEF BrowserReachesItsOwn
<1> QED
  BY <1>1, FenceInvariantHolds, PTL

-----------------------------------------------------------------------------
(* What is kept of a sequence (CaseMatrix), for the rows of a request.     *)

\* The matrix counts and collects as the rest of the request does.
LEMMA SameCardinality ==
  ASSUME NEW S
  PROVE  Matrix!Cardinality(S) = Cardinality(S)
BY DEF Matrix!Cardinality, Cardinality

\* The same for the elements of a list.
LEMMA SameRange ==
  ASSUME NEW s
  PROVE  Matrix!Range(s) = Range(s)
BY DEF Matrix!Range, Range

\* The place of i among the numbers of I.
Rank(I, i) == Cardinality({j \in I : j <= i})

\* The positions kept, in ascending order, are each of them once.
LEMMA PositionsAre ==
  ASSUME NEW I \in SUBSET Nat, IsFiniteSet(I)
  PROVE  /\ Cardinality(I) \in Nat
         /\ \A k \in 1..Cardinality(I) : Matrix!Ascending(I)[k] \in I
         /\ \A i \in I : \E k \in 1..Cardinality(I) : Matrix!Ascending(I)[k] = i
<1> DEFINE n == Cardinality(I)
           rank == [i \in I |-> Rank(I, i)]
           at == Matrix!Ascending(I)
<1>1. n \in Nat
  BY FS_CardinalityType
<1>2. ASSUME NEW i \in I
      PROVE  Rank(I, i) \in 1..n
  <2> DEFINE low == {j \in I : j <= i}
  <2>1. low \subseteq I /\ i \in low
    OBVIOUS
  <2> HIDE DEF low
  <2>2. IsFiniteSet(low) /\ Cardinality(low) <= n
    BY <2>1, FS_Subset
  <2>3. Cardinality(low) \in Nat
    BY <2>2, FS_CardinalityType
  <2>4. Cardinality(low) # 0
    BY <2>1, <2>2, FS_EmptySet
  <2>5. Rank(I, i) = Cardinality(low)
    BY DEF Rank, low
  <2> HIDE DEF n
  <2> QED
    BY <1>1, <2>2, <2>3, <2>4, <2>5
<1>3. ASSUME NEW i \in I, NEW j \in I, i < j
      PROVE  Rank(I, i) # Rank(I, j)
  <2> DEFINE low  == {m \in I : m <= i}
             high == {m \in I : m <= j}
  <2>1. i \in Nat /\ j \in Nat
    OBVIOUS
  <2>2. \A m \in I : m <= i => m <= j
    <3> TAKE m \in I
    <3>1. m \in Nat
      OBVIOUS
    <3> QED
      BY <1>3, <2>1, <3>1
  <2>3. low \subseteq high
    BY <2>2
  <2>4. j \in high /\ j \notin low
    BY <1>3, <2>1
  <2>5. high \subseteq I
    OBVIOUS
  <2> HIDE DEF low, high
  <2>6. IsFiniteSet(high)
    BY <2>5, FS_Subset
  <2>7. Cardinality(low) # Cardinality(high)
    BY <2>3, <2>4, <2>6, FS_Subset
  <2> QED
    BY <2>7 DEF Rank, low, high
<1>4. rank \in Injection(I, 1..n)
  <2>1. rank \in [I -> 1..n]
    BY <1>2
  <2>2. ASSUME NEW i \in I, NEW j \in I, i # j
        PROVE  rank[i] # rank[j]
    <3>1. i < j \/ j < i
      BY <2>2
    <3> QED
      BY <3>1, <1>3
  <2> QED
    BY <2>1, <2>2 DEF Injection, IsInjective
<1>5. IsFiniteSet(1..n) /\ Cardinality(1..n) = n
  <2>1. 1 \in Int /\ n \in Int
    BY <1>1
  <2> HIDE DEF n
  <2>2. IsFiniteSet(1..n) /\ Cardinality(1..n) = IF 1 > n THEN 0 ELSE n - 1 + 1
    BY ONLY <2>1, FS_Interval
  <2> QED
    BY ONLY <1>1, <2>2
<1>6. rank \in Surjection(I, 1..n)
  BY <1>4, <1>5, FS_Injection
<1>7. \A k \in 1..n : \E i \in I : Rank(I, i) = k
  BY <1>6 DEF Surjection
<1>8. ASSUME NEW k \in 1..n
      PROVE  at[k] \in I /\ Rank(I, at[k]) = k
  <2>1. at = [m \in 1..Cardinality(I) |-> CHOOSE i \in I : Cardinality({j \in I : j <= i}) = m]
    BY DEF Matrix!Ascending, Matrix!Cardinality, Cardinality
  <2>2. at[k] = CHOOSE i \in I : Rank(I, i) = k
    BY <2>1 DEF Rank
  <2> QED
    BY <2>2, <1>7
<1>9. ASSUME NEW i \in I
      PROVE  \E k \in 1..n : at[k] = i
  <2> DEFINE k == Rank(I, i)
  <2>1. k \in 1..n /\ at[k] \in I /\ Rank(I, at[k]) = k
    BY <1>2, <1>8
  <2>2. ~(at[k] < i) /\ ~(i < at[k])
    BY <2>1, <1>3
  <2>3. i \in Nat /\ at[k] \in Nat
    BY <2>1
  <2>4. at[k] = i
    BY <2>2, <2>3
  <2> QED
    BY <2>1, <2>4
<1> QED
  BY <1>1, <1>8, <1>9

\* What is kept are the elements at the positions given.
KeptOf(r, s, I) ==
  /\ Len(r) \in Nat
  /\ Len(r) = 0 => r = << >>
  /\ \A k \in 1..Len(r) : \E i \in I : r[k] = s[i]
  /\ \A i \in I : \E k \in 1..Len(r) : r[k] = s[i]

\* What Kept returns is what s has at these positions, no more and no less.
LEMMA KeptIs ==
  ASSUME NEW n \in Nat, NEW I \in SUBSET (1..n), NEW s
  PROVE  KeptOf(Matrix!Kept(s, I), s, I)
<1> DEFINE at == Matrix!Ascending(I)
           c  == Cardinality(I)
           r  == Matrix!Kept(s, I)
<1>1. I \in SUBSET Nat /\ IsFiniteSet(I)
  <2>1. 1 \in Int /\ n \in Int
    OBVIOUS
  <2>2. IsFiniteSet(1..n)
    BY <2>1, FS_Interval
  <2>3. IsFiniteSet(I)
    BY <2>2, FS_Subset
  <2>4. 1..n \subseteq Nat
    OBVIOUS
  <2> QED
    BY <2>3, <2>4
<1>2. /\ c \in Nat /\ \A k \in 1..c : at[k] \in I
      /\ \A i \in I : \E k \in 1..c : at[k] = i
  BY <1>1, PositionsAre
<1>3. r = [k \in 1..c |-> s[at[k]]]
  BY SameCardinality DEF Matrix!Kept
<1> HIDE DEF at, r, c
<1>4. Len(r) = c
  BY <1>2, <1>3, IsASeq
<1>5. \A k \in 1..c : r[k] = s[at[k]]
  BY <1>3
<1>6. \A k \in 1..c : \E i \in I : r[k] = s[i]
  BY <1>2, <1>5
<1>7. \A i \in I : \E k \in 1..c : r[k] = s[i]
  BY <1>2, <1>5
<1>8. c = 0 => r = << >>
  <2>1. SUFFICES ASSUME c = 0
                 PROVE  r = << >>
    OBVIOUS
  <2>2. 1..c = {}
    BY <2>1
  <2>3. r = [k \in {} |-> s[at[k]]]
    BY <1>3, <2>2
  <2> QED
    BY <2>3
<1> QED
  BY <1>2, <1>4, <1>6, <1>7, <1>8 DEF r, KeptOf

-----------------------------------------------------------------------------
(* Rows: lists of records with the one scope.                              *)

OfTheOne(r) == "scope" \in DOMAIN r /\ r.scope = Alone
RowList(rows) == \E S : rows \in Seq(S) /\ \A r \in S : OfTheOne(r)

\* A list of rows has a length, and rows that have the one scope.
LEMMA RowListIs ==
  ASSUME NEW rows, RowList(rows)
  PROVE  /\ Len(rows) \in Nat /\ DOMAIN rows = 1..Len(rows)
         /\ \A i \in 1..Len(rows) : OfTheOne(rows[i])
<1>1. PICK S : rows \in Seq(S) /\ \A r \in S : OfTheOne(r)
  BY DEF RowList
<1> QED
  BY <1>1

\* Any list of such rows is one.
LEMMA RowListOf ==
  ASSUME NEW n \in Nat, NEW f, f = [i \in 1..n |-> f[i]], \A i \in 1..n : OfTheOne(f[i])
  PROVE  RowList(f)
<1> DEFINE S == {f[i] : i \in 1..n}
<1>1. \A r \in S : OfTheOne(r)
  OBVIOUS
<1>2. [i \in 1..n |-> f[i]] \in Seq(S)
  OBVIOUS
<1> QED
  BY <1>1, <1>2 DEF RowList

\* One list after the other is a list.
LEMMA RowListConcat ==
  ASSUME NEW p, NEW q, RowList(p), RowList(q)
  PROVE  RowList(p \o q)
<1>1. PICK S : p \in Seq(S) /\ \A r \in S : OfTheOne(r)
  BY DEF RowList
<1>2. PICK T : q \in Seq(T) /\ \A r \in T : OfTheOne(r)
  BY DEF RowList
<1>3. p \in Seq(S \cup T) /\ q \in Seq(S \cup T)
  BY <1>1, <1>2
<1>4. p \o q \in Seq(S \cup T)
  BY <1>3
<1>5. \A r \in S \cup T : OfTheOne(r)
  BY <1>1, <1>2
<1> QED
  BY <1>4, <1>5 DEF RowList

\* A list without one of its rows is a list.
LEMMA RowListWithout ==
  ASSUME NEW rows, RowList(rows), NEW i \in DOMAIN rows
  PROVE  RowList(RemoveAt(rows, i))
<1>1. PICK S : rows \in Seq(S) /\ \A r \in S : OfTheOne(r)
  BY DEF RowList
<1>2. i \in 1..Len(rows) /\ Len(rows) \in Nat
  BY <1>1
<1>3. SubSeq(rows, 1, i - 1) \in Seq(S) /\ SubSeq(rows, i + 1, Len(rows)) \in Seq(S)
  BY <1>1, <1>2
<1>4. RemoveAt(rows, i) \in Seq(S)
  BY <1>3 DEF RemoveAt
<1> QED
  BY <1>1, <1>4 DEF RowList

-----------------------------------------------------------------------------
(* Normalization.                                                          *)

\* What a request sends of its rows are those of the one scope.
LEMMA InScopeIs ==
  ASSUME NEW rows, RowList(rows)
  PROVE  RowList(Matrix!InScope(rows, Alone))
<1> DEFINE I    == {i \in 1..Len(rows) : \/ rows[i].scope = Alone
                                         \/ rows[i].scope = Matrix!Whole /\ Alone = <<Alone>>[1]}
           own  == Matrix!Kept(rows, I)
           made == [i \in 1..Len(own) |-> [own[i] EXCEPT !.scope = Alone]]
<1>1. Len(rows) \in Nat /\ \A i \in 1..Len(rows) : OfTheOne(rows[i])
  BY RowListIs
<1>2. I \in SUBSET (1..Len(rows))
  OBVIOUS
<1>3. Matrix!InScope(rows, Alone) = made
  BY DEF Matrix!InScope
<1> HIDE DEF I
<1>4. KeptOf(own, rows, I)
  BY <1>1, <1>2, KeptIs
<1> HIDE DEF own
<1>5. /\ Len(own) \in Nat
      /\ \A k \in 1..Len(own) : \E i \in I : own[k] = rows[i]
  BY <1>4 DEF KeptOf
<1>6. ASSUME NEW k \in 1..Len(own)
      PROVE  OfTheOne([own[k] EXCEPT !.scope = Alone])
  <2>1. OfTheOne(own[k])
    BY <1>1, <1>2, <1>5
  <2> QED
    BY <2>1 DEF OfTheOne
<1>7. made = [k \in 1..Len(own) |-> made[k]] /\ \A k \in 1..Len(own) : OfTheOne(made[k])
  BY <1>6
<1> HIDE DEF made
<1>8. RowList(made)
  BY <1>5, <1>7, RowListOf
<1> QED
  BY <1>3, <1>8

\* Bringing a row in line leaves it in its scope.
LEMMA NormalRowIs ==
  ASSUME NEW r, NEW content, OfTheOne(r)
  PROVE  OfTheOne(Matrix!NormalRow(r, content))
BY DEF OfTheOne, Matrix!NormalRow

\* A row that is added is of the scope it is added to.
LEMMA AutoRowIs ==
  ASSUME NEW id, NEW product, NEW content
  PROVE  OfTheOne(Matrix!AutoRow(id, Alone, product, content))
BY DEF OfTheOne, Matrix!AutoRow

\* The rows of an answer are rows of the one scope, whatever was sent and is known.
LEMMA NormalIs ==
  ASSUME NEW rows, NEW content, NEW wanted, RowList(rows)
  PROVE  RowList(Matrix!Normal(rows, content, wanted))
<1> DEFINE seen  == Matrix!KnownIn(rows, wanted[Alone])
           held  == Matrix!InScope(rows, Alone)
           brought == [i \in 1..Len(held) |-> Matrix!NormalRow(held[i], content)]
           I     == {k \in 1..Len(Parts) : Parts[k] \in Matrix!UsableProducts(content) \ seen}
           new   == Matrix!Kept(Parts, I)
           added == [k \in 1..Len(new) |->
                       Matrix!AutoRow(Matrix!FreshIds(brought, Len(new))[k], Alone, new[k], content)]
<1>1. Matrix!Normal(rows, content, wanted) = Matrix!NormalScope(held, Alone, content, seen)
  BY DEF Matrix!Normal
<1>2. Matrix!NormalScope(held, Alone, content, seen) =
        Matrix!WithAutoRows(brought, Alone, content, seen)
  BY DEF Matrix!NormalScope
<1>3. Matrix!WithAutoRows(brought, Alone, content, seen) = brought \o added
  BY DEF Matrix!WithAutoRows
<1>4. RowList(held)
  BY InScopeIs
<1> HIDE DEF held, seen
<1>5. RowList(brought)
  <2>1. Len(held) \in Nat /\ \A i \in 1..Len(held) : OfTheOne(held[i])
    BY <1>4, RowListIs
  <2>2. \A i \in 1..Len(held) : OfTheOne(brought[i])
    BY <2>1, NormalRowIs
  <2>3. brought = [i \in 1..Len(held) |-> brought[i]]
    OBVIOUS
  <2> HIDE DEF brought
  <2> QED
    BY <2>1, <2>2, <2>3, RowListOf
<1> HIDE DEF brought
<1>6. RowList(added)
  <2>1. Len(Parts) \in Nat
    BY CarriedAssumption
  <2>2. I \in SUBSET (1..Len(Parts))
    OBVIOUS
  <2> HIDE DEF I
  <2>3. KeptOf(new, Parts, I)
    BY <2>1, <2>2, KeptIs
  <2> HIDE DEF new
  <2>4. Len(new) \in Nat
    BY <2>3 DEF KeptOf
  <2>5. \A k \in 1..Len(new) : OfTheOne(added[k])
    BY AutoRowIs
  <2>6. added = [k \in 1..Len(new) |-> added[k]]
    OBVIOUS
  <2> HIDE DEF added
  <2> QED
    BY <2>4, <2>5, <2>6, RowListOf
<1> HIDE DEF added
<1>7. RowList(brought \o added)
  BY <1>5, <1>6, RowListConcat
<1> QED
  BY <1>1, <1>2, <1>3, <1>7

\* If the validator reports nothing of the rows, the gate of the Word file opens.
LEMMA CleanRowsAreExported ==
  ASSUME NEW rows, NEW content, RowList(rows),
         Matrix!Blocking(Matrix!Verdict(rows, content)) = {}
  PROVE  WordOfRows(rows, content) = "file"
<1> DEFINE v    == Matrix!Verdict(rows, content)
           I    == {i \in 1..Len(rows) : rows[i].scope = Alone}
           mine == Matrix!Kept(rows, I)
           open == rows = << >> \/ \E i \in DOMAIN rows : ~Matrix!Complete(rows[i], content)
<1>1. v.rows = {} /\ v.unused = {}
  BY DEF Matrix!Blocking, Matrix!Misconfigured
<1>2. v.rows = {s \in Matrix!Range(<<Alone>>) : Matrix!BrokenRows(rows, content, s)}
  BY DEF Matrix!Verdict
<1>3. Alone \in Matrix!Range(<<Alone>>)
  BY DEF Matrix!Range
<1>4. ~Matrix!BrokenRows(rows, content, Alone)
  BY <1>1, <1>2, <1>3
<1>5. mine # << >> /\ \A k \in 1..Len(mine) : Matrix!Complete(mine[k], content)
  BY <1>4 DEF Matrix!BrokenRows, Matrix!RowsOf
<1>6. /\ Len(rows) \in Nat /\ DOMAIN rows = 1..Len(rows)
      /\ \A i \in 1..Len(rows) : OfTheOne(rows[i])
  BY RowListIs
<1>7. I = 1..Len(rows)
  BY <1>6 DEF OfTheOne
<1>8. KeptOf(mine, rows, I)
  <2>1. I \in SUBSET (1..Len(rows))
    OBVIOUS
  <2>2. Len(rows) \in Nat
    BY <1>6
  <2> HIDE DEF I
  <2> QED
    BY ONLY <2>1, <2>2, KeptIs
<1> HIDE DEF I, mine
<1>9. \A i \in DOMAIN rows : Matrix!Complete(rows[i], content)
  BY <1>5, <1>6, <1>7, <1>8 DEF KeptOf
<1>10. rows # << >>
  <2>1. SUFFICES ASSUME rows = << >>
                 PROVE  FALSE
    OBVIOUS
  <2>2. Len(rows) = 0
    BY <2>1
  <2>3. I = {}
    BY <1>7, <2>2
  <2>4. \A k \in 1..Len(mine) : FALSE
    BY <1>8, <2>3 DEF KeptOf
  <2>5. Len(mine) = 0
    BY <1>8, <2>4 DEF KeptOf
  <2>6. mine = << >>
    BY <1>8, <2>5 DEF KeptOf
  <2> QED
    BY <1>5, <2>6
<1>11. ~open
  BY <1>9, <1>10
<1> HIDE DEF v, open
<1>12. WordOfRows(rows, content) =
         CASE open -> "selection"
           [] ~open /\ v.rows # {} -> "duplicate"
           [] ~open /\ v.rows = {} /\ v.unused # {} -> "coverage"
           [] OTHER -> "file"
  BY DEF WordOfRows, v, open
<1> QED
  BY <1>1, <1>11, <1>12

-----------------------------------------------------------------------------
(* Requests.                                                               *)

DocFields == {"general", "content", "rows", "options", "kind", "locked", "number",
              "draft", "result", "submission"}

DraftOK(d) ==
  /\ DOMAIN d = {"status", "of", "text"}
  /\ d.status \in {"", "ready", "blocked"}
  /\ d.text \in {"", "written", "suggested", "approved"}

ResultOK(r) == (r.payload # << >>) <=> (r.by = "review" /\ r.can)

\* A request that may be sent or answered.
Doc(doc) ==
  /\ DOMAIN doc = DocFields
  /\ doc.general \in {0, 1} /\ doc.kind \in Analyses \cup {0} /\ doc.number \in Numbered
  /\ doc.content \in [Matrix!Sources -> {Matrix!Unfilled, 1}]
  /\ doc.options \subseteq Matrix!Sources
  /\ doc.locked \in BOOLEAN /\ doc.submission \in BOOLEAN
  /\ DraftOK(doc.draft) /\ ResultOK(doc.result)
  /\ RowList(doc.rows)

\* A request stays one when its general fields are filled in or emptied.
LEMMA GeneralEdited ==
  ASSUME NEW doc, Doc(doc), NEW v \in {0, 1}
  PROVE  Doc([doc EXCEPT !.general = v])
BY DEF Doc, DocFields

\* It stays one when a product or a card is filled in or emptied.
LEMMA ContentEdited ==
  ASSUME NEW doc, Doc(doc), NEW s \in Matrix!Sources, NEW v \in {Matrix!Unfilled, 1}
  PROVE  Doc([doc EXCEPT !.content[s] = v])
<1> DEFINE content == [doc.content EXCEPT ![s] = v]
<1>1. content \in [Matrix!Sources -> {Matrix!Unfilled, 1}]
  BY DEF Doc
<1>2. [doc EXCEPT !.content[s] = v] = [doc EXCEPT !.content = content]
  OBVIOUS
<1> HIDE DEF content
<1>3. Doc([doc EXCEPT !.content = content])
  BY <1>1 DEF Doc, DocFields
<1> QED
  BY <1>2, <1>3

\* It stays one when a kind of analysis is chosen, and when its context is confirmed.
LEMMA KindEdited ==
  ASSUME NEW doc, Doc(doc), NEW k \in Analyses
  PROVE  /\ Doc([doc EXCEPT !.kind = k])
         /\ Doc([doc EXCEPT !.kind = k, !.locked = TRUE, !.number = 1])
BY DEF Doc, DocFields, Numbered

\* It stays one when the confirmation is taken back, and when it is given a number.
LEMMA HeadEdited ==
  ASSUME NEW doc, Doc(doc)
  PROVE  /\ Doc([doc EXCEPT !.locked = FALSE])
         /\ Doc([doc EXCEPT !.number = 1])
BY DEF Doc, DocFields, Numbered

\* It stays one with other rows of the one scope.
LEMMA RowsEdited ==
  ASSUME NEW doc, Doc(doc), NEW rows, RowList(rows)
  PROVE  Doc([doc EXCEPT !.rows = rows])
BY DEF Doc, DocFields

\* It stays one with another draft.
LEMMA DraftEdited ==
  ASSUME NEW doc, Doc(doc), NEW d, DraftOK(d)
  PROVE  Doc([doc EXCEPT !.draft = d])
BY DEF Doc, DocFields

\* It stays one with another result of a review or a submission.
LEMMA ResultEdited ==
  ASSUME NEW doc, Doc(doc), NEW r, ResultOK(r)
  PROVE  Doc([doc EXCEPT !.result = r])
BY DEF Doc, DocFields

\* Normalization brings rows in line and records the options.
LEMMA NormalizedIs ==
  ASSUME NEW doc, Doc(doc)
  PROVE  /\ Doc(Normalized(doc))
         /\ Normalized(doc).content = doc.content
         /\ Normalized(doc).locked = doc.locked
         /\ RowList(Normalized(doc).rows)
<1> DEFINE wanted   == [s \in {Alone} |-> doc.options \cap Range(Parts)]
           rows    == Matrix!Normal(doc.rows, doc.content, wanted)
           options == {s \in Matrix!Sources : doc.content[s] # Matrix!Unfilled}
<1>1. RowList(rows)
  <2>1. RowList(doc.rows)
    BY DEF Doc
  <2> QED
    BY <2>1, NormalIs
<1>2. options \subseteq Matrix!Sources
  OBVIOUS
<1>3. Normalized(doc) = [doc EXCEPT !.rows = rows, !.options = options]
  BY DEF Normalized
<1> HIDE DEF rows, options
<1> QED
  BY <1>1, <1>2, <1>3 DEF Doc, DocFields

\* Validation adds what the submission says.
LEMMA ValidatedIs ==
  ASSUME NEW doc, Doc(doc)
  PROVE  /\ Doc(Validated(doc))
         /\ Validated(doc).content = doc.content
         /\ Validated(doc).rows = Normalized(doc).rows
<1> DEFINE n == Normalized(doc)
           v == CanSubmit(n)
<1>1. Doc(n) /\ n.content = doc.content
  BY NormalizedIs
<1>2. Validated(doc) = [n EXCEPT !.submission = v]
  BY DEF Validated
<1>3. v \in BOOLEAN
  BY DEF CanSubmit
<1> HIDE DEF n, v
<1>4. /\ Doc([n EXCEPT !.submission = v])
      /\ [n EXCEPT !.submission = v].content = n.content
      /\ [n EXCEPT !.submission = v].rows = n.rows
  BY <1>1, <1>3 DEF Doc, DocFields
<1> QED
  BY <1>1, <1>2, <1>4 DEF n

-----------------------------------------------------------------------------
(* Calls.                                                                  *)

\* A draft that is made is one.
LEMMA DraftOfIs ==
  ASSUME NEW doc
  PROVE  DraftOK(DraftOf(doc))
<1> DEFINE v == Validated(doc)
<1>1. DraftOf(doc) = [status |-> IF CanSubmit(v) THEN "ready" ELSE "blocked", of |-> Inputs(v),
                      text   |-> "written"]
  BY DEF DraftOf
<1> HIDE DEF v
<1> QED
  BY <1>1 DEF DraftOK

\* A draft with a better text is one, and one that is approved.
LEMMA SuggestedIs ==
  ASSUME NEW d, DraftOK(d)
  PROVE  (\A e \in Suggested(d) : DraftOK(e)) /\ DraftOK(Approved(d))
BY DEF DraftOK, Suggested, Approved

\* The answer to a draft call is a request.
LEMMA DraftedIs ==
  ASSUME NEW doc, Doc(doc), NEW d, DraftOK(d)
  PROVE  Doc(Drafted(doc, d))
BY ValidatedIs, DraftEdited DEF Drafted

\* The answer to a review is a request: only a review that may submit has a payload.
LEMMA ReviewedIs ==
  ASSUME NEW doc, Doc(doc), NEW d, DraftOK(d)
  PROVE  Doc(Reviewed(doc, d))
<1> DEFINE v    == Validated(doc)
           used == DraftForReview(v, d)
           can  == CanSubmit(v)
           load == IF can THEN <<Inputs(v), v.number, used>> ELSE << >>
           r    == [by |-> "review", can |-> can, payload |-> load]
           with == [v EXCEPT !.draft = used]
<1>1. Doc(v)
  BY ValidatedIs
<1>2. DraftOK(used)
  BY DraftOfIs DEF DraftForReview
<1>3. ResultOK(r)
  <2>1. can \in BOOLEAN
    BY DEF CanSubmit
  <2>2. <<Inputs(v), v.number, used>> # << >>
    OBVIOUS
  <2> HIDE DEF can, v, used
  <2>3. load # << >> <=> can
    BY <2>1, <2>2
  <2> HIDE DEF load
  <2>4. r.payload = load /\ r.by = "review" /\ r.can = can
    OBVIOUS
  <2> HIDE DEF r
  <2> QED
    BY <2>1, <2>3, <2>4 DEF ResultOK
<1>4. Reviewed(doc, d) = [v EXCEPT !.draft = used, !.result = r]
  BY DEF Reviewed
<1> HIDE DEF v, used, r
<1>5. Doc(with)
  BY <1>1, <1>2, DraftEdited
<1>6. [v EXCEPT !.draft = used, !.result = r] = [with EXCEPT !.result = r]
  BY <1>1 DEF Doc, DocFields
<1> HIDE DEF with
<1>7. Doc([with EXCEPT !.result = r])
  BY <1>3, <1>5, ResultEdited
<1> QED
  BY <1>4, <1>6, <1>7

\* The answer to a submission is a request, which has no payload.
LEMMA SubmittedIs ==
  ASSUME NEW doc, Doc(doc)
  PROVE  Doc(Submitted(doc))
<1> DEFINE v == Validated(doc)
           numbered == Validated([doc EXCEPT !.number = 1])
           n == IF CanSubmit(v) /\ v.number = 0 THEN numbered ELSE v
           r == [by |-> "submit", can |-> CanSubmit(n), payload |-> << >>]
<1>1. Doc(v)
  BY ValidatedIs
<1>2. Doc(numbered)
  <2>1. Doc([doc EXCEPT !.number = 1])
    BY HeadEdited
  <2> QED
    BY <2>1, ValidatedIs
<1>3. Submitted(doc) = [n EXCEPT !.result = r]
  BY DEF Submitted
<1> HIDE DEF v, numbered
<1>4. Doc(n)
  BY <1>1, <1>2
<1> HIDE DEF n
<1>5. ResultOK(r)
  BY DEF ResultOK
<1> HIDE DEF r
<1> QED
  BY <1>3, <1>4, <1>5, ResultEdited

\* A request to which a proposal is applied is a request.
LEMMA PatchedIs ==
  ASSUME NEW doc, Doc(doc), NEW w \in Writes
  PROVE  Doc(Patched(doc, w))
<1> DEFINE next == IF w.field = "general" THEN [doc EXCEPT !.general = w.value]
                   ELSE [doc EXCEPT !.content[w.field] = w.value]
<1>1. w.value = 1 /\ (w.field = "general" \/ w.field \in Matrix!Sources)
  BY DEF Writes
<1>2. CASE w.field = "general"
  <2>1. next = [doc EXCEPT !.general = 1]
    BY <1>1, <1>2
  <2>2. 1 \in {0, 1}
    OBVIOUS
  <2>3. Doc(next)
    BY <2>1, <2>2, GeneralEdited
  <2> HIDE DEF next
  <2> QED
    BY <2>3, ValidatedIs DEF Patched, next
<1>3. CASE w.field # "general"
  <2>1. next = [doc EXCEPT !.content[w.field] = 1] /\ w.field \in Matrix!Sources
    BY <1>1, <1>3
  <2>2. 1 \in {Matrix!Unfilled, 1}
    OBVIOUS
  <2>3. Doc(next)
    BY <2>1, <2>2, ContentEdited
  <2> HIDE DEF next
  <2> QED
    BY <2>3, ValidatedIs DEF Patched, next
<1> QED
  BY <1>2, <1>3

\* A new request is one.
LEMMA NewRequestIs == Doc(NewRequest)
<1> DEFINE blank == [general |-> 0, content |-> [s \in Matrix!Sources |-> Matrix!Unfilled],
                     rows |-> << >>, options |-> {}, kind |-> 0, locked |-> FALSE, number |-> 0,
                     draft |-> NoDraft, result |-> NoResult, submission |-> FALSE]
<1>1. RowList(<< >>)
  <2> DEFINE nothing == {}
  <2>1. << >> \in Seq(nothing) /\ \A r \in nothing : OfTheOne(r)
    OBVIOUS
  <2> HIDE DEF nothing
  <2> QED
    BY <2>1 DEF RowList
<1>2. DraftOK(NoDraft) /\ ResultOK(NoResult)
  BY DEF DraftOK, NoDraft, ResultOK, NoResult
<1>3. blank.content \in [Matrix!Sources -> {Matrix!Unfilled, 1}]
  OBVIOUS
<1>4. Doc(blank)
  BY <1>1, <1>2, <1>3 DEF Doc, DocFields, Numbered
<1>5. NewRequest = Validated(blank)
  BY DEF NewRequest
<1> HIDE DEF blank
<1> QED
  BY <1>4, <1>5, ValidatedIs

-----------------------------------------------------------------------------
(* The invariant.                                                          *)

\* A proposal writes one of the things that may be written.
OfferOK(o) == o = NoOffer \/ o.writes[1] \in Writes

\* What the caller holds is a request, a draft and a proposal.
CarriedInvariant == Doc(carried) /\ DraftOK(kept) /\ OfferOK(offer)

\* At first the caller holds a request, new or filled in, no draft and no proposal.
LEMMA CarriedInitially == CarriedInit => CarriedInvariant
<1> SUFFICES ASSUME CarriedInit
             PROVE  CarriedInvariant
  OBVIOUS
<1>1. PICK filled \in {0, 1}, n \in Numbered :
        carried = Validated([NewRequest EXCEPT
                       !.general = filled, !.content = [s \in Matrix!Sources |-> filled],
                       !.locked  = (n = 1), !.number = n])
  BY DEF CarriedInit
<1> DEFINE first == [NewRequest EXCEPT
                       !.general = filled, !.content = [s \in Matrix!Sources |-> filled],
                       !.locked  = (n = 1), !.number = n]
           content == [s \in Matrix!Sources |-> filled]
<1>2. content \in [Matrix!Sources -> {Matrix!Unfilled, 1}]
  BY DEF Matrix!Unfilled
<1>3. (n = 1) \in BOOLEAN
  OBVIOUS
<1>4. first = [NewRequest EXCEPT !.general = filled, !.content = content,
                                 !.locked = (n = 1), !.number = n]
  OBVIOUS
<1> HIDE DEF content
<1>5. Doc(first)
  BY <1>2, <1>3, <1>4, NewRequestIs DEF Doc, DocFields
<1>6. carried = Validated(first)
  BY <1>1
<1> HIDE DEF first
<1>7. Doc(carried)
  BY <1>5, <1>6, ValidatedIs
<1>8. DraftOK(kept) /\ OfferOK(offer)
  BY DEF CarriedInit, DraftOK, NoDraft, OfferOK
<1> QED
  BY <1>7, <1>8 DEF CarriedInvariant

\* A step keeps the invariant if what is taken over, or made by an edit, is a request.
LEMMA RequestKeeps ==
  ASSUME CarriedInvariant, NEW next, Doc(next), Edits(next) \/ Taken(next)
  PROVE  CarriedInvariant'
<1>1. carried' = next /\ kept' = kept /\ offer' = offer
  BY DEF Edits, Taken
<1>2. Doc(carried') /\ DraftOK(kept') /\ OfferOK(offer')
  BY <1>1 DEF CarriedInvariant
<1> QED
  BY <1>2 DEF CarriedInvariant
\* The caller's edits of fields keep the invariant.
LEMMA EditKeeps ==
  ASSUME CarriedInvariant,
         \/ \E v \in {0, 1} : EditGeneral(v)
         \/ \E s \in Matrix!Sources, v \in {Matrix!Unfilled, 1} : EditContent(s, v)
         \/ Reopen
  PROVE  CarriedInvariant'
<1>1. Doc(carried)
  BY DEF CarriedInvariant
<1>2. CASE \E v \in {0, 1} : EditGeneral(v)
  <2>1. PICK v \in {0, 1} : EditGeneral(v)
    BY <1>2
  <2>2. Doc([carried EXCEPT !.general = v])
    BY <1>1, GeneralEdited
  <2> QED
    BY <2>1, <2>2, RequestKeeps DEF EditGeneral
<1>3. CASE \E s \in Matrix!Sources, v \in {Matrix!Unfilled, 1} : EditContent(s, v)
  <2>1. PICK s \in Matrix!Sources, v \in {Matrix!Unfilled, 1} : EditContent(s, v)
    BY <1>3
  <2>2. Doc([carried EXCEPT !.content[s] = v])
    BY <1>1, ContentEdited
  <2> QED
    BY <2>1, <2>2, RequestKeeps DEF EditContent
<1>4. CASE Reopen
  <2>1. Doc([carried EXCEPT !.locked = FALSE])
    BY <1>1, HeadEdited
  <2> QED
    BY <1>4, <2>1, RequestKeeps DEF Reopen
<1> QED
  BY <1>2, <1>3, <1>4

\* Its edits of Cases, which are picked anew or dropped, keep it.
LEMMA CaseKeeps ==
  ASSUME CarriedInvariant, NEW i \in DOMAIN carried.rows,
         \/ DropCase(i)
         \/ \E f \in Matrix!Fields :
              \E o \in Range(Matrix!Options(carried.content, Alone, f)) : PickCase(i, f, o)
  PROVE  CarriedInvariant'
<1>1. Doc(carried)
  BY DEF CarriedInvariant
<1>2. RowList(carried.rows)
  BY <1>1 DEF Doc
<1>3. CASE DropCase(i)
  <2>1. RowList(RemoveAt(carried.rows, i))
    BY <1>2, RowListWithout
  <2>2. Doc([carried EXCEPT !.rows = RemoveAt(carried.rows, i)])
    BY <1>1, <2>1, RowsEdited
  <2> QED
    BY <1>3, <2>2, RequestKeeps DEF DropCase
<1>4. CASE \E f \in Matrix!Fields :
             \E o \in Range(Matrix!Options(carried.content, Alone, f)) : PickCase(i, f, o)
  <2>1. PICK f \in Matrix!Fields : \E o : PickCase(i, f, o)
    BY <1>4
  <2>2. PICK o : PickCase(i, f, o)
    BY <2>1
  <2> DEFINE r    == carried.rows[i]
             made == [r EXCEPT !.pick[f] = o]
             rows == [carried.rows EXCEPT ![i] = made]
  <2>3. /\ Len(carried.rows) \in Nat /\ DOMAIN carried.rows = 1..Len(carried.rows)
        /\ \A k \in 1..Len(carried.rows) : OfTheOne(carried.rows[k])
    BY <1>2, RowListIs
  <2>4. OfTheOne(made)
    BY <2>3 DEF OfTheOne
  <2>5. rows = [k \in 1..Len(carried.rows) |-> rows[k]]
    BY <2>3
  <2>6. \A k \in 1..Len(carried.rows) : OfTheOne(rows[k])
    <3> HIDE DEF made
    <3> QED
      BY <2>3, <2>4
  <2>7. [carried EXCEPT !.rows[i].pick[f] = o] = [carried EXCEPT !.rows = rows]
    OBVIOUS
  <2> HIDE DEF rows
  <2>8. RowList(rows)
    BY <2>3, <2>5, <2>6, RowListOf
  <2>9. Doc([carried EXCEPT !.rows = rows])
    BY <1>1, <2>8, RowsEdited
  <2> QED
    BY <2>2, <2>7, <2>9, RequestKeeps DEF PickCase
<1> QED
  BY <1>3, <1>4

\* The calls that bring the request in line, or begin another, keep it.
LEMMA ValidationKeeps ==
  ASSUME CarriedInvariant,
         \/ New
         \/ Save
         \/ \E k \in Analyses : SelectKind(k) \/ RefreshFieldset(k) \/ LockOn(k)
  PROVE  CarriedInvariant'
<1>1. Doc(carried)
  BY DEF CarriedInvariant
<1>2. CASE New
  BY <1>2, NewRequestIs, RequestKeeps DEF New
<1>3. CASE Save
  <2>1. Doc(Validated(carried))
    BY <1>1, ValidatedIs
  <2> QED
    BY <1>3, <2>1, RequestKeeps DEF Save
<1>4. CASE \E k \in Analyses : SelectKind(k) \/ RefreshFieldset(k) \/ LockOn(k)
  <2>1. PICK k \in Analyses : SelectKind(k) \/ RefreshFieldset(k) \/ LockOn(k)
    BY <1>4
  <2>2. CASE SelectKind(k)
    <3>1. Doc(Normalized(carried))
      BY <1>1, NormalizedIs
    <3>2. Doc([Normalized(carried) EXCEPT !.kind = k])
      BY <3>1, KindEdited
    <3>3. Doc(Validated([Normalized(carried) EXCEPT !.kind = k]))
      BY <3>2, ValidatedIs
    <3> QED
      BY <2>2, <3>3, RequestKeeps DEF SelectKind
  <2>3. CASE RefreshFieldset(k)
    <3>1. Doc(Validated(carried))
      BY <1>1, ValidatedIs
    <3>2. Doc([Validated(carried) EXCEPT !.kind = k])
      BY <3>1, KindEdited
    <3>3. Doc(Validated([Validated(carried) EXCEPT !.kind = k]))
      BY <3>2, ValidatedIs
    <3> QED
      BY <2>3, <3>3, RequestKeeps DEF RefreshFieldset
  <2>4. CASE LockOn(k)
    <3>1. Doc([carried EXCEPT !.kind = k, !.locked = TRUE, !.number = 1])
      BY <1>1, KindEdited
    <3>2. Doc(LockedOn(carried, k))
      BY <3>1, ValidatedIs DEF LockedOn
    <3> QED
      BY <2>4, <3>2, RequestKeeps DEF LockOn
  <2> QED
    BY <2>1, <2>2, <2>3, <2>4
<1> QED
  BY <1>2, <1>3, <1>4

\* Drafts, whether taken over or kept aside, reviews and submissions keep it.
LEMMA ReviewKeeps ==
  ASSUME CarriedInvariant,
         \/ Draft
         \/ KeepDraft
         \/ Submit
         \/ \E d \in {carried.draft, kept} : Review(d) \/ Review(Approved(d))
  PROVE  CarriedInvariant'
<1>1. Doc(carried) /\ DraftOK(kept)
  BY DEF CarriedInvariant
<1>2. \A d \in Suggested(DraftOf(carried)) : DraftOK(d)
  BY DraftOfIs, SuggestedIs
<1>3. CASE Draft
  <2>1. PICK d \in Suggested(DraftOf(carried)) : Taken(Drafted(carried, d))
    BY <1>3 DEF Draft
  <2>2. Doc(Drafted(carried, d))
    BY <1>1, <1>2, DraftedIs
  <2> QED
    BY <2>1, <2>2, RequestKeeps
<1>4. CASE KeepDraft
  <2>1. PICK d \in Suggested(DraftOf(carried)) : kept' = d
    BY <1>4 DEF KeepDraft
  <2>2. carried' = carried /\ offer' = offer
    BY <1>4 DEF KeepDraft
  <2>3. Doc(carried') /\ DraftOK(kept') /\ OfferOK(offer')
    BY <1>2, <2>1, <2>2 DEF CarriedInvariant
  <2> QED
    BY <2>3 DEF CarriedInvariant
<1>5. CASE Submit
  <2>1. Doc(Submitted(carried))
    BY <1>1, SubmittedIs
  <2> QED
    BY <1>5, <2>1, RequestKeeps DEF Submit
<1>6. CASE \E d \in {carried.draft, kept} : Review(d) \/ Review(Approved(d))
  <2>1. PICK d \in {carried.draft, kept} : Review(d) \/ Review(Approved(d))
    BY <1>6
  <2>2. DraftOK(d)
    BY <1>1 DEF Doc
  <2>3. DraftOK(Approved(d))
    BY <2>2, SuggestedIs
  <2>4. Doc(Reviewed(carried, d)) /\ Doc(Reviewed(carried, Approved(d)))
    BY <1>1, <2>2, <2>3, ReviewedIs
  <2> QED
    BY <2>1, <2>4, RequestKeeps DEF Review
<1> QED
  BY <1>3, <1>4, <1>5, <1>6

\* Making a proposal and applying it keep it.
LEMMA ProposalKeeps ==
  ASSUME CarriedInvariant, Apply \/ \E w \in Writes : Propose(w)
  PROVE  CarriedInvariant'
<1>1. Doc(carried)
  BY DEF CarriedInvariant
<1>2. CASE Apply
  <2>1. offer.writes[1] \in Writes
    BY <1>2 DEF Apply, CarriedInvariant, OfferOK
  <2>2. Doc(Patched(carried, offer.writes[1]))
    BY <1>1, <2>1, PatchedIs
  <2> QED
    BY <1>2, <2>2, RequestKeeps DEF Apply
<1>3. CASE \E w \in Writes : Propose(w)
  <2>1. PICK w \in Writes : Propose(w)
    BY <1>3
  <2>2. /\ offer' = [prints |-> Prints(carried), writes |-> <<w>>]
        /\ carried' = carried /\ kept' = kept
    BY <2>1 DEF Propose
  <2>3. offer'.writes[1] = w
    BY <2>2
  <2>4. Doc(carried') /\ DraftOK(kept') /\ OfferOK(offer')
    BY <2>2, <2>3 DEF CarriedInvariant, OfferOK
  <2> QED
    BY <2>4 DEF CarriedInvariant
<1> QED
  BY <1>2, <1>3

\* Every step keeps the invariant.
LEMMA CarriedNextKeeps ==
  ASSUME CarriedInvariant, [CarriedNext]_carriedVars
  PROVE  CarriedInvariant'
<1>1. CASE UNCHANGED carriedVars
  <2>1. carried' = carried /\ kept' = kept /\ offer' = offer
    BY <1>1 DEF carriedVars
  <2>2. Doc(carried') /\ DraftOK(kept') /\ OfferOK(offer')
    BY <2>1 DEF CarriedInvariant
  <2> QED
    BY <2>2 DEF CarriedInvariant
<1>2. CASE CarriedNext
  BY <1>2, EditKeeps, CaseKeeps, ValidationKeeps, ReviewKeeps, ProposalKeeps DEF CarriedNext
<1> QED
  BY <1>1, <1>2

(***************************************************************************)
(* In every state the caller holds a request, a draft and a proposal,      *)
(* whatever it edits, calls, keeps aside and sends with a later request.   *)
(***************************************************************************)
THEOREM CarriedHolds == CarriedSpec => []CarriedInvariant
<1>1. CarriedInit => CarriedInvariant
  BY CarriedInitially
<1>2. CarriedInvariant /\ [CarriedNext]_carriedVars => CarriedInvariant'
  BY CarriedNextKeeps
<1> QED
  BY <1>1, <1>2, PTL DEF CarriedSpec

(***************************************************************************)
(* The request is typed, and it has a payload if and only if the last call *)
(* that made a result is a review that allows the submission.              *)
(***************************************************************************)
THEOREM CarriedTypes == CarriedSpec => []CarriedTypeOK
<1>1. CarriedInvariant => CarriedTypeOK
  BY DEF CarriedInvariant, CarriedTypeOK, Doc, DraftOK, ResultOK
<1> QED
  BY <1>1, CarriedHolds, PTL

(***************************************************************************)
(* The validator, which decides about the submission, and the gate of the  *)
(* Word file, which looks at the Cases once more, agree: of a confirmed    *)
(* request that may be submitted, a file can be made.                      *)
(***************************************************************************)
THEOREM SubmittableExported == CarriedSpec => []SubmittableIsExportable
<1>1. ASSUME CarriedInvariant, CanSubmit(Validated(carried))
      PROVE  WordAnswer(carried) = "file"
  <2> DEFINE v == Validated(carried)
             n == Normalized(carried)
  <2>1. Doc(carried)
    BY <1>1 DEF CarriedInvariant
  <2>2. v.content = carried.content /\ v.rows = n.rows /\ RowList(n.rows)
    BY <2>1, ValidatedIs, NormalizedIs
  <2>3. CanSubmitInputs(Inputs(v))
    BY <1>1 DEF CanSubmit
  <2> HIDE DEF v
  <2>4. Inputs(v).rows = v.rows /\ Inputs(v).content = v.content
    BY DEF Inputs
  <2>5. Matrix!Blocking(Matrix!Verdict(n.rows, carried.content)) = {}
    BY <2>2, <2>3, <2>4 DEF CanSubmitInputs
  <2> HIDE DEF n
  <2>6. WordOfRows(n.rows, carried.content) = "file"
    BY <2>2, <2>5, CleanRowsAreExported
  <2> QED
    BY <2>6 DEF WordAnswer, n
<1>2. CarriedInvariant => SubmittableIsExportable
  BY <1>1 DEF SubmittableIsExportable
<1> QED
  BY <1>2, CarriedHolds, PTL

=============================================================================
