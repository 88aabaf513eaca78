----------------------------- MODULE Workspaces -----------------------------
(***************************************************************************)
(* The server's fence between browsers, and its audit log (app.py,         *)
(* orchestrator_audit).  A browser is known by a workspace id in its       *)
(* cookie, given with the first answer that needs one; a request belongs   *)
(* to the workspace it was created in, or, when the server made it itself, *)
(* to the first one that names it.  Behind the fence run the versioned     *)
(* save and the read-only actions, which read the latest request, answer   *)
(* only for that version (case_matrix_action, validation_action,           *)
(* preview_action, rag_guidance_action) and leave an event in the log.     *)
(*                                                                         *)
(* A conversation or proposal id leads to its request, and is fenced like  *)
(* it; what an undo does is in ProposalLedger.                             *)
(***************************************************************************)
EXTENDS Integers, SequencesExt

CONSTANTS
  Tabs, Browser,   \* the tabs of the browsers, each with one call at a time: [Tabs -> browsers]
  MaxEvents,       \* what the audit log keeps
  RequestLimit, CallLimit   \* bounds

ASSUME BrowserAssumption == DOMAIN Browser = Tabs
ASSUME MaxEventsAssumption == MaxEvents \in Nat \ {0}

VARIABLES
  versions,   \* the requests the server keeps: their versions, by request id
  owners,     \* [request id -> workspace], 0 when nobody owns it
  issued,     \* workspace ids given so far
  jar,        \* [browser -> workspace in its cookie], 0 without one
  known,      \* [browser -> the ids of the requests it created]
  provided,   \* requests the server made itself
  log,        \* [events, sequence]
  callOf,      \* [tab -> its call]
  crowded,      \* browsers that sent a call while one without a cookie was under way
  sentCalls   \* number of calls so far (bound)

fenceVars == <<versions, owners, issued, jar, known, provided, log, callOf, crowded,
               sentCalls>>

Browsers   == {Browser[t] : t \in Tabs}
RequestIds == DOMAIN versions
Unsent     == [at |-> "idle", op |-> "", id |-> 0, workspace |-> 0, fresh |-> FALSE,
               version |-> 0, code |-> "", mine |-> {}, events |-> {}]

(* The actions that read the latest request, what may come of them beside  *)
(* a conflict, and what of it counts as success.                           *)
Outcomes(op) ==
  CASE op = "case_matrix" -> {"ready", "blocked", "failed"}
    [] op = "validation"  -> {"ready", "blocked", "failed"}
    [] op = "preview"     -> {"ready", "failed"}
    [] op = "rag"         -> {"ready", "no_result", "disabled", "error", "malformed", "failed"}
Reading   == {"case_matrix", "validation", "preview", "rag"}
Succeeds(code) == code \in {"ready", "no_result", "disabled", "updated", "created"}

----------------------------------------------------------------------------
(* Where a call goes next, with some of its fields changed.                *)
Goto(t, call) == callOf' = [callOf EXCEPT ![t] = call]

(* A call without a workspace id is given one when it is asked for it.     *)
Identified(t) == IF callOf[t].workspace # 0 THEN callOf[t].workspace ELSE issued + 1
Identify(t) == issued' = IF callOf[t].workspace # 0 THEN issued ELSE issued + 1

(* An event for one result; the log keeps the latest.                      *)
Appended(events, e) ==
  LET all == Append(events, e)
  IN  SubSeq(all, 1 + (IF Len(all) > MaxEvents THEN Len(all) - MaxEvents ELSE 0), Len(all))

Observed(c) ==
  LET e == [sequence |-> log.sequence + 1, id |-> c.id,
            result |-> IF Succeeds(c.code) THEN c.code ELSE "failure"]
  IN log' = [events |-> Appended(log.events, e), sequence |-> log.sequence + 1]

----------------------------------------------------------------------------
\* Mutant: the cookie is not sent along.
SendBare(t, call) ==
  /\ callOf[t].at = "idle" /\ sentCalls < CallLimit
  /\ sentCalls' = sentCalls + 1
  /\ LET b == Browser[t]
     IN /\ Goto(t, [call EXCEPT !.workspace = 0, !.fresh = TRUE])
        /\ crowded' = IF \E u \in Tabs : /\ Browser[u] = b
                                       /\ callOf[u].at # "idle" /\ jar[b] = 0
                    THEN crowded \union {b} ELSE crowded
  /\ UNCHANGED <<owners, issued, jar, known, provided, log>>

(* A browser sends a call, with the cookie it has.                         *)
Send(t, call) ==
  /\ callOf[t].at = "idle" /\ sentCalls < CallLimit
  /\ sentCalls' = sentCalls + 1
  /\ LET b == Browser[t]
     IN /\ Goto(t, [call EXCEPT !.workspace = jar[b], !.fresh = jar[b] = 0])
        /\ crowded' = IF \E u \in Tabs : /\ Browser[u] = b
                                       /\ callOf[u].at # "idle" /\ jar[b] = 0
                    THEN crowded \union {b} ELSE crowded
  /\ UNCHANGED <<owners, issued, jar, known, provided, log>>

(* The new request is stored, and then registered.                         *)
Create(t) ==
  /\ Len(versions) < RequestLimit
  /\ Send(t, [Unsent EXCEPT !.at = "register", !.op = "create", !.id = Len(versions) + 1])
  /\ versions' = Append(versions, 1)

Register(t) ==
  /\ callOf[t].at = "register"
  /\ owners' = [id \in DOMAIN owners \union {callOf[t].id} |->
                  IF id = callOf[t].id THEN Identified(t) ELSE owners[id]]
  /\ Identify(t)
  /\ Goto(t, [callOf[t] EXCEPT !.at = "answer", !.workspace = Identified(t), !.code = "created"])
  /\ UNCHANGED <<versions, jar, known, provided, log, crowded, sentCalls>>

(* A request made in the server, which everybody is told of (external).    *)
Provide ==
  /\ Len(versions) < RequestLimit
  /\ versions' = Append(versions, 1)
  /\ provided' = provided \union {Len(versions) + 1}
  /\ UNCHANGED <<owners, issued, jar, known, log, callOf, crowded, sentCalls>>

(* A save, a read-only action or an undo names a request the browser knows.*)
Ask(t, op, id, version) ==
  /\ id \in known[Browser[t]] \union provided
  /\ op = "put" => version \in 1..versions[id]
  /\ op # "put" => version = 0
  /\ Send(t, [Unsent EXCEPT !.at = "fence", !.op = op, !.id = id, !.version = version])
  /\ UNCHANGED versions

Owner(id) == IF id \in DOMAIN owners THEN owners[id] ELSE 0

\* Mutant: a request nobody owns is served to everybody.
OwnsUnclaimed(t) ==
  /\ owners' = owners
  /\ IF Owner(callOf[t].id) \in {0, Identified(t)}
     THEN Goto(t, [callOf[t] EXCEPT !.at = "run", !.workspace = Identified(t)])
     ELSE Goto(t, [callOf[t] EXCEPT !.at = "answer", !.workspace = Identified(t),
                                    !.code = "not_found"])

(* The request of the caller's workspace is served; one that nobody owns   *)
(* becomes the caller's.                                                   *)
Owns(t) ==
  LET id == callOf[t].id
      me == Identified(t)
  IN /\ owners' = IF Owner(id) # 0 THEN owners
                  ELSE [i \in DOMAIN owners \union {id} |-> IF i = id THEN me ELSE owners[i]]
     /\ IF Owner(id) \in {0, me}
        THEN Goto(t, [callOf[t] EXCEPT !.at = "run", !.workspace = me])
        ELSE Goto(t, [callOf[t] EXCEPT !.at = "answer", !.workspace = me, !.code = "not_found"])

Fence(t) ==
  /\ callOf[t].at = "fence"
  /\ Owns(t)
  /\ Identify(t)
  /\ UNCHANGED <<versions, jar, known, provided, log, crowded, sentCalls>>

(* The save swaps, or reports a conflict; either is recorded afterwards.   *)
Replace(t) ==
  /\ callOf[t].at = "run" /\ callOf[t].op = "put"
  /\ LET current == versions[callOf[t].id] = callOf[t].version
     IN /\ Goto(t, [callOf[t] EXCEPT !.at = "record",
                                     !.code = IF current THEN "updated" ELSE "conflict"])
        /\ versions' = IF current THEN [versions EXCEPT ![callOf[t].id] = @ + 1] ELSE versions
  /\ UNCHANGED <<owners, issued, jar, known, provided, log, crowded, sentCalls>>

(* An action reads the latest request, and runs if it is still the latest. *)
(* A question that is not about documents is refused before, unrecorded.   *)
ReadLatest(t) ==
  /\ callOf[t].at = "run" /\ callOf[t].op \in Reading
  /\ \/ Goto(t, [callOf[t] EXCEPT !.at = "fenced", !.version = versions[callOf[t].id]])
     \/ /\ callOf[t].op = "rag"
        /\ Goto(t, [callOf[t] EXCEPT !.at = "answer", !.code = "refused"])
  /\ UNCHANGED <<versions, owners, issued, jar, known, provided, log, crowded, sentCalls>>

RunFenced(t) ==
  /\ callOf[t].at = "fenced"
  /\ IF versions[callOf[t].id] = callOf[t].version
     THEN \E code \in Outcomes(callOf[t].op) :
            Goto(t, [callOf[t] EXCEPT !.at = "record", !.code = code])
     ELSE Goto(t, [callOf[t] EXCEPT !.at = "record", !.code = "conflict"])
  /\ UNCHANGED <<versions, owners, issued, jar, known, provided, log, crowded, sentCalls>>

Undo(t) ==
  /\ callOf[t].at = "run" /\ callOf[t].op = "undo"
  /\ \E code \in {"created", "unavailable"} :
       Goto(t, [callOf[t] EXCEPT !.at = "record", !.code = code])
  /\ UNCHANGED <<versions, owners, issued, jar, known, provided, log, crowded, sentCalls>>

Record(t) ==
  /\ callOf[t].at = "record"
  /\ Observed(callOf[t])
  /\ Goto(t, [callOf[t] EXCEPT !.at = "answer"])
  /\ UNCHANGED <<versions, owners, issued, jar, known, provided, crowded, sentCalls>>

(* The log is read for what the workspace owns: first what that is, then   *)
(* the events, whose order their sequence numbers keep.                    *)
AskEvents(t) ==
  /\ Send(t, [Unsent EXCEPT !.at = "owned", !.op = "events"])
  /\ UNCHANGED versions

OwnedBy(w) == {id \in DOMAIN owners : owners[id] = w}
\* Mutant: the log is shown as it is.
ShownAll(mine) == Range(log.events)
Shown(mine) == {e \in Range(log.events) : e.id \in mine}

ReadOwned(t) ==
  /\ callOf[t].at = "owned"
  /\ Identify(t)
  /\ Goto(t, [callOf[t] EXCEPT !.at = "events", !.workspace = Identified(t),
                              !.mine = OwnedBy(Identified(t))])
  /\ UNCHANGED <<versions, owners, jar, known, provided, log, crowded, sentCalls>>

ReadEvents(t) ==
  /\ callOf[t].at = "events"
  /\ Goto(t, [callOf[t] EXCEPT !.at = "answer", !.code = "events",
                              !.events = Shown(callOf[t].mine)])
  /\ UNCHANGED <<versions, owners, issued, jar, known, provided, log, crowded, sentCalls>>

(* The answer, with a cookie if the call had none.                         *)
Receive(t) ==
  /\ callOf[t].at = "answer"
  /\ jar'   = [jar EXCEPT ![Browser[t]] = IF callOf[t].fresh THEN callOf[t].workspace ELSE @]
  /\ known' = IF callOf[t].op = "create"
              THEN [known EXCEPT ![Browser[t]] = @ \union {callOf[t].id}] ELSE known
  /\ callOf' = [callOf EXCEPT ![t] = Unsent]
  /\ UNCHANGED <<versions, owners, issued, provided, log, crowded, sentCalls>>

----------------------------------------------------------------------------
FenceInit ==
  /\ versions = <<>> /\ owners = <<>> /\ issued = 0 /\ provided = {}
  /\ jar = [b \in Browsers |-> 0] /\ known = [b \in Browsers |-> {}] /\ crowded = {}
  /\ log = [events |-> <<>>, sequence |-> 0]
  /\ callOf = [t \in Tabs |-> Unsent] /\ sentCalls = 0

FenceNext ==
  \/ Provide
  \/ \E t \in Tabs :
       \/ Create(t) \/ Register(t) \/ Fence(t) \/ Replace(t) \/ ReadLatest(t) \/ RunFenced(t)
       \/ Undo(t) \/ Record(t) \/ AskEvents(t) \/ ReadOwned(t) \/ ReadEvents(t) \/ Receive(t)
       \/ \E op \in Reading \union {"put", "undo"}, id \in RequestIds :
            \E version \in 0..versions[id] : Ask(t, op, id, version)

FenceSpec == FenceInit /\ [][FenceNext]_fenceVars

----------------------------------------------------------------------------
(* Type invariant; the log holds the latest events, in order and without a *)
(* gap, and no more than it may.                                           *)
WorkspaceTypeOK ==
  /\ \A id \in DOMAIN owners : id \in RequestIds /\ owners[id] \in 1..issued
  /\ \A b \in Browsers : jar[b] \in 0..issued
  /\ Len(log.events) <= MaxEvents
  /\ \A k \in DOMAIN log.events : log.events[k].sequence = log.sequence - Len(log.events) + k
  /\ log.sequence >= MaxEvents => Len(log.events) = MaxEvents

(* Whatever passed the fence is done, recorded and answered for the        *)
(* workspace that owns the request, however the first callers raced.       *)
ServedByOwner ==
  \A t \in Tabs :
    callOf[t].at \in {"run", "fenced", "record"} => Owner(callOf[t].id) = callOf[t].workspace

(* A workspace is shown events of its own requests only, though it is      *)
(* looked up apart from the events.                                        *)
EventsAreOwn ==
  \A t \in Tabs : \A e \in callOf[t].events : Owner(e.id) = callOf[t].workspace

(* A browser reaches every request it created, unless it sent another call *)
(* before the answer that brought its cookie: each of the two is then a    *)
(* workspace of its own, and the later answer hides what the other made.   *)
BrowserReachesItsOwn ==
  \A b \in Browsers \ crowded : \A id \in known[b] : Owner(id) = jar[b]
=============================================================================
